---------------------------- MODULE MemSizeProofs ----------------------------
(***************************************************************************)
(* Proofs about MemSize for every uint64 value of hw.memsize, where TLC    *)
(* only reaches sizes below 2 GiB.                                         *)
(***************************************************************************)
EXTENDS MemSize, TLAPS

\* copy(padded, b) into make([]byte, 8), as the padded version does.
Pad8(val) == [i \in 1..8 |-> IF i <= Len(val) THEN val[i] ELSE 0]

\* The little-endian bytes of a uint64 decode back to it.
LEMMA DecodeEncode ==
    ASSUME NEW n, IsUint64(n)
    PROVE  LittleEndianUint64(LEBytes(n)) = n
<1> DEFINE q1 == Shr8(n)   q2 == Shr8(q1)  q3 == Shr8(q2)  q4 == Shr8(q3)
           q5 == Shr8(q4)  q6 == Shr8(q5)  q7 == Shr8(q6)
<1>1. n \in Nat
  BY DEF IsUint64
<1>2. /\ q1 \in Nat /\ q2 \in Nat /\ q3 \in Nat /\ q4 \in Nat
      /\ q5 \in Nat /\ q6 \in Nat /\ q7 \in Nat
  BY <1>1 DEF Shr8
<1>3. Shr8(q7) = 0
  BY DEF IsUint64
<1>4. /\ n = (n % 256) + 256 * q1
      /\ q1 = (q1 % 256) + 256 * q2
      /\ q2 = (q2 % 256) + 256 * q3
      /\ q3 = (q3 % 256) + 256 * q4
      /\ q4 = (q4 % 256) + 256 * q5
      /\ q5 = (q5 % 256) + 256 * q6
      /\ q6 = (q6 % 256) + 256 * q7
      /\ q7 = q7 % 256
  BY <1>1, <1>2, <1>3 DEF Shr8
<1>5. LEBytes(n) = <<n % 256, q1 % 256, q2 % 256, q3 % 256,
                     q4 % 256, q5 % 256, q6 % 256, q7 % 256>>
  BY DEF LEBytes
<1>6. QED
  BY <1>4, <1>5 DEF LittleEndianUint64

\* Sysctl drops at most a zero last byte, which zero-padding puts back.
LEMMA PadUndoesTrim ==
    ASSUME NEW n, IsUint64(n)
    PROVE  Pad8(Sysctl(n)) = LEBytes(n)
<1> DEFINE b == LEBytes(n)
<1>1. b \in Seq(Int) /\ Len(b) = 8
  BY DEF b, LEBytes, Shr8, IsUint64
<1>2. CASE b[8] = 0
  <2>1. Sysctl(n) = SubSeq(b, 1, 7)
    BY <1>2 DEF b, Sysctl
  <2>2. Len(SubSeq(b, 1, 7)) = 7 /\ \A i \in 1..7 : SubSeq(b, 1, 7)[i] = b[i]
    BY <1>1
  <2>3. QED
    BY <1>1, <1>2, <2>1, <2>2 DEF Pad8, b
<1>3. CASE b[8] # 0
  <2>1. Sysctl(n) = b
    BY <1>3 DEF b, Sysctl
  <2>2. DOMAIN b = 1..8
    BY <1>1
  <2>3. Pad8(b) = [i \in 1..8 |-> b[i]]
    BY <1>1 DEF Pad8
  <2>4. b = [i \in 1..8 |-> b[i]]
    BY <1>1, <2>2
  <2>5. QED
    BY <2>1, <2>3, <2>4
<1>4. QED
  BY <1>2, <1>3

\* The padded darwin version returns hw.memsize in whole MiB for every
\* uint64 size, on every path Sysctl can take with its trailing NUL.
LEMMA PaddedExactForAll ==
    ASSUME NEW n, IsUint64(n)
    PROVE  DarwinTotalMemoryMBPadded(TRUE, Sysctl(n)) = n \div Mebi
<1>1. LittleEndianUint64(Pad8(Sysctl(n))) = n
  BY PadUndoesTrim, DecodeEncode
<1>2. QED
  BY <1>1 DEF DarwinTotalMemoryMBPadded, Pad8

\* The inductive invariant: the host never changes, and a recorded result
\* of the padded version is exact.
IInv ==
    /\ memsize \in MemSizes /\ sysctlOk \in BOOLEAN
    /\ PaddedMemExact

\* PaddedMemExact, the property the MCMemSize run checks on sizes below
\* 2 GiB, holds for every set of uint64 sizes: the part_000 darwin version
\* reports hw.memsize correctly whatever its top byte.
THEOREM PaddedMemExactHolds == Spec => []PaddedMemExact
<1>1. Init => IInv
  BY DEF Init, IInv, PaddedMemExact
<1>2. IInv /\ [Next]_vars => IInv'
  <2> SUFFICES ASSUME IInv, [Next]_vars PROVE IInv'
    OBVIOUS
  <2>1. CASE CallDarwinPadded
    <3>1. IsUint64(memsize)
      BY MemSizesAssumption DEF IInv
    <3>2. QED
      BY <2>1, <3>1, PaddedExactForAll DEF CallDarwinPadded, IInv, PaddedMemExact
  <2>4. CASE ~CallDarwinPadded
    BY <2>4 DEF Next, CallDarwin, CallDarwinPadded, CallLinux, Done, vars, IInv,
       PaddedMemExact
  <2>5. QED
    BY <2>1, <2>4
<1>3. IInv => PaddedMemExact
  BY DEF IInv
<1>4. QED
  BY <1>1, <1>2, <1>3, PTL DEF Spec

-----------------------------------------------------------------------------
(* Type correctness: every version returns a natural number of MiB.        *)

\* What Sysctl returns for hw.memsize: 7 or 8 bytes.
LEMMA SysctlBytes ==
    ASSUME NEW n, IsUint64(n)
    PROVE  /\ Sysctl(n) \in Seq(Nat)
           /\ Len(Sysctl(n)) \in {7, 8}
<1> DEFINE b == LEBytes(n)
<1>1. b \in Seq(Nat) /\ Len(b) = 8
  BY DEF b, LEBytes, Shr8, IsUint64
<1>2. CASE b[8] = 0
  <2>1. Sysctl(n) = SubSeq(b, 1, 7)
    BY <1>2 DEF b, Sysctl
  <2>2. SubSeq(b, 1, 7) = [i \in 1..7 |-> b[i]]
    BY <1>1
  <2>a. \A i \in 1..7 : b[i] \in Nat
    BY DEF b, LEBytes, Shr8, IsUint64
  <2>b. [i \in 1..7 |-> b[i]] \in [1..7 -> Nat]
    BY <2>a
  <2>3. [i \in 1..7 |-> b[i]] \in Seq(Nat)
    BY <2>b
  <2>4. QED
    BY <2>1, <2>2, <2>3
<1>3. CASE b[8] # 0
  BY <1>1, <1>3 DEF b, Sysctl
<1>4. QED
  BY <1>2, <1>3

\* Eight bytes decode to a natural number.
LEMMA DecodeNat ==
    ASSUME NEW b, \A i \in 1..8 : b[i] \in Nat
    PROVE  LittleEndianUint64(b) \in Nat
<1>1. /\ b[1] \in Nat /\ b[2] \in Nat /\ b[3] \in Nat /\ b[4] \in Nat
      /\ b[5] \in Nat /\ b[6] \in Nat /\ b[7] \in Nat /\ b[8] \in Nat
  OBVIOUS
<1>2. \A x, y \in Nat : x + 256 * y \in Nat
  OBVIOUS
<1> DEFINE x7 == b[7] + 256 * b[8]   x6 == b[6] + 256 * x7   x5 == b[5] + 256 * x6
           x4 == b[4] + 256 * x5   x3 == b[3] + 256 * x4   x2 == b[2] + 256 * x3
<1>3. x7 \in Nat
  BY <1>1, <1>2
<1>4. x6 \in Nat /\ x5 \in Nat /\ x4 \in Nat
  BY <1>1, <1>2, <1>3
<1>5. x3 \in Nat /\ x2 \in Nat /\ b[1] + 256 * x2 \in Nat
  BY <1>1, <1>2, <1>4
<1>6. QED
  BY <1>5 DEF LittleEndianUint64

\* Both darwin versions return a natural number for every size.
LEMMA DarwinNat ==
    ASSUME NEW n, IsUint64(n), NEW ok \in BOOLEAN
    PROVE  /\ DarwinTotalMemoryMB(ok, Sysctl(n)) \in Nat
           /\ DarwinTotalMemoryMBPadded(ok, Sysctl(n)) \in Nat
<1> DEFINE val == Sysctl(n)
<1>1. val \in Seq(Nat) /\ Len(val) \in {7, 8}
  BY SysctlBytes
<1>2. \A i \in 1..8 : (IF i <= Len(val) THEN val[i] ELSE 0) \in Nat
  BY <1>1
<1>3. LittleEndianUint64([i \in 1..8 |-> IF i <= Len(val) THEN val[i] ELSE 0]) \in Nat
  BY <1>2, DecodeNat
<1>4. Len(val) >= 8 => \A i \in 1..8 : SubSeq(Append(val, 0), 1, 8)[i] \in Nat
  BY <1>1
<1>5. Len(val) >= 8 => LittleEndianUint64(SubSeq(Append(val, 0), 1, 8)) \in Nat
  BY <1>4, DecodeNat
<1>6. QED
  BY <1>3, <1>5 DEF DarwinTotalMemoryMB, DarwinTotalMemoryMBPadded, FallbackMB, Mebi

\* Every call of every version leaves a natural number of MiB, or no
\* result yet: sysinfo's product, the decoded sysctl bytes and the 2048
\* fallback are all non-negative, for every host the constants allow.
THEOREM TypeCorrect == Spec => []TypeOK
<1>1. Init => TypeOK
  BY DEF Init, TypeOK
<1>2. TypeOK /\ [Next]_vars => TypeOK'
  <2> SUFFICES ASSUME TypeOK, [Next]_vars PROVE TypeOK'
    OBVIOUS
  <2>1. IsUint64(memsize)
    BY MemSizesAssumption DEF TypeOK
  <2>2. CASE CallDarwin \/ CallDarwinPadded
    BY <2>1, <2>2, DarwinNat DEF CallDarwin, CallDarwinPadded, TypeOK
  <2>3. CASE CallLinux
    <3>1. totalram * unit \in Nat
      BY LinuxAssumption DEF TypeOK
    <3>2. LinuxTotalMemoryMB(sysinfoOk, totalram, unit) \in Nat
      BY <3>1 DEF LinuxTotalMemoryMB, FallbackMB, Mebi
    <3>3. QED
      BY <2>3, <3>2 DEF CallLinux, TypeOK
  <2>4. CASE Done \/ UNCHANGED vars
    BY <2>4 DEF Done, vars, TypeOK
  <2>5. QED
    BY <2>2, <2>3, <2>4 DEF Next
<1>3. QED
  BY <1>1, <1>2, PTL DEF Spec

-----------------------------------------------------------------------------
(* The extent of the sysinfo_darwin.go finding, for every uint64 size.     *)

\* 2^56: the sizes below it have a zero top byte.
TwoTo56 == 72057594037927936

\* The top byte of the little-endian value is zero exactly below 2^56.
LEMMA TopByteZero ==
    ASSUME NEW n, IsUint64(n)
    PROVE  LEBytes(n)[8] = 0 <=> n < TwoTo56
<1> DEFINE q1 == Shr8(n)   q2 == Shr8(q1)  q3 == Shr8(q2)  q4 == Shr8(q3)
           q5 == Shr8(q4)  q6 == Shr8(q5)  q7 == Shr8(q6)
<1>1. n \in Nat
  BY DEF IsUint64
<1>2. LEBytes(n)[8] = q7 % 256
  BY DEF LEBytes
<1>3. Shr8(q7) = 0
  BY DEF IsUint64
<1>4. q7 \in Nat /\ q7 % 256 = q7
  BY <1>1, <1>3 DEF Shr8
<1>5. q7 = n \div TwoTo56
  BY <1>1 DEF Shr8, TwoTo56
<1>6. QED
  BY <1>1, <1>2, <1>4, <1>5 DEF TwoTo56

\* What sysinfo_darwin.go returns when sysctl succeeds: the 2048 fallback
\* for every size below 2^56 bytes (Sysctl dropped the zero top byte, so
\* val has 7 bytes), and the exact size in MiB from 2^56 bytes on.
LEMMA DarwinResult ==
    ASSUME NEW n, IsUint64(n)
    PROVE  DarwinTotalMemoryMB(TRUE, Sysctl(n))
             = IF n < TwoTo56 THEN FallbackMB ELSE n \div Mebi
<1> DEFINE b == LEBytes(n)
<1>1. b \in Seq(Nat) /\ Len(b) = 8
  BY DEF b, LEBytes, Shr8, IsUint64
<1>2. b[8] = 0 <=> n < TwoTo56
  BY TopByteZero DEF b
<1>3. CASE n < TwoTo56
  <2>1. Sysctl(n) = SubSeq(b, 1, 7)
    BY <1>2, <1>3 DEF b, Sysctl
  <2>2. Len(SubSeq(b, 1, 7)) = 7
    BY <1>1
  <2>3. QED
    BY <1>3, <2>1, <2>2 DEF DarwinTotalMemoryMB
<1>4. CASE ~(n < TwoTo56)
  <2>1. Sysctl(n) = b
    BY <1>2, <1>4 DEF b, Sysctl
  <2>a. /\ Append(b, 0) \in Seq(Nat) /\ Len(Append(b, 0)) = 9
        /\ \A i \in 1..8 : Append(b, 0)[i] = b[i]
    BY <1>1 DEF b, LEBytes, Shr8, IsUint64
  <2>b. SubSeq(Append(b, 0), 1, 8) = [i \in 1..8 |-> Append(b, 0)[i]]
    BY <2>a
  <2>c. [i \in 1..8 |-> Append(b, 0)[i]] = [i \in 1..8 |-> b[i]]
    BY <2>a
  <2>d. b = [i \in 1..8 |-> b[i]]
    BY <1>1
  <2>2. SubSeq(Append(b, 0), 1, 8) = b
    BY <2>b, <2>c, <2>d
  <2>3. LittleEndianUint64(b) = n
    BY DecodeEncode DEF b
  <2>4. DarwinTotalMemoryMB(TRUE, b) = LittleEndianUint64(SubSeq(Append(b, 0), 1, 8)) \div Mebi
    BY <1>1 DEF DarwinTotalMemoryMB
  <2>5. QED
    BY <1>4, <2>1, <2>2, <2>3, <2>4
<1>5. QED
  BY <1>3, <1>4

\* The result sysinfo_darwin.go recorded, for the host's size.
DarwinOutcome ==
    (darwinMB # NoResult /\ sysctlOk) =>
        darwinMB = IF memsize < TwoTo56 THEN FallbackMB ELSE memsize \div Mebi

\* The darwin_memsize_fallback run shows DarwinMemExact violated on sizes
\* below 2 GiB; this theorem gives the whole extent of the bug in
\* sysinfo_darwin.go for every uint64 hw.memsize: the 2048 fallback for
\* every host below 2^56 bytes (64 PiB, so every real Mac), the exact size
\* only above.
THEOREM DarwinOutcomeHolds == Spec => []DarwinOutcome
<1>1. Init => DarwinOutcome
  BY DEF Init, DarwinOutcome
<1>2. TypeOK /\ DarwinOutcome /\ [Next]_vars => DarwinOutcome'
  <2> SUFFICES ASSUME TypeOK, DarwinOutcome, [Next]_vars PROVE DarwinOutcome'
    OBVIOUS
  <2>1. IsUint64(memsize)
    BY MemSizesAssumption DEF TypeOK
  <2>2. CASE CallDarwin
    BY <2>1, <2>2, DarwinResult DEF CallDarwin, DarwinOutcome
  <2>3. CASE CallDarwinPadded \/ CallLinux \/ Done \/ UNCHANGED vars
    BY <2>3 DEF CallDarwinPadded, CallLinux, Done, vars, DarwinOutcome
  <2>4. QED
    BY <2>2, <2>3 DEF Next
<1>3. QED
  BY <1>1, <1>2, TypeCorrect, PTL DEF Spec

=============================================================================
