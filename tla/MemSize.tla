------------------------------ MODULE MemSize ------------------------------
(***************************************************************************)
(* totalMemoryMB, the host's physical memory in MiB, in its three forms:   *)
(*   - cmd/matchlock/sysinfo_darwin.go: sysctl hw.memsize, decoded only    *)
(*     when the returned string has 8 bytes, else the 2048 fallback;       *)
(*   - the darwin version in src/unnamed/part_000 (901-914): the string is *)
(*     zero-padded to 8 bytes, and a failing sysctl is an error;           *)
(*   - cmd/matchlock/sysinfo_linux.go: sysinfo(2) Totalram * Unit.         *)
(* A uint64 is kept as the 8 bytes the kernel stores, little-endian, so    *)
(* that the decoding the code does is modelled by what it does.            *)
(***************************************************************************)
EXTENDS Integers, Sequences

CONSTANTS
    MemSizes,     \* values hw.memsize may have
    Totalrams,    \* values of sysinfo's Totalram
    Units,        \* values of sysinfo's mem_unit
    NoResult      \* no call of that version yet

\* x >> 8.
Shr8(x) == x \div 256

\* A natural number that fits in 64 bits: eight byte shifts leave nothing.
IsUint64(n) ==
    n \in Nat /\ Shr8(Shr8(Shr8(Shr8(Shr8(Shr8(Shr8(Shr8(n)))))))) = 0

ASSUME MemSizesAssumption == \A n \in MemSizes : IsUint64(n)
ASSUME LinuxAssumption ==
    /\ Totalrams \subseteq Nat /\ Units \subseteq Nat
    /\ \A t \in Totalrams, u \in Units : IsUint64(t * u)

Mebi == 1024 * 1024

\* The fallback both Go versions return when they cannot read the size.
FallbackMB == 2048

\* The 8 bytes of a uint64 in memory on a little-endian host, as the
\* kernel copies them out for sysctl hw.memsize.
LEBytes(n) ==
    LET q1 == Shr8(n)   q2 == Shr8(q1)  q3 == Shr8(q2)  q4 == Shr8(q3)
        q5 == Shr8(q4)  q6 == Shr8(q5)  q7 == Shr8(q6)
    IN  <<n % 256, q1 % 256, q2 % 256, q3 % 256,
          q4 % 256, q5 % 256, q6 % 256, q7 % 256>>

\* syscall.Sysctl: the value as a string, with one terminating NUL byte
\* thrown away ("if n > 0 && buf[n-1] == '\x00' { n-- }").
Sysctl(n) ==
    LET b == LEBytes(n)
    IN  IF b[8] = 0 THEN SubSeq(b, 1, 7) ELSE b

\* binary.LittleEndian.Uint64 on the first 8 bytes of b.
LittleEndianUint64(b) ==
    b[1] + 256 * (b[2] + 256 * (b[3] + 256 * (b[4] + 256 *
      (b[5] + 256 * (b[6] + 256 * (b[7] + 256 * b[8]))))))

\* cmd/matchlock/sysinfo_darwin.go: fewer than 8 bytes means the fallback;
\* otherwise val + "\x00" is cut back to its first 8 bytes and decoded.
DarwinTotalMemoryMB(ok, val) ==
    IF ~ok \/ Len(val) < 8
      THEN FallbackMB
      ELSE LittleEndianUint64(SubSeq(Append(val, 0), 1, 8)) \div Mebi

\* Mutant: the short value is copied to the end of the zero bytes
\* (copy(padded[8-len(b):], b)), as for a big-endian number.
DarwinPaddedAtEnd(ok, val) ==
    IF ~ok THEN 0
    ELSE LittleEndianUint64([i \in 1..8 |-> IF i > 8 - Len(val) THEN val[i - (8 - Len(val))]
                                             ELSE 0])
           \div Mebi

\* src/unnamed/part_000 901-914: a short value is copied into 8 zero bytes;
\* a sysctl error returns 0 and the wrapped error (ok = FALSE).
DarwinTotalMemoryMBPadded(ok, val) ==
    IF ~ok THEN 0
    ELSE LittleEndianUint64([i \in 1..8 |-> IF i <= Len(val) THEN val[i] ELSE 0])
           \div Mebi

\* Mutant: a failing sysinfo(2) returns -1 instead of the 2048 fallback.
LinuxFailsNegative(ok, totalram, unit) ==
    IF ~ok THEN -1 ELSE (totalram * unit) \div Mebi

\* cmd/matchlock/sysinfo_linux.go: Totalram counts units of mem_unit bytes.
\* The uint64 product cannot wrap, since it is the host's memory in bytes.
LinuxTotalMemoryMB(ok, totalram, unit) ==
    IF ~ok THEN FallbackMB ELSE (totalram * unit) \div Mebi

-----------------------------------------------------------------------------
(* The host, and one call of each version.                                 *)

VARIABLES
    memsize, sysctlOk,           \* what sysctl hw.memsize reports
    totalram, unit, sysinfoOk,   \* what sysinfo(2) reports
    darwinMB, paddedMB, linuxMB  \* what each version returned

vars == <<memsize, sysctlOk, totalram, unit, sysinfoOk, darwinMB, paddedMB, linuxMB>>

Init ==
    /\ memsize \in MemSizes
    /\ sysctlOk \in BOOLEAN
    /\ totalram \in Totalrams
    /\ unit \in Units
    /\ sysinfoOk \in BOOLEAN
    /\ darwinMB = NoResult /\ paddedMB = NoResult /\ linuxMB = NoResult

CallDarwin ==
    /\ darwinMB = NoResult
    /\ darwinMB' = DarwinTotalMemoryMB(sysctlOk, Sysctl(memsize))
    /\ UNCHANGED <<memsize, sysctlOk, totalram, unit, sysinfoOk, paddedMB, linuxMB>>

CallDarwinPadded ==
    /\ paddedMB = NoResult
    /\ paddedMB' = DarwinTotalMemoryMBPadded(sysctlOk, Sysctl(memsize))
    /\ UNCHANGED <<memsize, sysctlOk, totalram, unit, sysinfoOk, darwinMB, linuxMB>>

CallLinux ==
    /\ linuxMB = NoResult
    /\ linuxMB' = LinuxTotalMemoryMB(sysinfoOk, totalram, unit)
    /\ UNCHANGED <<memsize, sysctlOk, totalram, unit, sysinfoOk, darwinMB, paddedMB>>

\* Every version has been called once: nothing more happens.
Done ==
    /\ NoResult \notin {darwinMB, paddedMB, linuxMB}
    /\ UNCHANGED vars

Next == CallDarwin \/ CallDarwinPadded \/ CallLinux \/ Done

Spec == Init /\ [][Next]_vars

-----------------------------------------------------------------------------
(* Properties.                                                             *)

TypeOK ==
    /\ memsize \in MemSizes /\ sysctlOk \in BOOLEAN
    /\ totalram \in Totalrams /\ unit \in Units /\ sysinfoOk \in BOOLEAN
    /\ darwinMB \in Nat \cup {NoResult}
    /\ paddedMB \in Nat \cup {NoResult}
    /\ linuxMB \in Nat \cup {NoResult}

\* The padded darwin version (part_000 901-914): when sysctl succeeds, the
\* result is hw.memsize in whole MiB, whether or not Sysctl dropped a
\* trailing zero byte of the value.
PaddedMemExact ==
    (paddedMB # NoResult /\ sysctlOk) => paddedMB = memsize \div Mebi

\* sysinfo_darwin.go: when sysctl succeeds, the result is hw.memsize in
\* whole MiB: the code appends "\x00" to val to make up for a NUL byte
\* stripped by Sysctl, but only after refusing every val shorter than 8.
DarwinMemExact ==
    (darwinMB # NoResult /\ sysctlOk) => darwinMB = memsize \div Mebi

=============================================================================
