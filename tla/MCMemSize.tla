------------------------------ MODULE MCMemSize ------------------------------
(* Model-checking instance of MemSize.  TLC's integers have 32 bits, so    *)
(* the sizes are below 2 GiB; every real hw.memsize below 2^56 bytes has   *)
(* the same zero top byte as these, and the proofs in MemSizeProofs cover  *)
(* every uint64.                                                           *)
EXTENDS MemSize

\* 1 GiB, 1.5 GiB, an odd size just over 1 GiB, just under 1 MiB, and
\* sizes with nonzero low bytes.
MCMemSizes == {1073741824, 1610612736, 1074790405, 1048575, 2147483647, 16777472}

\* Page counts for 1 GiB and 512 MiB with 4 KiB units, or byte counts.
MCTotalrams == {262144, 131072, 0}
MCUnits == {1, 4096}

=============================================================================
