------------------------------- MODULE MCWal -------------------------------
(* Instances of Wal for TLC: pages of 12 bytes with headers of 2, so that a *)
(* record of 9 leaves one byte of a page and one of 13 takes two pages.     *)
EXTENDS Wal, TLC

CONSTANTS t1, t2

\* Whole pages, the one-byte tail, two pages, several records, too large.
AnyBatch == {<<9>>, <<3>>, <<13>>, <<10, 3>>, <<23>>}
Symmetry == Permutations(Thread)
=============================================================================
