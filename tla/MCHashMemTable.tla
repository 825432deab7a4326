--------------------------- MODULE MCHashMemTable ---------------------------
(* Instances of HashMemTable for TLC.                                      *)
EXTENDS HashMemTable, TLC

\* Transactions, and keys, are interchangeable in the safety runs.
Symmetry == Permutations(Txn) \union Permutations(Key)
=============================================================================
