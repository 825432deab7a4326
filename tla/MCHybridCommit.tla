--------------------------- MODULE MCHybridCommit ---------------------------
(* Instances of HybridCommit for TLC.                                      *)
EXTENDS HybridCommit, TLC

CONSTANTS t1, t2, t3, k1

\* One reads and updates, one puts and deletes, one puts.
MixedOps == (t1 :> {"get", "update"}) @@ (t2 :> {"put", "delete"}) @@ (t3 :> {"put"})
=============================================================================
