------------------------ MODULE MCTransactionManager ------------------------
(* Instance of TransactionManager for TLC.                                 *)
EXTENDS TransactionManager, TLC

\* Transactions are interchangeable and no property is a liveness property.
TxnSymmetry == Permutations(Txn)
=============================================================================
