SPECIFICATION TMSpec
CONSTANTS
  t1 = t1
  t2 = t2
  t3 = t3
  t4 = t4
  Txn = {t1, t2, t3, t4}
  NoTxn = NoTxn
  MaxTs = 9
SYMMETRY TxnSymmetry
CHECK_DEADLOCK FALSE
INVARIANT MinXipIsLowerBound
INVARIANT CollectableIsSettled
INVARIANT NoLowerCommitInFlight
PROPERTY BoundNeverOvertaken
