SPECIFICATION HybridSpec
CONSTANTS
  t1 = t1
  t2 = t2
  t3 = t3
  k1 = k1
  Txn = {t1, t2, t3}
  Key = {k1}
  MaxWrites = 1
  MaxTs = 7
  NoSnapshot = NoSnapshot
  Ops <- MixedOps
  NoTxn = NoTxn
  Absent = Absent
  Done = Done
  Conflict = Conflict
CHECK_DEADLOCK FALSE
INVARIANT WritersTakeTurns
INVARIANT CommittedIsFound
INVARIANT NoDirtyRead
