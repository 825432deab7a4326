SPECIFICATION FairSpec
CONSTANTS
  t1 = t1
  t2 = t2
  k1 = k1
  Txn = {t1, t2}
  Key = {k1}
  MaxWrites = 2
  MaxTs = 5
  NoTxn = NoTxn
  Absent = Absent
  Done = Done
  Conflict = Conflict
CHECK_DEADLOCK FALSE
PROPERTY EveryCallReturns
INVARIANT HMTTypeOK
INVARIANT WritersDoNotOverlap
