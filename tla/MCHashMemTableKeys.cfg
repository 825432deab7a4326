SPECIFICATION Spec
CONSTANTS
  t1 = t1
  t2 = t2
  k1 = k1
  k2 = k2
  Txn = {t1, t2}
  Key = {k1, k2}
  MaxWrites = 2
  MaxTs = 5
  NoTxn = NoTxn
  Absent = Absent
  Done = Done
  Conflict = Conflict
SYMMETRY Symmetry
CHECK_DEADLOCK FALSE
PROPERTY ImplementsSnapshotIsolation
INVARIANT ChainsExact
