SPECIFICATION Spec
CONSTANTS
  t1 = t1
  t2 = t2
  t3 = t3
  Txn = {t1, t2, t3}
  f1 = f1
  f2 = f2
  Job = {f1, f2}
  Scenarios <- OneKey
  MaxTs = 11
  MaxEntries = 2
  NoTxn = NoTxn
  Null = Null
SYMMETRY Others
CHECK_DEADLOCK FALSE
INVARIANT GcTypeOK
INVARIANT ReadsSnapshot
INVARIANT SnapshotsAreDisjoint
INVARIANT NothingCommittedLost
