SPECIFICATION Spec
CONSTANTS
  t1 = t1
  t2 = t2
  t3 = t3
  Txn = {t1, t2}
  Job = {f1}
  Scenarios <- LostUpdate
  MaxTs = 9
  MaxEntries = 2
  NoTxn = NoTxn
  Null = Null
SYMMETRY Others
CHECK_DEADLOCK FALSE
INVARIANT CommittedWritersDoNotOverlap
