SPECIFICATION Spec
CONSTANTS
  t1 = t1
  t2 = t2
  Thread = {t1, t2}
  Page = 12
  Header = 2
  Capacity = 24
  Batches <- AnyBatch
  RecordLens = {1, 30}
  MaxRecords = 5
  MaxCrashes = 2
SYMMETRY Symmetry
CHECK_DEADLOCK FALSE
INVARIANT WalTypeOK
INVARIANT AckedIsOnDisk
INVARIANT CleanLogIsReadBack
