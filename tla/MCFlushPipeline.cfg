SPECIFICATION FairSpec
CONSTANTS
  f1 = f1
  f2 = f2
  f3 = f3
  Job = {f1, f2, f3}
  NoJob = NoJob
  MaxFlushes = 2
  MaxBound = 3
CHECK_DEADLOCK FALSE
INVARIANTS PipelineTypeOK QueuesExact OneTablePerBound CleanedIsFindable OnlyLateJobsAreOvertaken
PROPERTY JobsMoveOn
