CONSTANTS
  Worker = {w1, w2}
  Caller = {s1, s2, main}
  Job = {s1, s2}
  NoJob = NoJob
  Main = main
  MaxQueueDepth = 3
  MaxSlices = 2
  MaxMerges = 3
SPECIFICATION FairSpec
INVARIANTS
  IdleMeansDone
  ClosedIsDrained
PROPERTY CallsReturn
