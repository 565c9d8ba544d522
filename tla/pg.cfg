SPECIFICATION FairSpec
CONSTANTS
  c1 = c1  c2 = c2  data = data  logs = logs  a = a  b = b  B = B
  None = None
  Callers = {c1}
  Tables = {data, logs}
  Columns = {a, b}
  Lower <- MCLower
  Sigs <- MCSigs
  Outsiders = {b}
  ServerParams = 4
  MaxMsgs = 3
  MaxParms = 3
  PipeSize = 1
  MaxCalls = 3
  MaxOpens = 2
INVARIANTS TypeOK EachRowOnce CleanEndStoresAll PipeHasReader UniformBatchFits
PROPERTIES ImplementsRowLog CallsReturn DestructionEnds CommitFollowsTraffic
CHECK_DEADLOCK FALSE
