SPECIFICATION FairSpec
CONSTANTS
  w1 = w1  w2 = w2  c1 = c1  c2 = c2  c3 = c3  data = data
  a = a  b = b  k = k  none = none
  Conns = {w1, w2}
  Callers = {c1, c2, c3}
  WriterOf <- MCBesideReader
  Names = {data}
  Tables = {data}
  TableOf <- MCTableOf
  NoName = none
  Columns = {a, b}
  Unaddable = {}
  Keys = {}
  NoKey = none
  Sigs <- MCShort
  Flag <- MCReader
  OnConflict = "ABORT"
  CyclePeriod = 2
  MaxCalls = 2
  MaxOpens = 1
  CommitThread = CommitThread
  Free = Free
PROPERTIES RowsReachFile CallsReturn DestructionEnds
CHECK_DEADLOCK FALSE
