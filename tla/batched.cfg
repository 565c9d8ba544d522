SPECIFICATION Spec
CONSTANTS
  w1 = w1  w2 = w2  c1 = c1  c2 = c2  c3 = c3  data = data
  a = a  b = b  k = k  none = none
  Conns = {w1}
  Callers = {c1, c2}
  WriterOf <- MCOneWriter
  Names = {data}
  Tables = {data}
  TableOf <- MCTableOf
  NoName = none
  Columns = {a, b}
  Unaddable = {}
  Keys = {k}
  NoKey = none
  Sigs <- MCBoth
  Flag <- MCDefault
  OnConflict = "ROLLBACK"
  CyclePeriod = 2
  MaxCalls = 3
  MaxOpens = 2
  CommitThread = CommitThread
  Free = Free
INVARIANTS WritesBatched
CHECK_DEADLOCK FALSE
