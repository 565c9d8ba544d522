SPECIFICATION Spec
CONSTANTS
  w1 = w1  w2 = w2  c1 = c1  c2 = c2  c3 = c3  data = data
  a = a  b = b  k = k  none = none
  Conns = {w1}
  Callers = {c1}
  WriterOf <- MCOneCaller
  Names = {none}
  Tables = {data}
  TableOf <- MCUnnamed
  NoName = none
  Columns = {a, b}
  Unaddable = {}
  Keys = {k}
  NoKey = none
  Sigs <- MCSigs
  Flag <- MCDefault
  OnConflict = "ABORT"
  CyclePeriod = 2
  MaxCalls = 3
  MaxOpens = 2
  CommitThread = CommitThread
  Free = Free
INVARIANTS StatementFitsCall
CHECK_DEADLOCK FALSE
