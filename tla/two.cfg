SPECIFICATION Spec
CONSTANTS
  w1 = w1  w2 = w2  c1 = c1  c2 = c2  c3 = c3  data = data
  a = a  b = b  k = k  none = none
  Conns = {w1, w2}
  Callers = {c1, c2}
  WriterOf <- MCTwoWriters
  Names = {data}
  Tables = {data}
  TableOf <- MCTableOf
  NoName = none
  Columns = {a, b}
  Unaddable = {}
  Keys = {k}
  NoKey = none
  Sigs <- MCShort
  Flag <- MCDefault
  OnConflict = "ABORT"
  CyclePeriod = 1
  MaxCalls = 3
  MaxOpens = 1
  CommitThread = CommitThread
  Free = Free
INVARIANTS AcknowledgedRowsKept StoredRowsAcknowledged ColumnCacheSound CommitHasTransaction
PROPERTIES CommittedRowsKept
SYMMETRY MCSwap
CHECK_DEADLOCK FALSE
