SPECIFICATION Spec
CONSTANTS
  c1 = c1  c2 = c2  data = data  logs = logs  a = a  b = b  B = B
  None = None
  Callers = {c1}
  Tables = {data, logs}
  Columns = {a, b, B}
  Lower <- MCFolded
  Sigs <- MCMixedCase
  Outsiders = {}
  ServerParams = 5
  MaxMsgs = 3
  MaxParms = 3
  PipeSize = 1
  MaxCalls = 3
  MaxOpens = 2
INVARIANTS FieldsMatch
CHECK_DEADLOCK FALSE
