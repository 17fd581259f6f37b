SPECIFICATION Spec
CONSTANTS
  s1 = s1
  w1 = w1
  x1 = x1
  e1 = e1
  f1 = f1
  f2 = f2
  NoField = NoField
  Absent = Absent
  Torn = Torn
  Hooks = {s1, w1, e1, x1}
  Files = {f1, f2}
  KindsOf <- EventsOf
  FileOf <- SubjectOf
  MaxKills = 1
  MaxFailures = 1
CHECK_DEADLOCK FALSE
INVARIANTS TypeOK  TotalsMatchEntries NeverTorn SerialIsExact
