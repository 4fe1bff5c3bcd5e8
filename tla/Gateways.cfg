SPECIFICATION Spec
CONSTANTS
  s1 = s1
  s2 = s2
  c1 = c1
  c2 = c2
  d1 = d1
  p1 = p1
  p2 = p2
  Socket = {s1, s2}
  Command = {c1, c2}
  Time = {1, 2}
  None = None
  NoRecord = NoRecord
  MaxReconnectAttempts = 2
  MaxTimers = 1
  Serial = {d1}
  Record = {1, 2, 3}
  Poll = {p1, p2}
  MaxFailures = 1
  MaxChanges = 1
INVARIANTS
  TypeOK
  NeverStranded
  ConnectedTrue
PROPERTIES
  CommandsKept
  RemovalsJustified
  FreshSyncsMirror
  RecordsConverge
CHECK_DEADLOCK FALSE
