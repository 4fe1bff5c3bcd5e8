SPECIFICATION Spec
CONSTANTS
  Facility = {f1}
  Sync = {s1, s2}
  Change = {c1}
  Request = {r1}
  NoSync = NoSync
  Faults = {}
CHECK_DEADLOCK FALSE
INVARIANTS StaleChangesDiscarded
SYMMETRY Interchangeable
