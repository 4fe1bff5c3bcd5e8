SPECIFICATION Spec
CONSTANTS
  Facility = {f1}
  Sync = {s1, s2, s3}
  Change = {c1}
  Request = {r1}
  NoSync = NoSync
  Faults = {"cancel"}
CHECK_DEADLOCK FALSE
INVARIANTS UncancelledExclude
SYMMETRY Interchangeable
