SPECIFICATION Spec
CONSTANTS
  t1 = t1
  u1 = u1
  u2 = u2
  d1 = d1
  d2 = d2
  f1 = f1
  f2 = f2
  User = {t1}
  Unit = {u1, u2}
  Device = {d1, d2}
  Facility = {f1}
  UnitOf <- TwoUnitOf
  FacilityOf <- SameFacilityOf
  SharedUnit <- SharedOne
  Job = {j1, j2}
  TTL = 2
  MaxTime = 2
  MaxHeld = 1
  DriverParsesJson = FALSE
  Faults = {}
SYMMETRY SymmetricJobs
INVARIANTS TypeOK RevokedPassShutOut DenialRecorded ReassignedNotDenied
PROPERTIES LiftedOnlyForAssigned
