SPECIFICATION FairSpec
CONSTANTS
  t1 = t1
  u1 = u1
  u2 = u2
  d1 = d1
  d2 = d2
  f1 = f1
  f2 = f2
  User = {t1}
  Unit = {u1, u2}
  Device = {d1, d2}
  Facility = {f1, f2}
  UnitOf <- TwoUnitOf
  FacilityOf <- TwoFacilityOf
  SharedUnit <- SharedNone
  Job = {j1, j2}
  TTL = 1
  MaxTime = 1
  MaxHeld = 1
  DriverParsesJson = FALSE
  Faults = {}
PROPERTIES RevocationTakesEffect AccessControlled
