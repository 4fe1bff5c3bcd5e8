SPECIFICATION FairSpec
CONSTANTS
  Facility = {f1, f2}
  Sync = {s1, s2}
  Change = {c1}
  Request = {r1}
  NoSync = NoSync
  Faults = {"cancel", "dberror", "crash"}
CHECK_DEADLOCK FALSE
INVARIANTS TypeOK ExclusiveUnlessCancelled EarlyCancelHonoured EntryHeld
PROPERTIES DiscardsOnlyEnded SyncsAdvance FacilityReleased
