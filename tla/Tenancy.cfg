SPECIFICATION FairSpec
CONSTANTS
  u1 = u1
  u2 = u2
  t1 = t1
  t2 = t2
  t3 = t3
  Unit = {u1, u2}
  Here = {u1}
  Tenant = {t1, t2, t3}
  Managed = {t1}
  Ask <- AskPairs
  SharedLimit = 1
  Task = {a, b}
  MaxEvents = 3
  None = None
CHECK_DEADLOCK FALSE
INVARIANTS TypeOK SharedBounded 
PROPERTIES KeptActive Converges
