SPECIFICATION SumSpec
CONSTANTS
  t1 = t1
  t2 = t2
  lead = lead
  d1 = d1
  d2 = d2
  c1 = c1
  Task = {t1}
  Lead = lead
  Daemon = {d1}
  Console = {c1}
  Age <- Age1
  Conflict <- WithLead
  Drift <- None
  Red <- None
  LandCap = 0
  NeedsHuman = {}
  MaxCommits = 2
  MaxPushes = 1
  MaxFaults = 1
  Boards = {b1, b2}
  MaxLog = 4
  MaxTaken = 1
INVARIANTS ApprovalSound AnsweredOnce PreppedOnce
PROPERTIES ImplementsDelivery
SYMMETRY Pages
