SPECIFICATION LandingSpec
CONSTANTS
  t1 = t1
  t2 = t2
  lead = lead
  d1 = d1
  d2 = d2
  c1 = c1
  Task = {t1, t2}
  Lead = lead
  Daemon = {d1}
  Console = {}
  Age <- Ages
  Conflict <- None
  Drift <- SndLead
  Red <- WithLead
  LandCap = 2
  NeedsHuman = {}
  MaxCommits = 1
  MaxPushes = 1
  MaxFaults = 1
  Boards = {b1}
  MaxLog = 1
  MaxTaken = 0
INVARIANTS VerdictSound
PROPERTIES Settles
