CONSTANTS
  t1 = t1
  t2 = t2
  s1 = s1
  s2 = s2
  d1 = d1
  d2 = d2
  c1 = c1
  Task = {t1}
  Slot = {s1, s2}
  Daemon = {d1}
  Console = {}
  MaxRetries = 2
  MaxFailures = 2
  MaxFaults = 1
  MaxDeaths = 3
  Overlap <- Disjoint
  SerializeOverlap = FALSE
  HungWorkers = FALSE
  OneAtATime = FALSE
  StoreFails = TRUE
SPECIFICATION FairSpec
PROPERTIES NeverStranded
