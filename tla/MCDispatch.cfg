CONSTANTS
  t1 = t1
  t2 = t2
  s1 = s1
  s2 = s2
  d1 = d1
  d2 = d2
  c1 = c1
  Task = {t1, t2}
  Slot = {s1, s2}
  Daemon = {d1}
  Console = {c1}
  MaxRetries = 1
  MaxFailures = 1
  MaxFaults = 0
  MaxDeaths = 1
  Overlap <- Overlapping
  SerializeOverlap = FALSE
  HungWorkers = FALSE
  OneAtATime = TRUE
  StoreFails = FALSE
SPECIFICATION Spec
INVARIANT WorktreeRecorded
PROPERTIES WorkKept
SYMMETRY Symmetry
