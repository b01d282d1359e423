CONSTANTS
  t1 = t1
  t2 = t2
  s1 = s1
  s2 = s2
  d1 = d1
  d2 = d2
  c1 = c1
  u1 = u1
  u2 = u2
  p1 = p1
  NoId = NoId
  PoolTask = {u1, u2}
  PoolSpawner = {p1}
  PoolMax = 2
  MaxPoolSlot = 2
  MaxPoolActs = 3
  MaxCloneActs = 4
  Task = {t1}
  Slot = {s1, s2}
  Daemon = {d1, d2}
  Console = {}
  MaxRetries = 2
  MaxFailures = 2
  MaxFaults = 1
  MaxDeaths = 2
  Overlap <- Disjoint
  SerializeOverlap = FALSE
  HungWorkers = FALSE
  OneAtATime = FALSE
  StoreFails = TRUE
SPECIFICATION SumSpec
INVARIANTS OneClaimant NoWorkerReplaced BaseKept PinnedStays
PROPERTIES ImplementsLifecycle CondemnedSoundly
SYMMETRY Alike
