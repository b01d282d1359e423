CONSTANTS
  t1 = t1
  p1 = p1
  p2 = p2
  Task = {t1}
  Sweeper = {p1, p2}
  MaxRetries = 1
  LeaseDuration = 1
  MaxTime = 4
  pa = pa
  pb = pb
  c1 = c1
  c2 = c2
  Home <- HomeOf
  Parent = {pa, pb}
  Shell = {c1, c2}
  Server = {s1, s2}
  Rid = {r1, r2}
  Escalation = {e}
  Text = {x, y}
  None = None
  MaxEvents = 3
  q1 = q1
  q2 = q2
  q3 = q3
  Process = {q1, q2, q3}
  Newest <- NewestOf
  Record = {ra, rb}
  Readable = {ra}
  ResetAlone = TRUE
SPECIFICATION SumSpec
INVARIANTS ActedOnce SchemaWhole OnRecord
PROPERTIES ReclaimJustified ImplementsLifecycle
SYMMETRY Alike
