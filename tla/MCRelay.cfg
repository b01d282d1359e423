SPECIFICATION SumSpec
CONSTANTS
  r1 = r1
  r2 = r2
  Scheduler = {s1}
  Rid = {r1, r2}
  None = None
  MaxRaise = 1
  MaxJump = 1
  After = 2
  MaxStamp = 3
  MaxEpisode = 2
  MaxEvents = 1
  Coordinator = {c1, c2, c3}
  MaxCommands = 3
INVARIANTS DepthOne OthersKept
PROPERTIES RaisedOnce
SYMMETRY Requests
