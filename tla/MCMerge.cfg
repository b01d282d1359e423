SPECIFICATION SumSpec
CONSTANTS
  g1 = g1
  g2 = g2
  g3 = g3
  b1 = b1
  b2 = b2
  Gater = {g1, g2}
  Merger = {g1}
  Edits <- SomeEdits
  MaxLen = 3
  MaxMoves = 4
  Branch = {b1, b2}
  NoBranch = NoBranch
  Process = {g1, g2, g3}
  Lead = {g1, g2}
  MaxActs = 3
  Mode = {"pr", "local"}
  Lander = {g1, g2}
  MaxCommits = 2
  MaxCalls = 4
  w1 = w1
  w2 = w2
  d1 = d1
  i1 = i1
  i2 = i2
  i3 = i3
  Watcher = {w1, w2}
  Sweeper = {d1}
  Mortal = {w1}
  Inode = {i1, i2, i3}
  NoInode = NoInode
  Nobody = Nobody
  Empty = Empty
  MaxUnlinkRetries = 2
  MaxSessions = 2
INVARIANTS BranchSeen PublishedIsValidated LandedWhole
PROPERTIES ImplementsSingleton GateChangeNamed
SYMMETRY Inodes
