CONSTANTS
  w1 = w1
  w2 = w2
  t1 = t1
  Watcher = {w1, w2}
  Replaying = {w2}
  Daemon = daemon
  Console = console
  Nobody = nobody
  Task = {t1}
  NoTask = noTask
  Manager = manager
  MaxEvents = 2
  MaxKills = 1
  fa = fa
  fb = fb
  File = {fa, fb}
  Agent = {fa}
  Release = {"one", "two"}
  Ships <- ShipsOf
  Text = {"a", "b", "mine"}
  Setting = {"unset", "opus", "sonnet", "odd"}
  Unset = "unset"
  Odd = {"odd"}
  Absent = Absent
  Installer = {i1, i2}
  MaxActs = 3
  ka = ka
  kb = kb
  Line = {"mine"}
  Leaf = {ka, kb}
  Value = {"x", "y"}
  Manages <- ManagesOf
  Damage = FALSE
SPECIFICATION SumSpec
INVARIANTS NothingSkipped
PROPERTIES ImplementsMailbox FilesKept LeadsOwnKept
SYMMETRY Alike
