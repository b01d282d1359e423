SPECIFICATION Spec
CONSTANTS
  c1 = c1
  c2 = c2
  Commit = {c1, c2}
  Dimension = {"scope", "security"}
  Floor <- MCFloor
  Green = {c1, c2}
  Daemon = daemon
  Manager = {lead}
  None = None
  MaxAttempts = 1
  Timeout = 0
  MaxEvents = 1
PROPERTIES PassIsReviewed NoFindingLost HeadSettles
CHECK_DEADLOCK FALSE
