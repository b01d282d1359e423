CONSTANTS
  Scheduler = {s1}
  Screen = {"busy", "buried", "stalled"}
  Busy = "busy"
  AtPrompt = {"buried", "stalled"}
  Hopeless = {}
  ApiStalled = {"stalled"}
  StallText = {"buried", "stalled"}
  None = "none"
  MaxIdleNudges = 1
  IdleConfirmations = 2
  IdleNudgeGrace = 1
  MaxStallNudges = 1
  StallNudgeGrace = 1
  StaleHold = 1
  Dwell = 1
  IdleStaleSweeps = 1
  StallAfter = 1
  StallRepeat = 1
  StallReraises = 0
  Horizon = 1
  MaxActs = 1
SPECIFICATION Spec
INVARIANTS NudgesBounded
PROPERTIES IdleIsNudged SilentIsTold
