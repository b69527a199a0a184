\* Codex writes its last line and exits during a heartbeat.
SPECIFICATION FairSpec
CONSTANTS
  w1 = w1
  w2 = w2
  Workers = {w1}
  Capable = {w1}
  Lines = {"turn.started", "turn.completed"}
  MaxLines = 2
  MaxFaults = 0
  MaxInFlight = 1
  Loop = Loop
  Operator = Operator
  NoRunner = NoRunner
INVARIANT
  CompletedIsTold
CHECK_DEADLOCK FALSE
