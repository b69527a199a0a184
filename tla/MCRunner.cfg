\* One worker.
SPECIFICATION FairSpec
CONSTANTS
  w1 = w1
  w2 = w2
  Workers = {w1}
  Capable = {w1}
  Lines = {"turn.started", "turn.completed"}
  MaxLines = 2
  MaxFaults = 1
  MaxInFlight = 2
  Loop = Loop
  Operator = Operator
  NoRunner = NoRunner
INVARIANTS
  LogIsNumbered
  LogTellsOutput
  CountsAreLogged
  ProjectionAgrees
PROPERTIES
  CodexStops
CHECK_DEADLOCK FALSE
