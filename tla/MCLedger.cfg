SPECIFICATION FairSpec
CONSTANTS
  b1 = b1
  b2 = b2
  bad = bad
  Handlers = {h1, h2, h3}
  Guids = {g1}
  Bodies = {b1, b2, bad}
  Malformed = {bad}
  NoGuid = none
  NoBody = empty
  MaxRequests = 4
INVARIANT AppliedOnce
INVARIANT OneBody
INVARIANT RefusedUnconfigured
PROPERTY DeadLettersStay
PROPERTY RequestsEnd
CHECK_DEADLOCK FALSE
