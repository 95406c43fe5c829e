CONSTANTS
  Replicas = {g1, g2}
  Requests = {q1, q2}
  Abandoned = {q2}
  MaxPending = 1
  HasCallback = TRUE
  Attempts = 2
  AsyncTTL = 2
  PipelineTimeout = 1
  DisconnectTimeout = 2
  MaxCrashes = 0
  MaxTime = 2
SPECIFICATION Spec
CHECK_DEADLOCK FALSE
INVARIANTS SweepIsFinal
