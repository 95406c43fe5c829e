\* A pass may end between two of its calls.
CONSTANTS
  Settings <- InterruptedPasses
  BackoffLimit = 1
  MaxPods = 3
  MaxEvictions = 0
  MaxPosts = 1
SPECIFICATION Spec
CHECK_DEADLOCK FALSE
INVARIANTS PayloadOfThisAttempt
