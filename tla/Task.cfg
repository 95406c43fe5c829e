\* Reported and exit-code tasks with timeouts, a retry, an eviction and a TTL.
CONSTANTS
  Settings <- Calm
  BackoffLimit = 1
  MaxPods = 3
  MaxEvictions = 1
  MaxPosts = 1
SPECIFICATION FairSpec
CHECK_DEADLOCK FALSE
PROPERTIES EventuallySettles
