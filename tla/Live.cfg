\* One replica, two namespaces, both ceilings, a boundary as wide as the budget,
\* one rollover; an undisturbed Agent and one wake; one asynchronous request; one
\* edit of the channels.
CONSTANTS
  Cluster = Cluster
  Replicas = {r1}
  Namespaces = {n1, n2}
  Cent = 1
  PeriodLength = 3
  NsUSD = 4
  ClusterUSD = 6
  Policies <- ExamplePolicies
  MarginPercent = 100
  Hard = TRUE
  StalenessWindow = 1
  BucketWidth = 1
  Costs = {0, 2}
  MaxCost = 2
  MaxRunning = 1
  MaxTime = 3
  MaxToken = 3
  Gateways = {g1}
  IdleTimeout = 1
  HibernationDelay = 1
  CacheWindow = 1
  MaxWakes = 1
  AgentTime = 4
  Requests = {q1}
  MaxPending = 1
  Attempts = 2
  AsyncTTL = 2
  PipelineTimeout = 1
  DisconnectTimeout = 1
  MaxCrashes = 1
  AsyncTime = 3
  MaxEdits = 1
SPECIFICATION LiveSpec
INVARIANTS
  SlotsMatchHolders
  SerializedSpendCapped
PROPERTIES
  SlotReleased
  WakeServed
  DeletionCompletes
  VerdictsSettle
