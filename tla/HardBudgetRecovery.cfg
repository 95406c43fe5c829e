\* A settle left unpublished across a rollover.
CONSTANTS
  Cluster = Cluster
  Replicas = {r1, r2}
  Namespaces = {n1}
  Cent = 1
  PeriodLength = 2
  NsUSD = 4
  ClusterUSD = 0
  Policies <- ExamplePolicies
  MarginPercent = 50
  Hard = TRUE
  StalenessWindow = 1
  BucketWidth = 1
  Costs = {2}
  MaxCost = 2
  MaxRunning = 1
  MaxTime = 3
  MaxToken = 0
SPECIFICATION Spec
PROPERTIES
  FoldRecovers
