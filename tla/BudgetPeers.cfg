\* Two replicas under one namespace ceiling within one period; a rollout of one
\* Pod by another over two periods.
CONSTANTS
  Cluster = Cluster
  Replicas = {r1, r2}
  Namespaces = {n1}
  Cent = 1
  PeriodLength = 5
  NsUSD = 4
  ClusterUSD = 0
  Policies <- ExamplePolicies
  MarginPercent = 50
  Hard = TRUE
  StalenessWindow = 1
  BucketWidth = 3
  Costs = {2}
  MaxCost = 2
  MaxRunning = 1
  MaxTime = 2
  MaxToken = 1
  Retired = Retired
  Cost = 2
  MaxSpend = 2
  MaxFaults = 1
  ExchangeCent = 3
  ExchangePeriod = 2
SYMMETRY Symmetry
VIEW View
SPECIFICATION PeersSpec
INVARIANTS
  PeersWerePublished
  PublishedSpendAccounted
