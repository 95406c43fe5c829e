CONSTANTS
  Workloads = {"agent"}
  Settings <- CatalogueSettings
  Primary = "p"
  Dangling = {"gone"}
  Existing = {"p", "a", "b"}
  Chains <- FallbackChains
  CRDs <- MigratedKinds
  Names = {"o1", "o2", "o3"}
  PageSize = 2
  Disturbances = 2
  MaxWrites = 3
  Readers = {"q1", "q2"}
  SyncTimeout = 1
  IdleTTL = 2
  Rotations = 3
  MaxInformers = 2
  Horizon = 5

SPECIFICATION CatalogueSpec
INVARIANTS
  VerdictsStand
  AcceptsFollowable
  NeverLies
  FreshWhenQuiet
  ServedByARunningInformer
PROPERTIES
  DeletionCompletes
