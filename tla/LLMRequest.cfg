CONSTANTS
  Requests = {"q1", "q2"}
  Providers = {"a", "b", "c", "d", "missing"}
  Models = {"m1", "m2"}
  Catalogues <- TwoCatalogues
  Asks <- SomeAsks
  MaxFallbackDepth = 3
  MaxUsage = 1
SPECIFICATION Spec
INVARIANTS
  ChargedWhatWasRead
  
PROPERTIES
  ImplementsOutcome
