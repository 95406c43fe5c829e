\* One Pod restarts in place after it has published.
CONSTANTS
  Namespaces = {n1}
  Cent = 3
  PeriodLength = 2
  Pods = {p1}
  Retired = Retired
  Cost = 2
  MaxSpend = 2
  MaxTime = 1
  MaxFaults = 1
SPECIFICATION Spec
CHECK_DEADLOCK FALSE
PROPERTIES ViewCoversPublished
