SPECIFICATION Spec
CONSTANTS
  Containers = {c1}
  Services = {s1}
  ServicePaths = {p1}
  NoUnit = NoUnit
  MaxCrashes = 0
  MaxOutside = 0
INVARIANT SafelyResumed
