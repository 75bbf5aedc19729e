SPECIFICATION FairSpec
CONSTANTS
  Containers = {c1, c2}
  Services = {s1}
  ServicePaths = {p1}
  NoUnit = NoUnit
  MaxCrashes = 2
  MaxOutside = 1
INVARIANT TypeOK
INVARIANT JournalCovers
INVARIANT CreatingHoldsNothing
INVARIANT SnapshotUndisturbed
PROPERTY KeepsPromise
PROPERTY TouchesOnlyJournalled
PROPERTY EventuallyBack
