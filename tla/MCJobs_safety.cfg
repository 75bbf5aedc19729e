SPECIFICATION Spec
CONSTANTS
  Procs = {p1, p2}
  Kinds = {"backup", "due", "maintenance", "read", "index", "status"}
  Cancellable = TRUE
  Warnings = TRUE
  Steps <- Forward
  DueAfter = 1
  RequireWithin = 1
  Keep = 1
  PeriodLength = 2
  MaxJobs = 2
  MaxTime = 1
  MaxCrashes = 1
SYMMETRY Symmetry
INVARIANT TypeOK
INVARIANT WritersAlone
INVARIANT SuccessIsStamped
INVARIANT StampIsArchive
INVARIANT HealthyIsCurrent
PROPERTY StampAdvances
