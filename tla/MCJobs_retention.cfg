SPECIFICATION Spec
CONSTANTS
  Procs = {p1, p2}
  Kinds = {"backup", "maintenance", "read"}
  Cancellable = FALSE
  Warnings = FALSE
  Steps <- Forward
  DueAfter = 1
  RequireWithin = 1
  Keep = 1
  PeriodLength = 1
  MaxJobs = 4
  MaxTime = 1
  MaxCrashes = 1
SYMMETRY Symmetry
PROPERTY KeepsRetention
