SPECIFICATION Spec
CONSTANTS
  Procs = {p1}
  Kinds = {"backup", "maintenance", "read"}
  Cancellable = FALSE
  Warnings = TRUE
  Steps <- Forward
  DueAfter = 1
  RequireWithin = 2
  Keep = 2
  PeriodLength = 2
  MaxJobs = 4
  MaxTime = 3
  MaxCrashes = 0
INVARIANT ProtectionStays
