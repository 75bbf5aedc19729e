SPECIFICATION Spec
CONSTANTS
  Helpers = {h1}
  Operations = {"init", "backup", "snapshots"}
  MaxFailures = 2
INVARIANT TypeOK
INVARIANT GateHolds
INVARIANT TimersAfterBackup
INVARIANT ReportIsTrue
