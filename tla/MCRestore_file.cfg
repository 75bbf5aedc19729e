SPECIFICATION Spec
CONSTANTS
  Paths <- SmallPaths
  Denied <- DeniedPaths
  StateDir <- TheState
  Inventory <- TheInventory
  Trees <- SmallTrees
  Disks <- SmallDisks
  Modes = {"original"}
  MaxFiles = 4
  MaxId = 2
  MaxWrites = 1
CHECK_DEADLOCK FALSE
INVARIANT RefusedForCause
