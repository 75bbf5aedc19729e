SPECIFICATION FairSpec
CONSTANTS
  Repos = {r1, r2}
  Names = {a, b}
  NoRepo = NoRepo
  MaxAge = 0
  Steps <- BothWays
  MaxId = 2
  MaxSwaps = 2
  MaxGeneration = 2
  MaxTime = 1
  MaxFails = 1
INVARIANT TypeOK
INVARIANT ExactIfUndisturbed
INVARIANT RowsOfItsRepository
INVARIANT ReadsComplete
PROPERTY CompleteAgain
