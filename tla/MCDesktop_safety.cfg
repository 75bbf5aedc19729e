SPECIFICATION FairSpec
CONSTANTS
  Programs = {"tui", "watcher"}
  Listings <- TwoSnapshots
  s1 = s1
  s2 = s2
  NoSnapshot = NoSnapshot
  MaxJobs = 3
  MaxRestarts = 1
INVARIANT TypeOK
INVARIANT RestoresWhatWasShown
INVARIANT ShowsCurrent
INVARIANT AnnouncedInOrder
PROPERTY EventuallyAnnounced
CHECK_DEADLOCK FALSE
