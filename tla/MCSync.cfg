\* Three files, one of which is edited or removed at any time during two syncs, with every failure.
SPECIFICATION FairSpec
CONSTANTS
    N = 3
    Lens = {1, 2}
    Links = {}
    MaxWrites = 1
    MaxTime = 2
    MaxSyncs = 2
    Faults = TRUE
INVARIANTS TypeOK Mirrors NextSyncSkips
PROPERTIES SkipIsSafe SyncEnds
CHECK_DEADLOCK FALSE
