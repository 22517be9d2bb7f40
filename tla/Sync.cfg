SPECIFICATION SyncSpec
CONSTANTS AnyCrash = FALSE MaxPlans = 2 Retention = 1 MaxTime = 2 MaxWrites = 1 Deletes = {3}
INVARIANTS NothingLost VersionsRestorable MemoryFaithful
PROPERTIES ComesToRest ReplaceIsAtomic
CHECK_DEADLOCK FALSE
