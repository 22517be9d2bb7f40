SPECIFICATION PrefSpec
CONSTANTS AnyCrash = FALSE MaxPlans = 2 Retention = 1 MaxTime = 2 MaxWrites = 1 Deletes = {2}
INVARIANTS NewestRevisionReplaces
CHECK_DEADLOCK FALSE
