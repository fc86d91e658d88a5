SPECIFICATION FairSpec
CONSTANTS
    j1 = j1
    batch1 = batch1
    batch2 = batch2
    merge = merge
    assemble = assemble
    w1 = w1
    w2 = w2
    Jobs = {j1}
    Stages = {batch1, batch2, merge, assemble}
    Workers = {w1, w2}
    Kind <- MCKind
    JobOf <- MCJobOf
    ManualAiBatchLimit = 2
    RemoteGenerationLimit = 1
    MaxSafeRetries = 0
    MaxPolls = 1
    MaxCrashes = 0
    MaxLapses = 1
INVARIANTS DependenciesHold DraftIsCurrent
PROPERTIES OnlyHolderAdvances
CHECK_DEADLOCK FALSE
