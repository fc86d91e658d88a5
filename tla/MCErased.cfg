SPECIFICATION Spec
CONSTANTS
    j1 = j1
    batch1 = batch1
    batch2 = batch2
    merge = merge
    assemble = assemble
    w1 = w1
    w2 = w2
    Jobs = {j1}
    Stages = {batch1}
    Workers = {w1, w2}
    Kind <- MCKind
    JobOf <- MCJobOf
    ManualAiBatchLimit = 1
    RemoteGenerationLimit = 1
    MaxSafeRetries = 0
    MaxPolls = 1
    MaxCrashes = 0
    MaxLapses = 1
INVARIANTS SuccessHasReceipt
CHECK_DEADLOCK FALSE
