SPECIFICATION SpecControl
CONSTANTS
    j1 = j1
    submit = submit
    batch1 = batch1
    batch2 = batch2
    merge = merge
    validate = validate
    assemble = assemble
    w1 = w1
    w2 = w2
    a1 = a1
    a2 = a2
    Jobs = {j1}
    Stages = {submit}
    Workers = {w1}
    Admins = {a1, a2}
    Reconcilers = {a1, a2}
    Kind <- MCKind
    JobOf <- MCJobOf
    ManualAiBatchLimit = 1
    RemoteGenerationLimit = 1
    MaxSafeRetries = 0
    MaxPolls = 1
    MaxCrashes = 0
    MaxLapses = 0
    MaxRequests = 2
PROPERTIES PurchasesArePromised
CHECK_DEADLOCK FALSE
