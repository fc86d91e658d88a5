SPECIFICATION Spec
CONSTANTS
    j1 = j1
    upload = upload
    submit = submit
    poll = poll
    download = download
    w1 = w1
    w2 = w2
    Jobs = {j1}
    Stages = {submit}
    Workers = {w1}
    Kind <- MCKind
    JobOf <- MCJobOf
    ManualAiBatchLimit = 1
    RemoteGenerationLimit = 1
    MaxSafeRetries = 0
    MaxPolls = 1
    MaxCrashes = 1
    MaxLapses = 0
PROPERTIES PurchaseIsReserved
CHECK_DEADLOCK FALSE
