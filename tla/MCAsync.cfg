SPECIFICATION FairSpec
CONSTANTS
    j1 = j1
    upload = upload
    submit = submit
    poll = poll
    download = download
    w1 = w1
    w2 = w2
    Jobs = {j1}
    Stages = {upload, submit, poll, download}
    Workers = {w1, w2}
    Kind <- MCKind
    JobOf <- MCJobOf
    ManualAiBatchLimit = 2
    RemoteGenerationLimit = 2
    MaxSafeRetries = 1
    MaxPolls = 1
    MaxCrashes = 2
    MaxLapses = 0
INVARIANTS TypeOK SuccessHasReceipt DoubtIsParked
PROPERTIES ReleaseIsUnbilled EventuallyAtRest
CHECK_DEADLOCK FALSE
