SPECIFICATION PlatformSpec
CONSTANTS
    Logins = {l1, l2}
    Sessions = {s1, s2}
    MaxFailures = 2
    Window = 3
    Lifetime = 2
    MaxPasswords = 2
    NoSession = NoSession
    Contents = {c1, c2}
    PrefixDirs <- MCPrefixDirs
    Writers = {w1, w2}
    Blobs = {c1, c2}
    Dirs = {main, copy}
    Archives = {b1}
    NoFiles = NoFiles
    Server = srv
    Commands = {k1, k2}
    Tabs = {t1, t2}
    MaxPreps = 1
    MaxPage = 2
    Renderings = {r1, r2}
    MaxPrepRev = 4
    NoPage = NoPage
    MasterKeys = {m1, m2, m3}
    NoKey = NoKey
    MaxPages = 3
    PagesPerBatch = 2
    Versions = {v1, v2}
    Outputs <- MCOutputs
    Malformed = Malformed
    Views = {front, left}
    MaxLinks = 3
    MaxRedirects = 1
    Sizes = {0, 3, 4, 12, 28}
    Strides = {4, 16}
    MaxCount = 3
    MaxTriangles = 1
    MaxTexture = 1
    NoBin = NoBin
    Literals <- MCLiterals
    Invalid = Invalid
    Radix = 3
    Scale = 1
    MaxDigits = 2
    MaxMinor = 25
    PerUnits = 4
    PageBytes = {0, 1, 4}
    MaxQuoted = 3
    BatchPages = 2
    Overhead <- MCOverhead
    ImageTokens <- MCImage
    BytesPerToken = 3
    MaxOutput = 4
    PageOutput = 2
    NoQuote = NoQuote
    PartNames = {lidPart, basePart}
    StepNames = {open}
    SpotIds = {h1}
    PartFields = {name}
    StepFields = {title}
    PartsFiles <- MCPartsFiles
    NoName = NoName
    OldModel = OldModel
    NewModel = NewModel
    NoModel = NoModel
    NoPart = NoPart
    ModelBounds <- MCBounds
    Tolerance = 1
    Reviewers = {a}
    Attaching = {j}
    Finds <- MCFinds
    Formers <- MCFormers
    MaxContentRev = 4
    Launches = {p1, p2}
    SchemaOf <- MCSchemaOf
    CommandLines <- MCCommandLines
    FirstFiles <- MCFirstFiles
    Numbers <- MCNumbers
    Defaults <- MCDefaults
    MaxLease = 4
    MaxRemote = 2
    MinRequest = 2
    MaxRequest = 3
    MaxTimeout = 4
    EnvRadix = 4
    NotSet = NotSet
    NoFile = NoFile
    MaxEdits = 1
INVARIANTS PlatformTypeOK GuessesAreBounded ResetEndsSessions AssetsKeepTheirContent UsableIsWhatWasSealed MergedKnowledgeIsTraceable SavedModelIsWhatWasBought AcceptedModelsAreDrawable QuoteCoversTheBill DraftHoldsTogether ServersAreAsChecked
PROPERTIES RestoresAreWholeOrRefused SecretsStayReadable
CHECK_DEADLOCK FALSE
