SPECIFICATION ServiceSpec
CONSTANTS
    j1 = j1
    j2 = j2
    v1 = v1
    Assets = {a, b}
    Views = {front, left}
    Editors = {e1, e2}
    MaxPhotos = 2
    MaxRevision = 2
    Absent = Absent
    Pictures = {p1, p2}
    Registrars = {g1, g2}
    Suggestions = {left}
    MaxJudged = 2
    Unjudged = Unjudged
    Requests = {r1, r2}
    Keys = {k1, k2}
    QuoteIds = {q1}
    Photos = {f1}
    Hashes = {h1, h2}
    Bounds = {1, 2}
    MaxEdits = 1
    MaxConfig = 1
    Providers = {v1, v2}
    Nobody = Nobody
    Pipelines = {j1, j2}
    Segmenting = {j1}
    PartIds = {n1}
    DraftEditors = {d1}
    PublishKeys = {k9}
    MaxDraftRev <- MCMaxDraftRev
    NoRow = NoRow
    Charges = {1, 2}
    ModelBill = 3
    Authorized = 5
    Estimate = 2
    MaxSubmits = 3
INVARIANTS ServiceTypeOK OnePhotoPerView OneJobPerQuoteAndKey JobIsTheConfirmedQuote JobsRunTheirConfig BindingsFitTheirModel SettledIsTheWholeBill UnknownTaskHoldsReserve
PROPERTIES NoLostEdit LateVerdictIsDropped ReleasesFreezeTheDraft
CHECK_DEADLOCK FALSE
