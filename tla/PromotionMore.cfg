\* Not one of the runs: what else holds of one handler at a time without a crash.
SPECIFICATION FairSpec
CONSTANTS
    h1 = h1  h2 = h2  i1 = i1  i2 = i2  jammy = jammy  noble = noble
    NoScan = NoScan  None = None
    Handlers = {h1}
    Versions = {1, 2}
    Dists = {jammy, noble}
    Ids = {i1}
    MayCrash = FALSE
    Routes <- OneWay
    Summaries <- Critical
    EpssSets <- EpssScores
    CvePolicies <- TwoPolicies
    EpssPolicy <- DefaultEpss
INVARIANT OneCopyPerRequest
PROPERTIES HandlersReturn PendingIsKept
