\* Two handlers at once, every verdict of both policies, kills at any moment.
SPECIFICATION Spec
CONSTANTS
    h1 = h1  h2 = h2  i1 = i1  i2 = i2  jammy = jammy  noble = noble
    NoScan = NoScan  None = None
    Handlers = {h1, h2}
    Versions = {1}
    Dists = {jammy, noble}
    Ids = {i1, i2}
    MayCrash = TRUE
    Routes <- OneWay
    Summaries <- Critical
    EpssSets <- OneScore
    CvePolicies <- TwoPolicies
    EpssPolicy <- DefaultEpss
SYMMETRY Alike
INVARIANTS TypeOK ApprovedRanReprepro PromotionCleared RejectedNotCopied
PROPERTIES HistoryIsFrozen FollowsLifecycle
