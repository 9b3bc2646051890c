\* One handler: reprepro fails on a lock held elsewhere, and the approval is recorded.
SPECIFICATION Spec
CONSTANTS
    h1 = h1  h2 = h2  i1 = i1  i2 = i2  jammy = jammy  noble = noble
    NoScan = NoScan  None = None
    Handlers = {h1}
    Versions = {1}
    Dists = {jammy, noble}
    Ids = {i1}
    MayCrash = FALSE
    Routes <- OneWay
    Summaries <- ReviewOnly
    EpssSets <- NoEpss
    CvePolicies <- OnePolicy
    EpssPolicy <- DefaultEpss
INVARIANT ApprovedWasPromoted
