\* Two handlers at once over two versions, one of them in two architectures, three days.
SPECIFICATION Spec
CONSTANTS
    h1 = h1  h2 = h2  Stale = Stale  None = None
    Handlers = {h1, h2}
    Items <- ThreeItems
    CleanupDays = 1
    MaxVersions = 1
    MinAge = 1
    MaxDay = 2
    MaxRequests = 4
INVARIANTS TypeOK AddedStaysListed FileHasRow CollectorKeepsItsWord
SYMMETRY Symmetry
