\* One streaming sync at a time, four mishaps.
SPECIFICATION FairSpec
CONSTANTS
    None = None  j1 = j1  j2 = j2
    Jobs = {j1}
    Revisions = {1, 2, 3}
    Signed = {1, 2, 3}
    AscMayBeLost = TRUE
    Packages = {"a", "b", "c", "d"}
    Stanzas <- Streamed
    Format = "rpm"
    MayForce = TRUE
    ClearMayFail = FALSE
    MaxMishaps = 4
INVARIANT TypeOK
PROPERTIES SkipOnlyWhole FollowsProtocol CatchesUp
