\* Two APK syncs of an upstream that does not change.
SPECIFICATION Spec
CONSTANTS
    None = None  j1 = j1  j2 = j2
    Jobs = {j1, j2}
    Revisions = {1, 2, 3, 4}
    Signed = {1, 2, 4}
    AscMayBeLost = FALSE
    Packages = {"a", "b", "c", "d"}
    Stanzas <- Transacted
    Format = "apk"
    MayForce = FALSE
    ClearMayFail = FALSE
    MaxMishaps = 0
INVARIANT MarkedIsWhole
