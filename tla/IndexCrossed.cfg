\* Two APT syncs of an upstream that publishes a revision between them: the one that commits
\* first may be the one that remembers last.
SPECIFICATION Spec
CONSTANTS
    None = None  j1 = j1  j2 = j2
    Jobs = {j1, j2}
    Revisions = {1, 2, 3, 4}
    Signed = {1, 2, 4}
    AscMayBeLost = FALSE
    Packages = {"a", "b", "c", "d"}
    Stanzas <- Transacted
    Format = "apt"
    MayForce = FALSE
    ClearMayFail = FALSE
    MaxMishaps = 1
INVARIANT MarkedIsWhole
