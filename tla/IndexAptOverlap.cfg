\* Two transactional syncs over unique rows, of an upstream that publishes two revisions, one
\* that cannot be inserted, and where a forged index may be served.
SPECIFICATION Spec
CONSTANTS
    None = None  j1 = j1  j2 = j2
    Jobs = {j1, j2}
    Revisions = {1, 2, 3, 4}
    Signed = {1, 2, 4}
    AscMayBeLost = FALSE
    Packages = {"a", "b", "c", "d"}
    Stanzas <- Transacted
    Format = "apt"
    MayForce = TRUE
    ClearMayFail = FALSE
    MaxMishaps = 2
INVARIANTS TableIsWhole OnlySigned
