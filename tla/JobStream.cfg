\* Two connections and one cancellation, with a thread for each of them.
SPECIFICATION FairLogSpec
CONSTANTS
    NoReader = NoReader
    Readers = {r1, r2}
    r1 = r1  r2 = r2
    Cancels = {c1}
    c1 = c1
    Threads = 3
    MaxLines = 2
    AuditMayFail = TRUE
INVARIANTS LogTypeOK StreamComplete
PROPERTIES JobEnds ReadersEnd
CHECK_DEADLOCK FALSE
