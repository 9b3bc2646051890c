\* Two connections that share one thread: the proportion is that of 41 connections and
\* the 40 threads of the pool.
SPECIFICATION FairLogSpec
CONSTANTS
    NoReader = NoReader
    Readers = {r1, r2}
    r1 = r1  r2 = r2
    Cancels = {}
    Threads = 1
    MaxLines = 1
    AuditMayFail = FALSE
PROPERTIES ReadersEnd
CHECK_DEADLOCK FALSE
