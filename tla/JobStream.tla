------------------------------- MODULE JobStream -------------------------------
(***************************************************************************)
(* The log of one background job and the clients that follow it: emit(),   *)
(* iter_stream() and cancel() of SyncJob (services/sync_manager.py) and of *)
(* MirrorJob (services/mirror_manager.py), which share their text, and the *)
(* panel of the web page that reads the stream.                            *)
(*                                                                         *)
(* A streamed response calls next() on the generator in a thread of the    *)
(* server's pool, once per line.  The generator yields its lines inside    *)
(* `with self._lock`: between two calls it holds the lock of the job and   *)
(* no thread, and it needs a thread to go on and release the lock.  While  *)
(* it waits for a line it holds a thread and not the lock.  The threads of *)
(* the job are one writer: they compete for the lock in the same way.      *)
(***************************************************************************)
EXTENDS Integers, FiniteSets

CONSTANTS
    Readers,    \* connections to the stream
    Cancels,    \* requests that cancel the job
    Threads,    \* threads of the server's pool
    MaxLines,   \* bound: lines the job emits before its summary
    AuditMayFail,  \* whether the job's audit entry may raise once it is over (the mirror)
    NoReader        \* nobody, as the holder of the lock

ASSUME JobStreamAssumption ==
    /\ MaxLines \in Nat
    /\ Threads \in Nat
    /\ NoReader \notin Readers
    /\ Readers \cap Cancels = {}

VARIABLES
    jobStatus,   \* "running" or "over"
    logs,     \* how many lines the log holds
    summary,  \* the number of the summary line; 0 before it is emitted
    job,      \* what the job does next
    lock,     \* the reader that keeps the lock between two calls, or None
    reader,   \* reader -> where its response is
    index,    \* reader -> idx of its generator
    got,      \* reader -> how many lines its client has counted
    gone,     \* reader -> whether its client has left
    cancel    \* cancel request -> where it is

logVars == <<jobStatus, logs, summary, job, lock, reader, index, got, gone, cancel>>

LogTypeOK ==
    /\ jobStatus \in {"running", "over"}
    /\ logs \in Nat
    /\ summary \in Nat
    /\ job \in {"work", "emit", "sum", "settle", "audit", "late", "over"}
    /\ lock \in Readers \cup {NoReader}
    /\ reader \in [Readers ->
         {"off", "queued", "lock", "yield", "sent", "wait", "last", "end", "dropped"}]
    /\ index \in [Readers -> Nat]
    /\ got \in [Readers -> Nat]
    /\ gone \in [Readers -> BOOLEAN]
    /\ cancel \in [Cancels -> {"none", "emit", "over"}]

LogInit ==
    /\ jobStatus = "running"
    /\ logs = 0
    /\ summary = 0
    /\ job = "work"
    /\ lock = NoReader
    /\ reader = [r \in Readers |-> "off"]
    /\ index = [r \in Readers |-> 0]
    /\ got = [r \in Readers |-> 0]
    /\ gone = [r \in Readers |-> FALSE]
    /\ cancel = [c \in Cancels |-> "none"]

\* A thread of the pool is free: none is kept by a reader that yields.
Taken == {r \in Readers : reader[r] \in {"lock", "wait"}} \cup {c \in Cancels : cancel[c] = "emit"}
ThreadFree == Cardinality(Taken) < Threads

--------------------------------------------------------------------------------
\* The job.

Work ==
    /\ job = "work"
    /\ job' \in (IF logs < MaxLines THEN {"emit", "sum"} ELSE {"sum"})
    /\ UNCHANGED <<jobStatus, logs, summary, lock, reader, index, got, gone, cancel>>

\* emit(): the append is alone under the lock.
AppendLine ==
    /\ lock = NoReader
    /\ logs' = logs + 1

Emit ==
    /\ job = "emit"
    /\ AppendLine
    /\ job' = "work"
    /\ UNCHANGED <<jobStatus, summary, lock, reader, index, got, gone, cancel>>

\* The summary, or the line of the exception that ended the job.
EmitSummary ==
    /\ job = "sum"
    /\ AppendLine
    /\ summary' = logs + 1
    /\ job' = "settle"
    /\ UNCHANGED <<jobStatus, lock, reader, index, got, gone, cancel>>

SettleJob ==
    /\ job = "settle"
    /\ jobStatus' = "over"
    /\ job' = "audit"
    /\ UNCHANGED <<logs, summary, lock, reader, index, got, gone, cancel>>

\* audit_log(): the sync ignores its errors, the mirror emits one more line for them.
Audit ==
    /\ job = "audit"
    /\ job' \in (IF AuditMayFail THEN {"over", "late"} ELSE {"over"})
    /\ UNCHANGED <<jobStatus, logs, summary, lock, reader, index, got, gone, cancel>>

EmitLate ==
    /\ job = "late"
    /\ AppendLine
    /\ job' = "over"
    /\ UNCHANGED <<jobStatus, summary, lock, reader, index, got, gone, cancel>>

--------------------------------------------------------------------------------
\* cancel(): it emits whatever became of the status it read.

\* Slip: the request is left with the status of the job.
CancelReadStatus(c) ==
    /\ cancel[c] = "none"
    /\ ThreadFree
    /\ cancel' = [cancel EXCEPT ![c] = jobStatus]
    /\ UNCHANGED <<jobStatus, logs, summary, job, lock, reader, index, got, gone>>

CancelRead(c) ==
    /\ cancel[c] = "none"
    /\ ThreadFree
    /\ cancel' = [cancel EXCEPT ![c] = IF jobStatus = "running" THEN "emit" ELSE "over"]
    /\ UNCHANGED <<jobStatus, logs, summary, job, lock, reader, index, got, gone>>

CancelEmit(c) ==
    /\ cancel[c] = "emit"
    /\ AppendLine
    /\ cancel' = [cancel EXCEPT ![c] = "over"]
    /\ UNCHANGED <<jobStatus, summary, job, lock, reader, index, got, gone>>

--------------------------------------------------------------------------------
\* iter_stream(), run by the streamed response.

To(r, where) == reader' = [reader EXCEPT ![r] = where]

\* A client connects from the first line, or from the count of the connection it left.
Connect(r) ==
    /\ reader[r] = "off"
    /\ \E n \in {0} \cup {got[q] : q \in {p \in Readers : gone[p]}} :
         /\ got' = [got EXCEPT ![r] = n]
         /\ index' = [index EXCEPT ![r] = n]
    /\ To(r, "queued")
    /\ UNCHANGED <<jobStatus, logs, summary, job, lock, gone, cancel>>

\* The first next().
Call(r) ==
    /\ reader[r] = "queued"
    /\ ThreadFree
    /\ To(r, "lock")
    /\ UNCHANGED <<jobStatus, logs, summary, job, lock, index, got, gone, cancel>>

\* Slip: the status is read first, and the lines that are left are not sent.
LoopStatusFirst(r, i) ==
    IF jobStatus = "over" THEN To(r, "last") /\ lock' = NoReader
    ELSE IF i < logs THEN To(r, "yield") /\ lock' = r
    ELSE To(r, "wait") /\ lock' = NoReader

\* The generator's loop, with the lock: it yields a line and keeps the lock, or it
\* releases the lock to send DONE or to wait.
Loop(r, i) ==
    IF i < logs THEN To(r, "yield") /\ lock' = r
    ELSE IF jobStatus = "over" THEN To(r, "last") /\ lock' = NoReader
    ELSE To(r, "wait") /\ lock' = NoReader

Enter(r) ==
    /\ reader[r] = "lock"
    /\ lock = NoReader
    /\ Loop(r, index[r])
    /\ UNCHANGED <<jobStatus, logs, summary, job, index, got, gone, cancel>>

\* The client reads the line and counts it.
Take(r) ==
    /\ reader[r] = "yield"
    /\ ~gone[r]
    /\ got' = [got EXCEPT ![r] = @ + 1]
    /\ To(r, "sent")
    /\ UNCHANGED <<jobStatus, logs, summary, job, lock, index, gone, cancel>>

\* The next call of next(), with the lock still held.
Resume(r) ==
    /\ reader[r] = "sent"
    /\ ThreadFree
    /\ index' = [index EXCEPT ![r] = @ + 1]
    /\ Loop(r, index[r] + 1)
    /\ UNCHANGED <<jobStatus, logs, summary, job, got, gone, cancel>>

\* Slip: the wait has no timeout.
WakeOnLine(r) ==
    /\ reader[r] = "wait"
    /\ index[r] < logs
    /\ To(r, "lock")
    /\ UNCHANGED <<jobStatus, logs, summary, job, lock, index, got, gone, cancel>>

\* The wait ends: a line was emitted, or a second has passed.
Wake(r) ==
    /\ reader[r] = "wait"
    /\ To(r, "lock")
    /\ UNCHANGED <<jobStatus, logs, summary, job, lock, index, got, gone, cancel>>

\* The client reads DONE.
Finish(r) ==
    /\ reader[r] = "last"
    /\ ~gone[r]
    /\ To(r, "end")
    /\ UNCHANGED <<jobStatus, logs, summary, job, lock, index, got, gone, cancel>>

\* The client leaves.
Leave(r) ==
    /\ reader[r] \notin {"off", "end", "dropped"}
    /\ ~gone[r]
    /\ gone' = [gone EXCEPT ![r] = TRUE]
    /\ UNCHANGED <<jobStatus, logs, summary, job, lock, reader, index, got, cancel>>

\* Slip: a generator left between two lines is not closed.
CloseIdle(r) ==
    /\ gone[r]
    /\ reader[r] \in {"queued", "last"}
    /\ To(r, "dropped")
    /\ UNCHANGED <<jobStatus, logs, summary, job, lock, index, got, gone, cancel>>

\* The server notices between two calls, and closing the generator releases the lock.
Close(r) ==
    /\ gone[r]
    /\ reader[r] \in {"queued", "yield", "sent", "last"}
    /\ To(r, "dropped")
    /\ lock' = IF lock = r THEN NoReader ELSE lock
    /\ UNCHANGED <<jobStatus, logs, summary, job, index, got, gone, cancel>>

--------------------------------------------------------------------------------
Writer     == Work \/ Emit \/ EmitSummary \/ SettleJob \/ Audit \/ EmitLate
Request(c) == CancelRead(c) \/ CancelEmit(c)
\* The StreamingResponse of the endpoint of either kind of job, from its first line to its last.
Serve(r)   == Call(r) \/ Enter(r) \/ Take(r) \/ Resume(r) \/ Wake(r) \/ Finish(r) \/ Close(r)

LogNext ==
    \/ Writer
    \/ \E c \in Cancels : Request(c)
    \/ \E r \in Readers : Connect(r) \/ Serve(r) \/ Leave(r)

LogSpec == LogInit /\ [][LogNext]_logVars

\* The lock and the threads of the pool are granted to those who keep asking: the pool
\* serves its queue in order, and the lock is not withheld for ever.  Clients read what
\* they are sent, until they leave.
FairLogSpec ==
    /\ LogSpec
    /\ SF_logVars(Writer)
    /\ \A c \in Cancels : SF_logVars(CancelEmit(c))
    /\ \A r \in Readers : SF_logVars(Serve(r))

--------------------------------------------------------------------------------
\* Properties.

\* "tous les logs": a client that reads DONE has read everything the job said, its
\* summary included, however often it reconnected.
StreamComplete ==
    \A r \in Readers : reader[r] = "end" => summary > 0 /\ got[r] >= summary

\* The line in flight is the one the client expects: a reconnection skips no line and
\* repeats none, whichever side of the line the connection broke.
NextExpected ==
    \A r \in Readers : reader[r] = "yield" => index[r] = got[r] /\ got[r] < logs

\* The job ends: what its clients do with its log does not hold it up for ever.
JobEnds == <>(jobStatus = "over")

\* Every response ends: its client has read DONE or has left.
ReadersEnd ==
    \A r \in Readers : reader[r] # "off" ~> reader[r] \in {"end", "dropped"}
================================================================================
