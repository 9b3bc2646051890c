------------------------------- MODULE SyncJobs -------------------------------
(***************************************************************************)
(* The background jobs that synchronise the upstream sources: SyncManager  *)
(* (services/sync_manager.py).                                             *)
(*                                                                         *)
(* start_job() runs under the lock of the manager and starts the thread of *)
(* the job, which starts one thread per format, which starts one thread    *)
(* per source; a semaphore per job and format bounds how many of those     *)
(* synchronise at once.  The format threads only start and join their      *)
(* workers: they are folded into Spawn and Join.  The log lines belong to  *)
(* JobStream.                                                              *)
(***************************************************************************)
EXTENDS Integers, Sequences, FiniteSets

CONSTANTS
    Jobs,         \* job identifiers (bounds how many jobs are started)
    Groups,       \* what a job may be asked for: "all", "apt", a source, ...
    Sources,
    SourcesOf,    \* group -> its sources
    Named,        \* the groups that are a single source, asked for by its name
    FormatOf,     \* source -> its format
    Permits,      \* format -> how many sources a job synchronises at once
    EnabledSets,  \* the sets of enabled sources the settings may hold
    Stoppable,    \* the formats whose sync looks at the stop flag
    None          \* no group

Formats == <<"apt", "rpm", "apk">>

ASSUME SyncJobsAssumption ==
    /\ IsFiniteSet(Sources)
    /\ SourcesOf \in [Groups -> SUBSET Sources]
    /\ Named \subseteq Groups
    /\ FormatOf \in [Sources -> {"apt", "rpm", "apk"}]
    /\ Permits \in [{"apt", "rpm", "apk"} -> Nat \ {0}]
    /\ EnabledSets \subseteq SUBSET Sources
    /\ None \notin Groups

VARIABLES
    status,  \* job -> its status; "none" before start_job(), "forgotten" after the cleanup
    group,   \* job -> the group it was started for
    srcs,    \* job -> the sources it synchronises
    stop,    \* job -> its stop flag
    pc,      \* job -> what its thread does next
    at,      \* job -> the format it starts next
    work,    \* job -> source -> where its worker is
    done,    \* job -> done_count
    errors   \* job -> error_count

vars == <<status, group, srcs, stop, pc, at, work, done, errors>>

Busy  == {"queued", "ready", "sync"}
Ended == {"ok", "error", "cut"}

TypeOK ==
    /\ status \in [Jobs -> {"none", "running", "done", "cancelled", "forgotten"}]
    /\ group \in [Jobs -> Groups \cup {None}]
    /\ srcs \in [Jobs -> SUBSET Sources]
    /\ stop \in [Jobs -> BOOLEAN]
    /\ pc \in [Jobs -> {"none", "spawn", "done", "cancelled", "over"}]
    /\ at \in [Jobs -> 1 .. Len(Formats) + 1]
    /\ work \in [Jobs -> [Sources -> {"none"} \cup Busy \cup Ended]]
    /\ done \in [Jobs -> Nat]
    /\ errors \in [Jobs -> Nat]

Init ==
    /\ status = [j \in Jobs |-> "none"]
    /\ group = [j \in Jobs |-> None]
    /\ srcs = [j \in Jobs |-> {}]
    /\ stop = [j \in Jobs |-> FALSE]
    /\ pc = [j \in Jobs |-> "none"]
    /\ at = [j \in Jobs |-> 1]
    /\ work = [j \in Jobs |-> [s \in Sources |-> "none"]]
    /\ done = [j \in Jobs |-> 0]
    /\ errors = [j \in Jobs |-> 0]

--------------------------------------------------------------------------------
\* start_job()

\* _active_job_for_group()
Active(g) == {j \in Jobs : status[j] = "running" /\ group[j] = g}

\* The endpoints: the settings leave out disabled sources, but not one asked for by its name.
Todo(g, enabled) == IF g \in Named THEN SourcesOf[g] ELSE SourcesOf[g] \cap enabled

\* No active job of the group: a new one, under the lock of the manager.  Without an
\* enabled source it is born finished.  Jobs that ended an hour ago are forgotten.
StartJob(j, g) ==
    /\ status[j] = "none"
    /\ Active(g) = {}
    /\ \E enabled \in EnabledSets, old \in SUBSET {i \in Jobs : pc[i] = "over"} :
         LET todo == Todo(g, enabled)
         IN  /\ srcs' = [srcs EXCEPT ![j] = todo]
             /\ pc' = [pc EXCEPT ![j] = IF todo = {} THEN "over" ELSE "spawn"]
             /\ status' = [i \in Jobs |->
                  IF i = j THEN (IF todo = {} THEN "done" ELSE "running")
                  ELSE IF i \in old /\ todo # {} THEN "forgotten"
                  ELSE status[i]]
    /\ group' = [group EXCEPT ![j] = g]
    /\ UNCHANGED <<stop, at, work, done, errors>>

\* SyncJob.cancel(): it reads the status before it sets the flag, so the flag may be
\* set when the job has just ended.
Cancel(j) ==
    /\ status[j] # "none"
    /\ stop' = [stop EXCEPT ![j] = TRUE]
    /\ UNCHANGED <<status, group, srcs, pc, at, work, done, errors>>

--------------------------------------------------------------------------------
\* The thread of the job: _run_job() and _run_format_group().

\* One format at a time, skipped once the job is to stop.
Spawn(j) ==
    /\ pc[j] = "spawn"
    /\ at[j] <= Len(Formats)
    /\ work' = [work EXCEPT ![j] = [s \in Sources |->
         IF s \in srcs[j] /\ FormatOf[s] = Formats[at[j]] /\ ~stop[j]
         THEN "queued" ELSE work[j][s]]]
    /\ at' = [at EXCEPT ![j] = @ + 1]
    /\ UNCHANGED <<status, group, srcs, stop, pc, done, errors>>

\* Slip: the threads are not joined.
JoinNothing(j) ==
    /\ pc[j] = "spawn"
    /\ at[j] = Len(Formats) + 1
    /\ pc' = [pc EXCEPT ![j] = IF stop[j] THEN "cancelled" ELSE "done"]
    /\ UNCHANGED <<status, group, srcs, stop, at, work, done, errors>>

\* Slip: the outcome is read off the errors alone.
JoinStopUnread(j) ==
    /\ pc[j] = "spawn"
    /\ at[j] = Len(Formats) + 1
    /\ \A s \in Sources : work[j][s] \notin Busy
    /\ pc' = [pc EXCEPT ![j] = "done"]
    /\ UNCHANGED <<status, group, srcs, stop, at, work, done, errors>>

\* Every thread has been joined; the summary depends on the stop flag.
Join(j) ==
    /\ pc[j] = "spawn"
    /\ at[j] = Len(Formats) + 1
    /\ \A s \in Sources : work[j][s] \notin Busy
    /\ pc' = [pc EXCEPT ![j] = IF stop[j] THEN "cancelled" ELSE "done"]
    /\ UNCHANGED <<status, group, srcs, stop, at, work, done, errors>>

\* The status is set after the summary has been emitted.
Settle(j) ==
    /\ pc[j] \in {"done", "cancelled"}
    /\ status' = [status EXCEPT ![j] = pc[j]]
    /\ pc' = [pc EXCEPT ![j] = "over"]
    /\ UNCHANGED <<group, srcs, stop, at, work, done, errors>>

--------------------------------------------------------------------------------
\* The worker of one source: _sync_one() of _run_format_group().

Move(j, s, to) == work' = [work EXCEPT ![j] = [@ EXCEPT ![s] = to]]
Count(n, j)    == [n EXCEPT ![j] = @ + 1]

\* Slip: the early return of a source that is cut keeps its permit.
HoldersAndCut(j, f) == {s \in Sources : FormatOf[s] = f /\ work[j][s] \in {"ready", "sync", "cut"}}

\* The sources that hold one of the permits of the format.
Holders(j, f) == {s \in Sources : FormatOf[s] = f /\ work[j][s] \in {"ready", "sync"}}

Acquire(j, s) ==
    /\ work[j][s] = "queued"
    /\ Cardinality(Holders(j, FormatOf[s])) < Permits[FormatOf[s]]
    /\ Move(j, s, "ready")
    /\ UNCHANGED <<status, group, srcs, stop, pc, at, done, errors>>

BeginSync(j, s) ==
    /\ work[j][s] = "ready"
    /\ ~stop[j]
    /\ Move(j, s, "sync")
    /\ UNCHANGED <<status, group, srcs, stop, pc, at, done, errors>>

\* Slip: a source that is cut is taken off the count.
CutUncounts(j, s) ==
    /\ work[j][s] = "ready"
    /\ stop[j]
    /\ Move(j, s, "cut")
    /\ done' = [done EXCEPT ![j] = @ - 1]
    /\ UNCHANGED <<status, group, srcs, stop, pc, at, errors>>

\* A source whose turn comes after the cancellation is counted, not synchronised.
Cut(j, s) ==
    /\ work[j][s] = "ready"
    /\ stop[j]
    /\ Move(j, s, "cut")
    /\ done' = Count(done, j)
    /\ UNCHANGED <<status, group, srcs, stop, pc, at, errors>>

\* sync_source() returns or raises.  CPython 3.10 runs `job.done_count += 1` without
\* switching threads, so the counts of the three formats do not lose each other.
EndSync(j, s) ==
    /\ work[j][s] = "sync"
    /\ \/ Move(j, s, "ok") /\ UNCHANGED errors
       \/ Move(j, s, "error") /\ errors' = Count(errors, j)
       \/ stop[j] /\ FormatOf[s] \in Stoppable /\ Move(j, s, "cut") /\ UNCHANGED errors
    /\ done' = Count(done, j)
    /\ UNCHANGED <<status, group, srcs, stop, pc, at>>

--------------------------------------------------------------------------------
Thread(j)    == Spawn(j) \/ Join(j) \/ Settle(j)
Worker(j, s) == Acquire(j, s) \/ BeginSync(j, s) \/ Cut(j, s) \/ EndSync(j, s)

Next ==
    \E j \in Jobs :
        \/ \E g \in Groups : StartJob(j, g)
        \/ Cancel(j)
        \/ Thread(j)
        \/ \E s \in Sources : Worker(j, s)

Spec == Init /\ [][Next]_vars

\* Threads run, and every sync returns: its downloads and statements have timeouts.
FairSpec ==
    Spec /\ \A j \in Jobs :
        WF_vars(Thread(j)) /\ \A s \in Sources : WF_vars(Worker(j, s))

--------------------------------------------------------------------------------
\* Properties.

\* "Un seul job actif par groupe": two requests for the same group never run two jobs.
OneJobPerGroup ==
    \A i, j \in Jobs :
        status[i] = "running" /\ status[j] = "running" /\ group[i] = group[j] => i = j

\* A job that is no longer running has left no sync behind: what start_job() allows
\* next for its group cannot meet it.
NothingLeftBehind ==
    \A j \in Jobs : status[j] # "running" => \A s \in Sources : work[j][s] \notin Busy

\* A job that ends as "done" has synchronised each of its sources: a cancellation that
\* cut one of them is never reported as a success.
DoneMeansAll ==
    \A j \in Jobs : status[j] = "done" => \A s \in srcs[j] : work[j][s] \in {"ok", "error"}

\* The counters the job reports when it ends: every worker started was counted once,
\* and the errors are those of its sources.
CountsAddUp ==
    \A j \in Jobs : status[j] # "running" =>
        /\ done[j] = Cardinality({s \in srcs[j] : work[j][s] \in Ended})
        /\ errors[j] = Cardinality({s \in srcs[j] : work[j][s] = "error"})

\* Every job ends, cancelled or not, whatever its sources answer.
JobsEnd == \A j \in Jobs : status[j] = "running" ~> status[j] # "running"
================================================================================
