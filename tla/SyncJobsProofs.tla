---------------------------- MODULE SyncJobsProofs ----------------------------
(***************************************************************************)
(* Proofs about the background jobs: SyncJobs, for any jobs, groups,       *)
(* sources and permits, then JobStream, the log of one of them, for any    *)
(* number of connections, cancellations, threads and lines.                *)
(***************************************************************************)
EXTENDS SyncJobs, JobStream, FiniteSetTheorems, TLAPS

\* The status says where the thread of the job is; only between Spawn and Join does
\* the job have workers, and they work on its sources.
Threaded ==
    \A j \in Jobs :
        /\ status[j] = "none" <=> pc[j] = "none"
        /\ status[j] = "running" <=> pc[j] \in {"spawn", "done", "cancelled"}
        /\ pc[j] # "spawn" => \A s \in Sources : work[j][s] \notin Busy
        /\ pc[j] = "none" => \A s \in Sources : work[j][s] = "none"
        /\ \A s \in Sources : work[j][s] # "none" => s \in srcs[j]
        /\ pc[j] = "none" => at[j] = 1 /\ done[j] = 0 /\ errors[j] = 0

\* A format not started yet has no worker; one behind `at` has its workers, unless the
\* job is to stop; only then is a worker cut.
Started ==
    \A j \in Jobs :
        /\ \A s \in Sources, k \in 1 .. Len(Formats) :
             FormatOf[s] = Formats[k] /\ k >= at[j] => work[j][s] = "none"
        /\ \A s \in Sources : work[j][s] = "cut" => stop[j]
        /\ ~stop[j] => \A s \in srcs[j], k \in 1 .. Len(Formats) :
             FormatOf[s] = Formats[k] /\ k < at[j] => work[j][s] # "none"

\* The summary "done" is chosen, and later reported, over sources synchronised.
Whole ==
    \A j \in Jobs :
        pc[j] = "done" \/ status[j] = "done" =>
            \A s \in srcs[j] : work[j][s] \in {"ok", "error"}

\* The counters at every moment.
Counted ==
    \A j \in Jobs :
        /\ done[j] = Cardinality({s \in Sources : work[j][s] \in Ended})
        /\ errors[j] = Cardinality({s \in Sources : work[j][s] \in {"error"}})

Inv ==
    /\ TypeOK
    /\ OneJobPerGroup
    /\ Threaded
    /\ Started
    /\ Whole
    /\ Counted

USE DEF Busy, Ended

\* The three formats, one by one: what the code's loop goes through.
LEMMA FormatsAre ==
    /\ Len(Formats) = 3
    /\ Formats[1] = "apt" /\ Formats[2] = "rpm" /\ Formats[3] = "apk"
BY DEF Formats

\* Every source has a format that the loop reaches.
LEMMA FormatReached ==
    ASSUME NEW s \in Sources
    PROVE  \E k \in 1 .. Len(Formats) : FormatOf[s] = Formats[k]
<1>1. FormatOf[s] \in {"apt", "rpm", "apk"}
  BY SyncJobsAssumption
<1> QED
  BY <1>1, FormatsAre

\* A worker that ends is counted once: the set counted grows by one element.
LEMMA OneMore ==
    ASSUME NEW f \in [Sources -> {"none"} \cup Busy \cup Ended],
           NEW s \in Sources, NEW to, NEW counted, NEW g,
           g = [f EXCEPT ![s] = to], f[s] \notin counted, to \in counted
    PROVE  Cardinality({x \in Sources : g[x] \in counted}) =
             Cardinality({x \in Sources : f[x] \in counted}) + 1
<1> DEFINE F == {x \in Sources : f[x] \in counted}
           G == {x \in Sources : g[x] \in counted}
<1>1. IsFiniteSet(F)
  BY SyncJobsAssumption, FS_Subset
<1>2. s \notin F /\ G = F \cup {s}
  OBVIOUS
<1>3. Cardinality(F \cup {s}) = Cardinality(F) + 1
  BY <1>1, <1>2, FS_AddElement
<1> QED
  BY <1>2, <1>3

--------------------------------------------------------------------------------
\* The initial state satisfies the invariant.
LEMMA InvInit == Init => Inv
<1> SUFFICES ASSUME Init PROVE Inv
  OBVIOUS
<1> USE DEF Init
<1>1. TypeOK
  BY FormatsAre, SyncJobsAssumption DEF TypeOK
<1>2. OneJobPerGroup /\ Threaded /\ Whole
  BY SyncJobsAssumption DEF OneJobPerGroup, Threaded, Whole
<1>3. Started
  BY FormatsAre DEF Started
<1>4. Counted
  <2>1. \A j \in Jobs :
          /\ {s \in Sources : work[j][s] \in Ended} = {}
          /\ {s \in Sources : work[j][s] \in {"error"}} = {}
    OBVIOUS
  <2> QED
    BY <2>1, FS_EmptySet DEF Counted
<1> QED
  BY <1>1, <1>2, <1>3, <1>4 DEF Inv

\* A new job: its group has no other active job, and it has no worker yet.
LEMMA StartStep ==
    ASSUME Inv, NEW j \in Jobs, NEW g \in Groups, StartJob(j, g)
    PROVE  Inv'
<1> PICK enabled \in EnabledSets, old \in SUBSET {i \in Jobs : pc[i] = "over"} :
      LET todo == Todo(g, enabled)
      IN  /\ srcs' = [srcs EXCEPT ![j] = todo]
          /\ pc' = [pc EXCEPT ![j] = IF todo = {} THEN "over" ELSE "spawn"]
          /\ status' = [i \in Jobs |->
               IF i = j THEN (IF todo = {} THEN "done" ELSE "running")
               ELSE IF i \in old /\ todo # {} THEN "forgotten"
               ELSE status[i]]
  BY DEF StartJob
<1> DEFINE todo == Todo(g, enabled)
<1>0. /\ status[j] = "none" /\ pc[j] = "none"
      /\ Active(g) = {}
      /\ group' = [group EXCEPT ![j] = g]
      /\ UNCHANGED <<stop, at, work, done, errors>>
      /\ todo \in SUBSET Sources
  BY SyncJobsAssumption DEF StartJob, Todo, Inv, Threaded
<1>1. TypeOK'
  BY <1>0 DEF Inv, TypeOK
<1>2. OneJobPerGroup'
  <2> SUFFICES ASSUME NEW i \in Jobs, NEW k \in Jobs,
                      status'[i] = "running", status'[k] = "running",
                      group'[i] = group'[k]
               PROVE  i = k
    BY DEF OneJobPerGroup
  <2>1. CASE i # j /\ k # j
    BY <2>1, <1>0 DEF Inv, TypeOK, OneJobPerGroup
  <2>2. CASE i = j \/ k = j
    BY <2>2, <1>0 DEF Inv, TypeOK, Active
  <2> QED
    BY <2>1, <2>2
<1>3. Threaded'
  <2> SUFFICES ASSUME NEW i \in Jobs
               PROVE  /\ status'[i] = "none" <=> pc'[i] = "none"
                      /\ status'[i] = "running" <=> pc'[i] \in {"spawn", "done", "cancelled"}
                      /\ pc'[i] # "spawn" => \A s \in Sources : work'[i][s] \notin Busy
                      /\ pc'[i] = "none" => \A s \in Sources : work'[i][s] = "none"
                      /\ \A s \in Sources : work'[i][s] # "none" => s \in srcs'[i]
                      /\ pc'[i] = "none" => at'[i] = 1 /\ done'[i] = 0 /\ errors'[i] = 0
    BY DEF Threaded
  <2>1. CASE i = j
    BY <2>1, <1>0 DEF Inv, TypeOK, Threaded
  <2>2. CASE i # j
    BY <2>2, <1>0 DEF Inv, TypeOK, Threaded
  <2> QED
    BY <2>1, <2>2
<1>4. Started'
  <2>1. at[j] = 1
    BY <1>0 DEF Inv, Threaded
  <2>2. \A i \in Jobs : i # j => srcs'[i] = srcs[i]
    BY DEF Inv, TypeOK
  <2> QED
    BY <2>1, <2>2, <1>0, FormatsAre DEF Inv, Started
<1>5. Whole'
  <2> SUFFICES ASSUME NEW i \in Jobs, pc'[i] = "done" \/ status'[i] = "done"
               PROVE  \A s \in srcs'[i] : work'[i][s] \in {"ok", "error"}
    BY DEF Whole
  <2>1. CASE i = j
    BY <2>1, <1>0 DEF Inv, TypeOK
  <2>2. CASE i # j
    BY <2>2, <1>0 DEF Inv, TypeOK, Whole
  <2> QED
    BY <2>1, <2>2
<1>6. Counted'
  BY <1>0 DEF Inv, Counted
<1> QED
  BY <1>1, <1>2, <1>3, <1>4, <1>5, <1>6 DEF Inv

\* The stop flag only weakens what is claimed of the workers.
LEMMA CancelStep ==
    ASSUME Inv, NEW j \in Jobs, Cancel(j)
    PROVE  Inv'
<1> USE DEF Cancel
<1>1. TypeOK'
  BY DEF Inv, TypeOK
<1>2. OneJobPerGroup' /\ Threaded' /\ Whole' /\ Counted'
  <2>1. OneJobPerGroup'
    BY DEF Inv, OneJobPerGroup
  <2>2. Threaded'
    BY DEF Inv, Threaded
  <2>3. Whole'
    BY DEF Inv, Whole
  <2>4. Counted'
    BY DEF Inv, Counted
  <2> QED
    BY <2>1, <2>2, <2>3, <2>4
<1>3. Started'
  BY DEF Inv, TypeOK, Started
<1> QED
  BY <1>1, <1>2, <1>3 DEF Inv

\* The workers of one format are started, unless the job is to stop.
LEMMA SpawnStep ==
    ASSUME Inv, NEW j \in Jobs, Spawn(j)
    PROVE  Inv'
<1> USE DEF Spawn
<1>0. /\ \A i \in Jobs : i # j => work'[i] = work[i] /\ at'[i] = at[i]
      /\ at'[j] = at[j] + 1
      /\ work'[j] = [s \in Sources |->
           IF s \in srcs[j] /\ FormatOf[s] = Formats[at[j]] /\ ~stop[j]
           THEN "queued" ELSE work[j][s]]
  BY DEF Inv, TypeOK
<1>1. TypeOK'
  BY FormatsAre DEF Inv, TypeOK
<1>2. OneJobPerGroup'
  BY DEF Inv, OneJobPerGroup
<1>3. Threaded'
  BY <1>0 DEF Inv, Threaded
<1>4. Started'
  <2> SUFFICES ASSUME NEW i \in Jobs
               PROVE  /\ \A s \in Sources, k \in 1 .. Len(Formats) :
                           FormatOf[s] = Formats[k] /\ k >= at'[i] => work'[i][s] = "none"
                      /\ \A s \in Sources : work'[i][s] = "cut" => stop[i]
                      /\ ~stop[i] => \A s \in srcs[i], k \in 1 .. Len(Formats) :
                           FormatOf[s] = Formats[k] /\ k < at'[i] => work'[i][s] # "none"
    BY DEF Started
  <2>1. CASE i # j
    BY <2>1, <1>0 DEF Inv, Started
  <2>2. CASE i = j
    <3>1. \A s \in Sources : work'[i][s] = "cut" => stop[i]
      BY <2>2, <1>0 DEF Inv, Started
    <3>2. ASSUME ~stop[i], NEW s \in srcs[i], NEW k \in 1 .. Len(Formats),
                 FormatOf[s] = Formats[k], k < at'[i]
          PROVE  work'[i][s] # "none"
      <4>1. s \in Sources
        BY DEF Inv, TypeOK
      <4>2. CASE k = at[j]
        BY <2>2, <3>2, <4>1, <4>2, <1>0
      <4>3. CASE k < at[j]
        BY <2>2, <3>2, <4>1, <4>3, <1>0 DEF Inv, Started
      <4> QED
        BY <2>2, <3>2, <4>2, <4>3, <1>0, FormatsAre DEF Inv, TypeOK
    <3>3. ASSUME NEW s \in Sources, NEW k \in 1 .. Len(Formats),
                 FormatOf[s] = Formats[k], k >= at'[i]
          PROVE  work'[i][s] = "none"
      <4>1. k > at[j] /\ at[j] \in 1 .. Len(Formats)
        BY <2>2, <3>3, <1>0, FormatsAre DEF Inv, TypeOK
      <4>2. Formats[k] # Formats[at[j]]
        BY <4>1, FormatsAre
      <4> QED
        BY <2>2, <3>3, <4>1, <4>2, <1>0 DEF Inv, Started
    <3> QED
      BY <3>1, <3>2, <3>3
  <2> QED
    BY <2>1, <2>2
<1>5. Whole'
  <2>1. pc[j] = "spawn" /\ status[j] = "running"
    BY DEF Inv, Threaded
  <2> QED
    BY <2>1, <1>0 DEF Inv, Whole
<1>6. Counted'
  <2>1. at[j] \in 1 .. Len(Formats)
    BY FormatsAre DEF Inv, TypeOK
  <2>2. \A s \in Sources : FormatOf[s] = Formats[at[j]] => work[j][s] = "none"
    BY <2>1 DEF Inv, Started
  <2>3. \A s \in Sources :
          /\ work'[j][s] \in Ended <=> work[j][s] \in Ended
          /\ work'[j][s] \in {"error"} <=> work[j][s] \in {"error"}
    BY <2>2, <1>0
  <2>4. \A i \in Jobs :
          /\ {s \in Sources : work'[i][s] \in Ended} = {s \in Sources : work[i][s] \in Ended}
          /\ {s \in Sources : work'[i][s] \in {"error"}} = {s \in Sources : work[i][s] \in {"error"}}
    <3> TAKE i \in Jobs
    <3>1. CASE i = j
      BY <2>3, <3>1
    <3>2. CASE i # j
      BY <1>0, <3>2
    <3> QED
      BY <3>1, <3>2
  <2> QED
    BY <2>4 DEF Inv, Counted
<1> QED
  BY <1>1, <1>2, <1>3, <1>4, <1>5, <1>6 DEF Inv

\* Every worker is over: the summary says "done" only if none was cut.
LEMMA JoinStep ==
    ASSUME Inv, NEW j \in Jobs, Join(j)
    PROVE  Inv'
<1> USE DEF Join
<1>0. \A i \in Jobs : i # j => pc'[i] = pc[i]
  BY DEF Inv, TypeOK
<1>1. TypeOK'
  BY DEF Inv, TypeOK
<1>2. OneJobPerGroup' /\ Started' /\ Counted'
  <2>1. OneJobPerGroup'
    BY DEF Inv, OneJobPerGroup
  <2>2. Started'
    BY DEF Inv, Started
  <2>3. Counted'
    BY DEF Inv, Counted
  <2> QED
    BY <2>1, <2>2, <2>3
<1>3. Threaded'
  BY <1>0 DEF Inv, TypeOK, Threaded
<1>4. Whole'
  <2> SUFFICES ASSUME NEW i \in Jobs, pc'[i] = "done" \/ status[i] = "done", NEW s \in srcs[i]
               PROVE  work[i][s] \in {"ok", "error"}
    BY DEF Whole
  <2>1. CASE i # j
    BY <2>1, <1>0 DEF Inv, Whole
  <2>2. CASE i = j
    <3>1. s \in Sources
      BY DEF Inv, TypeOK
    <3>2. CASE status[i] = "done"
      BY <3>2 DEF Inv, Whole
    <3>3. CASE pc'[i] = "done"
      <4>1. ~stop[j]
        BY <2>2, <3>3 DEF Inv, TypeOK
      <4>2. PICK k \in 1 .. Len(Formats) : FormatOf[s] = Formats[k]
        BY <3>1, FormatReached
      <4>3. work[j][s] # "none" /\ work[j][s] # "cut"
        BY <2>2, <3>1, <4>1, <4>2, FormatsAre DEF Inv, Started
      <4> QED
        BY <2>2, <3>1, <4>3 DEF Inv, TypeOK
    <3> QED
      BY <3>2, <3>3
  <2> QED
    BY <2>1, <2>2
<1> QED
  BY <1>1, <1>2, <1>3, <1>4 DEF Inv

\* The job leaves "running" with no worker left.
LEMMA SettleStep ==
    ASSUME Inv, NEW j \in Jobs, Settle(j)
    PROVE  Inv'
<1> USE DEF Settle
<1>0. \A i \in Jobs : i # j => pc'[i] = pc[i] /\ status'[i] = status[i]
  BY DEF Inv, TypeOK
<1>1. TypeOK'
  BY DEF Inv, TypeOK
<1>2. OneJobPerGroup'
  BY <1>0 DEF Inv, TypeOK, OneJobPerGroup
<1>3. Threaded'
  BY <1>0 DEF Inv, TypeOK, Threaded
<1>4. Whole'
  BY <1>0 DEF Inv, TypeOK, Whole
<1>5. Started'
  BY DEF Inv, Started
<1>6. Counted'
  BY DEF Inv, Counted
<1> QED
  BY <1>1, <1>2, <1>3, <1>4, <1>5, <1>6 DEF Inv

--------------------------------------------------------------------------------
\* What a worker's step leaves alone: it moves one worker of a job between Spawn and
\* Join to a status that is not "none", and is cut only by the stop flag.
LEMMA WorkerKeeps ==
    ASSUME Inv, NEW j \in Jobs, NEW s \in Sources, NEW to \in Busy \cup Ended,
           work[j][s] \in Busy, Move(j, s, to), to = "cut" => stop[j],
           UNCHANGED <<status, group, srcs, stop, pc, at>>,
           done' \in [Jobs -> Nat], errors' \in [Jobs -> Nat],
           \A i \in Jobs : i # j => done'[i] = done[i] /\ errors'[i] = errors[i]
    PROVE  TypeOK' /\ OneJobPerGroup' /\ Threaded' /\ Started' /\ Whole'
<1>0. /\ pc[j] = "spawn" /\ status[j] = "running"
      /\ \A i \in Jobs : i # j => work'[i] = work[i]
      /\ work'[j] = [work[j] EXCEPT ![s] = to]
      /\ work[j] \in [Sources -> {"none"} \cup Busy \cup Ended]
  BY DEF Inv, TypeOK, Threaded, Move
<1>1. TypeOK'
  BY DEF Inv, TypeOK, Move
<1>2. OneJobPerGroup'
  BY DEF Inv, OneJobPerGroup
<1>3. Threaded'
  BY <1>0 DEF Inv, Threaded
<1>4. Started'
  <2>1. \A i \in Jobs, x \in Sources :
          /\ work'[i][x] = "none" <=> work[i][x] = "none"
          /\ work'[i][x] = "cut" => work[i][x] = "cut" \/ stop[i]
    BY <1>0
  <2>2. \A i \in Jobs : srcs[i] \subseteq Sources
    BY DEF Inv, TypeOK
  <2> QED
    BY <2>1, <2>2 DEF Inv, Started
<1>5. Whole'
  BY <1>0 DEF Inv, Whole
<1> QED
  BY <1>1, <1>2, <1>3, <1>4, <1>5

\* A worker that moves to a status not counted changes no counter.
LEMMA UncountedStep ==
    ASSUME Inv, NEW j \in Jobs, NEW s \in Sources, Acquire(j, s) \/ BeginSync(j, s)
    PROVE  Inv'
<1>1. PICK to \in {"ready", "sync"} : Move(j, s, to)
  BY DEF Acquire, BeginSync
<1>2. work[j][s] \in Busy /\ UNCHANGED <<status, group, srcs, stop, pc, at, done, errors>>
  BY DEF Acquire, BeginSync
<1>3. TypeOK' /\ OneJobPerGroup' /\ Threaded' /\ Started' /\ Whole'
  BY <1>1, <1>2, WorkerKeeps DEF Inv, TypeOK
<1>4. work[j] \in [Sources -> {"none"} \cup Busy \cup Ended]
  BY DEF Inv, TypeOK
<1>5. /\ work'[j] = [work[j] EXCEPT ![s] = to]
      /\ \A i \in Jobs : i # j => work'[i] = work[i]
  BY <1>1 DEF Inv, TypeOK, Move
<1>6. /\ {x \in Sources : work'[j][x] \in Ended} = {x \in Sources : work[j][x] \in Ended}
      /\ {x \in Sources : work'[j][x] \in {"error"}} = {x \in Sources : work[j][x] \in {"error"}}
  BY <1>2, <1>4, <1>5
<1>7. \A i \in Jobs :
        /\ {x \in Sources : work'[i][x] \in Ended} = {x \in Sources : work[i][x] \in Ended}
        /\ {x \in Sources : work'[i][x] \in {"error"}} = {x \in Sources : work[i][x] \in {"error"}}
  BY <1>5, <1>6
<1>8. Counted'
  BY <1>2, <1>7 DEF Inv, Counted
<1> QED
  BY <1>3, <1>8 DEF Inv

\* A worker that ends is counted once, as an error if it is one.
LEMMA CountedStep ==
    ASSUME Inv, NEW j \in Jobs, NEW s \in Sources, Cut(j, s) \/ EndSync(j, s)
    PROVE  Inv'
<1>1. PICK to \in Ended :
        /\ Move(j, s, to)
        /\ to = "cut" => stop[j]
        /\ errors' = IF to = "error" THEN Count(errors, j) ELSE errors
  BY DEF Cut, EndSync
<1>2. /\ work[j][s] \in Busy
      /\ done' = Count(done, j)
      /\ UNCHANGED <<status, group, srcs, stop, pc, at>>
  BY DEF Cut, EndSync
<1>3. /\ done' \in [Jobs -> Nat] /\ errors' \in [Jobs -> Nat]
      /\ done'[j] = done[j] + 1
      /\ errors'[j] = IF to = "error" THEN errors[j] + 1 ELSE errors[j]
      /\ \A i \in Jobs : i # j => done'[i] = done[i] /\ errors'[i] = errors[i]
  BY <1>1, <1>2 DEF Inv, TypeOK, Count
<1>4. TypeOK' /\ OneJobPerGroup' /\ Threaded' /\ Started' /\ Whole'
  BY <1>1, <1>2, <1>3, WorkerKeeps
<1>5. /\ work'[j] = [work[j] EXCEPT ![s] = to]
      /\ \A i \in Jobs : i # j => work'[i] = work[i]
      /\ work[j] \in [Sources -> {"none"} \cup Busy \cup Ended]
  BY <1>1 DEF Inv, TypeOK, Move
<1>6. Cardinality({x \in Sources : work'[j][x] \in Ended}) =
        Cardinality({x \in Sources : work[j][x] \in Ended}) + 1
  <2>1. work[j][s] \notin Ended
    BY <1>2
  <2> HIDE DEF Busy, Ended
  <2> QED
    BY <1>5, <2>1, OneMore
<1>7. Cardinality({x \in Sources : work'[j][x] \in {"error"}}) =
        IF to = "error" THEN Cardinality({x \in Sources : work[j][x] \in {"error"}}) + 1
        ELSE Cardinality({x \in Sources : work[j][x] \in {"error"}})
  <2>1. CASE to = "error"
    <3>1. work[j][s] \notin {"error"} /\ to \in {"error"}
      BY <1>2, <2>1
    <3>2. Cardinality({x \in Sources : work'[j][x] \in {"error"}}) =
            Cardinality({x \in Sources : work[j][x] \in {"error"}}) + 1
      <4> DEFINE counted == {"error"}
      <4>1. work[j][s] \notin counted /\ to \in counted
        BY <3>1
      <4>2. Cardinality({x \in Sources : work'[j][x] \in counted}) =
              Cardinality({x \in Sources : work[j][x] \in counted}) + 1
        <5> HIDE DEF Busy, Ended, counted
        <5> QED
          BY <1>5, <4>1, OneMore
      <4> QED
        BY <4>2
    <3> QED
      BY <2>1, <3>2
  <2>2. CASE to # "error"
    <3>1. {x \in Sources : work'[j][x] \in {"error"}} = {x \in Sources : work[j][x] \in {"error"}}
      BY <1>2, <1>5, <2>2
    <3> QED
      BY <2>2, <3>1
  <2> QED
    BY <2>1, <2>2
<1>8. Counted'
  <2> SUFFICES ASSUME NEW i \in Jobs
               PROVE  /\ done'[i] = Cardinality({x \in Sources : work'[i][x] \in Ended})
                      /\ errors'[i] = Cardinality({x \in Sources : work'[i][x] \in {"error"}})
    BY DEF Counted
  <2>1. CASE i = j
    BY <2>1, <1>3, <1>6, <1>7 DEF Inv, Counted
  <2>2. CASE i # j
    <3>1. work'[i] = work[i] /\ done'[i] = done[i] /\ errors'[i] = errors[i]
      BY <2>2, <1>3, <1>5
    <3> QED
      BY <3>1 DEF Inv, Counted
  <2> QED
    BY <2>1, <2>2
<1> QED
  BY <1>4, <1>8 DEF Inv

--------------------------------------------------------------------------------
\* The inductive invariant of the synchronisation jobs (SyncManager), for any number
\* of jobs, groups that overlap or not, sources and permits.
THEOREM InvHolds == Spec => []Inv
<1>1. Inv /\ [Next]_vars => Inv'
  <2> SUFFICES ASSUME Inv, [Next]_vars PROVE Inv'
    OBVIOUS
  <2>1. CASE UNCHANGED vars
    <3>1. TypeOK' /\ OneJobPerGroup'
      BY <2>1 DEF vars, Inv, TypeOK, OneJobPerGroup
    <3>2. Threaded'
      BY <2>1 DEF vars, Inv, Threaded
    <3>3. Started' /\ Whole'
      BY <2>1 DEF vars, Inv, Started, Whole
    <3>4. Counted'
      BY <2>1 DEF vars, Inv, Counted
    <3> QED
      BY <3>1, <3>2, <3>3, <3>4 DEF Inv
  <2>2. ASSUME NEW j \in Jobs, NEW g \in Groups, StartJob(j, g) PROVE Inv'
    BY <2>2, StartStep
  <2>3. ASSUME NEW j \in Jobs, Cancel(j) PROVE Inv'
    BY <2>3, CancelStep
  <2>4. ASSUME NEW j \in Jobs, Thread(j) PROVE Inv'
    BY <2>4, SpawnStep, JoinStep, SettleStep DEF Thread
  <2>5. ASSUME NEW j \in Jobs, NEW s \in Sources, Worker(j, s) PROVE Inv'
    BY <2>5, UncountedStep, CountedStep DEF Worker
  <2> QED
    BY <2>1, <2>2, <2>3, <2>4, <2>5 DEF Next
<1> QED
  BY InvInit, <1>1, PTL DEF Spec

\* Every variable keeps its type.
THEOREM TypesHold == Spec => []TypeOK
<1>1. Inv => TypeOK
  BY DEF Inv
<1> QED
  BY InvHolds, <1>1, PTL

\* "Un seul job actif par groupe": start_job() never runs two jobs of one group.
THEOREM OneJobPerGroupHolds == Spec => []OneJobPerGroup
<1>1. Inv => OneJobPerGroup
  BY DEF Inv
<1> QED
  BY InvHolds, <1>1, PTL

\* _run_job() ends only when no thread of the job synchronises any more.
THEOREM NothingLeftBehindHolds == Spec => []NothingLeftBehind
<1>1. Inv => NothingLeftBehind
  BY DEF Inv, Threaded, NothingLeftBehind
<1> QED
  BY InvHolds, <1>1, PTL

\* A job reported as done has synchronised each of its sources, whenever it was asked
\* to stop.
THEOREM DoneMeansAllHolds == Spec => []DoneMeansAll
<1>1. Inv => DoneMeansAll
  BY DEF Inv, Whole, DoneMeansAll
<1> QED
  BY InvHolds, <1>1, PTL

\* The counters of a job that ended are those of its sources.
THEOREM CountsAddUpHolds == Spec => []CountsAddUp
<1>1. Inv => CountsAddUp
  <2> SUFFICES ASSUME Inv, NEW j \in Jobs
               PROVE  /\ done[j] = Cardinality({s \in srcs[j] : work[j][s] \in Ended})
                      /\ errors[j] = Cardinality({s \in srcs[j] : work[j][s] = "error"})
    BY DEF CountsAddUp
  <2>1. /\ {s \in srcs[j] : work[j][s] \in Ended} = {s \in Sources : work[j][s] \in Ended}
        /\ {s \in srcs[j] : work[j][s] = "error"} = {s \in Sources : work[j][s] \in {"error"}}
    BY DEF Inv, TypeOK, Threaded
  <2> QED
    BY <2>1 DEF Inv, Counted
<1> QED
  BY InvHolds, <1>1, PTL

--------------------------------------------------------------------------------
(***************************************************************************)
(* The log of a job: a client that reads DONE has read the whole log up to *)
(* its summary, and every line it is sent is the one it expects.           *)
(*                                                                         *)
(* The argument.  The status changes after the summary is in the log, and  *)
(* the generator reads the status only when it has yielded every line it   *)
(* sees: its index is then past the summary.  The index of the generator   *)
(* and the count of the client differ by one between the client's reading  *)
(* and the next call, and by nothing otherwise.                            *)
(***************************************************************************)

\* The status is "over" only once the summary is in the log.
Summarised ==
    /\ job \in {"settle", "audit", "late", "over"} => summary > 0 /\ summary <= logs
    /\ jobStatus = "over" => job \in {"audit", "late", "over"}

\* A generator that has read "over" had yielded the summary.
Heard ==
    \A r \in Readers :
        reader[r] \in {"last", "end"} => jobStatus = "over" /\ index[r] >= summary

\* The generator and its client agree on how many lines were read.
InStep ==
    \A r \in Readers :
        /\ reader[r] \in {"queued", "lock", "yield", "wait", "last", "end"} => got[r] = index[r]
        /\ reader[r] = "sent" => got[r] = index[r] + 1
        /\ reader[r] = "yield" => index[r] < logs

LogInv == LogTypeOK /\ Summarised /\ Heard /\ InStep

LEMMA LogInvInit == LogInit => LogInv
BY JobStreamAssumption DEF LogInit, LogInv, LogTypeOK, Summarised, Heard, InStep

\* The job and the cancel requests only append lines, and settle once.
LEMMA WriterStep ==
    ASSUME LogInv, Writer \/ \E c \in Cancels : Request(c)
    PROVE  LogInv'
<1> USE DEF LogInv, LogTypeOK, Summarised, Heard, InStep
<1>1. CASE Work
  BY <1>1 DEF Work
<1>2. CASE Emit
  BY <1>2 DEF Emit, AppendLine
<1>3. CASE EmitSummary
  BY <1>3 DEF EmitSummary, AppendLine
<1>4. CASE SettleJob
  BY <1>4 DEF SettleJob
<1>5. CASE Audit
  BY <1>5 DEF Audit
<1>6. CASE EmitLate
  BY <1>6 DEF EmitLate, AppendLine
<1>7. CASE \E c \in Cancels : Request(c)
  <2> PICK c \in Cancels : CancelRead(c) \/ CancelEmit(c)
    BY <1>7 DEF Request
  <2>1. CASE CancelRead(c)
    BY <2>1 DEF CancelRead
  <2>2. CASE CancelEmit(c)
    BY <2>2 DEF CancelEmit, AppendLine
  <2> QED
    BY <2>1, <2>2
<1> QED
  BY <1>1, <1>2, <1>3, <1>4, <1>5, <1>6, <1>7 DEF Writer

\* What the loop of the generator does with an index that its client has counted.
LEMMA LoopStep ==
    ASSUME LogInv, NEW r \in Readers, NEW i \in Nat, Loop(r, i), got[r] = i,
           index' = [index EXCEPT ![r] = i],
           UNCHANGED <<jobStatus, logs, summary, job, got, gone, cancel>>
    PROVE  LogInv'
<1>1. \A q \in Readers : q # r =>
        reader'[q] = reader[q] /\ index'[q] = index[q] /\ got'[q] = got[q]
  BY DEF Loop, To, LogInv, LogTypeOK
<1>2. index'[r] = i /\ got'[r] = i
  BY DEF LogInv, LogTypeOK
<1>3. LogTypeOK'
  BY DEF Loop, To, LogInv, LogTypeOK
<1>4. Summarised'
  BY DEF LogInv, Summarised
<1>5. \/ reader'[r] = "yield" /\ i < logs
      \/ reader'[r] = "last" /\ jobStatus = "over" /\ ~(i < logs)
      \/ reader'[r] = "wait"
  BY DEF Loop, To, LogInv, LogTypeOK
<1>6. Heard'
  <2>1. reader'[r] = "last" => i >= summary
    BY <1>5 DEF LogInv, LogTypeOK, Summarised
  <2> QED
    BY <1>1, <1>2, <1>5, <2>1 DEF LogInv, Heard
<1>7. InStep'
  BY <1>1, <1>2, <1>5 DEF LogInv, InStep
<1> QED
  BY <1>3, <1>4, <1>6, <1>7 DEF LogInv

\* The steps of a connection.
LEMMA ReaderStep ==
    ASSUME LogInv, NEW r \in Readers, Connect(r) \/ Serve(r) \/ Leave(r)
    PROVE  LogInv'
<1>1. CASE Connect(r)
  <2> USE <1>1 DEF Connect, To, LogInv
  <2>1. PICK n \in Nat : got' = [got EXCEPT ![r] = n] /\ index' = [index EXCEPT ![r] = n]
    <3>1. PICK n \in {0} \cup {got[q] : q \in {p \in Readers : gone[p]}} :
            got' = [got EXCEPT ![r] = n] /\ index' = [index EXCEPT ![r] = n]
      BY <1>1 DEF Connect
    <3>2. n \in Nat
      BY <3>1 DEF LogTypeOK
    <3> QED
      BY <3>1, <3>2
  <2>2. \A q \in Readers :
          /\ q # r => reader'[q] = reader[q] /\ index'[q] = index[q] /\ got'[q] = got[q]
          /\ q = r => reader'[q] = "queued" /\ index'[q] = n /\ got'[q] = n
    BY <2>1 DEF LogTypeOK
  <2>3. LogTypeOK'
    <3>1. index' \in [Readers -> Nat] /\ got' \in [Readers -> Nat]
      BY <2>1 DEF LogTypeOK
    <3>2. reader' \in [Readers ->
            {"off", "queued", "lock", "yield", "sent", "wait", "last", "end", "dropped"}]
      BY DEF LogTypeOK
    <3> QED
      BY <3>1, <3>2 DEF LogTypeOK
  <2>4. Summarised' /\ Heard'
    BY <2>2 DEF Summarised, Heard
  <2>5. InStep'
    BY <2>2 DEF InStep
  <2> QED
    BY <2>3, <2>4, <2>5
<1>2. CASE Call(r)
  BY <1>2 DEF Call, To, LogInv, LogTypeOK, Summarised, Heard, InStep
<1>3. CASE Enter(r)
  <2>1. index' = [index EXCEPT ![r] = index[r]] /\ index[r] \in Nat /\ got[r] = index[r]
    BY <1>3 DEF Enter, LogInv, LogTypeOK, InStep
  <2> QED
    BY <1>3, <2>1, LoopStep DEF Enter
<1>4. CASE Take(r)
  BY <1>4 DEF Take, To, LogInv, LogTypeOK, Summarised, Heard, InStep
<1>5. CASE Resume(r)
  <2>1. index' = [index EXCEPT ![r] = index[r] + 1] /\ index[r] + 1 \in Nat /\ got[r] = index[r] + 1
    BY <1>5 DEF Resume, LogInv, LogTypeOK, InStep
  <2> QED
    BY <1>5, <2>1, LoopStep DEF Resume
<1>6. CASE Wake(r)
  BY <1>6 DEF Wake, To, LogInv, LogTypeOK, Summarised, Heard, InStep
<1>7. CASE Finish(r)
  BY <1>7 DEF Finish, To, LogInv, LogTypeOK, Summarised, Heard, InStep
<1>8. CASE Close(r)
  BY <1>8 DEF Close, To, LogInv, LogTypeOK, Summarised, Heard, InStep
<1>9. CASE Leave(r)
  BY <1>9 DEF Leave, LogInv, LogTypeOK, Summarised, Heard, InStep
<1> QED
  BY <1>1, <1>2, <1>3, <1>4, <1>5, <1>6, <1>7, <1>8, <1>9 DEF Serve

LEMMA LogInvStep == LogInv /\ [LogNext]_logVars => LogInv'
<1> SUFFICES ASSUME LogInv, [LogNext]_logVars PROVE LogInv'
  OBVIOUS
<1>1. CASE UNCHANGED logVars
  BY <1>1 DEF logVars, LogInv, LogTypeOK, Summarised, Heard, InStep
<1>2. CASE LogNext
  BY <1>2, WriterStep, ReaderStep DEF LogNext
<1> QED
  BY <1>1, <1>2

LEMMA LogInvImplies == LogInv => StreamComplete /\ NextExpected
<1> SUFFICES ASSUME LogInv PROVE StreamComplete /\ NextExpected
  OBVIOUS
<1>1. StreamComplete
  BY DEF LogInv, LogTypeOK, Summarised, Heard, InStep, StreamComplete
<1>2. NextExpected
  BY DEF LogInv, LogTypeOK, InStep, NextExpected
<1> QED
  BY <1>1, <1>2

\* The types of the stream's state hold in every reachable state.
THEOREM LogTypesHold == LogSpec => []LogTypeOK
<1>1. LogInv => LogTypeOK
  BY DEF LogInv
<1> QED
  BY LogInvInit, LogInvStep, <1>1, PTL DEF LogSpec

\* Whatever the order in which lines, cancellations, clients and the end of the job come,
\* and however often a client reconnects: DONE comes after the summary.
THEOREM StreamCompleteHolds == LogSpec => []StreamComplete
BY LogInvInit, LogInvStep, LogInvImplies, PTL DEF LogSpec

\* No line is skipped or repeated: the line in flight is the one the client expects.
THEOREM NextExpectedHolds == LogSpec => []NextExpected
BY LogInvInit, LogInvStep, LogInvImplies, PTL DEF LogSpec

================================================================================
