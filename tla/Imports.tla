--------------------------------- MODULE Imports ---------------------------------
(***************************************************************************)
(* How packages come in from the public repositories: imports that a user  *)
(* asks for (services/importer_apt.py, importer_rpm.py, importer_apk.py),  *)
(* the missing dependencies of an upload (routers/upload.py) and mirror    *)
(* jobs (services/mirror_manager.py, mirror.py), at work at once in the    *)
(* threads of several replicas that share the index, the pool and the      *)
(* repositories, with one lock per package and process                     *)
(* (services/import_lock.py) and an elected leader                         *)
(* (services/leader_election.py).                                          *)
(*                                                                         *)
(* One distribution per format.  The index is a generation per format: in  *)
(* generation g a package has a row iff g is in Listed, and that row's     *)
(* version is g.  What a tool says of a file is any report of Validation.  *)
(***************************************************************************)
EXTENDS Validation, Sequences, SequencesExt

CONSTANTS
    Packages, NoPackage,
    Order,       \* the packages in the order of names
    Kind,        \* package -> deb, rpm or apk
    Deps,        \* package -> what its row depends on
    Listed,      \* package -> the generations of the index that list it
    Newest,      \* format -> its last generation: bound
    Tasks,
    Uploads,     \* the versions that users upload
    Plans,       \* the jobs that are at work together: task -> [mode, target]
    Replicas, NoReplica,
    Unsteady,    \* the replicas that may stop, crash or lose their connection
    Reports, Configs,
    MaxDepth,    \* levels of dependencies followed (8)
    Limit,       \* mirror.max_packages_per_run
    MaxAutoImports  \* _MAX_AUTO_IMPORT_DEPS (50)

Modes    == {"fetch", "mirror", "upload"}
Job      == [mode : Modes, target : Packages]

ASSUME ImportsAssumption ==
    /\ NoPackage \notin Packages /\ NoReplica \notin Replicas /\ Tasks \cap Replicas = {}
    /\ Order \in Seq(Packages) /\ \A p \in Packages : \E i \in DOMAIN Order : Order[i] = p
    /\ Kind \in [Packages -> Kinds]
    /\ Deps \in [Packages -> SUBSET Packages]
    /\ \A p \in Packages : \A q \in Deps[p] : Kind[q] = Kind[p]
    /\ Uploads \subseteq Nat \ {0}
    /\ Unsteady \subseteq Replicas
    /\ Newest \in [Kinds -> Nat]
    /\ Listed \in [Packages -> SUBSET (Nat \ {0})]
    /\ Plans \subseteq UNION {[S -> Job] : S \in SUBSET Tasks}
    /\ Reports \subseteq AllReports /\ Configs \subseteq AllConfigs
    /\ MaxDepth \in Nat /\ Limit \in Nat /\ MaxAutoImports \in Nat

\* What the pipeline may conclude about a file with or without a missing dependency.
Outcomes ==
    [k \in Kinds |-> [missing \in BOOLEAN |->
        {LET res == RunPipeline(k, o.r, o.c, missing, FALSE)
         IN  [passed |-> res.passed, cve |-> res.cve,
              refused |-> IF res.passed THEN Findings(k, o.r, o.c) ELSE {}] :
         o \in [r : Reports, c : Configs]}]]

VARIABLES
    index,      \* format -> the generation of the index
    pool,       \* the files of the flat pool
    published,  \* the files of the repositories
    recorded,   \* the packages in index.json
    absent,     \* package -> deps_missing of its entry in index.json
    sent,       \* <<replica, package, version, alone>> that a process has published; alone: while
                \* no import of the package held its lock
    task,       \* task -> where it is
    leader,     \* replica -> down, leader, passive or stopping
    lock,       \* the replica whose connection holds the advisory lock
    lapsed      \* an election failed, a lock was lost, or a leader left while mirroring

vars == <<index, pool, published, recorded, absent, sent, task, leader, lock, lapsed>>
repo == <<pool, published, recorded, absent, sent>>
server == <<leader, lock, lapsed>>

\* A file: what was held against it when it was last accepted, and who was at work on it when it was last
\* copied into the pool, see Workers.
File  == [pkg : Packages, version : Nat,
          refused : SUBSET {"damaged", "altered", "infected", "vulnerable", "unsigned", "review"},
          by : SUBSET (Replicas \cup Tasks)]
Steps == {"idle", "look", "resolve", "sync", "list", "received", "scan", "move", "save", "offer", "need", "next", "lock",
          "download", "validate", "keep", "record", "publish", "missed", "sub", "done", "lost"}
\* version is that of the row the task was given (0 for none), got that of the file it downloaded or received.
Task  == [mode : Modes, target : Packages \cup {NoPackage}, step : Steps, todo : Seq(Packages), seen : SUBSET Packages,
          pkg : Packages \cup {NoPackage}, version : Nat, got : Nat, asof : Nat,
          cve : {"approved", "pending_review"}, refused : SUBSET {"damaged", "altered", "infected",
          "vulnerable", "unsigned", "review"}, lacks : SUBSET Packages,
          synced : BOOLEAN, failed : BOOLEAN, stop : BOOLEAN,
          home : Replicas \cup {NoReplica}]
Idle  == [mode |-> "fetch", target |-> NoPackage, step |-> "idle", todo |-> <<>>, seen |-> {}, pkg |-> NoPackage,
          version |-> 0, got |-> 0, asof |-> 0, cve |-> "approved", refused |-> {}, lacks |-> {},
          synced |-> FALSE, failed |-> FALSE, stop |-> FALSE, home |-> NoReplica]

Admitted == {"received", "scan", "move", "save", "offer"}   \* the uploaded file itself
Locked == {"download", "validate", "keep", "record", "publish"}
Carrying == {"record", "publish", "save", "offer"}   \* its copy is in the pool, to be recorded and published
Ended  == {"done", "lost"}
Runs(t) == task[t].step \notin {"idle"} \cup Ended
Mirrors(t) == Runs(t) /\ task[t].mode = "mirror"
Format(t) == Kind[task[t].pkg]

TypeOK ==
    /\ index \in [Kinds -> Nat]
    /\ pool \subseteq File /\ published \subseteq File
    /\ recorded \subseteq Packages
    /\ absent \in [Packages -> SUBSET Packages]
    /\ sent \subseteq Replicas \X Packages \X Nat \X BOOLEAN
    /\ task \in [Tasks -> Task]
    /\ \A t \in Tasks :
         /\ task[t].step # "idle" => task[t].target \in Packages
         /\ Runs(t) => task[t].home \in Replicas
         /\ task[t].step \in Locked \cup Admitted \cup {"lock", "missed", "sub"} => task[t].pkg \in Packages
         /\ task[t].step \in Admitted \cup {"validate", "keep", "record", "publish"} => task[t].got # 0
    /\ leader \in [Replicas -> {"down", "leader", "passive", "stopping"}]
    /\ lock \in Replicas \cup {NoReplica}
    /\ lapsed \in BOOLEAN

Init ==
    /\ index = [k \in Kinds |-> 1]
    /\ pool = {} /\ published = {} /\ recorded = {}
    /\ absent = [p \in Packages |-> {}]
    /\ sent = {}
    /\ task = [t \in Tasks |-> Idle]
    /\ leader = [r \in Replicas |-> "down"]
    /\ lock = NoReplica
    /\ lapsed = FALSE

--------------------------------------------------------------------------------
\* The index, and what it says of a package.

\* The row of that name, or of a package that provides it.
RowIn(k, p) == IF index[k] \in Listed[p] THEN index[k] ELSE 0
AptRow(p) == RowIn("deb", p)
RpmRow(p) == RowIn("rpm", p)
ApkRow(p) == RowIn("apk", p)
Row(p)    == RowIn(Kind[p], p)

\* The packages of a set in the order of names: the k-th is the one up to which there are k.
Upto(at, i) == {j \in at : j <= i}
Ordered ==
    [S \in SUBSET Packages |->
        LET at == {i \in DOMAIN Order : Order[i] \in S}
        IN  [k \in 1 .. Cardinality(at) |-> Order[CHOOSE i \in at : Cardinality(Upto(at, i)) = k]]]
InOrder(S) == Ordered[S \cap Packages]
AptRows == {p \in Packages : Kind[p] = "deb" /\ Row(p) # 0}
RpmRows == {p \in Packages : Kind[p] = "rpm" /\ Row(p) # 0}
ApkRows == {p \in Packages : Kind[p] = "apk" /\ Row(p) # 0}
RowsOf(k) ==
    CASE k = "deb" -> AptRows [] k = "rpm" -> RpmRows [] k = "apk" -> ApkRows

\* One level more of dependencies: of those of which they can be read.
Grown(level, known) == level \cup UNION {Deps[p] : p \in level \cap known}

\* What is reached in MaxDepth levels: only a package with a row is followed.
Tree(roots) ==
    LET level[n \in 0 .. MaxDepth] ==
            IF n = 0 THEN roots ELSE Grown(level[n - 1], {p \in Packages : Row(p) # 0})
    IN  level[MaxDepth]

\* sync_all() and sync_source() of one format: it fails, or some newer generation replaces the rows.
Refreshed(k, g) == g \in index[k] .. Newest[k] /\ index' = [index EXCEPT ![k] = g]
Refresh(k) == \E g \in index[k] .. Newest[k] : Refreshed(k, g)

\* Only while a request of that format is there to see it: earlier, it is as if it came just after.
Sync(k) ==
    /\ \E t \in Tasks : Runs(t) /\ Kind[task[t].target] = k
    /\ \E g \in index[k] + 1 .. Newest[k] : Refreshed(k, g)
    /\ UNCHANGED <<repo, task, server>>

--------------------------------------------------------------------------------
\* The pool and the repositories.

Files(S, p) == {f \in S : f.pkg = p}
Same(S, p, v) == {f \in S : f.pkg = p /\ f.version = v}

\* The dependencies of a file that the pool does not hold: of a .deb those of its dependencies too.
AptWalk(p) ==
    LET level[n \in 1 .. 6] == IF n = 1 THEN Deps[p] ELSE Grown(level[n - 1], {q \in Packages : Files(pool, q) # {}})
    IN  level[6]
Missing(p) == Packages \cap {q \in (IF Kind[p] = "deb" THEN AptWalk(p) ELSE Deps[p]) : Files(pool, q) = {}}

\* What import_one() holds to be in the repository already, once it has the lock.
AptPresent(p, v) == v # 0 /\ Same(published, p, v) # {}
ApkPresent(p)    == Files(pool, p) # {}
Present(p, v) ==
    CASE Kind[p] = "deb" -> AptPresent(p, v)
      [] Kind[p] = "rpm" -> FALSE    \* get_package_info() has neither filename nor format
      [] Kind[p] = "apk" -> ApkPresent(p)

Put(S, f) == {g \in S : ~(g.pkg = f.pkg /\ g.version = f.version)} \cup {f}

\* add-deb.sh, add-rpm.sh and add_package() publish the file of that name that the pool holds now.
DebAdd(f, ok) == published' = IF ok THEN Put(published, f) ELSE published
RpmAdd(f)     == published' = Put(published, f)   \* copied before createrepo_c may fail
ApkAdd(f)     == published' = Put(published, f)   \* copied before the index is built

--------------------------------------------------------------------------------
\* import_one(), one package under its lock.

\* Slip: the lock is keyed by what was asked for, not by the package.
LockFreePerRequest(t) ==
    \A u \in Tasks \ {t} :
        task[u].home = task[t].home /\ task[u].target = task[t].target => task[u].step \notin Locked

\* package_import_lock(): no other thread of this process imports this package.
LockFree(t) ==
    \A u \in Tasks \ {t} :
        task[u].home = task[t].home /\ task[u].pkg = task[t].pkg => task[u].step \notin Locked

Move(t, w) == task' = [task EXCEPT ![t] = w]
Step(t, step) == Move(t, [task[t] EXCEPT !.step = step])

\* The end of an import: what was held of the file is dropped; bad says that the package did not come in.
Cleared(w, step, bad) ==
    [w EXCEPT !.step = step, !.pkg = IF step = "next" THEN NoPackage ELSE w.pkg,
              !.version = 0, !.got = 0, !.cve = "approved", !.refused = {}, !.lacks = {},
              !.failed = w.failed \/ bad]

\* The end of a request, a thread or a process: of the task, what was asked and how it went.
Over(w, step, bad) ==
    [Idle EXCEPT !.mode = w.mode, !.target = w.target, !.step = step, !.failed = w.failed \/ bad]
Return(t, bad) == Move(t, Cleared(task[t], "next", bad))

\* The lock, then the check that the package is not there yet: skipped, or downloaded.
Acquire(t) ==
    /\ task[t].step = "lock"
    /\ LockFree(t)
    /\ IF Present(task[t].pkg, task[t].version) THEN Return(t, FALSE) ELSE Step(t, "download")
    /\ UNCHANGED <<index, repo, server>>

\* _download_deb(), _download_rpm(), _download_apk(): the row of now, whatever version was checked.
Download(t, k, row) ==
    /\ task[t].step = "download" /\ Format(t) = k
    /\ \/ row # 0 /\ Move(t, [task[t] EXCEPT !.step = "validate", !.got = row])
       \/ row # 0 /\ Return(t, TRUE)     \* the download fails
       \/ row = 0 /\ Move(t, Cleared(task[t], "missed", FALSE))
    /\ UNCHANGED <<index, repo, server>>

\* Slip: the row is not looked at.
DebDownloadBlind(t) ==
    /\ task[t].step = "download" /\ Format(t) = "deb"
    /\ Move(t, [task[t] EXCEPT !.step = "validate", !.got = AptRow(task[t].pkg)])
    /\ UNCHANGED <<index, repo, server>>

DebDownload(t) == Download(t, "deb", AptRow(task[t].pkg))
RpmDownload(t) == Download(t, "rpm", RpmRow(task[t].pkg))
ApkDownload(t) == Download(t, "apk", ApkRow(task[t].pkg))

\* run_validation_pipeline() on the file; one that does not pass is left with the temporary directory.
Validate(t) ==
    LET lacks == Missing(task[t].pkg) IN
    /\ task[t].step = "validate"
    /\ \E o \in Outcomes[Format(t)][lacks # {}] :
         IF ~o.passed THEN Return(t, TRUE)
         ELSE Move(t, [task[t] EXCEPT !.step = "keep", !.cve = o.cve, !.refused = o.refused, !.lacks = lacks])
    /\ UNCHANGED <<index, repo, server>>

\* Who works on a file: an import for its process, whose lock it holds; an upload, without a lock, for itself.
Worker(t)  == IF task[t].step \in Admitted THEN t ELSE task[t].home
Workers(t) ==
    {Worker(t)} \cup {Worker(u) : u \in {u \in Tasks : /\ task[u].step \in Carrying
                                                     /\ task[u].pkg = task[t].pkg /\ task[u].got = task[t].got}}

\* shutil.copy2 into the pool, over a file of that name.
Keep(t) ==
    /\ task[t].step = "keep"
    /\ pool' = Put(pool, [pkg |-> task[t].pkg, version |-> task[t].got, refused |-> task[t].refused,
                          by |-> Workers(t)])
    /\ Step(t, "record")
    /\ UNCHANGED <<index, published, recorded, absent, sent, server>>

\* The manifest and index.json, then: in review it is not published.
Record(t, k, lacks) ==
    /\ task[t].step = "record" /\ Format(t) = k
    /\ recorded' = recorded \cup {task[t].pkg}
    /\ absent' = [absent EXCEPT ![task[t].pkg] = lacks]
    /\ IF task[t].cve = "approved" THEN Step(t, "publish")
       ELSE Move(t, Cleared(task[t], IF task[t].mode = "upload" THEN "sub" ELSE "next", FALSE))
    /\ UNCHANGED <<index, pool, published, sent, server>>
DebRecord(t) == Record(t, "deb", task[t].lacks)
RpmRecord(t) == Record(t, "rpm", task[t].lacks)
ApkRecord(t) == Record(t, "apk", {})     \* no validated_deps: none is known to be missing

\* What is remembered of a publication: whether no import of its process held the lock of the package.
Entry(t) == <<task[t].home, task[t].pkg, task[t].got, LockFree(t)>>

\* Publication; its failure is a warning on a package that is added all the same.
Publish(t, k, ok) ==
    /\ task[t].step = "publish" /\ Format(t) = k
    /\ sent' = IF ok THEN sent \cup {Entry(t)} ELSE sent
    /\ Move(t, Cleared(task[t], IF task[t].mode = "upload" THEN "sub" ELSE "next", FALSE))
    /\ UNCHANGED <<index, pool, recorded, absent, server>>
DebPublish(t) ==
    \E ok \in BOOLEAN, f \in Same(pool, task[t].pkg, task[t].got) : Publish(t, "deb", ok) /\ DebAdd(f, ok)
RpmPublish(t) ==
    \E ok \in BOOLEAN, f \in Same(pool, task[t].pkg, task[t].got) : Publish(t, "rpm", ok) /\ RpmAdd(f)
ApkPublish(t) ==
    \/ \E f \in Same(pool, task[t].pkg, task[t].got) : Publish(t, "apk", TRUE) /\ ApkAdd(f)
    \/ Publish(t, "apk", FALSE) /\ UNCHANGED published     \* a distribution it does not know

\* An exception under the lock: an error of this package, or the end of an .rpm or .apk import.
Raise(t) ==
    /\ task[t].step \in Locked
    /\ IF Format(t) = "deb" \/ task[t].mode = "upload" THEN Return(t, TRUE)
       ELSE Move(t, Over(task[t], "done", TRUE))
    /\ \/ UNCHANGED published
       \/ /\ task[t].step = "publish" /\ Format(t) = "apk"
          /\ \E f \in Same(pool, task[t].pkg, task[t].got) : ApkAdd(f)
    /\ UNCHANGED <<index, pool, recorded, absent, sent, server>>

--------------------------------------------------------------------------------
\* POST /import/fetch: import_package_stream() of each format.  A batch is one fetch after the other.

Up(r) == leader[r] \in {"leader", "passive"}
Asked(t) == [mode |-> task[t].mode, target |-> task[t].target]
Begin(t, mode, r, step) ==
    /\ task[t].step = "idle"
    /\ \E plan \in Plans :
         /\ t \in DOMAIN plan /\ plan[t].mode = mode
         /\ \A u \in Tasks : task[u].step # "idle" => u \in DOMAIN plan /\ plan[u] = Asked(u)
         /\ \E v \in IF mode = "upload" THEN Uploads ELSE {0} :
              Move(t, [Idle EXCEPT !.mode = mode, !.target = plan[t].target, !.step = step, !.home = r,
                                   !.pkg = IF v = 0 THEN NoPackage ELSE plan[t].target, !.got = v])

FetchPackage(t) ==
    /\ \E r \in Replicas : Up(r) /\ Begin(t, "fetch", r, "look")
    /\ UNCHANGED <<index, repo, server>>

Fetches(t, k, step) == task[t].mode = "fetch" /\ task[t].step = step /\ Kind[task[t].target] = k

\* The row of the package asked for; without one the index is refreshed, once.
Look(t, k) ==
    /\ Fetches(t, k, "look")
    /\ \/ Row(task[t].target) # 0 /\ Step(t, "resolve") /\ UNCHANGED index
       \/ Row(task[t].target) = 0 /\ task[t].synced
          /\ Move(t, Over(task[t], "done", TRUE)) /\ UNCHANGED index
       \/ /\ Row(task[t].target) = 0 /\ ~task[t].synced
          /\ Move(t, [task[t] EXCEPT !.synced = TRUE])
          /\ Refresh(k)
    /\ UNCHANGED <<repo, server>>

\* Slip: the refresh is not remembered.
AptLookAgain(t) ==
    /\ Fetches(t, "deb", "look")
    /\ \/ Row(task[t].target) # 0 /\ Step(t, "resolve") /\ UNCHANGED index
       \/ Row(task[t].target) = 0 /\ UNCHANGED task /\ Refresh("deb")
    /\ UNCHANGED <<repo, server>>

AptLook(t) == Look(t, "deb")
RpmLook(t) == Look(t, "rpm")
ApkLook(t) == Look(t, "apk")

\* The tree of dependencies, and what of it is to be downloaded.
AptWanted(p) == {q \in Tree({p}) : Files(published, q) = {}}
RpmProvided(S) == {q \in S : Row(q) # 0}
RpmWanted(p) == RpmProvided(Tree({p}) \ {p}) \ recorded
ApkWanted(p) == {p} \cup {q \in Tree({p}) : Files(pool, q) = {}}
Resolve(t, k, todo) ==
    /\ Fetches(t, k, "resolve")
    /\ Move(t, [task[t] EXCEPT !.step = "next", !.todo = todo])
    /\ UNCHANGED <<index, repo, server>>
AptResolve(t) == Resolve(t, "deb", InOrder(AptWanted(task[t].target)))
RpmResolve(t) == Resolve(t, "rpm", InOrder(RpmWanted(task[t].target)))
ApkResolve(t) ==
    Resolve(t, "apk", <<task[t].target>> \o InOrder(ApkWanted(task[t].target) \ {task[t].target}))

\* The next package of the list goes to import_one() with the version of its row, or none.
Take(t, version) ==
    Move(t, [task[t] EXCEPT !.step = "lock", !.pkg = Head(task[t].todo), !.todo = Tail(task[t].todo),
                                          !.version = version])
Leave(t, bad) == Move(t, [task[t] EXCEPT !.todo = Tail(task[t].todo), !.failed = task[t].failed \/ bad])
Finish(t) == task[t].todo = <<>> /\ Move(t, Over(task[t], "done", FALSE))

AptNext(t) ==
    LET p == Head(task[t].todo) IN
    /\ Fetches(t, "deb", "next")
    /\ \/ Finish(t) /\ UNCHANGED index
       \/ task[t].todo # <<>> /\ Row(p) # 0 /\ Take(t, Row(p)) /\ UNCHANGED index
       \/ task[t].todo # <<>> /\ Row(p) = 0 /\ task[t].synced /\ Leave(t, TRUE) /\ UNCHANGED index
       \/ /\ task[t].todo # <<>> /\ Row(p) = 0 /\ ~task[t].synced
          /\ Move(t, [task[t] EXCEPT !.synced = TRUE])
          /\ Refresh("deb")
    /\ UNCHANGED <<repo, server>>
RpmNext(t) ==
    /\ Fetches(t, "rpm", "next")
    /\ Finish(t) \/ (task[t].todo # <<>> /\ Take(t, 0))
    /\ UNCHANGED <<index, repo, server>>
ApkNext(t) ==
    LET p == Head(task[t].todo) IN
    /\ Fetches(t, "apk", "next")
    /\ \/ Finish(t)
       \/ task[t].todo # <<>> /\ ApkPresent(p) /\ Leave(t, FALSE)
       \/ task[t].todo # <<>> /\ ~ApkPresent(p) /\ Row(p) = 0 /\ Leave(t, TRUE)
       \/ task[t].todo # <<>> /\ ~ApkPresent(p) /\ Row(p) # 0 /\ Take(t, Row(p))
    /\ UNCHANGED <<index, repo, server>>

\* import_one() found no row: of a .deb, one refresh and one more try; else the package is left out.
AptMissed(t) ==
    /\ Fetches(t, "deb", "missed")
    /\ \/ task[t].synced /\ Return(t, TRUE) /\ UNCHANGED index
       \/ /\ ~task[t].synced
          /\ \E g \in index["deb"] .. Newest["deb"] :
               /\ Refreshed("deb", g)
               /\ LET row == IF g \in Listed[task[t].pkg] THEN g ELSE 0 IN
                  Move(t, [Cleared(task[t], IF row = 0 THEN "next" ELSE "lock", row = 0)
                                                 EXCEPT !.synced = TRUE, !.version = row])
    /\ UNCHANGED <<repo, server>>
LeftOut(t) ==
    /\ task[t].step = "missed"
    /\ task[t].mode = "mirror" \/ Fetches(t, "rpm", "missed") \/ Fetches(t, "apk", "missed")
    /\ Return(t, TRUE)
    /\ UNCHANGED <<index, repo, server>>

\* The browser goes: the generator is not resumed after what it last yielded.
Disconnect(t) ==
    /\ task[t].mode = "fetch" /\ task[t].step \in {"look", "resolve", "next", "missed"}
    /\ Move(t, Over(task[t], "done", TRUE))
    /\ UNCHANGED <<index, repo, server>>

--------------------------------------------------------------------------------
\* POST /upload/stream: _upload_stream_generator(), then the dependencies that the package misses.  The file
\* may be of a version that the index lists; its admission takes no lock.

UploadStart(t) ==
    /\ \E r \in Replicas : Up(r) /\ Begin(t, "upload", r, "received")
    /\ UNCHANGED <<index, repo, server>>

\* _check_duplicate(): a file of that name in the pool, the same or another, ends the upload.
Duplicate(t) == Same(pool, task[t].pkg, task[t].got) # {}
UploadReceived(t) ==
    /\ task[t].step = "received"
    /\ IF Duplicate(t) THEN Move(t, Over(task[t], "done", TRUE)) ELSE Step(t, "scan")
    /\ UNCHANGED <<index, repo, server>>

\* The pipeline; a file that does not pass goes to quarantine.
UploadScan(t) ==
    LET lacks == Missing(task[t].pkg) IN
    /\ task[t].step = "scan"
    /\ \E o \in Outcomes[Format(t)][lacks # {}] :
         IF ~o.passed THEN Move(t, Over(task[t], "done", TRUE))
         ELSE Move(t, [task[t] EXCEPT !.step = "move", !.cve = o.cve, !.refused = o.refused, !.lacks = lacks])
    /\ UNCHANGED <<index, repo, server>>

UploadMove(t) ==
    /\ task[t].step = "move"
    /\ pool' = Put(pool, [pkg |-> task[t].pkg, version |-> task[t].got, refused |-> task[t].refused,
                          by |-> Workers(t)])
    /\ Step(t, "save")
    /\ UNCHANGED <<index, published, recorded, absent, sent, server>>

UploadSave(t) ==
    /\ task[t].step = "save"
    /\ recorded' = recorded \cup {task[t].pkg}
    /\ absent' = [absent EXCEPT ![task[t].pkg] = IF Format(t) = "apk" THEN {} ELSE task[t].lacks]
    /\ Step(t, IF task[t].cve = "pending_review" THEN "need" ELSE "offer")
    /\ UNCHANGED <<index, pool, published, sent, server>>

\* _add_to_repo(): by the extension of the file; a failure is a warning.
Offered(f, ok) ==
    CASE Kind[f.pkg] = "deb" -> DebAdd(f, ok)
      [] Kind[f.pkg] = "rpm" -> RpmAdd(f)
      [] Kind[f.pkg] = "apk" -> IF ok THEN ApkAdd(f) ELSE UNCHANGED published
UploadOffer(t) ==
    /\ task[t].step = "offer"
    /\ \E ok \in BOOLEAN, f \in Same(pool, task[t].pkg, task[t].got) :
         /\ Offered(f, ok)
         /\ sent' = IF ok THEN sent \cup {Entry(t)} ELSE sent
    /\ Step(t, "need")
    /\ UNCHANGED <<index, pool, recorded, absent, server>>

\* What the validation of the upload found missing.
UploadNeeds(t) ==
    /\ task[t].step = "need"
    /\ Move(t, [Cleared(task[t], "next", FALSE) EXCEPT !.todo = InOrder(task[t].lacks), !.seen = task[t].lacks])
    /\ UNCHANGED <<index, repo, server>>

\* The result of the upload; bad when the generator raised, or was closed with its connection.
UploadEnds(t, bad) == Move(t, Over(task[t], "done", bad))
UploadBreaks(t) ==
    /\ task[t].mode = "upload" /\ Runs(t) /\ task[t].step \notin Locked \cup {"lock"}
    /\ UploadEnds(t, TRUE)
    /\ UNCHANGED <<index, repo, server>>

Tried(t) == Cardinality(task[t].seen) - Len(task[t].todo)
UploadNext(t) ==
    /\ task[t].mode = "upload" /\ task[t].step = "next"
    /\ IF task[t].todo = <<>> \/ Tried(t) >= MaxAutoImports
       THEN UploadEnds(t, FALSE) ELSE Take(t, 0)
    /\ UNCHANGED <<index, repo, server>>

UploadMissed(t) ==
    /\ task[t].mode = "upload" /\ task[t].step = "missed"
    /\ \/ task[t].synced /\ Return(t, TRUE) /\ UNCHANGED index
       \/ /\ ~task[t].synced
          /\ Move(t, [task[t] EXCEPT !.step = "lock", !.synced = TRUE])
          /\ Refresh(Format(t))
    /\ UNCHANGED <<repo, server>>

\* _sub_missing_deps(): what index.json says of the package just imported.
UploadSub(t) ==
    /\ task[t].step = "sub"
    /\ Move(t, [task[t] EXCEPT !.step = "next", !.pkg = NoPackage,
                    !.todo = task[t].todo \o InOrder(absent[task[t].pkg] \ task[t].seen),
                    !.seen = task[t].seen \cup absent[task[t].pkg]])
    /\ UNCHANGED <<index, repo, server>>

--------------------------------------------------------------------------------
\* Mirror jobs: a source is the packages of one format.

\* Slip: the endpoint forgets require_leader.
MayMirrorAnywhere(r) == Up(r) /\ \A u \in Tasks : task[u].home = r => ~Mirrors(u)

\* start_job(): only on the leader, and only if this process has no mirror job at work.
MayMirror(r) == leader[r] = "leader" /\ \A u \in Tasks : task[u].home = r => ~Mirrors(u)
StartJob(t, r) == MayMirror(r) /\ Begin(t, "mirror", r, "sync")
StopJob(t) == Mirrors(t) /\ ~task[t].stop /\ Move(t, [task[t] EXCEPT !.stop = TRUE])

MirrorStart(t) ==
    /\ \E r \in Replicas : StartJob(t, r)
    /\ UNCHANGED <<index, repo, server>>

\* cancel_job(), by a user; the job goes on to the end of its package.
Cancel(t) ==
    /\ StopJob(t)
    /\ UNCHANGED <<index, repo, server>>

\* run_scheduled_mirror(): the scheduler runs on the leader; it waits for the job that start_job() returns,
\* its own or the one at work, and cancels it at the end of its time.
Schedules(r) == leader[r] = "leader"
RunScheduledMirror(t) ==
    /\ \E r \in Replicas : Schedules(r) /\ (StartJob(t, r) \/ (task[t].home = r /\ StopJob(t)))
    /\ UNCHANGED <<index, repo, server>>

MirrorSync(t) ==
    /\ task[t].step = "sync"
    /\ Step(t, "list")
    /\ Refresh(Kind[task[t].target])
    /\ UNCHANGED <<repo, server>>

\* The rows of the source up to the limit, then those of their dependencies that have one.
MirrorList(t) ==
    LET k    == Kind[task[t].target]
        rows == InOrder(RowsOf(k))
        base == SubSeq(rows, 1, IF Len(rows) < Limit THEN Len(rows) ELSE Limit)
        deps == {q \in Tree(ToSet(base)) \ ToSet(base) : Row(q) # 0}
    IN
    /\ task[t].step = "list"
    /\ Move(t, [task[t] EXCEPT !.step = "next", !.todo = base \o InOrder(deps), !.asof = index[k]])
    /\ UNCHANGED <<index, repo, server>>

\* Before each package: asked to stop, or the disk full, or none is left.
MirrorNext(t) ==
    /\ task[t].mode = "mirror" /\ task[t].step = "next"
    /\ \/ Move(t, Over(task[t], "done", FALSE))
       \/ task[t].todo # <<>> /\ ~task[t].stop /\ Take(t, task[t].asof)
    /\ UNCHANGED <<index, repo, server>>

--------------------------------------------------------------------------------
\* The replicas.

\* acquire_leadership(), once at the start; without the database every replica is the leader.
Elect(r) ==
    /\ leader[r] = "down"
    /\ \/ lock = NoReplica /\ leader' = [leader EXCEPT ![r] = "leader"] /\ lock' = r /\ lapsed' = lapsed
       \/ lock # NoReplica /\ leader' = [leader EXCEPT ![r] = "passive"] /\ UNCHANGED <<lock, lapsed>>
       \/ leader' = [leader EXCEPT ![r] = "leader"] /\ lapsed' = TRUE /\ lock' = lock
    /\ UNCHANGED <<index, repo, task>>

\* The connection breaks: the database frees the lock, is_leader() does not see it.
LoseConnection(r) ==
    /\ r \in Unsteady /\ lock = r /\ leader[r] = "leader"
    /\ lock' = NoReplica /\ lapsed' = TRUE
    /\ UNCHANGED <<index, repo, task, leader>>

\* release() at a clean stop, while the threads go on until the process ends.
Release(r) ==
    /\ r \in Unsteady /\ Up(r)
    /\ leader' = [leader EXCEPT ![r] = "stopping"]
    /\ lock' = IF lock = r THEN NoReplica ELSE lock
    /\ lapsed' = (lapsed \/ \E t \in Tasks : task[t].home = r /\ Mirrors(t))
    /\ UNCHANGED <<index, repo, task>>

\* The process ends, or crashes: its threads with it.
Exit(r) ==
    /\ r \in Unsteady /\ leader[r] # "down"
    /\ leader' = [leader EXCEPT ![r] = "down"]
    /\ lock' = IF lock = r THEN NoReplica ELSE lock
    /\ task' = [t \in Tasks |-> IF task[t].home = r /\ Runs(t) THEN Over(task[t], "lost", TRUE) ELSE task[t]]
    /\ UNCHANGED <<index, repo, lapsed>>

--------------------------------------------------------------------------------
Import(t) ==
    \/ Acquire(t) \/ DebDownload(t) \/ RpmDownload(t) \/ ApkDownload(t) \/ Validate(t) \/ Keep(t)
    \/ DebRecord(t) \/ RpmRecord(t) \/ ApkRecord(t) \/ DebPublish(t) \/ RpmPublish(t) \/ ApkPublish(t)
    \/ AptLook(t) \/ RpmLook(t) \/ ApkLook(t) \/ AptResolve(t) \/ RpmResolve(t) \/ ApkResolve(t)
    \/ AptNext(t) \/ RpmNext(t) \/ ApkNext(t) \/ AptMissed(t) \/ LeftOut(t)
    \/ UploadReceived(t) \/ UploadScan(t) \/ UploadMove(t) \/ UploadSave(t) \/ UploadOffer(t)
    \/ UploadNeeds(t) \/ UploadNext(t) \/ UploadMissed(t) \/ UploadSub(t)
    \/ MirrorSync(t) \/ MirrorList(t) \/ MirrorNext(t)
Ask(t) == FetchPackage(t) \/ UploadStart(t) \/ MirrorStart(t) \/ Cancel(t) \/ RunScheduledMirror(t)
          \/ Raise(t) \/ Disconnect(t) \/ UploadBreaks(t)
Next ==
    \/ \E t \in Tasks : Import(t) \/ Ask(t)
    \/ \E k \in Kinds : Sync(k)
    \/ \E r \in Replicas : Elect(r) \/ LoseConnection(r) \/ Release(r) \/ Exit(r)

Spec == Init /\ [][Next]_vars /\ \A t \in Tasks : WF_vars(Import(t))

--------------------------------------------------------------------------------
(***************************************************************************)
(* Properties                                                              *)
(***************************************************************************)

\* Whatever the tools answer and the settings ask, no file kept in the pool has anything against it but a
\* review (the early returns of the pipelines before strict_deps puts passed back), and a file whose last
\* verdict asks for a review is not published, unless two were at work on it when it was copied that no lock
\* keeps apart: imports of two replicas, or an upload, which takes none.
KeptWasCleared ==
    /\ \A f \in pool : f.refused \subseteq {"review"}
    /\ \A f \in published : f.refused = {} \/ \E r, s \in f.by : r # s

\* A process that downloaded the version it had checked never publishes again a .deb or an .apk that it has
\* published, by an import or an upload: the check is made under the lock of the package and holds until its
\* end, but against an upload of the same version that comes in between.
CheckedIsNew ==
    \A t \in Tasks :
        task[t].step = "publish" /\ Format(t) # "rpm" /\ task[t].version = task[t].got
            => <<task[t].home, task[t].pkg, task[t].got, TRUE>> \notin sent

\* The two without the exceptions, which the code does not keep: the upload of a version and an import of it
\* are both at work on one file, and the one publishes what the other left for a review, ...
InReviewIsKeptIn == \A f \in published : f.refused = {}

\* ... or publishes what was published meanwhile.
NothingTwice ==
    \A t \in Tasks :
        task[t].step = "publish" /\ Format(t) # "rpm" /\ task[t].version = task[t].got
            => \A alone \in BOOLEAN : <<task[t].home, task[t].pkg, task[t].got, alone>> \notin sent

\* Two mirror jobs are never at work together, in one process or in two, as long as no election failed, no
\* connection of a leader broke and no leader stopped while its job went on.
OneMirror == ~lapsed => \A t, u \in Tasks : Mirrors(t) /\ Mirrors(u) => t = u

\* Every import that was begun ends, however often the index misses a package and whoever holds the locks.
ImportsEnd == \A t \in Tasks : Runs(t) ~> ~Runs(t)

\* What importer_rpm.py:4 and the docstring of import_package() say: importing a package brings it and its
\* dependencies. A fetch that ends without an error or a package left out has its package in the pool.
ImportBringsIt ==
    \A t \in Tasks :
        task[t].mode = "fetch" /\ task[t].step = "done" /\ ~task[t].failed => Files(pool, task[t].target) # {}
================================================================================
