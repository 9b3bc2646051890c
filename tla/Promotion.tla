------------------------------ MODULE Promotion ------------------------------
(***************************************************************************)
(* The promotion workflow of one package: promote(), approve_pending() and *)
(* reject_pending() (services/promotion.py) over the request files of      *)
(* services/pending_promotions.py, the index of services/indexer.py and    *)
(* the distributions of the physical repository.                           *)
(*                                                                         *)
(* FastAPI runs each handler in a thread of its pool.  A handler is a      *)
(* sequence of steps; each step is one access to shared state (a locked    *)
(* index read, a request file read, a reprepro call, a locked write), and  *)
(* steps of different handlers interleave.  The other components act on    *)
(* the same state one operation at a time (AddToIndex .. SetPolicy).       *)
(***************************************************************************)
EXTENDS PromotionPolicy, FiniteSets

CONSTANTS
    Handlers,     \* request threads
    Versions,     \* versions of the package, ordered as reprepro compares them
    Dists,        \* codenames
    Routes,       \* the <<from, to>> pairs requested; from # to is checked first
    Ids,          \* identifiers of the promotion requests (bounds their number)
    Summaries,    \* CVE summaries an index entry may carry
    EpssSets,     \* sets of EPSS scores a manifest's CVEs may have
    CvePolicies,  \* CVE policies settings.json may hold
    EpssPolicy,   \* the EPSS policy: enabled, block and review thresholds
    None,         \* no version, no route, no request
    MayCrash      \* whether the backend process may be killed and restarted

ASSUME PromotionAssumption ==
    /\ Versions \subseteq Nat
    /\ None \notin Versions
    /\ Routes \subseteq Dists \X Dists
    /\ \A r \in Routes : r[1] # r[2]
    /\ None \notin Routes
    /\ None \notin Ids
    /\ NoScan \in Summaries
    /\ MayCrash \in BOOLEAN

VARIABLES
    indexed,   \* the versions the index lists
    summary,   \* version -> cve_summary of its index entry
    promoted,  \* version -> promoted_distributions of its index entry
    epss,      \* version -> EPSS scores of the CVEs of its manifest
    policy,    \* the cve_policy of settings.json
    repo,      \* distribution -> version published there, or None
    record,    \* request id -> request file
    pc,        \* handler -> what it does next
    req,       \* handler -> the local variables of the handler
    past,      \* history: request id -> what the decisions about it did
    gate       \* history: handler -> the CVE and EPSS verdicts it could read

envVars == <<indexed, summary, promoted, epss, policy, repo>>
vars    == <<indexed, summary, promoted, epss, policy, repo, record, pc, req, past, gate>>

Decided  == {"approved", "rejected"}
Statuses == {"pending", "approved", "rejected", "blocked", "already_present"}

\* A request file: absent (never created), removed by the retention job, cut short
\* by a crash (json.loads fails, so _load returns None), or a document.  direct is
\* set for the history record of a promotion that needed no decision.
NoFile   == [status |-> "absent", ver |-> None, route |-> None, direct |-> FALSE]
Readable(i) == record[i].status \in Statuses

\* What the decisions about a request have done: how often reprepro answered one of its
\* approvals with what promote_package() takes for a success, whether the package was in
\* the target distribution at such an answer, and whether two decisions overlapped or a
\* kill cut one between its copy and its record.
NoPast  == [ran |-> "never", promoted |-> FALSE, raced |-> FALSE]
History == [ran : {"never", "once", "again"}, promoted : BOOLEAN, raced : BOOLEAN]

Steps == {"idle", "epss", "settle", "evaluate", "copy", "index", "record", "update"}
Idle  == [op |-> "none", ver |-> None, route |-> None, force |-> FALSE,
          verdict |-> "approved", already |-> FALSE, id |-> None]

RequestFiles ==
    [status : Statuses \cup {"absent", "purged", "unreadable"}, ver : Versions \cup {None},
     route : Routes \cup {None}, direct : BOOLEAN]
Locals ==
    [op : {"none", "promote", "approve", "reject"}, ver : Versions \cup {None},
     route : Routes \cup {None}, force : BOOLEAN, verdict : Verdicts, already : BOOLEAN,
     id : Ids \cup {None}]

EnvTypeOK ==
    /\ indexed \in SUBSET Versions
    /\ summary \in [Versions -> Summaries]
    /\ promoted \in [Versions -> SUBSET Dists]
    /\ epss \in [Versions -> EpssSets]
    /\ policy \in CvePolicies
    /\ repo \in [Dists -> Versions \cup {None}]

TypeOK ==
    /\ EnvTypeOK
    /\ record \in [Ids -> RequestFiles]
    /\ pc \in [Handlers -> Steps]
    /\ req \in [Handlers -> Locals]
    /\ past \in [Ids -> History]
    /\ gate \in [Handlers -> SUBSET Verdicts]

Init ==
    /\ indexed = {}
    /\ summary = [v \in Versions |-> NoScan]
    /\ promoted = [v \in Versions |-> {}]
    /\ epss \in [Versions -> EpssSets]
    /\ policy \in CvePolicies
    /\ repo = [d \in Dists |-> None]
    /\ record = [i \in Ids |-> NoFile]
    /\ pc = [h \in Handlers |-> "idle"]
    /\ req = [h \in Handlers |-> Idle]
    /\ past = [i \in Ids |-> NoPast]
    /\ gate = [h \in Handlers |-> {}]

\* Identifiers never used: uuid4 does not give the same one twice.
Fresh == {i \in Ids : record[i].status = "absent"}

--------------------------------------------------------------------------------
\* Small steps of a handler.

Goto(h, step) == pc' = [pc EXCEPT ![h] = step]

\* The handler returns, or raises PromotionError.
Return(h) ==
    /\ Goto(h, "idle")
    /\ req' = [req EXCEPT ![h] = Idle]
    /\ gate' = [gate EXCEPT ![h] = {}]

\* create_pending(): a new file, the final status of a direct promotion included.
CreateRecord(h, st) ==
    \E i \in Fresh :
        record' = [record EXCEPT ![i] =
            [status |-> st, ver |-> req[h].ver, route |-> req[h].route,
             direct |-> st # "pending"]]

\* update_pending(): overwrites the status of the file if there is one to read.
UpdateRecord(i, st) ==
    record' = IF Readable(i) THEN [record EXCEPT ![i].status = st] ELSE record

\* _update_index_promoted_distributions(), one read-modify-write under the lock
\* of the index; nothing when the version is gone.
MarkPromoted(v, d) ==
    promoted' = IF v \in indexed THEN [promoted EXCEPT ![v] = @ \cup {d}] ELSE promoted

--------------------------------------------------------------------------------
\* promote()

\* The endpoint, which lets any maintainer force, then the checks, the index read and
\* the CVE verdict.  The version is one the index lists: the one asked for, or the
\* latest; otherwise PromotionError.  The
\* conjunct on Fresh keeps an identifier for every promotion under way (bound: Ids).
StartPromote(h) ==
    /\ pc[h] = "idle"
    /\ Cardinality(Fresh) > Cardinality({g \in Handlers : req[g].op = "promote"})
    /\ \E route \in Routes, ver \in indexed, force \in BOOLEAN :
         LET verdict == CveVerdict(summary[ver], policy)
         IN  /\ req' = [req EXCEPT ![h] =
                  [op |-> "promote", ver |-> ver, route |-> route, force |-> force,
                   verdict |-> verdict, already |-> FALSE, id |-> None]]
             /\ gate' = [gate EXCEPT ![h] = {verdict}]
             /\ Goto(h, IF verdict = "blocked" THEN "settle" ELSE "epss")
    /\ UNCHANGED <<envVars, record, past>>

\* The EPSS verdict of the manifest's CVEs is folded in.  Any exception (database,
\* EPSS cache) is swallowed and leaves the CVE verdict alone.
EvaluateEpss(h) ==
    /\ pc[h] = "epss"
    /\ \/ LET verdict == EpssVerdict(epss[req[h].ver], EpssPolicy)
          IN  /\ req' = [req EXCEPT ![h].verdict = MergeVerdict(@, verdict)]
              /\ gate' = [gate EXCEPT ![h] = @ \cup {verdict}]
       \/ UNCHANGED <<req, gate>>
    /\ Goto(h, "settle")
    /\ UNCHANGED <<envVars, record, past>>

\* A blocked verdict is recorded whatever force says.
RefuseBlocked(h) ==
    /\ pc[h] = "settle"
    /\ req[h].verdict = "blocked"
    /\ CreateRecord(h, "blocked")
    /\ Return(h)
    /\ UNCHANGED <<envVars, past>>

\* Slip: the verdict is stored where the status of a request belongs.
AskReviewMislabelled(h) ==
    /\ pc[h] = "settle"
    /\ req[h].verdict = "pending_review"
    /\ ~req[h].force
    /\ CreateRecord(h, "pending_review")
    /\ Return(h)
    /\ UNCHANGED <<envVars, past>>

\* A verdict to review waits for a decision, unless forced.
AskReview(h) ==
    /\ pc[h] = "settle"
    /\ req[h].verdict = "pending_review"
    /\ ~req[h].force
    /\ CreateRecord(h, "pending")
    /\ Return(h)
    /\ UNCHANGED <<envVars, past>>

GoAhead(h) ==
    /\ pc[h] = "settle"
    /\ \/ req[h].verdict = "approved"
       \/ req[h].verdict = "pending_review" /\ req[h].force
    /\ Goto(h, "copy")
    /\ UNCHANGED <<envVars, record, req, past, gate>>

--------------------------------------------------------------------------------
\* The copy, shared by promote() and approve_pending().

\* reprepro publishes a version in a distribution unless it holds as new a one.
Supersedes(v, d) == IF repo[d] = None THEN TRUE ELSE v > repo[d]

\* `reprepro copy to from name`: whatever version of the package `from` holds at
\* that moment goes to `to`.
Copied(route) ==
    LET source == repo[route[1]]
    IN  IF source # None /\ Supersedes(source, route[2])
        THEN [repo EXCEPT ![route[2]] = source]
        ELSE repo

\* An approval takes an answer of reprepro for a success; there tells whether the package
\* is in the target distribution then.
Answered(h, there) ==
    past' = IF req[h].op = "approve"
            THEN [past EXCEPT ![req[h].id].ran = IF @ = "never" THEN "once" ELSE "again",
                              ![req[h].id].promoted = @ \/ there]
            ELSE past

\* reprepro ends with 0: the index is updated next.
Copy(h) ==
    /\ pc[h] = "copy"
    /\ repo' = Copied(req[h].route)
    /\ Answered(h, TRUE)
    /\ Goto(h, "index")
    /\ UNCHANGED <<indexed, summary, promoted, epss, policy, record, req, gate>>

\* reprepro fails with a text that holds "already" or "up-to-date": promote_package() takes
\* it for a package that the target has, and the index is left alone.  The target need not
\* have it: so reads the message of a lock held by another reprepro, too.
CopyAlready(h) ==
    /\ pc[h] = "copy"
    /\ req' = [req EXCEPT ![h].already = TRUE]
    /\ Answered(h, repo[req[h].route[2]] # None)
    /\ Goto(h, IF req[h].op = "approve" THEN "update" ELSE "record")
    /\ UNCHANGED <<envVars, record, gate>>

\* Slip: the result of reprepro is not looked at.
CopyFailsUnseen(h) ==
    /\ pc[h] = "copy"
    /\ Goto(h, "index")
    /\ UNCHANGED <<envVars, record, req, past, gate>>

\* reprepro fails with any other text (missing package, bad file): PromotionError, and a
\* request under approval stays as it is.
CopyFails(h) ==
    /\ pc[h] = "copy"
    /\ Return(h)
    /\ UNCHANGED <<envVars, record, past>>

\* Slip: a failed index update raises instead of being logged.
UpdateIndexRaises(h) ==
    /\ pc[h] = "index"
    /\ \/ /\ MarkPromoted(req[h].ver, req[h].route[2])
          /\ Goto(h, IF req[h].op = "approve" THEN "update" ELSE "record")
          /\ UNCHANGED <<req, gate>>
       \/ Return(h) /\ UNCHANGED promoted
    /\ UNCHANGED <<indexed, summary, epss, policy, repo, record, past>>

\* The index update; its failure is only logged.
UpdateIndex(h) ==
    /\ pc[h] = "index"
    /\ MarkPromoted(req[h].ver, req[h].route[2]) \/ UNCHANGED promoted
    /\ Goto(h, IF req[h].op = "approve" THEN "update" ELSE "record")
    /\ UNCHANGED <<indexed, summary, epss, policy, repo, record, req, past, gate>>

\* The history record of a direct promotion.
RecordPromotion(h) ==
    /\ pc[h] = "record"
    /\ CreateRecord(h, IF req[h].already THEN "already_present" ELSE "approved")
    /\ Return(h)
    /\ UNCHANGED <<envVars, past>>

--------------------------------------------------------------------------------
\* approve_pending() and reject_pending()

\* Slip: any request that can be read is taken.
StartDecisionUnchecked(h, op, next) ==
    \E i \in Ids :
        /\ pc[h] = "idle"
        /\ Readable(i)
        /\ req' = [req EXCEPT ![h] =
             [op |-> op, ver |-> record[i].ver, route |-> record[i].route,
              force |-> FALSE, verdict |-> "approved", already |-> FALSE, id |-> i]]
        /\ Goto(h, next)
        /\ UNCHANGED <<envVars, record, past, gate>>

\* get_pending() and the status check; anything but "pending" raises.
StartDecision(h, op, next) ==
    \E i \in Ids :
        /\ pc[h] = "idle"
        /\ record[i].status = "pending"
        /\ req' = [req EXCEPT ![h] =
             [op |-> op, ver |-> record[i].ver, route |-> record[i].route,
              force |-> FALSE, verdict |-> "approved", already |-> FALSE, id |-> i]]
        /\ past' = [past EXCEPT ![i].raced = @ \/ \E g \in Handlers : req[g].id = i]
        /\ Goto(h, next)
        /\ UNCHANGED <<envVars, record, gate>>

\* The endpoints look first whether the request can be read and names this package.
StartApprove(h) == StartDecision(h, "approve", "evaluate")
StartReject(h)  == StartDecision(h, "reject", "update")

\* The CVE policy again.  The package must still be indexed; a version that is not
\* counts as one without a scan.  A blocked verdict refuses the approval.
ReEvaluate(h) ==
    /\ pc[h] = "evaluate"
    /\ LET ver     == req[h].ver
           verdict == CveVerdict(IF ver \in indexed THEN summary[ver] ELSE NoScan, policy)
       IN  IF indexed = {} \/ verdict = "blocked"
           THEN Return(h)
           ELSE /\ req' = [req EXCEPT ![h].verdict = verdict]
                /\ gate' = [gate EXCEPT ![h] =
                     {verdict, EpssVerdict(epss[ver], EpssPolicy)}]
                /\ Goto(h, "copy")
    /\ UNCHANGED <<envVars, record, past>>

\* The end of approve_pending(), and all that reject_pending() does after its check:
\* update_pending(), which does not read the status again.
WriteDecision(h) ==
    /\ pc[h] = "update"
    /\ UpdateRecord(req[h].id, IF req[h].op = "approve" THEN "approved" ELSE "rejected")
    /\ Return(h)
    /\ UNCHANGED <<envVars, past>>

--------------------------------------------------------------------------------
\* The rest of the system, one operation at a time.

\* add_to_index() and, for one entry, sync_index_from_pool(): the entry is written
\* anew, without promoted_distributions.
AddToIndex ==
    \E v \in Versions, s \in Summaries :
        /\ indexed' = indexed \cup {v}
        /\ summary' = [summary EXCEPT ![v] = s]
        /\ promoted' = [promoted EXCEPT ![v] = {}]
        /\ UNCHANGED <<epss, policy, repo, record, pc, req, past, gate>>

\* remove_from_index(name) or remove_from_index(name, version).
RemoveFromIndex ==
    \E gone \in {indexed} \cup {{v} : v \in indexed} :
        /\ indexed' = indexed \ gone
        /\ summary' = [v \in Versions |-> IF v \in gone THEN NoScan ELSE summary[v]]
        /\ promoted' = [v \in Versions |-> IF v \in gone THEN {} ELSE promoted[v]]
        /\ UNCHANGED <<epss, policy, repo, record, pc, req, past, gate>>

\* `reprepro includedeb`: an older version than the published one is refused.
IncludePackage ==
    \E d \in Dists, v \in Versions :
        /\ Supersedes(v, d)
        /\ repo' = [repo EXCEPT ![d] = v]
        /\ UNCHANGED <<indexed, summary, promoted, epss, policy, record, pc, req, past, gate>>

\* POST /distributions/promote, and /migrate for all packages: the copy alone, without a
\* verdict and without a request.
CopyUngated ==
    \E route \in Routes :
        /\ repo' = Copied(route)
        /\ UNCHANGED <<indexed, summary, promoted, epss, policy, record, pc, req, past, gate>>

\* `reprepro remove dist name`, for one distribution.
RemovePackage ==
    \E d \in Dists :
        /\ repo[d] # None
        /\ repo' = [repo EXCEPT ![d] = None]
        /\ UNCHANGED <<indexed, summary, promoted, epss, policy, record, pc, req, past, gate>>

\* The EPSS cache is refreshed or the manifest is scanned again.
RefreshEpss ==
    \E v \in Versions, e \in EpssSets :
        /\ epss' = [epss EXCEPT ![v] = e]
        /\ UNCHANGED <<indexed, summary, promoted, policy, repo, record, pc, req, past, gate>>

\* An administrator changes cve_policy.
SetPolicy ==
    \E p \in CvePolicies :
        /\ policy' = p
        /\ UNCHANGED <<indexed, summary, promoted, epss, repo, record, pc, req, past, gate>>

\* purge_old_decided(): a file approved or rejected is unlinked after 90 days; no
\* handler that read it lives that long.
PurgeDecided ==
    \E i \in Ids :
        /\ record[i].status \in Decided
        /\ \A h \in Handlers : req[h].id # i
        /\ record' = [record EXCEPT ![i].status = "purged"]
        /\ UNCHANGED <<envVars, pc, req, past, gate>>

\* An approval between the answer of reprepro and the decision written to its file.
Copying(h, i) == req[h].op = "approve" /\ req[h].id = i /\ pc[h] \in {"index", "update"}

\* The files that a handler may be writing: the one it decides about, or a new one.
BeingWritten(h) ==
    CASE pc[h] = "update" -> {i \in {req[h].id} : Readable(i)}
      [] pc[h] = "record" -> Fresh
      [] pc[h] = "settle" ->
           IF req[h].verdict = "blocked" \/ (req[h].verdict = "pending_review" /\ ~req[h].force)
           THEN Fresh ELSE {}
      [] OTHER -> {}

\* The process is killed: every handler is gone.  The request file that was being written
\* (write_text truncates it first) may be left unreadable; the lock of the module lets one
\* be written at a time.
Crash ==
    /\ MayCrash
    /\ \/ UNCHANGED record
       \/ \E h \in Handlers : \E i \in BeingWritten(h) :
            record' = [record EXCEPT ![i].status = "unreadable"]
    /\ past' = [i \in Ids |->
         [past[i] EXCEPT !.raced = @ \/ \E h \in Handlers : Copying(h, i)]]
    /\ pc' = [h \in Handlers |-> "idle"]
    /\ req' = [h \in Handlers |-> Idle]
    /\ gate' = [h \in Handlers |-> {}]
    /\ UNCHANGED envVars

--------------------------------------------------------------------------------
\* What a handler does once it has started.
Step(h) ==
    \/ EvaluateEpss(h) \/ RefuseBlocked(h) \/ AskReview(h) \/ GoAhead(h)
    \/ Copy(h) \/ CopyAlready(h) \/ CopyFails(h) \/ UpdateIndex(h)
    \/ RecordPromotion(h) \/ ReEvaluate(h) \/ WriteDecision(h)

Start(h) == StartPromote(h) \/ StartApprove(h) \/ StartReject(h)

Environment ==
    \/ AddToIndex \/ RemoveFromIndex \/ IncludePackage \/ CopyUngated \/ RemovePackage
    \/ RefreshEpss \/ SetPolicy \/ PurgeDecided \/ Crash

Next == (\E h \in Handlers : Start(h) \/ Step(h)) \/ Environment

Spec == Init /\ [][Next]_vars

\* A thread that runs is scheduled: the handlers contain no wait.
FairSpec == Spec /\ \A h \in Handlers : WF_vars(Step(h))

--------------------------------------------------------------------------------
\* Properties.

\* A request that awaited a decision and reads "approved" had reprepro run by an approval
\* that took its answer for a success (pending_promotions.py: "approved -> reprepro
\* execute"), whatever the other handlers, failures and restarts in between.
ApprovedRanReprepro ==
    \A i \in Ids :
        record[i].status = "approved" /\ ~record[i].direct => past[i].ran # "never"

\* The history of promotions that needed no decision, refusals included, is never
\* rewritten by a late approval or rejection; at most the retention job removes it.
HistoryIsFrozen ==
    [][\A i \in Ids :
          Readable(i) /\ record[i].direct =>
              record'[i] \in {record[i], [record[i] EXCEPT !.status = "purged"]}]_vars

\* promote() copies only what both policies let through: a blocked verdict stops it
\* even when forced, a verdict to review stops it unless forced.
PromotionCleared ==
    \A h \in Handlers :
        req[h].op = "promote" /\ pc[h] \in {"copy", "index", "record"} =>
            /\ "blocked" \notin gate[h]
            /\ "pending_review" \in gate[h] => req[h].force

\* A request awaiting a decision is not lost: it leaves that state by a decision, or
\* because a crash cut the decision short.
PendingIsKept ==
    [][\A i \in Ids :
          record[i].status = "pending" =>
              record'[i].status \in {"pending", "approved", "rejected", "unreadable"}]_vars

\* Every request handler ends, whatever the others do.
HandlersReturn ==
    \A h \in Handlers : pc[h] # "idle" ~> pc[h] = "idle"

\* The workflow is the lifecycle that pending_promotions.py draws, for any number of
\* handlers at once and whenever the process is killed.
Lifecycle == INSTANCE RequestLifecycle WITH
    status  <- [i \in Ids |-> record[i].status],
    answers <- [i \in Ids |-> past[i].ran],
    raced   <- [i \in Ids |-> past[i].raced]

FollowsLifecycle == Lifecycle!Spec

\* "Aucune action reprepro, le paquet reste dans la distribution source": an approval of a
\* rejected request has run its copy only if two decisions of it overlapped, or a kill
\* separated the copy from its record.
RejectedNotCopied ==
    \A i \in Ids :
        record[i].status = "rejected" /\ ~past[i].raced => past[i].ran = "never"

\* "approved -> approve_pending() -> reprepro execute, paquet promu": the package of an
\* approved request was in the target distribution when reprepro answered.
ApprovedWasPromoted ==
    \A i \in Ids :
        record[i].status = "approved" /\ ~record[i].direct => past[i].promoted

\* "Deux threads approuvent simultanement : reprepro ne doit etre appele qu'une fois."
OneCopyPerRequest == \A i \in Ids : past[i].ran # "again"

\* A rejected request was not copied, whatever races.
RejectedNeverCopied == \A i \in Ids : record[i].status = "rejected" => past[i].ran = "never"

\* "Le niveau blocked ne peut jamais etre contourne, meme par un admin": an approval
\* does not copy a version that the policies of promote() would block.
ApprovalNotBlocked ==
    \A h \in Handlers :
        req[h].op = "approve" /\ pc[h] = "copy" => "blocked" \notin gate[h]
================================================================================
