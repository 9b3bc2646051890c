------------------------------ MODULE Vulnerabilities ------------------------------
(***************************************************************************)
(* What the server knows of the vulnerabilities of a package, and when it  *)
(* learns it: the database of Grype (services/grype_db.py), the caches of  *)
(* KEV and EPSS on disk (services/cve_enrichment.py), and the jobs that    *)
(* read a manifest, scan or enrich it and write it back whole: admission,  *)
(* the rescan on request (routers/scan_router.py), the daily matching      *)
(* against the stored SBOM (services/cve_rematch.py), the daily            *)
(* enrichment (services/manifest.py) and the daily synchronisation that    *)
(* runs before it (services/security_sync.py).                             *)
(*                                                                         *)
(* One package.  A cache is fresh until its delay passes.  What the saving *)
(* of a manifest does file by file is in module Catalogue, the pipeline    *)
(* that admits a package in module Validation.                             *)
(***************************************************************************)
EXTENDS Integers, FiniteSets

CONSTANTS
    Found,      \* generation of the Grype database -> what it finds in the package
    Starts,     \* bound on the generation that a behaviour starts with
    SeverityOf, \* CVE -> severity
    CvePolicy,  \* the cve_policy setting: severity -> action
    Exploited,  \* the CVEs that CISA lists
    Scorable,   \* the CVEs that FIRST.org scores sooner or later
    Jobs,       \* requests and jobs at work at once
    Mixes,      \* bound on a behaviour: the operations, the people and their choices that meet in it
    None        \* no manifest, no decision

CveIds == DOMAIN SeverityOf
Generations == DOMAIN Found

ASSUME VulnerabilitiesAssumption ==
    /\ Generations \subseteq Nat /\ Starts \subseteq Generations
    /\ Found \in [Generations -> SUBSET CveIds]
    /\ IsFiniteSet(CveIds) /\ IsFiniteSet(Jobs)
    /\ CvePolicy \in [{SeverityOf[c] : c \in CveIds} -> {"block", "review", "warn", "allow"}]
    /\ Exploited \subseteq CveIds /\ Scorable \subseteq CveIds

VARIABLES
    mix,       \* what meets in this behaviour
    db,        \* the generation of the Grype database
    published, \* the CVEs that FIRST.org scores
    kev,       \* kev_cache.json: [ids, fresh]
    epss,      \* epss_cache.json: [ids, fresh], the CVEs with a score
    row,       \* the manifest, or None
    sbom,      \* whether the SBOM of the package was stored
    rescanned, \* the CVEs that a rescan on request ever put in the manifest
    work       \* job -> [op, pc, row, ids, kev, scores, rec, id, by, action, days]

feeds == <<db, published, kev, epss>>

Statuses == {"validated", "pending_review", "accepted_risk", "exception", "quarantined", "upgrade_required"}
Manifest == [status : Statuses, results : SUBSET CveIds, flagged : SUBSET CveIds, scored : SUBSET CveIds]
Cache    == [ids : SUBSET CveIds, fresh : BOOLEAN]

-----------------------------------------------------------------------------
Does(op)  == op \in mix
At(j, pc) == work[j].pc = pc
Go(j, pc) == work' = [work EXCEPT ![j].pc = pc]

\* What the manifest lists.
Results == IF row = None THEN {} ELSE row.results

\* What the policy asks about a set of CVEs.
Asks(action, cves) == \E c \in cves : CvePolicy[SeverityOf[c]] = action
Severe(cves) == Asks("block", cves) \/ Asks("review", cves)

Unscanned(status) == [status |-> status, results |-> {}, flagged |-> {}, scored |-> {}]
Scanned(status, cves) == [Unscanned(status) EXCEPT !.results = cves]

-----------------------------------------------------------------------------
\* The three feeds.  A refresh that fails keeps what is there.

\* refresh_kev()
RefreshKev == kev' \in {kev, [ids |-> Exploited, fresh |-> TRUE]}

\* refresh_epss_bulk(): the top of the recent scores replaces the whole cache.
RefreshEpssBulk ==
    \/ epss' = epss
    \/ \E top \in SUBSET published : epss' = [ids |-> top, fresh |-> TRUE]

\* update_grype_db()
UpdateGrypeDb == \E g \in Generations : g >= db /\ db' = g

\* FIRST.org scores one more CVE; a delay passes (_cache_fresh).
Publish ==
    /\ Does("publish")
    /\ \E c \in Scorable \ published : published' = published \cup {c}
    /\ UNCHANGED <<mix, db, kev, epss, row, sbom, rescanned, work>>

Age ==
    /\ \/ Does("age_kev") /\ kev' = [kev EXCEPT !.fresh = FALSE] /\ UNCHANGED epss
       \/ Does("age") /\ epss' = [epss EXCEPT !.fresh = FALSE] /\ UNCHANGED kev
    /\ UNCHANGED <<mix, db, published, row, sbom, rescanned, work>>

-----------------------------------------------------------------------------
\* What starts a job, and what it reads.

Idle == [op |-> "none", pc |-> "idle", row |-> None, ids |-> {}, kev |-> {}, scores |-> {},
         rec |-> None, id |-> 0, by |-> None, action |-> "none", days |-> 0]
Return(j) == work' = [work EXCEPT ![j] = Idle]
Begin(j, op, pc, r) ==
    /\ Does(op)
    /\ At(j, "idle")
    /\ work' = [work EXCEPT ![j] = [Idle EXCEPT !.op = op, !.pc = pc, !.row = r]]
    /\ UNCHANGED <<mix, feeds, row, sbom, rescanned>>

\* An upload or an import, one of them at a time for a package; what is admitted again gets a new
\* manifest in place of the one it has.
BeginAdmission(j) == (\A i \in Jobs : work[i].op # "admit") /\ Begin(j, "admit", "scan", None)

\* rescan_package(): any manifest of a package in the pool.
BeginRescan(j) == row # None /\ Begin(j, "rescan", "scan", row)

\* _fetch_eligible_manifests(): the validated ones; without an SBOM rematch_one() skips it.
Eligible == row # None /\ row.status = "validated"
BeginRematch(j) == Eligible /\ sbom /\ Begin(j, "rematch", "scan", row)

\* reenrich_manifest_cve(), on request: the manifests with results.
BeginReenrich(j) == Results # {} /\ Begin(j, "reenrich", "kev", row)

\* run_security_sync(), POST /security/grype/update and POST /security/feeds/refresh.
BeginSync(j)    == Begin(j, "sync", "grype", None)
BeginGrype(j)   == Begin(j, "grype", "grype", None)
BeginRefresh(j) == Begin(j, "refresh", "refresh_kev", None)

-----------------------------------------------------------------------------
\* The scan: the results, and for a matching what is new in them.

Enrich(j, r) ==
    work' = [work EXCEPT ![j].row = r, ![j].pc = IF r.results = {} THEN "save" ELSE "kev"]

\* The pipeline: an inconclusive scan admits, a policy that asks to block refuses.
Admit(j) ==
    /\ At(j, "scan") /\ work[j].op = "admit"
    /\ \/ Enrich(j, Unscanned("validated"))
       \/ IF Asks("block", Found[db]) THEN Return(j)
          ELSE Enrich(j, Scanned(IF Asks("review", Found[db]) THEN "pending_review" ELSE "validated", Found[db]))
    /\ sbom' \in BOOLEAN
    /\ UNCHANGED <<mix, feeds, row, rescanned>>

\* The only scan that lets Grype update its database first.  The status stays what it was,
\* whatever the policy asks about what was found.
Rescan(j) ==
    /\ At(j, "scan") /\ work[j].op = "rescan"
    /\ UpdateGrypeDb
    /\ \/ Return(j)
       \/ Enrich(j, [work[j].row EXCEPT !.results = Found[db']])
    /\ UNCHANGED <<mix, published, kev, epss, row, sbom, rescanned>>

\* Slip: compared with what the manifest lists when the scan ends.
NewlyAppearedNow(j) == Found[db] \ Results

\* rematch_one(): the policy is asked about the CVEs that were not in the manifest read.
NewlyAppeared(j) == Found[db] \ work[j].row.results

MatchedStatus(j) == IF Severe(NewlyAppeared(j)) THEN "pending_review" ELSE work[j].row.status

Rematch(j) ==
    /\ At(j, "scan") /\ work[j].op = "rematch"
    /\ \/ Return(j)
       \/ Enrich(j, [work[j].row EXCEPT !.results = Found[db], !.status = MatchedStatus(j)])
    /\ UNCHANGED <<mix, feeds, row, sbom, rescanned>>

-----------------------------------------------------------------------------
\* enrich_cve_list()

\* get_kev_set(): refreshed when stale, whatever there is otherwise.
GetKevSet(j) ==
    /\ At(j, "kev")
    /\ IF kev.fresh THEN UNCHANGED kev ELSE RefreshKev
    /\ work' = [work EXCEPT ![j].kev = kev'.ids, ![j].pc = "epss"]
    /\ UNCHANGED <<mix, db, published, epss, row, sbom, rescanned>>

\* get_epss_scores(): a stale cache counts for nothing, ...
LoadEpssCache(j) ==
    LET known == IF epss.fresh THEN epss.ids ELSE {} IN
    /\ At(j, "epss")
    /\ work' = [work EXCEPT ![j].scores = known, ![j].ids = work[j].row.results \ known,
                            ![j].pc = IF work[j].row.results \subseteq known THEN "save" ELSE "ask"]
    /\ UNCHANGED <<mix, feeds, row, sbom, rescanned>>

\* ... what is missing is asked for, and the cache is replaced when every request was answered.
Answered(j) ==
    /\ At(j, "ask")
    /\ LET scores == work[j].scores \cup (work[j].ids \cap published) IN
         /\ epss' = [ids |-> scores, fresh |-> TRUE]
         /\ work' = [work EXCEPT ![j].scores = scores, ![j].ids = {}, ![j].pc = "save"]
    /\ UNCHANGED <<mix, db, published, kev, row, sbom, rescanned>>

\* A request fails: the scores of the answered ones are used, not kept.
Unanswered(j) ==
    /\ At(j, "ask")
    /\ \E some \in SUBSET (work[j].ids \cap published) :
         work' = [work EXCEPT ![j].scores = work[j].scores \cup some, ![j].ids = {}, ![j].pc = "save"]
    /\ UNCHANGED <<mix, feeds, row, sbom, rescanned>>

\* Slip: the scores of the whole cache.
EnrichedAll(j) ==
    [work[j].row EXCEPT !.flagged = work[j].row.results \cap work[j].kev, !.scored = work[j].scores]

\* save_manifest(): the whole manifest read and worked on.
Enriched(j) ==
    LET r == work[j].row IN
    [r EXCEPT !.flagged = r.results \cap work[j].kev, !.scored = r.results \cap work[j].scores]
Save(j) ==
    /\ At(j, "save")
    /\ row' = Enriched(j)
    /\ rescanned' = IF work[j].op = "rescan" THEN rescanned \cup work[j].row.results ELSE rescanned
    /\ Return(j)
    /\ UNCHANGED <<mix, feeds, sbom>>

-----------------------------------------------------------------------------
\* run_security_sync() and the two requests that do a part of it.

SyncGrype(j) ==
    /\ At(j, "grype")
    /\ UpdateGrypeDb
    /\ IF work[j].op = "sync" THEN Go(j, "refresh_kev") ELSE Return(j)
    /\ UNCHANGED <<mix, published, kev, epss, row, sbom, rescanned>>

SyncKev(j) ==
    /\ At(j, "refresh_kev")
    /\ RefreshKev
    /\ Go(j, "refresh_epss")
    /\ UNCHANGED <<mix, db, published, epss, row, sbom, rescanned>>

SyncEpss(j) ==
    /\ At(j, "refresh_epss")
    /\ RefreshEpssBulk
    /\ IF work[j].op = "sync" THEN Go(j, "reenrich") ELSE Return(j)
    /\ UNCHANGED <<mix, db, published, kev, row, sbom, rescanned>>

\* Slip: the sources follow at once.
SyncWithoutReenrich(j) ==
    /\ At(j, "reenrich")
    /\ Return(j)
    /\ UNCHANGED <<mix, feeds, row, sbom, rescanned>>

SyncReenrich(j) ==
    /\ At(j, "reenrich")
    /\ IF Results = {} THEN Return(j)
       ELSE work' = [work EXCEPT ![j].row = row, ![j].pc = "kev"]
    /\ UNCHANGED <<mix, feeds, row, sbom, rescanned>>

-----------------------------------------------------------------------------
Start(j) ==
    \/ BeginAdmission(j) \/ BeginRescan(j) \/ BeginRematch(j) \/ BeginReenrich(j)
    \/ BeginSync(j) \/ BeginGrype(j) \/ BeginRefresh(j)
Proceed(j) ==
    \/ Admit(j) \/ Rescan(j) \/ Rematch(j)
    \/ GetKevSet(j) \/ LoadEpssCache(j) \/ Answered(j) \/ Unanswered(j) \/ Save(j)
    \/ SyncGrype(j) \/ SyncKev(j) \/ SyncEpss(j) \/ SyncReenrich(j)

\* The daily synchronisation starts again whenever it has ended, jobs go on, and the scores asked
\* for again and again are answered at last.
FeedsFairness ==
    \A j \in Jobs :
      /\ SF_<<feeds, row, sbom, rescanned, work>>(BeginSync(j))
      /\ WF_<<feeds, row, sbom, rescanned, work>>(Proceed(j))
      /\ SF_<<feeds, row, sbom, rescanned, work>>(Answered(j))

-----------------------------------------------------------------------------
\* Properties.

\* What the policy keeps from publication never sits in a validated manifest, whatever scans,
\* enrichments, synchronisations and decisions overlap and write back what they read before,
\* unless a rescan on request put it there (that one keeps the status it read).
NothingSlipsIn ==
    row # None /\ row.status = "validated" => ~Severe(Results \ rescanned)

\* "Bloquée à 0 %" no longer: a CVE that FIRST.org scores has its score in the manifest sooner or
\* later, however stale the cache and whatever rescan writes the manifest back, where the daily
\* synchronisation runs.
ScoresCatchUp ==
    \A c \in Scorable :
      (Does("sync") /\ c \in published \cap Results) ~> (c \in Results => c \in row.scored)
================================================================================
