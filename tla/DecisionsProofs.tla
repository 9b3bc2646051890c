--------------------------- MODULE DecisionsProofs ---------------------------
(***************************************************************************)
(* Proofs about Vulnerabilities and Decisions, for any jobs at work at     *)
(* once on the package, any CVEs, policy, generations of the database,     *)
(* people and terms: every variable keeps its type, nothing that the       *)
(* policy stops slips into a validated manifest, and a dated decision is   *)
(* announced before it expires.                                            *)
(***************************************************************************)
EXTENDS Decisions, FiniteSetTheorems, WellFoundedInduction, TLAPS

\* What a job may be doing, and its steps.
Ops   == {"none", "admit", "rescan", "rematch", "reenrich", "sync", "grype", "refresh",
          "decide", "quarantine", "update", "delete", "resolve", "sla"}
Steps == {"idle", "scan", "kev", "epss", "ask", "save", "grype", "refresh_kev", "refresh_epss", "reenrich",
          "decide", "decided", "quarantine", "update", "delete", "resolve", "sla"}

\* Where a job holds a manifest that it will save, and one that it will change.
Enriching == {"kev", "epss", "ask", "save"}
Changing  == {"decide", "decided", "quarantine"}

\* What a job holds at each of its steps, where the scores of the CVEs in p are published.
Ready(w, p) ==
    /\ w.pc = "scan" => w.op \in {"admit", "rescan", "rematch"} /\ (w.op # "admit" => w.row \in Manifest)
    /\ w.pc \in Enriching \cup Changing => w.row \in Manifest
    /\ w.pc \in {"decide", "decided", "update"} => w.action \in ValidActions
    /\ w.pc \in {"decide", "update"} => w.by \in Maintainers
    /\ w.scores \subseteq p
    /\ w.pc \in Changing => w.row.scored \subseteq w.row.results \cap p
    /\ w.pc = "sla" => w.op = "sla"
AllReady == \A j \in Jobs : Ready(work[j], published)

\* A validated manifest lists nothing that the policy stops, but what rescans put there: the one that is
\* stored, and those that jobs hold, until a rescan has scanned.
Clean(r, put) == r.status = "validated" => ~Severe(r.results \ put)
HeldClean(w, put) ==
    /\ w.pc = "scan" /\ w.op # "admit" => Clean(w.row, put)
    /\ w.pc \in Enriching /\ w.op # "rescan" => Clean(w.row, put)
AllClean ==
    /\ row # None => Clean(row, rescanned)
    /\ \A j \in Jobs : HeldClean(work[j], rescanned)

Package ==
    /\ mix \in Mixes /\ db \in Generations /\ published \subseteq CveIds
    /\ kev \in Cache /\ epss \in Cache /\ epss.ids \subseteq published
    /\ row \in Manifest \cup {None}
    /\ row # None => row.scored \subseteq row.results \cap published
    /\ sbom \in BOOLEAN /\ rescanned \subseteq CveIds
    /\ work \in [Jobs -> Work]
    /\ AllReady /\ AllClean

\* What a job does to what is known of the package.
Knows ==
    /\ mix' = mix /\ db' \in Generations
    /\ published' \subseteq CveIds /\ published \subseteq published'
    /\ kev' \in Cache /\ epss' \in Cache /\ epss'.ids \subseteq published'
    /\ sbom' \in BOOLEAN /\ rescanned' \subseteq CveIds /\ rescanned \subseteq rescanned'
Writes ==
    \/ row' = row
    \/ row' \in Manifest /\ row'.scored \subseteq row'.results \cap published' /\ Clean(row', rescanned')
Holds(w) == w \in Work /\ Ready(w, published') /\ HeldClean(w, rescanned')
Worked(j) == Knows /\ Writes /\ work' = [work EXCEPT ![j] = work'[j]] /\ Holds(work'[j])

\* The less is listed, the less the policy stops.
LEMMA SevereGrows ==
    ASSUME NEW S, NEW T, S \subseteq T, Severe(S)
    PROVE  Severe(T)
  BY DEF Severe, Asks

LEMMA StaysClean ==
    ASSUME NEW r, NEW put, NEW more, put \subseteq more, Clean(r, put)
    PROVE  Clean(r, more)
  <1>1. r.results \ more \subseteq r.results \ put
    OBVIOUS
  <1> QED
    BY <1>1, SevereGrows DEF Clean

\* What a step of a job leaves of all the others.
LEMMA WorkedKeeps ==
    ASSUME Package, NEW j \in Jobs, Worked(j)
    PROVE  Package'
  <1>1. DOMAIN work = Jobs /\ work' = [work EXCEPT ![j] = work'[j]] /\ Holds(work'[j])
    BY DEF Package, Worked
  <1>2. published \subseteq published' /\ rescanned \subseteq rescanned'
    BY DEF Worked, Knows
  <1>3. ASSUME NEW i \in Jobs PROVE Holds(work'[i])
    <2>1. CASE i = j
      BY <1>1, <2>1
    <2>2. CASE i # j
      <3>1. work'[i] = work[i]
        BY <1>1, <2>2
      <3>2. work[i] \in Work /\ Ready(work[i], published) /\ HeldClean(work[i], rescanned)
        BY DEF Package, AllReady, AllClean
      <3>3. Ready(work[i], published')
        BY <1>2, <3>2 DEF Ready
      <3>4. HeldClean(work[i], rescanned')
        BY <1>2, <3>2, StaysClean DEF HeldClean
      <3> QED
        BY <3>1, <3>2, <3>3, <3>4 DEF Holds
    <2> QED
      BY <2>1, <2>2
  <1>4. work' \in [Jobs -> Work] /\ AllReady' /\ \A i \in Jobs : HeldClean(work'[i], rescanned')
    <2>1. work' \in [Jobs -> Work]
      BY <1>1, <1>3 DEF Holds
    <2> QED
      BY <1>3, <2>1 DEF Holds, AllReady
  <1>5. /\ row' \in Manifest \cup {None}
        /\ row' # None => row'.scored \subseteq row'.results \cap published' /\ Clean(row', rescanned')
    <2>1. CASE row' = row
      <3>1. row # None => Clean(row, rescanned')
        BY <1>2, StaysClean DEF Package, AllClean
      <3> QED
        BY <1>2, <2>1, <3>1 DEF Package
    <2>2. CASE row' # row
      BY <2>2 DEF Worked, Writes
    <2> QED
      BY <2>1, <2>2
  <1> QED
    BY <1>4, <1>5 DEF Package, AllClean, Worked, Knows

\* A step that leaves the package as it is, and what the job becomes.
LEMMA Untouched ==
    ASSUME Package, UNCHANGED <<mix, feeds, row, sbom, rescanned>>
    PROVE  Knows /\ Writes
  BY DEF Package, Knows, Writes, feeds

LEMMA JobKeeps ==
    ASSUME Package, NEW j \in Jobs, Knows, Writes, NEW w, work' = [work EXCEPT ![j] = w], Holds(w)
    PROVE  Worked(j) /\ work'[j] = w
  <1>1. work'[j] = w
    BY DEF Package
  <1> QED
    BY <1>1 DEF Worked

\* The end and the start of a job.
LEMMA IdleIs == Idle \in Work /\ Idle.pc = "idle" /\ Idle.scores = {} /\ Holds(Idle)
  <1>1. 0 \in 0 .. MaxIds
    BY DecisionsAssumption
  <1>2. Idle \in Work
    BY <1>1 DEF Idle, Work
  <1>3. Idle.pc = "idle" /\ Idle.scores = {}
    BY DEF Idle
  <1> QED
    BY <1>2, <1>3 DEF Holds, Ready, HeldClean, Enriching, Changing

LEMMA ReturnKeeps ==
    ASSUME Package, NEW j \in Jobs, Knows, Writes, Return(j)
    PROVE  Worked(j) /\ work'[j].pc = "idle"
  <1>1. Worked(j) /\ work'[j] = Idle
    BY IdleIs, JobKeeps DEF Return
  <1> QED
    BY <1>1, IdleIs

LEMMA BeginKeeps ==
    ASSUME Package, NEW j \in Jobs, NEW op, NEW pc, NEW r, Begin(j, op, pc, r),
           op \in {"admit", "rescan", "rematch", "reenrich", "sync", "grype", "refresh", "quarantine", "resolve"},
           pc \in {"scan", "kev", "grype", "refresh_kev", "quarantine", "resolve"},
           \/ row # None /\ r = row
           \/ r = None /\ pc \in {"grype", "refresh_kev", "resolve"}
           \/ r = None /\ pc = "scan" /\ op = "admit",
           pc = "scan" => op \in {"admit", "rescan", "rematch"}
    PROVE  Worked(j) /\ work[j].pc = "idle" /\ work'[j].pc = pc
  <1> DEFINE w == [Idle EXCEPT !.op = op, !.pc = pc, !.row = r]
  <1>1. work' = [work EXCEPT ![j] = w] /\ work[j].pc = "idle" /\ UNCHANGED <<mix, feeds, row, sbom, rescanned>>
    BY DEF Begin, At
  <1>2. r \in Manifest \cup {None}
    BY DEF Package
  <1>3. w \in Work /\ w.op = op /\ w.pc = pc /\ w.row = r /\ w.scores = {}
    <2>1. Idle \in Work /\ Idle.scores = {}
      BY IdleIs DEF Idle
    <2>2. w = [Idle EXCEPT !.op = op, !.pc = pc, !.row = r]
      OBVIOUS
    <2>3. op \in Ops /\ pc \in Steps
      BY DEF Ops, Steps
    <2> HIDE DEF w
    <2> QED
      BY <1>2, <2>1, <2>2, <2>3 DEF Work, Ops, Steps
  <1> HIDE DEF w
  <1>4. r = row => /\ row # None => row \in Manifest /\ row.scored \subseteq row.results \cap published
                   /\ row # None => Clean(row, rescanned)
    BY DEF Package, AllClean
  <1>5. Ready(w, published)
    BY <1>3, <1>4 DEF Ready, Enriching, Changing
  <1>6. HeldClean(w, rescanned)
    BY <1>3, <1>4 DEF HeldClean, Enriching
  <1>7. Holds(w)
    BY <1>1, <1>3, <1>5, <1>6 DEF Holds, feeds
  <1> QED
    BY <1>1, <1>3, <1>7, Untouched, JobKeeps

LEMMA StartKeeps ==
    ASSUME Package, NEW j \in Jobs, Start(j)
    PROVE  Worked(j) /\ work[j].pc = "idle" /\ work'[j].pc \notin {"decide", "sla"}
  <1>1. Results # {} => row # None
    BY DEF Results
  <1>2. CASE BeginAdmission(j)
    BY <1>2, BeginKeeps DEF BeginAdmission
  <1>3. CASE BeginRescan(j)
    BY <1>3, BeginKeeps DEF BeginRescan
  <1>4. CASE BeginRematch(j)
    BY <1>4, BeginKeeps DEF BeginRematch, Eligible
  <1>5. CASE BeginReenrich(j)
    BY <1>1, <1>5, BeginKeeps DEF BeginReenrich
  <1>6. CASE BeginSync(j) \/ BeginGrype(j) \/ BeginRefresh(j)
    BY <1>6, BeginKeeps DEF BeginSync, BeginGrype, BeginRefresh
  <1> QED
    BY <1>2, <1>3, <1>4, <1>5, <1>6 DEF Start

--------------------------------------------------------------------------------
\* The scans.
LEMMA FoundIs == Package => Found[db] \in SUBSET CveIds
  BY VulnerabilitiesAssumption DEF Package

LEMMA EnrichKeeps ==
    ASSUME Package, NEW j \in Jobs, NEW r \in Manifest, Enrich(j, r), Knows, Writes,
           work[j].op # "rescan" => Clean(r, rescanned')
    PROVE  Worked(j) /\ work'[j].pc \in Enriching
  <1> DEFINE pc == IF r.results = {} THEN "save" ELSE "kev"
             w  == [work[j] EXCEPT !.row = r, !.pc = pc]
  <1>1. work \in [Jobs -> Work] /\ work[j].scores \subseteq published
    BY DEF Package, AllReady, Ready
  <1>2. work' = [work EXCEPT ![j] = w]
    BY <1>1 DEF Enrich
  <1>3. pc \in Enriching /\ pc \in Steps
    BY DEF Enriching, Steps
  <1>4. w = [work[j] EXCEPT !.row = r, !.pc = pc]
    OBVIOUS
  <1> HIDE DEF w, pc
  <1>5. w \in Work /\ w.row = r /\ w.pc = pc /\ w.op = work[j].op /\ w.scores = work[j].scores
    <2>1. work[j] \in Work
      BY <1>1
    <2>2. r \in Manifest \cup {None}
      OBVIOUS
    <2> QED
      BY <1>3, <1>4, <2>1, <2>2 DEF Work, Steps
  <1>6. Ready(w, published')
    BY <1>1, <1>3, <1>5 DEF Ready, Enriching, Changing, Knows
  <1>7. HeldClean(w, rescanned')
    BY <1>3, <1>5 DEF HeldClean, Enriching
  <1>8. Holds(w)
    BY <1>5, <1>6, <1>7 DEF Holds
  <1> QED
    BY <1>2, <1>3, <1>5, <1>8, JobKeeps

\* What a scan without rows to ask for leaves.
LEMMA ScannedIs ==
    ASSUME NEW status \in Statuses, NEW cves \in SUBSET CveIds
    PROVE  /\ Scanned(status, cves) \in Manifest /\ Unscanned(status) \in Manifest
           /\ Scanned(status, cves).status = status /\ Scanned(status, cves).results = cves
           /\ Unscanned(status).results = {} /\ Unscanned(status).status = status
           /\ Scanned(status, cves).scored = {} /\ Unscanned(status).scored = {}
  BY DEF Scanned, Unscanned, Manifest

LEMMA AdmitKeeps ==
    ASSUME Package, NEW j \in Jobs, Admit(j)
    PROVE  Worked(j) /\ work'[j].pc \in Enriching \cup {"idle"}
  <1> DEFINE cves == Found[db]
             status == IF Asks("review", cves) THEN "pending_review" ELSE "validated"
  <1>1. Knows /\ Writes /\ UNCHANGED rescanned
    BY DEF Admit, Package, Knows, Writes, feeds
  <1>2. cves \in SUBSET CveIds /\ status \in Statuses /\ "validated" \in Statuses
    BY FoundIs DEF Statuses
  <1>3. CASE Return(j)
    BY <1>1, <1>3, ReturnKeeps
  <1>4. CASE Enrich(j, Unscanned("validated"))
    <2>1. Unscanned("validated") \in Manifest /\ Unscanned("validated").results = {}
      BY <1>2, ScannedIs
    <2>2. Clean(Unscanned("validated"), rescanned')
      BY <2>1 DEF Clean, Severe, Asks
    <2> QED
      BY <1>1, <1>4, <2>1, <2>2, EnrichKeeps
  <1>5. CASE ~Asks("block", cves) /\ Enrich(j, Scanned(status, cves))
    <2> DEFINE r == Scanned(status, cves)
    <2>1. r \in Manifest /\ r.status = status /\ r.results = cves
      BY <1>2, ScannedIs
    <2>2. r.status = "validated" => ~Severe(cves)
      BY <1>5, <2>1 DEF Severe
    <2>3. Enrich(j, r)
      BY <1>5
    <2> HIDE DEF r, cves, status
    <2>4. Clean(r, rescanned')
      <3>1. cves \ rescanned' \subseteq cves
        OBVIOUS
      <3> QED
        BY <2>1, <2>2, <3>1, SevereGrows DEF Clean
    <2> QED
      BY <1>1, <2>1, <2>3, <2>4, EnrichKeeps
  <1> QED
    BY <1>3, <1>4, <1>5 DEF Admit

LEMMA RescanKeeps ==
    ASSUME Package, NEW j \in Jobs, Rescan(j)
    PROVE  Worked(j) /\ work'[j].pc \in Enriching \cup {"idle"}
  <1>1. db' \in Generations
    BY DEF Rescan, UpdateGrypeDb
  <1>2. Knows /\ Writes
    BY <1>1 DEF Rescan, Package, Knows, Writes
  <1>3. CASE Return(j)
    BY <1>2, <1>3, ReturnKeeps
  <1>4. CASE Enrich(j, [work[j].row EXCEPT !.results = Found[db']])
    <2> DEFINE r == [work[j].row EXCEPT !.results = Found[db']]
    <2>1. work[j].row \in Manifest /\ work[j].op = "rescan"
      BY DEF Rescan, At, Package, AllReady, Ready
    <2>2. Found[db'] \in SUBSET CveIds
      BY <1>1, VulnerabilitiesAssumption
    <2>3. r \in Manifest
      BY <2>1, <2>2 DEF Manifest
    <2>4. Enrich(j, r)
      BY <1>4
    <2> HIDE DEF r
    <2> QED
      BY <1>2, <2>1, <2>3, <2>4, EnrichKeeps
  <1> QED
    BY <1>3, <1>4 DEF Rescan

\* The policy is asked about what is new, and has been asked about the rest.
LEMMA RematchKeeps ==
    ASSUME Package, NEW j \in Jobs, Rematch(j)
    PROVE  Worked(j) /\ work'[j].pc \in Enriching \cup {"idle"}
  <1>1. Knows /\ Writes /\ UNCHANGED rescanned
    BY Untouched DEF Rematch
  <1>2. CASE Return(j)
    BY <1>1, <1>2, ReturnKeeps
  <1>3. CASE Enrich(j, [work[j].row EXCEPT !.results = Found[db], !.status = MatchedStatus(j)])
    <2> DEFINE old == work[j].row
               r == [old EXCEPT !.results = Found[db], !.status = MatchedStatus(j)]
    <2>1. old \in Manifest /\ Clean(old, rescanned)
      BY DEF Rematch, At, Package, AllReady, Ready, AllClean, HeldClean
    <2>2. MatchedStatus(j) \in Statuses
      BY <2>1 DEF MatchedStatus, Manifest, Statuses
    <2>3. r \in Manifest /\ r.results = Found[db] /\ r.status = MatchedStatus(j)
      BY <2>1, <2>2, FoundIs DEF Manifest
    <2>4. Clean(r, rescanned)
      <3> SUFFICES ASSUME r.status = "validated", Severe(r.results \ rescanned) PROVE FALSE
        BY DEF Clean
      <3>1. ~Severe(Found[db] \ old.results) /\ old.status = "validated"
        BY <2>3 DEF MatchedStatus, NewlyAppeared
      <3>2. ~Severe(old.results \ rescanned)
        BY <2>1, <3>1 DEF Clean
      <3>3. PICK c \in Found[db] \ rescanned : CvePolicy[SeverityOf[c]] \in {"block", "review"}
        BY <2>3 DEF Severe, Asks
      <3> QED
        BY <3>1, <3>2, <3>3 DEF Severe, Asks
    <2>5. Enrich(j, r)
      BY <1>3
    <2> HIDE DEF r
    <2> QED
      BY <1>1, <2>3, <2>4, <2>5, EnrichKeeps
  <1> QED
    BY <1>2, <1>3 DEF Rematch

--------------------------------------------------------------------------------
\* The enrichment: the manifest that the job holds stays what it is until it is saved.
LEMMA EditKeeps ==
    ASSUME Package, NEW j \in Jobs, Knows, Writes, NEW w \in Work, work' = [work EXCEPT ![j] = w],
           w.op = work[j].op, w.row = work[j].row, w.scores \subseteq published',
           work[j].pc \in Enriching, w.pc \in Enriching
    PROVE  Worked(j) /\ work'[j].pc \in Enriching
  <1>1. Ready(work[j], published) /\ HeldClean(work[j], rescanned) /\ rescanned \subseteq rescanned'
    BY DEF Package, AllReady, AllClean, Knows
  <1>2. Ready(w, published')
    BY <1>1 DEF Ready, Enriching, Changing
  <1>3. HeldClean(w, rescanned')
    BY <1>1, StaysClean DEF HeldClean, Enriching
  <1> QED
    BY <1>2, <1>3, JobKeeps DEF Holds

LEMMA WorkIs ==
    ASSUME Package, NEW j \in Jobs
    PROVE  work[j] \in Work /\ Ready(work[j], published) /\ HeldClean(work[j], rescanned)
  BY DEF Package, AllReady, AllClean

LEMMA FilledIs ==
    ASSUME NEW cves \in SUBSET CveIds
    PROVE  [ids |-> cves, fresh |-> TRUE] \in Cache /\ [ids |-> cves, fresh |-> TRUE].ids = cves
  BY DEF Cache

LEMMA RefreshKevIs ==
    ASSUME Package, UNCHANGED kev \/ RefreshKev
    PROVE  kev' \in Cache /\ kev'.ids \in SUBSET CveIds
  <1>1. Exploited \in SUBSET CveIds
    BY VulnerabilitiesAssumption
  <1>2. kev' = kev \/ kev' = [ids |-> Exploited, fresh |-> TRUE]
    BY DEF RefreshKev
  <1>3. kev' \in Cache
    BY <1>1, <1>2, FilledIs DEF Package
  <1> QED
    BY <1>3 DEF Cache

LEMMA GetKevSetKeeps ==
    ASSUME Package, NEW j \in Jobs, GetKevSet(j)
    PROVE  Worked(j) /\ work'[j].pc \in Enriching
  <1> DEFINE w == [work[j] EXCEPT !.kev = kev'.ids, !.pc = "epss"]
  <1>1. kev' \in Cache /\ kev'.ids \in SUBSET CveIds
    BY RefreshKevIs DEF GetKevSet
  <1>2. Knows /\ Writes
    BY <1>1 DEF GetKevSet, Package, Knows, Writes
  <1>3. work' = [work EXCEPT ![j] = w] /\ work[j].pc \in Enriching /\ published' = published
    BY DEF GetKevSet, At, Enriching, Package
  <1>4. w \in Work /\ w.op = work[j].op /\ w.row = work[j].row /\ w.scores = work[j].scores /\ w.pc = "epss"
    <2>1. "epss" \in Steps
      BY DEF Steps
    <2> QED
      BY <1>1, <2>1, WorkIs DEF Work, Steps
  <1>5. w.scores \subseteq published' /\ w.pc \in Enriching
    BY <1>3, <1>4, WorkIs DEF Ready, Enriching
  <1> HIDE DEF w
  <1> QED
    BY <1>2, <1>3, <1>4, <1>5, EditKeeps

LEMMA LoadEpssCacheKeeps ==
    ASSUME Package, NEW j \in Jobs, LoadEpssCache(j)
    PROVE  Worked(j) /\ work'[j].pc \in Enriching
  <1> DEFINE known == IF epss.fresh THEN epss.ids ELSE {}
             pc == IF work[j].row.results \subseteq known THEN "save" ELSE "ask"
             asked == work[j].row.results \ known
             w == [work[j] EXCEPT !.scores = known, !.ids = asked, !.pc = pc]
  <1>1. Knows /\ Writes
    BY Untouched DEF LoadEpssCache
  <1>2. work' = [work EXCEPT ![j] = w] /\ work[j].pc \in Enriching /\ published' = published
    BY DEF LoadEpssCache, At, Enriching, Package, feeds
  <1>3. known \in SUBSET CveIds /\ known \subseteq published
    BY DEF Package, Cache
  <1>4. asked \in SUBSET CveIds
    BY <1>2, WorkIs DEF Ready, Enriching, Changing, Manifest
  <1>5. pc \in Enriching /\ pc \in Steps
    BY DEF Enriching, Steps
  <1> HIDE DEF known, pc, asked
  <1>6. w = [work[j] EXCEPT !.scores = known, !.ids = asked, !.pc = pc]
    OBVIOUS
  <1> HIDE DEF w
  <1>7. w \in Work /\ w.op = work[j].op /\ w.row = work[j].row /\ w.scores = known /\ w.pc = pc
    <2>1. work[j] \in Work
      BY WorkIs
    <2> QED
      BY <1>3, <1>4, <1>5, <1>6, <2>1 DEF Work, Steps
  <1> QED
    BY <1>1, <1>2, <1>3, <1>5, <1>7, EditKeeps

LEMMA AnsweredKeeps ==
    ASSUME Package, NEW j \in Jobs, Answered(j)
    PROVE  Worked(j) /\ work'[j].pc \in Enriching
  <1> DEFINE scores == work[j].scores \cup (work[j].ids \cap published)
             w == [work[j] EXCEPT !.scores = scores, !.ids = {}, !.pc = "save"]
  <1>1. scores \in SUBSET CveIds /\ scores \subseteq published /\ {} \in SUBSET CveIds
    BY WorkIs DEF Ready, Package
  <1>2. epss' = [ids |-> scores, fresh |-> TRUE] /\ work' = [work EXCEPT ![j] = w]
    BY DEF Answered, Package
  <1>3. work[j].pc \in Enriching /\ published' = published
    BY DEF Answered, At, Enriching
  <1> HIDE DEF scores
  <1>4. epss' \in Cache /\ epss'.ids \subseteq published'
    BY <1>1, <1>2, <1>3 DEF Cache
  <1>5. Knows /\ Writes
    BY <1>4 DEF Answered, Package, Knows, Writes
  <1>6. "save" \in Steps /\ "save" \in Enriching
    BY DEF Steps, Enriching
  <1>7. w = [work[j] EXCEPT !.scores = scores, !.ids = {}, !.pc = "save"] /\ work[j] \in Work
    BY WorkIs
  <1> HIDE DEF w
  <1>8. w \in Work /\ w.op = work[j].op /\ w.row = work[j].row /\ w.scores = scores /\ w.pc = "save"
    BY <1>1, <1>6, <1>7 DEF Work, Steps
  <1> QED
    BY <1>1, <1>2, <1>3, <1>5, <1>6, <1>8, EditKeeps

LEMMA UnansweredKeeps ==
    ASSUME Package, NEW j \in Jobs, Unanswered(j)
    PROVE  Worked(j) /\ work'[j].pc \in Enriching
  <1>1. PICK some \in SUBSET (work[j].ids \cap published) :
          work' = [work EXCEPT ![j].scores = work[j].scores \cup some, ![j].ids = {}, ![j].pc = "save"]
    BY DEF Unanswered
  <1> DEFINE scores == work[j].scores \cup some
             w == [work[j] EXCEPT !.scores = scores, !.ids = {}, !.pc = "save"]
  <1>2. scores \in SUBSET CveIds /\ scores \subseteq published /\ {} \in SUBSET CveIds
    BY WorkIs DEF Ready, Package
  <1>3. work' = [work EXCEPT ![j] = w]
    BY <1>1 DEF Package
  <1>4. work[j].pc \in Enriching /\ published' = published
    BY DEF Unanswered, At, Enriching, feeds
  <1> HIDE DEF scores
  <1>5. Knows /\ Writes
    BY Untouched DEF Unanswered
  <1>6. "save" \in Steps /\ "save" \in Enriching
    BY DEF Steps, Enriching
  <1>7. w = [work[j] EXCEPT !.scores = scores, !.ids = {}, !.pc = "save"] /\ work[j] \in Work
    BY WorkIs
  <1> HIDE DEF w
  <1>8. w \in Work /\ w.op = work[j].op /\ w.row = work[j].row /\ w.scores = scores /\ w.pc = "save"
    BY <1>2, <1>6, <1>7 DEF Work, Steps
  <1> QED
    BY <1>2, <1>3, <1>4, <1>5, <1>6, <1>8, EditKeeps

\* What a rescan saves counts as rescanned; what any other job saves was clean.
LEMMA SaveKeeps ==
    ASSUME Package, NEW j \in Jobs, Save(j)
    PROVE  Worked(j) /\ work'[j].pc = "idle"
  <1> DEFINE r == work[j].row
  <1>1. work[j].pc = "save" /\ row' = Enriched(j) /\ UNCHANGED <<mix, feeds, sbom>> /\ Return(j)
    BY DEF Save, At
  <1>2. r \in Manifest /\ work[j].scores \subseteq published
    BY <1>1, WorkIs DEF Ready, Enriching, Changing
  <1>3. /\ row' \in Manifest /\ row'.results = r.results /\ row'.status = r.status
        /\ row'.scored = r.results \cap work[j].scores
    <2>1. row' = [r EXCEPT !.flagged = r.results \cap work[j].kev, !.scored = r.results \cap work[j].scores]
      BY <1>1 DEF Enriched
    <2>2. r.results \cap work[j].kev \in SUBSET CveIds /\ r.results \cap work[j].scores \in SUBSET CveIds
      BY <1>2 DEF Manifest
    <2> QED
      BY <1>2, <2>1, <2>2 DEF Manifest
  <1>4. rescanned' \subseteq CveIds /\ rescanned \subseteq rescanned'
    BY <1>2 DEF Save, Package, Manifest
  <1>5. Clean(row', rescanned')
    <2>1. CASE work[j].op = "rescan"
      <3>1. row'.results \ rescanned' = {}
        BY <1>3, <2>1 DEF Save
      <3> QED
        BY <3>1 DEF Clean, Severe, Asks
    <2>2. CASE work[j].op # "rescan"
      <3>1. Clean(r, rescanned')
        BY <1>1, <1>4, <2>2, WorkIs, StaysClean DEF HeldClean, Enriching
      <3> QED
        BY <1>3, <3>1 DEF Clean
    <2> QED
      BY <2>1, <2>2
  <1>6. Knows
    BY <1>1, <1>4 DEF Package, Knows, feeds
  <1>7. Writes
    BY <1>1, <1>2, <1>3, <1>5 DEF Writes, feeds
  <1> QED
    BY <1>1, <1>6, <1>7, ReturnKeeps

--------------------------------------------------------------------------------
\* The synchronisation.
LEMMA GoKeeps ==
    ASSUME Package, NEW j \in Jobs, Knows, Writes, NEW pc, Go(j, pc),
           pc \in {"refresh_kev", "refresh_epss", "reenrich"}
    PROVE  Worked(j) /\ work'[j].pc = pc
  <1> DEFINE w == [work[j] EXCEPT !.pc = pc]
  <1>1. work' = [work EXCEPT ![j] = w]
    BY DEF Go, Package
  <1>2. pc \in Steps
    BY DEF Steps
  <1>3. w \in Work /\ w.scores = work[j].scores /\ w.pc = pc
    BY <1>2, WorkIs DEF Work, Steps
  <1> HIDE DEF w
  <1>4. Holds(w)
    BY <1>3, WorkIs DEF Holds, Ready, HeldClean, Enriching, Changing, Knows
  <1> QED
    BY <1>1, <1>3, <1>4, JobKeeps

LEMMA SyncKeeps ==
    ASSUME Package, NEW j \in Jobs, SyncGrype(j) \/ SyncKev(j) \/ SyncEpss(j)
    PROVE  Worked(j) /\ work'[j].pc \in {"idle", "refresh_kev", "refresh_epss", "reenrich"}
  <1>1. Writes
    BY DEF SyncGrype, SyncKev, SyncEpss, Writes
  <1>2. CASE SyncGrype(j)
    <2>1. Knows
      BY <1>2 DEF SyncGrype, UpdateGrypeDb, Package, Knows
    <2> QED
      BY <1>1, <1>2, <2>1, GoKeeps, ReturnKeeps DEF SyncGrype
  <1>3. CASE SyncKev(j)
    <2>1. kev' \in Cache
      BY <1>3, RefreshKevIs DEF SyncKev
    <2>2. Knows
      BY <1>3, <2>1 DEF SyncKev, Package, Knows
    <2> QED
      BY <1>1, <1>3, <2>2, GoKeeps DEF SyncKev
  <1>4. CASE SyncEpss(j)
    <2>1. epss' \in Cache /\ epss'.ids \subseteq published
      <3>1. CASE epss' = epss
        BY <3>1 DEF Package
      <3>2. ASSUME NEW top \in SUBSET published, epss' = [ids |-> top, fresh |-> TRUE]
            PROVE  epss' \in Cache /\ epss'.ids \subseteq published
        BY <3>2, FilledIs DEF Package
      <3> QED
        BY <1>4, <3>1, <3>2 DEF SyncEpss, RefreshEpssBulk
    <2>2. Knows
      BY <1>4, <2>1 DEF SyncEpss, Package, Knows
    <2> QED
      BY <1>1, <1>4, <2>2, GoKeeps, ReturnKeeps DEF SyncEpss
  <1> QED
    BY <1>2, <1>3, <1>4

LEMMA SyncReenrichKeeps ==
    ASSUME Package, NEW j \in Jobs, SyncReenrich(j)
    PROVE  Worked(j) /\ work'[j].pc \in Enriching \cup {"idle"}
  <1>1. Knows /\ Writes
    BY Untouched DEF SyncReenrich
  <1>2. CASE Results = {}
    BY <1>1, <1>2, ReturnKeeps DEF SyncReenrich
  <1>3. CASE Results # {}
    <2> DEFINE w == [work[j] EXCEPT !.row = row, !.pc = "kev"]
    <2>1. row \in Manifest /\ Clean(row, rescanned)
      BY <1>3 DEF Results, Package, AllClean
    <2>2. work' = [work EXCEPT ![j] = w] /\ published' = published /\ rescanned' = rescanned
      BY <1>3 DEF SyncReenrich, Package, feeds
    <2>3. "kev" \in Steps /\ row \in Manifest \cup {None}
      BY <2>1 DEF Steps
    <2>4. w \in Work /\ w.row = row /\ w.pc = "kev" /\ w.scores = work[j].scores
      BY <2>3, WorkIs DEF Work, Steps
    <2> HIDE DEF w
    <2>5. Holds(w)
      BY <2>1, <2>2, <2>4, WorkIs DEF Holds, Ready, HeldClean, Enriching, Changing
    <2> QED
      BY <1>1, <2>2, <2>4, <2>5, JobKeeps DEF Enriching
  <1> QED
    BY <1>2, <1>3

LEMMA ProceedKeeps ==
    ASSUME Package, NEW j \in Jobs, Proceed(j)
    PROVE  Worked(j) /\ work[j].pc # "decide" /\ work'[j].pc \notin {"decide", "sla"}
  <1>1. work[j].pc \in {"scan", "kev", "epss", "ask", "save", "grype", "refresh_kev", "refresh_epss", "reenrich"}
    BY DEF Proceed, Admit, Rescan, Rematch, GetKevSet, LoadEpssCache, Answered, Unanswered, Save,
           SyncGrype, SyncKev, SyncEpss, SyncReenrich, At
  <1>2. Worked(j) /\ work'[j].pc \in Enriching \cup {"idle", "refresh_kev", "refresh_epss", "reenrich"}
    BY AdmitKeeps, RescanKeeps, RematchKeeps, GetKevSetKeeps, LoadEpssCacheKeeps, AnsweredKeeps,
       UnansweredKeeps, SaveKeeps, SyncKeeps, SyncReenrichKeeps DEF Proceed
  <1> QED
    BY <1>1, <1>2 DEF Enriching

\* What FIRST.org publishes and what grows stale.
LEMMA FeedsKeep ==
    ASSUME Package, Publish \/ Age
    PROVE  Package' /\ UNCHANGED work
  <1>1. published' \subseteq CveIds /\ published \subseteq published' /\ epss'.ids = epss.ids
    BY VulnerabilitiesAssumption DEF Publish, Age, Package, Cache
  <1>2. kev' \in Cache /\ epss' \in Cache
    BY DEF Publish, Age, Package, Cache
  <1>3. UNCHANGED <<mix, db, row, sbom, rescanned, work>>
    BY DEF Publish, Age
  <1>4. AllReady'
    BY <1>1, <1>3 DEF Package, AllReady, Ready
  <1>5. AllClean'
    BY <1>3 DEF Package, AllClean
  <1> QED
    BY <1>1, <1>2, <1>3, <1>4, <1>5 DEF Package

--------------------------------------------------------------------------------
(***************************************************************************)
(* The decisions.                                                          *)
(***************************************************************************)

Recorded ==
    /\ now \in 0 .. MaxTime /\ checked \in BOOLEAN
    /\ decision \in Decision \cup {None} /\ ids \in 0 .. MaxIds
    /\ announced \in BOOLEAN

\* Each decision about to be recorded may take an identifier.
Deciding(w) == {i \in Jobs : w[i].pc = "decide"}
Counted     == ids + Cardinality(Deciding(work)) <= MaxIds

\* A decision whose expiry is to be announced, and the last half-day with a check before it.
Due(dec) == dec # None /\ dec.action # "reject" /\ HasSla(dec) /\ dec.long
Eve(dec) == dec.expires - 2 - (dec.expires % 2)

\* A check at work read the decision in this half-day: one that is soon to expire was there already.
Read(w, dec, time) ==
    w.pc = "sla" /\ Due(dec) /\ dec.expires <= time + 3 =>
        w.rec # None /\ w.rec.action = dec.action /\ w.rec.expires = dec.expires
ReadToday == \A j \in Jobs : Read(work[j], decision, now)

\* From the check of that half-day on, it was announced.
ToldInTime ==
    Due(decision) /\ (now > Eve(decision) \/ (now = Eve(decision) /\ checked)) => announced

Decided == Package /\ Recorded /\ Counted
Inv     == Decided /\ ReadToday /\ ToldInTime

\* The longest term there is to choose.
LEMMA LongestIs ==
    \E d \in Terms : d \in Nat /\ \A e \in Terms : e <= d
  <1> DEFINE Longer(c) == {e \in Choices : e.days > c.days}
             T == {Cardinality(Longer(c)) : c \in Choices}
  <1>1. IsFiniteSet(Choices) /\ Choices # {} /\ \A c \in Choices : c.days \in Nat
    BY DecisionsAssumption
  <1>2. \A c \in Choices : IsFiniteSet(Longer(c)) /\ Cardinality(Longer(c)) \in Nat
    BY <1>1, FS_Subset, FS_CardinalityType
  <1>3. PICK c \in Choices : \A e \in Choices : Cardinality(Longer(c)) <= Cardinality(Longer(e))
    <2> HIDE DEF Longer
    <2>1. T \in SUBSET Nat /\ T # {} /\ \A e \in Choices : Cardinality(Longer(e)) \in T
      BY <1>1, <1>2
    <2>2. PICK n \in T : \A m \in T : ~(<<m, n>> \in OpToRel(<, Nat))
      <3> HIDE DEF T
      <3> QED
        BY <2>1, WFMin, NatLessThanWellFounded
    <2>3. \A m \in T : ~(m < n)
      <3> HIDE DEF T
      <3> QED
        BY <2>1, <2>2, Zenon DEF OpToRel
    <2>4. PICK c \in Choices : n = Cardinality(Longer(c))
      BY <2>2
    <2> HIDE DEF T
    <2>5. ASSUME NEW e \in Choices PROVE Cardinality(Longer(c)) <= Cardinality(Longer(e))
      BY <1>2, <2>1, <2>3, <2>4
    <2> QED
      BY <2>5
  <1>4. ASSUME NEW e \in Choices, e.days > c.days PROVE FALSE
    <2>1. Longer(e) \in SUBSET Longer(c) /\ e \in Longer(c) /\ e \notin Longer(e)
      BY <1>1, <1>4
    <2>2. IsFiniteSet(Longer(c)) /\ Cardinality(Longer(e)) <= Cardinality(Longer(c))
          /\ Longer(e) # Longer(c) /\ Cardinality(Longer(e)) # Cardinality(Longer(c))
      <3> HIDE DEF Longer
      <3> QED
        BY <1>2, <2>1, FS_Subset
    <2> HIDE DEF Longer
    <2> QED
      BY <1>2, <1>3, <2>2
  <1>5. \A e \in Choices : e.days <= c.days
    BY <1>1, <1>4
  <1> QED
    BY <1>1, <1>5 DEF Terms

LEMMA TimesIs ==
    /\ \A t \in Times : t \in Nat
    /\ \A time \in 0 .. MaxTime, d \in Terms : time + 2 * d \in Times
  <1> DEFINE longest == CHOOSE d \in Terms : \A e \in Terms : e <= d
  <1>1. longest \in Terms /\ longest \in Nat /\ \A e \in Terms : e <= longest
    <2>1. longest \in Terms /\ \A e \in Terms : e <= longest
      BY LongestIs
    <2>2. \A e \in Terms : e \in Nat
      BY DecisionsAssumption DEF Terms
    <2> HIDE DEF longest
    <2> QED
      BY <2>1, <2>2
  <1>2. \A e \in Terms : e \in Nat
    BY DecisionsAssumption DEF Terms
  <1>3. Times = 0 .. MaxTime + 2 * longest
    BY DEF Times
  <1> HIDE DEF longest
  <1> QED
    BY <1>1, <1>2, <1>3, DecisionsAssumption

LEMMA ExpiryIs ==
    ASSUME Recorded, NEW days \in Terms \cup {0}
    PROVE  /\ Expiry(days) \in Times \cup {None}
           /\ Expiry(days) # None => Expiry(days) = now + 2 * days
  <1>1. days \in Nat /\ (days > 0 => days \in Terms)
    BY DecisionsAssumption DEF Terms
  <1> QED
    BY <1>1, TimesIs DEF Expiry, Recorded

LEMMA AssignedIs ==
    ASSUME NEW r, NEW to \in AssignedTo(r)
    PROVE  to \in Assignees \cup {None}
  <1>1. \A sevs : AutoAssign(sevs) \in Assignees \cup {None}
    BY DEF AutoAssign, Assignees
  <1> QED
    BY <1>1 DEF AssignedTo, Assignees

\* Those about to decide are finitely many.
LEMMA DecidingIs ==
    ASSUME NEW w
    PROVE  IsFiniteSet(Deciding(w)) /\ Cardinality(Deciding(w)) \in Nat
  <1>1. Deciding(w) \in SUBSET Jobs
    BY DEF Deciding
  <1> QED
    BY <1>1, VulnerabilitiesAssumption, FS_Subset, FS_CardinalityType

LEMMA CountKeeps ==
    ASSUME Package, Recorded, Counted, NEW j \in Jobs, Worked(j), work'[j].pc # "decide", ids' = ids
    PROVE  Counted'
  <1>1. \A i \in Jobs : i # j => work'[i] = work[i]
    BY DEF Worked, Package
  <1>2. Deciding(work') \in SUBSET Deciding(work)
    BY <1>1 DEF Deciding
  <1>3. Cardinality(Deciding(work')) <= Cardinality(Deciding(work))
    BY <1>2, DecidingIs, FS_Subset
  <1>4. MaxIds \in Nat /\ Cardinality(Deciding(work')) \in Nat /\ Cardinality(Deciding(work)) \in Nat /\ ids \in Nat
    BY DecisionsAssumption, DecidingIs DEF Recorded
  <1> QED
    BY <1>3, <1>4 DEF Counted

\* What a step of a job does to the decision: it leaves what is to be announced and whether it was, or the
\* decision is a new one, and not to expire soon.
Same(d, e)  == d # None /\ e # None /\ d.action = e.action /\ d.expires = e.expires /\ d.long = e.long
Late(d)     == Due(d) => d.expires >= now + 4
Redecided   == Late(decision') \/ (Same(decision, decision') /\ announced' = announced)
Changed(j)  ==
    /\ Worked(j) /\ work'[j].pc # "sla"
    /\ Counted' /\ Recorded' /\ UNCHANGED <<now, checked>> /\ Redecided

LEMMA DueIs ==
    ASSUME NEW d \in Decision \cup {None}, Due(d)
    PROVE  d.expires \in Nat /\ d \in Decision
  BY TimesIs DEF Due, HasSla, Decision

LEMMA ChangedKeeps ==
    ASSUME Inv, NEW j \in Jobs, Changed(j)
    PROVE  Inv'
  <1>1. Package' /\ Counted' /\ Recorded'
    BY WorkedKeeps DEF Changed, Inv, Decided
  <1>2. now \in Nat /\ now' = now /\ checked' = checked /\ decision' \in Decision \cup {None}
    BY <1>1 DEF Changed, Inv, Decided, Recorded
  <1>3. \A i \in Jobs : work'[i].pc = "sla" => work'[i] = work[i]
    BY DEF Changed, Worked, Inv, Decided, Package
  <1>4. CASE Late(decision')
    <2>1. ASSUME Due(decision') PROVE decision'.expires \in Nat /\ decision'.expires >= now + 4
      BY <1>2, <1>4, <2>1, DueIs DEF Late
    <2>2. ReadToday'
      BY <1>2, <2>1 DEF ReadToday, Read
    <2>3. ToldInTime'
      BY <1>2, <2>1 DEF ToldInTime, Eve
    <2> QED
      BY <1>1, <2>2, <2>3 DEF Inv, Decided
  <1>5. CASE Same(decision, decision') /\ announced' = announced
    <2>1. Due(decision') => Due(decision)
      BY <1>5 DEF Same, Due, HasSla
    <2>2. ReadToday'
      BY <1>2, <1>3, <1>5, <2>1 DEF ReadToday, Read, Same, Inv
    <2>3. ToldInTime'
      BY <1>2, <1>5, <2>1 DEF ToldInTime, Eve, Same, Inv
    <2> QED
      BY <1>1, <2>2, <2>3 DEF Inv, Decided
  <1> QED
    BY <1>4, <1>5 DEF Changed, Redecided

LEMMA RecordStays ==
    ASSUME Inv, NEW j \in Jobs, Worked(j), work'[j].pc \notin {"decide", "sla"},
           UNCHANGED <<now, checked, record, announced>>
    PROVE  Inv'
  <1>1. Counted' /\ Recorded'
    BY CountKeeps DEF Inv, Decided, Recorded, record
  <1>2. Redecided
    BY DEF Redecided, Late, Due, Same, record
  <1> QED
    BY <1>1, <1>2, ChangedKeeps DEF Changed

LEMMA FeedsInv ==
    ASSUME Inv, Publish \/ Age, UNCHANGED <<now, checked, record, announced>>
    PROVE  Inv'
  <1>1. Package' /\ UNCHANGED work
    BY FeedsKeep DEF Inv, Decided
  <1> QED
    BY <1>1 DEF Inv, Decided, Recorded, Counted, ReadToday, ToldInTime, record

--------------------------------------------------------------------------------
\* What is decided: the choice of someone who may.
LEMMA ChoiceIs ==
    ASSUME NEW c \in Chosen
    PROVE  c.action \in ValidActions /\ c.days \in Terms \cup {0}
  BY DecisionsAssumption DEF Chosen, Terms

LEMMA RecIs ==
    ASSUME Recorded, decision # None
    PROVE  decision \in Decision /\ decision.id \in 1 .. MaxIds /\ decision.id \in 0 .. MaxIds
  BY DecisionsAssumption DEF Recorded, Decision

LEMMA BeginDecideKeeps ==
    ASSUME Inv, NEW j \in Jobs, BeginDecide(j)
    PROVE  Inv'
  <1>1. PICK by \in People : \E c \in Chosen :
          work' = [work EXCEPT ![j] = [Idle EXCEPT !.op = "decide", !.pc = "decide", !.row = row,
                                         !.by = by, !.action = c.action, !.days = c.days]]
    BY DEF BeginDecide
  <1>2. PICK c \in Chosen :
          work' = [work EXCEPT ![j] = [Idle EXCEPT !.op = "decide", !.pc = "decide", !.row = row,
                                         !.by = by, !.action = c.action, !.days = c.days]]
    BY <1>1
  <1> DEFINE w == [Idle EXCEPT !.op = "decide", !.pc = "decide", !.row = row,
                               !.by = by, !.action = c.action, !.days = c.days]
  <1>3. work' = [work EXCEPT ![j] = w] /\ w = [Idle EXCEPT !.op = "decide", !.pc = "decide", !.row = row,
                                                          !.by = by, !.action = c.action, !.days = c.days]
    BY <1>2
  <1> HIDE DEF w
  <1>4. /\ work[j].pc = "idle" /\ ids + Cardinality(Deciding(work)) < MaxIds
        /\ UNCHANGED <<mix, feeds, row, sbom, rescanned>> /\ UNCHANGED <<now, checked, record, announced>>
    BY DEF BeginDecide, At, Deciding
  <1>5. row \in Manifest /\ row.scored \subseteq row.results \cap published
    BY DEF BeginDecide, Inv, Decided, Package
  <1>6. by \in Maintainers /\ c.action \in ValidActions /\ c.days \in Terms \cup {0}
    BY ChoiceIs DEF People
  <1>7. Idle \in Work /\ Idle.scores = {} /\ "decide" \in Ops /\ "decide" \in Steps
    BY IdleIs DEF Ops, Steps
  <1>8. /\ w \in Work /\ w.op = "decide" /\ w.pc = "decide" /\ w.row = row /\ w.scores = {}
        /\ w.by = by /\ w.action = c.action
    BY <1>3, <1>5, <1>6, <1>7 DEF Work, Ops, Steps
  <1>9. Holds(w)
    BY <1>4, <1>5, <1>6, <1>8 DEF Holds, Ready, HeldClean, Enriching, Changing, feeds
  <1>10. Worked(j) /\ work'[j] = w
    BY <1>3, <1>4, <1>9, Untouched, JobKeeps DEF Inv, Decided
  <1>11. Counted'
    <2>1. \A i \in Jobs : work'[i].pc = "decide" <=> work[i].pc = "decide" \/ i = j
      BY <1>8, <1>10 DEF Worked, Inv, Decided, Package
    <2>2. Deciding(work') = Deciding(work) \cup {j} /\ j \notin Deciding(work)
      BY <1>4, <2>1 DEF Deciding
    <2>3. Cardinality(Deciding(work')) = Cardinality(Deciding(work)) + 1
      BY <2>2, DecidingIs, FS_AddElement
    <2> QED
      BY <1>4, <2>3, DecidingIs, DecisionsAssumption DEF Counted, Recorded, Inv, Decided, record
  <1>12. Recorded' /\ Redecided
    BY <1>4 DEF Inv, Decided, Recorded, Redecided, Late, Due, Same, record
  <1> QED
    BY <1>4, <1>8, <1>10, <1>11, <1>12, ChangedKeeps DEF Changed

\* A decision that is recorded, and the date at which it expires.
LEMMA LateIs ==
    ASSUME Recorded, NEW d, NEW days \in Terms \cup {0}, d.expires = Expiry(days), d.long = (days > 1)
    PROVE  Late(d)
  <1> SUFFICES ASSUME Due(d) PROVE d.expires >= now + 4
    BY DEF Late
  <1>1. days > 1 /\ d.expires # None
    BY DEF Due, HasSla
  <1>2. now \in Nat /\ days \in Nat
    BY DecisionsAssumption DEF Recorded, Terms
  <1> QED
    BY <1>1, <1>2, ExpiryIs

LEMMA SaveDecisionKeeps ==
    ASSUME Inv, NEW j \in Jobs, SaveDecision(j)
    PROVE  Inv'
  <1> DEFINE w  == [work[j] EXCEPT !.pc = "decided"]
             id == IF decision = None THEN ids' ELSE decision.id
  <1>1. /\ work[j].pc = "decide" /\ work' = [work EXCEPT ![j] = w]
        /\ UNCHANGED <<mix, feeds, row, sbom, rescanned>> /\ UNCHANGED <<now, checked>>
    BY DEF SaveDecision, At, Go, Inv, Decided, Package
  <1>2. Package /\ Recorded /\ Counted
    BY DEF Inv, Decided
  <1>3. /\ work[j] \in Work /\ Ready(work[j], published)
        /\ work[j].action \in ValidActions /\ work[j].by \in Maintainers /\ work[j].days \in Terms \cup {0}
    BY <1>1, <1>2, WorkIs DEF Ready, Work
  <1>4. w = [work[j] EXCEPT !.pc = "decided"] /\ "decided" \in Steps
    BY DEF Steps
  <1> HIDE DEF w
  <1>5. /\ w \in Work /\ w.pc = "decided" /\ w.row = work[j].row /\ w.scores = work[j].scores
        /\ w.action = work[j].action
    BY <1>3, <1>4 DEF Work, Steps
  <1>6. Holds(w)
    BY <1>1, <1>3, <1>5 DEF Holds, Ready, HeldClean, Enriching, Changing, feeds
  <1>7. Worked(j) /\ work'[j] = w
    BY <1>1, <1>2, <1>6, Untouched, JobKeeps
  <1>8. /\ Deciding(work') = Deciding(work) \ {j}
        /\ Cardinality(Deciding(work')) = Cardinality(Deciding(work)) - 1
        /\ Cardinality(Deciding(work)) \in Nat /\ Cardinality(Deciding(work')) \in Nat
    <2>1. \A i \in Jobs : work'[i].pc = "decide" <=> work[i].pc = "decide" /\ i # j
      BY <1>5, <1>7 DEF Worked, Inv, Decided, Package
    <2>2. Deciding(work') = Deciding(work) \ {j} /\ j \in Deciding(work)
      BY <1>1, <2>1 DEF Deciding
    <2> QED
      BY <2>2, DecidingIs, FS_RemoveElement
  <1>9. ids' = IF decision = None THEN ids + 1 ELSE ids
    BY DEF SaveDecision
  <1>10. ids' \in 0 .. MaxIds /\ (decision = None => ids' \in 1 .. MaxIds) /\ Counted'
    BY <1>2, <1>8, <1>9, DecisionsAssumption DEF Counted, Recorded
  <1>11. PICK to \in AssignedTo(work[j].row) :
           decision' = [id |-> id, action |-> work[j].action,
                        by |-> work[j].by, expires |-> Expiry(work[j].days), long |-> work[j].days > 1,
                        assigned |-> to, resolved |-> FALSE]
    BY DEF SaveDecision
  <1>12. id \in 1 .. MaxIds
    BY <1>2, <1>10, RecIs
  <1> HIDE DEF id
  <1>13. to \in Assignees \cup {None} /\ Expiry(work[j].days) \in Times \cup {None}
    BY <1>2, <1>3, AssignedIs, ExpiryIs
  <1>14. decision' \in Decision
    <2>1. (work[j].days > 1) \in BOOLEAN /\ FALSE \in BOOLEAN
      OBVIOUS
    <2> QED
      BY <1>3, <1>11, <1>12, <1>13, <2>1 DEF Decision
  <1>15. Recorded'
    BY <1>1, <1>2, <1>10, <1>14 DEF SaveDecision, Announced, Recorded
  <1>16. Late(decision')
    BY <1>2, <1>3, <1>11, LateIs
  <1> QED
    BY <1>1, <1>5, <1>7, <1>10, <1>15, <1>16, ChangedKeeps DEF Changed, Redecided

\* What a decision and a quarantine leave in the manifest is not validated.
LEMMA SettledKeeps ==
    ASSUME Inv, NEW j \in Jobs, NEW status \in Statuses \ {"validated"},
           work[j].pc \in {"decided", "quarantine"}, row' = [work[j].row EXCEPT !.status = status],
           Return(j), UNCHANGED <<mix, feeds, sbom, rescanned, now, checked, record, announced>>
    PROVE  Inv'
  <1>1. Package /\ Ready(work[j], published)
    BY WorkIs DEF Inv, Decided
  <1>2. work[j].row \in Manifest /\ work[j].row.scored \subseteq work[j].row.results \cap published
    BY <1>1 DEF Ready, Changing
  <1>3. /\ row' \in Manifest /\ row'.status = status
        /\ row'.scored = work[j].row.scored /\ row'.results = work[j].row.results
    BY <1>2 DEF Manifest
  <1>4. Writes
    BY <1>2, <1>3 DEF Writes, Clean, feeds
  <1>5. Knows
    BY <1>1 DEF Knows, Package, feeds
  <1> QED
    BY <1>1, <1>4, <1>5, ReturnKeeps, RecordStays

LEMMA ApplyDecisionKeeps ==
    ASSUME Inv, NEW j \in Jobs, ApplyDecision(j)
    PROVE  Inv'
  <1>1. work[j].pc = "decided" /\ Ready(work[j], published)
    BY WorkIs DEF ApplyDecision, At, Inv, Decided
  <1>2. ActionToStatus[work[j].action] \in Statuses \ {"validated"}
    BY <1>1 DEF Ready, ActionToStatus, ValidActions, Statuses
  <1> QED
    BY <1>1, <1>2, SettledKeeps DEF ApplyDecision

LEMMA QuarantineKeeps ==
    ASSUME Inv, NEW j \in Jobs, BeginQuarantine(j) \/ Quarantine(j)
    PROVE  Inv'
  <1>1. CASE BeginQuarantine(j)
    <2>1. Worked(j) /\ work'[j].pc = "quarantine"
      BY <1>1, BeginKeeps DEF BeginQuarantine, Inv, Decided
    <2> QED
      BY <1>1, <2>1, RecordStays DEF BeginQuarantine
  <1>2. CASE Quarantine(j)
    <2>1. "quarantined" \in Statuses \ {"validated"}
      BY DEF Statuses
    <2> QED
      BY <1>2, <2>1, SettledKeeps DEF Quarantine, At
  <1> QED
    BY <1>1, <1>2

--------------------------------------------------------------------------------
\* A job that starts without a manifest.
LEMMA LightKeeps ==
    ASSUME Inv, NEW j \in Jobs, NEW w \in Work, work' = [work EXCEPT ![j] = w],
           w.pc \in {"update", "delete"}, w.scores = {},
           w.pc = "update" => w.action \in ValidActions /\ w.by \in Maintainers,
           UNCHANGED <<mix, feeds, row, sbom, rescanned, now, checked, record, announced>>
    PROVE  Inv'
  <1>1. Holds(w)
    BY DEF Holds, Ready, HeldClean, Enriching, Changing
  <1>2. UNCHANGED <<mix, feeds, row, sbom, rescanned>>
    OBVIOUS
  <1>3. Worked(j) /\ work'[j] = w
    BY <1>1, <1>2, Untouched, JobKeeps DEF Inv, Decided
  <1> QED
    BY <1>3, RecordStays

LEMMA BeginChangeKeeps ==
    ASSUME Inv, NEW j \in Jobs, BeginChange(j)
    PROVE  Inv'
  <1>1. UNCHANGED <<mix, feeds, row, sbom, rescanned, now, checked, record, announced>>
    BY DEF BeginChange
  <1>2. ASSUME NEW by \in People, Owns(by), NEW c \in Chosen,
               work' = [work EXCEPT ![j] = [Idle EXCEPT !.op = "update", !.pc = "update", !.id = decision.id,
                                              !.by = by, !.action = c.action, !.days = c.days]]
        PROVE  Inv'
    <2> DEFINE w == [Idle EXCEPT !.op = "update", !.pc = "update", !.id = decision.id,
                                 !.by = by, !.action = c.action, !.days = c.days]
    <2>1. /\ work' = [work EXCEPT ![j] = w]
          /\ w = [Idle EXCEPT !.op = "update", !.pc = "update", !.id = decision.id,
                              !.by = by, !.action = c.action, !.days = c.days]
      BY <1>2
    <2> HIDE DEF w
    <2>2. decision.id \in 0 .. MaxIds
      BY <1>2, RecIs DEF Owns, Inv, Decided
    <2>3. by \in Maintainers /\ c.action \in ValidActions /\ c.days \in Terms \cup {0}
      BY <1>2, ChoiceIs DEF People
    <2>4. Idle \in Work /\ Idle.scores = {} /\ "update" \in Ops /\ "update" \in Steps
      BY IdleIs DEF Ops, Steps
    <2>5. w \in Work /\ w.pc = "update" /\ w.scores = {} /\ w.by = by /\ w.action = c.action
      BY <2>1, <2>2, <2>3, <2>4 DEF Work, Ops, Steps
    <2> QED
      BY <1>1, <2>1, <2>3, <2>5, LightKeeps
  <1>3. ASSUME NEW by \in People,
               work' = [work EXCEPT ![j] = [Idle EXCEPT !.op = "delete", !.pc = "delete", !.by = by]]
        PROVE  Inv'
    <2> DEFINE w == [Idle EXCEPT !.op = "delete", !.pc = "delete", !.by = by]
    <2>1. work' = [work EXCEPT ![j] = w] /\ w = [Idle EXCEPT !.op = "delete", !.pc = "delete", !.by = by]
      BY <1>3
    <2> HIDE DEF w
    <2>2. Idle \in Work /\ Idle.scores = {} /\ "delete" \in Ops /\ "delete" \in Steps /\ by \in Maintainers
      BY IdleIs DEF Ops, Steps, People
    <2>3. w \in Work /\ w.pc = "delete" /\ w.scores = {}
      BY <2>1, <2>2 DEF Work, Ops, Steps
    <2> QED
      BY <1>1, <2>1, <2>3, LightKeeps
  <1> QED
    BY <1>2, <1>3 DEF BeginChange

\* A job that ends and leaves the package as it is.
LEMMA EndKeeps ==
    ASSUME Inv, NEW j \in Jobs, Return(j), UNCHANGED <<mix, feeds, row, sbom, rescanned, now, checked, ids>>,
           Recorded', Redecided
    PROVE  Inv'
  <1>1. UNCHANGED <<mix, feeds, row, sbom, rescanned>>
    OBVIOUS
  <1>2. Worked(j) /\ work'[j].pc = "idle"
    BY <1>1, Untouched, ReturnKeeps DEF Inv, Decided
  <1>3. Counted'
    BY <1>2, CountKeeps DEF Inv, Decided
  <1> QED
    BY <1>2, <1>3, ChangedKeeps DEF Changed

LEMMA UpdateDecisionKeeps ==
    ASSUME Inv, NEW j \in Jobs, UpdateDecision(j)
    PROVE  Inv'
  <1>1. /\ work[j].pc = "update" /\ announced' = Announced(decision') /\ Return(j)
        /\ UNCHANGED <<mix, feeds, row, sbom, rescanned, now, checked, ids>>
    BY DEF UpdateDecision, At
  <1>2. Package /\ Recorded
    BY DEF Inv, Decided
  <1>3. /\ work[j].action \in ValidActions /\ work[j].by \in Maintainers
        /\ work[j].days \in Terms \cup {0}
    BY <1>1, <1>2, WorkIs DEF Ready, Work
  <1>4. announced' \in BOOLEAN
    BY <1>1 DEF Announced
  <1>5. CASE decision' = decision
    <2>1. Recorded'
      BY <1>1, <1>2, <1>4, <1>5 DEF Recorded
    <2>2. Redecided
      <3>1. CASE decision = None
        BY <1>5, <3>1 DEF Redecided, Late, Due
      <3>2. CASE decision # None
        <4>1. announced' = announced
          BY <1>1, <1>2, <1>5, <3>2 DEF Announced, Recorded
        <4> QED
          BY <1>5, <3>2, <4>1 DEF Redecided, Same
      <3> QED
        BY <3>1, <3>2
    <2> QED
      BY <1>1, <2>1, <2>2, EndKeeps
  <1>6. CASE /\ decision # None
             /\ decision' = [decision EXCEPT !.action = work[j].action, !.by = work[j].by,
                               !.expires = Expiry(work[j].days), !.long = work[j].days > 1]
    <2> DEFINE long == work[j].days > 1
               expires == Expiry(work[j].days)
    <2>1. decision \in Decision /\ expires \in Times \cup {None} /\ long \in BOOLEAN
      BY <1>2, <1>3, <1>6, RecIs, ExpiryIs
    <2>2. decision' = [decision EXCEPT !.action = work[j].action, !.by = work[j].by,
                         !.expires = expires, !.long = long]
      BY <1>6
    <2> HIDE DEF long, expires
    <2>3. decision' \in Decision /\ decision'.expires = expires /\ decision'.long = long
      BY <1>3, <2>1, <2>2 DEF Decision
    <2>4. Recorded'
      BY <1>1, <1>2, <1>4, <2>3 DEF Recorded
    <2>5. Late(decision')
      BY <1>2, <1>3, <2>3, LateIs DEF long, expires
    <2> QED
      BY <1>1, <2>4, <2>5, EndKeeps DEF Redecided
  <1>7. decision = None \/ decision.id # work[j].id => decision' = decision
    BY DEF UpdateDecision
  <1> QED
    BY <1>5, <1>6, <1>7 DEF UpdateDecision

LEMMA DeleteDecisionKeeps ==
    ASSUME Inv, NEW j \in Jobs, DeleteDecision(j)
    PROVE  Inv'
  <1>1. Recorded'
    BY DEF DeleteDecision, Announced, Recorded, Inv, Decided
  <1>2. Redecided
    BY DEF DeleteDecision, Redecided, Late, Due
  <1> QED
    BY <1>1, <1>2, EndKeeps DEF DeleteDecision

LEMMA ResolveKeeps ==
    ASSUME Inv, NEW j \in Jobs, BeginResolve(j) \/ ResolveDecision(j)
    PROVE  Inv'
  <1>1. CASE BeginResolve(j)
    <2>1. Worked(j) /\ work'[j].pc = "resolve"
      BY <1>1, BeginKeeps DEF BeginResolve, Inv, Decided
    <2> QED
      BY <1>1, <2>1, RecordStays DEF BeginResolve
  <1>2. CASE ResolveDecision(j)
    <2>1. Recorded /\ (decision # None => decision \in Decision)
      BY RecIs DEF Inv, Decided
    <2>2. Recorded'
      BY <1>2, <2>1 DEF ResolveDecision, Recorded, Decision
    <2>3. Redecided
      BY <1>2, <2>1 DEF ResolveDecision, Redecided, Late, Due, Same, Decision
    <2> QED
      BY <1>2, <2>2, <2>3, EndKeeps DEF ResolveDecision
  <1> QED
    BY <1>1, <1>2

LEMMA AssignDecisionKeeps ==
    ASSUME Inv, AssignDecision
    PROVE  Inv'
  <1>1. PICK to \in Assignees \cup {None} : decision' = [decision EXCEPT !.assigned = to]
    BY DEF AssignDecision
  <1>2. decision \in Decision /\ decision # None
    BY RecIs DEF AssignDecision, Inv, Decided
  <1>3. decision' \in Decision /\ decision'.action = decision.action /\ decision'.expires = decision.expires
        /\ decision'.long = decision.long
    BY <1>1, <1>2 DEF Decision
  <1>4. UNCHANGED <<mix, feeds, row, sbom, rescanned, work, now, checked, ids, announced>>
    BY DEF AssignDecision
  <1>5. Package' /\ Recorded' /\ Counted'
    BY <1>3, <1>4 DEF Inv, Decided, Package, AllReady, AllClean, Recorded, Counted, feeds
  <1>6. Due(decision') => Due(decision)
    BY <1>2, <1>3 DEF Due, HasSla
  <1> QED
    BY <1>3, <1>4, <1>5, <1>6 DEF Inv, Decided, ReadToday, Read, ToldInTime, Eve

--------------------------------------------------------------------------------
\* The daily check.
LEMMA BeginSlaCheckKeeps ==
    ASSUME Inv, NEW j \in Jobs, BeginSlaCheck(j)
    PROVE  Inv'
  <1> DEFINE w == [Idle EXCEPT !.op = "sla", !.pc = "sla", !.rec = decision]
  <1>1. /\ work' = [work EXCEPT ![j] = w] /\ w = [Idle EXCEPT !.op = "sla", !.pc = "sla", !.rec = decision]
        /\ work[j].pc = "idle"
        /\ UNCHANGED <<mix, feeds, row, sbom, rescanned>> /\ UNCHANGED <<now, checked, record, announced>>
    BY DEF BeginSlaCheck, At
  <1> HIDE DEF w
  <1>2. Package /\ Recorded /\ decision \in Decision \cup {None}
    BY DEF Inv, Decided, Recorded
  <1>3. Idle \in Work /\ Idle.scores = {} /\ "sla" \in Ops /\ "sla" \in Steps
    BY IdleIs DEF Ops, Steps
  <1>4. w \in Work /\ w.op = "sla" /\ w.pc = "sla" /\ w.rec = decision /\ w.scores = {}
    BY <1>1, <1>2, <1>3 DEF Work, Ops, Steps
  <1>5. Holds(w)
    BY <1>4 DEF Holds, Ready, HeldClean, Enriching, Changing
  <1>6. Worked(j) /\ work'[j] = w
    BY <1>1, <1>2, <1>5, Untouched, JobKeeps
  <1>7. Package' /\ Counted' /\ Recorded'
    BY <1>1, <1>2, <1>4, <1>6, WorkedKeeps, CountKeeps DEF Inv, Decided, Recorded, record
  <1>8. \A i \in Jobs : work'[i] = IF i = j THEN w ELSE work[i]
    BY <1>6 DEF Worked, Package, Inv, Decided
  <1>9. Read(w, decision, now)
    BY <1>4 DEF Read, Due
  <1>10. \A i \in Jobs : Read(work'[i], decision, now)
    BY <1>8, <1>9 DEF Inv, ReadToday
  <1>11. ReadToday' /\ ToldInTime'
    BY <1>1, <1>10 DEF Inv, ReadToday, ToldInTime, record
  <1> QED
    BY <1>7, <1>11 DEF Inv, Decided

\* In the last half-day with a check before it, two or three half-days are left.
LEMMA AnnouncedAtEve ==
    ASSUME Recorded, Due(decision), now = Eve(decision), NEW rec, rec # None,
           rec.action = decision.action, rec.expires = decision.expires, NEW late \in {0, 1}
    PROVE  Announces(rec, late)
  <1>1. decision \in Decision /\ decision.expires \in Nat
    BY DueIs DEF Recorded
  <1>2. rec.action \in SlaActions
    BY <1>1 DEF Due, Decision, ValidActions, ActionToStatus, SlaActions
  <1>3. HasSla(rec)
    BY DEF Due, HasSla
  <1>4. rec.expires \in Nat /\ now \in Nat /\ WarningDays \in Nat \ {0}
    BY <1>1, DecisionsAssumption DEF Recorded
  <1>5. rec.expires - now = 2 \/ rec.expires - now = 3
    BY <1>1, <1>4 DEF Eve
  <1>6. RemainingDays(rec, late) \in {0, 1}
    BY <1>4, <1>5 DEF RemainingDays
  <1>7. Warning(rec, late)
    BY <1>4, <1>6 DEF Warning
  <1> QED
    BY <1>2, <1>3, <1>7 DEF Announces

LEMMA SlaCheckKeeps ==
    ASSUME Inv, NEW j \in Jobs, SlaCheck(j)
    PROVE  Inv'
  <1>1. /\ work[j].pc = "sla" /\ Return(j) /\ checked' = TRUE
        /\ UNCHANGED <<mix, feeds, row, sbom, rescanned>> /\ UNCHANGED <<now, record>>
    BY DEF SlaCheck, At
  <1>2. PICK late \in {0, 1} :
          announced' = (announced \/ (work[j].rec # None /\ decision # None /\ Announces(work[j].rec, late)
                                        /\ work[j].rec.expires = decision.expires))
    BY DEF SlaCheck
  <1>3. Package /\ Recorded /\ Counted /\ ReadToday /\ ToldInTime
    BY DEF Inv, Decided
  <1>4. Worked(j) /\ work'[j].pc = "idle"
    BY <1>1, <1>3, Untouched, ReturnKeeps
  <1>5. announced' \in BOOLEAN
    BY <1>2, <1>3 DEF Recorded
  <1>6. Recorded' /\ Counted' /\ Package'
    BY <1>1, <1>3, <1>4, <1>5, CountKeeps, WorkedKeeps DEF Recorded, record
  <1>7. \A i \in Jobs : work'[i].pc = "sla" => work'[i] = work[i]
    BY <1>4 DEF Worked, Inv, Decided, Package
  <1>8. ReadToday'
    BY <1>1, <1>3, <1>7 DEF ReadToday, Read, record
  <1>9. ASSUME Due(decision), now = Eve(decision) PROVE announced'
    <2>1. decision.expires \in Nat /\ now \in Nat
      BY <1>3, <1>9, DueIs DEF Recorded
    <2>2. decision.expires <= now + 3
      BY <1>9, <2>1 DEF Eve
    <2>3. /\ work[j].rec # None
          /\ work[j].rec.action = decision.action /\ work[j].rec.expires = decision.expires
      BY <1>1, <1>3, <1>9, <2>2 DEF ReadToday, Read
    <2>4. Announces(work[j].rec, late)
      BY <1>3, <1>9, <2>3, AnnouncedAtEve
    <2> QED
      BY <1>2, <1>9, <2>3, <2>4 DEF Due
  <1>10. ASSUME announced PROVE announced'
    BY <1>2, <1>10
  <1>11. ASSUME Due(decision), now > Eve(decision) \/ now = Eve(decision) PROVE announced'
    BY <1>3, <1>9, <1>10, <1>11 DEF ToldInTime
  <1>12. ToldInTime'
    BY <1>1, <1>11 DEF ToldInTime, record
  <1> QED
    BY <1>6, <1>8, <1>12 DEF Inv, Decided

\* No check is at work, and the one of the half-day that ends has ended, if it has one.
LEMMA TickKeeps ==
    ASSUME Inv, Tick
    PROVE  Inv'
  <1>1. /\ now < MaxTime /\ (now % 2 = 0 => checked) /\ now' = now + 1 /\ checked' = FALSE
        /\ UNCHANGED <<mix, feeds, row, sbom, rescanned, work>> /\ UNCHANGED <<record, announced>>
    BY DEF Tick
  <1>2. now \in Nat /\ MaxTime \in Nat /\ Recorded
    BY DecisionsAssumption DEF Inv, Decided, Recorded
  <1>3. Package' /\ Counted'
    BY <1>1 DEF Inv, Decided, Package, AllReady, AllClean, Counted, feeds, record
  <1>4. Recorded'
    <2>1. now' \in 0 .. MaxTime
      BY <1>1, <1>2
    <2>2. checked' \in BOOLEAN /\ announced' \in BOOLEAN /\ decision' = decision /\ ids' = ids
      BY <1>1, <1>2 DEF Recorded, record
    <2> QED
      BY <1>2, <2>1, <2>2 DEF Recorded
  <1>5. \A i \in Jobs : work[i].pc # "sla"
    BY WorkIs DEF Tick, Inv, Decided, Ready
  <1>6. ReadToday'
    BY <1>1, <1>5 DEF ReadToday, Read
  <1>7. ASSUME Due(decision), now + 1 > Eve(decision) PROVE announced
    <2>1. decision.expires \in Nat
      BY <1>2, <1>7, DueIs DEF Recorded
    <2>2. CASE now > Eve(decision)
      BY <1>7, <2>2 DEF ToldInTime, Inv
    <2>3. CASE now = Eve(decision)
      <3>1. now % 2 = 0
        BY <1>2, <2>1, <2>3 DEF Eve
      <3> QED
        BY <1>1, <1>7, <2>3, <3>1 DEF ToldInTime, Inv
    <2>4. Eve(decision) \in Int
      BY <2>1 DEF Eve
    <2> QED
      BY <1>2, <1>7, <2>2, <2>3, <2>4
  <1>8. ToldInTime'
    BY <1>1, <1>7 DEF ToldInTime, record
  <1> QED
    BY <1>3, <1>4, <1>6, <1>8 DEF Inv, Decided

--------------------------------------------------------------------------------
\* What was admitted before is clean: the policy was asked about all of it.
LEMMA AdmittedIs ==
    ASSUME db \in Generations, NEW r \in Admitted
    PROVE  r \in Manifest /\ r.scored = {} /\ Clean(r, {})
  <1> DEFINE status == IF Asks("review", Found[db]) THEN "pending_review" ELSE "validated"
  <1>1. Found[db] \in SUBSET CveIds /\ status \in Statuses /\ "validated" \in Statuses
    BY VulnerabilitiesAssumption DEF Statuses
  <1>2. CASE r = Unscanned("validated")
    <2>1. r \in Manifest /\ r.results = {} /\ r.scored = {}
      BY <1>1, <1>2, ScannedIs
    <2> QED
      BY <2>1 DEF Clean, Severe, Asks
  <1>3. CASE r = Scanned(status, Found[db]) /\ ~Asks("block", Found[db])
    <2>1. status = "validated" => ~Severe(Found[db])
      BY <1>3 DEF Severe
    <2> HIDE DEF status
    <2>2. r \in Manifest /\ r.results = Found[db] /\ r.scored = {} /\ r.status = status
      BY <1>1, <1>3, ScannedIs
    <2>3. Found[db] \ {} = Found[db]
      OBVIOUS
    <2> QED
      BY <2>1, <2>2, <2>3 DEF Clean
  <1> QED
    BY <1>2, <1>3 DEF Admitted

LEMMA InitInv == Init => Inv
  <1> SUFFICES ASSUME Init PROVE Inv
    OBVIOUS
  <1>1. db \in Generations /\ Exploited \in SUBSET CveIds /\ {} \in SUBSET CveIds
    BY VulnerabilitiesAssumption DEF Init
  <1>2. kev \in Cache /\ epss \in Cache /\ epss.ids = {}
    <2>1. [ids |-> {}, fresh |-> FALSE] \in Cache /\ [ids |-> {}, fresh |-> FALSE].ids = {}
      BY <1>1 DEF Cache
    <2> QED
      BY <1>1, <2>1, FilledIs DEF Init
  <1>3. row = None \/ row \in Admitted
    BY DEF Init
  <1>4. row # None => row \in Manifest /\ row.scored = {} /\ Clean(row, {})
    BY <1>1, <1>3, AdmittedIs
  <1>5. \A j \in Jobs : work[j] = Idle
    BY DEF Init
  <1>6. work \in [Jobs -> Work]
    BY IdleIs DEF Init
  <1>7. AllReady
    BY <1>5, IdleIs DEF AllReady, Ready, Enriching, Changing
  <1>8. AllClean
    <2>1. \A j \in Jobs : HeldClean(work[j], rescanned)
      BY <1>5, IdleIs DEF HeldClean, Enriching
    <2> QED
      BY <1>4, <2>1 DEF AllClean, Init
  <1>9. Package
    <2>1. mix \in Mixes /\ published = {} /\ sbom \in BOOLEAN /\ rescanned = {}
      BY DEF Init
    <2> QED
      BY <1>1, <1>2, <1>4, <1>6, <1>7, <1>8, <2>1 DEF Package
  <1>10. Recorded
    <2>1. 0 \in 0 .. MaxTime /\ 0 \in 0 .. MaxIds
      BY DecisionsAssumption
    <2>2. checked \in BOOLEAN /\ announced \in BOOLEAN /\ decision = None /\ now = 0 /\ ids = 0
      BY DEF Init
    <2> QED
      BY <2>1, <2>2 DEF Recorded
  <1>11. Counted
    <2>1. Deciding(work) = {}
      BY <1>5, IdleIs DEF Deciding
    <2>2. Cardinality(Deciding(work)) = 0
      BY <2>1, FS_EmptySet
    <2> QED
      BY <2>2, DecisionsAssumption DEF Init, Counted
  <1>12. ReadToday /\ ToldInTime
    BY DEF Init, ReadToday, Read, ToldInTime, Due
  <1> QED
    BY <1>9, <1>10, <1>11, <1>12 DEF Inv, Decided

LEMMA StepInv == Inv /\ [Next]_vars => Inv'
  <1> SUFFICES ASSUME Inv, [Next]_vars PROVE Inv'
    OBVIOUS
  <1>1. ASSUME Publish \/ Age \/ \E j \in Jobs : Start(j) \/ Proceed(j),
               UNCHANGED <<now, checked, record, announced>>
        PROVE  Inv'
    <2>1. CASE Publish \/ Age
      BY <1>1, <2>1, FeedsInv
    <2>2. ASSUME NEW j \in Jobs, Start(j) \/ Proceed(j) PROVE Inv'
      <3>1. Worked(j) /\ work'[j].pc \notin {"decide", "sla"}
        BY <2>2, StartKeeps, ProceedKeeps DEF Inv, Decided
      <3> QED
        BY <1>1, <3>1, RecordStays
    <2> QED
      BY <1>1, <2>1, <2>2
  <1>2. ASSUME NEW j \in Jobs,
               \/ BeginDecide(j) \/ SaveDecision(j) \/ ApplyDecision(j)
               \/ BeginQuarantine(j) \/ Quarantine(j)
               \/ BeginChange(j) \/ UpdateDecision(j) \/ DeleteDecision(j)
               \/ BeginResolve(j) \/ ResolveDecision(j)
               \/ BeginSlaCheck(j) \/ SlaCheck(j)
        PROVE  Inv'
    BY <1>2, BeginDecideKeeps, SaveDecisionKeeps, ApplyDecisionKeeps, QuarantineKeeps, BeginChangeKeeps,
       UpdateDecisionKeeps, DeleteDecisionKeeps, ResolveKeeps, BeginSlaCheckKeeps, SlaCheckKeeps
  <1>3. CASE AssignDecision
    BY <1>3, AssignDecisionKeeps
  <1>4. CASE Tick
    BY <1>4, TickKeeps
  <1>5. CASE UNCHANGED vars
    <2>1. UNCHANGED <<mix, feeds, row, sbom, rescanned, work, now, checked, record, announced>>
      BY <1>5 DEF vars, record
    <2> QED
      BY <2>1 DEF Inv, Decided, Package, AllReady, AllClean, Recorded, Counted, ReadToday, ToldInTime,
                  feeds, record
  <1> QED
    BY <1>1, <1>2, <1>3, <1>4, <1>5 DEF Next

LEMMA Invariant == Spec => []Inv
  <1> QED
    BY InitInv, StepInv, PTL DEF Spec

--------------------------------------------------------------------------------
\* Every variable of the vulnerabilities and of the decisions keeps its type, whatever jobs overlap: an
\* identifier is never given beyond those there are, and a score in the manifest is always of a CVE that it
\* lists and that FIRST.org scores (services/cve_enrichment.py, services/security_decisions.py).
THEOREM TypesHold == Spec => []TypeOK
  <1>1. Inv => TypeOK
    BY DEF Inv, Decided, Package, Recorded, TypeOK
  <1> QED
    BY Invariant, <1>1, PTL

\* A validated manifest lists nothing that the policy blocks or sends to review, but what a rescan on
\* request put there: the matching asks the policy about what is new, and no enrichment, synchronisation,
\* decision or quarantine that writes back what it read before brings anything else in
\* (services/cve_rematch.py, services/manifest.py, routers/decision_router.py).
THEOREM NothingSlipsInHolds == Spec => []NothingSlipsIn
  <1>1. Inv => NothingSlipsIn
    BY DEF Inv, Decided, Package, AllClean, Clean, NothingSlipsIn, Results
  <1> QED
    BY Invariant, <1>1, PTL

\* A dated decision taken for two days or more is announced before it expires, whatever is changed,
\* resolved and reassigned at once, where the daily check runs every day (services/sla_alerts.py): the check
\* of the last even half-day that leaves two or three before the expiry has read the decision as it is.
THEOREM AnnouncedBeforeExpiryHolds == Spec => []AnnouncedBeforeExpiry
  <1>1. ASSUME Inv PROVE AnnouncedBeforeExpiry
    <2> SUFFICES ASSUME Due(decision), now > decision.expires PROVE announced
      BY DEF AnnouncedBeforeExpiry, Due
    <2>1. decision.expires \in Nat /\ now \in Nat
      BY <1>1, DueIs DEF Inv, Decided, Recorded
    <2>2. now > Eve(decision)
      BY <2>1 DEF Eve
    <2> QED
      BY <1>1, <2>2 DEF Inv, ToldInTime
  <1> QED
    BY Invariant, <1>1, PTL
================================================================================
