----------------------------- MODULE ImportsProofs -----------------------------
(***************************************************************************)
(* Proofs about Validation and Imports, for any packages, tasks, replicas, *)
(* answers of the scanners and settings: what passes the pipeline has      *)
(* nothing against it but a review, nothing else enters the pool, one      *)
(* mirror job is at work at a time, every task keeps its type, and what    *)
(* the lock of a package keeps out: of a process no import checks a        *)
(* version that it has published, and of one process no two hold a file.   *)
(***************************************************************************)
EXTENDS Imports, FiniteSetTheorems, SequenceTheorems, WellFoundedInduction, TLAPS

\* What a pipeline may say of a file that it lets through.
Fair(k, r, c, res) ==
    /\ res.cve \in {"approved", "pending_review"}
    /\ Findings(k, r, c) \subseteq {"review"}
    /\ res.cve = "approved" => Findings(k, r, c) = {}

\* The results that a pipeline hands from a step to the next.
StepNames == {"format", "provenance", "checksum", "control_checksum", "antivirus", "cve", "gpg", "dependencies"}
Results == [passed : BOOLEAN, cve : {"approved", "pending_review", "blocked"}, failed : SUBSET StepNames]

LEMMA FirstResult == ValidationResult \in Results /\ ValidationResult.passed
                     /\ ValidationResult.cve = "approved" /\ ValidationResult.failed = {}
  BY DEF ValidationResult, Results

\* A step that adds its outcome: passed only if it was and the step is right.
LEMMA AddStepIs ==
    ASSUME NEW res \in Results, NEW name \in StepNames, NEW ok \in BOOLEAN
    PROVE  /\ AddStep(res, name, ok) \in Results
           /\ AddStep(res, name, ok).cve = res.cve
           /\ AddStep(res, name, ok).passed = (res.passed /\ ok)
           /\ AddStep(res, name, ok).failed = IF ok THEN res.failed ELSE res.failed \cup {name}
  BY DEF AddStep, Results, StepNames

\* The verdict on the vulnerabilities: it passes when nothing blocks, and asks for a review or not.
LEMMA JudgedIs ==
    ASSUME NEW res \in Results, NEW c, NEW seen
    PROVE  /\ Judged(c, seen, res) \in Results
           /\ Judged(c, seen, res).passed = (res.passed /\ ~Blocks(c, seen))
           /\ Judged(c, seen, res).cve = (IF Blocks(c, seen) THEN "blocked"
                                          ELSE IF Reviews(c, seen) THEN "pending_review" ELSE "approved")
           /\ Judged(c, seen, res).failed = IF Blocks(c, seen) THEN res.failed \cup {"cve"} ELSE res.failed
  <1>1. CASE Blocks(c, seen)
    <2> DEFINE held == [res EXCEPT !.cve = "blocked"]
    <2>1. held \in Results /\ held.cve = "blocked" /\ held.failed = res.failed
      BY DEF Results
    <2>2. Judged(c, seen, res) = AddStep(held, "cve", FALSE)
      BY <1>1 DEF Judged
    <2> HIDE DEF held
    <2>3. /\ AddStep(held, "cve", FALSE) \in Results /\ AddStep(held, "cve", FALSE).cve = held.cve
          /\ AddStep(held, "cve", FALSE).failed = held.failed \cup {"cve"}
          /\ AddStep(held, "cve", FALSE).passed = FALSE
      BY <2>1 DEF AddStep, Results, StepNames
    <2> QED
      BY <1>1, <2>1, <2>2, <2>3
  <1>2. CASE ~Blocks(c, seen)
    BY <1>2 DEF Judged, Results
  <1> QED
    BY <1>1, <1>2

\* The last step: a missing dependency is a warning, so a result that had passed still does.
LEMMA LenientIs ==
    ASSUME NEW res \in Results, res.passed, NEW missing \in BOOLEAN
    PROVE  /\ Lenient(FALSE, AddStep(res, "dependencies", ~missing)).passed
           /\ Lenient(FALSE, AddStep(res, "dependencies", ~missing)).cve = res.cve
  BY DEF Lenient, AddStep, Results, StepNames

\* A step runs only on a result that passed.
LEMMA ThenIs ==
    ASSUME NEW res \in Results, NEW next \in Results
    PROVE  Then(res, next) \in Results /\ (Then(res, next).passed => res.passed /\ Then(res, next) = next)
  BY DEF Then

\* The antivirus and the scanner, when the settings ask for them.
LEMMA ClamavIs ==
    ASSUME NEW r \in AllReports, NEW c \in AllConfigs, NEW res \in Results
    PROVE  /\ When(c.clamav_scan, res, AptClamav(r, res)) \in Results
           /\ When(c.clamav_scan, res, AptClamav(r, res)).cve = res.cve
           /\ When(c.clamav_scan, res, AptClamav(r, res)).passed => ~(c.clamav_scan /\ Infected(r))
  <1>1. c.clamav_scan \in BOOLEAN /\ r.clamd \in {"absent", "raises", "ok", "found", "other"}
    BY DEF AllConfigs, AllReports
  <1> DEFINE clean == IF r.clamd \in {"absent", "raises"} THEN Clamscan(r) ELSE ClamdStatus(r) # "FOUND"
  <1>2. clean \in BOOLEAN
    BY DEF Clamscan
  <1>3. clean <=> ~Infected(r)
    BY <1>1 DEF Clamscan, ClamdStatus, Infected
  <1>4. AptClamav(r, res) = AddStep(res, "antivirus", clean)
    BY DEF AptClamav
  <1> HIDE DEF clean
  <1>5. /\ AptClamav(r, res) \in Results /\ AptClamav(r, res).cve = res.cve
        /\ AptClamav(r, res).passed => ~Infected(r)
    <2>1. "antivirus" \in StepNames
      BY DEF StepNames
    <2>2. /\ AddStep(res, "antivirus", clean) \in Results /\ AddStep(res, "antivirus", clean).cve = res.cve
          /\ AddStep(res, "antivirus", clean).passed = (res.passed /\ clean)
      BY <1>2, <2>1, AddStepIs
    <2> QED
      BY <1>3, <1>4, <2>2
  <1> QED
    BY <1>1, <1>5 DEF When

LEMMA GrypeIs ==
    ASSUME NEW r \in AllReports, NEW c \in AllConfigs, NEW res \in Results, res.cve = "approved"
    PROVE  LET out == When(c.grype_scan, res, AptGrype(r, c, res))
               asked == c.grype_scan /\ r.grype = "done"
           IN  /\ out \in Results
               /\ out.passed => /\ ~(asked /\ Blocks(c, Named(r)))
                                /\ out.cve \in {"approved", "pending_review"}
                                /\ out.cve = "approved" => ~(asked /\ Reviews(c, Named(r)))
  <1>1. c.grype_scan \in BOOLEAN
    BY DEF AllConfigs
  <1>2. r.grype = "done" => AptMatches(r) = Named(r)
    BY DEF AptMatches, Named
  <1>3. CASE c.grype_scan /\ r.grype = "done"
    BY <1>2, <1>3, JudgedIs DEF When, AptGrype
  <1>4. CASE ~(c.grype_scan /\ r.grype = "done")
    BY <1>1, <1>4 DEF When, AptGrype
  <1> QED
    BY <1>3, <1>4

\* The steps of .deb and of .rpm.
LEMMA AptIsFair ==
    ASSUME NEW r \in AllReports, NEW c \in AllConfigs, NEW missing \in BOOLEAN,
           NEW k \in {"deb", "rpm"}, AptPipeline(r, c, missing, FALSE).passed
    PROVE  Fair(k, r, c, AptPipeline(r, c, missing, FALSE))
  <1> DEFINE format     == AptFormat(r, ValidationResult)
             provenance == Then(format, AptProvenance(r, format))
             antivirus  == Then(provenance, When(c.clamav_scan, provenance, AptClamav(r, provenance)))
             cve        == Then(antivirus, When(c.grype_scan, antivirus, AptGrype(r, c, antivirus)))
             gpg        == Then(cve, AptGpg(r, c, cve))
             last       == AddStep(gpg, "dependencies", ~missing)
  <1>0. AptPipeline(r, c, missing, FALSE) = Then(gpg, Lenient(FALSE, last))
    BY DEF AptPipeline, AptDependencies
  <1>1. format \in Results /\ format.cve = "approved" /\ (format.passed => r.file = "good")
    BY FirstResult DEF AptFormat, AddStep, Results, StepNames
  <1> HIDE DEF format
  <1>2. /\ provenance \in Results
        /\ provenance.passed => format.passed /\ provenance.cve = "approved" /\ r.sum # "other"
    <2>1. /\ AptProvenance(r, format) \in Results /\ AptProvenance(r, format).cve = "approved"
          /\ AptProvenance(r, format).passed => r.sum # "other"
      BY <1>1 DEF AptProvenance, AddStep, Results, StepNames
    <2> QED
      BY <1>1, <2>1, ThenIs
  <1> HIDE DEF provenance
  <1>3. /\ antivirus \in Results
        /\ antivirus.passed => /\ provenance.passed /\ antivirus.cve = "approved"
                               /\ ~(c.clamav_scan /\ Infected(r))
    BY <1>2, ClamavIs, ThenIs
  <1> HIDE DEF antivirus
  <1> DEFINE asked == c.grype_scan /\ r.grype = "done"
  <1>4. /\ cve \in Results
        /\ cve.passed => /\ antivirus.passed /\ cve.cve \in {"approved", "pending_review"}
                         /\ ~(asked /\ Blocks(c, Named(r)))
                         /\ cve.cve = "approved" => ~(asked /\ Reviews(c, Named(r)))
    <2>1. CASE antivirus.passed
      BY <1>3, <2>1, GrypeIs, ThenIs
    <2>2. CASE ~antivirus.passed
      BY <1>3, <2>2 DEF Then
    <2> QED
      BY <2>1, <2>2
  <1> HIDE DEF cve
  <1>5. gpg \in Results /\ (gpg.passed => cve.passed /\ gpg.cve = cve.cve /\ ~Unsigned(r, c))
    <2>1. r.sig \in {"none", "valid", "invalid"} /\ c.gpg_required \in BOOLEAN
      BY DEF AllReports, AllConfigs
    <2>2. /\ AptGpg(r, c, cve) \in Results /\ AptGpg(r, c, cve).cve = cve.cve
          /\ AptGpg(r, c, cve).passed => ~Unsigned(r, c)
      BY <1>4, <2>1 DEF AptGpg, Unsigned, AddStep, Results, StepNames
    <2> QED
      BY <1>4, <2>2, ThenIs
  <1> HIDE DEF gpg
  <1>6. gpg.passed /\ AptPipeline(r, c, missing, FALSE).cve = gpg.cve
    <2>1. gpg.passed
      BY <1>0, <1>5 DEF Then
    <2> QED
      BY <1>0, <1>5, <2>1, LenientIs DEF Then
  <1>7. /\ r.file = "good" /\ r.sum # "other" /\ ~(c.clamav_scan /\ Infected(r))
        /\ ~(asked /\ Blocks(c, Named(r))) /\ ~Unsigned(r, c)
        /\ cve.cve \in {"approved", "pending_review"} /\ gpg.cve = cve.cve
        /\ cve.cve = "approved" => ~(asked /\ Reviews(c, Named(r)))
    BY <1>1, <1>2, <1>3, <1>4, <1>5, <1>6
  <1> QED
    BY <1>6, <1>7 DEF Fair, Findings

LEMMA RpmIsApt ==
    ASSUME NEW r, NEW c, NEW missing, NEW strict
    PROVE  RpmPipeline(r, c, missing, strict) = AptPipeline(r, c, missing, strict)
  BY DEF RpmPipeline, AptPipeline, RpmFormat, AptFormat, RpmProvenance, RpmClamav, RpmGrype, AptGrype,
         RpmMatches, RpmGpg, AptGpg, RpmDependencies, AptDependencies

\* The steps of .apk.
LEMMA ApkIsFair ==
    ASSUME NEW r \in AllReports, NEW c \in AllConfigs, NEW missing \in BOOLEAN,
           ApkPipeline(r, c, missing, FALSE).passed
    PROVE  Fair("apk", r, c, ApkPipeline(r, c, missing, FALSE))
  <1> DEFINE format    == ApkFormat(r, ValidationResult)
             control   == Then(format, ApkControlChecksum(r, format))
             checksum  == Then(control, ApkChecksum(r, control))
             antivirus == Then(checksum, When(c.clamav_scan, checksum, AptClamav(r, checksum)))
             cve       == Then(antivirus, When(c.grype_scan, antivirus, AptGrype(r, c, antivirus)))
             gpg       == Then(cve, ApkGpg(cve))
             last      == AddStep(gpg, "dependencies", ~missing)
  <1>0. ApkPipeline(r, c, missing, FALSE) = Then(gpg, Lenient(FALSE, last))
    BY DEF ApkPipeline, ApkDependencies, ApkGrype, AptGrype, ApkMatches
  <1>1. format \in Results /\ format.cve = "approved" /\ (format.passed => r.file = "good")
    BY FirstResult DEF ApkFormat, AddStep, Results, StepNames
  <1> HIDE DEF format
  <1>2. /\ control \in Results
        /\ control.passed => format.passed /\ control.cve = "approved" /\ r.control # "other"
    <2>1. /\ ApkControlChecksum(r, format) \in Results /\ ApkControlChecksum(r, format).cve = "approved"
          /\ ApkControlChecksum(r, format).passed => r.control # "other"
      BY <1>1 DEF ApkControlChecksum, ApkControlSection, AddStep, Results, StepNames
    <2> QED
      BY <1>1, <2>1, ThenIs
  <1> HIDE DEF control
  <1>3. /\ checksum \in Results
        /\ checksum.passed => control.passed /\ checksum.cve = "approved" /\ r.sum # "other"
    <2>1. CASE control.passed
      <3>1. /\ ApkChecksum(r, control) \in Results /\ ApkChecksum(r, control).cve = "approved"
            /\ ApkChecksum(r, control).passed => r.sum # "other"
        BY <1>2, <2>1 DEF ApkChecksum, AddStep, Results, StepNames
      <3> QED
        BY <1>2, <2>1, <3>1 DEF Then
    <2>2. CASE ~control.passed
      BY <1>2, <2>2 DEF Then
    <2> QED
      BY <2>1, <2>2
  <1> HIDE DEF checksum
  <1>4. /\ antivirus \in Results
        /\ antivirus.passed => /\ checksum.passed /\ antivirus.cve = "approved"
                               /\ ~(c.clamav_scan /\ Infected(r))
    BY <1>3, ClamavIs, ThenIs
  <1> HIDE DEF antivirus
  <1> DEFINE asked == c.grype_scan /\ r.grype = "done"
  <1>5. /\ cve \in Results
        /\ cve.passed => /\ antivirus.passed /\ cve.cve \in {"approved", "pending_review"}
                         /\ ~(asked /\ Blocks(c, Named(r)))
                         /\ cve.cve = "approved" => ~(asked /\ Reviews(c, Named(r)))
    <2>1. CASE antivirus.passed
      BY <1>4, <2>1, GrypeIs, ThenIs
    <2>2. CASE ~antivirus.passed
      BY <1>4, <2>2 DEF Then
    <2> QED
      BY <2>1, <2>2
  <1>6. gpg = cve
    BY DEF Then, ApkGpg, AddStep
  <1> HIDE DEF cve, gpg
  <1>7. cve.passed /\ ApkPipeline(r, c, missing, FALSE).cve = cve.cve
    <2>1. cve.passed
      BY <1>0, <1>6 DEF Then
    <2> QED
      BY <1>0, <1>5, <1>6, <2>1, LenientIs DEF Then
  <1>8. /\ r.file = "good" /\ r.control # "other" /\ r.sum # "other" /\ ~(c.clamav_scan /\ Infected(r))
        /\ ~(asked /\ Blocks(c, Named(r))) /\ cve.cve \in {"approved", "pending_review"}
        /\ cve.cve = "approved" => ~(asked /\ Reviews(c, Named(r)))
    BY <1>1, <1>2, <1>3, <1>4, <1>5, <1>7
  <1> QED
    BY <1>7, <1>8 DEF Fair, Findings

\* Whatever the tools answer and the settings ask, a file of any format that the pipeline lets through
\* without strict_deps (run_validation_pipeline, which puts passed back to true after its last step) has
\* nothing against it but a review, and with the status "approved" nothing at all.
THEOREM PassedIsCleared ==
    ASSUME NEW k \in Kinds, NEW r \in AllReports, NEW c \in AllConfigs, NEW missing \in BOOLEAN,
           RunPipeline(k, r, c, missing, FALSE).passed
    PROVE  Fair(k, r, c, RunPipeline(k, r, c, missing, FALSE))
  <1>1. CASE k = "deb"
    BY <1>1, AptIsFair DEF RunPipeline
  <1>2. CASE k = "rpm"
    BY <1>2, AptIsFair, RpmIsApt DEF RunPipeline
  <1>3. CASE k = "apk"
    BY <1>3, ApkIsFair DEF RunPipeline
  <1> QED
    BY <1>1, <1>2, <1>3 DEF Kinds

--------------------------------------------------------------------------------
(***************************************************************************)
(* The imports and the mirror jobs at work.                                *)
(***************************************************************************)

\* What an import holds of a file, and what the pool holds, has nothing against it but a review.
PoolIsCleared == \A f \in pool : f.refused \subseteq {"review"}
HoldsCleared  == \A t \in Tasks : task[t].refused \subseteq {"review"}

\* task has the fields of Idle for every task.
Shape(w)  == DOMAIN w = DOMAIN Idle
TasksType == DOMAIN task = Tasks /\ \A t \in Tasks : Shape(task[t])

\* A replica that says leader holds the lock, and the mirror jobs at work are on one that says leader,
\* until something lapsed; in one process never two.
LeadersHold == ~lapsed => \A r \in Replicas : leader[r] = "leader" => lock = r
MirrorsLed  == ~lapsed => \A t \in Tasks : Mirrors(t) => task[t].home \in Replicas /\ leader[task[t].home] = "leader"
OneEach     == \A t, u \in Tasks : Mirrors(t) /\ Mirrors(u) /\ task[t].home = task[u].home => t = u

\* A file that is about to go through a pipeline is of a known format.
Judging   == {"received", "scan", "validate"}
KindKnown == \A t \in Tasks : task[t].step \in Judging => Kind[task[t].pkg] \in Kinds

ServerType == leader \in [Replicas -> {"down", "leader", "passive", "stopping"}] /\ lapsed \in BOOLEAN

\* The inductive invariant.
Inv == PoolIsCleared /\ HoldsCleared /\ TasksType /\ KindKnown /\ ServerType /\ LeadersHold /\ MirrorsLed /\ OneEach

LEMMA InitInv == Init => Inv
  <1> SUFFICES ASSUME Init PROVE Inv
    OBVIOUS
  <1>1. task = [t \in Tasks |-> Idle]
    BY DEF Init
  <1>2. \A t \in Tasks : task[t] = Idle /\ ~Mirrors(t)
    BY <1>1 DEF Mirrors, Runs, Idle, Ended
  <1>3. PoolIsCleared /\ ServerType /\ LeadersHold
    BY DEF Init, PoolIsCleared, ServerType, LeadersHold
  <1>4. Idle.refused = {} /\ Idle.step = "idle"
    BY DEF Idle
  <1>5. HoldsCleared /\ TasksType /\ KindKnown
    BY <1>1, <1>2, <1>4 DEF HoldsCleared, TasksType, Shape, KindKnown, Judging
  <1>6. MirrorsLed /\ OneEach
    BY <1>2 DEF MirrorsLed, OneEach
  <1> QED
    BY <1>3, <1>5, <1>6 DEF Inv

\* What the other steps of a task keep: the servers, who works as a mirror and where, and that nothing
\* with more than a review against it is held or kept.
Harmless(t) ==
    /\ \A f \in pool' : f \in pool \/ f.refused \subseteq {"review"}
    /\ DOMAIN task' = Tasks
    /\ \A u \in Tasks \ {t} : task'[u] = task[u]
    /\ Shape(task'[t]) /\ task'[t].refused \subseteq {"review"}
    /\ task'[t].step \in Judging => Kind[task'[t].pkg] \in Kinds
    /\ Mirrors(t)' => Mirrors(t) /\ task'[t].home = task[t].home
    /\ UNCHANGED server

LEMMA HarmlessKeeps ==
    ASSUME Inv, NEW t \in Tasks, Harmless(t)
    PROVE  Inv'
  <1>1. \A u \in Tasks : Mirrors(u)' => Mirrors(u) /\ task'[u].home = task[u].home
    BY DEF Harmless, Mirrors, Runs
  <1>2. PoolIsCleared' /\ HoldsCleared' /\ TasksType' /\ KindKnown'
    BY DEF Harmless, Inv, PoolIsCleared, HoldsCleared, TasksType, KindKnown
  <1>3. ServerType' /\ LeadersHold'
    BY DEF Harmless, Inv, ServerType, LeadersHold, server
  <1>4. MirrorsLed' /\ OneEach'
    BY <1>1 DEF Harmless, Inv, MirrorsLed, OneEach, server
  <1> QED
    BY <1>2, <1>3, <1>4 DEF Inv

\* What a task may become by such a step.
Sound(t, w) ==
    /\ Shape(w) /\ w.refused \subseteq {"review"}
    /\ w.step \in Judging => Kind[w.pkg] \in Kinds
    /\ w.mode = "mirror" /\ w.step \notin {"idle", "done", "lost"} => Mirrors(t) /\ w.home = task[t].home

LEMMA MoveIs ==
    ASSUME Inv, NEW t \in Tasks, NEW w, Move(t, w), Sound(t, w), UNCHANGED server,
           \A f \in pool' : f \in pool \/ f.refused \subseteq {"review"}
    PROVE  Harmless(t)
  <1>1. task' = [task EXCEPT ![t] = w] /\ DOMAIN task = Tasks
    BY DEF Move, Inv, TasksType
  <1>2. task'[t] = w
    BY <1>1
  <1> QED
    BY <1>1, <1>2 DEF Harmless, Sound, Mirrors, Runs, Ended

\* The ends of an import and of a request.
LEMMA ClearedIs ==
    ASSUME Inv, NEW t \in Tasks, Runs(t), NEW step, step \notin Judging, NEW bad
    PROVE  Sound(t, Cleared(task[t], step, bad))
  BY DEF Cleared, Sound, Inv, TasksType, Shape, Idle, Mirrors, Runs, Ended

LEMMA OverIs ==
    ASSUME NEW t \in Tasks, NEW step \in {"done", "lost"}, NEW bad
    PROVE  Sound(t, Over(task[t], step, bad))
  BY DEF Over, Sound, Shape, Idle, Judging

\* A running task with other fields than its mode, its refused and its home changed.
LEMMA OnwardIs ==
    ASSUME Inv, NEW t \in Tasks, Runs(t), NEW w, Shape(w), w.mode = task[t].mode,
           w.refused = task[t].refused, w.home = task[t].home, w.step \in Judging => Kind[w.pkg] \in Kinds
    PROVE  Sound(t, w)
  BY DEF Sound, Inv, HoldsCleared, Mirrors

LEMMA OutcomeIs ==
    ASSUME NEW k \in Kinds, NEW missing \in BOOLEAN, NEW o \in Outcomes[k][missing], o.passed
    PROVE  /\ o.refused \subseteq {"review"} /\ o.cve \in {"approved", "pending_review"}
           /\ o.cve = "approved" => o.refused = {}
  <1>1. PICK a \in [r : Reports, c : Configs] :
          LET res == RunPipeline(k, a.r, a.c, missing, FALSE)
          IN  o = [passed |-> res.passed, cve |-> res.cve,
                   refused |-> IF res.passed THEN Findings(k, a.r, a.c) ELSE {}]
    BY DEF Outcomes
  <1>2. a.r \in AllReports /\ a.c \in AllConfigs
    BY ImportsAssumption
  <1>3. /\ RunPipeline(k, a.r, a.c, missing, FALSE).passed /\ o.refused = Findings(k, a.r, a.c)
        /\ o.cve = RunPipeline(k, a.r, a.c, missing, FALSE).cve
    BY <1>1
  <1>4. Fair(k, a.r, a.c, RunPipeline(k, a.r, a.c, missing, FALSE))
    BY <1>2, <1>3, PassedIsCleared, Zenon
  <1> QED
    BY <1>3, <1>4 DEF Fair

\* The same facts as steps.
LEMMA StepIs ==
    ASSUME Inv, NEW t \in Tasks, Runs(t), NEW step, Step(t, step), UNCHANGED <<pool, server>>,
           step \in Judging => Kind[task[t].pkg] \in Kinds
    PROVE  Harmless(t)
  <1>1. Sound(t, [task[t] EXCEPT !.step = step])
    BY OnwardIs DEF Inv, TasksType, Shape, Idle
  <1> QED
    BY <1>1, MoveIs DEF Step

LEMMA ReturnIs ==
    ASSUME Inv, NEW t \in Tasks, Runs(t), NEW bad, Return(t, bad), UNCHANGED <<pool, server>>
    PROVE  Harmless(t)
  BY ClearedIs, MoveIs DEF Return, Judging

LEMMA OverStepIs ==
    ASSUME Inv, NEW t \in Tasks, NEW bad, Move(t, Over(task[t], "done", bad)), UNCHANGED <<pool, server>>
    PROVE  Harmless(t)
  BY OverIs, MoveIs

LEMMA OnwardStepIs ==
    ASSUME Inv, NEW t \in Tasks, Runs(t), NEW w, Move(t, w), UNCHANGED <<pool, server>>,
           Shape(w), w.mode = task[t].mode, w.refused = task[t].refused, w.home = task[t].home,
           w.step \in Judging => Kind[w.pkg] \in Kinds
    PROVE  Harmless(t)
  BY OnwardIs, MoveIs

LEMMA TakeIs ==
    ASSUME Inv, NEW t \in Tasks, Runs(t), NEW v, Take(t, v), UNCHANGED <<pool, server>>
    PROVE  Harmless(t)
  BY OnwardStepIs DEF Take, Inv, TasksType, Shape, Idle, Judging

LEMMA LeaveIs ==
    ASSUME Inv, NEW t \in Tasks, task[t].step = "next", NEW bad, Leave(t, bad), UNCHANGED <<pool, server>>
    PROVE  Harmless(t)
  BY OnwardStepIs DEF Leave, Inv, TasksType, Shape, Idle, Judging, Runs, Ended

\* The pipeline lets a file through: what is held against it is what the result says.
LEMMA PassIs ==
    ASSUME Inv, NEW t \in Tasks, Runs(t), NEW o, o.refused \subseteq {"review"}, NEW lacks,
           NEW step, step \notin Judging,
           Move(t, [task[t] EXCEPT !.step = step, !.cve = o.cve, !.refused = o.refused, !.lacks = lacks]),
           UNCHANGED <<pool, server>>
    PROVE  Harmless(t)
  <1> DEFINE w == [task[t] EXCEPT !.step = step, !.cve = o.cve, !.refused = o.refused, !.lacks = lacks]
  <1>1. Shape(w) /\ w.refused = o.refused /\ w.mode = task[t].mode /\ w.home = task[t].home /\ w.step = step
    BY DEF Inv, TasksType, Shape, Idle
  <1>2. Sound(t, w)
    BY <1>1 DEF Sound, Mirrors
  <1> QED
    BY <1>2, MoveIs

\* A file enters the pool with what the task holds against it.
LEMMA PutIs ==
    ASSUME Inv, NEW t \in Tasks, NEW by, NEW p, NEW v,
           pool' = Put(pool, [pkg |-> p, version |-> v, refused |-> task[t].refused, by |-> by])
    PROVE  \A f \in pool' : f \in pool \/ f.refused \subseteq {"review"}
  BY DEF Put, Inv, HoldsCleared

LEMMA PutStepIs ==
    ASSUME Inv, NEW t \in Tasks, Runs(t), NEW step, step \notin Judging, Step(t, step), UNCHANGED server,
           \A f \in pool' : f \in pool \/ f.refused \subseteq {"review"}
    PROVE  Harmless(t)
  <1>1. Sound(t, [task[t] EXCEPT !.step = step])
    BY OnwardIs DEF Inv, TasksType, Shape, Idle
  <1> QED
    BY <1>1, MoveIs DEF Step

--------------------------------------------------------------------------------
\* import_one(): from the lock to the publication.
LEMMA ImportOneHarmless ==
    ASSUME Inv, NEW t \in Tasks,
           \/ Acquire(t) \/ DebDownload(t) \/ RpmDownload(t) \/ ApkDownload(t) \/ Validate(t) \/ Keep(t)
           \/ DebRecord(t) \/ RpmRecord(t) \/ ApkRecord(t) \/ DebPublish(t) \/ RpmPublish(t) \/ ApkPublish(t)
    PROVE  Harmless(t)
  <1>1. CASE Acquire(t)
    <2>1. Runs(t) /\ UNCHANGED <<pool, server>>
      BY <1>1 DEF Acquire, Runs, Ended, repo
    <2>2. Return(t, FALSE) \/ Step(t, "download")
      BY <1>1 DEF Acquire
    <2> QED
      BY <2>1, <2>2, ReturnIs, StepIs DEF Judging
  <1>2. ASSUME NEW k \in Kinds, NEW row, Download(t, k, row) PROVE Harmless(t)
    <2>1. Runs(t) /\ Kind[task[t].pkg] \in Kinds /\ UNCHANGED <<pool, server>>
      BY <1>2 DEF Download, Runs, Ended, repo, Format
    <2>2. CASE Move(t, [task[t] EXCEPT !.step = "validate", !.got = row])
      BY <2>1, <2>2, OnwardStepIs DEF Inv, TasksType, Shape, Idle
    <2>3. CASE Return(t, TRUE)
      BY <2>1, <2>3, ReturnIs
    <2>4. CASE Move(t, Cleared(task[t], "missed", FALSE))
      BY <2>1, <2>4, ClearedIs, MoveIs DEF Judging
    <2> QED
      BY <1>2, <2>2, <2>3, <2>4 DEF Download
  <1>3. CASE DebDownload(t) \/ RpmDownload(t) \/ ApkDownload(t)
    BY <1>2, <1>3 DEF DebDownload, RpmDownload, ApkDownload, Kinds
  <1>4. CASE Validate(t)
    <2> DEFINE lacks == Missing(task[t].pkg)
    <2>1. Runs(t) /\ Kind[task[t].pkg] \in Kinds /\ UNCHANGED <<pool, server>>
      BY <1>4 DEF Validate, Runs, Ended, repo, Inv, KindKnown, Judging
    <2>2. PICK o \in Outcomes[Format(t)][lacks # {}] :
            IF ~o.passed THEN Return(t, TRUE)
            ELSE Move(t, [task[t] EXCEPT !.step = "keep", !.cve = o.cve, !.refused = o.refused, !.lacks = lacks])
      BY <1>4 DEF Validate
    <2> HIDE DEF lacks
    <2>3. o.passed => o.refused \subseteq {"review"}
      BY <2>1, OutcomeIs DEF Format
    <2>4. CASE ~o.passed
      BY <2>1, <2>2, <2>4, ReturnIs
    <2>5. CASE o.passed
      <3>1. /\ o.refused \subseteq {"review"} /\ "keep" \notin Judging
            /\ Move(t, [task[t] EXCEPT !.step = "keep", !.cve = o.cve, !.refused = o.refused, !.lacks = lacks])
        BY <2>2, <2>3, <2>5 DEF Judging
      <3> QED
        BY <2>1, <3>1, PassIs
    <2> QED
      BY <2>4, <2>5
  <1>5. CASE Keep(t)
    BY <1>5, PutIs, PutStepIs DEF Keep, Runs, Ended, Judging
  <1>6. ASSUME NEW k, NEW lacks, Record(t, k, lacks) PROVE Harmless(t)
    <2>1. Runs(t) /\ UNCHANGED <<pool, server>>
      BY <1>6 DEF Record, Runs, Ended
    <2>2. CASE Step(t, "publish")
      BY <2>1, <2>2, StepIs DEF Judging
    <2>3. CASE Move(t, Cleared(task[t], IF task[t].mode = "upload" THEN "sub" ELSE "next", FALSE))
      BY <2>1, <2>3, ClearedIs, MoveIs DEF Judging
    <2> QED
      BY <1>6, <2>2, <2>3 DEF Record
  <1>7. CASE DebRecord(t) \/ RpmRecord(t) \/ ApkRecord(t)
    BY <1>6, <1>7 DEF DebRecord, RpmRecord, ApkRecord
  <1>8. ASSUME NEW k, NEW ok, Publish(t, k, ok) PROVE Harmless(t)
    BY <1>8, ClearedIs, MoveIs DEF Publish, Runs, Ended, Judging
  <1>9. CASE DebPublish(t) \/ RpmPublish(t) \/ ApkPublish(t)
    BY <1>8, <1>9 DEF DebPublish, RpmPublish, ApkPublish
  <1> QED
    BY <1>1, <1>3, <1>4, <1>5, <1>7, <1>9

\* The list of a fetch, of each format.
LEMMA FetchHarmless ==
    ASSUME Inv, NEW t \in Tasks,
           \/ AptLook(t) \/ RpmLook(t) \/ ApkLook(t) \/ AptResolve(t) \/ RpmResolve(t) \/ ApkResolve(t)
           \/ AptNext(t) \/ RpmNext(t) \/ ApkNext(t) \/ AptMissed(t) \/ LeftOut(t)
    PROVE  Harmless(t)
  <1>1. ASSUME NEW k, Look(t, k) PROVE Harmless(t)
    <2>1. Runs(t) /\ task[t].step \notin Judging /\ UNCHANGED <<pool, server>>
      BY <1>1 DEF Look, Fetches, Runs, Ended, repo, Judging
    <2>2. CASE Step(t, "resolve")
      BY <2>1, <2>2, StepIs DEF Judging
    <2>3. CASE Move(t, Over(task[t], "done", TRUE))
      BY <2>1, <2>3, OverStepIs
    <2>4. CASE Move(t, [task[t] EXCEPT !.synced = TRUE])
      BY <2>1, <2>4, OnwardStepIs DEF Inv, TasksType, Shape, Idle
    <2> QED
      BY <1>1, <2>2, <2>3, <2>4 DEF Look
  <1>2. ASSUME NEW k, NEW todo, Resolve(t, k, todo) PROVE Harmless(t)
    <2>1. Runs(t) /\ UNCHANGED <<pool, server>>
      BY <1>2 DEF Resolve, Fetches, Runs, Ended, repo
    <2>2. Move(t, [task[t] EXCEPT !.step = "next", !.todo = todo])
      BY <1>2 DEF Resolve
    <2> QED
      BY <2>1, <2>2, OnwardStepIs DEF Inv, TasksType, Shape, Idle, Judging
  <1>3. CASE AptNext(t)
    <2>1. Runs(t) /\ task[t].step = "next" /\ UNCHANGED <<pool, server>>
      BY <1>3 DEF AptNext, Fetches, Runs, Ended, repo
    <2>2. CASE Finish(t)
      BY <2>1, <2>2, OverStepIs DEF Finish
    <2>3. CASE \E v : Take(t, v)
      BY <2>1, <2>3, TakeIs
    <2>4. CASE Leave(t, TRUE)
      BY <2>1, <2>4, LeaveIs
    <2>5. CASE Move(t, [task[t] EXCEPT !.synced = TRUE])
      BY <2>1, <2>5, OnwardStepIs DEF Inv, TasksType, Shape, Idle, Judging
    <2> QED
      BY <1>3, <2>2, <2>3, <2>4, <2>5 DEF AptNext
  <1>4. CASE RpmNext(t) \/ ApkNext(t)
    <2>1. Runs(t) /\ task[t].step = "next" /\ UNCHANGED <<pool, server>>
      BY <1>4 DEF RpmNext, ApkNext, Fetches, Runs, Ended, repo
    <2>2. Finish(t) \/ (\E v : Take(t, v)) \/ (\E bad \in BOOLEAN : Leave(t, bad))
      BY <1>4 DEF RpmNext, ApkNext
    <2> QED
      BY <2>1, <2>2, OverStepIs, TakeIs, LeaveIs DEF Finish
  <1>5. CASE AptMissed(t)
    <2>1. Runs(t) /\ UNCHANGED <<pool, server>>
      BY <1>5 DEF AptMissed, Fetches, Runs, Ended, repo
    <2>2. CASE Return(t, TRUE)
      BY <2>1, <2>2, ReturnIs
    <2>3. ASSUME NEW row,
                 Move(t, [Cleared(task[t], IF row = 0 THEN "next" ELSE "lock", row = 0)
                                                 EXCEPT !.synced = TRUE, !.version = row])
          PROVE  Harmless(t)
      <3> DEFINE held == Cleared(task[t], IF row = 0 THEN "next" ELSE "lock", row = 0)
                 w    == [held EXCEPT !.synced = TRUE, !.version = row]
      <3>1. Sound(t, held)
        BY <2>1, ClearedIs DEF Judging
      <3> HIDE DEF held
      <3>2. Sound(t, w)
        BY <3>1 DEF Sound, Shape, Idle
      <3>3. Move(t, w)
        BY <2>3 DEF held
      <3> QED
        BY <2>1, <3>2, <3>3, MoveIs
    <2> QED
      BY <1>5, <2>2, <2>3 DEF AptMissed
  <1>6. CASE LeftOut(t)
    BY <1>6, ReturnIs DEF LeftOut, Runs, Ended, repo
  <1> QED
    BY <1>1, <1>2, <1>3, <1>4, <1>5, <1>6
       DEF AptLook, RpmLook, ApkLook, AptResolve, RpmResolve, ApkResolve

\* An upload, from the file to the dependencies that it misses.
LEMMA UploadHarmless ==
    ASSUME Inv, NEW t \in Tasks,
           \/ UploadReceived(t) \/ UploadScan(t) \/ UploadMove(t) \/ UploadSave(t) \/ UploadOffer(t)
           \/ UploadNeeds(t) \/ UploadNext(t) \/ UploadMissed(t) \/ UploadSub(t)
    PROVE  Harmless(t)
  <1>1. CASE UploadReceived(t)
    <2>1. Runs(t) /\ Kind[task[t].pkg] \in Kinds /\ UNCHANGED <<pool, server>>
      BY <1>1 DEF UploadReceived, Runs, Ended, repo, Inv, KindKnown, Judging
    <2>2. Move(t, Over(task[t], "done", TRUE)) \/ Step(t, "scan")
      BY <1>1 DEF UploadReceived
    <2> QED
      BY <2>1, <2>2, OverStepIs, StepIs
  <1>2. CASE UploadScan(t)
    <2> DEFINE lacks == Missing(task[t].pkg)
    <2>1. Runs(t) /\ Kind[task[t].pkg] \in Kinds /\ UNCHANGED <<pool, server>>
      BY <1>2 DEF UploadScan, Runs, Ended, repo, Inv, KindKnown, Judging
    <2>2. PICK o \in Outcomes[Format(t)][lacks # {}] :
            IF ~o.passed THEN Move(t, Over(task[t], "done", TRUE))
            ELSE Move(t, [task[t] EXCEPT !.step = "move", !.cve = o.cve, !.refused = o.refused, !.lacks = lacks])
      BY <1>2 DEF UploadScan
    <2> HIDE DEF lacks
    <2>3. CASE ~o.passed
      BY <2>1, <2>2, <2>3, OverStepIs
    <2>4. CASE o.passed
      <3>1. o.refused \subseteq {"review"}
        BY <2>1, <2>4, OutcomeIs DEF Format
      <3>2. /\ "move" \notin Judging
            /\ Move(t, [task[t] EXCEPT !.step = "move", !.cve = o.cve, !.refused = o.refused, !.lacks = lacks])
        BY <2>2, <2>4 DEF Judging
      <3> QED
        BY <2>1, <3>1, <3>2, PassIs
    <2> QED
      BY <2>3, <2>4
  <1>3. CASE UploadMove(t)
    BY <1>3, PutIs, PutStepIs DEF UploadMove, Runs, Ended, Judging
  <1>4. CASE UploadSave(t)
    <2>1. Runs(t) /\ UNCHANGED <<pool, server>> /\ Step(t, IF task[t].cve = "pending_review" THEN "need" ELSE "offer")
      BY <1>4 DEF UploadSave, Runs, Ended
    <2> QED
      BY <2>1, StepIs DEF Judging
  <1>5. CASE UploadOffer(t)
    BY <1>5, StepIs DEF UploadOffer, Runs, Ended, Judging
  <1>6. CASE UploadNeeds(t)
    <2> DEFINE held == Cleared(task[t], "next", FALSE)
               w    == [held EXCEPT !.todo = InOrder(task[t].lacks), !.seen = task[t].lacks]
    <2>1. Runs(t) /\ UNCHANGED <<pool, server>> /\ Move(t, w)
      BY <1>6 DEF UploadNeeds, Runs, Ended, repo
    <2>2. Sound(t, held)
      BY <2>1, ClearedIs DEF Judging
    <2> HIDE DEF held
    <2>3. Sound(t, w)
      BY <2>2 DEF Sound, Shape, Idle
    <2> QED
      BY <2>1, <2>3, MoveIs
  <1>7. CASE UploadNext(t)
    <2>1. Runs(t) /\ UNCHANGED <<pool, server>> /\ (UploadEnds(t, FALSE) \/ Take(t, 0))
      BY <1>7 DEF UploadNext, Runs, Ended, repo
    <2> QED
      BY <2>1, OverStepIs, TakeIs DEF UploadEnds
  <1>8. CASE UploadMissed(t)
    <2>1. Runs(t) /\ UNCHANGED <<pool, server>>
      BY <1>8 DEF UploadMissed, Runs, Ended, repo
    <2>2. CASE Return(t, TRUE)
      BY <2>1, <2>2, ReturnIs
    <2>3. CASE Move(t, [task[t] EXCEPT !.step = "lock", !.synced = TRUE])
      BY <2>1, <2>3, OnwardStepIs DEF Inv, TasksType, Shape, Idle, Judging
    <2> QED
      BY <1>8, <2>2, <2>3 DEF UploadMissed
  <1>9. CASE UploadSub(t)
    <2> DEFINE todo == task[t].todo \o InOrder(absent[task[t].pkg] \ task[t].seen)
               seen == task[t].seen \cup absent[task[t].pkg]
    <2>1. Runs(t) /\ UNCHANGED <<pool, server>>
      BY <1>9 DEF UploadSub, Runs, Ended, repo
    <2>2. Move(t, [task[t] EXCEPT !.step = "next", !.pkg = NoPackage, !.todo = todo, !.seen = seen])
      BY <1>9 DEF UploadSub
    <2> HIDE DEF todo, seen
    <2> QED
      BY <2>1, <2>2, OnwardStepIs DEF Inv, TasksType, Shape, Idle, Judging
  <1> QED
    BY <1>1, <1>2, <1>3, <1>4, <1>5, <1>6, <1>7, <1>8, <1>9

LEMMA StopJobIs ==
    ASSUME Inv, NEW t \in Tasks, StopJob(t), UNCHANGED <<pool, server>>
    PROVE  Harmless(t)
  <1>1. Runs(t) /\ Move(t, [task[t] EXCEPT !.stop = TRUE])
    BY DEF StopJob, Mirrors
  <1> QED
    BY <1>1, OnwardStepIs DEF Inv, TasksType, Shape, Idle, KindKnown

\* A mirror job at work, what a user asks of a request at work, and its exceptions.
LEMMA JobHarmless ==
    ASSUME Inv, NEW t \in Tasks,
           \/ MirrorSync(t) \/ MirrorList(t) \/ MirrorNext(t) \/ Raise(t) \/ Disconnect(t)
           \/ UploadBreaks(t) \/ Cancel(t)
    PROVE  Harmless(t)
  <1>1. CASE MirrorSync(t)
    BY <1>1, StepIs DEF MirrorSync, Runs, Ended, repo, Judging
  <1>2. CASE MirrorList(t)
    <2>1. Runs(t) /\ UNCHANGED <<pool, server>>
      BY <1>2 DEF MirrorList, Runs, Ended, repo
    <2>2. PICK todo, asof : Move(t, [task[t] EXCEPT !.step = "next", !.todo = todo, !.asof = asof])
      BY <1>2 DEF MirrorList
    <2> QED
      BY <2>1, <2>2, OnwardStepIs DEF Inv, TasksType, Shape, Idle, Judging
  <1>3. CASE MirrorNext(t)
    <2>1. Runs(t) /\ UNCHANGED <<pool, server>>
          /\ (Move(t, Over(task[t], "done", FALSE)) \/ \E v : Take(t, v))
      BY <1>3 DEF MirrorNext, Runs, Ended, repo
    <2> QED
      BY <2>1, OverStepIs, TakeIs
  <1>4. CASE Raise(t)
    <2>1. Runs(t) /\ UNCHANGED <<pool, server>>
          /\ (Return(t, TRUE) \/ Move(t, Over(task[t], "done", TRUE)))
      BY <1>4 DEF Raise, Locked, Runs, Ended
    <2> QED
      BY <2>1, ReturnIs, OverStepIs
  <1>5. CASE Disconnect(t)
    BY <1>5, OverStepIs DEF Disconnect, repo
  <1>6. CASE UploadBreaks(t)
    BY <1>6, OverStepIs DEF UploadBreaks, UploadEnds, repo
  <1>7. CASE Cancel(t)
    BY <1>7, StopJobIs DEF Cancel, repo
  <1> QED
    BY <1>1, <1>2, <1>3, <1>4, <1>5, <1>6, <1>7

--------------------------------------------------------------------------------
\* A request begins: what its task is.
LEMMA BeginIs ==
    ASSUME Inv, NEW t \in Tasks, NEW mode \in Modes, NEW r, NEW step, Begin(t, mode, r, step)
    PROVE  \E w : /\ Move(t, w) /\ Shape(w) /\ w.refused = {} /\ w.mode = mode
                  /\ w.step = step /\ w.home = r
                  /\ mode = "upload" => Kind[w.pkg] \in Kinds
  <1>1. PICK plan \in Plans, v \in IF mode = "upload" THEN Uploads ELSE {0} :
          /\ t \in DOMAIN plan
          /\ Move(t, [Idle EXCEPT !.mode = mode, !.target = plan[t].target, !.step = step, !.home = r,
                                  !.pkg = IF v = 0 THEN NoPackage ELSE plan[t].target, !.got = v])
    BY DEF Begin
  <1>2. plan[t].target \in Packages
    <2>1. PICK S \in SUBSET Tasks : plan \in [S -> Job]
      BY ImportsAssumption
    <2> QED
      BY <1>1, <2>1 DEF Job
  <1>3. mode = "upload" => v # 0
    BY ImportsAssumption
  <1>4. Kind[plan[t].target] \in Kinds
    BY <1>2, ImportsAssumption
  <1> DEFINE w == [Idle EXCEPT !.mode = mode, !.target = plan[t].target, !.step = step, !.home = r,
                               !.pkg = IF v = 0 THEN NoPackage ELSE plan[t].target, !.got = v]
  <1>5. /\ Shape(w) /\ w.refused = {} /\ w.mode = mode /\ w.step = step /\ w.home = r
        /\ w.pkg = IF v = 0 THEN NoPackage ELSE plan[t].target
    BY DEF Shape, Idle
  <1>6. Move(t, w)
    BY <1>1
  <1> HIDE DEF w
  <1> QED
    BY <1>3, <1>4, <1>5, <1>6

LEMMA RequestHarmless ==
    ASSUME Inv, NEW t \in Tasks, FetchPackage(t) \/ UploadStart(t)
    PROVE  Harmless(t)
  <1>1. UNCHANGED <<pool, server>>
    BY DEF FetchPackage, UploadStart, repo
  <1>2. ASSUME NEW r, NEW mode \in {"fetch", "upload"}, NEW step, step \in Judging => mode = "upload",
               Begin(t, mode, r, step)
        PROVE  Harmless(t)
    <2>0. mode \in Modes
      BY DEF Modes
    <2>1. PICK w : /\ Move(t, w) /\ Shape(w) /\ w.refused = {} /\ w.mode = mode
                   /\ w.step = step /\ w.home = r
                   /\ mode = "upload" => Kind[w.pkg] \in Kinds
      <3>1. Begin(t, mode, r, step)
        BY <1>2
      <3> HIDE <1>2
      <3> QED
        BY <2>0, <3>1, BeginIs
    <2>2. Sound(t, w)
      BY <1>2, <2>1 DEF Sound
    <2> QED
      BY <1>1, <2>1, <2>2, MoveIs
  <1>3. CASE FetchPackage(t)
    BY <1>2, <1>3 DEF FetchPackage, Judging
  <1>4. CASE UploadStart(t)
    BY <1>2, <1>4 DEF UploadStart
  <1> QED
    BY <1>3, <1>4

\* A mirror job begins on a leader that has none.
LEMMA StartJobKeeps ==
    ASSUME Inv, NEW t \in Tasks, NEW r \in Replicas, StartJob(t, r), UNCHANGED <<pool, server>>
    PROVE  Inv'
  <1>1. leader[r] = "leader" /\ \A u \in Tasks : task[u].home = r => ~Mirrors(u)
    BY DEF StartJob, MayMirror
  <1>2. PICK w : /\ Move(t, w) /\ Shape(w) /\ w.refused = {} /\ w.mode = "mirror"
                 /\ w.step = "sync" /\ w.home = r
    BY BeginIs DEF StartJob, Modes
  <1>3. task'[t] = w /\ DOMAIN task' = Tasks /\ \A u \in Tasks \ {t} : task'[u] = task[u]
    BY <1>2 DEF Move, Inv, TasksType
  <1>4. \A u \in Tasks : u # t => (Mirrors(u)' <=> Mirrors(u))
    BY <1>3 DEF Mirrors, Runs
  <1>5. PoolIsCleared' /\ HoldsCleared' /\ TasksType'
    BY <1>2, <1>3 DEF Inv, PoolIsCleared, HoldsCleared, TasksType
  <1>6. KindKnown' /\ ServerType' /\ LeadersHold'
    BY <1>2, <1>3 DEF Inv, KindKnown, Judging, ServerType, LeadersHold, server
  <1>7. MirrorsLed'
    BY <1>1, <1>2, <1>3, <1>4 DEF Inv, MirrorsLed, server
  <1>8. OneEach'
    BY <1>1, <1>2, <1>3, <1>4 DEF Inv, OneEach
  <1> QED
    BY <1>5, <1>6, <1>7, <1>8 DEF Inv

--------------------------------------------------------------------------------
\* The replicas: elections, lost connections, stops and crashes.
LEMMA ServerKeeps ==
    ASSUME Inv, NEW r \in Replicas, Elect(r) \/ LoseConnection(r) \/ Release(r)
    PROVE  Inv'
  <1>1. UNCHANGED <<pool, task>>
    BY DEF Elect, LoseConnection, Release, repo
  <1>2. \A t \in Tasks : Mirrors(t)' <=> Mirrors(t)
    BY <1>1 DEF Mirrors, Runs
  <1>3. PoolIsCleared' /\ HoldsCleared' /\ TasksType' /\ KindKnown' /\ OneEach'
    BY <1>1, <1>2 DEF Inv, PoolIsCleared, HoldsCleared, TasksType, KindKnown, OneEach
  <1>4. ServerType' /\ LeadersHold' /\ MirrorsLed'
    <2>1. CASE Elect(r)
      <3>1. NoReplica \notin Replicas
        BY ImportsAssumption
      <3> QED
        BY <1>1, <1>2, <2>1, <3>1 DEF Elect, Inv, ServerType, LeadersHold, MirrorsLed
    <2>2. CASE LoseConnection(r)
      BY <1>1, <1>2, <2>2 DEF LoseConnection, Inv, ServerType, LeadersHold, MirrorsLed
    <2>3. CASE Release(r)
      <3>1. ServerType'
        BY <2>3 DEF Release, Inv, ServerType
      <3>2. LeadersHold'
        BY <2>3 DEF Release, Up, Inv, ServerType, LeadersHold
      <3>3. MirrorsLed'
        BY <1>1, <1>2, <2>3 DEF Release, Inv, ServerType, MirrorsLed
      <3> QED
        BY <3>1, <3>2, <3>3
    <2> QED
      BY <2>1, <2>2, <2>3
  <1> QED
    BY <1>3, <1>4 DEF Inv

LEMMA ExitKeeps ==
    ASSUME Inv, NEW r \in Replicas, Exit(r)
    PROVE  Inv'
  <1>1. UNCHANGED <<pool, lapsed>>
    BY DEF Exit, repo
  <1>2. task' = [t \in Tasks |-> IF task[t].home = r /\ Runs(t) THEN Over(task[t], "lost", TRUE) ELSE task[t]]
    BY DEF Exit
  <1>3. ASSUME NEW t \in Tasks
        PROVE  /\ Shape(task'[t]) /\ task'[t].refused \subseteq {"review"}
               /\ task'[t].step \in Judging => Kind[task'[t].pkg] \in Kinds
               /\ Mirrors(t)' => Mirrors(t) /\ task'[t].home = task[t].home /\ task[t].home # r
    <2>1. CASE task[t].home = r /\ Runs(t)
      <3>1. task'[t] = Over(task[t], "lost", TRUE)
        BY <1>2, <2>1
      <3>2. task'[t].step = "lost"
        BY <3>1 DEF Over, Idle
      <3>3. Sound(t, task'[t])
        BY <3>1, OverIs
      <3> QED
        BY <3>2, <3>3 DEF Sound, Mirrors, Runs, Ended
    <2>2. CASE ~(task[t].home = r /\ Runs(t))
      <3>1. task'[t] = task[t]
        BY <1>2, <2>2
      <3> QED
        BY <2>2, <3>1 DEF Inv, TasksType, HoldsCleared, KindKnown, Mirrors, Runs
    <2> QED
      BY <2>1, <2>2
  <1>4. PoolIsCleared' /\ HoldsCleared' /\ TasksType' /\ KindKnown'
    BY <1>1, <1>2, <1>3 DEF Inv, PoolIsCleared, HoldsCleared, TasksType, KindKnown
  <1>5. ServerType' /\ LeadersHold'
    BY <1>1 DEF Exit, Inv, ServerType, LeadersHold
  <1>6. \A t \in Tasks : Mirrors(t)' => Mirrors(t) /\ task'[t].home = task[t].home /\ task[t].home # r
    BY <1>3
  <1>7. \A s \in Replicas \ {r} : leader'[s] = leader[s]
    BY DEF Exit, Inv, ServerType
  <1>8. MirrorsLed'
    BY <1>1, <1>6, <1>7 DEF Inv, MirrorsLed
  <1>9. OneEach'
    BY <1>6 DEF Inv, OneEach
  <1> QED
    BY <1>4, <1>5, <1>8, <1>9 DEF Inv

--------------------------------------------------------------------------------
LEMMA NextKeeps == Inv /\ [Next]_vars => Inv'
  <1> SUFFICES ASSUME Inv, [Next]_vars PROVE Inv'
    OBVIOUS
  <1>1. ASSUME NEW t \in Tasks, Import(t) PROVE Inv'
    BY <1>1, ImportOneHarmless, FetchHarmless, UploadHarmless, JobHarmless, HarmlessKeeps DEF Import
  <1>2. ASSUME NEW t \in Tasks, Ask(t) PROVE Inv'
    <2>1. CASE FetchPackage(t) \/ UploadStart(t) \/ Cancel(t) \/ Raise(t) \/ Disconnect(t) \/ UploadBreaks(t)
      BY <2>1, RequestHarmless, JobHarmless, HarmlessKeeps
    <2>2. CASE MirrorStart(t)
      BY <2>2, StartJobKeeps DEF MirrorStart, repo
    <2>3. CASE RunScheduledMirror(t)
      <3>1. UNCHANGED <<pool, server>>
        BY <2>3 DEF RunScheduledMirror, repo
      <3>2. CASE \E r \in Replicas : StartJob(t, r)
        BY <3>1, <3>2, StartJobKeeps
      <3>3. CASE StopJob(t)
        BY <3>1, <3>3, StopJobIs, HarmlessKeeps
      <3> QED
        BY <2>3, <3>2, <3>3 DEF RunScheduledMirror
    <2> QED
      BY <1>2, <2>1, <2>2, <2>3 DEF Ask
  <1>3. ASSUME NEW k \in Kinds, Sync(k) PROVE Inv'
    <2>1. UNCHANGED <<pool, task, server>>
      BY <1>3 DEF Sync, repo
    <2>2. \A t \in Tasks : Mirrors(t)' <=> Mirrors(t)
      BY <2>1 DEF Mirrors, Runs
    <2> QED
      BY <2>1, <2>2 DEF Inv, PoolIsCleared, HoldsCleared, TasksType, KindKnown, ServerType, LeadersHold,
                        MirrorsLed, OneEach, server
  <1>4. ASSUME NEW r \in Replicas, Elect(r) \/ LoseConnection(r) \/ Release(r) \/ Exit(r) PROVE Inv'
    BY <1>4, ServerKeeps, ExitKeeps
  <1>5. CASE UNCHANGED vars
    <2>1. \A t \in Tasks : Mirrors(t)' <=> Mirrors(t)
      BY <1>5 DEF Mirrors, Runs, vars
    <2> QED
      BY <1>5, <2>1 DEF Inv, PoolIsCleared, HoldsCleared, TasksType, KindKnown, ServerType, LeadersHold,
                        MirrorsLed, OneEach, vars
  <1> QED
    BY <1>1, <1>2, <1>3, <1>4, <1>5 DEF Next

\* Whoever imports, uploads or mirrors and whatever becomes of the replicas, no file enters the pool
\* (shutil.copy2 of _import_one_locked, the move of an upload) with more than a review against it.
THEOREM KeptIsCleared == Spec => []PoolIsCleared
  <1>1. Inv => PoolIsCleared
    BY DEF Inv
  <1> QED
    BY <1>1, InitInv, NextKeeps, PTL DEF Spec

\* Two mirror jobs are never at work together (start_job() of mirror_manager.py, require_leader of
\* leader_election.py), until an election fails, a connection breaks or a leader leaves its job behind.
THEOREM OneMirrorHolds == Spec => []OneMirror
  <1>1. Inv => OneMirror
    <2> SUFFICES ASSUME Inv, ~lapsed, NEW t \in Tasks, NEW u \in Tasks, Mirrors(t), Mirrors(u) PROVE t = u
      BY DEF OneMirror
    <2>1. lock = task[t].home /\ lock = task[u].home
      BY DEF Inv, LeadersHold, MirrorsLed
    <2> QED
      BY <2>1 DEF Inv, OneEach
  <1> QED
    BY <1>1, InitInv, NextKeeps, PTL DEF Spec
--------------------------------------------------------------------------------
(***************************************************************************)
(* The files, the locks and what was published.                            *)
(***************************************************************************)

\* The k-th of some places of a sequence is one of them.
LEMMA PlaceIs ==
    ASSUME NEW n \in Nat, NEW at \in SUBSET (1 .. n), NEW k \in 1 .. Cardinality(at)
    PROVE  \E i \in at : Cardinality(Upto(at, i)) = k
  <1>0. \A j \in at : j \in Int /\ 1 <= j /\ j <= n
    OBVIOUS
  <1>1. IsFiniteSet(at) /\ Cardinality(at) \in Nat
    <2>1. IsFiniteSet(1 .. n)
      BY FS_Interval
    <2>2. IsFiniteSet(at)
      BY <2>1, FS_Subset
    <2> QED
      BY <2>2, FS_CardinalityType
  <1>2. \A i \in Nat : IsFiniteSet(Upto(at, i)) /\ Cardinality(Upto(at, i)) \in Nat
    <2> SUFFICES ASSUME NEW i \in Nat PROVE IsFiniteSet(Upto(at, i)) /\ Cardinality(Upto(at, i)) \in Nat
      OBVIOUS
    <2>1. Upto(at, i) \in SUBSET at
      BY DEF Upto
    <2> QED
      BY <1>1, <2>1, FS_Subset, FS_CardinalityType
  <1> DEFINE N == {i \in Nat : Cardinality(Upto(at, i)) >= k}
  <1>3. n \in N
    <2>1. \A j : j \in Upto(at, n) <=> j \in at
      BY <1>0 DEF Upto
    <2>2. Upto(at, n) = at
      BY <2>1
    <2> QED
      BY <1>1, <2>2
  <1>4. PICK i \in N : \A j \in N : ~(<<j, i>> \in OpToRel(<, Nat))
    BY <1>3, WFMin, NatLessThanWellFounded
  <1>5. \A j \in N : ~(j < i)
    BY <1>4, Zenon DEF OpToRel
  <1>6. i # 0
    <2>1. \A j \in at : ~(j <= 0)
      BY <1>0
    <2>2. Upto(at, 0) = {}
      BY <2>1 DEF Upto
    <2> QED
      BY <2>2, FS_EmptySet
  <1>7. i - 1 \in Nat /\ Cardinality(Upto(at, i - 1)) < k
    <2>1. i - 1 \in Nat /\ i - 1 \notin N
      BY <1>5, <1>6
    <2> QED
      BY <1>2, <2>1
  <1>8. i \in at
    <2>1. ASSUME i \notin at PROVE \A j \in at : j <= i <=> j <= i - 1
      BY <1>0, <1>7, <2>1
    <2>2. i \notin at => Upto(at, i) = Upto(at, i - 1)
      BY <2>1 DEF Upto
    <2> QED
      BY <1>2, <1>7, <2>2
  <1>9. Cardinality(Upto(at, i)) = Cardinality(Upto(at, i - 1)) + 1
    <2>1. ~(i <= i - 1) /\ \A j \in at : j <= i <=> j <= i - 1 \/ j = i
      BY <1>0, <1>7, <1>8
    <2>2. Upto(at, i) = Upto(at, i - 1) \cup {i} /\ i \notin Upto(at, i - 1)
      BY <1>8, <2>1 DEF Upto
    <2> QED
      BY <1>2, <1>7, <2>2, FS_AddElement
  <1>10. Cardinality(Upto(at, i)) >= k
    OBVIOUS
  <1> HIDE DEF N
  <1> QED
    BY <1>2, <1>7, <1>8, <1>9, <1>10

\* What the lists of a task are made of.
LEMMA InOrderIs ==
    ASSUME NEW S
    PROVE  InOrder(S) \in Seq(Packages)
  <1> DEFINE T  == S \cap Packages
             at == {i \in DOMAIN Order : Order[i] \in T}
             n  == Cardinality(at)
             f  == [k \in 1 .. n |-> Order[CHOOSE i \in at : Cardinality(Upto(at, i)) = k]]
  <1>1. Order \in Seq(Packages) /\ Len(Order) \in Nat /\ DOMAIN Order = 1 .. Len(Order)
    BY ImportsAssumption
  <1>2. at \in SUBSET (1 .. Len(Order))
    BY <1>1
  <1>3. n \in Nat
    <2>1. IsFiniteSet(1 .. Len(Order))
      BY <1>1, FS_Interval
    <2> HIDE DEF at
    <2>2. IsFiniteSet(at)
      BY <1>2, <2>1, FS_Subset
    <2> QED
      BY <2>2, FS_CardinalityType
  <1>4. ASSUME NEW k \in 1 .. n PROVE f[k] \in Packages
    <2> DEFINE i == CHOOSE i \in at : Cardinality(Upto(at, i)) = k
    <2>1. \E j \in at : Cardinality(Upto(at, j)) = k
      BY <1>1, <1>2, PlaceIs
    <2>2. i \in at
      BY <2>1
    <2> QED
      BY <1>1, <2>2
  <1>5. f \in Seq(Packages)
    <2> HIDE DEF n
    <2>1. f \in [1 .. n -> Packages]
      BY <1>4
    <2> HIDE DEF f
    <2> QED
      BY <1>3, <2>1
  <1>6. InOrder(S) = f
    BY DEF InOrder, Ordered
  <1> QED
    BY <1>5, <1>6

\* What a task is, whatever it does: the part of TypeOK that is about one task.
TaskOK(w) ==
    /\ w \in Task
    /\ w.step # "idle" => w.target \in Packages
    /\ w.step \notin {"idle"} \cup Ended => w.home \in Replicas
    /\ w.step \in Locked \cup Admitted \cup {"lock", "missed", "sub"} => w.pkg \in Packages
    /\ w.step \in Admitted \cup {"validate", "keep", "record", "publish"} => w.got # 0

\* Where the file of a task is one of the index, where the task publishes it.
Fetched  == {"validate", "keep", "record", "publish"}
Offering == {"publish", "offer"}

\* What a task holds of a file: nothing against it when it is approved, as it is when it is offered; it is
\* a version that the index lists, or one of the user's own.
Vetted(w) ==
    /\ w.cve = "approved" => w.refused = {}
    /\ w.step \in Offering => w.cve = "approved"
    /\ w.step \in Fetched => w.got \in Listed[w.pkg]
    /\ w.step \in Admitted => w.mode = "upload" /\ w.pkg = w.target /\ w.got \in Uploads
HeldIsVetted == \A t \in Tasks : Vetted(task[t])

\* In a process, one task at a time holds the lock of a package.
LocksHold ==
    \A t, u \in Tasks :
        /\ task[t].step \in Locked /\ task[u].step \in Locked
        /\ task[t].home = task[u].home /\ task[t].pkg = task[u].pkg
        => t = u

\* What a process has published is there still, for the check of the next import to see.
Seen(e) == /\ Kind[e[2]] = "deb" => Same(published, e[2], e[3]) # {}
           /\ Kind[e[2]] = "apk" => Files(pool, e[2]) # {}
SentIsSeen == \A e \in sent : Seen(e)

\* The version that an import has checked under the lock was not published by its process, nor is it while
\* the lock is held, but by an upload, which finds the lock taken.
StillNew(t) == task[t].step \in Locked /\ Format(t) # "rpm" /\ task[t].version # 0
                   => <<task[t].home, task[t].pkg, task[t].version, TRUE>> \notin sent
CheckHolds  == \A t \in Tasks : StillNew(t)

Typed == TypeOK /\ HeldIsVetted /\ LocksHold /\ SentIsSeen /\ CheckHolds

--------------------------------------------------------------------------------
\* What a task may become by a step of its own.
Fit(t, w) ==
    /\ TaskOK(w) /\ Vetted(w)
    /\ task[t].step # "idle" /\ w.step # "idle" /\ w.mode = task[t].mode /\ w.target = task[t].target
    /\ w.step \notin Ended => w.home = task[t].home
    /\ w.step \in Locked => /\ w.pkg = task[t].pkg /\ w.version = task[t].version
                            /\ \/ task[t].step \in Locked
                               \/ task[t].step = "lock" /\ LockFree(t) /\ ~Present(w.pkg, w.version)
    /\ w.step \in Carrying => /\ task[t].step \in Carrying \cup {"keep", "move"}
                              /\ w.pkg = task[t].pkg /\ w.got = task[t].got
                              /\ w.cve = task[t].cve /\ w.refused = task[t].refused
                              /\ w.step \in Admitted <=> task[t].step \in Admitted

\* What a step does to the files: nothing, a copy into the pool, or a publication.
Leaves(t) ==
    /\ UNCHANGED <<pool, published, sent>>
    /\ task'[t].step \in Carrying => task[t].step \in Carrying
Stores(t) ==
    /\ task[t].step \in {"keep", "move"}
    /\ pool' = Put(pool, [pkg |-> task[t].pkg, version |-> task[t].got, refused |-> task[t].refused,
                          by |-> Workers(t)])
    /\ UNCHANGED <<published, sent>>
Publishes(t) ==
    /\ task[t].step \in Offering /\ task'[t].step \notin Carrying \cup Locked
    /\ UNCHANGED pool
    /\ \E f \in Same(pool, task[t].pkg, task[t].got) :
         \/ published' \in {published, Put(published, f)} /\ sent' = sent
         \/ published' = Put(published, f) /\ sent' = sent \cup {Entry(t)}

\* A step of a task that is at work.
Works(t) ==
    /\ index' \in [Kinds -> Nat]
    /\ recorded' \subseteq Packages /\ absent' \in [Packages -> SUBSET Packages]
    /\ task' = [task EXCEPT ![t] = task'[t]] /\ Fit(t, task'[t])
    /\ Leaves(t) \/ Stores(t) \/ Publishes(t)
    /\ UNCHANGED server

\* The types, in the words of TaskOK.
LEMMA TaskTyped ==
    ASSUME TypeOK, NEW t \in Tasks
    PROVE  TaskOK(task[t])
  BY DEF TypeOK, TaskOK, Runs

\* Fields that any task has.
LEMMA Fields ==
    ASSUME NEW w \in Task
    PROVE  /\ w.mode \in Modes /\ w.target \in Packages \cup {NoPackage} /\ w.step \in Steps
           /\ w.todo \in Seq(Packages) /\ w.seen \subseteq Packages /\ w.pkg \in Packages \cup {NoPackage}
           /\ w.version \in Nat /\ w.got \in Nat /\ w.asof \in Nat /\ w.cve \in {"approved", "pending_review"}
           /\ w.lacks \subseteq Packages /\ w.home \in Replicas \cup {NoReplica}
  BY DEF Task

\* The steps that take part in none of this but the type.
Plain == {"look", "resolve", "sync", "list", "need", "next", "lock", "missed", "sub"}
LEMMA PlainFits ==
    ASSUME Typed, NEW t \in Tasks, Runs(t), NEW w \in Task, w.step \in Plain,
           w.mode = task[t].mode, w.target = task[t].target, w.home = task[t].home,
           w.step \in {"lock", "missed", "sub"} => w.pkg \in Packages,
           w.cve = "approved" => w.refused = {}
    PROVE  Fit(t, w)
  <1>1. TaskOK(task[t]) /\ task[t].step # "idle" /\ task[t].step \notin {"idle"} \cup Ended
    BY TaskTyped DEF Typed, Runs
  <1>2. w.step \notin {"idle"} \cup Ended \cup Locked \cup Admitted \cup Carrying \cup Fetched \cup Offering
    BY DEF Plain, Ended, Locked, Admitted, Carrying, Fetched, Offering
  <1>3. TaskOK(w)
    BY <1>1, <1>2 DEF TaskOK, Fetched
  <1>4. Vetted(w)
    BY <1>2 DEF Vetted
  <1> QED
    BY <1>1, <1>2, <1>3, <1>4 DEF Fit

\* Records with fields of their own.
LEMMA EditTyped ==
    ASSUME NEW v \in Task, NEW step \in Steps, NEW pkg \in Packages \cup {NoPackage}, NEW failed \in BOOLEAN
    PROVE  [v EXCEPT !.step = step, !.pkg = pkg, !.version = 0, !.got = 0, !.cve = "approved",
                     !.refused = {}, !.lacks = {}, !.failed = failed] \in Task
  BY DEF Task
LEMMA EndTyped ==
    ASSUME NEW v \in Task, NEW mode \in Modes, NEW target \in Packages \cup {NoPackage},
           NEW step \in Steps, NEW failed \in BOOLEAN
    PROVE  [v EXCEPT !.mode = mode, !.target = target, !.step = step, !.failed = failed] \in Task
  BY DEF Task

\* The end of an import and of a request.
LEMMA ClearedFits ==
    ASSUME Typed, NEW t \in Tasks, Runs(t), NEW step \in {"next", "missed", "sub", "lock"}, NEW bad \in BOOLEAN,
           step # "next" => task[t].pkg \in Packages
    PROVE  /\ Fit(t, Cleared(task[t], step, bad)) /\ Cleared(task[t], step, bad) \in Task
           /\ Cleared(task[t], step, bad).step = step
           /\ Cleared(task[t], step, bad).mode = task[t].mode /\ Cleared(task[t], step, bad).home = task[t].home
           /\ Cleared(task[t], step, bad).target = task[t].target
           /\ Cleared(task[t], step, bad).pkg = (IF step = "next" THEN NoPackage ELSE task[t].pkg)
           /\ Cleared(task[t], step, bad).refused = {}
  <1> DEFINE w == Cleared(task[t], step, bad)
  <1>1. task[t] \in Task
    BY DEF Typed, TypeOK
  <1>2. w \in Task
    <2>1. step \in Steps
      BY DEF Steps
    <2>2. (IF step = "next" THEN NoPackage ELSE task[t].pkg) \in Packages \cup {NoPackage}
      BY <1>1 DEF Task
    <2>3. (task[t].failed \/ bad) \in BOOLEAN
      OBVIOUS
    <2> HIDE DEF w
    <2> QED
      BY <1>1, <2>1, <2>2, <2>3, EditTyped DEF Cleared, w
  <1>3. /\ w.step = step /\ w.mode = task[t].mode /\ w.home = task[t].home /\ w.target = task[t].target
        /\ w.pkg = (IF step = "next" THEN NoPackage ELSE task[t].pkg) /\ w.refused = {}
    BY <1>1 DEF Cleared, Task
  <1> HIDE DEF w
  <1>4. Fit(t, w)
    BY <1>2, <1>3, PlainFits DEF Plain
  <1> QED
    BY <1>2, <1>3, <1>4 DEF w

LEMMA OverFits ==
    ASSUME Typed, NEW t \in Tasks, Runs(t), NEW step \in Ended, NEW bad \in BOOLEAN
    PROVE  Fit(t, Over(task[t], step, bad))
  <1> DEFINE w == Over(task[t], step, bad)
  <1>1. task[t] \in Task /\ TaskOK(task[t]) /\ task[t].step # "idle"
    BY TaskTyped DEF Typed, TypeOK, Runs
  <1>2. Idle \in Task
    BY EmptySeq DEF Idle, Task, Modes, Steps
  <1>3. w \in Task
    <2>1. step \in Steps /\ (task[t].failed \/ bad) \in BOOLEAN
      BY DEF Steps, Ended
    <2>2. task[t].mode \in Modes /\ task[t].target \in Packages \cup {NoPackage}
      BY <1>1 DEF Task
    <2> HIDE DEF w
    <2> QED
      BY <1>2, <2>1, <2>2, EndTyped DEF Over, w
  <1>4. w.step = step /\ w.mode = task[t].mode /\ w.target = task[t].target /\ w.refused = {}
    BY DEF Over, Idle
  <1>5. w.step \notin {"idle"} \cup Locked \cup Admitted \cup Carrying \cup Fetched \cup Offering
                      \cup {"lock", "missed", "sub"}
    BY <1>4 DEF Ended, Locked, Admitted, Carrying, Fetched, Offering
  <1> HIDE DEF w
  <1>6. TaskOK(w)
    BY <1>1, <1>3, <1>4, <1>5 DEF TaskOK, Fetched
  <1>7. Vetted(w)
    BY <1>4, <1>5 DEF Vetted
  <1>8. w.step # "idle" /\ w.step \in Ended
    BY <1>4 DEF Ended
  <1>9. Fit(t, w)
    BY <1>1, <1>4, <1>5, <1>6, <1>7, <1>8 DEF Fit
  <1> QED
    BY <1>9 DEF w

\* A step further with the same file.
LEMMA OnwardFits ==
    ASSUME Typed, NEW t \in Tasks, Runs(t), NEW w \in Task, w.step \in Locked \cup Admitted,
           w.mode = task[t].mode, w.target = task[t].target, w.home = task[t].home,
           w.pkg = task[t].pkg, w.got = task[t].got, w.version = task[t].version,
           w.cve = "approved" => w.refused = {},
           w.step \in Admitted => task[t].step \in Admitted,
           w.step \in Locked => task[t].step \in Locked,
           w.step \in Fetched => task[t].step \in Fetched,
           w.step \in Offering => w.cve = "approved",
           w.step \in Carrying => /\ task[t].step \in Carrying \cup {"keep", "move"}
                                  /\ w.cve = task[t].cve /\ w.refused = task[t].refused
    PROVE  Fit(t, w)
  <1>1. TaskOK(task[t]) /\ Vetted(task[t])
    BY TaskTyped DEF Typed, HeldIsVetted
  <1>2. task[t].step \notin {"idle"} \cup Ended /\ w.step \notin {"idle"} \cup Ended
    BY DEF Runs, Locked, Admitted, Ended
  <1>3. TaskOK(w)
    BY <1>1, <1>2 DEF TaskOK, Fetched
  <1>4. Vetted(w)
    <2>1. w.step \in Fetched => w.got \in Listed[w.pkg]
      BY <1>1 DEF Vetted
    <2>2. w.step \in Admitted => w.mode = "upload" /\ w.pkg = w.target /\ w.got \in Uploads
      BY <1>1 DEF Vetted
    <2> QED
      BY <2>1, <2>2, Zenon DEF Vetted
  <1>5. w.step \in Locked => task[t].step \in Locked
    OBVIOUS
  <1>6. w.step \in Admitted <=> task[t].step \in Admitted
    BY <1>5 DEF Locked, Admitted
  <1> QED
    BY <1>2, <1>3, <1>4, <1>5, <1>6 DEF Fit

\* A change of the step, and of what else a task may change without another file.
LEMMA StepTyped ==
    ASSUME NEW v \in Task, NEW step \in Steps, NEW w, w = [v EXCEPT !.step = step]
    PROVE  /\ w \in Task /\ w.step = step /\ w.mode = v.mode /\ w.target = v.target /\ w.home = v.home
           /\ w.pkg = v.pkg /\ w.got = v.got /\ w.version = v.version /\ w.cve = v.cve /\ w.refused = v.refused
  BY DEF Task
LEMMA ListTyped ==
    ASSUME NEW v \in Task, NEW step \in Steps, NEW pkg \in Packages \cup {NoPackage}, NEW todo \in Seq(Packages),
           NEW seen \in SUBSET Packages, NEW version \in Nat, NEW asof \in Nat, NEW synced \in BOOLEAN,
           NEW failed \in BOOLEAN, NEW stop \in BOOLEAN, NEW w,
           w = [v EXCEPT !.step = step, !.pkg = pkg, !.todo = todo, !.seen = seen, !.version = version,
                         !.asof = asof, !.synced = synced, !.failed = failed, !.stop = stop]
    PROVE  /\ w \in Task /\ w.step = step /\ w.mode = v.mode /\ w.target = v.target /\ w.home = v.home
           /\ w.pkg = pkg /\ w.got = v.got /\ w.version = version /\ w.cve = v.cve /\ w.refused = v.refused
  BY DEF Task

\* From what a task becomes to a step of the whole.
LEMMA MoveWorks ==
    ASSUME Typed, NEW t \in Tasks, NEW w, Move(t, w), Fit(t, w),
           index' \in [Kinds -> Nat], recorded' \subseteq Packages, absent' \in [Packages -> SUBSET Packages],
           UNCHANGED server,
           \/ UNCHANGED <<pool, published, sent>> /\ (w.step \in Carrying => task[t].step \in Carrying)
           \/ Stores(t)
           \/ /\ task[t].step \in Offering /\ w.step \notin Carrying \cup Locked
              /\ UNCHANGED pool
              /\ \E f \in Same(pool, task[t].pkg, task[t].got) :
                   \/ published' \in {published, Put(published, f)} /\ sent' = sent
                   \/ published' = Put(published, f) /\ sent' = sent \cup {Entry(t)}
    PROVE  Works(t)
  <1>1. task' = [task EXCEPT ![t] = w] /\ DOMAIN task = Tasks
    BY DEF Move, Typed, TypeOK
  <1>2. task'[t] = w
    BY <1>1
  <1>3. task' = [task EXCEPT ![t] = task'[t]] /\ Fit(t, task'[t])
    BY <1>1, <1>2
  <1>4. Leaves(t) \/ Stores(t) \/ Publishes(t)
    BY <1>2 DEF Leaves, Publishes
  <1> QED
    BY <1>3, <1>4 DEF Works

LEMMA QuietWorks ==
    ASSUME Typed, NEW t \in Tasks, NEW w, Move(t, w), Fit(t, w), index' \in [Kinds -> Nat],
           UNCHANGED <<repo, server>>, w.step \in Carrying => task[t].step \in Carrying
    PROVE  Works(t)
  <1>1. recorded' \subseteq Packages /\ absent' \in [Packages -> SUBSET Packages]
    BY DEF repo, Typed, TypeOK
  <1>2. UNCHANGED <<pool, published, sent>> /\ UNCHANGED server
    BY DEF repo
  <1> QED
    BY <1>1, <1>2, MoveWorks

LEMMA PlainWorks ==
    ASSUME Typed, NEW t \in Tasks, Runs(t), NEW w \in Task, Move(t, w), w.step \in Plain,
           w.mode = task[t].mode, w.target = task[t].target, w.home = task[t].home,
           w.step \in {"lock", "missed", "sub"} => w.pkg \in Packages,
           w.cve = task[t].cve, w.refused = task[t].refused,
           index' \in [Kinds -> Nat], UNCHANGED <<repo, server>>
    PROVE  Works(t)
  <1>1. w.cve = "approved" => w.refused = {}
    BY DEF Typed, HeldIsVetted, Vetted
  <1>2. Fit(t, w)
    BY <1>1, PlainFits
  <1> QED
    BY <1>2, QuietWorks DEF Plain, Carrying

\* The index after a refresh.
LEMMA RefreshedTyped ==
    ASSUME Typed, NEW k \in Kinds, NEW g, Refreshed(k, g)
    PROVE  index' \in [Kinds -> Nat] /\ g \in Nat
  <1>1. index \in [Kinds -> Nat] /\ Newest \in [Kinds -> Nat]
    BY ImportsAssumption DEF Typed, TypeOK
  <1>2. g \in Nat
    BY <1>1 DEF Refreshed
  <1> QED
    BY <1>1, <1>2 DEF Refreshed

LEMMA ReturnWorks ==
    ASSUME Typed, NEW t \in Tasks, Runs(t), NEW bad \in BOOLEAN, Return(t, bad),
           index' \in [Kinds -> Nat], UNCHANGED <<repo, server>>
    PROVE  Works(t)
  <1>1. Fit(t, Cleared(task[t], "next", bad)) /\ Cleared(task[t], "next", bad).step = "next"
    BY ClearedFits
  <1> QED
    BY <1>1, QuietWorks DEF Return, Carrying

LEMMA OverWorks ==
    ASSUME Typed, NEW t \in Tasks, Runs(t), NEW bad \in BOOLEAN, Move(t, Over(task[t], "done", bad)),
           index' \in [Kinds -> Nat], UNCHANGED <<repo, server>>
    PROVE  Works(t)
  <1>1. Fit(t, Over(task[t], "done", bad))
    BY OverFits DEF Ended
  <1>2. Over(task[t], "done", bad).step \notin Carrying
    BY DEF Over, Idle, Carrying
  <1> QED
    BY <1>1, <1>2, QuietWorks

\* import_one(): the lock and the check, then the download and the verdict.
LEMMA LockWorks ==
    ASSUME Typed, NEW t \in Tasks, Acquire(t)
    PROVE  Works(t)
  <1>1. TaskOK(task[t]) /\ Vetted(task[t]) /\ task[t] \in Task /\ Runs(t) /\ task[t].step = "lock"
    BY TaskTyped DEF Typed, HeldIsVetted, TypeOK, Acquire, Runs, Ended
  <1>2. UNCHANGED <<index, repo, server>> /\ index' \in [Kinds -> Nat]
    BY DEF Acquire, Typed, TypeOK
  <1>3. CASE Return(t, FALSE)
    BY <1>1, <1>2, <1>3, ReturnWorks
  <1>4. CASE Step(t, "download") /\ ~Present(task[t].pkg, task[t].version)
    <2> DEFINE w == [task[t] EXCEPT !.step = "download"]
    <2>1. /\ w \in Task /\ w.step = "download" /\ w.mode = task[t].mode /\ w.target = task[t].target
          /\ w.home = task[t].home /\ w.pkg = task[t].pkg /\ w.got = task[t].got /\ w.version = task[t].version
          /\ w.cve = task[t].cve /\ w.refused = task[t].refused
      <3>1. "download" \in Steps
        BY DEF Steps
      <3>2. w = [task[t] EXCEPT !.step = "download"]
        OBVIOUS
      <3> HIDE DEF w
      <3> QED
        BY <1>1, <3>1, <3>2, StepTyped
    <2>2. Move(t, w)
      BY <1>4 DEF Step
    <2> HIDE DEF w
    <2>3. w.step \notin Fetched \cup Carrying \cup Admitted \cup Offering /\ w.step \in Locked
      BY <2>1 DEF Fetched, Carrying, Admitted, Offering, Locked
    <2>4. task[t].step \notin {"idle"} \cup Ended /\ task[t].step \in {"lock", "missed", "sub"}
      BY <1>1 DEF Ended
    <2>5. TaskOK(w)
      BY <1>1, <2>1, <2>3, <2>4 DEF TaskOK, Fetched
    <2>6. Vetted(w)
      BY <1>1, <2>1, <2>3 DEF Vetted
    <2>7. task[t].step = "lock" /\ LockFree(t) /\ ~Present(w.pkg, w.version)
      BY <1>1, <1>4, <2>1 DEF Acquire
    <2>8. Fit(t, w)
      BY <2>1, <2>3, <2>4, <2>5, <2>6, <2>7 DEF Fit
    <2> QED
      BY <1>2, <2>2, <2>3, <2>8, QuietWorks
  <1> QED
    BY <1>3, <1>4 DEF Acquire

\* A row of the index is one that it lists.
LEMMA RowIs ==
    ASSUME Typed, NEW p \in Packages, Row(p) # 0
    PROVE  Row(p) \in Listed[p] /\ Row(p) \in Nat
  <1>1. Kind[p] \in Kinds /\ index[Kind[p]] \in Nat
    BY ImportsAssumption DEF Typed, TypeOK
  <1> QED
    BY <1>1 DEF Row, RowIn

LEMMA DownloadWorks ==
    ASSUME Typed, NEW t \in Tasks, DebDownload(t) \/ RpmDownload(t) \/ ApkDownload(t)
    PROVE  Works(t)
  <1> DEFINE row == Row(task[t].pkg)
  <1>1. Download(t, Format(t), row)
    BY DEF DebDownload, RpmDownload, ApkDownload, AptRow, RpmRow, ApkRow, Row, Download, Format
  <1>2. TaskOK(task[t]) /\ Vetted(task[t]) /\ task[t] \in Task /\ Runs(t) /\ task[t].step = "download"
    BY <1>1, TaskTyped DEF Typed, HeldIsVetted, TypeOK, Download, Runs, Ended
  <1>3. UNCHANGED <<index, repo, server>> /\ index' \in [Kinds -> Nat]
    BY <1>1 DEF Download, Typed, TypeOK
  <1>4. task[t].pkg \in Packages
    BY <1>2 DEF TaskOK, Locked
  <1>5. row # 0 => row \in Listed[task[t].pkg] /\ row \in Nat
    BY <1>4, RowIs
  <1> HIDE DEF row
  <1>6. CASE row # 0 /\ Move(t, [task[t] EXCEPT !.step = "validate", !.got = row])
    <2> DEFINE w == [task[t] EXCEPT !.step = "validate", !.got = row]
    <2>1. /\ w \in Task /\ w.step = "validate" /\ w.mode = task[t].mode /\ w.target = task[t].target
          /\ w.home = task[t].home /\ w.pkg = task[t].pkg /\ w.got = row /\ w.version = task[t].version
          /\ w.cve = task[t].cve /\ w.refused = task[t].refused
      BY <1>2, <1>5, <1>6 DEF Task, Steps
    <2>2. Move(t, w)
      BY <1>6
    <2> HIDE DEF w
    <2>3. w.step \notin Carrying \cup Admitted \cup Offering \cup {"lock", "missed", "sub"} /\ w.step \in Locked
      BY <2>1 DEF Carrying, Admitted, Offering, Locked
    <2>4. task[t].step \notin {"idle"} \cup Ended /\ task[t].step \in Locked
      BY <1>2 DEF Ended, Locked
    <2>5. TaskOK(w)
      BY <1>2, <1>4, <1>6, <2>1, <2>3, <2>4 DEF TaskOK
    <2>6. Vetted(w)
      BY <1>2, <1>5, <1>6, <2>1, <2>3 DEF Vetted
    <2>7. Fit(t, w)
      BY <2>1, <2>3, <2>4, <2>5, <2>6 DEF Fit, Ended
    <2> QED
      BY <1>3, <2>2, <2>3, <2>7, QuietWorks
  <1>7. CASE Return(t, TRUE)
    BY <1>2, <1>3, <1>7, ReturnWorks
  <1>8. CASE Move(t, Cleared(task[t], "missed", FALSE))
    BY <1>2, <1>3, <1>4, <1>8, ClearedFits, QuietWorks DEF Carrying
  <1> QED
    BY <1>1, <1>6, <1>7, <1>8 DEF Download

\* What the pipeline is asked, and what follows when it lets the file through.
LEMMA OutcomeOf ==
    ASSUME Typed, NEW t \in Tasks, task[t].pkg \in Packages, NEW lacks,
           NEW o \in Outcomes[Format(t)][lacks # {}], o.passed
    PROVE  /\ o.cve \in {"approved", "pending_review"} /\ o.refused \in SUBSET {"review"}
           /\ o.cve = "approved" => o.refused = {}
  <1>1. Kind[task[t].pkg] \in Kinds /\ (lacks # {}) \in BOOLEAN
    BY ImportsAssumption
  <1> QED
    BY <1>1, OutcomeIs DEF Format

LEMMA VerdictFits ==
    ASSUME Typed, NEW t \in Tasks, Runs(t), NEW step \in Steps, NEW cve \in {"approved", "pending_review"},
           NEW refused \in SUBSET {"review"}, NEW lacks \in SUBSET Packages, cve = "approved" => refused = {},
           \/ task[t].step = "validate" /\ step = "keep"
           \/ task[t].step = "scan" /\ step = "move"
    PROVE  Fit(t, [task[t] EXCEPT !.step = step, !.cve = cve, !.refused = refused, !.lacks = lacks])
  <1> DEFINE w == [task[t] EXCEPT !.step = step, !.cve = cve, !.refused = refused, !.lacks = lacks]
  <1>1. /\ w \in Task /\ w.step = step /\ w.mode = task[t].mode /\ w.target = task[t].target
        /\ w.home = task[t].home /\ w.pkg = task[t].pkg /\ w.got = task[t].got /\ w.version = task[t].version
        /\ w.cve = cve /\ w.refused = refused
    <2>1. task[t] \in Task
      BY DEF Typed, TypeOK
    <2> QED
      BY <2>1 DEF Task
  <1> HIDE DEF w
  <1>2. /\ w.step \in Locked \cup Admitted /\ w.step \notin Carrying \cup Offering
        /\ w.step \in Admitted => task[t].step \in Admitted
        /\ w.step \in Locked => task[t].step \in Locked
        /\ w.step \in Fetched => task[t].step \in Fetched
    BY <1>1 DEF Locked, Admitted, Fetched, Carrying, Offering
  <1>3. w.cve = "approved" => w.refused = {}
    BY <1>1
  <1>4. Fit(t, w)
    BY <1>1, <1>2, <1>3, OnwardFits
  <1> QED
    BY <1>4 DEF w

LEMMA ValidateWorks ==
    ASSUME Typed, NEW t \in Tasks, Validate(t)
    PROVE  Works(t)
  <1> DEFINE lacks == Missing(task[t].pkg)
  <1>1. TaskOK(task[t]) /\ Runs(t) /\ task[t].step = "validate"
    BY TaskTyped DEF Typed, Validate, Runs, Ended
  <1>2. UNCHANGED <<index, repo, server>> /\ index' \in [Kinds -> Nat]
    BY DEF Validate, Typed, TypeOK
  <1>3. task[t].pkg \in Packages
    BY <1>1 DEF TaskOK, Locked
  <1>4. lacks \in SUBSET Packages
    BY DEF Missing
  <1>5. PICK o \in Outcomes[Format(t)][lacks # {}] :
          IF ~o.passed THEN Return(t, TRUE)
          ELSE Move(t, [task[t] EXCEPT !.step = "keep", !.cve = o.cve, !.refused = o.refused, !.lacks = lacks])
    BY DEF Validate
  <1> HIDE DEF lacks
  <1>6. CASE ~o.passed
    BY <1>1, <1>2, <1>5, <1>6, ReturnWorks
  <1>7. CASE o.passed
    <2>1. /\ o.cve \in {"approved", "pending_review"} /\ o.refused \in SUBSET {"review"}
          /\ o.cve = "approved" => o.refused = {}
      BY <1>3, <1>7, OutcomeOf
    <2> DEFINE w == [task[t] EXCEPT !.step = "keep", !.cve = o.cve, !.refused = o.refused, !.lacks = lacks]
    <2>2. Fit(t, w)
      BY <1>1, <1>4, <2>1, VerdictFits DEF Steps
    <2>3. Move(t, w)
      BY <1>5, <1>7
    <2>4. w.step = "keep"
      BY DEF Typed, TypeOK, Task
    <2> HIDE DEF w
    <2> QED
      BY <1>2, <2>2, <2>3, <2>4, QuietWorks DEF Carrying
  <1> QED
    BY <1>6, <1>7

\* The copy into the pool, the records and the publication: of an import and of an upload.
LEMMA StepFits ==
    ASSUME Typed, NEW t \in Tasks, NEW step,
           \/ task[t].step = "keep" /\ step = "record"
           \/ task[t].step = "record" /\ step = "publish" /\ task[t].cve = "approved"
           \/ task[t].step = "received" /\ step = "scan"
           \/ task[t].step = "move" /\ step = "save"
           \/ task[t].step = "save" /\ step = "offer" /\ task[t].cve = "approved"
    PROVE  Fit(t, [task[t] EXCEPT !.step = step]) /\ [task[t] EXCEPT !.step = step].step = step
  <1> DEFINE w == [task[t] EXCEPT !.step = step]
  <1>1. Runs(t) /\ step \in Steps /\ task[t] \in Task /\ Vetted(task[t])
    BY DEF Runs, Ended, Steps, Typed, TypeOK, HeldIsVetted
  <1>2. /\ w \in Task /\ w.step = step /\ w.mode = task[t].mode /\ w.target = task[t].target
        /\ w.home = task[t].home /\ w.pkg = task[t].pkg /\ w.got = task[t].got /\ w.version = task[t].version
        /\ w.cve = task[t].cve /\ w.refused = task[t].refused
    BY <1>1 DEF Task
  <1> HIDE DEF w
  <1>3. /\ w.step \in Locked \cup Admitted
        /\ w.step \in Admitted => task[t].step \in Admitted
        /\ w.step \in Locked => task[t].step \in Locked
        /\ w.step \in Fetched => task[t].step \in Fetched
    BY <1>2 DEF Locked, Admitted, Fetched
  <1>4. /\ w.step \in Carrying => task[t].step \in Carrying \cup {"keep", "move"}
        /\ w.step \in Offering => w.cve = "approved"
    BY <1>2 DEF Carrying, Offering
  <1>5. w.cve = "approved" => w.refused = {}
    BY <1>1, <1>2 DEF Vetted
  <1>6. Fit(t, w)
    BY <1>1, <1>2, <1>3, <1>4, <1>5, OnwardFits
  <1> QED
    BY <1>2, <1>6 DEF w

LEMMA StoreWorks ==
    ASSUME Typed, NEW t \in Tasks, Keep(t) \/ UploadMove(t)
    PROVE  Works(t)
  <1>1. PICK step : /\ Step(t, step)
                    /\ \/ task[t].step = "keep" /\ step = "record"
                       \/ task[t].step = "move" /\ step = "save"
    BY DEF Keep, UploadMove
  <1>2. Fit(t, [task[t] EXCEPT !.step = step])
    BY <1>1, StepFits
  <1>3. Stores(t)
    BY DEF Keep, UploadMove, Stores
  <1>4. /\ index' \in [Kinds -> Nat] /\ recorded' \subseteq Packages /\ absent' \in [Packages -> SUBSET Packages]
        /\ UNCHANGED server
    BY DEF Keep, UploadMove, Typed, TypeOK
  <1> HIDE DEF Stores
  <1> QED
    BY <1>1, <1>2, <1>3, <1>4, MoveWorks DEF Step

\* The records of a package, whatever it is said to lack.
LEMMA RecordsTyped ==
    ASSUME Typed, NEW p \in Packages, NEW lacks \in SUBSET Packages, UNCHANGED index,
           recorded' = recorded \cup {p}, absent' = [absent EXCEPT ![p] = lacks]
    PROVE  /\ index' \in [Kinds -> Nat] /\ recorded' \subseteq Packages
           /\ absent' \in [Packages -> SUBSET Packages]
  BY DEF Typed, TypeOK

LEMMA RecordWorks ==
    ASSUME Typed, NEW t \in Tasks, DebRecord(t) \/ RpmRecord(t) \/ ApkRecord(t)
    PROVE  Works(t)
  <1>1. task[t] \in Task /\ TaskOK(task[t])
    BY TaskTyped DEF Typed, TypeOK
  <1>2. PICK k, lacks : Record(t, k, lacks) /\ lacks \in SUBSET Packages
    <2>1. task[t].lacks \in SUBSET Packages
      BY <1>1 DEF Task
    <2> QED
      BY <2>1 DEF DebRecord, RpmRecord, ApkRecord
  <1>3. task[t].step = "record" /\ Runs(t) /\ UNCHANGED <<pool, published, sent>> /\ UNCHANGED server
    BY <1>2 DEF Record, Runs, Ended
  <1>4. task[t].pkg \in Packages
    BY <1>1, <1>3 DEF TaskOK, Locked
  <1>5. /\ index' \in [Kinds -> Nat] /\ recorded' \subseteq Packages
        /\ absent' \in [Packages -> SUBSET Packages]
    BY <1>2, <1>4, RecordsTyped DEF Record
  <1>6. CASE Step(t, "publish") /\ task[t].cve = "approved"
    <2>1. Fit(t, [task[t] EXCEPT !.step = "publish"])
      BY <1>3, <1>6, StepFits
    <2> QED
      BY <1>3, <1>5, <1>6, <2>1, MoveWorks DEF Step, Carrying
  <1>7. CASE Move(t, Cleared(task[t], IF task[t].mode = "upload" THEN "sub" ELSE "next", FALSE))
    <2> DEFINE step == IF task[t].mode = "upload" THEN "sub" ELSE "next"
    <2>1. step \in {"next", "missed", "sub", "lock"} /\ step \notin Carrying
      BY DEF Carrying
    <2> HIDE DEF step
    <2>2. Fit(t, Cleared(task[t], step, FALSE)) /\ Cleared(task[t], step, FALSE).step = step
      BY <1>3, <1>4, <2>1, ClearedFits
    <2>3. Move(t, Cleared(task[t], step, FALSE))
      BY <1>7 DEF step
    <2> QED
      BY <1>3, <1>5, <2>1, <2>2, <2>3, MoveWorks
  <1> QED
    BY <1>2, <1>6, <1>7 DEF Record

LEMMA PublishWorks ==
    ASSUME Typed, NEW t \in Tasks, DebPublish(t) \/ RpmPublish(t) \/ ApkPublish(t)
    PROVE  Works(t)
  <1>1. task[t] \in Task /\ TaskOK(task[t])
    BY TaskTyped DEF Typed, TypeOK
  <1> DEFINE e == Entry(t)
             At(f) == f \in Same(pool, task[t].pkg, task[t].got)
             Sent == \/ published' = published /\ sent' = sent
                     \/ \E f : At(f) /\ published' \in {published, Put(published, f)} /\ sent' = sent
                     \/ \E f : At(f) /\ published' = Put(published, f) /\ sent' = sent \cup {e}
  <1>2. PICK k \in Kinds, ok \in BOOLEAN : Publish(t, k, ok) /\ Sent
    <2>1. ASSUME NEW k \in Kinds, NEW ok \in BOOLEAN, NEW f, At(f), Publish(t, k, ok),
                 published' = Put(published, f) \/ (~ok /\ published' = published)
          PROVE  Sent
      <3>1. sent' = IF ok THEN sent \cup {e} ELSE sent
        BY <2>1 DEF Publish
      <3> QED
        BY <2>1, <3>1
    <2>2. ASSUME NEW k \in Kinds, Publish(t, k, FALSE), UNCHANGED published PROVE Sent
      BY <2>2 DEF Publish
    <2> HIDE DEF Sent
    <2>3. CASE DebPublish(t)
      <3>1. PICK ok \in BOOLEAN, f \in Same(pool, task[t].pkg, task[t].got) : Publish(t, "deb", ok) /\ DebAdd(f, ok)
        BY <2>3 DEF DebPublish
      <3>2. Sent
        BY <2>1, <3>1 DEF DebAdd, Kinds
      <3> QED
        BY <3>1, <3>2 DEF Kinds
    <2>4. CASE RpmPublish(t)
      <3>1. PICK ok \in BOOLEAN, f \in Same(pool, task[t].pkg, task[t].got) : Publish(t, "rpm", ok) /\ RpmAdd(f)
        BY <2>4 DEF RpmPublish
      <3>2. Sent
        BY <2>1, <3>1 DEF RpmAdd, Kinds
      <3> QED
        BY <3>1, <3>2 DEF Kinds
    <2>5. CASE ApkPublish(t)
      <3>1. CASE Publish(t, "apk", FALSE) /\ UNCHANGED published
        BY <2>2, <3>1 DEF Kinds
      <3>2. ASSUME NEW f \in Same(pool, task[t].pkg, task[t].got), Publish(t, "apk", TRUE), ApkAdd(f)
            PROVE  Sent /\ Publish(t, "apk", TRUE)
        BY <2>1, <3>2 DEF ApkAdd, Kinds
      <3> QED
        BY <2>5, <3>1, <3>2 DEF ApkPublish, Kinds
    <2> QED
      BY <2>3, <2>4, <2>5
  <1>3. task[t].step = "publish" /\ Runs(t) /\ UNCHANGED pool /\ UNCHANGED server
    BY <1>2 DEF Publish, Runs, Ended
  <1>4. task[t].pkg \in Packages
    BY <1>1, <1>3 DEF TaskOK, Locked
  <1>5. /\ index' \in [Kinds -> Nat] /\ recorded' \subseteq Packages
        /\ absent' \in [Packages -> SUBSET Packages]
    BY <1>2 DEF Publish, Typed, TypeOK
  <1> DEFINE step == IF task[t].mode = "upload" THEN "sub" ELSE "next"
  <1>6. step \in {"next", "missed", "sub", "lock"} /\ step \notin Carrying \cup Locked
    BY DEF Carrying, Locked
  <1> HIDE DEF step
  <1>7. Fit(t, Cleared(task[t], step, FALSE)) /\ Cleared(task[t], step, FALSE).step = step
    BY <1>3, <1>4, <1>6, ClearedFits
  <1>8. Move(t, Cleared(task[t], step, FALSE))
    BY <1>2 DEF Publish, step
  <1>9. task[t].step \in Offering
    BY <1>3 DEF Offering
  <1>10. CASE published' = published /\ sent' = sent
    BY <1>3, <1>5, <1>6, <1>7, <1>8, <1>10, MoveWorks
  <1>11. CASE \E f : At(f) /\ (\/ published' \in {published, Put(published, f)} /\ sent' = sent
                               \/ published' = Put(published, f) /\ sent' = sent \cup {e})
    BY <1>3, <1>5, <1>6, <1>7, <1>8, <1>9, <1>11, MoveWorks
  <1> QED
    BY <1>2, <1>10, <1>11

LEMMA RaiseWorks ==
    ASSUME Typed, NEW t \in Tasks, Raise(t)
    PROVE  Works(t)
  <1>1. /\ task[t].step \in Locked /\ Runs(t)
        /\ UNCHANGED <<index, pool, recorded, absent, sent, server>>
    BY DEF Raise, Locked, Runs, Ended
  <1>2. /\ index' \in [Kinds -> Nat] /\ recorded' \subseteq Packages
        /\ absent' \in [Packages -> SUBSET Packages]
    BY <1>1 DEF Typed, TypeOK
  <1>3. PICK w : /\ Move(t, w) /\ Fit(t, w) /\ w.step \in {"next", "done"}
    <2>1. CASE Return(t, TRUE)
      <3>1. Fit(t, Cleared(task[t], "next", TRUE)) /\ Cleared(task[t], "next", TRUE).step = "next"
        BY <1>1, ClearedFits
      <3> QED
        BY <2>1, <3>1 DEF Return
    <2>2. CASE Move(t, Over(task[t], "done", TRUE))
      <3>1. Fit(t, Over(task[t], "done", TRUE)) /\ Over(task[t], "done", TRUE).step = "done"
        BY <1>1, OverFits DEF Ended, Over, Idle
      <3> QED
        BY <2>2, <3>1 DEF Kinds
    <2> QED
      BY <2>1, <2>2 DEF Raise
  <1>4. w.step \notin Carrying \cup Locked
    BY <1>3 DEF Carrying, Locked
  <1>5. CASE UNCHANGED published
    BY <1>1, <1>2, <1>3, <1>4, <1>5, MoveWorks
  <1>6. CASE /\ task[t].step = "publish"
             /\ \E f \in Same(pool, task[t].pkg, task[t].got) : ApkAdd(f)
    <2>1. task[t].step \in Offering
      BY <1>6 DEF Offering
    <2> QED
      BY <1>1, <1>2, <1>3, <1>4, <1>6, <2>1, MoveWorks DEF ApkAdd
  <1> QED
    BY <1>5, <1>6 DEF Raise

\* The list of a task, and the package that it takes from it.
LEMMA TaskFields ==
    ASSUME Typed, NEW t \in Tasks
    PROVE  /\ task[t] \in Task /\ TaskOK(task[t]) /\ task[t].todo \in Seq(Packages)
           /\ task[t].seen \in SUBSET Packages /\ task[t].lacks \in SUBSET Packages
           /\ task[t].version \in Nat /\ task[t].asof \in Nat /\ task[t].pkg \in Packages \cup {NoPackage}
           /\ task[t].synced \in BOOLEAN /\ task[t].failed \in BOOLEAN /\ task[t].stop \in BOOLEAN
           /\ task[t].todo # <<>> => Head(task[t].todo) \in Packages /\ Tail(task[t].todo) \in Seq(Packages)
  <1>1. task[t] \in Task /\ TaskOK(task[t])
    BY TaskTyped DEF Typed, TypeOK
  <1>2. /\ task[t].todo \in Seq(Packages) /\ task[t].seen \in SUBSET Packages /\ task[t].lacks \in SUBSET Packages
        /\ task[t].version \in Nat /\ task[t].asof \in Nat /\ task[t].pkg \in Packages \cup {NoPackage}
        /\ task[t].synced \in BOOLEAN /\ task[t].failed \in BOOLEAN /\ task[t].stop \in BOOLEAN
    BY <1>1 DEF Task
  <1> QED
    BY <1>1, <1>2, HeadTailProperties

LEMMA TakeWorks ==
    ASSUME Typed, NEW t \in Tasks, Runs(t), task[t].todo # <<>>, NEW v \in Nat, Take(t, v),
           index' \in [Kinds -> Nat], UNCHANGED <<repo, server>>
    PROVE  Works(t)
  <1> DEFINE w == [task[t] EXCEPT !.step = "lock", !.pkg = Head(task[t].todo), !.todo = Tail(task[t].todo),
                                  !.version = v]
  <1>1. /\ w \in Task /\ w.step = "lock" /\ w.mode = task[t].mode /\ w.target = task[t].target
        /\ w.home = task[t].home /\ w.pkg \in Packages /\ w.cve = task[t].cve /\ w.refused = task[t].refused
    <2>1. task[t] \in Task /\ Head(task[t].todo) \in Packages /\ Tail(task[t].todo) \in Seq(Packages)
      BY TaskFields
    <2> QED
      BY <2>1 DEF Task, Steps
  <1>2. Move(t, w)
    BY DEF Take
  <1> HIDE DEF w
  <1> QED
    BY <1>1, <1>2, PlainWorks DEF Plain

LEMMA StepWorks ==
    ASSUME Typed, NEW t \in Tasks, Runs(t), NEW step \in Plain \ {"lock", "missed", "sub"}, Step(t, step),
           index' \in [Kinds -> Nat], UNCHANGED <<repo, server>>
    PROVE  Works(t)
  <1> DEFINE w == [task[t] EXCEPT !.step = step]
  <1>1. task[t] \in Task /\ step \in Steps
    BY DEF Typed, TypeOK, Plain, Steps
  <1>2. /\ w \in Task /\ w.step = step /\ w.mode = task[t].mode /\ w.target = task[t].target
        /\ w.home = task[t].home /\ w.cve = task[t].cve /\ w.refused = task[t].refused
    BY <1>1 DEF Task
  <1>3. Move(t, w)
    BY DEF Step
  <1> HIDE DEF w
  <1> QED
    BY <1>2, <1>3, PlainWorks

\* A refresh that is remembered.
LEMMA SyncedWorks ==
    ASSUME Typed, NEW t \in Tasks, Runs(t), task[t].step \in Plain \ {"lock", "missed", "sub"},
           Move(t, [task[t] EXCEPT !.synced = TRUE]), index' \in [Kinds -> Nat], UNCHANGED <<repo, server>>
    PROVE  Works(t)
  <1> DEFINE w == [task[t] EXCEPT !.synced = TRUE]
  <1>1. task[t] \in Task
    BY DEF Typed, TypeOK
  <1>2. /\ w \in Task /\ w.step = task[t].step /\ w.mode = task[t].mode /\ w.target = task[t].target
        /\ w.home = task[t].home /\ w.cve = task[t].cve /\ w.refused = task[t].refused
    BY <1>1 DEF Task
  <1> HIDE DEF w
  <1>3. Move(t, w)
    BY DEF w
  <1> QED
    BY <1>2, <1>3, PlainWorks

\* What is to be imported.
LEMMA TodoWorks ==
    ASSUME Typed, NEW t \in Tasks, Runs(t), NEW todo \in Seq(Packages), NEW asof \in Nat,
           Move(t, [task[t] EXCEPT !.step = "next", !.todo = todo, !.asof = asof]),
           index' \in [Kinds -> Nat], UNCHANGED <<repo, server>>
    PROVE  Works(t)
  <1> DEFINE w == [task[t] EXCEPT !.step = "next", !.todo = todo, !.asof = asof]
  <1>1. task[t] \in Task
    BY DEF Typed, TypeOK
  <1>2. /\ w \in Task /\ w.step = "next" /\ w.mode = task[t].mode /\ w.target = task[t].target
        /\ w.home = task[t].home /\ w.cve = task[t].cve /\ w.refused = task[t].refused
    BY <1>1 DEF Task, Steps
  <1> HIDE DEF w
  <1>3. Move(t, w)
    BY DEF w
  <1> QED
    BY <1>2, <1>3, PlainWorks DEF Plain

LEMMA ResolveWorks ==
    ASSUME Typed, NEW t \in Tasks, NEW k, NEW todo \in Seq(Packages), Resolve(t, k, todo)
    PROVE  Works(t)
  <1>1. Runs(t) /\ UNCHANGED <<index, repo, server>> /\ index' \in [Kinds -> Nat]
    BY DEF Resolve, Fetches, Runs, Ended, Typed, TypeOK
  <1> DEFINE w == [task[t] EXCEPT !.step = "next", !.todo = todo]
  <1>2. task[t] \in Task
    BY DEF Typed, TypeOK
  <1>3. /\ w \in Task /\ w.step = "next" /\ w.mode = task[t].mode /\ w.target = task[t].target
        /\ w.home = task[t].home /\ w.cve = task[t].cve /\ w.refused = task[t].refused
    BY <1>2 DEF Task, Steps
  <1>4. Move(t, w)
    BY DEF Resolve
  <1> HIDE DEF w
  <1> QED
    BY <1>1, <1>3, <1>4, PlainWorks DEF Plain

LEMMA LeaveWorks ==
    ASSUME Typed, NEW t \in Tasks, Runs(t), task[t].step = "next", task[t].todo # <<>>, NEW bad \in BOOLEAN,
           Leave(t, bad), index' \in [Kinds -> Nat], UNCHANGED <<repo, server>>
    PROVE  Works(t)
  <1> DEFINE w == [task[t] EXCEPT !.todo = Tail(task[t].todo), !.failed = task[t].failed \/ bad]
  <1>1. task[t] \in Task /\ Tail(task[t].todo) \in Seq(Packages) /\ (task[t].failed \/ bad) \in BOOLEAN
    BY TaskFields
  <1>2. /\ w \in Task /\ w.step = task[t].step /\ w.mode = task[t].mode /\ w.target = task[t].target
        /\ w.home = task[t].home /\ w.cve = task[t].cve /\ w.refused = task[t].refused
    <2> DEFINE failed == task[t].failed \/ bad
    <2>1. failed \in BOOLEAN
      BY <1>1
    <2>2. w = [task[t] EXCEPT !.todo = Tail(task[t].todo), !.failed = failed]
      OBVIOUS
    <2> HIDE DEF failed, w
    <2> QED
      BY <1>1, <2>1, <2>2 DEF Task
  <1>3. Move(t, w)
    BY DEF Leave
  <1> HIDE DEF w
  <1> QED
    BY <1>2, <1>3, PlainWorks DEF Plain

LEMMA LookWorks ==
    ASSUME Typed, NEW t \in Tasks, NEW k \in Kinds, Look(t, k)
    PROVE  Works(t)
  <1>1. Runs(t) /\ task[t].step = "look" /\ UNCHANGED <<repo, server>>
    BY DEF Look, Fetches, Runs, Ended
  <1>2. CASE Step(t, "resolve") /\ UNCHANGED index
    BY <1>1, <1>2, StepWorks DEF Plain, Typed, TypeOK
  <1>3. CASE Move(t, Over(task[t], "done", TRUE)) /\ UNCHANGED index
    BY <1>1, <1>3, OverWorks DEF Typed, TypeOK
  <1>4. CASE Move(t, [task[t] EXCEPT !.synced = TRUE]) /\ Refresh(k)
    <2>1. index' \in [Kinds -> Nat]
      BY <1>4, RefreshedTyped DEF Refresh
    <2> QED
      BY <1>1, <1>4, <2>1, SyncedWorks DEF Plain
  <1> QED
    BY <1>2, <1>3, <1>4 DEF Look

LEMMA NextWorks ==
    ASSUME Typed, NEW t \in Tasks, AptNext(t) \/ RpmNext(t) \/ ApkNext(t)
    PROVE  Works(t)
  <1>1. Runs(t) /\ task[t].step = "next" /\ UNCHANGED <<repo, server>>
    BY DEF AptNext, RpmNext, ApkNext, Fetches, Runs, Ended
  <1> DEFINE p == Head(task[t].todo)
  <1>2. UNCHANGED index => index' \in [Kinds -> Nat]
    BY DEF Typed, TypeOK
  <1>3. CASE Finish(t) /\ UNCHANGED index
    BY <1>1, <1>2, <1>3, OverWorks DEF Finish
  <1>4. CASE task[t].todo # <<>> /\ Row(p) # 0 /\ Take(t, Row(p)) /\ UNCHANGED index
    <2>1. p \in Packages
      BY <1>4, TaskFields
    <2>2. Row(p) \in Nat
      BY <1>4, <2>1, RowIs
    <2> QED
      BY <1>1, <1>2, <1>4, <2>2, TakeWorks
  <1>5. CASE task[t].todo # <<>> /\ Take(t, 0) /\ UNCHANGED index
    BY <1>1, <1>2, <1>5, TakeWorks
  <1>6. CASE task[t].todo # <<>> /\ (\E bad \in BOOLEAN : Leave(t, bad)) /\ UNCHANGED index
    BY <1>1, <1>2, <1>6, LeaveWorks
  <1>7. CASE Move(t, [task[t] EXCEPT !.synced = TRUE]) /\ Refresh("deb")
    <2>1. index' \in [Kinds -> Nat]
      BY <1>7, RefreshedTyped DEF Refresh, Kinds
    <2> QED
      BY <1>1, <1>7, <2>1, SyncedWorks DEF Plain
  <1>8. CASE AptNext(t)
    BY <1>3, <1>4, <1>6, <1>7, <1>8 DEF AptNext
  <1>9. CASE RpmNext(t)
    BY <1>3, <1>5, <1>9 DEF RpmNext
  <1>10. CASE ApkNext(t)
    BY <1>3, <1>4, <1>6, <1>10 DEF ApkNext
  <1> QED
    BY <1>8, <1>9, <1>10

LEMMA AptMissedWorks ==
    ASSUME Typed, NEW t \in Tasks, AptMissed(t)
    PROVE  Works(t)
  <1>1. Runs(t) /\ task[t].step = "missed" /\ UNCHANGED <<repo, server>> /\ TaskOK(task[t])
    BY TaskTyped DEF AptMissed, Fetches, Runs, Ended, Typed
  <1>2. CASE Return(t, TRUE) /\ UNCHANGED index
    BY <1>1, <1>2, ReturnWorks DEF Typed, TypeOK
  <1>3. ASSUME NEW g, Refreshed("deb", g), NEW row, row = (IF g \in Listed[task[t].pkg] THEN g ELSE 0),
               Move(t, [Cleared(task[t], IF row = 0 THEN "next" ELSE "lock", row = 0)
                                                 EXCEPT !.synced = TRUE, !.version = row])
        PROVE  Works(t)
    <2>1. index' \in [Kinds -> Nat] /\ row \in Nat
      BY <1>3, RefreshedTyped DEF Kinds
    <2>2. task[t].pkg \in Packages
      BY <1>1 DEF TaskOK
    <2> DEFINE step == IF row = 0 THEN "next" ELSE "lock"
               bad  == row = 0
               held == Cleared(task[t], step, bad)
               w    == [held EXCEPT !.synced = TRUE, !.version = row]
    <2>3. step \in {"next", "missed", "sub", "lock"} /\ bad \in BOOLEAN
      OBVIOUS
    <2>4. Move(t, w)
      BY <1>3
    <2> HIDE DEF step, bad
    <2>5. /\ held \in Task /\ held.step = step /\ held.mode = task[t].mode /\ held.home = task[t].home
          /\ held.target = task[t].target /\ held.pkg = (IF step = "next" THEN NoPackage ELSE task[t].pkg)
          /\ held.refused = {}
      BY <1>1, <2>2, <2>3, ClearedFits
    <2> HIDE DEF held
    <2>6. /\ w \in Task /\ w.step = step /\ w.mode = task[t].mode /\ w.home = task[t].home
          /\ w.target = task[t].target /\ w.pkg = held.pkg /\ w.refused = {}
      BY <2>1, <2>5 DEF Task
    <2> HIDE DEF w
    <2>7. step \in Plain /\ step \notin Carrying /\ (step \in {"lock", "missed", "sub"} => w.pkg \in Packages)
      BY <2>2, <2>3, <2>5, <2>6 DEF Plain, Carrying
    <2>8. Fit(t, w)
      BY <1>1, <2>6, <2>7, PlainFits
    <2> QED
      BY <1>1, <2>1, <2>4, <2>6, <2>7, <2>8, QuietWorks
  <1> QED
    BY <1>2, <1>3 DEF AptMissed

\* The list of a fetch, of each format.
LEMMA FetchWorks ==
    ASSUME Typed, NEW t \in Tasks,
           \/ AptLook(t) \/ RpmLook(t) \/ ApkLook(t) \/ AptResolve(t) \/ RpmResolve(t) \/ ApkResolve(t)
           \/ AptNext(t) \/ RpmNext(t) \/ ApkNext(t) \/ AptMissed(t) \/ LeftOut(t)
    PROVE  Works(t)
  <1>1. CASE AptLook(t) \/ RpmLook(t) \/ ApkLook(t)
    BY <1>1, LookWorks DEF AptLook, RpmLook, ApkLook, Kinds
  <1>2. CASE AptResolve(t) \/ RpmResolve(t)
    BY <1>2, ResolveWorks, InOrderIs DEF AptResolve, RpmResolve
  <1>3. CASE ApkResolve(t)
    <2> DEFINE p    == task[t].target
               todo == <<p>> \o InOrder(ApkWanted(p) \ {p})
    <2>1. Resolve(t, "apk", todo) /\ task[t].step = "resolve"
      BY <1>3 DEF ApkResolve, Resolve, Fetches
    <2>2. p \in Packages
      BY <2>1, TaskFields DEF TaskOK
    <2>3. <<p>> \in Seq(Packages) /\ InOrder(ApkWanted(p) \ {p}) \in Seq(Packages)
      BY <2>2, InOrderIs
    <2>4. todo \in Seq(Packages)
      BY <2>3, ConcatProperties
    <2> HIDE DEF todo
    <2> QED
      BY <2>1, <2>4, ResolveWorks
  <1>4. CASE AptNext(t) \/ RpmNext(t) \/ ApkNext(t) \/ AptMissed(t)
    BY <1>4, NextWorks, AptMissedWorks
  <1>5. CASE LeftOut(t)
    BY <1>5, ReturnWorks DEF LeftOut, Runs, Ended, Typed, TypeOK
  <1> QED
    BY <1>1, <1>2, <1>3, <1>4, <1>5

\* An upload, from the file to the dependencies that it misses.
LEMMA UploadScanWorks ==
    ASSUME Typed, NEW t \in Tasks, UploadScan(t)
    PROVE  Works(t)
  <1> DEFINE lacks == Missing(task[t].pkg)
  <1>1. TaskOK(task[t]) /\ Runs(t) /\ task[t].step = "scan"
    BY TaskTyped DEF Typed, UploadScan, Runs, Ended
  <1>2. UNCHANGED <<index, repo, server>> /\ index' \in [Kinds -> Nat]
    BY DEF UploadScan, Typed, TypeOK
  <1>3. task[t].pkg \in Packages
    BY <1>1 DEF TaskOK, Admitted
  <1>4. lacks \in SUBSET Packages
    BY DEF Missing
  <1>5. PICK o \in Outcomes[Format(t)][lacks # {}] :
          IF ~o.passed THEN Move(t, Over(task[t], "done", TRUE))
          ELSE Move(t, [task[t] EXCEPT !.step = "move", !.cve = o.cve, !.refused = o.refused, !.lacks = lacks])
    BY DEF UploadScan
  <1> HIDE DEF lacks
  <1>6. CASE ~o.passed
    BY <1>1, <1>2, <1>5, <1>6, OverWorks
  <1>7. CASE o.passed
    <2>1. /\ o.cve \in {"approved", "pending_review"} /\ o.refused \in SUBSET {"review"}
          /\ o.cve = "approved" => o.refused = {}
      BY <1>3, <1>7, OutcomeOf
    <2> DEFINE w == [task[t] EXCEPT !.step = "move", !.cve = o.cve, !.refused = o.refused, !.lacks = lacks]
    <2>2. Fit(t, w)
      BY <1>1, <1>4, <2>1, VerdictFits DEF Steps
    <2>3. Move(t, w)
      BY <1>5, <1>7
    <2>4. w.step = "move"
      BY DEF Typed, TypeOK, Task
    <2> HIDE DEF w
    <2> QED
      BY <1>2, <2>2, <2>3, <2>4, QuietWorks DEF Carrying
  <1> QED
    BY <1>6, <1>7

LEMMA UploadSaveWorks ==
    ASSUME Typed, NEW t \in Tasks, UploadSave(t)
    PROVE  Works(t)
  <1>1. /\ task[t] \in Task /\ TaskOK(task[t]) /\ task[t].lacks \in SUBSET Packages
        /\ task[t].cve \in {"approved", "pending_review"}
    BY TaskTyped, TaskFields DEF Typed, TypeOK, Task
  <1>2. task[t].step = "save" /\ Runs(t) /\ UNCHANGED <<index, pool, published, sent>> /\ UNCHANGED server
    BY DEF UploadSave, Runs, Ended
  <1>3. task[t].pkg \in Packages
    BY <1>1, <1>2 DEF TaskOK, Admitted
  <1>4. /\ index' \in [Kinds -> Nat] /\ recorded' \subseteq Packages
        /\ absent' \in [Packages -> SUBSET Packages]
    <2>1. (IF Format(t) = "apk" THEN {} ELSE task[t].lacks) \in SUBSET Packages
      BY <1>1
    <2> QED
      BY <1>2, <1>3, <2>1, RecordsTyped DEF UploadSave
  <1>5. CASE task[t].cve = "pending_review" /\ Step(t, "need")
    <2> DEFINE w == [task[t] EXCEPT !.step = "need"]
    <2>1. /\ w \in Task /\ w.step = "need" /\ w.mode = task[t].mode /\ w.target = task[t].target
          /\ w.home = task[t].home /\ w.cve = task[t].cve
      BY <1>1 DEF Task, Steps
    <2>2. Move(t, w)
      BY <1>5 DEF Step
    <2> HIDE DEF w
    <2>3. Fit(t, w)
      BY <1>2, <1>5, <2>1, PlainFits DEF Plain
    <2> QED
      BY <1>2, <1>4, <2>1, <2>2, <2>3, MoveWorks DEF Carrying
  <1>6. CASE task[t].cve = "approved" /\ Step(t, "offer")
    <2>1. Fit(t, [task[t] EXCEPT !.step = "offer"])
      BY <1>2, <1>6, StepFits
    <2> QED
      BY <1>2, <1>4, <1>6, <2>1, MoveWorks DEF Step, Carrying
  <1> QED
    BY <1>1, <1>5, <1>6 DEF UploadSave

LEMMA UploadOfferWorks ==
    ASSUME Typed, NEW t \in Tasks, UploadOffer(t)
    PROVE  Works(t)
  <1>1. task[t].step = "offer" /\ Runs(t) /\ UNCHANGED <<index, pool, recorded, absent, server>> /\ Step(t, "need")
    BY DEF UploadOffer, Runs, Ended
  <1>2. /\ index' \in [Kinds -> Nat] /\ recorded' \subseteq Packages
        /\ absent' \in [Packages -> SUBSET Packages]
    BY <1>1 DEF Typed, TypeOK
  <1> DEFINE e == Entry(t)
  <1>3. PICK ok \in BOOLEAN, f \in Same(pool, task[t].pkg, task[t].got) :
          Offered(f, ok) /\ sent' = IF ok THEN sent \cup {e} ELSE sent
    BY DEF UploadOffer
  <1>4. /\ f.pkg = task[t].pkg /\ task[t].pkg \in Packages /\ Kind[f.pkg] \in Kinds
    <2>1. task[t].pkg \in Packages
      BY <1>1, TaskTyped DEF Typed, TaskOK, Admitted
    <2>2. f.pkg = task[t].pkg
      BY <1>3 DEF Same
    <2> QED
      BY <2>1, <2>2, ImportsAssumption
  <1>5. published' = Put(published, f) \/ (~ok /\ published' = published)
    BY <1>3, <1>4 DEF Offered, DebAdd, RpmAdd, ApkAdd, Kinds
  <1>6. \/ published' \in {published, Put(published, f)} /\ sent' = sent
        \/ published' = Put(published, f) /\ sent' = sent \cup {e}
    BY <1>3, <1>5
  <1> HIDE DEF e
  <1> DEFINE w == [task[t] EXCEPT !.step = "need"]
  <1>7. /\ w \in Task /\ w.step = "need" /\ w.mode = task[t].mode /\ w.target = task[t].target
        /\ w.home = task[t].home /\ w.cve = task[t].cve /\ w.refused = task[t].refused
    <2>1. task[t] \in Task
      BY DEF Typed, TypeOK
    <2> QED
      BY <2>1 DEF Task, Steps
  <1>8. Move(t, w)
    BY <1>1 DEF Step
  <1> HIDE DEF w
  <1>9. Fit(t, w)
    <2>1. w.cve = "approved" => w.refused = {}
      BY <1>7 DEF Typed, HeldIsVetted, Vetted
    <2> QED
      BY <1>1, <1>7, <2>1, PlainFits DEF Plain
  <1>10. w.step \notin Carrying \cup Locked /\ task[t].step \in Offering
    BY <1>1, <1>7 DEF Carrying, Locked, Offering
  <1> QED
    BY <1>1, <1>2, <1>6, <1>8, <1>9, <1>10, MoveWorks DEF e

LEMMA UploadNeedsWorks ==
    ASSUME Typed, NEW t \in Tasks, UploadNeeds(t)
    PROVE  Works(t)
  <1>1. Runs(t) /\ UNCHANGED <<index, repo, server>> /\ index' \in [Kinds -> Nat]
    BY DEF UploadNeeds, Runs, Ended, Typed, TypeOK
  <1>2. task[t].lacks \in SUBSET Packages /\ InOrder(task[t].lacks) \in Seq(Packages)
    BY TaskFields, InOrderIs
  <1> DEFINE held == Cleared(task[t], "next", FALSE)
             w    == [held EXCEPT !.todo = InOrder(task[t].lacks), !.seen = task[t].lacks]
  <1>3. Move(t, w)
    BY DEF UploadNeeds
  <1>4. /\ held \in Task /\ held.step = "next" /\ held.mode = task[t].mode /\ held.home = task[t].home
        /\ held.target = task[t].target /\ held.refused = {}
    BY <1>1, ClearedFits
  <1> HIDE DEF held
  <1>5. /\ w \in Task /\ w.step = "next" /\ w.mode = task[t].mode /\ w.home = task[t].home
        /\ w.target = task[t].target /\ w.refused = {}
    BY <1>2, <1>4 DEF Task
  <1> HIDE DEF w
  <1>6. Fit(t, w)
    BY <1>1, <1>5, PlainFits DEF Plain
  <1> QED
    BY <1>1, <1>3, <1>5, <1>6, QuietWorks DEF Carrying

LEMMA UploadGoesOnWorks ==
    ASSUME Typed, NEW t \in Tasks, UploadReceived(t) \/ UploadNext(t) \/ UploadMissed(t) \/ UploadSub(t)
    PROVE  Works(t)
  <1>1. Runs(t) /\ UNCHANGED <<repo, server>> /\ task[t] \in Task /\ TaskOK(task[t])
    BY TaskTyped DEF UploadReceived, UploadNext, UploadMissed, UploadSub, Runs, Ended, Typed, TypeOK
  <1>2. UNCHANGED index => index' \in [Kinds -> Nat]
    BY DEF Typed, TypeOK
  <1>3. CASE UploadReceived(t)
    <2>1. CASE Move(t, Over(task[t], "done", TRUE))
      BY <1>1, <1>2, <1>3, <2>1, OverWorks DEF UploadReceived
    <2>2. CASE Step(t, "scan")
      <3>1. Fit(t, [task[t] EXCEPT !.step = "scan"]) /\ [task[t] EXCEPT !.step = "scan"].step = "scan"
        BY <1>3, StepFits DEF UploadReceived
      <3> QED
        BY <1>1, <1>2, <1>3, <2>2, <3>1, QuietWorks DEF Step, Carrying, UploadReceived
    <2> QED
      BY <1>3, <2>1, <2>2 DEF UploadReceived
  <1>4. CASE UploadNext(t)
    <2>1. CASE UploadEnds(t, FALSE)
      BY <1>1, <1>2, <1>4, <2>1, OverWorks DEF UploadNext, UploadEnds
    <2>2. CASE task[t].todo # <<>> /\ Take(t, 0)
      BY <1>1, <1>2, <1>4, <2>2, TakeWorks DEF UploadNext
    <2> QED
      BY <1>4, <2>1, <2>2 DEF UploadNext
  <1>5. CASE UploadMissed(t)
    <2>1. CASE Return(t, TRUE) /\ UNCHANGED index
      BY <1>1, <1>2, <2>1, ReturnWorks
    <2>2. CASE Move(t, [task[t] EXCEPT !.step = "lock", !.synced = TRUE]) /\ Refresh(Format(t))
      <3>1. task[t].pkg \in Packages
        BY <1>1, <1>5 DEF UploadMissed, TaskOK
      <3>2. index' \in [Kinds -> Nat]
        BY <2>2, <3>1, RefreshedTyped, ImportsAssumption DEF Refresh, Format
      <3> DEFINE w == [task[t] EXCEPT !.step = "lock", !.synced = TRUE]
      <3>3. /\ w \in Task /\ w.step = "lock" /\ w.mode = task[t].mode /\ w.target = task[t].target
            /\ w.home = task[t].home /\ w.cve = task[t].cve /\ w.refused = task[t].refused /\ w.pkg = task[t].pkg
        BY <1>1 DEF Task, Steps
      <3>4. Move(t, w)
        BY <2>2
      <3> HIDE DEF w
      <3> QED
        BY <1>1, <3>1, <3>2, <3>3, <3>4, PlainWorks DEF Plain
    <2> QED
      BY <1>5, <2>1, <2>2 DEF UploadMissed
  <1>6. CASE UploadSub(t)
    <2> DEFINE new  == absent[task[t].pkg]
               todo == task[t].todo \o InOrder(new \ task[t].seen)
               seen == task[t].seen \cup new
               w    == [task[t] EXCEPT !.step = "next", !.pkg = NoPackage, !.todo = todo, !.seen = seen]
    <2>1. new \in SUBSET Packages
      BY <1>1, <1>6 DEF UploadSub, TaskOK, Typed, TypeOK
    <2>2. seen \in SUBSET Packages
      BY <2>1, TaskFields
    <2>3. todo \in Seq(Packages)
      BY TaskFields, InOrderIs, ConcatProperties
    <2>4. Move(t, w) /\ UNCHANGED index
      BY <1>6 DEF UploadSub
    <2> HIDE DEF seen, todo
    <2>5. /\ w \in Task /\ w.step = "next" /\ w.mode = task[t].mode /\ w.target = task[t].target
          /\ w.home = task[t].home /\ w.cve = task[t].cve /\ w.refused = task[t].refused
      BY <1>1, <2>2, <2>3 DEF Task, Steps
    <2> HIDE DEF w
    <2> QED
      BY <1>1, <1>2, <2>4, <2>5, PlainWorks DEF Plain
  <1> QED
    BY <1>3, <1>4, <1>5, <1>6

\* A mirror job at work.
LEMMA MirrorWorks ==
    ASSUME Typed, NEW t \in Tasks, MirrorSync(t) \/ MirrorList(t) \/ MirrorNext(t)
    PROVE  Works(t)
  <1>1. Runs(t) /\ UNCHANGED <<repo, server>> /\ TaskOK(task[t]) /\ task[t].target \in Packages
    BY TaskTyped DEF MirrorSync, MirrorList, MirrorNext, Runs, Ended, Typed, TypeOK
  <1>2. UNCHANGED index => index' \in [Kinds -> Nat]
    BY DEF Typed, TypeOK
  <1>3. CASE MirrorSync(t)
    <2>1. index' \in [Kinds -> Nat]
      BY <1>1, <1>3, RefreshedTyped, ImportsAssumption DEF MirrorSync, Refresh
    <2> QED
      BY <1>1, <1>3, <2>1, StepWorks DEF MirrorSync, Plain
  <1>4. CASE MirrorList(t)
    <2> DEFINE k    == Kind[task[t].target]
               rows == InOrder(RowsOf(k))
               n    == IF Len(rows) < Limit THEN Len(rows) ELSE Limit
               base == SubSeq(rows, 1, n)
               deps == {q \in Tree(ToSet(base)) \ ToSet(base) : Row(q) # 0}
               todo == base \o InOrder(deps)
    <2>1. Move(t, [task[t] EXCEPT !.step = "next", !.todo = todo, !.asof = index[k]]) /\ UNCHANGED index
      BY <1>4 DEF MirrorList
    <2>2. index[k] \in Nat
      BY <1>1, ImportsAssumption DEF Typed, TypeOK
    <2>3. rows \in Seq(Packages) /\ InOrder(deps) \in Seq(Packages)
      BY InOrderIs
    <2>4. base \in Seq(Packages)
      <3> HIDE DEF rows
      <3>1. n \in Nat /\ n <= Len(rows)
        BY <2>3, ImportsAssumption
      <3> HIDE DEF n
      <3>2. \A i \in 1 .. n : rows[i] \in Packages
        BY <2>3, <3>1
      <3> QED
        BY <2>3, <3>1, <3>2
    <2>5. todo \in Seq(Packages)
      <3> HIDE DEF base, deps
      <3> QED
        BY <2>3, <2>4, ConcatProperties
    <2> HIDE DEF todo
    <2> QED
      BY <1>1, <1>2, <2>1, <2>2, <2>5, TodoWorks
  <1>5. CASE MirrorNext(t)
    <2>1. CASE Move(t, Over(task[t], "done", FALSE))
      BY <1>1, <1>2, <1>5, <2>1, OverWorks DEF MirrorNext
    <2>2. CASE task[t].todo # <<>> /\ Take(t, task[t].asof)
      <3>1. task[t].asof \in Nat
        BY TaskFields
      <3> QED
        BY <1>1, <1>2, <1>5, <2>2, <3>1, TakeWorks DEF MirrorNext
    <2> QED
      BY <1>5, <2>1, <2>2 DEF MirrorNext
  <1> QED
    BY <1>3, <1>4, <1>5

LEMMA StopJobWorks ==
    ASSUME Typed, NEW t \in Tasks, StopJob(t), UNCHANGED <<index, repo, server>>
    PROVE  Works(t)
  <1> DEFINE w == [task[t] EXCEPT !.stop = TRUE]
  <1>1. Runs(t) /\ Move(t, w) /\ index' \in [Kinds -> Nat] /\ task[t] \in Task /\ TaskOK(task[t])
        /\ Vetted(task[t])
    BY TaskTyped DEF StopJob, Mirrors, Typed, TypeOK, HeldIsVetted
  <1>2. /\ w \in Task /\ w.step = task[t].step /\ w.mode = task[t].mode /\ w.target = task[t].target
        /\ w.home = task[t].home /\ w.pkg = task[t].pkg /\ w.got = task[t].got /\ w.version = task[t].version
        /\ w.cve = task[t].cve /\ w.refused = task[t].refused
    BY <1>1 DEF Task
  <1> HIDE DEF w
  <1>3. w.step \in Plain \cup Locked \cup Admitted
    BY <1>1, <1>2 DEF Task, Steps, Runs, Ended, Plain, Locked, Admitted
  <1>4. w.cve = "approved" => w.refused = {}
    BY <1>1, <1>2 DEF Vetted
  <1>5. Fit(t, w)
    <2>1. CASE w.step \in Plain
      <3>1. w.step \in {"lock", "missed", "sub"} => w.pkg \in Packages
        BY <1>1, <1>2 DEF TaskOK
      <3> QED
        BY <1>1, <1>2, <1>4, <2>1, <3>1, PlainFits
    <2>2. CASE w.step \in Locked \cup Admitted
      BY <1>1, <1>2, <1>4, <2>2, OnwardFits DEF Vetted
    <2> QED
      BY <1>3, <2>1, <2>2
  <1> QED
    BY <1>1, <1>2, <1>5, QuietWorks

\* What a task does by itself, and what becomes of it but its beginning.
LEMMA TaskWorks ==
    ASSUME Typed, NEW t \in Tasks, Import(t) \/ Cancel(t) \/ Raise(t) \/ Disconnect(t) \/ UploadBreaks(t)
    PROVE  Works(t)
  <1>1. CASE Import(t)
    BY <1>1, LockWorks, DownloadWorks, ValidateWorks, StoreWorks, RecordWorks, PublishWorks, FetchWorks,
       UploadScanWorks, UploadSaveWorks, UploadOfferWorks, UploadNeedsWorks, UploadGoesOnWorks, MirrorWorks
       DEF Import
  <1>2. CASE Cancel(t)
    BY <1>2, StopJobWorks DEF Cancel
  <1>3. CASE Raise(t)
    BY <1>3, RaiseWorks
  <1>4. CASE Disconnect(t)
    BY <1>4, OverWorks DEF Disconnect, Runs, Ended, Typed, TypeOK
  <1>5. CASE UploadBreaks(t)
    BY <1>5, OverWorks DEF UploadBreaks, UploadEnds, Typed, TypeOK
  <1> QED
    BY <1>1, <1>2, <1>3, <1>4, <1>5

--------------------------------------------------------------------------------
\* A file in a set takes the place of the one of its name.
LEMMA PutHas ==
    ASSUME NEW S, NEW f, NEW p, NEW v
    PROVE  /\ Same(S, p, v) # {} => Same(Put(S, f), p, v) # {}
           /\ Files(S, p) # {} => Files(Put(S, f), p) # {}
           /\ Same(Put(S, f), f.pkg, f.version) # {} /\ Files(Put(S, f), f.pkg) # {}
  <1>1. ASSUME NEW g \in S, g.pkg = p, g.version = v PROVE Same(Put(S, f), p, v) # {}
    BY <1>1 DEF Same, Put
  <1>2. ASSUME NEW g \in S, g.pkg = p PROVE Files(Put(S, f), p) # {}
    BY <1>2 DEF Files, Put
  <1>3. Same(Put(S, f), f.pkg, f.version) # {} /\ Files(Put(S, f), f.pkg) # {}
    BY DEF Same, Files, Put
  <1> QED
    BY <1>1, <1>2, <1>3 DEF Same, Files

LEMMA CopiesTyped ==
    ASSUME Typed, NEW t \in Tasks, task[t].step \in {"keep", "move"}
    PROVE  [pkg |-> task[t].pkg, version |-> task[t].got, refused |-> task[t].refused, by |-> Workers(t)] \in File
  <1>1. \A u \in Tasks : task[u] \in Task /\ TaskOK(task[u])
    BY TaskTyped DEF Typed, TypeOK
  <1>2. task[t].home \in Replicas /\ task[t].pkg \in Packages
    BY <1>1 DEF TaskOK, Ended, Locked, Admitted
  <1>3. \A u \in Tasks : task[u].step \in Carrying => Worker(u) \in Replicas \cup Tasks
    BY <1>1 DEF TaskOK, Worker, Carrying, Ended
  <1>4. Workers(t) \in SUBSET (Replicas \cup Tasks)
    BY <1>2, <1>3 DEF Workers, Worker
  <1> QED
    BY <1>1, <1>2, <1>4 DEF Task, File

\* The types after a step of a task.
LEMMA WorksTypes ==
    ASSUME Typed, NEW t \in Tasks, Works(t)
    PROVE  TypeOK'
  <1>1. DOMAIN task = Tasks /\ task' = [task EXCEPT ![t] = task'[t]] /\ TaskOK(task'[t])
    BY DEF Typed, TypeOK, Works, Fit
  <1>2. ASSUME NEW u \in Tasks PROVE TaskOK(task'[u])
    BY <1>1, TaskTyped DEF Typed
  <1>3. task' \in [Tasks -> Task]
    BY <1>1, <1>2 DEF TaskOK
  <1>4. pool' \subseteq File /\ published' \subseteq File /\ sent' \subseteq Replicas \X Packages \X Nat \X BOOLEAN
    <2>1. CASE Leaves(t)
      BY <2>1 DEF Leaves, Typed, TypeOK
    <2>2. CASE Stores(t)
      BY <2>2, CopiesTyped DEF Stores, Put, Typed, TypeOK
    <2>3. CASE Publishes(t)
      <3>1. task[t] \in Task /\ TaskOK(task[t])
        BY TaskTyped DEF Typed, TypeOK
      <3>2. task[t].home \in Replicas /\ task[t].pkg \in Packages /\ task[t].got \in Nat
        BY <2>3, <3>1 DEF Publishes, Offering, TaskOK, Task, Ended, Locked, Admitted
      <3>3. PICK f \in Same(pool, task[t].pkg, task[t].got) :
             \/ published' \in {published, Put(published, f)} /\ sent' = sent
             \/ published' = Put(published, f) /\ sent' = sent \cup {Entry(t)}
        BY <2>3 DEF Publishes
      <3>4. f \in File
        BY <3>3 DEF Same, Typed, TypeOK
      <3>5. published' \subseteq File
        BY <3>3, <3>4 DEF Put, Typed, TypeOK
      <3>6. Entry(t) \in Replicas \X Packages \X Nat \X BOOLEAN
        <4>1. LockFree(t) \in BOOLEAN
          BY DEF LockFree
        <4> QED
          BY <3>2, <4>1 DEF Entry
      <3>7. sent' \subseteq Replicas \X Packages \X Nat \X BOOLEAN
        BY <3>3, <3>6 DEF Typed, TypeOK
      <3> QED
        BY <2>3, <3>5, <3>7 DEF Publishes, Typed, TypeOK
    <2> QED
      BY <2>1, <2>2, <2>3 DEF Works
  <1>5. /\ index' \in [Kinds -> Nat] /\ recorded' \subseteq Packages
        /\ absent' \in [Packages -> SUBSET Packages] /\ UNCHANGED server
    BY DEF Works
  <1> QED
    BY <1>2, <1>3, <1>4, <1>5 DEF TypeOK, TaskOK, Runs, Typed, server

LEMMA WorksLocks ==
    ASSUME Typed, NEW t \in Tasks, Works(t)
    PROVE  LocksHold'
  <1> SUFFICES ASSUME NEW x \in Tasks, NEW y \in Tasks, task'[x].step \in Locked, task'[y].step \in Locked,
                      task'[x].home = task'[y].home, task'[x].pkg = task'[y].pkg, x # y
               PROVE  FALSE
    BY DEF LocksHold
  <1>1. DOMAIN task = Tasks /\ task' = [task EXCEPT ![t] = task'[t]]
    BY DEF Typed, TypeOK, Works
  <1>2. ASSUME NEW u \in Tasks \ {t}, task'[t].step \in Locked, task'[u].step \in Locked,
               task'[t].home = task'[u].home, task'[t].pkg = task'[u].pkg
        PROVE  FALSE
    <2>1. task'[u] = task[u]
      BY <1>1
    <2>2. task'[t].home = task[t].home /\ task'[t].pkg = task[t].pkg
      BY <1>2 DEF Works, Fit, Locked, Ended
    <2>3. task[t].step \in Locked \/ LockFree(t)
      BY <1>2 DEF Works, Fit
    <2> QED
      BY <1>2, <2>1, <2>2, <2>3 DEF Typed, LocksHold, LockFree
  <1>3. x = t \/ y = t
    BY <1>1 DEF Typed, LocksHold
  <1> QED
    BY <1>2, <1>3

LEMMA WorksSeen ==
    ASSUME Typed, NEW t \in Tasks, Works(t)
    PROVE  SentIsSeen'
  <1>1. ASSUME NEW e \in sent PROVE Seen(e)'
    <2>1. Seen(e)
      BY DEF Typed, SentIsSeen
    <2>2. CASE Leaves(t)
      BY <2>1, <2>2 DEF Leaves, Seen
    <2>3. CASE Stores(t)
      BY <2>1, <2>3, PutHas DEF Stores, Seen
    <2>4. CASE Publishes(t)
      BY <2>1, <2>4, PutHas DEF Publishes, Seen
    <2> QED
      BY <2>2, <2>3, <2>4 DEF Works
  <1>2. ASSUME NEW e \in sent', e \notin sent PROVE Seen(e)'
    <2>1. Publishes(t)
      BY <1>2 DEF Works, Leaves, Stores
    <2>2. PICK f \in Same(pool, task[t].pkg, task[t].got) :
            /\ published' = Put(published, f) /\ UNCHANGED pool
            /\ e = Entry(t)
      BY <1>2, <2>1 DEF Publishes
    <2>3. e[2] = f.pkg /\ e[3] = f.version /\ f \in Files(pool, f.pkg)
      BY <2>2 DEF Same, Files, Entry
    <2> QED
      BY <2>2, <2>3, PutHas DEF Seen
  <1> QED
    BY <1>1, <1>2 DEF SentIsSeen

\* What the check under the lock has not found was not published by this process.
LEMMA CheckIs ==
    ASSUME Typed, NEW t \in Tasks, task[t].step = "lock", ~Present(task[t].pkg, task[t].version),
           Format(t) # "rpm", task[t].version # 0
    PROVE  <<task[t].home, task[t].pkg, task[t].version, TRUE>> \notin sent
  <1> DEFINE e == <<task[t].home, task[t].pkg, task[t].version, TRUE>>
  <1>1. task[t].pkg \in Packages
    BY TaskTyped DEF Typed, TaskOK
  <1>2. Kind[task[t].pkg] \in {"deb", "apk"}
    BY <1>1, ImportsAssumption DEF Format, Kinds
  <1>3. e \in sent => Seen(e) /\ e[2] = task[t].pkg /\ e[3] = task[t].version
    BY DEF Typed, SentIsSeen
  <1> QED
    BY <1>2, <1>3 DEF Seen, Present, AptPresent, ApkPresent

LEMMA WorksChecks ==
    ASSUME Typed, NEW t \in Tasks, Works(t)
    PROVE  CheckHolds'
  <1>1. DOMAIN task = Tasks /\ task' = [task EXCEPT ![t] = task'[t]]
    BY DEF Typed, TypeOK, Works
  <1>2. ASSUME NEW u \in Tasks, task'[u].step \in Locked, Kind[task'[u].pkg] # "rpm",
               task'[u].version # 0
        PROVE  <<task'[u].home, task'[u].pkg, task'[u].version, TRUE>> \notin sent'
    <2> DEFINE e == <<task'[u].home, task'[u].pkg, task'[u].version, TRUE>>
    <2>1. task'[u].home = task[u].home /\ task'[u].pkg = task[u].pkg /\ task'[u].version = task[u].version
      BY <1>1, <1>2 DEF Works, Fit, Locked, Ended
    <2>2. e \notin sent
      <3>1. CASE task[u].step \in Locked
        BY <1>2, <2>1, <3>1 DEF Typed, CheckHolds, StillNew, Format
      <3>2. CASE task[u].step \notin Locked
        <4>1. u = t
          BY <1>1, <1>2, <3>2
        <4>2. ~Present(task[t].pkg, task[t].version) /\ task[t].step = "lock"
          BY <1>2, <2>1, <3>2, <4>1 DEF Works, Fit
        <4> QED
          BY <1>2, <2>1, <4>1, <4>2, CheckIs DEF Format
      <3> QED
        BY <3>1, <3>2
    <2>3. ASSUME e \in sent' PROVE FALSE
      <3>1. Publishes(t) /\ e = Entry(t)
        BY <2>2, <2>3 DEF Works, Leaves, Stores, Publishes
      <3>2. u # t
        BY <1>2, <3>1 DEF Publishes
      <3>3. task[u].step \in Locked
        BY <1>1, <1>2, <3>2
      <3>4. LockFree(t) /\ task[u].home = task[t].home /\ task[u].pkg = task[t].pkg
        BY <2>1, <3>1 DEF Entry
      <3> QED
        BY <3>2, <3>3, <3>4 DEF LockFree
    <2> QED
      BY <2>3
  <1> QED
    BY <1>2 DEF CheckHolds, StillNew, Format

LEMMA WorksKeeps ==
    ASSUME Typed, NEW t \in Tasks, Works(t)
    PROVE  Typed'
  <1>1. HeldIsVetted'
    <2>1. DOMAIN task = Tasks /\ task' = [task EXCEPT ![t] = task'[t]] /\ Vetted(task'[t])
      BY DEF Typed, TypeOK, Works, Fit
    <2> QED
      BY <2>1 DEF Typed, HeldIsVetted, Vetted
  <1> QED
    BY <1>1, WorksTypes, WorksLocks, WorksSeen, WorksChecks DEF Typed

--------------------------------------------------------------------------------
\* A request begins: of a task that was idle, one that is at its first step.
Enters(t) ==
    /\ task[t].step = "idle" /\ task' = [task EXCEPT ![t] = task'[t]]
    /\ TaskOK(task'[t]) /\ Vetted(task'[t]) /\ task'[t].step \in {"look", "received", "sync"}
    /\ UNCHANGED <<index, repo, server>>

LEMMA IdleTyped == Idle \in Task
  BY EmptySeq DEF Idle, Task, Modes, Steps

LEMMA BeginEnters ==
    ASSUME Typed, NEW t \in Tasks, NEW mode \in Modes, NEW r \in Replicas, NEW step \in {"look", "received", "sync"},
           step = "received" <=> mode = "upload", Begin(t, mode, r, step), UNCHANGED <<index, repo, server>>
    PROVE  Enters(t)
  <1>1. PICK plan \in Plans :
          /\ t \in DOMAIN plan /\ plan[t].mode = mode
          /\ \A u \in Tasks : task[u].step # "idle" => u \in DOMAIN plan /\ plan[u] = Asked(u)
          /\ \E v \in IF mode = "upload" THEN Uploads ELSE {0} :
               Move(t, [Idle EXCEPT !.mode = mode, !.target = plan[t].target, !.step = step, !.home = r,
                                    !.pkg = IF v = 0 THEN NoPackage ELSE plan[t].target, !.got = v])
    BY DEF Begin
  <1>2. PICK v \in IF mode = "upload" THEN Uploads ELSE {0} :
          /\ t \in DOMAIN plan
          /\ Move(t, [Idle EXCEPT !.mode = mode, !.target = plan[t].target, !.step = step, !.home = r,
                                  !.pkg = IF v = 0 THEN NoPackage ELSE plan[t].target, !.got = v])
    BY <1>1
  <1>3. plan[t].target \in Packages
    <2>1. PICK S \in SUBSET Tasks : plan \in [S -> Job]
      BY ImportsAssumption
    <2> QED
      BY <1>2, <2>1 DEF Job
  <1> DEFINE target == plan[t].target
             pkg == IF v = 0 THEN NoPackage ELSE target
             w == [Idle EXCEPT !.mode = mode, !.target = target, !.step = step, !.home = r, !.pkg = pkg, !.got = v]
  <1>4. /\ v \in Nat /\ step \in Steps /\ pkg \in Packages \cup {NoPackage} /\ target \in Packages
        /\ mode = "upload" => v \in Uploads /\ v # 0 /\ pkg = target
    BY <1>3, ImportsAssumption DEF Steps
  <1>5. Move(t, w)
    BY <1>2
  <1>6. w = [Idle EXCEPT !.mode = mode, !.target = target, !.step = step, !.home = r, !.pkg = pkg, !.got = v]
    OBVIOUS
  <1> HIDE DEF target, pkg, w
  <1>7. /\ w \in Task /\ w.step = step /\ w.mode = mode /\ w.target = target /\ w.home = r
        /\ w.pkg = pkg /\ w.got = v /\ w.cve = Idle.cve /\ w.refused = Idle.refused
    <2>1. mode \in Modes /\ r \in Replicas
      OBVIOUS
    <2> QED
      BY <1>4, <1>6, <2>1, IdleTyped DEF Task
  <1>8. w.step \notin Locked \cup Fetched \cup Offering \cup {"lock", "missed", "sub"}
    BY <1>7 DEF Locked, Fetched, Offering
  <1>9. w.step \in Admitted => w.step = "received"
    BY <1>7 DEF Admitted
  <1>10. TaskOK(w)
    BY <1>4, <1>7, <1>8, <1>9 DEF TaskOK, Fetched
  <1>11. Vetted(w)
    BY <1>4, <1>7, <1>8, <1>9 DEF Vetted, Idle
  <1>12. task' = [task EXCEPT ![t] = w] /\ task'[t] = w /\ task[t].step = "idle"
    BY <1>5 DEF Move, Begin, Typed, TypeOK
  <1> QED
    BY <1>7, <1>10, <1>11, <1>12 DEF Enters

LEMMA RequestEnters ==
    ASSUME Typed, NEW t \in Tasks,
           \/ FetchPackage(t) \/ UploadStart(t) \/ MirrorStart(t)
           \/ UNCHANGED <<index, repo, server>> /\ \E r \in Replicas : StartJob(t, r)
    PROVE  Enters(t)
  <1>1. CASE FetchPackage(t)
    BY <1>1, BeginEnters DEF FetchPackage, Modes
  <1>2. CASE UploadStart(t)
    BY <1>2, BeginEnters DEF UploadStart, Modes
  <1>3. CASE MirrorStart(t)
    BY <1>3, BeginEnters DEF MirrorStart, StartJob, Modes
  <1>4. CASE UNCHANGED <<index, repo, server>> /\ \E r \in Replicas : StartJob(t, r)
    BY <1>4, BeginEnters DEF StartJob, Modes
  <1> QED
    BY <1>1, <1>2, <1>3, <1>4

\* Of the tasks, some that keep what they hold, the others without a file or a lock.
LEMMA TasksKeep ==
    ASSUME Typed, task' \in [Tasks -> Task], UNCHANGED <<repo, lapsed>>, index' \in [Kinds -> Nat],
           leader' \in [Replicas -> {"down", "leader", "passive", "stopping"}], lock' \in Replicas \cup {NoReplica},
           \A u \in Tasks : \/ task'[u] = task[u]
                            \/ TaskOK(task'[u]) /\ Vetted(task'[u]) /\ task'[u].step \notin Locked
    PROVE  Typed'
  <1>1. \A u \in Tasks : TaskOK(task'[u]) /\ Vetted(task'[u])
    BY TaskTyped DEF Typed, HeldIsVetted
  <1>2. TypeOK'
    BY <1>1 DEF TypeOK, TaskOK, Runs, Typed, repo
  <1>3. HeldIsVetted'
    BY <1>1 DEF HeldIsVetted, Vetted
  <1>4. LocksHold'
    BY DEF Typed, LocksHold
  <1>5. SentIsSeen'
    BY DEF Typed, SentIsSeen, Seen, repo
  <1>6. CheckHolds'
    BY DEF Typed, CheckHolds, StillNew, Format, repo
  <1> QED
    BY <1>2, <1>3, <1>4, <1>5, <1>6 DEF Typed

LEMMA EntersKeeps ==
    ASSUME Typed, NEW t \in Tasks, Enters(t)
    PROVE  Typed'
  <1>1. task' = [task EXCEPT ![t] = task'[t]] /\ TaskOK(task'[t]) /\ Vetted(task'[t])
        /\ task'[t].step \notin Locked
    BY DEF Enters, Locked
  <1>2. DOMAIN task = Tasks /\ task \in [Tasks -> Task]
    BY DEF Typed, TypeOK
  <1>3. task' \in [Tasks -> Task] /\ \A u \in Tasks \ {t} : task'[u] = task[u]
    BY <1>1, <1>2 DEF TaskOK
  <1>4. /\ UNCHANGED <<repo, lapsed>> /\ index' \in [Kinds -> Nat]
        /\ leader' \in [Replicas -> {"down", "leader", "passive", "stopping"}] /\ lock' \in Replicas \cup {NoReplica}
    BY DEF Enters, server, Typed, TypeOK
  <1> QED
    BY <1>1, <1>3, <1>4, TasksKeep

\* What is lost with the process of its thread.
LEMMA ExitIs ==
    ASSUME Typed, NEW r \in Replicas, Exit(r), NEW u \in Tasks
    PROVE  \/ task'[u] = task[u]
           \/ /\ TaskOK(task'[u]) /\ Vetted(task'[u]) /\ task'[u].step = "lost" /\ task[u].step # "idle"
              /\ task'[u].mode = task[u].mode /\ task'[u].target = task[u].target
  <1>1. CASE task[u].home = r /\ Runs(u)
    <2>1. task'[u] = Over(task[u], "lost", TRUE)
      BY <1>1 DEF Exit
    <2>2. Fit(u, task'[u])
      BY <1>1, <2>1, OverFits DEF Ended
    <2>3. task'[u].step = "lost"
      BY <2>1 DEF Over, Idle
    <2> QED
      BY <2>2, <2>3 DEF Fit
  <1>2. CASE ~(task[u].home = r /\ Runs(u))
    BY <1>2 DEF Exit
  <1> QED
    BY <1>1, <1>2

LEMMA ExitTyped ==
    ASSUME Typed, NEW r \in Replicas, Exit(r)
    PROVE  Typed'
  <1>1. \A u \in Tasks : \/ task'[u] = task[u]
                         \/ TaskOK(task'[u]) /\ Vetted(task'[u]) /\ task'[u].step \notin Locked
    BY ExitIs DEF Locked
  <1>2. task' = [u \in Tasks |-> task'[u]]
    BY DEF Exit
  <1>3. \A u \in Tasks : task'[u] \in Task
    BY <1>1 DEF Typed, TypeOK, TaskOK
  <1>4. task' \in [Tasks -> Task]
    BY <1>2, <1>3
  <1>5. /\ UNCHANGED <<repo, lapsed>> /\ index' \in [Kinds -> Nat]
        /\ leader' \in [Replicas -> {"down", "leader", "passive", "stopping"}] /\ lock' \in Replicas \cup {NoReplica}
    BY DEF Exit, Typed, TypeOK
  <1> QED
    BY <1>1, <1>4, <1>5, TasksKeep

LEMMA ServerTyped ==
    ASSUME Typed, UNCHANGED <<repo, task>>, index' \in [Kinds -> Nat],
           leader' \in [Replicas -> {"down", "leader", "passive", "stopping"}], lock' \in Replicas \cup {NoReplica},
           lapsed' \in BOOLEAN
    PROVE  Typed'
  <1>1. TypeOK'
    BY DEF Typed, TypeOK, Runs, repo
  <1>2. HeldIsVetted' /\ LocksHold' /\ SentIsSeen' /\ CheckHolds'
    BY DEF Typed, HeldIsVetted, Vetted, LocksHold, SentIsSeen, Seen, CheckHolds, StillNew, Format, repo
  <1> QED
    BY <1>1, <1>2 DEF Typed

LEMMA TypedInit == Init => Typed
  <1> SUFFICES ASSUME Init PROVE Typed
    OBVIOUS
  <1>1. \A t \in Tasks : task[t] = Idle
    BY DEF Init
  <1>2. TypeOK
    <2>1. \A t \in Tasks : task[t].step = "idle"
      BY <1>1 DEF Idle
    <2>2. task \in [Tasks -> Task]
      BY IdleTyped DEF Init
    <2> QED
      BY <2>1, <2>2 DEF Init, TypeOK, Runs, Locked, Admitted
  <1>3. HeldIsVetted
    BY <1>1 DEF HeldIsVetted, Vetted, Idle, Offering, Fetched, Admitted
  <1>4. LocksHold /\ CheckHolds
    <2>1. \A t \in Tasks : task[t].step \notin Locked
      BY <1>1 DEF Idle, Locked
    <2> QED
      BY <2>1 DEF LocksHold, CheckHolds, StillNew
  <1>5. SentIsSeen
    BY DEF Init, SentIsSeen
  <1> QED
    BY <1>2, <1>3, <1>4, <1>5 DEF Typed

\* Every step is one of a task that is at work, of one that begins, or of a replica.
LEMMA NextIs ==
    ASSUME Typed, [Next]_vars
    PROVE  \/ \E t \in Tasks : Works(t) \/ Enters(t)
           \/ \E r \in Replicas : Exit(r)
           \/ /\ UNCHANGED <<repo, task>> /\ index' \in [Kinds -> Nat]
              /\ leader' \in [Replicas -> {"down", "leader", "passive", "stopping"}]
              /\ lock' \in Replicas \cup {NoReplica} /\ lapsed' \in BOOLEAN
  <1>1. ASSUME NEW t \in Tasks, Import(t) \/ Ask(t) PROVE Works(t) \/ Enters(t)
    <2>1. CASE RunScheduledMirror(t)
      <3>1. UNCHANGED <<index, repo, server>>
        BY <2>1 DEF RunScheduledMirror
      <3> QED
        BY <2>1, <3>1, RequestEnters, StopJobWorks DEF RunScheduledMirror
    <2> QED
      BY <1>1, <2>1, TaskWorks, RequestEnters DEF Ask
  <1>2. ASSUME NEW k \in Kinds, Sync(k) PROVE UNCHANGED <<repo, task, server>> /\ index' \in [Kinds -> Nat]
    BY <1>2, RefreshedTyped DEF Sync
  <1>3. ASSUME NEW r \in Replicas, Elect(r) \/ LoseConnection(r) \/ Release(r)
        PROVE  /\ UNCHANGED <<index, repo, task>>
               /\ leader' \in [Replicas -> {"down", "leader", "passive", "stopping"}]
               /\ lock' \in Replicas \cup {NoReplica} /\ lapsed' \in BOOLEAN
    BY <1>3 DEF Elect, LoseConnection, Release, Typed, TypeOK
  <1>4. CASE UNCHANGED vars
    BY <1>4 DEF vars, repo, server, Typed, TypeOK
  <1>5. /\ index \in [Kinds -> Nat] /\ leader \in [Replicas -> {"down", "leader", "passive", "stopping"}]
        /\ lock \in Replicas \cup {NoReplica} /\ lapsed \in BOOLEAN
    BY DEF Typed, TypeOK
  <1>6. CASE \E k \in Kinds : Sync(k)
    BY <1>2, <1>5, <1>6 DEF server
  <1>7. CASE \E r \in Replicas : Elect(r) \/ LoseConnection(r) \/ Release(r)
    BY <1>3, <1>5, <1>7
  <1>8. CASE \E t \in Tasks : Import(t) \/ Ask(t)
    BY <1>1, <1>8
  <1> QED
    BY <1>4, <1>6, <1>7, <1>8 DEF Next

LEMMA TypedNext == Typed /\ [Next]_vars => Typed'
  <1> SUFFICES ASSUME Typed, [Next]_vars PROVE Typed'
    OBVIOUS
  <1> QED
    BY NextIs, WorksKeeps, EntersKeeps, ExitTyped, ServerTyped

\* Whatever is imported, uploaded and mirrored at once, every task, file and lock keeps its type: no package
\* is taken from an empty list, no import under its lock is without a package or, past the download, a file.
THEOREM TypesHold == Spec => []TypeOK
  <1>1. Typed => TypeOK
    BY DEF Typed
  <1> QED
    BY <1>1, TypedInit, TypedNext, PTL DEF Spec

--------------------------------------------------------------------------------
\* Under the lock, what was checked was not published since but by an upload that did not ask for it: whatever
\* is imported, mirrored and uploaded at once, a process publishes nothing again.
THEOREM CheckedIsNewHolds == Spec => []CheckedIsNew
  <1>1. Typed => CheckedIsNew
    <2> SUFFICES ASSUME Typed, NEW t \in Tasks, task[t].step = "publish", Format(t) # "rpm",
                        task[t].version = task[t].got
                 PROVE  <<task[t].home, task[t].pkg, task[t].got, TRUE>> \notin sent
      BY DEF CheckedIsNew
    <2>1. task[t].got # 0
      BY TaskTyped DEF Typed, TaskOK
    <2> QED
      BY <2>1 DEF Typed, CheckHolds, StillNew, Locked
  <1> QED
    BY <1>1, TypedInit, TypedNext, PTL DEF Spec

\* The copy that a task made is in the pool, or one that took its place and says that the task was at work on
\* it; when its verdict is worse than what the task holds, it is of another that no lock kept away.
Copied(t) ==
    /\ Same(pool, task[t].pkg, task[t].got) # {}
    /\ \A f \in Same(pool, task[t].pkg, task[t].got) :
         /\ Worker(t) \in f.by
         /\ task[t].cve = "approved" /\ f.refused # {} => \E r \in f.by : r # Worker(t)
InPool == \A t \in Tasks : task[t].step \in Carrying => Copied(t)

ByTwo(f) == f.refused = {} \/ \E r, s \in f.by : r # s
PublishedByTwo == \A f \in published : ByTwo(f)

Clearing == Typed /\ InPool /\ PublishedByTwo

\* Who else works on the file that a task is about to copy is not kept away by a lock.
LEMMA CopiesAlone ==
    ASSUME Typed, NEW t \in Tasks, NEW u \in Tasks, t # u,
           task[t].step \in {"keep", "move"}, task[u].step \in Carrying, task[u].pkg = task[t].pkg
    PROVE  Worker(u) # Worker(t)
  <1>1. task[t].home \in Replicas /\ task[u].home \in Replicas
    BY TaskTyped DEF Typed, TaskOK, Carrying, Ended
  <1>2. CASE task[t].step = "keep" /\ task[u].step \in {"record", "publish"}
    BY <1>2 DEF Typed, LocksHold, Locked, Worker, Admitted
  <1>3. CASE task[t].step = "keep" /\ task[u].step \in {"save", "offer"}
    BY <1>1, <1>3, ImportsAssumption DEF Worker, Admitted
  <1>4. CASE task[t].step = "move" /\ task[u].step \in {"record", "publish"}
    BY <1>1, <1>4, ImportsAssumption DEF Worker, Admitted
  <1>5. CASE task[t].step = "move" /\ task[u].step \in {"save", "offer"}
    BY <1>5 DEF Worker, Admitted
  <1> QED
    BY <1>2, <1>3, <1>4, <1>5 DEF Carrying

\* What a copy leaves in the pool, and who has copied it.
LEMMA PutSame ==
    ASSUME NEW S, NEW f, NEW p, NEW v
    PROVE  Same(Put(S, f), p, v) = IF p = f.pkg /\ v = f.version THEN {f} ELSE Same(S, p, v)
  BY DEF Same, Put

LEMMA CopiesHas ==
    ASSUME NEW t \in Tasks
    PROVE  /\ Worker(t) \in Workers(t)
           /\ \A u \in Tasks : task[u].step \in Carrying /\ task[u].pkg = task[t].pkg /\ task[u].got = task[t].got
                              => Worker(u) \in Workers(t)
  BY DEF Workers

LEMMA WorksInPool ==
    ASSUME Clearing, NEW t \in Tasks, Works(t)
    PROVE  InPool'
  <1> SUFFICES ASSUME NEW u \in Tasks, task'[u].step \in Carrying PROVE Copied(u)'
    BY DEF InPool
  <1>1. DOMAIN task = Tasks /\ task' = [task EXCEPT ![t] = task'[t]] /\ Fit(t, task'[t])
    BY DEF Clearing, Typed, TypeOK, Works
  <1>2. /\ task'[u].pkg = task[u].pkg /\ task'[u].got = task[u].got /\ task'[u].home = task[u].home
        /\ task'[u].cve = task[u].cve /\ task'[u].refused = task[u].refused
    BY <1>1 DEF Fit, Carrying, Ended
  <1>w. Worker(u)' = Worker(u)
    BY <1>1, <1>2 DEF Fit, Worker
  <1>3. CASE UNCHANGED pool /\ task[u].step \in Carrying
    BY <1>2, <1>w, <1>3 DEF Clearing, InPool, Copied
  <1>4. CASE Stores(t)
    <2> DEFINE f == [pkg |-> task[t].pkg, version |-> task[t].got, refused |-> task[t].refused, by |-> Workers(t)]
    <2>1. pool' = Put(pool, f)
      BY <1>4 DEF Stores
    <2>2. f.pkg = task[t].pkg /\ f.version = task[t].got /\ f.refused = task[t].refused /\ f.by = Workers(t)
      OBVIOUS
    <2> HIDE DEF f
    <2>3. Same(pool', task[u].pkg, task[u].got)
            = IF task[u].pkg = task[t].pkg /\ task[u].got = task[t].got THEN {f}
              ELSE Same(pool, task[u].pkg, task[u].got)
      BY <2>1, <2>2, PutSame
    <2>4. CASE u = t
      <3>1. task[t].cve = "approved" => f.refused = {}
        BY <2>2 DEF Clearing, Typed, HeldIsVetted, Vetted
      <3>2. Worker(t) \in f.by
        BY <2>2, CopiesHas
      <3> QED
        BY <1>2, <1>w, <2>3, <2>4, <3>1, <3>2 DEF Copied
    <2>5. CASE u # t /\ task[u].pkg = task[t].pkg /\ task[u].got = task[t].got
      <3>1. task[u].step \in Carrying
        BY <1>1, <2>5
      <3>2. Worker(u) \in f.by /\ Worker(t) \in f.by
        BY <2>2, <2>5, <3>1, CopiesHas
      <3>3. Worker(u) # Worker(t)
        BY <1>4, <2>5, <3>1, CopiesAlone DEF Clearing, Stores
      <3> QED
        BY <1>2, <1>w, <2>3, <2>5, <3>2, <3>3 DEF Copied
    <2>6. CASE u # t /\ ~(task[u].pkg = task[t].pkg /\ task[u].got = task[t].got)
      <3>1. Copied(u)
        BY <1>1, <2>6 DEF Clearing, InPool
      <3> QED
        BY <1>2, <1>w, <2>3, <2>6, <3>1 DEF Copied
    <2> QED
      BY <2>4, <2>5, <2>6
  <1> QED
    BY <1>1, <1>3, <1>4 DEF Works, Leaves, Publishes

LEMMA WorksPublished ==
    ASSUME Clearing, NEW t \in Tasks, Works(t)
    PROVE  PublishedByTwo'
  <1>1. CASE UNCHANGED published
    BY <1>1 DEF Clearing, PublishedByTwo
  <1>2. CASE Publishes(t)
    <2>1. PICK f \in Same(pool, task[t].pkg, task[t].got) : published' \in {published, Put(published, f)}
      BY <1>2 DEF Publishes
    <2>2. task[t].step \in Offering /\ task[t].step \in Carrying
      BY <1>2 DEF Publishes, Offering, Carrying
    <2>3. task[t].cve = "approved" /\ Copied(t)
      BY <2>2 DEF Clearing, Typed, HeldIsVetted, Vetted, InPool
    <2>4. ByTwo(f)
      BY <2>3 DEF Copied, ByTwo
    <2>5. \A g \in published' : g = f \/ g \in published
      BY <2>1 DEF Put
    <2> QED
      BY <2>4, <2>5 DEF Clearing, PublishedByTwo
  <1> QED
    BY <1>1, <1>2 DEF Works, Leaves, Stores

\* Of a step that copies and publishes nothing.
LEMMA QuietClears ==
    ASSUME Clearing, UNCHANGED <<pool, published>>,
           \A u \in Tasks : task'[u] = task[u] \/ task'[u].step \notin Carrying
    PROVE  InPool' /\ PublishedByTwo'
  <1>1. InPool'
    BY DEF Clearing, InPool, Copied, Worker
  <1>2. PublishedByTwo'
    BY DEF Clearing, PublishedByTwo
  <1> QED
    BY <1>1, <1>2

LEMMA ClearingNext ==
    ASSUME Clearing, [Next]_vars
    PROVE  Clearing'
  <1>1. Typed /\ Typed'
    BY TypedNext DEF Clearing
  <1>2. ASSUME NEW t \in Tasks, Works(t) PROVE Clearing'
    BY <1>1, <1>2, WorksInPool, WorksPublished DEF Clearing
  <1>3. ASSUME NEW t \in Tasks, Enters(t) PROVE Clearing'
    <2>1. \A u \in Tasks : task'[u] = task[u] \/ task'[u].step \notin Carrying
      BY <1>1, <1>3 DEF Enters, Carrying, Typed, TypeOK
    <2>2. UNCHANGED <<pool, published>>
      BY <1>3 DEF Enters, repo
    <2> QED
      BY <1>1, <2>1, <2>2, QuietClears DEF Clearing
  <1>4. ASSUME NEW r \in Replicas, Exit(r) PROVE Clearing'
    <2>1. \A u \in Tasks : task'[u] = task[u] \/ task'[u].step = "lost"
      BY <1>1, <1>4, ExitIs
    <2>2. UNCHANGED <<pool, published>>
      BY <1>4 DEF Exit, repo
    <2> QED
      BY <1>1, <2>1, <2>2, QuietClears DEF Clearing, Carrying
  <1>5. CASE UNCHANGED <<repo, task>>
    <2>1. UNCHANGED <<pool, published, task>>
      BY <1>5 DEF repo
    <2> QED
      BY <1>1, <2>1, QuietClears DEF Clearing
  <1> QED
    BY <1>1, <1>2, <1>3, <1>4, <1>5, NextIs

LEMMA ClearingInit == Init => Clearing
  <1> SUFFICES ASSUME Init PROVE Clearing
    OBVIOUS
  <1>1. \A t \in Tasks : task[t].step = "idle"
    BY DEF Init, Idle
  <1>2. InPool
    BY <1>1 DEF InPool, Carrying
  <1>3. PublishedByTwo
    BY DEF Init, PublishedByTwo
  <1> QED
    BY <1>2, <1>3, TypedInit DEF Clearing

\* Whoever imports, mirrors and uploads whichever versions at once, a file whose last verdict asks for a review
\* is published only where two were at work on it that no lock keeps apart: in two replicas, or an upload.
THEOREM KeptWasClearedHolds == Spec => []KeptWasCleared
  <1>1. Clearing /\ PoolIsCleared => KeptWasCleared
    BY DEF Clearing, PublishedByTwo, ByTwo, KeptWasCleared, PoolIsCleared
  <1>2. Clearing /\ [Next]_vars => Clearing'
    BY ClearingNext
  <1> QED
    BY <1>1, <1>2, ClearingInit, KeptIsCleared, PTL DEF Spec

================================================================================
