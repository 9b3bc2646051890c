---------------------------- MODULE AdmissionProofs ----------------------------
(***************************************************************************)
(* Proofs about Admission, for any number of handlers, contents and        *)
(* verdicts, whatever operations overlap and wherever handlers are killed: *)
(* nothing is published unseen, what is in quarantine is out and the       *)
(* manifest describes the file of the pool, but for the mishaps that each  *)
(* property names.                                                         *)
(*                                                                         *)
(* The argument.  The pool changes by being emptied, which every handler   *)
(* notices when it comes to the file, or by a move.  So, until a move      *)
(* crosses it, each handler holds the content of the pool or the pool is   *)
(* empty: what it publishes is what it checked or what a decision          *)
(* accepted, and the manifest that it writes back describes the file.      *)
(* Whoever writes "quarantined" has emptied the pool and the repository,   *)
(* unless a file came in behind it, or has yet to empty them: the pool     *)
(* first, so that nobody can publish what was withdrawn.                   *)
(***************************************************************************)
EXTENDS Admission, TLAPS

\* The local variables of a handler.
Works ==
    [op      : {"none", "upload", "import", "decide", "quarantine", "delete", "rematch"},
     pc      : {"idle"} \cup Steps,
     content : Contents \cup {None},
     row     : Manifests \cup {None},
     action  : Actions \cup {"none"}]

Accepting == {"accept_risk", "exception"}
Entering  == {"upload", "import"}

\* What the local variables w of a handler hold at each of its steps.
Fits(w, acc) ==
    /\ w.pc = "idle" => w = Idle
    /\ w.pc \in {"validate", "move", "generate", "save"} => w.op \in Entering /\ w.content # None
    /\ w.pc \in {"move", "generate", "save"} => Verdict[w.content] # "rejected"
    /\ w.pc = "save" =>
         /\ w.row # None /\ w.row.status \in {"validated", "pending_review"}
         /\ w.row.status = "validated" => Verdict[w.content] = "approved"
    /\ w.pc = "publish" =>
         \/ w.op \in Entering /\ w.content # None /\ Verdict[w.content] = "approved"
         \/ w.op = "decide" /\ w.row # None /\ w.row.content \in acc
    /\ w.pc \in {"record", "status"} => w.op = "decide" /\ w.row # None /\ w.action # "none"
    /\ w.pc = "status" /\ w.action \in Accepting => w.row.content \in acc
    /\ w.pc \in {"mark", "rescan"} => w.row # None

\* What it may count on of the pool and of the repository, while nothing went wrong.
Sees(w, file, served, sins) ==
    /\ "crossed" \notin sins =>
         /\ Holds(w) # None /\ file # None => Holds(w) = file
         /\ w.pc = "save" => w.row.content = w.content
         /\ w.pc = "forget" => file = None
    /\ sins \cap {"stuck", "reopened"} = {} =>
         /\ w.pc \in {"hide", "reload", "mark"} => served = None
         /\ w.pc \in {"reload", "mark"} => file = None
         /\ w.pc \in {"withdraw", "hide"} /\ w.content = None => file = None

Local == \A h \in Handlers : Fits(work[h], accepted)
Seen  == \A h \in Handlers : Sees(work[h], pool, repo, mishaps)

Among(pcs) == \E h \in Handlers : work[h].pc \in pcs

\* The manifest describes the file of the pool, or is about to.
Described ==
    mishaps \cap {"unsaved", "crossed"} = {} /\ pool # None =>
        Among({"generate", "save"}) \/ (manifest # None /\ manifest.content = pool)

\* What is in quarantine is out, or somebody has yet to take it out, or to admit it again.
Hidden ==
    mishaps \subseteq {"crossed"} /\ manifest # None /\ manifest.status = "quarantined" =>
        /\ pool # None => Among({"discard", "generate", "save"})
        /\ repo # None => Among({"discard", "remove", "forget", "save"}) \/ (pool # None /\ Among({"generate"}))

\* The inductive invariant.
Inv == TypeOK /\ Local /\ Seen /\ Described /\ Hidden /\ PublishedWasCleared

--------------------------------------------------------------------------------
\* The handler h goes on with the local variables w, the others keep theirs.
Becomes(h, w) ==
    /\ w \in Works
    /\ work' \in [Handlers -> Works]
    /\ work'[h] = w
    /\ \A g \in Handlers \ {h} : work'[g] = work[g]

\* Idle is a value of the local variables.
LEMMA IdleType == Idle \in Works
  BY DEF Idle, Works, Steps

\* The invariant holds at the start.
LEMMA InvInit == Init => Inv
<1> SUFFICES ASSUME Init PROVE Inv
  OBVIOUS
<1> USE DEF Init
<1>1. TypeOK
  BY IdleType DEF TypeOK, Works, Mishaps
<1>2. \A h \in Handlers : work[h] = Idle
  OBVIOUS
<1>3. Local
  BY <1>2 DEF Local, Fits, Idle
<1>4. Seen
  BY <1>2 DEF Seen, Sees, Idle, Holds
<1> QED
  BY <1>1, <1>3, <1>4 DEF Inv, Described, Hidden, PublishedWasCleared

\* Assigning the local variables of one handler.
LEMMA SetWork ==
    ASSUME TypeOK, NEW h \in Handlers, NEW w \in Works, work' = [work EXCEPT ![h] = w]
    PROVE  Becomes(h, w)
<1>1. work \in [Handlers -> Works]
  BY DEF TypeOK, Works
<1> QED
  BY <1>1 DEF Becomes

\* Going on to another step.
LEMMA GoWork ==
    ASSUME TypeOK, NEW h \in Handlers, NEW p \in Steps, Go(h, p)
    PROVE  Becomes(h, [work[h] EXCEPT !.pc = p])
<1>1. work \in [Handlers -> Works]
  BY DEF TypeOK, Works
<1>2. [work[h] EXCEPT !.pc = p] \in Works
  BY <1>1 DEF Works
<1>3. work' = [work EXCEPT ![h] = [work[h] EXCEPT !.pc = p]]
  BY DEF Go
<1> QED
  BY <1>2, <1>3, SetWork

\* Returning.
LEMMA ReturnWork ==
    ASSUME TypeOK, NEW h \in Handlers, Return(h)
    PROVE  Becomes(h, Idle)
  BY IdleType, SetWork DEF Return

\* A handler that has returned counts on nothing.
LEMMA IdleFits ==
    ASSUME NEW acc, NEW file, NEW served, NEW sins
    PROVE  Fits(Idle, acc) /\ Sees(Idle, file, served, sins)
  BY DEF Fits, Sees, Idle, Holds

\* What a handler counts on outlives the emptying of the pool and of the repository.
LEMMA SeesStill ==
    ASSUME NEW w, NEW file, NEW served, NEW sins, Sees(w, file, served, sins),
           NEW file2 \in {file, None}, NEW served2 \in {served, None}, NEW sins2, sins \subseteq sins2
    PROVE  Sees(w, file2, served2, sins2)
<1>1. ASSUME "crossed" \notin sins2
      PROVE  /\ Holds(w) # None /\ file2 # None => Holds(w) = file2
             /\ w.pc = "save" => w.row.content = w.content
             /\ w.pc = "forget" => file2 = None
  BY <1>1 DEF Sees
<1>2. ASSUME sins2 \cap {"stuck", "reopened"} = {}
      PROVE  /\ w.pc \in {"hide", "reload", "mark"} => served2 = None
             /\ w.pc \in {"reload", "mark"} => file2 = None
             /\ w.pc \in {"withdraw", "hide"} /\ w.content = None => file2 = None
  BY <1>2 DEF Sees
<1> QED
  BY <1>1, <1>2 DEF Sees

\* One handler goes on: it fits its step, the others fit theirs as before.
LEMMA LocalStep ==
    ASSUME Local, NEW h \in Handlers, NEW w, Becomes(h, w), accepted \subseteq accepted', Fits(w, accepted')
    PROVE  Local'
<1> SUFFICES ASSUME NEW g \in Handlers PROVE Fits(work'[g], accepted')
  BY DEF Local, Fits
<1>1. CASE g = h
  BY <1>1 DEF Becomes
<1>2. CASE g # h
  <2>1. work'[g] = work[g] /\ Fits(work[g], accepted)
    BY <1>2 DEF Becomes, Local
  <2> QED
    BY <2>1 DEF Fits
<1> QED
  BY <1>1, <1>2

\* One handler goes on, and what the others count on is known.
LEMMA SeenStep ==
    ASSUME NEW h \in Handlers, NEW w, Becomes(h, w), Sees(w, pool', repo', mishaps'),
           \A g \in Handlers \ {h} : Sees(work[g], pool', repo', mishaps')
    PROVE  Seen'
<1> SUFFICES ASSUME NEW g \in Handlers PROVE Sees(work'[g], pool', repo', mishaps')
  BY DEF Seen, Sees
<1>1. CASE g = h
  BY <1>1 DEF Becomes
<1>2. CASE g # h
  BY <1>2 DEF Becomes
<1> QED
  BY <1>1, <1>2

\* One handler goes on and brings nothing in.
LEMMA OwnStep ==
    ASSUME Local, Seen, NEW h \in Handlers, NEW w, Becomes(h, w),
           accepted \subseteq accepted', Fits(w, accepted'),
           pool' \in {pool, None}, repo' \in {repo, None}, mishaps \subseteq mishaps',
           Sees(w, pool', repo', mishaps')
    PROVE  Local' /\ Seen'
<1>1. \A g \in Handlers \ {h} : Sees(work[g], pool', repo', mishaps')
  BY SeesStill DEF Seen
<1> QED
  BY <1>1, LocalStep, SeenStep

\* Who was at work is still there, but for the handler that goes on.
LEMMA AmongStill ==
    ASSUME NEW h \in Handlers, NEW w, Becomes(h, w), NEW pcs, Among(pcs), work[h].pc \notin pcs \/ w.pc \in pcs
    PROVE  Among(pcs)'
  BY DEF Among, Becomes

\* The cleared content stays so while the repository takes in nothing.
LEMMA ClearedStill ==
    ASSUME PublishedWasCleared, repo' \in {repo, None}, accepted \subseteq accepted', mishaps \subseteq mishaps'
    PROVE  PublishedWasCleared'
  BY DEF PublishedWasCleared

\* Facts about one handler, from the invariant.
LEMMA Own ==
    ASSUME Inv, NEW h \in Handlers
    PROVE  work[h] \in Works /\ Fits(work[h], accepted) /\ Sees(work[h], pool, repo, mishaps)
  BY DEF Inv, TypeOK, Works, Local, Seen

--------------------------------------------------------------------------------
\* Each operation keeps the invariant.

\* A handler starts: with a file that is nowhere, everything starts over.
LEMMA StartStep ==
    ASSUME Inv, NEW h \in Handlers,
           NEW op, NEW pc, NEW content, NEW row, NEW action, Start(h, op, pc, content, row, action),
           [op |-> op, pc |-> pc, content |-> content, row |-> row, action |-> action] \in Works,
           Fits([op |-> op, pc |-> pc, content |-> content, row |-> row, action |-> action], accepted),
           \/ pc = "validate" /\ row = None
           \/ pc = "withdraw" /\ row = None /\ content = pool
           \/ pc = "unpublish" /\ row = None
           \/ pc \in {"record", "rescan"} /\ row = manifest /\ row # None
    PROVE  Inv'
<1> DEFINE w == [op |-> op, pc |-> pc, content |-> content, row |-> row, action |-> action]
<1>1. Becomes(h, w)
  BY SetWork DEF Start, Inv
<1>2. /\ UNCHANGED <<pool, manifest, repo, accepted, rejected>> /\ work[h].pc = "idle"
      /\ mishaps' = Recalled \cup Note("crossed", row # None /\ Misread)
  BY DEF Start, At
<1>3. w.pc = pc /\ w.row = row /\ w.content = content /\ w.op = op /\ w \in Works /\ Fits(w, accepted)
  OBVIOUS
<1> HIDE DEF w
<1>4. Sees(w, pool', repo', mishaps')
  <2>1. Holds(w) = IF pc \in {"record", "rescan"} THEN row.content ELSE None
    BY <1>3 DEF Holds
  <2>2. CASE pc \in {"record", "rescan"}
    <3>1. "crossed" \notin mishaps' /\ pool # None => row.content = pool
      BY <1>2, <2>2, AdmissionAssumption DEF Note, Misread
    <3> QED
      BY <1>2, <1>3, <2>1, <2>2, <3>1 DEF Sees
  <2>3. CASE pc \notin {"record", "rescan"}
    BY <1>2, <1>3, <2>1, <2>3 DEF Sees
  <2> QED
    BY <2>2, <2>3
<1>5. Local'
  BY <1>1, <1>2, <1>3, LocalStep DEF Inv
<1>6. TypeOK'
  BY <1>1, <1>2 DEF Inv, TypeOK, Becomes, Works, Recalled, Note, Mishaps
<1>7. CASE mishaps \subseteq mishaps'
  <2>1. Seen'
    BY <1>1, <1>2, <1>4, <1>7, SeesStill, SeenStep DEF Inv, Seen
  <2>2. \A pcs : Among(pcs) /\ "idle" \notin pcs => Among(pcs)'
    BY <1>1, <1>2, AmongStill
  <2>3. Described' /\ Hidden'
    BY <1>2, <1>7, <2>2 DEF Inv, Described, Hidden
  <2>4. PublishedWasCleared'
    BY <1>2, <1>7, ClearedStill DEF Inv
  <2> QED
    BY <1>5, <1>6, <2>1, <2>3, <2>4 DEF Inv
<1>8. CASE ~(mishaps \subseteq mishaps')
  <2>1. Working = {} /\ pool = None /\ repo = None
    BY <1>2, <1>8 DEF Recalled
  <2>2. \A g \in Handlers \ {h} : work[g] = Idle
    BY <2>1 DEF Working, Inv, Local, Fits
  <2>3. Seen'
    BY <1>1, <1>4, <2>2, IdleFits, SeenStep
  <2>4. Described' /\ Hidden' /\ PublishedWasCleared'
    BY <1>2, <2>1 DEF Described, Hidden, PublishedWasCleared
  <2> QED
    BY <1>5, <1>6, <2>3, <2>4 DEF Inv
<1> QED
  BY <1>7, <1>8

LEMMA BeginStep ==
    ASSUME Inv, NEW h \in Handlers, Begin(h)
    PROVE  Inv'
<1> USE AdmissionAssumption
<1>1. ASSUME NEW c \in Contents, Upload(h, c) \/ Import(h, c) PROVE Inv'
  <2>1. \E op \in Entering : Start(h, op, "validate", c, None, "none")
    BY <1>1 DEF Upload, Import, Entering
  <2>2. \A op \in Entering :
          LET w == [op |-> op, pc |-> "validate", content |-> c, row |-> None, action |-> "none"]
          IN  w \in Works /\ Fits(w, accepted)
    BY DEF Works, Steps, Fits, Entering
  <2> QED
    BY <2>1, <2>2, StartStep
<1>2. ASSUME NEW a \in Actions, Decide(h, a) PROVE Inv'
  <2>1. Start(h, "decide", "record", None, manifest, a) /\ manifest # None /\ manifest \in Manifests
    BY <1>2 DEF Decide, Inv, TypeOK
  <2> DEFINE w == [op |-> "decide", pc |-> "record", content |-> None, row |-> manifest, action |-> a]
  <2>2. w \in Works /\ Fits(w, accepted)
    BY <2>1 DEF Works, Steps, Fits, Actions
  <2> QED
    BY <2>1, <2>2, StartStep
<1>3. CASE Quarantine(h)
  <2>1. Start(h, "quarantine", "withdraw", pool, None, "none")
    BY <1>3 DEF Quarantine
  <2> DEFINE w == [op |-> "quarantine", pc |-> "withdraw", content |-> pool, row |-> None, action |-> "none"]
  <2>2. w \in Works /\ Fits(w, accepted)
    BY DEF Works, Steps, Fits, Inv, TypeOK
  <2> QED
    BY <2>1, <2>2, StartStep
<1>4. CASE Delete(h)
  <2>1. Start(h, "delete", "unpublish", None, None, "none")
    BY <1>4 DEF Delete
  <2> DEFINE w == [op |-> "delete", pc |-> "unpublish", content |-> None, row |-> None, action |-> "none"]
  <2>2. w \in Works /\ Fits(w, accepted)
    BY DEF Works, Steps, Fits
  <2> QED
    BY <2>1, <2>2, StartStep
<1>5. CASE Rematch(h)
  <2>1. Start(h, "rematch", "rescan", None, manifest, "none") /\ manifest # None /\ manifest \in Manifests
    BY <1>5 DEF Rematch, Inv, TypeOK
  <2> DEFINE w == [op |-> "rematch", pc |-> "rescan", content |-> None, row |-> manifest, action |-> "none"]
  <2>2. w \in Works /\ Fits(w, accepted)
    BY <2>1 DEF Works, Steps, Fits
  <2> QED
    BY <2>1, <2>2, StartStep
<1> QED
  BY <1>1, <1>2, <1>3, <1>4, <1>5 DEF Begin

\* The validation and the manifest of what enters.
LEMMA ValidateStep ==
    ASSUME Inv, NEW h \in Handlers, Validate(h)
    PROVE  Inv'
<1> DEFINE w == work[h]
           v == [w EXCEPT !.pc = "move"]
<1>w. w \in Works /\ Fits(w, accepted) /\ Sees(w, pool, repo, mishaps)
  BY Own
<1>1. w.pc = "validate" /\ UNCHANGED <<pool, manifest, repo, accepted, rejected, mishaps>>
  BY DEF Validate, At
<1>2. PICK u : Becomes(h, u) /\ u \in {Idle, v} /\ (u = v => Verdict[w.content] # "rejected")
  <2>1. CASE Verdict[w.content] = "rejected"
    BY <2>1, ReturnWork DEF Validate, Inv, Idle
  <2>2. CASE Verdict[w.content] # "rejected"
    BY <2>2, GoWork DEF Validate, Inv, Steps
  <2> QED
    BY <2>1, <2>2
<1>3. Fits(u, accepted') /\ Sees(u, pool', repo', mishaps')
  <2>1. CASE u = Idle
    BY <2>1, IdleFits
  <2>2. CASE u = v /\ u # Idle
    BY <1>w, <1>1, <1>2, <2>2 DEF Fits, Sees, Holds, Works
  <2> QED
    BY <1>2, <2>1, <2>2
<1>4. TypeOK'
  BY <1>1, <1>2 DEF Inv, TypeOK, Becomes, Works
<1>5. Local' /\ Seen'
  BY <1>1, <1>2, <1>3, OwnStep DEF Inv
<1>6. \A pcs : Among(pcs) /\ "validate" \notin pcs => Among(pcs)'
  BY <1>1, <1>2, AmongStill
<1>7. Described' /\ Hidden' /\ PublishedWasCleared'
  BY <1>1, <1>6 DEF Inv, Described, Hidden, PublishedWasCleared
<1> QED
  BY <1>4, <1>5, <1>7 DEF Inv

\* A move that crosses nobody puts in the pool what every handler that holds a content holds.
LEMMA MoveStep ==
    ASSUME Inv, NEW h \in Handlers, MoveToPool(h)
    PROVE  Inv'
<1> USE AdmissionAssumption
<1> DEFINE w == work[h]
           v == [w EXCEPT !.pc = "generate"]
<1>w. w \in Works /\ Fits(w, accepted)
  BY Own
<1>1. /\ w.pc = "move" /\ pool' = w.content /\ UNCHANGED <<manifest, repo, accepted, rejected>>
      /\ mishaps' = mishaps \cup Note("crossed", Crosses(h)) \cup Note("reopened", \E g \in Handlers : PastPool(g))
  BY DEF MoveToPool, At
<1>2. Becomes(h, v)
  BY GoWork DEF MoveToPool, Inv, Steps
<1>3. v.pc = "generate" /\ v.content = w.content /\ v.op = w.op /\ w.content \in Contents /\ w.op \in Entering
  BY <1>w, <1>1 DEF Works, Fits
<1>4. mishaps \subseteq mishaps' /\ mishaps' \subseteq Mishaps
  BY <1>1 DEF Note, Inv, TypeOK, Mishaps
<1>5. TypeOK'
  BY <1>1, <1>2, <1>3, <1>4 DEF Inv, TypeOK, Becomes, Works
<1>6. Fits(v, accepted')
  BY <1>w, <1>1, <1>3 DEF Fits, Idle, Works
<1>7. Sees(v, pool', repo', mishaps')
  BY <1>1, <1>3 DEF Sees, Holds, Entering
<1>8. ASSUME NEW g \in Handlers \ {h} PROVE Sees(work[g], pool', repo', mishaps')
  <2>1. Sees(work[g], pool, repo, mishaps)
    BY Own
  <2>2. ASSUME "crossed" \notin mishaps'
        PROVE  Holds(work[g]) \in {None, pool'} /\ work[g].pc # "forget"
    BY <1>1, <2>2 DEF Note, Crosses, At
  <2>3. ASSUME "reopened" \notin mishaps' PROVE ~PastPool(g)
    BY <1>1, <2>3 DEF Note
  <2>4. ASSUME "crossed" \notin mishaps'
        PROVE  /\ Holds(work[g]) # None /\ pool' # None => Holds(work[g]) = pool'
               /\ work[g].pc = "save" => work[g].row.content = work[g].content
               /\ work[g].pc = "forget" => pool' = None
    BY <1>4, <2>1, <2>2, <2>4 DEF Sees
  <2>5. ASSUME mishaps' \cap {"stuck", "reopened"} = {}
        PROVE  /\ work[g].pc \in {"hide", "reload", "mark"} => repo' = None
               /\ work[g].pc \in {"reload", "mark"} => pool' = None
               /\ work[g].pc \in {"withdraw", "hide"} /\ work[g].content = None => pool' = None
    BY <1>1, <1>4, <2>1, <2>3, <2>5 DEF Sees, PastPool, At
  <2> QED
    BY <2>4, <2>5 DEF Sees
<1>9. Local' /\ Seen'
  BY <1>1, <1>2, <1>6, <1>7, <1>8, LocalStep, SeenStep DEF Inv
<1>10. Among({"generate"})' /\ Among({"generate", "save"})' /\ Among({"discard", "generate", "save"})'
  BY <1>2, <1>3 DEF Among, Becomes
<1>11. pool' # None
  BY <1>1, <1>3
<1>12. Described' /\ Hidden'
  BY <1>10, <1>11 DEF Described, Hidden
<1>13. PublishedWasCleared'
  BY <1>1, <1>4, ClearedStill DEF Inv
<1> QED
  BY <1>5, <1>9, <1>12, <1>13 DEF Inv

LEMMA GenerateStep ==
    ASSUME Inv, NEW h \in Handlers, Generate(h)
    PROVE  Inv'
<1> USE AdmissionAssumption
<1> DEFINE w == work[h]
           row == [content |-> pool,
                   status |-> IF Verdict[w.content] = "pending_review" THEN "pending_review" ELSE "validated"]
           v == [w EXCEPT !.pc = "save", !.row = row]
<1>w. w \in Works /\ Fits(w, accepted) /\ Sees(w, pool, repo, mishaps)
  BY Own
<1>1. w.pc = "generate" /\ UNCHANGED <<pool, manifest, repo, accepted, rejected, mishaps>>
  BY DEF Generate, At
<1>2. CASE pool = None
  <2>1. Becomes(h, Idle)
    BY <1>2, ReturnWork DEF Generate, Inv
  <2>2. TypeOK'
    BY <1>1, <2>1 DEF Inv, TypeOK, Becomes, Works
  <2>3. Local' /\ Seen'
    BY <1>1, <2>1, IdleFits, OwnStep DEF Inv
  <2>4. \A pcs : Among(pcs) /\ "generate" \notin pcs => Among(pcs)'
    BY <1>1, <2>1, AmongStill
  <2>5. Described' /\ Hidden' /\ PublishedWasCleared'
    BY <1>1, <1>2, <2>4 DEF Inv, Described, Hidden, PublishedWasCleared
  <2> QED
    BY <2>2, <2>3, <2>5 DEF Inv
<1>3. CASE pool # None
  <2>1. pool \in Contents /\ row \in Manifests /\ v \in Works
    BY <1>w, <1>3 DEF Inv, TypeOK, Manifests, Statuses, Works, Steps
  <2>2. work' = [work EXCEPT ![h] = v]
    BY <1>3 DEF Generate
  <2>3. Becomes(h, v)
    BY <2>1, <2>2, SetWork DEF Inv
  <2>4. v.pc = "save" /\ v.row = row /\ v.op = w.op /\ v.content = w.content
    BY <1>w DEF Works
  <2>5. w.content \in Contents /\ w.op \in Entering /\ Verdict[w.content] \in {"approved", "pending_review"}
    BY <1>w, <1>1 DEF Works, Fits
  <2>6. row # None /\ row.content = pool /\ row.status \in {"validated", "pending_review"}
        /\ (row.status = "validated" => Verdict[w.content] = "approved")
    BY <2>1, <2>5
  <2>7. Fits(v, accepted')
    <3> HIDE DEF v, row
    <3> QED
      BY <2>4, <2>5, <2>6 DEF Fits
  <2>8. Sees(v, pool', repo', mishaps')
    <3>1. Holds(w) = w.content /\ Holds(v) = w.content
      BY <1>1, <2>4, <2>5 DEF Holds, Entering
    <3>2. "crossed" \notin mishaps => w.content = pool
      BY <1>w, <1>3, <2>5, <3>1 DEF Sees
    <3> HIDE DEF v, row
    <3> QED
      BY <1>1, <2>4, <2>6, <3>1, <3>2 DEF Sees
  <2>9. TypeOK'
    BY <1>1, <2>3 DEF Inv, TypeOK, Becomes, Works
  <2>10. Local' /\ Seen'
    BY <1>1, <2>3, <2>7, <2>8, OwnStep DEF Inv
  <2>11. Among({"generate", "save"})' /\ Among({"discard", "generate", "save"})'
         /\ Among({"discard", "remove", "forget", "save"})'
    BY <2>3, <2>4 DEF Among, Becomes
  <2>12. Described' /\ Hidden' /\ PublishedWasCleared'
    BY <1>1, <2>11 DEF Inv, Described, Hidden, PublishedWasCleared
  <2> QED
    BY <2>9, <2>10, <2>12 DEF Inv
<1> QED
  BY <1>2, <1>3

LEMMA SaveStep ==
    ASSUME Inv, NEW h \in Handlers, Save(h)
    PROVE  Inv'
<1> USE AdmissionAssumption
<1> DEFINE w == work[h]
           v == [w EXCEPT !.pc = "publish"]
<1>w. w \in Works /\ Fits(w, accepted) /\ Sees(w, pool, repo, mishaps)
  BY Own
<1>1. w.pc = "save" /\ manifest' = w.row /\ UNCHANGED <<pool, repo, accepted, rejected, mishaps>>
  BY DEF Save, At
<1>2. /\ w.op \in Entering /\ w.content # None /\ w.row \in Manifests /\ w.row # None
      /\ w.row.status \in {"validated", "pending_review"}
      /\ w.row.status = "validated" => Verdict[w.content] = "approved"
  BY <1>w, <1>1 DEF Works, Fits
<1>3. PICK u : Becomes(h, u) /\ u \in {Idle, v} /\ (u = v => w.row.status = "validated")
  <2>1. CASE w.row.status = "pending_review"
    BY <2>1, ReturnWork, <1>w, <1>1 DEF Save, Inv, Idle
  <2>2. CASE w.row.status # "pending_review"
    BY <1>2, <2>2, GoWork DEF Save, Inv, Steps
  <2> QED
    BY <2>1, <2>2
<1>4. Holds(w) = w.content
  BY <1>1, <1>2 DEF Holds, Entering
<1>5. Fits(u, accepted') /\ Sees(u, pool', repo', mishaps')
  <2>1. CASE u = Idle
    BY <2>1, IdleFits
  <2>2. CASE u = v /\ u # Idle
    <3>1. u.pc = "publish" /\ u.op = w.op /\ u.content = w.content
      BY <1>w, <2>2 DEF Works
    <3>2. Verdict[w.content] = "approved"
      BY <1>2, <1>3, <2>2
    <3>3. Holds(u) = w.content
      BY <1>2, <3>1 DEF Holds, Entering
    <3> QED
      BY <1>w, <1>1, <1>2, <1>4, <3>1, <3>2, <3>3 DEF Fits, Sees
  <2> QED
    BY <1>3, <2>1, <2>2
<1>6. TypeOK'
  BY <1>1, <1>2, <1>3 DEF Inv, TypeOK, Becomes, Works
<1>7. Local' /\ Seen'
  BY <1>1, <1>3, <1>5, OwnStep DEF Inv
<1>8. Described'
  BY <1>w, <1>1, <1>2, <1>4 DEF Sees, Described
<1>9. Hidden' /\ PublishedWasCleared'
  BY <1>1, <1>2 DEF Hidden, PublishedWasCleared, Inv
<1> QED
  BY <1>6, <1>7, <1>8, <1>9 DEF Inv

\* What is published is the content that the handler holds, which it checked or which was accepted.
LEMMA PublishStep ==
    ASSUME Inv, NEW h \in Handlers, Publish(h)
    PROVE  Inv'
<1> USE AdmissionAssumption
<1> DEFINE w == work[h]
<1>w. w \in Works /\ Fits(w, accepted) /\ Sees(w, pool, repo, mishaps)
  BY Own
<1>1. w.pc = "publish" /\ UNCHANGED <<pool, manifest, accepted, rejected>>
  BY DEF Publish, At
<1>2. Becomes(h, Idle)
  BY ReturnWork DEF Publish, Inv
<1>3. \A pcs : Among(pcs) /\ "publish" \notin pcs => Among(pcs)'
  BY <1>1, <1>2, AmongStill
<1>4. CASE UNCHANGED <<repo, mishaps>>
  <2>1. TypeOK'
    BY <1>1, <1>2, <1>4 DEF Inv, TypeOK, Becomes, Works
  <2>2. Local' /\ Seen'
    BY <1>1, <1>2, <1>4, IdleFits, OwnStep DEF Inv
  <2>3. Described' /\ Hidden' /\ PublishedWasCleared'
    BY <1>1, <1>3, <1>4 DEF Inv, Described, Hidden, PublishedWasCleared
  <2> QED
    BY <2>1, <2>2, <2>3 DEF Inv
<1>5. CASE /\ pool # None /\ repo \in {None, pool} /\ repo' = pool
           /\ mishaps' = mishaps \cup Note("reopened", \E g \in Handlers : PastRepo(g))
  <2>1. mishaps \subseteq mishaps' /\ mishaps' \subseteq Mishaps
    BY <1>5 DEF Note, Inv, TypeOK, Mishaps
  <2>2. TypeOK'
    BY <1>1, <1>2, <1>5, <2>1 DEF Inv, TypeOK, Becomes, Works
  <2>3. ASSUME NEW g \in Handlers \ {h} PROVE Sees(work[g], pool', repo', mishaps')
    <3>1. Sees(work[g], pool, repo, mishaps)
      BY Own
    <3>2. ASSUME "reopened" \notin mishaps' PROVE ~PastRepo(g)
      BY <1>5, <3>2 DEF Note
    <3>3. ASSUME mishaps' \cap {"stuck", "reopened"} = {}
          PROVE  /\ work[g].pc \notin {"hide", "reload", "mark"}
                 /\ work[g].pc = "withdraw" /\ work[g].content = None => pool' = None
      BY <1>1, <2>1, <3>1, <3>2, <3>3 DEF Sees, PastRepo, At
    <3> QED
      BY <1>1, <2>1, <3>1, <3>3 DEF Sees
  <2>4. Local' /\ Seen'
    BY <1>1, <1>2, <2>3, IdleFits, LocalStep, SeenStep DEF Inv
  <2>5. Described'
    BY <1>1, <1>3, <2>1 DEF Inv, Described
  <2>6. Hidden'
    <3> SUFFICES ASSUME mishaps' \subseteq {"crossed"}, manifest # None, manifest.status = "quarantined"
                 PROVE  /\ Among({"discard", "generate", "save"})'
                        /\ Among({"discard", "remove", "forget", "save"})' \/ Among({"generate"})'
      BY <1>1, <1>5 DEF Hidden
    <3>1. Among({"discard", "generate", "save"})
      BY <1>5, <2>1 DEF Inv, Hidden
    <3>2. Among({"discard", "generate", "save"})'
      BY <1>3, <3>1
    <3>3. Among({"discard", "remove", "forget", "save"})' \/ Among({"generate"})'
      BY <3>2 DEF Among
    <3> QED
      BY <3>2, <3>3
  <2>7. PublishedWasCleared'
    <3> SUFFICES ASSUME "crossed" \notin mishaps' PROVE Verdict[pool] = "approved" \/ pool \in accepted
      BY <1>1, <1>5 DEF PublishedWasCleared
    <3>1. Holds(w) # None => Holds(w) = pool
      BY <1>w, <1>5, <2>1 DEF Sees
    <3>2. CASE w.op \in Entering
      <4>1. Holds(w) = w.content
        BY <1>1, <3>2 DEF Holds, Entering
      <4>2. w.content # None /\ Verdict[w.content] = "approved"
        BY <1>w, <1>1, <3>2 DEF Fits, Entering
      <4> QED
        BY <3>1, <4>1, <4>2
    <3>3. CASE w.op \notin Entering
      <4>1. w.row # None /\ w.row.content \in accepted /\ w.row \in Manifests
        BY <1>w, <1>1, <3>3 DEF Fits, Works
      <4>2. Holds(w) = w.row.content /\ w.row.content # None
        BY <1>1, <3>3, <4>1 DEF Holds, Entering, Manifests
      <4> QED
        BY <3>1, <4>1, <4>2
    <3> QED
      BY <3>2, <3>3
  <2> QED
    BY <2>2, <2>4, <2>5, <2>6, <2>7 DEF Inv
<1> QED
  BY <1>4, <1>5 DEF Publish

--------------------------------------------------------------------------------
\* decide_package().
LEMMA RecordStep ==
    ASSUME Inv, NEW h \in Handlers, Record(h)
    PROVE  Inv'
<1> DEFINE w == work[h]
           v == [w EXCEPT !.pc = "status"]
<1>w. w \in Works /\ Fits(w, accepted) /\ Sees(w, pool, repo, mishaps)
  BY Own
<1>1. w.pc = "record" /\ UNCHANGED <<pool, manifest, repo, mishaps>>
  BY DEF Record, At
<1>2. Becomes(h, v)
  BY GoWork DEF Record, Inv, Steps
<1>3. w.op = "decide" /\ w.row \in Manifests /\ w.row # None /\ w.action \in Actions
  BY <1>w, <1>1 DEF Works, Fits
<1>4. /\ accepted' \subseteq Contents /\ rejected' \subseteq Contents /\ accepted \subseteq accepted'
      /\ w.action \in Accepting => w.row.content \in accepted'
  BY <1>3 DEF Record, Inv, TypeOK, Manifests, Accepting
<1>5. TypeOK'
  BY <1>1, <1>2, <1>4 DEF Inv, TypeOK, Becomes, Works
<1>6. v.pc = "status" /\ v.op = w.op /\ v.row = w.row /\ v.action = w.action
  BY <1>w DEF Works
<1>7. Holds(v) = Holds(w) /\ w.action # "none"
  BY <1>1, <1>3, <1>6 DEF Holds, Actions
<1>8. Fits(v, accepted') /\ Sees(v, pool', repo', mishaps')
  BY <1>w, <1>1, <1>3, <1>4, <1>6, <1>7 DEF Fits, Sees
<1>9. Local' /\ Seen'
  BY <1>1, <1>2, <1>4, <1>8, OwnStep DEF Inv
<1>10. \A pcs : Among(pcs) /\ "record" \notin pcs => Among(pcs)'
  BY <1>1, <1>2, AmongStill
<1>11. Described' /\ Hidden'
  BY <1>1, <1>10 DEF Inv, Described, Hidden
<1>12. PublishedWasCleared'
  BY <1>1, <1>4, ClearedStill DEF Inv
<1> QED
  BY <1>5, <1>9, <1>11, <1>12 DEF Inv

LEMMA SaveStatusStep ==
    ASSUME Inv, NEW h \in Handlers, SaveStatus(h)
    PROVE  Inv'
<1> USE AdmissionAssumption
<1> DEFINE w == work[h]
<1>w. w \in Works /\ Fits(w, accepted) /\ Sees(w, pool, repo, mishaps)
  BY Own
<1>1. /\ w.pc = "status" /\ UNCHANGED <<pool, repo, accepted, rejected, mishaps>>
      /\ manifest' = [w.row EXCEPT !.status = StatusOf(w.action)]
  BY DEF SaveStatus, At
<1>2. w.op = "decide" /\ w.row \in Manifests /\ w.row # None /\ w.action \in Actions
  BY <1>w, <1>1 DEF Works, Fits
<1>3. /\ manifest' \in Manifests /\ manifest' # None /\ manifest'.content = w.row.content
      /\ manifest'.status = "quarantined" => w.action = "reject"
  BY <1>1, <1>2 DEF Manifests, StatusOf, Actions, Statuses
<1>4. PICK u : /\ Becomes(h, u) /\ u \in {Idle, [w EXCEPT !.pc = "publish"], [w EXCEPT !.pc = "discard"]}
               /\ u = [w EXCEPT !.pc = "publish"] => w.action \in Accepting
               /\ w.action = "reject" => u.pc = "discard"
  <2>1. CASE w.action \in Accepting
    <3>1. Becomes(h, [w EXCEPT !.pc = "publish"])
      BY <2>1, GoWork DEF SaveStatus, Accepting, Inv, Steps
    <3> QED
      BY <2>1, <3>1 DEF Accepting
  <2>2. CASE w.action = "reject"
    <3>1. Becomes(h, [w EXCEPT !.pc = "discard"])
      BY <2>2, GoWork DEF SaveStatus, Inv, Steps
    <3>2. [w EXCEPT !.pc = "discard"].pc = "discard" /\ [w EXCEPT !.pc = "publish"].pc = "publish"
      BY <1>w DEF Works
    <3> QED
      BY <2>2, <3>1, <3>2
  <2>3. CASE w.action \notin Accepting \cup {"reject"}
    <3>1. Becomes(h, Idle)
      BY <2>3, ReturnWork DEF SaveStatus, Accepting, Inv
    <3>2. [w EXCEPT !.pc = "publish"].pc = "publish" /\ Idle.pc = "idle"
      BY <1>w DEF Works, Idle
    <3> QED
      BY <2>3, <3>1, <3>2
  <2> QED
    BY <2>1, <2>2, <2>3
<1>5. Holds(w) = w.row.content /\ w.row.content # None
  BY <1>1, <1>2 DEF Holds, Manifests
<1>6. Fits(u, accepted') /\ Sees(u, pool', repo', mishaps')
  <2>1. CASE u = Idle
    BY <2>1, IdleFits
  <2>2. CASE u = [w EXCEPT !.pc = "publish"] /\ u # Idle
    <3>1. u.pc = "publish" /\ u.op = "decide" /\ u.row = w.row
      BY <1>w, <1>2, <2>2 DEF Works
    <3>2. w.row.content \in accepted
      BY <1>w, <1>1, <1>4, <2>2 DEF Fits
    <3>3. Holds(u) = w.row.content
      BY <3>1 DEF Holds
    <3> QED
      BY <1>w, <1>1, <1>2, <1>5, <3>1, <3>2, <3>3 DEF Fits, Sees
  <2>3. CASE u = [w EXCEPT !.pc = "discard"] /\ u # Idle
    <3>1. u.pc = "discard"
      BY <1>w, <2>3 DEF Works
    <3> QED
      BY <3>1 DEF Fits, Sees, Holds
  <2> QED
    BY <1>4, <2>1, <2>2, <2>3
<1>7. TypeOK'
  BY <1>1, <1>3, <1>4 DEF Inv, TypeOK, Becomes, Works
<1>8. Local' /\ Seen'
  BY <1>1, <1>4, <1>6, OwnStep DEF Inv
<1>9. Described'
  BY <1>w, <1>1, <1>3, <1>5 DEF Sees, Described
<1>10. Hidden'
  <2>1. manifest'.status = "quarantined" => work'[h].pc = "discard"
    BY <1>3, <1>4 DEF Becomes
  <2> QED
    BY <2>1 DEF Hidden, Among
<1>11. PublishedWasCleared'
  BY <1>1 DEF PublishedWasCleared, Inv
<1> QED
  BY <1>7, <1>8, <1>9, <1>10, <1>11 DEF Inv

\* The rejection and the deletion take the file out of the pool, and stay to take it out of the
\* repository or to forget its manifest.
LEMMA EmptyStep ==
    ASSUME Inv, NEW h \in Handlers, Discard(h) \/ Unlink(h)
    PROVE  Inv'
<1> DEFINE w == work[h]
<1>1. PICK p \in {"remove", "forget"} :
        /\ Becomes(h, [w EXCEPT !.pc = p])
        /\ pool' = None /\ UNCHANGED <<manifest, repo, accepted, rejected, mishaps>>
  BY GoWork DEF Discard, Unlink, Inv, Steps
<1> DEFINE v == [w EXCEPT !.pc = p]
<1>2. v.pc = p
  BY Own DEF Works
<1>3. Fits(v, accepted') /\ Sees(v, pool', repo', mishaps')
  BY <1>1, <1>2 DEF Fits, Sees, Holds
<1>4. TypeOK'
  BY <1>1 DEF Inv, TypeOK, Becomes, Works
<1>5. Local' /\ Seen'
  BY <1>1, <1>3, OwnStep DEF Inv
<1>6. Among({"discard", "remove", "forget", "save"})'
  BY <1>1, <1>2 DEF Among, Becomes
<1>7. Described' /\ Hidden' /\ PublishedWasCleared'
  BY <1>1, <1>6 DEF Inv, Described, Hidden, PublishedWasCleared
<1> QED
  BY <1>4, <1>5, <1>7 DEF Inv

\* Taking the file out of the repository: nothing is served, or the failure is noted.
LEMMA UnpublishStep ==
    ASSUME Inv, NEW h \in Handlers, Remove(h) \/ Withdraw(h) \/ Drop(h)
    PROVE  Inv'
<1> DEFINE w == work[h]
<1>w. w \in Works /\ Fits(w, accepted) /\ Sees(w, pool, repo, mishaps)
  BY Own
<1>1. /\ w.pc \in {"remove", "withdraw", "unpublish"} /\ UNCHANGED <<pool, manifest, accepted, rejected>>
      /\ \/ repo' = None /\ mishaps' = mishaps
         \/ repo' = repo /\ mishaps' = mishaps \cup {"stuck"}
  <2>1. CASE Remove(h)
    BY <2>1 DEF Remove, Unpublish, At
  <2>2. CASE Withdraw(h)
    BY <2>2 DEF Withdraw, Unpublish, At
  <2>3. CASE Drop(h)
    BY <2>3 DEF Drop, Unpublish, At
  <2> QED
    BY <2>1, <2>2, <2>3
<1>2. PICK u : /\ Becomes(h, u)
               /\ \/ u = Idle
                  \/ w.pc = "withdraw" /\ u = [w EXCEPT !.pc = "hide"]
                  \/ w.pc = "unpublish" /\ u = [w EXCEPT !.pc = "unlink"]
  <2>1. CASE Remove(h)
    BY <2>1, ReturnWork DEF Remove, Inv
  <2>2. CASE Withdraw(h)
    BY <2>2, GoWork DEF Withdraw, Inv, Steps, At
  <2>3. CASE Drop(h)
    BY <2>3, GoWork DEF Drop, Inv, Steps, At
  <2> QED
    BY <2>1, <2>2, <2>3
<1>3. repo' \in {repo, None} /\ mishaps \subseteq mishaps' /\ ("stuck" \notin mishaps' => repo' = None)
  BY <1>1
<1>4. Fits(u, accepted') /\ Sees(u, pool', repo', mishaps')
  <2>1. CASE u = Idle
    BY <2>1, IdleFits
  <2>2. CASE w.pc = "withdraw" /\ u = [w EXCEPT !.pc = "hide"]
    <3>1. u.pc = "hide" /\ u.content = w.content
      BY <1>w, <2>2 DEF Works
    <3> QED
      BY <1>w, <1>1, <1>3, <2>2, <3>1 DEF Fits, Sees, Holds
  <2>3. CASE w.pc = "unpublish" /\ u = [w EXCEPT !.pc = "unlink"]
    <3>1. u.pc = "unlink"
      BY <1>w, <2>3 DEF Works
    <3> QED
      BY <3>1 DEF Fits, Sees, Holds
  <2> QED
    BY <1>2, <2>1, <2>2, <2>3
<1>5. TypeOK'
  BY <1>1, <1>2 DEF Inv, TypeOK, Becomes, Works, Mishaps
<1>6. Local' /\ Seen'
  BY <1>1, <1>2, <1>3, <1>4, OwnStep DEF Inv
<1>7. \A pcs : Among(pcs) /\ pcs \cap {"remove", "withdraw", "unpublish"} = {} => Among(pcs)'
  BY <1>1, <1>2, AmongStill
<1>8. Described'
  BY <1>1, <1>3, <1>7 DEF Inv, Described
<1>9. Hidden'
  <2>1. {"discard", "generate", "save"} \cap {"remove", "withdraw", "unpublish"} = {}
    OBVIOUS
  <2> QED
    BY <1>1, <1>3, <1>7, <2>1 DEF Inv, Hidden
<1>10. PublishedWasCleared'
  BY <1>1, <1>3, ClearedStill DEF Inv
<1> QED
  BY <1>5, <1>6, <1>8, <1>9, <1>10 DEF Inv

--------------------------------------------------------------------------------
\* quarantine_package().
LEMMA HideStep ==
    ASSUME Inv, NEW h \in Handlers, Hide(h)
    PROVE  Inv'
<1> DEFINE w == work[h]
           v == [w EXCEPT !.pc = "reload"]
<1>w. w \in Works /\ Fits(w, accepted) /\ Sees(w, pool, repo, mishaps)
  BY Own
<1>1. /\ w.pc = "hide" /\ UNCHANGED <<manifest, repo, accepted, rejected, mishaps>>
      /\ pool' = IF w.content = None THEN pool ELSE None
  BY DEF Hide, At
<1>2. Becomes(h, v)
  BY GoWork DEF Hide, Inv, Steps
<1>3. v.pc = "reload"
  BY <1>w DEF Works
<1>4. mishaps \cap {"stuck", "reopened"} = {} => repo = None /\ pool' = None
  BY <1>w, <1>1 DEF Sees
<1>5. Fits(v, accepted') /\ Sees(v, pool', repo', mishaps')
  BY <1>1, <1>3, <1>4 DEF Fits, Sees, Holds
<1>6. TypeOK'
  BY <1>1, <1>2 DEF Inv, TypeOK, Becomes, Works
<1>7. Local' /\ Seen'
  BY <1>1, <1>2, <1>5, OwnStep DEF Inv
<1>8. \A pcs : Among(pcs) /\ "hide" \notin pcs => Among(pcs)'
  BY <1>1, <1>2, AmongStill
<1>9. Described'
  BY <1>1, <1>8 DEF Inv, Described
<1>10. Hidden'
  BY <1>1, <1>4 DEF Hidden
<1>11. PublishedWasCleared'
  BY <1>1 DEF Inv, PublishedWasCleared
<1> QED
  BY <1>6, <1>7, <1>9, <1>10, <1>11 DEF Inv

LEMMA ReloadStep ==
    ASSUME Inv, NEW h \in Handlers, Reload(h)
    PROVE  Inv'
<1> USE AdmissionAssumption
<1> DEFINE w == work[h]
           v == [w EXCEPT !.pc = "mark", !.row = manifest]
<1>w. w \in Works /\ Fits(w, accepted) /\ Sees(w, pool, repo, mishaps)
  BY Own
<1>1. /\ w.pc = "reload" /\ UNCHANGED <<pool, manifest, repo, accepted, rejected>>
      /\ mishaps' = mishaps \cup Note("crossed", manifest # None /\ Misread)
  BY DEF Reload, At
<1>2. PICK u : Becomes(h, u) /\ (u = Idle \/ (u = v /\ manifest # None))
  <2>1. CASE manifest = None
    <3>1. Return(h)
      BY <2>1 DEF Reload
    <3>2. Becomes(h, Idle)
      BY <3>1, ReturnWork DEF Inv
    <3> QED
      BY <3>2
  <2>2. CASE manifest # None
    <3>1. v \in Works /\ work' = [work EXCEPT ![h] = v]
      BY <1>w, <2>2 DEF Reload, Works, Steps, Inv, TypeOK
    <3> QED
      BY <2>2, <3>1, SetWork DEF Inv
  <2> QED
    BY <2>1, <2>2
<1>3. mishaps \subseteq mishaps' /\ mishaps' \subseteq Mishaps
  BY <1>1 DEF Note, Inv, TypeOK, Mishaps
<1>4. Fits(u, accepted') /\ Sees(u, pool', repo', mishaps')
  <2>1. CASE u = Idle
    BY <2>1, IdleFits
  <2>2. CASE u = v /\ manifest # None
    <3>1. u.pc = "mark" /\ u.row = manifest
      BY <1>w, <2>2 DEF Works
    <3>2. "crossed" \notin mishaps' /\ pool # None => manifest.content = pool
      BY <1>1, <2>2 DEF Note, Misread
    <3>3. Holds(u) = manifest.content
      BY <3>1 DEF Holds
    <3> QED
      BY <1>w, <1>1, <1>3, <2>2, <3>1, <3>2, <3>3 DEF Fits, Sees
  <2> QED
    BY <1>2, <2>1, <2>2
<1>5. TypeOK'
  BY <1>1, <1>2, <1>3 DEF Inv, TypeOK, Becomes, Works
<1>6. Local' /\ Seen'
  BY <1>1, <1>2, <1>3, <1>4, OwnStep DEF Inv
<1>7. \A pcs : Among(pcs) /\ "reload" \notin pcs => Among(pcs)'
  BY <1>1, <1>2, AmongStill
<1>8. Described' /\ Hidden'
  BY <1>1, <1>3, <1>7 DEF Inv, Described, Hidden
<1>9. PublishedWasCleared'
  BY <1>1, <1>3, ClearedStill DEF Inv
<1> QED
  BY <1>5, <1>6, <1>8, <1>9 DEF Inv

\* Who writes "quarantined" here finds the pool and the repository empty.
LEMMA MarkStep ==
    ASSUME Inv, NEW h \in Handlers, Mark(h)
    PROVE  Inv'
<1> USE AdmissionAssumption
<1> DEFINE w == work[h]
<1>w. w \in Works /\ Fits(w, accepted) /\ Sees(w, pool, repo, mishaps)
  BY Own
<1>1. /\ w.pc = "mark" /\ UNCHANGED <<pool, repo, accepted, rejected, mishaps>>
      /\ manifest' = [w.row EXCEPT !.status = "quarantined"]
  BY DEF Mark, At
<1>2. Becomes(h, Idle)
  BY ReturnWork DEF Mark, Inv
<1>3. w.row \in Manifests /\ manifest' \in Manifests /\ manifest' # None /\ manifest'.content = w.row.content
  BY <1>w, <1>1 DEF Works, Fits, Manifests, Statuses
<1>4. Holds(w) = w.row.content /\ w.row.content # None
  BY <1>1, <1>3 DEF Holds, Manifests
<1>5. TypeOK'
  BY <1>1, <1>2, <1>3 DEF Inv, TypeOK, Becomes, Works
<1>6. Local' /\ Seen'
  BY <1>1, <1>2, IdleFits, OwnStep DEF Inv
<1>7. Described'
  BY <1>w, <1>1, <1>3, <1>4 DEF Sees, Described
<1>8. Hidden'
  BY <1>w, <1>1 DEF Sees, Hidden
<1>9. PublishedWasCleared'
  BY <1>1 DEF Inv, PublishedWasCleared
<1> QED
  BY <1>5, <1>6, <1>7, <1>8, <1>9 DEF Inv

--------------------------------------------------------------------------------
\* The end of a deletion, and the saving of a rescan.
LEMMA ForgetStep ==
    ASSUME Inv, NEW h \in Handlers, Forget(h)
    PROVE  Inv'
<1> DEFINE w == work[h]
<1>w. w \in Works /\ Sees(w, pool, repo, mishaps)
  BY Own
<1>1. w.pc = "forget" /\ manifest' = None /\ UNCHANGED <<pool, repo, accepted, rejected, mishaps>>
  BY DEF Forget, At
<1>2. Becomes(h, Idle)
  BY ReturnWork DEF Forget, Inv
<1>3. TypeOK'
  BY <1>1, <1>2 DEF Inv, TypeOK, Becomes, Works
<1>4. Local' /\ Seen'
  BY <1>1, <1>2, IdleFits, OwnStep DEF Inv
<1>5. Described' /\ Hidden' /\ PublishedWasCleared'
  BY <1>w, <1>1 DEF Inv, Sees, Described, Hidden, PublishedWasCleared
<1> QED
  BY <1>3, <1>4, <1>5 DEF Inv

LEMMA RescanStep ==
    ASSUME Inv, NEW h \in Handlers, Rescan(h)
    PROVE  Inv'
<1> USE AdmissionAssumption
<1> DEFINE w == work[h]
<1>w. w \in Works /\ Fits(w, accepted) /\ Sees(w, pool, repo, mishaps)
  BY Own
<1>1. w.pc = "rescan" /\ UNCHANGED <<pool, repo, accepted, rejected, mishaps>>
  BY DEF Rescan, At
<1>2. Becomes(h, Idle)
  BY ReturnWork DEF Rescan, Inv
<1>3. w.row \in Manifests /\ w.row # None
  BY <1>w, <1>1 DEF Works, Fits
<1>4. Holds(w) = w.row.content /\ w.row.content # None
  BY <1>1, <1>3 DEF Holds, Manifests
<1>5. Local' /\ Seen'
  BY <1>1, <1>2, IdleFits, OwnStep DEF Inv
<1>6. PublishedWasCleared'
  BY <1>1 DEF Inv, PublishedWasCleared
<1>7. CASE UNCHANGED manifest
  <2>1. TypeOK'
    BY <1>1, <1>2, <1>7 DEF Inv, TypeOK, Becomes, Works
  <2>2. \A pcs : Among(pcs) /\ "rescan" \notin pcs => Among(pcs)'
    BY <1>1, <1>2, AmongStill
  <2>3. Described' /\ Hidden'
    BY <1>1, <1>7, <2>2 DEF Inv, Described, Hidden
  <2> QED
    BY <1>5, <1>6, <2>1, <2>3 DEF Inv
<1>8. ASSUME NEW s \in {"validated", "pending_review"}, manifest' = [w.row EXCEPT !.status = s]
      PROVE  Inv'
  <2>1. /\ manifest' \in Manifests /\ manifest' # None /\ manifest'.content = w.row.content
        /\ manifest'.status # "quarantined"
    BY <1>3, <1>8 DEF Manifests, Statuses
  <2>2. TypeOK'
    BY <1>1, <1>2, <2>1 DEF Inv, TypeOK, Becomes, Works
  <2>3. Described'
    BY <1>w, <1>1, <1>4, <2>1 DEF Sees, Described
  <2>4. Hidden'
    BY <2>1 DEF Hidden
  <2> QED
    BY <1>5, <1>6, <2>2, <2>3, <2>4 DEF Inv
<1> QED
  BY <1>7, <1>8 DEF Rescan

\* A kill that leaves the file without its manifest, or a rejection halfway, is noted.
LEMMA CrashStep ==
    ASSUME Inv, NEW h \in Handlers, Crash(h)
    PROVE  Inv'
<1> DEFINE w == work[h]
<1>1. /\ UNCHANGED <<pool, manifest, repo, accepted, rejected>>
      /\ mishaps \subseteq mishaps' /\ mishaps' \subseteq Mishaps
      /\ "unsaved" \notin mishaps' => w.pc \notin {"generate", "save"}
      /\ "halfway" \notin mishaps' => w.pc \notin {"discard", "remove", "forget"}
  BY DEF Crash, At, Note, Mishaps, Inv, TypeOK
<1>2. Becomes(h, Idle)
  BY ReturnWork DEF Crash, Inv
<1>3. TypeOK'
  BY <1>1, <1>2 DEF Inv, TypeOK, Becomes, Works
<1>4. Local' /\ Seen'
  BY <1>1, <1>2, IdleFits, OwnStep DEF Inv
<1>5. \A pcs : Among(pcs) /\ w.pc \notin pcs => Among(pcs)'
  BY <1>2, AmongStill
<1>6. Described'
  BY <1>1, <1>5 DEF Inv, Described
<1>7. Hidden'
  <2> SUFFICES ASSUME mishaps' \subseteq {"crossed"}, manifest # None, manifest.status = "quarantined"
               PROVE  /\ pool # None => Among({"discard", "generate", "save"})'
                      /\ repo # None => Among({"discard", "remove", "forget", "save"})'
                                          \/ (pool # None /\ Among({"generate"})')
    BY <1>1 DEF Hidden
  <2>1. w.pc \notin {"generate", "save", "discard", "remove", "forget"}
    BY <1>1
  <2>2. /\ pool # None => Among({"discard", "generate", "save"})
        /\ repo # None => Among({"discard", "remove", "forget", "save"}) \/ (pool # None /\ Among({"generate"}))
    BY <1>1 DEF Inv, Hidden
  <2> QED
    BY <1>5, <2>1, <2>2
<1>8. PublishedWasCleared'
  BY <1>1, ClearedStill DEF Inv
<1> QED
  BY <1>3, <1>4, <1>6, <1>7, <1>8 DEF Inv

--------------------------------------------------------------------------------
LEMMA InvNext == Inv /\ [Next]_vars => Inv'
<1> SUFFICES ASSUME Inv, [Next]_vars PROVE Inv'
  OBVIOUS
<1>1. CASE UNCHANGED vars
  BY <1>1 DEF vars, Inv, TypeOK, Local, Seen, Described, Hidden, Among, PublishedWasCleared
<1>2. ASSUME NEW h \in Handlers, Begin(h) \/ Continue(h) \/ Crash(h) PROVE Inv'
  BY <1>2, BeginStep, ValidateStep, MoveStep, GenerateStep, SaveStep, PublishStep, RecordStep,
     SaveStatusStep, EmptyStep, UnpublishStep, HideStep, ReloadStep, MarkStep, ForgetStep, RescanStep,
     CrashStep DEF Continue
<1> QED
  BY <1>1, <1>2 DEF Next

\* The inductive invariant, for any handlers, contents and verdicts, any operations at once and
\* kills before any step: while nothing crossed it, each handler holds what the pool holds.
THEOREM InvHolds == Spec => []Inv
<1> QED
  BY InvInit, InvNext, PTL DEF Spec

\* Every variable of the admission keeps its type.
THEOREM TypesHold == Spec => []TypeOK
<1>1. Inv => TypeOK
  BY DEF Inv
<1> QED
  BY <1>1, InvHolds, PTL

\* What the repository serves was approved or accepted, whatever overlaps and is killed, until a
\* file is moved in under a handler at work on another.
THEOREM PublishedWasClearedHolds == Spec => []PublishedWasCleared
<1>1. Inv => PublishedWasCleared
  BY DEF Inv
<1> QED
  BY <1>1, InvHolds, PTL

\* What is in quarantine is out once every handler has returned, unless one was killed halfway,
\* a removal failed or a file came in behind the quarantine.
THEOREM QuarantinedIsOutHolds == Spec => []QuarantinedIsOut
<1>1. Inv => QuarantinedIsOut
  <2> SUFFICES ASSUME Inv, Working = {} PROVE QuarantinedIsOut
    BY DEF QuarantinedIsOut
  <2>1. \A pcs : "idle" \notin pcs => ~Among(pcs)
    BY DEF Among, Working
  <2> QED
    BY <2>1 DEF Inv, Hidden, QuarantinedIsOut
<1> QED
  BY <1>1, InvHolds, PTL

\* The manifest describes the file of the pool once every handler has returned, unless one was
\* killed before it saved its manifest or a file was moved in under it.
THEOREM ManifestDescribesPoolHolds == Spec => []ManifestDescribesPool
<1>1. Inv => ManifestDescribesPool
  <2> SUFFICES ASSUME Inv, Working = {} PROVE ManifestDescribesPool
    BY DEF ManifestDescribesPool
  <2>1. \A pcs : "idle" \notin pcs => ~Among(pcs)
    BY DEF Among, Working
  <2> QED
    BY <2>1 DEF Inv, Described, ManifestDescribesPool
<1> QED
  BY <1>1, InvHolds, PTL
================================================================================
