------------------------------- MODULE Admission -------------------------------
(***************************************************************************)
(* The admission of a package: upload_package() (routers/upload.py),       *)
(* import_one() (services/importer_apt.py), decide_package() and           *)
(* quarantine_package() (routers/decision_router.py),                      *)
(* delete_artifact_version() (routers/artifacts.py) and rematch_one()      *)
(* (services/cve_rematch.py) on one package file: one name, version and    *)
(* architecture, whose content may differ from one upload to the next.     *)
(*                                                                         *)
(* The handlers share the file in the flat pool, the manifest row and what *)
(* the physical repository publishes, and take no lock together.  The      *)
(* quarantine directory, which nothing reads, is left out, and so are the  *)
(* index and the texts.                                                    *)
(***************************************************************************)
EXTENDS Integers, FiniteSets

CONSTANTS
    Handlers,   \* requests and jobs at work at once
    Contents,   \* what a file of this name may hold
    Verdict,    \* content -> what the validation pipeline says of it
    None        \* no content, no file, no manifest

Actions  == {"accept_risk", "exception", "reject", "upgrade_required"}
Statuses == {"validated", "pending_review", "accepted_risk", "exception", "upgrade_required", "quarantined"}
Manifests == [content : Contents, status : Statuses]

ASSUME AdmissionAssumption ==
    /\ Verdict \in [Contents -> {"approved", "pending_review", "rejected"}]
    /\ None \notin Contents \cup Manifests

VARIABLES
    pool,      \* the content of the file in the flat pool, or None
    manifest,  \* the manifest row, or None
    repo,      \* the content that the repository publishes, or None
    accepted,  \* the contents whose risk a recorded decision accepted
    rejected,  \* the contents that the last recorded decision rejected
    mishaps,   \* what went wrong since the file was last nowhere, see Mishaps
    work       \* handler -> [op, pc, content, row, action]

vars == <<pool, manifest, repo, accepted, rejected, mishaps, work>>

Idle == [op |-> "none", pc |-> "idle", content |-> None, row |-> None, action |-> "none"]

\* "unsaved", "halfway": a handler was killed before it saved its manifest, or between two effects
\* of a rejection or a deletion.  "stuck": the repository tool failed to remove.  "crossed": a file
\* was moved in under a handler that took the pool to hold another, or a manifest was read that did
\* not describe the pool.  "reopened": a file came in behind a quarantine that was not marked yet.
Mishaps == {"unsaved", "halfway", "stuck", "crossed", "reopened"}

Steps == {"validate", "move", "generate", "save", "publish", "record", "status", "discard",
          "remove", "withdraw", "hide", "reload", "mark", "unpublish", "unlink", "forget", "rescan"}

TypeOK ==
    /\ pool \in Contents \cup {None}
    /\ manifest \in Manifests \cup {None}
    /\ repo \in Contents \cup {None}
    /\ accepted \subseteq Contents
    /\ rejected \subseteq Contents
    /\ mishaps \subseteq Mishaps
    /\ work \in [Handlers ->
         [op      : {"none", "upload", "import", "decide", "quarantine", "delete", "rematch"},
          pc      : {"idle"} \cup Steps,
          content : Contents \cup {None},
          row     : Manifests \cup {None},
          action  : Actions \cup {"none"}]]

Init ==
    /\ pool = None
    /\ manifest = None
    /\ repo = None
    /\ accepted = {}
    /\ rejected = {}
    /\ mishaps = {}
    /\ work = [h \in Handlers |-> Idle]

--------------------------------------------------------------------------------
At(h, pc)     == work[h].pc = pc
Go(h, pc)     == work' = [work EXCEPT ![h].pc = pc]
Return(h)     == work' = [work EXCEPT ![h] = Idle]
Working       == {h \in Handlers : work[h].pc # "idle"}

Note(what, happens) == IF happens THEN {what} ELSE {}

\* The content that a handler takes the pool to hold, until it has used it.
Holds(w) ==
    IF w.pc \in {"generate", "save", "publish"} /\ w.op \in {"upload", "import"} THEN w.content
    ELSE IF w.pc \in {"record", "status", "publish", "mark", "rescan"} THEN w.row.content
    ELSE None

\* What is moved to the pool is not what another handler works on, ...
Crosses(h) == \E g \in Handlers \ {h} :
    At(g, "forget") \/ Holds(work[g]) \notin {None, work[h].content}

\* ... or what is read is not the manifest of the file of the pool.
Misread == pool # None /\ manifest.content # pool

\* A quarantine has looked at the pool, or at the repository, and will not look again.
PastPool(g) == At(g, "reload") \/ At(g, "mark") \/
               (work[g].content = None /\ (At(g, "withdraw") \/ At(g, "hide")))
PastRepo(g) == At(g, "hide") \/ At(g, "reload") \/ At(g, "mark")

\* A file that is nowhere any more, with no handler at work, starts over.
Recalled == IF Working = {} /\ pool = None /\ repo = None THEN {} ELSE mishaps

Start(h, op, pc, content, row, action) ==
    /\ At(h, "idle")
    /\ work' = [work EXCEPT ![h] =
         [op |-> op, pc |-> pc, content |-> content, row |-> row, action |-> action]]
    /\ mishaps' = Recalled \cup Note("crossed", row # None /\ Misread)
    /\ UNCHANGED <<pool, manifest, repo, accepted, rejected>>

\* Adding the file of the pool to the repository: its absence and the errors of the tool
\* are reported, never raised; a version published with another content is refused.
Publish(h) ==
    /\ At(h, "publish")
    /\ \/ /\ pool # None /\ repo \in {None, pool} /\ repo' = pool
          /\ mishaps' = mishaps \cup Note("reopened", \E g \in Handlers : PastRepo(g))
       \/ UNCHANGED <<repo, mishaps>>
    /\ Return(h)
    /\ UNCHANGED <<pool, manifest, accepted, rejected>>

\* remove_package(): nobody reads whether it succeeded.
Unpublish ==
    \/ repo' = None /\ UNCHANGED mishaps
    \/ repo # None /\ UNCHANGED repo /\ mishaps' = mishaps \cup {"stuck"}

--------------------------------------------------------------------------------
\* upload_package() and import_one()

\* The checks of the name and of the distribution and the copy to a staging file of its own
\* touch nothing that is shared; then _check_duplicate(): a file of that name in the pool
\* ends the upload, as a duplicate or as a conflict.
Upload(h, c) ==
    /\ pool = None
    /\ Start(h, "upload", "validate", c, None, "none")

\* The import skips a version only when it is published.
Import(h, c) ==
    /\ repo = None
    /\ Start(h, "import", "validate", c, None, "none")

Validate(h) ==
    /\ At(h, "validate")
    /\ IF Verdict[work[h].content] = "rejected" THEN Return(h) ELSE Go(h, "move")
    /\ UNCHANGED <<pool, manifest, repo, accepted, rejected, mishaps>>

\* The staged file replaces whatever the pool holds under its name.
MoveToPool(h) ==
    /\ At(h, "move")
    /\ pool' = work[h].content
    /\ Go(h, "generate")
    /\ mishaps' = mishaps \cup Note("crossed", Crosses(h)) \cup Note("reopened", \E g \in Handlers : PastPool(g))
    /\ UNCHANGED <<manifest, repo, accepted, rejected>>

\* generate_manifest() reads the file of the pool; the status is that of the validation.
Generate(h) ==
    /\ At(h, "generate")
    /\ IF pool = None THEN Return(h)
       ELSE work' = [work EXCEPT
              ![h].pc = "save",
              ![h].row = [content |-> pool,
                          status |-> IF Verdict[work[h].content] = "pending_review"
                                     THEN "pending_review" ELSE "validated"]]
    /\ UNCHANGED <<pool, manifest, repo, accepted, rejected, mishaps>>

\* Slip: what awaits a review is published as well.
SaveAndPublish(h) ==
    /\ At(h, "save")
    /\ manifest' = work[h].row
    /\ Go(h, "publish")
    /\ UNCHANGED <<pool, repo, accepted, rejected, mishaps>>

\* save_manifest(), and the end of the handler for what awaits a review.
Save(h) ==
    /\ At(h, "save")
    /\ manifest' = work[h].row
    /\ IF work[h].row.status = "pending_review" THEN Return(h) ELSE Go(h, "publish")
    /\ UNCHANGED <<pool, repo, accepted, rejected, mishaps>>

--------------------------------------------------------------------------------
\* decide_package()

StatusOf(action) ==
    CASE action = "accept_risk" -> "accepted_risk"
      [] action = "reject"      -> "quarantined"
      [] OTHER                  -> action

\* Whatever is not in quarantine may be decided.
Decide(h, a) ==
    /\ manifest # None
    /\ manifest.status # "quarantined"
    /\ Start(h, "decide", "record", None, manifest, a)

\* save_decision()
Record(h) ==
    LET c == work[h].row.content
        a == work[h].action
    IN  /\ At(h, "record")
        /\ accepted' = IF a \in {"accept_risk", "exception"} THEN accepted \cup {c} ELSE accepted
        /\ rejected' = IF a = "reject" THEN rejected \cup {c} ELSE rejected \ {c}
        /\ Go(h, "status")
        /\ UNCHANGED <<pool, manifest, repo, mishaps>>

\* Slip: the action is written where its status belongs.
SaveAction(h) ==
    /\ At(h, "status")
    /\ manifest' = [work[h].row EXCEPT !.status = work[h].action]
    /\ Return(h)
    /\ UNCHANGED <<pool, repo, accepted, rejected, mishaps>>

\* Slip: a rejection leaves the repository before it leaves the pool.
SaveStatusRemoveFirst(h) ==
    /\ At(h, "status")
    /\ manifest' = [work[h].row EXCEPT !.status = StatusOf(work[h].action)]
    /\ CASE work[h].action \in {"accept_risk", "exception"} -> Go(h, "publish")
         [] work[h].action = "reject"                       -> Go(h, "withdraw")
         [] OTHER                                           -> Return(h)
    /\ UNCHANGED <<pool, repo, accepted, rejected, mishaps>>

\* The manifest read at the start is written back with the status of the action.
SaveStatus(h) ==
    /\ At(h, "status")
    /\ manifest' = [work[h].row EXCEPT !.status = StatusOf(work[h].action)]
    /\ CASE work[h].action \in {"accept_risk", "exception"} -> Go(h, "publish")
         [] work[h].action = "reject"                       -> Go(h, "discard")
         [] OTHER                                           -> Return(h)
    /\ UNCHANGED <<pool, repo, accepted, rejected, mishaps>>

Discard(h) ==
    /\ At(h, "discard")
    /\ pool' = None
    /\ Go(h, "remove")
    /\ UNCHANGED <<manifest, repo, accepted, rejected, mishaps>>

Remove(h) ==
    /\ At(h, "remove")
    /\ Unpublish
    /\ Return(h)
    /\ UNCHANGED <<pool, manifest, accepted, rejected>>

--------------------------------------------------------------------------------
\* quarantine_package()

\* The file is looked for before the repository is touched.
Quarantine(h) == Start(h, "quarantine", "withdraw", pool, None, "none")

Withdraw(h) ==
    /\ At(h, "withdraw")
    /\ Unpublish
    /\ Go(h, "hide")
    /\ UNCHANGED <<pool, manifest, accepted, rejected>>

Hide(h) ==
    /\ At(h, "hide")
    /\ pool' = IF work[h].content = None THEN pool ELSE None
    /\ Go(h, "reload")
    /\ UNCHANGED <<manifest, repo, accepted, rejected, mishaps>>

Reload(h) ==
    /\ At(h, "reload")
    /\ IF manifest = None THEN Return(h)
       ELSE work' = [work EXCEPT ![h].pc = "mark", ![h].row = manifest]
    /\ mishaps' = mishaps \cup Note("crossed", manifest # None /\ Misread)
    /\ UNCHANGED <<pool, manifest, repo, accepted, rejected>>

Mark(h) ==
    /\ At(h, "mark")
    /\ manifest' = [work[h].row EXCEPT !.status = "quarantined"]
    /\ Return(h)
    /\ UNCHANGED <<pool, repo, accepted, rejected, mishaps>>

--------------------------------------------------------------------------------
\* delete_artifact_version(), for a version that the index knows.

Delete(h) ==
    /\ manifest # None
    /\ Start(h, "delete", "unpublish", None, None, "none")

Drop(h) ==
    /\ At(h, "unpublish")
    /\ Unpublish
    /\ Go(h, "unlink")
    /\ UNCHANGED <<pool, manifest, accepted, rejected>>

\* Slip: the name of the file is guessed, and is not the one in the pool.
UnlinkAnother(h) ==
    /\ At(h, "unlink")
    /\ Go(h, "forget")
    /\ UNCHANGED <<pool, manifest, repo, accepted, rejected, mishaps>>

Unlink(h) ==
    /\ At(h, "unlink")
    /\ pool' = None
    /\ Go(h, "forget")
    /\ UNCHANGED <<manifest, repo, accepted, rejected, mishaps>>

Forget(h) ==
    /\ At(h, "forget")
    /\ manifest' = None
    /\ Return(h)
    /\ UNCHANGED <<pool, repo, accepted, rejected, mishaps>>

--------------------------------------------------------------------------------
\* rematch_one(), on the manifest read when its batch was fetched.

Rematch(h) ==
    /\ manifest # None
    /\ manifest.status = "validated"
    /\ Start(h, "rematch", "rescan", None, manifest, "none")

\* The manifest is saved, with or without new vulnerabilities, or the scan fails.
Rescan(h) ==
    /\ At(h, "rescan")
    /\ \/ \E s \in {"validated", "pending_review"} :
            manifest' = [work[h].row EXCEPT !.status = s]
       \/ UNCHANGED manifest
    /\ Return(h)
    /\ UNCHANGED <<pool, repo, accepted, rejected, mishaps>>

--------------------------------------------------------------------------------
\* The process of a handler is killed, before any of its steps.
Crash(h) ==
    /\ ~At(h, "idle")
    /\ mishaps' = mishaps
         \cup Note("unsaved", At(h, "generate") \/ At(h, "save"))
         \cup Note("halfway", At(h, "discard") \/ At(h, "remove") \/ At(h, "forget"))
    /\ Return(h)
    /\ UNCHANGED <<pool, manifest, repo, accepted, rejected>>

Begin(h) ==
    \/ \E c \in Contents : Upload(h, c) \/ Import(h, c)
    \/ \E a \in Actions : Decide(h, a)
    \/ Quarantine(h) \/ Delete(h) \/ Rematch(h)

Continue(h) ==
    \/ Validate(h) \/ MoveToPool(h) \/ Generate(h) \/ Save(h) \/ Publish(h)
    \/ Record(h) \/ SaveStatus(h) \/ Discard(h) \/ Remove(h)
    \/ Withdraw(h) \/ Hide(h) \/ Reload(h) \/ Mark(h)
    \/ Drop(h) \/ Unlink(h) \/ Forget(h) \/ Rescan(h)

Next == \E h \in Handlers : Begin(h) \/ Continue(h) \/ Crash(h)

Spec == Init /\ [][Next]_vars

--------------------------------------------------------------------------------
\* Properties.

\* Nothing is published unseen: what the repository serves was approved by the pipeline, or is the
\* very content that a decision accepted, whatever overlaps and wherever handlers are killed, unless
\* a file was moved in under a handler at work on another.
PublishedWasCleared ==
    repo # None /\ "crossed" \notin mishaps => Verdict[repo] = "approved" \/ repo \in accepted

\* Once every handler has returned, what the manifest says is in quarantine is neither published
\* nor in the pool, whichever decisions, quarantines and uploads raced for it: only a kill between
\* two effects, a removal that failed or a file that came in behind a quarantine leaves it there.
QuarantinedIsOut ==
    /\ Working = {} /\ mishaps \subseteq {"crossed"}
    /\ manifest # None /\ manifest.status = "quarantined"
    => repo = None /\ pool = None

\* Once every handler has returned, the file in the pool is the one its manifest describes: it can
\* be reviewed, and what is reviewed is what would be published.  Only a handler killed before it
\* saves its manifest, or a file moved in under another handler, breaks it.
ManifestDescribesPool ==
    Working = {} /\ pool # None /\ mishaps \cap {"unsaved", "crossed"} = {} =>
        manifest # None /\ manifest.content = pool

\* The same three without the exceptions, which the code does not keep: a file approved for one
\* content is published with another, ...
NothingUnseen == repo # None => Verdict[repo] = "approved" \/ repo \in accepted

\* ... what is in quarantine is published again though nothing was killed, ...
QuarantineHolds ==
    /\ Working = {} /\ mishaps \subseteq {"crossed", "reopened"}
    /\ manifest # None /\ manifest.status = "quarantined"
    => repo = None /\ pool = None

\* ... and a file lies in the pool that no manifest describes.
EveryFileDescribed == Working = {} /\ pool # None => manifest # None /\ manifest.content = pool

\* "reject -> quarantaine définitive": once every handler has returned, a content whose
\* last decision was a rejection is not published.
RejectedStaysOut ==
    Working = {} /\ mishaps = {} => repo \notin rejected
================================================================================
