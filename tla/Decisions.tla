---------------------------------- MODULE Decisions ----------------------------------
(***************************************************************************)
(* The decisions of the security officers about a package whose CVEs wait  *)
(* for one: who takes, changes, deletes, assigns and resolves them         *)
(* (routers/decision_router.py, services/security_decisions.py,            *)
(* services/cve_assignment.py), what they do to the manifest while the     *)
(* jobs of module Vulnerabilities write it, and the daily announcement of  *)
(* those that expire (services/sla_alerts.py).                             *)
(*                                                                         *)
(* Time is counted in half-days; the daily check runs at the even ones.    *)
(* What a decision does to the pool and to the published repository is in  *)
(* module Admission.                                                       *)
(***************************************************************************)
EXTENDS Vulnerabilities, Sequences

CONSTANTS
    Maintainers,    \* who may decide
    Admins,         \* the administrators among them
    Rules,          \* cve_assignment_rules: severity -> to whom
    Choices,        \* bound on what is decided: [action, days], 0 days for a decision without end
    WarningDays,    \* how long before its expiry a decision is announced
    MaxTime,        \* bound on the clock
    MaxIds          \* bound on the identifiers of decisions

\* VALID_ACTIONS and ACTION_TO_STATUS.
ActionToStatus ==
    [accept_risk |-> "accepted_risk", exception |-> "exception",
     reject |-> "quarantined", upgrade_required |-> "upgrade_required"]
ValidActions == DOMAIN ActionToStatus

Assignees == {Rules[s] : s \in DOMAIN Rules} \cup Maintainers
Terms     == {c.days : c \in Choices}
Times     == 0 .. MaxTime + 2 * CHOOSE d \in Terms : \A e \in Terms : e <= d

People    == Maintainers \cap mix
Chosen    == {c \in Choices : c.action \in mix}

ASSUME DecisionsAssumption ==
    /\ Admins \subseteq Maintainers
    /\ Choices \subseteq [action : ValidActions, days : Nat] /\ IsFiniteSet(Choices) /\ Choices # {}
    /\ WarningDays \in Nat \ {0} /\ MaxTime \in Nat /\ MaxIds \in Nat
    /\ None \notin Times /\ None \notin Assignees

VARIABLES
    now,       \* half-days gone
    checked,   \* whether a check ended in this half-day
    decision,  \* the decision about the package, or None
    ids,       \* identifiers given so far
    announced  \* whether a notification named the date at which the decision expires

vars == <<mix, feeds, row, sbom, rescanned, work, now, checked, decision, ids, announced>>
record == <<decision, ids>>

-----------------------------------------------------------------------------
Decision ==
    [id : 1 .. MaxIds, action : ValidActions, by : Maintainers, expires : Times \cup {None},
     long : BOOLEAN, assigned : Assignees \cup {None}, resolved : BOOLEAN]

\* auto_assign(): the rule of the highest severity, if there is one.
SeverityOrder == <<"Critical", "High", "Medium", "Low", "Negligible", "Unknown">>
Rank(s) == CHOOSE i \in 1 .. Len(SeverityOrder) : SeverityOrder[i] = s
MaxSeverity(sevs) == CHOOSE s \in sevs : \A t \in sevs : Rank(s) <= Rank(t)
AutoAssign(sevs) ==
    IF sevs = {} THEN None
    ELSE IF MaxSeverity(sevs) \in DOMAIN Rules THEN Rules[MaxSeverity(sevs)] ELSE None

\* Who is asked to look after the decision: whom the request names, else whom the rules name.
AssignedTo(r) ==
    {AutoAssign({SeverityOf[c] : c \in r.results})} \cup (IF Does("assign") THEN Maintainers ELSE {})

\* get_sla_status(): whole days rounded down; late says whether less than the half-day is left.
RemainingDays(dec, late) == (dec.expires - now - late) \div 2
HasSla(dec)        == dec.expires # None
Expired(dec, late) == RemainingDays(dec, late) < 0
Warning(dec, late) == RemainingDays(dec, late) \in 0 .. WarningDays

\* What was announced of a decision holds for the one that takes its place at the same date.
Announced(dec) == announced /\ decision # None /\ dec # None /\ decision.expires = dec.expires

Expiry(days) == IF days > 0 THEN now + 2 * days ELSE None

-----------------------------------------------------------------------------
\* decide_package()

\* The manifest is read and its status looked at; a quarantined package is not in review.
BeginDecide(j) ==
    /\ row # None /\ row.status # "quarantined"
    /\ Does("decide") /\ At(j, "idle")
    /\ ids + Cardinality({i \in Jobs : At(i, "decide")}) < MaxIds
    /\ \E by \in People, c \in Chosen :
         work' = [work EXCEPT ![j] = [Idle EXCEPT !.op = "decide", !.pc = "decide", !.row = row,
                                        !.by = by, !.action = c.action, !.days = c.days]]
    /\ UNCHANGED <<mix, feeds, row, sbom, rescanned, now, checked, record, announced>>

\* save_decision(): one decision for the package, which keeps its identifier; the rest is new.
SaveDecision(j) ==
    /\ At(j, "decide")
    /\ ids' = IF decision = None THEN ids + 1 ELSE ids
    /\ \E to \in AssignedTo(work[j].row) :
         decision' = [id |-> IF decision = None THEN ids' ELSE decision.id, action |-> work[j].action,
                      by |-> work[j].by, expires |-> Expiry(work[j].days), long |-> work[j].days > 1,
                      assigned |-> to, resolved |-> FALSE]
    /\ announced' = Announced(decision')
    /\ Go(j, "decided")
    /\ UNCHANGED <<mix, feeds, row, sbom, rescanned, now, checked>>

\* The manifest read before the decision was recorded is written back with the new status.
ApplyDecision(j) ==
    /\ At(j, "decided")
    /\ row' = [work[j].row EXCEPT !.status = ActionToStatus[work[j].action]]
    /\ Return(j)
    /\ UNCHANGED <<mix, feeds, sbom, rescanned, now, checked, record, announced>>

\* quarantine_package(): the end of it, the manifest loaded and saved.
BeginQuarantine(j) ==
    /\ row # None
    /\ Begin(j, "quarantine", "quarantine", row)
    /\ UNCHANGED <<now, checked, record, announced>>

Quarantine(j) ==
    /\ At(j, "quarantine")
    /\ row' = [work[j].row EXCEPT !.status = "quarantined"]
    /\ Return(j)
    /\ UNCHANGED <<mix, feeds, sbom, rescanned, now, checked, record, announced>>

-----------------------------------------------------------------------------
\* PUT and DELETE on a decision: who may is read first, and the manifest stays as it is.

Owns(by) == decision # None /\ (by \in Admins \/ decision.by = by)

BeginChange(j) ==
    /\ At(j, "idle")
    /\ \E by \in People :
         /\ Owns(by)
         /\ \/ /\ Does("update")
               /\ \E c \in Chosen :
                    work' = [work EXCEPT ![j] = [Idle EXCEPT !.op = "update", !.pc = "update", !.id = decision.id,
                                                   !.by = by, !.action = c.action, !.days = c.days]]
            \/ /\ Does("delete")
               /\ work' = [work EXCEPT ![j] = [Idle EXCEPT !.op = "delete", !.pc = "delete", !.by = by]]
    /\ UNCHANGED <<mix, feeds, row, sbom, rescanned, now, checked, record, announced>>

\* update_decision(): by identifier; the assignment and the resolution stay.
UpdateDecision(j) ==
    /\ At(j, "update")
    /\ decision' =
         IF decision = None THEN None
         ELSE IF decision.id # work[j].id THEN decision
         ELSE [decision EXCEPT !.action = work[j].action, !.by = work[j].by,
                               !.expires = Expiry(work[j].days), !.long = work[j].days > 1]
    /\ announced' = Announced(decision')
    /\ Return(j)
    /\ UNCHANGED <<mix, feeds, row, sbom, rescanned, now, checked, ids>>

\* delete_decision(): by package, version and architecture.
DeleteDecision(j) ==
    /\ At(j, "delete")
    /\ decision' = None
    /\ announced' = Announced(decision')
    /\ Return(j)
    /\ UNCHANGED <<mix, feeds, row, sbom, rescanned, now, checked, ids>>

\* PATCH .../assign
AssignDecision ==
    /\ Does("assign") /\ decision # None
    /\ \E to \in Assignees \cup {None} : decision' = [decision EXCEPT !.assigned = to]
    /\ UNCHANGED <<mix, feeds, row, sbom, rescanned, work, now, checked, ids, announced>>

\* resolve_decision_endpoint(): only one that asks for an upgrade, and not resolved yet.
BeginResolve(j) ==
    /\ decision # None
    /\ decision.action = "upgrade_required" /\ ~decision.resolved
    /\ Begin(j, "resolve", "resolve", None)
    /\ UNCHANGED <<now, checked, record, announced>>

ResolveDecision(j) ==
    /\ At(j, "resolve")
    /\ decision' = IF decision = None THEN None ELSE [decision EXCEPT !.resolved = TRUE]
    /\ Return(j)
    /\ UNCHANGED <<mix, feeds, row, sbom, rescanned, now, checked, ids, announced>>

-----------------------------------------------------------------------------
\* run_sla_check()

\* Slip: the two actions that the header of security_decisions.py names.
SlaActionsTwo == {"accept_risk", "exception"}
SlaActions == {"accept_risk", "exception", "upgrade_required"}

BeginSlaCheck(j) ==
    /\ Does("sla") /\ At(j, "idle")
    /\ work' = [work EXCEPT ![j] = [Idle EXCEPT !.op = "sla", !.pc = "sla", !.rec = decision]]
    /\ UNCHANGED <<mix, feeds, row, sbom, rescanned, now, checked, record, announced>>

\* An expired decision is announced only when there is no manifest: with one, the call of
\* load_manifest() raises, and the error is logged and nothing else.
Announces(dec, late) ==
    /\ dec.action \in SlaActions
    /\ HasSla(dec)
    /\ Warning(dec, late) \/ (Expired(dec, late) /\ row = None)

SlaCheck(j) ==
    LET dec == work[j].rec IN
    /\ At(j, "sla")
    /\ \E late \in {0, 1} :
         announced' = (announced \/ (dec # None /\ decision # None /\ Announces(dec, late)
                                       /\ dec.expires = decision.expires))
    /\ checked' = TRUE
    /\ Return(j)
    /\ UNCHANGED <<mix, feeds, row, sbom, rescanned, now, record>>

\* The daily check starts at its hour and ends in the half-day.
Tick ==
    /\ Does("sla") /\ now < MaxTime
    /\ now % 2 = 0 => checked
    /\ \A j \in Jobs : work[j].op # "sla"
    /\ now' = now + 1
    /\ checked' = FALSE
    /\ UNCHANGED <<mix, feeds, row, sbom, rescanned, work, record, announced>>

-----------------------------------------------------------------------------
\* What a package is when it was admitted before the behaviour starts: its scan was inconclusive,
\* or it is the one of the Grype database there is.
Admitted ==
    {Scanned(IF Asks("review", cves) THEN "pending_review" ELSE "validated", cves) :
       cves \in {f \in {Found[db]} : ~Asks("block", f)}} \cup
    (IF Does("rematch") THEN {Unscanned("validated")} ELSE {})

\* The cache of KEV is there and stays fresh where its age is not the subject.
Init ==
    /\ mix \in Mixes
    /\ db \in Starts
    /\ published = {}
    /\ kev = IF Does("age_kev") THEN [ids |-> {}, fresh |-> FALSE] ELSE [ids |-> Exploited, fresh |-> TRUE]
    /\ epss = [ids |-> {}, fresh |-> FALSE]
    /\ row \in Admitted \cup IF Does("admit") THEN {None} ELSE {}
    /\ sbom \in IF Does("rematch") THEN BOOLEAN ELSE {FALSE}
    /\ rescanned = {}
    /\ work = [j \in Jobs |-> Idle]
    /\ now = 0
    /\ checked = FALSE
    /\ decision = None
    /\ ids = 0
    /\ announced = FALSE

Next ==
    \/ /\ Publish \/ Age \/ \E j \in Jobs : Start(j) \/ Proceed(j)
       /\ UNCHANGED <<now, checked, record, announced>>
    \/ \E j \in Jobs :
         \/ BeginDecide(j) \/ SaveDecision(j) \/ ApplyDecision(j)
         \/ BeginQuarantine(j) \/ Quarantine(j)
         \/ BeginChange(j) \/ UpdateDecision(j) \/ DeleteDecision(j)
         \/ BeginResolve(j) \/ ResolveDecision(j)
         \/ BeginSlaCheck(j) \/ SlaCheck(j)
    \/ AssignDecision
    \/ Tick

Spec == Init /\ [][Next]_vars /\ FeedsFairness

-----------------------------------------------------------------------------
\* Properties.

Work ==
    [op : {"none", "admit", "rescan", "rematch", "reenrich", "sync", "grype", "refresh",
           "decide", "quarantine", "update", "delete", "resolve", "sla"},
     pc : {"idle", "scan", "kev", "epss", "ask", "save", "grype", "refresh_kev", "refresh_epss", "reenrich",
           "decide", "decided", "quarantine", "update", "delete", "resolve", "sla"},
     row : Manifest \cup {None}, ids : SUBSET CveIds, kev : SUBSET CveIds, scores : SUBSET CveIds,
     rec : Decision \cup {None}, id : 0 .. MaxIds, by : Maintainers \cup {None},
     action : ValidActions \cup {"none"}, days : Terms \cup {0}]

\* Every variable keeps its type; a score is of a CVE of the manifest that FIRST.org scores.
TypeOK ==
    /\ mix \in Mixes /\ db \in Generations /\ published \subseteq CveIds
    /\ kev \in Cache /\ epss \in Cache
    /\ row \in Manifest \cup {None}
    /\ row # None => row.scored \subseteq row.results \cap published
    /\ sbom \in BOOLEAN /\ rescanned \subseteq CveIds
    /\ work \in [Jobs -> Work]
    /\ now \in 0 .. MaxTime /\ checked \in BOOLEAN
    /\ decision \in Decision \cup {None} /\ ids \in 0 .. MaxIds
    /\ announced \in BOOLEAN

\* No surprise: a dated decision taken for two days or more never expires before a notification
\* has named its date, whatever changes, resolutions and reassignments go on at once, as long as
\* the daily check runs every day.
AnnouncedBeforeExpiry ==
    decision # None =>
      (decision.action # "reject" /\ HasSla(decision) /\ decision.long /\ now > decision.expires => announced)
================================================================================
