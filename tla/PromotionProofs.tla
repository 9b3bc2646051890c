--------------------------- MODULE PromotionProofs ---------------------------
(***************************************************************************)
(* Proofs about Promotion, for any number of handlers, versions, routes    *)
(* and requests.                                                           *)
(***************************************************************************)
EXTENDS Promotion, TLAPS

\* Where a handler stands, and what its local variables hold there.
Flow ==
    \A h \in Handlers :
        /\ pc[h] \in {"epss", "settle", "record"} => req[h].op = "promote"
        /\ pc[h] = "evaluate" => req[h].op = "approve"
        /\ pc[h] \in {"copy", "index"} => req[h].op \in {"promote", "approve"}
        /\ pc[h] = "update" => req[h].op \in {"approve", "reject"}
        /\ pc[h] # "idle" => req[h].ver \in Versions /\ req[h].route \in Routes
        /\ req[h].op \in {"approve", "reject"} => req[h].id \in Ids
        /\ req[h].id \in Ids => req[h].op \in {"approve", "reject"}
        /\ pc[h] = "idle" => req[h] = Idle

\* A readable request file is complete; one that awaits a decision is not direct, one with
\* a status that no decision writes is.
Files ==
    \A i \in Ids :
        /\ record[i].status \in Statuses => record[i].ver \in Versions /\ record[i].route \in Routes
        /\ record[i].status = "pending" => ~record[i].direct
        /\ record[i].status \in {"blocked", "already_present"} => record[i].direct

\* A decision under way is about a request that exists and awaited a decision.
Held ==
    \A h \in Handlers :
        req[h].op \in {"approve", "reject"} =>
            /\ record[req[h].id].status # "absent"
            /\ ~record[req[h].id].direct

\* Past the copy, the approval has been counted.
Counted ==
    \A h \in Handlers :
        req[h].op = "approve" /\ pc[h] \in {"index", "update"} => past[req[h].id].ran # "never"

\* Before the copy, the merged verdict is at least as strict as each verdict read.
Merged ==
    \A h \in Handlers :
        req[h].op = "promote" /\ pc[h] \in {"epss", "settle"} =>
            /\ "blocked" \in gate[h] => req[h].verdict = "blocked"
            /\ "pending_review" \in gate[h] => req[h].verdict \in {"pending_review", "blocked"}

\* The inductive invariant.
Inv ==
    /\ TypeOK
    /\ Flow
    /\ Files
    /\ Held
    /\ Counted
    /\ Merged
    /\ ApprovedRanReprepro
    /\ PromotionCleared

--------------------------------------------------------------------------------
\* The policies give a verdict.
LEMMA VerdictTypes ==
    /\ \A s, p : CveVerdict(s, p) \in Verdicts
    /\ \A e, ep : EpssVerdict(e, ep) \in Verdicts
    /\ \A c, d \in Verdicts : MergeVerdict(c, d) \in Verdicts
  BY DEF CveVerdict, EpssVerdict, MergeVerdict, Verdicts

\* Folding the EPSS verdict in never makes the verdict more lenient than either.
LEMMA MergeIsStrict ==
    ASSUME NEW c \in Verdicts, NEW e \in Verdicts
    PROVE  LET m == MergeVerdict(c, e) IN
           /\ (c = "blocked" \/ e = "blocked") <=> m = "blocked"
           /\ (c = "pending_review" \/ e = "pending_review") => m # "approved"
  BY DEF MergeVerdict, Verdicts

LEMMA InitInv == Init => Inv
  <1> SUFFICES ASSUME Init PROVE Inv
    OBVIOUS
  <1> USE PromotionAssumption
  <1>1. TypeOK
    BY DEF Init, TypeOK, EnvTypeOK, RequestFiles, Locals, NoFile, Idle, Steps, Statuses, Verdicts,
           History, NoPast
  <1>2. Flow /\ Merged /\ Counted /\ Held /\ PromotionCleared
    BY DEF Init, Flow, Merged, Counted, Held, PromotionCleared, Idle
  <1>3. Files /\ ApprovedRanReprepro
    BY DEF Init, Files, ApprovedRanReprepro, NoFile, Statuses
  <1> QED
    BY <1>1, <1>2, <1>3 DEF Inv

--------------------------------------------------------------------------------
\* Types of what the helpers shared by several actions assign.
LEMMA CreateType ==
    ASSUME TypeOK, NEW h \in Handlers, NEW st \in Statuses,
           req[h].ver \in Versions, req[h].route \in Routes, CreateRecord(h, st)
    PROVE  record' \in [Ids -> RequestFiles]
  BY DEF TypeOK, CreateRecord, Fresh, RequestFiles

LEMMA StatusType ==
    ASSUME TypeOK, NEW i, NEW st \in Statuses \cup {"purged", "unreadable"}
    PROVE  [record EXCEPT ![i].status = st] \in [Ids -> RequestFiles]
  BY DEF TypeOK, RequestFiles

LEMMA GotoType ==
    ASSUME TypeOK, NEW h \in Handlers, NEW step \in Steps, Goto(h, step)
    PROVE  pc' \in [Handlers -> Steps]
  BY DEF TypeOK, Goto

LEMMA IdleType == Idle \in Locals
  BY DEF Idle, Locals, Verdicts

LEMMA ReturnType ==
    ASSUME TypeOK, NEW h \in Handlers, Return(h)
    PROVE  /\ pc' \in [Handlers -> Steps]
           /\ req' \in [Handlers -> Locals]
           /\ gate' \in [Handlers -> SUBSET Verdicts]
  <1>1. pc' \in [Handlers -> Steps]
    BY GotoType DEF Return, Steps
  <1> QED
    BY <1>1, IdleType DEF TypeOK, Return

LEMMA VerdictLocalType ==
    ASSUME TypeOK, NEW h \in Handlers, NEW v \in Verdicts
    PROVE  [req EXCEPT ![h].verdict = v] \in [Handlers -> Locals]
  BY DEF TypeOK, Locals

LEMMA AlreadyLocalType ==
    ASSUME TypeOK, NEW h \in Handlers
    PROVE  [req EXCEPT ![h].already = TRUE] \in [Handlers -> Locals]
  <1>1. req[h] \in Locals
    BY DEF TypeOK
  <1>2. [req[h] EXCEPT !.already = TRUE] \in Locals
    BY <1>1 DEF Locals
  <1> QED
    BY <1>2 DEF TypeOK

LEMMA AnsweredType ==
    ASSUME TypeOK, Flow, NEW h \in Handlers, NEW there \in BOOLEAN, Answered(h, there)
    PROVE  past' \in [Ids -> History]
  <1>1. CASE req[h].op = "approve"
    <2> DEFINE i == req[h].id
               p == [past[i] EXCEPT !.ran = IF @ = "never" THEN "once" ELSE "again",
                                    !.promoted = @ \/ there]
    <2>1. i \in Ids
      BY <1>1 DEF Flow
    <2>2. past[i] \in History
      BY <2>1 DEF TypeOK
    <2>3. p \in History
      BY <2>2 DEF History
    <2>4. past' = [past EXCEPT ![i] = p]
      BY <1>1 DEF Answered
    <2> HIDE DEF p
    <2> QED
      BY <2>1, <2>3, <2>4 DEF TypeOK
  <1>2. CASE req[h].op # "approve"
    BY <1>2 DEF Answered, TypeOK
  <1> QED
    BY <1>1, <1>2

\* What an answer changes: the request of an approval counts it, the others stay.
LEMMA AnsweredWhat ==
    ASSUME TypeOK, Flow, NEW h \in Handlers, NEW there \in BOOLEAN, Answered(h, there), NEW i \in Ids
    PROVE  /\ past'[i].raced = past[i].raced
           /\ req[h].op = "approve" /\ req[h].id = i =>
                past'[i].ran = IF past[i].ran = "never" THEN "once" ELSE "again"
           /\ req[h].op # "approve" \/ req[h].id # i => past'[i] = past[i]
  <1>1. past[i] \in History
    BY DEF TypeOK
  <1>2. CASE req[h].op = "approve" /\ req[h].id = i
    <2>1. past'[i] = [past[i] EXCEPT !.ran = IF @ = "never" THEN "once" ELSE "again",
                                     !.promoted = @ \/ there]
      BY <1>2 DEF Answered, TypeOK
    <2> QED
      BY <1>1, <1>2, <2>1 DEF History
  <1>3. CASE req[h].op # "approve" \/ req[h].id # i
    <2>1. past'[i] = past[i]
      BY <1>3 DEF Answered, TypeOK
    <2> QED
      BY <1>3, <2>1
  <1> QED
    BY <1>2, <1>3

\* Marking a race changes nothing else of what is kept of a request.
LEMMA RacedOnly ==
    ASSUME NEW p \in History, NEW b \in BOOLEAN
    PROVE  /\ [p EXCEPT !.raced = p.raced \/ b] \in History
           /\ [p EXCEPT !.raced = p.raced \/ b].ran = p.ran
           /\ [p EXCEPT !.raced = p.raced \/ b].raced <=> p.raced \/ b
  BY DEF History

LEMMA TypeStep ==
    ASSUME TypeOK, Flow, [Next]_vars
    PROVE  TypeOK'
  <1> USE PromotionAssumption
  <1>1. ASSUME NEW h \in Handlers, StartPromote(h) PROVE TypeOK'
    <2>1. PICK route \in Routes, ver \in indexed, force \in BOOLEAN :
            LET verdict == CveVerdict(summary[ver], policy)
            IN  /\ req' = [req EXCEPT ![h] =
                     [op |-> "promote", ver |-> ver, route |-> route, force |-> force,
                      verdict |-> verdict, already |-> FALSE, id |-> None]]
                /\ gate' = [gate EXCEPT ![h] = {verdict}]
                /\ Goto(h, IF verdict = "blocked" THEN "settle" ELSE "epss")
      BY <1>1 DEF StartPromote
    <2>2. CveVerdict(summary[ver], policy) \in Verdicts
      BY VerdictTypes
    <2>3. ver \in Versions
      BY DEF TypeOK, EnvTypeOK
    <2>4. req' \in [Handlers -> Locals] /\ gate' \in [Handlers -> SUBSET Verdicts]
      BY <2>1, <2>2, <2>3 DEF TypeOK, Locals
    <2>5. pc' \in [Handlers -> Steps]
      BY <2>1, GotoType DEF Steps
    <2> QED
      BY <1>1, <2>4, <2>5 DEF StartPromote, TypeOK, EnvTypeOK, envVars
  <1>2. ASSUME NEW h \in Handlers, EvaluateEpss(h) PROVE TypeOK'
    <2> DEFINE score  == EpssVerdict(epss[req[h].ver], EpssPolicy)
               merged == MergeVerdict(req[h].verdict, score)
    <2>1. score \in Verdicts
      BY VerdictTypes
    <2>2. merged \in Verdicts
      BY <2>1, VerdictTypes DEF TypeOK, Locals
    <2>3. \/ req' = [req EXCEPT ![h].verdict = merged] /\ gate' = [gate EXCEPT ![h] = @ \cup {score}]
          \/ UNCHANGED <<req, gate>>
      BY <1>2 DEF EvaluateEpss
    <2>4. req' \in [Handlers -> Locals] /\ gate' \in [Handlers -> SUBSET Verdicts]
      BY <2>1, <2>2, <2>3, VerdictLocalType DEF TypeOK
    <2>5. pc' \in [Handlers -> Steps]
      BY <1>2, GotoType DEF EvaluateEpss, Steps
    <2> QED
      BY <1>2, <2>4, <2>5 DEF EvaluateEpss, TypeOK, EnvTypeOK, envVars
  <1>3. ASSUME NEW h \in Handlers, RefuseBlocked(h) \/ AskReview(h) \/ RecordPromotion(h)
        PROVE TypeOK'
    <2>1. req[h].ver \in Versions /\ req[h].route \in Routes
      BY <1>3 DEF RefuseBlocked, AskReview, RecordPromotion, Flow
    <2>2. \E st \in Statuses : CreateRecord(h, st)
      BY <1>3 DEF RefuseBlocked, AskReview, RecordPromotion, Statuses
    <2>3. record' \in [Ids -> RequestFiles]
      BY <2>1, <2>2, CreateType
    <2>4. Return(h) /\ UNCHANGED <<envVars, past>>
      BY <1>3 DEF RefuseBlocked, AskReview, RecordPromotion
    <2> QED
      BY <2>3, <2>4, ReturnType DEF TypeOK, EnvTypeOK, envVars
  <1>4. ASSUME NEW h \in Handlers, GoAhead(h) PROVE TypeOK'
    <2>1. pc' \in [Handlers -> Steps]
      BY <1>4, GotoType DEF GoAhead, Steps
    <2> QED
      BY <1>4, <2>1 DEF GoAhead, TypeOK, EnvTypeOK, envVars
  <1>5. ASSUME NEW h \in Handlers, Copy(h) PROVE TypeOK'
    <2>1. req[h].route \in Dists \X Dists
      BY <1>5 DEF Copy, Flow
    <2>2. repo' \in [Dists -> Versions \cup {None}]
      BY <1>5, <2>1 DEF Copy, Copied, TypeOK, EnvTypeOK
    <2>3. past' \in [Ids -> History]
      BY <1>5, AnsweredType DEF Copy
    <2>4. pc' \in [Handlers -> Steps]
      BY <1>5, GotoType DEF Copy, Steps
    <2> QED
      BY <1>5, <2>2, <2>3, <2>4 DEF Copy, TypeOK, EnvTypeOK
  <1>6. ASSUME NEW h \in Handlers, CopyAlready(h) PROVE TypeOK'
    <2>1. past' \in [Ids -> History]
      BY <1>6, AnsweredType DEF CopyAlready
    <2>2. req' \in [Handlers -> Locals]
      BY <1>6, AlreadyLocalType DEF CopyAlready
    <2>3. pc' \in [Handlers -> Steps]
      BY <1>6, GotoType DEF CopyAlready, Steps
    <2> QED
      BY <1>6, <2>1, <2>2, <2>3 DEF CopyAlready, TypeOK, EnvTypeOK, envVars
  <1>7. ASSUME NEW h \in Handlers, CopyFails(h) PROVE TypeOK'
    BY <1>7, ReturnType DEF CopyFails, TypeOK, EnvTypeOK, envVars
  <1>8. ASSUME NEW h \in Handlers, UpdateIndex(h) PROVE TypeOK'
    <2>1. req[h].route \in Dists \X Dists
      BY <1>8 DEF UpdateIndex, Flow
    <2>2. promoted' \in [Versions -> SUBSET Dists]
      BY <1>8, <2>1 DEF UpdateIndex, MarkPromoted, TypeOK, EnvTypeOK
    <2>3. pc' \in [Handlers -> Steps]
      BY <1>8, GotoType DEF UpdateIndex, Steps
    <2> QED
      BY <1>8, <2>2, <2>3 DEF UpdateIndex, TypeOK, EnvTypeOK
  <1>9. ASSUME NEW h \in Handlers, NEW op \in {"approve", "reject"},
               NEW next \in {"evaluate", "update"}, StartDecision(h, op, next)
        PROVE TypeOK'
    <2>1. req' \in [Handlers -> Locals]
      BY <1>9 DEF StartDecision, TypeOK, Locals, RequestFiles, Verdicts
    <2>2. pc' \in [Handlers -> Steps]
      BY <1>9, GotoType DEF StartDecision, Steps
    <2>3. past' \in [Ids -> History]
      <3>1. PICK i \in Ids : past' = [past EXCEPT ![i].raced = @ \/ \E g \in Handlers : req[g].id = i]
        BY <1>9 DEF StartDecision
      <3>2. [past[i] EXCEPT !.raced = @ \/ \E g \in Handlers : req[g].id = i] \in History
        BY RacedOnly DEF TypeOK
      <3> QED
        BY <3>1, <3>2 DEF TypeOK
    <2> QED
      BY <1>9, <2>1, <2>2, <2>3 DEF StartDecision, TypeOK, EnvTypeOK, envVars
  <1>10. ASSUME NEW h \in Handlers, ReEvaluate(h) PROVE TypeOK'
    <2> DEFINE verdict == CveVerdict(IF req[h].ver \in indexed THEN summary[req[h].ver]
                                     ELSE NoScan, policy)
               score   == EpssVerdict(epss[req[h].ver], EpssPolicy)
    <2>1. verdict \in Verdicts /\ score \in Verdicts
      BY VerdictTypes
    <2>2. UNCHANGED <<envVars, record, past>>
      BY <1>10 DEF ReEvaluate
    <2>3. CASE Return(h)
      BY <2>2, <2>3, ReturnType DEF TypeOK, EnvTypeOK, envVars
    <2>4. CASE ~Return(h)
      <3>1. /\ req' = [req EXCEPT ![h].verdict = verdict]
            /\ gate' = [gate EXCEPT ![h] = {verdict, score}]
            /\ Goto(h, "copy")
        BY <1>10, <2>4 DEF ReEvaluate
      <3>2. pc' \in [Handlers -> Steps]
        BY <3>1, GotoType DEF Steps
      <3>3. req' \in [Handlers -> Locals] /\ gate' \in [Handlers -> SUBSET Verdicts]
        BY <2>1, <3>1, VerdictLocalType DEF TypeOK
      <3> QED
        BY <2>2, <3>2, <3>3 DEF TypeOK, EnvTypeOK, envVars
    <2> QED
      BY <2>3, <2>4
  <1>11. ASSUME NEW h \in Handlers, WriteDecision(h) PROVE TypeOK'
    <2>1. record' \in [Ids -> RequestFiles]
      BY <1>11, StatusType DEF WriteDecision, UpdateRecord, TypeOK, Statuses
    <2> QED
      BY <1>11, <2>1, ReturnType DEF WriteDecision, TypeOK, EnvTypeOK, envVars
  <1>12. CASE Environment
    <2>1. CASE AddToIndex
      <3>1. PICK v \in Versions, s \in Summaries :
              /\ indexed' = indexed \cup {v}
              /\ summary' = [summary EXCEPT ![v] = s]
              /\ promoted' = [promoted EXCEPT ![v] = {}]
              /\ UNCHANGED <<epss, policy, repo, record, pc, req, past, gate>>
        BY <2>1 DEF AddToIndex
      <3>2. indexed' \in SUBSET Versions
        BY <3>1 DEF TypeOK, EnvTypeOK
      <3>3. summary' \in [Versions -> Summaries] /\ promoted' \in [Versions -> SUBSET Dists]
        BY <3>1 DEF TypeOK, EnvTypeOK
      <3> QED
        BY <3>1, <3>2, <3>3 DEF TypeOK, EnvTypeOK
    <2>2. CASE RemoveFromIndex
      BY <2>2 DEF RemoveFromIndex, TypeOK, EnvTypeOK
    <2>3. CASE IncludePackage \/ CopyUngated \/ RemovePackage
      BY <2>3, PromotionAssumption DEF IncludePackage, CopyUngated, Copied, RemovePackage, TypeOK, EnvTypeOK
    <2>4. CASE RefreshEpss \/ SetPolicy
      BY <2>4 DEF RefreshEpss, SetPolicy, TypeOK, EnvTypeOK
    <2>5. CASE PurgeDecided
      <3>1. PICK i \in Ids : record' = [record EXCEPT ![i].status = "purged"]
        BY <2>5 DEF PurgeDecided
      <3>2. record' \in [Ids -> RequestFiles]
        BY <3>1, StatusType
      <3> QED
        BY <2>5, <3>2 DEF PurgeDecided, TypeOK, EnvTypeOK, envVars
    <2>6. CASE Crash
      <3>1. ASSUME UNCHANGED record PROVE record' \in [Ids -> RequestFiles]
        BY <3>1 DEF TypeOK
      <3>2. ASSUME NEW i, record' = [record EXCEPT ![i].status = "unreadable"]
            PROVE  record' \in [Ids -> RequestFiles]
        BY <3>2, StatusType
      <3>3. record' \in [Ids -> RequestFiles]
        BY <2>6, <3>1, <3>2 DEF Crash
      <3>4. /\ pc' \in [Handlers -> Steps]
            /\ req' \in [Handlers -> Locals]
            /\ gate' \in [Handlers -> SUBSET Verdicts]
        BY <2>6, IdleType DEF Crash, Steps
      <3>5. past' \in [Ids -> History]
        <4>1. \A i \in Ids :
                [past[i] EXCEPT !.raced = @ \/ \E h \in Handlers : Copying(h, i)] \in History
          BY RacedOnly DEF TypeOK
        <4> QED
          BY <2>6, <4>1 DEF Crash
      <3> QED
        BY <2>6, <3>3, <3>4, <3>5 DEF Crash, TypeOK, EnvTypeOK, envVars
    <2> QED
      BY <1>12, <2>1, <2>2, <2>3, <2>4, <2>5, <2>6 DEF Environment
  <1>13. CASE UNCHANGED vars
    BY <1>13 DEF vars, TypeOK, EnvTypeOK
  <1>14. ASSUME NEW h \in Handlers, Start(h) PROVE TypeOK'
    BY <1>1, <1>9, <1>14 DEF Start, StartApprove, StartReject
  <1>15. ASSUME NEW h \in Handlers, Step(h) PROVE TypeOK'
    BY <1>2, <1>3, <1>4, <1>5, <1>6, <1>7, <1>8, <1>10, <1>11, <1>15 DEF Step
  <1> QED
    BY <1>12, <1>13, <1>14, <1>15 DEF Next

--------------------------------------------------------------------------------
\* The pieces of Next that leave the handlers alone, and those that move one.
Quiet == UNCHANGED <<pc, req, gate>>

LEMMA ReturnLocal ==
    ASSUME TypeOK, NEW h \in Handlers, Return(h), NEW g \in Handlers
    PROVE  /\ g = h => pc'[g] = "idle" /\ req'[g] = Idle /\ gate'[g] = {}
           /\ g # h => pc'[g] = pc[g] /\ req'[g] = req[g] /\ gate'[g] = gate[g]
  BY DEF TypeOK, Return, Goto

\* Storing a verdict changes no other local variable.
LEMMA VerdictLocal ==
    ASSUME TypeOK, NEW h \in Handlers, NEW v \in Verdicts, req' = [req EXCEPT ![h].verdict = v],
           NEW g \in Handlers
    PROVE  /\ req'[g].op = req[g].op /\ req'[g].ver = req[g].ver /\ req'[g].route = req[g].route
           /\ req'[g].id = req[g].id /\ req'[g].force = req[g].force
           /\ g = h => req'[g].verdict = v
           /\ g # h => req'[g] = req[g]
  <1>1. req[g] \in Locals
    BY DEF TypeOK
  <1>2. req'[g] = IF g = h THEN [req[g] EXCEPT !.verdict = v] ELSE req[g]
    BY DEF TypeOK
  <1> QED
    BY <1>1, <1>2 DEF Locals

\* A decision that starts copies the request file to its local variables.
LEMMA DecisionLocal ==
    ASSUME TypeOK, NEW h \in Handlers, NEW op, NEW next \in Steps, StartDecision(h, op, next)
    PROVE  \E i \in Ids :
             /\ record[i].status = "pending"
             /\ pc[h] = "idle"
             /\ \A g \in Handlers :
                  /\ g # h => pc'[g] = pc[g] /\ req'[g] = req[g]
                  /\ g = h => /\ pc'[g] = next
                             /\ req'[g].op = op /\ req'[g].id = i
                             /\ req'[g].ver = record[i].ver /\ req'[g].route = record[i].route
             /\ past'[i].ran = past[i].ran
             /\ past'[i].raced <=> past[i].raced \/ \E g \in Handlers : req[g].id = i
             /\ \A j \in Ids : j # i => past'[j] = past[j]
             /\ UNCHANGED <<record, gate>>
  <1>1. PICK i \in Ids :
          /\ record[i].status = "pending"
          /\ req' = [req EXCEPT ![h] =
               [op |-> op, ver |-> record[i].ver, route |-> record[i].route,
                force |-> FALSE, verdict |-> "approved", already |-> FALSE, id |-> i]]
          /\ past' = [past EXCEPT ![i].raced = @ \/ \E g \in Handlers : req[g].id = i]
          /\ pc' = [pc EXCEPT ![h] = next]
          /\ pc[h] = "idle"
          /\ UNCHANGED <<record, gate>>
    BY DEF StartDecision, Goto
  <1>2. /\ past'[i] = [past[i] EXCEPT !.raced = @ \/ \E g \in Handlers : req[g].id = i]
        /\ \A j \in Ids : j # i => past'[j] = past[j]
    BY <1>1 DEF TypeOK
  <1>3. past'[i].ran = past[i].ran /\ (past'[i].raced <=> past[i].raced \/ \E g \in Handlers : req[g].id = i)
    <2> DEFINE b == \E g \in Handlers : req[g].id = i
    <2>1. past[i] \in History /\ b \in BOOLEAN
      BY DEF TypeOK
    <2>2. past'[i] = [past[i] EXCEPT !.raced = past[i].raced \/ b]
      BY <1>2
    <2> HIDE DEF b
    <2>3. past'[i].ran = past[i].ran /\ (past'[i].raced <=> past[i].raced \/ b)
      BY <2>1, <2>2, RacedOnly
    <2> QED
      BY <2>3 DEF b
  <1>4. \A g \in Handlers :
          /\ g # h => pc'[g] = pc[g] /\ req'[g] = req[g]
          /\ g = h => /\ pc'[g] = next
                     /\ req'[g].op = op /\ req'[g].id = i
                     /\ req'[g].ver = record[i].ver /\ req'[g].route = record[i].route
    BY <1>1 DEF TypeOK
  <1> QED
    BY <1>1, <1>2, <1>3, <1>4

LEMMA FlowStep ==
    ASSUME TypeOK, Flow, Files, [Next]_vars
    PROVE  Flow'
  <1> USE PromotionAssumption
  <1>1. ASSUME NEW h \in Handlers, StartPromote(h) PROVE Flow'
    BY <1>1 DEF StartPromote, Goto, Flow, TypeOK, EnvTypeOK, Locals, Idle
  <1>2. ASSUME NEW h \in Handlers, EvaluateEpss(h) PROVE Flow'
    <2>1. \/ UNCHANGED req
          \/ \E v \in Verdicts : req' = [req EXCEPT ![h].verdict = v]
      BY <1>2, VerdictTypes DEF EvaluateEpss, TypeOK, Locals
    <2>2. \A g \in Handlers :
            /\ req'[g].op = req[g].op /\ req'[g].ver = req[g].ver
            /\ req'[g].route = req[g].route /\ req'[g].id = req[g].id
            /\ g # h => req'[g] = req[g]
      BY <2>1, VerdictLocal
    <2>3. pc' = [pc EXCEPT ![h] = "settle"] /\ pc[h] = "epss"
      BY <1>2 DEF EvaluateEpss, Goto
    <2> QED
      BY <2>2, <2>3 DEF Flow, TypeOK
  <1>3. ASSUME NEW h \in Handlers, Return(h) PROVE Flow'
    <2>1. \A g \in Handlers :
            \/ pc'[g] = "idle" /\ req'[g] = Idle
            \/ pc'[g] = pc[g] /\ req'[g] = req[g]
      BY <1>3, ReturnLocal
    <2>2. Idle.op = "none" /\ Idle.id \notin Ids
      BY DEF Idle
    <2> QED
      BY <2>1, <2>2 DEF Flow
  <1>4. ASSUME NEW h \in Handlers, GoAhead(h) PROVE Flow'
    BY <1>4 DEF GoAhead, Goto, Flow, TypeOK
  <1>5. ASSUME NEW h \in Handlers, Copy(h) PROVE Flow'
    BY <1>5 DEF Copy, Goto, Flow, TypeOK
  <1>6. ASSUME NEW h \in Handlers, CopyAlready(h) PROVE Flow'
    BY <1>6 DEF CopyAlready, Goto, Flow, TypeOK, Locals, Idle
  <1>7. ASSUME NEW h \in Handlers, UpdateIndex(h) PROVE Flow'
    BY <1>7 DEF UpdateIndex, Goto, Flow, TypeOK
  <1>8. ASSUME NEW h \in Handlers, StartApprove(h) \/ StartReject(h) PROVE Flow'
    <2>1. PICK op \in {"approve", "reject"} :
            StartDecision(h, op, IF op = "approve" THEN "evaluate" ELSE "update")
      BY <1>8 DEF StartApprove, StartReject
    <2>2. (IF op = "approve" THEN "evaluate" ELSE "update") \in Steps
      BY DEF Steps
    <2> QED
      BY <2>1, <2>2, DecisionLocal DEF Flow, Files, Statuses
  <1>9. ASSUME NEW h \in Handlers, ReEvaluate(h), ~Return(h) PROVE Flow'
    <2>1. \E v \in Verdicts : req' = [req EXCEPT ![h].verdict = v]
      BY <1>9, VerdictTypes DEF ReEvaluate
    <2>2. \A g \in Handlers :
            /\ req'[g].op = req[g].op /\ req'[g].ver = req[g].ver
            /\ req'[g].route = req[g].route /\ req'[g].id = req[g].id
            /\ g # h => req'[g] = req[g]
      BY <2>1, VerdictLocal
    <2>3. pc' = [pc EXCEPT ![h] = "copy"] /\ pc[h] = "evaluate"
      BY <1>9 DEF ReEvaluate, Goto
    <2> QED
      BY <2>2, <2>3 DEF Flow, TypeOK
  <1>10. CASE Crash
    BY <1>10 DEF Crash, Flow, Idle
  <1>11. CASE Quiet
    BY <1>11 DEF Quiet, Flow
  <1>12. ASSUME NEW h \in Handlers, Start(h) \/ Step(h) PROVE Flow'
    BY <1>1, <1>2, <1>3, <1>4, <1>5, <1>6, <1>7, <1>8, <1>9, <1>12
       DEF Start, Step, RefuseBlocked, AskReview, CopyFails, RecordPromotion, WriteDecision
  <1>13. CASE Environment
    BY <1>10, <1>11, <1>13
       DEF Environment, Quiet, AddToIndex, RemoveFromIndex, IncludePackage, CopyUngated, RemovePackage,
           RefreshEpss, SetPolicy, PurgeDecided
  <1> QED
    BY <1>11, <1>12, <1>13 DEF Next, Quiet, vars

\* The file that a kill may tear: a new one, or the one that a decision is about.
LEMMA WrittenIsFile ==
    ASSUME Flow, NEW h \in Handlers, NEW i \in BeingWritten(h)
    PROVE  /\ i \in Ids
           /\ \/ record[i].status = "absent" /\ req[h].op = "promote"
              \/ req[h].op \in {"approve", "reject"} /\ req[h].id = i /\ Readable(i)
  <1>1. CASE pc[h] = "update"
    BY <1>1 DEF BeingWritten, Flow
  <1>2. CASE pc[h] \in {"record", "settle"}
    BY <1>2 DEF BeingWritten, Fresh, Flow
  <1>3. CASE pc[h] \notin {"update", "record", "settle"}
    BY <1>3 DEF BeingWritten
  <1> QED
    BY <1>1, <1>2, <1>3

LEMMA FilesStep ==
    ASSUME TypeOK, Flow, Files, [Next]_vars
    PROVE  Files'
  <1> USE PromotionAssumption
  <1>1. CASE UNCHANGED record
    BY <1>1 DEF Files
  <1>2. ASSUME NEW h \in Handlers, NEW st \in Statuses, CreateRecord(h, st),
               req[h].ver \in Versions, req[h].route \in Routes
        PROVE  Files'
    <2>1. PICK i \in Ids :
            record' = [record EXCEPT ![i] =
              [status |-> st, ver |-> req[h].ver, route |-> req[h].route, direct |-> st # "pending"]]
      BY <1>2 DEF CreateRecord, Fresh
    <2>2. \A j \in Ids : j # i => record'[j] = record[j]
      BY <2>1 DEF TypeOK
    <2>3. record'[i] =
            [status |-> st, ver |-> req[h].ver, route |-> req[h].route, direct |-> st # "pending"]
      BY <2>1 DEF TypeOK
    <2>4. /\ record'[i].status = st
          /\ record'[i].ver \in Versions /\ record'[i].route \in Routes
      BY <1>2, <2>3
    <2>5. st = "pending" <=> ~record'[i].direct
      <3>1. record'[i].direct = (st # "pending")
        BY <2>3
      <3> QED
        BY <3>1
    <2> QED
      BY <2>2, <2>4, <2>5 DEF Files
  <1>3. ASSUME NEW i \in Ids, NEW st \in Decided \cup {"purged", "unreadable"},
               Readable(i) \/ st \notin Decided, record' = [record EXCEPT ![i].status = st]
        PROVE  Files'
    <2>1. record[i] \in RequestFiles
      BY DEF TypeOK
    <2>2. \A j \in Ids : record'[j] = IF j = i THEN [record[i] EXCEPT !.status = st] ELSE record[j]
      BY <1>3 DEF TypeOK
    <2>3. /\ record'[i].status = st /\ record'[i].ver = record[i].ver
          /\ record'[i].route = record[i].route
      BY <2>1, <2>2 DEF RequestFiles
    <2> QED
      BY <1>3, <2>2, <2>3 DEF Readable, Files, Statuses, Decided
  <1>4. ASSUME NEW h \in Handlers, RefuseBlocked(h) \/ AskReview(h) \/ RecordPromotion(h)
        PROVE  Files'
    BY <1>2, <1>4 DEF RefuseBlocked, AskReview, RecordPromotion, Flow, Statuses
  <1>5. ASSUME NEW h \in Handlers, WriteDecision(h) PROVE Files'
    BY <1>1, <1>3, <1>5 DEF WriteDecision, UpdateRecord, Flow, Decided
  <1>6. CASE PurgeDecided
    BY <1>3, <1>6 DEF PurgeDecided, Readable, Decided, Statuses
  <1>7. CASE Crash
    <2>1. ASSUME NEW h \in Handlers, NEW i \in BeingWritten(h),
                 record' = [record EXCEPT ![i].status = "unreadable"]
          PROVE  Files'
      BY <1>3, <2>1, WrittenIsFile DEF Decided
    <2> QED
      BY <1>1, <1>7, <2>1 DEF Crash
  <1> QED
    BY <1>1, <1>4, <1>5, <1>6, <1>7
       DEF Next, Start, Step, StartPromote, StartApprove, StartReject, StartDecision,
           EvaluateEpss, GoAhead, Copy, CopyAlready, CopyFails, UpdateIndex, ReEvaluate,
           Environment, AddToIndex, RemoveFromIndex, IncludePackage, CopyUngated, RemovePackage,
           RefreshEpss, SetPolicy, vars

\* What a request file keeps: once it exists it is never absent again, and whether
\* it is direct never changes.
LEMMA FileKept ==
    ASSUME TypeOK, Flow, [Next]_vars, NEW i \in Ids, record[i].status # "absent"
    PROVE  record'[i].status # "absent" /\ record'[i].direct = record[i].direct
  <1> USE PromotionAssumption
  <1>1. CASE UNCHANGED record
    BY <1>1
  <1>2. ASSUME NEW h \in Handlers, NEW st, CreateRecord(h, st)
        PROVE  record'[i].status # "absent" /\ record'[i].direct = record[i].direct
    <2>1. record'[i] = record[i]
      BY <1>2 DEF CreateRecord, Fresh, TypeOK
    <2> QED
      BY <2>1
  <1>3. ASSUME NEW j \in Ids, NEW st \in Decided \cup {"purged", "unreadable"},
               record' = [record EXCEPT ![j].status = st]
        PROVE  record'[i].status # "absent" /\ record'[i].direct = record[i].direct
    <2>1. record[i] \in RequestFiles
      BY DEF TypeOK
    <2>2. record'[i] = IF i = j THEN [record[i] EXCEPT !.status = st] ELSE record[i]
      BY <1>3 DEF TypeOK
    <2> QED
      BY <2>1, <2>2 DEF RequestFiles, Decided
  <1>4. ASSUME NEW h \in Handlers, RefuseBlocked(h) \/ AskReview(h) \/ RecordPromotion(h)
        PROVE  record'[i].status # "absent" /\ record'[i].direct = record[i].direct
    BY <1>2, <1>4 DEF RefuseBlocked, AskReview, RecordPromotion
  <1>5. ASSUME NEW h \in Handlers, WriteDecision(h)
        PROVE  record'[i].status # "absent" /\ record'[i].direct = record[i].direct
    <2>1. req[h].id \in Ids
      BY <1>5 DEF WriteDecision, Flow
    <2>2. \/ UNCHANGED record
          \/ \E st \in Decided : record' = [record EXCEPT ![req[h].id].status = st]
      BY <1>5 DEF WriteDecision, UpdateRecord, Decided
    <2> QED
      BY <1>1, <1>3, <2>1, <2>2
  <1>6. CASE PurgeDecided
    BY <1>3, <1>6 DEF PurgeDecided
  <1>7. CASE Crash
    BY <1>1, <1>3, <1>7, WrittenIsFile DEF Crash
  <1> QED
    BY <1>1, <1>4, <1>5, <1>6, <1>7
       DEF Next, Start, Step, StartPromote, StartApprove, StartReject, StartDecision,
           EvaluateEpss, GoAhead, Copy, CopyAlready, CopyFails, UpdateIndex, ReEvaluate,
           Environment, AddToIndex, RemoveFromIndex, IncludePackage, CopyUngated, RemovePackage,
           RefreshEpss, SetPolicy, vars

\* What a handler that decides keeps: it goes on with the decision it has begun, has
\* just begun one of a request that awaits it, or is not deciding.
LEMMA DecisionKept ==
    ASSUME TypeOK, [Next]_vars, NEW g \in Handlers
    PROVE  \/ req'[g].op \notin {"approve", "reject"}
           \/ req'[g].op = req[g].op /\ req'[g].id = req[g].id
           \/ \E i \in Ids : record[i].status = "pending" /\ req'[g].id = i /\ UNCHANGED record
  <1> DEFINE Goal == \/ req'[g].op \notin {"approve", "reject"}
                     \/ req'[g].op = req[g].op /\ req'[g].id = req[g].id
                     \/ \E i \in Ids : record[i].status = "pending" /\ req'[g].id = i /\ UNCHANGED record
  <1>1. CASE UNCHANGED req
    BY <1>1
  <1>2. ASSUME NEW h \in Handlers, Return(h) PROVE Goal
    BY <1>2, ReturnLocal DEF Idle
  <1>3. ASSUME NEW h \in Handlers, NEW v \in Verdicts, req' = [req EXCEPT ![h].verdict = v]
        PROVE  Goal
    BY <1>3, VerdictLocal
  <1>4. ASSUME NEW h \in Handlers, StartPromote(h) PROVE Goal
    BY <1>4 DEF StartPromote, TypeOK
  <1>5. ASSUME NEW h \in Handlers, EvaluateEpss(h) PROVE Goal
    BY <1>1, <1>3, <1>5, VerdictTypes DEF EvaluateEpss, TypeOK, Locals
  <1>6. ASSUME NEW h \in Handlers, StartApprove(h) \/ StartReject(h) PROVE Goal
    <2>1. PICK op \in {"approve", "reject"} :
            StartDecision(h, op, IF op = "approve" THEN "evaluate" ELSE "update")
      BY <1>6 DEF StartApprove, StartReject
    <2>2. (IF op = "approve" THEN "evaluate" ELSE "update") \in Steps
      BY DEF Steps
    <2> QED
      BY <2>1, <2>2, DecisionLocal
  <1>7. ASSUME NEW h \in Handlers, CopyAlready(h) PROVE Goal
    <2>1. req[g] \in Locals
      BY DEF TypeOK
    <2>2. req'[g] = IF g = h THEN [req[g] EXCEPT !.already = TRUE] ELSE req[g]
      BY <1>7 DEF CopyAlready, TypeOK
    <2> QED
      BY <2>1, <2>2 DEF Locals
  <1>8. ASSUME NEW h \in Handlers, ReEvaluate(h) PROVE Goal
    BY <1>2, <1>3, <1>8, VerdictTypes DEF ReEvaluate
  <1>9. CASE Crash
    BY <1>9 DEF Crash, Idle
  <1> QED
    BY <1>1, <1>2, <1>4, <1>5, <1>6, <1>7, <1>8, <1>9
       DEF Next, Start, Step, RefuseBlocked, AskReview, GoAhead, Copy, CopyFails, UpdateIndex,
           RecordPromotion, WriteDecision, Environment, AddToIndex, RemoveFromIndex,
           IncludePackage, CopyUngated, RemovePackage, RefreshEpss, SetPolicy, PurgeDecided, envVars, vars

LEMMA HeldStep ==
    ASSUME TypeOK, Flow, Files, Held, [Next]_vars
    PROVE  Held'
  <1> SUFFICES ASSUME NEW g \in Handlers, req'[g].op \in {"approve", "reject"}
      PROVE  record'[req'[g].id].status # "absent" /\ ~record'[req'[g].id].direct
    BY DEF Held
  <1>1. CASE req'[g].op = req[g].op /\ req'[g].id = req[g].id
    BY <1>1, FileKept DEF Held, Flow
  <1>2. CASE \E i \in Ids : record[i].status = "pending" /\ req'[g].id = i /\ UNCHANGED record
    BY <1>2 DEF Files
  <1> QED
    BY <1>1, <1>2, DecisionKept

\* How the history of a request moves: an answer is counted, a race is marked, and neither
\* is forgotten.
LEMMA CrashPast ==
    ASSUME TypeOK, Crash, NEW i \in Ids
    PROVE  /\ past'[i].ran = past[i].ran
           /\ past'[i].raced <=> past[i].raced \/ \E h \in Handlers : Copying(h, i)
  <1> DEFINE b == \E h \in Handlers : Copying(h, i)
  <1>1. past'[i] = [past[i] EXCEPT !.raced = past[i].raced \/ b]
    BY DEF Crash
  <1>2. past[i] \in History /\ b \in BOOLEAN
    BY DEF TypeOK
  <1> HIDE DEF b
  <1>3. past'[i].ran = past[i].ran /\ (past'[i].raced <=> past[i].raced \/ b)
    BY <1>1, <1>2, RacedOnly
  <1> QED
    BY <1>3 DEF b

LEMMA RanKept ==
    ASSUME TypeOK, Flow, [Next]_vars, NEW i \in Ids, past[i].ran # "never"
    PROVE  past'[i].ran # "never"
  <1>1. CASE UNCHANGED past
    BY <1>1
  <1>2. ASSUME NEW h \in Handlers, NEW there \in BOOLEAN, Answered(h, there) PROVE past'[i].ran # "never"
    BY <1>2, AnsweredWhat
  <1>3. ASSUME NEW h \in Handlers, Copy(h) \/ CopyAlready(h) PROVE past'[i].ran # "never"
    BY <1>2, <1>3 DEF Copy, CopyAlready
  <1>4. ASSUME NEW h \in Handlers, StartApprove(h) \/ StartReject(h) PROVE past'[i].ran # "never"
    <2>1. PICK op \in {"approve", "reject"} :
            StartDecision(h, op, IF op = "approve" THEN "evaluate" ELSE "update")
      BY <1>4 DEF StartApprove, StartReject
    <2>2. (IF op = "approve" THEN "evaluate" ELSE "update") \in Steps
      BY DEF Steps
    <2> QED
      BY <2>1, <2>2, DecisionLocal
  <1>5. CASE Crash
    BY <1>5, CrashPast
  <1> QED
    BY <1>1, <1>3, <1>4, <1>5
       DEF Next, Start, Step, StartPromote,
           EvaluateEpss, RefuseBlocked, AskReview, GoAhead, CopyFails, UpdateIndex,
           RecordPromotion, ReEvaluate, WriteDecision, Environment, AddToIndex,
           RemoveFromIndex, IncludePackage, CopyUngated, RemovePackage, RefreshEpss, SetPolicy,
           PurgeDecided, vars

\* An answer is counted for the request of the approval.
LEMMA AnsweredRan ==
    ASSUME TypeOK, Flow, NEW h \in Handlers, NEW there \in BOOLEAN, Answered(h, there), req[h].op = "approve"
    PROVE  past'[req[h].id].ran # "never"
  <1>1. req[h].id \in Ids
    BY DEF Flow
  <1> QED
    BY <1>1, AnsweredWhat

LEMMA CountedStep ==
    ASSUME TypeOK, Flow, Counted, [Next]_vars
    PROVE  Counted'
  <1> DEFINE Late(g) == req[g].op = "approve" /\ pc[g] \in {"index", "update"}
  <1> SUFFICES ASSUME NEW g \in Handlers, Late(g)' PROVE past'[req'[g].id].ran # "never"
    BY DEF Counted
  <1>1. CASE Late(g) /\ req'[g].id = req[g].id
    BY <1>1, RanKept DEF Counted, Flow
  <1>2. CASE UNCHANGED <<pc, req>>
    BY <1>1, <1>2
  <1>3. ASSUME NEW h \in Handlers, Return(h) PROVE Late(g) /\ req'[g].id = req[g].id
    BY <1>3, ReturnLocal DEF Idle
  <1>4. ASSUME NEW h \in Handlers, pc' = [pc EXCEPT ![h] = "copy"] \/ pc' = [pc EXCEPT ![h] = "settle"],
               \E v \in Verdicts : req' = [req EXCEPT ![h].verdict = v] \/ UNCHANGED req
        PROVE  Late(g) /\ req'[g].id = req[g].id
    BY <1>4, VerdictLocal DEF TypeOK
  <1>5. ASSUME NEW h \in Handlers, StartPromote(h) PROVE Late(g) /\ req'[g].id = req[g].id
    BY <1>5 DEF StartPromote, Goto, TypeOK
  <1>6. ASSUME NEW h \in Handlers, EvaluateEpss(h) PROVE Late(g) /\ req'[g].id = req[g].id
    BY <1>4, <1>6, VerdictTypes DEF EvaluateEpss, Goto, TypeOK, Locals
  <1>7. ASSUME NEW h \in Handlers, GoAhead(h) PROVE Late(g) /\ req'[g].id = req[g].id
    BY <1>7 DEF GoAhead, Goto, TypeOK
  <1>8. ASSUME NEW h \in Handlers, StartApprove(h) \/ StartReject(h)
        PROVE  Late(g) /\ req'[g].id = req[g].id
    <2>1. PICK op \in {"approve", "reject"} :
            StartDecision(h, op, IF op = "approve" THEN "evaluate" ELSE "update")
      BY <1>8 DEF StartApprove, StartReject
    <2>2. (IF op = "approve" THEN "evaluate" ELSE "update") \in Steps
      BY DEF Steps
    <2> QED
      BY <2>1, <2>2, DecisionLocal
  <1>9. ASSUME NEW h \in Handlers, Copy(h) PROVE past'[req'[g].id].ran # "never"
    <2>1. CASE g = h
      BY <1>9, <2>1, AnsweredRan DEF Copy, Flow
    <2>2. CASE g # h
      BY <1>1, <1>9, <2>2 DEF Copy, Goto, TypeOK
    <2> QED
      BY <2>1, <2>2
  <1>10. ASSUME NEW h \in Handlers, CopyAlready(h) PROVE past'[req'[g].id].ran # "never"
    <2>1. req[g] \in Locals
      BY DEF TypeOK
    <2>2. req'[g] = IF g = h THEN [req[g] EXCEPT !.already = TRUE] ELSE req[g]
      BY <1>10 DEF CopyAlready, TypeOK
    <2>3. req'[g].id = req[g].id /\ req'[g].op = req[g].op
      BY <2>1, <2>2 DEF Locals
    <2>4. CASE g = h
      BY <1>10, <2>3, <2>4, AnsweredRan DEF CopyAlready, Flow
    <2>5. CASE g # h
      BY <1>1, <1>10, <2>3, <2>5 DEF CopyAlready, Goto, TypeOK
    <2> QED
      BY <2>4, <2>5
  <1>11. ASSUME NEW h \in Handlers, UpdateIndex(h) PROVE Late(g) /\ req'[g].id = req[g].id
    BY <1>11 DEF UpdateIndex, Goto, TypeOK
  <1>12. ASSUME NEW h \in Handlers, ReEvaluate(h) PROVE Late(g) /\ req'[g].id = req[g].id
    BY <1>3, <1>4, <1>12, VerdictTypes DEF ReEvaluate, Goto
  <1>13. CASE Crash
    BY <1>13 DEF Crash
  <1> HIDE DEF Late
  <1> QED
    BY <1>1, <1>2, <1>3, <1>5, <1>6, <1>7, <1>8, <1>9, <1>10, <1>11, <1>12, <1>13
       DEF Next, Start, Step, RefuseBlocked, AskReview, CopyFails, RecordPromotion,
           WriteDecision, Environment, AddToIndex, RemoveFromIndex, IncludePackage, CopyUngated,
           RemovePackage, RefreshEpss, SetPolicy, PurgeDecided, vars

LEMMA ApprovedStep ==
    ASSUME TypeOK, Flow, Counted, ApprovedRanReprepro, [Next]_vars
    PROVE  ApprovedRanReprepro'
  <1> USE PromotionAssumption
  <1> SUFFICES ASSUME NEW i \in Ids, record'[i].status = "approved", ~record'[i].direct
      PROVE  past'[i].ran # "never"
    BY DEF ApprovedRanReprepro
  <1>1. CASE record'[i] = record[i]
    BY <1>1, RanKept DEF ApprovedRanReprepro
  <1>2. ASSUME NEW h \in Handlers, NEW st, CreateRecord(h, st) PROVE record'[i] = record[i]
    <2>1. PICK j \in Ids :
            record' = [record EXCEPT ![j] =
              [status |-> st, ver |-> req[h].ver, route |-> req[h].route, direct |-> st # "pending"]]
      BY <1>2 DEF CreateRecord, Fresh
    <2>2. CASE i = j
      <3>1. /\ record'[i].status = st
            /\ record'[i].direct = (st # "pending")
        BY <2>1, <2>2 DEF TypeOK
      <3> QED
        BY <3>1
    <2>3. CASE i # j
      BY <2>1, <2>3 DEF TypeOK
    <2> QED
      BY <2>2, <2>3
  <1>3. ASSUME NEW j \in Ids, NEW st \in {"rejected", "purged", "unreadable"},
               record' = [record EXCEPT ![j].status = st]
        PROVE  record'[i] = record[i]
    <2>1. CASE i = j
      <3>1. record[i] \in RequestFiles /\ record'[i] = [record[i] EXCEPT !.status = st]
        BY <1>3, <2>1 DEF TypeOK
      <3> QED
        BY <3>1 DEF RequestFiles
    <2> QED
      BY <1>3, <2>1 DEF TypeOK
  <1>4. ASSUME NEW h \in Handlers, WriteDecision(h) PROVE past'[i].ran # "never"
    <2>1. req[h].id \in Ids /\ req[h].op \in {"approve", "reject"}
      BY <1>4 DEF WriteDecision, Flow
    <2>2. CASE req[h].op = "approve" /\ req[h].id = i
      BY <1>4, <2>2 DEF WriteDecision, Counted
    <2>3. CASE req[h].id # i
      BY <1>1, <1>4, <2>3 DEF WriteDecision, UpdateRecord, TypeOK
    <2>4. CASE req[h].op = "reject"
      BY <1>1, <1>3, <1>4, <2>1, <2>4 DEF WriteDecision, UpdateRecord
    <2> QED
      BY <2>1, <2>2, <2>3, <2>4
  <1>5. CASE Crash
    BY <1>1, <1>3, <1>5, WrittenIsFile DEF Crash
  <1>6. CASE PurgeDecided
    BY <1>1, <1>3, <1>6 DEF PurgeDecided
  <1>7. CASE UNCHANGED record
    BY <1>1, <1>7
  <1> QED
    BY <1>1, <1>2, <1>4, <1>5, <1>6, <1>7
       DEF Next, Start, Step, StartPromote, StartApprove, StartReject, StartDecision,
           EvaluateEpss, RefuseBlocked, AskReview, GoAhead, Copy, CopyAlready, CopyFails,
           UpdateIndex, RecordPromotion, ReEvaluate, Environment, AddToIndex,
           RemoveFromIndex, IncludePackage, CopyUngated, RemovePackage, RefreshEpss, SetPolicy, vars

\* The part of Merged and PromotionCleared about one handler.
StrictAt(g) ==
    req[g].op = "promote" =>
        /\ pc[g] \in {"epss", "settle"} =>
             /\ "blocked" \in gate[g] => req[g].verdict = "blocked"
             /\ "pending_review" \in gate[g] => req[g].verdict \in {"pending_review", "blocked"}
        /\ pc[g] \in {"copy", "index", "record"} =>
             /\ "blocked" \notin gate[g]
             /\ "pending_review" \in gate[g] => req[g].force

LEMMA StrictStep ==
    ASSUME TypeOK, Flow, NEW g \in Handlers, StrictAt(g), [Next]_vars
    PROVE  StrictAt(g)'
  <1>1. CASE pc'[g] = pc[g] /\ req'[g] = req[g] /\ gate'[g] = gate[g]
    BY <1>1 DEF StrictAt
  <1>2. CASE Quiet
    BY <1>1, <1>2 DEF Quiet
  <1>3. ASSUME NEW h \in Handlers, Return(h) PROVE StrictAt(g)'
    BY <1>1, <1>3, ReturnLocal DEF StrictAt, Idle
  <1>4. ASSUME NEW h \in Handlers, StartPromote(h) PROVE StrictAt(g)'
    <2>1. CASE g = h
      <3>1. PICK ver \in indexed :
              /\ req'[g].op = "promote" /\ req'[g].verdict = CveVerdict(summary[ver], policy)
              /\ gate'[g] = {CveVerdict(summary[ver], policy)}
              /\ pc'[g] \in {"settle", "epss"}
        BY <1>4, <2>1 DEF StartPromote, Goto, TypeOK
      <3> QED
        BY <3>1 DEF StrictAt
    <2>2. CASE g # h
      BY <1>1, <1>4, <2>2 DEF StartPromote, Goto, TypeOK
    <2> QED
      BY <2>1, <2>2
  <1>5. ASSUME NEW h \in Handlers, EvaluateEpss(h) PROVE StrictAt(g)'
    <2> DEFINE score  == EpssVerdict(epss[req[h].ver], EpssPolicy)
               merged == MergeVerdict(req[h].verdict, score)
    <2>1. pc[h] = "epss" /\ pc' = [pc EXCEPT ![h] = "settle"]
      BY <1>5 DEF EvaluateEpss, Goto
    <2>2. CASE UNCHANGED <<req, gate>>
      BY <2>1, <2>2 DEF StrictAt, TypeOK
    <2>3. CASE req' = [req EXCEPT ![h].verdict = merged] /\ gate' = [gate EXCEPT ![h] = @ \cup {score}]
      <3>1. score \in Verdicts /\ req[h].verdict \in Verdicts /\ merged \in Verdicts
        BY VerdictTypes DEF TypeOK, Locals
      <3>2. /\ merged = "blocked" <=> (req[h].verdict = "blocked" \/ score = "blocked")
            /\ (req[h].verdict = "pending_review" \/ score = "pending_review") => merged # "approved"
        BY <3>1, MergeIsStrict
      <3> HIDE DEF score, merged
      <3>3. CASE g = h
        <4>1. /\ req'[g].verdict = merged /\ req'[g].op = req[g].op
              /\ gate'[g] = gate[g] \cup {score} /\ pc'[g] = "settle"
          BY <2>1, <2>3, <3>1, <3>3, VerdictLocal DEF TypeOK
        <4> QED
          BY <2>1, <3>1, <3>2, <3>3, <4>1 DEF StrictAt, Verdicts
      <3>4. CASE g # h
        BY <1>1, <2>1, <2>3, <3>4 DEF TypeOK
      <3> QED
        BY <3>3, <3>4
    <2> QED
      BY <1>5, <2>2, <2>3 DEF EvaluateEpss
  <1>6. ASSUME NEW h \in Handlers, GoAhead(h) PROVE StrictAt(g)'
    BY <1>6 DEF GoAhead, Goto, StrictAt, TypeOK
  <1>7. ASSUME NEW h \in Handlers, Copy(h) \/ UpdateIndex(h) PROVE StrictAt(g)'
    BY <1>7 DEF Copy, UpdateIndex, Goto, StrictAt, TypeOK
  <1>8. ASSUME NEW h \in Handlers, CopyAlready(h) PROVE StrictAt(g)'
    <2>1. req[g] \in Locals
      BY DEF TypeOK
    <2>2. req'[g] = IF g = h THEN [req[g] EXCEPT !.already = TRUE] ELSE req[g]
      BY <1>8 DEF CopyAlready, TypeOK
    <2>3. req'[g].force = req[g].force /\ req'[g].op = req[g].op /\ req'[g].verdict = req[g].verdict
      BY <2>1, <2>2 DEF Locals
    <2>4. gate'[g] = gate[g] /\ (g # h => pc'[g] = pc[g])
          /\ (g = h => pc[g] = "copy" /\ pc'[g] \in {"update", "record"})
      BY <1>8 DEF CopyAlready, Goto, TypeOK
    <2> QED
      BY <2>3, <2>4 DEF StrictAt
  <1>9. ASSUME NEW h \in Handlers, StartApprove(h) \/ StartReject(h) PROVE StrictAt(g)'
    <2>1. PICK op \in {"approve", "reject"} :
            StartDecision(h, op, IF op = "approve" THEN "evaluate" ELSE "update")
      BY <1>9 DEF StartApprove, StartReject
    <2>2. (IF op = "approve" THEN "evaluate" ELSE "update") \in Steps
      BY DEF Steps
    <2> QED
      BY <1>1, <2>1, <2>2, DecisionLocal DEF StrictAt
  <1>10. ASSUME NEW h \in Handlers, ReEvaluate(h) PROVE StrictAt(g)'
    <2>1. CASE Return(h)
      BY <1>3, <2>1
    <2>2. CASE ~Return(h)
      <3>1. /\ req[h].op = "approve"
            /\ \E v \in Verdicts : req' = [req EXCEPT ![h].verdict = v]
            /\ g # h => pc'[g] = pc[g] /\ gate'[g] = gate[g]
        BY <1>10, <2>2, VerdictTypes DEF ReEvaluate, Goto, Flow, TypeOK
      <3> QED
        BY <1>1, <3>1, VerdictLocal DEF StrictAt
    <2> QED
      BY <2>1, <2>2
  <1>11. CASE Crash
    BY <1>11 DEF Crash, StrictAt, Idle
  <1> QED
    BY <1>2, <1>3, <1>4, <1>5, <1>6, <1>7, <1>8, <1>9, <1>10, <1>11
       DEF Next, Start, Step, RefuseBlocked, AskReview, CopyFails, RecordPromotion,
           WriteDecision, Environment, Quiet, AddToIndex, RemoveFromIndex, IncludePackage, CopyUngated,
           RemovePackage, RefreshEpss, SetPolicy, PurgeDecided, vars

--------------------------------------------------------------------------------
\* The invariant is inductive.
THEOREM InvHolds == Spec => []Inv
  <1>1. Inv /\ [Next]_vars => Inv'
    <2> SUFFICES ASSUME Inv, [Next]_vars PROVE Inv'
      OBVIOUS
    <2>1. TypeOK' /\ Flow' /\ Files' /\ Held' /\ Counted' /\ ApprovedRanReprepro'
      BY TypeStep, FlowStep, FilesStep, HeldStep, CountedStep, ApprovedStep DEF Inv
    <2>2. \A g \in Handlers : StrictAt(g)'
      BY StrictStep DEF Inv, Merged, PromotionCleared, StrictAt
    <2>3. Merged' /\ PromotionCleared'
      BY <2>2 DEF Merged, PromotionCleared, StrictAt
    <2> QED
      BY <2>1, <2>3 DEF Inv
  <1> QED
    BY <1>1, InitInv, PTL DEF Spec

\* Types, and what each file and each handler may hold.
THEOREM TypesHold == Spec => []TypeOK
  BY InvHolds, PTL DEF Inv

\* However many approvals, rejections, purges and crashes interleave, a request that
\* reads "approved" after waiting for a decision had reprepro run and answer it with what
\* promote_package() takes for a success.
THEOREM ApprovedRanRepreproHolds == Spec => []ApprovedRanReprepro
  BY InvHolds, PTL DEF Inv

\* A promotion reaches its copy only if the CVE verdict and the EPSS verdict it read
\* both allow it: no blocked verdict, and no verdict to review unless forced.
THEOREM PromotionClearedHolds == Spec => []PromotionCleared
  BY InvHolds, PTL DEF Inv

\* The record of a promotion that needed no decision is never rewritten.
THEOREM HistoryHolds == Spec => HistoryIsFrozen
  <1>1. ASSUME Inv, [Next]_vars, NEW i \in Ids, Readable(i), record[i].direct
        PROVE  record'[i] \in {record[i], [record[i] EXCEPT !.status = "purged"]}
    <2>1. CASE UNCHANGED record
      BY <2>1
    <2>2. ASSUME NEW h \in Handlers, NEW st, CreateRecord(h, st) PROVE record'[i] = record[i]
      BY <1>1, <2>2 DEF CreateRecord, Fresh, Readable, Statuses, Inv, TypeOK
    <2>3. ASSUME NEW h \in Handlers, WriteDecision(h) PROVE record'[i] = record[i]
      <3>1. req[h].id # i
        BY <1>1, <2>3 DEF WriteDecision, Inv, Flow, Held
      <3> QED
        BY <2>3, <3>1 DEF WriteDecision, UpdateRecord
    <2>4. CASE PurgeDecided
      BY <1>1, <2>4 DEF PurgeDecided, Inv, TypeOK
    <2>5. CASE Crash
      <3>1. \A h \in Handlers : i \notin BeingWritten(h)
        BY <1>1, WrittenIsFile DEF Inv, Held, Readable, Statuses
      <3> QED
        BY <1>1, <2>5, <3>1 DEF Crash, Inv, TypeOK
    <2> QED
      BY <1>1, <2>1, <2>2, <2>3, <2>4, <2>5
         DEF Next, Start, Step, StartPromote, StartApprove, StartReject, StartDecision,
             EvaluateEpss, RefuseBlocked, AskReview, GoAhead, Copy, CopyAlready, CopyFails,
             UpdateIndex, RecordPromotion, ReEvaluate, Environment, AddToIndex,
             RemoveFromIndex, IncludePackage, CopyUngated, RemovePackage, RefreshEpss, SetPolicy, vars
  <1>2. Inv /\ [Next]_vars =>
          [\A i \in Ids :
             Readable(i) /\ record[i].direct =>
               record'[i] \in {record[i], [record[i] EXCEPT !.status = "purged"]}]_vars
    BY <1>1
  <1> QED
    BY <1>2, InvHolds, PTL DEF Spec, HistoryIsFrozen

--------------------------------------------------------------------------------
(***************************************************************************)
(* A request follows the lifecycle that pending_promotions.py draws,       *)
(* whatever the other requests, the other handlers and the kills do.  The  *)
(* invariant speaks of the requests whose decisions did not overlap.       *)
(***************************************************************************)
OneDecider ==
    \A i \in Ids : ~past[i].raced =>
        \A g, h \in Handlers : req[g].id = i /\ req[h].id = i => g = h

\* The request of a decision under way still awaits it.
StillPending ==
    \A i \in Ids : ~past[i].raced =>
        \A h \in Handlers : req[h].id = i => record[i].status = "pending"

\* What was copied for a request that still awaits its decision is about to be written
\* down; nothing was copied for one that does not exist or that was rejected.
CopyIsOwned ==
    \A i \in Ids : ~past[i].raced =>
        /\ record[i].status \in {"absent", "rejected"} => past[i].ran = "never"
        /\ record[i].status = "pending" /\ past[i].ran # "never" => \E h \in Handlers : Copying(h, i)

RaceInv == OneDecider /\ StillPending /\ CopyIsOwned

LEMMA InitRace == Init => RaceInv /\ Lifecycle!Init
  <1> SUFFICES ASSUME Init PROVE RaceInv /\ Lifecycle!Init
    OBVIOUS
  <1>1. \A h \in Handlers : req[h].id \notin Ids
    BY PromotionAssumption DEF Init, Idle
  <1>2. \A i \in Ids : record[i].status = "absent" /\ past[i].ran = "never" /\ past[i].raced = FALSE
    BY DEF Init, NoFile, NoPast
  <1>3. [i \in Ids |-> record[i].status] = [i \in Ids |-> "absent"]
    BY <1>2, Zenon
  <1>4. [i \in Ids |-> past[i].ran] = [i \in Ids |-> "never"]
    BY <1>2, Zenon
  <1>5. [i \in Ids |-> past[i].raced] = [i \in Ids |-> FALSE]
    BY <1>2, Zenon
  <1>6. RaceInv
    BY <1>1, <1>2 DEF RaceInv, OneDecider, StillPending, CopyIsOwned
  <1> QED
    BY <1>3, <1>4, <1>5, <1>6 DEF Lifecycle!Init

\* A request stays as it is, and the handlers go on with what they do about it.
SameFile(i) == record'[i] = record[i] /\ past'[i] = past[i]
Onward(g) ==
    /\ req'[g].id \in Ids => req'[g].id = req[g].id
    /\ \A i \in Ids : Copying(g, i) => Copying(g, i)'

\* The step that the lifecycle of a request takes.
Life(i) ==
    \/ Lifecycle!Open(i) \/ Lifecycle!Settle(i) \/ Lifecycle!Answer(i) \/ Lifecycle!Approve(i)
    \/ Lifecycle!Reject(i) \/ Lifecycle!Purge(i) \/ Lifecycle!Race(i) \/ Lifecycle!Tear(i)
    \/ Lifecycle!Same(i)

LEMMA SameLife == ASSUME NEW i \in Ids, SameFile(i) PROVE Life(i)
  <1>1. Lifecycle!Same(i)
    BY DEF SameFile, Lifecycle!Same
  <1> QED
    BY <1>1 DEF Life

\* A request that stays as it is, whose handlers only go on, keeps its part of the invariant.
RaceAt(i) ==
    ~past[i].raced =>
        /\ \A g, h \in Handlers : req[g].id = i /\ req[h].id = i => g = h
        /\ \A h \in Handlers : req[h].id = i => record[i].status = "pending"
        /\ record[i].status \in {"absent", "rejected"} => past[i].ran = "never"
        /\ record[i].status = "pending" /\ past[i].ran # "never" => \E h \in Handlers : Copying(h, i)

LEMMA RaceInvAt == RaceInv <=> \A i \in Ids : RaceAt(i)
  BY DEF RaceInv, OneDecider, StillPending, CopyIsOwned, RaceAt

LEMMA RaceInvNext == (\A i \in Ids : RaceAt(i)') => RaceInv'
  BY DEF RaceInv, OneDecider, StillPending, CopyIsOwned, RaceAt

LEMMA SameRace ==
    ASSUME NEW i \in Ids, RaceAt(i), SameFile(i),
           \A g \in Handlers : req'[g].id = i => req[g].id = i,
           \A g \in Handlers : Copying(g, i) => Copying(g, i)'
    PROVE  RaceAt(i)'
  BY DEF RaceAt, SameFile

--------------------------------------------------------------------------------
\* The steps that touch neither the request files nor their history.
Aside == UNCHANGED <<record, past>> /\ \A g \in Handlers : Onward(g)

\* A decision returns without a copy, or a promotion does.
LEMMA ReturnOnward ==
    ASSUME TypeOK, NEW h \in Handlers, Return(h), \A i \in Ids : ~Copying(h, i), NEW g \in Handlers
    PROVE  Onward(g)
  BY ReturnLocal, PromotionAssumption DEF Onward, Copying, Idle

LEMMA AsideSteps ==
    ASSUME Inv, NEW h \in Handlers,
           \/ StartPromote(h) \/ EvaluateEpss(h) \/ GoAhead(h) \/ UpdateIndex(h)
           \/ ReEvaluate(h) \/ CopyFails(h)
    PROVE  Aside
  <1> USE DEF Inv
  <1>1. ASSUME NEW g \in Handlers, StartPromote(h) PROVE Onward(g)
    BY <1>1, PromotionAssumption DEF StartPromote, Goto, Onward, Copying, TypeOK
  <1>2. ASSUME NEW g \in Handlers, pc[h] \in {"epss", "evaluate"},
               (\E v \in Verdicts : req' = [req EXCEPT ![h].verdict = v]) \/ UNCHANGED req,
               pc' = [pc EXCEPT ![h] = "settle"] \/ pc' = [pc EXCEPT ![h] = "copy"]
        PROVE  Onward(g)
    <2>1. req'[g].id = req[g].id /\ req'[g].op = req[g].op
      BY <1>2, VerdictLocal
    <2>2. g # h => pc'[g] = pc[g]
      BY <1>2 DEF TypeOK
    <2> QED
      BY <1>2, <2>1, <2>2 DEF Onward, Copying
  <1>3. ASSUME NEW g \in Handlers, EvaluateEpss(h) PROVE Onward(g)
    BY <1>2, <1>3, VerdictTypes DEF EvaluateEpss, Goto, TypeOK, Locals
  <1>4. ASSUME NEW g \in Handlers, GoAhead(h) PROVE Onward(g)
    BY <1>4 DEF GoAhead, Goto, Onward, Copying, TypeOK
  <1>5. ASSUME NEW g \in Handlers, UpdateIndex(h) PROVE Onward(g)
    BY <1>5 DEF UpdateIndex, Goto, Onward, Copying, TypeOK
  <1>6. ASSUME NEW g \in Handlers, ReEvaluate(h) PROVE Onward(g)
    <2>1. pc[h] = "evaluate"
      BY <1>6 DEF ReEvaluate
    <2>2. CASE Return(h)
      BY <2>1, <2>2, ReturnOnward DEF Copying
    <2>3. CASE ~Return(h)
      BY <1>2, <1>6, <2>1, <2>3, VerdictTypes DEF ReEvaluate, Goto
    <2> QED
      BY <2>2, <2>3
  <1>7. ASSUME NEW g \in Handlers, CopyFails(h) PROVE Onward(g)
    BY <1>7, ReturnOnward DEF CopyFails, Copying
  <1>8. UNCHANGED <<record, past>>
    BY DEF StartPromote, EvaluateEpss, GoAhead, UpdateIndex, ReEvaluate, CopyFails
  <1> QED
    BY <1>1, <1>3, <1>4, <1>5, <1>6, <1>7, <1>8 DEF Aside

LEMMA AsideLives ==
    ASSUME RaceInv, Aside, NEW i \in Ids
    PROVE  RaceAt(i)' /\ Life(i)
  BY RaceInvAt, SameLife, SameRace DEF Aside, Onward, SameFile

\* A promotion is recorded, and its handler returns.
LEMMA RecordedLives ==
    ASSUME Inv, RaceInv, NEW h \in Handlers, req[h].op = "promote", Return(h), UNCHANGED past,
           NEW st \in {"pending", "approved", "blocked", "already_present"}, CreateRecord(h, st),
           NEW i \in Ids
    PROVE  RaceAt(i)' /\ Life(i)
  <1> USE DEF Inv
  <1>1. PICK j \in Ids :
          /\ record[j].status = "absent"
          /\ record' = [record EXCEPT ![j] =
               [status |-> st, ver |-> req[h].ver, route |-> req[h].route, direct |-> st # "pending"]]
    BY DEF CreateRecord, Fresh
  <1>2. \A g \in Handlers : Onward(g)
    BY ReturnOnward DEF Copying
  <1>3. CASE i # j
    BY <1>1, <1>2, <1>3, RaceInvAt, SameLife, SameRace DEF Onward, SameFile, TypeOK
  <1>4. CASE i = j
    <2>1. record'[i].status = st
      BY <1>1, <1>4 DEF TypeOK
    <2>2. \A g \in Handlers : req'[g].id # i
      BY <1>1, <1>2, <1>4 DEF Onward, Held, Flow
    <2>3. RaceAt(i)'
      BY <1>1, <1>4, <2>1, <2>2, RaceInvAt DEF RaceAt
    <2>4. Lifecycle!Open(i) \/ Lifecycle!Settle(i)
      BY <1>1, <1>4, <2>1 DEF Lifecycle!Open, Lifecycle!Settle, Lifecycle!Move
    <2> QED
      BY <2>3, <2>4 DEF Life
  <1> QED
    BY <1>3, <1>4

\* reprepro answers an approval, or a promotion.
LEMMA CopyLives ==
    ASSUME Inv, RaceInv, NEW h \in Handlers, Copy(h) \/ CopyAlready(h), NEW i \in Ids
    PROVE  RaceAt(i)' /\ Life(i)
  <1> USE DEF Inv
  <1>1. PICK there \in BOOLEAN : Answered(h, there)
    BY DEF Copy, CopyAlready
  <1>2. UNCHANGED record /\ pc[h] = "copy"
    BY DEF Copy, CopyAlready, envVars
  <1>3. /\ pc'[h] \in {"index", "update", "record"}
        /\ req[h].op = "approve" => pc'[h] \in {"index", "update"}
    BY DEF Copy, CopyAlready, Goto, TypeOK
  <1>4. \A g \in Handlers :
          /\ req'[g].id = req[g].id /\ req'[g].op = req[g].op
          /\ g # h => pc'[g] = pc[g]
    <2>1. CASE Copy(h)
      BY <2>1 DEF Copy, Goto, TypeOK
    <2>2. CASE CopyAlready(h)
      <3>1. ASSUME NEW g \in Handlers
            PROVE  req'[g] = IF g = h THEN [req[g] EXCEPT !.already = TRUE] ELSE req[g]
        BY <2>2 DEF CopyAlready, TypeOK
      <3>2. \A g \in Handlers : req[g] \in Locals
        BY DEF TypeOK
      <3>3. \A g \in Handlers : g # h => pc'[g] = pc[g]
        BY <2>2 DEF CopyAlready, Goto, TypeOK
      <3> QED
        BY <3>1, <3>2, <3>3 DEF Locals
    <2> QED
      BY <2>1, <2>2
  <1>5. \A g \in Handlers : Onward(g)
    BY <1>2, <1>4 DEF Onward, Copying
  <1>6. CASE req[h].op # "approve" \/ req[h].id # i
    <2>1. SameFile(i)
      BY <1>1, <1>2, <1>6, AnsweredWhat DEF SameFile
    <2> QED
      BY <1>5, <2>1, RaceInvAt, SameLife, SameRace DEF Onward
  <1>7. CASE req[h].op = "approve" /\ req[h].id = i
    <2>1. /\ past'[i].raced = past[i].raced
          /\ past'[i].ran = IF past[i].ran = "never" THEN "once" ELSE "again"
      BY <1>1, <1>7, AnsweredWhat
    <2>2. Copying(h, i)'
      BY <1>3, <1>4, <1>7 DEF Copying
    <2>3. ~past[i].raced => record[i].status = "pending" /\ past[i].ran = "never"
      <3>1. ASSUME ~past[i].raced, NEW g \in Handlers, Copying(g, i) PROVE FALSE
        <4>1. g = h
          BY <1>7, <3>1 DEF RaceInv, OneDecider, Copying
        <4> QED
          BY <1>2, <3>1, <4>1 DEF Copying
      <3> QED
        BY <1>7, <3>1, RaceInvAt DEF RaceAt
    <2>4. RaceAt(i)'
      BY <1>2, <1>4, <2>1, <2>2, <2>3, RaceInvAt DEF RaceAt
    <2>5. Lifecycle!Answer(i)
      BY <1>2, <2>1, <2>3 DEF Lifecycle!Answer
    <2> QED
      BY <2>4, <2>5 DEF Life
  <1> QED
    BY <1>6, <1>7

\* A decision begins: another one under way makes it a race.
LEMMA BegunLives ==
    ASSUME Inv, RaceInv, NEW h \in Handlers, StartApprove(h) \/ StartReject(h), NEW i \in Ids
    PROVE  RaceAt(i)' /\ Life(i)
  <1> USE DEF Inv
  <1>1. PICK op \in {"approve", "reject"} :
          StartDecision(h, op, IF op = "approve" THEN "evaluate" ELSE "update")
    BY DEF StartApprove, StartReject
  <1>2. (IF op = "approve" THEN "evaluate" ELSE "update") \in Steps
    BY DEF Steps
  <1>3. PICK j \in Ids :
          /\ record[j].status = "pending"
          /\ pc[h] = "idle"
          /\ \A g \in Handlers :
               /\ g # h => pc'[g] = pc[g] /\ req'[g] = req[g]
               /\ g = h => req'[g].id = j
          /\ past'[j].ran = past[j].ran
          /\ past'[j].raced <=> past[j].raced \/ \E g \in Handlers : req[g].id = j
          /\ \A k \in Ids : k # j => past'[k] = past[k]
          /\ UNCHANGED record
    BY <1>1, <1>2, DecisionLocal
  <1>4. \A g \in Handlers : Copying(g, i) => Copying(g, i)'
    BY <1>3 DEF Copying
  <1>5. CASE i # j
    BY <1>3, <1>4, <1>5, RaceInvAt, SameLife, SameRace DEF SameFile
  <1>6. CASE i = j
    <2>1. past[i].raced \in BOOLEAN /\ past'[i].raced \in BOOLEAN
      <3>1. past'[i] \in History
        <4>1. TypeOK'
          BY <1>1, TypeStep DEF Next, Start, StartApprove, StartReject
        <4> QED
          BY <4>1 DEF TypeOK
      <3> QED
        BY <3>1 DEF TypeOK, History
    <2>2. RaceAt(i)'
      BY <1>3, <1>4, <1>6, RaceInvAt DEF RaceAt
    <2>3. Lifecycle!Race(i) \/ Lifecycle!Same(i)
      <3>1. CASE past'[i].raced
        BY <1>3, <1>6, <3>1 DEF Lifecycle!Race
      <3>2. CASE ~past'[i].raced
        <4>1. past'[i].raced = past[i].raced
          BY <1>3, <1>6, <2>1, <3>2
        <4> QED
          BY <1>3, <1>6, <4>1 DEF Lifecycle!Same
      <3> QED
        BY <3>1, <3>2
    <2> QED
      BY <2>2, <2>3 DEF Life
  <1> QED
    BY <1>5, <1>6

\* The decision is written down.
LEMMA DecidedLives ==
    ASSUME Inv, RaceInv, NEW h \in Handlers, WriteDecision(h), NEW i \in Ids
    PROVE  RaceAt(i)' /\ Life(i)
  <1> USE DEF Inv
  <1>1. /\ pc[h] = "update" /\ req[h].op \in {"approve", "reject"} /\ req[h].id \in Ids
        /\ Return(h) /\ UNCHANGED past
    BY DEF WriteDecision, Flow
  <1>2. \A g \in Handlers : /\ g # h => req'[g] = req[g] /\ pc'[g] = pc[g]
                            /\ req'[h].id \notin Ids
    BY <1>1, ReturnLocal, PromotionAssumption DEF Idle
  <1>3. CASE req[h].id # i
    <2>1. SameFile(i)
      BY <1>1, <1>3 DEF WriteDecision, UpdateRecord, SameFile, TypeOK
    <2>2. \A g \in Handlers : Copying(g, i) => Copying(g, i)'
      BY <1>2, <1>3 DEF Copying
    <2> QED
      BY <1>2, <2>1, <2>2, RaceInvAt, SameLife, SameRace
  <1>4. CASE req[h].id = i /\ ~Readable(i)
    <2>1. past[i].raced
      BY <1>4, RaceInvAt DEF RaceAt, Readable, Statuses
    <2>2. SameFile(i)
      BY <1>1, <1>4 DEF WriteDecision, UpdateRecord, SameFile
    <2> QED
      BY <1>1, <2>1, <2>2, SameLife DEF RaceAt
  <1>5. CASE req[h].id = i /\ Readable(i)
    <2> DEFINE st == IF req[h].op = "approve" THEN "approved" ELSE "rejected"
    <2>1. record'[i].status = st
      BY <1>1, <1>5 DEF WriteDecision, UpdateRecord, TypeOK, RequestFiles
    <2>2. record[i].status \in {"pending", "approved", "rejected"}
      BY <1>1, <1>5 DEF Held, Files, Readable, Statuses
    <2>3. ~past[i].raced => record[i].status = "pending"
      BY <1>5, RaceInvAt DEF RaceAt
    <2>4. req[h].op = "approve" => past[i].ran # "never"
      BY <1>1, <1>5 DEF Counted
    <2>5. ~past[i].raced /\ req[h].op = "reject" => past[i].ran = "never"
      <3>1. ASSUME ~past[i].raced, req[h].op = "reject", NEW g \in Handlers, Copying(g, i) PROVE FALSE
        BY <1>5, <3>1 DEF RaceInv, OneDecider, Copying
      <3> QED
        BY <2>3, <3>1, RaceInvAt DEF RaceAt
    <2>6. ~past[i].raced => \A g \in Handlers : req'[g].id # i
      BY <1>2, <1>5, RaceInvAt DEF RaceAt
    <2>7. RaceAt(i)'
      BY <1>1, <2>1, <2>5, <2>6 DEF RaceAt
    <2>8. CASE req[h].op = "approve"
      <3>1. Lifecycle!Approve(i)
        BY <1>1, <2>1, <2>2, <2>3, <2>4, <2>8 DEF Lifecycle!Approve, Lifecycle!Undecided, Lifecycle!Move
      <3> QED
        BY <2>7, <3>1 DEF Life
    <2>9. CASE req[h].op = "reject"
      <3>1. Lifecycle!Reject(i)
        BY <1>1, <2>1, <2>2, <2>3, <2>5, <2>9 DEF Lifecycle!Reject, Lifecycle!Undecided, Lifecycle!Move
      <3> QED
        BY <2>7, <3>1 DEF Life
    <2> QED
      BY <1>1, <2>8, <2>9
  <1> QED
    BY <1>3, <1>4, <1>5

LEMMA PurgeLives ==
    ASSUME Inv, RaceInv, PurgeDecided, NEW i \in Ids
    PROVE  RaceAt(i)' /\ Life(i)
  <1> USE DEF Inv
  <1>1. PICK j \in Ids :
          /\ record[j].status \in {"approved", "rejected"}
          /\ \A h \in Handlers : req[h].id # j
          /\ record' = [record EXCEPT ![j].status = "purged"]
          /\ UNCHANGED <<pc, req, past>>
    BY DEF PurgeDecided, Decided
  <1>2. CASE i # j
    BY <1>1, <1>2, RaceInvAt, SameLife, SameRace DEF SameFile, Copying, TypeOK
  <1>3. CASE i = j
    <2>1. record'[i].status = "purged"
      BY <1>1, <1>3 DEF TypeOK, RequestFiles
    <2>2. RaceAt(i)'
      BY <1>1, <1>3, <2>1 DEF RaceAt
    <2>3. Lifecycle!Purge(i)
      BY <1>1, <1>3, <2>1 DEF Lifecycle!Purge, Lifecycle!Move
    <2> QED
      BY <2>2, <2>3 DEF Life
  <1> QED
    BY <1>2, <1>3

\* A kill tears at most one file, and makes a race of what was between copy and record.
LEMMA CrashLives ==
    ASSUME Inv, RaceInv, Crash, NEW i \in Ids
    PROVE  RaceAt(i)' /\ Life(i)
  <1> USE DEF Inv
  <1>1. /\ past'[i].ran = past[i].ran
        /\ past'[i].raced <=> past[i].raced \/ \E h \in Handlers : Copying(h, i)
    BY CrashPast
  <1>2. past[i].raced \in BOOLEAN /\ past'[i].raced \in BOOLEAN
    <2>1. TypeOK'
      BY TypeStep DEF Next, Environment
    <2> QED
      BY <2>1 DEF TypeOK, History
  <1>3. \A h \in Handlers : req'[h].id # i
    BY PromotionAssumption DEF Crash, Idle
  <1>4. CASE record'[i] = record[i]
    <2>1. RaceAt(i)'
      BY <1>1, <1>3, <1>4, RaceInvAt DEF RaceAt
    <2>2. CASE past'[i].raced = past[i].raced
      BY <1>1, <1>4, <2>1, <2>2 DEF Lifecycle!Same, Life
    <2>3. CASE past'[i].raced # past[i].raced
      <3>1. past'[i].raced /\ ~past[i].raced /\ \E h \in Handlers : Copying(h, i)
        BY <1>1, <1>2, <2>3
      <3>2. record[i].status = "pending"
        BY <3>1, RaceInvAt DEF RaceAt, Copying
      <3>3. Lifecycle!Race(i)
        BY <1>1, <1>4, <3>1, <3>2 DEF Lifecycle!Race
      <3> QED
        BY <2>1, <3>3 DEF Life
    <2> QED
      BY <2>2, <2>3
  <1>5. CASE record'[i] # record[i]
    <2>0. PICK h \in Handlers : \E j \in BeingWritten(h) :
            record' = [record EXCEPT ![j].status = "unreadable"]
      BY <1>5 DEF Crash
    <2>1. PICK j \in BeingWritten(h) :
            record' = [record EXCEPT ![j].status = "unreadable"]
      BY <2>0
    <2>2. i = j /\ record'[i].status = "unreadable"
      BY <1>5, <2>1 DEF TypeOK, RequestFiles
    <2>3. RaceAt(i)'
      BY <1>3, <2>2 DEF RaceAt
    <2>4. \/ record[i].status = "absent"
          \/ record[i].status = "pending"
          \/ past[i].raced /\ record[i].status \in {"approved", "rejected"}
      <3>1. CASE record[i].status = "absent"
        BY <3>1
      <3>2. CASE req[h].op \in {"approve", "reject"} /\ req[h].id = i /\ Readable(i)
        <4>1. record[i].status \in {"pending", "approved", "rejected"}
          BY <3>2 DEF Held, Files, Readable, Statuses
        <4>2. ~past[i].raced => record[i].status = "pending"
          BY <3>2, RaceInvAt DEF RaceAt
        <4> QED
          BY <4>1, <4>2
      <3> QED
        BY <2>1, <2>2, <3>1, <3>2, WrittenIsFile
    <2>5. Lifecycle!Tear(i)
      BY <1>1, <2>2, <2>4 DEF Lifecycle!Tear, Lifecycle!Undecided
    <2> QED
      BY <2>3, <2>5 DEF Life
  <1> QED
    BY <1>4, <1>5

--------------------------------------------------------------------------------
LEMMA RaceStep ==
    ASSUME Inv, RaceInv, [Next]_vars
    PROVE  RaceInv' /\ \A i \in Ids : Life(i)
  <1>1. CASE UNCHANGED <<pc, req, record, past>>
    <2>1. Aside
      BY <1>1 DEF Aside, Onward, Copying
    <2> QED
      BY <2>1, AsideLives, RaceInvNext
  <1>2. ASSUME NEW h \in Handlers,
               \/ StartPromote(h) \/ EvaluateEpss(h) \/ GoAhead(h) \/ UpdateIndex(h)
               \/ ReEvaluate(h) \/ CopyFails(h)
        PROVE  RaceInv' /\ \A i \in Ids : Life(i)
    BY <1>2, AsideSteps, AsideLives, RaceInvNext
  <1>3. ASSUME NEW h \in Handlers, RefuseBlocked(h) \/ AskReview(h) \/ RecordPromotion(h)
        PROVE  RaceInv' /\ \A i \in Ids : Life(i)
    <2>1. /\ req[h].op = "promote" /\ Return(h) /\ UNCHANGED past
          /\ \E st \in {"pending", "approved", "blocked", "already_present"} : CreateRecord(h, st)
      BY <1>3 DEF RefuseBlocked, AskReview, RecordPromotion, Inv, Flow
    <2> QED
      BY <2>1, RecordedLives, RaceInvNext
  <1>4. ASSUME NEW h \in Handlers, Copy(h) \/ CopyAlready(h)
        PROVE  RaceInv' /\ \A i \in Ids : Life(i)
    BY <1>4, CopyLives, RaceInvNext
  <1>5. ASSUME NEW h \in Handlers, StartApprove(h) \/ StartReject(h)
        PROVE  RaceInv' /\ \A i \in Ids : Life(i)
    BY <1>5, BegunLives, RaceInvNext
  <1>6. ASSUME NEW h \in Handlers, WriteDecision(h)
        PROVE  RaceInv' /\ \A i \in Ids : Life(i)
    BY <1>6, DecidedLives, RaceInvNext
  <1>7. CASE PurgeDecided
    BY <1>7, PurgeLives, RaceInvNext
  <1>8. CASE Crash
    BY <1>8, CrashLives, RaceInvNext
  <1> QED
    BY <1>1, <1>2, <1>3, <1>4, <1>5, <1>6, <1>7, <1>8
       DEF Next, Start, Step, Environment, AddToIndex, RemoveFromIndex, IncludePackage, CopyUngated,
           RemovePackage, RefreshEpss, SetPolicy, vars

\* A rejected request of which an approval was answered had two decisions overlap, or its
\* approval killed between copy and record: the comment of reject_pending() holds of every
\* other request, whatever handlers and kills there are.
THEOREM RejectedNotCopiedHolds == Spec => []RejectedNotCopied
  <1>1. Inv /\ RaceInv /\ [Next]_vars => RaceInv'
    BY RaceStep
  <1>2. RaceInv => RejectedNotCopied
    BY DEF RaceInv, CopyIsOwned, RejectedNotCopied
  <1> QED
    BY <1>1, <1>2, InvHolds, InitRace, PTL DEF Spec

\* The workflow implements the lifecycle of every request, for any number of handlers and
\* with kills at any moment: decided once, approved only after an answer and rejected only
\* without one, but for requests whose decisions overlapped or were cut.
THEOREM FollowsLifecycleHolds == Spec => FollowsLifecycle
  <1>1. Inv /\ RaceInv /\ [Next]_vars => RaceInv'
    BY RaceStep
  <1>2. Inv /\ RaceInv /\ [Next]_vars =>
          [Lifecycle!Next]_<<[i \in Ids |-> record[i].status], [i \in Ids |-> past[i].ran],
                             [i \in Ids |-> past[i].raced]>>
    BY RaceStep DEF Lifecycle!Next, Life
  <1> QED
    BY <1>1, <1>2, InvHolds, InitRace, PTL DEF Spec, FollowsLifecycle, Lifecycle!Spec
================================================================================
