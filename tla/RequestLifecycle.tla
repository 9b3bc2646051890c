--------------------------- MODULE RequestLifecycle ---------------------------
(***************************************************************************)
(* What the promotion workflow promises about each request, as the header  *)
(* of services/pending_promotions.py draws it: a pending request is        *)
(* decided once; it is approved only after reprepro was run and answered   *)
(* with a success, and rejected only if it was not.  Promotions that need  *)
(* no decision leave a record that never changes.  Old decided requests    *)
(* are purged.                                                             *)
(*                                                                         *)
(* The promise is that of one decision at a time.  Of a request whose      *)
(* decisions overlapped, or whose approval was killed after its copy, what *)
(* is left is that only requests awaiting or having a decision are         *)
(* decided, and approved only after an answer.  Each request moves on its  *)
(* own: a restart may move several at once.                                *)
(***************************************************************************)
CONSTANT Ids

VARIABLES
    status,  \* request -> its status
    answers, \* request -> how often reprepro answered an approval of it
    raced    \* request -> whether its decisions got in each other's way

Init ==
    /\ status = [i \in Ids |-> "absent"]
    /\ answers = [i \in Ids |-> "never"]
    /\ raced = [i \in Ids |-> FALSE]

\* A request that a decision may still be about.
Undecided(i) == status[i] = "pending" \/ (raced[i] /\ status[i] \in {"approved", "rejected"})

Move(i, from, to) ==
    /\ status[i] = from
    /\ status'[i] = to
    /\ answers'[i] = answers[i]
    /\ raced'[i] = raced[i]

\* The version needs a review: the request waits.
Open(i) == Move(i, "absent", "pending")

\* The promotion was settled at once.
Settle(i) == \E st \in {"approved", "blocked", "already_present"} : Move(i, "absent", st)

\* reprepro answers an approval: once, but for decisions that overlap.
Answer(i) ==
    /\ \/ status[i] = "pending" /\ answers[i] = "never" /\ answers'[i] = "once"
       \/ raced[i] /\ answers'[i] \in {"once", "again"}
    /\ status'[i] = status[i]
    /\ raced'[i] = raced[i]

Approve(i) == Undecided(i) /\ answers[i] # "never" /\ Move(i, status[i], "approved")

Reject(i) == Undecided(i) /\ (answers[i] = "never" \/ raced[i]) /\ Move(i, status[i], "rejected")

Purge(i) == \E st \in {"approved", "rejected"} : Move(i, st, "purged")

\* A second decision begins before the first has ended, or a kill separates an approval
\* from its record.
Race(i) ==
    /\ status[i] = "pending"
    /\ raced'[i]
    /\ status'[i] = status[i]
    /\ answers'[i] = answers[i]

\* A kill while the file of the request is written: nothing reads it any more.
Tear(i) ==
    /\ status[i] = "absent" \/ Undecided(i)
    /\ status'[i] = "unreadable"
    /\ answers'[i] = answers[i]
    /\ raced[i] => raced'[i]

Same(i) == status'[i] = status[i] /\ answers'[i] = answers[i] /\ raced'[i] = raced[i]

Next == \A i \in Ids :
    \/ Open(i) \/ Settle(i) \/ Answer(i) \/ Approve(i) \/ Reject(i) \/ Purge(i)
    \/ Race(i) \/ Tear(i) \/ Same(i)

Spec == Init /\ [][Next]_<<status, answers, raced>>
================================================================================
