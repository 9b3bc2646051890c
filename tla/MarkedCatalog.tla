----------------------------- MODULE MarkedCatalog -----------------------------
(***************************************************************************)
(* What the protocol of services/index_state.py promises: the mark of a    *)
(* source is taken off before its rows are rewritten, and put back only    *)
(* when the rows are exactly those of the revision it names.               *)
(***************************************************************************)
CONSTANTS
    Revisions,
    None,
    Empty,       \* no rows
    Full(_)      \* the rows of a revision

VARIABLES
    mark,     \* the revision the source is marked with, or None
    content   \* the rows of the source

Init == mark = None /\ content = Empty

Unmark  == mark' = None /\ UNCHANGED content
Rewrite == mark = None /\ UNCHANGED mark
Mark    == \E r \in Revisions : content = Full(r) /\ mark' = r /\ UNCHANGED content

\* An operator may empty the table whatever the mark says.
Purge == content' = Empty /\ UNCHANGED mark

Next == Unmark \/ Rewrite \/ Mark \/ Purge

Spec == Init /\ [][Next]_<<mark, content>>
================================================================================
