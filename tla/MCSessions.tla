------------------------------ MODULE MCSessions ------------------------------
(***************************************************************************)
(* A small instance of Sessions for TLC.                                   *)
(***************************************************************************)
EXTENDS Sessions, TLC

CONSTANTS u1, t1, t2, l1, l2, h1, h2

\* Names of sessions, links and requests are interchangeable: only invariants are checked.
Symmetry == Permutations(Tokens) \cup Permutations(Links) \cup Permutations(Handlers)
================================================================================
