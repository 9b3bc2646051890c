------------------------------ MODULE MCAdmission ------------------------------
(***************************************************************************)
(* A small instance of Admission for TLC: three contents of one file name, *)
(* one for each verdict of the pipeline.                                   *)
(***************************************************************************)
EXTENDS Admission, TLC

ThreeVerdicts == [clean |-> "approved", risky |-> "pending_review", infected |-> "rejected"]
Alike         == Permutations(Handlers)

\* Behaviours are followed while no more than one kind of mishap has happened to the file.
OneMishap == Cardinality(mishaps) <= 1

\* What is rejected has no effect, and no property of this run is about it.
Effective == <<pool, manifest, repo, accepted, mishaps, work>>
================================================================================
