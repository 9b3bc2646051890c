------------------------------ MODULE MCCatalogue ------------------------------
(***************************************************************************)
(* A small instance of Catalogue for TLC: three versions, and a second     *)
(* architecture of one of them.                                            *)
(***************************************************************************)
EXTENDS Catalogue, TLC

CONSTANTS h1, h2

ThreeItems == {[ver |-> 1, arch |-> "amd64"], [ver |-> 2, arch |-> "amd64"], [ver |-> 2, arch |-> "arm64"]}

Symmetry == Permutations(Handlers)
================================================================================
