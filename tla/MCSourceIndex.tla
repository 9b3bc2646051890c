---------------------------- MODULE MCSourceIndex ----------------------------
(***************************************************************************)
(* Small instances of SourceIndex for TLC.                                 *)
(***************************************************************************)
EXTENDS SourceIndex

CONSTANTS j1, j2

Read(S) == {[pkg |-> p, named |-> TRUE, versioned |-> TRUE] : p \in S}
Bare(p) == {[pkg |-> p, named |-> TRUE, versioned |-> FALSE]}

\* Two revisions that share a package; the second is cut in three batches, and
\* names a package without a version.  The last is an index without packages.
Streamed ==
    << <<Read({"a"}), Read({"b"})>>, <<Read({"b"}), Read({"c"}) \cup Bare("d"), Read({"a"})>>, <<{}>> >>
\* Revisions written in one transaction, any two of which share a package: two that are
\* signed, a forged one, and one that is signed but cannot be inserted.
Transacted ==
    << <<Read({"a", "b"})>>, <<Read({"b", "c"})>>, <<Read({"b", "d"})>>, <<Read({"b"}) \cup Bare("c")>> >>
================================================================================
