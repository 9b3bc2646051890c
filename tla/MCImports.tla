-------------------------------- MODULE MCImports --------------------------------
(***************************************************************************)
(* A small instance of Imports for TLC: a .deb that needs another, which   *)
(* the first index does not list; an .rpm that needs one which the second  *)
(* index does not list any more; an .apk that needs one without a row, one *)
(* that needs nothing, and one of the user's own, not in the index, that   *)
(* needs it.                                                               *)
(* One task or two at work at once, each in any of two replicas: among     *)
(* them an upload and a fetch of one version.                              *)
(***************************************************************************)
EXTENDS Imports

Names      == {"d1", "d2", "r1", "r2", "k1", "k2", "k3", "k4"}
ByName     == <<"d1", "d2", "k1", "k2", "k3", "k4", "r1", "r2">>
KindOf     == [p \in Names |-> IF p \in {"d1", "d2"} THEN "deb" ELSE IF p \in {"k1", "k2", "k3", "k4"} THEN "apk" ELSE "rpm"]
DependsOn  == [p \in Names |-> CASE p = "d1" -> {"d2"} [] p = "r1" -> {"r2"} [] p = "k1" -> {"k2"} [] p = "k3" -> {"k4"} [] OTHER -> {}]
ListedIn   == [p \in Names |-> CASE p = "d2" -> {2} [] p \in {"k2", "k3"} -> {} [] p \in {"d1", "r2", "k1", "k4"} -> {1} [] OTHER -> {1, 2}]
LastIndex  == [k \in Kinds |-> IF k = "apk" THEN 1 ELSE 2]
Request(mode, p) == [mode |-> mode, target |-> p]
Together   ==
    {<<Request("fetch", "d1")>>,
     <<Request("mirror", "d1")>>,
     <<Request("fetch", "r1")>>,
     <<Request("mirror", "r1")>>,
     <<Request("upload", "d1")>>,
     <<Request("upload", "k3")>>,
     <<Request("upload", "k4"), Request("fetch", "k4")>>,
     <<Request("mirror", "k4"), Request("fetch", "k1")>>,
     <<Request("mirror", "k1"), Request("mirror", "k1")>>}

\* An upload whose dependency another import brings at the same time.
OneDependency == {<<Request("upload", "k3"), Request("fetch", "k4")>>}

\* Every answer that the pipelines tell apart, one tool or two at a time.
Answers ==
    [file : {"broken", "good"}, sum : {"same", "other"}, control : {"same", "other"},
     clamd : {"absent", "ok", "found"}, clamscan : {"clean", "infected"}, grype : {"error", "done"},
     found : SUBSET {"High", "Low"}, sig : {"none", "valid", "invalid"}]
Settings ==
    [clamav_scan : BOOLEAN, grype_scan : BOOLEAN, gpg_required : BOOLEAN,
     policy : {[s \in {"High", "Low"} |-> IF s = "High" THEN "block" ELSE "review"], [s \in {} |-> "allow"]},
     fail_on : {"high"}]
================================================================================
