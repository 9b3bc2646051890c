------------------------------ MODULE SourceIndex ------------------------------
(***************************************************************************)
(* The synchronisation of one upstream source into the package index:      *)
(* sync_source() of services/package_index_rpm.py, package_index_apt.py    *)
(* and package_index_apk.py over the fingerprints of index_state.py.       *)
(*                                                                         *)
(* The RPM version streams primary.xml and commits every batch of 500      *)
(* packages by itself, with an upsert.  The APT and APK versions download  *)
(* the index first and replace the rows in one transaction; the APT table  *)
(* has a unique constraint, the APK table has none.  Format chooses which. *)
(*                                                                         *)
(* PostgreSQL runs these transactions at READ COMMITTED: a DELETE takes    *)
(* away the rows committed when it started, and what another transaction   *)
(* inserts meanwhile survives it.  The waits on row locks are not          *)
(* modelled: whichever transaction commits first, does.                    *)
(***************************************************************************)
EXTENDS SourceTrust, Integers, FiniteSets, Sequences

CONSTANTS
    Jobs,          \* threads that may synchronise the source
    Revisions,     \* states of the upstream index, named by their SHA-256
    Signed,        \* the revisions that the distribution has signed
    AscMayBeLost,  \* whether repomd.xml.asc is not published, or its download may fail
    Packages,      \* keys (name, version, arch) of the rows
    Stanzas,       \* revision -> its entries, in the batches they are flushed in
    Format,        \* "rpm", "apt" or "apk"
    MayForce,      \* whether syncs with force=True are asked for
    ClearMayFail,  \* whether clear() may hit the database errors it swallows
    MaxMishaps,    \* bound on failures, crashes, upstream changes and purges
    None           \* no fingerprint

ASSUME SourceIndexAssumption ==
    /\ None \notin Revisions
    /\ Signed \subseteq Revisions
    /\ AscMayBeLost \in BOOLEAN
    /\ Stanzas \in [Revisions -> Seq(SUBSET Stanza(Packages))]
    /\ \A r \in Revisions : Len(Stanzas[r]) > 0
    /\ Format \in {"rpm", "apt", "apk"}
    /\ Format # "rpm" => \A r \in Revisions : Len(Stanzas[r]) = 1
    /\ MayForce \in BOOLEAN
    /\ ClearMayFail \in BOOLEAN
    /\ MaxMishaps \in Nat

VARIABLES
    upstream,  \* the revision the source publishes
    fp,        \* source_index_state.fingerprint, or None
    table,     \* package -> number of its rows
    pc,        \* job -> what it does next
    expect,    \* job -> the revision the authenticated metadata announces
    got,       \* job -> the revision it downloads
    next,      \* job -> the batch it writes next
    snap,      \* job -> package -> rows its open transaction has deleted
    mishaps

jobVars == <<expect, got, next>>
vars    == <<upstream, fp, table, pc, expect, got, next, snap, mishaps>>

\* What the parser keeps of the entries of a batch.
Keeps(s) ==
    \/ Format = "apt" /\ AptKeeps(s)
    \/ Format = "rpm" /\ RpmKeeps(s)
    \/ Format = "apk" /\ ApkKeeps(s)
Parsed(S) == {s.pkg : s \in {x \in S : Keeps(x)}}
Batches   == [r \in Revisions |-> [n \in 1 .. Len(Stanzas[r]) |-> Parsed(Stanzas[r][n])]]

Empty   == [p \in Packages |-> 0]
\* The packages of the batches before the n-th.
Before(r, n) == {p \in Packages : \E k \in 1 .. (n - 1) : p \in Batches[r][k]}
Rows(s) == [p \in Packages |-> IF p \in s THEN 1 ELSE 0]
Full(r) == Rows(Before(r, Len(Batches[r]) + 1))

\* Where a call of sync_source() is.
Steps == {"idle", "check", "fetch", "clear", "delete", "write", "verify"}

TypeOK ==
    /\ upstream \in Revisions
    /\ fp \in Revisions \cup {None}
    /\ table \in [Packages -> Nat]
    /\ pc \in [Jobs -> Steps]
    /\ expect \in [Jobs -> Revisions \cup {None}]
    /\ got \in [Jobs -> Revisions \cup {None}]
    /\ next \in [Jobs -> Nat]
    /\ snap \in [Jobs -> [Packages -> Nat]]
    /\ mishaps \in 0 .. MaxMishaps

Init ==
    /\ upstream \in Revisions
    /\ fp = None
    /\ table = Empty
    /\ pc = [j \in Jobs |-> "idle"]
    /\ expect = [j \in Jobs |-> None]
    /\ got = [j \in Jobs |-> None]
    /\ next = [j \in Jobs |-> 1]
    /\ snap = [j \in Jobs |-> Empty]
    /\ mishaps = 0

Mishap == mishaps < MaxMishaps /\ mishaps' = mishaps + 1

Goto(j, step) == pc' = [pc EXCEPT ![j] = step]

--------------------------------------------------------------------------------
\* repomd.xml or InRelease is authenticated; APKINDEX is, once it is known to have changed.
Announced(r) ==
    \/ Format = "apt" /\ \E a \in AptAnswers(r \in Signed) : AptAuthentic(a)
    \/ Format = "rpm" /\ \E a \in RpmAnswers(r \in Signed, IF AscMayBeLost THEN BOOLEAN ELSE {TRUE}) :
                           RpmAuthentic(a)
    \/ Format = "apk"
Authentic(r) == \E a \in ApkAnswers(r \in Signed) : ApkAuthentic(a)

\* repomd.xml or InRelease is fetched and authenticated; repomd.xml may give no
\* SHA-256.  For APK the index itself is fetched, and hashed.
Begin(j) ==
    /\ pc[j] = "idle"
    /\ Announced(upstream)
    /\ \E sha \in {upstream} \cup (IF Format = "rpm" THEN {None} ELSE {}) :
         expect' = [expect EXCEPT ![j] = sha]
    /\ got' = [got EXCEPT ![j] = upstream]
    /\ Goto(j, "check")
    /\ UNCHANGED <<upstream, fp, table, next, snap, mishaps>>

\* The attempt ends as an error of the source; its rows and its fingerprint stay.
Refuse(j) ==
    /\ pc[j] = "idle"
    /\ ~Announced(upstream)
    /\ UNCHANGED vars

\* Slip: an index that was ingested once is never looked at again.
IsUnchangedOnce(j) == expect[j] # None /\ fp # None

\* index_state.is_unchanged(): no fingerprint, no proof.
IsUnchanged(j) == expect[j] # None /\ fp = expect[j]

\* Slip: the number of indexed packages is not looked at.
SkipUncounted(j) ==
    /\ pc[j] = "check"
    /\ IsUnchanged(j)
    /\ Goto(j, "idle")
    /\ UNCHANGED <<upstream, fp, table, jobVars, snap, mishaps>>

\* The source is skipped: same fingerprint, and rows in the table.
Skip(j) ==
    /\ pc[j] = "check"
    /\ IsUnchanged(j)
    /\ table # Empty
    /\ Goto(j, "idle")
    /\ UNCHANGED <<upstream, fp, table, jobVars, snap, mishaps>>

\* It is not; a database error while reading the fingerprint or the count is
\* swallowed and reads as "changed".  APT downloads its index first, APK checks it.
GoOn(j) ==
    /\ pc[j] = "check"
    /\ \/ (~IsUnchanged(j) \/ table = Empty \/ MayForce) /\ UNCHANGED mishaps
       \/ Mishap
    /\ Goto(j, IF Format = "rpm" THEN "clear" ELSE "fetch")
    /\ UNCHANGED <<upstream, fp, table, jobVars, snap>>

\* Slip: Packages.gz is not compared with what InRelease announces.
FetchUnhashed(j) ==
    /\ pc[j] = "fetch"
    /\ got' = [got EXCEPT ![j] = IF Format = "apt" THEN upstream ELSE got[j]]
    /\ Goto(j, IF Format = "apt" \/ Authentic(got[j]) THEN "clear" ELSE "idle")
    /\ UNCHANGED <<upstream, fp, table, expect, next, snap, mishaps>>

\* Packages.gz must be the one InRelease announces, APKINDEX must be signed.
Fetch(j) ==
    /\ pc[j] = "fetch"
    /\ got' = [got EXCEPT ![j] = IF Format = "apt" THEN upstream ELSE got[j]]
    /\ Goto(j, IF \/ Format = "apt" /\ upstream = expect[j]
                  \/ Format # "apt" /\ Authentic(got[j])
               THEN "clear" ELSE "idle")
    /\ UNCHANGED <<upstream, fp, table, expect, next, snap, mishaps>>

\* Slip: the fingerprint is blanked, its row is left in place.
ClearBlank(j) ==
    /\ pc[j] = "clear"
    /\ fp' = 0 /\ UNCHANGED mishaps
    /\ got' = IF Format = "rpm" THEN [got EXCEPT ![j] = upstream] ELSE got
    /\ Goto(j, "delete")
    /\ UNCHANGED <<upstream, table, expect, next, snap>>

\* index_state.clear(), then the RPM version opens primary.xml.
Clear(j) ==
    /\ pc[j] = "clear"
    /\ \/ fp' = None /\ UNCHANGED mishaps
       \/ ClearMayFail /\ Mishap /\ UNCHANGED fp
    /\ got' = IF Format = "rpm" THEN [got EXCEPT ![j] = upstream] ELSE got
    /\ Goto(j, "delete")
    /\ UNCHANGED <<upstream, table, expect, next, snap>>

\* DELETE FROM packages WHERE source_id = ..., in a transaction just opened.
Delete(j) ==
    /\ pc[j] = "delete"
    /\ snap' = [snap EXCEPT ![j] = table]
    /\ next' = [next EXCEPT ![j] = 1]
    /\ Goto(j, "write")
    /\ UNCHANGED <<upstream, fp, table, expect, got, mishaps>>

\* The rows a transaction of j leaves besides those it inserts.
Kept(j) == [p \in Packages |-> table[p] - snap[j][p]]

Batch(j) == Batches[got[j]][next[j]]

\* Slip: no table has a unique constraint.
ConflictUnnoticed(j) == FALSE

\* INSERT hits the unique constraint of the APT table.
Conflict(j) == Format = "apt" /\ \E p \in Batch(j) : Kept(j)[p] > 0

\* An entry that was kept without a version, in a column that is NOT NULL.
Unversioned(j) == \E s \in Stanzas[got[j]][next[j]] : Keeps(s) /\ ~s.versioned

InsertFails(j) == Conflict(j) \/ Unversioned(j)

\* Rows deleted by j are gone for the other open transactions too.
Rest(s, d) == [p \in Packages |-> IF s[p] < d[p] THEN 0 ELSE s[p] - d[p]]

\* The transaction of one batch commits.  The upsert of the RPM version replaces a
\* row of the same package, the other versions insert one more.
Write(j) ==
    /\ pc[j] = "write"
    /\ ~InsertFails(j)
    /\ table' = [p \in Packages |->
         IF p \notin Batch(j) THEN Kept(j)[p]
         ELSE IF Format = "rpm" THEN 1 ELSE Kept(j)[p] + 1]
    /\ snap' = [i \in Jobs |-> IF i = j THEN Empty ELSE Rest(snap[i], snap[j])]
    /\ IF next[j] < Len(Batches[got[j]])
       THEN next' = [next EXCEPT ![j] = @ + 1] /\ UNCHANGED pc
       ELSE Goto(j, "verify") /\ UNCHANGED next
    /\ UNCHANGED <<upstream, fp, expect, got, mishaps>>

\* INSERT raises: the transaction is rolled back with its DELETE, as an error of the source.
WriteFails(j) ==
    /\ pc[j] = "write"
    /\ InsertFails(j)
    /\ snap' = [snap EXCEPT ![j] = Empty]
    /\ Goto(j, "idle")
    /\ UNCHANGED <<upstream, fp, table, jobVars, mishaps>>

\* Slip: the hash of what was streamed is not compared.
VerifiedUnhashed(j) == Format = "rpm" => Full(got[j]) # Empty

\* The RPM version compares hashes after it has committed, and fails on an index
\* without packages.
Verified(j) ==
    Format = "rpm" => (expect[j] = None \/ got[j] = expect[j]) /\ Full(got[j]) # Empty

VerifyFails(j) ==
    /\ pc[j] = "verify"
    /\ ~Verified(j)
    /\ Goto(j, "idle")
    /\ UNCHANGED <<upstream, fp, table, jobVars, snap, mishaps>>

\* index_state.remember(): nothing without a fingerprint, database errors swallowed.
Remember(j) ==
    /\ pc[j] = "verify"
    /\ Verified(j)
    /\ \/ fp' = (IF expect[j] = None THEN fp ELSE expect[j]) /\ UNCHANGED mishaps
       \/ Mishap /\ UNCHANGED fp
    /\ Goto(j, "idle")
    /\ UNCHANGED <<upstream, table, jobVars, snap>>

\* The network, the parser or the database raises, or (RPM) the user cancels: an open
\* transaction is rolled back, batches already committed stay.
Fail(j) ==
    /\ pc[j] \in {"check", "fetch", "clear", "delete", "write"}
    /\ Mishap
    /\ snap' = [snap EXCEPT ![j] = Empty]
    /\ Goto(j, "idle")
    /\ UNCHANGED <<upstream, fp, table, jobVars>>

--------------------------------------------------------------------------------
\* The backend is killed and restarted.
Crash ==
    /\ Mishap
    /\ pc' = [j \in Jobs |-> "idle"]
    /\ snap' = [j \in Jobs |-> Empty]
    /\ UNCHANGED <<upstream, fp, table, jobVars>>

\* The source publishes another revision, or a mirror behind serves an older one.
Publish ==
    /\ Mishap
    /\ upstream' \in Revisions \ {upstream}
    /\ UNCHANGED <<fp, table, pc, jobVars, snap>>

\* An operator empties the rows of the source while it is not being synchronised.
PurgeRows ==
    /\ Mishap
    /\ \A j \in Jobs : pc[j] = "idle"
    /\ table' = Empty
    /\ UNCHANGED <<upstream, fp, pc, jobVars, snap>>

\* sync_source() once it has its fingerprint, of the three formats.
Step(j) ==
    \/ Skip(j) \/ GoOn(j) \/ Fetch(j) \/ Clear(j) \/ Delete(j) \/ Write(j)
    \/ WriteFails(j) \/ VerifyFails(j) \/ Remember(j)

Next ==
    \/ \E j \in Jobs : Begin(j) \/ Refuse(j) \/ Step(j) \/ Fail(j)
    \/ Crash \/ Publish \/ PurgeRows

Spec == Init /\ [][Next]_vars

\* The scheduler starts the sync again and again, and threads run.
FairSpec == Spec /\ \A j \in Jobs : WF_vars(Begin(j) \/ Step(j))

--------------------------------------------------------------------------------
\* Properties.

\* "Si l'empreinte est egale, c'est bit pour bit le meme index que celui deja en
\* base" (or an operator emptied it): a fingerprint never stands over rows of
\* another revision, over a part of them or over duplicates.  So it is for one sync at a
\* time; two that overlap may commit in one order and remember in the other.
MarkedIsWhole == fp # None => table \in {Full(fp), Empty}

\* However many syncs of an APT source overlap, its rows are those of one index, never those of
\* two, a part of one or duplicates: the DELETE and the INSERT are one transaction, and the
\* unique constraint refuses the one of two transactions that saw the same rows.
TableIsWhole == Format = "apt" => table = Empty \/ \E r \in Revisions : table = Full(r)

\* "Jamais un skip sur une base partiellement ecrite": a source is skipped only when
\* the table holds the very revision that upstream announces.
SkipsWhole == \A j \in Jobs : Skip(j) => table = Full(expect[j])

SkipOnlyWhole == [][SkipsWhole]_vars

\* After the last mishap, each cycle brings the table to what upstream publishes, unless
\* that is forged: no interruption leaves a source that is skipped for good.
CatchesUp == []<>(table = Full(upstream) \/ upstream \notin Signed)

\* "Chain of trust complete": when every repomd.xml comes with its signature, no source is
\* marked with an index that its distribution did not sign, and (APT, APK) no row comes
\* from one, even if upstream changes between the metadata and the index they announce.
OnlySigned ==
    /\ fp # None => fp \in Signed
    /\ Format # "rpm" => \A p \in Packages : table[p] > 0 => \E r \in Signed : p \in Before(r, Len(Batches[r]) + 1)

\* With one sync at a time and a clear() that works, the three versions follow the
\* protocol of index_state.py.
Protocol == INSTANCE MarkedCatalog WITH mark <- fp, content <- table

FollowsProtocol == Protocol!Spec
================================================================================
