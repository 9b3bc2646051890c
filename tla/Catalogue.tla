-------------------------------- MODULE Catalogue --------------------------------
(***************************************************************************)
(* What the server remembers of its packages, and what it forgets: the     *)
(* flat pool, the manifests (a JSON file and a row each, and the cached    *)
(* listing of the files; services/manifest.py), the index of the versions  *)
(* (services/indexer.py), and who changes them: uploads and imports,       *)
(* deletions, rewritings, the rebuilding of the index, the nightly purge   *)
(* by age (services/retention.py) and the collector of versions by count   *)
(* (services/snapshots.py).                                                *)
(*                                                                         *)
(* One package: its versions are ranked as index.json ranks them, in the   *)
(* order of strings.  Every access to a file, to the table or to the index *)
(* is a step, except that an artefact leaves the pool and the manifest     *)
(* directory together.  What the physical repository publishes is in       *)
(* module Admission.                                                       *)
(***************************************************************************)
EXTENDS Integers, FiniteSets

CONSTANTS
    Items,        \* [ver, arch]: the artefacts, one file and one manifest each
    Handlers,     \* requests and jobs at work at once
    CleanupDays,  \* retention.import_cleanup_days
    MaxVersions,  \* versioning.max_versions_per_package
    MinAge,       \* versioning.min_version_age_days
    MaxDay,       \* bound on the calendar
    MaxRequests,  \* bound on the requests and jobs begun
    Stale,        \* no cached listing
    None          \* no manifest, no entry, no artefact

Versions == {x.ver : x \in Items}
Archs    == {x.arch : x \in Items}
Days     == 0 .. MaxDay
Entry    == [arch : Archs, born : Days]

ASSUME CatalogueAssumption ==
    /\ Versions \subseteq Nat
    /\ Items \subseteq [ver : Versions, arch : Archs]
    /\ IsFiniteSet(Items)
    /\ CleanupDays \in Nat \ {0} /\ MaxVersions \in Nat \ {0} /\ MinAge \in Nat
    /\ MaxDay \in Nat /\ MaxRequests \in Nat
    /\ None \notin Days \cup Entry \cup Items
    /\ Stale \notin [Items -> Days \cup {None}]

VARIABLES
    day,       \* the calendar
    requests,  \* the requests and jobs begun so far
    pool,      \* the artefacts whose file is in the pool
    json,      \* artefact -> the day its manifest on disk says it was imported, or None
    rows,      \* artefact -> the same of its row, or None
    cache,     \* the cached listing of the manifests on disk, or Stale
    index,     \* version -> entry of index.json, or None
    listed,    \* the versions added to the index and in the listing, not removed nor without manifest since
    quiet,     \* the collectors since whose reading nobody else wrote the index, that day
    disturbed, \* whether a handler was killed or the database refused a row
    work       \* handler -> [op, pc, item, born, todo, read]

vars == <<day, requests, pool, json, rows, cache, index, listed, quiet, disturbed, work>>

NoEntries == [v \in Versions |-> None]
Idle == [op |-> "none", pc |-> "idle", item |-> None, born |-> 0, todo |-> {}, read |-> NoEntries]
Indexes ==
    {f \in [Versions -> Entry \cup {None}] :
       \A v \in Versions : f[v] # None => [ver |-> v, arch |-> f[v].arch] \in Items}
Ops   == {"none", "add", "rewrite", "delete", "sync", "collect"}
Steps == {"idle", "json", "write", "row", "add", "adding", "unlink", "rows", "files", "drop", "dropping",
          "syncing", "purge", "count", "collect", "report"}
Works == [op : Ops, pc : Steps, item : Items \cup {None}, born : Days, todo : SUBSET Items, read : Indexes]

TypeOK ==
    /\ day \in Days
    /\ requests \in 0 .. MaxRequests
    /\ pool \subseteq Items
    /\ json \in [Items -> Days \cup {None}]
    /\ rows \in [Items -> Days \cup {None}]
    /\ cache \in [Items -> Days \cup {None}] \cup {Stale}
    /\ index \in Indexes
    /\ listed \subseteq Versions
    /\ quiet \subseteq Handlers
    /\ disturbed \in BOOLEAN
    /\ work \in [Handlers -> Works]

Init ==
    /\ day = 0
    /\ requests = 0
    /\ pool = {}
    /\ json = [x \in Items |-> None]
    /\ rows = [x \in Items |-> None]
    /\ cache = Stale
    /\ index = NoEntries
    /\ listed = {}
    /\ quiet = {}
    /\ disturbed = FALSE
    /\ work = [h \in Handlers |-> Idle]

--------------------------------------------------------------------------------
At(h, pc) == work[h].pc = pc
Go(h, pc) == work' = [work EXCEPT ![h] = [@ EXCEPT !.pc = pc]]
Return(h) == work' = [work EXCEPT ![h] = Idle]

Begin(h, op, pc, x, born, todo) ==
    /\ At(h, "idle")
    /\ requests < MaxRequests
    /\ requests' = requests + 1
    /\ work' = [work EXCEPT ![h] =
         [Idle EXCEPT !.op = op, !.pc = pc, !.item = x, !.born = born, !.todo = todo]]

\* get_package_info() and get_index(): the entries of the index, under its lock.
Known(v)   == index[v] # None
Listings   == {v \in Versions : Known(v)}
ItemOf(v)  == [ver |-> v, arch |-> index[v].arch]
Latest     == CHOOSE v \in Listings : \A w \in Listings : w <= v

\* list_manifests(): the cached listing while it lives, else the files.
Listing == IF cache = Stale THEN json ELSE cache

\* load_manifest(): the row first, else the file.
Loaded(x) == IF rows[x] # None THEN rows[x] ELSE json[x]

--------------------------------------------------------------------------------
\* The versions with a manifest on disk that nobody is saving.
Saving(x)   == \E h \in Handlers : work[h].pc \in {"write", "row"} /\ work[h].item = x
Whole(disk) == {x.ver : x \in {y \in Items : disk[y] # None /\ ~Saving(y)}}

\* save_manifest(): the file, then the row, then the cache.

\* open(path, "w"): what the file held is gone, and a listing skips it.
OpenFile(h) ==
    /\ At(h, "json")
    /\ json' = [json EXCEPT ![work[h].item] = None]
    /\ Go(h, "write")
    /\ UNCHANGED <<day, requests, pool, rows, cache, index, listed, quiet, disturbed>>

WriteFile(h) ==
    /\ At(h, "write")
    /\ json' = [json EXCEPT ![work[h].item] = work[h].born]
    /\ Go(h, "row")
    /\ UNCHANGED <<day, requests, pool, rows, cache, index, listed, quiet, disturbed>>

\* Slip: the cached listing is kept.
SaveRowCached(h) ==
    /\ At(h, "row")
    /\ rows' = [rows EXCEPT ![work[h].item] = work[h].born]
    /\ IF work[h].op = "add" THEN Go(h, "add") ELSE Return(h)
    /\ UNCHANGED <<day, requests, pool, json, cache, index, listed, quiet, disturbed>>

\* The database may refuse the row: the error ends the handler, and the file stays.
SaveRow(h) ==
    /\ At(h, "row")
    /\ \/ /\ rows' = [rows EXCEPT ![work[h].item] = work[h].born]
          /\ cache' = Stale
          /\ IF work[h].op = "add" THEN Go(h, "add") ELSE Return(h)
          /\ UNCHANGED <<listed, disturbed>>
       \/ /\ disturbed' = TRUE
          /\ listed' = listed \ {work[h].item.ver}
          /\ Return(h)
          /\ UNCHANGED <<rows, cache>>
    /\ UNCHANGED <<day, requests, pool, json, index, quiet>>

\* An upload or an import: the file is new in the pool, its manifest is of today.
Add(h, x) ==
    /\ x \notin pool
    /\ pool' = pool \cup {x}
    /\ Begin(h, "add", "json", x, day, {})
    /\ UNCHANGED <<day, json, rows, cache, index, listed, quiet, disturbed>>

\* Who reads a manifest, works on it, and saves it whole: the daily enrichment from the rows
\* of the table (reenrich_manifest_cve), a rescan, and the marking of exploited CVEs from the
\* cached listing (update_kev_flag).
Reenrich(h, x) ==
    /\ rows[x] # None
    /\ Begin(h, "rewrite", "json", x, rows[x], {})
    /\ UNCHANGED <<day, pool, json, rows, cache, index, listed, quiet, disturbed>>

\* Slip: a manifest that is not there is rescanned.
RescanUnknown(h, x) ==
    /\ x \in pool
    /\ Begin(h, "rewrite", "json", x, Loaded(x), {})
    /\ UNCHANGED <<day, pool, json, rows, cache, index, listed, quiet, disturbed>>

RescanPackage(h, x) ==
    /\ Loaded(x) # None /\ x \in pool
    /\ Begin(h, "rewrite", "json", x, Loaded(x), {})
    /\ UNCHANGED <<day, pool, json, rows, cache, index, listed, quiet, disturbed>>

UpdateKevFlag(h, x) ==
    /\ Listing[x] # None
    /\ Begin(h, "rewrite", "json", x, Listing[x], {})
    /\ cache' = Listing
    /\ UNCHANGED <<day, pool, json, rows, index, listed, quiet, disturbed>>

--------------------------------------------------------------------------------
\* index.json: read and replaced as a whole, under the lock of indexer.py.

Locked == \E h \in Handlers : work[h].pc \in {"adding", "dropping", "syncing"}

ReadIndex(h, from, to) ==
    /\ At(h, from)
    /\ ~Locked
    /\ work' = [work EXCEPT ![h] = [@ EXCEPT !.pc = to, !.read = index]]
    /\ UNCHANGED <<day, requests, pool, json, rows, cache, index, listed, quiet, disturbed>>

\* add_to_index(): the entry of a version keeps the last architecture added.
AddToIndex(h) ==
    LET x == work[h].item IN
    /\ At(h, "adding")
    /\ index' = [work[h].read EXCEPT ![x.ver] = [arch |-> x.arch, born |-> work[h].born]]
    /\ listed' = listed \cup ({x.ver} \cap Whole(Listing))
    /\ quiet' = quiet \cap {h}
    /\ Return(h)
    /\ UNCHANGED <<day, requests, pool, json, rows, cache, disturbed>>

\* remove_from_index(): a version, or every version when the package is deleted.
Removed(h) == IF work[h].item = None THEN Versions ELSE {work[h].item.ver}

RemoveFromIndex(h) ==
    /\ At(h, "dropping")
    /\ index' = [v \in Versions |-> IF v \in Removed(h) THEN None ELSE work[h].read[v]]
    /\ listed' = listed \ Removed(h)
    /\ quiet' = quiet \cap {h}
    /\ IF work[h].op = "collect"
       THEN work' = [work EXCEPT ![h] = [@ EXCEPT !.pc = "collect", !.item = None, !.read = NoEntries]]
       ELSE Return(h)
    /\ UNCHANGED <<day, requests, pool, json, rows, cache, disturbed>>

\* sync_index_from_pool(): a version takes the last of its manifests.
Rebuilt(list) ==
    [v \in Versions |->
       LET of == {x \in Items : x.ver = v /\ list[x] # None}
       IN  IF of = {} THEN None
           ELSE LET x == CHOOSE x \in of : TRUE IN [arch |-> x.arch, born |-> list[x]]]

Sync(h) ==
    /\ At(h, "idle")
    /\ ~Locked
    /\ requests < MaxRequests
    /\ requests' = requests + 1
    /\ work' = [work EXCEPT ![h] = [Idle EXCEPT !.op = "sync", !.pc = "syncing", !.read = Rebuilt(Listing)]]
    /\ cache' = Listing
    /\ listed' = listed \cap Whole(json)
    /\ UNCHANGED <<day, pool, json, rows, index, quiet, disturbed>>

ReplaceIndex(h) ==
    /\ At(h, "syncing")
    /\ index' = work[h].read
    /\ quiet' = quiet \cap {h}
    /\ Return(h)
    /\ UNCHANGED <<day, requests, pool, json, rows, cache, listed, disturbed>>

--------------------------------------------------------------------------------
\* delete_artifact() and delete_artifact_version(): what to delete is read from the index.

DeletePackage(h) ==
    /\ ~Locked
    /\ Listings # {}
    /\ Begin(h, "delete", "unlink", None, 0, {ItemOf(v) : v \in Listings})
    /\ UNCHANGED <<day, pool, json, rows, cache, index, listed, quiet, disturbed>>

DeleteVersion(h, v) ==
    /\ ~Locked
    /\ Known(v)
    /\ Begin(h, "delete", "unlink", ItemOf(v), 0, {ItemOf(v)})
    /\ UNCHANGED <<day, pool, json, rows, cache, index, listed, quiet, disturbed>>

Unlink(h) ==
    /\ At(h, "unlink")
    /\ pool' = pool \ work[h].todo
    /\ Go(h, "rows")
    /\ UNCHANGED <<day, requests, json, rows, cache, index, listed, quiet, disturbed>>

\* delete_manifest_from_db(): the rows, then the files and the cache; of one artefact, or
\* of every one of the name.
Erased(h) == IF work[h].item = None THEN Items ELSE {work[h].item}

\* Slip: the files stay.
EraseRowsOnly(h) ==
    /\ At(h, "rows")
    /\ rows' = [x \in Items |-> IF x \in Erased(h) THEN None ELSE rows[x]]
    /\ Go(h, "drop")
    /\ UNCHANGED <<day, requests, pool, json, cache, index, listed, quiet, disturbed>>

EraseRows(h) ==
    /\ At(h, "rows")
    /\ rows' = [x \in Items |-> IF x \in Erased(h) THEN None ELSE rows[x]]
    /\ Go(h, "files")
    /\ UNCHANGED <<day, requests, pool, json, cache, index, listed, quiet, disturbed>>

EraseFiles(h) ==
    /\ At(h, "files")
    /\ json' = [x \in Items |-> IF x \in Erased(h) THEN None ELSE json[x]]
    /\ cache' = Stale
    /\ listed' = listed \cap Whole(json')
    /\ Go(h, "drop")
    /\ UNCHANGED <<day, requests, pool, rows, index, quiet, disturbed>>

--------------------------------------------------------------------------------
\* _purge_old_packages(), every night: of each architecture all but the last imported,
\* when older than the delay.  Neither the row nor the index is touched.

OlderThan(list, x) ==
    \E y \in Items :
      /\ y.arch = x.arch /\ list[y] # None
      /\ list[x] < list[y] \/ (list[x] = list[y] /\ x.ver < y.ver)

Expired(list) ==
    {x \in Items : list[x] # None /\ OlderThan(list, x) /\ list[x] + CleanupDays < day}

RunRetention(h) ==
    /\ Begin(h, "collect", "purge", None, 0, Expired(Listing))
    /\ cache' = Listing
    /\ UNCHANGED <<day, pool, json, rows, index, listed, quiet, disturbed>>

Purge(h) ==
    /\ At(h, "purge")
    /\ IF work[h].todo = {} THEN Go(h, "count") /\ UNCHANGED <<pool, json, listed>>
       ELSE \E x \in work[h].todo :
              /\ json' = [json EXCEPT ![x] = None]
              /\ listed' = listed \cap Whole(json')
              /\ pool' = pool \ {x}
              /\ work' = [work EXCEPT ![h] = [@ EXCEPT !.todo = work[h].todo \ {x}]]
    /\ UNCHANGED <<day, requests, rows, cache, index, quiet, disturbed>>

--------------------------------------------------------------------------------
\* run_version_gc() and enforce_version_limit(), after the purge or on request.

RunVersionGc(h) ==
    /\ Begin(h, "collect", "count", None, 0, {})
    /\ UNCHANGED <<day, pool, json, rows, cache, index, listed, quiet, disturbed>>

Excess == Cardinality(Listings) - MaxVersions

\* Slip: the latest version is not set aside.
CandidatesOldest ==
    {v \in Listings : Excess > 0 /\
       Cardinality({w \in Listings :
          index[w].born < index[v].born \/ (index[w].born = index[v].born /\ w < v)}) < Excess}

\* The oldest imports in excess, the latest version in the order of strings set aside.
Candidates ==
    {v \in Listings : v # Latest /\ Excess > 0 /\
       Cardinality({w \in Listings \ {Latest} :
          index[w].born < index[v].born \/ (index[w].born = index[v].born /\ w < v)}) < Excess}

OldEnough(v) == index[v].born + MinAge <= day

Count(h) ==
    /\ At(h, "count")
    /\ ~Locked
    /\ work' = [work EXCEPT ![h] =
         [@ EXCEPT !.pc = "collect", !.todo = {ItemOf(v) : v \in {w \in Candidates : OldEnough(w)}}]]
    /\ quiet' = quiet \cup {h}
    /\ UNCHANGED <<day, requests, pool, json, rows, cache, index, listed, disturbed>>

Collect(h) ==
    /\ At(h, "collect")
    /\ IF work[h].todo = {} THEN Go(h, "report") /\ UNCHANGED <<pool, json, listed>>
       ELSE \E x \in work[h].todo :
              /\ pool' = pool \ {x}
              /\ json' = [json EXCEPT ![x] = None]
              /\ listed' = listed \cap Whole(json')
              /\ work' = [work EXCEPT ![h] = [@ EXCEPT !.pc = "rows", !.item = x, !.todo = work[h].todo \ {x}]]
    /\ UNCHANGED <<day, requests, rows, cache, index, quiet, disturbed>>

Report(h) ==
    /\ At(h, "report")
    /\ quiet' = quiet \ {h}
    /\ Return(h)
    /\ UNCHANGED <<day, requests, pool, json, rows, cache, index, listed, disturbed>>

--------------------------------------------------------------------------------
\* A page lists the manifests, or MANIFEST_CACHE_TTL passes.
Browse ==
    /\ cache' \in {Listing, Stale}
    /\ UNCHANGED <<day, requests, pool, json, rows, index, listed, quiet, disturbed, work>>

\* The process is killed: a manifest cut in the middle of its writing stays so.
Crash ==
    /\ work' = [h \in Handlers |-> Idle]
    /\ cache' = Stale
    /\ listed' = listed \cap Whole(json)
    /\ quiet' = {}
    /\ disturbed' = TRUE
    /\ UNCHANGED <<day, requests, pool, json, rows, index>>

NextDay ==
    /\ day < MaxDay
    /\ day' = day + 1
    /\ quiet' = {}
    /\ UNCHANGED <<requests, pool, json, rows, cache, index, listed, disturbed, work>>

Request(h) ==
    \/ \E x \in Items : Add(h, x) \/ Reenrich(h, x) \/ RescanPackage(h, x) \/ UpdateKevFlag(h, x)
    \/ \E v \in Versions : DeleteVersion(h, v)
    \/ DeletePackage(h) \/ Sync(h) \/ RunRetention(h) \/ RunVersionGc(h)

Continue(h) ==
    \/ OpenFile(h) \/ WriteFile(h) \/ SaveRow(h)
    \/ ReadIndex(h, "add", "adding") \/ AddToIndex(h)
    \/ Unlink(h) \/ EraseRows(h) \/ EraseFiles(h)
    \/ ReadIndex(h, "drop", "dropping") \/ RemoveFromIndex(h)
    \/ ReplaceIndex(h)
    \/ Purge(h) \/ Count(h) \/ Collect(h) \/ Report(h)

Next ==
    \/ \E h \in Handlers : Request(h) \/ Continue(h)
    \/ Browse \/ Crash \/ NextDay

Spec == Init /\ [][Next]_vars

--------------------------------------------------------------------------------
\* Properties.

\* "Ecriture atomique" and "invalide le cache automatiquement": a version whose addition to the
\* index was written stays in it, whatever additions, deletions and collectors overlap and
\* whatever stale listing a rebuilding reads, until it is removed or its manifest leaves the disk.
AddedStaysListed == \A v \in listed : Known(v)

\* The file is a copy of the row: whatever savings and erasures of one manifest overlap, a file
\* without a row is only seen while it is being saved or erased, or after a failure.
FileHasRow ==
    disturbed \/ \A x \in Items : json[x] # None /\ rows[x] = None =>
                   \E h \in Handlers : work[h].pc \in {"row", "files"}

\* What the collector of versions promises, while nobody else writes the index: the latest version
\* stays, and as many as the limit; and when more than the limit stay, one of them is too young.
Doomed(h) == {x.ver : x \in work[h].todo} \cup (IF work[h].item = None THEN {} ELSE {work[h].item.ver})

CollectorKeepsItsWord ==
    \A h \in quiet :
      LET kept == Listings \ Doomed(h) IN
      /\ Listings # {} => Latest \in kept
      /\ Doomed(h) \cap Listings # {} => Cardinality(kept) >= MaxVersions
      /\ Cardinality(kept) > MaxVersions => \E v \in kept : ~OldEnough(v)
================================================================================
