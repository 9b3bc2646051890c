# repod in TLA+

repod keeps a private repository of Debian, RPM and Alpine packages. A FastAPI backend
(`src/backend`) receives packages, or imports them from upstream sources, validates them
(antivirus, CVE scan, signatures), publishes them with reprepro, createrepo_c or apk, and
lets people decide about the risky ones and promote them between distributions. PostgreSQL,
JSON files and the repositories on disk hold its state; handlers run in a pool of threads,
jobs in threads of their own, and very few of them share a lock.

This directory holds TLA+ modules of the parts where the order of steps matters, the TLC
configurations that check them on small instances, and proofs of their invariants for every
instance. Paths below are relative to `src/backend`.

- `tlc -config X.cfg M` checks a configuration, `tlapm M.tla` the proofs of a module.
- `PROJECT.json` lists the components, the runs, the mutants, the source lines of every
  definition, the disagreements found, the hazards and the theorems.

## 1. Inventory

| Component | State | Operations | What is hard | What makes it correct |
|---|---|---|---|---|
| Promotion workflow: `services/promotion.py`, `services/pending_promotions.py` | request files, index entries, distributions | `promote`, `approve_pending`, `reject_pending`, purge | check, copy and write are separate steps without a lock; reprepro between them; files written in place | one decision per request, approved only after an answer of reprepro, nothing copied against the policies |
| Source index: `services/package_index_{rpm,apt,apk}.py`, `services/index_state.py` | rows of a source, fingerprint | `sync_source`, `clear`, `remember`, `unchanged`, the signatures | batches committed one by one, crashes between them, upstream changing, overlapping syncs | no fingerprint over a partial table, no source skipped for good, nothing unsigned |
| Synchronisation jobs: `services/sync_manager.py` | jobs, counters, stop flags | `start_job`, `cancel`, the threads | three levels of threads, permits, cancellation at any moment | one job per group, nothing left behind, honest summary |
| Job logs: `iter_stream` of `sync_manager.py` and `mirror_manager.py`, `frontend/src/pages/SourcesPage.js` | log, status, generators, threads of the server | `emit`, `iter_stream`, `cancel`, the reconnecting panel | a generator suspended with a lock, reconnections, a bounded pool of threads | all the lines, each once, and nobody blocked |
| Package admission: `routers/upload.py`, `services/importer_apt.py`, `routers/decision_router.py`, `routers/artifacts.py`, `services/cve_rematch.py` | flat pool, manifest row, decision row, published repository | upload, import, decide, quarantine, delete, rescan | no common lock, four stores written one after the other | nothing published unseen, what is in quarantine is out |
| Validation: `services/validator*.py` | none | the pipelines of the three formats | six steps with early returns, then a last one that puts `passed` back | nothing refused gets through |
| Imports: `services/importer*.py`, `services/import_lock.py`, `routers/import_router.py`, the dependencies of an upload | index, pool, repositories, index.json | fetch, batch, upload, `import_one` | a refresh between the lookup and the download, one lock per package and process, replicas | what is kept was cleared, what is published is new, every import ends |
| Mirror jobs: `services/mirror_manager.py`, `services/mirror.py` | jobs | start, cancel, resolution by levels, imports, schedule | disk full, depth bound, cancellation, two replicas | one job at a time, every job ends |
| Leader election: `services/leader_election.py`, `main.py` | advisory lock, leader flag | acquire, release | lost connections, errors at start, a stop with a job at work | one replica runs the jobs |
| Catalogue: `services/manifest.py`, `services/indexer.py`, `services/snapshots.py`, `services/retention.py` | index file, manifest rows, files, cache of 30 s | save, delete, rewrite, add, rebuild, collect, purge | three collectors, a stale cache, latest by string order | what was added stays listed, a file has its row, the collector keeps what it promises |
| Vulnerabilities: `services/cve_enrichment.py`, `services/grype_db.py`, `services/security_sync.py`, `services/cve_rematch.py`, `routers/scan_router.py` | database of Grype, caches, manifest | refresh, rescan, match, enrich | manifests read, then written back minutes later; caches that go stale | nothing severe slips in, scores come back |
| Decisions: `routers/decision_router.py`, `services/security_decisions.py`, `services/sla_alerts.py`, `services/cve_assignment.py` | decision record | take, change, delete, assign, resolve, announce | whole days, one check a day, two people at once | no decision expires unannounced |
| Authentication: `auth/` | accounts, tokens, revocations, reset links | sign in, refresh, log out, reset, administration | concurrent attempts, expiry, a file rewritten whole, restarts | what was logged out stays out, a link serves once |
| Audit, notifications, events: `services/audit*.py`, `services/notifications.py`, `services/webhook.py`, `services/sse_bus.py` | rows, queues | append, send | best effort | |
| Settings, groups, licence, setup, limits; roles; dashboards, search, metrics; the web interface | rows | forms, queries | | |

How they interact. The sources page starts synchronisation jobs, whose workers call
`sync_source` (SyncJobs calls what SourceIndex models) and whose log it streams (JobStream).
The import page, the uploads and the mirror jobs look names up in the source index, take the lock
of a package and run the pipeline (Imports, over Validation); Admission follows one file after
that, through the decisions, the quarantine and the rescans. Decisions take what the jobs of
Vulnerabilities write, and write it too. Promotion reads the index and the manifest of a version and
copies it between distributions. The collectors, the rescan and the promotions all read manifests
at one moment and act at another (Catalogue). The scheduler of the leader starts the nightly
synchronisation, the mirror, the rescans, the expiry check and the collectors.

The hazards this code is exposed to are listed in `PROJECT.json`, at their lines, with the
properties that would catch them going wrong.

## 2. Plan

The order of importance was: Promotion, SourceIndex, SyncJobs, JobStream, Admission (decisions
about one file), then Sessions, Catalogue, Validation with Imports, Vulnerabilities with Decisions.
All of these are written. Three modules state what a component promises apart from how it does it:
RequestLifecycle (implemented by Promotion), MarkedCatalog (implemented by SourceIndex), and the
`Findings` of Validation (what an accepted file is measured against).

What a continuation would take, in this order: the composition of SyncJobs and SourceIndex
(overlapping groups are how two syncs of one source overlap in practice); the creation and the deletion of
distributions.

## 3. Modules, runs and what they show

| Module | Component | Uses | Runs | Proofs |
|---|---|---|---|---|
| Promotion, PromotionPolicy, RequestLifecycle | promotion workflow | MCPromotion | Promotion, ApprovedNotPromoted | PromotionProofs |
| SourceIndex, SourceTrust, MarkedCatalog | source index | MCSourceIndex | IndexRpm, IndexAptOverlap | SourceIndexProofs |
| SyncJobs | synchronisation jobs | MCSyncJobs | SyncJobs | SyncJobsProofs |
| JobStream | job logs | | JobStream | SyncJobsProofs |
| Admission | one file from upload to publication | MCAdmission | Admission | AdmissionProofs |
| Sessions | authentication | MCSessions | Sessions | SessionsProofs |
| Catalogue | manifests, index.json, collectors | MCCatalogue | Catalogue | CatalogueProofs |
| Validation, Imports | pipelines, imports, mirrors, leadership | MCImports | Imports, RpmRootMissing | ImportsProofs |
| Vulnerabilities, Decisions | CVE data, rescans, decisions | MCDecisions | Decisions | DecisionsProofs |

Every passing run ends with the whole state space explored. Symmetry is used in Promotion, Admission,
Sessions and Catalogue only, which check no liveness. Besides the runs, some configurations hold further
properties or instances (`PromotionMore`, `ImportsMore`) or show what the code does not keep (section 5): `ApprovedDespiteEpss`,
`RejectedCopied`, `IndexCrossed`, `IndexDoubled`, `StreamStarved`, `UnseenPublished`, `QuarantineReopened`,
`FileUndescribed`, `RejectedRepublished`, `ReviewPublished`, `PublishedTwice`.

Where the code keeps a promise only until something goes wrong, the model lets it go wrong and a history
variable remembers it (`past`, `mishaps`, `by`, `disturbed`, `lapsed`): the property names what it excuses,
for the request, file or server that it happened to.

### 3.1 Promotion

`Promotion.tla` has one action per access to shared state of a handler: `promote()` reads the
index entry and evaluates the CVE policy, reads the EPSS scores, settles the outcome, runs
reprepro, updates the index, writes the record; `approve_pending()` reads the request, then
evaluates, copies, updates the index, writes the decision; `reject_pending()` reads, then writes.
Steps of different handlers interleave: FastAPI runs synchronous handlers in threads. The
request files are written in place (`write_text`), so a crash during a write leaves a file that
cannot be read. The other components (the index, the scans, the settings, the retention job)
act on the same state by actions of their own. `PromotionPolicy.tla` is the arithmetic of the two
policies; scores are in thousandths, and a score of 0 is an unknown one.
`RequestLifecycle.tla` is the abstract specification, the diagram at the head of
`pending_promotions.py`. Two history variables, `past` and `gate`, say what the decisions about a request
did (whether reprepro answered one of them, whether the package was in the target then, whether two
overlapped or a kill cut one between its copy and its record) and which verdicts a handler could read.

`promote_package()` takes a failure whose output contains "already" for a success. reprepro says so of a
package that the target has, and of a lock that another process holds: `CopyAlready` is either, whatever
the target holds, and `CopyFails` is any other failure.

The endpoints that copy a package from one distribution to another without any verdict
(POST `/distributions/promote` and `/migrate`) are an action too, `CopyUngated`.

- `Promotion`: two handlers, two requests, two policies, kills at any moment. `ApprovedRanReprepro`,
  `PromotionCleared` and `HistoryIsFrozen` hold; a request that ends rejected had no copy and the workflow
  implements `RequestLifecycle` (`RejectedNotCopied`, `FollowsLifecycle`), but for the requests whose
  decisions overlapped or were cut (`raced`): of those the lifecycle promises less.
- `ApprovedNotPromoted` (violated): one handler; reprepro fails on a held lock, and the request ends approved
  with nothing in the target.
- `PromotionMore` (not a run): with one handler and no kill a request is copied once, every handler
  returns, and the purge keeps what is pending; two versions, scores at both thresholds of EPSS.

Fairness (`PromotionMore`): weak, of the steps of each handler. A thread runs, and every step is a
bounded access to a file, to the database or to reprepro.

Bounds: two handlers are what a race of two decisions takes; two requests let one be decided
while the other is created; one version suffices for races, two for overtaking an older
version by a newer one. `Ids` bounds the number of requests ever made. The run has one EPSS score, at the
review threshold; a score that blocks is in `PromotionMore` and in the theorem.

### 3.2 Source index

`SourceIndex.tla` models the three `sync_source` functions; `Format` chooses which. RPM commits
each batch by itself, APT and APK replace the rows in one transaction, APT's table has a unique
constraint and APK's has none. The rows of a source are a function from packages to a number of
copies; a revision stands for its SHA-256. PostgreSQL at READ COMMITTED is modelled by what
a DELETE takes away (the rows committed when it starts, variable `snap`). Failures, crashes,
upstream changes, operators' purges and forced syncs may come at any step; `MaxMishaps` bounds
their number. `MarkedCatalog.tla` is the abstract protocol: unmark, rewrite, mark.

`SourceTrust.tla` says when an index is believed. An answer is what the network (three tries, the
retries of `http_retry.fetch_url`), gpg or openssl and the keyrings make of one metadata file;
the conditions on it are those of the three versions of the code: APT wants one good signature and
no bad one, RPM goes on without `repomd.xml.asc` when it cannot be had, APK verifies the key that the
archive names. An expired key is good enough for RPM. A signature that verifies was made over those very bytes: no answer about a
revision outside `Signed` has one. What the parsers keep of an entry is a
rule per format (`AptKeeps`, `RpmKeeps`, `ApkKeeps`): an entry without a name is left out, and so is one without
a version, but of an APT index: there it is kept, the INSERT meets a column that is NOT NULL, and the whole
transaction is rolled back as an error of the source (`Unversioned`, `WriteFails`). Upstream may change between the
metadata and the index they announce.

- `IndexRpm`: one job, three revisions (one of them empty, one in three batches), four mishaps.
  `SkipOnlyWhole`, `CatchesUp` hold, and the protocol is implemented (`FollowsProtocol`). Four
  mishaps allow a crash in a batch, a change upstream, a purge and another failure in a row.
- `IndexAptOverlap`: two syncs overlap over the unique constraint; of the four revisions two are signed, one is
  forged and one is signed and cannot be inserted. The rows are those of one revision, or there is none
  (`TableIsWhole`), and no row and no fingerprint comes from the forged one (`OnlySigned`). The latter is
  checked here and not in `IndexRpm`, where the signature may be lost (`AscMayBeLost`) and the code believes
  the index all the same.
- `IndexCrossed` (not a run; `MarkedIsWhole` is violated): two syncs of two revisions commit in one order and
  remember in the other, so that the fingerprint of one revision is over the rows of the other, and the next
  sync skips the source.

Fairness: weak, of the next sync of every job and of each of its steps. The nightly cycle of the
scheduler justifies it: an interrupted source is tried again. Mishaps have none. `CatchesUp` asks
that upstream be signed.

### 3.3 Synchronisation jobs

`SyncJobs.tla`: `start_job` under the lock of the manager (check of the active job, cleanup of
finished ones, registration) is one action; then the thread of the job spawns the workers of one
format after the other, joins them, and settles. A worker waits for a permit of its format, reads
the stop flag after it has the permit, synchronises, counts. The choice between "done" and
"cancelled" and the change of status are two steps, as in `_run_job`: a
cancellation in between is too late. The format threads have no state and are folded into the
spawning and the joining.

- `SyncJobs`: two jobs, three sources (two share a permit), two overlapping groups, sources
  enabled or not, cancellation at any moment. `NothingLeftBehind`, `DoneMeansAll` and `JobsEnd`
  hold. A source that a request names is synchronised even when it is disabled (`Named`).

Fairness: weak, of each thread: the operating system runs them, and a sync ends because every
call it makes has a timeout.

### 3.4 Job logs

`JobStream.tla`: the generator `iter_stream` yields inside `with self._lock`. The server calls it
in a thread per line, so between two lines it holds the lock and no thread; while it waits on
the condition it holds a thread and no lock. Clients leave and reconnect with the count of lines
they have read (`since`). `Threads` is the size of the pool. The texts of the lines are left out.

- `JobStream`: two connections, one cancellation, four lines, a thread for each party.
  `StreamComplete`, `JobEnds`, `ReadersEnd` hold.
- `StreamStarved` (not a run; `ReadersEnd` is violated): two clients and one thread. One generator holds the lock and needs a
  thread to go on; the other holds the thread and needs the lock. With AnyIO's 40 threads it takes
  41 connections; a silent job makes that easier, since a reader keeps its thread until the next
  line even when its client has left, and the panel reconnects every 2.5 s.

Fairness: strong for those who wait for the lock (the job, the cancellation and the responses),
since a Python lock is taken and released again and again and the waiters are served by the
operating system; clients read or leave. The last point is an assumption: a client that stops
reading without closing blocks the job for ever. Deadlock is not checked because a job that is
over, with its clients served, stops.

### 3.5 Package admission

`Admission.tla` follows one file name through the flat pool, the manifest row and what the
repository publishes. The content of the file may differ from one upload to the next, so that "the
manifest describes what is in the pool" means something. Each handler is its sequence of
accesses: an upload checks the pool, validates, moves the file, generates the manifest from the
file in the pool, saves, publishes; a decision reads the manifest, records, writes the manifest
it read with the new status, then publishes or removes; a quarantine removes from the
repository, moves the file, reads the manifest again and marks it; a deletion removes the three
one by one; a rescan writes back a manifest it read earlier. The removal from the repository may
fail and nobody looks; a handler may be killed before any of its steps.

The code takes no lock here, and some overlaps and kills leave a file in a state that no other step
repairs. `mishaps` names those that happened since the file was last nowhere, when they happen:
"crossed", a file moved in under a handler that took the pool to hold another content, or a manifest
read that does not describe the pool; "reopened", a file that came in, or was published, behind a quarantine
that had already looked; "unsaved" and "halfway", a kill between the move and the saving of the manifest, or
between two effects of a rejection or a deletion; "stuck", a removal that failed. Each property excuses the
ones after which it fails, and no other.

- `Admission`: two handlers, three contents, one for each verdict, any operation beside any other, kills.
  `PublishedWasCleared` holds until something crossed; `QuarantinedIsOut` holds whatever crossed, until
  one of the four others; `ManifestDescribesPool` holds until something crossed or was left unsaved.
  Behaviours are followed as far as one kind of mishap (`OneMishap`), since each
  property then says what that kind alone leaves; the theorems follow them without a bound. `Effective` leaves
  out the decisions that only `RejectedStaysOut` speaks of.

What the code does not keep, each with a configuration that is not a run:

- `UnseenPublished`: two uploads of one file name both pass the duplicate check, and the second moves its
  file over the first before that one is published: unseen content is published
  (`routers/upload.py:415`, although a comment at 351 speaks of concurrent uploads).
- `QuarantineReopened`: a quarantine withdraws the package before it takes the file out of the pool (its
  docstring gives the other order): an acceptance in between publishes it again.
- `FileUndescribed`: a process killed between the move to the pool and the saving of the manifest leaves a
  file without a manifest. The next uploads of its name are refused as duplicates, and a decision
  on an older manifest would publish it.
- `RejectedRepublished` (`RejectedStaysOut`): one handler. A rejected package can be uploaded again: the
  duplicate check only looks at the pool, so its "définitive" rejection is overwritten.

### 3.6 Authentication

`Sessions.tla`: sign-in (password, lockout after `MaxAttempts`, second factor), refresh, logout,
reset links, activation and deletion of accounts, the daily purge of revoked tokens, a restart of
the process. A handler is its accesses to the database and to `reset_tokens.json`, in order. The
file is read and written whole under a lock of the process; a process killed while it writes may
leave it cut, and then it reads as empty. A session cannot be taken back,
only listed until it expires by itself, and the clock moves at any moment.

- `Sessions`: one account, two sessions, two links, two handlers, a clock of two ticks. A session that
  was logged out is never accepted again although the table forgets it (`LoggedOutStaysOut`); whatever
  handlers race over the file, a link changes at most one password (`LinksAreOnce`). Two sessions let
  one be refreshed into another while it is revoked; the durations differ, so that each can
  expire while the others do not.

Passwords and codes are right or wrong. Roles, permissions and the enrolment of a second factor
are left out: one row and one transaction each.

### 3.7 Catalogue

`Catalogue.tla`: a manifest is a JSON file and a row, saved one after the other (the row may be
refused), erased in the other order (`save_manifest`,
`delete_manifest_from_db`); the listing of the files is cached for 30 s; index.json is
read and written under a lock, except that its rebuilding takes what it writes from the cached
listing. Three parties delete versions: requests, the purge by age and the collector by count, which
reads the index once and then deletes version by version. A handler may be killed anywhere
(`disturbed` says so, and that a row was refused).

- `Catalogue`: two handlers over three artefacts (two versions, one in two architectures), three
  days, four requests. `AddedStaysListed`, `FileHasRow`, `CollectorKeepsItsWord` hold. Two
  versions and a limit of one make the collector delete; the second architecture is what
  makes a version lose a file and keep another.

### 3.8 Validation and imports

`Validation.tla` is pure: a report is what the tools say of a file, a configuration the settings,
and `RunPipeline` the six steps of each format with their early returns. `Findings` says, without
the order of the steps, what the settings and the tools hold against a file; it is what an
accepted file is measured against.

`Imports.tla`: a task is a fetch, an upload with its missing dependencies, or a mirror job, in a
thread of one of several replicas. `import_one` is its steps: the lock of the package, the check
that it is there, the download (of the row of that moment), the pipeline (any outcome of
`RunPipeline`), the pool, the records, the publication. The index is a generation per format that
any sync may advance; a replica elects itself, loses its connection, stops or crashes.

- `Imports`: nine plans of one or two tasks in any of two replicas, of which one is unsteady, over two
  generations of the index. `KeptWasCleared`, `CheckedIsNew`, `OneMirror`, `ImportsEnd` hold. An upload takes
  no import lock, and its version may be one that the index lists: a file in the pool remembers who was at
  work on it when it was copied (`Workers`: an import counts for its process, an upload for itself), and a
  publication whether an import held the lock of the package (`Entry`). `KeptWasCleared` excuses the files
  that two worked on, `CheckedIsNew` the publications made under the nose of an import.
- `ReviewPublished`, `PublishedTwice` (not runs): without those exceptions. An upload and an import of one
  version publish what the other left for a review, or publish it twice.
- `ImportsMore` (not a run): the same properties while an upload and a fetch bring in the same dependency.
- `RpmRootMissing` (violated): the import of an .rpm imports its dependencies and not the package
  asked for, and says that all went well.

Bounds: the plans are the pairs that share a package, a lock or the leadership; d2 appears in the
second index only, so that a lookup fails, refreshes and succeeds; r1 and r2 leave one and join the
other. Dependencies are two levels deep for `MaxDepth` 3, and `Limit` 1 makes the limit of a
mirror bite. What users upload is version 1 (`Uploads`), which the index lists of the packages d1 and k4 and
not of k3: an upload and a fetch of k4 are of one file.

Fairness: weak, of each task. Every step is a bounded access or has a timeout, and the locks are
given back when an import ends. Deadlock is not checked: when every task is over the model stops.

### 3.9 Vulnerabilities and decisions

`Vulnerabilities.tla`: one package; the database of Grype as a generation, the caches of KEV and
EPSS as what they hold and whether they are fresh, and the jobs (admission, rescan on request, daily
matching, daily enrichment, daily synchronisation) as their reads and their one write of the whole
manifest. `Decisions.tla` adds the people: a decision is recorded, then applied to the manifest that
was read before; it is changed, deleted, assigned, resolved; the daily check announces it. Time
is in half-days, since the code rounds down to whole days and the check may run a little later
than the hour of the decision (`late`).

- `Decisions`: two jobs, nine mixes of operations that meet, three generations of the database.
  `NothingSlipsIn` (a CVE found by the daily matching that the policy blocks or sends to review
  never stays under a "validated" manifest; those a rescan on request wrote are excepted, section 5),
  `AnnouncedBeforeExpiry` and `ScoresCatchUp` hold.

Bounds: a mix (`Mixes`) names the operations, the people and the choices that meet, since all of
them at once is out of TLC's reach. Some pairs that write the manifest or the record share no mix (a rescan and a
decision, an assignment and a change): the theorems of section 4 cover any operations together. An admission
may be the first, or one over an existing record. The notice is one day in the instance and seven
in the code; what matters is that a decision may be shorter or longer than it. A decision of one day taken
in the hour of the check is excepted.

Fairness (of the jobs, not of the people): the synchronisation starts again (strong: it is asked for
every day), jobs proceed (weak), and scores that are asked for again and again are answered at last
(strong: FIRST.org is reachable now and then).

## 4. Proofs

TLAPS checks the following for every value of the constants, under the assumptions named in the
modules. Each module proves `Init => Inv`, `Inv /\ [Next]_vars => Inv'` and the properties from
`Inv`; the conjuncts of `Inv` beyond the properties are the facts about local variables that make
them inductive.

- `PromotionProofs`: types, `ApprovedRanReprepro`, `PromotionCleared`, `HistoryIsFrozen`, `RejectedNotCopied`
  and the implementation of `RequestLifecycle` (`FollowsLifecycle`), for any number of handlers, versions,
  requests and policies, with kills. The invariant ties each step of a handler to its local variables
  (`Flow`), says that readable files are complete and that a request awaiting a decision is not a history
  record (`Files`), that a decision under way is about such a request (`Held`), that a handler past
  its copy has been counted (`Counted`), and that the verdict a handler carries is at least as strict as those
  it read (`Merged`). Of the requests whose decisions neither overlapped nor were cut, it says that
  the request of a decision under way still awaits it (`StillPending`), and that what was copied for a
  request that awaits its decision belongs to a handler about to write it (`CopyIsOwned`).
- `SourceIndexProofs`: types, for any number of overlapping syncs: the rows that a transaction will have
  deleted are never more than there are (`Deleted`), so no row is counted below zero. `TableIsWhole`, for any
  number of overlapping APT syncs, assuming that any two revisions that are not empty have a package in common
  (`Related`): what an open transaction has deleted is the whole table or none of it, so whoever commits
  second either replaces every row or meets one of the first, and is rolled back. `MarkedIsWhole`, `SkipOnlyWhole` and the implementation of `MarkedCatalog`, for
  any revisions, batches, format and failures, assuming one sync at a time and a `clear()` that
  works (`Alone`). The invariant says that while the rows are rewritten there is no fingerprint
  and the table holds exactly the batches before the next one. `OnlySigned` needs neither: it is
  proved for any number of overlapping syncs, assuming that no signature file of RPM is lost
  (`AscMayBeLost`), from the fact that what a sync carries was signed.
- `SyncJobsProofs`: types, `OneJobPerGroup`, `NothingLeftBehind`, `DoneMeansAll`, `CountsAddUp`, for any
  jobs, groups, finite set of sources, formats and permits. The invariant says which formats
  have their workers (`Started`), that a worker is cut only under the stop flag, and counts
  workers by cardinality (`Counted`).
  The same module holds the proofs of `JobStream`: types, `StreamComplete`, `NextExpected`, for any
  connections, threads and lines (its definitions have names of their own, `LogSpec`, `LogTypeOK`,
  `jobStatus`, so that both can be extended). The status changes after the summary is in the log, the generator reads the status only when
  it has yielded all it sees, and its index and the count of its client differ only between the
  reading of a line and the next call.
- `AdmissionProofs`: types, `PublishedWasCleared`, `QuarantinedIsOut`, `ManifestDescribesPool`, for any
  handlers, contents and verdicts, any operations at once and kills before any step, without an
  assumption. The last two speak of quiet states and say nothing of those in between; the invariant does. Until
  something crosses, a handler that has moved or read a content finds it in the pool, or finds the pool empty,
  at each of its steps (`Seen`, from `Holds`): that is why a decision and a rescan write back a manifest
  that describes the pool. A file without its manifest belongs to a handler that has yet to save it
  (`Described`); while a package in quarantine is in the pool, or published, a handler has yet to take
  it out (`Hidden`). That a rejection discards before it removes is what makes the last part inductive.
- `SessionsProofs`: types, `LoggedOutStaysOut`, `LinksAreOnce`, for any accounts, sessions, links, requests
  and durations. A token that was logged out is in the table or has expired (`Listed`), which the
  purge keeps because it only takes the expired; one handler at a time works on the file
  (`Exclusive`), so a link that is about to change a password is no longer in it (`Sole`).
- `CatalogueProofs`: types, `AddedStaysListed`, `FileHasRow`, for any artefacts, handlers and delays. A
  handler that has the lock read the index as it is (`Holds`); the cached listing misses no version
  of the index that is whole on disk (`Cached`), which is why a rebuilding from it loses nothing;
  and a file without a row belongs to somebody who is saving or erasing it (`Backed`).
  `CollectorKeepsItsWord`, for any versions, days and limits: the candidates are counted in the order of
  imports, so the proof first shows that a finite ordered set has an extreme element and how many
  elements come before one; then that what the collector is still to delete leaves the latest
  version, as many as the limit, and when more, a young one (`Word`), at each of its steps
  while nobody else touches the index (`CollectInv`).
- `ImportsProofs`: types, `PassedIsCleared` (the three pipelines, for every report and every configuration: what
  passes has nothing against it but a review), `KeptIsCleared` (so nothing else enters the pool,
  however imports, uploads and mirrors interleave: the first half of `KeptWasCleared`),
  `OneMirror`, `CheckedIsNew` and the whole of `KeptWasCleared`. The invariant says that what a task holds was cleared (`HoldsCleared`), that a
  replica that says leader has the lock until something lapses (`LeadersHold`), that the mirror jobs
  at work are on such a replica (`MirrorsLed`), and that a replica has at most one (`OneEach`). All the steps of an import
  that are neither a beginning nor an end keep it for one reason, which is a definition of its own
  (`Harmless`). `CheckedIsNew` and `KeptWasCleared` rest on what the lock of a package keeps out: one
  task of a process has it (`LocksHold`), what a process published is there for the next check to see
  (`SentIsSeen`), and what a check found new stays so as long as the lock is held (`CheckHolds`).
  For `KeptWasCleared`, the copy that a task made is in the pool or was replaced by one that says so, with a
  second who worked on it (`InPool`): two that no lock keeps apart are two replicas, or one of them is an upload
  (`CopiesAlone`). Nothing is assumed of the versions that users upload.
- `DecisionsProofs`: types, `NothingSlipsIn`, `AnnouncedBeforeExpiry`, for any jobs at work at once on the
  package, CVEs, policy, generations of the database, people and terms. Which manifests are clean
  (`Clean`) is said of the stored one and of those that jobs hold, a rescan excepted once it has scanned
  (`HeldClean`), with respect to what rescans put there, which only grows: that is why writing back an
  old manifest brings nothing in. The matching keeps it because the policy was asked about what was in
  the manifest read and is asked about the rest. A decision and a quarantine write a status that is not
  "validated". For the announcement, the last half-day with a check that leaves two or three before
  the expiry is named (`Eve`): from the end of that check on the date was announced (`ToldInTime`),
  because a check at work then read the decision as it is, new ones being due later (`ReadToday`). A
  notice of one day is enough. That no identifier is given beyond `MaxIds` counts those who are about
  to record a decision (`Counted`).

The sets of jobs, CVEs, choices, replicas, sources and versions are assumed finite where something is
counted or a greatest element is taken; the assumptions are named in the modules and TLC evaluates
them.

Only model-checked: the liveness properties (`CatchesUp`, `JobsEnd`, `JobEnds`, `ReadersEnd`,
`ImportsEnd`, `ScoresCatchUp`, `HandlersReturn`), which are out of the prover's reach; `OneCopyPerRequest`
and `PendingIsKept`, which the configuration `PromotionMore` shows.
Every other property of a passing run is a theorem: `SkipOnlyWhole` and `FollowsProtocol`
under `Alone`, `TableIsWhole` under `Related`, `OnlySigned` when no signature is lost, the others for any
constants that the modules admit.

## 5. Disagreements with the documentation

Two are runs: `RpmRootMissing` (section 3.8) and `ApprovedNotPromoted`. `promote_package()` takes a failure that
says "already" for a success, and reprepro says of a held lock that its file "already exists": such a
request ends approved though nothing was copied, while `pending_promotions.py:12` says "reprepro exécuté, paquet
promu". The others have a configuration that shows them with TLC:

- `RejectedCopied` (`RejectedNeverCopied`, two handlers): a request that ends rejected may have had its package
  copied. The status is read at the start and written at the end of a decision, and `update_pending` does
  not look at it again.
- `ApprovedDespiteEpss`: an approval evaluates the CVE policy again and the EPSS policy never,
  although a blocked verdict "ne peut jamais être contourné".
- `RejectedRepublished`: a rejected package can be uploaded again: the duplicate check only looks at
  the pool, so its "définitive" rejection is overwritten.
- `StreamStarved`: two clients and one thread. One generator holds the lock and needs a thread to
  go on; the other holds the thread and needs the lock. With AnyIO's 40 threads it takes 41
  connections; a silent job makes that easier, since a reader keeps its thread until the next line
  even when its client has left, and the panel reconnects every 2.5 s.
- `UnseenPublished`, `QuarantineReopened`, `FileUndescribed` (section 3.5), `ReviewPublished` and
  `PublishedTwice` (section 3.8): what overlaps and kills leave of one file.
- `IndexCrossed`: two syncs that overlap leave the fingerprint of one revision over the rows of another.
- `IndexDoubled`: two APK syncs insert every row twice under a remembered fingerprint.

These were met while reading the code and follow from the modules, or lie outside them:

- Promotion. POST `/distributions/promote` and `/migrate` (`routers/distributions_router.py`) make the
  same copy with no verdict, no record and no update of the index. `force`, "réservé aux admins", is
  open to whoever may promote (`routers/artifacts.py`). Two approvals of one request both copy (harmless with
  reprepro, which then says that the package is already there).
- Imports. The docstring of `import_lock.py` says that the second import "voit déjà présent": an .rpm
  is never seen so, nor an APT package in review, nor one whose version changed with a refresh. `gpg_required` is not asked of an .apk. `get_package_info_for_distro` goes on to the
  RPM and APK tables in mode "all". The import endpoints and POST `/import/sync` may run on any replica.
- Mirror. A scheduled mirror waits for, and at the end of its time cancels, whatever job is
  at work. A job that stops because the disk is full says "done" (`mirror_manager.py:264`).
- Leadership. `release()` gives the lock back while the thread of a mirror job goes on; an election
  without the database makes every replica a leader.
- Source index. The rows of a `primary.xml` that does not match stay in the table; a lost
  `repomd.xml.asc` is no obstacle; `_verify_packages_via_inrelease` has no caller left.
- Catalogue. "Latest" is the last in the order of strings; the purge by age leaves the row and the index
  entry; `delete_artifact_version` removes the whole name from the physical repository; a rewriting in
  the background may bring a deleted manifest back; a collector may remove a version imported again in
  between; two architectures share one index entry; a migration rewrites the JSON file only.
- Decisions. `sla_alerts.py` calls `load_manifest` with a path as its only argument, the error is
  caught, and an expired decision never returns to "pending_review", as `security_decisions.py:14`
  says it does. PUT and DELETE change the record and nothing else. An absent or zero
  `expires_in_days` makes any decision permanent. The owner of a decision is checked on a copy that may
  be stale. Two overlapping decisions can leave the status of one with the record of the other.
  `upgrade_required` on a published package leaves it published, although `security_decisions.py` says
  "reste hors dépôt". With REPO_FORMAT=all, accepting an RPM or APK package runs the script for Debian
  packages.
- Vulnerability data. With a stale EPSS cache and no network, scores become 0; one request with
  a stale cache rewrites `epss_cache.json` with the CVEs it asked for; a rescan on request rewrites
  `cve_results` without the policy, so what it found is not new for the daily matching; a CVE whose
  severity rises is not new either; rescans and enrichments write back the status they read.

## 6. Limits of the models

- `reprepro copy` takes a package by name: what is copied is what the source distribution
  holds at that moment, not the version whose scan was evaluated. The model does so, and no
  property says otherwise.
- `promote()` reads a manifest for the EPSS gate as amd64 whatever the architecture of the
  package; a version has one manifest in Promotion.
- `clear()` of `index_state.py` swallows database errors; with such an error (`ClearMayFail`) a crash
  leaves a partial table under a fingerprint. Overlapping RPM syncs of two revisions do the same.
  The rows of `sync_status` are left out.
- A line emitted after DONE (a cancellation that comes late, the audit failure of a mirror job)
  is read by nobody: `StreamComplete` promises the log up to the summary.
- `start_job` leaves a job in "error" with workers running when a thread cannot be started; threads
  always start in the model. `done_count += 1` is one step.
- A removal from the repository that fails is not noticed by a rejection, a quarantine or a
  deletion. `QuarantinedIsOut` excuses it ("stuck").
- Imports follows one distribution per format, and a version is the generation that lists it.
- Catalogue follows one package, Vulnerabilities and Decisions one version of one package.

Not modelled, and why: reprepro, createrepo_c, apk, the scanners, mail and webhooks are external tools
or pure output, and enter as what they may answer; dashboards, search, metrics, roles and the settings
forms have no protocol (one row, one transaction); the decisions about client machines touch no
package; the analysis of a Dockerfile, the groups of imports and the preview of dependencies only read. The
creation and the deletion of distributions, the one-time migration of the manifests and the
update of ClamAV are left to a continuation.
