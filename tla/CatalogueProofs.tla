---------------------------- MODULE CatalogueProofs ----------------------------
(***************************************************************************)
(* Proofs about Catalogue, for any artefacts, requests and delays: what    *)
(* was added to the index stays in it, a manifest on disk has its row, and *)
(* the collector of versions keeps what it promises to keep.               *)
(***************************************************************************)
EXTENDS Catalogue, FiniteSetTheorems, TLAPS

\* What the step of a handler relies on: the index was read under its lock.
Holding(h) ==
    /\ work[h].pc \in {"json", "write", "row", "add", "adding"} => work[h].item \in Items
    /\ work[h].pc \in {"adding", "dropping"} => work[h].read = index
    /\ At(h, "syncing") => \A v \in listed : work[h].read[v] # None

Holds == \A h \in Handlers : Holding(h)

\* One handler at a time has the lock of the index.
HasLock(h) == work[h].pc \in {"adding", "dropping", "syncing"}
Exclusive  == \A g, h \in Handlers : HasLock(g) /\ HasLock(h) => g = h

\* A cached listing misses no version of the index that is whole on disk.
Cached ==
    cache # Stale => \A v \in listed \cap Whole(json) : \E x \in Items : x.ver = v /\ cache[x] # None

\* A file without a row is being saved, or erased.
Backing(h, x) == \/ At(h, "row") /\ work[h].item = x
                 \/ At(h, "files") /\ x \in Erased(h)
Backed ==
    disturbed \/ \A x \in Items : json[x] # None /\ rows[x] = None => \E h \in Handlers : Backing(h, x)

\* The inductive invariant.
Inv == TypeOK /\ Holds /\ Exclusive /\ Cached /\ Backed /\ AddedStaysListed

LEMMA IdleType == Idle \in Works /\ NoEntries \in Indexes
  BY CatalogueAssumption DEF Idle, Works, NoEntries, Indexes, Ops, Steps, Days

LEMMA InitInv == Init => Inv
  <1> SUFFICES ASSUME Init PROVE Inv
    OBVIOUS
  <1> USE CatalogueAssumption DEF Init
  <1>1. TypeOK
    <2>1. 0 \in Days /\ 0 \in 0 .. MaxRequests
      BY DEF Days
    <2>2. work \in [Handlers -> Works] /\ index \in Indexes
      BY IdleType
    <2>3. json \in [Items -> Days \cup {None}] /\ rows \in [Items -> Days \cup {None}]
      OBVIOUS
    <2> QED
      BY <2>1, <2>2, <2>3 DEF TypeOK
  <1>2. Holds /\ Exclusive /\ Cached /\ Backed /\ AddedStaysListed
    BY DEF Holds, Holding, Exclusive, HasLock, Cached, Backed, AddedStaysListed, Idle, At
  <1> QED
    BY <1>1, <1>2 DEF Inv

--------------------------------------------------------------------------------
\* What a handler remembers is well typed, and its step moves nobody else.
LEMMA WorkType ==
    ASSUME TypeOK, NEW h \in Handlers, NEW w \in Works, work' = [work EXCEPT ![h] = w]
    PROVE  /\ work' \in [Handlers -> Works]
           /\ work'[h] = w /\ \A g \in Handlers : g # h => work'[g] = work[g]
  BY DEF TypeOK

LEMMA BeginWork ==
    ASSUME TypeOK, NEW h \in Handlers, NEW op \in Ops, NEW p \in Steps, NEW x \in Items \cup {None},
           NEW b \in Days, NEW s \in SUBSET Items, Begin(h, op, p, x, b, s)
    PROVE  /\ requests' \in 0 .. MaxRequests /\ work' \in [Handlers -> Works]
           /\ work[h].pc = "idle" /\ work'[h].pc = p /\ work'[h].item = x
           /\ \A g \in Handlers : g # h => work'[g] = work[g]
  <1>1. [Idle EXCEPT !.op = op, !.pc = p, !.item = x, !.born = b, !.todo = s] \in Works
    BY IdleType DEF Works, Idle
  <1>2. requests' \in 0 .. MaxRequests
    BY CatalogueAssumption DEF Begin, TypeOK
  <1> QED
    BY <1>1, <1>2, WorkType DEF Begin, At, Idle

LEMMA GoWork ==
    ASSUME TypeOK, NEW h \in Handlers, NEW p \in Steps, Go(h, p)
    PROVE  /\ work' \in [Handlers -> Works]
           /\ work'[h].pc = p /\ work'[h].item = work[h].item /\ work'[h].read = work[h].read
           /\ \A g \in Handlers : g # h => work'[g] = work[g]
  <1>1. [work[h] EXCEPT !.pc = p] \in Works
    BY DEF TypeOK, Works
  <1> QED
    BY <1>1, WorkType DEF Go, TypeOK, Works

LEMMA ReturnWork ==
    ASSUME TypeOK, NEW h \in Handlers, Return(h)
    PROVE  /\ work' \in [Handlers -> Works]
           /\ work'[h].pc = "idle"
           /\ \A g \in Handlers : g # h => work'[g] = work[g]
  BY IdleType, WorkType DEF Return, Idle

\* The listing is a listing, and an entry of the index is an artefact.
LEMMA ListingType == TypeOK => Listing \in [Items -> Days \cup {None}]
  BY DEF TypeOK, Listing

LEMMA ItemOfType == ASSUME TypeOK, NEW v \in Listings PROVE ItemOf(v) \in Items
  BY DEF TypeOK, Indexes, Listings, Known, ItemOf

LEMMA RebuiltType ==
    ASSUME NEW list \in [Items -> Days \cup {None}]
    PROVE  /\ Rebuilt(list) \in Indexes
           /\ \A x \in Items : list[x] # None => Rebuilt(list)[x.ver] # None
  <1> DEFINE Of(v) == {x \in Items : x.ver = v /\ list[x] # None}
  <1>1. ASSUME NEW v \in Versions, Of(v) # {}
        PROVE  /\ Rebuilt(list)[v] \in Entry
               /\ [ver |-> v, arch |-> Rebuilt(list)[v].arch] \in Items
    <2> DEFINE x == CHOOSE x \in Of(v) : TRUE
    <2>1. x \in Of(v)
      BY <1>1
    <2>2. Rebuilt(list)[v] = [arch |-> x.arch, born |-> list[x]]
      BY <1>1 DEF Rebuilt
    <2> HIDE DEF x
    <2>3. x \in Items /\ x.ver = v /\ list[x] \in Days /\ x.arch \in Archs
      BY <2>1 DEF Archs
    <2>4. x = [ver |-> v, arch |-> x.arch]
      BY <2>3, CatalogueAssumption
    <2> QED
      BY <2>2, <2>3, <2>4 DEF Entry
  <1>2. ASSUME NEW v \in Versions, Of(v) = {}
        PROVE  Rebuilt(list)[v] = None
    BY <1>2 DEF Rebuilt
  <1>3. DOMAIN Rebuilt(list) = Versions /\ Rebuilt(list) = [v \in Versions |-> Rebuilt(list)[v]]
    BY DEF Rebuilt
  <1>4. Rebuilt(list) \in [Versions -> Entry \cup {None}]
    BY <1>1, <1>2, <1>3
  <1>5. \A v \in Versions : Rebuilt(list)[v] # None => [ver |-> v, arch |-> Rebuilt(list)[v].arch] \in Items
    BY <1>1, <1>2
  <1>6. \A x \in Items : list[x] # None => x.ver \in Versions /\ Of(x.ver) # {}
    BY DEF Versions
  <1>7. None \notin Entry
    BY CatalogueAssumption
  <1> QED
    BY <1>1, <1>4, <1>5, <1>6, <1>7 DEF Indexes

LEMMA VersType == \A x \in Items : x.ver \in Versions /\ x.arch \in Archs
  BY DEF Versions, Archs

--------------------------------------------------------------------------------
\* Types are kept by every step.
LEMMA RequestType ==
    ASSUME TypeOK, NEW h \in Handlers, Request(h)
    PROVE  TypeOK'
  <1> USE CatalogueAssumption
  <1>0. Listing \in [Items -> Days \cup {None}] /\ {} \in SUBSET Items /\ 0 \in Days
    BY ListingType DEF Days
  <1>1. ASSUME NEW x \in Items,
               Add(h, x) \/ Reenrich(h, x) \/ RescanPackage(h, x) \/ UpdateKevFlag(h, x)
        PROVE  TypeOK'
    <2>1. PICK op \in Ops, b \in Days : Begin(h, op, "json", x, b, {})
      <3>1. rows[x] # None => rows[x] \in Days
        BY DEF TypeOK
      <3>2. Loaded(x) # None => Loaded(x) \in Days
        BY DEF TypeOK, Loaded
      <3>3. Listing[x] # None => Listing[x] \in Days
        BY <1>0
      <3> QED
        BY <1>1, <3>1, <3>2, <3>3 DEF Add, Reenrich, RescanPackage, UpdateKevFlag, TypeOK, Ops
    <2>2. requests' \in 0 .. MaxRequests /\ work' \in [Handlers -> Works]
      BY <1>0, <2>1, BeginWork DEF Steps
    <2> QED
      BY <1>0, <1>1, <2>2 DEF Add, Reenrich, RescanPackage, UpdateKevFlag, TypeOK
  <1>2. ASSUME NEW v \in Versions, DeleteVersion(h, v)
        PROVE  TypeOK'
    <2>1. ItemOf(v) \in Items
      BY <1>2, ItemOfType DEF DeleteVersion, Listings
    <2>2. requests' \in 0 .. MaxRequests /\ work' \in [Handlers -> Works]
      BY <1>0, <1>2, <2>1, BeginWork DEF DeleteVersion, Ops, Steps
    <2> QED
      BY <1>2, <2>2 DEF DeleteVersion, TypeOK
  <1>3. CASE DeletePackage(h)
    <2>1. {ItemOf(v) : v \in Listings} \in SUBSET Items
      BY ItemOfType
    <2>2. requests' \in 0 .. MaxRequests /\ work' \in [Handlers -> Works]
      BY <1>0, <1>3, <2>1, BeginWork DEF DeletePackage, Ops, Steps
    <2> QED
      BY <1>3, <2>2 DEF DeletePackage, TypeOK
  <1>4. CASE Sync(h)
    <2>1. [Idle EXCEPT !.op = "sync", !.pc = "syncing", !.read = Rebuilt(Listing)] \in Works
      BY <1>0, IdleType, RebuiltType DEF Works, Idle, Ops, Steps
    <2>2. work' \in [Handlers -> Works]
      BY <1>4, <2>1, WorkType DEF Sync
    <2>3. requests' \in 0 .. MaxRequests
      BY <1>4 DEF Sync, TypeOK
    <2> QED
      BY <1>0, <1>4, <2>2, <2>3 DEF Sync, TypeOK
  <1>5. CASE RunRetention(h)
    <2>1. Expired(Listing) \in SUBSET Items
      BY DEF Expired
    <2>2. requests' \in 0 .. MaxRequests /\ work' \in [Handlers -> Works]
      BY <1>0, <1>5, <2>1, BeginWork DEF RunRetention, Ops, Steps
    <2> QED
      BY <1>0, <1>5, <2>2 DEF RunRetention, TypeOK
  <1>6. CASE RunVersionGc(h)
    <2>1. requests' \in 0 .. MaxRequests /\ work' \in [Handlers -> Works]
      BY <1>0, <1>6, BeginWork DEF RunVersionGc, Ops, Steps
    <2> QED
      BY <1>6, <2>1 DEF RunVersionGc, TypeOK
  <1> QED
    BY <1>1, <1>2, <1>3, <1>4, <1>5, <1>6 DEF Request

LEMMA ContinueType ==
    ASSUME TypeOK, Holds, NEW h \in Handlers, Continue(h)
    PROVE  TypeOK'
  <1> USE CatalogueAssumption DEF Steps
  <1>0. work[h] \in Works /\ Holding(h)
    BY DEF TypeOK, Holds
  <1>1. CASE OpenFile(h) \/ WriteFile(h)
    <2>1. work' \in [Handlers -> Works]
      BY <1>1, GoWork DEF OpenFile, WriteFile
    <2>2. json' \in [Items -> Days \cup {None}]
      BY <1>0, <1>1 DEF OpenFile, WriteFile, TypeOK, Works
    <2> QED
      BY <1>1, <2>1, <2>2 DEF OpenFile, WriteFile, TypeOK
  <1>2. CASE SaveRow(h)
    <2>1. work' \in [Handlers -> Works]
      BY <1>2, GoWork, ReturnWork DEF SaveRow
    <2>2. rows' \in [Items -> Days \cup {None}]
      BY <1>0, <1>2 DEF SaveRow, TypeOK, Works
    <2> QED
      BY <1>2, <2>1, <2>2 DEF SaveRow, TypeOK
  <1>3. ASSUME NEW p \in Steps, NEW q \in Steps, ReadIndex(h, p, q)
        PROVE  TypeOK'
    <2>1. [work[h] EXCEPT !.pc = q, !.read = index] \in Works
      BY <1>0 DEF TypeOK, Works
    <2>2. work' \in [Handlers -> Works]
      BY <1>3, <2>1, WorkType DEF ReadIndex
    <2> QED
      BY <1>3, <2>2 DEF ReadIndex, TypeOK
  <1>4. CASE AddToIndex(h)
    <2> DEFINE x == work[h].item
               e == [arch |-> x.arch, born |-> work[h].born]
    <2>1. x \in Items /\ work[h].read \in Indexes
      BY <1>0, <1>4 DEF AddToIndex, At, Holding, Works
    <2>2. x.ver \in Versions /\ e \in Entry /\ [ver |-> x.ver, arch |-> e.arch] \in Items
      <3>1. x.ver \in Versions /\ x.arch \in Archs /\ work[h].born \in Days
        BY <1>0, <2>1, VersType DEF Works
      <3>2. x = [ver |-> x.ver, arch |-> x.arch]
        BY <2>1, CatalogueAssumption
      <3> QED
        BY <2>1, <3>1, <3>2 DEF Entry
    <2>3. index' = [work[h].read EXCEPT ![x.ver] = e]
      BY <1>4 DEF AddToIndex
    <2> HIDE DEF e
    <2>4. index' \in Indexes
      BY <2>1, <2>2, <2>3 DEF Indexes
    <2>5. work' \in [Handlers -> Works]
      BY <1>4, ReturnWork DEF AddToIndex
    <2>6. listed' \subseteq Versions
      BY <1>4, <2>2 DEF AddToIndex, TypeOK
    <2> QED
      BY <1>4, <2>4, <2>5, <2>6 DEF AddToIndex, TypeOK
  <1>5. CASE Unlink(h) \/ EraseRows(h) \/ EraseFiles(h)
    <2>1. work' \in [Handlers -> Works]
      BY <1>5, GoWork DEF Unlink, EraseRows, EraseFiles
    <2>2. json' \in [Items -> Days \cup {None}] /\ rows' \in [Items -> Days \cup {None}]
      BY <1>5 DEF Unlink, EraseRows, EraseFiles, TypeOK
    <2> QED
      BY <1>5, <2>1, <2>2 DEF Unlink, EraseRows, EraseFiles, TypeOK
  <1>6. CASE RemoveFromIndex(h)
    <2>1. work[h].read \in Indexes
      BY <1>0 DEF Works
    <2>2. index' \in Indexes
      BY <1>6, <2>1 DEF RemoveFromIndex, Indexes
    <2>3. [work[h] EXCEPT !.pc = "collect", !.item = None, !.read = NoEntries] \in Works
      BY <1>0, IdleType DEF Works
    <2>4. work' \in [Handlers -> Works]
      BY <1>6, <2>3, WorkType, ReturnWork DEF RemoveFromIndex
    <2> QED
      BY <1>6, <2>2, <2>4 DEF RemoveFromIndex, TypeOK
  <1>7. CASE ReplaceIndex(h)
    <2>1. work[h].read \in Indexes
      BY <1>0 DEF Works
    <2>2. work' \in [Handlers -> Works]
      BY <1>7, ReturnWork DEF ReplaceIndex
    <2> QED
      BY <1>7, <2>1, <2>2 DEF ReplaceIndex, TypeOK
  <1>8. CASE Purge(h) \/ Collect(h)
    <2>1. CASE work[h].todo = {}
      <3>1. work' \in [Handlers -> Works]
        BY <1>8, <2>1, GoWork DEF Purge, Collect
      <3> QED
        BY <1>8, <2>1, <3>1 DEF Purge, Collect, TypeOK
    <2>2. CASE work[h].todo # {}
      <3>1. PICK x \in work[h].todo :
              /\ json' = [json EXCEPT ![x] = None]
              /\ pool' = pool \ {x}
              /\ \/ work' = [work EXCEPT ![h] = [work[h] EXCEPT !.todo = work[h].todo \ {x}]]
                 \/ work' = [work EXCEPT ![h] =
                              [work[h] EXCEPT !.pc = "rows", !.item = x, !.todo = work[h].todo \ {x}]]
              /\ listed' = listed \cap Whole(json')
        <4>1. CASE Purge(h)
          BY <2>2, <4>1 DEF Purge
        <4>2. CASE Collect(h)
          BY <2>2, <4>2 DEF Collect
        <4> QED
          BY <1>8, <4>1, <4>2
      <3>2. x \in Items
        BY <1>0 DEF Works
      <3>3. /\ [work[h] EXCEPT !.todo = work[h].todo \ {x}] \in Works
            /\ [work[h] EXCEPT !.pc = "rows", !.item = x, !.todo = work[h].todo \ {x}] \in Works
        BY <1>0, <3>2 DEF Works
      <3>4. work' \in [Handlers -> Works]
        BY <3>1, <3>3, WorkType
      <3>5. UNCHANGED <<day, requests, rows, cache, index, quiet, disturbed>>
        BY <1>8 DEF Purge, Collect
      <3> QED
        BY <3>1, <3>4, <3>5 DEF TypeOK
    <2> QED
      BY <2>1, <2>2
  <1>9. CASE Count(h)
    <2>1. {ItemOf(v) : v \in {w \in Candidates : OldEnough(w)}} \subseteq Items
      BY ItemOfType DEF Candidates
    <2>2. [work[h] EXCEPT !.pc = "collect",
             !.todo = {ItemOf(v) : v \in {w \in Candidates : OldEnough(w)}}] \in Works
      BY <1>0, <2>1 DEF Works
    <2>3. work' \in [Handlers -> Works]
      BY <1>9, <2>2, WorkType DEF Count
    <2> QED
      BY <1>9, <2>3 DEF Count, TypeOK
  <1>10. CASE Report(h)
    <2>1. work' \in [Handlers -> Works]
      BY <1>10, ReturnWork DEF Report
    <2> QED
      BY <1>10, <2>1 DEF Report, TypeOK
  <1> QED
    BY <1>1, <1>2, <1>3, <1>4, <1>5, <1>6, <1>7, <1>8, <1>9, <1>10 DEF Continue

--------------------------------------------------------------------------------
\* What the step of a handler leaves alone: the other handlers, and without the lock the index.
Frame(h) ==
    /\ \A g \in Handlers : g # h => work'[g] = work[g]
    /\ HasLock(h)' => ~Locked
    /\ HasLock(h) \/ (index' = index /\ listed' \subseteq listed)

\* What is no file before the step is none after it, and the handler was not saving one.
Shrinks(h) ==
    /\ \A x \in Items : json'[x] # None => json[x] # None
    /\ work[h].pc \notin {"write", "row"}

LEMMA WholeShrinks ==
    ASSUME NEW h \in Handlers, Frame(h), Shrinks(h)
    PROVE  Whole(json)' \subseteq Whole(json)
  <1>1. ASSUME NEW x \in Items, Saving(x)
        PROVE  Saving(x)'
    BY <1>1 DEF Saving, Frame, Shrinks
  <1> QED
    BY <1>1 DEF Whole, Shrinks

\* A listing that was refreshed, kept or dropped misses nothing, when no version became whole.
LEMMA CachedFrame ==
    ASSUME Inv, cache' \in {cache, Listing, Stale}, listed' \cap Whole(json)' \subseteq listed \cap Whole(json)
    PROVE  Cached'
  <1> SUFFICES ASSUME cache' # Stale, NEW v \in listed \cap Whole(json)
               PROVE  \E x \in Items : x.ver = v /\ cache'[x] # None
    BY DEF Cached
  <1>1. CASE cache = Stale
    <2>1. cache' = json
      BY <1>1 DEF Listing
    <2> QED
      BY <2>1 DEF Whole
  <1>2. CASE cache # Stale
    BY <1>2 DEF Inv, Cached, Listing
  <1> QED
    BY <1>1, <1>2

LEMMA BackedFrame ==
    ASSUME Inv, NEW h \in Handlers, Frame(h), Shrinks(h), ~At(h, "files"),
           rows' = rows, disturbed' = disturbed
    PROVE  Backed'
  <1>1. ASSUME NEW g \in Handlers, NEW x \in Items, Backing(g, x)
        PROVE  Backing(g, x)'
    BY <1>1 DEF Backing, Frame, Shrinks, At, Erased
  <1> QED
    BY <1>1 DEF Inv, Backed, Shrinks

\* An index that nobody wrote still has what is listed.
LEMMA ListedFrame ==
    ASSUME Inv, index' = index, listed' \subseteq listed
    PROVE  AddedStaysListed'
  BY DEF Inv, AddedStaysListed, Known

\* What a step of a handler owes to the invariant.
Kept(h) == Frame(h) /\ Holding(h)' /\ Cached' /\ Backed' /\ AddedStaysListed'

LEMMA RequestKept ==
    ASSUME Inv, NEW h \in Handlers, Request(h)
    PROVE  Kept(h)
  <1> USE DEF Inv
  <1>0. {} \in SUBSET Items /\ 0 \in Days
    BY CatalogueAssumption DEF Days
  <1>1. ASSUME NEW op \in Ops, NEW p \in {"json", "unlink", "purge", "count"}, NEW x \in Items \cup {None},
               NEW b \in Days, NEW s \in SUBSET Items, Begin(h, op, p, x, b, s),
               p = "json" => x \in Items,
               cache' \in {cache, Listing}, UNCHANGED <<json, rows, index, listed, disturbed>>
        PROVE  Kept(h)
    <2>1. /\ work[h].pc = "idle" /\ work'[h].pc = p /\ work'[h].item = x
          /\ \A g \in Handlers : g # h => work'[g] = work[g]
      BY <1>1, BeginWork DEF Steps
    <2>2. Frame(h) /\ Shrinks(h) /\ Holding(h)'
      BY <1>1, <2>1 DEF Frame, Shrinks, Holding, HasLock, At
    <2>3. Cached'
      BY <1>1, <2>2, WholeShrinks, CachedFrame
    <2>4. Backed'
      BY <1>1, <2>1, <2>2, BackedFrame DEF At
    <2> QED
      BY <1>1, <2>2, <2>3, <2>4, ListedFrame DEF Kept
  <1>2. ASSUME NEW x \in Items,
               Add(h, x) \/ Reenrich(h, x) \/ RescanPackage(h, x) \/ UpdateKevFlag(h, x)
        PROVE  Kept(h)
    <2>1. PICK op \in Ops, b \in Days : Begin(h, op, "json", x, b, {})
      <3>1. rows[x] # None => rows[x] \in Days
        BY DEF TypeOK
      <3>2. Loaded(x) # None => Loaded(x) \in Days
        BY DEF TypeOK, Loaded
      <3>3. Listing[x] # None => Listing[x] \in Days
        BY ListingType
      <3> QED
        BY <1>2, <3>1, <3>2, <3>3 DEF Add, Reenrich, RescanPackage, UpdateKevFlag, TypeOK, Ops
    <2>2. cache' \in {cache, Listing} /\ UNCHANGED <<json, rows, index, listed, disturbed>>
      BY <1>2 DEF Add, Reenrich, RescanPackage, UpdateKevFlag
    <2> QED
      BY <1>0, <1>1, <2>1, <2>2
  <1>3. ASSUME NEW v \in Versions, DeleteVersion(h, v)
        PROVE  Kept(h)
    <2>1. ItemOf(v) \in Items
      BY <1>3, ItemOfType DEF DeleteVersion, Listings
    <2> QED
      BY <1>0, <1>1, <1>3, <2>1 DEF DeleteVersion, Ops
  <1>4. CASE DeletePackage(h)
    <2>1. {ItemOf(v) : v \in Listings} \in SUBSET Items
      BY ItemOfType
    <2> QED
      BY <1>0, <1>1, <1>4, <2>1 DEF DeletePackage, Ops
  <1>5. CASE Sync(h)
    <2>1. [Idle EXCEPT !.op = "sync", !.pc = "syncing", !.read = Rebuilt(Listing)] \in Works
      BY ListingType, IdleType, RebuiltType DEF Works, Idle, Ops, Steps
    <2>2. /\ work'[h].pc = "syncing" /\ work'[h].read = Rebuilt(Listing)
          /\ \A g \in Handlers : g # h => work'[g] = work[g]
      BY <1>5, <2>1, WorkType DEF Sync, Idle
    <2>3. /\ ~Locked /\ work[h].pc = "idle" /\ cache' = Listing /\ listed' = listed \cap Whole(json)
          /\ UNCHANGED <<json, rows, index, disturbed>>
      BY <1>5 DEF Sync, At
    <2>4. Frame(h) /\ Shrinks(h)
      BY <2>2, <2>3 DEF Frame, Shrinks
    <2>5. ASSUME NEW v \in listed \cap Whole(json)
          PROVE  Rebuilt(Listing)[v] # None
      <3>1. PICK x \in Items : x.ver = v /\ Listing[x] # None
        BY DEF Cached, Listing, Whole
      <3> QED
        BY <3>1, ListingType, RebuiltType
    <2>6. Holding(h)'
      BY <2>2, <2>3, <2>5 DEF Holding, At
    <2>7. Cached'
      BY <2>3, <2>4, WholeShrinks, CachedFrame
    <2>8. Backed'
      BY <2>3, <2>4, BackedFrame DEF At
    <2> QED
      BY <2>3, <2>4, <2>6, <2>7, <2>8, ListedFrame DEF Kept
  <1>6. CASE RunRetention(h)
    <2>1. Expired(Listing) \in SUBSET Items
      BY DEF Expired
    <2> QED
      BY <1>0, <1>1, <1>6, <2>1 DEF RunRetention, Ops
  <1>7. CASE RunVersionGc(h)
    BY <1>0, <1>1, <1>7 DEF RunVersionGc, Ops
  <1> QED
    BY <1>2, <1>3, <1>4, <1>5, <1>6, <1>7 DEF Request

\* The saving of a manifest.
LEMMA SaveKept ==
    ASSUME Inv, NEW h \in Handlers, OpenFile(h) \/ WriteFile(h) \/ SaveRow(h)
    PROVE  Kept(h)
  <1> USE DEF Inv, Steps
  <1>a. work[h] \in Works /\ Holding(h) /\ work[h].item \in Items
    BY DEF TypeOK, Holds, Holding, OpenFile, WriteFile, SaveRow, At
  <1>0. PICK x \in Items : x = work[h].item
    BY <1>a
  <1>1. CASE OpenFile(h)
    <2>1. /\ work[h].pc = "json" /\ work'[h].pc = "write" /\ work'[h].item = x
          /\ \A g \in Handlers : g # h => work'[g] = work[g]
      BY <1>0, <1>1, GoWork DEF OpenFile, At
    <2>2. Frame(h) /\ Shrinks(h) /\ Holding(h)'
      BY <1>0, <1>1, <1>a, <2>1 DEF OpenFile, Frame, Shrinks, Holding, HasLock, At, TypeOK
    <2> QED
      BY <1>1, <2>1, <2>2, WholeShrinks, CachedFrame, BackedFrame, ListedFrame DEF OpenFile, Kept, At
  <1>2. CASE WriteFile(h)
    <2>1. /\ work[h].pc = "write" /\ work'[h].pc = "row" /\ work'[h].item = x
          /\ \A g \in Handlers : g # h => work'[g] = work[g]
      BY <1>0, <1>2, GoWork DEF WriteFile, At
    <2>2. Frame(h) /\ Holding(h)'
      BY <1>0, <1>2, <1>a, <2>1 DEF WriteFile, Frame, Holding, HasLock, At
    <2>3. \A y \in Items : y # x => json'[y] = json[y]
      BY <1>0, <1>2 DEF WriteFile, TypeOK
    <2>4. Saving(x)' /\ \A y \in Items : Saving(y) => Saving(y)'
      BY <1>0, <2>1 DEF Saving
    <2>5. Whole(json)' \subseteq Whole(json)
      BY <2>3, <2>4 DEF Whole
    <2>6. Backing(h, x)' /\ \A g \in Handlers, y \in Items : Backing(g, y) => Backing(g, y)'
      BY <2>1 DEF Backing, At, Erased
    <2>7. Backed'
      BY <1>2, <2>3, <2>6 DEF WriteFile, Backed
    <2> QED
      BY <1>2, <2>2, <2>5, <2>7, CachedFrame, ListedFrame DEF WriteFile, Kept
  <1>3. CASE SaveRow(h)
    <2>1. /\ work[h].pc = "row" /\ work'[h].pc \in {"add", "idle"}
          /\ work'[h].pc = "add" => work'[h].item = x
          /\ \A g \in Handlers : g # h => work'[g] = work[g]
      BY <1>0, <1>3, GoWork, ReturnWork DEF SaveRow, At
    <2>2. UNCHANGED <<json, index>> /\ listed' \subseteq listed
      BY <1>3 DEF SaveRow
    <2>3. Frame(h) /\ Holding(h)'
      BY <1>0, <1>a, <2>1, <2>2 DEF Frame, Holding, HasLock, At
    <2>4. CASE rows' = [rows EXCEPT ![x] = work[h].born] /\ cache' = Stale /\ UNCHANGED <<listed, disturbed>>
      <3>1. rows'[x] # None /\ \A y \in Items : y # x => rows'[y] = rows[y]
        BY <1>0, <1>a, <2>4, CatalogueAssumption DEF TypeOK, Works
      <3>2. \A g \in Handlers, y \in Items : y # x /\ Backing(g, y) => Backing(g, y)'
        BY <1>0, <2>1 DEF Backing, At, Erased
      <3>3. Backed'
        BY <2>2, <2>4, <3>1, <3>2 DEF Backed
      <3> QED
        BY <2>2, <2>3, <2>4, <3>3, ListedFrame DEF Kept, Cached
    <2>5. CASE disturbed' = TRUE /\ listed' = listed \ {x.ver} /\ UNCHANGED <<rows, cache>>
      <3>1. \A y \in Items : y # x /\ Saving(y) => Saving(y)'
        BY <1>0, <2>1 DEF Saving
      <3>2. listed' \cap Whole(json)' \subseteq listed \cap Whole(json)
        BY <2>2, <2>5, <3>1 DEF Whole
      <3> QED
        BY <2>2, <2>3, <2>5, <3>2, CachedFrame, ListedFrame DEF Kept, Backed
    <2> QED
      BY <1>0, <1>3, <2>4, <2>5 DEF SaveRow
  <1> QED
    BY <1>1, <1>2, <1>3

\* The index under its lock.
LEMMA IndexKept ==
    ASSUME Inv, NEW h \in Handlers,
           \/ ReadIndex(h, "add", "adding") \/ ReadIndex(h, "drop", "dropping")
           \/ AddToIndex(h) \/ RemoveFromIndex(h) \/ ReplaceIndex(h)
    PROVE  Kept(h)
  <1> USE DEF Inv, Steps
  <1>0. work[h] \in Works /\ Holding(h)
    BY DEF TypeOK, Holds
  <1>1. ASSUME NEW p \in {"add", "drop"}, NEW q \in {"adding", "dropping"}, ReadIndex(h, p, q),
               p = "drop" => q = "dropping"
        PROVE  Kept(h)
    <2>1. [work[h] EXCEPT !.pc = q, !.read = index] \in Works
      BY <1>0 DEF TypeOK, Works
    <2>2. /\ work[h].pc = p /\ work'[h].pc = q /\ work'[h].item = work[h].item /\ work'[h].read = index
          /\ ~Locked /\ \A g \in Handlers : g # h => work'[g] = work[g]
      BY <1>0, <1>1, <2>1, WorkType DEF ReadIndex, At, Works
    <2>3. Frame(h) /\ Shrinks(h) /\ Holding(h)'
      BY <1>0, <1>1, <2>2 DEF ReadIndex, Frame, Shrinks, Holding, HasLock, At
    <2> QED
      BY <1>1, <2>2, <2>3, WholeShrinks, CachedFrame, BackedFrame, ListedFrame DEF ReadIndex, Kept, At
  <1>2. CASE AddToIndex(h)
    <2> DEFINE x == work[h].item
    <2>1. x \in Items /\ work[h].read = index /\ HasLock(h)
      BY <1>0, <1>2 DEF AddToIndex, At, Holding, HasLock
    <2>2. work'[h].pc = "idle" /\ \A g \in Handlers : g # h => work'[g] = work[g]
      BY <1>2, ReturnWork DEF AddToIndex
    <2>3. Frame(h) /\ Shrinks(h) /\ Holding(h)'
      BY <1>2, <2>1, <2>2 DEF AddToIndex, Frame, Shrinks, Holding, HasLock, At
    <2>4. Whole(json)' \subseteq Whole(json)
      BY <2>3, WholeShrinks
    <2>5. Cached'
      <3> SUFFICES ASSUME cache # Stale, NEW v \in listed' \cap Whole(json)
                   PROVE  \E y \in Items : y.ver = v /\ cache[y] # None
        BY <1>2, <2>4 DEF AddToIndex, Cached
      <3>1. CASE v \in listed
        BY <3>1 DEF Cached
      <3>2. CASE v \in Whole(Listing)
        BY <3>2 DEF Whole, Listing
      <3> QED
        BY <1>2, <3>1, <3>2 DEF AddToIndex
    <2>6. Backed'
      BY <1>2, <2>1, <2>3, BackedFrame DEF AddToIndex, At
    <2>7. AddedStaysListed'
      <3>1. index' = [index EXCEPT ![x.ver] = [arch |-> x.arch, born |-> work[h].born]]
        BY <1>2, <2>1 DEF AddToIndex
      <3>2. x.ver \in Versions /\ [arch |-> x.arch, born |-> work[h].born] \in Entry
        BY <1>0, <2>1, VersType DEF Works, Entry
      <3>3. \A v \in Versions : index'[v] = IF v = x.ver THEN [arch |-> x.arch, born |-> work[h].born] ELSE index[v]
        BY <3>1, <3>2 DEF TypeOK, Indexes
      <3>4. listed' \subseteq listed \cup {x.ver}
        BY <1>2 DEF AddToIndex
      <3> QED
        BY <3>2, <3>3, <3>4, CatalogueAssumption DEF AddedStaysListed, Known, TypeOK
    <2> QED
      BY <2>3, <2>5, <2>6, <2>7 DEF Kept
  <1>3. CASE RemoveFromIndex(h)
    <2>1. work[h].read = index /\ HasLock(h)
      BY <1>0, <1>3 DEF RemoveFromIndex, At, Holding, HasLock
    <2>2. [work[h] EXCEPT !.pc = "collect", !.item = None, !.read = NoEntries] \in Works
      BY <1>0, IdleType DEF Works
    <2>3. work'[h].pc \in {"idle", "collect"} /\ \A g \in Handlers : g # h => work'[g] = work[g]
      BY <1>0, <1>3, <2>2, WorkType, ReturnWork DEF RemoveFromIndex, Works
    <2>4. Frame(h) /\ Shrinks(h) /\ Holding(h)'
      BY <1>3, <2>1, <2>3 DEF RemoveFromIndex, Frame, Shrinks, Holding, HasLock, At
    <2>5. Cached'
      BY <1>3, <2>4, WholeShrinks, CachedFrame DEF RemoveFromIndex
    <2>6. Backed'
      BY <1>3, <2>1, <2>4, BackedFrame DEF RemoveFromIndex, At
    <2>7. AddedStaysListed'
      BY <1>3, <2>1 DEF RemoveFromIndex, AddedStaysListed, Known, TypeOK
    <2> QED
      BY <2>4, <2>5, <2>6, <2>7 DEF Kept
  <1>4. CASE ReplaceIndex(h)
    <2>1. HasLock(h) /\ \A v \in listed : work[h].read[v] # None
      BY <1>0, <1>4 DEF ReplaceIndex, At, Holding, HasLock
    <2>2. work'[h].pc = "idle" /\ \A g \in Handlers : g # h => work'[g] = work[g]
      BY <1>4, ReturnWork DEF ReplaceIndex
    <2>3. Frame(h) /\ Shrinks(h) /\ Holding(h)'
      BY <1>4, <2>1, <2>2 DEF ReplaceIndex, Frame, Shrinks, Holding, HasLock, At
    <2>4. Cached'
      BY <1>4, <2>3, WholeShrinks, CachedFrame DEF ReplaceIndex
    <2>5. Backed'
      BY <1>4, <2>3, BackedFrame DEF ReplaceIndex, At
    <2>6. AddedStaysListed'
      BY <1>4, <2>1 DEF ReplaceIndex, AddedStaysListed, Known
    <2> QED
      BY <2>3, <2>4, <2>5, <2>6 DEF Kept
  <1> QED
    BY <1>1, <1>2, <1>3, <1>4

\* Deletions and collectors.
LEMMA EraseKept ==
    ASSUME Inv, NEW h \in Handlers,
           \/ Unlink(h) \/ EraseRows(h) \/ EraseFiles(h)
           \/ Purge(h) \/ Count(h) \/ Collect(h) \/ Report(h)
    PROVE  Kept(h)
  <1> USE DEF Inv, Steps
  <1>0. work[h] \in Works /\ Holding(h)
    BY DEF TypeOK, Holds
  <1>1. /\ work[h].pc \notin {"json", "write", "row", "add", "adding", "dropping", "syncing"}
        /\ index' = index
    BY DEF Unlink, EraseRows, EraseFiles, Purge, Count, Collect, Report, At
  <1>2. /\ \A x \in Items : json'[x] # None => json[x] # None
        /\ listed' \subseteq listed /\ cache' \in {cache, Stale}
    <2>1. CASE Purge(h) \/ Collect(h)
      <3>1. json' = json \/ \E x \in Items : json' = [json EXCEPT ![x] = None]
        BY <1>0, <2>1 DEF Purge, Collect, Works
      <3>2. listed' \subseteq listed /\ cache' = cache
        BY <2>1 DEF Purge, Collect
      <3> QED
        BY <3>1, <3>2 DEF TypeOK
    <2>2. CASE ~(Purge(h) \/ Collect(h))
      BY <2>2 DEF Unlink, EraseRows, EraseFiles, Count, Report, TypeOK
    <2> QED
      BY <2>1, <2>2
  <1>3. /\ \A g \in Handlers : g # h => work'[g] = work[g]
        /\ work'[h].pc \notin {"json", "write", "row", "add", "adding", "dropping", "syncing"}
        /\ work[h].pc = "rows" => work'[h].pc = "files" /\ work'[h].item = work[h].item
    <2>1. CASE Unlink(h) \/ EraseRows(h) \/ EraseFiles(h)
      BY <2>1, GoWork DEF Unlink, EraseRows, EraseFiles, At
    <2>2. CASE Purge(h) \/ Collect(h)
      <3>1. CASE work[h].todo = {}
        BY <2>2, <3>1, GoWork DEF Purge, Collect, At
      <3>2. CASE work[h].todo # {}
        <4>1. PICK x \in work[h].todo :
                 \/ work' = [work EXCEPT ![h] = [work[h] EXCEPT !.todo = work[h].todo \ {x}]]
                 \/ work' = [work EXCEPT ![h] =
                              [work[h] EXCEPT !.pc = "rows", !.item = x, !.todo = work[h].todo \ {x}]]
          <5>1. CASE Purge(h)
            BY <3>2, <5>1 DEF Purge
          <5>2. CASE Collect(h)
            BY <3>2, <5>2 DEF Collect
          <5> QED
            BY <2>2, <5>1, <5>2
        <4>2. work[h].pc \in {"purge", "collect"}
          BY <2>2 DEF Purge, Collect, At
        <4>3. work'[h].pc \in {"purge", "collect", "rows"}
          <5>1. [work[h] EXCEPT !.todo = work[h].todo \ {x}].pc \in {"purge", "collect"}
            BY <1>0, <4>2 DEF Works
          <5>2. [work[h] EXCEPT !.pc = "rows", !.item = x, !.todo = work[h].todo \ {x}].pc = "rows"
            BY <1>0 DEF Works
          <5> QED
            BY <4>1, <5>1, <5>2 DEF TypeOK
        <4>4. \A g \in Handlers : g # h => work'[g] = work[g]
          BY <4>1 DEF TypeOK
        <4> QED
          BY <4>2, <4>3, <4>4
      <3> QED
        BY <3>1, <3>2
    <2>3. CASE Count(h)
      <3>1. work[h].pc = "count" /\ work'[h].pc = "collect"
        BY <1>0, <2>3 DEF Count, At, TypeOK, Works
      <3> QED
        BY <2>3, <3>1 DEF Count, TypeOK
    <2>4. CASE Report(h)
      BY <2>4, ReturnWork DEF Report, At
    <2> QED
      BY <2>1, <2>2, <2>3, <2>4
  <1>4. Frame(h) /\ Shrinks(h) /\ Holding(h)'
    BY <1>1, <1>2, <1>3 DEF Frame, Shrinks, Holding, HasLock, At
  <1>5. Cached'
    BY <1>2, <1>4, WholeShrinks, CachedFrame
  <1>6. Backed'
    <2>1. CASE EraseRows(h)
      <3>1. work'[h].pc = "files" /\ work'[h].item = work[h].item
        BY <1>3, <2>1 DEF EraseRows, At
      <3>2. \A x \in Items : rows'[x] = IF x \in Erased(h) THEN None ELSE rows[x]
        BY <2>1 DEF EraseRows
      <3>3. \A x \in Erased(h) : Backing(h, x)'
        BY <3>1 DEF Backing, At, Erased
      <3>4. \A g \in Handlers, x \in Items : Backing(g, x) => Backing(g, x)'
        BY <1>1, <1>3, <2>1 DEF Backing, At, Erased, EraseRows
      <3> QED
        BY <2>1, <3>2, <3>3, <3>4 DEF EraseRows, Backed
    <2>2. CASE EraseFiles(h)
      <3>1. \A x \in Items : json'[x] = IF x \in Erased(h) THEN None ELSE json[x]
        BY <2>2 DEF EraseFiles
      <3>2. \A g \in Handlers, x \in Items : x \notin Erased(h) /\ Backing(g, x) => Backing(g, x)'
        BY <1>1, <1>3 DEF Backing, At, Erased
      <3> QED
        BY <2>2, <3>1, <3>2 DEF EraseFiles, Backed
    <2>3. CASE ~EraseRows(h) /\ ~EraseFiles(h)
      <3>1. ~At(h, "files") /\ rows' = rows /\ disturbed' = disturbed
        BY <2>3 DEF Unlink, Purge, Count, Collect, Report, At
      <3> QED
        BY <1>4, <3>1, BackedFrame
    <2> QED
      BY <2>1, <2>2, <2>3
  <1> QED
    BY <1>1, <1>2, <1>4, <1>5, <1>6, ListedFrame DEF Kept

--------------------------------------------------------------------------------
\* The invariant is inductive.
LEMMA StepInv ==
    ASSUME Inv, [Next]_vars
    PROVE  Inv'
  <1> USE DEF Inv
  <1>1. ASSUME NEW h \in Handlers, Request(h) \/ Continue(h)
        PROVE  Inv'
    <2>1. TypeOK'
      BY <1>1, RequestType, ContinueType
    <2>2. Kept(h)
      BY <1>1, RequestKept, SaveKept, IndexKept, EraseKept DEF Continue
    <2>3. ASSUME NEW g \in Handlers, g # h
          PROVE  Holding(g)'
      <3>1. Holding(g) /\ work'[g] = work[g]
        BY <2>2, <2>3 DEF Holds, Kept, Frame
      <3>2. HasLock(g) => index' = index /\ listed' \subseteq listed
        BY <2>2, <2>3 DEF Kept, Frame, Exclusive
      <3> QED
        BY <3>1, <3>2 DEF Holding, HasLock, At
    <2>4. Exclusive'
      BY <2>2 DEF Kept, Frame, Exclusive, HasLock, Locked
    <2> QED
      BY <2>1, <2>2, <2>3, <2>4 DEF Kept, Holds
  <1>2. CASE Browse \/ NextDay
    <2>1. UNCHANGED <<json, rows, index, listed, disturbed, work>> /\ cache' \in {cache, Listing, Stale}
      BY <1>2 DEF Browse, NextDay
    <2>2. TypeOK'
      <3>1. CASE Browse
        BY <3>1, ListingType DEF Browse, TypeOK
      <3>2. CASE NextDay
        <4>1. day' \in Days
          BY <3>2, CatalogueAssumption DEF NextDay, TypeOK, Days
        <4> QED
          BY <3>2, <4>1 DEF NextDay, TypeOK
      <3> QED
        BY <1>2, <3>1, <3>2
    <2>3. Whole(json)' = Whole(json)
      BY <2>1 DEF Whole, Saving
    <2>4. Cached'
      BY <2>1, <2>3, CachedFrame
    <2> QED
      BY <2>1, <2>2, <2>4, ListedFrame DEF Holds, Holding, Exclusive, HasLock, Backed, Backing, Erased, At
  <1>3. CASE Crash
    <2>1. TypeOK'
      BY <1>3, IdleType DEF Crash, TypeOK
    <2>2. /\ \A h \in Handlers : work'[h].pc = "idle"
          /\ cache' = Stale /\ disturbed' = TRUE /\ index' = index /\ listed' \subseteq listed
      BY <1>3 DEF Crash, Idle
    <2> QED
      BY <2>1, <2>2, ListedFrame DEF Holds, Holding, Exclusive, HasLock, Cached, Backed, At
  <1>4. CASE UNCHANGED vars
    BY <1>4 DEF vars, TypeOK, Holds, Holding, Exclusive, HasLock, Cached, Whole, Saving, Backed, Backing,
                Erased, AddedStaysListed, Known, At
  <1> QED
    BY <1>1, <1>2, <1>3, <1>4 DEF Next

--------------------------------------------------------------------------------
\* What is written in the variables is always of its type (services/manifest.py, indexer.py).
THEOREM TypesHold == Spec => []TypeOK
  <1>1. Inv => TypeOK
    BY DEF Inv
  <1> QED
    BY InitInv, StepInv, <1>1, PTL DEF Spec

\* What was added to the index stays in it until it is removed or its manifest leaves the disk,
\* whatever additions, deletions, collectors and rebuildings overlap (services/indexer.py).
THEOREM AddedStaysListedHolds == Spec => []AddedStaysListed
  <1>1. Inv => AddedStaysListed
    BY DEF Inv
  <1> QED
    BY InitInv, StepInv, <1>1, PTL DEF Spec

\* A manifest on disk has its row, but for the time of a saving or of an erasure, until a handler
\* is killed or the table refuses a row (services/manifest.py).
THEOREM FileHasRowHolds == Spec => []FileHasRow
  <1>1. Inv => FileHasRow
    BY DEF Inv, Backed, Backing, FileHasRow, At
  <1> QED
    BY InitInv, StepInv, <1>1, PTL DEF Spec

--------------------------------------------------------------------------------
(***************************************************************************)
(* What the collector of versions deletes.  Its candidates are counted in  *)
(* the order of imports: three facts about finite ordered sets first.      *)
(***************************************************************************)

\* A set of naturals that is not empty has a least element.
LEMMA LeastNat ==
    ASSUME NEW T \in SUBSET Nat, T # {}
    PROVE  \E n \in T : \A m \in T : n <= m
  <1>1. PICK n \in T : \A m \in T : ~(<<m, n>> \in OpToRel(<, Nat))
    BY WFMin, NatLessThanWellFounded
  <1>2. \A m \in T : ~(m < n)
    BY <1>1, Zenon DEF OpToRel
  <1> QED
    BY <1>2

\* A finite set with a strict order has an element with nothing above it.
LEMMA Extreme ==
    ASSUME NEW S, IsFiniteSet(S), S # {}, NEW R,
           \A x \in S : <<x, x>> \notin R,
           \A x, y, z \in S : <<x, y>> \in R /\ <<y, z>> \in R => <<x, z>> \in R
    PROVE  \E m \in S : \A x \in S : <<m, x>> \notin R
  <1> DEFINE Above(x) == {y \in S : <<x, y>> \in R}
             T == {Cardinality(Above(x)) : x \in S}
  <1>1. \A x \in S : IsFiniteSet(Above(x)) /\ Cardinality(Above(x)) \in Nat
    BY FS_Subset, FS_CardinalityType
  <1>2. PICK m \in S : \A x \in S : Cardinality(Above(m)) <= Cardinality(Above(x))
    <2> HIDE DEF Above
    <2>1. T \in SUBSET Nat /\ T # {}
      BY <1>1
    <2>2. PICK n \in T : \A k \in T : n <= k
      <3> HIDE DEF T
      <3> QED
        BY <2>1, LeastNat
    <2>3. PICK m \in S : n = Cardinality(Above(m))
      BY <2>2
    <2>4. \A x \in S : Cardinality(Above(x)) \in T
      OBVIOUS
    <2> HIDE DEF T
    <2> QED
      BY <2>2, <2>3, <2>4, Zenon
  <1>3. ASSUME NEW x \in S, <<m, x>> \in R PROVE FALSE
    <2>1. Above(x) \in SUBSET Above(m) /\ x \in Above(m) /\ x \notin Above(x)
      BY <1>3
    <2> HIDE DEF Above
    <2>2. Cardinality(Above(x)) <= Cardinality(Above(m)) /\ Cardinality(Above(x)) # Cardinality(Above(m))
      <3>1. IsFiniteSet(Above(m)) /\ Above(x) # Above(m)
        BY <1>1, <2>1
      <3> QED
        BY <2>1, <3>1, FS_Subset
    <2> QED
      BY <1>1, <1>2, <2>2
  <1> QED
    BY <1>3

BelowIn(S, R, x) == {y \in S : <<y, x>> \in R}
FirstIn(S, R, k) == {x \in S : Cardinality(BelowIn(S, R, x)) < k}

\* In a strict total order, the elements with fewer than k others below them are k, or all.
LEMMA FewFirst ==
    ASSUME NEW S, IsFiniteSet(S), NEW R, NEW k \in Nat,
           \A x \in S : <<x, x>> \notin R,
           \A x, y \in S : x = y \/ <<x, y>> \in R \/ <<y, x>> \in R,
           \A x, y, z \in S : <<x, y>> \in R /\ <<y, z>> \in R => <<x, z>> \in R
    PROVE  /\ Cardinality(FirstIn(S, R, k)) <= k
           /\ k <= Cardinality(S) => Cardinality(FirstIn(S, R, k)) = k
  <1> DEFINE Below(x) == {y \in S : <<y, x>> \in R}
             First == {x \in S : Cardinality(Below(x)) < k}
  <1>1. \A x \in S : IsFiniteSet(Below(x)) /\ Cardinality(Below(x)) \in Nat
    BY FS_Subset, FS_CardinalityType
  <1>2. First \in SUBSET S /\ IsFiniteSet(First) /\ Cardinality(First) \in Nat /\ Cardinality(S) \in Nat
    <2>1. First \in SUBSET S
      OBVIOUS
    <2> HIDE DEF First
    <2> QED
      BY <2>1, FS_Subset, FS_CardinalityType
  <1>3. Cardinality(First) <= k
    <2>1. CASE First = {}
      <3>1. Cardinality(First) = 0
        BY <2>1, FS_EmptySet, Zenon
      <3> HIDE DEF First
      <3> QED
        BY <3>1
    <2>2. CASE First # {}
      <3>1. PICK m \in First : \A x \in First : <<m, x>> \notin R
        <4>1. /\ \A x \in First : <<x, x>> \notin R
              /\ \A x, y, z \in First : <<x, y>> \in R /\ <<y, z>> \in R => <<x, z>> \in R
          OBVIOUS
        <4> HIDE DEF First
        <4> QED
          BY <1>2, <2>2, <4>1, Extreme
      <3>2. First \ {m} \in SUBSET Below(m)
        BY <3>1
      <3>3. Cardinality(First \ {m}) <= Cardinality(Below(m))
        BY <1>1, <3>2, FS_Subset
      <3>4. Cardinality(First \ {m}) = Cardinality(First) - 1
        BY <1>2, FS_RemoveElement
      <3>5. Cardinality(Below(m)) < k /\ Cardinality(Below(m)) \in Nat
        BY <1>1
      <3> HIDE DEF First, Below
      <3> QED
        BY <1>2, <3>3, <3>4, <3>5
    <2> QED
      BY <2>1, <2>2
  <1>4. ASSUME k <= Cardinality(S), Cardinality(First) < k PROVE FALSE
    <2> DEFINE Rest == S \ First
               Back == {p \in S \X S : <<p[2], p[1]>> \in R}
    <2>1. Rest # {} /\ IsFiniteSet(Rest)
      <3>1. First # S
        <4> HIDE DEF First
        <4> QED
          BY <1>2, <1>4
      <3>2. IsFiniteSet(Rest)
        BY FS_Difference
      <3> QED
        BY <1>2, <3>1, <3>2
    <2>2. \A x, y \in S : <<x, y>> \in Back <=> <<y, x>> \in R
      OBVIOUS
    <2>3. PICK m \in Rest : \A x \in Rest : <<m, x>> \notin Back
      <3>1. /\ \A x \in Rest : <<x, x>> \notin Back
            /\ \A x, y, z \in Rest : <<x, y>> \in Back /\ <<y, z>> \in Back => <<x, z>> \in Back
        BY <2>2
      <3> HIDE DEF Rest, Back
      <3> QED
        BY <2>1, <3>1, Extreme
    <2>4. Below(m) \in SUBSET First
      BY <2>2, <2>3
    <2>5. Cardinality(Below(m)) <= Cardinality(First)
      BY <1>2, <2>4, FS_Subset
    <2>6. m \in S /\ ~(Cardinality(Below(m)) < k)
      OBVIOUS
    <2> HIDE DEF First, Below
    <2> QED
      BY <1>1, <1>2, <1>4, <2>5, <2>6
  <1>5. First = FirstIn(S, R, k)
    BY Zenon DEF FirstIn, BelowIn
  <1> HIDE DEF First
  <1> QED
    BY <1>2, <1>3, <1>4, <1>5

--------------------------------------------------------------------------------
\* The versions are finitely many, and the latest of those listed is well defined.
LEMMA ListingsFinite == /\ IsFiniteSet(Listings)
                        /\ \A S \in SUBSET Listings : IsFiniteSet(S) /\ Cardinality(S) \in Nat
  <1> DEFINE f == [x \in Items |-> x.ver]
  <1>1. f \in Surjection(Items, Versions)
    BY DEF Surjection, Versions
  <1>2. IsFiniteSet(Versions)
    BY <1>1, FS_Surjection, CatalogueAssumption
  <1>3. Listings \in SUBSET Versions
    BY DEF Listings
  <1>4. IsFiniteSet(Listings)
    BY <1>2, <1>3, FS_Subset
  <1> QED
    BY <1>4, FS_Subset, FS_CardinalityType

LEMMA LatestIs ==
    ASSUME Listings # {}
    PROVE  Latest \in Listings /\ \A w \in Listings : w <= Latest
  <1> DEFINE R == {p \in Nat \X Nat : p[1] < p[2]}
  <1>1. Listings \subseteq Nat
    BY CatalogueAssumption DEF Listings
  <1>2. \A x, y \in Nat : <<x, y>> \in R <=> x < y
    OBVIOUS
  <1>3. PICK m \in Listings : \A x \in Listings : <<m, x>> \notin R
    <2>1. /\ \A x \in Listings : <<x, x>> \notin R
          /\ \A x, y, z \in Listings : <<x, y>> \in R /\ <<y, z>> \in R => <<x, z>> \in R
      BY <1>1, <1>2
    <2> HIDE DEF R
    <2> QED
      BY <2>1, ListingsFinite, Extreme
  <1>4. \A w \in Listings : w <= m
    <2>1. \A w \in Listings : w \in Nat /\ m \in Nat /\ ~(m < w)
      BY <1>1, <1>2, <1>3
    <2> QED
      BY <2>1
  <1> QED
    BY <1>4 DEF Latest

\* The order of the imports, and of the versions of one day.
Older(w, v) == index[w].born < index[v].born \/ (index[w].born = index[v].born /\ w < v)

\* The candidates are in excess, no more and no less, and never the latest.
LEMMA CandidatesCount ==
    ASSUME TypeOK
    PROVE  /\ Candidates \subseteq Listings \ {Latest}
           /\ Excess <= 0 => Candidates = {}
           /\ Excess > 0 => Cardinality(Candidates) = Excess
  <1>1. Candidates \subseteq Listings \ {Latest} /\ (Excess <= 0 => Candidates = {})
    <2>1. Excess \in Int
      BY ListingsFinite, CatalogueAssumption DEF Excess
    <2> QED
      BY <2>1 DEF Candidates
  <1>2. ASSUME Excess > 0 PROVE Cardinality(Candidates) = Excess
    <2> DEFINE S == Listings \ {Latest}
               R == {p \in S \X S : Older(p[1], p[2])}
               First == FirstIn(S, R, Excess)
    <2>1. \A v \in Listings : v \in Nat /\ index[v].born \in Nat
      <3>1. \A v \in Listings : v \in Versions /\ index[v] \in Entry
        BY DEF TypeOK, Indexes, Listings, Known
      <3>2. \A e \in Entry : e.born \in Nat
        BY CatalogueAssumption DEF Entry, Days
      <3>3. Versions \subseteq Nat
        BY CatalogueAssumption
      <3> QED
        BY <3>1, <3>2, <3>3
    <2>2. \A x, y \in S : <<x, y>> \in R <=> Older(x, y)
      <3> HIDE DEF S
      <3> QED
        BY Zenon
    <2>3. Cardinality(Listings) \in Nat /\ MaxVersions \in Nat /\ MaxVersions > 0
      BY ListingsFinite, CatalogueAssumption
    <2>4. Excess \in Nat /\ Excess <= Cardinality(Listings) - 1
      BY <1>2, <2>3 DEF Excess
    <2>5. Listings # {}
      <3>1. Cardinality(Listings) # 0
        BY <2>3, <2>4
      <3> QED
        BY <3>1, FS_EmptySet
    <2>6. IsFiniteSet(S) /\ Cardinality(S) = Cardinality(Listings) - 1
      BY <2>5, LatestIs, ListingsFinite, FS_RemoveElement
    <2>7. /\ \A x \in S : <<x, x>> \notin R
          /\ \A x, y \in S : x = y \/ <<x, y>> \in R \/ <<y, x>> \in R
          /\ \A x, y, z \in S : <<x, y>> \in R /\ <<y, z>> \in R => <<x, z>> \in R
      <3>1. \A x \in S : x \in Nat /\ index[x].born \in Nat
        BY <2>1
      <3> HIDE DEF R, S
      <3>2. \A x \in S : <<x, x>> \notin R
        BY <2>2, <3>1 DEF Older
      <3>3. \A x, y \in S : x = y \/ <<x, y>> \in R \/ <<y, x>> \in R
        <4> SUFFICES ASSUME NEW x \in S, NEW y \in S
                     PROVE  x = y \/ Older(x, y) \/ Older(y, x)
          BY <2>2
        <4>1. x \in Nat /\ y \in Nat /\ index[x].born \in Nat /\ index[y].born \in Nat
          BY <3>1
        <4> QED
          BY <4>1 DEF Older
      <3>4. \A x, y, z \in S : <<x, y>> \in R /\ <<y, z>> \in R => <<x, z>> \in R
        <4> SUFFICES ASSUME NEW x \in S, NEW y \in S, NEW z \in S, Older(x, y), Older(y, z)
                     PROVE  Older(x, z)
          BY <2>2
        <4>1. /\ x \in Nat /\ y \in Nat /\ z \in Nat
              /\ index[x].born \in Nat /\ index[y].born \in Nat /\ index[z].born \in Nat
          BY <3>1
        <4> QED
          BY <4>1 DEF Older
      <3> QED
        BY <3>2, <3>3, <3>4
    <2>8. Cardinality(First) = Excess
      <3>1. Excess <= Cardinality(S)
        BY <2>4, <2>6
      <3>2. IsFiniteSet(S) /\ Excess \in Nat
        BY <2>4, <2>6
      <3> HIDE DEF S, R
      <3> QED
        BY <2>7, <3>1, <3>2, FewFirst
    <2>9. Candidates = First
      <3>1. \A x \in S : {y \in S : <<y, x>> \in R} = {w \in S : Older(w, x)}
        <4> HIDE DEF S, R
        <4> QED
          BY <2>2
      <3>2. \A v : v \in Candidates <=>
              /\ v \in Listings /\ v # Latest /\ Excess > 0
              /\ Cardinality({w \in S : Older(w, v)}) < Excess
        BY Zenon DEF Candidates, Older
      <3>3. \A v : v \in First <=> v \in S /\ Cardinality({w \in S : Older(w, v)}) < Excess
        <4> HIDE DEF S, R
        <4> QED
          BY <3>1, Zenon DEF FirstIn, BelowIn
      <3>4. Candidates \subseteq Listings
        BY DEF Candidates
      <3>5. \A v : v \in Candidates <=> v \in First
        <4> HIDE DEF First
        <4> QED
          BY <1>2, <3>2, <3>3, Zenon
      <3> HIDE DEF First
      <3> QED
        BY <3>5, Zenon
    <2> QED
      BY <2>8, <2>9
  <1> QED
    BY <1>1, <1>2

--------------------------------------------------------------------------------
\* What a collector holds at each of its steps; the words it keeps, if it is quiet.
Collecting(h) ==
    /\ work[h].pc \in {"purge", "count", "collect", "report"} => work[h].item = None /\ work[h].op = "collect"
    /\ h \in quiet =>
         /\ work[h].op = "collect"
         /\ work[h].pc \in {"collect", "rows", "files", "drop", "dropping", "report"}
         /\ work[h].pc \in {"rows", "files", "drop", "dropping"} => work[h].item \in Items

\* What CollectorKeepsItsWord says of one collector, of the versions D that it is to delete.
Word(D) ==
    /\ Listings # {} => Latest \in Listings \ D
    /\ D \cap Listings # {} => Cardinality(Listings \ D) >= MaxVersions
    /\ Cardinality(Listings \ D) > MaxVersions => \E v \in Listings \ D : ~OldEnough(v)

WordAt(h) == h \in quiet => Word(Doomed(h))

CollectInv == \A h \in Handlers : Collecting(h) /\ WordAt(h)

LEMMA CollectInit == Init => CollectInv
  BY DEF Init, CollectInv, Collecting, WordAt, Idle

\* The count leaves the latest version, as many versions as the limit, and when more, a young one.
LEMMA CountWord ==
    ASSUME TypeOK
    PROVE  Word({w \in Candidates : OldEnough(w)})
  <1> DEFINE D == {w \in Candidates : OldEnough(w)}
             kept == Listings \ D
  <1>1. D \in SUBSET Candidates /\ D \in SUBSET Listings /\ Candidates \in SUBSET Listings /\ Latest \notin D
    BY CandidatesCount
  <1>2. Cardinality(D) \in Nat /\ Cardinality(Candidates) \in Nat /\ Cardinality(Listings) \in Nat
    <2> HIDE DEF D
    <2> QED
      BY <1>1, ListingsFinite
  <1>3. Cardinality(D) <= Cardinality(Candidates)
    <2> HIDE DEF D
    <2> QED
      BY <1>1, ListingsFinite, FS_Subset
  <1>4. Cardinality(kept) = Cardinality(Listings) - Cardinality(D)
    <2>1. Listings \cap D = D
      BY <1>1
    <2> HIDE DEF D
    <2> QED
      BY <2>1, ListingsFinite, FS_Difference
  <1>5. /\ MaxVersions \in Nat /\ MaxVersions > 0
        /\ Excess = Cardinality(Listings) - MaxVersions
    BY CatalogueAssumption DEF Excess
  <1>6. D \cap Listings # {} => Cardinality(kept) >= MaxVersions
    <2>1. ASSUME D \cap Listings # {} PROVE Excess > 0
      <3>1. Candidates # {} /\ Excess \in Int
        BY <1>2, <1>5, <2>1
      <3> QED
        BY <3>1, CandidatesCount
    <2> HIDE DEF D, kept
    <2> QED
      BY <1>2, <1>3, <1>4, <1>5, <2>1, CandidatesCount
  <1>7. ASSUME Cardinality(kept) > MaxVersions, \A v \in kept : OldEnough(v) PROVE FALSE
    <2>1. D = Candidates
      BY <1>1, <1>7
    <2>2. Cardinality(D) = 0 \/ Cardinality(D) = Excess
      <3>1. Excess \in Int
        BY <1>2, <1>5
      <3>2. CASE Excess > 0
        BY <2>1, <3>2, CandidatesCount
      <3>3. CASE Excess <= 0
        <4>1. D = {}
          BY <2>1, <3>3, CandidatesCount
        <4> HIDE DEF D
        <4> QED
          BY <4>1, FS_EmptySet
      <3> HIDE DEF D
      <3> QED
        BY <3>1, <3>2, <3>3
    <2>3. Excess > 0
      <3> HIDE DEF D, kept
      <3> QED
        BY <1>2, <1>4, <1>5, <1>7
    <2>4. Cardinality(D) = Excess
      BY <2>1, <2>3, CandidatesCount
    <2> HIDE DEF D, kept
    <2> QED
      BY <1>2, <1>4, <1>5, <1>7, <2>4
  <1>8. Listings # {} => Latest \in Listings \ D
    BY <1>1, LatestIs
  <1> HIDE DEF D
  <1>9. Word(D)
    BY <1>6, <1>7, <1>8 DEF Word
  <1> QED
    BY <1>9 DEF D

\* While the index and the day stay, so do the words of a collector whose versions to delete stay.
LEMMA WordStays ==
    ASSUME NEW h \in Handlers, WordAt(h), h \in quiet, UNCHANGED <<index, day>>, Doomed(h)' = Doomed(h)
    PROVE  WordAt(h)'
  <1>1. Listings' = Listings /\ Latest' = Latest /\ \A v \in Versions : OldEnough(v)' <=> OldEnough(v)
    BY DEF Listings, Known, Latest, OldEnough
  <1>2. Word(Doomed(h))
    BY DEF WordAt
  <1> QED
    BY <1>1, <1>2 DEF WordAt, Word, Listings

\* A version deleted from the index leaves the same ones.
LEMMA WordDropped ==
    ASSUME NEW h \in Handlers, Word(Doomed(h)), NEW v \in Doomed(h), day' = day,
           index' = [w \in Versions |-> IF w = v THEN None ELSE index[w]],
           Doomed(h)' \subseteq Doomed(h), Doomed(h) \subseteq Doomed(h)' \cup {v}
    PROVE  WordAt(h)'
  <1> DEFINE D == Doomed(h)
             kept == Listings \ D
  <1>1. Listings' = Listings \ {v}
    BY DEF Listings, Known
  <1>2. (Listings \ Doomed(h))' = kept
    BY <1>1
  <1>3. \A w \in kept : OldEnough(w)' <=> OldEnough(w)
    BY DEF OldEnough, Listings
  <1>4. ASSUME Listings' # {} PROVE Latest' \in kept
    <2>1. Latest \in kept /\ \A w \in Listings : w <= Latest
      BY <1>1, <1>4, LatestIs DEF Word
    <2>2. Latest \in Listings' /\ \A w \in Listings' : w <= Latest
      BY <1>1, <2>1
    <2>3. \A x, y \in Listings' : (\A w \in Listings' : w <= x) /\ (\A w \in Listings' : w <= y) => x = y
      <3>1. Listings' \subseteq Nat
        BY CatalogueAssumption DEF Listings
      <3> QED
        BY <3>1
    <2>4. Latest' = CHOOSE x \in Listings' : \A w \in Listings' : w <= x
      BY DEF Latest
    <2>5. Latest' \in Listings' /\ \A w \in Listings' : w <= Latest'
      BY <2>2, <2>4
    <2>6. Latest' = Latest
      BY <2>2, <2>3, <2>5
    <2> QED
      BY <2>1, <2>6
  <1>5. Doomed(h)' \cap Listings' # {} => D \cap Listings # {}
    BY <1>1
  <1>6. Word(D)
    OBVIOUS
  <1> QED
    BY <1>1, <1>2, <1>3, <1>4, <1>5, <1>6 DEF WordAt, Word

--------------------------------------------------------------------------------
\* The other handlers: who writes the index ends the quiet of the collectors.
LEMMA QuietFrame ==
    ASSUME NEW h \in Handlers, Request(h) \/ Continue(h)
    PROVE  /\ day' = day /\ quiet' \subseteq quiet \cup {h}
           /\ index' = index \/ quiet' \subseteq quiet \cap {h}
           /\ h \notin quiet /\ ~At(h, "count") => h \notin quiet'
  BY DEF Request, Continue, Add, Reenrich, RescanPackage, UpdateKevFlag, DeleteVersion, DeletePackage, Sync,
         RunRetention, RunVersionGc, OpenFile, WriteFile, SaveRow, ReadIndex, AddToIndex, Unlink, EraseRows,
         EraseFiles, RemoveFromIndex, ReplaceIndex, Purge, Count, Collect, Report

LEMMA OthersCollect ==
    ASSUME CollectInv, NEW h \in Handlers, Request(h) \/ Continue(h),
           NEW g \in Handlers, g # h, work'[g] = work[g]
    PROVE  Collecting(g)' /\ WordAt(g)'
  <1>1. g \in quiet' => g \in quiet /\ UNCHANGED <<index, day>>
    BY QuietFrame
  <1>2. Collecting(g)'
    BY <1>1 DEF CollectInv, Collecting
  <1>3. Doomed(g)' = Doomed(g)
    BY DEF Doomed
  <1>4. CASE g \in quiet'
    BY <1>1, <1>2, <1>3, <1>4, WordStays DEF CollectInv
  <1>5. CASE g \notin quiet'
    BY <1>2, <1>5 DEF WordAt
  <1> QED
    BY <1>2, <1>4, <1>5

\* A step in which the handler is no collector before or after.
LEMMA NoCollector ==
    ASSUME NEW h \in Handlers, Request(h) \/ Continue(h), h \notin quiet, ~At(h, "count"),
           work'[h].pc \in {"purge", "count", "collect", "report"} => work'[h].item = None /\ work'[h].op = "collect"
    PROVE  Collecting(h)' /\ WordAt(h)'
  BY QuietFrame DEF Collecting, WordAt

\* A collector that goes on, with the same versions to delete.
LEMMA GoesOn ==
    ASSUME CollectInv, NEW h \in Handlers, Request(h) \/ Continue(h), index' = index, ~At(h, "count"),
           work'[h].op = work[h].op, work'[h].item = work[h].item, work'[h].todo = work[h].todo,
           work'[h].pc \in {"purge", "count", "collect", "report"} => work'[h].item = None /\ work'[h].op = "collect",
           h \in quiet =>
             /\ work'[h].pc \in {"collect", "rows", "files", "drop", "dropping", "report"}
             /\ work'[h].pc \in {"rows", "files", "drop", "dropping"} => work[h].item \in Items
    PROVE  Collecting(h)' /\ WordAt(h)'
  <1>1. day' = day /\ (h \in quiet' => h \in quiet)
    BY QuietFrame
  <1>2. Collecting(h)'
    BY <1>1 DEF CollectInv, Collecting
  <1>3. Doomed(h)' = Doomed(h)
    BY DEF Doomed
  <1>4. WordAt(h)'
    BY <1>1, <1>3, WordStays DEF CollectInv, WordAt
  <1> QED
    BY <1>2, <1>4

LEMMA GoLocal ==
    ASSUME TypeOK, NEW h \in Handlers, NEW p \in Steps, Go(h, p)
    PROVE  /\ work'[h].pc = p /\ work'[h].op = work[h].op
           /\ work'[h].item = work[h].item /\ work'[h].todo = work[h].todo
  <1>1. work[h] \in Works /\ work'[h] = [work[h] EXCEPT !.pc = p]
    BY DEF TypeOK, Go
  <1> QED
    BY <1>1 DEF Works

LEMMA RequestCollects ==
    ASSUME TypeOK, CollectInv, NEW h \in Handlers, Request(h)
    PROVE  Collecting(h)' /\ WordAt(h)'
  <1>1. At(h, "idle")
    BY DEF Request, Add, Reenrich, RescanPackage, UpdateKevFlag, DeleteVersion, DeletePackage, Sync,
           RunRetention, RunVersionGc, Begin
  <1>2. h \notin quiet /\ ~At(h, "count")
    BY <1>1 DEF At, CollectInv, Collecting
  <1>3. \E w : /\ work' = [work EXCEPT ![h] = w]
               /\ w.pc \in {"purge", "count", "collect", "report"} => w.item = None /\ w.op = "collect"
    <2>1. ASSUME NEW op, NEW p, NEW x, NEW b, NEW s, Begin(h, op, p, x, b, s),
               p \in {"json", "unlink"} \/ (x = None /\ op = "collect")
          PROVE  \E w : /\ work' = [work EXCEPT ![h] = w]
                        /\ w.pc \in {"purge", "count", "collect", "report"} => w.item = None /\ w.op = "collect"
      <3> DEFINE w == [Idle EXCEPT !.op = op, !.pc = p, !.item = x, !.born = b, !.todo = s]
      <3>1. work' = [work EXCEPT ![h] = w]
        BY <2>1 DEF Begin
      <3>2. w.pc = p /\ w.item = x /\ w.op = op
        BY DEF Idle
      <3> HIDE DEF w
      <3> QED
        BY <2>1, <3>1, <3>2
    <2>2. CASE Sync(h)
      <3> DEFINE w == [Idle EXCEPT !.op = "sync", !.pc = "syncing", !.read = Rebuilt(Listing)]
      <3>1. work' = [work EXCEPT ![h] = w]
        BY <2>2 DEF Sync
      <3>2. w.pc = "syncing"
        BY DEF Idle
      <3> HIDE DEF w
      <3> QED
        BY <3>1, <3>2
    <2>3. CASE ~Sync(h)
      BY <2>1, <2>3 DEF Request, Add, Reenrich, RescanPackage, UpdateKevFlag, DeleteVersion, DeletePackage,
                        RunRetention, RunVersionGc
    <2> QED
      BY <2>2, <2>3
  <1>4. work'[h].pc \in {"purge", "count", "collect", "report"} => work'[h].item = None /\ work'[h].op = "collect"
    <2>1. PICK w : /\ work' = [work EXCEPT ![h] = w]
                   /\ w.pc \in {"purge", "count", "collect", "report"} => w.item = None /\ w.op = "collect"
      BY <1>3
    <2>2. work'[h] = w
      BY <2>1 DEF TypeOK
    <2> QED
      BY <2>1, <2>2
  <1> QED
    BY <1>2, <1>4, NoCollector

\* The steps of a manifest and of the index that are no collector's.
LEMMA OtherWorkCollects ==
    ASSUME TypeOK, CollectInv, NEW h \in Handlers,
           \/ OpenFile(h) \/ WriteFile(h) \/ SaveRow(h) \/ ReadIndex(h, "add", "adding") \/ AddToIndex(h)
           \/ Unlink(h) \/ ReplaceIndex(h)
    PROVE  Collecting(h)' /\ WordAt(h)'
  <1>1. work[h].pc \in {"json", "write", "row", "add", "adding", "unlink", "syncing"}
    BY DEF OpenFile, WriteFile, SaveRow, ReadIndex, AddToIndex, Unlink, ReplaceIndex, At
  <1>2. h \notin quiet /\ ~At(h, "count")
    BY <1>1 DEF At, CollectInv, Collecting
  <1>3. work'[h].pc \in {"write", "row", "add", "adding", "idle", "rows"}
    <2>1. ASSUME ReadIndex(h, "add", "adding") PROVE work'[h].pc = "adding"
      BY <2>1 DEF ReadIndex, TypeOK, Works
    <2> QED
      BY <2>1, GoLocal, ReturnWork DEF OpenFile, WriteFile, SaveRow, AddToIndex, Unlink, ReplaceIndex, Steps
  <1>4. Continue(h)
    BY DEF Continue
  <1> QED
    BY <1>2, <1>3, <1>4, NoCollector

LEMMA CollectorCollects ==
    ASSUME TypeOK, Holds, CollectInv, NEW h \in Handlers,
           \/ EraseRows(h) \/ EraseFiles(h) \/ ReadIndex(h, "drop", "dropping") \/ RemoveFromIndex(h)
           \/ Purge(h) \/ Count(h) \/ Collect(h) \/ Report(h)
    PROVE  Collecting(h)' /\ WordAt(h)'
  <1>0. Continue(h) /\ work[h] \in Works /\ Collecting(h) /\ WordAt(h) /\ Holding(h)
    BY DEF Continue, TypeOK, CollectInv, Holds
  <1>1. CASE EraseRows(h) \/ EraseFiles(h)
    <2>1. \E p \in {"files", "drop"} : Go(h, p)
      BY <1>1 DEF EraseRows, EraseFiles
    <2>2. /\ work'[h].op = work[h].op /\ work'[h].item = work[h].item /\ work'[h].todo = work[h].todo
          /\ work'[h].pc \in {"files", "drop"}
      BY <2>1, GoLocal DEF Steps
    <2>3. index' = index /\ work[h].pc \in {"rows", "files"}
      BY <1>1 DEF EraseRows, EraseFiles, At
    <2> QED
      BY <1>0, <2>2, <2>3, GoesOn DEF Collecting, At
  <1>2. CASE ReadIndex(h, "drop", "dropping")
    <2>1. work'[h] = [work[h] EXCEPT !.pc = "dropping", !.read = index]
      BY <1>2 DEF ReadIndex, TypeOK
    <2>2. /\ work'[h].op = work[h].op /\ work'[h].item = work[h].item /\ work'[h].todo = work[h].todo
          /\ work'[h].pc = "dropping"
      BY <1>0, <2>1 DEF Works
    <2>3. index' = index /\ work[h].pc = "drop"
      BY <1>2 DEF ReadIndex, At
    <2> QED
      BY <1>0, <2>2, <2>3, GoesOn DEF Collecting, At
  <1>3. CASE RemoveFromIndex(h)
    <2>1. work[h].pc = "dropping" /\ work[h].read = index
      BY <1>0, <1>3 DEF RemoveFromIndex, At, Holding
    <2>2. CASE work[h].op = "collect"
      <3>1. work'[h] = [work[h] EXCEPT !.pc = "collect", !.item = None, !.read = NoEntries]
        BY <1>3, <2>2 DEF RemoveFromIndex, TypeOK
      <3>2. /\ work'[h].op = "collect" /\ work'[h].item = None /\ work'[h].todo = work[h].todo
            /\ work'[h].pc = "collect"
        BY <1>0, <2>2, <3>1 DEF Works
      <3>3. quiet' \subseteq quiet /\ day' = day
        BY <1>3 DEF RemoveFromIndex
      <3>4. Collecting(h)'
        BY <3>2 DEF Collecting
      <3>5. ASSUME h \in quiet' PROVE WordAt(h)'
        <4>1. h \in quiet /\ Word(Doomed(h)) /\ work[h].item \in Items
          BY <1>0, <2>1, <3>3, <3>5 DEF Collecting, WordAt
        <4>2. work[h].item # None
          BY <4>1, CatalogueAssumption
        <4> DEFINE v == work[h].item.ver
        <4>3. v \in Doomed(h) /\ Doomed(h)' \subseteq Doomed(h) /\ Doomed(h) \subseteq Doomed(h)' \cup {v}
          BY <3>2, <4>2 DEF Doomed
        <4>4. index' = [w \in Versions |-> IF w = v THEN None ELSE index[w]]
          BY <1>3, <2>1, <4>2 DEF RemoveFromIndex, Removed
        <4> QED
          BY <3>3, <4>1, <4>3, <4>4, WordDropped
      <3> QED
        BY <3>4, <3>5 DEF WordAt
    <2>3. CASE work[h].op # "collect"
      <3>1. h \notin quiet /\ ~At(h, "count")
        BY <1>0, <2>1, <2>3 DEF Collecting, At
      <3>2. work'[h].pc = "idle"
        BY <1>3, <2>3, ReturnWork DEF RemoveFromIndex
      <3> QED
        BY <1>0, <3>1, <3>2, NoCollector
    <2> QED
      BY <2>2, <2>3
  <1>4. CASE Purge(h)
    <2>1. h \notin quiet /\ ~At(h, "count") /\ work[h].item = None /\ work[h].op = "collect"
      BY <1>0, <1>4 DEF Purge, At, Collecting
    <2>2. work'[h].item = None /\ work'[h].op = "collect"
      <3>1. CASE work[h].todo = {}
        BY <1>4, <2>1, <3>1, GoLocal DEF Purge, Steps
      <3>2. CASE work[h].todo # {}
        <4>1. PICK x \in work[h].todo : work' = [work EXCEPT ![h] = [@ EXCEPT !.todo = work[h].todo \ {x}]]
          BY <1>4, <3>2 DEF Purge
        <4>2. work'[h] = [work[h] EXCEPT !.todo = work[h].todo \ {x}]
          BY <4>1 DEF TypeOK
        <4> QED
          BY <1>0, <2>1, <4>2 DEF Works
      <3> QED
        BY <3>1, <3>2
    <2> QED
      BY <1>0, <2>1, <2>2, NoCollector
  <1>5. CASE Count(h)
    <2> DEFINE D    == {w \in Candidates : OldEnough(w)}
               todo == {ItemOf(v) : v \in D}
    <2>1. work[h].pc = "count" /\ work[h].item = None
      BY <1>0, <1>5 DEF Count, At, Collecting
    <2>2. work'[h] = [work[h] EXCEPT !.pc = "collect", !.todo = todo]
      BY <1>5 DEF Count, TypeOK
    <2>3. /\ work'[h].pc = "collect" /\ work'[h].item = None /\ work'[h].todo = todo
          /\ work'[h].op = work[h].op
      <3> HIDE DEF todo
      <3> QED
        BY <1>0, <2>1, <2>2 DEF Works
    <2>4. work[h].op = "collect"
      BY <1>0, <2>1 DEF Collecting
    <2>5. Collecting(h)'
      BY <2>3, <2>4 DEF Collecting
    <2>6. Doomed(h)' = D
      <3>1. \A v \in Versions : ItemOf(v).ver = v
        BY DEF ItemOf
      <3>2. {x.ver : x \in todo} = D
        <4>1. D \subseteq Versions
          BY DEF Candidates, Listings
        <4>2. \A v : v \in {x.ver : x \in todo} <=> \E w \in D : v = ItemOf(w).ver
          <5> HIDE DEF D
          <5> QED
            OBVIOUS
        <4> HIDE DEF D, todo
        <4> QED
          BY <3>1, <4>1, <4>2
      <3> HIDE DEF D, todo
      <3> QED
        BY <2>3, <3>2 DEF Doomed
    <2>7. UNCHANGED <<index, day>>
      BY <1>5 DEF Count
    <2>8. Word(D)
      BY CountWord
    <2>9. WordAt(h)'
      <3>1. Listings' = Listings /\ Latest' = Latest /\ \A v \in Versions : OldEnough(v)' <=> OldEnough(v)
        BY <2>7 DEF Listings, Known, Latest, OldEnough
      <3> HIDE DEF D
      <3> QED
        BY <2>6, <2>8, <3>1 DEF WordAt, Word, Listings
    <2> QED
      BY <2>5, <2>9
  <1>6. CASE Collect(h)
    <2>1. work[h].pc = "collect" /\ work[h].item = None /\ work[h].op = "collect"
      BY <1>0, <1>6 DEF Collect, At, Collecting
    <2>2. UNCHANGED <<index, day, quiet>>
      BY <1>6 DEF Collect
    <2>3. CASE work[h].todo = {}
      <3>1. /\ work'[h].op = work[h].op /\ work'[h].item = work[h].item /\ work'[h].todo = work[h].todo
            /\ work'[h].pc = "report"
        BY <1>6, <2>3, GoLocal DEF Collect, Steps
      <3> QED
        BY <1>0, <2>1, <2>2, <3>1, GoesOn DEF At
    <2>4. CASE work[h].todo # {}
      <3>1. PICK x \in work[h].todo :
              work' = [work EXCEPT ![h] = [@ EXCEPT !.pc = "rows", !.item = x, !.todo = work[h].todo \ {x}]]
        BY <1>6, <2>4 DEF Collect
      <3>2. work'[h] = [work[h] EXCEPT !.pc = "rows", !.item = x, !.todo = work[h].todo \ {x}]
        BY <3>1 DEF TypeOK
      <3>3. /\ work'[h].pc = "rows" /\ work'[h].op = work[h].op
            /\ work'[h].item = x /\ work'[h].todo = work[h].todo \ {x}
        BY <1>0, <3>2 DEF Works
      <3>4. x \in Items /\ x # None
        BY <1>0, CatalogueAssumption DEF Works
      <3>5. Collecting(h)'
        BY <2>1, <3>3, <3>4 DEF Collecting
      <3>6. Doomed(h)' = Doomed(h)
        BY <2>1, <3>3, <3>4 DEF Doomed
      <3>7. CASE h \in quiet
        BY <1>0, <2>2, <3>5, <3>6, <3>7, WordStays
      <3>8. CASE h \notin quiet
        BY <2>2, <3>5, <3>8 DEF WordAt
      <3> QED
        BY <3>7, <3>8
    <2> QED
      BY <2>3, <2>4
  <1>7. CASE Report(h)
    <2>1. h \notin quiet' /\ work'[h].pc = "idle"
      BY <1>7, ReturnWork DEF Report
    <2> QED
      BY <2>1 DEF Collecting, WordAt
  <1> QED
    BY <1>1, <1>2, <1>3, <1>4, <1>5, <1>6, <1>7

LEMMA CollectStep ==
    ASSUME Inv, CollectInv, [Next]_vars
    PROVE  CollectInv'
  <1>1. ASSUME NEW h \in Handlers, Request(h) \/ Continue(h)
        PROVE  CollectInv'
    <2>1. Collecting(h)' /\ WordAt(h)'
      BY <1>1, RequestCollects, OtherWorkCollects, CollectorCollects DEF Continue, Inv
    <2>2. ASSUME NEW g \in Handlers, g # h PROVE Collecting(g)' /\ WordAt(g)'
      <3>1. work'[g] = work[g]
        BY <1>1, <2>2, RequestKept, SaveKept, IndexKept, EraseKept DEF Continue, Kept, Frame
      <3> QED
        BY <1>1, <2>2, <3>1, OthersCollect
    <2> QED
      BY <2>1, <2>2 DEF CollectInv
  <1>2. CASE Browse \/ UNCHANGED vars
    <2>1. UNCHANGED <<index, day, quiet, work>>
      BY <1>2 DEF Browse, vars
    <2>2. ASSUME NEW h \in Handlers PROVE Collecting(h)' /\ WordAt(h)'
      <3>1. Collecting(h)'
        BY <2>1 DEF CollectInv, Collecting
      <3>2. Doomed(h)' = Doomed(h)
        BY <2>1 DEF Doomed
      <3>3. CASE h \in quiet
        BY <2>1, <3>1, <3>2, <3>3, WordStays DEF CollectInv
      <3>4. CASE h \notin quiet
        BY <2>1, <3>1, <3>4 DEF WordAt
      <3> QED
        BY <3>3, <3>4
    <2> QED
      BY <2>2 DEF CollectInv
  <1>3. CASE Crash
    BY <1>3 DEF Crash, CollectInv, Collecting, WordAt, Idle
  <1>4. CASE NextDay
    BY <1>4 DEF NextDay, CollectInv, Collecting, WordAt
  <1> QED
    BY <1>1, <1>2, <1>3, <1>4 DEF Next

\* For any versions, days and limits, while nobody else writes the index: the collector keeps the
\* latest version and as many as the limit, and stops above it only for versions too young
\* (enforce_version_limit of services/snapshots.py).
THEOREM CollectorKeepsItsWordHolds == Spec => []CollectorKeepsItsWord
  <1>1. Inv /\ CollectInv /\ [Next]_vars => CollectInv'
    BY CollectStep
  <1>2. Inv /\ CollectInv => CollectorKeepsItsWord
    <2>1. ASSUME TypeOK, CollectInv, NEW h \in quiet PROVE Word(Doomed(h))
      BY <2>1 DEF CollectInv, WordAt, TypeOK
    <2> QED
      BY <2>1 DEF CollectorKeepsItsWord, Word, Inv
  <1> QED
    BY <1>1, <1>2, InitInv, StepInv, CollectInit, PTL DEF Spec
================================================================================
