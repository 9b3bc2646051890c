--------------------------- MODULE SourceIndexProofs ---------------------------
(***************************************************************************)
(* Proofs about SourceIndex: with one sync at a time and a clear() that    *)
(* works, the fingerprint protocol holds for any number of revisions and   *)
(* of batches, for the three formats and whatever fails.                   *)
(***************************************************************************)
EXTENDS SourceIndex, TLAPS

\* The assumption under which index_state.py's protocol is sound.
Alone(j) == Jobs = {j} /\ ~ClearMayFail

\* What the only job knows at each of its steps.
Progress(j) ==
    /\ pc[j] # "idle" => got[j] \in Revisions
    /\ pc[j] # "idle" /\ Format # "rpm" => expect[j] # None
    /\ Format = "apk" /\ pc[j] # "idle" => got[j] = expect[j]
    /\ Format = "apt" /\ pc[j] \in {"clear", "delete", "write", "verify"} => got[j] = expect[j]
    /\ pc[j] = "fetch" => Format # "rpm"

\* While the rows are rewritten there is no fingerprint, and the table holds the
\* batches committed so far.
Rewriting(j) ==
    /\ pc[j] \in {"delete", "write", "verify"} => fp = None
    /\ pc[j] = "write" =>
         /\ next[j] \in 1 .. Len(Batches[got[j]])
         /\ next[j] = 1 => snap[j] = table
         /\ next[j] > 1 => snap[j] = Empty /\ table = Rows(Before(got[j], next[j]))
    /\ pc[j] = "verify" => table = Full(got[j])

\* An open transaction has deleted rows that are in the table; the upsert of the RPM version keeps
\* one row of a package.
Deleted ==
    /\ \A j \in Jobs :
         /\ pc[j] # "write" => snap[j] = Empty
         /\ \A p \in Packages : snap[j][p] <= table[p]
    /\ Format = "rpm" => \A p \in Packages : table[p] <= 1

Typed == TypeOK /\ Deleted

\* The inductive invariant of a sync that is alone.
Inv(j) == Typed /\ Progress(j) /\ Rewriting(j) /\ MarkedIsWhole

--------------------------------------------------------------------------------
\* What the parser keeps of the entries are packages, batch by batch.
LEMMA BatchesType ==
    /\ Batches \in [Revisions -> Seq(SUBSET Packages)]
    /\ \A r \in Revisions : Len(Batches[r]) > 0
    /\ Format # "rpm" => \A r \in Revisions : Len(Batches[r]) = 1
  <1>1. ASSUME NEW S \in SUBSET Stanza(Packages) PROVE Parsed(S) \in SUBSET Packages
    BY DEF Parsed, Stanza
  <1>2. ASSUME NEW r \in Revisions
        PROVE  Batches[r] \in Seq(SUBSET Packages) /\ Len(Batches[r]) = Len(Stanzas[r])
    <2>1. Stanzas[r] \in Seq(SUBSET Stanza(Packages)) /\ Len(Stanzas[r]) \in Nat
      BY SourceIndexAssumption
    <2>2. \A n \in 1 .. Len(Stanzas[r]) : Parsed(Stanzas[r][n]) \in SUBSET Packages
      BY <1>1, <2>1
    <2>3. Batches[r] = [n \in 1 .. Len(Stanzas[r]) |-> Parsed(Stanzas[r][n])]
      BY DEF Batches
    <2> QED
      BY <2>1, <2>2, <2>3
  <1> QED
    BY <1>2, SourceIndexAssumption DEF Batches

\* The rows after a batch are those before it and the batch.
LEMMA BatchAdds ==
    ASSUME NEW r \in Revisions, NEW n \in 1 .. Len(Batches[r])
    PROVE  /\ Before(r, 1) = {}
           /\ Before(r, n + 1) = Before(r, n) \cup Batches[r][n]
           /\ Batches[r][n] \subseteq Packages
  <1>1. Batches[r] \in Seq(SUBSET Packages) /\ n \in 1 .. Len(Batches[r]) /\ Len(Batches[r]) \in Nat
    BY BatchesType
  <1>2. Batches[r][n] \subseteq Packages
    BY <1>1
  <1>3. \A k \in Int : k \in 1 .. n <=> k \in 1 .. (n - 1) \/ k = n
    BY <1>1
  <1>4. Before(r, n + 1) = Before(r, n) \cup Batches[r][n]
    BY <1>1, <1>2, <1>3 DEF Before
  <1>5. Before(r, 1) = {}
    BY DEF Before
  <1> QED
    BY <1>2, <1>4, <1>5

LEMMA RowsType == Empty \in [Packages -> Nat] /\ \A s : Rows(s) \in [Packages -> Nat]
  BY DEF Empty, Rows

\* Types are kept, whatever syncs overlap.
LEMMA TypeStep ==
    ASSUME Typed, [Next]_vars
    PROVE  Typed'
  <1> USE SourceIndexAssumption, RowsType DEF TypeOK, Goto, Steps, Mishap, jobVars, Typed
  <1>1. CASE UNCHANGED vars
    BY <1>1 DEF vars, Deleted
  <1>2. ASSUME NEW j \in Jobs, pc[j] # "write", UNCHANGED <<table, snap>>, NEW step, pc' = [pc EXCEPT ![j] = step]
        PROVE  Deleted'
    BY <1>2 DEF Deleted
  <1>3. ASSUME NEW j \in Jobs, Begin(j) \/ Refuse(j) PROVE Typed'
    <2>1. CASE Refuse(j)
      BY <1>1, <2>1 DEF Refuse
    <2>2. CASE Begin(j)
      <3>1. expect' \in [Jobs -> Revisions \cup {None}] /\ got' \in [Jobs -> Revisions \cup {None}]
        BY <2>2 DEF Begin
      <3>2. TypeOK'
        BY <2>2, <3>1 DEF Begin
      <3>3. Deleted'
        BY <1>2, <2>2 DEF Begin
      <3> QED
        BY <3>2, <3>3
    <2> QED
      BY <1>3, <2>1, <2>2
  <1>4. ASSUME NEW j \in Jobs, Skip(j) \/ GoOn(j) \/ VerifyFails(j) \/ Remember(j) PROVE Typed'
    <2>1. TypeOK'
      <3>1. CASE Skip(j) \/ VerifyFails(j)
        BY <3>1 DEF Skip, VerifyFails
      <3>2. CASE GoOn(j)
        BY <3>2 DEF GoOn
      <3>3. CASE Remember(j)
        <4>1. fp' \in Revisions \cup {None}
          BY <3>3 DEF Remember
        <4> QED
          BY <3>3, <4>1 DEF Remember
      <3> QED
        BY <1>4, <3>1, <3>2, <3>3
    <2>2. Deleted'
      BY <1>2, <1>4 DEF Skip, GoOn, VerifyFails, Remember
    <2> QED
      BY <2>1, <2>2
  <1>5. ASSUME NEW j \in Jobs, Fetch(j) \/ Clear(j) PROVE Typed'
    <2>1. TypeOK'
      <3>1. got' \in [Jobs -> Revisions \cup {None}]
        BY <1>5 DEF Fetch, Clear
      <3>2. CASE Fetch(j)
        BY <3>1, <3>2 DEF Fetch
      <3>3. CASE Clear(j)
        BY <3>1, <3>3 DEF Clear
      <3> QED
        BY <1>5, <3>2, <3>3
    <2>2. Deleted'
      BY <1>2, <1>5 DEF Fetch, Clear
    <2> QED
      BY <2>1, <2>2
  <1>6. ASSUME NEW j \in Jobs, Delete(j) \/ WriteFails(j) \/ Fail(j) PROVE Typed'
    <2>1. CASE Delete(j)
      BY <2>1 DEF Delete, Deleted
    <2>2. CASE WriteFails(j) \/ Fail(j)
      <3>1. TypeOK'
        <4>1. snap' \in [Jobs -> [Packages -> Nat]]
          BY <2>2 DEF WriteFails, Fail
        <4>2. CASE WriteFails(j)
          BY <4>1, <4>2 DEF WriteFails
        <4>3. CASE Fail(j)
          BY <4>1, <4>3 DEF Fail
        <4> QED
          BY <2>2, <4>2, <4>3
      <3>2. /\ snap' = [snap EXCEPT ![j] = Empty] /\ table' = table
            /\ \E step : pc' = [pc EXCEPT ![j] = step]
        BY <2>2 DEF WriteFails, Fail
      <3>3. Deleted'
        BY <3>2 DEF Deleted, Empty
      <3> QED
        BY <3>1, <3>3
    <2> QED
      BY <1>6, <2>1, <2>2
  <1>7. ASSUME NEW j \in Jobs, Write(j) PROVE Typed'
    <2>1. \A p \in Packages : Kept(j)[p] = table[p] - snap[j][p] /\ Kept(j)[p] \in Nat
      BY DEF Kept, Deleted
    <2>2. table' \in [Packages -> Nat]
      BY <1>7, <2>1 DEF Write
    <2>3. \A i \in Jobs, p \in Packages :
            snap'[i][p] = IF i = j \/ snap[i][p] < snap[j][p] THEN 0 ELSE snap[i][p] - snap[j][p]
      BY <1>7 DEF Write, Rest, Empty
    <2>4. snap' \in [Jobs -> [Packages -> Nat]]
      <3>1. \A i \in Jobs : Rest(snap[i], snap[j]) \in [Packages -> Nat]
        BY DEF Rest
      <3> QED
        BY <1>7, <3>1 DEF Write
    <2>5. pc' \in [Jobs -> Steps] /\ next' \in [Jobs -> Nat] /\ pc[j] = "write"
          /\ \A i \in Jobs : i # j => pc'[i] = pc[i]
      <3>1. CASE next[j] < Len(Batches[got[j]])
        BY <1>7, <3>1 DEF Write
      <3>2. CASE ~(next[j] < Len(Batches[got[j]]))
        BY <1>7, <3>2 DEF Write
      <3> QED
        BY <3>1, <3>2
    <2>6. TypeOK'
      BY <1>7, <2>2, <2>4, <2>5 DEF Write
    <2>7. ASSUME NEW i \in Jobs, pc'[i] # "write" PROVE snap'[i] = Empty
      <3>1. CASE i = j
        BY <1>7, <3>1 DEF Write
      <3>2. CASE i # j
        <4>1. snap[i] = Empty
          BY <2>5, <2>7, <3>2 DEF Deleted
        <4>2. \A p \in Packages : snap'[i][p] = 0
          BY <2>3, <4>1 DEF Empty
        <4> QED
          BY <2>4, <4>2 DEF Empty
      <3> QED
        BY <3>1, <3>2
    <2>8. ASSUME NEW i \in Jobs, NEW p \in Packages PROVE snap'[i][p] <= table'[p]
      <3>1. /\ snap[i][p] \in Nat /\ snap[j][p] \in Nat /\ table[p] \in Nat
            /\ snap[i][p] <= table[p] /\ snap[j][p] <= table[p]
            /\ Format = "rpm" => table[p] <= 1
        BY DEF Deleted
      <3>2. table'[p] = IF p \notin Batch(j) THEN Kept(j)[p]
                        ELSE IF Format = "rpm" THEN 1 ELSE Kept(j)[p] + 1
        BY <1>7 DEF Write
      <3>3. snap'[i][p] <= table[p] - snap[j][p] /\ (snap'[i][p] = 0 \/ table[p] > snap[j][p])
        BY <2>3, <3>1
      <3>4. table[p] - snap[j][p] <= table'[p]
        BY <2>1, <3>1, <3>2
      <3> QED
        BY <2>2, <2>4, <3>1, <3>3, <3>4
    <2>9. ASSUME Format = "rpm", NEW p \in Packages PROVE table'[p] <= 1
      BY <1>7, <2>1, <2>9 DEF Write, Deleted
    <2> QED
      BY <2>6, <2>7, <2>8, <2>9 DEF Deleted
  <1>8. CASE Crash
    BY <1>8 DEF Crash, Deleted, Empty
  <1>9. CASE Publish
    BY <1>9 DEF Publish, Deleted
  <1>10. CASE PurgeRows
    BY <1>10 DEF PurgeRows, Deleted, Empty
  <1> QED
    BY <1>1, <1>2, <1>3, <1>4, <1>5, <1>6, <1>7, <1>8, <1>9, <1>10 DEF Next, Step

LEMMA TypedInit == Init => Typed
  BY SourceIndexAssumption DEF Init, Typed, TypeOK, Deleted, Empty, Steps

\* However many syncs overlap, what is written is of its type: the rows of a package are never fewer
\* than none, since what a transaction deletes the others no longer have to delete.
THEOREM TypesHold == Spec => []TypeOK
  <1>1. Typed /\ [Next]_vars => Typed'
    BY TypeStep
  <1>2. Typed => TypeOK
    BY DEF Typed
  <1> QED
    BY <1>1, <1>2, TypedInit, PTL DEF Spec

--------------------------------------------------------------------------------
LEMMA ProgressStep ==
    ASSUME NEW j, Alone(j), Inv(j), [Next]_vars
    PROVE  Progress(j)'
  <1> USE SourceIndexAssumption, BatchesType DEF Typed, TypeOK, Goto, Progress, jobVars
  <1>1. j \in Jobs /\ \A i \in Jobs : i = j
    BY DEF Alone
  <1>2. CASE UNCHANGED vars \/ Refuse(j)
    BY <1>2 DEF vars, Refuse, Inv
  <1>3. CASE Begin(j)
    BY <1>1, <1>3 DEF Begin, Inv
  <1>4. CASE Skip(j) \/ GoOn(j) \/ VerifyFails(j) \/ Delete(j) \/ Remember(j)
    BY <1>1, <1>4 DEF Skip, GoOn, VerifyFails, Delete, Remember, Inv
  <1>5. CASE Fetch(j) \/ Clear(j)
    BY <1>1, <1>5 DEF Fetch, Clear, Inv
  <1>6. CASE WriteFails(j) \/ Fail(j) \/ Write(j)
    BY <1>1, <1>6 DEF WriteFails, Fail, Write, Inv
  <1>7. CASE Crash \/ Publish \/ PurgeRows
    BY <1>1, <1>7 DEF Crash, Publish, PurgeRows, Inv
  <1> QED
    BY <1>1, <1>2, <1>3, <1>4, <1>5, <1>6, <1>7 DEF Next, Step

\* The heart of the argument: batch after batch, the table holds what was streamed.
LEMMA WriteStep ==
    ASSUME NEW j, Alone(j), Inv(j), Write(j)
    PROVE  Rewriting(j)'
  <1> USE SourceIndexAssumption, BatchesType
  <1> DEFINE r == got[j]
             n == next[j]
  <1>1. /\ j \in Jobs /\ pc[j] = "write" /\ r \in Revisions /\ fp = None
        /\ n \in 1 .. Len(Batches[r]) /\ Len(Batches[r]) \in Nat
        /\ UNCHANGED <<fp, got>>
    BY DEF Alone, Inv, Progress, Rewriting, Write
  <1>2. /\ Before(r, 1) = {}
        /\ Before(r, n + 1) = Before(r, n) \cup Batches[r][n]
    BY <1>1, BatchAdds
  <1>3. table' = Rows(Before(r, n + 1))
    <2>1. CASE n = 1
      <3>1. \A p \in Packages : Kept(j)[p] = 0
        BY <1>1, <2>1 DEF Kept, Inv, Typed, TypeOK, Rewriting
      <3> QED
        BY <1>1, <1>2, <2>1, <3>1 DEF Write, Batch, Rows
    <2>2. CASE n > 1
      <3>1. Format = "rpm"
        <4>1. ASSUME Format # "rpm" PROVE FALSE
          <5>1. Len(Batches[r]) = 1
            BY <1>1, <4>1
          <5>2. n = 1
            BY <1>1, <5>1
          <5> QED
            BY <2>2, <5>2
        <4> QED
          BY <4>1
      <3>2. \A p \in Packages : Kept(j)[p] = Rows(Before(r, n))[p]
        BY <1>1, <2>2 DEF Kept, Inv, Typed, TypeOK, Rewriting, Empty, Rows
      <3> QED
        BY <1>1, <1>2, <3>1, <3>2 DEF Write, Batch, Rows
    <2> QED
      BY <1>1, <2>1, <2>2
  <1>4. snap'[j] = Empty
    BY <1>1 DEF Write
  <1>5. CASE n < Len(Batches[r])
    <2>1. pc'[j] = "write" /\ next'[j] = n + 1
      BY <1>1, <1>5 DEF Write, Inv, Typed, TypeOK
    <2> QED
      BY <1>1, <1>3, <1>4, <1>5, <2>1 DEF Rewriting
  <1>6. CASE ~(n < Len(Batches[r]))
    <2>1. pc'[j] = "verify" /\ n = Len(Batches[r])
      BY <1>1, <1>6 DEF Write, Goto, Inv, Typed, TypeOK
    <2> QED
      BY <1>1, <1>3, <2>1 DEF Rewriting, Full
  <1> QED
    BY <1>5, <1>6

LEMMA RewritingStep ==
    ASSUME NEW j, Alone(j), Inv(j), [Next]_vars
    PROVE  Rewriting(j)'
  <1> USE SourceIndexAssumption, BatchesType DEF Typed, TypeOK, Goto, jobVars
  <1>1. j \in Jobs /\ (\A i \in Jobs : i = j) /\ ~ClearMayFail
    BY DEF Alone
  <1>2. CASE UNCHANGED vars \/ Refuse(j)
    BY <1>2 DEF vars, Refuse, Inv, Rewriting
  <1>3. CASE Begin(j) \/ Skip(j) \/ GoOn(j) \/ VerifyFails(j) \/ Remember(j) \/ Fetch(j)
             \/ WriteFails(j) \/ Fail(j)
    <2>1. pc'[j] \in {"idle", "check", "fetch", "clear"}
      BY <1>1, <1>3 DEF Begin, Skip, GoOn, VerifyFails, Remember, Fetch, WriteFails, Fail, Inv
    <2> QED
      BY <2>1 DEF Rewriting
  <1>4. CASE Clear(j)
    BY <1>1, <1>4 DEF Clear, Inv, Rewriting
  <1>5. CASE Delete(j)
    BY <1>1, <1>5 DEF Delete, Inv, Rewriting, Progress
  <1>6. CASE Write(j)
    BY <1>6, WriteStep
  <1>7. CASE Crash
    BY <1>1, <1>7 DEF Crash, Rewriting
  <1>8. CASE Publish
    BY <1>8 DEF Publish, Inv, Rewriting
  <1>9. CASE PurgeRows
    BY <1>1, <1>9 DEF PurgeRows, Inv, Rewriting
  <1> QED
    BY <1>1, <1>2, <1>3, <1>4, <1>5, <1>6, <1>7, <1>8, <1>9 DEF Next, Step

LEMMA MarkedStep ==
    ASSUME NEW j, Alone(j), Inv(j), [Next]_vars
    PROVE  MarkedIsWhole'
  <1> USE SourceIndexAssumption, BatchesType DEF Typed, TypeOK, Goto, jobVars, MarkedIsWhole
  <1>1. j \in Jobs /\ (\A i \in Jobs : i = j) /\ ~ClearMayFail
    BY DEF Alone
  <1>2. CASE UNCHANGED <<fp, table>>
    BY <1>2 DEF Inv
  <1>3. CASE Clear(j)
    BY <1>1, <1>3 DEF Clear, Inv
  <1>4. CASE Write(j)
    BY <1>1, <1>4 DEF Write, Inv, Rewriting
  <1>5. CASE Remember(j)
    BY <1>1, <1>5 DEF Remember, Verified, Inv, Rewriting, Progress
  <1>6. CASE PurgeRows
    BY <1>6 DEF PurgeRows, Inv
  <1> QED
    BY <1>1, <1>2, <1>3, <1>4, <1>5, <1>6
       DEF Next, Step, Begin, Refuse, Skip, GoOn, Fetch, Delete, WriteFails, VerifyFails, Fail,
           Crash, Publish, vars

LEMMA InvInit ==
    ASSUME NEW j, Alone(j), Init
    PROVE  Inv(j)
  BY SourceIndexAssumption, BatchesType DEF Alone, Init, Inv, Typed, Deleted, TypeOK, Progress, Rewriting, MarkedIsWhole, Empty, Steps

LEMMA InvHolds ==
    ASSUME NEW j, Alone(j)
    PROVE  Spec => []Inv(j)
  <1>1. Init => Inv(j)
    BY InvInit
  <1>2. Inv(j) /\ [Next]_vars => Inv(j)'
    BY TypeStep, ProgressStep, RewritingStep, MarkedStep DEF Inv
  <1> QED
    BY <1>1, <1>2, PTL DEF Spec

--------------------------------------------------------------------------------
\* A sync alone never leaves a fingerprint over rows of another revision, over a
\* part of them or over duplicates, wherever it is interrupted.
THEOREM MarkedIsWholeHolds ==
    ASSUME NEW j, Alone(j)
    PROVE  Spec => []MarkedIsWhole
  BY InvHolds, PTL DEF Inv

\* A sync alone skips a source only when its table is the announced revision.
THEOREM SkipOnlyWholeHolds ==
    ASSUME NEW j, Alone(j)
    PROVE  Spec => SkipOnlyWhole
  <1>1. Inv(j) /\ [Next]_vars => [SkipsWhole]_vars
    BY DEF SkipsWhole, Alone, Inv, MarkedIsWhole, Skip, IsUnchanged
  <1> QED
    BY <1>1, InvHolds, PTL DEF Spec, SkipOnlyWhole

\* A sync alone implements the protocol that index_state.py documents.
THEOREM FollowsProtocolHolds ==
    ASSUME NEW j, Alone(j)
    PROVE  Spec => FollowsProtocol
  <1> USE SourceIndexAssumption, BatchesType
  <1>1. Init => Protocol!Init
    BY DEF Init, Protocol!Init
  <1>2. Inv(j) /\ [Next]_vars => [Protocol!Next]_<<fp, table>>
    <2> SUFFICES ASSUME Inv(j), [Next]_vars PROVE [Protocol!Next]_<<fp, table>>
      OBVIOUS
    <2> USE DEF Protocol!Next
    <2>1. j \in Jobs /\ (\A i \in Jobs : i = j) /\ ~ClearMayFail
      BY DEF Alone
    <2>2. CASE UNCHANGED <<fp, table>>
      BY <2>2
    <2>3. CASE Clear(j)
      BY <2>1, <2>3 DEF Clear, Protocol!Unmark
    <2>4. CASE Write(j)
      BY <2>4 DEF Write, Inv, Rewriting, Protocol!Rewrite
    <2>5. CASE Remember(j)
      BY <2>5 DEF Remember, Verified, Inv, Rewriting, Progress, TypeOK, Protocol!Mark
    <2>6. CASE PurgeRows
      BY <2>6 DEF PurgeRows, Protocol!Purge
    <2> QED
      BY <2>1, <2>2, <2>3, <2>4, <2>5, <2>6
         DEF Next, Step, Begin, Refuse, Skip, GoOn, Fetch, Delete, WriteFails, VerifyFails, Fail,
             Crash, Publish, vars
  <1> QED
    BY <1>1, <1>2, InvHolds, PTL DEF Spec, FollowsProtocol, Protocol!Spec
--------------------------------------------------------------------------------
(***************************************************************************)
(* The chain of trust, for any number of syncs at once: what is announced  *)
(* was signed, hence what is downloaded, hence what is written.            *)
(***************************************************************************)

\* Nobody makes gpg or openssl say that a forged file is good.
LEMMA AnnouncedIsSigned ==
    ASSUME NEW r, ~AscMayBeLost, Announced(r), Format # "apk"
    PROVE  r \in Signed
  <1> SUFFICES ASSUME r \notin Signed PROVE FALSE
    OBVIOUS
  <1>1. ASSUME NEW s \in Printed(FALSE) PROVE "GOODSIG" \notin s /\ "EXPKEYSIG" \notin s
    BY <1>1 DEF Printed
  <1>2. (r \in Signed) = FALSE
    OBVIOUS
  <1>3. CASE Format = "apt"
    <2>1. PICK a \in AptAnswers(FALSE) : AptAuthentic(a)
      BY <1>2, <1>3 DEF Announced
    <2>2. a.status \in Printed(FALSE)
      BY DEF AptAnswers
    <2> QED
      BY <1>1, <2>1, <2>2 DEF AptAuthentic, VerifiesInRelease
  <1>4. CASE Format = "rpm"
    <2>1. PICK a \in RpmAnswers(FALSE, {TRUE}) : RpmAuthentic(a)
      BY <1>2, <1>4 DEF Announced
    <2>2. a.status \in Printed(FALSE) /\ a.asc = TRUE
      BY DEF RpmAnswers
    <2> QED
      BY <1>1, <2>1, <2>2 DEF RpmAuthentic, VerifiesRepomd
  <1> QED
    BY <1>3, <1>4, SourceIndexAssumption

LEMMA AuthenticIsSigned ==
    ASSUME NEW r, Authentic(r)
    PROVE  r \in Signed
  <1> SUFFICES ASSUME r \notin Signed PROVE FALSE
    OBVIOUS
  <1>1. PICK a \in ApkAnswers(r \in Signed) : ApkAuthentic(a)
    BY DEF Authentic
  <1> QED
    BY <1>1 DEF ApkAnswers, ApkAuthentic

\* What each sync holds was announced, and what it writes was signed.
Trusted(j) ==
    /\ pc[j] # "idle" /\ Format # "apk" => expect[j] \in Signed \cup {None}
    /\ pc[j] # "idle" /\ Format = "apk" => got[j] = expect[j]
    /\ Format # "rpm" /\ pc[j] \in {"clear", "delete", "write", "verify"} =>
         got[j] = expect[j] /\ got[j] \in Signed

\* An open transaction has deleted no more rows than there are.
Counted(j) ==
    /\ snap[j] \in [Packages -> Nat]
    /\ pc[j] # "write" => snap[j] = Empty
    /\ pc[j] = "write" => next[j] \in 1 .. Len(Batches[got[j]])
    /\ \A p \in Packages : snap[j][p] <= table[p]

TrustInv ==
    /\ pc \in [Jobs -> Steps] /\ expect \in [Jobs -> Revisions \cup {None}]
    /\ got \in [Jobs -> Revisions \cup {None}] /\ next \in [Jobs -> Nat]
    /\ upstream \in Revisions /\ DOMAIN snap = Jobs
    /\ \A j \in Jobs : Trusted(j)
    /\ Format # "rpm" => table \in [Packages -> Nat] /\ \A j \in Jobs : Counted(j)
    /\ OnlySigned

LEMMA TrustInit == Init => TrustInv
  <1> SUFFICES ASSUME Init PROVE TrustInv
    OBVIOUS
  <1> USE SourceIndexAssumption, RowsType DEF Init
  <1>1. pc \in [Jobs -> Steps] /\ upstream \in Revisions /\ DOMAIN snap = Jobs
    BY DEF Steps
  <1>2. \A j \in Jobs : Trusted(j)
    BY DEF Trusted
  <1>3. \A j \in Jobs : Counted(j)
    BY DEF Counted, Empty
  <1>4. OnlySigned
    BY DEF OnlySigned, Empty
  <1> QED
    BY <1>1, <1>2, <1>3, <1>4 DEF TrustInv

\* Everything but a commit: no row comes, what is held is signed.
LEMMA TrustedStep ==
    ASSUME TrustInv, ~AscMayBeLost, NEW j \in Jobs, Begin(j) \/ Step(j) \/ Fail(j)
    PROVE  \A i \in Jobs : Trusted(i)'
  <1> USE SourceIndexAssumption DEF TrustInv, Goto, jobVars, Trusted
  <1>1. CASE Begin(j)
    <2>1. Format # "apk" => upstream \in Signed
      BY <1>1, AnnouncedIsSigned DEF Begin
    <2> QED
      BY <1>1, <2>1 DEF Begin
  <1>2. CASE Skip(j) \/ VerifyFails(j) \/ Remember(j) \/ WriteFails(j) \/ Fail(j)
    BY <1>2 DEF Skip, VerifyFails, Remember, WriteFails, Fail
  <1>3. CASE GoOn(j)
    BY <1>3 DEF GoOn
  <1>4. CASE Fetch(j)
    <2>1. ASSUME Authentic(got[j]) PROVE got[j] \in Signed
      BY <2>1, AuthenticIsSigned
    <2> QED
      BY <1>4, <2>1 DEF Fetch
  <1>5. CASE Clear(j)
    BY <1>5 DEF Clear
  <1>6. CASE Delete(j) \/ Write(j)
    BY <1>6 DEF Delete, Write
  <1> QED
    BY <1>1, <1>2, <1>3, <1>4, <1>5, <1>6 DEF Step

\* A commit, with a table that is replaced: the rows it brings were signed.
LEMMA CommitStep ==
    ASSUME TrustInv, NEW j \in Jobs, Write(j), Format # "rpm"
    PROVE  /\ table' \in [Packages -> Nat]
           /\ \A i \in Jobs : Counted(i)'
           /\ \A p \in Packages : table'[p] > 0 => \E r \in Signed : p \in Before(r, Len(Batches[r]) + 1)
  <1> USE SourceIndexAssumption, BatchesType, RowsType DEF TrustInv
  <1> DEFINE r == got[j]
  <1>1. /\ pc[j] = "write" /\ r \in Signed /\ r \in Revisions /\ next[j] \in 1 .. Len(Batches[r])
        /\ Len(Batches[r]) \in Nat /\ snap[j] \in [Packages -> Nat]
        /\ \A p \in Packages : snap[j][p] <= table[p]
        /\ UNCHANGED got
    BY DEF Write, Trusted, Counted
  <1>2. \A p \in Packages : Kept(j)[p] \in Nat /\ Kept(j)[p] <= table[p]
    BY <1>1 DEF Kept
  <1>3. table' = [p \in Packages |-> IF p \notin Batch(j) THEN Kept(j)[p] ELSE Kept(j)[p] + 1]
    BY DEF Write
  <1>4. table' \in [Packages -> Nat] /\ \A p \in Packages : table'[p] >= Kept(j)[p]
    BY <1>2, <1>3
  <1>5. ASSUME NEW p \in Packages, table'[p] > 0
        PROVE  \E q \in Signed : p \in Before(q, Len(Batches[q]) + 1)
    <2>1. CASE p \in Batch(j)
      <3>1. p \in Before(r, Len(Batches[r]) + 1)
        BY <1>1, <2>1 DEF Batch, Before
      <3> QED
        BY <1>1, <3>1
    <2>2. CASE p \notin Batch(j)
      <3>1. table[p] > 0 /\ table[p] \in Nat
        BY <1>2, <1>3, <1>5, <2>2
      <3> QED
        BY <3>1 DEF OnlySigned
    <2> QED
      BY <2>1, <2>2
  <1>6. ASSUME NEW i \in Jobs
        PROVE  Counted(i)'
    <2>1. CASE i = j
      <3>1. snap'[j] = Empty
        BY DEF Write
      <3>2. pc'[j] = "write" => next'[j] \in 1 .. Len(Batches[r])
        BY <1>1 DEF Write, Goto
      <3> QED
        BY <1>1, <1>4, <2>1, <3>1, <3>2 DEF Counted, Empty
    <2>2. CASE i # j
      <3>1. /\ snap'[i] = Rest(snap[i], snap[j]) /\ pc'[i] = pc[i] /\ next'[i] = next[i]
            /\ Counted(i)
        BY <2>2 DEF Write, Goto
      <3>2. Rest(snap[i], snap[j]) \in [Packages -> Nat]
        BY <1>1, <3>1 DEF Rest, Counted
      <3>3. \A p \in Packages : Rest(snap[i], snap[j])[p] <= Kept(j)[p]
        BY <1>1, <3>1 DEF Rest, Counted, Kept
      <3>4. pc[i] # "write" => Rest(snap[i], snap[j]) = Empty
        BY <1>1, <3>1 DEF Rest, Counted, Empty
      <3>5. \A p \in Packages : Rest(snap[i], snap[j])[p] <= table'[p]
        <4>1. ASSUME NEW p \in Packages PROVE Rest(snap[i], snap[j])[p] <= table'[p]
          <5>1. /\ Rest(snap[i], snap[j])[p] <= Kept(j)[p] /\ Kept(j)[p] <= table'[p]
                /\ Rest(snap[i], snap[j])[p] \in Nat /\ Kept(j)[p] \in Nat /\ table'[p] \in Nat
            BY <1>2, <1>4, <3>2, <3>3
          <5> HIDE DEF TrustInv
          <5> QED
            BY <5>1
        <4> QED
          BY <4>1
      <3> QED
        BY <1>1, <3>1, <3>2, <3>4, <3>5 DEF Counted
    <2> QED
      BY <2>1, <2>2
  <1> QED
    BY <1>4, <1>5, <1>6

LEMMA CountedStep ==
    ASSUME TrustInv, NEW j \in Jobs, Begin(j) \/ Step(j) \/ Fail(j), Format # "rpm"
    PROVE  table' \in [Packages -> Nat] /\ \A i \in Jobs : Counted(i)'
  <1> USE SourceIndexAssumption, BatchesType, RowsType DEF TrustInv, Goto, jobVars
  <1>1. CASE Begin(j) \/ Skip(j) \/ GoOn(j) \/ Fetch(j) \/ Clear(j) \/ VerifyFails(j) \/ Remember(j)
    <2>1. /\ UNCHANGED <<table, next, snap>> /\ pc[j] # "write" /\ pc'[j] # "write"
          /\ \A i \in Jobs \ {j} : pc'[i] = pc[i] /\ got'[i] = got[i]
      BY <1>1 DEF Begin, Skip, GoOn, Fetch, Clear, VerifyFails, Remember
    <2> QED
      BY <2>1 DEF Counted
  <1>2. CASE Delete(j)
    <2>1. ASSUME NEW i \in Jobs PROVE Counted(i)'
      <3>1. CASE i = j
        <4>1. Len(Batches[got[j]]) = 1
          BY <1>2 DEF Delete, Trusted
        <4> QED
          BY <1>2, <3>1, <4>1 DEF Delete, Counted
      <3>2. CASE i # j
        BY <1>2, <3>2 DEF Delete, Counted
      <3> QED
        BY <3>1, <3>2
    <2> QED
      BY <1>2, <2>1 DEF Delete
  <1>3. CASE Write(j)
    BY <1>3, CommitStep
  <1>4. CASE WriteFails(j) \/ Fail(j)
    <2>1. /\ UNCHANGED <<table, next, got>> /\ pc'[j] = "idle" /\ snap'[j] = Empty
          /\ \A i \in Jobs \ {j} : pc'[i] = pc[i] /\ snap'[i] = snap[i]
      BY <1>4 DEF WriteFails, Fail
    <2>2. \A p \in Packages : Empty[p] = 0 /\ Empty[p] <= table[p]
      BY DEF Empty
    <2>3. Counted(j)'
      BY <2>1, <2>2 DEF Counted
    <2>4. \A i \in Jobs \ {j} : Counted(i)'
      BY <2>1 DEF Counted
    <2> QED
      BY <2>1, <2>3, <2>4
  <1> QED
    BY <1>1, <1>2, <1>3, <1>4 DEF Step

LEMMA OnlySignedStep ==
    ASSUME TrustInv, ~AscMayBeLost, NEW j \in Jobs, Begin(j) \/ Step(j) \/ Fail(j)
    PROVE  OnlySigned'
  <1> USE SourceIndexAssumption DEF TrustInv, jobVars, OnlySigned
  <1>1. CASE Begin(j) \/ Skip(j) \/ GoOn(j) \/ Fetch(j) \/ Delete(j) \/ WriteFails(j) \/ VerifyFails(j) \/ Fail(j)
    BY <1>1 DEF Begin, Skip, GoOn, Fetch, Delete, WriteFails, VerifyFails, Fail
  <1>2. CASE Clear(j)
    BY <1>2 DEF Clear
  <1>3. CASE Remember(j)
    BY <1>3 DEF Remember, Trusted
  <1>4. CASE Write(j)
    BY <1>4, CommitStep DEF Write
  <1> QED
    BY <1>1, <1>2, <1>3, <1>4 DEF Step

LEMMA TrustStep == TrustInv /\ ~AscMayBeLost /\ [Next]_vars => TrustInv'
  <1> SUFFICES ASSUME TrustInv, ~AscMayBeLost, [Next]_vars PROVE TrustInv'
    OBVIOUS
  <1>1. ASSUME NEW j \in Jobs, Begin(j) \/ Step(j) \/ Fail(j) PROVE TrustInv'
    <2>1. /\ pc' \in [Jobs -> Steps] /\ expect' \in [Jobs -> Revisions \cup {None}]
          /\ got' \in [Jobs -> Revisions \cup {None}] /\ next' \in [Jobs -> Nat]
          /\ upstream' \in Revisions /\ DOMAIN snap' = Jobs
      <3> USE DEF TrustInv, Goto, Steps, jobVars
      <3>1. CASE Begin(j) \/ Skip(j) \/ GoOn(j) \/ VerifyFails(j) \/ Remember(j)
        BY <3>1 DEF Begin, Skip, GoOn, VerifyFails, Remember
      <3>2. CASE Fetch(j) \/ Clear(j)
        BY <3>2 DEF Fetch, Clear
      <3>3. CASE Delete(j) \/ WriteFails(j) \/ Fail(j)
        BY <3>3 DEF Delete, WriteFails, Fail
      <3>4. CASE Write(j)
        BY <3>4 DEF Write
      <3> QED
        BY <1>1, <3>1, <3>2, <3>3, <3>4 DEF Step
    <2> QED
      BY <1>1, <2>1, TrustedStep, CountedStep, OnlySignedStep DEF TrustInv
  <1>2. CASE UNCHANGED vars \/ \E j \in Jobs : Refuse(j)
    BY <1>2 DEF vars, Refuse, TrustInv, Trusted, Counted, OnlySigned
  <1>3. CASE Publish
    BY <1>3 DEF Publish, jobVars, TrustInv, Trusted, Counted, OnlySigned
  <1>4. CASE Crash
    BY <1>4, RowsType DEF Crash, jobVars, Steps, Empty, TrustInv, Trusted, Counted, OnlySigned
  <1>5. CASE PurgeRows
    BY <1>5, RowsType DEF PurgeRows, jobVars, Empty, TrustInv, Trusted, Counted, OnlySigned
  <1> QED
    BY <1>1, <1>2, <1>3, <1>4, <1>5 DEF Next

\* When every repomd.xml comes with its signature, no source is ever marked with an index that
\* its distribution did not sign, and no row of an APT or APK source comes from one: for any
\* number of syncs at once, whatever is served between two of their downloads.
THEOREM OnlySignedHolds ==
    ASSUME ~AscMayBeLost
    PROVE  Spec => []OnlySigned
  <1>1. TrustInv /\ [Next]_vars => TrustInv'
    BY TrustStep
  <1>2. TrustInv => OnlySigned
    BY DEF TrustInv
  <1> QED
    BY <1>1, <1>2, TrustInit, PTL DEF Spec

--------------------------------------------------------------------------------
(***************************************************************************)
(* The rows of an APT source, for any number of syncs at once.             *)
(***************************************************************************)

\* Indexes of one source have packages in common, unless one is empty.
Related ==
    \A q, r \in Revisions :
      Batches[q][1] = {} \/ Batches[r][1] = {} \/ Batches[q][1] \cap Batches[r][1] # {}

\* What an open transaction has deleted is all the table, or nothing of it any more.
Transacting(j) ==
    /\ pc[j] # "idle" => got[j] \in Revisions
    /\ pc[j] = "write" => next[j] = 1
    /\ snap[j] \in {Empty, table}

WholeInv ==
    /\ Typed
    /\ table = Empty \/ \E r \in Revisions : table = Full(r)
    /\ \A j \in Jobs : Transacting(j)

\* An index of one batch is the rows of that batch.
LEMMA OneBatch ==
    ASSUME NEW r \in Revisions, Format # "rpm"
    PROVE  Len(Batches[r]) = 1 /\ Full(r) = Rows(Batches[r][1]) /\ Batches[r][1] \subseteq Packages
  <1>1. Len(Batches[r]) = 1
    BY BatchesType
  <1>2. Before(r, 2) = Batches[r][1] /\ Batches[r][1] \subseteq Packages
    <2>1. 1 \in 1 .. Len(Batches[r]) /\ 1 + 1 = 2
      BY <1>1
    <2>2. Before(r, 1) = {} /\ Before(r, 1 + 1) = Before(r, 1) \cup Batches[r][1] /\ Batches[r][1] \subseteq Packages
      BY <2>1, BatchAdds
    <2> QED
      BY <2>1, <2>2
  <1> QED
    BY <1>1, <1>2 DEF Full

\* A transaction that still deletes every row replaces them; one whose rows another has replaced
\* meets a package of the new index, unless its own is empty.
LEMMA WholeWrite ==
    ASSUME WholeInv, Related, Format = "apt", NEW j \in Jobs, Write(j)
    PROVE  /\ table' = Empty \/ \E r \in Revisions : table' = Full(r)
           /\ \A i \in Jobs : snap'[i] \in {Empty, table'}
  <1> DEFINE r == got[j]
             B == Batches[r][1]
  <1>1. /\ r \in Revisions /\ next[j] = 1 /\ pc[j] = "write" /\ snap[j] \in {Empty, table}
        /\ table \in [Packages -> Nat] /\ snap \in [Jobs -> [Packages -> Nat]]
    BY DEF Write, WholeInv, Transacting, Typed, TypeOK
  <1>2. Full(r) = Rows(B) /\ B \subseteq Packages /\ Batch(j) = B
    BY <1>1, OneBatch DEF Batch
  <1>3. table' = [p \in Packages |-> IF p \notin B THEN Kept(j)[p] ELSE Kept(j)[p] + 1]
    BY <1>2 DEF Write
  <1>4. snap' = [i \in Jobs |-> IF i = j THEN Empty ELSE Rest(snap[i], snap[j])]
    BY DEF Write
  <1>5. \A i \in Jobs : snap[i] \in {Empty, table}
    BY DEF WholeInv, Transacting
  <1> HIDE DEF r, B
  <1>6. CASE snap[j] = table
    <2>1. \A p \in Packages : Kept(j)[p] = 0
      BY <1>1, <1>6 DEF Kept
    <2>2. table' = Rows(B)
      BY <1>3, <2>1 DEF Rows
    <2>3. ASSUME NEW i \in Jobs PROVE Rest(snap[i], table) = Empty
      <3>1. \A p \in Packages : table[p] \in Nat
        BY <1>1
      <3>2. CASE snap[i] = Empty
        BY <3>1, <3>2 DEF Rest, Empty
      <3>3. CASE snap[i] = table
        BY <3>1, <3>3 DEF Rest, Empty
      <3> QED
        BY <1>5, <3>2, <3>3
    <2> QED
      BY <1>1, <1>2, <1>4, <1>6, <2>2, <2>3
  <1>7. CASE snap[j] # table
    <2>1. snap[j] = Empty /\ table # Empty
      BY <1>1, <1>7
    <2>2. PICK q \in Revisions : table = Full(q)
      BY <2>1 DEF WholeInv
    <2>3. Kept(j) = table
      BY <1>1, <2>1 DEF Kept, Empty
    <2>4. \A p \in B : ~(table[p] > 0)
      BY <1>2, <2>3 DEF Write, InsertFails, Conflict
    <2>5. table = Rows(Batches[q][1]) /\ Batches[q][1] \subseteq Packages
      BY <2>2, OneBatch
    <2>6. Batches[q][1] # {}
      BY <2>1, <2>5 DEF Rows, Empty
    <2>7. Batches[q][1] \cap B = {}
      BY <2>4, <2>5 DEF Rows
    <2>8. B = {}
      BY <1>1, <2>6, <2>7 DEF Related, B
    <2>9. table' = table
      BY <1>1, <1>3, <2>3, <2>8
    <2>10. ASSUME NEW i \in Jobs PROVE Rest(snap[i], snap[j]) = snap[i]
      BY <1>1, <2>1 DEF Rest, Empty
    <2> QED
      BY <1>4, <1>5, <2>2, <2>9, <2>10
  <1> QED
    BY <1>6, <1>7

LEMMA WholeStep == WholeInv /\ Related /\ Format = "apt" /\ [Next]_vars => WholeInv'
  <1> SUFFICES ASSUME WholeInv, Related, Format = "apt", [Next]_vars PROVE WholeInv'
    OBVIOUS
  <1>1. Typed'
    BY TypeStep DEF WholeInv
  <1> USE SourceIndexAssumption DEF Goto, jobVars, Mishap
  <1>2. TypeOK /\ (table = Empty \/ \E r \in Revisions : table = Full(r)) /\ \A j \in Jobs : Transacting(j)
    BY DEF WholeInv, Typed
  <1>3. CASE UNCHANGED vars \/ Publish \/ \E j \in Jobs : Refuse(j)
    BY <1>1, <1>2, <1>3 DEF vars, Publish, Refuse, WholeInv, Transacting
  <1>4. CASE Crash \/ PurgeRows
    BY <1>1, <1>2, <1>4 DEF Crash, PurgeRows, WholeInv, Transacting, TypeOK, Typed, Deleted
  <1>5. ASSUME NEW j \in Jobs, Begin(j) \/ Skip(j) \/ GoOn(j) \/ Fetch(j) \/ Clear(j) \/ VerifyFails(j) \/ Remember(j)
        PROVE  WholeInv'
    <2>1. UNCHANGED <<table, next, snap>> /\ pc'[j] # "write" /\ \A i \in Jobs \ {j} : pc'[i] = pc[i] /\ got'[i] = got[i]
      BY <1>2, <1>5 DEF Begin, Skip, GoOn, Fetch, Clear, VerifyFails, Remember, TypeOK
    <2>2. pc'[j] # "idle" => got'[j] \in Revisions
      BY <1>2, <1>5 DEF Begin, Skip, GoOn, Fetch, Clear, VerifyFails, Remember, TypeOK, Transacting
    <2> QED
      BY <1>1, <1>2, <2>1, <2>2 DEF WholeInv, Transacting
  <1>6. ASSUME NEW j \in Jobs, Delete(j) \/ WriteFails(j) \/ Fail(j)
        PROVE  WholeInv'
    <2>1. /\ UNCHANGED <<table, got>> /\ snap'[j] \in {Empty, table}
          /\ pc[j] # "idle" /\ (pc'[j] = "write" => next'[j] = 1)
          /\ \A i \in Jobs \ {j} : pc'[i] = pc[i] /\ next'[i] = next[i] /\ snap'[i] = snap[i]
      BY <1>2, <1>6 DEF Delete, WriteFails, Fail, TypeOK
    <2> QED
      BY <1>1, <1>2, <2>1 DEF WholeInv, Transacting
  <1>7. ASSUME NEW j \in Jobs, Write(j)
        PROVE  WholeInv'
    <2>1. /\ table' = Empty \/ \E r \in Revisions : table' = Full(r)
          /\ \A i \in Jobs : snap'[i] \in {Empty, table'}
      BY <1>7, WholeWrite
    <2>2. got[j] \in Revisions /\ next[j] = 1
      BY <1>2, <1>7 DEF Write, Transacting
    <2>3. Len(Batches[got[j]]) = 1
      BY <2>2, OneBatch
    <2>4. pc' = [pc EXCEPT ![j] = "verify"] /\ UNCHANGED <<next, got>>
      BY <1>7, <2>2, <2>3 DEF Write
    <2> QED
      BY <1>1, <1>2, <1>7, <2>1, <2>2, <2>4 DEF Write, WholeInv, Transacting, TypeOK
  <1> QED
    BY <1>3, <1>4, <1>5, <1>6, <1>7 DEF Next, Step

\* For any number of syncs at once, of the revisions of an index that have packages in common:
\* the rows of an APT source are those of one of them, or there is none.
THEOREM TableIsWholeHolds ==
    ASSUME Related
    PROVE  Spec => []TableIsWhole
  <1>1. CASE Format = "apt"
    <2>1. Init => WholeInv
      BY TypedInit DEF Init, WholeInv, Transacting
    <2>2. WholeInv /\ [Next]_vars => WholeInv'
      BY <1>1, WholeStep
    <2>3. WholeInv => TableIsWhole
      BY DEF WholeInv, TableIsWhole
    <2> QED
      BY <2>1, <2>2, <2>3, PTL DEF Spec
  <1>2. CASE Format # "apt"
    <2>1. TableIsWhole
      BY <1>2 DEF TableIsWhole
    <2> QED
      BY <2>1, PTL
  <1> QED
    BY <1>1, <1>2
================================================================================
