----------------------------- MODULE SessionsProofs -----------------------------
(***************************************************************************)
(* Proofs about Sessions, for any accounts, sessions, links, requests and  *)
(* durations: what was logged out stays out, and a reset link changes at   *)
(* most one password.                                                      *)
(***************************************************************************)
EXTENDS Sessions, TLAPS

\* A session that was logged out is listed until it expires.
Listed == \A t \in loggedOut : issued[t] # None /\ (t \in revoked \/ issued[t].exp <= now)

\* A handler that revokes, reads or consumes holds what its step is about.
Holding(h) ==
    /\ At(h, "revoke") => work[h].token \in Tokens /\ issued[work[h].token] # None
    /\ work[h].pc \in {"verify", "fail", "count", "clear", "mfa", "code", "reissue", "link", "send"}
         => work[h].user \in Users
    /\ work[h].pc \in {"consume", "pop", "change"} => work[h].link \in made
    /\ work[h].pc \in {"send", "pop"} =>
         \A l \in Links : work[h].read[l] # None => work[h].read[l] = file[l]

Holds == \A h \in Handlers : Holding(h)

\* One handler at a time works on the file.
Exclusive ==
    \A g, h \in Handlers :
      work[g].pc \in {"send", "pop"} /\ work[h].pc \in {"send", "pop"} => g = h

\* A link that has been used, or is about to be, is not used by anyone else.
Sole ==
    /\ \A l \in Links : file[l] # None \/ resets[l] > 0 => l \in made
    /\ \A g, h \in Handlers :
         At(g, "change") /\ At(h, "change") /\ work[g].link = work[h].link => g = h
    /\ \A h \in Handlers : At(h, "change") => resets[work[h].link] = 0

\* The inductive invariant.
Inv == TypeOK /\ Listed /\ Holds /\ Exclusive /\ Sole /\ LinksAreOnce

LEMMA IdleType == Idle \in Works
  BY SessionsAssumption DEF Idle, Works, NoLinks, Steps

LEMMA InitInv == Init => Inv
  <1> SUFFICES ASSUME Init PROVE Inv
    OBVIOUS
  <1> USE SessionsAssumption DEF Init
  <1>1. TypeOK
    BY IdleType DEF TypeOK, Accounts, NoLinks, Fresh
  <1>2. Listed /\ Holds /\ Exclusive /\ Sole /\ LinksAreOnce
    BY DEF Listed, Holds, Holding, Exclusive, Sole, LinksAreOnce, Spent, Idle, NoLinks, At
  <1> QED
    BY <1>1, <1>2 DEF Inv

--------------------------------------------------------------------------------
\* What the actions write is well typed.
LEMMA IssueType ==
    ASSUME TypeOK, NEW u \in Users, NEW s \in {"access", "mfa_required"},
           NEW ttl \in {SessionTTL, MfaTTL}, Issue(u, s, ttl)
    PROVE  /\ issued' \in [Tokens -> Session \cup {None}]
           /\ \A t \in Tokens : issued[t] # None => issued'[t] = issued[t]
  <1>1. PICK t \in Tokens : /\ issued[t] = None
                            /\ issued' = [issued EXCEPT ![t] = [user |-> u, exp |-> now + ttl, scope |-> s]]
    BY DEF Issue
  <1>2. now + ttl \in Times
    BY SessionsAssumption DEF TypeOK, Times
  <1>3. [user |-> u, exp |-> now + ttl, scope |-> s] \in Session
    BY <1>2 DEF Session
  <1> QED
    BY <1>1, <1>3 DEF TypeOK

LEMMA LoadedType == TypeOK => Loaded \in [Links -> Link \cup {None}]
  BY DEF TypeOK, Loaded

\* What a handler remembers is well typed.
LEMMA WorkType ==
    ASSUME TypeOK, NEW h \in Handlers, NEW w \in Works, work' = [work EXCEPT ![h] = w]
    PROVE  work' \in [Handlers -> Works]
  BY DEF TypeOK

LEMMA GoType ==
    ASSUME TypeOK, NEW h \in Handlers, NEW p \in Steps, Go(h, p)
    PROVE  work' \in [Handlers -> Works]
  <1>1. [work[h] EXCEPT !.pc = p] \in Works
    BY DEF TypeOK, Works
  <1> QED
    BY <1>1, WorkType DEF Go

LEMMA ReturnType ==
    ASSUME TypeOK, NEW h \in Handlers, Return(h)
    PROVE  work' \in [Handlers -> Works]
  BY IdleType, WorkType DEF Return

LEMMA StartType ==
    ASSUME TypeOK, NEW h \in Handlers, NEW p \in Steps, NEW u \in Users \cup {None},
           NEW t \in Tokens \cup {None}, NEW l \in Links \cup {None}, Start(h, p, u, t, l)
    PROVE  TypeOK'
  <1>1. [work[h] EXCEPT !.pc = p, !.user = u, !.token = t, !.link = l] \in Works
    BY DEF TypeOK, Works
  <1>2. work' \in [Handlers -> Works]
    BY <1>1, WorkType DEF Start
  <1> QED
    BY <1>2 DEF Start, store, TypeOK

LEMMA AccountType ==
    ASSUME TypeOK, NEW u \in Users, NEW a \in Accounts,
           account' = [account EXCEPT ![u] = a]
    PROVE  account' \in [Users -> Accounts \cup {None}]
  BY DEF TypeOK

\* Types are kept by every step.
LEMMA TypeStep ==
    ASSUME Inv, [Next]_vars
    PROVE  TypeOK'
  <1> USE SessionsAssumption DEF Inv
  <1>1. ASSUME NEW h \in Handlers, Request(h)
        PROVE  TypeOK'
    <2>1. ASSUME NEW u \in Users, Login(h, u) \/ Forgot(h, u)
          PROVE  TypeOK'
      BY <2>1, StartType DEF Login, Forgot, Steps
    <2>2. ASSUME NEW t \in Tokens, Authenticate(h, t) \/ Logout(h, t) \/ Refresh(h, t)
          PROVE  TypeOK'
      <3>1. issued[t].user \in Users
        BY <2>2 DEF Authenticate, Logout, Refresh, Accepted, Decoded, TypeOK, Session
      <3> QED
        BY <2>2, <3>1, StartType DEF Authenticate, Logout, Refresh, Steps
    <2>3. ASSUME NEW l \in Links, Reset(h, l)
          PROVE  TypeOK'
      BY <2>3, StartType DEF Reset, Steps
    <2> QED
      BY <1>1, <2>1, <2>2, <2>3 DEF Request
  <1>2. ASSUME NEW h \in Handlers, Continue(h)
        PROVE  TypeOK'
    <2> DEFINE u == work[h].user
    <2>0. work[h] \in Works
      BY DEF TypeOK
    <2>1. CASE Verify(h)
      <3>1. work' \in [Handlers -> Works]
        BY <2>1, ReturnType, GoType DEF Verify, Steps
      <3> QED
        BY <2>1, <3>1 DEF Verify, TypeOK, store
    <2>2. CASE Fail(h)
      <3>1. account[u] # None => account[u].fails \in 0 .. MaxAttempts
        BY <2>2 DEF Fail, At, Holds, Holding, TypeOK, Accounts
      <3>2. account[u] # None => [work[h] EXCEPT !.pc = "count", !.count = account[u].fails] \in Works
        BY <2>0, <3>1 DEF Works, Steps
      <3>3. work' \in [Handlers -> Works]
        BY <2>2, <3>2, ReturnType, WorkType DEF Fail
      <3> QED
        BY <2>2, <3>3 DEF Fail, TypeOK, store
    <2>3. CASE Count(h)
      <3> DEFINE n == IF work[h].count < MaxAttempts THEN work[h].count + 1 ELSE MaxAttempts
                 a == [account[u] EXCEPT !.fails = n,
                         !.until = IF n = MaxAttempts THEN now + LockTime ELSE None]
      <3>1. u \in Users
        BY <2>3 DEF Count, At, Holds, Holding
      <3>2. n \in 0 .. MaxAttempts
        BY <2>0 DEF Works
      <3>3. now + LockTime \in Times
        BY DEF TypeOK, Times
      <3>4. account[u] # None => a \in Accounts
        <4>1. account[u] # None => account[u] \in Accounts
          BY <3>1 DEF TypeOK
        <4>2. (IF n = MaxAttempts THEN now + LockTime ELSE None) \in Times \cup {None}
          BY <3>3
        <4> HIDE DEF n
        <4> QED
          BY <3>2, <4>1, <4>2 DEF Accounts
      <3>5. account' = IF account[u] = None THEN account ELSE [account EXCEPT ![u] = a]
        BY <2>3, <3>1 DEF Count, TypeOK
      <3>6. account' \in [Users -> Accounts \cup {None}]
        <4> HIDE DEF a
        <4> QED
          BY <3>1, <3>4, <3>5, AccountType DEF TypeOK
      <3>7. work' \in [Handlers -> Works]
        BY <2>3, ReturnType DEF Count
      <3> QED
        BY <2>3, <3>6, <3>7 DEF Count, TypeOK
    <2>4. CASE Clear(h)
      <3>1. u \in Users
        BY <2>4 DEF Clear, At, Holds, Holding
      <3>2. account[u] # None => [account[u] EXCEPT !.fails = 0, !.until = None] \in Accounts
        <4>1. account[u] # None => account[u] \in Accounts
          BY <3>1 DEF TypeOK
        <4>2. 0 \in 0 .. MaxAttempts
          OBVIOUS
        <4> QED
          BY <4>1, <4>2 DEF Accounts
      <3>3. account' \in [Users -> Accounts \cup {None}]
        BY <2>4, <3>1, <3>2, AccountType DEF Clear, TypeOK
      <3>4. work' \in [Handlers -> Works]
        BY <2>4, GoType DEF Clear, Steps
      <3> QED
        BY <2>4, <3>3, <3>4 DEF Clear, TypeOK
    <2>5. CASE Mfa(h) \/ Code(h) \/ Reissue(h)
      <3>1. u \in Users
        BY <2>5 DEF Mfa, Code, Reissue, At, Holds, Holding
      <3>2. issued' \in [Tokens -> Session \cup {None}]
        BY <2>5, <3>1, IssueType DEF Mfa, Code, Reissue, TypeOK
      <3>3. work' \in [Handlers -> Works]
        BY <2>5, ReturnType DEF Mfa, Code, Reissue
      <3> QED
        BY <2>5, <3>2, <3>3 DEF Mfa, Code, Reissue, TypeOK
    <2>6. CASE Revoke(h)
      <3>1. work[h].token \in Tokens
        BY <2>6 DEF Revoke, At, Holds, Holding
      <3>2. work' \in [Handlers -> Works]
        BY <2>6, ReturnType DEF Revoke
      <3> QED
        BY <2>6, <3>1, <3>2 DEF Revoke, TypeOK
    <2>7. ASSUME NEW p \in Steps, NEW q \in Steps, Read(h, p, q)
          PROVE  TypeOK'
      <3>1. [work[h] EXCEPT !.pc = q, !.read = Loaded] \in Works
        BY <2>0, LoadedType DEF Works
      <3>2. work' \in [Handlers -> Works]
        BY <2>7, <3>1, WorkType DEF Read
      <3> QED
        BY <2>7, <3>2 DEF Read, TypeOK, store
    <2>8. CASE Send(h)
      <3>1. u \in Users /\ work[h].read \in [Links -> Link \cup {None}]
        BY <2>0, <2>8 DEF Send, At, Holds, Holding, Works
      <3>2. now + LinkTTL \in Times
        BY DEF TypeOK, Times
      <3>3. [user |-> u, exp |-> now + LinkTTL] \in Link
        BY <3>1, <3>2 DEF Link
      <3>4. PICK l \in Links \ made :
              /\ made' = made \cup {l}
              /\ file' = [k \in Links |->
                   IF k = l THEN [user |-> u, exp |-> now + LinkTTL]
                   ELSE IF work[h].read[k] # None /\ work[h].read[k].user = u THEN None ELSE work[h].read[k]]
        BY <2>8 DEF Send
      <3>5. file' \in [Links -> Link \cup {None}]
        BY <3>1, <3>3, <3>4
      <3>6. work' \in [Handlers -> Works]
        BY <2>8, ReturnType DEF Send
      <3> QED
        BY <2>8, <3>4, <3>5, <3>6 DEF Send, TypeOK
    <2>9. CASE Pop(h)
      <3>1. work[h].link \in Links /\ work[h].read \in [Links -> Link \cup {None}]
        BY <2>0, <2>9 DEF Pop, At, Holds, Holding, TypeOK, Works
      <3>2. work[h].read[work[h].link] # None =>
              [work[h] EXCEPT !.pc = "change", !.user = work[h].read[work[h].link].user] \in Works
        BY <2>0, <3>1 DEF Link, Works, Steps
      <3>3. work' \in [Handlers -> Works]
        BY <2>9, <3>2, ReturnType, WorkType DEF Pop
      <3> QED
        BY <2>9, <3>1, <3>3 DEF Pop, TypeOK
    <2>10. CASE Change(h)
      <3>1. work[h].link \in Links
        BY <2>10 DEF Change, At, Holds, Holding, TypeOK
      <3>2. work' \in [Handlers -> Works]
        BY <2>10, ReturnType DEF Change
      <3> QED
        BY <2>10, <3>1, <3>2 DEF Change, TypeOK
    <2> QED
      BY <1>2, <2>1, <2>2, <2>3, <2>4, <2>5, <2>6, <2>7, <2>8, <2>9, <2>10 DEF Continue, Steps
  <1>3. CASE Admin
    <2>1. Fresh \in Accounts
      BY DEF Fresh, Accounts
    <2>2. ASSUME NEW v \in Users, SetActive(v) \/ DeleteUser(v) \/ CreateUser(v)
          PROVE  TypeOK'
      <3>1. account[v] # None => [account[v] EXCEPT !.active = ~account[v].active] \in Accounts
        BY DEF TypeOK, Accounts
      <3>2. account' \in [Users -> Accounts \cup {None}]
        <4>1. CASE SetActive(v)
          <5> DEFINE a == [account[v] EXCEPT !.active = ~account[v].active]
          <5>1. account[v] # None
            BY <4>1 DEF SetActive
          <5>2. a \in Accounts
            BY <3>1, <5>1
          <5>3. account' = [account EXCEPT ![v] = a]
            BY <4>1 DEF SetActive
          <5> HIDE DEF a
          <5> QED
            BY <5>2, <5>3, AccountType
        <4>2. CASE DeleteUser(v)
          BY <4>2 DEF DeleteUser, TypeOK
        <4>3. CASE CreateUser(v)
          BY <2>1, <4>3, AccountType DEF CreateUser
        <4> QED
          BY <2>2, <4>1, <4>2, <4>3
      <3> QED
        BY <2>2, <3>2 DEF SetActive, DeleteUser, CreateUser, TypeOK
    <2>3. ASSUME NEW t \in Tokens, SetMfa(t)
          PROVE  TypeOK'
      <3>1. issued[t].user \in Users /\ account[issued[t].user] # None
        BY <2>3 DEF SetMfa, Accepted, Decoded, Active, TypeOK, Session
      <3>2. [account[issued[t].user] EXCEPT !.mfa = ~account[issued[t].user].mfa] \in Accounts
        <4> DEFINE a == account[issued[t].user]
        <4>1. a \in Accounts
          BY <3>1 DEF TypeOK
        <4>2. a.mfa \in BOOLEAN
          BY <4>1 DEF Accounts
        <4>3. (~a.mfa) \in BOOLEAN
          BY <4>2
        <4> HIDE DEF a
        <4>4. [a EXCEPT !.mfa = ~a.mfa] \in Accounts
          BY <4>1, <4>3 DEF Accounts
        <4> QED
          BY <4>4 DEF a
      <3>3. account' \in [Users -> Accounts \cup {None}]
        <4> DEFINE a == [account[issued[t].user] EXCEPT !.mfa = ~account[issued[t].user].mfa]
        <4>1. a \in Accounts
          BY <3>2
        <4>2. account' = [account EXCEPT ![issued[t].user] = a]
          BY <2>3 DEF SetMfa
        <4> HIDE DEF a
        <4> QED
          BY <3>1, <4>1, <4>2, AccountType
      <3> QED
        BY <2>3, <3>3 DEF SetMfa, TypeOK
    <2> QED
      BY <1>3, <2>2, <2>3 DEF Admin
  <1>4. CASE PurgeExpired \/ Tick
    BY <1>4 DEF PurgeExpired, Tick, TypeOK
  <1>5. CASE Crash
    BY <1>5, IdleType DEF Crash, TypeOK, NoLinks
  <1>6. CASE UNCHANGED vars
    BY <1>6 DEF vars, TypeOK
  <1> QED
    BY <1>1, <1>2, <1>3, <1>4, <1>5, <1>6 DEF Next

--------------------------------------------------------------------------------
\* What a request does to the memory of its handler.
LEMMA StartWork ==
    ASSUME TypeOK, NEW h \in Handlers, NEW p, NEW u, NEW t, NEW l, Start(h, p, u, t, l)
    PROVE  /\ work' = [work EXCEPT ![h] = work'[h]]
           /\ work'[h].pc = p /\ work'[h].user = u /\ work'[h].token = t /\ work'[h].link = l
           /\ UNCHANGED store
  BY DEF Start, TypeOK, Works

LEMMA GoWork ==
    ASSUME TypeOK, NEW h \in Handlers, NEW p, Go(h, p)
    PROVE  /\ work' = [work EXCEPT ![h] = work'[h]]
           /\ work'[h].pc = p
           /\ work'[h].user = work[h].user /\ work'[h].link = work[h].link
  BY DEF Go, TypeOK, Works

LEMMA ReturnWork ==
    ASSUME TypeOK, NEW h \in Handlers, Return(h)
    PROVE  work' = [work EXCEPT ![h] = work'[h]] /\ work'[h].pc = "idle"
  BY DEF Return, TypeOK, Idle

\* What a step of a handler writes, and what the handler then holds.
Writes(h) ==
    /\ work' = [work EXCEPT ![h] = work'[h]]
    /\ file' # file => Send(h) \/ Pop(h)
    /\ made' # made => Send(h)
    /\ resets' # resets => Change(h)
    /\ loggedOut' # loggedOut \/ revoked' # revoked => Revoke(h)
    /\ work'[h].pc \in {"send", "pop"} => LockFree
    /\ work'[h].pc = "change" =>
         /\ Pop(h)
         /\ work[h].read[work[h].link] # None
         /\ work'[h].link = work[h].link
    /\ now' = now
    /\ \A t \in Tokens : issued[t] # None => issued'[t] = issued[t]

LEMMA RequestWrites ==
    ASSUME Inv, NEW h \in Handlers, Request(h)
    PROVE  Writes(h) /\ Holding(h)'
  <1> USE DEF Inv, Writes, Holding, At, store
  <1>1. ASSUME NEW u \in Users, Login(h, u) \/ Forgot(h, u)
        PROVE  Writes(h) /\ Holding(h)'
    BY <1>1, StartWork DEF Login, Forgot
  <1>2. ASSUME NEW t \in Tokens, Authenticate(h, t) \/ Logout(h, t) \/ Refresh(h, t)
        PROVE  Writes(h) /\ Holding(h)'
    <2>1. issued[t] # None /\ issued[t].user \in Users
      BY <1>2 DEF Authenticate, Logout, Refresh, Accepted, Decoded, TypeOK, Session
    <2> QED
      BY <1>2, <2>1, StartWork DEF Authenticate, Logout, Refresh
  <1>3. ASSUME NEW l \in Links, Reset(h, l)
        PROVE  Writes(h) /\ Holding(h)'
    BY <1>3, StartWork DEF Reset
  <1> QED
    BY <1>1, <1>2, <1>3 DEF Request

LEMMA ContinueWrites ==
    ASSUME Inv, NEW h \in Handlers, Continue(h)
    PROVE  Writes(h) /\ Holding(h)'
  <1> USE DEF Inv, Writes, At
  <1>0. Holding(h) /\ work[h] \in Works
    BY DEF Holds, TypeOK
  <1>1. CASE Verify(h) \/ Clear(h)
    BY <1>0, <1>1, GoWork, ReturnWork DEF Verify, Clear, Holding, store
  <1>2. CASE Fail(h)
    <2>1. CASE account[work[h].user] = None
      BY <1>2, <2>1, ReturnWork DEF Fail, Holding, store
    <2>2. CASE account[work[h].user] # None
      <3>1. work'[h].pc = "count" /\ work'[h].user = work[h].user
        BY <1>0, <1>2, <2>2 DEF Fail, TypeOK, Works
      <3>2. work' = [work EXCEPT ![h] = work'[h]]
        BY <1>2, <2>2 DEF Fail, TypeOK
      <3> QED
        BY <1>0, <1>2, <3>1, <3>2 DEF Fail, Holding, store
    <2> QED
      BY <2>1, <2>2
  <1>3. CASE Count(h)
    BY <1>3, ReturnWork DEF Count, Holding
  <1>4. CASE Mfa(h) \/ Code(h) \/ Reissue(h)
    <2>1. work[h].user \in Users
      BY <1>0, <1>4 DEF Mfa, Code, Reissue, Holding
    <2>2. \A t \in Tokens : issued[t] # None => issued'[t] = issued[t]
      BY <1>4, <2>1, IssueType DEF Mfa, Code, Reissue
    <2> QED
      BY <1>4, <2>2, ReturnWork DEF Mfa, Code, Reissue, Holding
  <1>5. CASE Revoke(h)
    BY <1>5, ReturnWork DEF Revoke, Holding
  <1>6. ASSUME NEW p, NEW q, Read(h, p, q), <<p, q>> \in {<<"link", "send">>, <<"consume", "pop">>}
        PROVE  Writes(h) /\ Holding(h)'
    <2>1. /\ work'[h].pc = q /\ work'[h].user = work[h].user /\ work'[h].link = work[h].link
          /\ work'[h].read = Loaded
      BY <1>0, <1>6 DEF Read, TypeOK, Works
    <2>2. work' = [work EXCEPT ![h] = work'[h]]
      BY <1>6 DEF Read, TypeOK
    <2>3. \A l \in Links : Loaded[l] # None => Loaded[l] = file[l]
      BY DEF Loaded
    <2> QED
      BY <1>0, <1>6, <2>1, <2>2, <2>3 DEF Read, Holding, store
  <1>7. CASE Send(h)
    BY <1>7, ReturnWork DEF Send, Holding
  <1>8. CASE Pop(h)
    <2>1. CASE work[h].read[work[h].link] = None
      BY <1>8, <2>1, ReturnWork DEF Pop, Holding
    <2>2. CASE work[h].read[work[h].link] # None
      <3>1. work'[h].pc = "change" /\ work'[h].link = work[h].link
        BY <1>0, <1>8, <2>2 DEF Pop, TypeOK, Works
      <3>2. work' = [work EXCEPT ![h] = work'[h]]
        BY <1>8, <2>2 DEF Pop, TypeOK
      <3>3. work[h].link \in made
        BY <1>0, <1>8 DEF Pop, Holding
      <3> QED
        BY <1>8, <2>2, <3>1, <3>2, <3>3 DEF Pop, Holding
    <2> QED
      BY <2>1, <2>2
  <1>9. CASE Change(h)
    BY <1>9, ReturnWork DEF Change, Holding
  <1> QED
    BY <1>1, <1>2, <1>3, <1>4, <1>5, <1>6, <1>7, <1>8, <1>9 DEF Continue

\* The sessions that were logged out stay listed when a handler moves.
LEMMA HandlerListed ==
    ASSUME Inv, NEW h \in Handlers, Request(h) \/ Continue(h)
    PROVE  Listed'
  <1>1. Writes(h)
    BY RequestWrites, ContinueWrites
  <1>2. CASE Revoke(h)
    <2>1. work[h].token \in Tokens /\ issued[work[h].token] # None
      BY <1>2 DEF Inv, Holds, Holding, Revoke
    <2> QED
      BY <1>1, <1>2, <2>1 DEF Inv, TypeOK, Session, Times, Listed, Revoke
  <1>3. CASE ~Revoke(h)
    BY <1>1, <1>3 DEF Inv, TypeOK, Listed, Writes
  <1> QED
    BY <1>2, <1>3

\* The other handlers still hold what their step is about: the file only changes under its lock.
LEMMA HandlerHolds ==
    ASSUME Inv, NEW h \in Handlers, Request(h) \/ Continue(h)
    PROVE  Holds' /\ Exclusive'
  <1>1. Writes(h) /\ Holding(h)'
    BY RequestWrites, ContinueWrites
  <1>2. \A g \in Handlers : g # h => work'[g] = work[g]
    BY <1>1 DEF Writes, Inv, TypeOK
  <1>3. made \subseteq made'
    BY <1>1 DEF Writes, Send
  <1>4. ASSUME NEW g \in Handlers, g # h
        PROVE  Holding(g)'
    <2>1. Holding(g)
      BY DEF Inv, Holds
    <2>2. work[g].pc \in {"send", "pop"} => file' = file
      BY <1>1, <1>4 DEF Writes, Send, Pop, At, Inv, Exclusive
    <2>3. \A t \in Tokens : issued[t] # None => issued'[t] = issued[t]
      BY <1>1 DEF Writes
    <2> QED
      BY <1>2, <1>3, <1>4, <2>1, <2>2, <2>3 DEF Holding, At
  <1>5. Exclusive'
    BY <1>1, <1>2 DEF Writes, LockFree, Inv, Exclusive
  <1> QED
    BY <1>1, <1>4, <1>5 DEF Holds

\* A link stays with the one handler that took it out of the file.
LEMMA HandlerSole ==
    ASSUME Inv, NEW h \in Handlers, Request(h) \/ Continue(h)
    PROVE  Sole' /\ LinksAreOnce'
  <1> USE DEF Inv, At
  <1>1. Writes(h)
    BY RequestWrites, ContinueWrites
  <1>2. \A g \in Handlers : g # h => work'[g] = work[g]
    BY <1>1 DEF Writes, TypeOK
  <1>3. Holding(h) /\ work[h] \in Works
    BY DEF Holds, TypeOK
  <1>4. CASE Send(h)
    <2>1. work'[h].pc = "idle" /\ resets' = resets
      BY <1>4, ReturnWork DEF Send
    <2>2. PICK l \in Links \ made :
            /\ made' = made \cup {l}
            /\ file' = [k \in Links |->
                 IF k = l THEN [user |-> work[h].user, exp |-> now + LinkTTL]
                 ELSE IF work[h].read[k] # None /\ work[h].read[k].user = work[h].user
                      THEN None ELSE work[h].read[k]]
      BY <1>4 DEF Send
    <2>3. \A k \in Links : work[h].read[k] # None => work[h].read[k] = file[k]
      BY <1>3, <1>4 DEF Send, Holding
    <2>4. file'[l].user = work[h].user
      BY <2>2
    <2>5. \A k \in Links : k # l /\ file'[k] # None => file'[k] = file[k] /\ file[k] # None /\ file[k].user # work[h].user
      BY <2>2, <2>3
    <2>6. resets[l] = 0 /\ \A g \in Handlers : work[g].pc = "change" => work[g].link # l
      BY <2>2 DEF Sole, Holds, Holding, TypeOK
    <2>7. Sole'
      BY <1>2, <2>1, <2>2, <2>5, <2>6 DEF Sole
    <2>8. \A k \in Links : Spent(k)' => Spent(k)
      BY <1>2, <2>1 DEF Spent
    <2>9. ~Spent(l)
      BY <2>6 DEF Spent
    <2> QED
      BY <2>1, <2>4, <2>5, <2>7, <2>8, <2>9 DEF LinksAreOnce
  <1>5. CASE Pop(h)
    <2> DEFINE l == work[h].link
    <2>1. l \in Links /\ \A k \in Links : work[h].read[k] # None => work[h].read[k] = file[k]
      BY <1>3, <1>5 DEF Pop, Holding, TypeOK
    <2>2. /\ file' = [work[h].read EXCEPT ![l] = None]
          /\ resets' = resets /\ made' = made
      BY <1>5 DEF Pop
    <2>3. \A k \in Links : file'[k] # None => k # l /\ file'[k] = file[k] /\ file[k] # None
      BY <1>3, <2>1, <2>2 DEF Works
    <2>4. work'[h].pc = "change" => work'[h].link = l /\ file[l] # None
      BY <1>1, <2>1 DEF Writes
    <2>5. file[l] # None => ~Spent(l)
      BY <2>1 DEF LinksAreOnce
    <2>6. resets[l] > 0 \/ resets[l] = 0
      BY <2>1 DEF TypeOK
    <2>7. Sole'
      BY <1>2, <2>1, <2>2, <2>3, <2>4, <2>5, <2>6 DEF Sole, Spent
    <2>8. \A k \in Links : k # l /\ Spent(k)' => Spent(k)
      BY <1>2, <2>2, <2>4 DEF Spent
    <2> QED
      BY <2>2, <2>3, <2>7, <2>8 DEF LinksAreOnce
  <1>6. CASE Change(h)
    <2> DEFINE l == work[h].link
    <2>1. l \in made /\ l \in Links /\ resets[l] = 0 /\ Spent(l)
      BY <1>3, <1>6 DEF Change, Holding, Sole, Spent, TypeOK
    <2>2. /\ work'[h].pc = "idle"
          /\ resets' = [resets EXCEPT ![l] = 1] /\ file' = file /\ made' = made
      BY <1>6, <2>1, ReturnWork DEF Change
    <2>3. \A g \in Handlers : g # h /\ work[g].pc = "change" => work[g].link # l
      BY <1>6 DEF Change, Sole
    <2>4. \A k \in Links : resets'[k] = IF k = l THEN 1 ELSE resets[k]
      BY <2>1, <2>2 DEF TypeOK
    <2>5. Sole'
      BY <1>2, <2>1, <2>2, <2>3, <2>4 DEF Sole, Holds, Holding, TypeOK
    <2>6. \A k \in Links : Spent(k)' => Spent(k)
      BY <1>2, <2>1, <2>2, <2>4 DEF Spent
    <2> QED
      BY <2>2, <2>4, <2>5, <2>6 DEF LinksAreOnce
  <1>7. CASE ~Send(h) /\ ~Pop(h) /\ ~Change(h)
    <2>1. file' = file /\ made' = made /\ resets' = resets /\ work'[h].pc # "change"
      BY <1>1, <1>7 DEF Writes
    <2>2. \A k \in Links : Spent(k)' => Spent(k)
      BY <1>2, <2>1 DEF Spent
    <2> QED
      BY <1>2, <2>1, <2>2 DEF Sole, LinksAreOnce
  <1> QED
    BY <1>4, <1>5, <1>6, <1>7

\* The invariant is inductive.
LEMMA StepInv ==
    ASSUME Inv, [Next]_vars
    PROVE  Inv'
  <1>0. TypeOK'
    BY TypeStep
  <1>1. ASSUME NEW h \in Handlers, Request(h) \/ Continue(h)
        PROVE  Inv'
    BY <1>0, <1>1, HandlerListed, HandlerHolds, HandlerSole DEF Inv
  <1>2. CASE Admin \/ UNCHANGED vars
    <2>1. UNCHANGED <<now, issued, revoked, loggedOut, file, made, resets, work>>
      BY <1>2 DEF Admin, SetActive, DeleteUser, CreateUser, SetMfa, vars
    <2> QED
      BY <1>0, <2>1 DEF Inv, Listed, Holds, Holding, Exclusive, Sole, LinksAreOnce, Spent, At
  <1>3. CASE PurgeExpired
    <2>1. Listed'
      BY <1>3, SessionsAssumption DEF PurgeExpired, Inv, Listed, TypeOK, Session, Times
    <2> QED
      BY <1>0, <1>3, <2>1 DEF PurgeExpired, Inv, Holds, Holding, Exclusive, Sole, LinksAreOnce, Spent, At
  <1>4. CASE Tick
    <2>1. Listed'
      BY <1>4, SessionsAssumption DEF Tick, Inv, Listed, TypeOK, Session, Times
    <2> QED
      BY <1>0, <1>4, <2>1 DEF Tick, Inv, Holds, Holding, Exclusive, Sole, LinksAreOnce, Spent, At
  <1>5. CASE Crash
    <2>1. \A h \in Handlers : work'[h].pc = "idle"
      BY <1>5 DEF Crash, Idle
    <2>2. UNCHANGED <<now, issued, revoked, loggedOut, made, resets>>
      BY <1>5 DEF Crash
    <2>3. \A l \in Links : file'[l] # None => file'[l] = file[l]
      BY <1>5 DEF Crash, NoLinks
    <2>4. Listed' /\ Holds' /\ Exclusive' /\ Sole'
      BY <2>1, <2>2, <2>3 DEF Inv, Listed, Holds, Holding, Exclusive, Sole, At
    <2>5. LinksAreOnce'
      BY <2>1, <2>2, <2>3 DEF Inv, LinksAreOnce, Spent, At
    <2> QED
      BY <1>0, <2>4, <2>5 DEF Inv
  <1> QED
    BY <1>1, <1>2, <1>3, <1>4, <1>5 DEF Next

--------------------------------------------------------------------------------
\* What is written in the variables is always of its type (auth/*.py).
THEOREM TypesHold == Spec => []TypeOK
  <1>1. Inv => TypeOK
    BY DEF Inv
  <1> QED
    BY InitInv, StepInv, <1>1, PTL DEF Spec

\* A session that was logged out is never accepted again: the purge of the table of revoked
\* tokens only forgets those that have expired by themselves (auth/token_revocation.py).
THEOREM LoggedOutStaysOutHolds == Spec => []LoggedOutStaysOut
  <1>1. Inv => LoggedOutStaysOut
    BY SessionsAssumption DEF Inv, Listed, LoggedOutStaysOut, Accepted, Decoded, TypeOK, Session, Times
  <1> QED
    BY InitInv, StepInv, <1>1, PTL DEF Spec

\* A reset link changes one password at most, whatever requests race over the file and
\* wherever the process is killed (auth/reset_tokens.py).
THEOREM LinksAreOnceHolds == Spec => []LinksAreOnce
  <1>1. Inv => LinksAreOnce
    BY DEF Inv
  <1> QED
    BY InitInv, StepInv, <1>1, PTL DEF Spec
================================================================================
