-------------------------------- MODULE Sessions --------------------------------
(***************************************************************************)
(* Accounts, sessions and reset links: auth/router.py over auth/users.py,  *)
(* auth/jwt.py, auth/token_revocation.py and auth/reset_tokens.py.         *)
(*                                                                         *)
(* A session is a signed token: it cannot be taken back, only listed in    *)
(* the table of revoked tokens until it expires, when the daily retention  *)
(* forgets it.  Reset links live in a JSON file that a lock of the process *)
(* guards, read and rewritten as a whole.  Every access to the database or *)
(* to the file is a step; handlers run in the threads of one process.      *)
(* Passwords and codes are right or wrong, roles and names are left out.   *)
(***************************************************************************)
EXTENDS Integers, FiniteSets

CONSTANTS
    Users,        \* names of accounts
    Tokens,       \* names (jti) of sessions
    Links,        \* reset links
    Handlers,     \* requests at work at once
    SessionTTL,   \* ACCESS_TOKEN_EXPIRE_MINUTES
    MfaTTL,       \* MFA_TOKEN_EXPIRE_MINUTES
    LinkTTL,      \* TOKEN_TTL_MINUTES
    LockTime,     \* LOCKOUT_MINUTES
    MaxAttempts,  \* MAX_FAILED_ATTEMPTS
    MaxTime,      \* bound on the clock
    None          \* no account, no session, no link, no lock

ASSUME SessionsAssumption ==
    /\ {SessionTTL, MfaTTL, LinkTTL, LockTime, MaxAttempts, MaxTime} \subseteq Nat
    /\ None \notin Users \cup Tokens \cup Links \cup Nat

Times    == 0 .. (MaxTime + SessionTTL + MfaTTL + LinkTTL + LockTime)
Accounts == [active : BOOLEAN, mfa : BOOLEAN, fails : 0 .. MaxAttempts, until : Times \cup {None}]
Session  == [user : Users, exp : Times, scope : {"access", "mfa_required"}]
Link     == [user : Users, exp : Times]

VARIABLES
    now,       \* the clock
    account,   \* user -> row of users, or None
    issued,    \* token -> what it says, or None
    revoked,   \* rows of revoked_tokens
    loggedOut, \* the tokens whose logout has returned
    file,      \* link -> entry of reset_tokens.json, or None
    made,      \* the links made so far
    resets,    \* link -> the passwords it has changed
    work       \* handler -> [pc, user, token, link, count, read]

vars  == <<now, account, issued, revoked, loggedOut, file, made, resets, work>>
store == <<now, account, issued, revoked, loggedOut, file, made, resets>>

NoLinks == [l \in Links |-> None]
Steps == {"idle", "verify", "fail", "count", "clear", "mfa", "code", "revoke", "reissue",
          "link", "send", "consume", "pop", "change"}
Idle == [pc |-> "idle", user |-> None, token |-> None, link |-> None, count |-> 0, read |-> NoLinks]

Works == [pc : Steps, user : Users \cup {None}, token : Tokens \cup {None}, link : Links \cup {None},
          count : 0 .. MaxAttempts, read : [Links -> Link \cup {None}]]

TypeOK ==
    /\ now \in 0 .. MaxTime
    /\ account \in [Users -> Accounts \cup {None}]
    /\ issued \in [Tokens -> Session \cup {None}]
    /\ revoked \subseteq Tokens
    /\ loggedOut \subseteq Tokens
    /\ file \in [Links -> Link \cup {None}]
    /\ made \subseteq Links
    /\ resets \in [Links -> Nat]
    /\ work \in [Handlers -> Works]

Fresh == [active |-> TRUE, mfa |-> FALSE, fails |-> 0, until |-> None]

Init ==
    /\ now = 0
    /\ account = [u \in Users |-> Fresh]
    /\ issued = [t \in Tokens |-> None]
    /\ revoked = {}
    /\ loggedOut = {}
    /\ file = NoLinks
    /\ made = {}
    /\ resets = [l \in Links |-> 0]
    /\ work = [h \in Handlers |-> Idle]

--------------------------------------------------------------------------------
At(h, pc) == work[h].pc = pc
Go(h, pc) == work' = [work EXCEPT ![h] = [@ EXCEPT !.pc = pc]]
Return(h) == work' = [work EXCEPT ![h] = Idle]
Start(h, pc, user, token, link) ==
    /\ At(h, "idle")
    /\ work' = [work EXCEPT ![h] = [@ EXCEPT !.pc = pc, !.user = user, !.token = token, !.link = link]]
    /\ UNCHANGED store

Active(u) == account[u] # None /\ account[u].active

\* decode_token(): signature and expiry, scope, revocation.
Decoded(t) ==
    /\ issued[t] # None
    /\ now < issued[t].exp
    /\ issued[t].scope = "access"
    /\ t \notin revoked

\* _parse_token(): the account must still be there and active.
Accepted(t) == Decoded(t) /\ Active(issued[t].user)

\* create_access_token() and create_mfa_token(), under a name never used before.
Issue(u, scope, ttl) ==
    \E t \in Tokens :
        /\ issued[t] = None
        /\ issued' = [issued EXCEPT ![t] = [user |-> u, exp |-> now + ttl, scope |-> scope]]

--------------------------------------------------------------------------------
\* login()

\* get_lockout_status()
Locked(u) == account[u] # None /\ account[u].until # None /\ now < account[u].until

Login(h, u) == ~Locked(u) /\ Start(h, "verify", u, None, None)

\* An unknown or inactive account is refused without being counted.
Verify(h) ==
    LET u == work[h].user IN
    /\ At(h, "verify")
    /\ \/ ~Active(u) /\ Return(h)
       \/ Active(u) /\ Go(h, "fail")
       \/ Active(u) /\ Go(h, "clear")
    /\ UNCHANGED store

\* record_failed_login() reads the count, and writes it back increased.
Fail(h) ==
    LET u == work[h].user IN
    /\ At(h, "fail")
    /\ IF account[u] = None THEN Return(h)
       ELSE work' = [work EXCEPT ![h] = [@ EXCEPT !.pc = "count", !.count = account[u].fails]]
    /\ UNCHANGED store

\* Counts beyond MaxAttempts are not told apart: each of them locks the account.
Count(h) ==
    LET u == work[h].user
        n == IF work[h].count < MaxAttempts THEN work[h].count + 1 ELSE MaxAttempts
    IN  /\ At(h, "count")
        /\ account' = IF account[u] = None THEN account
             ELSE [account EXCEPT ![u] = [@ EXCEPT !.fails = n,
                      !.until = IF n = MaxAttempts THEN now + LockTime ELSE None]]
        /\ Return(h)
        /\ UNCHANGED <<now, issued, revoked, loggedOut, file, made, resets>>

\* reset_failed_logins()
Clear(h) ==
    LET u == work[h].user IN
    /\ At(h, "clear")
    /\ account' = IF account[u] = None THEN account
                  ELSE [account EXCEPT ![u] = [@ EXCEPT !.fails = 0, !.until = None]]
    /\ Go(h, "mfa")
    /\ UNCHANGED <<now, issued, revoked, loggedOut, file, made, resets>>

\* get_mfa_info(): a second factor gets a token of its own, for a few minutes.
Mfa(h) ==
    LET u == work[h].user IN
    /\ At(h, "mfa")
    /\ IF account[u] # None /\ account[u].mfa THEN Issue(u, "mfa_required", MfaTTL)
                                              ELSE Issue(u, "access", SessionTTL)
    /\ Return(h)
    /\ UNCHANGED <<now, account, revoked, loggedOut, file, made, resets>>

\* mfa_authenticate(): the token is decoded, then the code is checked.
Authenticate(h, t) ==
    /\ issued[t] # None
    /\ now < issued[t].exp
    /\ issued[t].scope = "mfa_required"
    /\ Start(h, "code", issued[t].user, None, None)

Code(h) ==
    LET u == work[h].user IN
    /\ At(h, "code")
    /\ \/ account[u] # None /\ account[u].mfa /\ Issue(u, "access", SessionTTL)
       \/ UNCHANGED issued
    /\ Return(h)
    /\ UNCHANGED <<now, account, revoked, loggedOut, file, made, resets>>

--------------------------------------------------------------------------------
\* logout(), refresh_token(), and the second factor of the account signed in.

Logout(h, t) == Accepted(t) /\ Start(h, "revoke", issued[t].user, t, None)

\* Slip: the name of the account is listed in place of the token.
RevokeUser(h) ==
    /\ At(h, "revoke")
    /\ revoked' = revoked \cup {work[h].user}
    /\ loggedOut' = loggedOut \cup {work[h].token}
    /\ Return(h)
    /\ UNCHANGED <<now, account, issued, file, made, resets>>

\* revoke_jti(); the claims are decoded again, and an expired token has none.
Revoke(h) ==
    LET t == work[h].token IN
    /\ At(h, "revoke")
    /\ revoked' = IF now < issued[t].exp THEN revoked \cup {t} ELSE revoked
    /\ loggedOut' = loggedOut \cup {t}
    /\ Return(h)
    /\ UNCHANGED <<now, account, issued, file, made, resets>>

Refresh(h, t) == Accepted(t) /\ Start(h, "reissue", issued[t].user, None, None)

Reissue(h) ==
    /\ At(h, "reissue")
    /\ Issue(work[h].user, "access", SessionTTL)
    /\ Return(h)
    /\ UNCHANGED <<now, account, revoked, loggedOut, file, made, resets>>

\* enable_mfa() after a right code, disable_mfa() after a right password.
SetMfa(t) ==
    LET u == issued[t].user IN
    /\ Accepted(t)
    /\ account' = [account EXCEPT ![u] = [@ EXCEPT !.mfa = ~account[u].mfa]]
    /\ UNCHANGED <<now, issued, revoked, loggedOut, file, made, resets, work>>

--------------------------------------------------------------------------------
\* forgot_password() and reset_password_with_token()

\* The lock of reset_tokens.py is held between the reading of the file and its writing.
LockFree == \A h \in Handlers : work[h].pc \notin {"send", "pop"}

\* _purge_expired(_load())
Loaded == [l \in Links |-> IF file[l] # None /\ file[l].exp > now THEN file[l] ELSE None]

\* Slip: the lock is not taken.
ReadUnlocked(h, from, to) ==
    /\ At(h, from)
    /\ work' = [work EXCEPT ![h] = [@ EXCEPT !.pc = to, !.read = Loaded]]
    /\ UNCHANGED store

Read(h, from, to) ==
    /\ At(h, from)
    /\ LockFree
    /\ work' = [work EXCEPT ![h] = [@ EXCEPT !.pc = to, !.read = Loaded]]
    /\ UNCHANGED store

Forgot(h, u) == account[u] # None /\ Start(h, "link", u, None, None)

\* create_reset_token(): one link per user, the older ones go.
Send(h) ==
    LET u == work[h].user
        r == work[h].read
    IN  /\ At(h, "send")
        /\ \E l \in Links \ made :
             /\ made' = made \cup {l}
             /\ file' = [k \in Links |->
                  IF k = l THEN [user |-> u, exp |-> now + LinkTTL]
                  ELSE IF r[k] # None /\ r[k].user = u THEN None ELSE r[k]]
        /\ Return(h)
        /\ UNCHANGED <<now, account, issued, revoked, loggedOut, resets>>

Reset(h, l) == l \in made /\ Start(h, "consume", None, None, l)

\* consume_reset_token(): what was read is written back without the link.
Pop(h) ==
    LET l == work[h].link
        r == work[h].read
    IN  /\ At(h, "pop")
        /\ file' = [r EXCEPT ![l] = None]
        /\ IF r[l] = None THEN Return(h)
           ELSE work' = [work EXCEPT ![h] = [@ EXCEPT !.pc = "change", !.user = r[l].user]]
        /\ UNCHANGED <<now, account, issued, revoked, loggedOut, made, resets>>

\* change_password()
Change(h) ==
    /\ At(h, "change")
    /\ resets' = [resets EXCEPT ![work[h].link] = @ + 1]
    /\ Return(h)
    /\ UNCHANGED <<now, account, issued, revoked, loggedOut, file, made>>

--------------------------------------------------------------------------------
\* update_existing_user(): an administrator closes an account or opens it again.
SetActive(u) ==
    /\ account[u] # None
    /\ account' = [account EXCEPT ![u] = [@ EXCEPT !.active = ~account[u].active]]
    /\ UNCHANGED <<now, issued, revoked, loggedOut, file, made, resets, work>>

DeleteUser(u) ==
    /\ account[u] # None
    /\ account' = [account EXCEPT ![u] = None]
    /\ UNCHANGED <<now, issued, revoked, loggedOut, file, made, resets, work>>

CreateUser(u) ==
    /\ account[u] = None
    /\ account' = [account EXCEPT ![u] = Fresh]
    /\ UNCHANGED <<now, issued, revoked, loggedOut, file, made, resets, work>>

\* Slip: the rows of the last moment of validity are forgotten too.
PurgeEarly ==
    /\ revoked' = {t \in revoked : issued[t].exp > now + 1}
    /\ UNCHANGED <<now, account, issued, loggedOut, file, made, resets, work>>

\* purge_expired(), every day.
PurgeExpired ==
    /\ revoked' = {t \in revoked : issued[t].exp >= now}
    /\ UNCHANGED <<now, account, issued, loggedOut, file, made, resets, work>>

\* The process is killed; the file may be cut in the middle of its writing, and then
\* reads as empty.
Crash ==
    /\ work' = [h \in Handlers |-> Idle]
    /\ \/ UNCHANGED file
       \/ ~LockFree /\ file' = NoLinks
    /\ UNCHANGED <<now, account, issued, revoked, loggedOut, made, resets>>

Tick ==
    /\ now < MaxTime
    /\ now' = now + 1
    /\ UNCHANGED <<account, issued, revoked, loggedOut, file, made, resets, work>>

Request(h) ==
    \/ \E u \in Users : Login(h, u) \/ Forgot(h, u)
    \/ \E t \in Tokens : Authenticate(h, t) \/ Logout(h, t) \/ Refresh(h, t)
    \/ \E l \in Links : Reset(h, l)

Continue(h) ==
    \/ Verify(h) \/ Fail(h) \/ Count(h) \/ Clear(h) \/ Mfa(h) \/ Code(h)
    \/ Revoke(h) \/ Reissue(h)
    \/ Read(h, "link", "send") \/ Send(h)
    \/ Read(h, "consume", "pop") \/ Pop(h) \/ Change(h)

Admin ==
    \/ \E u \in Users : SetActive(u) \/ DeleteUser(u) \/ CreateUser(u)
    \/ \E t \in Tokens : SetMfa(t)

Next ==
    \/ \E h \in Handlers : Request(h) \/ Continue(h)
    \/ Admin \/ PurgeExpired \/ Crash \/ Tick

Spec == Init /\ [][Next]_vars

--------------------------------------------------------------------------------
\* Properties.

\* The link has changed a password, or is about to.
Spent(l) == resets[l] > 0 \/ \E h \in Handlers : At(h, "change") /\ work[h].link = l

\* A session that was logged out is never accepted again, although the table forgets it:
\* the purge only takes rows whose token has expired by itself (token_revocation.py:19).
LoggedOutStaysOut == \A t \in loggedOut : ~Accepted(t)

\* "one-time": whatever handlers race over the file, and wherever the process is killed, a
\* reset link changes at most one password, and an account has at most one link.
LinksAreOnce ==
    /\ \A l \in Links : resets[l] <= 1
    /\ \A l \in Links : file[l] # None => ~Spent(l)
    /\ \A k, l \in Links :
         k # l /\ file[k] # None /\ file[l] # None => file[k].user # file[l].user
================================================================================
