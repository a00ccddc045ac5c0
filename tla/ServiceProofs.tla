---------------------------- MODULE ServiceProofs ----------------------------
(***************************************************************************)
(* The service implements BrowserSessions and PersonalAccessTokens, for    *)
(* any number of users, handlers, tabs, sessions, tokens and requests.     *)
(*                                                                         *)
(* A statement of the directory is a step of Accounts, so with its cascade *)
(* it is an AccountStep of both modules.  A browser's step is one of       *)
(* BrowserSessions as it stands, but the power it gives or ends is a step  *)
(* of Accounts to PersonalAccessTokens, in which no row may be lost: that  *)
(* no row is without its owner is part of the inductive invariant.         *)
(***************************************************************************)
EXTENDS Service, UserDirectoryProofs

\* lost is 0 while the account has what the history is about.
Held ==
    /\ lost \in [Users -> [active : Nat, admin : Nat]]
    /\ \A u \in Users : /\ Sess!Active(u) => lost[u].active = 0
                        /\ Sess!InCharge(u) => lost[u].admin = 0

Tables ==
    /\ now \in Nat
    /\ sessions \in [Tokens -> Sess!Session \cup {Unused, Gone}]
    /\ pats \in [Pats -> Pat!Pat \cup {Unused, Gone}]

\* A request that is to open a session, or a token, has its user.
Waiting ==
    /\ view = [t \in Tabs |-> view[t]]
    /\ call = [h \in Calls |-> call[h]]
    /\ \A t \in Tabs : view[t].at = "create" => view[t].user \in Users
    /\ \A h \in Calls : Pat!At(h, "insert") => call[h].user \in Users

\* What the request of tab t has read is what handler t has read, and a handler
\* without a tab that waits for it has ended.
Paired(t) ==
    /\ view[t].at = "mint" => /\ At(t, "mint")
                              /\ handler[t].user = view[t].user
                              /\ handler[t].admin = view[t].admin
    /\ handler[t] # None => view[t].at \in {"provider", "mint"}

\* A request of a tab and the directory's handler that serves it agree.
RequestsPaired == \A t \in Tabs : Paired(t)

\* An administrator's JWT in a browser is one of those the directory counts.
AdminJwtsCounted ==
    \A t \in Tabs : view[t].at = "in" /\ view[t].admin => view[t].user \in adminTokens

Owned == SessionsOwned /\ TokensOwned

SInv == IInv /\ Held /\ Tables /\ Waiting /\ Owned

-----------------------------------------------------------------------------
\* The view of the table, as the two modules read it.

\* An account exists for them if its row does.
LEMMA SameExists ==
    ASSUME TypeOK, NEW u \in Users
    PROVE  (Sess!Exists(u) <=> Exists(u)) /\ (Pat!Exists(u) <=> Exists(u))
<1>1. Exists(u) => acctView[u] \notin {NoRow, Gone}
  BY ViewExists
<1>2. ~Exists(u) => acctView[u] \in {NoRow, Gone}
  BY ViewAt DEF Exists
<1> QED BY <1>1, <1>2 DEF Sess!Exists, Pat!Exists

\* A deleted account looks deleted, and no other does.
LEMMA SameGone ==
    ASSUME TypeOK', NEW u \in Users
    PROVE  acctView'[u] = Gone <=> rows'[u] = Gone
<1>1. acctView'[u] = IF rows'[u] \notin {NoRow, Gone}
                     THEN [active |-> rows'[u].active, admin |-> "admin" \in rows'[u].roles]
                     ELSE rows'[u]
  BY DEF acctView, Exists, IsAdmin
<1>2. CASE rows'[u] \notin {NoRow, Gone}
  <2>1. rows'[u].active \in BOOLEAN
    BY <1>2 DEF TypeOK, Row
  <2>2. ("admin" \in rows'[u].roles) \in BOOLEAN
    OBVIOUS
  <2>3. [active |-> rows'[u].active, admin |-> "admin" \in rows'[u].roles] \in Abstract!Account
    BY <2>1, <2>2, Zenon DEF Abstract!Account
  <2> QED BY <1>1, <1>2, <2>3, ViewAssumption
<1> QED BY <1>1, <1>2

\* The two take the same steps of accounts as the directory, and may take one that
\* changes nothing.
LEMMA SameSteps ==
    ASSUME Implemented
    PROVE  Sess!AccountsNext /\ Pat!AccountsNext
<1>1. CASE Abstract!AccountsNext
  BY <1>1, Zenon
     DEF Abstract!AccountsNext, Abstract!Enroll, Abstract!Promote, Abstract!Empower,
         Abstract!Administer, Abstract!RootAppears, Abstract!LosePower, Abstract!Account,
         Sess!AccountsNext, Sess!Enroll, Sess!Promote, Sess!Empower,
         Sess!Administer, Sess!RootAppears, Sess!LosePower, Sess!Account,
         Pat!AccountsNext, Pat!Enroll, Pat!Promote, Pat!Empower,
         Pat!Administer, Pat!RootAppears, Pat!LosePower, Pat!Account
<1>2. CASE UNCHANGED Abstract!accountVars
  <2>1. acctView' = acctView /\ powerView' = powerView
    BY <1>2 DEF Abstract!accountVars
  <2> QED BY <2>1 DEF Sess!AccountsNext, Sess!LosePower, Pat!AccountsNext, Pat!LosePower
<1> QED BY <1>1, <1>2 DEF Implemented

\* Nothing is seen of the directory when it stands still.
LEMMA StillView ==
    ASSUME UNCHANGED vars
    PROVE  acctView' = acctView /\ powerView' = powerView
<1>1. acctView' = acctView
  BY ViewFrame DEF vars
<1>2. powerView' <=> powerView
  BY DEF vars, powerView
<1> QED BY <1>1, <1>2, PowerBoolean, Zenon

-----------------------------------------------------------------------------
\* Steps of the directory are steps of accounts for the two.

\* A statement with its cascade.
LEMMA CascadeSteps ==
    ASSUME SInv, [Next]_vars, SessionsCascade, PatsCascade, Sess!Witness,
           UNCHANGED <<now, jar, view, call, touching, found>>
    PROVE  Sess!AccountStep /\ Pat!AccountStep
<1>1. Sess!AccountsNext /\ Pat!AccountsNext
  BY NextImplements, SameSteps DEF SInv
<1>2. TypeOK'
  BY NextIInv DEF SInv, IInv
<1>3. sessions' = [s \in Tokens |-> IF Sess!IsRow(s) /\ acctView'[sessions[s].user] = Gone
                                    THEN Gone ELSE sessions[s]]
  <2>1. ASSUME NEW s \in Tokens, Sess!IsRow(s)
        PROVE  acctView'[sessions[s].user] = Gone <=> rows'[sessions[s].user] = Gone
    <3>1. sessions[s].user \in Users
      BY <2>1 DEF SInv, Tables, Sess!IsRow, Sess!Session
    <3> QED BY <1>2, <3>1, SameGone
  <2> QED BY <2>1 DEF SessionsCascade
<1>4. pats' = [p \in Pats |-> IF Pat!IsRow(p) /\ acctView'[pats[p].user] = Gone
                              THEN Gone ELSE pats[p]]
  <2>1. ASSUME NEW p \in Pats, Pat!IsRow(p)
        PROVE  acctView'[pats[p].user] = Gone <=> rows'[pats[p].user] = Gone
    <3>1. pats[p].user \in Users
      BY <2>1 DEF SInv, Tables, Pat!IsRow, Pat!Pat
    <3> QED BY <1>2, <3>1, SameGone
  <2> QED BY <2>1 DEF PatsCascade
<1>5. lostActive' = [u \in Users |-> IF Pat!Active(u)' THEN 0
                                     ELSE IF Pat!Active(u) THEN now ELSE lostActive[u]]
  BY DEF Sess!Witness, Sess!Since, lostActive,
         Sess!Active, Sess!Exists, Pat!Active, Pat!Exists
<1> QED BY <1>1, <1>3, <1>4, <1>5 DEF Sess!AccountStep, Pat!AccountStep

\* What a browser's request reads or signs moves power only.
LEMMA QuietForPats ==
    ASSUME SInv, [Next]_vars, UNCHANGED <<rows, now, lost, pats, call, touching, found>>
    PROVE  Pat!AccountStep
<1>1. Pat!AccountsNext
  BY NextImplements, SameSteps DEF SInv
<1>2. acctView' = acctView
  BY ViewFrame
<1>3. pats' = [p \in Pats |-> IF Pat!IsRow(p) /\ acctView'[pats[p].user] = Gone
                              THEN Gone ELSE pats[p]]
  <2>1. ASSUME NEW p \in Pats, Pat!IsRow(p)
        PROVE  acctView[pats[p].user] # Gone
    <3>1. pats[p].user \in Users
      BY <2>1 DEF SInv, Tables, Pat!IsRow, Pat!Pat
    <3>2. Exists(pats[p].user)
      BY <2>1 DEF SInv, Owned, TokensOwned
    <3> QED BY <3>1, <3>2, ViewExists DEF SInv, IInv
  <2> QED BY <1>2, <2>1 DEF SInv, Tables
<1>4. lostActive' = [u \in Users |-> IF Pat!Active(u)' THEN 0
                                     ELSE IF Pat!Active(u) THEN now ELSE lostActive[u]]
  <2>1. lostActive' = [u \in Users |-> lost[u].active] /\ lostActive = lostActive'
    BY DEF lostActive
  <2>2. ASSUME NEW u \in Users
        PROVE  /\ Pat!Active(u)' <=> Pat!Active(u)
               /\ Pat!Active(u) => lost[u].active = 0
    BY <1>2 DEF Pat!Active, Pat!Exists, Sess!Active, Sess!Exists, SInv, Held
  <2> QED BY <2>1, <2>2
<1> QED BY <1>1, <1>3, <1>4 DEF Pat!AccountStep

-----------------------------------------------------------------------------
\* What the steps keep.

\* The directory's handlers go on one at a time.
LEMMA OneHandler ==
    ASSUME TypeOK, NEW h \in Handlers, LoginStep(h) \/ RequestStep(h) \/ Fail(h),
           NEW g \in Handlers, g # h
    PROVE  handler'[g] = handler[g]
<1>1. (\E k : Become(h, k)) \/ (\E step : Goto(h, step)) => handler'[g] = handler[g]
  BY DEF Become, Goto, TypeOK
<1>2. LoginStep(h) => \E k : Become(h, k)
  BY DEF LoginStep, LoginSelect, LoginWrite, Write, Refuse, LoginGrant, ReadOwner, Mint
<1>3. RequestStep(h) => (\E k : Become(h, k)) \/ (\E step : Goto(h, step))
  BY DEF RequestStep, SubmitCreate, CreateRow, SubmitUpdate, CheckSelf, CheckExist,
         UpdateRow, SubmitDelete, DeleteRow, Accept
<1>4. Fail(h) => \E k : Become(h, k)
  BY DEF Fail
<1> QED BY <1>1, <1>2, <1>3, <1>4

\* What accounts are to the two modules.
LEMMA ViewTyped ==
    ASSUME TypeOK
    PROVE  acctView \in [Users -> Abstract!Account \cup {NoRow, Gone}]
<1>1. ASSUME NEW u \in Users, Exists(u)
      PROVE  [active |-> rows[u].active, admin |-> IsAdmin(u)] \in Abstract!Account
  <2>1. rows[u].active \in BOOLEAN
    BY <1>1 DEF TypeOK, Row, Exists
  <2>2. IsAdmin(u) \in BOOLEAN
    BY DEF IsAdmin
  <2> QED BY <2>1, <2>2, Zenon DEF Abstract!Account
<1>2. ASSUME NEW u \in Users, ~Exists(u) PROVE rows[u] \in {NoRow, Gone}
  BY <1>2 DEF Exists
<1> QED BY <1>1, <1>2 DEF acctView

\* No step forgets a row: it stays or is deleted.
LEMMA RowKept ==
    ASSUME IInv, [Next]_vars, NEW u \in Users, Exists(u), rows'[u] # Gone
    PROVE  Exists(u)'
<1> DEFINE a == acctView
<1>1. a \in [Users -> Abstract!Account \cup {NoRow, Gone}] /\ a[u] \in Abstract!Account
  BY ViewTyped, ViewExists DEF IInv
<1>2. acctView'[u] # NoRow
  <2>1. CASE UNCHANGED Abstract!accountVars
    BY <1>1, <2>1, ViewAssumption DEF Abstract!accountVars
  <2>2. ASSUME NEW v \in Users, Abstract!Promote(v)
        PROVE  acctView'[u] # NoRow
    <3>1. a[v] \in Abstract!Account /\ acctView' = [a EXCEPT ![v] = [a[v] EXCEPT !.admin = TRUE]]
      BY <1>1, <2>2 DEF Abstract!Promote
    <3>2. [a[v] EXCEPT !.admin = TRUE] \in Abstract!Account
      BY <3>1 DEF Abstract!Account
    <3> QED BY <1>1, <3>1, <3>2, ViewAssumption
  <2>3. ASSUME NEW v \in Users, Abstract!Enroll(v) \/ Abstract!Empower(v) \/ Abstract!Administer(v)
        PROVE  acctView'[u] # NoRow
    <3>1. \A b \in BOOLEAN : [active |-> TRUE, admin |-> b] \in Abstract!Account
      BY DEF Abstract!Account
    <3>2. \/ acctView' = a
          \/ \E x \in Abstract!Account \cup {Gone} : acctView' = [a EXCEPT ![v] = x]
      BY <2>3, <3>1 DEF Abstract!Enroll, Abstract!Empower, Abstract!Administer
    <3> QED BY <1>1, <3>2, ViewAssumption, DirectoryAssumption
  <2>4. CASE Abstract!RootAppears \/ Abstract!LosePower
    BY <1>1, <2>4, ViewAssumption DEF Abstract!RootAppears, Abstract!LosePower
  <2> QED BY <2>1, <2>2, <2>3, <2>4, NextImplements DEF Implemented, Abstract!AccountsNext
<1>3. rows'[u] = NoRow => acctView'[u] = NoRow
  BY DEF acctView, Exists
<1> QED BY <1>2, <1>3 DEF Exists

\* A step of the directory is one of its module.
LEMMA DirectoryNext == ASSUME DirectoryStep PROVE Next
BY ServiceAssumption
   DEF DirectoryStep, Elsewhere, BrowserLogin, LoginStep, Next

LEMMA DirectoryStepKeeps == ASSUME SInv, DirectoryStep PROVE SInv'
<1>1. IInv' /\ Next
  BY DirectoryNext, NextIInv DEF SInv
<1>2. /\ SessionsCascade /\ PatsCascade /\ Sess!Witness
      /\ UNCHANGED <<now, jar, view, call, touching, found>>
  BY DEF DirectoryStep
<1>3. Held'
  <2>1. \A u \in Users : lost[u].active \in Nat /\ lost[u].admin \in Nat /\ now \in Nat
    BY DEF SInv, Held, Tables
  <2>2. ASSUME NEW u \in Users
        PROVE  /\ Sess!Since(lost[u].active, Sess!Active(u), Sess!Active(u)') \in Nat
               /\ Sess!Since(lost[u].admin, Sess!InCharge(u), Sess!InCharge(u)') \in Nat
    BY <2>1 DEF Sess!Since
  <2>3. ASSUME NEW u \in Users
        PROVE  /\ Sess!Active(u)' => lost'[u].active = 0
               /\ Sess!InCharge(u)' => lost'[u].admin = 0
    BY <1>2 DEF Sess!Witness, Sess!Since
  <2>4. lost' \in [Users -> [active : Nat, admin : Nat]]
    BY <1>2, <2>2 DEF Sess!Witness
  <2> QED BY <2>3, <2>4 DEF Held
<1>4. Tables'
  BY <1>2 DEF SInv, Tables, SessionsCascade, PatsCascade
<1>5. Waiting'
  BY <1>2 DEF SInv, Waiting, Pat!At
<1>6. ASSUME NEW u \in Users, Exists(u), rows'[u] # Gone PROVE Exists(u)'
  BY <1>1, <1>6, RowKept DEF SInv
<1>7. SessionsOwned'
  <2>1. ASSUME NEW s \in Tokens, Sess!IsRow(s)' PROVE Exists(sessions[s].user)'
    <3>1. sessions'[s] = sessions[s] /\ Sess!IsRow(s) /\ rows'[sessions[s].user] # Gone
      BY <1>2, <2>1 DEF SessionsCascade, Sess!IsRow
    <3>2. sessions[s].user \in Users /\ Exists(sessions[s].user)
      BY <3>1 DEF SInv, Owned, SessionsOwned, Tables, Sess!IsRow, Sess!Session
    <3>3. rows'[sessions[s].user] \notin {NoRow, Gone}
      BY <1>6, <3>1, <3>2 DEF Exists
    <3> QED BY <3>1, <3>3 DEF Exists
  <2> QED BY <2>1 DEF SessionsOwned
<1>8. TokensOwned'
  <2>1. ASSUME NEW p \in Pats, Pat!IsRow(p)' PROVE Exists(pats[p].user)'
    <3>1. pats'[p] = pats[p] /\ Pat!IsRow(p) /\ rows'[pats[p].user] # Gone
      BY <1>2, <2>1 DEF PatsCascade, Pat!IsRow
    <3>2. pats[p].user \in Users /\ Exists(pats[p].user)
      BY <3>1 DEF SInv, Owned, TokensOwned, Tables, Pat!IsRow, Pat!Pat
    <3>3. rows'[pats[p].user] \notin {NoRow, Gone}
      BY <1>6, <3>1, <3>2 DEF Exists
    <3> QED BY <3>1, <3>3 DEF Exists
  <2> QED BY <2>1 DEF TokensOwned
<1> QED BY <1>1, <1>3, <1>4, <1>5, <1>7, <1>8 DEF SInv, Owned

\* A step of a browser reads the table of users and leaves it as it is.
LEMMA BrowserFrame ==
    ASSUME BrowserStep
    PROVE  [Next]_vars /\ UNCHANGED <<rows, now, lost, pats, call, touching, found>>
<1>1. UNCHANGED <<pats, call, touching, found>>
  BY DEF BrowserStep, patVars
<1>2. ASSUME NEW t \in Tabs,
             TokenRead(t) \/ TokenMint(t) \/ AnswerLost(t) \/ Callback(t) \/ CallbackRefused(t)
      PROVE  [Next]_vars /\ UNCHANGED <<rows, now, lost>>
  <2>1. \/ ReadOwner(t) \/ Mint(t) \/ Fail(t) \/ UNCHANGED vars
    BY <1>2 DEF TokenRead, TokenMint, AnswerLost, Callback, CallbackRefused
  <2>2. [Next]_vars /\ UNCHANGED rows
    BY <2>1, ServiceAssumption DEF Next, LoginStep, ReadOwner, Mint, Fail, vars
  <2>3. UNCHANGED <<now, lost>>
    BY <1>2 DEF TokenRead, TokenMint, AnswerLost, Callback, CallbackRefused,
                Sess!GetByID, Sess!Mint, Sess!AnswerLost, Sess!Authenticate, Sess!Reject,
                Sess!TakePower, Sess!DropPower, Sess!KeepAccounts
  <2> QED BY <2>2, <2>3
<1>3. CASE BrowserAlone
  <2>1. UNCHANGED <<now, lost>>
    BY <1>3 DEF BrowserAlone, Sess!AskToken, Sess!GetValid, Sess!AskLogin, Sess!HandleLogin,
                Sess!HandleOAuthStart, Sess!CreateSession, Sess!SetCookie, Sess!LogoutStep,
                Sess!AskLogout, Sess!Revoke, Sess!ClearCookie, Sess!StatementFails,
                Sess!Reload, Sess!DropCookie, Sess!KeepAccounts
  <2> QED BY <1>1, <1>3, <2>1 DEF BrowserAlone, vars
<1> QED BY <1>1, <1>2, <1>3 DEF BrowserStep

\* How a browser's step changes the table of sessions: not at all, by a row for a
\* user that exists, or in the time a row was revoked.
LEMMA SessionWrites ==
    ASSUME SInv, BrowserStep
    PROVE  \/ UNCHANGED sessions
           \/ \E s \in Tokens, r \in Sess!Session :
                 /\ sessions' = [sessions EXCEPT ![s] = r]
                 /\ Exists(r.user)
<1>1. ASSUME NEW t \in Tabs, Sess!CreateSession(t), sessions' # sessions
      PROVE  \E s \in Tokens, r \in Sess!Session :
                 sessions' = [sessions EXCEPT ![s] = r] /\ Exists(r.user)
  <2> DEFINE r == [user |-> view[t].user, expiresAt |-> now + SessionTTL, revokedAt |-> None]
  <2>1. view[t].user \in Users /\ Sess!Exists(view[t].user)
    BY <1>1 DEF Sess!CreateSession, SInv, Waiting
  <2>2. r \in Sess!Session
    BY <2>1, ServiceAssumption DEF SInv, Tables, Sess!Session
  <2>3. Exists(r.user)
    BY <2>1, SameExists DEF SInv, IInv
  <2>4. \E s \in Tokens : sessions' = [sessions EXCEPT ![s] = r]
    BY <1>1, <2>1 DEF Sess!CreateSession
  <2> QED BY <2>2, <2>3, <2>4
<1>2. ASSUME NEW t \in Tabs, Sess!Revoke(t), sessions' # sessions
      PROVE  \E s \in Tokens, r \in Sess!Session :
                 sessions' = [sessions EXCEPT ![s] = r] /\ Exists(r.user)
  <2> DEFINE s == view[t].cookie
             r == [sessions[s] EXCEPT !.revokedAt = now]
  <2>1. sessions' = [sessions EXCEPT ![s] = r] /\ Sess!IsRow(s)
    BY <1>2 DEF Sess!Revoke
  <2>2. s \in Tokens
    BY <1>2, <2>1 DEF SInv, Tables
  <2>3. sessions[s] \in Sess!Session /\ Exists(sessions[s].user)
    BY <2>1, <2>2 DEF SInv, Tables, Owned, SessionsOwned, Sess!IsRow
  <2>4. r \in Sess!Session /\ r.user = sessions[s].user
    BY <2>3 DEF SInv, Tables, Sess!Session
  <2>5. Exists(r.user)
    BY <2>3, <2>4
  <2> QED BY <2>1, <2>2, <2>4, <2>5
<1>3. \/ UNCHANGED sessions
      \/ \E t \in Tabs : Sess!CreateSession(t) \/ Sess!Revoke(t)
  BY DEF BrowserStep, TokenRead, TokenMint, AnswerLost, Callback, CallbackRefused,
         BrowserAlone, Sess!GetByID, Sess!Mint, Sess!AnswerLost, Sess!Authenticate,
         Sess!Reject, Sess!AskToken, Sess!GetValid, Sess!AskLogin, Sess!HandleLogin,
         Sess!HandleOAuthStart, Sess!SetCookie, Sess!LogoutStep, Sess!AskLogout,
         Sess!ClearCookie, Sess!StatementFails, Sess!Reload, Sess!DropCookie
<1> QED BY <1>1, <1>2, <1>3

\* How it changes what the tabs wait for: only a login that has ended well makes one
\* wait for a session.
LEMMA ViewWrites ==
    ASSUME SInv, BrowserStep
    PROVE  \/ UNCHANGED view
           \/ \E t \in Tabs : \E v : /\ view' = [view EXCEPT ![t] = v]
                                     /\ v.at = "create" => v.user \in Users
<1> DEFINE Goal == \E t \in Tabs : \E v : /\ view' = [view EXCEPT ![t] = v]
                                          /\ v.at = "create" => v.user \in Users
<1>1. ASSUME NEW t \in Tabs, NEW v, Sess!Becomes(t, v), v.at # "create" PROVE Goal
  BY <1>1 DEF Sess!Becomes
<1>2. \A at : Sess!Show(at).at = at
  BY DEF Sess!Show
<1>3. ASSUME NEW t \in Tabs, Callback(t) PROVE Goal
  <2>1. handler[t] \in Admitted
    <3>1. t \in Handlers /\ At(t, "mint") /\ TypeOK
      BY <1>3, ServiceAssumption DEF Callback, SInv, IInv
    <3> QED BY <3>1, Located, Kinds
  <2>2. SUFFICES ASSUME NEW v, v = [at |-> "create", user |-> handler[t].user] PROVE Goal
    OBVIOUS
  <2>3. Sess!Becomes(t, v)
    BY <1>3, <2>2 DEF Callback, Sess!Authenticate
  <2>4. v.user \in Users
    BY <2>1, <2>2 DEF Admitted
  <2> QED BY <2>3, <2>4 DEF Sess!Becomes
<1>4. ASSUME NEW t \in Tabs,
             TokenRead(t) \/ TokenMint(t) \/ AnswerLost(t) \/ CallbackRefused(t)
      PROVE  Goal
  <2>1. \E v : Sess!Becomes(t, v) /\ v.at # "create"
    BY <1>2, <1>4 DEF TokenRead, TokenMint, AnswerLost, CallbackRefused,
                      Sess!GetByID, Sess!Mint, Sess!AnswerLost, Sess!Reject
  <2> QED BY <1>1, <2>1
<1>5. ASSUME NEW t \in Tabs,
             \/ Sess!AskToken(t) \/ Sess!GetValid(t)
             \/ Sess!AskLogin(t) \/ Sess!HandleLogin(t) \/ Sess!HandleOAuthStart(t)
      PROVE  Goal
  <2>1. \E v : Sess!Becomes(t, v) /\ v.at # "create"
    BY <1>2, <1>5 DEF Sess!AskToken, Sess!GetValid, Sess!AskLogin, Sess!HandleLogin,
                      Sess!HandleOAuthStart
  <2> QED BY <1>1, <2>1
<1>6. ASSUME NEW t \in Tabs, Sess!CreateSession(t) \/ Sess!SetCookie(t) PROVE Goal
  <2>1. \/ Sess!Becomes(t, Sess!Show("error")) \/ Sess!Becomes(t, Sess!Show("app"))
        \/ \E s \in Tokens : Sess!Becomes(t, [at |-> "setCookie", cookie |-> s])
    BY <1>6 DEF Sess!CreateSession, Sess!SetCookie
  <2>2. ASSUME NEW s \in Tokens, NEW v, v = [at |-> "setCookie", cookie |-> s],
               Sess!Becomes(t, v)
        PROVE  Goal
    BY <1>1, <2>2
  <2>3. ASSUME NEW at \in {"error", "app"}, Sess!Becomes(t, Sess!Show(at)) PROVE Goal
    BY <1>1, <1>2, <2>3
  <2> QED BY <2>1, <2>2, <2>3
<1>7. ASSUME NEW t \in Tabs, Sess!LogoutStep(t) PROVE Goal
  <2>1. \E v : Sess!Becomes(t, v) /\ v.at # "create"
    BY <1>2, <1>7 DEF Sess!LogoutStep, Sess!AskLogout, Sess!Revoke, Sess!ClearCookie
  <2> QED BY <1>1, <2>1
<1>8. ASSUME NEW t \in Tabs, Sess!StatementFails(t) \/ Sess!Reload(t) PROVE Goal
  <2>1. \E v : Sess!Becomes(t, v) /\ v.at # "create"
    BY <1>2, <1>8 DEF Sess!StatementFails, Sess!Reload
  <2> QED BY <1>1, <2>1
<1>9. ASSUME NEW b \in Browsers, Sess!DropCookie(b) PROVE UNCHANGED view
  BY <1>9 DEF Sess!DropCookie
<1> QED BY <1>3, <1>4, <1>5, <1>6, <1>7, <1>8, <1>9 DEF BrowserStep, BrowserAlone

LEMMA BrowserStepKeeps == ASSUME SInv, BrowserStep PROVE SInv'
<1>1. [Next]_vars /\ UNCHANGED <<rows, now, lost, pats, call, touching, found>>
  BY BrowserFrame
<1>2. IInv'
  BY <1>1, NextIInv DEF SInv
<1>3. UNCHANGED acctView
  BY <1>1, ViewFrame
<1>4. Held'
  BY <1>1, <1>3 DEF SInv, Held, Sess!Active, Sess!InCharge, Sess!Exists
<1>5. Tables'
  BY <1>1, SessionWrites DEF SInv, Tables
<1>6. Waiting'
  BY <1>1, ViewWrites DEF SInv, Waiting, Pat!At
<1>7. SessionsOwned'
  <2>1. CASE UNCHANGED sessions
    BY <1>1, <2>1 DEF SInv, Owned, SessionsOwned, Sess!IsRow, Exists
  <2>2. ASSUME NEW s \in Tokens, NEW r, sessions' = [sessions EXCEPT ![s] = r], Exists(r.user)
        PROVE  SessionsOwned'
    BY <1>1, <2>2 DEF SInv, Tables, Owned, SessionsOwned, Sess!IsRow, Exists
  <2> QED BY <2>1, <2>2, SessionWrites
<1>8. TokensOwned'
  BY <1>1 DEF SInv, Owned, TokensOwned, Pat!IsRow, Exists
<1> QED BY <1>2, <1>4, <1>5, <1>6, <1>7, <1>8 DEF SInv, Owned

\* How a request or a goroutine changes the table of tokens: not at all, by a row for
\* a user that exists, or in two columns of a row.
LEMMA PatWrites ==
    ASSUME SInv, PatStep
    PROVE  \/ UNCHANGED pats
           \/ \E p \in Pats, r \in Pat!Pat :
                 /\ pats' = [pats EXCEPT ![p] = r]
                 /\ Exists(r.user)
<1> DEFINE Written == \E p \in Pats, r \in Pat!Pat :
                          pats' = [pats EXCEPT ![p] = r] /\ Exists(r.user)
<1>1. ASSUME NEW h \in Calls, Pat!CreatePat(h), pats' # pats PROVE Written
  <2>1. call[h].user \in Users /\ Pat!Exists(call[h].user)
    BY <1>1 DEF Pat!CreatePat, SInv, Waiting
  <2>2. PICK p \in Pats, e \in {None, now + PatTTL} :
            pats' = [pats EXCEPT ![p] = [user |-> call[h].user, expiresAt |-> e,
                                         revokedAt |-> None, lastUsedAt |-> None]]
    BY <1>1, <2>1 DEF Pat!CreatePat
  <2>3. SUFFICES ASSUME NEW r, r = [user |-> call[h].user, expiresAt |-> e,
                                    revokedAt |-> None, lastUsedAt |-> None]
                 PROVE  Written
    OBVIOUS
  <2>4. e \in Pat!Time
    BY ServiceAssumption DEF Pat!Time, SInv, Tables
  <2>5. r \in Pat!Pat /\ r.user = call[h].user
    BY <2>1, <2>3, <2>4 DEF Pat!Pat, Pat!Time
  <2>6. Exists(r.user)
    BY <2>1, <2>5, SameExists DEF SInv, IInv
  <2> QED BY <2>2, <2>3, <2>5, <2>6
<1>2. ASSUME NEW p, NEW r, Pat!IsRow(p), pats' = [pats EXCEPT ![p] = r], pats' # pats,
             \/ r = [pats[p] EXCEPT !.revokedAt = now]
             \/ r = [pats[p] EXCEPT !.lastUsedAt = now]
      PROVE  Written
  <2>1. p \in Pats
    BY <1>2 DEF SInv, Tables
  <2>2. pats[p] \in Pat!Pat /\ Exists(pats[p].user)
    BY <1>2, <2>1 DEF SInv, Tables, Owned, TokensOwned, Pat!IsRow
  <2>3. r \in Pat!Pat /\ r.user = pats[p].user
    BY <1>2, <2>2 DEF SInv, Tables, Pat!Pat, Pat!Time
  <2> QED BY <1>2, <2>1, <2>2, <2>3
<1>3. ASSUME NEW h \in Calls, Pat!RevokePat(h), pats' # pats PROVE Written
  <2> DEFINE p == call[h].pat
             r == [pats[p] EXCEPT !.revokedAt = now]
  <2>1. Pat!IsRow(p) /\ pats' = [pats EXCEPT ![p] = r]
    BY <1>3 DEF Pat!RevokePat
  <2> QED BY <1>2, <1>3, <2>1
<1>4. ASSUME NEW g \in touching, Pat!TouchLastUsed(g), pats' # pats PROVE Written
  <2> DEFINE p == g.pat
             r == [pats[p] EXCEPT !.lastUsedAt = now]
  <2>1. Pat!IsRow(p) /\ pats' = [pats EXCEPT ![p] = r]
    BY <1>4 DEF Pat!TouchLastUsed
  <2> QED BY <1>2, <1>4, <2>1
<1>5. \/ UNCHANGED pats
      \/ \E h \in Calls : Pat!CreatePat(h) \/ Pat!RevokePat(h)
      \/ \E g \in touching : Pat!TouchLastUsed(g)
  BY DEF PatStep, Pat!CallStep, Pat!SubmitIntrospect, Pat!GetByHash, Pat!Check,
         Pat!GetByID, Pat!Reply, Pat!SubmitCreate, Pat!SubmitRevoke, Pat!StatementFails,
         Pat!TouchFails
<1> QED BY <1>1, <1>3, <1>4, <1>5

\* How it changes the requests: only a creation that has found its user inserts.
LEMMA CallWrites ==
    ASSUME SInv, PatStep
    PROVE  \/ UNCHANGED call
           \/ \E h \in Calls : \E k : /\ call' = [call EXCEPT ![h] = k]
                                      /\ k # None /\ k.at = "insert" => k.user \in Users
<1> DEFINE Goal == \E h \in Calls : \E k : /\ call' = [call EXCEPT ![h] = k]
                                           /\ k # None /\ k.at = "insert" => k.user \in Users
<1>1. ASSUME NEW h \in Calls, NEW k, Pat!Become(h, k),
             k # None /\ k.at = "insert" => k.user \in Users
      PROVE  Goal
  BY <1>1 DEF Pat!Become
<1>2. ASSUME NEW h \in Calls, NEW ok, Pat!Answer(h, ok) PROVE Goal
  BY <1>1, <1>2 DEF Pat!Answer
<1>3. ASSUME NEW h \in Calls, Pat!SubmitCreate(h) PROVE Goal
  BY <1>1, <1>3 DEF Pat!SubmitCreate
<1>4. ASSUME NEW h \in Calls,
             Pat!SubmitIntrospect(h) \/ Pat!SubmitRevoke(h) \/ Pat!Reply(h)
             \/ Pat!CreatePat(h) \/ Pat!RevokePat(h)
      PROVE  Goal
  BY <1>1, <1>4 DEF Pat!SubmitIntrospect, Pat!SubmitRevoke, Pat!Reply, Pat!CreatePat,
                    Pat!RevokePat
<1>5. ASSUME NEW h \in Calls, Pat!GetByHash(h) PROVE Goal
  BY <1>1, <1>2, <1>5 DEF Pat!GetByHash
<1>6. ASSUME NEW h \in Calls, Pat!Check(h) PROVE Goal
  <2>1. CASE Pat!Answer(h, FALSE)
    BY <1>2, <2>1
  <2>2. CASE Pat!Become(h, [call[h] EXCEPT !.at = "getByID"])
    <3>1. SUFFICES ASSUME NEW k, k = [call[h] EXCEPT !.at = "getByID"] PROVE Goal
      OBVIOUS
    <3>2. k.at # "insert" \/ k = call[h]
      BY <3>1
    <3>3. call[h] # None /\ call[h].at = "check"
      BY <1>6 DEF Pat!Check, Pat!At
    <3> QED BY <1>1, <2>2, <3>1, <3>2, <3>3
  <2> QED BY <1>6, <2>1, <2>2 DEF Pat!Check
<1>7. ASSUME NEW h \in Calls, Pat!GetByID(h) \/ Pat!StatementFails(h) PROVE Goal
  BY <1>1, <1>2, <1>7 DEF Pat!GetByID, Pat!StatementFails
<1>8. ASSUME NEW g \in touching, Pat!TouchLastUsed(g) \/ Pat!TouchFails(g) PROVE UNCHANGED call
  BY <1>8 DEF Pat!TouchLastUsed, Pat!TouchFails
<1> QED BY <1>3, <1>4, <1>5, <1>6, <1>7, <1>8 DEF PatStep, Pat!CallStep

LEMMA PatStepKeeps == ASSUME SInv, PatStep PROVE SInv'
<1>1. UNCHANGED <<vars, rows, handler, adminTokens, sessions, jar, view, lost>>
  BY DEF PatStep, vars, sessionVars
<1>2. UNCHANGED now
  BY DEF PatStep, Pat!CallStep, Pat!SubmitIntrospect, Pat!GetByHash, Pat!Check,
         Pat!GetByID, Pat!Reply, Pat!SubmitCreate, Pat!CreatePat, Pat!SubmitRevoke,
         Pat!RevokePat, Pat!StatementFails, Pat!TouchLastUsed, Pat!TouchFails
<1>3. IInv'
  BY <1>1, StutterIInv DEF SInv
<1>4. UNCHANGED acctView
  BY <1>1, ViewFrame
<1>5. Held'
  BY <1>1, <1>4 DEF SInv, Held, Sess!Active, Sess!InCharge, Sess!Exists
<1>6. Tables'
  BY <1>1, <1>2, PatWrites DEF SInv, Tables
<1>7. Waiting'
  BY <1>1, CallWrites DEF SInv, Waiting, Pat!At
<1>8. SessionsOwned'
  BY <1>1 DEF SInv, Owned, SessionsOwned, Sess!IsRow, Exists
<1>9. TokensOwned'
  <2>1. CASE UNCHANGED pats
    BY <1>1, <2>1 DEF SInv, Owned, TokensOwned, Pat!IsRow, Exists
  <2>2. ASSUME NEW p \in Pats, NEW r, pats' = [pats EXCEPT ![p] = r], Exists(r.user)
        PROVE  TokensOwned'
    BY <1>1, <2>2 DEF SInv, Tables, Owned, TokensOwned, Pat!IsRow, Exists
  <2> QED BY <2>1, <2>2, PatWrites
<1> QED BY <1>3, <1>5, <1>6, <1>7, <1>8, <1>9 DEF SInv, Owned

LEMMA TickKeeps == ASSUME SInv, Tick PROVE SInv'
<1>1. /\ UNCHANGED <<vars, rows, handler, adminTokens, sessions, jar, lost, pats, call>>
      /\ now' = now + 1
      /\ view' = [t \in Tabs |-> IF view[t].at = "in" /\ view[t].exp <= now'
                                 THEN Sess!Show("app") ELSE view[t]]
  BY DEF Tick, vars, Sess!Tick, Pat!Tick, Sess!KeepAccounts
<1>2. IInv'
  BY <1>1, StutterIInv DEF SInv
<1>3. UNCHANGED acctView
  BY <1>1, ViewFrame
<1>4. Held'
  BY <1>1, <1>3 DEF SInv, Held, Sess!Active, Sess!InCharge, Sess!Exists
<1>5. Tables'
  BY <1>1 DEF SInv, Tables
<1>6. Waiting'
  BY <1>1 DEF SInv, Waiting, Pat!At, Sess!Show
<1>7. Owned'
  BY <1>1 DEF SInv, Owned, SessionsOwned, TokensOwned, Sess!IsRow, Pat!IsRow, Exists
<1> QED BY <1>2, <1>4, <1>5, <1>6, <1>7 DEF SInv

\* The tables start empty and nobody has lost anything.
LEMMA ServiceStarts == ASSUME ServiceInit PROVE SInv
<1>1. IInv
  BY InitIInv DEF ServiceInit
<1>2. \A u \in Users : rows[u] = NoRow
  BY DEF ServiceInit, Init
<1>3. Held /\ Tables
  BY DEF ServiceInit, Held, Tables
<1>4. Waiting
  BY DEF ServiceInit, Waiting, Sess!Show, Pat!At
<1>5. Owned
  BY DEF ServiceInit, Owned, SessionsOwned, TokensOwned, Sess!IsRow, Pat!IsRow
<1> QED BY <1>1, <1>3, <1>4, <1>5 DEF SInv

LEMMA ServiceKeeps == ASSUME SInv, [ServiceNext]_serviceVars PROVE SInv'
<1>1. CASE UNCHANGED serviceVars
  <2>1. UNCHANGED <<vars, rows, now, sessions, view, pats, call, lost>>
    BY <1>1 DEF serviceVars, vars, sessionVars, patVars
  <2>2. IInv' /\ UNCHANGED acctView
    BY <2>1, StutterIInv, ViewFrame DEF SInv
  <2>3. Held' /\ Tables' /\ Waiting'
    BY <2>1, <2>2 DEF SInv, Held, Tables, Waiting, Sess!Active, Sess!InCharge, Sess!Exists, Pat!At
  <2>4. Owned'
    BY <2>1 DEF SInv, Owned, SessionsOwned, TokensOwned, Sess!IsRow, Pat!IsRow, Exists
  <2> QED BY <2>2, <2>3, <2>4 DEF SInv
<1> QED BY <1>1, DirectoryStepKeeps, BrowserStepKeeps, PatStepKeeps, TickKeeps DEF ServiceNext

\* What the theorems below rest on.
THEOREM ServiceInvariant == ServiceSpec => []SInv
<1>1. ServiceInit => SInv
  BY ServiceStarts
<1>2. SInv /\ [ServiceNext]_serviceVars => SInv'
  BY ServiceKeeps
<1> QED BY <1>1, <1>2, PTL DEF ServiceSpec

\* No session is ever without its user, under every interleaving of logins and deletes.
THEOREM SessionsOwnedCorrect == ServiceSpec => []SessionsOwned
<1>1. SInv => SessionsOwned
  BY DEF SInv, Owned
<1> QED BY <1>1, ServiceInvariant, PTL

\* The same for personal access tokens, their creations and deletes.
THEOREM TokensOwnedCorrect == ServiceSpec => []TokensOwned
<1>1. SInv => TokensOwned
  BY DEF SInv, Owned
<1> QED BY <1>1, ServiceInvariant, PTL

-----------------------------------------------------------------------------
(* The service implements its parts. *)

\* The directory within the service does what it does on its own.
THEOREM DirectoryWithin == ServiceSpec => Spec
<1>1. ServiceInit => Init
  BY DEF ServiceInit
<1>2. [ServiceNext]_serviceVars => [Next]_vars
  BY DirectoryNext, BrowserFrame DEF ServiceNext, PatStep, Tick, serviceVars, vars
<1> QED BY <1>1, <1>2, PTL DEF ServiceSpec, Spec

\* A service without users, to the two modules.
LEMMA NoAccounts ==
    ASSUME ServiceInit
    PROVE  acctView = [u \in Users |-> NoRow] /\ powerView = FALSE
<1>1. \A u \in Users : rows[u] = NoRow
  BY DEF ServiceInit, Init
<1>2. acctView = [u \in Users |-> NoRow]
  BY <1>1 DEF acctView, Exists
<1>3. ~powerView
  BY DEF ServiceInit, Init, powerView
<1> QED BY <1>2, <1>3, PowerBoolean

LEMMA SessionsStep ==
    ASSUME SInv, [ServiceNext]_serviceVars
    PROVE  [Sess!Next]_(Sess!vars)
<1>1. CASE DirectoryStep
  <2>1. Sess!AccountStep
    BY <1>1, DirectoryNext, CascadeSteps DEF DirectoryStep
  <2> QED BY <2>1 DEF Sess!Next
<1>2. CASE BrowserStep
  <2>1. \A t \in Tabs : TokenRead(t) => Sess!TokenStep(t)
    BY DEF TokenRead, Sess!TokenStep
  <2>2. \A t \in Tabs : TokenMint(t) => Sess!TokenStep(t)
    BY DEF TokenMint, Sess!TokenStep
  <2>3. \A t \in Tabs : AnswerLost(t) => Sess!AnswerLost(t)
    BY DEF AnswerLost
  <2>4. ASSUME NEW t \in Tabs, Callback(t) PROVE Sess!LoginStep(t)
    <3>1. t \in Handlers /\ At(t, "mint") /\ TypeOK
      BY <2>4, ServiceAssumption DEF Callback, SInv, IInv
    <3>2. handler[t].user \in Users
      BY <3>1, Located, Kinds DEF Admitted
    <3> QED BY <2>4, <3>2 DEF Callback, Sess!LoginStep
  <2>5. \A t \in Tabs : CallbackRefused(t) => Sess!LoginStep(t)
    BY DEF CallbackRefused, Sess!LoginStep
  <2>6. BrowserAlone => Sess!Next
    BY DEF BrowserAlone, Sess!Next, Sess!TokenStep, Sess!LoginStep
  <2> QED BY <1>2, <2>1, <2>2, <2>3, <2>4, <2>5, <2>6 DEF BrowserStep, Sess!Next
<1>3. CASE PatStep
  <2>1. UNCHANGED <<vars, sessions, jar, view, lost, now>>
    BY <1>3 DEF PatStep, sessionVars, Pat!CallStep, Pat!SubmitIntrospect, Pat!GetByHash,
         Pat!Check, Pat!GetByID, Pat!Reply, Pat!SubmitCreate, Pat!CreatePat,
         Pat!SubmitRevoke, Pat!RevokePat, Pat!StatementFails, Pat!TouchLastUsed, Pat!TouchFails
  <2> QED BY <2>1, StillView DEF Sess!vars
<1>4. CASE Tick
  BY <1>4 DEF Tick, Sess!Next
<1>5. CASE UNCHANGED serviceVars
  BY <1>5, StillView DEF serviceVars, sessionVars, Sess!vars
<1> QED BY <1>1, <1>2, <1>3, <1>4, <1>5 DEF ServiceNext

\* The sessions of the service are those of BrowserSessions: what its theorems say
\* holds with the directory's statements for account steps.
THEOREM SessionsImplemented == ServiceSpec => ImplementsSessions
<1>1. ServiceInit => Sess!Init
  BY NoAccounts DEF ServiceInit, Sess!Init, Sess!AccountsInit
<1>2. SInv /\ [ServiceNext]_serviceVars => [Sess!Next]_(Sess!vars)
  BY SessionsStep
<1> QED BY <1>1, <1>2, ServiceInvariant, PTL DEF ServiceSpec, ImplementsSessions, Sess!Spec

LEMMA TokensStep ==
    ASSUME SInv, [ServiceNext]_serviceVars
    PROVE  [Pat!Next]_(Pat!vars)
<1>1. CASE DirectoryStep
  <2>1. Pat!AccountStep
    BY <1>1, DirectoryNext, CascadeSteps DEF DirectoryStep
  <2> QED BY <2>1 DEF Pat!Next
<1>2. CASE BrowserStep
  <2>1. Pat!AccountStep
    BY <1>2, BrowserFrame, QuietForPats
  <2> QED BY <2>1 DEF Pat!Next
<1>3. CASE PatStep
  BY <1>3 DEF PatStep, Pat!Next
<1>4. CASE Tick
  BY <1>4 DEF Tick, Pat!Next
<1>5. CASE UNCHANGED serviceVars
  <2>1. UNCHANGED <<vars, now, pats, call, touching, found, lost>>
    BY <1>5 DEF serviceVars, patVars
  <2>2. UNCHANGED lostActive
    BY <2>1 DEF lostActive
  <2> QED BY <2>1, <2>2, StillView DEF Pat!vars
<1> QED BY <1>1, <1>2, <1>3, <1>4, <1>5 DEF ServiceNext

\* The same for the personal access tokens.
THEOREM TokensImplemented == ServiceSpec => ImplementsTokens
<1>1. ServiceInit => Pat!Init
  BY NoAccounts DEF ServiceInit, lostActive, Pat!Init, Pat!AccountsInit
<1>2. SInv /\ [ServiceNext]_serviceVars => [Pat!Next]_(Pat!vars)
  BY TokensStep
<1> QED BY <1>1, <1>2, ServiceInvariant, PTL DEF ServiceSpec, ImplementsTokens, Pat!Spec

-----------------------------------------------------------------------------
(* What the parts know of each other *)

PInv == SInv /\ RequestsPaired /\ AdminJwtsCounted

\* A handler ends no JWT: only expiry takes one away.
LEMMA TokensGrow ==
    ASSUME NEW h \in Handlers, LoginStep(h) \/ RequestStep(h) \/ Fail(h)
    PROVE  adminTokens \subseteq adminTokens'
BY DEF LoginStep, LoginSelect, LoginWrite, LoginGrant, ReadOwner, Mint,
       RequestStep, SubmitCreate, CreateRow, SubmitUpdate, CheckSelf, CheckExist,
       UpdateRow, SubmitDelete, DeleteRow, Accept, Fail

LEMMA DirectoryStepPairs ==
    ASSUME PInv, DirectoryStep
    PROVE  RequestsPaired' /\ AdminJwtsCounted'
<1>1. view' = view /\ TypeOK
  BY DEF DirectoryStep, PInv, SInv, IInv
<1>2. ASSUME NEW h \in Handlers \ Tabs, Elsewhere(h) PROVE RequestsPaired' /\ AdminJwtsCounted'
  <2>1. \A t \in Tabs : handler'[t] = handler[t]
    BY <1>1, <1>2, OneHandler, ServiceAssumption DEF Elsewhere
  <2>2. adminTokens \subseteq adminTokens'
    BY <1>2, TokensGrow DEF Elsewhere
  <2> QED BY <1>1, <2>1, <2>2 DEF PInv, RequestsPaired, Paired, AdminJwtsCounted, At
<1>3. ASSUME NEW b \in Tabs, BrowserLogin(b) PROVE RequestsPaired' /\ AdminJwtsCounted'
  <2>1. b \in Handlers /\ (LoginStep(b) \/ Fail(b)) /\ view[b].at = "provider"
    BY <1>3, ServiceAssumption DEF BrowserLogin, LoginStep
  <2>2. \A t \in Tabs \ {b} : handler'[t] = handler[t]
    BY <1>1, <2>1, OneHandler, ServiceAssumption
  <2>3. adminTokens \subseteq adminTokens'
    BY <2>1, TokensGrow
  <2> QED BY <1>1, <2>1, <2>2, <2>3 DEF PInv, RequestsPaired, Paired, AdminJwtsCounted, At
<1>4. ASSUME NEW c \in Roots, RootLogin(c) PROVE RequestsPaired' /\ AdminJwtsCounted'
  BY <1>1, <1>4 DEF RootLogin, PInv, RequestsPaired, Paired, AdminJwtsCounted, At
<1>5. ASSUME NEW c \in Users \cup Roots, \A t \in Tabs : ~Carries(t, c), JwtExpires(c)
      PROVE  RequestsPaired' /\ AdminJwtsCounted'
  BY <1>1, <1>5 DEF JwtExpires, Carries, PInv, RequestsPaired, Paired, AdminJwtsCounted, At
<1> QED BY <1>2, <1>3, <1>4, <1>5 DEF DirectoryStep

\* One tab goes on with its handler.
LEMMA OnePair ==
    ASSUME PInv, NEW t \in Tabs, NEW v, view' = [view EXCEPT ![t] = v],
           \A g \in Handlers \ {t} : handler'[g] = handler[g],
           adminTokens \subseteq adminTokens',
           v.at = "mint" => /\ handler'[t] # None /\ handler'[t].at = "mint"
                            /\ handler'[t].user = v.user /\ handler'[t].admin = v.admin,
           handler'[t] # None => v.at \in {"provider", "mint"},
           v.at = "in" /\ v.admin => v.user \in adminTokens'
    PROVE  RequestsPaired' /\ AdminJwtsCounted'
<1>1. view'[t] = v /\ \A u \in Tabs \ {t} : view'[u] = view[u]
  BY DEF PInv, SInv, Waiting
<1>2. Paired(t)'
  BY <1>1 DEF Paired, At
<1>3. ASSUME NEW u \in Tabs \ {t} PROVE Paired(u)'
  BY <1>1, <1>3, ServiceAssumption DEF PInv, RequestsPaired, Paired, At
<1>4. AdminJwtsCounted'
  BY <1>1 DEF PInv, AdminJwtsCounted
<1> QED BY <1>2, <1>3, <1>4 DEF RequestsPaired

LEMMA ServedPairs ==
    ASSUME PInv, NEW t \in Tabs,
           TokenRead(t) \/ TokenMint(t) \/ AnswerLost(t) \/ Callback(t) \/ CallbackRefused(t)
    PROVE  RequestsPaired' /\ AdminJwtsCounted'
<1>1. /\ t \in Handlers /\ TypeOK /\ Paired(t)
      /\ handler \in [Handlers -> Handler \cup {None}]
  BY ServiceAssumption DEF PInv, SInv, IInv, TypeOK, RequestsPaired
<1>2. \A at : Sess!Show(at).at = at
  BY DEF Sess!Show
<1>3. CASE TokenRead(t)
  <2>1. CASE Sess!Active(view[t].user)
    <3>1. SUFFICES ASSUME NEW v, v = [at |-> "mint", cookie |-> view[t].cookie,
                                      since |-> view[t].since, user |-> view[t].user,
                                      admin |-> acctView[view[t].user].admin]
                   PROVE  RequestsPaired' /\ AdminJwtsCounted'
      OBVIOUS
    <3>2. /\ view[t].at = "getByID" /\ view' = [view EXCEPT ![t] = v]
          /\ ReadOwner(t) /\ handler'[t].user = view[t].user
      BY <1>3, <2>1, <3>1 DEF TokenRead, Sess!GetByID, Sess!Becomes
    <3>3. PICK u \in Users : /\ Exists(u)
                             /\ Become(t, [at |-> "mint", user |-> u, admin |-> IsAdmin(u)])
      BY <3>2 DEF ReadOwner
    <3>4. handler' = [handler EXCEPT ![t] = [at |-> "mint", user |-> u, admin |-> IsAdmin(u)]]
      BY <3>3 DEF Become
    <3>5. handler'[t] = [at |-> "mint", user |-> u, admin |-> IsAdmin(u)]
      BY <1>1, <3>4
    <3>6. u = view[t].user /\ acctView[u].admin = IsAdmin(u)
      <4>1. u = view[t].user
        BY <3>2, <3>5
      <4>2. acctView[u] = [active |-> rows[u].active, admin |-> IsAdmin(u)]
        BY <3>3, ViewAt
      <4> QED BY <4>1, <4>2
    <3>7. /\ handler'[t].at = "mint" /\ handler'[t].user = v.user
          /\ handler'[t].admin = v.admin /\ v.at = "mint"
      BY <3>1, <3>5, <3>6
    <3>8. handler'[t] # None
      <4>1. IsAdmin(u) \in BOOLEAN
        BY DEF IsAdmin
      <4>2. [at |-> "mint", user |-> u, admin |-> IsAdmin(u)] \in Admitted
        BY <4>1, Zenon DEF Admitted
      <4> QED BY <3>5, <4>2, DirectoryAssumption DEF Handler
    <3> QED BY <1>1, <3>2, <3>4, <3>7, <3>8, OnePair DEF ReadOwner
  <2>2. CASE ~Sess!Active(view[t].user)
    <3>1. SUFFICES ASSUME NEW v, v = Sess!Show("refused")
                   PROVE  RequestsPaired' /\ AdminJwtsCounted'
      OBVIOUS
    <3>2. /\ view[t].at = "getByID" /\ view' = [view EXCEPT ![t] = v] /\ UNCHANGED vars
      BY <1>3, <2>2, <3>1 DEF TokenRead, Sess!GetByID, Sess!Becomes
    <3> QED BY <1>1, <1>2, <3>1, <3>2, OnePair DEF Paired, vars
  <2> QED BY <2>1, <2>2
<1>4. CASE TokenMint(t)
  <2>1. SUFFICES ASSUME NEW v, v = [at |-> "in", cookie |-> view[t].cookie,
                                    user |-> view[t].user, admin |-> view[t].admin,
                                    exp |-> now + JwtTTL]
                 PROVE  RequestsPaired' /\ AdminJwtsCounted'
    OBVIOUS
  <2>2. view[t].at = "mint" /\ view' = [view EXCEPT ![t] = v] /\ Mint(t)
    BY <1>4, <2>1 DEF TokenMint, Sess!Mint, Sess!Becomes
  <2>3. /\ handler' = [handler EXCEPT ![t] = None]
        /\ adminTokens' = adminTokens \cup (IF handler[t].admin THEN {handler[t].user} ELSE {})
    BY <2>2 DEF Mint, Become
  <2>4. v.user = handler[t].user /\ v.admin = handler[t].admin /\ v.at = "in"
    BY <1>1, <2>1, <2>2 DEF Paired
  <2>5. handler'[t] = None
    BY <1>1, <2>3
  <2> QED BY <1>1, <2>2, <2>3, <2>4, <2>5, OnePair
<1>5. CASE AnswerLost(t)
  <2>1. SUFFICES ASSUME NEW v, v = Sess!Show("error")
                 PROVE  RequestsPaired' /\ AdminJwtsCounted'
    OBVIOUS
  <2>2. view[t].at \in {"mint", "setCookie", "clear"} /\ view' = [view EXCEPT ![t] = v]
    BY <1>5, <2>1 DEF AnswerLost, Sess!AnswerLost, Sess!Becomes
  <2>3. /\ handler'[t] = None
        /\ \A g \in Handlers \ {t} : handler'[g] = handler[g]
        /\ adminTokens \subseteq adminTokens'
    BY <1>1, <1>5, <2>2 DEF AnswerLost, Mint, Fail, Become, Paired, vars
  <2> QED BY <1>2, <2>1, <2>2, <2>3, OnePair
<1>6. CASE Callback(t)
  <2>1. SUFFICES ASSUME NEW v, v = [at |-> "create", user |-> handler[t].user]
                 PROVE  RequestsPaired' /\ AdminJwtsCounted'
    OBVIOUS
  <2>2. view' = [view EXCEPT ![t] = v] /\ Fail(t)
    BY <1>6, <2>1 DEF Callback, Sess!Authenticate, Sess!Becomes
  <2>3. /\ handler'[t] = None
        /\ \A g \in Handlers \ {t} : handler'[g] = handler[g]
        /\ adminTokens \subseteq adminTokens'
    BY <1>1, <2>2 DEF Fail, Become
  <2>4. v.at = "create"
    BY <2>1
  <2> QED BY <2>2, <2>3, <2>4, OnePair
<1>7. CASE CallbackRefused(t)
  <2>1. SUFFICES ASSUME NEW v, v = Sess!Show("error")
                 PROVE  RequestsPaired' /\ AdminJwtsCounted'
    OBVIOUS
  <2>2. view' = [view EXCEPT ![t] = v] /\ handler[t] = None /\ UNCHANGED vars
    BY <1>7, <2>1 DEF CallbackRefused, Sess!Reject, Sess!Becomes
  <2> QED BY <1>2, <2>1, <2>2, OnePair DEF vars
<1> QED BY <1>3, <1>4, <1>5, <1>6, <1>7

\* A tab whose step the directory has no part in is served by no handler.
LEMMA AlonePairs ==
    ASSUME PInv, BrowserAlone
    PROVE  RequestsPaired' /\ AdminJwtsCounted'
<1>1. UNCHANGED vars /\ UNCHANGED <<handler, adminTokens>>
  BY DEF BrowserAlone, vars
<1>2. \A at : Sess!Show(at).at = at
  BY DEF Sess!Show
<1>3. ASSUME NEW t \in Tabs, NEW v, view[t].at \notin {"provider", "mint"},
             Sess!Becomes(t, v), v.at \notin {"mint", "in"}
      PROVE  RequestsPaired' /\ AdminJwtsCounted'
  <2>1. Paired(t) /\ view' = [view EXCEPT ![t] = v]
    BY <1>3 DEF PInv, RequestsPaired, Sess!Becomes
  <2>2. handler'[t] = None
    BY <1>1, <1>3, <2>1 DEF Paired
  <2> QED BY <1>1, <1>3, <2>1, <2>2, OnePair
<1>4. ASSUME NEW t \in Tabs,
             \/ Sess!AskToken(t) \/ Sess!GetValid(t)
             \/ Sess!AskLogin(t) \/ Sess!HandleLogin(t) \/ Sess!HandleOAuthStart(t)
      PROVE  RequestsPaired' /\ AdminJwtsCounted'
  <2>1. view[t].at \notin {"provider", "mint"}
    BY <1>4 DEF Sess!AskToken, Sess!GetValid, Sess!AskLogin, Sess!HandleLogin,
                Sess!HandleOAuthStart
  <2>2. \E v : Sess!Becomes(t, v) /\ v.at \notin {"mint", "in"}
    BY <1>2, <1>4 DEF Sess!AskToken, Sess!GetValid, Sess!AskLogin, Sess!HandleLogin,
                      Sess!HandleOAuthStart
  <2> QED BY <1>3, <2>1, <2>2
<1>5. ASSUME NEW t \in Tabs, Sess!CreateSession(t) \/ Sess!SetCookie(t)
      PROVE  RequestsPaired' /\ AdminJwtsCounted'
  <2>1. view[t].at \notin {"provider", "mint"}
    BY <1>5 DEF Sess!CreateSession, Sess!SetCookie
  <2>2. \/ Sess!Becomes(t, Sess!Show("error")) \/ Sess!Becomes(t, Sess!Show("app"))
        \/ \E s \in Tokens : Sess!Becomes(t, [at |-> "setCookie", cookie |-> s])
    BY <1>5 DEF Sess!CreateSession, Sess!SetCookie
  <2>3. ASSUME NEW s \in Tokens, NEW v, v = [at |-> "setCookie", cookie |-> s],
               Sess!Becomes(t, v)
        PROVE  RequestsPaired' /\ AdminJwtsCounted'
    BY <1>3, <2>1, <2>3
  <2>4. ASSUME NEW at \in {"error", "app"}, Sess!Becomes(t, Sess!Show(at))
        PROVE  RequestsPaired' /\ AdminJwtsCounted'
    BY <1>2, <1>3, <2>1, <2>4
  <2> QED BY <2>2, <2>3, <2>4
<1>6. ASSUME NEW t \in Tabs, Sess!LogoutStep(t)
      PROVE  RequestsPaired' /\ AdminJwtsCounted'
  <2>1. view[t].at \notin {"provider", "mint"}
    BY <1>6 DEF Sess!LogoutStep, Sess!AskLogout, Sess!Revoke, Sess!ClearCookie
  <2>2. \E v : Sess!Becomes(t, v) /\ v.at \notin {"mint", "in"}
    BY <1>2, <1>6 DEF Sess!LogoutStep, Sess!AskLogout, Sess!Revoke, Sess!ClearCookie
  <2> QED BY <1>3, <2>1, <2>2
<1>7. ASSUME NEW t \in Tabs, Sess!StatementFails(t) \/ Sess!Reload(t)
      PROVE  RequestsPaired' /\ AdminJwtsCounted'
  <2>1. view[t].at \notin {"provider", "mint"}
    BY <1>7 DEF Sess!StatementFails, Sess!Reload
  <2>2. \E v : Sess!Becomes(t, v) /\ v.at \notin {"mint", "in"}
    BY <1>2, <1>7 DEF Sess!StatementFails, Sess!Reload
  <2> QED BY <1>3, <2>1, <2>2
<1>8. ASSUME NEW b \in Browsers, Sess!DropCookie(b)
      PROVE  RequestsPaired' /\ AdminJwtsCounted'
  BY <1>1, <1>8 DEF Sess!DropCookie, PInv, RequestsPaired, Paired, AdminJwtsCounted, At
<1> QED BY <1>4, <1>5, <1>6, <1>7, <1>8 DEF BrowserAlone

LEMMA TickPairs ==
    ASSUME PInv, Tick
    PROVE  RequestsPaired' /\ AdminJwtsCounted'
<1>1. /\ UNCHANGED <<handler, adminTokens>>
      /\ view' = [t \in Tabs |-> IF view[t].at = "in" /\ view[t].exp <= now'
                                 THEN Sess!Show("app") ELSE view[t]]
  BY DEF Tick, vars, Sess!Tick
<1>2. \A t \in Tabs : \/ view'[t] = view[t]
                      \/ view[t].at = "in" /\ view'[t].at = "app"
  BY <1>1 DEF Sess!Show
<1> QED BY <1>1, <1>2 DEF PInv, RequestsPaired, Paired, AdminJwtsCounted, At

\* What a request of a browser has read, the directory's handler has read; and no
\* administrator's JWT is in a browser that the directory, or a module that takes
\* adminTokens for all there are, does not count.
THEOREM PairsCorrect == ServiceSpec => [](RequestsPaired /\ AdminJwtsCounted)
<1>1. ServiceInit => PInv
  <2>1. SUFFICES ASSUME ServiceInit PROVE PInv
    OBVIOUS
  <2>2. \A t \in Tabs : view[t].at = "app" /\ handler[t] = None
    BY <2>1, ServiceAssumption DEF ServiceInit, Init, Sess!Show
  <2> QED BY <2>1, <2>2, ServiceStarts DEF PInv, RequestsPaired, Paired, AdminJwtsCounted
<1>2. PInv /\ [ServiceNext]_serviceVars => PInv'
  <2>1. SUFFICES ASSUME PInv, [ServiceNext]_serviceVars PROVE RequestsPaired' /\ AdminJwtsCounted'
    BY ServiceKeeps DEF PInv
  <2>2. CASE BrowserStep
    BY <2>1, <2>2, ServedPairs, AlonePairs DEF BrowserStep
  <2>3. CASE PatStep \/ UNCHANGED serviceVars
    <3>1. UNCHANGED <<handler, adminTokens, view>>
      BY <2>3 DEF PatStep, serviceVars, vars, sessionVars
    <3> QED BY <2>1, <3>1 DEF PInv, RequestsPaired, Paired, AdminJwtsCounted, At
  <2> QED BY <2>1, <2>2, <2>3, DirectoryStepPairs, TickPairs DEF ServiceNext
<1>3. PInv => RequestsPaired /\ AdminJwtsCounted
  BY DEF PInv
<1> QED BY <1>1, <1>2, <1>3, PTL DEF ServiceSpec

=============================================================================
