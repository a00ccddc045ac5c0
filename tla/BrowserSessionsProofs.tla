------------------------ MODULE BrowserSessionsProofs ------------------------
(***************************************************************************)
(* BrowserSessions for any number of browsers, tabs, users and cookies,    *)
(* any lifetimes and latency, with and without faults.                     *)
(*                                                                         *)
(* A request for a JWT carries what it has seen to be good, and since      *)
(* when it is on its way; a JWT in a tab has been minted from such a       *)
(* request.  The inductive invariant bounds by that moment whatever has    *)
(* been withdrawn in the meantime.                                         *)
(***************************************************************************)
EXTENDS BrowserSessions, TLAPS

Bound == Latency + JwtTTL

\* A request for a JWT is answered in time.
InTime(v) == v.since <= now /\ now <= v.since + Latency

\* The session a request was sent with was live at some time after that.
SessionSeen(v) ==
    /\ sessions[v.cookie] # Unused
    /\ IsRow(v.cookie) =>
          /\ v.since < sessions[v.cookie].expiresAt
          /\ sessions[v.cookie].revokedAt = None \/ v.since <= sessions[v.cookie].revokedAt

\* The account's rights as the request saw them.
RightsSeen(v) ==
    /\ Active(v.user) \/ v.since <= lost[v.user].active
    /\ v.admin => InCharge(v.user) \/ v.since <= lost[v.user].admin

\* A JWT: alive, minted in the past, and not long after its grounds were gone.
MintedWell(v) ==
    /\ now < v.exp /\ v.exp <= now + JwtTTL
    /\ Active(v.user) \/ v.exp <= lost[v.user].active + Bound
    /\ v.admin => InCharge(v.user) \/ v.exp <= lost[v.user].admin + Bound
    /\ sessions[v.cookie] # Unused
    /\ IsRow(v.cookie) =>
          /\ v.exp < sessions[v.cookie].expiresAt + Bound
          /\ \/ sessions[v.cookie].revokedAt = None
             \/ v.exp <= sessions[v.cookie].revokedAt + Bound

Grounded(v) ==
    /\ v.at \in {"getValid", "getByID", "mint"} => InTime(v)
    /\ v.at \in {"getByID", "mint"} => SessionSeen(v)
    /\ v.at = "mint" => RightsSeen(v)
    /\ v.at = "in" => MintedWell(v)

IInv == TypeOK /\ \A t \in Tabs : Grounded(view[t])

-----------------------------------------------------------------------------
(* Types *)

\* Which record a tab's view is, by what it shows or waits for.
LEMMA ViewKinds ==
    ASSUME NEW v \in View
    PROVE  /\ v.at = "in" => v \in SignedIn
           /\ v.at = "getValid" => v \in Asking
           /\ v.at = "getByID" => v \in Reading
           /\ v.at = "mint" => v \in Minting
           /\ v.at = "login" => v \in Entering
           /\ v.at = "create" => v \in Opening
           /\ v.at = "setCookie" => v \in Opened
           /\ v.at = "revoke" => v \in Leaving
BY DEF View, Showing, SignedIn, Asking, Reading, Minting, Entering, Opening, Opened, Leaving, Left

LEMMA ShowTyped ==
    /\ \A at \in {"app", "refused", "page", "provider", "error", "out"} : Show(at) \in View
    /\ \A at : Show(at).at = at
BY DEF Show, View, Showing

LEMMA RowTyped ==
    ASSUME TypeOK, NEW s \in Tokens, IsRow(s)
    PROVE  sessions[s] \in Session
BY DEF TypeOK, IsRow

LEMMA AccountsTyped ==
    ASSUME acct \in [Users -> Account \cup {NoRow, Gone}], power \in BOOLEAN, AccountsNext
    PROVE  /\ acct' \in [Users -> Account \cup {NoRow, Gone}]
           /\ power' \in BOOLEAN
<1>1. \A b \in BOOLEAN : [active |-> TRUE, admin |-> b] \in Account
  BY DEF Account
<1>2. ASSUME NEW u \in Users, Enroll(u) \/ Empower(u) \/ Administer(u)
      PROVE  acct' \in [Users -> Account \cup {NoRow, Gone}] /\ power' \in BOOLEAN
  BY <1>1, <1>2 DEF Enroll, Empower, Administer
<1>3. ASSUME NEW u \in Users, Promote(u)
      PROVE  acct' \in [Users -> Account \cup {NoRow, Gone}] /\ power' \in BOOLEAN
  <2>1. acct[u] \in Account
    BY <1>3 DEF Promote
  <2>2. [acct[u] EXCEPT !.admin = TRUE] \in Account
    BY <2>1 DEF Account
  <2>3. acct' = [acct EXCEPT ![u] = [acct[u] EXCEPT !.admin = TRUE]]
    BY <1>3 DEF Promote
  <2> QED BY <1>3, <2>2, <2>3 DEF Promote
<1>4. CASE RootAppears \/ LosePower
  BY <1>4 DEF RootAppears, LosePower
<1> QED BY <1>2, <1>3, <1>4 DEF AccountsNext

-----------------------------------------------------------------------------
(* What the steps keep *)

\* A tab's view that claims nothing.
LEMMA Groundless ==
    ASSUME NEW v, v.at \notin {"getValid", "getByID", "mint", "in"}
    PROVE  Grounded(v)
BY DEF Grounded

\* One tab goes on; the clock, the table and the accounts stay.
LEMMA OneTab ==
    ASSUME IInv, NEW t \in Tabs, NEW v \in View, Becomes(t, v), Grounded(v),
           UNCHANGED <<now, sessions, acct, lost>>, power' \in BOOLEAN,
           jar' \in [Browsers -> Cookie]
    PROVE  IInv'
<1>1. view \in [Tabs -> View] /\ view' = [view EXCEPT ![t] = v]
  BY DEF IInv, TypeOK, Becomes
<1>2. view' \in [Tabs -> View]
  BY <1>1
<1>3. TypeOK'
  BY <1>2 DEF IInv, TypeOK
<1>4. ASSUME NEW u \in Tabs PROVE Grounded(view[u])'
  <2>1. view'[u] = v \/ view'[u] = view[u]
    BY <1>1
  <2>2. Grounded(view'[u])
    BY <2>1 DEF IInv
  <2> QED BY <2>2 DEF Grounded, InTime, SessionSeen, RightsSeen, MintedWell,
                      IsRow, Active, InCharge, Exists
<1> QED BY <1>3, <1>4 DEF IInv

LEMMA PlainKeeps ==
    ASSUME IInv, NEW t \in Tabs, NEW v \in View, Becomes(t, v),
           v.at \notin {"getValid", "getByID", "mint", "in"},
           UNCHANGED <<now, sessions, acct, lost>>, power' \in BOOLEAN,
           jar' \in [Browsers -> Cookie]
    PROVE  IInv'
BY Groundless, OneTab

LEMMA ShowKeeps ==
    ASSUME IInv, NEW t \in Tabs,
           NEW at \in {"app", "refused", "page", "provider", "error", "out"}, Becomes(t, Show(at)),
           UNCHANGED <<now, sessions, acct, lost>>, power' \in BOOLEAN,
           jar' \in [Browsers -> Cookie]
    PROVE  IInv'
<1> SUFFICES ASSUME NEW v, v = Show(at) PROVE IInv'
  OBVIOUS
<1>1. v \in View /\ v.at \notin {"getValid", "getByID", "mint", "in"}
  BY ShowTyped
<1> QED BY <1>1, PlainKeeps

LEMMA CookieTyped ==
    ASSUME IInv, NEW t \in Tabs
    PROVE  CookieOf(t) \in Cookie /\ (CookieOf(t) # None => CookieOf(t) \in Tokens)
BY SessionsAssumption DEF IInv, TypeOK, CookieOf, Cookie

LEMMA AskTokenKeeps ==
    ASSUME IInv, NEW t \in Tabs, AskToken(t)
    PROVE  IInv'
<1>1. /\ UNCHANGED <<now, sessions, acct, lost>> /\ power' \in BOOLEAN /\ jar' \in [Browsers -> Cookie]
      /\ now \in Nat
  BY DEF AskToken, KeepAccounts, IInv, TypeOK
<1>2. CASE CookieOf(t) = None
  BY <1>1, <1>2, ShowKeeps DEF AskToken
<1>3. CASE CookieOf(t) # None
  <2> SUFFICES ASSUME NEW v, v = [at |-> "getValid", cookie |-> CookieOf(t), since |-> now] PROVE IInv'
    OBVIOUS
  <2>1. Becomes(t, v)
    BY <1>3 DEF AskToken
  <2>2. v \in View
    BY <1>1, <1>3, CookieTyped DEF View, Asking
  <2>3. Grounded(v)
    BY <1>1, SessionsAssumption DEF Grounded, InTime
  <2> QED BY <1>1, <2>1, <2>2, <2>3, OneTab
<1> QED BY <1>2, <1>3

LEMMA GetValidKeeps ==
    ASSUME IInv, NEW t \in Tabs, GetValid(t)
    PROVE  IInv'
<1>1. /\ UNCHANGED <<now, sessions, acct, lost>> /\ power' \in BOOLEAN /\ jar' \in [Browsers -> Cookie]
      /\ view[t] \in View /\ view[t].at = "getValid" /\ Grounded(view[t]) /\ now \in Nat
  BY DEF GetValid, KeepAccounts, IInv, TypeOK
<1>2. view[t].cookie \in Tokens /\ view[t].since \in Nat
  BY <1>1, ViewKinds DEF Asking
<1>3. CASE ~Live(view[t].cookie)
  BY <1>1, <1>3, ShowKeeps DEF GetValid
<1>4. CASE Live(view[t].cookie)
  <2> SUFFICES ASSUME NEW v, v = [at |-> "getByID", cookie |-> view[t].cookie,
                                  since |-> view[t].since, user |-> sessions[view[t].cookie].user]
               PROVE  IInv'
    OBVIOUS
  <2>1. Becomes(t, v)
    BY <1>4 DEF GetValid
  <2>2. sessions[view[t].cookie] \in Session
    BY <1>2, <1>4, RowTyped DEF IInv, Live
  <2>3. v \in View
    BY <1>2, <2>2 DEF View, Reading, Session
  <2>4. InTime(v)
    BY <1>1 DEF Grounded, InTime
  <2>5. SessionSeen(v)
    BY <1>1, <1>2, <1>4, <2>2, <2>4 DEF SessionSeen, InTime, Live, IsRow, Session
  <2>6. Grounded(v)
    BY <2>4, <2>5 DEF Grounded
  <2> QED BY <1>1, <2>1, <2>3, <2>6, OneTab
<1> QED BY <1>3, <1>4

LEMMA GetByIDKeeps ==
    ASSUME IInv, NEW t \in Tabs, GetByID(t)
    PROVE  IInv'
<1>1. /\ UNCHANGED <<now, sessions, acct, lost>> /\ power' \in BOOLEAN /\ jar' \in [Browsers -> Cookie]
      /\ view[t] \in View /\ view[t].at = "getByID" /\ Grounded(view[t])
  BY DEF GetByID, TakePower, Empower, accountVars, IInv, TypeOK
<1>2. view[t].cookie \in Tokens /\ view[t].since \in Nat /\ view[t].user \in Users
  BY <1>1, ViewKinds DEF Reading
<1>3. CASE ~Active(view[t].user)
  BY <1>1, <1>3, ShowKeeps DEF GetByID
<1>4. CASE Active(view[t].user)
  <2> SUFFICES ASSUME NEW v, v = [at |-> "mint", cookie |-> view[t].cookie, since |-> view[t].since,
                                  user |-> view[t].user, admin |-> acct[view[t].user].admin]
               PROVE  IInv'
    OBVIOUS
  <2>1. Becomes(t, v)
    BY <1>4 DEF GetByID
  <2>2. acct[view[t].user] \in Account
    BY <1>2, <1>4 DEF Active, Exists, IInv, TypeOK
  <2>3. v \in View
    BY <1>2, <2>2 DEF View, Minting, Account
  <2>4. InTime(v) /\ SessionSeen(v)
    BY <1>1 DEF Grounded, InTime, SessionSeen
  <2>5. RightsSeen(v)
    BY <1>4 DEF RightsSeen, InCharge
  <2>6. Grounded(v)
    BY <2>4, <2>5 DEF Grounded
  <2> QED BY <1>1, <2>1, <2>3, <2>6, OneTab
<1> QED BY <1>3, <1>4

\* The JWT expires JwtTTL after now, and now is at most Latency after the request.
LEMMA MintKeeps ==
    ASSUME IInv, NEW t \in Tabs, Mint(t)
    PROVE  IInv'
<1>1. /\ UNCHANGED <<now, sessions, acct, lost>> /\ power' \in BOOLEAN /\ jar' \in [Browsers -> Cookie]
      /\ view[t] \in View /\ view[t].at = "mint" /\ Grounded(view[t]) /\ now \in Nat
      /\ lost \in [Users -> [active : Nat, admin : Nat]]
  BY DEF Mint, KeepAccounts, IInv, TypeOK
<1>2. view[t].cookie \in Tokens /\ view[t].since \in Nat /\ view[t].user \in Users
      /\ view[t].admin \in BOOLEAN
  BY <1>1, ViewKinds DEF Minting
<1>3. InTime(view[t]) /\ SessionSeen(view[t]) /\ RightsSeen(view[t])
  BY <1>1 DEF Grounded
<1> SUFFICES ASSUME NEW v, v = [at |-> "in", cookie |-> view[t].cookie, user |-> view[t].user,
                                admin |-> view[t].admin, exp |-> now + JwtTTL]
             PROVE  IInv'
  OBVIOUS
<1>4. Becomes(t, v)
  BY DEF Mint
<1>5. v.exp = now + JwtTTL /\ v.exp \in Nat /\ now < v.exp
  BY <1>1, SessionsAssumption
<1>6. \A n \in Nat : /\ view[t].since <= n => v.exp <= n + Bound
                     /\ view[t].since < n => v.exp < n + Bound
  BY <1>1, <1>2, <1>3, <1>5, SessionsAssumption DEF InTime, Bound
<1>7. v \in View
  BY <1>2, <1>5 DEF View, SignedIn
<1>8. lost[v.user].active \in Nat /\ lost[v.user].admin \in Nat
  BY <1>1, <1>2
<1>9. IsRow(v.cookie) => /\ sessions[v.cookie].expiresAt \in Nat
                         /\ sessions[v.cookie].revokedAt \in Nat \cup {None}
  BY <1>2, RowTyped DEF IInv, Session
<1>10. MintedWell(v)
  <2>1. Active(v.user) \/ v.exp <= lost[v.user].active + Bound
    BY <1>3, <1>6, <1>8 DEF RightsSeen
  <2>2. v.admin => InCharge(v.user) \/ v.exp <= lost[v.user].admin + Bound
    BY <1>3, <1>6, <1>8 DEF RightsSeen
  <2>3. sessions[v.cookie] # Unused
    BY <1>3 DEF SessionSeen
  <2>4. IsRow(v.cookie) =>
          /\ v.exp < sessions[v.cookie].expiresAt + Bound
          /\ \/ sessions[v.cookie].revokedAt = None
             \/ v.exp <= sessions[v.cookie].revokedAt + Bound
    BY <1>3, <1>6, <1>9 DEF SessionSeen
  <2>5. v.exp <= now + JwtTTL
    BY <1>1, <1>5, SessionsAssumption
  <2> QED BY <1>5, <2>1, <2>2, <2>3, <2>4, <2>5 DEF MintedWell
<1>11. Grounded(v)
  BY <1>10 DEF Grounded
<1> QED BY <1>1, <1>4, <1>7, <1>11, OneTab

\* Steps of a login or a logout that read the table or nothing.
LEMMA LoginReadsKeep ==
    ASSUME IInv, NEW t \in Tabs,
           \/ AskLogin(t) \/ HandleLogin(t) \/ HandleOAuthStart(t)
           \/ \E u \in Users : Authenticate(t, u)
           \/ Reject(t) \/ AskLogout(t) \/ Reload(t)
    PROVE  IInv'
<1>1. /\ UNCHANGED <<now, sessions, acct, lost>> /\ power' \in BOOLEAN /\ jar' \in [Browsers -> Cookie]
  BY DEF AskLogin, HandleLogin, HandleOAuthStart, Authenticate, Reject, AskLogout, Reload,
         KeepAccounts, DropPower, LosePower, accountVars, IInv, TypeOK
<1>2. ASSUME NEW at \in {"app", "page", "provider", "error"}, Becomes(t, Show(at)) PROVE IInv'
  BY <1>1, <1>2, ShowKeeps
<1>3. CASE CookieOf(t) # None /\ Becomes(t, [at |-> "login", cookie |-> CookieOf(t)])
  <2> SUFFICES ASSUME NEW v, v = [at |-> "login", cookie |-> CookieOf(t)] PROVE IInv'
    OBVIOUS
  <2>1. v \in View /\ v.at = "login"
    BY <1>3, CookieTyped DEF View, Entering
  <2> QED BY <1>1, <1>3, <2>1, PlainKeeps
<1>4. CASE CookieOf(t) # None /\ Becomes(t, [at |-> "revoke", cookie |-> CookieOf(t)])
  <2> SUFFICES ASSUME NEW v, v = [at |-> "revoke", cookie |-> CookieOf(t)] PROVE IInv'
    OBVIOUS
  <2>1. v \in View /\ v.at = "revoke"
    BY <1>4, CookieTyped DEF View, Leaving
  <2> QED BY <1>1, <1>4, <2>1, PlainKeeps
<1>5. CASE Becomes(t, [at |-> "clear", cookie |-> None])
  <2> SUFFICES ASSUME NEW v, v = [at |-> "clear", cookie |-> None] PROVE IInv'
    OBVIOUS
  <2>1. v \in View /\ v.at = "clear"
    BY DEF View, Left, Cookie
  <2> QED BY <1>1, <1>5, <2>1, PlainKeeps
<1>6. ASSUME NEW u \in Users, Becomes(t, [at |-> "create", user |-> u]) PROVE IInv'
  <2> SUFFICES ASSUME NEW v, v = [at |-> "create", user |-> u] PROVE IInv'
    OBVIOUS
  <2>1. v \in View /\ v.at = "create"
    BY DEF View, Opening
  <2> QED BY <1>1, <1>6, <2>1, PlainKeeps
<1>7. CASE AskLogin(t)
  BY <1>2, <1>3, <1>7 DEF AskLogin
<1>8. CASE AskLogout(t)
  BY <1>4, <1>5, <1>8 DEF AskLogout
<1>9. CASE HandleLogin(t) \/ HandleOAuthStart(t) \/ Reject(t) \/ Reload(t)
  BY <1>2, <1>9 DEF HandleLogin, HandleOAuthStart, Reject, Reload
<1>10. CASE \E u \in Users : Authenticate(t, u)
  BY <1>6, <1>10 DEF Authenticate
<1> QED BY <1>7, <1>8, <1>9, <1>10

LEMMA CookieChangesKeep ==
    ASSUME IInv, NEW t \in Tabs, SetCookie(t) \/ ClearCookie(t)
    PROVE  IInv'
<1>1. UNCHANGED <<now, sessions, acct, lost>> /\ power' \in BOOLEAN /\ view[t] \in View
      /\ jar \in [Browsers -> Cookie]
  BY DEF SetCookie, ClearCookie, KeepAccounts, IInv, TypeOK
<1>2. CASE SetCookie(t)
  <2>1. view[t].cookie \in Cookie
    BY <1>1, <1>2, ViewKinds DEF SetCookie, Opened, Cookie
  <2>2. jar' \in [Browsers -> Cookie] /\ Becomes(t, Show("app"))
    BY <1>1, <1>2, <2>1 DEF SetCookie
  <2> QED BY <1>1, <2>2, ShowKeeps
<1>3. CASE ClearCookie(t)
  <2>1. jar' \in [Browsers -> Cookie] /\ Becomes(t, Show("out"))
    BY <1>1, <1>3 DEF ClearCookie, Cookie
  <2> QED BY <1>1, <2>1, ShowKeeps
<1> QED BY <1>2, <1>3

LEMMA FaultsKeep ==
    ASSUME IInv, NEW t \in Tabs, StatementFails(t) \/ AnswerLost(t)
    PROVE  IInv'
<1>1. UNCHANGED <<now, sessions, acct, lost>> /\ power' \in BOOLEAN /\ view[t] \in View
      /\ jar' \in [Browsers -> Cookie]
  BY DEF StatementFails, AnswerLost, KeepAccounts, DropPower, LosePower, accountVars, IInv, TypeOK
<1>2. ASSUME NEW at \in {"refused", "page", "error"}, Becomes(t, Show(at)) PROVE IInv'
  BY <1>1, <1>2, ShowKeeps
<1>3. CASE view[t].at = "revoke" /\ Becomes(t, [at |-> "clear", cookie |-> view[t].cookie])
  <2> SUFFICES ASSUME NEW v, v = [at |-> "clear", cookie |-> view[t].cookie] PROVE IInv'
    OBVIOUS
  <2>1. v \in View /\ v.at = "clear"
    BY <1>1, <1>3, ViewKinds DEF View, Leaving, Left, Cookie
  <2> QED BY <1>1, <1>3, <2>1, PlainKeeps
<1> QED BY <1>2, <1>3 DEF StatementFails, AnswerLost

\* A row that replaces a row, or the first of its token: a revocation is made now.
LEMMA RowChanges ==
    ASSUME IInv, NEW v \in View, Grounded(v), NEW s \in Tokens, NEW row \in Session,
           sessions' = [sessions EXCEPT ![s] = row],
           sessions[s] # Gone,
           IsRow(s) => /\ row.expiresAt = sessions[s].expiresAt
                       /\ row.revokedAt = sessions[s].revokedAt \/ row.revokedAt = now,
           UNCHANGED <<now, acct, power, lost>>
    PROVE  Grounded(v)'
<1>1. /\ sessions \in [Tokens -> Session \cup {Unused, Gone}] /\ now \in Nat
      /\ row \notin {Unused, Gone}
  BY RowAssumption DEF IInv, TypeOK
<1>2. sessions'[s] = row /\ \A r \in Tokens : r # s => sessions'[r] = sessions[r]
  BY <1>1
<1>3. CASE v.at \in {"getByID", "mint"}
  <2>1. v.cookie \in Tokens /\ v.since \in Nat
    BY <1>3, ViewKinds DEF Reading, Minting
  <2>2. InTime(v) /\ SessionSeen(v)
    BY <1>3 DEF Grounded
  <2>3. SessionSeen(v)'
    <3>1. CASE v.cookie = s
      <4>1. IsRow(s)
        BY <2>2, <3>1 DEF SessionSeen, IsRow
      <4> QED BY <1>1, <1>2, <2>1, <2>2, <3>1, <4>1 DEF SessionSeen, InTime, IsRow
    <3>2. CASE v.cookie # s
      BY <1>2, <2>1, <2>2, <3>2 DEF SessionSeen, IsRow
    <3> QED BY <3>1, <3>2
  <2>4. InTime(v)' /\ (v.at = "mint" => RightsSeen(v)')
    BY <2>2 DEF Grounded, InTime, RightsSeen, Active, InCharge, Exists
  <2> QED BY <1>3, <2>3, <2>4 DEF Grounded
<1>4. CASE v.at = "in"
  <2>1. v.cookie \in Tokens /\ v.exp \in Nat
    BY <1>4, ViewKinds DEF SignedIn
  <2>2. MintedWell(v)
    BY <1>4 DEF Grounded
  <2>3. v.exp <= now + Bound
    BY <1>1, <2>1, <2>2, SessionsAssumption DEF MintedWell, Bound
  <2>4. MintedWell(v)'
    <3>1. CASE v.cookie = s
      <4>1. IsRow(s)
        BY <2>2, <3>1 DEF MintedWell, IsRow
      <4> QED BY <1>1, <1>2, <2>1, <2>2, <2>3, <3>1, <4>1
              DEF MintedWell, IsRow, Active, InCharge, Exists
    <3>2. CASE v.cookie # s
      BY <1>2, <2>1, <2>2, <3>2 DEF MintedWell, IsRow, Active, InCharge, Exists
    <3> QED BY <3>1, <3>2
  <2> QED BY <1>4, <2>4 DEF Grounded
<1>5. CASE v.at \notin {"getByID", "mint", "in"}
  BY <1>5 DEF Grounded, InTime
<1> QED BY <1>3, <1>4, <1>5

\* A row written by the handler a tab waits for.
LEMMA OneRow ==
    ASSUME IInv, NEW t \in Tabs, NEW s \in Tokens, NEW row \in Session, NEW v \in View, Becomes(t, v),
           v.at \notin {"getValid", "getByID", "mint", "in"},
           sessions' = [sessions EXCEPT ![s] = row],
           sessions[s] # Gone,
           IsRow(s) => /\ row.expiresAt = sessions[s].expiresAt
                       /\ row.revokedAt = sessions[s].revokedAt \/ row.revokedAt = now,
           UNCHANGED <<now, jar, acct, power, lost>>
    PROVE  IInv'
<1>1. /\ sessions \in [Tokens -> Session \cup {Unused, Gone}]
      /\ view \in [Tabs -> View] /\ view' = [view EXCEPT ![t] = v]
  BY DEF IInv, TypeOK, Becomes
<1>2. TypeOK'
  <2>1. sessions' \in [Tokens -> Session \cup {Unused, Gone}] /\ view' \in [Tabs -> View]
    BY <1>1
  <2> QED BY <2>1 DEF IInv, TypeOK
<1>3. ASSUME NEW u \in Tabs PROVE Grounded(view[u])'
  <2> SUFFICES ASSUME NEW w, w = view'[u] PROVE Grounded(w)'
    BY DEF Grounded, InTime, SessionSeen, RightsSeen, MintedWell
  <2>1. w = v \/ w = view[u]
    BY <1>1
  <2>2. w \in View /\ Grounded(w)
    BY <1>1, <2>1, Groundless DEF IInv
  <2> QED BY <2>2, RowChanges
<1> QED BY <1>2, <1>3 DEF IInv

LEMMA CreateSessionKeeps ==
    ASSUME IInv, NEW t \in Tabs, CreateSession(t)
    PROVE  IInv'
<1>1. /\ UNCHANGED <<now, jar, acct, power, lost>> /\ jar' \in [Browsers -> Cookie]
      /\ power' \in BOOLEAN
      /\ view[t] \in View /\ view[t].at = "create" /\ now \in Nat
  BY DEF CreateSession, KeepAccounts, IInv, TypeOK
<1>2. CASE Becomes(t, Show("error")) /\ UNCHANGED sessions
  BY <1>1, <1>2, ShowKeeps
<1>3. ASSUME NEW s \in Tokens, sessions[s] = Unused,
             sessions' = [sessions EXCEPT ![s] =
                 [user |-> view[t].user, expiresAt |-> now + SessionTTL, revokedAt |-> None]],
             Becomes(t, [at |-> "setCookie", cookie |-> s])
      PROVE  IInv'
  <2> SUFFICES ASSUME NEW v, v = [at |-> "setCookie", cookie |-> s],
                      NEW row, row = [user |-> view[t].user, expiresAt |-> now + SessionTTL,
                                      revokedAt |-> None]
               PROVE  IInv'
    OBVIOUS
  <2>1. view[t].user \in Users
    BY <1>1, ViewKinds DEF Opening
  <2>2. row \in Session
    BY <1>1, <2>1, SessionsAssumption DEF Session
  <2>3. v \in View /\ v.at = "setCookie"
    BY DEF View, Opened
  <2>4. ~IsRow(s) /\ sessions[s] # Gone
    BY <1>3, RowAssumption DEF IsRow
  <2> QED BY <1>1, <1>3, <2>2, <2>3, <2>4, OneRow
<1> QED BY <1>2, <1>3 DEF CreateSession

LEMMA RevokeKeeps ==
    ASSUME IInv, NEW t \in Tabs, Revoke(t)
    PROVE  IInv'
<1> SUFFICES ASSUME NEW s, s = view[t].cookie, NEW v, v = [at |-> "clear", cookie |-> s] PROVE IInv'
  OBVIOUS
<1>1. /\ UNCHANGED <<now, jar, acct, power, lost>> /\ jar' \in [Browsers -> Cookie]
      /\ power' \in BOOLEAN
      /\ view[t] \in View /\ view[t].at = "revoke" /\ now \in Nat /\ Becomes(t, v)
  BY DEF Revoke, KeepAccounts, IInv, TypeOK
<1>2. s \in Tokens
  BY <1>1, ViewKinds DEF Leaving
<1>3. v \in View /\ v.at = "clear"
  BY <1>2 DEF View, Left, Cookie
<1>4. CASE ~(IsRow(s) /\ sessions[s].revokedAt = None)
  BY <1>1, <1>3, <1>4, PlainKeeps DEF Revoke
<1>5. CASE IsRow(s) /\ sessions[s].revokedAt = None
  <2> SUFFICES ASSUME NEW row, row = [sessions[s] EXCEPT !.revokedAt = now] PROVE IInv'
    OBVIOUS
  <2>1. sessions[s] \in Session /\ sessions[s] # Gone
    BY <1>2, <1>5, RowTyped DEF IInv, IsRow
  <2>2. row \in Session /\ row.expiresAt = sessions[s].expiresAt /\ row.revokedAt = now
    BY <1>1, <2>1 DEF Session
  <2>3. sessions' = [sessions EXCEPT ![s] = row]
    BY <1>5 DEF Revoke
  <2> QED BY <1>1, <1>2, <1>3, <2>1, <2>2, <2>3, OneRow
<1> QED BY <1>4, <1>5

LEMMA DropCookieKeeps ==
    ASSUME IInv, NEW b \in Browsers, DropCookie(b)
    PROVE  IInv'
<1>1. UNCHANGED <<now, sessions, view, acct, power, lost>> /\ jar' \in [Browsers -> Cookie]
  BY DEF DropCookie, KeepAccounts, IInv, TypeOK, Cookie
<1>2. TypeOK'
  BY <1>1 DEF IInv, TypeOK
<1>3. \A t \in Tabs : Grounded(view[t])'
  BY <1>1 DEF IInv, Grounded, InTime, SessionSeen, RightsSeen, MintedWell,
              IsRow, Active, InCharge, Exists
<1> QED BY <1>2, <1>3 DEF IInv

\* What an account loses it loses now.
LEMMA AccountStepKeeps ==
    ASSUME IInv, AccountStep
    PROVE  IInv'
<1>1. /\ UNCHANGED <<now, jar, view>> /\ now \in Nat
      /\ sessions \in [Tokens -> Session \cup {Unused, Gone}]
      /\ lost \in [Users -> [active : Nat, admin : Nat]]
      /\ sessions' = [s \in Tokens |-> IF IsRow(s) /\ acct'[sessions[s].user] = Gone THEN Gone
                                       ELSE sessions[s]]
      /\ lost' = [u \in Users |->
                    [active |-> Since(lost[u].active, Active(u), Active(u)'),
                     admin |-> Since(lost[u].admin, InCharge(u), InCharge(u)')]]
  BY DEF AccountStep, Witness, IInv, TypeOK
<1>2. acct' \in [Users -> Account \cup {NoRow, Gone}] /\ power' \in BOOLEAN
  BY AccountsTyped DEF AccountStep, IInv, TypeOK
<1>3. \A s \in Tokens : sessions'[s] = sessions[s] \/ sessions'[s] = Gone
  BY <1>1
<1>4. \A u \in Users : lost[u].active \in Nat /\ lost[u].admin \in Nat
  BY <1>1
<1>5. \A u \in Users :
         /\ lost'[u].active = Since(lost[u].active, Active(u), Active(u)')
         /\ lost'[u].admin = Since(lost[u].admin, InCharge(u), InCharge(u)')
  BY <1>1
<1>6. \A u \in Users :
         /\ Active(u)' \/ lost'[u].active = now \/ (~Active(u) /\ lost'[u].active = lost[u].active)
         /\ InCharge(u)' \/ lost'[u].admin = now \/ (~InCharge(u) /\ lost'[u].admin = lost[u].admin)
  BY <1>5 DEF Since
<1>7. \A u \in Users : [active |-> Since(lost[u].active, Active(u), Active(u)'),
                        admin |-> Since(lost[u].admin, InCharge(u), InCharge(u)')]
                       \in [active : Nat, admin : Nat]
  BY <1>1, <1>4 DEF Since
<1>8. TypeOK'
  <2>1. sessions' \in [Tokens -> Session \cup {Unused, Gone}]
    BY <1>1
  <2>2. lost' \in [Users -> [active : Nat, admin : Nat]]
    BY <1>1, <1>7
  <2> QED BY <1>1, <1>2, <2>1, <2>2 DEF IInv, TypeOK
<1>9. ASSUME NEW t \in Tabs PROVE Grounded(view[t])'
  <2> SUFFICES ASSUME NEW v, v = view[t] PROVE Grounded(v)'
    BY <1>1 DEF Grounded, InTime, SessionSeen, RightsSeen, MintedWell
  <2>1. v \in View /\ Grounded(v)
    BY DEF IInv, TypeOK
  <2>2. CASE v.at \in {"getByID", "mint"}
    <3>1. v.cookie \in Tokens /\ v.since \in Nat /\ v.user \in Users
      BY <2>1, <2>2, ViewKinds DEF Reading, Minting
    <3>2. InTime(v) /\ SessionSeen(v)
      BY <2>1, <2>2 DEF Grounded
    <3>3. SessionSeen(v)'
      BY <1>3, <3>1, <3>2, RowAssumption DEF SessionSeen, IsRow
    <3>4. v.at = "mint" => RightsSeen(v)'
      <4>1. SUFFICES ASSUME v.at = "mint" PROVE RightsSeen(v)'
        OBVIOUS
      <4>2. RightsSeen(v) /\ v.since <= now
        BY <2>1, <3>2, <4>1 DEF Grounded, InTime
      <4>3. Active(v.user)' \/ v.since <= lost'[v.user].active
        BY <1>6, <3>1, <4>2 DEF RightsSeen
      <4>4. v.admin => InCharge(v.user)' \/ v.since <= lost'[v.user].admin
        BY <1>6, <3>1, <4>2 DEF RightsSeen
      <4> QED BY <4>3, <4>4 DEF RightsSeen, Active, InCharge, Exists
    <3>5. InTime(v)'
      BY <1>1, <3>2 DEF InTime
    <3> QED BY <2>2, <3>3, <3>4, <3>5 DEF Grounded
  <2>3. CASE v.at = "in"
    <3>1. v.cookie \in Tokens /\ v.exp \in Nat /\ v.user \in Users
      BY <2>1, <2>3, ViewKinds DEF SignedIn
    <3>2. MintedWell(v)
      BY <2>1, <2>3 DEF Grounded
    <3>3. v.exp <= now + Bound
      BY <1>1, <3>1, <3>2, SessionsAssumption DEF MintedWell, Bound
    <3>4. Active(v.user)' \/ v.exp <= lost'[v.user].active + Bound
      BY <1>6, <3>1, <3>2, <3>3 DEF MintedWell
    <3>5. v.admin => InCharge(v.user)' \/ v.exp <= lost'[v.user].admin + Bound
      BY <1>6, <3>1, <3>2, <3>3 DEF MintedWell
    <3>6. sessions'[v.cookie] # Unused
      BY <1>3, <3>1, <3>2, RowAssumption DEF MintedWell
    <3>7. IsRow(v.cookie)' =>
             /\ v.exp < sessions'[v.cookie].expiresAt + Bound
             /\ \/ sessions'[v.cookie].revokedAt = None
                \/ v.exp <= sessions'[v.cookie].revokedAt + Bound
      BY <1>3, <3>1, <3>2 DEF MintedWell, IsRow
    <3>8. now' < v.exp /\ v.exp <= now' + JwtTTL
      BY <1>1, <3>2 DEF MintedWell
    <3>9. MintedWell(v)'
      BY <3>4, <3>5, <3>6, <3>7, <3>8 DEF MintedWell, Active, InCharge, Exists
    <3> QED BY <2>3, <3>9 DEF Grounded
  <2>4. CASE v.at \notin {"getByID", "mint", "in"}
    BY <1>1, <2>1, <2>4 DEF Grounded, InTime
  <2> QED BY <2>2, <2>3, <2>4
<1> QED BY <1>8, <1>9 DEF IInv

LEMMA TickKeeps ==
    ASSUME IInv, Tick
    PROVE  IInv'
<1>1. /\ UNCHANGED <<sessions, jar, acct, power, lost>>
      /\ now \in Nat /\ now' = now + 1 /\ now' \in Nat
      /\ view \in [Tabs -> View]
      /\ view' = [t \in Tabs |-> IF view[t].at = "in" /\ view[t].exp <= now' THEN Show("app")
                                 ELSE view[t]]
  BY DEF Tick, KeepAccounts, IInv, TypeOK
<1>2. TypeOK'
  <2>1. view' \in [Tabs -> View]
    BY <1>1, ShowTyped
  <2> QED BY <1>1, <2>1 DEF IInv, TypeOK
<1>3. ASSUME NEW t \in Tabs PROVE Grounded(view[t])'
  <2> SUFFICES ASSUME NEW v, v = view'[t] PROVE Grounded(v)'
    BY DEF Grounded, InTime, SessionSeen, RightsSeen, MintedWell
  <2>1. CASE view[t].at = "in" /\ view[t].exp <= now'
    <3>1. v.at = "app"
      BY <1>1, <2>1, ShowTyped
    <3> QED BY <3>1 DEF Grounded
  <2>2. CASE ~(view[t].at = "in" /\ view[t].exp <= now')
    <3>1. v = view[t]
      BY <1>1, <2>2
    <3>2. v \in View /\ Grounded(v)
      BY <1>1, <3>1 DEF IInv
    <3>3. CASE v.at \in {"getValid", "getByID", "mint"}
      <4>1. v.since \in Nat
        BY <3>2, <3>3, ViewKinds DEF Asking, Reading, Minting
      <4>2. now < v.since + Latency /\ v.since <= now
        BY <3>1, <3>2, <3>3 DEF Tick, Grounded, InTime
      <4>3. InTime(v)'
        BY <1>1, <4>1, <4>2, SessionsAssumption DEF InTime
      <4> QED BY <1>1, <3>2, <3>3, <4>3
              DEF Grounded, SessionSeen, RightsSeen, IsRow, Active, InCharge, Exists
    <3>4. CASE v.at = "in"
      <4>1. v.exp \in Nat /\ MintedWell(v)
        BY <3>2, <3>4, ViewKinds DEF SignedIn, Grounded
      <4>2. now' < v.exp /\ v.exp <= now' + JwtTTL
        BY <1>1, <2>2, <3>1, <3>4, <4>1, SessionsAssumption DEF MintedWell
      <4> QED BY <1>1, <3>4, <4>1, <4>2 DEF Grounded, MintedWell, IsRow, Active, InCharge, Exists
    <3>5. CASE v.at \notin {"getValid", "getByID", "mint", "in"}
      BY <3>5 DEF Grounded
    <3> QED BY <3>3, <3>4, <3>5
  <2> QED BY <2>1, <2>2
<1> QED BY <1>2, <1>3 DEF IInv

-----------------------------------------------------------------------------
(* The theorems *)

LEMMA InitIInv == Init => IInv
<1> SUFFICES ASSUME Init PROVE IInv
  OBVIOUS
<1>1. \A t \in Tabs : view[t] = Show("app")
  BY DEF Init
<1>2. TypeOK
  BY ShowTyped DEF Init, AccountsInit, TypeOK, Cookie
<1>3. \A t \in Tabs : view[t].at = "app"
  BY <1>1, ShowTyped
<1>4. \A t \in Tabs : Grounded(view[t])
  BY <1>3 DEF Grounded
<1> QED BY <1>2, <1>4 DEF IInv

LEMMA NextKeepsIInv == IInv /\ [Next]_vars => IInv'
<1> SUFFICES ASSUME IInv, [Next]_vars PROVE IInv'
  OBVIOUS
<1>1. ASSUME NEW t \in Tabs, TokenStep(t) PROVE IInv'
  BY <1>1, AskTokenKeeps, GetValidKeeps, GetByIDKeeps, MintKeeps DEF TokenStep
<1>2. ASSUME NEW t \in Tabs, LoginStep(t) PROVE IInv'
  BY <1>2, LoginReadsKeep, CreateSessionKeeps, CookieChangesKeep DEF LoginStep
<1>3. ASSUME NEW t \in Tabs, LogoutStep(t) PROVE IInv'
  BY <1>3, LoginReadsKeep, RevokeKeeps, CookieChangesKeep DEF LogoutStep
<1>4. ASSUME NEW t \in Tabs, StatementFails(t) \/ AnswerLost(t) \/ Reload(t) PROVE IInv'
  BY <1>4, FaultsKeep, LoginReadsKeep
<1>5. ASSUME NEW b \in Browsers, DropCookie(b) PROVE IInv'
  BY <1>5, DropCookieKeeps
<1>6. CASE AccountStep \/ Tick
  BY <1>6, AccountStepKeeps, TickKeeps
<1>7. CASE UNCHANGED vars
  <2>1. UNCHANGED <<acct, power, now, sessions, jar, view, lost>>
    BY <1>7 DEF vars
  <2>2. TypeOK'
    BY <2>1 DEF IInv, TypeOK
  <2>3. \A t \in Tabs : Grounded(view[t])'
    BY <2>1 DEF IInv, Grounded, InTime, SessionSeen, RightsSeen, MintedWell,
                IsRow, Active, InCharge, Exists
  <2> QED BY <2>2, <2>3 DEF IInv
<1> QED BY <1>1, <1>2, <1>3, <1>4, <1>5, <1>6, <1>7 DEF Next

\* What the theorems below rest on.
THEOREM InductiveInvariant == Spec => []IInv
<1>1. Init => IInv
  BY InitIInv
<1>2. IInv /\ [Next]_vars => IInv'
  BY NextKeepsIInv
<1> QED BY <1>1, <1>2, PTL DEF Spec

\* Rows, cookies and what the tabs wait for have their types.
THEOREM TypeCorrect == Spec => []TypeOK
<1>1. IInv => TypeOK
  BY DEF IInv
<1> QED BY <1>1, InductiveInvariant, PTL

\* handleToken: a withdrawn right lives on in a browser for a JWT's lifetime and
\* one request at most.
THEOREM AuthorityCorrect == Spec => []AuthorityBounded
<1>1. IInv => AuthorityBounded
  <2>1. SUFFICES ASSUME IInv, NEW t \in Tabs, view[t].at = "in"
                 PROVE  LET v == view[t]
                        IN  /\ Active(v.user) \/ now < lost[v.user].active + Latency + JwtTTL
                            /\ v.admin => \/ InCharge(v.user)
                                          \/ now < lost[v.user].admin + Latency + JwtTTL
    BY DEF AuthorityBounded
  <2>2. MintedWell(view[t]) /\ view[t] \in SignedIn
    BY <2>1, ViewKinds DEF IInv, TypeOK, Grounded
  <2>3. view[t].exp \in Nat /\ view[t].user \in Users /\ now \in Nat
    BY <2>1, <2>2 DEF SignedIn, IInv, TypeOK
  <2>4. lost[view[t].user].active \in Nat /\ lost[view[t].user].admin \in Nat
    BY <2>1, <2>3 DEF IInv, TypeOK
  <2> QED BY <2>2, <2>3, <2>4, SessionsAssumption DEF MintedWell, Bound
<1> QED BY <1>1, InductiveInvariant, PTL

\* The same for the session, whether it expired or was revoked.
THEOREM SessionCorrect == Spec => []SessionBounded
<1>1. IInv => SessionBounded
  <2>1. SUFFICES ASSUME IInv, NEW t \in Tabs, view[t].at = "in", IsRow(view[t].cookie)
                 PROVE  now < LastLive(view[t].cookie) + Latency + JwtTTL
    BY DEF SessionBounded
  <2>2. MintedWell(view[t]) /\ view[t] \in SignedIn
    BY <2>1, ViewKinds DEF IInv, TypeOK, Grounded
  <2>3. view[t].exp \in Nat /\ view[t].cookie \in Tokens /\ now \in Nat
    BY <2>1, <2>2 DEF SignedIn, IInv, TypeOK
  <2>4. sessions[view[t].cookie] \in Session
    BY <2>1, <2>3, RowTyped DEF IInv
  <2>5. /\ sessions[view[t].cookie].expiresAt \in Nat
        /\ sessions[view[t].cookie].revokedAt \in Nat \cup {None}
    BY <2>4 DEF Session
  <2>6. Latency \in Nat /\ JwtTTL \in Nat
    BY SessionsAssumption
  <2>7. now < view[t].exp /\ view[t].exp < sessions[view[t].cookie].expiresAt + Bound
    BY <2>1, <2>2 DEF MintedWell
  <2>8. CASE /\ sessions[view[t].cookie].revokedAt # None
             /\ sessions[view[t].cookie].revokedAt < sessions[view[t].cookie].expiresAt
    <3>1. view[t].exp <= sessions[view[t].cookie].revokedAt + Bound
      BY <2>1, <2>2, <2>8 DEF MintedWell
    <3> QED BY <2>3, <2>5, <2>6, <2>7, <2>8, <3>1 DEF LastLive, Bound
  <2>9. CASE LastLive(view[t].cookie) = sessions[view[t].cookie].expiresAt - 1
    BY <2>3, <2>5, <2>6, <2>7, <2>9 DEF Bound
  <2> QED BY <2>8, <2>9 DEF LastLive
<1> QED BY <1>1, InductiveInvariant, PTL

-----------------------------------------------------------------------------
(* Logging out *)

\* A cookie's value has been drawn: no session begins under it any more.
Drawn(c) == c # None => sessions[c] # Unused

\* What a tab that logs in or out knows of the cookie in its request or answer.
CookieKnown(v) ==
    /\ v.at \in {"setCookie", "revoke", "clear"} => Drawn(v.cookie)
    /\ v.at = "clear" /\ v.cookie # None => ~Live(v.cookie)

\* A session that has ended might otherwise begin again under the same cookie.
LogoutInv ==
    /\ \A b \in Browsers : Drawn(jar[b])
    /\ \A t \in Tabs : CookieKnown(view[t])

\* The cookie drawn stays drawn, and the session, once it has ended, ended.
EndsOnce(s) ==
    /\ sessions'[s] # Unused
    /\ ~Live(s) => ~Live(s)'

LEMMA SessionsEndOnce ==
    ASSUME IInv, [Next]_vars, NEW s \in Tokens, sessions[s] # Unused
    PROVE  EndsOnce(s)
<1>1. /\ sessions \in [Tokens -> Session \cup {Unused, Gone}] /\ now \in Nat
      /\ Gone # Unused /\ Unused \notin Session /\ None \notin Nat
  BY RowAssumption, SessionsAssumption DEF IInv, TypeOK
<1>2. ASSUME UNCHANGED <<sessions, now>> PROVE EndsOnce(s)
  BY <1>2 DEF EndsOnce, Live, IsRow
<1>3. ASSUME NEW t \in Tabs, CreateSession(t) PROVE EndsOnce(s)
  <2>1. sessions'[s] = sessions[s] /\ now' = now
    BY <1>1, <1>3 DEF CreateSession
  <2> QED BY <2>1 DEF EndsOnce, Live, IsRow
<1>4. ASSUME NEW t \in Tabs, Revoke(t) PROVE EndsOnce(s)
  <2>1. CASE sessions'[s] = sessions[s]
    BY <1>4, <2>1 DEF EndsOnce, Revoke, Live, IsRow
  <2>2. CASE sessions'[s] # sessions[s]
    <3>1. IsRow(s) /\ sessions' = [sessions EXCEPT ![s] = [sessions[s] EXCEPT !.revokedAt = now]]
      BY <1>1, <1>4, <2>2 DEF Revoke
    <3>2. sessions[s] \in Session
      BY <3>1, RowTyped DEF IInv
    <3>3. sessions'[s] = [sessions[s] EXCEPT !.revokedAt = now]
      BY <1>1, <3>1
    <3>4. sessions'[s] \in Session /\ sessions'[s].revokedAt = now
      BY <1>1, <3>2, <3>3 DEF Session
    <3> QED BY <1>1, <3>4 DEF EndsOnce, Live
  <2> QED BY <2>1, <2>2
<1>5. ASSUME AccountStep PROVE EndsOnce(s)
  <2>1. sessions'[s] \in {sessions[s], Gone} /\ now' = now
    BY <1>5 DEF AccountStep
  <2> QED BY <1>1, <2>1 DEF EndsOnce, Live, IsRow
<1>6. ASSUME Tick PROVE EndsOnce(s)
  <2>1. sessions' = sessions /\ now' = now + 1
    BY <1>6 DEF Tick
  <2>2. IsRow(s) => sessions[s].expiresAt \in Nat
    BY RowTyped DEF IInv, Session
  <2> QED BY <1>1, <2>1, <2>2 DEF EndsOnce, Live, IsRow
<1>7. ASSUME NEW t \in Tabs, TokenStep(t) PROVE EndsOnce(s)
  BY <1>2, <1>7 DEF TokenStep, AskToken, GetValid, GetByID, Mint
<1>8. ASSUME NEW t \in Tabs, LoginStep(t) PROVE EndsOnce(s)
  BY <1>2, <1>3, <1>8 DEF LoginStep, AskLogin, HandleLogin, HandleOAuthStart, Authenticate,
                          Reject, SetCookie
<1>9. ASSUME NEW t \in Tabs, LogoutStep(t) PROVE EndsOnce(s)
  BY <1>2, <1>4, <1>9 DEF LogoutStep, AskLogout, ClearCookie
<1>10. ASSUME \/ \E t \in Tabs : StatementFails(t) \/ AnswerLost(t) \/ Reload(t)
              \/ \E b \in Browsers : DropCookie(b)
              \/ UNCHANGED vars
       PROVE  EndsOnce(s)
  BY <1>2, <1>10 DEF StatementFails, AnswerLost, Reload, DropCookie, vars
<1> QED BY <1>5, <1>6, <1>7, <1>8, <1>9, <1>10 DEF Next

LEMMA KnownStays ==
    ASSUME IInv, [Next]_vars, NEW v \in View, CookieKnown(v)
    PROVE  CookieKnown(v)'
<1>1. v.at \in {"setCookie", "revoke", "clear"} => v.cookie \in Tokens \cup {None}
  BY DEF View, Showing, SignedIn, Asking, Reading, Minting, Entering, Opening, Opened, Leaving,
         Left, Cookie
<1> QED BY <1>1, SessionsEndOnce DEF EndsOnce, CookieKnown, Drawn

LEMMA JarStays ==
    ASSUME IInv, [Next]_vars, NEW c \in Cookie, Drawn(c)
    PROVE  Drawn(c)'
BY SessionsEndOnce DEF EndsOnce, Drawn, Cookie

\* One tab goes on, the jars stay.
LEMMA OneKnown ==
    ASSUME IInv, LogoutInv, [Next]_vars, NEW t \in Tabs, NEW v, Becomes(t, v), CookieKnown(v)',
           UNCHANGED jar
    PROVE  LogoutInv'
<1>1. view \in [Tabs -> View] /\ jar \in [Browsers -> Cookie]
  BY DEF IInv, TypeOK
<1>2. ASSUME NEW b \in Browsers PROVE Drawn(jar[b])'
  <2>1. jar[b] \in Cookie /\ Drawn(jar[b])
    BY <1>1 DEF LogoutInv
  <2>2. Drawn(jar[b])'
    BY <2>1, JarStays DEF Drawn
  <2> QED BY <2>2
<1>3. ASSUME NEW u \in Tabs PROVE CookieKnown(view[u])'
  <2> SUFFICES ASSUME NEW w, w = view'[u] PROVE CookieKnown(w)'
    BY DEF CookieKnown, Drawn, Live, IsRow
  <2>1. CASE u = t
    BY <1>1, <2>1 DEF Becomes
  <2>2. CASE u # t
    <3>1. w = view[u] /\ w \in View /\ CookieKnown(w)
      BY <1>1, <2>2 DEF Becomes, LogoutInv
    <3> QED BY <3>1, KnownStays
  <2> QED BY <2>1, <2>2
<1> QED BY <1>2, <1>3 DEF LogoutInv

\* A tab's new view carries no cookie of a login or logout.
LEMMA ElseKnown ==
    ASSUME IInv, LogoutInv, [Next]_vars, NEW t \in Tabs, NEW v, Becomes(t, v), UNCHANGED jar,
           v.at \notin {"setCookie", "revoke", "clear"}
    PROVE  LogoutInv'
<1>1. CookieKnown(v)'
  BY DEF CookieKnown
<1> QED BY <1>1, OneKnown

LEMMA ShowKnown ==
    ASSUME IInv, LogoutInv, [Next]_vars, NEW t \in Tabs, UNCHANGED jar,
           NEW at \in {"app", "refused", "page", "provider", "error", "out"}, Becomes(t, Show(at))
    PROVE  LogoutInv'
<1> SUFFICES ASSUME NEW v, v = Show(at) PROVE LogoutInv'
  OBVIOUS
<1>1. v.at \notin {"setCookie", "revoke", "clear"}
  BY ShowTyped
<1> QED BY <1>1, ElseKnown

LEMMA TokenStepKnown ==
    ASSUME IInv, LogoutInv, [Next]_vars, NEW t \in Tabs, TokenStep(t)
    PROVE  LogoutInv'
<1>1. UNCHANGED jar
  BY DEF TokenStep, AskToken, GetValid, GetByID, Mint
<1>2. CASE Becomes(t, Show("refused"))
  BY <1>1, <1>2, ShowKnown
<1>3. ASSUME NEW v, Becomes(t, v), v.at \in {"getValid", "getByID", "mint", "in"} PROVE LogoutInv'
  BY <1>1, <1>3, ElseKnown
<1>4. CASE AskToken(t)
  BY <1>2, <1>3, <1>4 DEF AskToken
<1>5. CASE GetValid(t)
  BY <1>2, <1>3, <1>5 DEF GetValid
<1>6. CASE GetByID(t)
  BY <1>2, <1>3, <1>6 DEF GetByID
<1>7. CASE Mint(t)
  BY <1>3, <1>7 DEF Mint
<1> QED BY <1>4, <1>5, <1>6, <1>7 DEF TokenStep

LEMMA LoginStepKnown ==
    ASSUME IInv, LogoutInv, [Next]_vars, NEW t \in Tabs, LoginStep(t)
    PROVE  LogoutInv'
<1>1. CASE SetCookie(t)
  <2>1. /\ view[t] \in View /\ view[t].at = "setCookie" /\ CookieKnown(view[t])
        /\ jar \in [Browsers -> Cookie] /\ view \in [Tabs -> View]
    BY <1>1 DEF SetCookie, IInv, TypeOK, LogoutInv
  <2>2. view[t].cookie \in Cookie /\ Drawn(view[t].cookie)
    BY <2>1, ViewKinds DEF Opened, Cookie, CookieKnown
  <2>3. ASSUME NEW b \in Browsers PROVE Drawn(jar[b])'
    <3>1. jar'[b] \in {view[t].cookie, jar[b]} /\ jar[b] \in Cookie
      BY <1>1, <2>1 DEF SetCookie
    <3>2. Drawn(jar[b])
      BY DEF LogoutInv
    <3> SUFFICES ASSUME NEW c, c = jar'[b] PROVE Drawn(c)'
      BY DEF Drawn
    <3> QED BY <2>2, <3>1, <3>2, JarStays
  <2>4. ASSUME NEW u \in Tabs PROVE CookieKnown(view[u])'
    <3> SUFFICES ASSUME NEW w, w = view'[u] PROVE CookieKnown(w)'
      BY DEF CookieKnown, Drawn, Live, IsRow
    <3>1. CASE u = t
      <4>1. w.at = "app"
        BY <1>1, <2>1, <3>1, ShowTyped DEF SetCookie, Becomes
      <4> QED BY <4>1 DEF CookieKnown
    <3>2. CASE u # t
      <4>1. w = view[u] /\ w \in View /\ CookieKnown(w)
        BY <1>1, <2>1, <3>2 DEF SetCookie, Becomes, LogoutInv
      <4> QED BY <4>1, KnownStays
    <3> QED BY <3>1, <3>2
  <2> QED BY <2>3, <2>4 DEF LogoutInv
<1>2. CASE CreateSession(t)
  <2>1. UNCHANGED jar /\ sessions \in [Tokens -> Session \cup {Unused, Gone}] /\ now \in Nat
        /\ view[t] \in View /\ view[t].at = "create"
    BY <1>2 DEF CreateSession, IInv, TypeOK
  <2>2. CASE Becomes(t, Show("error"))
    BY <2>1, <2>2, ShowKnown
  <2>3. CASE ~Becomes(t, Show("error"))
    <3>1. PICK s \in Tokens :
             /\ sessions' = [sessions EXCEPT ![s] = [user |-> view[t].user,
                                 expiresAt |-> now + SessionTTL, revokedAt |-> None]]
             /\ Becomes(t, [at |-> "setCookie", cookie |-> s])
      BY <1>2, <2>3 DEF CreateSession
    <3>2. view[t].user \in Users
      BY <2>1, ViewKinds DEF Opening
    <3>3. sessions'[s] \in Session
      BY <2>1, <3>1, <3>2, SessionsAssumption DEF Session
    <3> SUFFICES ASSUME NEW v, v = [at |-> "setCookie", cookie |-> s] PROVE LogoutInv'
      OBVIOUS
    <3>4. CookieKnown(v)'
      BY <3>3, RowAssumption DEF CookieKnown, Drawn
    <3> QED BY <2>1, <3>1, <3>4, OneKnown
  <2> QED BY <2>2, <2>3
<1>3. CASE ~SetCookie(t) /\ ~CreateSession(t)
  <2>1. UNCHANGED jar
    BY <1>3 DEF LoginStep, AskLogin, HandleLogin, HandleOAuthStart, Authenticate, Reject
  <2>2. ASSUME NEW at \in {"app", "page", "provider", "error"}, Becomes(t, Show(at)) PROVE LogoutInv'
    BY <2>1, <2>2, ShowKnown
  <2>3. ASSUME NEW v, Becomes(t, v), v.at \in {"login", "create"} PROVE LogoutInv'
    BY <2>1, <2>3, ElseKnown
  <2>4. CASE AskLogin(t)
    BY <2>2, <2>3, <2>4 DEF AskLogin
  <2>5. CASE \E u \in Users : Authenticate(t, u)
    BY <2>3, <2>5 DEF Authenticate
  <2>6. CASE HandleLogin(t) \/ HandleOAuthStart(t) \/ Reject(t)
    BY <2>2, <2>6 DEF HandleLogin, HandleOAuthStart, Reject
  <2> QED BY <1>3, <2>4, <2>5, <2>6 DEF LoginStep
<1> QED BY <1>1, <1>2, <1>3

\* Revoke leaves no live session behind: it ends it now, or it had ended.
LEMMA LogoutStepKnown ==
    ASSUME IInv, LogoutInv, [Next]_vars, NEW t \in Tabs, LogoutStep(t)
    PROVE  LogoutInv'
<1>1. /\ view \in [Tabs -> View] /\ jar \in [Browsers -> Cookie] /\ now \in Nat
      /\ sessions \in [Tokens -> Session \cup {Unused, Gone}]
  BY DEF IInv, TypeOK
<1>2. CASE AskLogout(t)
  <2>1. UNCHANGED jar
    BY <1>2 DEF AskLogout
  <2>2. CASE CookieOf(t) = None
    <3> SUFFICES ASSUME NEW v, v = [at |-> "clear", cookie |-> None] PROVE LogoutInv'
      OBVIOUS
    <3>1. CookieKnown(v)' /\ Becomes(t, v)
      BY <1>2, <2>2 DEF AskLogout, CookieKnown, Drawn
    <3> QED BY <2>1, <3>1, OneKnown
  <2>3. CASE CookieOf(t) # None
    <3> SUFFICES ASSUME NEW v, v = [at |-> "revoke", cookie |-> CookieOf(t)] PROVE LogoutInv'
      OBVIOUS
    <3>1. CookieOf(t) \in Cookie /\ Drawn(CookieOf(t))
      BY <1>1, SessionsAssumption DEF CookieOf, LogoutInv
    <3>2. Drawn(v.cookie)' /\ v.at = "revoke"
      BY <3>1, JarStays, SessionsEndOnce DEF Drawn, EndsOnce, Cookie
    <3>3. CookieKnown(v)' /\ Becomes(t, v)
      BY <1>2, <2>3, <3>2 DEF AskLogout, CookieKnown
    <3> QED BY <2>1, <3>3, OneKnown
  <2> QED BY <2>2, <2>3
<1>3. CASE Revoke(t)
  <2> SUFFICES ASSUME NEW v, v = [at |-> "clear", cookie |-> view[t].cookie] PROVE LogoutInv'
    OBVIOUS
  <2>1. view[t].at = "revoke" /\ Becomes(t, v) /\ UNCHANGED <<jar, now>>
    BY <1>3 DEF Revoke
  <2>2. v.cookie \in Tokens /\ v.at = "clear" /\ sessions[v.cookie] # Unused
    <3>1. view[t].cookie \in Tokens /\ Drawn(view[t].cookie)
      BY <1>1, <2>1, ViewKinds DEF Leaving, LogoutInv, CookieKnown
    <3> QED BY <3>1, SessionsAssumption DEF Drawn
  <2>3. sessions'[v.cookie] # Unused
    BY <2>2, SessionsEndOnce DEF EndsOnce
  <2>4. ~Live(v.cookie)'
    <3>1. CASE ~(IsRow(v.cookie) /\ sessions[v.cookie].revokedAt = None)
      <4>1. sessions' = sessions
        BY <1>3, <3>1 DEF Revoke
      <4> QED BY <3>1, <4>1 DEF Live, IsRow
    <3>2. CASE IsRow(v.cookie) /\ sessions[v.cookie].revokedAt = None
      <4>1. sessions'[v.cookie] = [sessions[v.cookie] EXCEPT !.revokedAt = now]
        BY <1>1, <1>3, <2>2, <3>2 DEF Revoke
      <4>2. sessions[v.cookie] \in Session
        BY <2>2, <3>2, RowTyped DEF IInv
      <4>3. sessions'[v.cookie].revokedAt = now
        BY <4>1, <4>2 DEF Session
      <4> QED BY <1>1, <4>3, SessionsAssumption DEF Live
    <3> QED BY <3>1, <3>2
  <2>5. CookieKnown(v)'
    BY <2>2, <2>3, <2>4 DEF CookieKnown, Drawn
  <2> QED BY <2>1, <2>5, OneKnown
<1>4. CASE ClearCookie(t)
  <2>1. ASSUME NEW b \in Browsers PROVE Drawn(jar[b])'
    <3>1. jar'[b] \in {None, jar[b]} /\ jar[b] \in Cookie /\ None \in Cookie /\ Drawn(None)
      BY <1>1, <1>4 DEF ClearCookie, Cookie, Drawn
    <3>2. Drawn(jar[b])
      BY DEF LogoutInv
    <3> SUFFICES ASSUME NEW c, c = jar'[b] PROVE Drawn(c)'
      BY DEF Drawn
    <3> QED BY <3>1, <3>2, JarStays
  <2>2. ASSUME NEW u \in Tabs PROVE CookieKnown(view[u])'
    <3> SUFFICES ASSUME NEW w, w = view'[u] PROVE CookieKnown(w)'
      BY DEF CookieKnown, Drawn, Live, IsRow
    <3>1. CASE u = t
      <4>1. w.at = "out"
        BY <1>1, <1>4, <3>1, ShowTyped DEF ClearCookie, Becomes
      <4> QED BY <4>1 DEF CookieKnown
    <3>2. CASE u # t
      <4>1. w = view[u] /\ w \in View /\ CookieKnown(w)
        BY <1>1, <1>4, <3>2 DEF ClearCookie, Becomes, LogoutInv
      <4> QED BY <4>1, KnownStays
    <3> QED BY <3>1, <3>2
  <2> QED BY <2>1, <2>2 DEF LogoutInv
<1> QED BY <1>2, <1>3, <1>4 DEF LogoutStep

\* Steps that leave the tabs alone, or send expired JWTs away.
LEMMA OthersKnown ==
    ASSUME IInv, LogoutInv, [Next]_vars,
           AccountStep \/ Tick \/ (\E b \in Browsers : DropCookie(b)) \/ UNCHANGED vars
    PROVE  LogoutInv'
<1>1. view \in [Tabs -> View] /\ jar \in [Browsers -> Cookie]
  BY DEF IInv, TypeOK
<1>2. \A b \in Browsers : jar'[b] \in {jar[b], None}
  BY <1>1 DEF AccountStep, Tick, DropCookie, vars
<1>3. \A u \in Tabs : view'[u] \in {view[u], Show("app")}
  BY <1>1 DEF AccountStep, Tick, DropCookie, vars
<1>4. ASSUME NEW b \in Browsers PROVE Drawn(jar[b])'
  <2> SUFFICES ASSUME NEW c, c = jar'[b] PROVE Drawn(c)'
    BY DEF Drawn
  <2>1. c \in Cookie /\ Drawn(c)
    BY <1>1, <1>2 DEF Cookie, Drawn, LogoutInv
  <2> QED BY <2>1, JarStays
<1>5. ASSUME NEW u \in Tabs PROVE CookieKnown(view[u])'
  <2> SUFFICES ASSUME NEW w, w = view'[u] PROVE CookieKnown(w)'
    BY DEF CookieKnown, Drawn, Live, IsRow
  <2>1. CASE w = view[u]
    BY <1>1, <2>1, KnownStays DEF LogoutInv
  <2>2. CASE w = Show("app")
    <3>1. w.at = "app"
      BY <2>2, ShowTyped
    <3> QED BY <3>1 DEF CookieKnown
  <2> QED BY <1>3, <2>1, <2>2
<1> QED BY <1>4, <1>5 DEF LogoutInv

LEMMA NextKnown ==
    ASSUME ~Faults, IInv, LogoutInv, [Next]_vars
    PROVE  LogoutInv'
<1>1. ASSUME NEW t \in Tabs, Reload(t) PROVE LogoutInv'
  BY <1>1, ShowKnown DEF Reload
<1>2. \A t \in Tabs : ~StatementFails(t) /\ ~AnswerLost(t)
  BY DEF StatementFails, AnswerLost
<1> QED BY <1>1, <1>2, TokenStepKnown, LoginStepKnown, LogoutStepKnown, OthersKnown DEF Next

\* handleLogout, on a database that answers: no tab is told "logged out" while the
\* cookie it came with still opens a session.
THEOREM LogoutCorrect ==
    ASSUME ~Faults
    PROVE  Spec => []LogoutRevokes
<1>1. Init => LogoutInv
  <2> SUFFICES ASSUME Init PROVE LogoutInv
    OBVIOUS
  <2>1. \A t \in Tabs : view[t].at = "app"
    BY ShowTyped DEF Init
  <2>2. \A b \in Browsers : jar[b] = None
    BY DEF Init
  <2> QED BY <2>1, <2>2 DEF LogoutInv, CookieKnown, Drawn
<1>2. IInv /\ LogoutInv /\ [Next]_vars => LogoutInv'
  BY NextKnown
<1>3. LogoutInv => LogoutRevokes
  BY DEF LogoutInv, CookieKnown, LogoutRevokes
<1> QED BY <1>1, <1>2, <1>3, InductiveInvariant, PTL DEF Spec

=============================================================================
