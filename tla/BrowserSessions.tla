--------------------------- MODULE BrowserSessions ---------------------------
(***************************************************************************)
(* The browser SSO: the session cookie, the table go_auth.sessions behind  *)
(* it, and the JWTs minted from it (browser_handlers.go, session_store.go).*)
(*                                                                         *)
(* Each tab of a browser shows something or waits for one request; the     *)
(* tabs of a browser share its cookie.  A request carries the cookie of    *)
(* the moment it was sent, and each SQL statement of its handler is a step *)
(* of its own, so other tabs, administrators and the clock come in         *)
(* between.  Statements may fail and answers may get lost.                 *)
(*                                                                         *)
(* Accounts change as the module Accounts says, which UserDirectory        *)
(* implements; a deleted account takes its sessions with it (ON DELETE     *)
(* CASCADE).  A tab follows the README's recipe for module apps: ask       *)
(* /auth/token, and go through /auth/login on a 401.                       *)
(***************************************************************************)
EXTENDS Accounts, Naturals

CONSTANTS
    Browsers, Tabs,
    browserOf,   \* the browser a tab belongs to
    Tokens,      \* random cookie values (their hashes are the keys of the table)
    Unused,      \* the random value has not been drawn yet
    None,        \* no cookie; not revoked
    SessionTTL,  \* SESSION_DURATION, in clock units
    JwtTTL,      \* lifetime of a JWT
    Latency,     \* assumed: a token request is answered within this time
    Faults,      \* whether statements may fail and answers get lost
    Horizon      \* bound: the clock stops here

ASSUME SessionsAssumption ==
    /\ browserOf \in [Tabs -> Browsers]
    /\ None \notin Tokens /\ None \notin Nat
    /\ SessionTTL \in Nat /\ JwtTTL \in Nat \ {0} /\ Latency \in Nat /\ Horizon \in Nat
    /\ Faults \in BOOLEAN
    /\ NoRow \notin Account /\ Gone \notin Account /\ NoRow # Gone

VARIABLES
    now,        \* the clock
    sessions,   \* the table: a row for each token, or Unused, or Gone
    jar,        \* the session cookie of each browser
    view,       \* what each tab shows or waits for
    lost        \* history: since when an account is not active (active), and since
                \* when it is not an active administrator (admin); 0 while it is

vars == <<acct, power, now, sessions, jar, view, lost>>

Session == [user : Users, expiresAt : Nat, revokedAt : Nat \cup {None}]

ASSUME RowAssumption == Unused \notin Session /\ Gone \notin Session /\ Unused # Gone

Cookie == Tokens \cup {None}

\* app: a module page without JWT; refused: /auth/token said 401; page: the login
\* page; provider: gone to the OAuth provider; in: holding a JWT; out: told "logged
\* out".
Showing == [at : {"app", "refused", "page", "provider", "error", "out"}]
SignedIn == [at : {"in"}, cookie : Tokens, user : Users, admin : BOOLEAN, exp : Nat]

\* Requests to /auth/token, /auth/login, the OAuth callback and /auth/logout,
\* named by the statement or cookie change that comes next.
Asking == [at : {"getValid"}, cookie : Tokens, since : Nat]
Reading == [at : {"getByID"}, cookie : Tokens, since : Nat, user : Users]
Minting == [at : {"mint"}, cookie : Tokens, since : Nat, user : Users, admin : BOOLEAN]
Entering == [at : {"login"}, cookie : Tokens]
Opening == [at : {"create"}, user : Users]
Opened == [at : {"setCookie"}, cookie : Tokens]
Leaving == [at : {"revoke"}, cookie : Tokens]
Left == [at : {"clear"}, cookie : Cookie]

View == Showing \cup SignedIn \cup Asking \cup Reading \cup Minting
          \cup Entering \cup Opening \cup Opened \cup Leaving \cup Left

TypeOK ==
    /\ acct \in [Users -> Account \cup {NoRow, Gone}]
    /\ power \in BOOLEAN
    /\ now \in Nat
    /\ sessions \in [Tokens -> Session \cup {Unused, Gone}]
    /\ jar \in [Browsers -> Cookie]
    /\ view \in [Tabs -> View]
    /\ lost \in [Users -> [active : Nat, admin : Nat]]

Show(at) == [at |-> at]

Init ==
    /\ AccountsInit
    /\ now = 0
    /\ sessions = [s \in Tokens |-> Unused]
    /\ jar = [b \in Browsers |-> None]
    /\ view = [t \in Tabs |-> Show("app")]
    /\ lost = [u \in Users |-> [active |-> 0, admin |-> 0]]

-----------------------------------------------------------------------------
Exists(u) == acct[u] \notin {NoRow, Gone}
Active(u) == Exists(u) /\ acct[u].active
InCharge(u) == Active(u) /\ acct[u].admin

IsRow(s) == sessions[s] \notin {Unused, Gone}

\* The WHERE clause of getValidSession.
Live(s) == IsRow(s) /\ sessions[s].revokedAt = None /\ now < sessions[s].expiresAt

Becomes(t, v) == view' = [view EXCEPT ![t] = v]

CookieOf(t) == jar[browserOf[t]]

KeepAccounts == UNCHANGED <<acct, power, lost>>

\* A request that has read account u for a JWT has the power the JWT will have.
TakePower(u) ==
    /\ IF InCharge(u) THEN Empower(u) ELSE UNCHANGED accountVars
    /\ UNCHANGED lost

\* A request that ends without a JWT takes along the power of what it has read.
DropPower == (LosePower \/ UNCHANGED accountVars) /\ UNCHANGED lost

-----------------------------------------------------------------------------
\* Mutated forms of operations below: slips this code could have had, each caught
\* by a property of a run.  No specification uses them.

\* A missing cookie is looked up as well.
AskToken_NoCookieCheck(t) ==
    /\ view[t].at \in {"app", "in"}
    /\ Becomes(t, [at |-> "getValid", cookie |-> CookieOf(t), since |-> now])
    /\ UNCHANGED <<now, sessions, jar>> /\ KeepAccounts

\* getValidSession without "revoked_at IS NULL".
GetValid_IgnoresRevocation(t) ==
    /\ view[t].at = "getValid"
    /\ LET v == view[t]
       IN  Becomes(t, IF ~(IsRow(v.cookie) /\ now < sessions[v.cookie].expiresAt)
                      THEN Show("refused")
                      ELSE [at |-> "getByID", cookie |-> v.cookie, since |-> v.since,
                            user |-> sessions[v.cookie].user])
    /\ UNCHANGED <<now, sessions, jar>> /\ KeepAccounts

\* handleToken does not look at is_active.
GetByID_NoActiveCheck(t) ==
    /\ view[t].at = "getByID"
    /\ LET v == view[t]
       IN  Becomes(t, IF ~Exists(v.user) THEN Show("refused")
                      ELSE [at |-> "mint", cookie |-> v.cookie, since |-> v.since,
                            user |-> v.user, admin |-> acct[v.user].admin])
    /\ UNCHANGED <<now, sessions, jar>> /\ KeepAccounts

\* sessions.user_id does not reference users.
CreateSession_NoForeignKey(t) ==
    /\ view[t].at = "create"
    /\ \E s \in Tokens :
        /\ sessions[s] = Unused
        /\ sessions' = [sessions EXCEPT ![s] = [user |-> view[t].user, revokedAt |-> None,
                                                expiresAt |-> now + SessionTTL]]
        /\ Becomes(t, [at |-> "setCookie", cookie |-> s])
    /\ UNCHANGED <<now, jar>> /\ KeepAccounts

\* The answer does not wait for the UPDATE (go h.sessions.Revoke).
Revoke_NotAwaited(t) ==
    /\ view[t].at = "revoke"
    /\ Becomes(t, [at |-> "clear", cookie |-> view[t].cookie])
    /\ UNCHANGED <<now, sessions, jar>> /\ KeepAccounts

\* handleLogin is content with the presence of a cookie.
HandleLogin_TrustsCookie(t) ==
    /\ view[t].at = "login"
    /\ Becomes(t, Show("app"))
    /\ UNCHANGED <<now, sessions, jar>> /\ KeepAccounts

-----------------------------------------------------------------------------
\* GET /auth/token.

\* A page without JWT asks for one; one that holds a JWT renews it early.
AskToken(t) ==
    /\ view[t].at \in {"app", "in"}
    /\ Becomes(t, IF CookieOf(t) = None THEN Show("refused")
                  ELSE [at |-> "getValid", cookie |-> CookieOf(t), since |-> now])
    /\ UNCHANGED <<now, sessions, jar>> /\ KeepAccounts

\* currentSession; last_seen_at is not modelled.
GetValid(t) ==
    /\ view[t].at = "getValid"
    /\ LET v == view[t]
       IN  Becomes(t, IF ~Live(v.cookie) THEN Show("refused")
                      ELSE [at |-> "getByID", cookie |-> v.cookie, since |-> v.since,
                            user |-> sessions[v.cookie].user])
    /\ UNCHANGED <<now, sessions, jar>> /\ KeepAccounts

\* Store.GetByID and the check of is_active.
GetByID(t) ==
    /\ view[t].at = "getByID"
    /\ LET v == view[t]
       IN  Becomes(t, IF ~Active(v.user) THEN Show("refused")
                      ELSE [at |-> "mint", cookie |-> v.cookie, since |-> v.since,
                            user |-> v.user, admin |-> acct[v.user].admin])
    /\ TakePower(view[t].user)
    /\ UNCHANGED <<now, sessions, jar>>

\* IssueJwtForUser, after its query for the groups, whose failure it ignores.
Mint(t) ==
    /\ view[t].at = "mint"
    /\ LET v == view[t]
       IN  Becomes(t, [at |-> "in", cookie |-> v.cookie, user |-> v.user,
                       admin |-> v.admin, exp |-> now + JwtTTL])
    /\ UNCHANGED <<now, sessions, jar>> /\ KeepAccounts

-----------------------------------------------------------------------------
\* GET /auth/login and the OAuth round trip.

AskLogin(t) ==
    /\ view[t].at = "refused"
    /\ Becomes(t, IF CookieOf(t) = None THEN Show("page")
                  ELSE [at |-> "login", cookie |-> CookieOf(t)])
    /\ UNCHANGED <<now, sessions, jar>> /\ KeepAccounts

\* A valid session sends the tab straight back to the module.
HandleLogin(t) ==
    /\ view[t].at = "login"
    /\ Becomes(t, IF Live(view[t].cookie) THEN Show("app") ELSE Show("page"))
    /\ UNCHANGED <<now, sessions, jar>> /\ KeepAccounts

HandleOAuthStart(t) ==
    /\ view[t].at = "page"
    /\ Becomes(t, Show("provider"))
    /\ UNCHANGED <<now, sessions, jar>> /\ KeepAccounts

\* The callback, with a state and a code that are good: AuthenticateOAuthUser
\* returns an account that was active as the upsert left it, some time ago by now.
Authenticate(t, u) ==
    /\ view[t].at = "provider"
    /\ acct[u] # NoRow
    /\ Becomes(t, [at |-> "create", user |-> u])
    /\ DropPower
    /\ UNCHANGED <<now, sessions, jar>>

\* The provider, the state store or AuthenticateOAuthUser refuses.
Reject(t) ==
    /\ view[t].at = "provider"
    /\ Becomes(t, Show("error"))
    /\ UNCHANGED <<now, sessions, jar>> /\ KeepAccounts

\* SessionStorage.Create; the foreign key refuses a user deleted since.
CreateSession(t) ==
    /\ view[t].at = "create"
    /\ LET u == view[t].user
       IN  IF Exists(u)
           THEN \E s \in Tokens :
                    /\ sessions[s] = Unused
                    /\ sessions' = [sessions EXCEPT ![s] =
                            [user |-> u, expiresAt |-> now + SessionTTL, revokedAt |-> None]]
                    /\ Becomes(t, [at |-> "setCookie", cookie |-> s])
           ELSE Becomes(t, Show("error")) /\ UNCHANGED sessions
    /\ UNCHANGED <<now, jar>> /\ KeepAccounts

\* The answer arrives: the browser keeps the cookie and goes to the module.
SetCookie(t) ==
    /\ view[t].at = "setCookie"
    /\ jar' = [jar EXCEPT ![browserOf[t]] = view[t].cookie]
    /\ Becomes(t, Show("app"))
    /\ UNCHANGED <<now, sessions>> /\ KeepAccounts

-----------------------------------------------------------------------------
\* POST /auth/logout.

AskLogout(t) ==
    /\ view[t].at \in {"app", "in"}
    /\ Becomes(t, IF CookieOf(t) = None
                  THEN [at |-> "clear", cookie |-> None]
                  ELSE [at |-> "revoke", cookie |-> CookieOf(t)])
    /\ UNCHANGED <<now, sessions, jar>> /\ KeepAccounts

\* SessionStorage.Revoke.
Revoke(t) ==
    /\ view[t].at = "revoke"
    /\ LET s == view[t].cookie
       IN  /\ sessions' = IF IsRow(s) /\ sessions[s].revokedAt = None
                          THEN [sessions EXCEPT ![s].revokedAt = now] ELSE sessions
           /\ Becomes(t, [at |-> "clear", cookie |-> s])
    /\ UNCHANGED <<now, jar>> /\ KeepAccounts

\* The answer arrives: whatever cookie the browser has by now is cleared.
ClearCookie(t) ==
    /\ view[t].at = "clear"
    /\ jar' = [jar EXCEPT ![browserOf[t]] = None]
    /\ Becomes(t, Show("out"))
    /\ UNCHANGED <<now, sessions>> /\ KeepAccounts

-----------------------------------------------------------------------------
\* Failures.

\* A failed statement: GetValid's and GetByID's read as "no valid session",
\* Revoke's is logged and the logout goes on.
StatementFails(t) ==
    /\ Faults
    /\ \/ view[t].at \in {"getValid", "getByID"} /\ Becomes(t, Show("refused"))
       \/ view[t].at = "login" /\ Becomes(t, Show("page"))
       \/ view[t].at = "create" /\ Becomes(t, Show("error"))
       \/ /\ view[t].at = "revoke"
          /\ Becomes(t, [at |-> "clear", cookie |-> view[t].cookie])
    /\ UNCHANGED <<now, sessions, jar>> /\ KeepAccounts

\* A crash or a lost answer: what was written stays, the cookie does not change.
AnswerLost(t) ==
    /\ Faults
    /\ view[t].at \in {"mint", "setCookie", "clear"}
    /\ Becomes(t, Show("error"))
    /\ DropPower
    /\ UNCHANGED <<now, sessions, jar>>

-----------------------------------------------------------------------------
\* Everybody else.

\* The user opens the module again.
Reload(t) ==
    /\ view[t].at \in {"error", "out", "page"}
    /\ Becomes(t, Show("app"))
    /\ UNCHANGED <<now, sessions, jar>> /\ KeepAccounts

\* The cookie reaches its Max-Age, or the user clears it.
DropCookie(b) ==
    /\ jar[b] # None
    /\ jar' = [jar EXCEPT ![b] = None]
    /\ UNCHANGED <<now, sessions, view>> /\ KeepAccounts

Since(before, held, holds) == IF holds THEN 0 ELSE IF held THEN now ELSE before

\* The history of what accounts are.
Witness ==
    lost' = [u \in Users |-> [active |-> Since(lost[u].active, Active(u), Active(u)'),
                              admin |-> Since(lost[u].admin, InCharge(u), InCharge(u)')]]

\* A login, a promotion or an administrator's request somewhere else.
AccountStep ==
    /\ AccountsNext
    /\ sessions' = [s \in Tokens |-> IF IsRow(s) /\ acct'[sessions[s].user] = Gone THEN Gone
                                     ELSE sessions[s]]
    /\ Witness
    /\ UNCHANGED <<now, jar, view>>

\* Time passes, but not over the deadline of a token request.  A tab drops a JWT
\* that has expired.
Tick ==
    /\ now < Horizon
    /\ \A t \in Tabs : view[t].at \in {"getValid", "getByID", "mint"}
                            => now < view[t].since + Latency
    /\ now' = now + 1
    /\ view' = [t \in Tabs |-> IF view[t].at = "in" /\ view[t].exp <= now' THEN Show("app")
                               ELSE view[t]]
    /\ UNCHANGED <<sessions, jar>> /\ KeepAccounts

-----------------------------------------------------------------------------
TokenStep(t) == AskToken(t) \/ GetValid(t) \/ GetByID(t) \/ Mint(t)

LoginStep(t) ==
    \/ AskLogin(t) \/ HandleLogin(t) \/ HandleOAuthStart(t)
    \/ \E u \in Users : Authenticate(t, u)
    \/ Reject(t) \/ CreateSession(t) \/ SetCookie(t)

LogoutStep(t) == AskLogout(t) \/ Revoke(t) \/ ClearCookie(t)

Next ==
    \/ \E t \in Tabs : \/ TokenStep(t) \/ LoginStep(t) \/ LogoutStep(t)
                       \/ StatementFails(t) \/ AnswerLost(t) \/ Reload(t)
    \/ \E b \in Browsers : DropCookie(b)
    \/ AccountStep
    \/ Tick

Spec == Init /\ [][Next]_vars

\* The page and the server go on with what they have begun; what the user decides,
\* other accounts, expiry and time are not promised.
FairSpec ==
    /\ Spec
    /\ \A t \in Tabs : /\ WF_vars(AskToken(t)) /\ WF_vars(GetValid(t))
                       /\ WF_vars(GetByID(t)) /\ WF_vars(Mint(t))
                       /\ WF_vars(AskLogin(t)) /\ WF_vars(HandleLogin(t))
                       /\ WF_vars(Revoke(t)) /\ WF_vars(ClearCookie(t))

-----------------------------------------------------------------------------
\* A JWT in a browser outlives the account's being active, and its being an
\* administrator, by less than its own lifetime and the time one request takes:
\* between a request's three statements an administrator may come, but nothing
\* keeps a withdrawn right alive by renewing the JWT.
AuthorityBounded ==
    \A t \in Tabs : view[t].at = "in" =>
        LET v == view[t]
        IN  /\ Active(v.user) \/ now < lost[v.user].active + Latency + JwtTTL
            /\ v.admin => InCharge(v.user) \/ now < lost[v.user].admin + Latency + JwtTTL

\* The last instant at which a request may find session s live: that of the logout,
\* which may come right after the look, but never that of expires_at.
LastLive(s) == IF sessions[s].revokedAt # None /\ sessions[s].revokedAt < sessions[s].expiresAt
               THEN sessions[s].revokedAt ELSE sessions[s].expiresAt - 1

\* The same for the session the JWT was minted from, whether it expired or another
\* tab logged out while the request was on its way.  To the instant: a session that
\* still opened something at expires_at would break it.
SessionBounded ==
    \A t \in Tabs : view[t].at = "in" /\ IsRow(view[t].cookie)
        => now < LastLive(view[t].cookie) + Latency + JwtTTL

\* "Revokes the session and clears the cookie": when the answer "logged out" is on
\* its way, the cookie the request came with opens nothing any more, whoever has a
\* copy of it.  A failed UPDATE is only logged, so this needs a database that works.
LogoutRevokes ==
    \A t \in Tabs : view[t].at = "clear" /\ view[t].cookie # None => ~Live(view[t].cookie)

\* A module page that was refused a JWT does not wander between /auth/token and
\* /auth/login for ever: it gets its JWT or the user gets a page to act on, unless
\* the account is disabled.
RefusedSettles ==
    \A t \in Tabs :
        view[t].at = "refused" ~> \/ view[t].at \in {"page", "in", "out", "error"}
                                 \/ \E u \in Users : Exists(u) /\ ~Active(u)

=============================================================================
