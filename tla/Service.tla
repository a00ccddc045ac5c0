------------------------------- MODULE Service -------------------------------
(***************************************************************************)
(* The service around the table of users: the directory's handlers, the    *)
(* browser sessions and the personal access tokens, on one database and    *)
(* one clock.                                                              *)
(*                                                                         *)
(* BrowserSessions and PersonalAccessTokens each let accounts change as    *)
(* Accounts says.  Here accounts are the rows of UserDirectory, and their  *)
(* changes are its statements; the foreign keys of the two tables cascade  *)
(* within the statement that deletes a user.                               *)
(*                                                                         *)
(* Some steps of the two are steps of the directory as well.  A browser's  *)
(* login is a login there, up to the JWT it does not sign, and a token     *)
(* request reads a user there and signs a JWT.  The request a tab t waits  *)
(* for is the directory's handler t.                                       *)
(***************************************************************************)
EXTENDS UserDirectory, Naturals

CONSTANTS
    Browsers, Tabs, browserOf,             \* as in BrowserSessions
    Tokens, SessionTTL, JwtTTL, Latency, Faults,
    Pats, Calls, PatTTL, TouchTimeout,     \* as in PersonalAccessTokens
    Unused,
    Horizon                                \* bound: the clock stops here

ASSUME ServiceAssumption ==
    /\ Tabs \subseteq Handlers
    /\ browserOf \in [Tabs -> Browsers]
    /\ None \notin Nat /\ None \notin Tokens /\ Unused # Gone
    /\ SessionTTL \in Nat /\ JwtTTL \in Nat \ {0} /\ Latency \in Nat
    /\ PatTTL \in Nat \ {0} /\ TouchTimeout \in Nat /\ Horizon \in Nat
    /\ Faults \in BOOLEAN

VARIABLES
    now,                    \* the clock
    sessions, jar, view,    \* as in BrowserSessions
    pats, call, touching,   \* as in PersonalAccessTokens
    lost, found             \* histories of the two

sessionVars == <<sessions, jar, view>>
patVars == <<pats, call, touching, found>>

serviceVars == <<vars, now, sessionVars, patVars, lost>>

lostActive == [u \in Users |-> lost[u].active]

Sess == INSTANCE BrowserSessions WITH acct <- acctView, power <- powerView
Pat == INSTANCE PersonalAccessTokens
           WITH acct <- acctView, power <- powerView, lost <- lostActive

\* The values that stand for no row, and no request, are none.
ASSUME PartsAssumption ==
    /\ {Unused, Gone} \cap (Sess!Session \cup Pat!Pat) = {}
    /\ None \notin Pat!Call

ServiceInit ==
    /\ Init
    /\ now = 0
    /\ sessions = [s \in Tokens |-> Unused]
    /\ jar = [b \in Browsers |-> None]
    /\ view = [t \in Tabs |-> Sess!Show("app")]
    /\ pats = [p \in Pats |-> Unused]
    /\ call = [h \in Calls |-> None]
    /\ touching = {}
    /\ lost = [u \in Users |-> [active |-> 0, admin |-> 0]]
    /\ found = [p \in Pats |-> None]

-----------------------------------------------------------------------------
\* Mutated forms of definitions below: slips this code could have had, each caught
\* by a property of a run.  No specification uses them.

\* sessions.user_id without ON DELETE CASCADE, or the constraint with it.
SessionsCascade_None == UNCHANGED sessions

\* The same for personal_access_tokens.user_id.
PatsCascade_None == UNCHANGED pats

-----------------------------------------------------------------------------
\* Steps of the directory alone.

\* user_id REFERENCES users (id) ON DELETE CASCADE, of sessions.
SessionsCascade ==
    sessions' = [s \in Tokens |-> IF Sess!IsRow(s) /\ rows'[sessions[s].user] = Gone
                                  THEN Gone ELSE sessions[s]]

\* The same, of personal_access_tokens.
PatsCascade ==
    pats' = [p \in Pats |-> IF Pat!IsRow(p) /\ rows'[pats[p].user] = Gone
                            THEN Gone ELSE pats[p]]

\* RPC logins, the requests of administrators, and browsers that are not modelled.
Elsewhere(h) == LoginStep(h) \/ RequestStep(h) \/ Fail(h)

\* AuthenticateOAuthUser, for tab t that is back from the provider.
BrowserLogin(t) ==
    /\ view[t].at = "provider"
    /\ LoginSelect(t) \/ LoginWrite(t) \/ LoginGrant(t) \/ Fail(t)

\* A tab holds an unexpired JWT with is_admin of c.
Carries(t, c) == view[t].at = "in" /\ view[t].admin /\ view[t].user = c

DirectoryStep ==
    /\ \/ \E h \in Handlers \ Tabs : Elsewhere(h)
       \/ \E t \in Tabs : BrowserLogin(t)
       \/ \E c \in Roots : RootLogin(c)
       \/ \E c \in Users \cup Roots : /\ \A t \in Tabs : ~Carries(t, c)
                                      /\ JwtExpires(c)
    /\ SessionsCascade /\ PatsCascade
    /\ Sess!Witness
    /\ UNCHANGED <<now, jar, view, call, touching, found>>

-----------------------------------------------------------------------------
\* Steps of a browser, with the directory's part in them.

\* GetByID and the check of is_active read the row.
TokenRead(t) ==
    /\ IF view[t].at = "getByID" /\ Sess!Active(view[t].user)
       THEN ReadOwner(t) /\ handler'[t].user = view[t].user
       ELSE UNCHANGED vars
    /\ Sess!GetByID(t)

\* The JWT is signed and arrives.
TokenMint(t) == Mint(t) /\ Sess!Mint(t)

\* The login has ended well: the callback opens a session instead of signing a JWT.
Callback(t) ==
    /\ At(t, "mint")
    /\ Fail(t)
    /\ Sess!Authenticate(t, handler[t].user)

\* The login has ended badly, or has not begun.
CallbackRefused(t) ==
    /\ handler[t] = None
    /\ UNCHANGED vars
    /\ Sess!Reject(t)

\* The answer with a JWT is lost on its way, or was never sent.
AnswerLost(t) ==
    /\ IF view[t].at = "mint" THEN Mint(t) \/ Fail(t) ELSE UNCHANGED vars
    /\ Sess!AnswerLost(t)

\* Steps that neither change the table of users nor sign anything.
BrowserAlone ==
    /\ UNCHANGED vars
    /\ \/ \E t \in Tabs :
            \/ Sess!AskToken(t) \/ Sess!GetValid(t)
            \/ Sess!AskLogin(t) \/ Sess!HandleLogin(t) \/ Sess!HandleOAuthStart(t)
            \/ Sess!CreateSession(t) \/ Sess!SetCookie(t)
            \/ Sess!LogoutStep(t) \/ Sess!StatementFails(t) \/ Sess!Reload(t)
       \/ \E b \in Browsers : Sess!DropCookie(b)

BrowserStep ==
    /\ \/ \E t \in Tabs : \/ TokenRead(t) \/ TokenMint(t) \/ AnswerLost(t)
                          \/ Callback(t) \/ CallbackRefused(t)
       \/ BrowserAlone
    /\ UNCHANGED patVars

-----------------------------------------------------------------------------
\* Requests about personal access tokens, and time.

PatStep ==
    /\ UNCHANGED <<vars, sessionVars, lost>>
    /\ \/ \E h \in Calls : Pat!CallStep(h)
       \/ \E g \in touching : Pat!TouchLastUsed(g) \/ Pat!TouchFails(g)

Tick ==
    /\ UNCHANGED vars
    /\ Sess!Tick
    /\ Pat!Tick

ServiceNext == DirectoryStep \/ BrowserStep \/ PatStep \/ Tick

ServiceSpec == ServiceInit /\ [][ServiceNext]_serviceVars

-----------------------------------------------------------------------------
\* No session outlives the row of its user, or is opened for one that is gone: a
\* login that was admitted before a delete may come to its INSERT after it.
SessionsOwned == \A s \in Tokens : Sess!IsRow(s) => Exists(sessions[s].user)

\* The same for personal access tokens, whose creation looks for the row first.
TokensOwned == \A p \in Pats : Pat!IsRow(p) => Exists(pats[p].user)

\* What BrowserSessions assumes of accounts is what the directory's statements do to
\* them, with the power the browsers' own JWTs give and the cascade they set off.
ImplementsSessions == Sess!Spec

\* The same for PersonalAccessTokens.
ImplementsTokens == Pat!Spec

=============================================================================
