----------------------------- MODULE RpcGateway -----------------------------
(***************************************************************************)
(* The RPCs of UserService, and those of AuthService that look a caller    *)
(* up, as one client sees them: the dispatch by path, the interceptor that *)
(* checks the JWT, the guards of each procedure, its statements one by     *)
(* one, and the code the answer carries.  The client makes one call after  *)
(* the other, or walks the pages of List.                                  *)
(*                                                                         *)
(* The accounts belong to everyone: between any two statements they change *)
(* as Accounts allows.  What this client writes must be such a change too. *)
(* A request's claims are those of an unexpired JWT, so the client holds   *)
(* administrator's claims only while somebody may act as one (power), and  *)
(* power is not lost while its call lasts.                                 *)
(*                                                                         *)
(* The three procedures for personal access tokens share the lookup that   *)
(* is modelled here; the rest of them is PersonalAccessTokens.             *)
(***************************************************************************)
EXTENDS Accounts, Integers, FiniteSets

CONSTANTS
    AlternateId,    \* the users' alternate_app_id
    Half,           \* 2^31, how far an int32 reaches
    DefaultLimit,   \* ListDefaultLimit
    Limits,         \* the limits a List may ask for
    Nobody          \* no claims, no target

\* int32(x).  The users' ids are taken to fit; those of Roots, the ids configured
\* administrators' JWTs carry, may not.
Int32(x) == ((x + Half) % (2 * Half)) - Half

ASSUME IdsFit ==
    /\ Users \subseteq Nat /\ IsFiniteSet(Users)
    /\ Half \in Nat \ {0}
    /\ AlternateId \in [Users -> 1..(Half - 1)]
    /\ \A u, v \in Users : AlternateId[u] = AlternateId[v] => u = v
    /\ Roots \subseteq Nat \ {0}
    /\ \A u \in Users : AlternateId[u] \notin Roots
    /\ DefaultLimit \in Nat \ {0} /\ Limits \subseteq Int

VARIABLES
    call,  \* the call under way, or its answer
    walk   \* the pages of List read so far, by a client that wants them all

gatewayVars == <<call, walk>>
vars == <<accountVars, gatewayVars>>

Present(u) == acct[u] \notin {NoRow, Gone}
Rows == {u \in Users : Present(u)}
WithId(i) == {u \in Rows : AlternateId[u] = i}

-----------------------------------------------------------------------------
(* Credentials and requests *)

\* What the Authorization header holds: the claims of a bearer token ParseToken
\* takes, or Unsigned: nothing, no bearer token, or one that ParseToken rejects.
Claims == [id : {AlternateId[u] : u \in Users} \cup Roots, admin : BOOLEAN]
Unsigned == [id |-> 0, admin |-> FALSE]
Header == Claims \cup {Unsigned}

\* The claims of a JWT that may still be in circulation.
Circulating(c) ==
    /\ c.admin => power
    /\ c.id \in Roots => c.admin
    /\ c.id \notin Roots => \E u \in Users : AlternateId[u] = c.id /\ acct[u] # NoRow

\* What the two generated handlers route.  StartOAuth and OAuthCallback are in
\* LoginFlow, IntrospectToken and the rest of the token procedures in
\* PersonalAccessTokens.
UserServiceProcedures == {"List", "Create", "Get", "Update", "Delete", "Count", "GetByExternalId"}
AuthServiceProcedures == {"ValidateToken", "GetCurrentUser", "PersonalAccessTokens"}
Procedures == UserServiceProcedures \cup AuthServiceProcedures

publicProcedures == {"ValidateToken"}

\* "malformed" does not parse, "invalid" fails validateUserInput.
Forms == {"good", "malformed", "invalid"}

\* seen: rows of the answer.  absent, lacked and failed: whether, since the call
\* was sent, its target was once not there, or not an administrator, and a statement
\* failed.
Blank == [step |-> "idle", proc |-> "none", header |-> Unsigned,
          target |-> Nobody, form |-> "good", admin |-> FALSE, active |-> FALSE, code |-> "none",
          seen |-> {}, absent |-> FALSE, lacked |-> FALSE, failed |-> FALSE]

Codes == {"ok", "unauthenticated", "permission_denied", "invalid_argument", "not_found",
          "already_exists", "failed_precondition", "internal", "unknown_path"}

CallerId == Int32(call.header.id)
CallerIsAdmin == call.header.admin

Init ==
    /\ AccountsInit
    /\ call = Blank
    /\ walk = Nobody

\* The call is answered with a code and the rows it shows.
Reply(code, rows) ==
    call' = [call EXCEPT !.step = "answered", !.code = code, !.seen = rows]
ReplyFailed == call' = [call EXCEPT !.step = "answered", !.code = "internal", !.failed = TRUE]

\* Mutant: a failed write reported with a code of its own.
MapErrorToConnect_NoDefault(err) ==
    CASE err = "ErrUserNotFound" -> "not_found"
      [] err = "ErrAlreadyExists" -> "already_exists"
      [] err \in {"ErrUnauthorized", "ErrAdminRequired"} -> "permission_denied"
      [] err = "ErrInvalidInput" -> "invalid_argument"
      [] OTHER -> err

\* How business errors become codes; what has no name there is internal.
MapErrorToConnect(err) ==
    CASE err = "ErrUserNotFound" -> "not_found"
      [] err = "ErrAlreadyExists" -> "already_exists"
      [] err \in {"ErrUnauthorized", "ErrAdminRequired"} -> "permission_denied"
      [] err = "ErrInvalidInput" -> "invalid_argument"
      [] OTHER -> "internal"

\* A lookup that finds no row: the service compares the driver's error with ==,
\* which fails if the scanning library wraps it.
NoRows == {MapErrorToConnect("ErrUserNotFound"), MapErrorToConnect("other")}

-----------------------------------------------------------------------------
(* Sending, dispatch, interceptor *)

Targets(proc) ==
    CASE proc \in {"Get", "Update", "Delete", "Create"} -> Users
      [] proc = "GetByExternalId" -> {AlternateId[u] : u \in Users} \cup Roots
      [] OTHER -> {Nobody}

\* Update alone carries the new roles and the disabled flag.
Contents(proc) == IF proc = "Update" THEN Account ELSE {[active |-> TRUE, admin |-> FALSE]}
FormsOf(proc) ==
    CASE proc \in {"Create", "Update"} -> Forms
      [] proc \in {"Get", "Delete"} -> {"good", "malformed"}
      [] OTHER -> {"good"}

\* Whom the call is about is not there: its target, or the caller itself.
Missing(c) ==
    CASE c.proc \in {"Get", "Update", "Delete"} -> ~Present(c.target)
      [] c.proc = "GetByExternalId" -> WithId(c.target) = {}
      [] OTHER -> c.header \in Claims /\ WithId(c.header.id) = {}

\* An update's target is no administrator.
Lacking(c) == c.proc = "Update" /\ ~(Present(c.target) /\ acct[c.target].admin)

Submit(c) == call' = [c EXCEPT !.step = "sent", !.absent = Missing(c), !.lacked = Lacking(c)]

Send(proc, h, x, f, a) ==
    /\ call.step = "idle" /\ walk = Nobody
    /\ proc # "List"
    /\ h \in Claims => Circulating(h)
    /\ Submit([Blank EXCEPT !.proc = proc, !.header = h, !.target = x, !.form = f,
                            !.admin = a.admin, !.active = a.active])
    /\ UNCHANGED <<accountVars, walk>>

\* The handlers switch on the path, before any interceptor runs.
Dispatch ==
    /\ call.step = "sent"
    /\ call' = IF call.proc \in Procedures THEN [call EXCEPT !.step = "routed"]
               ELSE [call EXCEPT !.step = "answered", !.code = "unknown_path"]
    /\ UNCHANGED <<accountVars, walk>>

\* Public procedures pass, the others need a token that ParseToken takes.
Intercept ==
    /\ call.step = "routed"
    /\ IF call.proc \in publicProcedures \/ call.header \in Claims
         THEN call' = [call EXCEPT !.step = "handler"]
         ELSE Reply("unauthenticated", {})
    /\ UNCHANGED <<accountVars, walk>>

In(proc) == call.step = "handler" /\ call.proc = proc

\* Mutant: any user will do.
RequireAdmin_SignedIn == CallerId > 0

RequireAdmin == CallerIsAdmin

\* Mutant: the comparison is forgotten.
RequireSelfOrAdmin_AnyUser(i) == CallerIsAdmin \/ CallerId > 0

RequireSelfOrAdmin(i) == CallerIsAdmin \/ (CallerId > 0 /\ CallerId = i)

-----------------------------------------------------------------------------
(* Handlers that read: one statement each *)

\* Looks up first, authorizes on what it found.
Get ==
    /\ In("Get")
    /\ \/ call.form = "malformed" /\ Reply("invalid_argument", {})
       \/ call.form = "good" /\ ReplyFailed
       \/ /\ call.form = "good" /\ ~Present(call.target)
          /\ \E code \in NoRows : Reply(code, {})
       \/ /\ call.form = "good" /\ Present(call.target)
          /\ IF RequireSelfOrAdmin(AlternateId[call.target])
               THEN Reply("ok", {call.target})
               ELSE Reply("permission_denied", {})
    /\ UNCHANGED <<accountVars, walk>>

\* Authorizes first.
GetByExternalId ==
    /\ In("GetByExternalId")
    /\ \/ ~RequireSelfOrAdmin(Int32(call.target)) /\ Reply("permission_denied", {})
       \/ RequireSelfOrAdmin(Int32(call.target)) /\ ReplyFailed
       \/ /\ RequireSelfOrAdmin(Int32(call.target))
          /\ IF WithId(Int32(call.target)) = {}
               THEN \E code \in NoRows : Reply(code, {})
               ELSE Reply("ok", WithId(Int32(call.target)))
    /\ UNCHANGED <<accountVars, walk>>

\* The count leaves no row in the answer.
Count ==
    /\ In("Count")
    /\ \/ ~RequireAdmin /\ Reply("permission_denied", {})
       \/ RequireAdmin /\ (ReplyFailed \/ Reply("ok", {}))
    /\ UNCHANGED <<accountVars, walk>>

\* The rows the filter keeps, and how many of them come before u in the order of
\* created_at, which need not be the order the accounts were opened in.
Kept(disabled) == {u \in Rows : disabled => ~acct[u].active}
Rank(u, kept) == Cardinality({v \in kept : v > u})
Size(limit) == IF limit > 0 THEN limit ELSE DefaultLimit
Start(offset) == IF offset > 0 THEN offset ELSE 0

\* Mutant: an offset that counts from one.
Page_FromOne(limit, offset, disabled) ==
    {u \in Kept(disabled) :
        /\ Start(offset) <= Rank(u, Kept(disabled)) + 1
        /\ Rank(u, Kept(disabled)) + 1 < Start(offset) + Size(limit)}

\* LIMIT and OFFSET.
Page(limit, offset, disabled) ==
    {u \in Kept(disabled) :
        /\ Start(offset) <= Rank(u, Kept(disabled))
        /\ Rank(u, Kept(disabled)) < Start(offset) + Size(limit)}

List ==
    /\ In("List")
    /\ \/ ~RequireAdmin /\ Reply("permission_denied", {})
       \/ RequireAdmin /\ ReplyFailed
       \/ RequireAdmin /\ Reply("ok", Page(walk.limit, walk.offset, walk.disabled))
    /\ UNCHANGED <<accountVars, walk>>

\* The token is in the request's body.  A deleted user is an internal error, an
\* inactive one an invalid token.
ValidateToken ==
    LET found == WithId(call.header.id)
    IN  /\ In("ValidateToken")
        /\ IF call.header \notin Claims THEN Reply("ok", {})
           ELSE \/ ReplyFailed
                \/ found = {} /\ Reply("internal", {})
                \/ found # {} /\ Reply("ok", {u \in found : acct[u].active})
        /\ UNCHANGED <<accountVars, walk>>

\* Every failed lookup, of whatever kind, is "not found".
GetCurrentUser ==
    /\ In("GetCurrentUser")
    /\ \/ CallerId = 0 /\ Reply("unauthenticated", {})
       \/ /\ CallerId # 0
          /\ call' = [call EXCEPT !.step = "answered", !.code = "not_found", !.failed = TRUE]
       \/ /\ CallerId # 0
          /\ IF WithId(CallerId) = {} THEN Reply("not_found", {}) ELSE Reply("ok", WithId(CallerId))
    /\ UNCHANGED <<accountVars, walk>>

\* currentUserUUID: the caller's row, active or not; then PersonalAccessTokens.
ManageTokens ==
    /\ call.step = "handler" /\ call.proc = "PersonalAccessTokens"
    /\ \/ CallerId = 0 /\ Reply("unauthenticated", {})
       \/ /\ CallerId # 0
          /\ call' = [call EXCEPT !.step = "answered", !.code = "unauthenticated", !.failed = TRUE]
       \/ /\ CallerId # 0
          /\ IF WithId(CallerId) = {} THEN Reply("unauthenticated", {})
                                     ELSE Reply("ok", WithId(CallerId))
    /\ UNCHANGED <<accountVars, walk>>

-----------------------------------------------------------------------------
(* Handlers that write *)

Goto(step) == call' = [call EXCEPT !.step = step]

\* The unique keys decide whether the row goes in; a clash has no name either.
Create ==
    /\ In("Create")
    /\ \/ ~RequireAdmin /\ Reply("permission_denied", {}) /\ UNCHANGED accountVars
       \/ /\ RequireAdmin /\ call.form # "good"
          /\ Reply("invalid_argument", {}) /\ UNCHANGED accountVars
       \/ RequireAdmin /\ call.form = "good" /\ ReplyFailed /\ UNCHANGED accountVars
       \/ /\ RequireAdmin /\ call.form = "good"
          /\ acct[call.target] = NoRow
          /\ \E b \in BOOLEAN :
                acct' = [acct EXCEPT ![call.target] = [active |-> TRUE, admin |-> b]]
          /\ Reply("ok", {call.target})
          /\ UNCHANGED power
    /\ UNCHANGED walk

Update ==
    /\ In("Update")
    /\ \/ ~RequireAdmin /\ Reply("permission_denied", {})
       \/ RequireAdmin /\ call.form = "malformed" /\ Reply("invalid_argument", {})
       \/ RequireAdmin /\ call.form # "malformed" /\ Goto("checkSelf")
    /\ UNCHANGED <<accountVars, walk>>

\* No lookup if the new roles keep the administrator's.
EnsureNotSelfDemotion ==
    /\ call.step = "checkSelf"
    /\ \/ call.admin /\ Goto("validate")
       \/ ~call.admin /\ ReplyFailed
       \/ ~call.admin /\ ~Present(call.target) /\ \E code \in NoRows : Reply(code, {})
       \/ /\ ~call.admin /\ Present(call.target)
          /\ IF AlternateId[call.target] = CallerId /\ acct[call.target].admin
               THEN Reply("failed_precondition", {})
               ELSE Goto("validate")
    /\ UNCHANGED <<accountVars, walk>>

Delete ==
    /\ In("Delete")
    /\ \/ ~RequireAdmin /\ Reply("permission_denied", {})
       \/ RequireAdmin /\ call.form = "malformed" /\ Reply("invalid_argument", {})
       \/ RequireAdmin /\ call.form = "good" /\ Goto("validate")
    /\ UNCHANGED <<accountVars, walk>>

\* Mutant: only the active ones.
ExistUser_Active(u) == Present(u) /\ acct[u].active

ExistUser(u) == Present(u)

\* validateUserInput, then Exist, which answers no when its statement fails.
Exist ==
    /\ call.step = "validate"
    /\ \/ call.form = "invalid" /\ Reply(MapErrorToConnect("ErrInvalidInput"), {})
       \/ /\ call.form = "good"
          /\ call' = [call EXCEPT !.step = "answered", !.code = "not_found", !.failed = TRUE]
       \/ /\ call.form = "good"
          /\ IF ExistUser(call.target) THEN Goto("write")
                                       ELSE Reply(MapErrorToConnect("ErrUserNotFound"), {})
    /\ UNCHANGED <<accountVars, walk>>

\* The row may have gone since.  A clash of keys is one of the failures.
Write ==
    /\ call.step = "write"
    /\ \/ ReplyFailed /\ UNCHANGED accountVars
       \/ /\ ~Present(call.target)
          /\ Reply(MapErrorToConnect("other"), {})
          /\ UNCHANGED accountVars
       \/ /\ Present(call.target)
          /\ acct' = [acct EXCEPT ![call.target] =
                        IF call.proc = "Delete" THEN Gone
                        ELSE [active |-> call.active, admin |-> call.admin]]
          /\ Reply("ok", IF call.proc = "Delete" THEN {} ELSE {call.target})
          /\ UNCHANGED power
    /\ UNCHANGED walk

-----------------------------------------------------------------------------
(* The client between two calls *)

Forget ==
    /\ call.step = "answered" /\ walk = Nobody
    /\ call' = Blank
    /\ UNCHANGED <<accountVars, walk>>

\* A walk through the pages: the rows read so far, and those there were when it
\* began; shrunk says whether an account has been deleted since.
Walk == [header : Claims, limit : Limits, disabled : BOOLEAN, offset : 0..Cardinality(Users),
         read : SUBSET Users, owed : SUBSET Users, shrunk : BOOLEAN, done : BOOLEAN]

ASSUME ValuesDiffer == Nobody \notin Walk /\ NoRow \notin Account /\ Gone \notin Account /\ NoRow # Gone

ListCall(h) == [Blank EXCEPT !.proc = "List", !.header = h]

BeginWalk(h, limit, disabled) ==
    /\ call.step = "idle" /\ walk = Nobody
    /\ Circulating(h)
    /\ walk' = [header |-> h, limit |-> limit, disabled |-> disabled, offset |-> 0,
                read |-> {}, owed |-> Rows, shrunk |-> FALSE, done |-> FALSE]
    /\ Submit(ListCall(h))
    /\ UNCHANGED accountVars

\* The next page starts after the rows read; an empty page is the last.  A page
\* that fails ends the walk.
NextPage ==
    /\ call.step = "answered" /\ walk # Nobody /\ ~walk.done
    /\ IF call.code # "ok"
         THEN call' = Blank /\ walk' = Nobody
       ELSE IF call.seen = {} \/ walk.offset >= Cardinality(Users)
         THEN call' = Blank /\ walk' = [walk EXCEPT !.done = TRUE]
       ELSE /\ Circulating(walk.header)
            /\ walk' = [walk EXCEPT !.offset = @ + Cardinality(call.seen),
                                    !.read = @ \cup call.seen]
            /\ Submit(ListCall(walk.header))
    /\ UNCHANGED accountVars

\* The JWT has expired, or the reader has had enough.
EndWalk ==
    /\ walk # Nobody
    /\ walk.done \/ call.step = "answered"
    /\ walk' = Nobody
    /\ call' = Blank
    /\ UNCHANGED accountVars

-----------------------------------------------------------------------------
(* Everyone else *)

InFlight == call.step \notin {"idle", "answered"}

Others ==
    /\ AccountsNext
    /\ InFlight /\ call.header.admin => power'
    /\ \E c \in {call} :
          call' = [c EXCEPT !.absent = @ \/ (InFlight /\ Missing(c)'),
                            !.lacked = @ \/ (InFlight /\ Lacking(c)')]
    /\ walk' = IF walk = Nobody THEN walk
               ELSE [walk EXCEPT !.shrunk = @ \/ \E u \in Rows : ~Present(u)']

Sending ==
    \/ \E proc \in Procedures \cup {"Unknown"}, h \in Header :
          \E x \in Targets(proc), f \in FormsOf(proc), a \in Contents(proc) :
              Send(proc, h, x, f, a)
    \/ \E h \in Claims, limit \in Limits, disabled \in BOOLEAN : BeginWalk(h, limit, disabled)

Serving ==
    \/ Dispatch \/ Intercept
    \/ Get \/ GetByExternalId \/ Count \/ List \/ ValidateToken \/ GetCurrentUser \/ ManageTokens
    \/ Create \/ Update \/ EnsureNotSelfDemotion \/ Delete \/ Exist \/ Write

Next ==
    \/ Sending
    \/ Serving
    \/ Forget \/ NextPage \/ EndWalk
    \/ Others

Spec == Init /\ [][Next]_vars

-----------------------------------------------------------------------------
(* Properties *)

CallState ==
    [step : {"idle", "sent", "routed", "handler", "checkSelf", "validate", "write",
             "answered"},
     proc : Procedures \cup {"Unknown", "none"}, header : Header,
     target : Users \cup {AlternateId[u] : u \in Users} \cup Roots \cup {Nobody},
     form : Forms, admin : BOOLEAN, active : BOOLEAN, code : Codes \cup {"none"},
     seen : SUBSET Users, absent : BOOLEAN, lacked : BOOLEAN, failed : BOOLEAN]

\* Type invariant.
TypeOK ==
    /\ acct \in [Users -> Account \cup {NoRow, Gone}]
    /\ power \in BOOLEAN
    /\ call \in CallState
    /\ walk \in Walk \cup {Nobody}

Answered(proc) == call.step = "answered" /\ call.proc \in proc

\* The README's tables, "Secured (Admin)" and "Secured (self or Admin)": an
\* answer shows a user only to that user and to administrators; the procedures
\* of administrators succeed for nobody else, whatever happened to the accounts
\* while the call was served.
DataOnlyToEntitled ==
    /\ Answered(Procedures) /\ call.seen # {} =>
          /\ call.header \in Claims
          /\ call.header.admin \/ \A u \in call.seen : AlternateId[u] = call.header.id
    /\ Answered({"Create", "Update", "Delete", "List", "Count"}) /\ call.code = "ok" =>
          call.header \in Claims /\ call.header.admin

\* What an answer says of its subject is so, at some moment of the call:
\*  - a lookup by id says "not found" only of a user that is missing; of the caller
\*    itself, and before a write, where the code takes every failed statement for a
\*    missing row, it may be the statement that failed;
\*  - so may it be with "unknown user" of the token procedures, and with an error
\*    that is internal;
\*  - neither an administrator nor a user who asks for itself is denied;
\*  - a deletion that succeeded leaves nobody; an update that succeeded has taken
\*    the administrator's role from the caller's own row only if the row was once
\*    without it, the check being made two statements before.
AnswersTruthful ==
    /\ Answered({"Get", "GetByExternalId"}) /\ call.code = "not_found" => call.absent
    /\ Answered({"GetCurrentUser", "Update", "Delete"}) /\ call.code = "not_found" =>
          call.absent \/ call.failed
    /\ Answered({"PersonalAccessTokens"}) /\ call.code = "unauthenticated" /\ call.header \in Claims =>
          call.absent \/ call.failed
    /\ Answered(Procedures) /\ call.code = "internal" => call.absent \/ call.failed
    /\ Answered(Procedures) /\ call.code = "permission_denied" =>
          /\ ~call.header.admin
          /\ call.proc = "Get" => AlternateId[call.target] # call.header.id
          /\ call.proc = "GetByExternalId" => call.target # call.header.id
    /\ Answered({"Delete"}) /\ call.code = "ok" => acct[call.target] = Gone
    /\ Answered({"Update"}) /\ call.code = "ok" /\ ~call.admin
       /\ AlternateId[call.target] = CallerId => call.lacked

\* A client that reads page after page without a filter, each starting after the
\* rows it has, meets everyone who was there when it began, wherever the accounts
\* opened meanwhile come in the order.  A deletion in between shifts a row over the
\* page break, so the property says nothing then.
NobodySkipped ==
    walk # Nobody /\ walk.done /\ ~walk.disabled /\ ~walk.shrunk => walk.owed \subseteq walk.read

\* Whatever this client's calls write is a change Accounts allows: only on behalf
\* of an administrator, and a deleted account stays deleted.
StaysWithinAccounts == AccountsSpec

\* user_connect_server.go, ensureNotSelfDemotion: "so an administrator cannot
\* lock themself (and possibly everyone) out of user management".  No call of an
\* active administrator ends their own standing.
OwnAdminKept ==
    [][\A u \in Users :
          /\ call.step = "write" /\ AlternateId[u] = CallerId
          /\ acct[u] = [active |-> TRUE, admin |-> TRUE]
          /\ call'.step = "answered"
          => acct'[u] = acct[u]]_vars
=============================================================================
