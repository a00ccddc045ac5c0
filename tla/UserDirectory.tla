---------------------------- MODULE UserDirectory ----------------------------
(***************************************************************************)
(* The table go_auth.users and the handlers that change it, or sign JWTs   *)
(* from it: the user part of an OAuth login (AuthenticateOAuthUser and the *)
(* JWT HandleCallback signs), the JWTs handleToken mints, and the          *)
(* administrators' Create, Update and Delete.                              *)
(*                                                                         *)
(* Handlers run concurrently and hold no transaction over two statements,  *)
(* so each statement is a step of its own, and between two steps of one    *)
(* handler any step of the others may come.  The upsert is two steps even  *)
(* so: under READ COMMITTED its CTE picks the target row in the snapshot   *)
(* the statement started with, while the UPDATE or INSERT acts on, and is  *)
(* checked against, the rows committed by then.                            *)
(*                                                                         *)
(* A row keeps what the handlers decide on: e-mail, identity (provider and *)
(* provider_id), roles and is_active.  The empty role set stands for NULL: *)
(* no statement ever stores an empty array.                                *)
(***************************************************************************)
CONSTANTS
    Users,            \* ids, and alternate_app_ids, a row may get
    Emails,           \* e-mail addresses, as the providers spell them
    BootstrapEmails,  \* those whose lower-cased form BOOTSTRAP_ADMIN_EMAILS lists
    Identities,       \* (provider, provider_id) pairs
    BlankIdentities,  \* those with an empty provider_id, which Create makes
    RoleLists,        \* role lists an administrator may send; {} is the empty one
    Roots,            \* subjects of configured administrators' JWTs: not rows
    Handlers,         \* bound: the handlers that may run at the same time
    NoRow,            \* the id has not been given to a row yet
    Gone,             \* the row was deleted
    None              \* no row; no handler running

Role == {"user", "admin"}

Row == [email : Emails, identity : Identities, roles : SUBSET Role, active : BOOLEAN]

\* A login inside its upsert: user is the row the CTE picked, own that it was
\* picked for its identity (history: no statement reads it again).
Upserting == [at : {"upsert"}, email : Emails, identity : Identities,
              verified : BOOLEAN, user : Users \cup {None}, own : BOOLEAN]

\* A login whose upsert returned user, or a request for a JWT that has read user;
\* admin is what the roles said.
Admitted == [at : {"grant", "mint"}, user : Users, admin : BOOLEAN]

\* Requests of administrators; checkSelf: about the caller's own account.
Creating == [at : {"create"}, email : Emails, identity : BlankIdentities,
             roles : SUBSET Role]
Updating == [at : {"checkSelf", "checkOther", "updateExist", "update"}, id : Users,
             email : Emails, roles : SUBSET Role, active : BOOLEAN]
Deleting == [at : {"deleteExist", "delete"}, id : Users]

Handler == Upserting \cup Admitted \cup Creating \cup Updating \cup Deleting

ASSUME DirectoryAssumption ==
    /\ BootstrapEmails \subseteq Emails
    /\ BlankIdentities \subseteq Identities
    /\ RoleLists \subseteq SUBSET Role
    /\ None \notin Users
    /\ NoRow # Gone /\ NoRow \notin Row /\ Gone \notin Row
    /\ None \notin Handler

VARIABLES
    rows,         \* the table: a row for each id, or NoRow, or Gone
    handler,      \* what each handler is about to do
    adminTokens   \* who holds an unexpired JWT with is_admin

vars == <<rows, handler, adminTokens>>

TypeOK ==
    /\ rows \in [Users -> Row \cup {NoRow, Gone}]
    /\ handler \in [Handlers -> Handler \cup {None}]
    /\ adminTokens \in SUBSET (Users \cup Roots)

Init ==
    /\ rows = [u \in Users |-> NoRow]
    /\ handler = [h \in Handlers |-> None]
    /\ adminTokens = {}

\* Handler h is about to do step.
At(h, step) == handler[h] # None /\ handler[h].at = step

Become(h, k) == handler' = [handler EXCEPT ![h] = k]
Goto(h, step) == handler' = [handler EXCEPT ![h].at = step]

-----------------------------------------------------------------------------
\* The statements.

Exists(u) == rows[u] \notin {NoRow, Gone}

IsAdmin(u) == "admin" \in rows[u].roles

\* Mutated form: a schema without unique_provider.
IdentityTaken_NoConstraint(u, i) == FALSE

\* users_email_key or unique_provider refuses to give row u these keys.
EmailTaken(u, e) == \E v \in Users \ {u} : Exists(v) /\ rows[v].email = e
IdentityTaken(u, i) == \E v \in Users \ {u} : Exists(v) /\ rows[v].identity = i

\* Mutated form: a CTE that trusts every e-mail.
Targets_AnyEmail(e, i, verified) ==
    LET owner    == {u \in Users : Exists(u) /\ rows[u].identity = i}
        namesake == {u \in Users : Exists(u) /\ rows[u].email = e}
    IN  IF owner # {} THEN owner ELSE namesake

\* The rows the upsert may pick: the one with the identity, and failing that the
\* one with the e-mail, if the provider asserts it verified.
Targets(e, i, verified) ==
    LET owner    == {u \in Users : Exists(u) /\ rows[u].identity = i}
        namesake == {u \in Users : Exists(u) /\ rows[u].email = e}
    IN  IF owner # {} THEN owner ELSE IF verified THEN namesake ELSE {}

-----------------------------------------------------------------------------
\* Mutated forms of definitions below and above: slips this code could have had,
\* each caught by a property of the run on MCUserDirectory.  No specification uses
\* them.

\* Deletes take the branch of updates.
CheckExist_SwappedBranch(h, before, after) ==
    /\ At(h, before)
    /\ IF Exists(handler[h].id) THEN Goto(h, "update") ELSE Become(h, None)
    /\ UNCHANGED <<rows, adminTokens>>

\* The returned row's is_active is not looked at.
Write_NoActiveCheck(h, u, row) ==
    /\ rows' = [rows EXCEPT ![u] = row]
    /\ Become(h, [at |-> IF row.email \in BootstrapEmails THEN "grant" ELSE "mint",
                  user |-> u, admin |-> "admin" \in row.roles])

\* Whether the role is missing is decided on the user as the upsert returned it.
LoginGrant_OnStaleRead(h) ==
    /\ At(h, "grant")
    /\ LET u == handler[h].user
           adds == Exists(u) /\ rows[u].roles # {} /\ ~handler[h].admin
       IN  /\ rows' = IF adds THEN [rows EXCEPT ![u].roles = @ \cup {"admin"}] ELSE rows
           /\ Become(h, [at |-> "mint", user |-> u, admin |-> TRUE])
    /\ UNCHANGED adminTokens

-----------------------------------------------------------------------------
\* OAuth logins.

\* The provider has answered with a profile; the upsert takes its snapshot.
LoginSelect(h) ==
    /\ handler[h] = None
    /\ \E e \in Emails, i \in Identities \ BlankIdentities, v \in BOOLEAN :
        \E u \in IF Targets(e, i, v) = {} THEN {None} ELSE Targets(e, i, v) :
            Become(h, [at |-> "upsert", email |-> e, identity |-> i, verified |-> v,
                       user |-> u, own |-> u # None /\ rows[u].identity = i])
    /\ UNCHANGED <<rows, adminTokens>>

\* The upsert writes row u, and the login goes on if it returned an active user.
Write(h, u, row) ==
    /\ rows' = [rows EXCEPT ![u] = row]
    /\ Become(h, IF ~row.active THEN None
                 ELSE [at |-> IF row.email \in BootstrapEmails THEN "grant" ELSE "mint",
                       user |-> u, admin |-> "admin" \in row.roles])

Refuse(h) == Become(h, None) /\ UNCHANGED rows

\* The upsert's UPDATE or INSERT.  A picked row deleted since, or a key another
\* row holds, refuses the login.
LoginWrite(h) ==
    /\ At(h, "upsert")
    /\ LET k == handler[h]
           Clash(u) == EmailTaken(u, k.email) \/ IdentityTaken(u, k.identity)
       IN  \/ /\ k.user # None
              /\ IF Exists(k.user) /\ ~Clash(k.user)
                 THEN Write(h, k.user, [rows[k.user] EXCEPT !.email = k.email,
                                                            !.identity = k.identity])
                 ELSE Refuse(h)
           \/ /\ k.user = None
              /\ \E u \in Users :
                    /\ rows[u] = NoRow
                    /\ IF ~Clash(u)
                       THEN Write(h, u, [email |-> k.email, identity |-> k.identity,
                                         roles |-> {"user"}, active |-> TRUE])
                       ELSE Refuse(h)
    /\ UNCHANGED adminTokens

\* ensureBootstrapAdmin: AddRole touches the row only if it exists, its roles are
\* not NULL and admin is not one of them; otherwise the user stays as read.
LoginGrant(h) ==
    /\ At(h, "grant")
    /\ LET u == handler[h].user
           adds == Exists(u) /\ rows[u].roles # {} /\ ~IsAdmin(u)
       IN  /\ rows' = IF adds THEN [rows EXCEPT ![u].roles = @ \cup {"admin"}] ELSE rows
           /\ Become(h, [at |-> "mint", user |-> u, admin |-> handler[h].admin \/ adds])
    /\ UNCHANGED adminTokens

\* IssueJwtForUser signs what the login or handleToken has read, after one more query.
Mint(h) ==
    /\ At(h, "mint")
    /\ adminTokens' = adminTokens \cup (IF handler[h].admin THEN {handler[h].user} ELSE {})
    /\ Become(h, None)
    /\ UNCHANGED rows

-----------------------------------------------------------------------------
\* Tokens.

\* handleToken, for whoever has a session: GetByID and the check of is_active.
ReadOwner(h) ==
    /\ handler[h] = None
    /\ \E u \in Users : /\ Exists(u) /\ rows[u].active
                        /\ Become(h, [at |-> "mint", user |-> u, admin |-> IsAdmin(u)])
    /\ UNCHANGED <<rows, adminTokens>>

\* An administrator of the configuration logs in.
RootLogin(c) ==
    /\ adminTokens' = adminTokens \cup {c}
    /\ UNCHANGED <<rows, handler>>

JwtExpires(c) ==
    /\ c \in adminTokens
    /\ adminTokens' = adminTokens \ {c}
    /\ UNCHANGED <<rows, handler>>

-----------------------------------------------------------------------------
\* Requests of administrators.  The claims of the JWT alone say who calls: whoever
\* holds a token with is_admin may start one.

Accept(h, k) ==
    /\ handler[h] = None
    /\ Become(h, k)
    /\ UNCHANGED <<rows, adminTokens>>

\* UserBusinessService.Create gives an empty role list the role user.
SubmitCreate(h) ==
    /\ adminTokens # {}
    /\ \E e \in Emails, i \in BlankIdentities, roles \in RoleLists :
        Accept(h, [at |-> "create", email |-> e, identity |-> i,
                   roles |-> IF roles = {} THEN {"user"} ELSE roles])

\* A list with admin skips ensureNotSelfDemotion's lookup.
SubmitUpdate(h) ==
    \E c \in adminTokens, u \in Users, e \in Emails, roles \in RoleLists, a \in BOOLEAN :
        Accept(h, [at |-> IF "admin" \in roles THEN "updateExist"
                          ELSE IF c = u THEN "checkSelf" ELSE "checkOther",
                   id |-> u, email |-> e, roles |-> roles, active |-> a])

\* Mutated form of the next definition: Delete without requireAdmin.
SubmitDelete_AnyCaller(h) ==
    \E u \in Users : Accept(h, [at |-> "deleteExist", id |-> u])

SubmitDelete(h) ==
    /\ adminTokens # {}
    /\ \E u \in Users : Accept(h, [at |-> "deleteExist", id |-> u])

\* ensureNotSelfDemotion, on the row as it is now.
CheckSelf(h) ==
    /\ At(h, "checkSelf") \/ At(h, "checkOther")
    /\ LET u == handler[h].id
       IN  IF Exists(u) /\ ~(At(h, "checkSelf") /\ IsAdmin(u)) THEN Goto(h, "updateExist")
                                                               ELSE Become(h, None)
    /\ UNCHANGED <<rows, adminTokens>>

\* Store.Exist, in UserBusinessService.Update and Delete.
CheckExist(h, before, after) ==
    /\ At(h, before)
    /\ IF Exists(handler[h].id) THEN Goto(h, after) ELSE Become(h, None)
    /\ UNCHANGED <<rows, adminTokens>>

CreateRow(h) ==
    /\ At(h, "create")
    /\ LET k == handler[h]
       IN  \E u \in Users :
            /\ rows[u] = NoRow
            /\ rows' = IF EmailTaken(u, k.email) \/ IdentityTaken(u, k.identity) THEN rows
                       ELSE [rows EXCEPT ![u] = [email |-> k.email, identity |-> k.identity,
                                                 roles |-> k.roles, active |-> TRUE]]
    /\ Become(h, None)
    /\ UNCHANGED adminTokens

\* The whole row is overwritten but for its identity; an empty list stores NULL.
UpdateRow(h) ==
    /\ At(h, "update")
    /\ LET k == handler[h]
       IN  rows' = IF Exists(k.id) /\ ~EmailTaken(k.id, k.email)
                   THEN [rows EXCEPT ![k.id] = [@ EXCEPT !.email = k.email, !.roles = k.roles,
                                                         !.active = k.active]]
                   ELSE rows
    /\ Become(h, None)
    /\ UNCHANGED adminTokens

DeleteRow(h) ==
    /\ At(h, "delete")
    /\ rows' = [rows EXCEPT ![handler[h].id] = IF Exists(handler[h].id) THEN Gone ELSE @]
    /\ Become(h, None)
    /\ UNCHANGED adminTokens

\* A failed statement, a cancelled request, a crash: what was written stays.
Fail(h) ==
    /\ handler[h] # None
    /\ Become(h, None)
    /\ UNCHANGED <<rows, adminTokens>>

-----------------------------------------------------------------------------
LoginStep(h) ==
    LoginSelect(h) \/ LoginWrite(h) \/ LoginGrant(h) \/ ReadOwner(h) \/ Mint(h)

RequestStep(h) ==
    \/ SubmitCreate(h) \/ CreateRow(h)
    \/ SubmitUpdate(h) \/ CheckSelf(h) \/ CheckExist(h, "updateExist", "update")
    \/ UpdateRow(h)
    \/ SubmitDelete(h) \/ CheckExist(h, "deleteExist", "delete") \/ DeleteRow(h)

Next ==
    \/ \E h \in Handlers : LoginStep(h) \/ RequestStep(h) \/ Fail(h)
    \/ \E c \in Roots : RootLogin(c)
    \/ \E c \in Users \cup Roots : JwtExpires(c)

Spec == Init /\ [][Next]_vars

-----------------------------------------------------------------------------
\* No two accounts share an e-mail or an identity, whatever statements interleave.
KeysUnique ==
    \A u, v \in Users : u # v /\ Exists(u) /\ Exists(v) =>
        rows[u].email # rows[v].email /\ rows[u].identity # rows[v].identity

\* An account passes to another identity only through a login whose provider
\* asserts the e-mail verified, or back to an identity that owned it when the
\* login's statement began (the comment on upsertUserByProvider, README "Security").
LinkIsEarned ==
    [][\A u \in Users : Exists(u) /\ rows'[u] # Gone /\ rows'[u].identity # rows[u].identity
        => \E h \in Handlers : /\ At(h, "upsert")
                               /\ handler[h].user = u
                               /\ handler[h].verified \/ handler[h].own]_vars

\* A login goes on only with the row its own upsert has just written, and only if
\* that row is active: a snapshot gone stale never lets anyone in.
AdmittedOnOwnRow ==
    [][\A h \in Handlers : At(h, "upsert") /\ handler'[h] \in Admitted
        => LET r == rows'[handler'[h].user]
           IN  r \in Row /\ r.active /\ r.email = handler[h].email
                          /\ r.identity = handler[h].identity]_vars

\* Once the login of a listed e-mail has gone through ensureBootstrapAdmin, the
\* account, if it still exists, has the admin role: "granted the admin role at
\* their next OAuth login" (README.md:260).
ListedLoginGrants ==
    [][\A h \in Handlers : At(h, "grant") /\ At(h, "mint")' /\ Exists(handler[h].user)
        => "admin" \in rows'[handler[h].user].roles]_vars

\* The rows as the rest of the service sees them.
acctView ==
    [u \in Users |-> IF Exists(u) THEN [active |-> rows[u].active, admin |-> IsAdmin(u)]
                                  ELSE rows[u]]

\* A token says administrator, or a login is about to sign one that does, or a
\* request that such a token allowed is running.
powerView ==
    \/ adminTokens # {}
    \/ \E h \in Handlers : handler[h] # None /\ handler[h].at # "upsert"
                          /\ (handler[h].at \in {"grant", "mint"} => handler[h].admin)

Abstract == INSTANCE Accounts WITH acct <- acctView, power <- powerView

\* The states of an account are distinct.
ASSUME ViewAssumption == NoRow \notin Abstract!Account /\ Gone \notin Abstract!Account

\* The directory implements Accounts: ids are not reused, not even by an update whose
\* row went after the look; logins only enrol and promote; every other change is the
\* work of somebody with power, and no chain of tokens and requests begins but with
\* the login of an active administrator, or with a configured one where Roots has one:
\* with Roots empty the first request of an administrator needs an administrator's
\* row first.
ImplementsAccounts == Abstract!AccountsSpec

=============================================================================
