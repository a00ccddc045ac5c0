------------------------- MODULE UserDirectoryProofs -------------------------
(***************************************************************************)
(* UserDirectory for every set of accounts, e-mails and identities and any *)
(* number of concurrent handlers.                                          *)
(*                                                                         *)
(* The inductive invariant adds to the types and the unique keys that a    *)
(* login that picked an existing row either owned it when its statement    *)
(* began or brings a verified e-mail.                                      *)
(***************************************************************************)
EXTENDS UserDirectory, TLAPS

PickEarned ==
    \A h \in Handlers : At(h, "upsert") /\ handler[h].user # None =>
        handler[h].verified \/ handler[h].own

IInv == TypeOK /\ KeysUnique /\ PickEarned

-----------------------------------------------------------------------------
\* The step a handler is at tells its kind.
LEMMA Kinds ==
    ASSUME NEW k \in Handler
    PROVE  /\ k.at = "upsert" <=> k \in Upserting
           /\ k.at \in {"grant", "mint"} <=> k \in Admitted
           /\ k.at = "create" <=> k \in Creating
           /\ k.at \in {"checkSelf", "checkOther", "updateExist", "update"} <=> k \in Updating
           /\ k.at \in {"deleteExist", "delete"} <=> k \in Deleting
<1>1. \A x \in Upserting : x.at = "upsert"
  BY DEF Upserting
<1>2. \A x \in Admitted : x.at \in {"grant", "mint"}
  BY DEF Admitted
<1>3. \A x \in Creating : x.at = "create"
  BY DEF Creating
<1>4. \A x \in Updating : x.at \in {"checkSelf", "checkOther", "updateExist", "update"}
  BY DEF Updating
<1>5. \A x \in Deleting : x.at \in {"deleteExist", "delete"}
  BY DEF Deleting
<1>6. \/ k \in Upserting \/ k \in Admitted \/ k \in Creating
      \/ k \in Updating \/ k \in Deleting
  BY DEF Handler
<1>. QED BY <1>1, <1>2, <1>3, <1>4, <1>5, <1>6

\* What a typed state says of a handler that is at some step.
LEMMA Located ==
    ASSUME TypeOK, NEW h \in Handlers, NEW step, At(h, step)
    PROVE  handler[h] \in Handler /\ handler[h].at = step
  BY DirectoryAssumption DEF TypeOK, At

\* The table starts empty and nobody is an administrator.
LEMMA InitIInv == Init => IInv
<1> SUFFICES ASSUME Init PROVE IInv
  OBVIOUS
<1>1. TypeOK
  BY DEF Init, TypeOK
<1>2. \A u \in Users : ~Exists(u)
  BY DEF Init, Exists
<1>3. \A h \in Handlers : handler[h] = None
  BY DEF Init
<1>. QED
  BY <1>1, <1>2, <1>3 DEF Init, IInv, KeysUnique, PickEarned, At

\* A step that leaves the table alone keeps keys unique.
LEMMA KeysFrame == ASSUME KeysUnique, UNCHANGED rows PROVE KeysUnique'
  BY DEF KeysUnique, Exists

\* One row written with keys no other row holds keeps keys unique.
LEMMA KeysWrite ==
    ASSUME TypeOK, KeysUnique, NEW u \in Users, NEW r \in Row,
           ~EmailTaken(u, r.email), ~IdentityTaken(u, r.identity),
           rows' = [rows EXCEPT ![u] = r]
    PROVE  KeysUnique'
<1>1. \A v \in Users : rows'[v] = IF v = u THEN r ELSE rows[v]
  BY DEF TypeOK
<1>2. \A v \in Users \ {u} : Exists(v)' <=> Exists(v)
  BY <1>1 DEF Exists
<1>3. \A v \in Users \ {u} : Exists(v) => rows[v].email # r.email /\ rows[v].identity # r.identity
  BY DEF EmailTaken, IdentityTaken
<1>. QED BY <1>1, <1>2, <1>3 DEF KeysUnique

\* A handler that turns into k, the others staying as they are.
LEMMA BecomeType ==
    ASSUME TypeOK, NEW h \in Handlers, NEW k \in Handler \cup {None}, Become(h, k)
    PROVE  /\ handler' \in [Handlers -> Handler \cup {None}]
           /\ handler'[h] = k
           /\ \A g \in Handlers \ {h} : handler'[g] = handler[g]
  BY DEF TypeOK, Become

\* What a handler may turn into without endangering the invariant.
Harmless(k) ==
    /\ k \in Handler \cup {None}
    /\ k \in Upserting /\ k.user # None => k.verified \/ k.own

\* Such a change of one handler keeps what the invariant says of handlers.
LEMMA HandlersFrame ==
    ASSUME IInv, NEW h \in Handlers, NEW k, Harmless(k), Become(h, k)
    PROVE  /\ handler' \in [Handlers -> Handler \cup {None}]
           /\ PickEarned'
<1>1. /\ handler' \in [Handlers -> Handler \cup {None}]
      /\ handler'[h] = k
      /\ \A g \in Handlers \ {h} : handler'[g] = handler[g]
  BY BecomeType DEF IInv, Harmless
<1>3. ASSUME NEW g \in Handlers, At(g, "upsert")', handler'[g].user # None
      PROVE  handler'[g].verified \/ handler'[g].own
  <2>1. CASE g = h
    <3>1. k # None /\ k.at = "upsert" /\ k \in Handler
      BY <1>1, <1>3, <2>1 DEF At, Harmless
    <3>. QED BY <1>1, <1>3, <2>1, <3>1, Kinds DEF Harmless
  <2>2. CASE g # h
    BY <1>1, <1>3, <2>2 DEF IInv, PickEarned, At
  <2>. QED BY <2>1, <2>2
<1>. QED BY <1>1, <1>3 DEF PickEarned

\* Steps that touch nothing but one handler.
LEMMA HandlerStep ==
    ASSUME IInv, NEW h \in Handlers, NEW k, Harmless(k), Become(h, k),
           UNCHANGED <<rows, adminTokens>>
    PROVE  IInv'
<1>1. TypeOK'
  BY HandlersFrame DEF IInv, TypeOK
<1>2. KeysUnique'
  BY KeysFrame DEF IInv
<1>. QED BY <1>1, <1>2, HandlersFrame DEF IInv

\* Steps that also write or delete one row.
LEMMA RowStep ==
    ASSUME IInv, NEW h \in Handlers, NEW k, Harmless(k), Become(h, k),
           NEW u \in Users, NEW r \in Row \cup {Gone},
           r \in Row => ~EmailTaken(u, r.email) /\ ~IdentityTaken(u, r.identity),
           rows' = [rows EXCEPT ![u] = r],
           UNCHANGED adminTokens
    PROVE  IInv'
<1>1. TypeOK'
  BY HandlersFrame DEF IInv, TypeOK
<1>2. \A v \in Users : rows'[v] = IF v = u THEN r ELSE rows[v]
  BY DEF IInv, TypeOK
<1>3. KeysUnique'
  <2>1. CASE r \in Row
    BY <2>1, KeysWrite DEF IInv
  <2>2. CASE r = Gone
    BY <1>2, <2>2 DEF IInv, KeysUnique, Exists
  <2>. QED BY <2>1, <2>2
<1>. QED BY <1>1, <1>3, HandlersFrame DEF IInv

\* Ending a handler is always harmless.
LEMMA NoneHarmless == Harmless(None)
  BY DirectoryAssumption DEF Harmless, Handler

-----------------------------------------------------------------------------
\* The picked row is one with the identity, or a verified e-mail's.
LEMMA SelectIInv == ASSUME IInv, NEW h \in Handlers, LoginSelect(h) PROVE IInv'
<1>1. PICK e \in Emails, i \in Identities \ BlankIdentities, v \in BOOLEAN :
        \E u \in IF Targets(e, i, v) = {} THEN {None} ELSE Targets(e, i, v) :
            Become(h, [at |-> "upsert", email |-> e, identity |-> i, verified |-> v,
                       user |-> u, own |-> u # None /\ rows[u].identity = i])
  BY DEF LoginSelect
<1>2. PICK u \in IF Targets(e, i, v) = {} THEN {None} ELSE Targets(e, i, v) :
            Become(h, [at |-> "upsert", email |-> e, identity |-> i, verified |-> v,
                       user |-> u, own |-> u # None /\ rows[u].identity = i])
  BY <1>1
<1> DEFINE k == [at |-> "upsert", email |-> e, identity |-> i, verified |-> v,
                 user |-> u, own |-> u # None /\ rows[u].identity = i]
<1>3. u \in Users \cup {None}
  BY <1>2 DEF Targets
<1>4. k \in Upserting
  BY <1>3 DEF Upserting
<1>5. u # None => v \/ rows[u].identity = i
  BY <1>2 DEF Targets
<1>6. Harmless(k)
  BY <1>4, <1>5 DEF Harmless, Handler
<1>. QED BY <1>2, <1>6, HandlerStep DEF LoginSelect

\* The row the upsert returns is the row it writes; its keys are free.
LEMMA WriteIInv ==
    ASSUME IInv, NEW h \in Handlers, NEW u \in Users, NEW r \in Row, Write(h, u, r),
           ~EmailTaken(u, r.email), ~IdentityTaken(u, r.identity),
           UNCHANGED adminTokens
    PROVE  IInv'
<1> DEFINE k == IF ~r.active THEN None
                ELSE [at |-> IF r.email \in BootstrapEmails THEN "grant" ELSE "mint",
                      user |-> u, admin |-> "admin" \in r.roles]
<1>1. Harmless(k)
  <2>1. CASE ~r.active
    BY <2>1, NoneHarmless
  <2>2. CASE r.active
    <3>1. k \in Admitted
      BY <2>2 DEF Admitted
    <3>2. k \in Handler /\ k \notin Upserting
      BY <2>2, <3>1 DEF Handler, Upserting
    <3>. QED BY <3>1, <3>2 DEF Harmless
  <2>. QED BY <2>1, <2>2
<1>2. Become(h, k) /\ rows' = [rows EXCEPT ![u] = r]
  BY DEF Write
<1>. QED BY <1>1, <1>2, RowStep

\* The upsert's UPDATE keeps roles and activity; its INSERT gives the role user.
LEMMA LoginWriteIInv == ASSUME IInv, NEW h \in Handlers, LoginWrite(h) PROVE IInv'
<1> DEFINE k == handler[h]
           Clash(u) == EmailTaken(u, k.email) \/ IdentityTaken(u, k.identity)
<1>1. k \in Upserting
  BY Located, Kinds DEF LoginWrite, IInv
<1>2. CASE Refuse(h)
  BY <1>2, NoneHarmless, HandlerStep DEF Refuse, LoginWrite
<1>3. CASE /\ k.user # None /\ Exists(k.user) /\ ~Clash(k.user)
           /\ Write(h, k.user, [rows[k.user] EXCEPT !.email = k.email,
                                                   !.identity = k.identity])
  <2> DEFINE r == [rows[k.user] EXCEPT !.email = k.email, !.identity = k.identity]
  <2>1. k.user \in Users /\ k.email \in Emails /\ k.identity \in Identities
    BY <1>1, <1>3 DEF Upserting
  <2>2. rows[k.user] \in Row
    BY <1>3, <2>1 DEF IInv, TypeOK, Exists
  <2>3. r \in Row /\ r.email = k.email /\ r.identity = k.identity
    BY <2>1, <2>2 DEF Row
  <2>. QED BY <1>3, <2>1, <2>3, WriteIInv DEF LoginWrite
<1>4. ASSUME NEW u \in Users, rows[u] = NoRow, ~Clash(u),
             Write(h, u, [email |-> k.email, identity |-> k.identity,
                          roles |-> {"user"}, active |-> TRUE])
      PROVE  IInv'
  <2> DEFINE r == [email |-> k.email, identity |-> k.identity,
                   roles |-> {"user"}, active |-> TRUE]
  <2>1. r \in Row
    BY <1>1 DEF Row, Upserting, Role
  <2>. QED BY <1>4, <2>1, WriteIInv DEF LoginWrite
<1>. QED BY <1>2, <1>3, <1>4 DEF LoginWrite

\* AddRole changes no key and leaves a typed row.
LEMMA LoginGrantIInv == ASSUME IInv, NEW h \in Handlers, LoginGrant(h) PROVE IInv'
<1> DEFINE u == handler[h].user
           adds == Exists(u) /\ rows[u].roles # {} /\ ~IsAdmin(u)
           k == [at |-> "mint", user |-> u, admin |-> handler[h].admin \/ adds]
<1>1. handler[h] \in Admitted /\ u \in Users
  BY Located, Kinds DEF LoginGrant, IInv, Admitted
<1>2. k \in Admitted
  BY <1>1 DEF Admitted
<1>3. Harmless(k)
  BY <1>2 DEF Harmless, Handler, Upserting
<1>4. Become(h, k) /\ UNCHANGED adminTokens
  BY DEF LoginGrant
<1>5. CASE adds
  <2> DEFINE r == [rows[u] EXCEPT !.roles = @ \cup {"admin"}]
  <2>1. rows[u] \in Row
    BY <1>1, <1>5 DEF IInv, TypeOK, Exists
  <2>2. r \in Row /\ r.email = rows[u].email /\ r.identity = rows[u].identity
    BY <2>1 DEF Row, Role
  <2>3. rows' = [rows EXCEPT ![u] = r]
    BY <1>5 DEF LoginGrant
  <2>4. ~EmailTaken(u, r.email) /\ ~IdentityTaken(u, r.identity)
    BY <1>1, <1>5, <2>2 DEF IInv, KeysUnique, EmailTaken, IdentityTaken
  <2>. QED BY <1>1, <1>3, <1>4, <2>2, <2>3, <2>4, RowStep
<1>6. CASE ~adds
  <2>1. UNCHANGED rows
    BY <1>6 DEF LoginGrant
  <2>. QED BY <1>3, <1>4, <2>1, HandlerStep
<1>. QED BY <1>5, <1>6

\* Signing a JWT changes no row.
LEMMA MintIInv == ASSUME IInv, NEW h \in Handlers, Mint(h) PROVE IInv'
<1>1. handler[h] \in Admitted
  BY Located, Kinds DEF Mint, IInv
<1>2. handler[h].user \in Users
  BY <1>1 DEF Admitted
<1>3. Become(h, None) /\ UNCHANGED rows
  BY DEF Mint
<1>4. TypeOK'
  BY <1>2, <1>3, NoneHarmless, HandlersFrame DEF Mint, IInv, TypeOK
<1>5. KeysUnique'
  BY <1>3, KeysFrame DEF IInv
<1>. QED BY <1>3, <1>4, <1>5, NoneHarmless, HandlersFrame DEF IInv

LEMMA ReadOwnerIInv == ASSUME IInv, NEW h \in Handlers, ReadOwner(h) PROVE IInv'
<1>1. PICK u \in Users : Become(h, [at |-> "mint", user |-> u, admin |-> IsAdmin(u)])
  BY DEF ReadOwner
<1> DEFINE k == [at |-> "mint", user |-> u, admin |-> IsAdmin(u)]
<1>2. IsAdmin(u) \in BOOLEAN
  BY DEF IsAdmin
<1>3. k \in Admitted
  BY <1>2, Zenon DEF Admitted
<1>4. Harmless(k)
  BY <1>3 DEF Harmless, Handler, Admitted, Upserting
<1>. QED BY <1>1, <1>4, HandlerStep DEF ReadOwner

\* Steps of tokens alone.
LEMMA TokenIInv ==
    ASSUME IInv,
           \/ \E c \in Roots : RootLogin(c)
           \/ \E c \in Users \cup Roots : JwtExpires(c)
    PROVE  IInv'
<1>1. UNCHANGED <<rows, handler>>
  BY DEF RootLogin, JwtExpires
<1>2. TypeOK'
  BY <1>1 DEF RootLogin, JwtExpires, IInv, TypeOK
<1>. QED
  BY <1>1, <1>2, KeysFrame DEF IInv, PickEarned, At

\* A request starts with well-typed arguments and picks no row.
LEMMA SubmitIInv ==
    ASSUME IInv, NEW h \in Handlers, SubmitCreate(h) \/ SubmitUpdate(h) \/ SubmitDelete(h)
    PROVE  IInv'
<1>3. ASSUME NEW k \in Creating \cup Updating \cup Deleting, Accept(h, k)
      PROVE  IInv'
  <2>1. k \in Handler /\ k \notin Upserting
    BY <1>3 DEF Handler, Upserting, Creating, Updating, Deleting
  <2>2. Harmless(k)
    BY <2>1 DEF Harmless
  <2>. QED BY <1>3, <2>2, HandlerStep DEF Accept
<1>4. CASE SubmitCreate(h)
  <2>1. PICK e \in Emails, i \in BlankIdentities, roles \in RoleLists :
          Accept(h, [at |-> "create", email |-> e, identity |-> i,
                     roles |-> IF roles = {} THEN {"user"} ELSE roles])
    BY <1>4 DEF SubmitCreate
  <2> DEFINE granted == IF roles = {} THEN {"user"} ELSE roles
  <2>2. granted \in SUBSET Role
    BY DirectoryAssumption DEF Role
  <2>3. [at |-> "create", email |-> e, identity |-> i, roles |-> granted] \in Creating
    BY <2>2 DEF Creating
  <2>. QED BY <1>3, <2>1, <2>3
<1>5. CASE SubmitUpdate(h)
  <2>1. PICK c \in adminTokens, u \in Users, e \in Emails, roles \in RoleLists, a \in BOOLEAN :
          Accept(h, [at |-> IF "admin" \in roles THEN "updateExist"
                            ELSE IF c = u THEN "checkSelf" ELSE "checkOther",
                     id |-> u, email |-> e, roles |-> roles, active |-> a])
    BY <1>5 DEF SubmitUpdate
  <2>2. [at |-> IF "admin" \in roles THEN "updateExist"
                ELSE IF c = u THEN "checkSelf" ELSE "checkOther",
         id |-> u, email |-> e, roles |-> roles, active |-> a] \in Updating
    BY DirectoryAssumption DEF Updating
  <2>. QED BY <1>3, <2>1, <2>2
<1>6. CASE SubmitDelete(h)
  <2>1. PICK u \in Users : Accept(h, [at |-> "deleteExist", id |-> u])
    BY <1>6 DEF SubmitDelete
  <2>2. [at |-> "deleteExist", id |-> u] \in Deleting
    BY DEF Deleting
  <2>. QED BY <1>3, <2>1, <2>2
<1>. QED BY <1>4, <1>5, <1>6

\* The two lookups before a write only move the request on or end it.
LEMMA CheckIInv ==
    ASSUME IInv, NEW h \in Handlers,
           \/ CheckSelf(h)
           \/ CheckExist(h, "updateExist", "update")
           \/ CheckExist(h, "deleteExist", "delete")
    PROVE  IInv'
<1>1. UNCHANGED <<rows, adminTokens>>
  BY DEF CheckSelf, CheckExist
<1>2. CASE Become(h, None)
  BY <1>1, <1>2, NoneHarmless, HandlerStep
<1>3. ASSUME NEW step, Goto(h, step),
             \/ handler[h] \in Updating /\ step \in {"updateExist", "update"}
             \/ handler[h] \in Deleting /\ step = "delete"
      PROVE  IInv'
  <2> DEFINE k == [handler[h] EXCEPT !.at = step]
  <2>1. k \in Updating \cup Deleting
    BY <1>3 DEF Updating, Deleting
  <2>2. k \in Handler /\ k \notin Upserting
    BY <2>1 DEF Handler, Upserting, Updating, Deleting
  <2>4. Harmless(k)
    BY <2>2 DEF Harmless
  <2>5. Become(h, k)
    BY <1>3 DEF Goto, Become
  <2>. QED BY <1>1, <2>4, <2>5, HandlerStep
<1>4. CASE CheckSelf(h)
  <2>1. handler[h] \in Updating
    BY <1>4, Located, Kinds DEF CheckSelf, IInv
  <2>. QED BY <1>2, <1>3, <1>4, <2>1 DEF CheckSelf
<1>5. CASE CheckExist(h, "updateExist", "update")
  <2>1. handler[h] \in Updating
    BY <1>5, Located, Kinds DEF CheckExist, IInv
  <2>. QED BY <1>2, <1>3, <1>5, <2>1 DEF CheckExist
<1>6. CASE CheckExist(h, "deleteExist", "delete")
  <2>1. handler[h] \in Deleting
    BY <1>6, Located, Kinds DEF CheckExist, IInv
  <2>. QED BY <1>2, <1>3, <1>6, <2>1 DEF CheckExist
<1>. QED BY <1>4, <1>5, <1>6

\* The administrators' writes: the keys they write are free.
LEMMA RequestWriteIInv ==
    ASSUME IInv, NEW h \in Handlers, CreateRow(h) \/ UpdateRow(h) \/ DeleteRow(h)
    PROVE  IInv'
<1>1. Become(h, None) /\ UNCHANGED adminTokens
  BY DEF CreateRow, UpdateRow, DeleteRow
<1>2. CASE UNCHANGED rows
  BY <1>1, <1>2, NoneHarmless, HandlerStep
<1>3. CASE CreateRow(h)
  <2> DEFINE k == handler[h]
             r == [email |-> k.email, identity |-> k.identity, roles |-> k.roles,
                   active |-> TRUE]
  <2>1. k \in Creating
    BY <1>3, Located, Kinds DEF CreateRow, IInv
  <2>2. r \in Row
    BY <2>1, DirectoryAssumption DEF Creating, Row
  <2>4. PICK u \in Users :
          rows' = IF EmailTaken(u, k.email) \/ IdentityTaken(u, k.identity) THEN rows
                  ELSE [rows EXCEPT ![u] = r]
    BY <1>3 DEF CreateRow
  <2>5. CASE EmailTaken(u, k.email) \/ IdentityTaken(u, k.identity)
    BY <1>2, <2>4, <2>5
  <2>6. CASE ~EmailTaken(u, k.email) /\ ~IdentityTaken(u, k.identity)
    BY <1>1, <2>2, <2>4, <2>6, NoneHarmless, RowStep
  <2>. QED BY <2>5, <2>6
<1>4. CASE UpdateRow(h)
  <2> DEFINE k == handler[h]
             r == [rows[k.id] EXCEPT !.email = k.email, !.roles = k.roles,
                                     !.active = k.active]
  <2>1. k \in Updating
    BY <1>4, Located, Kinds DEF UpdateRow, IInv
  <2>2. CASE Exists(k.id) /\ ~EmailTaken(k.id, k.email)
    <3>1. k.id \in Users /\ rows[k.id] \in Row
      BY <2>1, <2>2 DEF IInv, TypeOK, Exists, Updating
    <3>2. r \in Row /\ r.email = k.email /\ r.identity = rows[k.id].identity
      BY <2>1, <3>1 DEF Row, Updating
    <3>3. ~IdentityTaken(k.id, r.identity)
      BY <2>2, <3>1, <3>2 DEF IInv, KeysUnique, IdentityTaken
    <3>4. rows' = [rows EXCEPT ![k.id] = r]
      BY <1>4, <2>2 DEF UpdateRow
    <3>. QED BY <1>1, <2>2, <3>1, <3>2, <3>3, <3>4, NoneHarmless, RowStep
  <2>3. CASE ~(Exists(k.id) /\ ~EmailTaken(k.id, k.email))
    BY <1>2, <1>4, <2>3 DEF UpdateRow
  <2>. QED BY <2>2, <2>3
<1>5. CASE DeleteRow(h)
  <2>1. handler[h] \in Deleting
    BY <1>5, Located, Kinds DEF DeleteRow, IInv
  <2>2. handler[h].id \in Users
    BY <2>1 DEF Deleting
  <2>3. CASE Exists(handler[h].id)
    <3>1. rows' = [rows EXCEPT ![handler[h].id] = Gone]
      BY <1>5, <2>3 DEF DeleteRow
    <3>. QED BY <1>1, <2>2, <3>1, NoneHarmless, RowStep, DirectoryAssumption
  <2>4. CASE ~Exists(handler[h].id)
    <3>1. rows' = rows
      BY <1>5, <2>4 DEF DeleteRow, IInv, TypeOK
    <3>. QED BY <1>2, <3>1
  <2>. QED BY <2>3, <2>4
<1>. QED BY <1>3, <1>4, <1>5

\* A handler that fails leaves what it wrote.
LEMMA FailIInv == ASSUME IInv, NEW h \in Handlers, Fail(h) PROVE IInv'
  BY NoneHarmless, HandlerStep DEF Fail

\* A step that changes nothing.
LEMMA StutterIInv == ASSUME IInv, UNCHANGED vars PROVE IInv'
  BY DEF vars, IInv, TypeOK, KeysUnique, PickEarned, Exists, At

\* The inductive invariant is preserved by every step.
LEMMA NextIInv == ASSUME IInv, [Next]_vars PROVE IInv'
<1>1. ASSUME NEW h \in Handlers, LoginStep(h) PROVE IInv'
  BY <1>1, SelectIInv, LoginWriteIInv, LoginGrantIInv, ReadOwnerIInv, MintIInv DEF LoginStep
<1>2. ASSUME NEW h \in Handlers, RequestStep(h) PROVE IInv'
  BY <1>2, SubmitIInv, CheckIInv, RequestWriteIInv DEF RequestStep
<1>. QED BY <1>1, <1>2, FailIInv, TokenIInv, StutterIInv DEF Next

\* The inductive invariant holds in every reachable state of the directory.
THEOREM InductiveInvariant == Spec => []IInv
  BY InitIInv, NextIInv, PTL DEF Spec

-----------------------------------------------------------------------------
\* Type correctness of the directory.
THEOREM TypeCorrect == Spec => []TypeOK
<1>1. IInv => TypeOK
  BY DEF IInv
<1>. QED BY <1>1, InductiveInvariant, PTL

\* However many logins and administrators race, e-mails and identities stay unique.
THEOREM KeysCorrect == Spec => []KeysUnique
<1>1. IInv => KeysUnique
  BY DEF IInv
<1>. QED BY <1>1, InductiveInvariant, PTL

\* Only the upsert of a login changes the identity of an existing account, and only
\* that of the row it picked.
LEMMA IdentityChangers ==
    ASSUME IInv, [Next]_vars, NEW u \in Users, Exists(u), rows'[u] # Gone,
           rows'[u].identity # rows[u].identity
    PROVE  \E h \in Handlers : At(h, "upsert") /\ handler[h].user = u
<1>1. rows[u] \in Row
  BY DEF IInv, TypeOK, Exists
<1>2. rows # rows'
  OBVIOUS
<1>3. ASSUME NEW h \in Handlers, LoginWrite(h) PROVE At(h, "upsert") /\ handler[h].user = u
  <2> DEFINE k == handler[h]
  <2>1. CASE k.user # None /\ Write(h, k.user, [rows[k.user] EXCEPT !.email = k.email,
                                                           !.identity = k.identity])
    BY <1>3, <2>1 DEF LoginWrite, Write, IInv, TypeOK
  <2>2. ASSUME NEW v \in Users, rows[v] = NoRow,
               Write(h, v, [email |-> k.email, identity |-> k.identity,
                            roles |-> {"user"}, active |-> TRUE])
        PROVE  FALSE
    BY <2>2 DEF Write, IInv, TypeOK, Exists
  <2>. QED BY <1>2, <1>3, <2>1, <2>2 DEF LoginWrite, Refuse
<1>4. ASSUME NEW h \in Handlers, LoginGrant(h) PROVE FALSE
  <2>1. PICK v \in Users : rows' = [rows EXCEPT ![v].roles = @ \cup {"admin"}]
    <3>1. handler[h] \in Admitted
      BY <1>4, Located, Kinds DEF LoginGrant, IInv
    <3>. QED BY <1>2, <1>4, <3>1 DEF LoginGrant, Admitted
  <2>2. rows'[u] = rows[u] \/ rows'[u] = [rows[u] EXCEPT !.roles = @ \cup {"admin"}]
    BY <2>1 DEF IInv, TypeOK
  <2>. QED BY <1>1, <2>2 DEF Row
<1>5. ASSUME NEW h \in Handlers, CreateRow(h) PROVE FALSE
  BY <1>5 DEF CreateRow, IInv, TypeOK, Exists
<1>6. ASSUME NEW h \in Handlers, UpdateRow(h) PROVE FALSE
  <2>1. rows'[u] = rows[u]
        \/ rows'[u] = [rows[u] EXCEPT !.email = handler[h].email, !.roles = handler[h].roles,
                                      !.active = handler[h].active]
    BY <1>6 DEF UpdateRow, IInv, TypeOK
  <2>. QED BY <1>1, <2>1 DEF Row
<1>7. ASSUME NEW h \in Handlers, DeleteRow(h) PROVE FALSE
  BY <1>7 DEF DeleteRow, IInv, TypeOK
<1>. QED
  BY <1>2, <1>3, <1>4, <1>5, <1>6, <1>7
  DEF Next, vars, LoginStep, RequestStep, LoginSelect, ReadOwner, Mint, SubmitCreate, SubmitUpdate,
      SubmitDelete, Accept, CheckSelf, CheckExist, Fail, RootLogin, JwtExpires

\* An account passes to another identity only by a verified e-mail, or back to an
\* identity that owned it when the login's statement began.
THEOREM LinkCorrect == Spec => LinkIsEarned
<1> DEFINE Earned ==
      \A u \in Users : Exists(u) /\ rows'[u] # Gone /\ rows'[u].identity # rows[u].identity
        => \E h \in Handlers : /\ At(h, "upsert")
                               /\ handler[h].user = u
                               /\ handler[h].verified \/ handler[h].own
<1>1. IInv /\ [Next]_vars => [Earned]_vars
  <2> SUFFICES ASSUME IInv, [Next]_vars, NEW u \in Users, Exists(u), rows'[u] # Gone,
                      rows'[u].identity # rows[u].identity
               PROVE  \E h \in Handlers : /\ At(h, "upsert")
                                          /\ handler[h].user = u
                                          /\ handler[h].verified \/ handler[h].own
    OBVIOUS
  <2>1. PICK h \in Handlers : At(h, "upsert") /\ handler[h].user = u
    BY IdentityChangers
  <2>. QED BY <2>1, DirectoryAssumption DEF IInv, PickEarned
<1>. QED BY <1>1, InductiveInvariant, PTL DEF Spec, LinkIsEarned

\* A login is admitted with the active row its upsert has just written.
THEOREM AdmissionCorrect == Spec => AdmittedOnOwnRow
<1> DEFINE OwnRow ==
      \A h \in Handlers : At(h, "upsert") /\ handler'[h] \in Admitted
        => LET r == rows'[handler'[h].user]
           IN  r \in Row /\ r.active /\ r.email = handler[h].email
                          /\ r.identity = handler[h].identity
<1>1. IInv /\ [Next]_vars => [OwnRow]_vars
  <2> SUFFICES ASSUME IInv, [Next]_vars, NEW h \in Handlers, At(h, "upsert"),
                      handler'[h] \in Admitted
               PROVE  LET r == rows'[handler'[h].user]
                      IN  r \in Row /\ r.active /\ r.email = handler[h].email
                                     /\ r.identity = handler[h].identity
    OBVIOUS
  <2> DEFINE k == handler[h]
  <2>1. k \in Upserting /\ k # None
    BY Located, Kinds DEF IInv, At
  <2>2. handler'[h] # k
    BY <2>1 DEF Upserting, Admitted
  <2>3. ASSUME NEW g \in Handlers, NEW x, Become(g, x) PROVE g = h
    <3>1. handler' = [handler EXCEPT ![g] = x]
      BY <2>3 DEF Become
    <3>2. DOMAIN handler = Handlers
      BY DEF IInv, TypeOK
    <3>3. g # h => handler'[h] = handler[h]
      BY <3>1, <3>2
    <3>. QED BY <2>2, <3>3
  <2>4. handler'[h] # None
    BY DirectoryAssumption DEF Handler
  <2>5. LoginWrite(h)
    <3>1. ASSUME NEW g \in Handlers, Become(g, None) PROVE FALSE
      BY <2>3, <2>4, <3>1 DEF Become, IInv, TypeOK
    <3>2. ASSUME NEW g \in Handlers, NEW step, Goto(g, step) PROVE g = h
      BY <2>2, <3>2 DEF Goto, IInv, TypeOK
    <3>3. ASSUME NEW g \in Handlers, LoginStep(g) PROVE LoginWrite(h)
      <4>1. CASE LoginSelect(g)
        BY <2>1, <2>3, <4>1 DEF LoginSelect
      <4>2. CASE LoginWrite(g)
        <5>1. CASE g = h
          BY <4>2, <5>1
        <5>2. CASE g # h
          BY <2>3, <4>2, <5>2 DEF LoginWrite, Write, Refuse
        <5>. QED BY <5>1, <5>2
      <4>3. CASE LoginGrant(g)
        BY <2>3, <4>3 DEF LoginGrant, At
      <4>4. CASE Mint(g)
        BY <3>1, <4>4 DEF Mint
      <4>5. CASE ReadOwner(g)
        BY <2>1, <2>3, <4>5 DEF ReadOwner
      <4>. QED BY <3>3, <4>1, <4>2, <4>3, <4>4, <4>5 DEF LoginStep
    <3>4. ASSUME NEW g \in Handlers, RequestStep(g) PROVE FALSE
      <4>1. CASE SubmitCreate(g) \/ SubmitUpdate(g) \/ SubmitDelete(g)
        BY <2>1, <2>3, <4>1 DEF SubmitCreate, SubmitUpdate, SubmitDelete, Accept
      <4>2. CASE CheckSelf(g) \/ CheckExist(g, "updateExist", "update")
                 \/ CheckExist(g, "deleteExist", "delete")
        BY <3>1, <3>2, <4>2 DEF CheckSelf, CheckExist, At
      <4>3. CASE CreateRow(g) \/ UpdateRow(g) \/ DeleteRow(g)
        BY <3>1, <4>3 DEF CreateRow, UpdateRow, DeleteRow
      <4>. QED BY <3>4, <4>1, <4>2, <4>3 DEF RequestStep
    <3>5. handler' # handler
      BY <2>2
    <3>. QED
      BY <3>1, <3>3, <3>4, <3>5 DEF Next, vars, Fail, RootLogin, JwtExpires
  <2>6. ASSUME NEW u \in Users, NEW r \in Row, Write(h, u, r),
               r.email = k.email, r.identity = k.identity
        PROVE  LET q == rows'[handler'[h].user]
               IN  q \in Row /\ q.active /\ q.email = k.email /\ q.identity = k.identity
    <3> DEFINE admitted == [at |-> IF r.email \in BootstrapEmails THEN "grant" ELSE "mint",
                            user |-> u, admin |-> "admin" \in r.roles]
    <3>0. handler'[h] = IF ~r.active THEN None ELSE admitted
      BY <2>6 DEF Write, Become, IInv, TypeOK
    <3>1. r.active
      BY <2>4, <3>0
    <3>2. handler'[h].user = u
      BY <3>0, <3>1
    <3>3. rows'[u] = r
      BY <2>6 DEF Write, IInv, TypeOK
    <3>. QED BY <2>6, <3>1, <3>2, <3>3
  <2>7. CASE k.user # None
    <3> DEFINE r == [rows[k.user] EXCEPT !.email = k.email, !.identity = k.identity]
    <3>1. Exists(k.user) /\ Write(h, k.user, r)
      BY <2>4, <2>5, <2>7 DEF LoginWrite, Refuse, Become, IInv, TypeOK
    <3>2. k.user \in Users /\ rows[k.user] \in Row
      BY <2>1, <2>7, <3>1 DEF Upserting, Exists, IInv, TypeOK
    <3>3. r \in Row /\ r.email = k.email /\ r.identity = k.identity
      BY <2>1, <3>2 DEF Row, Upserting
    <3>. QED BY <2>6, <3>1, <3>2, <3>3
  <2>8. CASE k.user = None
    <3> DEFINE r == [email |-> k.email, identity |-> k.identity,
                     roles |-> {"user"}, active |-> TRUE]
    <3>1. PICK u \in Users : Write(h, u, r)
      BY <2>4, <2>5, <2>8 DEF LoginWrite, Refuse, Become, IInv, TypeOK
    <3>2. r \in Row /\ r.email = k.email /\ r.identity = k.identity
      BY <2>1 DEF Row, Upserting, Role
    <3>. QED BY <2>6, <3>1, <3>2
  <2>. QED BY <2>7, <2>8
<1>. QED BY <1>1, InductiveInvariant, PTL DEF Spec, AdmittedOnOwnRow

-----------------------------------------------------------------------------
\* The steps of requests that carry a role list.
RoleSteps == {"create", "checkSelf", "checkOther", "updateExist", "update"}

\* No row has NULL roles and no request in flight would store them.
RolesGiven ==
    /\ \A u \in Users : Exists(u) => rows[u].roles # {}
    /\ \A h \in Handlers :
        handler[h] # None /\ handler[h].at \in RoleSteps
            => handler[h].roles # {}

\* One handler changes, and not into a request with an empty role list.
LEMMA RolesFrame ==
    ASSUME IInv, RolesGiven, NEW h \in Handlers, NEW k, Become(h, k),
           k # None /\ k.at \in RoleSteps => k.roles # {},
           \A u \in Users : Exists(u)' => rows'[u].roles # {}
    PROVE  RolesGiven'
<1>1. handler' = [handler EXCEPT ![h] = k] /\ DOMAIN handler = Handlers
  BY DEF Become, IInv, TypeOK
<1>2. ASSUME NEW g \in Handlers, handler'[g] # None,
             handler'[g].at \in RoleSteps
      PROVE  handler'[g].roles # {}
  BY <1>1, <1>2 DEF RolesGiven
<1>. QED BY <1>2 DEF RolesGiven

\* If administrators send no empty list, no step stores NULL roles.
LEMMA RolesNext ==
    ASSUME {} \notin RoleLists, IInv, RolesGiven, [Next]_vars
    PROVE  RolesGiven'
<1> USE DEF RoleSteps
<1>1. ASSUME UNCHANGED rows PROVE \A u \in Users : Exists(u)' => rows'[u].roles # {}
  BY <1>1 DEF RolesGiven, Exists
<1>2. ASSUME NEW u \in Users, NEW r, rows' = [rows EXCEPT ![u] = r],
             r # Gone => r.roles # {}
      PROVE  \A v \in Users : Exists(v)' => rows'[v].roles # {}
  BY <1>2 DEF RolesGiven, Exists, IInv, TypeOK
<1>3. ASSUME NEW h \in Handlers, Become(h, None),
             \A u \in Users : Exists(u)' => rows'[u].roles # {}
      PROVE  RolesGiven'
  BY <1>3, RolesFrame
<1>4. ASSUME NEW h \in Handlers, LoginSelect(h) PROVE RolesGiven'
  <2>1. PICK k : Become(h, k) /\ k.at = "upsert"
    BY <1>4 DEF LoginSelect
  <2>. QED BY <1>1, <1>4, <2>1, RolesFrame DEF LoginSelect
<1>5. ASSUME NEW h \in Handlers, NEW u \in Users, NEW r, Write(h, u, r), r.roles # {}
      PROVE  RolesGiven'
  <2>1. PICK k : Become(h, k) /\ (k = None \/ k.at \in {"grant", "mint"})
    BY <1>5 DEF Write
  <2>2. \A v \in Users : Exists(v)' => rows'[v].roles # {}
    BY <1>2, <1>5 DEF Write
  <2>. QED BY <2>1, <2>2, RolesFrame
<1>6. ASSUME NEW h \in Handlers, LoginWrite(h) PROVE RolesGiven'
  <2> DEFINE k == handler[h]
  <2>1. k \in Upserting
    BY <1>6, Located, Kinds DEF LoginWrite, IInv
  <2>2. CASE Refuse(h)
    BY <1>1, <1>3, <2>2 DEF Refuse
  <2>3. CASE k.user # None /\ Exists(k.user)
             /\ Write(h, k.user, [rows[k.user] EXCEPT !.email = k.email,
                                                     !.identity = k.identity])
    <3> DEFINE r == [rows[k.user] EXCEPT !.email = k.email, !.identity = k.identity]
    <3>1. k.user \in Users /\ rows[k.user] \in Row
      BY <2>1, <2>3 DEF Upserting, Exists, IInv, TypeOK
    <3>2. r.roles = rows[k.user].roles
      BY <3>1 DEF Row
    <3>. QED BY <1>5, <2>3, <3>1, <3>2 DEF RolesGiven
  <2>4. ASSUME NEW u \in Users,
               Write(h, u, [email |-> k.email, identity |-> k.identity,
                            roles |-> {"user"}, active |-> TRUE])
        PROVE  RolesGiven'
    BY <1>5, <2>4
  <2>. QED BY <1>6, <2>2, <2>3, <2>4 DEF LoginWrite
<1>7. ASSUME NEW h \in Handlers, LoginGrant(h) PROVE RolesGiven'
  <2> DEFINE u == handler[h].user
  <2>1. PICK k : Become(h, k) /\ k.at = "mint"
    BY <1>7 DEF LoginGrant
  <2>2. u \in Users
    BY <1>7, Located, Kinds DEF LoginGrant, IInv, Admitted
  <2>3. \A v \in Users : Exists(v)' => rows'[v].roles # {}
    <3>1. CASE rows' = rows
      BY <1>1, <3>1
    <3>2. CASE Exists(u) /\ rows' = [rows EXCEPT ![u].roles = @ \cup {"admin"}]
      <4> DEFINE r == [rows[u] EXCEPT !.roles = @ \cup {"admin"}]
      <4>1. rows[u] \in Row
        BY <2>2, <3>2 DEF Exists, IInv, TypeOK
      <4>2. r.roles # {}
        BY <4>1 DEF Row
      <4>. QED BY <1>2, <2>2, <3>2, <4>2
    <3>. QED BY <1>7, <3>1, <3>2 DEF LoginGrant
  <2>. QED BY <2>1, <2>3, RolesFrame
<1>8. ASSUME NEW h \in Handlers, SubmitCreate(h) \/ SubmitUpdate(h) \/ SubmitDelete(h)
      PROVE  RolesGiven'
  <2>1. ASSUME NEW k, Accept(h, k), k.at = "deleteExist" \/ k.roles # {}
        PROVE  RolesGiven'
    BY <1>1, <2>1, RolesFrame DEF Accept
  <2>2. CASE SubmitCreate(h)
    BY <2>1, <2>2 DEF SubmitCreate
  <2>3. CASE SubmitUpdate(h)
    BY <2>1, <2>3 DEF SubmitUpdate
  <2>4. CASE SubmitDelete(h)
    BY <2>1, <2>4 DEF SubmitDelete
  <2>. QED BY <1>8, <2>2, <2>3, <2>4
<1>9. ASSUME NEW h \in Handlers,
             \/ CheckSelf(h)
             \/ CheckExist(h, "updateExist", "update")
             \/ CheckExist(h, "deleteExist", "delete")
      PROVE  RolesGiven'
  <2>1. UNCHANGED rows
    BY <1>9 DEF CheckSelf, CheckExist
  <2>2. CASE Become(h, None)
    BY <1>1, <1>3, <2>1, <2>2
  <2>3. ASSUME NEW step, Goto(h, step),
               \/ handler[h] \in Updating /\ step \in {"updateExist", "update"}
               \/ handler[h] \in Deleting /\ step = "delete"
        PROVE  RolesGiven'
    <3> DEFINE k == [handler[h] EXCEPT !.at = step]
    <3>1. Become(h, k)
      BY <2>3 DEF Goto, Become
    <3>2. CASE handler[h] \in Updating
      <4>1. handler[h] # None
            /\ handler[h].at \in RoleSteps
        BY <3>2, DirectoryAssumption DEF Updating, Handler
      <4>2. k.roles = handler[h].roles
        BY <3>2 DEF Updating
      <4>. QED BY <1>1, <2>1, <3>1, <4>1, <4>2, RolesFrame DEF RolesGiven
    <3>3. CASE handler[h] \in Deleting /\ step = "delete"
      <4>1. k.at = "delete"
        BY <3>3 DEF Deleting
      <4>. QED BY <1>1, <2>1, <3>1, <4>1, RolesFrame
    <3>. QED BY <2>3, <3>2, <3>3
  <2>4. CASE CheckSelf(h)
    <3>1. handler[h] \in Updating
      BY <2>4, Located, Kinds DEF CheckSelf, IInv
    <3>. QED BY <2>2, <2>3, <2>4, <3>1 DEF CheckSelf
  <2>5. CASE CheckExist(h, "updateExist", "update")
    <3>1. handler[h] \in Updating
      BY <2>5, Located, Kinds DEF CheckExist, IInv
    <3>. QED BY <2>2, <2>3, <2>5, <3>1 DEF CheckExist
  <2>6. CASE CheckExist(h, "deleteExist", "delete")
    <3>1. handler[h] \in Deleting
      BY <2>6, Located, Kinds DEF CheckExist, IInv
    <3>. QED BY <2>2, <2>3, <2>6, <3>1 DEF CheckExist
  <2>. QED BY <1>9, <2>4, <2>5, <2>6
<1>10. ASSUME NEW h \in Handlers, CreateRow(h) \/ UpdateRow(h) \/ DeleteRow(h)
       PROVE  RolesGiven'
  <2> DEFINE k == handler[h]
  <2>1. Become(h, None)
    BY <1>10 DEF CreateRow, UpdateRow, DeleteRow
  <2>2. CASE UNCHANGED rows
    BY <1>1, <1>3, <2>1, <2>2
  <2>3. CASE CreateRow(h)
    <3>1. k.roles # {}
      BY <2>3 DEF CreateRow, RolesGiven, At
    <3>. QED BY <1>2, <1>3, <2>1, <2>2, <2>3, <3>1 DEF CreateRow
  <2>4. CASE UpdateRow(h)
    <3>1. k.roles # {}
      BY <2>4 DEF UpdateRow, RolesGiven, At
    <3>2. CASE Exists(k.id) /\ ~EmailTaken(k.id, k.email)
      <4> DEFINE r == [rows[k.id] EXCEPT !.email = k.email, !.roles = k.roles,
                                         !.active = k.active]
      <4>1. k.id \in Users
        BY <2>4, Located, Kinds DEF UpdateRow, IInv, Updating
      <4>2. rows[k.id] \in Row
        BY <3>2, <4>1 DEF Exists, IInv, TypeOK
      <4>3. r.roles = k.roles
        BY <4>2 DEF Row
      <4>4. rows' = [rows EXCEPT ![k.id] = r]
        BY <2>4, <3>2 DEF UpdateRow
      <4>. QED BY <1>2, <1>3, <2>1, <3>1, <4>1, <4>3, <4>4
    <3>3. CASE ~(Exists(k.id) /\ ~EmailTaken(k.id, k.email))
      BY <2>2, <2>4, <3>3 DEF UpdateRow
    <3>. QED BY <3>2, <3>3
  <2>5. CASE DeleteRow(h)
    <3>1. \A v \in Users : Exists(v)' => Exists(v) /\ rows'[v] = rows[v]
      BY <2>5 DEF DeleteRow, Exists, IInv, TypeOK
    <3>. QED BY <1>3, <2>1, <3>1 DEF RolesGiven
  <2>. QED BY <1>10, <2>3, <2>4, <2>5
<1>11. ASSUME NEW h \in Handlers, ReadOwner(h) \/ Mint(h) \/ Fail(h) PROVE RolesGiven'
  <2>1. CASE ReadOwner(h)
    <3>1. PICK k : Become(h, k) /\ k.at = "mint"
      BY <2>1 DEF ReadOwner
    <3>. QED BY <1>1, <2>1, <3>1, RolesFrame DEF ReadOwner
  <2>. QED BY <1>1, <1>3, <1>11, <2>1 DEF Mint, Fail
<1>12. CASE UNCHANGED <<rows, handler>>
  BY <1>12 DEF RolesGiven, Exists
<1>. QED
  BY <1>4, <1>6, <1>7, <1>8, <1>9, <1>10, <1>11, <1>12
  DEF Next, LoginStep, RequestStep, RootLogin, JwtExpires, vars

\* As long as no administrator sends an empty role list, a listed e-mail is an
\* administrator after its login, whatever runs beside it.  The run MCNullRoles
\* shows that the assumption cannot be dropped.
THEOREM GrantCorrect ==
    ASSUME {} \notin RoleLists
    PROVE  Spec => ListedLoginGrants
<1> DEFINE Granted ==
      \A h \in Handlers : At(h, "grant") /\ At(h, "mint")' /\ Exists(handler[h].user)
        => "admin" \in rows'[handler[h].user].roles
<1>1. Init => RolesGiven
  BY DEF Init, RolesGiven, Exists
<1>2. IInv /\ RolesGiven /\ [Next]_vars => RolesGiven'
  BY RolesNext
<1>3. IInv /\ RolesGiven /\ [Next]_vars => [Granted]_vars
  <2> SUFFICES ASSUME IInv, RolesGiven, [Next]_vars, NEW h \in Handlers, At(h, "grant"),
                      At(h, "mint")', Exists(handler[h].user)
               PROVE  "admin" \in rows'[handler[h].user].roles
    OBVIOUS
  <2> DEFINE u == handler[h].user
  <2>1. handler[h] \in Admitted /\ u \in Users
    BY Located, Kinds DEF IInv, Admitted
  <2>2. rows[u] \in Row
    BY <2>1 DEF Exists, IInv, TypeOK
  <2>3. handler'[h] # handler[h] /\ handler'[h] # None /\ handler'[h].at = "mint"
    BY DEF At
  <2>4. ASSUME NEW g \in Handlers, NEW x, Become(g, x) PROVE g = h
    <3>1. handler' = [handler EXCEPT ![g] = x] /\ DOMAIN handler = Handlers
      BY <2>4 DEF Become, IInv, TypeOK
    <3>. QED BY <2>3, <3>1
  <2>5. ASSUME NEW g \in Handlers, Become(g, None) PROVE FALSE
    BY <2>3, <2>4, <2>5 DEF Become, IInv, TypeOK
  <2>6. ASSUME NEW g \in Handlers, NEW step, Goto(g, step) PROVE g = h
    <3>1. DOMAIN handler = Handlers
      BY DEF IInv, TypeOK
    <3>. QED BY <2>3, <2>6, <3>1 DEF Goto
  <2>7. LoginGrant(h)
    <3>1. ASSUME NEW g \in Handlers, LoginStep(g) PROVE LoginGrant(h)
      <4>1. CASE LoginSelect(g)
        <5>1. g = h
          BY <2>4, <4>1 DEF LoginSelect
        <5>. QED BY <4>1, <5>1 DEF LoginSelect, At
      <4>2. CASE LoginWrite(g)
        <5>1. g = h
          BY <2>4, <4>2 DEF LoginWrite, Write, Refuse
        <5>. QED BY <4>2, <5>1 DEF LoginWrite, At
      <4>3. CASE LoginGrant(g)
        <5>1. g = h
          BY <2>4, <4>3 DEF LoginGrant
        <5>. QED BY <4>3, <5>1
      <4>4. CASE Mint(g)
        BY <2>5, <4>4 DEF Mint
      <4>5. CASE ReadOwner(g)
        <5>1. g = h
          BY <2>4, <4>5 DEF ReadOwner
        <5>. QED BY <4>5, <5>1 DEF ReadOwner, At
      <4>. QED BY <3>1, <4>1, <4>2, <4>3, <4>4, <4>5 DEF LoginStep
    <3>2. ASSUME NEW g \in Handlers, RequestStep(g) PROVE FALSE
      <4>1. CASE SubmitCreate(g) \/ SubmitUpdate(g) \/ SubmitDelete(g)
        <5>1. g = h
          BY <2>4, <4>1 DEF SubmitCreate, SubmitUpdate, SubmitDelete, Accept
        <5>. QED
          BY <4>1, <5>1 DEF SubmitCreate, SubmitUpdate, SubmitDelete, Accept, At
      <4>2. CASE CheckSelf(g) \/ CheckExist(g, "updateExist", "update")
                 \/ CheckExist(g, "deleteExist", "delete")
        <5>1. g = h
          BY <2>5, <2>6, <4>2 DEF CheckSelf, CheckExist
        <5>. QED BY <4>2, <5>1 DEF CheckSelf, CheckExist, At
      <4>3. CASE CreateRow(g) \/ UpdateRow(g) \/ DeleteRow(g)
        BY <2>5, <4>3 DEF CreateRow, UpdateRow, DeleteRow
      <4>. QED BY <3>2, <4>1, <4>2, <4>3 DEF RequestStep
    <3>. QED BY <2>3, <2>5, <3>1, <3>2 DEF Next, vars, Fail, RootLogin, JwtExpires
  <2>8. CASE IsAdmin(u)
    BY <2>7, <2>8 DEF LoginGrant, IsAdmin
  <2>9. CASE ~IsAdmin(u)
    <3>1. rows' = [rows EXCEPT ![u].roles = @ \cup {"admin"}]
      BY <2>1, <2>7, <2>9 DEF LoginGrant, RolesGiven
    <3>2. rows'[u] = [rows[u] EXCEPT !.roles = @ \cup {"admin"}]
      BY <2>1, <3>1 DEF IInv, TypeOK
    <3>. QED BY <2>2, <3>2 DEF Row
  <2>. QED BY <2>8, <2>9
<1>4. Spec => []RolesGiven
  BY <1>1, <1>2, InductiveInvariant, PTL DEF Spec
<1>. QED BY <1>3, <1>4, InductiveInvariant, PTL DEF Spec, ListedLoginGrants

-----------------------------------------------------------------------------
(* UserDirectory implements Accounts: every statement of every handler is  *)
(* a step of Accounts, or changes neither what an account is to the other  *)
(* components nor whether somebody has power.                              *)
(*                                                                         *)
(* Two things move: the view of one row, and power, which a change of one  *)
(* handler can give, keep or take away.  The lemmas before the actions     *)
(* settle both once and for all.                                           *)

\* A step of Accounts, or none.
Implemented == [Abstract!AccountsNext]_(Abstract!accountVars)

\* The handler is about to do something that takes power.
Empowered(k) ==
    k # None /\ k.at # "upsert" /\ (k.at \in {"grant", "mint"} => k.admin)

\* What Accounts sees of a row.
ViewOf(r) == IF r = Gone THEN Gone
             ELSE [active |-> r.active, admin |-> "admin" \in r.roles]

-----------------------------------------------------------------------------
\* The view of the table.

\* A table that stays as it is looks as it did.
LEMMA ViewFrame == ASSUME UNCHANGED rows PROVE UNCHANGED acctView
  BY DEF acctView, Exists, IsAdmin

\* What the view shows of one id.
LEMMA ViewAt ==
    ASSUME NEW u \in Users
    PROVE  /\ Exists(u) => acctView[u] = [active |-> rows[u].active, admin |-> IsAdmin(u)]
           /\ ~Exists(u) => acctView[u] = rows[u]
  BY DEF acctView

\* An account that exists has an account's state.
LEMMA ViewExists ==
    ASSUME TypeOK, NEW u \in Users, Exists(u)
    PROVE  acctView[u] \notin {NoRow, Gone}
<1>1. rows[u] \in Row
  BY DEF TypeOK, Exists
<1>2. rows[u].active \in BOOLEAN
  BY <1>1 DEF Row
<1>3. IsAdmin(u) \in BOOLEAN
  BY DEF IsAdmin
<1>4. [active |-> rows[u].active, admin |-> IsAdmin(u)] \in Abstract!Account
  BY <1>2, <1>3, Zenon DEF Abstract!Account
<1>. QED BY <1>4, ViewAt, ViewAssumption

\* One row written or deleted.
LEMMA ViewWrite ==
    ASSUME TypeOK, NEW u \in Users, NEW r \in Row \cup {Gone},
           rows' = [rows EXCEPT ![u] = r]
    PROVE  acctView' = [acctView EXCEPT ![u] = ViewOf(r)]
<1>1. \A v \in Users : rows'[v] = IF v = u THEN r ELSE rows[v]
  BY DEF TypeOK
<1>2. ASSUME NEW v \in Users \ {u} PROVE acctView'[v] = acctView[v]
  BY <1>1, <1>2 DEF acctView, Exists, IsAdmin
<1>3. acctView'[u] = ViewOf(r)
  BY <1>1, DirectoryAssumption DEF acctView, Exists, IsAdmin, ViewOf
<1>4. acctView' = [v \in Users |-> acctView'[v]] /\ acctView = [v \in Users |-> acctView[v]]
  BY DEF acctView
<1>. QED BY <1>2, <1>3, <1>4

\* An account's state with another right.
LEMMA OtherAdmin ==
    ASSUME NEW a, NEW b, NEW c
    PROVE  [[active |-> a, admin |-> b] EXCEPT !.admin = c] = [active |-> a, admin |-> c]
  OBVIOUS

-----------------------------------------------------------------------------
\* Power.

\* powerView in terms of single handlers.
LEMMA PowerDef ==
    powerView <=> adminTokens # {} \/ \E h \in Handlers : Empowered(handler[h])
  BY DEF powerView, Empowered

\* Power is kept by a handler that remains what it was in this respect.
LEMMA PowerKept ==
    ASSUME TypeOK, NEW h \in Handlers, NEW k, Become(h, k), UNCHANGED adminTokens,
           Empowered(k) <=> Empowered(handler[h])
    PROVE  powerView' <=> powerView
<1>1. \A g \in Handlers : handler'[g] = IF g = h THEN k ELSE handler[g]
  BY DEF Become, TypeOK
<1>2. powerView' <=> adminTokens' # {} \/ \E g \in Handlers : Empowered(handler'[g])
  BY DEF powerView, Empowered
<1>. QED BY <1>1, <1>2, PowerDef

\* A handler that acquires none gives none.
LEMMA PowerFalls ==
    ASSUME TypeOK, NEW h \in Handlers, NEW k, Become(h, k), UNCHANGED adminTokens,
           ~Empowered(k)
    PROVE  powerView' => powerView
<1>1. \A g \in Handlers : handler'[g] = IF g = h THEN k ELSE handler[g]
  BY DEF Become, TypeOK
<1>2. powerView' <=> adminTokens' # {} \/ \E g \in Handlers : Empowered(handler'[g])
  BY DEF powerView, Empowered
<1>. QED BY <1>1, <1>2, PowerDef

\* A handler that acquires power gives it.
LEMMA PowerRises ==
    ASSUME TypeOK, NEW h \in Handlers, NEW k, Become(h, k), Empowered(k)
    PROVE  powerView'
<1>1. handler'[h] = k
  BY DEF Become, TypeOK
<1>2. powerView' <=> adminTokens' # {} \/ \E g \in Handlers : Empowered(handler'[g])
  BY DEF powerView, Empowered
<1>. QED BY <1>1, <1>2

\* Power is there or not.
LEMMA PowerBoolean == powerView \in BOOLEAN /\ powerView' \in BOOLEAN
  BY Zenon DEF powerView

-----------------------------------------------------------------------------
\* The kinds of steps.

\* No row changes its view and no power is acquired: nothing, or power is lost.
LEMMA QuietStep ==
    ASSUME UNCHANGED acctView, powerView' => powerView
    PROVE  Implemented
<1>1. CASE powerView' = powerView
  BY <1>1 DEF Implemented, Abstract!accountVars
<1>2. CASE powerView' # powerView
  <2>1. powerView' = FALSE
    BY <1>2, PowerBoolean, Zenon
  <2>. QED BY <2>1 DEF Implemented, Abstract!AccountsNext, Abstract!LosePower
<1>. QED BY <1>1, <1>2

\* A handler changes, no row does, and either the handler acquires no power or
\* there was power before.
LEMMA QuietHandler ==
    ASSUME IInv, NEW h \in Handlers, NEW k, Become(h, k), UNCHANGED <<rows, adminTokens>>,
           ~Empowered(k) \/ powerView
    PROVE  Implemented
<1>1. powerView' => powerView
  BY PowerFalls DEF IInv
<1>. QED BY <1>1, ViewFrame, QuietStep

\* A handler acquires power from the row of an active administrator.
LEMMA EmpowerStep ==
    ASSUME IInv, NEW h \in Handlers, NEW k, Become(h, k), Empowered(k), UNCHANGED acctView,
           NEW u \in Users, Exists(u), rows[u].active, IsAdmin(u)
    PROVE  Implemented
<1>1. rows[u] \in Row
  BY DEF IInv, TypeOK, Exists
<1>2. rows[u].active = TRUE
  BY <1>1 DEF Row
<1>3. IsAdmin(u) = TRUE
  BY DEF IsAdmin
<1>4. acctView[u] = [active |-> TRUE, admin |-> TRUE]
  BY <1>2, <1>3, ViewAt
<1>5. powerView' = TRUE
  BY PowerRises, PowerBoolean DEF IInv
<1>. QED BY <1>4, <1>5 DEF Implemented, Abstract!AccountsNext, Abstract!Empower

\* With power, one row is created, changed or deleted.
LEMMA AdministerStep ==
    ASSUME IInv, powerView, NEW u \in Users, NEW r \in Row \cup {Gone},
           rows' = [rows EXCEPT ![u] = r],
           \/ rows[u] = NoRow /\ r \in Row /\ r.active
           \/ Exists(u)
    PROVE  Implemented
<1>1. acctView' = [acctView EXCEPT ![u] = ViewOf(r)]
  BY ViewWrite DEF IInv
<1>2. CASE rows[u] = NoRow /\ r \in Row /\ r.active
  <2>1. acctView[u] = NoRow
    BY <1>2, ViewAt DEF Exists
  <2>2. ViewOf(r) = [active |-> r.active, admin |-> "admin" \in r.roles]
    BY <1>2, DirectoryAssumption DEF ViewOf
  <2>3. r.active = TRUE /\ ("admin" \in r.roles) \in BOOLEAN
    BY <1>2 DEF Row
  <2>4. \E b \in BOOLEAN : acctView' = [acctView EXCEPT ![u] = [active |-> TRUE, admin |-> b]]
    BY <1>1, <2>2, <2>3
  <2>. QED
    BY <2>1, <2>4, PowerBoolean
    DEF Implemented, Abstract!AccountsNext, Abstract!Administer
<1>3. CASE Exists(u)
  <2>1. acctView[u] \notin {NoRow, Gone}
    BY <1>3, ViewExists DEF IInv
  <2>2. ViewOf(r) \in Abstract!Account \cup {Gone}
    <3>1. CASE r = Gone
      BY <3>1 DEF ViewOf
    <3>2. CASE r # Gone
      <4>1. r.active \in BOOLEAN
        BY <3>2 DEF Row
      <4>2. ViewOf(r) = [active |-> r.active, admin |-> "admin" \in r.roles]
        BY <3>2 DEF ViewOf
      <4>3. ("admin" \in r.roles) \in BOOLEAN
        OBVIOUS
      <4>4. [active |-> r.active, admin |-> "admin" \in r.roles] \in Abstract!Account
        BY <4>1, <4>3, Zenon DEF Abstract!Account
      <4>. QED BY <4>2, <4>4
    <3>. QED BY <3>1, <3>2
  <2>. QED
    BY <1>1, <2>1, <2>2, PowerBoolean
    DEF Implemented, Abstract!AccountsNext, Abstract!Administer
<1>. QED BY <1>2, <1>3

-----------------------------------------------------------------------------
\* The actions.

\* A login that starts, or is refused, has no power.
LEMMA SelectImplements == ASSUME IInv, NEW h \in Handlers, LoginSelect(h) PROVE Implemented
<1>1. PICK k : Become(h, k) /\ k.at = "upsert"
  BY DEF LoginSelect
<1>. QED BY <1>1, QuietHandler DEF LoginSelect, Empowered

\* The upsert enrols, or finds an account whose view it does not change.
LEMMA LoginWriteImplements ==
    ASSUME IInv, NEW h \in Handlers, LoginWrite(h)
    PROVE  Implemented
<1> DEFINE k == handler[h]
<1>1. k \in Upserting /\ ~Empowered(k)
  BY Located, Kinds DEF LoginWrite, IInv, Empowered, At
<1>2. CASE Refuse(h)
  BY <1>2, QuietHandler DEF Refuse, LoginWrite, Empowered
<1>3. CASE /\ k.user # None /\ Exists(k.user)
           /\ Write(h, k.user, [rows[k.user] EXCEPT !.email = k.email,
                                                   !.identity = k.identity])
  <2> DEFINE u == k.user
             r == [rows[u] EXCEPT !.email = k.email, !.identity = k.identity]
             n == IF ~r.active THEN None
                  ELSE [at |-> IF r.email \in BootstrapEmails THEN "grant" ELSE "mint",
                        user |-> u, admin |-> "admin" \in r.roles]
  <2>1. u \in Users /\ rows[u] \in Row
    BY <1>1, <1>3 DEF Upserting, Exists, IInv, TypeOK
  <2>2. /\ r \in Row
        /\ r.active = rows[u].active
        /\ r.roles = rows[u].roles
    BY <1>1, <2>1 DEF Row, Upserting
  <2>3. Become(h, n) /\ rows' = [rows EXCEPT ![u] = r]
    BY <1>3 DEF Write
  <2>4. UNCHANGED acctView
    <3>1. acctView' = [acctView EXCEPT ![u] = ViewOf(r)]
      BY <2>1, <2>2, <2>3, ViewWrite DEF IInv
    <3>2. ViewOf(r) = [active |-> rows[u].active, admin |-> "admin" \in rows[u].roles]
      BY <2>2, DirectoryAssumption DEF ViewOf
    <3>3. acctView[u] = ViewOf(r)
      BY <1>3, <2>1, <3>2, ViewAt DEF IsAdmin
    <3>4. acctView = [v \in Users |-> acctView[v]]
      BY DEF acctView
    <3>. QED BY <3>1, <3>3, <3>4
  <2>5. CASE r.active /\ "admin" \in r.roles
    <3>1. n \in Admitted
      BY <2>1, <2>5 DEF Admitted
    <3>2. Empowered(n)
      BY <2>5, <3>1, DirectoryAssumption DEF Empowered, Handler
    <3>. QED BY <1>3, <2>1, <2>2, <2>3, <2>4, <2>5, <3>2, EmpowerStep DEF IsAdmin
  <2>6. CASE ~(r.active /\ "admin" \in r.roles)
    <3>1. ~Empowered(n)
      BY <2>6 DEF Empowered
    <3>2. powerView' => powerView
      BY <2>3, <3>1, PowerFalls DEF IInv, LoginWrite
    <3>. QED BY <2>4, <3>2, QuietStep
  <2>. QED BY <2>5, <2>6
<1>4. ASSUME NEW u \in Users, rows[u] = NoRow,
             Write(h, u, [email |-> k.email, identity |-> k.identity,
                          roles |-> {"user"}, active |-> TRUE])
      PROVE  Implemented
  <2> DEFINE r == [email |-> k.email, identity |-> k.identity,
                   roles |-> {"user"}, active |-> TRUE]
             n == [at |-> IF r.email \in BootstrapEmails THEN "grant" ELSE "mint",
                   user |-> u, admin |-> "admin" \in r.roles]
  <2>1. r \in Row
    BY <1>1 DEF Row, Upserting, Role
  <2>2. Become(h, n) /\ rows' = [rows EXCEPT ![u] = r]
    BY <1>4 DEF Write
  <2>3. ~Empowered(n)
    BY DEF Empowered
  <2>4. powerView' = powerView
    BY <1>1, <2>2, <2>3, PowerKept, PowerBoolean DEF IInv, LoginWrite
  <2>5. ViewOf(r) = [active |-> TRUE, admin |-> FALSE]
    <3>1. r # Gone
      BY <2>1, DirectoryAssumption
    <3>2. ("admin" \in r.roles) = FALSE
      OBVIOUS
    <3>. QED BY <3>1, <3>2 DEF ViewOf
  <2>6. acctView' = [acctView EXCEPT ![u] = [active |-> TRUE, admin |-> FALSE]]
    BY <2>1, <2>2, <2>5, ViewWrite DEF IInv
  <2>7. acctView[u] = NoRow
    BY <1>4, ViewAt DEF Exists
  <2>. QED BY <2>4, <2>6, <2>7 DEF Implemented, Abstract!AccountsNext, Abstract!Enroll
<1>. QED BY <1>2, <1>3, <1>4 DEF LoginWrite

\* AddRole promotes, or changes nothing and the login keeps what power it has.
LEMMA LoginGrantImplements ==
    ASSUME IInv, NEW h \in Handlers, LoginGrant(h)
    PROVE  Implemented
<1> DEFINE u == handler[h].user
           adds == Exists(u) /\ rows[u].roles # {} /\ ~IsAdmin(u)
           k == [at |-> "mint", user |-> u, admin |-> handler[h].admin \/ adds]
<1>1. handler[h] \in Admitted /\ handler[h] # None /\ handler[h].at = "grant"
  BY Located, Kinds DEF LoginGrant, IInv, At
<1>2. u \in Users /\ handler[h].admin \in BOOLEAN
  BY <1>1 DEF Admitted
<1>3. Become(h, k) /\ UNCHANGED adminTokens
  BY DEF LoginGrant
<1>4. k # None
  <2>1. k \in Admitted
    BY <1>2 DEF Admitted
  <2>. QED BY <2>1, DirectoryAssumption DEF Handler
<1>5. CASE adds
  <2> DEFINE r == [rows[u] EXCEPT !.roles = @ \cup {"admin"}]
  <2>1. rows[u] \in Row
    BY <1>2, <1>5 DEF IInv, TypeOK, Exists
  <2>2. r \in Row /\ r.active = rows[u].active /\ "admin" \in r.roles
    BY <2>1 DEF Row, Role
  <2>3. rows' = [rows EXCEPT ![u] = r]
    BY <1>5 DEF LoginGrant
  <2>4. acctView' = [acctView EXCEPT ![u] = ViewOf(r)]
    BY <1>2, <2>2, <2>3, ViewWrite DEF IInv
  <2>5. ("admin" \in r.roles) = TRUE
    BY <2>2
  <2>6. ViewOf(r) = [active |-> rows[u].active, admin |-> TRUE]
    BY <2>2, <2>5, DirectoryAssumption DEF ViewOf
  <2>7. acctView[u] = [active |-> rows[u].active, admin |-> FALSE]
    <3>1. acctView[u] = [active |-> rows[u].active, admin |-> IsAdmin(u)]
      BY <1>2, <1>5, ViewAt
    <3>2. IsAdmin(u) = FALSE
      BY <1>5 DEF IsAdmin
    <3>. QED BY <3>1, <3>2, Zenon
  <2>8. [acctView[u] EXCEPT !.admin = TRUE] = ViewOf(r)
    <3>1. [[active |-> rows[u].active, admin |-> FALSE] EXCEPT !.admin = TRUE]
          = [active |-> rows[u].active, admin |-> TRUE]
      BY OtherAdmin, Zenon
    <3>. QED BY <2>6, <2>7, <3>1, Zenon
  <2>9. acctView' = [acctView EXCEPT ![u].admin = TRUE]
    BY <2>4, <2>8
  <2>10. Empowered(k)
    BY <1>4, <1>5 DEF Empowered
  <2>11. powerView' = TRUE
    BY <1>3, <2>10, PowerRises, PowerBoolean DEF IInv
  <2>12. acctView[u] \notin {NoRow, Gone}
    BY <1>2, <1>5, ViewExists DEF IInv
  <2>. QED
    BY <1>2, <2>9, <2>11, <2>12 DEF Implemented, Abstract!AccountsNext, Abstract!Promote
<1>6. CASE ~adds
  <2>1. rows' = rows
    BY <1>6 DEF LoginGrant
  <2>2. Empowered(k) <=> Empowered(handler[h])
    BY <1>1, <1>4, <1>6 DEF Empowered
  <2>3. powerView' <=> powerView
    BY <1>3, <2>2, PowerKept DEF IInv
  <2>. QED BY <2>1, <2>3, ViewFrame, QuietStep
<1>. QED BY <1>5, <1>6

\* A JWT that says administrator keeps the power its signer had.
LEMMA MintImplements == ASSUME IInv, NEW h \in Handlers, Mint(h) PROVE Implemented
<1>1. handler[h] # None /\ handler[h].at = "mint"
  BY DEF Mint, At
<1>2. CASE handler[h].admin
  <2>1. powerView
    BY <1>1, <1>2, PowerDef DEF Empowered
  <2>. QED BY <2>1, ViewFrame, QuietStep DEF Mint
<1>3. CASE ~handler[h].admin
  <2>1. UNCHANGED adminTokens /\ Become(h, None)
    BY <1>3 DEF Mint
  <2>. QED BY <2>1, QuietHandler DEF Mint, Empowered
<1>. QED BY <1>2, <1>3

\* A request for a JWT reads the row of an active account.
LEMMA ReadOwnerImplements == ASSUME IInv, NEW h \in Handlers, ReadOwner(h) PROVE Implemented
<1>1. PICK u \in Users : /\ Exists(u) /\ rows[u].active
                         /\ Become(h, [at |-> "mint", user |-> u, admin |-> IsAdmin(u)])
  BY DEF ReadOwner
<1> DEFINE k == [at |-> "mint", user |-> u, admin |-> IsAdmin(u)]
<1>2. CASE IsAdmin(u)
  <2>1. IsAdmin(u) \in BOOLEAN
    BY DEF IsAdmin
  <2>2. k \in Admitted
    BY <2>1, Zenon DEF Admitted
  <2>3. Empowered(k)
    BY <1>2, <2>2, DirectoryAssumption DEF Empowered, Handler
  <2>. QED BY <1>1, <1>2, <2>3, ViewFrame, EmpowerStep DEF ReadOwner
<1>3. CASE ~IsAdmin(u)
  <2>1. ~Empowered(k)
    BY <1>3 DEF Empowered
  <2>. QED BY <1>1, <2>1, QuietHandler DEF ReadOwner
<1>. QED BY <1>2, <1>3

\* Administrators' requests run on power; the lookups change nothing.
LEMMA RequestImplements ==
    ASSUME IInv, NEW h \in Handlers, RequestStep(h)
    PROVE  Implemented
<1>1. CASE SubmitCreate(h) \/ SubmitUpdate(h) \/ SubmitDelete(h)
  <2>1. powerView
    BY <1>1, PowerDef DEF SubmitCreate, SubmitUpdate, SubmitDelete
  <2>2. PICK k : Accept(h, k)
    BY <1>1 DEF SubmitCreate, SubmitUpdate, SubmitDelete
  <2>. QED BY <2>1, <2>2, QuietHandler DEF Accept
<1>2. ASSUME handler[h] # None,
             handler[h].at \notin {"upsert", "grant", "mint"}
      PROVE  powerView
  BY <1>2, PowerDef DEF Empowered
<1>3. CASE \/ CheckSelf(h)
           \/ CheckExist(h, "updateExist", "update")
           \/ CheckExist(h, "deleteExist", "delete")
  <2>1. powerView
    BY <1>2, <1>3 DEF CheckSelf, CheckExist, At
  <2>2. PICK k : Become(h, k)
    BY <1>3 DEF CheckSelf, CheckExist, Goto, Become
  <2>3. UNCHANGED <<rows, adminTokens>>
    BY <1>3 DEF CheckSelf, CheckExist
  <2>. QED BY <2>1, <2>2, <2>3, QuietHandler
<1>4. CASE CreateRow(h) \/ UpdateRow(h) \/ DeleteRow(h)
  <2> DEFINE k == handler[h]
  <2>1. powerView
    BY <1>2, <1>4 DEF CreateRow, UpdateRow, DeleteRow, At
  <2>2. Become(h, None) /\ UNCHANGED adminTokens
    BY <1>4 DEF CreateRow, UpdateRow, DeleteRow
  <2>3. CASE UNCHANGED rows
    BY <2>1, <2>2, <2>3, QuietHandler
  <2>4. CASE CreateRow(h)
    <3> DEFINE r == [email |-> k.email, identity |-> k.identity, roles |-> k.roles,
                     active |-> TRUE]
    <3>1. k \in Creating
      BY <2>4, Located, Kinds DEF CreateRow, IInv
    <3>2. r \in Row
      BY <3>1, DirectoryAssumption DEF Creating, Row
    <3>3. PICK u \in Users :
            rows[u] = NoRow /\ rows' \in {rows, [rows EXCEPT ![u] = r]}
      BY <2>4 DEF CreateRow
    <3>. QED BY <2>1, <2>3, <3>2, <3>3, AdministerStep
  <2>5. CASE UpdateRow(h)
    <3> DEFINE r == [rows[k.id] EXCEPT !.email = k.email, !.roles = k.roles,
                                       !.active = k.active]
    <3>1. k \in Updating
      BY <2>5, Located, Kinds DEF UpdateRow, IInv
    <3>2. CASE rows' = rows
      BY <2>3, <3>2
    <3>3. CASE Exists(k.id) /\ rows' = [rows EXCEPT ![k.id] = r]
      <4>1. k.id \in Users /\ rows[k.id] \in Row
        BY <3>1, <3>3 DEF IInv, TypeOK, Exists, Updating
      <4>2. r \in Row
        BY <3>1, <4>1 DEF Row, Updating
      <4>. QED BY <2>1, <3>3, <4>1, <4>2, AdministerStep
    <3>. QED BY <2>5, <3>2, <3>3 DEF UpdateRow
  <2>6. CASE DeleteRow(h)
    <3>1. handler[h] \in Deleting
      BY <2>6, Located, Kinds DEF DeleteRow, IInv
    <3>2. k.id \in Users
      BY <3>1 DEF Deleting
    <3>3. CASE Exists(k.id)
      <4>1. rows' = [rows EXCEPT ![k.id] = Gone]
        BY <2>6, <3>3 DEF DeleteRow
      <4>. QED BY <2>1, <3>2, <3>3, <4>1, AdministerStep
    <3>4. CASE ~Exists(k.id)
      <4>1. rows' = rows
        BY <2>6, <3>4 DEF DeleteRow, IInv, TypeOK
      <4>. QED BY <2>3, <4>1
    <3>. QED BY <3>3, <3>4
  <2>. QED BY <1>4, <2>4, <2>5, <2>6
<1>. QED BY <1>1, <1>3, <1>4 DEF RequestStep

\* The configured administrator appears; tokens expire.
LEMMA TokenImplements ==
    ASSUME IInv,
           \/ \E c \in Roots : RootLogin(c)
           \/ \E c \in Users \cup Roots : JwtExpires(c)
    PROVE  Implemented
<1>1. UNCHANGED acctView
  BY ViewFrame DEF RootLogin, JwtExpires
<1>2. CASE \E c \in Roots : RootLogin(c)
  <2>1. adminTokens' # {}
    BY <1>2 DEF RootLogin
  <2>2. powerView' = TRUE
    BY <2>1, PowerBoolean DEF powerView
  <2>3. Roots # {}
    BY <1>2
  <2>. QED BY <1>1, <2>2, <2>3 DEF Implemented, Abstract!AccountsNext, Abstract!RootAppears
<1>3. CASE \E c \in Users \cup Roots : JwtExpires(c)
  <2>1. UNCHANGED handler /\ adminTokens # {}
    BY <1>3 DEF JwtExpires
  <2>2. powerView
    BY <2>1, PowerDef
  <2>. QED BY <1>1, <2>2, QuietStep
<1>. QED BY <1>2, <1>3

\* Every step of the directory is a step of Accounts, or none.
LEMMA NextImplements == ASSUME IInv, [Next]_vars PROVE Implemented
<1>1. ASSUME NEW h \in Handlers, LoginStep(h) PROVE Implemented
  BY <1>1, SelectImplements, LoginWriteImplements, LoginGrantImplements,
     ReadOwnerImplements, MintImplements DEF LoginStep
<1>2. ASSUME NEW h \in Handlers, Fail(h) PROVE Implemented
  BY <1>2, QuietHandler DEF Fail, Empowered
<1>3. CASE UNCHANGED vars
  <2>1. powerView' => powerView
    BY <1>3 DEF vars, powerView
  <2>. QED BY <1>3, <2>1, ViewFrame, QuietStep DEF vars
<1>. QED BY <1>1, <1>2, <1>3, RequestImplements, TokenImplements DEF Next

-----------------------------------------------------------------------------
\* For every set of accounts and any number of handlers, the directory is what the
\* other components take it to be.
THEOREM DirectoryCorrect == Spec => ImplementsAccounts
<1>1. Init => Abstract!AccountsInit
  <2> SUFFICES ASSUME Init PROVE Abstract!AccountsInit
    OBVIOUS
  <2>1. \A u \in Users : ~Exists(u) /\ rows[u] = NoRow
    <3>1. \A u \in Users : rows[u] = NoRow
      BY DEF Init
    <3>. QED BY <3>1 DEF Exists
  <2>2. acctView = [u \in Users |-> NoRow]
    BY <2>1 DEF acctView
  <2>3. ~powerView
    BY DEF Init, powerView
  <2>. QED BY <2>2, <2>3, PowerBoolean DEF Abstract!AccountsInit
<1>2. IInv /\ [Next]_vars => Implemented
  BY NextImplements
<1>. QED
  BY <1>1, <1>2, InductiveInvariant, PTL
  DEF Spec, Implemented, ImplementsAccounts, Abstract!AccountsSpec

=============================================================================
