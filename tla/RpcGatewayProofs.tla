-------------------------- MODULE RpcGatewayProofs --------------------------
(***************************************************************************)
(* RpcGateway for any number of users, any width of an int32 and any page  *)
(* size: what answers show and say, what the client's writes are, and that *)
(* its walk through the pages misses nobody.                               *)
(*                                                                         *)
(* First the arithmetic: an id that fits survives the cast; ranks number   *)
(* the rows of a page.  Then the inductive invariant: what a call knows of *)
(* its caller and its subject at each step, and how far a walk has got.    *)
(***************************************************************************)
EXTENDS RpcGateway, FiniteSetTheorems, WellFoundedInduction, TLAPS

-----------------------------------------------------------------------------
(* The cast, and the ranks *)

\* An id of a users' row goes through int32 as it is.
LEMMA CastKeeps ==
    ASSUME NEW x \in 1..(Half - 1)
    PROVE  Int32(x) = x
<1>1. Half \in Nat \ {0} /\ x \in Nat /\ x < Half
  BY IdsFit
<1>2. (x + Half) % (2 * Half) = x + Half
  BY <1>1
<1> QED BY <1>1, <1>2 DEF Int32

LEMMA RankType ==
    ASSUME NEW kept \in SUBSET Users, NEW u
    PROVE  /\ Rank(u, kept) \in Nat
           /\ IsFiniteSet(kept) /\ Cardinality(kept) \in Nat
           /\ IsFiniteSet({v \in kept : v > u})
<1>1. IsFiniteSet(Users)
  BY IdsFit
<1>2. {v \in kept : v > u} \in SUBSET Users
  OBVIOUS
<1>3. IsFiniteSet(kept) /\ IsFiniteSet({v \in kept : v > u})
  BY <1>1, <1>2, FS_Subset
<1> QED BY <1>3, FS_CardinalityType DEF Rank

\* Ranks order the rows they count.
LEMMA RankOrders ==
    ASSUME NEW kept \in SUBSET Users, NEW u \in kept, NEW v \in kept, u > v
    PROVE  Rank(u, kept) < Rank(v, kept)
<1> DEFINE U == {w \in kept : w > u}
           V == {w \in kept : w > v}
<1>1. kept \subseteq Nat
  BY IdsFit
<1>2. U \in SUBSET V
  <2>1. u \in Nat /\ v \in Nat /\ \A w \in U : w \in Nat /\ w > u /\ w \in kept
    BY <1>1
  <2>2. \A w \in U : w > v
    BY <2>1
  <2> QED BY <2>1, <2>2
<1>3. U # V
  <2>1. u \in V /\ u \notin U
    BY <1>1
  <2> QED BY <2>1
<1>4. IsFiniteSet(V) /\ Cardinality(U) \in Nat /\ Cardinality(V) \in Nat
  BY RankType DEF Rank
<1>5. Cardinality(U) <= Cardinality(V) /\ Cardinality(U) # Cardinality(V)
  BY <1>2, <1>3, <1>4, FS_Subset
<1> QED BY <1>4, <1>5 DEF Rank

LEMMA RankDiffers ==
    ASSUME NEW kept \in SUBSET Users, NEW u \in kept, NEW v \in kept, u # v
    PROVE  Rank(u, kept) # Rank(v, kept)
<1>1. u \in Nat /\ v \in Nat
  BY IdsFit
<1>2. u > v \/ v > u
  BY <1>1
<1>3. Rank(u, kept) \in Nat /\ Rank(v, kept) \in Nat
  BY RankType
<1> QED BY <1>2, <1>3, RankOrders

\* Accounts opened meanwhile push a row back, never forward.
LEMMA RankGrows ==
    ASSUME NEW kept \in SUBSET Users, NEW more \in SUBSET Users, kept \subseteq more, NEW u
    PROVE  Rank(u, kept) <= Rank(u, more)
<1>1. {v \in kept : v > u} \in SUBSET {v \in more : v > u}
  OBVIOUS
<1>2. IsFiniteSet({v \in more : v > u})
  BY RankType
<1> QED BY <1>1, <1>2, FS_Subset DEF Rank

LEMMA RankBelow ==
    ASSUME NEW kept \in SUBSET Users, NEW u \in kept
    PROVE  Rank(u, kept) < Cardinality(kept)
<1> DEFINE U == {v \in kept : v > u}
<1>1. U \in SUBSET kept /\ u \notin U
  BY IdsFit
<1>2. IsFiniteSet(kept) /\ Cardinality(U) \in Nat /\ Cardinality(kept) \in Nat
  BY RankType DEF Rank
<1>3. Cardinality(U) <= Cardinality(kept) /\ Cardinality(U) # Cardinality(kept)
  BY <1>1, <1>2, FS_Subset
<1> QED BY <1>2, <1>3 DEF Rank

\* No more rows than ranks.
LEMMA RanksBound ==
    ASSUME NEW kept \in SUBSET Users, NEW S \in SUBSET kept, NEW a \in Nat, NEW b \in Nat,
           \A u \in S : a <= Rank(u, kept) /\ Rank(u, kept) < a + b
    PROVE  Cardinality(S) <= b
<1> DEFINE f == [u \in S |-> Rank(u, kept)]
           T == a..(a + b - 1)
<1>1. \A u \in S : Rank(u, kept) \in Nat
  BY RankType
<1>2. f \in [S -> T]
  BY <1>1
<1>3. \A u, v \in S : f[u] = f[v] => u = v
  BY RankDiffers
<1>4. f \in Injection(S, T)
  BY <1>2, <1>3 DEF Injection, IsInjective
<1>5. IsFiniteSet(T) /\ Cardinality(T) = b
  BY FS_Interval
<1> HIDE DEF f, T
<1> QED BY <1>4, <1>5, FS_Injection

\* A set of naturals has a least member.
LEMMA LeastMember ==
    ASSUME NEW S, S \subseteq Nat, S # {}
    PROVE  \E m \in S : \A n \in S : m <= n
<1>1. PICK m \in S : \A n \in S : ~(<<n, m>> \in OpToRel(<, Nat))
  BY WFMin, NatLessThanWellFounded
<1>2. \A n \in S : ~(n < m)
  BY <1>1 DEF OpToRel
<1> QED BY <1>2

\* If there are rows from an offset on, the first of them has it as its rank.
LEMMA RankReached ==
    ASSUME NEW kept \in SUBSET Users, NEW a \in Nat, NEW w \in kept, a <= Rank(w, kept)
    PROVE  \E u \in kept : Rank(u, kept) = a
<1> DEFINE late == {u \in kept : a <= Rank(u, kept)}
           ranks == {Rank(u, kept) : u \in late}
<1>1. ranks \subseteq Nat /\ ranks # {}
  BY RankType
<1>2. PICK m \in ranks : \A n \in ranks : m <= n
  BY <1>1, LeastMember
<1>3. PICK u \in late : Rank(u, kept) = m
  BY <1>2
<1> DEFINE U == {v \in kept : v > u}
<1>4. \A v \in U : 0 <= Rank(v, kept) /\ Rank(v, kept) < 0 + a
  <2>1. SUFFICES ASSUME NEW v \in U PROVE 0 <= Rank(v, kept) /\ Rank(v, kept) < 0 + a
    OBVIOUS
  <2>2. Rank(v, kept) < Rank(u, kept) /\ Rank(v, kept) \in Nat /\ Rank(u, kept) \in Nat
    BY RankOrders, RankType
  <2>3. Rank(v, kept) \notin ranks
    BY <1>2, <1>3, <2>2
  <2> QED BY <2>2, <2>3
<1>5. Cardinality(U) <= a
  BY <1>4, RanksBound
<1>6. Rank(u, kept) <= a /\ a <= Rank(u, kept) /\ Rank(u, kept) \in Nat
  BY <1>5, RankType DEF Rank
<1> QED BY <1>6

\* What a page holds: no more than it may, nothing only at the end, and nobody
\* beyond the last row.
LEMMA PageHolds ==
    ASSUME NEW limit \in Limits, NEW offset \in Nat, NEW disabled \in BOOLEAN,
           NEW page, page = Page(limit, offset, disabled)
    PROVE  /\ page \in SUBSET Rows
           /\ Cardinality(page) \in Nat
           /\ \A u \in Kept(disabled) :
                 offset <= Rank(u, Kept(disabled)) /\ Rank(u, Kept(disabled)) < offset + Cardinality(page)
                 => u \in page
           /\ page = {} => \A u \in Kept(disabled) : Rank(u, Kept(disabled)) < offset
           /\ page # {} => offset + Cardinality(page) <= Cardinality(Users)
<1> DEFINE kept == Kept(disabled)
           n == Size(limit)
<1>1. n \in Nat \ {0} /\ Start(offset) = offset
  BY IdsFit DEF Size, Start
<1>2. kept \in SUBSET Users /\ kept \subseteq Rows
  BY DEF Kept, Rows
<1>3. page = {u \in kept : offset <= Rank(u, kept) /\ Rank(u, kept) < offset + n}
  BY <1>1 DEF Page
<1> HIDE DEF kept, n
<1>4. page \in SUBSET kept
  BY <1>3
<1>5. \A u \in kept : Rank(u, kept) \in Nat
  BY <1>2, RankType
<1>6. Cardinality(page) \in Nat
  BY <1>2, <1>4, RankType
<1>7. Cardinality(page) <= n
  BY <1>1, <1>2, <1>3, <1>4, RanksBound
<1>8. \A u \in kept : offset <= Rank(u, kept) /\ Rank(u, kept) < offset + Cardinality(page) => u \in page
  BY <1>1, <1>3, <1>5, <1>6, <1>7
<1>9. ASSUME page = {}, NEW u \in kept PROVE Rank(u, kept) < offset
  <2>1. SUFFICES ASSUME offset <= Rank(u, kept) PROVE FALSE
    BY <1>5
  <2>2. PICK v \in kept : Rank(v, kept) = offset
    BY <1>2, <2>1, RankReached
  <2> QED BY <1>1, <1>3, <1>9, <2>2
<1>10. ASSUME page # {} PROVE offset + Cardinality(page) <= Cardinality(Users)
  <2>1. Cardinality(kept) \in Nat /\ Cardinality(Users) \in Nat /\ Cardinality(kept) <= Cardinality(Users)
    BY <1>2, IdsFit, RankType, FS_Subset, FS_CardinalityType
  <2>2. \A u \in page : offset <= Rank(u, kept) /\ Rank(u, kept) < Cardinality(kept)
    BY <1>2, <1>3, RankBelow
  <2>3. PICK u \in page : TRUE
    BY <1>10
  <2>4. offset <= Rank(u, kept) /\ Rank(u, kept) < Cardinality(kept) /\ Rank(u, kept) \in Nat
    BY <1>4, <1>5, <2>2, <2>3
  <2>5. Cardinality(kept) - offset \in Nat
    BY <2>1, <2>4
  <2>6. \A v \in page : offset <= Rank(v, kept) /\ Rank(v, kept) < offset + (Cardinality(kept) - offset)
    BY <1>5, <1>4, <2>1, <2>2
  <2>7. Cardinality(page) <= Cardinality(kept) - offset
    BY <1>2, <1>4, <2>5, <2>6, RanksBound
  <2> QED BY <1>6, <2>1, <2>7
<1> QED BY <1>2, <1>4, <1>6, <1>8, <1>9, <1>10 DEF kept

-----------------------------------------------------------------------------
(* The inductive invariant *)

AlternateIds == {AlternateId[u] : u \in Users}

\* What a call under way, or a call of the past, knows of itself.
CallSane ==
    /\ call.proc \in {"Get", "Update", "Delete", "Create"} => call.target \in Users
    /\ call.proc = "GetByExternalId" => call.target \in AlternateIds \cup Roots
    /\ call.header.id \in Roots => call.header.admin
    /\ call.step # "answered" => call.seen = {}

\* Who got past the interceptor has a JWT, who got past a handler's own check is
\* an administrator, and an administrator's call has power behind it.
CallAllowed ==
    /\ call.step \in {"handler", "checkSelf", "validate", "write"} =>
          call.proc \in publicProcedures \/ call.header \in Claims
    /\ call.step = "checkSelf" => call.proc = "Update"
    /\ call.step \in {"checkSelf", "validate", "write"} =>
          call.proc \in {"Update", "Delete"} /\ call.header.admin
    /\ InFlight /\ call.header.admin => power

\* Whether its subject was missing, or no administrator, is kept up to date.
CallRemembers ==
    InFlight => (Missing(call) => call.absent) /\ (Lacking(call) => call.lacked)

\* An update that takes the administrator's role from the caller's own row.
OwnDemotion == call.proc = "Update" /\ ~call.admin /\ AlternateId[call.target] = CallerId

\* It gets past ensureNotSelfDemotion only if the row was once without the role.
CallChecked == call.step \in {"validate", "write"} /\ OwnDemotion => call.lacked

\* A denial is right if the caller is neither an administrator nor the user it asks for.
DeniedRightly ==
    /\ ~call.header.admin
    /\ call.proc = "Get" => AlternateId[call.target] # call.header.id
    /\ call.proc = "GetByExternalId" => call.target # call.header.id

\* A walk is between two calls of List, in one, or over.
WalkPlace ==
    /\ walk # Nobody /\ ~walk.done =>
          call.proc = "List" /\ call.step \in {"sent", "routed", "handler", "answered"}
    /\ walk # Nobody /\ walk.done => call = Blank
    /\ call.proc = "List" => walk # Nobody /\ ~walk.done

PageRead == walk # Nobody /\ call.step = "answered" /\ call.code = "ok"

PageFits == PageRead => call.seen = {} \/ walk.offset + Cardinality(call.seen) <= Cardinality(Users)

\* Nobody owed is lost: who is before the offset has been read, also when the page
\* just answered is counted in.
Owing == walk # Nobody /\ ~walk.disabled /\ ~walk.shrunk

WalkCovers ==
    Owing =>
        /\ walk.owed \subseteq Rows
        /\ \A u \in walk.owed : Rank(u, Rows) < walk.offset => u \in walk.read
        /\ PageRead =>
              /\ \A u \in walk.owed :
                    Rank(u, Rows) < walk.offset + Cardinality(call.seen) =>
                        u \in walk.read \cup call.seen
              /\ call.seen = {} => walk.owed \subseteq walk.read
        /\ walk.done => walk.owed \subseteq walk.read

CallOK == CallSane /\ CallAllowed /\ CallRemembers /\ CallChecked
WalkOK == WalkPlace /\ PageFits /\ WalkCovers
AnswerOK == DataOnlyToEntitled /\ AnswersTruthful

IInv == TypeOK /\ CallOK /\ WalkOK /\ AnswerOK

-----------------------------------------------------------------------------
(* Facts about records *)

LEMMA Ids ==
    /\ AlternateIds \subseteq 1..(Half - 1)
    /\ Roots \cap AlternateIds = {}
    /\ 0 \notin AlternateIds /\ 0 \notin Roots
    /\ \A c \in Claims : c.id \in AlternateIds \cup Roots /\ c.admin \in BOOLEAN
    /\ Unsigned \notin Claims
    /\ \A u \in Users : AlternateId[u] \in AlternateIds
<1>1. AlternateIds \subseteq 1..(Half - 1) /\ \A u \in Users : AlternateId[u] \in AlternateIds
  BY IdsFit DEF AlternateIds
<1>2. Roots \cap AlternateIds = {} /\ 0 \notin Roots
  BY IdsFit DEF AlternateIds
<1>3. 0 \notin AlternateIds
  BY <1>1
<1>4. \A c \in Claims : c.id \in AlternateIds \cup Roots /\ c.admin \in BOOLEAN
  BY DEF Claims, AlternateIds
<1>5. Unsigned \notin Claims
  BY <1>2, <1>3, <1>4 DEF Unsigned
<1> QED BY <1>1, <1>2, <1>3, <1>4, <1>5

LEMMA BlankTyped ==
    /\ Blank \in CallState
    /\ Blank.step = "idle" /\ Blank.proc = "none" /\ Blank.seen = {} /\ Blank.code = "none"
    /\ Blank.header = Unsigned
BY DEF Blank, CallState, Header, Forms

\* The fields of a call that change by an answer.
AnsweredAs(code, rows, failed) ==
    call' = [call EXCEPT !.step = "answered", !.code = code, !.seen = rows, !.failed = failed]

LEMMA AnswerFields ==
    ASSUME call \in CallState, NEW code \in Codes, NEW rows \in SUBSET Users, NEW failed \in BOOLEAN,
           AnsweredAs(code, rows, failed)
    PROVE  /\ call' \in CallState
           /\ call'.step = "answered" /\ call'.code = code /\ call'.seen = rows
           /\ call'.failed = failed /\ call'.absent = call.absent
           /\ call'.proc = call.proc /\ call'.header = call.header /\ call'.target = call.target
           /\ call'.form = call.form /\ call'.admin = call.admin /\ call'.lacked = call.lacked
BY DEF CallState, AnsweredAs

\* The ways the code has to answer.
LEMMA Replies ==
    ASSUME call \in CallState, call.seen = {}
    PROVE  /\ \A code, rows : Reply(code, rows) => AnsweredAs(code, rows, call.failed)
           /\ ReplyFailed => AnsweredAs("internal", {}, TRUE)
           /\ \A code :
                 call' = [call EXCEPT !.step = "answered", !.code = code, !.failed = TRUE]
                 => AnsweredAs(code, {}, TRUE)
<1>1. ASSUME NEW code, NEW rows, Reply(code, rows) PROVE AnsweredAs(code, rows, call.failed)
  BY <1>1 DEF Reply, AnsweredAs, CallState
<1>2. ASSUME NEW code, call' = [call EXCEPT !.step = "answered", !.code = code, !.failed = TRUE]
      PROVE  AnsweredAs(code, {}, TRUE)
  BY <1>2 DEF AnsweredAs, CallState
<1> QED BY <1>1, <1>2 DEF ReplyFailed

LEMMA HistoryBoolean == ASSUME NEW c PROVE Missing(c) \in BOOLEAN /\ Lacking(c) \in BOOLEAN
BY DEF Missing, Lacking, Present

-----------------------------------------------------------------------------
(* Answering, going on, sending *)

\* An answer in accordance with what the answer's properties ask.
LEMMA Answering ==
    ASSUME IInv, InFlight,
           NEW code \in Codes, NEW rows \in SUBSET Users, NEW failed \in BOOLEAN,
           AnsweredAs(code, rows, failed),
           acct' \in [Users -> Account \cup {NoRow, Gone}], power' \in BOOLEAN, UNCHANGED walk,
           call.proc \in Procedures /\ rows # {} =>
               /\ call.header \in Claims
               /\ call.header.admin \/ \A u \in rows : AlternateId[u] = call.header.id,
           call.proc \in {"Create", "Update", "Delete", "List", "Count"} /\ code = "ok" =>
               call.header \in Claims /\ call.header.admin,
           code \in {"not_found", "internal"} => call.absent \/ failed,
           call.proc \in {"Get", "GetByExternalId"} /\ code = "not_found" => call.absent,
           call.proc \in Procedures /\ code = "permission_denied" => DeniedRightly,
           code = "ok" /\ OwnDemotion => call.lacked,
           call.proc = "PersonalAccessTokens" /\ code = "unauthenticated" /\ call.header \in Claims =>
               call.absent \/ failed,
           call.proc = "Delete" /\ code = "ok" => acct'[call.target] = Gone
    PROVE  /\ TypeOK' /\ CallOK' /\ AnswerOK'
           /\ call'.proc = call.proc /\ call'.step = "answered" /\ call'.code = code
<1>1. call \in CallState
  BY DEF IInv, TypeOK
<1>2. /\ call' \in CallState
      /\ call'.step = "answered" /\ call'.code = code /\ call'.seen = rows
      /\ call'.failed = failed /\ call'.absent = call.absent
      /\ call'.proc = call.proc /\ call'.header = call.header /\ call'.target = call.target
      /\ call'.form = call.form /\ call'.admin = call.admin /\ call'.lacked = call.lacked
  BY <1>1, AnswerFields
<1>3. TypeOK'
  BY <1>2 DEF IInv, TypeOK
<1>4. CallOK'
  <2>1. CallSane'
    BY <1>2 DEF IInv, CallOK, CallSane
  <2>2. CallAllowed'
    BY <1>2 DEF CallAllowed, InFlight
  <2>3. CallRemembers' /\ CallChecked'
    BY <1>2 DEF CallRemembers, CallChecked, InFlight
  <2> QED BY <2>1, <2>2, <2>3 DEF CallOK
<1>5. DataOnlyToEntitled'
  BY <1>2 DEF DataOnlyToEntitled, Answered
<1>6. AnswersTruthful'
  <2>1. OwnDemotion' = OwnDemotion /\ DeniedRightly' = DeniedRightly
    BY <1>2 DEF OwnDemotion, DeniedRightly, CallerId
  <2>2. Answered({"Update"})' /\ call'.code = "ok" /\ OwnDemotion' => call'.lacked
    BY <1>2, <2>1
  <2>3. Answered(Procedures)' /\ call'.code = "permission_denied" => DeniedRightly'
    BY <1>2, <2>1 DEF Answered
  <2> QED BY <1>2, <2>2, <2>3 DEF AnswersTruthful, Answered, OwnDemotion, DeniedRightly, Procedures,
                                  UserServiceProcedures, AuthServiceProcedures
<1> QED BY <1>2, <1>3, <1>4, <1>5, <1>6 DEF AnswerOK

\* A refusal shows nothing and blames nobody; a denial is right.
LEMMA Refusing ==
    ASSUME IInv, InFlight, NEW code \in Codes \ {"ok", "not_found", "internal"}, Reply(code, {}),
           call.proc = "PersonalAccessTokens" /\ code = "unauthenticated" => call.header \notin Claims,
           code = "permission_denied" => DeniedRightly,
           UNCHANGED <<accountVars, walk>>
    PROVE  /\ TypeOK' /\ CallOK' /\ AnswerOK'
           /\ call'.proc = call.proc /\ call'.step = "answered" /\ call'.code = code
<1>1. call \in CallState /\ call.seen = {} /\ call.failed \in BOOLEAN
  BY DEF IInv, TypeOK, CallOK, CallSane, InFlight, CallState
<1>2. AnsweredAs(code, {}, call.failed)
  BY <1>1, Replies
<1>3. acct' \in [Users -> Account \cup {NoRow, Gone}] /\ power' \in BOOLEAN
  BY DEF IInv, TypeOK, accountVars
<1> QED BY <1>1, <1>2, <1>3, Answering

\* A failed statement is an excuse for every code but a denial and, of the lookups
\* by id, "not found".
LEMMA Failing ==
    ASSUME IInv, InFlight, NEW code \in Codes \ {"ok", "permission_denied"}, AnsweredAs(code, {}, TRUE),
           call.proc \in {"Get", "GetByExternalId"} => code # "not_found",
           UNCHANGED <<accountVars, walk>>
    PROVE  /\ TypeOK' /\ CallOK' /\ AnswerOK'
           /\ call'.proc = call.proc /\ call'.step = "answered" /\ call'.code = code
<1>1. acct' \in [Users -> Account \cup {NoRow, Gone}] /\ power' \in BOOLEAN
  BY DEF IInv, TypeOK, accountVars
<1> QED BY <1>1, Answering

\* A missing subject is one for every code but a denial.
LEMMA Missed ==
    ASSUME IInv, InFlight, Missing(call), NEW code \in Codes \ {"ok", "permission_denied"}, Reply(code, {}),
           UNCHANGED <<accountVars, walk>>
    PROVE  /\ TypeOK' /\ CallOK' /\ AnswerOK'
           /\ call'.proc = call.proc /\ call'.step = "answered" /\ call'.code = code
<1>1. call \in CallState /\ call.seen = {} /\ call.failed \in BOOLEAN
  BY DEF IInv, TypeOK, CallOK, CallSane, InFlight, CallState
<1>2. AnsweredAs(code, {}, call.failed)
  BY <1>1, Replies
<1>3. acct' \in [Users -> Account \cup {NoRow, Gone}] /\ power' \in BOOLEAN
  BY DEF IInv, TypeOK, accountVars
<1>4. call.absent
  BY DEF IInv, CallOK, CallRemembers
<1> QED BY <1>1, <1>2, <1>3, <1>4, Answering

\* A call that goes on to a step it may go on to.
LEMMA Going ==
    ASSUME IInv, InFlight, NEW step \in {"routed", "handler", "checkSelf", "validate", "write"},
           call' = [call EXCEPT !.step = step],
           step \in {"handler", "checkSelf", "validate", "write"} =>
               call.proc \in publicProcedures \/ call.header \in Claims,
           step = "checkSelf" => call.proc = "Update",
           step \in {"checkSelf", "validate", "write"} =>
               call.proc \in {"Update", "Delete"} /\ call.header.admin,
           step \in {"validate", "write"} /\ OwnDemotion => call.lacked,
           UNCHANGED <<accountVars, walk>>
    PROVE  /\ TypeOK' /\ CallOK' /\ AnswerOK'
           /\ call'.proc = call.proc /\ call'.step = step
<1>1. call \in CallState
  BY DEF IInv, TypeOK
<1>2. /\ call' \in CallState
      /\ call'.step = step /\ call'.seen = call.seen /\ call'.absent = call.absent
      /\ call'.proc = call.proc /\ call'.header = call.header /\ call'.target = call.target
      /\ call'.admin = call.admin /\ call'.lacked = call.lacked
  BY <1>1 DEF CallState
<1>3. TypeOK'
  BY <1>2 DEF IInv, TypeOK, accountVars
<1>4. CallSane'
  BY <1>2 DEF IInv, CallOK, CallSane, InFlight
<1>5. CallAllowed'
  BY <1>2 DEF IInv, CallOK, CallAllowed, InFlight, accountVars
<1>6. CallRemembers' /\ CallChecked'
  <2>1. (Missing(call)' => Missing(call)) /\ (Lacking(call)' => Lacking(call))
    BY <1>2 DEF Missing, Lacking, Present, WithId, Rows, accountVars
  <2>2. OwnDemotion' = OwnDemotion
    BY <1>2 DEF OwnDemotion, CallerId
  <2> QED BY <1>2, <2>1, <2>2 DEF IInv, CallOK, CallRemembers, CallChecked
<1>7. AnswerOK'
  BY <1>2 DEF AnswerOK, DataOnlyToEntitled, AnswersTruthful, Answered
<1> QED BY <1>2, <1>3, <1>4, <1>5, <1>6, <1>7 DEF CallOK

\* A call that sets out.
LEMMA Submitting ==
    ASSUME IInv, NEW c \in CallState, c.step = "idle", c.seen = {},
           c.proc \in {"Get", "Update", "Delete", "Create"} => c.target \in Users,
           c.proc = "GetByExternalId" => c.target \in AlternateIds \cup Roots,
           c.header \in Claims => Circulating(c.header),
           Submit(c), UNCHANGED accountVars
    PROVE  /\ call' \in CallState /\ call'.proc = c.proc /\ call'.step = "sent"
           /\ CallOK' /\ AnswerOK'
<1>1. /\ call' \in CallState
      /\ call'.step = "sent" /\ call'.seen = {}
      /\ call'.absent = Missing(c) /\ call'.lacked = Lacking(c)
      /\ call'.proc = c.proc /\ call'.header = c.header /\ call'.target = c.target
  BY HistoryBoolean DEF CallState, Submit
<1>2. c.header \in Claims \/ c.header = Unsigned
  BY DEF CallState, Header
<1>3. c.header.id \in Roots => c.header.admin
  BY <1>2, Ids DEF Circulating, Unsigned
<1>4. c.header.admin => power
  BY <1>2 DEF Circulating, Unsigned
<1>5. CallSane'
  BY <1>1, <1>3 DEF CallSane
<1>6. CallAllowed'
  BY <1>1, <1>4 DEF CallAllowed, InFlight, accountVars
<1>7. CallRemembers' /\ CallChecked'
  <2>1. (Missing(call)' => Missing(c)) /\ (Lacking(call)' => Lacking(c))
    BY <1>1 DEF Missing, Lacking, Present, WithId, Rows, accountVars
  <2> QED BY <1>1, <2>1 DEF CallRemembers, CallChecked
<1>8. AnswerOK'
  BY <1>1 DEF AnswerOK, DataOnlyToEntitled, AnswersTruthful, Answered
<1> QED BY <1>1, <1>5, <1>6, <1>7, <1>8 DEF CallOK

\* The walk does not mind what a call does but for a page that is answered.
LEMMA WalkStays ==
    ASSUME IInv, InFlight, call'.proc = call.proc, UNCHANGED walk,
           call.proc = "List" =>
               /\ UNCHANGED accountVars
               /\ call'.step \in {"sent", "routed", "handler", "answered"}
               /\ call'.step = "answered" => call'.code # "ok"
    PROVE  WalkOK'
<1>1. CASE call.proc = "List"
  <2>1. walk # Nobody /\ ~walk.done
    BY <1>1 DEF IInv, WalkOK, WalkPlace
  <2>2. WalkPlace'
    BY <1>1, <2>1 DEF WalkPlace
  <2>3. ~PageRead'
    BY <1>1 DEF PageRead
  <2>4. Rows' = Rows
    BY <1>1 DEF Rows, Present, accountVars
  <2>5. WalkCovers'
    BY <2>1, <2>3, <2>4 DEF IInv, WalkOK, WalkCovers, Owing, Rank
  <2> QED BY <2>2, <2>3, <2>5 DEF WalkOK, PageFits
<1>2. CASE call.proc # "List"
  <2>1. walk = Nobody
    <3>1. call # Blank
      BY BlankTyped DEF InFlight
    <3> QED BY <1>2, <3>1 DEF IInv, WalkOK, WalkPlace
  <2> QED BY <1>2, <2>1 DEF WalkOK, WalkPlace, PageFits, PageRead, WalkCovers, Owing
<1> QED BY <1>1, <1>2

\* A handler of another procedure than List, all the parts together.
LEMMA OffTheWalk ==
    ASSUME IInv, InFlight, call.proc # "List", call'.proc = call.proc, UNCHANGED walk,
           TypeOK', CallOK', AnswerOK'
    PROVE  IInv'
BY WalkStays DEF IInv

\* What a handler knows when it begins.
LEMMA Begun ==
    ASSUME IInv, NEW proc \in Procedures, In(proc)
    PROVE  /\ InFlight /\ call.proc = proc /\ call \in CallState /\ call.seen = {}
           /\ call.failed \in BOOLEAN /\ call.absent \in BOOLEAN
           /\ proc \notin publicProcedures => call.header \in Claims
BY DEF IInv, TypeOK, CallOK, CallSane, CallAllowed, In, InFlight, CallState

\* The id the handlers read: that of the claims, but for the configuration's
\* administrator.
LEMMA CallerKnown ==
    ASSUME IInv, call.header \in Claims
    PROVE  /\ ~call.header.admin => CallerId = call.header.id /\ CallerId \in AlternateIds
           /\ call.header.admin \in BOOLEAN
<1>1. call.header.id \in AlternateIds \cup Roots /\ call.header.admin \in BOOLEAN
  BY Ids
<1>2. call.header.id \in Roots => call.header.admin
  BY DEF IInv, CallOK, CallSane
<1>3. ASSUME ~call.header.admin PROVE CallerId = call.header.id /\ CallerId \in AlternateIds
  <2>1. call.header.id \in AlternateIds
    BY <1>1, <1>2, <1>3
  <2> QED BY <2>1, Ids, CastKeeps DEF CallerId
<1> QED BY <1>1, <1>3

\* Which is positive: the guards' comparison with 0 holds for a user.
LEMMA PositiveIds == \A i \in AlternateIds : i > 0
BY Ids, IdsFit

\* Who is no administrator is denied what is an administrator's.
LEMMA AdminsOnly ==
    ASSUME ~RequireAdmin, call.proc \notin {"Get", "GetByExternalId"}
    PROVE  DeniedRightly
BY DEF DeniedRightly, RequireAdmin, CallerIsAdmin

LEMMA NoRowsCodes == NoRows \subseteq Codes \ {"ok", "permission_denied"}
BY DEF NoRows, MapErrorToConnect, Codes

-----------------------------------------------------------------------------
(* The steps *)

LEMMA DispatchStep == ASSUME IInv, Dispatch PROVE IInv'
<1>1. InFlight /\ call \in CallState
  BY DEF Dispatch, InFlight, IInv, TypeOK
<1>2. CASE call.proc \in Procedures
  <2>1. call' = [call EXCEPT !.step = "routed"] /\ UNCHANGED <<accountVars, walk>>
    BY <1>2 DEF Dispatch
  <2>2. /\ TypeOK' /\ CallOK' /\ AnswerOK'
        /\ call'.proc = call.proc /\ call'.step = "routed"
    BY <1>1, <2>1, Going
  <2> QED BY <1>1, <2>1, <2>2, WalkStays DEF IInv
<1>3. CASE call.proc \notin Procedures
  <2>1. /\ call' = [call EXCEPT !.step = "answered", !.code = "unknown_path"]
        /\ UNCHANGED <<accountVars, walk>>
    BY <1>3 DEF Dispatch
  <2>2. AnsweredAs("unknown_path", {}, call.failed)
    BY <1>1, <2>1 DEF AnsweredAs, CallState, IInv, CallOK, CallSane, InFlight
  <2>3. acct' \in [Users -> Account \cup {NoRow, Gone}] /\ power' \in BOOLEAN
    BY <2>1 DEF IInv, TypeOK, accountVars
  <2>4. "unknown_path" \in Codes /\ call.failed \in BOOLEAN
    BY <1>1 DEF Codes, CallState
  <2>5. /\ TypeOK' /\ CallOK' /\ AnswerOK'
        /\ call'.proc = call.proc /\ call'.step = "answered" /\ call'.code = "unknown_path"
    BY <1>1, <2>1, <2>2, <2>3, <2>4, Answering
  <2> QED BY <1>1, <2>1, <2>5, WalkStays DEF IInv
<1> QED BY <1>2, <1>3

LEMMA InterceptStep == ASSUME IInv, Intercept PROVE IInv'
<1>1. InFlight
  BY DEF Intercept, InFlight
<1>2. CASE call.proc \in publicProcedures \/ call.header \in Claims
  <2>1. call' = [call EXCEPT !.step = "handler"] /\ UNCHANGED <<accountVars, walk>>
    BY <1>2 DEF Intercept
  <2>2. /\ TypeOK' /\ CallOK' /\ AnswerOK'
        /\ call'.proc = call.proc /\ call'.step = "handler"
    BY <1>1, <1>2, <2>1, Going
  <2> QED BY <1>1, <2>1, <2>2, WalkStays DEF IInv
<1>3. CASE ~(call.proc \in publicProcedures \/ call.header \in Claims)
  <2>1. Reply("unauthenticated", {}) /\ UNCHANGED <<accountVars, walk>>
    BY <1>3 DEF Intercept
  <2>2. "unauthenticated" \in Codes \ {"ok", "not_found", "internal"}
    BY DEF Codes
  <2>3. /\ TypeOK' /\ CallOK' /\ AnswerOK'
        /\ call'.proc = call.proc /\ call'.step = "answered" /\ call'.code = "unauthenticated"
    BY <1>1, <1>3, <2>1, <2>2, Refusing
  <2> QED BY <1>1, <2>1, <2>3, WalkStays DEF IInv
<1> QED BY <1>2, <1>3

LEMMA GetStep == ASSUME IInv, Get PROVE IInv'
<1>1. /\ InFlight /\ call.proc = "Get" /\ call \in CallState /\ call.seen = {}
      /\ call.failed \in BOOLEAN /\ call.header \in Claims
  BY Begun DEF Get, Procedures, UserServiceProcedures, publicProcedures
<1>2. call.target \in Users
  BY <1>1 DEF IInv, CallOK, CallSane
<1>3. UNCHANGED <<accountVars, walk>>
  BY DEF Get
<1>4. acct' \in [Users -> Account \cup {NoRow, Gone}] /\ power' \in BOOLEAN
  BY <1>3 DEF IInv, TypeOK, accountVars
<1>5. SUFFICES call'.proc = call.proc /\ TypeOK' /\ CallOK' /\ AnswerOK'
  BY <1>1, <1>3, OffTheWalk
<1>6. CASE Reply("invalid_argument", {})
  BY <1>1, <1>3, <1>6, Refusing DEF Codes
<1>7. CASE ReplyFailed
  BY <1>1, <1>3, <1>7, Replies, Failing DEF Codes
<1>8. CASE ~Present(call.target) /\ \E code \in NoRows : Reply(code, {})
  <2>1. Missing(call)
    BY <1>1, <1>8 DEF Missing
  <2> QED BY <1>1, <1>3, <1>8, <2>1, NoRowsCodes, Missed
<1>9. CASE RequireSelfOrAdmin(AlternateId[call.target]) /\ Reply("ok", {call.target})
  <2>1. call.header.admin \/ AlternateId[call.target] = call.header.id
    BY <1>1, <1>9, CallerKnown DEF RequireSelfOrAdmin, CallerIsAdmin
  <2>2. AnsweredAs("ok", {call.target}, call.failed)
    BY <1>1, <1>9, Replies
  <2>3. "ok" \in Codes /\ {call.target} \in SUBSET Users
    BY <1>2 DEF Codes
  <2> QED BY <1>1, <1>3, <1>4, <2>1, <2>2, <2>3, Answering DEF OwnDemotion
<1>10. CASE ~RequireSelfOrAdmin(AlternateId[call.target]) /\ Reply("permission_denied", {})
  <2>1. DeniedRightly
    BY <1>1, <1>2, <1>10, CallerKnown, PositiveIds
       DEF DeniedRightly, RequireSelfOrAdmin, CallerIsAdmin
  <2> QED BY <1>1, <1>3, <1>10, <2>1, Refusing DEF Codes
<1> QED BY <1>6, <1>7, <1>8, <1>9, <1>10 DEF Get

LEMMA GetByExternalIdStep == ASSUME IInv, GetByExternalId PROVE IInv'
<1>1. /\ InFlight /\ call.proc = "GetByExternalId" /\ call \in CallState /\ call.seen = {}
      /\ call.failed \in BOOLEAN /\ call.header \in Claims
  BY Begun DEF GetByExternalId, Procedures, UserServiceProcedures, publicProcedures
<1>2. call.target \in AlternateIds \cup Roots
  BY <1>1 DEF IInv, CallOK, CallSane
<1>3. UNCHANGED <<accountVars, walk>>
  BY DEF GetByExternalId
<1>4. acct' \in [Users -> Account \cup {NoRow, Gone}] /\ power' \in BOOLEAN
  BY <1>3 DEF IInv, TypeOK, accountVars
<1>5. SUFFICES call'.proc = call.proc /\ TypeOK' /\ CallOK' /\ AnswerOK'
  BY <1>1, <1>3, OffTheWalk
<1>6. CASE ~RequireSelfOrAdmin(Int32(call.target)) /\ Reply("permission_denied", {})
  <2>1. ~call.header.admin /\ CallerId = call.header.id /\ CallerId \in AlternateIds
    BY <1>1, <1>6, CallerKnown DEF RequireSelfOrAdmin, CallerIsAdmin
  <2>2. Int32(call.target) # call.header.id
    BY <1>6, <2>1, PositiveIds DEF RequireSelfOrAdmin
  <2>3. call.target # call.header.id
    BY <2>1, <2>2, Ids, CastKeeps
  <2>4. DeniedRightly
    BY <1>1, <2>1, <2>3 DEF DeniedRightly
  <2> QED BY <1>1, <1>3, <1>6, <2>4, Refusing DEF Codes
<1>7. CASE ReplyFailed
  BY <1>1, <1>3, <1>7, Replies, Failing DEF Codes
<1>8. CASE WithId(Int32(call.target)) = {} /\ \E code \in NoRows : Reply(code, {})
  <2>1. WithId(call.target) = {}
    <3>1. CASE call.target \in AlternateIds
      BY <1>8, <3>1, Ids, CastKeeps
    <3>2. CASE call.target \in Roots
      BY <3>2, IdsFit DEF WithId, Rows
    <3> QED BY <1>2, <3>1, <3>2
  <2>2. Missing(call)
    BY <1>1, <2>1 DEF Missing
  <2> QED BY <1>1, <1>3, <1>8, <2>2, NoRowsCodes, Missed
<1>9. CASE /\ RequireSelfOrAdmin(Int32(call.target))
           /\ Reply("ok", WithId(Int32(call.target)))
  <2>1. \A u \in WithId(Int32(call.target)) : AlternateId[u] = Int32(call.target)
    BY DEF WithId
  <2>2. call.header.admin \/ \A u \in WithId(Int32(call.target)) : AlternateId[u] = call.header.id
    BY <1>1, <1>9, <2>1, CallerKnown DEF RequireSelfOrAdmin, CallerIsAdmin
  <2>3. AnsweredAs("ok", WithId(Int32(call.target)), call.failed)
    BY <1>1, <1>9, Replies
  <2>4. "ok" \in Codes /\ WithId(Int32(call.target)) \in SUBSET Users
    BY DEF Codes, WithId, Rows
  <2> QED BY <1>1, <1>3, <1>4, <2>2, <2>3, <2>4, Answering DEF OwnDemotion
<1> QED BY <1>6, <1>7, <1>8, <1>9 DEF GetByExternalId

LEMMA CountStep == ASSUME IInv, Count PROVE IInv'
<1>1. /\ InFlight /\ call.proc = "Count" /\ call \in CallState /\ call.seen = {}
      /\ call.failed \in BOOLEAN /\ call.header \in Claims
  BY Begun DEF Count, Procedures, UserServiceProcedures, publicProcedures
<1>2. UNCHANGED <<accountVars, walk>>
  BY DEF Count
<1>3. SUFFICES call'.proc = call.proc /\ TypeOK' /\ CallOK' /\ AnswerOK'
  BY <1>1, <1>2, OffTheWalk
<1>4. CASE ~RequireAdmin /\ Reply("permission_denied", {})
  BY <1>1, <1>2, <1>4, AdminsOnly, Refusing DEF Codes
<1>5. CASE ReplyFailed
  BY <1>1, <1>2, <1>5, Replies, Failing DEF Codes
<1>6. CASE RequireAdmin /\ Reply("ok", {})
  <2>1. acct' \in [Users -> Account \cup {NoRow, Gone}] /\ power' \in BOOLEAN
    BY <1>2 DEF IInv, TypeOK, accountVars
  <2>2. AnsweredAs("ok", {}, call.failed) /\ "ok" \in Codes
    BY <1>1, <1>6, Replies DEF Codes
  <2> QED BY <1>1, <1>2, <1>6, <2>1, <2>2, Answering DEF RequireAdmin, CallerIsAdmin, OwnDemotion
<1> QED BY <1>4, <1>5, <1>6 DEF Count

LEMMA ValidateTokenStep == ASSUME IInv, ValidateToken PROVE IInv'
<1>1. /\ InFlight /\ call.proc = "ValidateToken" /\ call \in CallState /\ call.seen = {}
      /\ call.failed \in BOOLEAN
  BY Begun DEF ValidateToken, Procedures, AuthServiceProcedures
<1>2. UNCHANGED <<accountVars, walk>>
  BY DEF ValidateToken
<1>3. acct' \in [Users -> Account \cup {NoRow, Gone}] /\ power' \in BOOLEAN
  BY <1>2 DEF IInv, TypeOK, accountVars
<1>4. SUFFICES call'.proc = call.proc /\ TypeOK' /\ CallOK' /\ AnswerOK'
  BY <1>1, <1>2, OffTheWalk
<1>5. CASE call.header \notin Claims /\ Reply("ok", {})
  <2>1. AnsweredAs("ok", {}, call.failed) /\ "ok" \in Codes
    BY <1>1, <1>5, Replies DEF Codes
  <2> QED BY <1>1, <1>2, <1>3, <2>1, Answering DEF OwnDemotion
<1>6. CASE ReplyFailed
  BY <1>1, <1>2, <1>6, Replies, Failing DEF Codes
<1>7. CASE call.header \in Claims /\ WithId(call.header.id) = {} /\ Reply("internal", {})
  <2>1. Missing(call)
    BY <1>1, <1>7 DEF Missing
  <2> QED BY <1>1, <1>2, <1>7, <2>1, Missed DEF Codes
<1>8. CASE /\ call.header \in Claims
           /\ Reply("ok", {u \in WithId(call.header.id) : acct[u].active})
  <2>1. \A u \in WithId(call.header.id) : AlternateId[u] = call.header.id /\ u \in Users
    BY DEF WithId, Rows
  <2>2. AnsweredAs("ok", {u \in WithId(call.header.id) : acct[u].active}, call.failed)
    BY <1>1, <1>8, Replies
  <2>3. "ok" \in Codes
    BY DEF Codes
  <2> QED BY <1>1, <1>2, <1>3, <1>8, <2>1, <2>2, <2>3, Answering DEF OwnDemotion
<1> QED BY <1>5, <1>6, <1>7, <1>8 DEF ValidateToken

\* The two procedures that look their caller up.
LEMMA OwnRow ==
    ASSUME IInv, InFlight, call.proc \in {"GetCurrentUser", "PersonalAccessTokens"},
           call.header \in Claims
    PROVE  /\ WithId(CallerId) = {} => Missing(call)
           /\ WithId(CallerId) \in SUBSET Users
           /\ call.header.admin \/ \A u \in WithId(CallerId) : AlternateId[u] = call.header.id
           /\ ~call.header.admin => CallerId # 0
<1>1. ASSUME WithId(CallerId) = {} PROVE WithId(call.header.id) = {}
  <2>1. CASE call.header.id \in Roots
    BY <2>1, IdsFit DEF WithId, Rows
  <2>2. CASE call.header.id \in AlternateIds
    <3>1. CallerId = call.header.id
      BY <2>2, Ids, CastKeeps DEF CallerId
    <3> QED BY <1>1, <3>1
  <2> QED BY <2>1, <2>2, Ids
<1>2. WithId(CallerId) = {} => Missing(call)
  BY <1>1 DEF Missing
<1>3. WithId(CallerId) \in SUBSET Users /\ \A u \in WithId(CallerId) : AlternateId[u] = CallerId
  BY DEF WithId, Rows
<1> QED BY <1>2, <1>3, CallerKnown, Ids

LEMMA GetCurrentUserStep == ASSUME IInv, GetCurrentUser PROVE IInv'
<1>1. /\ InFlight /\ call.proc = "GetCurrentUser" /\ call \in CallState /\ call.seen = {}
      /\ call.failed \in BOOLEAN /\ call.header \in Claims
  BY Begun DEF GetCurrentUser, Procedures, AuthServiceProcedures, publicProcedures
<1>2. UNCHANGED <<accountVars, walk>>
  BY DEF GetCurrentUser
<1>3. acct' \in [Users -> Account \cup {NoRow, Gone}] /\ power' \in BOOLEAN
  BY <1>2 DEF IInv, TypeOK, accountVars
<1>4. SUFFICES call'.proc = call.proc /\ TypeOK' /\ CallOK' /\ AnswerOK'
  BY <1>1, <1>2, OffTheWalk
<1>5. CASE Reply("unauthenticated", {})
  BY <1>1, <1>2, <1>5, Refusing DEF Codes
<1>6. CASE call' = [call EXCEPT !.step = "answered", !.code = "not_found", !.failed = TRUE]
  BY <1>1, <1>2, <1>6, Replies, Failing DEF Codes
<1>7. CASE WithId(CallerId) = {} /\ Reply("not_found", {})
  BY <1>1, <1>2, <1>7, OwnRow, Missed DEF Codes
<1>8. CASE Reply("ok", WithId(CallerId))
  <2>1. AnsweredAs("ok", WithId(CallerId), call.failed) /\ "ok" \in Codes
    BY <1>1, <1>8, Replies DEF Codes
  <2> QED BY <1>1, <1>2, <1>3, <2>1, OwnRow, Answering DEF OwnDemotion
<1> QED BY <1>5, <1>6, <1>7, <1>8 DEF GetCurrentUser

LEMMA ManageTokensStep == ASSUME IInv, ManageTokens PROVE IInv'
<1>1. /\ InFlight /\ call.proc = "PersonalAccessTokens" /\ call \in CallState /\ call.seen = {}
      /\ call.failed \in BOOLEAN /\ call.header \in Claims
  BY Begun DEF ManageTokens, In, Procedures, AuthServiceProcedures, publicProcedures
<1>2. UNCHANGED <<accountVars, walk>>
  BY DEF ManageTokens
<1>3. acct' \in [Users -> Account \cup {NoRow, Gone}] /\ power' \in BOOLEAN
  BY <1>2 DEF IInv, TypeOK, accountVars
<1>4. SUFFICES call'.proc = call.proc /\ TypeOK' /\ CallOK' /\ AnswerOK'
  BY <1>1, <1>2, OffTheWalk
<1>5. CASE CallerId = 0 /\ Reply("unauthenticated", {})
  <2>1. WithId(CallerId) = {}
    BY <1>5, Ids DEF WithId, Rows
  <2> QED BY <1>1, <1>2, <1>5, <2>1, OwnRow, Missed DEF Codes
<1>6. CASE call' = [call EXCEPT !.step = "answered", !.code = "unauthenticated", !.failed = TRUE]
  BY <1>1, <1>2, <1>6, Replies, Failing DEF Codes
<1>7. CASE WithId(CallerId) = {} /\ Reply("unauthenticated", {})
  BY <1>1, <1>2, <1>7, OwnRow, Missed DEF Codes
<1>8. CASE Reply("ok", WithId(CallerId))
  <2>1. AnsweredAs("ok", WithId(CallerId), call.failed) /\ "ok" \in Codes
    BY <1>1, <1>8, Replies DEF Codes
  <2> QED BY <1>1, <1>2, <1>3, <2>1, OwnRow, Answering DEF OwnDemotion
<1> QED BY <1>5, <1>6, <1>7, <1>8 DEF ManageTokens

\* A page: the walk covers what it shows.
LEMMA ListStep == ASSUME IInv, List PROVE IInv'
<1>1. /\ InFlight /\ call.proc = "List" /\ call \in CallState /\ call.seen = {}
      /\ call.failed \in BOOLEAN /\ call.header \in Claims
  BY Begun DEF List, Procedures, UserServiceProcedures, publicProcedures
<1>2. UNCHANGED <<accountVars, walk>>
  BY DEF List
<1>3. acct' \in [Users -> Account \cup {NoRow, Gone}] /\ power' \in BOOLEAN
  BY <1>2 DEF IInv, TypeOK, accountVars
<1>4. walk # Nobody /\ ~walk.done /\ walk \in Walk
  BY <1>1 DEF IInv, TypeOK, WalkOK, WalkPlace
<1>5. CASE ~RequireAdmin /\ Reply("permission_denied", {})
  <2>1. /\ TypeOK' /\ CallOK' /\ AnswerOK'
        /\ call'.proc = call.proc /\ call'.step = "answered" /\ call'.code = "permission_denied"
    BY <1>1, <1>2, <1>5, AdminsOnly, Refusing DEF Codes
  <2> QED BY <1>1, <1>2, <2>1, WalkStays DEF IInv
<1>6. CASE ReplyFailed
  <2>1. /\ TypeOK' /\ CallOK' /\ AnswerOK'
        /\ call'.proc = call.proc /\ call'.step = "answered" /\ call'.code = "internal"
    BY <1>1, <1>2, <1>6, Replies, Failing DEF Codes
  <2> QED BY <1>1, <1>2, <2>1, WalkStays DEF IInv
<1>7. CASE RequireAdmin /\ Reply("ok", Page(walk.limit, walk.offset, walk.disabled))
  <2>1. SUFFICES ASSUME NEW page, page = Page(walk.limit, walk.offset, walk.disabled) PROVE IInv'
    OBVIOUS
  <2>2. /\ walk.limit \in Limits /\ walk.offset \in Nat /\ walk.disabled \in BOOLEAN
    BY <1>4 DEF Walk
  <2>3. /\ page \in SUBSET Rows
        /\ Cardinality(page) \in Nat
        /\ \A u \in Kept(walk.disabled) :
              /\ walk.offset <= Rank(u, Kept(walk.disabled))
              /\ Rank(u, Kept(walk.disabled)) < walk.offset + Cardinality(page)
              => u \in page
        /\ page = {} => \A u \in Kept(walk.disabled) : Rank(u, Kept(walk.disabled)) < walk.offset
        /\ page # {} => walk.offset + Cardinality(page) <= Cardinality(Users)
    BY <2>1, <2>2, PageHolds
  <2>4. page \in SUBSET Users
    BY <2>3 DEF Rows
  <2>5. AnsweredAs("ok", page, call.failed) /\ "ok" \in Codes
    BY <1>1, <1>7, <2>1, Replies DEF Codes
  <2>6. call.header.admin
    BY <1>7 DEF RequireAdmin, CallerIsAdmin
  <2>7. /\ TypeOK' /\ CallOK' /\ AnswerOK'
        /\ call'.proc = call.proc /\ call'.step = "answered" /\ call'.code = "ok"
    BY <1>1, <1>2, <1>3, <2>4, <2>5, <2>6, Answering DEF OwnDemotion
  <2>8. call'.seen = page
    BY <1>1, <2>4, <2>5, AnswerFields
  <2>9. WalkPlace'
    BY <1>1, <1>2, <1>4, <2>7 DEF WalkPlace
  <2>10. PageFits'
    BY <1>2, <2>3, <2>8 DEF PageFits
  <2>11. WalkCovers'
    <3>1. SUFFICES ASSUME Owing PROVE WalkCovers'
      BY <1>2 DEF WalkCovers, Owing
    <3>2. Kept(walk.disabled) = Rows /\ Rows' = Rows
      BY <1>2, <3>1 DEF Kept, Owing, Rows, Present, accountVars
    <3>3. /\ walk.owed \subseteq Rows
          /\ \A u \in walk.owed : Rank(u, Rows) < walk.offset => u \in walk.read
      BY <3>1 DEF IInv, WalkOK, WalkCovers
    <3>4. \A u \in walk.owed : Rank(u, Rows) \in Nat
      BY RankType DEF Rows
    <3>5. \A u \in walk.owed :
             Rank(u, Rows) < walk.offset + Cardinality(page) => u \in walk.read \cup page
      BY <2>2, <2>3, <3>2, <3>3, <3>4
    <3>6. page = {} => walk.owed \subseteq walk.read
      BY <2>3, <3>2, <3>3
    <3>7. \A u : Rank(u, Rows)' = Rank(u, Rows)
      BY <3>2 DEF Rank
    <3> QED BY <1>2, <1>4, <2>8, <3>2, <3>3, <3>5, <3>6, <3>7 DEF WalkCovers
  <2> QED BY <2>7, <2>9, <2>10, <2>11 DEF IInv, WalkOK
<1> QED BY <1>5, <1>6, <1>7 DEF List

-----------------------------------------------------------------------------
(* The steps that write *)

LEMMA CreateStep ==
    ASSUME IInv, Create
    PROVE  /\ IInv'
           /\ AccountsNext \/ UNCHANGED accountVars
<1>1. /\ InFlight /\ call.proc = "Create" /\ call \in CallState /\ call.seen = {}
      /\ call.failed \in BOOLEAN /\ call.header \in Claims
  BY Begun DEF Create, Procedures, UserServiceProcedures, publicProcedures
<1>2. call.target \in Users
  BY <1>1 DEF IInv, CallOK, CallSane
<1>3. UNCHANGED walk
  BY DEF Create
<1>4. SUFFICES /\ call'.proc = call.proc /\ TypeOK' /\ CallOK' /\ AnswerOK'
               /\ AccountsNext \/ UNCHANGED accountVars
  BY <1>1, <1>3, OffTheWalk
<1>5. CASE ~RequireAdmin /\ UNCHANGED accountVars /\ Reply("permission_denied", {})
  BY <1>1, <1>3, <1>5, AdminsOnly, Refusing DEF Codes
<1>6. CASE UNCHANGED accountVars /\ Reply("invalid_argument", {})
  BY <1>1, <1>3, <1>6, Refusing DEF Codes
<1>7. CASE UNCHANGED accountVars /\ ReplyFailed
  BY <1>1, <1>3, <1>7, Replies, Failing DEF Codes
<1>8. ASSUME RequireAdmin, acct[call.target] = NoRow, UNCHANGED power,
             Reply("ok", {call.target}), NEW b \in BOOLEAN,
             acct' = [acct EXCEPT ![call.target] = [active |-> TRUE, admin |-> b]]
      PROVE  /\ call'.proc = call.proc /\ TypeOK' /\ CallOK' /\ AnswerOK'
             /\ AccountsNext
  <2>1. power /\ call.header.admin
    BY <1>1, <1>8 DEF IInv, CallOK, CallAllowed, RequireAdmin, CallerIsAdmin
  <2>2. [active |-> TRUE, admin |-> b] \in Account
    BY DEF Account
  <2>3. acct' \in [Users -> Account \cup {NoRow, Gone}] /\ power' \in BOOLEAN
    BY <1>8, <2>2 DEF IInv, TypeOK
  <2>4. AnsweredAs("ok", {call.target}, call.failed) /\ "ok" \in Codes
    BY <1>1, <1>8, Replies DEF Codes
  <2>5. Administer(call.target)
    BY <1>8, <2>1, <2>3 DEF Administer
  <2>6. AccountsNext
    BY <1>2, <2>5 DEF AccountsNext
  <2>7. call'.proc = call.proc /\ TypeOK' /\ CallOK' /\ AnswerOK'
    BY <1>1, <1>2, <1>3, <2>1, <2>3, <2>4, Answering DEF OwnDemotion
  <2> QED BY <2>6, <2>7
<1> QED BY <1>5, <1>6, <1>7, <1>8 DEF Create

LEMMA UpdateStep == ASSUME IInv, Update PROVE IInv'
<1>1. /\ InFlight /\ call.proc = "Update" /\ call.header \in Claims
  BY Begun DEF Update, Procedures, UserServiceProcedures, publicProcedures
<1>2. UNCHANGED <<accountVars, walk>>
  BY DEF Update
<1>3. SUFFICES call'.proc = call.proc /\ TypeOK' /\ CallOK' /\ AnswerOK'
  BY <1>1, <1>2, OffTheWalk
<1>4. CASE ~RequireAdmin /\ Reply("permission_denied", {})
  BY <1>1, <1>2, <1>4, AdminsOnly, Refusing DEF Codes
<1>5. CASE Reply("invalid_argument", {})
  BY <1>1, <1>2, <1>5, Refusing DEF Codes
<1>6. CASE RequireAdmin /\ Goto("checkSelf")
  BY <1>1, <1>2, <1>6, Going DEF RequireAdmin, CallerIsAdmin, Goto
<1> QED BY <1>4, <1>5, <1>6 DEF Update

LEMMA DeleteStep == ASSUME IInv, Delete PROVE IInv'
<1>1. /\ InFlight /\ call.proc = "Delete" /\ call.header \in Claims
  BY Begun DEF Delete, Procedures, UserServiceProcedures, publicProcedures
<1>2. UNCHANGED <<accountVars, walk>>
  BY DEF Delete
<1>3. SUFFICES call'.proc = call.proc /\ TypeOK' /\ CallOK' /\ AnswerOK'
  BY <1>1, <1>2, OffTheWalk
<1>4. CASE ~RequireAdmin /\ Reply("permission_denied", {})
  BY <1>1, <1>2, <1>4, AdminsOnly, Refusing DEF Codes
<1>5. CASE Reply("invalid_argument", {})
  BY <1>1, <1>2, <1>5, Refusing DEF Codes
<1>6. CASE RequireAdmin /\ Goto("validate")
  <2>1. ~OwnDemotion
    BY <1>1 DEF OwnDemotion
  <2> QED BY <1>1, <1>2, <1>6, <2>1, Going DEF RequireAdmin, CallerIsAdmin, Goto
<1> QED BY <1>4, <1>5, <1>6 DEF Delete

\* What an update or a deletion knows once it has passed the first guard.
LEMMA Admitted ==
    ASSUME IInv, call.step \in {"checkSelf", "validate", "write"}
    PROVE  /\ InFlight /\ call \in CallState /\ call.seen = {} /\ call.failed \in BOOLEAN
           /\ call.proc \in {"Update", "Delete"} /\ call.target \in Users
           /\ call.step = "checkSelf" => call.proc = "Update"
           /\ call.header \in Claims /\ call.header.admin /\ power
           /\ ~Present(call.target) => Missing(call)
<1>1. InFlight /\ call \in CallState /\ call.seen = {} /\ call.failed \in BOOLEAN
  BY DEF IInv, TypeOK, CallOK, CallSane, InFlight, CallState
<1>2. /\ call.proc \in {"Update", "Delete"} /\ call.header.admin
      /\ call.step = "checkSelf" => call.proc = "Update"
  BY DEF IInv, CallOK, CallAllowed
<1>3. call.target \in Users
  BY <1>2 DEF IInv, CallOK, CallSane
<1>4. call.header \in Claims
  BY <1>2 DEF IInv, CallOK, CallAllowed, publicProcedures
<1>5. power
  BY <1>1, <1>2 DEF IInv, CallOK, CallAllowed
<1>6. ~Present(call.target) => Missing(call)
  BY <1>2 DEF Missing
<1> QED BY <1>1, <1>2, <1>3, <1>4, <1>5, <1>6

LEMMA EnsureNotSelfDemotionStep == ASSUME IInv, EnsureNotSelfDemotion PROVE IInv'
<1>1. /\ InFlight /\ call \in CallState /\ call.seen = {} /\ call.proc = "Update"
      /\ call.header \in Claims /\ call.header.admin
      /\ ~Present(call.target) => Missing(call)
  BY Admitted DEF EnsureNotSelfDemotion
<1>2. UNCHANGED <<accountVars, walk>>
  BY DEF EnsureNotSelfDemotion
<1>3. SUFFICES call'.proc = call.proc /\ TypeOK' /\ CallOK' /\ AnswerOK'
  BY <1>1, <1>2, OffTheWalk
<1>4. CASE /\ Goto("validate")
           /\ call.admin \/ ~(AlternateId[call.target] = CallerId /\ acct[call.target].admin)
  <2>1. OwnDemotion => Lacking(call)
    BY <1>1, <1>4 DEF OwnDemotion, Lacking
  <2>2. OwnDemotion => call.lacked
    BY <1>1, <2>1 DEF IInv, CallOK, CallRemembers
  <2> QED BY <1>1, <1>2, <1>4, <2>2, Going DEF Goto
<1>5. CASE ReplyFailed
  BY <1>1, <1>2, <1>5, Replies, Failing DEF Codes
<1>6. CASE ~Present(call.target) /\ \E code \in NoRows : Reply(code, {})
  BY <1>1, <1>2, <1>6, NoRowsCodes, Missed
<1>7. CASE Reply("failed_precondition", {})
  BY <1>1, <1>2, <1>7, Refusing DEF Codes
<1> QED BY <1>4, <1>5, <1>6, <1>7 DEF EnsureNotSelfDemotion

LEMMA ExistStep == ASSUME IInv, Exist PROVE IInv'
<1>1. /\ InFlight /\ call \in CallState /\ call.seen = {} /\ call.proc \in {"Update", "Delete"}
      /\ call.header \in Claims /\ call.header.admin
      /\ ~Present(call.target) => Missing(call)
  BY Admitted DEF Exist
<1>2. UNCHANGED <<accountVars, walk>>
  BY DEF Exist
<1>3. SUFFICES call'.proc = call.proc /\ TypeOK' /\ CallOK' /\ AnswerOK'
  BY <1>1, <1>2, OffTheWalk
<1>4. CASE Reply(MapErrorToConnect("ErrInvalidInput"), {})
  <2>1. Reply("invalid_argument", {})
    BY <1>4 DEF MapErrorToConnect
  <2> QED BY <1>1, <1>2, <2>1, Refusing DEF Codes
<1>5. CASE call' = [call EXCEPT !.step = "answered", !.code = "not_found", !.failed = TRUE]
  BY <1>1, <1>2, <1>5, Replies, Failing DEF Codes
<1>6. CASE Goto("write")
  <2>1. OwnDemotion => call.lacked
    BY DEF Exist, IInv, CallOK, CallChecked
  <2> QED BY <1>1, <1>2, <1>6, <2>1, Going DEF Goto
<1>7. CASE ~Present(call.target) /\ Reply(MapErrorToConnect("ErrUserNotFound"), {})
  BY <1>1, <1>2, <1>7, NoRowsCodes, Missed DEF NoRows
<1> QED BY <1>4, <1>5, <1>6, <1>7 DEF Exist, ExistUser

LEMMA WriteStep ==
    ASSUME IInv, Write
    PROVE  /\ IInv'
           /\ AccountsNext \/ UNCHANGED accountVars
<1>1. /\ InFlight /\ call \in CallState /\ call.seen = {} /\ call.failed \in BOOLEAN
      /\ call.proc \in {"Update", "Delete"} /\ call.target \in Users
      /\ call.header \in Claims /\ call.header.admin /\ power
      /\ ~Present(call.target) => Missing(call)
  BY Admitted DEF Write
<1>2. UNCHANGED walk
  BY DEF Write
<1>3. SUFFICES /\ call'.proc = call.proc /\ TypeOK' /\ CallOK' /\ AnswerOK'
               /\ AccountsNext \/ UNCHANGED accountVars
  BY <1>1, <1>2, OffTheWalk
<1>4. CASE ReplyFailed /\ UNCHANGED accountVars
  BY <1>1, <1>2, <1>4, Replies, Failing DEF Codes
<1>5. CASE ~Present(call.target) /\ Reply(MapErrorToConnect("other"), {}) /\ UNCHANGED accountVars
  BY <1>1, <1>2, <1>5, NoRowsCodes, Missed DEF NoRows
<1>6. ASSUME NEW a, NEW rows,
             a = IF call.proc = "Delete" THEN Gone ELSE [active |-> call.active, admin |-> call.admin],
             rows = IF call.proc = "Delete" THEN {} ELSE {call.target},
             Present(call.target), acct' = [acct EXCEPT ![call.target] = a],
             Reply("ok", rows), UNCHANGED power
      PROVE  /\ call'.proc = call.proc /\ TypeOK' /\ CallOK' /\ AnswerOK'
             /\ AccountsNext
  <2>1. a \in Account \cup {Gone} /\ (call.proc = "Delete" => a = Gone)
    BY <1>1, <1>6 DEF CallState, Account
  <2>2. rows \in SUBSET Users
    BY <1>1, <1>6
  <2>3. acct' \in [Users -> Account \cup {NoRow, Gone}] /\ power' \in BOOLEAN
    BY <1>6, <2>1 DEF IInv, TypeOK
  <2>4. AnsweredAs("ok", rows, call.failed) /\ "ok" \in Codes
    BY <1>1, <1>6, Replies DEF Codes
  <2>5. Administer(call.target)
    BY <1>1, <1>6, <2>1, <2>3 DEF Administer, Present
  <2>6. AccountsNext
    BY <1>1, <2>5 DEF AccountsNext
  <2>7. acct'[call.target] = a
    BY <1>1, <1>6 DEF IInv, TypeOK
  <2>8. OwnDemotion => call.lacked
    BY DEF Write, IInv, CallOK, CallChecked
  <2>9. call'.proc = call.proc /\ TypeOK' /\ CallOK' /\ AnswerOK'
    BY <1>1, <1>2, <2>1, <2>2, <2>3, <2>4, <2>7, <2>8, Answering
  <2> QED BY <2>6, <2>9
<1> QED BY <1>4, <1>5, <1>6 DEF Write

-----------------------------------------------------------------------------
(* The client's steps, and everyone else's *)

LEMMA InitIInv == Init => IInv
<1> SUFFICES ASSUME Init PROVE IInv
  OBVIOUS
<1>1. /\ call = Blank /\ walk = Nobody /\ power = FALSE
      /\ acct = [u \in Users |-> NoRow]
  BY DEF Init, AccountsInit
<1>2. TypeOK
  BY <1>1, BlankTyped DEF TypeOK
<1>3. CallOK
  <2>1. CallSane
    BY <1>1, BlankTyped, Ids DEF CallSane, Unsigned
  <2> QED BY <1>1, <2>1, BlankTyped DEF CallOK, CallAllowed, CallRemembers, CallChecked, InFlight
<1>4. WalkOK
  BY <1>1, BlankTyped DEF WalkOK, WalkPlace, PageFits, PageRead, WalkCovers, Owing
<1>5. AnswerOK
  BY <1>1, BlankTyped DEF AnswerOK, DataOnlyToEntitled, AnswersTruthful, Answered
<1> QED BY <1>2, <1>3, <1>4, <1>5 DEF IInv

\* Back to no call.
LEMMA Idling ==
    ASSUME IInv, call' = Blank, UNCHANGED accountVars
    PROVE  /\ call' \in CallState /\ CallOK' /\ AnswerOK' /\ ~PageRead'
           /\ acct' \in [Users -> Account \cup {NoRow, Gone}] /\ power' \in BOOLEAN
<1>1. CallSane'
  BY BlankTyped, Ids DEF CallSane, Unsigned
<1>2. CallAllowed' /\ CallRemembers' /\ CallChecked' /\ AnswerOK'
  BY BlankTyped DEF CallAllowed, CallRemembers, CallChecked, InFlight, AnswerOK, DataOnlyToEntitled,
                    AnswersTruthful, Answered
<1> QED BY <1>1, <1>2, BlankTyped DEF CallOK, PageRead, IInv, TypeOK, accountVars

LEMMA SendStep ==
    ASSUME IInv,
           NEW proc \in Procedures \cup {"Unknown"}, NEW h \in Header,
           NEW x \in Targets(proc), NEW f \in FormsOf(proc), NEW a \in Contents(proc),
           Send(proc, h, x, f, a)
    PROVE  IInv'
<1> SUFFICES ASSUME NEW c, c = [Blank EXCEPT !.proc = proc, !.header = h, !.target = x, !.form = f,
                                             !.admin = a.admin, !.active = a.active]
             PROVE  IInv'
  OBVIOUS
<1>1. /\ walk = Nobody /\ proc # "List" /\ Submit(c) /\ UNCHANGED <<accountVars, walk>>
      /\ h \in Claims => Circulating(h)
  BY DEF Send
<1>2. x \in Users \cup AlternateIds \cup Roots \cup {Nobody}
  BY DEF Targets, AlternateIds
<1>3. f \in Forms
  BY DEF FormsOf, Forms
<1>4. a.admin \in BOOLEAN /\ a.active \in BOOLEAN
  <2>1. [active |-> TRUE, admin |-> FALSE] \in Account
    BY DEF Account
  <2>2. a \in Account
    BY <2>1 DEF Contents
  <2> QED BY <2>2 DEF Account
<1>5. c \in CallState
  <2>1. Targets(proc) \subseteq Users \cup {AlternateId[u] : u \in Users} \cup Roots \cup {Nobody}
    BY DEF Targets
  <2>2. c = [step |-> "idle", proc |-> proc, header |-> h, target |-> x, form |-> f,
             admin |-> a.admin, active |-> a.active, code |-> "none",
             seen |-> {}, absent |-> FALSE, lacked |-> FALSE, failed |-> FALSE]
    BY DEF Blank
  <2>3. /\ x \in Users \cup {AlternateId[u] : u \in Users} \cup Roots \cup {Nobody}
        /\ proc \in Procedures \cup {"Unknown", "none"}
    BY <2>1
  <2>4. \A ad, ac \in BOOLEAN :
           [step |-> "idle", proc |-> proc, header |-> h, target |-> x, form |-> f,
            admin |-> ad, active |-> ac, code |-> "none",
            seen |-> {}, absent |-> FALSE, lacked |-> FALSE, failed |-> FALSE] \in CallState
    BY <1>3, <2>3 DEF CallState
  <2>5. PICK ad \in BOOLEAN, ac \in BOOLEAN : ad = a.admin /\ ac = a.active
    BY <1>4
  <2>6. c = [step |-> "idle", proc |-> proc, header |-> h, target |-> x, form |-> f,
             admin |-> ad, active |-> ac, code |-> "none",
             seen |-> {}, absent |-> FALSE, lacked |-> FALSE, failed |-> FALSE]
    BY <2>2, <2>5
  <2> QED BY <2>4, <2>6
<1>6. /\ c.step = "idle" /\ c.seen = {} /\ c.proc = proc /\ c.target = x /\ c.header = h
  BY DEF Blank
<1>7. /\ proc \in {"Get", "Update", "Delete", "Create"} => x \in Users
      /\ proc = "GetByExternalId" => x \in AlternateIds \cup Roots
  BY DEF Targets, AlternateIds
<1>8. /\ call' \in CallState /\ call'.proc = proc /\ call'.step = "sent"
      /\ CallOK' /\ AnswerOK'
  BY <1>1, <1>5, <1>6, <1>7, Submitting
<1>9. TypeOK'
  BY <1>1, <1>8 DEF IInv, TypeOK, accountVars
<1>10. WalkOK'
  BY <1>1, <1>8 DEF WalkOK, WalkPlace, PageFits, PageRead, WalkCovers, Owing
<1> QED BY <1>8, <1>9, <1>10 DEF IInv

LEMMA ListCallTyped ==
    ASSUME NEW h \in Claims
    PROVE  /\ ListCall(h) \in CallState
           /\ ListCall(h).step = "idle" /\ ListCall(h).seen = {}
           /\ ListCall(h).proc = "List" /\ ListCall(h).header = h
BY DEF ListCall, Blank, CallState, Header, Procedures, UserServiceProcedures, Forms

LEMMA NoWalk ==
    ASSUME walk' = Nobody, call'.proc # "List"
    PROVE  WalkOK'
BY DEF WalkOK, WalkPlace, PageFits, PageRead, WalkCovers, Owing

\* A walk begins: it owes everyone there is.
LEMMA BeginWalkStep ==
    ASSUME IInv, NEW h \in Claims, NEW limit \in Limits, NEW disabled \in BOOLEAN,
           BeginWalk(h, limit, disabled)
    PROVE  IInv'
<1> SUFFICES ASSUME NEW w, w = [header |-> h, limit |-> limit, disabled |-> disabled, offset |-> 0,
                                read |-> {}, owed |-> Rows, shrunk |-> FALSE, done |-> FALSE]
             PROVE  IInv'
  OBVIOUS
<1>1. walk' = w /\ Submit(ListCall(h)) /\ Circulating(h) /\ UNCHANGED accountVars
  BY DEF BeginWalk
<1>2. Rows \in SUBSET Users /\ Cardinality(Users) \in Nat
  BY IdsFit, FS_CardinalityType DEF Rows
<1>3. w \in Walk /\ w # Nobody
  <2>1. 0 \in 0..Cardinality(Users) /\ {} \in SUBSET Users /\ Rows \in SUBSET Users
    BY <1>2
  <2>2. w \in Walk
    BY <2>1 DEF Walk
  <2> QED BY <2>2, ValuesDiffer
<1>4. w.offset = 0 /\ w.owed = Rows /\ ~w.done
  OBVIOUS
<1>5. /\ call' \in CallState /\ call'.proc = "List" /\ call'.step = "sent"
      /\ CallOK' /\ AnswerOK'
  BY <1>1, ListCallTyped, Submitting
<1>6. TypeOK'
  BY <1>1, <1>3, <1>5 DEF IInv, TypeOK, accountVars
<1>7. WalkPlace' /\ ~PageRead'
  BY <1>1, <1>3, <1>4, <1>5 DEF WalkPlace, PageRead
<1>8. WalkCovers'
  <2>1. Rows' = Rows
    BY <1>1 DEF Rows, Present, accountVars
  <2>2. \A u : Rank(u, Rows)' \in Nat
    BY <1>2, <2>1, RankType DEF Rank
  <2> QED BY <1>1, <1>4, <1>7, <2>1, <2>2 DEF WalkCovers
<1> QED BY <1>5, <1>6, <1>7, <1>8 DEF IInv, WalkOK, PageFits

LEMMA ForgetStep == ASSUME IInv, Forget PROVE IInv'
<1>1. call' = Blank /\ walk' = Nobody /\ UNCHANGED accountVars
  BY DEF Forget
<1>2. WalkOK'
  BY <1>1, BlankTyped, NoWalk
<1> QED BY <1>1, <1>2, Idling DEF IInv, TypeOK

LEMMA EndWalkStep == ASSUME IInv, EndWalk PROVE IInv'
<1>1. call' = Blank /\ walk' = Nobody /\ UNCHANGED accountVars
  BY DEF EndWalk
<1>2. WalkOK'
  BY <1>1, BlankTyped, NoWalk
<1> QED BY <1>1, <1>2, Idling DEF IInv, TypeOK

\* Nobody has a rank beyond the number of ids.
LEMMA RankAtMost ==
    ASSUME NEW u \in Rows
    PROVE  /\ Rank(u, Rows) \in Nat /\ Cardinality(Users) \in Nat
           /\ Rank(u, Rows) < Cardinality(Users)
<1>1. Rows \in SUBSET Users
  BY DEF Rows
<1>2. Cardinality(Rows) \in Nat /\ Cardinality(Users) \in Nat /\ Cardinality(Rows) <= Cardinality(Users)
  BY <1>1, IdsFit, RankType, FS_Subset, FS_CardinalityType
<1>3. Rank(u, Rows) < Cardinality(Rows) /\ Rank(u, Rows) \in Nat
  BY <1>1, RankBelow, RankType
<1> QED BY <1>2, <1>3

LEMMA NextPageStep == ASSUME IInv, NextPage PROVE IInv'
<1>1. /\ call.step = "answered" /\ walk # Nobody /\ ~walk.done /\ walk \in Walk
      /\ call \in CallState /\ UNCHANGED accountVars
  BY DEF NextPage, IInv, TypeOK
<1>2. Rows' = Rows
  BY <1>1 DEF Rows, Present, accountVars
<1>3. CASE call.code # "ok"
  <2>1. call' = Blank /\ walk' = Nobody
    BY <1>3 DEF NextPage
  <2>2. WalkOK'
    BY <2>1, BlankTyped, NoWalk
  <2> QED BY <1>1, <2>1, <2>2, Idling DEF IInv, TypeOK
<1>4. CASE call.code = "ok" /\ (call.seen = {} \/ walk.offset >= Cardinality(Users))
  <2>1. call' = Blank /\ walk' = [walk EXCEPT !.done = TRUE]
    BY <1>4 DEF NextPage
  <2>2. /\ walk' \in Walk /\ walk'.done
        /\ walk'.disabled = walk.disabled /\ walk'.shrunk = walk.shrunk
        /\ walk'.owed = walk.owed /\ walk'.read = walk.read /\ walk'.offset = walk.offset
    BY <1>1, <2>1 DEF Walk
  <2>3. walk' # Nobody
    BY <2>2, ValuesDiffer
  <2>4. TypeOK' /\ CallOK' /\ AnswerOK' /\ ~PageRead'
    BY <1>1, <2>1, <2>2, Idling DEF TypeOK
  <2>5. WalkPlace'
    BY <2>1, <2>2, BlankTyped DEF WalkPlace
  <2>6. WalkCovers'
    <3>1. SUFFICES ASSUME Owing PROVE WalkCovers'
      BY <1>1, <2>2 DEF WalkCovers, Owing
    <3>2. /\ walk.owed \subseteq Rows
          /\ \A u \in walk.owed : Rank(u, Rows) < walk.offset => u \in walk.read
          /\ call.seen = {} => walk.owed \subseteq walk.read
      BY <1>1, <1>4, <3>1 DEF IInv, WalkOK, WalkCovers, PageRead
    <3>3. walk.owed \subseteq walk.read
      <4>1. CASE call.seen = {}
        BY <3>2, <4>1
      <4>2. CASE walk.offset >= Cardinality(Users)
        <5>1. walk.offset \in Nat
          BY <1>1 DEF Walk
        <5>2. \A u \in walk.owed : Rank(u, Rows) < walk.offset
          BY <3>2, <4>2, <5>1, RankAtMost
        <5> QED BY <3>2, <5>2
      <4> QED BY <1>4, <4>1, <4>2
    <3>4. \A u : Rank(u, Rows)' = Rank(u, Rows)
      BY <1>2 DEF Rank
    <3> QED BY <1>2, <2>2, <2>4, <3>2, <3>3, <3>4 DEF WalkCovers
  <2> QED BY <2>4, <2>5, <2>6 DEF IInv, WalkOK, PageFits
<1>5. CASE call.code = "ok" /\ ~(call.seen = {} \/ walk.offset >= Cardinality(Users))
  <2>1. SUFFICES ASSUME NEW n, n = Cardinality(call.seen) PROVE IInv'
    OBVIOUS
  <2>2. /\ Circulating(walk.header) /\ Submit(ListCall(walk.header))
        /\ walk' = [walk EXCEPT !.offset = @ + n, !.read = @ \cup call.seen]
    BY <1>5, <2>1 DEF NextPage
  <2>3. call.seen \in SUBSET Users /\ n \in Nat /\ walk.offset \in Nat /\ Cardinality(Users) \in Nat
    <3>1. call.seen \in SUBSET Users
      BY <1>1 DEF CallState
    <3>2. Cardinality(call.seen) \in Nat
      BY <3>1, RankType
    <3>3. Cardinality(Users) \in Nat
      BY IdsFit, FS_CardinalityType
    <3>4. walk.offset \in Nat
      BY <1>1, <3>3 DEF Walk
    <3> QED BY <2>1, <3>1, <3>2, <3>3, <3>4
  <2>4. walk.offset + n <= Cardinality(Users)
    BY <1>1, <1>5, <2>1 DEF IInv, WalkOK, PageFits, PageRead
  <2>5. /\ walk' \in Walk /\ ~walk'.done
        /\ walk'.disabled = walk.disabled /\ walk'.shrunk = walk.shrunk
        /\ walk'.owed = walk.owed /\ walk'.read = walk.read \cup call.seen
        /\ walk'.offset = walk.offset + n
    <3>1. walk.offset + n \in 0..Cardinality(Users)
      BY <2>3, <2>4
    <3>2. walk.read \cup call.seen \in SUBSET Users
      BY <1>1, <2>3 DEF Walk
    <3> QED BY <1>1, <2>2, <3>1, <3>2 DEF Walk
  <2>6. walk' # Nobody
    BY <2>5, ValuesDiffer
  <2>7. walk.header \in Claims
    BY <1>1 DEF Walk
  <2>8. /\ call' \in CallState /\ call'.proc = "List" /\ call'.step = "sent"
        /\ CallOK' /\ AnswerOK'
    BY <1>1, <2>2, <2>7, ListCallTyped, Submitting
  <2>9. TypeOK'
    BY <1>1, <2>5, <2>8 DEF IInv, TypeOK, accountVars
  <2>10. WalkPlace' /\ ~PageRead'
    BY <2>5, <2>6, <2>8 DEF WalkPlace, PageRead
  <2>11. WalkCovers'
    <3>1. SUFFICES ASSUME Owing PROVE WalkCovers'
      BY <1>1, <2>5 DEF WalkCovers, Owing
    <3>2. /\ walk.owed \subseteq Rows
          /\ \A u \in walk.owed : Rank(u, Rows) < walk.offset + n => u \in walk.read \cup call.seen
      BY <1>1, <1>5, <2>1, <3>1 DEF IInv, WalkOK, WalkCovers, PageRead
    <3>3. \A u : Rank(u, Rows)' = Rank(u, Rows)
      BY <1>2 DEF Rank
    <3> QED BY <1>2, <2>5, <2>10, <3>2, <3>3 DEF WalkCovers
  <2> QED BY <2>8, <2>9, <2>10, <2>11 DEF IInv, WalkOK, PageFits
<1> QED BY <1>3, <1>4, <1>5

LEMMA AccountsTyped ==
    ASSUME acct \in [Users -> Account \cup {NoRow, Gone}], power \in BOOLEAN, AccountsNext
    PROVE  /\ acct' \in [Users -> Account \cup {NoRow, Gone}] /\ power' \in BOOLEAN
           /\ \A u \in Users : acct[u] = Gone => acct'[u] = Gone
<1>1. \A b \in BOOLEAN : [active |-> TRUE, admin |-> b] \in Account
  BY DEF Account
<1>2. ASSUME NEW u \in Users, Enroll(u)
      PROVE  /\ acct' \in [Users -> Account \cup {NoRow, Gone}] /\ power' \in BOOLEAN
             /\ \A v \in Users : acct[v] = Gone => acct'[v] = Gone
  BY <1>1, <1>2, ValuesDiffer DEF Enroll
<1>3. ASSUME NEW u \in Users, Promote(u)
      PROVE  /\ acct' \in [Users -> Account \cup {NoRow, Gone}] /\ power' \in BOOLEAN
             /\ \A v \in Users : acct[v] = Gone => acct'[v] = Gone
  <2>1. acct[u] \in Account /\ acct' = [acct EXCEPT ![u].admin = TRUE] /\ power'
    BY <1>3 DEF Promote
  <2>2. [acct[u] EXCEPT !.admin = TRUE] \in Account
    BY <2>1 DEF Account
  <2> QED BY <1>3, <2>1, <2>2 DEF Promote
<1>4. ASSUME NEW u \in Users, Empower(u)
      PROVE  /\ acct' \in [Users -> Account \cup {NoRow, Gone}] /\ power' \in BOOLEAN
             /\ \A v \in Users : acct[v] = Gone => acct'[v] = Gone
  BY <1>4 DEF Empower
<1>5. ASSUME NEW u \in Users, Administer(u)
      PROVE  /\ acct' \in [Users -> Account \cup {NoRow, Gone}] /\ power' \in BOOLEAN
             /\ \A v \in Users : acct[v] = Gone => acct'[v] = Gone
  BY <1>1, <1>5, ValuesDiffer DEF Administer
<1>6. CASE RootAppears \/ LosePower
  BY <1>6 DEF RootAppears, LosePower
<1> QED BY <1>2, <1>3, <1>4, <1>5, <1>6 DEF AccountsNext

LEMMA OthersStep == ASSUME IInv, Others PROVE IInv'
<1>1. AccountsNext /\ (InFlight /\ call.header.admin => power')
  BY DEF Others
<1>2. call \in CallState /\ walk \in Walk \cup {Nobody}
  BY DEF IInv, TypeOK
<1>3. /\ acct' \in [Users -> Account \cup {NoRow, Gone}] /\ power' \in BOOLEAN
      /\ \A u \in Users : acct[u] = Gone => acct'[u] = Gone
  BY <1>1, AccountsTyped DEF IInv, TypeOK
<1>4. PICK c \in {call} : call' = [c EXCEPT !.absent = @ \/ (InFlight /\ Missing(c)'),
                                            !.lacked = @ \/ (InFlight /\ Lacking(c)')]
  BY DEF Others
<1>5. Missing(c)' \in BOOLEAN /\ Lacking(c)' \in BOOLEAN
  BY DEF Missing, Lacking, Present
<1>6. /\ call' \in CallState
      /\ call'.step = call.step /\ call'.proc = call.proc /\ call'.header = call.header
      /\ call'.target = call.target /\ call'.code = call.code /\ call'.seen = call.seen
      /\ call'.failed = call.failed /\ call'.admin = call.admin
      /\ call'.absent = (call.absent \/ (InFlight /\ Missing(c)'))
      /\ call'.lacked = (call.lacked \/ (InFlight /\ Lacking(c)'))
  BY <1>2, <1>4, <1>5 DEF CallState
<1>7. /\ walk = Nobody => walk' = Nobody
      /\ walk # Nobody => walk' = [walk EXCEPT !.shrunk = @ \/ \E u \in Rows : ~Present(u)']
  BY DEF Others
<1>8. walk # Nobody =>
         /\ walk' \in Walk /\ walk' # Nobody
         /\ walk'.disabled = walk.disabled /\ walk'.done = walk.done
         /\ walk'.owed = walk.owed /\ walk'.read = walk.read /\ walk'.offset = walk.offset
         /\ walk'.shrunk = (walk.shrunk \/ \E u \in Rows : ~Present(u)')
  <2>1. SUFFICES ASSUME walk # Nobody, NEW b \in BOOLEAN, b = (walk.shrunk \/ \E u \in Rows : ~Present(u)')
                 PROVE  /\ walk' \in Walk /\ walk' # Nobody
                        /\ walk'.disabled = walk.disabled /\ walk'.done = walk.done
                        /\ walk'.owed = walk.owed /\ walk'.read = walk.read /\ walk'.offset = walk.offset
                        /\ walk'.shrunk = b
    OBVIOUS
  <2>2. walk' = [walk EXCEPT !.shrunk = b] /\ walk \in Walk
    BY <1>2, <1>7, <2>1
  <2>3. /\ walk' \in Walk
        /\ walk'.disabled = walk.disabled /\ walk'.done = walk.done
        /\ walk'.owed = walk.owed /\ walk'.read = walk.read /\ walk'.offset = walk.offset
        /\ walk'.shrunk = b
    BY <2>2 DEF Walk
  <2> QED BY <2>3, ValuesDiffer
<1>9. TypeOK'
  BY <1>3, <1>6, <1>7, <1>8 DEF TypeOK
<1>10. CallSane'
  BY <1>6 DEF IInv, CallOK, CallSane
<1>11. CallAllowed'
  BY <1>1, <1>6 DEF IInv, CallOK, CallAllowed, InFlight
<1>12. CallRemembers' /\ CallChecked'
  <2>1. (Missing(call)' => Missing(c)') /\ (Lacking(call)' => Lacking(c)')
    BY <1>4, <1>6 DEF Missing, Lacking, Present, WithId, Rows
  <2>2. OwnDemotion' = OwnDemotion
    BY <1>6 DEF OwnDemotion, CallerId
  <2> QED BY <1>6, <2>1, <2>2 DEF IInv, CallOK, CallRemembers, CallChecked, InFlight
<1>13. AnswerOK'
  <2>1. DataOnlyToEntitled'
    BY <1>6 DEF IInv, AnswerOK, DataOnlyToEntitled, Answered
  <2>2. AnswersTruthful'
    <3>1. Answered({"Delete"}) => call.target \in Users
      BY DEF IInv, CallOK, CallSane, Answered
    <3>2. CallerId' = CallerId
      BY <1>6 DEF CallerId
    <3> QED BY <1>3, <1>6, <3>1, <3>2 DEF IInv, AnswerOK, AnswersTruthful, Answered
  <2> QED BY <2>1, <2>2 DEF AnswerOK
<1>14. WalkPlace'
  <2>1. call = Blank => call' = Blank
    <3>1. SUFFICES ASSUME call = Blank PROVE call' = Blank
      OBVIOUS
    <3>2. ~InFlight /\ c = Blank
      BY <1>4, <3>1, BlankTyped DEF InFlight
    <3>3. call' = [Blank EXCEPT !.absent = @ \/ FALSE, !.lacked = @ \/ FALSE]
      BY <1>4, <3>2
    <3> QED BY <3>3 DEF Blank
  <2> QED BY <1>6, <1>7, <1>8, <2>1 DEF IInv, WalkOK, WalkPlace
<1>15. PageFits'
  BY <1>6, <1>7, <1>8 DEF IInv, WalkOK, PageFits, PageRead
<1>16. WalkCovers'
  <2>1. SUFFICES ASSUME Owing' PROVE WalkCovers'
    BY DEF WalkCovers
  <2>2. Owing /\ walk # Nobody /\ \A u \in Rows : Present(u)'
    BY <1>7, <1>8, <2>1 DEF Owing
  <2>3. Rows \subseteq Rows'
    BY <2>2 DEF Rows
  <2>4. ASSUME NEW u \in walk.owed
        PROVE  /\ Rank(u, Rows)' \in Nat /\ Rank(u, Rows) \in Nat
               /\ Rank(u, Rows) <= Rank(u, Rows)'
    <3>1. SUFFICES ASSUME NEW R, R = Rows, NEW Q, Q = Rows'
                   PROVE  Rank(u, Q) \in Nat /\ Rank(u, R) \in Nat /\ Rank(u, R) <= Rank(u, Q)
      BY DEF Rank
    <3>2. R \in SUBSET Users /\ Q \in SUBSET Users /\ R \subseteq Q
      BY <2>3, <3>1 DEF Rows
    <3> QED BY <3>2, RankType, RankGrows
  <2>5. PageRead' => PageRead
    BY <1>6, <2>2 DEF PageRead
  <2>6. /\ walk.owed \subseteq Rows
        /\ \A u \in walk.owed : Rank(u, Rows) < walk.offset => u \in walk.read
        /\ walk.done => walk.owed \subseteq walk.read
    BY <2>2 DEF IInv, WalkOK, WalkCovers
  <2>7. walk.offset \in Nat /\ Cardinality(call.seen) \in Nat
    <3>1. call.seen \in SUBSET Users /\ Cardinality(Users) \in Nat
      BY <1>2, IdsFit, FS_CardinalityType DEF CallState
    <3>2. walk.offset \in Nat
      <4>1. walk \in Walk /\ walk # Nobody
        BY <1>2, <2>2
      <4>2. walk.offset \in 0..Cardinality(Users)
        BY <4>1 DEF Walk
      <4> QED BY <3>1, <4>2
    <3>3. Cardinality(call.seen) \in Nat
      BY <3>1, RankType
    <3> QED BY <3>2, <3>3
  <2>8. \A u \in walk.owed : Rank(u, Rows)' < walk.offset => u \in walk.read
    BY <2>4, <2>6, <2>7
  <2>9. PageRead =>
           /\ \A u \in walk.owed :
                 Rank(u, Rows)' < walk.offset + Cardinality(call.seen) => u \in walk.read \cup call.seen
           /\ call.seen = {} => walk.owed \subseteq walk.read
    <3>1. SUFFICES ASSUME PageRead
                   PROVE  /\ \A u \in walk.owed :
                                Rank(u, Rows)' < walk.offset + Cardinality(call.seen)
                                => u \in walk.read \cup call.seen
                          /\ call.seen = {} => walk.owed \subseteq walk.read
      OBVIOUS
    <3>2. /\ \A u \in walk.owed :
                Rank(u, Rows) < walk.offset + Cardinality(call.seen) => u \in walk.read \cup call.seen
          /\ call.seen = {} => walk.owed \subseteq walk.read
      BY <2>2, <3>1 DEF IInv, WalkOK, WalkCovers
    <3> QED BY <2>4, <2>7, <3>2
  <2> QED BY <1>6, <1>8, <2>2, <2>3, <2>5, <2>6, <2>8, <2>9 DEF WalkCovers
<1> QED BY <1>9, <1>10, <1>11, <1>12, <1>13, <1>14, <1>15, <1>16 DEF IInv, CallOK, WalkOK

-----------------------------------------------------------------------------
(* The theorems *)

\* Every step keeps the invariant, and is a step of Accounts or leaves them alone.
LEMMA NextIInv ==
    ASSUME IInv, [Next]_vars
    PROVE  IInv' /\ [AccountsNext]_accountVars
<1>1. CASE UNCHANGED vars
  <2>1. /\ UNCHANGED <<acct, power, call, walk>>
    BY <1>1 DEF vars, accountVars, gatewayVars
  <2>2. TypeOK' /\ CallOK' /\ AnswerOK'
    BY <2>1 DEF IInv, TypeOK, CallOK, CallSane, CallAllowed, CallRemembers, CallChecked,
                OwnDemotion, CallerId, InFlight, Missing, Lacking, Present, WithId, Rows,
                AnswerOK, DataOnlyToEntitled, AnswersTruthful, Answered
  <2>3. WalkOK'
    BY <2>1 DEF IInv, WalkOK, WalkPlace, PageFits, PageRead, WalkCovers, Owing, Rank, Rows, Present
  <2> QED BY <2>1, <2>2, <2>3 DEF IInv, accountVars
<1>2. CASE Sending
  <2>1. ASSUME NEW proc \in Procedures \cup {"Unknown"}, NEW h \in Header,
               NEW x \in Targets(proc), NEW f \in FormsOf(proc), NEW a \in Contents(proc),
               Send(proc, h, x, f, a)
        PROVE  IInv' /\ UNCHANGED accountVars
    BY <2>1, SendStep DEF Send
  <2>2. ASSUME NEW h \in Claims, NEW limit \in Limits, NEW disabled \in BOOLEAN,
               BeginWalk(h, limit, disabled)
        PROVE  IInv' /\ UNCHANGED accountVars
    BY <2>2, BeginWalkStep DEF BeginWalk
  <2> QED BY <1>2, <2>1, <2>2 DEF Sending
<1>3. CASE Serving
  <2>1. CASE Dispatch \/ Intercept
    BY <2>1, DispatchStep, InterceptStep DEF Dispatch, Intercept
  <2>2. CASE Get \/ GetByExternalId \/ Count \/ List
    BY <2>2, GetStep, GetByExternalIdStep, CountStep, ListStep DEF Get, GetByExternalId, Count, List
  <2>3. CASE ValidateToken \/ GetCurrentUser \/ ManageTokens
    BY <2>3, ValidateTokenStep, GetCurrentUserStep, ManageTokensStep
       DEF ValidateToken, GetCurrentUser, ManageTokens
  <2>4. CASE Update \/ EnsureNotSelfDemotion \/ Delete \/ Exist
    BY <2>4, UpdateStep, EnsureNotSelfDemotionStep, DeleteStep, ExistStep
       DEF Update, EnsureNotSelfDemotion, Delete, Exist
  <2>5. CASE Create \/ Write
    BY <2>5, CreateStep, WriteStep
  <2> QED BY <1>3, <2>1, <2>2, <2>3, <2>4, <2>5 DEF Serving
<1>4. CASE Forget \/ NextPage \/ EndWalk
  BY <1>4, ForgetStep, NextPageStep, EndWalkStep DEF Forget, NextPage, EndWalk
<1>5. CASE Others
  BY <1>5, OthersStep DEF Others
<1> QED BY <1>1, <1>2, <1>3, <1>4, <1>5 DEF Next

\* The strengthening holds in every reachable state.
THEOREM InductiveInvariant == Spec => []IInv
<1>1. IInv /\ [Next]_vars => IInv'
  BY NextIInv
<1> QED BY <1>1, InitIInv, PTL DEF Spec

\* Calls, answers and walks have their types; in particular a walk's offset never
\* passes the number of ids.
THEOREM TypeCorrect == Spec => []TypeOK
<1>1. IInv => TypeOK
  BY DEF IInv
<1> QED BY <1>1, InductiveInvariant, PTL

\* requireAdmin, requireSelfOrAdmin and the interceptor: an answer shows data to the
\* entitled only.
THEOREM EntitledCorrect == Spec => []DataOnlyToEntitled
<1>1. IInv => DataOnlyToEntitled
  BY DEF IInv, AnswerOK
<1> QED BY <1>1, InductiveInvariant, PTL

\* What an answer says of its subject is so at some moment of the call, whatever the
\* accounts did meanwhile: no lookup by id says "not found" of a user that is there,
\* nobody is denied what is theirs, and nobody demotes themselves out of a role the
\* row has had all along.  Where the code itself reports a failed statement as "not
\* found", before a write and of the caller, that is what the answer may mean.
THEOREM TruthfulCorrect == Spec => []AnswersTruthful
<1>1. IInv => AnswersTruthful
  BY DEF IInv, AnswerOK
<1> QED BY <1>1, InductiveInvariant, PTL

\* List, page by page: nobody is skipped.
THEOREM NobodySkippedCorrect == Spec => []NobodySkipped
<1>1. IInv => NobodySkipped
  BY DEF IInv, WalkOK, WalkCovers, Owing, NobodySkipped
<1> QED BY <1>1, InductiveInvariant, PTL

\* What the client's calls write is what Accounts allows.
THEOREM WithinAccountsCorrect == Spec => StaysWithinAccounts
<1>1. Init => AccountsInit
  BY DEF Init
<1>2. IInv /\ [Next]_vars => [AccountsNext]_accountVars
  BY NextIInv
<1> QED BY <1>1, <1>2, InductiveInvariant, PTL DEF Spec, StaysWithinAccounts, AccountsSpec

=============================================================================
