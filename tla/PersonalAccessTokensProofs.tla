--------------------- MODULE PersonalAccessTokensProofs ---------------------
(***************************************************************************)
(* PersonalAccessTokens for any number of users, tokens and requests, any  *)
(* lifetimes and any clock.                                                *)
(*                                                                         *)
(* The inductive invariant says what an introspection between two of its   *)
(* statements still knows: the row it read is the row there is, but for a  *)
(* revocation or a deletion since, and neither can be older than the       *)
(* request.                                                                *)
(***************************************************************************)
EXTENDS PersonalAccessTokens, TLAPS

\* The row an introspection has read, against the row there is.
ReadTruly(k) ==
    /\ k.since <= now
    /\ pats[k.pat] # Unused
    /\ IsRow(k.pat) =>
          /\ pats[k.pat].user = k.row.user
          /\ pats[k.pat].expiresAt = k.row.expiresAt
          /\ k.row.revokedAt = None =>
                pats[k.pat].revokedAt = None \/ k.since <= pats[k.pat].revokedAt

\* It has passed the two checks made on the row itself.
Passed(k) ==
    /\ k.row.revokedAt = None
    /\ k.row.expiresAt = None \/ k.since <= k.row.expiresAt

\* VerdictFresh, of one verdict.
Fresh(k) ==
    LET r == pats[k.pat]
    IN  IsRow(k.pat) =>
            /\ r.revokedAt = None \/ k.since <= r.revokedAt
            /\ r.expiresAt = None \/ k.since <= r.expiresAt
            /\ Active(r.user) \/ k.since <= lost[r.user]

Knows(k) ==
    k # None =>
        /\ k.at = "getByHash" => k.since <= now
        /\ k.at \in {"check", "getByID"} => ReadTruly(k)
        /\ k.at = "getByID" => Passed(k)
        /\ k.at = "answer" /\ k.active =>
              k.since <= now /\ pats[k.pat] # Unused /\ Fresh(k)

\* What a goroutine was started for.
Justified ==
    /\ \A p \in Pats : found[p] # None => found[p] <= now
    /\ \A g \in touching :
          /\ found[g.pat] # None /\ g.start <= found[g.pat]
          /\ now <= g.start + TouchTimeout

IInv ==
    /\ TypeOK
    /\ \A h \in Calls : Knows(call[h])
    /\ Justified
    /\ UsedMeansUsed

-----------------------------------------------------------------------------
(* Types *)

\* Which record a request is, by what it is about to do.
LEMMA CallKinds ==
    ASSUME NEW k \in Call
    PROVE  /\ k.at = "getByHash" => k \in [at : {"getByHash"}, pat : Pats, since : Nat]
           /\ k.at \in {"check", "getByID"} =>
                 k.pat \in Pats /\ k.since \in Nat /\ k.row \in Snapshot
           /\ k.at = "check" => [k EXCEPT !.at = "getByID"] \in Call
           /\ k.at = "answer" => k \in Verdict
           /\ k.at = "insert" => k \in Owning
           /\ k.at = "revoke" => k \in Revoking
BY DEF Call, Introspecting, Verdict, Owning, Revoking

LEMMA AccountsTyped ==
    ASSUME acct \in [Users -> Account \cup {NoRow, Gone}], power \in BOOLEAN, AccountsNext
    PROVE  /\ acct' \in [Users -> Account \cup {NoRow, Gone}]
           /\ power' \in BOOLEAN
<1>1. \A b \in BOOLEAN : [active |-> TRUE, admin |-> b] \in Account
  BY DEF Account
<1>2. ASSUME NEW u \in Users, Enroll(u)
      PROVE  acct' \in [Users -> Account \cup {NoRow, Gone}] /\ power' \in BOOLEAN
  BY <1>1, <1>2 DEF Enroll
<1>3. ASSUME NEW u \in Users, Promote(u)
      PROVE  acct' \in [Users -> Account \cup {NoRow, Gone}] /\ power' \in BOOLEAN
  <2>1. acct[u] \in Account
    BY <1>3 DEF Promote
  <2>2. [acct[u] EXCEPT !.admin = TRUE] \in Account
    BY <2>1 DEF Account
  <2>3. acct' = [acct EXCEPT ![u] = [acct[u] EXCEPT !.admin = TRUE]]
    BY <1>3 DEF Promote
  <2> QED BY <1>3, <2>2, <2>3 DEF Promote
<1>4. ASSUME NEW u \in Users, Empower(u)
      PROVE  acct' \in [Users -> Account \cup {NoRow, Gone}] /\ power' \in BOOLEAN
  BY <1>4 DEF Empower
<1>5. ASSUME NEW u \in Users, Administer(u)
      PROVE  acct' \in [Users -> Account \cup {NoRow, Gone}] /\ power' \in BOOLEAN
  BY <1>1, <1>5 DEF Administer
<1>6. CASE RootAppears \/ LosePower
  BY <1>6 DEF RootAppears, LosePower
<1> QED BY <1>2, <1>3, <1>4, <1>5, <1>6 DEF AccountsNext

\* A row is a record, neither of the two other things an entry may be.
LEMMA RowTyped ==
    ASSUME TypeOK, NEW p \in Pats, IsRow(p)
    PROVE  pats[p] \in Pat
BY DEF TypeOK, IsRow

-----------------------------------------------------------------------------
(* What the steps keep *)

\* One request moves on; nothing else changes.
LEMMA OneCall ==
    ASSUME IInv, NEW h \in Calls, NEW k \in Call \cup {None}, Become(h, k), Knows(k),
           UNCHANGED <<now, pats, touching, found, acct, power, lost>>
    PROVE  IInv'
<1>1. call \in [Calls -> Call \cup {None}] /\ call' = [call EXCEPT ![h] = k]
  BY DEF IInv, TypeOK, Become
<1>2. call'[h] = k /\ \A i \in Calls : i # h => call'[i] = call[i]
  BY <1>1
<1>3. call' \in [Calls -> Call \cup {None}]
  BY <1>1
<1>4. TypeOK'
  BY <1>3 DEF IInv, TypeOK
<1>5. \A i \in Calls : Knows(call[i])'
  <2>1. SUFFICES ASSUME NEW i \in Calls PROVE Knows(call[i])'
    OBVIOUS
  <2>2. Knows(call'[i])
    BY <1>2 DEF IInv
  <2> QED BY <2>2 DEF Knows, ReadTruly, Passed, Fresh, IsRow, Active, Exists
<1>6. Justified' /\ UsedMeansUsed'
  BY DEF IInv, Justified, UsedMeansUsed, IsRow
<1> QED BY <1>4, <1>5, <1>6 DEF IInv

LEMMA SubmitKeeps ==
    ASSUME IInv, NEW h \in Calls, SubmitIntrospect(h) \/ SubmitCreate(h) \/ SubmitRevoke(h)
    PROVE  IInv'
<1>1. UNCHANGED <<now, pats, touching, found, acct, power, lost>>
  BY DEF SubmitIntrospect, SubmitCreate, SubmitRevoke, KeepAccounts
<1>2. now \in Nat
  BY DEF IInv, TypeOK
<1>3. ASSUME NEW p \in Pats, Become(h, [at |-> "getByHash", pat |-> p, since |-> now]) PROVE IInv'
  <2> SUFFICES ASSUME NEW k, k = [at |-> "getByHash", pat |-> p, since |-> now] PROVE IInv'
    OBVIOUS
  <2>1. k \in Call /\ Knows(k)
    BY <1>2 DEF Call, Introspecting, Knows
  <2> QED BY <1>1, <1>3, <2>1, OneCall
<1>4. ASSUME NEW u \in Users, Become(h, [at |-> "insert", user |-> u]) PROVE IInv'
  <2> SUFFICES ASSUME NEW k, k = [at |-> "insert", user |-> u] PROVE IInv'
    OBVIOUS
  <2>1. k \in Call /\ Knows(k)
    BY DEF Call, Owning, Knows
  <2> QED BY <1>1, <1>4, <2>1, OneCall
<1>5. ASSUME NEW u \in Users, NEW p \in Pats, Become(h, [at |-> "revoke", user |-> u, pat |-> p])
      PROVE  IInv'
  <2> SUFFICES ASSUME NEW k, k = [at |-> "revoke", user |-> u, pat |-> p] PROVE IInv'
    OBVIOUS
  <2>1. k \in Call /\ Knows(k)
    BY DEF Call, Revoking, Knows
  <2> QED BY <1>1, <1>5, <2>1, OneCall
<1> QED BY <1>3, <1>4, <1>5 DEF SubmitIntrospect, SubmitCreate, SubmitRevoke

\* A request that ends, or answers "inactive".
LEMMA EndsKeep ==
    ASSUME IInv, NEW h \in Calls,
           UNCHANGED <<now, pats, touching, found, acct, power, lost>>,
           \/ Become(h, None)
           \/ call[h] \in Call /\ call[h].pat \in Pats /\ call[h].since \in Nat /\ Answer(h, FALSE)
    PROVE  IInv'
<1>1. CASE Become(h, None)
  <2>1. Knows(None)
    BY DEF Knows
  <2> QED BY <1>1, <2>1, OneCall
<1>2. CASE call[h].pat \in Pats /\ call[h].since \in Nat /\ Answer(h, FALSE)
  <2> SUFFICES ASSUME NEW k, k = [at |-> "answer", pat |-> call[h].pat, since |-> call[h].since,
                                  active |-> FALSE]
               PROVE  IInv'
    OBVIOUS
  <2>1. k \in Call /\ Knows(k) /\ Become(h, k)
    BY <1>2 DEF Call, Verdict, Knows, Answer
  <2> QED BY <2>1, OneCall
<1> QED BY <1>1, <1>2

LEMMA GetByHashKeeps ==
    ASSUME IInv, NEW h \in Calls, GetByHash(h)
    PROVE  IInv'
<1> DEFINE p == call[h].pat
<1>1. /\ UNCHANGED <<now, pats, touching, found, acct, power, lost>>
      /\ call[h] \in Call /\ call[h].at = "getByHash" /\ call[h].since <= now
  BY DEF GetByHash, KeepAccounts, At, IInv, TypeOK, Knows
<1>2. p \in Pats /\ call[h].since \in Nat
  BY <1>1, CallKinds
<1>3. CASE ~IsRow(p)
  BY <1>1, <1>2, <1>3, EndsKeep DEF GetByHash
<1>4. CASE IsRow(p)
  <2> SUFFICES ASSUME NEW k,
                      k = [at |-> "check", pat |-> p, since |-> call[h].since,
                           row |-> [user |-> pats[p].user, expiresAt |-> pats[p].expiresAt,
                                    revokedAt |-> pats[p].revokedAt]]
               PROVE  IInv'
    OBVIOUS
  <2>1. Become(h, k)
    BY <1>4 DEF GetByHash
  <2>2. pats[p] \in Pat
    BY <1>2, <1>4, RowTyped DEF IInv
  <2>3. k.row \in Snapshot
    BY <2>2 DEF Pat, Snapshot
  <2>4. k \in Call
    BY <1>2, <2>3 DEF Call, Introspecting
  <2>5. ReadTruly(k)
    BY <1>1, <1>4 DEF ReadTruly, IsRow
  <2>6. Knows(k)
    BY <2>5 DEF Knows
  <2> QED BY <1>1, <2>1, <2>4, <2>6, OneCall
<1> QED BY <1>3, <1>4

LEMMA CheckKeeps ==
    ASSUME IInv, NEW h \in Calls, Check(h)
    PROVE  IInv'
<1>1. /\ UNCHANGED <<now, pats, touching, found, acct, power, lost>>
      /\ call[h] \in Call /\ call[h].at = "check" /\ ReadTruly(call[h])
  BY DEF Check, KeepAccounts, At, IInv, TypeOK, Knows
<1>2. call[h].pat \in Pats /\ call[h].since \in Nat /\ call[h].row \in Snapshot
  BY <1>1, CallKinds
<1>3. CASE call[h].row.revokedAt # None \/ Expired(call[h].row.expiresAt)
  BY <1>1, <1>2, <1>3, EndsKeep DEF Check
<1>4. CASE ~(call[h].row.revokedAt # None \/ Expired(call[h].row.expiresAt))
  <2> SUFFICES ASSUME NEW k, k = [call[h] EXCEPT !.at = "getByID"] PROVE IInv'
    OBVIOUS
  <2>1. Become(h, k) /\ k \in Call
    BY <1>1, <1>4, CallKinds DEF Check
  <2>2. /\ k.at = "getByID" /\ k.pat = call[h].pat /\ k.since = call[h].since
        /\ k.row = call[h].row
    <3>1. call[h] \in [at : {"check"}, pat : Pats, since : Nat, row : Snapshot]
      BY <1>1 DEF Call, Introspecting, Verdict, Owning, Revoking
    <3> QED BY <3>1
  <2>3. ReadTruly(k)
    BY <1>1, <2>2 DEF ReadTruly
  <2>4. Passed(k)
    <3>1. call[h].row.expiresAt \in Nat \cup {None} /\ now \in Nat
      BY <1>2 DEF Snapshot, Time, IInv, TypeOK
    <3>2. call[h].since <= now
      BY <1>1 DEF ReadTruly
    <3> QED BY <1>2, <1>4, <2>2, <3>1, <3>2 DEF Passed, Expired
  <2>5. Knows(k)
    BY <2>2, <2>3, <2>4 DEF Knows
  <2> QED BY <1>1, <2>1, <2>5, OneCall
<1> QED BY <1>3, <1>4

LEMMA ReplyKeeps ==
    ASSUME IInv, NEW h \in Calls, Reply(h)
    PROVE  IInv'
BY EndsKeep DEF Reply, KeepAccounts

LEMMA StatementFailsKeeps ==
    ASSUME IInv, NEW h \in Calls, StatementFails(h)
    PROVE  IInv'
<1>1. UNCHANGED <<now, pats, touching, found, acct, power, lost>>
  BY DEF StatementFails, KeepAccounts
<1>2. CASE Become(h, None)
  BY <1>1, <1>2, EndsKeep
<1>3. CASE At(h, "getByID") /\ Answer(h, FALSE)
  <2>1. call[h] \in Call /\ call[h].at = "getByID"
    BY <1>3 DEF At, IInv, TypeOK
  <2>2. call[h].pat \in Pats /\ call[h].since \in Nat
    BY <2>1, CallKinds
  <2> QED BY <1>1, <1>3, <2>1, <2>2, EndsKeep
<1> QED BY <1>2, <1>3 DEF StatementFails

\* The owner was active just now, so the verdict is fresh.
LEMMA GetByIDKeeps ==
    ASSUME IInv, NEW h \in Calls, GetByID(h)
    PROVE  IInv'
<1> SUFFICES ASSUME NEW p, p = call[h].pat,
                    NEW ok, ok = Active(call[h].row.user),
                    NEW k, k = [at |-> "answer", pat |-> p, since |-> call[h].since, active |-> ok]
             PROVE  IInv'
  OBVIOUS
<1>1. /\ UNCHANGED <<now, pats, acct, power, lost>>
      /\ call[h] \in Call /\ call[h].at = "getByID" /\ ReadTruly(call[h]) /\ Passed(call[h])
      /\ call \in [Calls -> Call \cup {None}] /\ call' = [call EXCEPT ![h] = k]
      /\ now \in Nat /\ found \in [Pats -> Time]
      /\ touching \in SUBSET [pat : Pats, start : Nat]
  BY DEF GetByID, KeepAccounts, At, Answer, Become, IInv, TypeOK, Knows
<1>2. p \in Pats /\ call[h].since \in Nat /\ call[h].row \in Snapshot
  BY <1>1, CallKinds
<1>3. ok \in BOOLEAN
  <2>1. call[h].row.user \in Users
    BY <1>2 DEF Snapshot
  <2>2. Exists(call[h].row.user) => acct[call[h].row.user].active \in BOOLEAN
    BY <2>1 DEF Exists, IInv, TypeOK, Account
  <2> QED BY <2>2 DEF Active, Exists
<1>4. k \in Call
  BY <1>2, <1>3 DEF Call, Verdict
<1>5. ok => Fresh(k)
  <2>1. SUFFICES ASSUME ok, IsRow(p)
                 PROVE  /\ pats[p].revokedAt = None \/ call[h].since <= pats[p].revokedAt
                        /\ pats[p].expiresAt = None \/ call[h].since <= pats[p].expiresAt
                        /\ Active(pats[p].user)
    BY DEF Fresh
  <2> QED BY <1>1, <2>1 DEF ReadTruly, Passed
<1>6. Knows(k)
  BY <1>1, <1>5 DEF Knows, ReadTruly
<1>7. call'[h] = k /\ \A i \in Calls : i # h => call'[i] = call[i]
  BY <1>1
<1>8. \A i \in Calls : Knows(call[i])'
  <2>1. SUFFICES ASSUME NEW i \in Calls PROVE Knows(call[i])'
    OBVIOUS
  <2>2. Knows(call'[i])
    BY <1>6, <1>7 DEF IInv
  <2> QED BY <1>1, <2>2 DEF Knows, ReadTruly, Passed, Fresh, IsRow, Active, Exists
<1> DEFINE g == [pat |-> p, start |-> now]
<1>9. /\ touching' = IF ok THEN touching \cup {g} ELSE touching
      /\ found' = IF ok THEN [found EXCEPT ![p] = now] ELSE found
  BY DEF GetByID
<1>10. g \in [pat : Pats, start : Nat]
  BY <1>1, <1>2
<1>11. /\ touching' \in SUBSET [pat : Pats, start : Nat]
       /\ found' \in [Pats -> Time]
  <2>1. now \in Time
    BY <1>1 DEF Time
  <2> QED BY <1>1, <1>2, <1>9, <1>10, <2>1
<1>12. TypeOK'
  <2>1. call' \in [Calls -> Call \cup {None}]
    BY <1>1, <1>4
  <2> QED BY <1>1, <1>11, <2>1 DEF IInv, TypeOK
<1>13. \A q \in Pats : /\ found'[q] = found[q] \/ (q = p /\ ok /\ found'[q] = now)
                       /\ found[q] # None => found'[q] # None /\ found[q] <= found'[q]
  <2>1. \A q \in Pats : found[q] # None => found[q] \in Nat /\ found[q] <= now
    BY <1>1 DEF IInv, Justified, Time
  <2> QED BY <1>1, <1>2, <1>9, <2>1, PatAssumption
<1>14. Justified'
  <2>1. \A q \in Pats : found'[q] # None => found'[q] <= now
    BY <1>1, <1>13 DEF IInv, Justified
  <2>2. ASSUME NEW d \in touching'
        PROVE  /\ found'[d.pat] # None /\ d.start <= found'[d.pat]
               /\ now <= d.start + TouchTimeout
    <3>1. CASE d \in touching
      <4>1. d.pat \in Pats /\ d.start \in Nat
        BY <1>1, <3>1
      <4>2. /\ found[d.pat] # None /\ d.start <= found[d.pat] /\ now <= d.start + TouchTimeout
        BY <3>1 DEF IInv, Justified
      <4>3. found'[d.pat] # None /\ found[d.pat] <= found'[d.pat]
        BY <1>13, <4>1, <4>2
      <4>4. found[d.pat] \in Nat /\ found'[d.pat] \in Nat
        BY <1>1, <1>11, <4>1, <4>2, <4>3 DEF Time
      <4> QED BY <4>1, <4>2, <4>3, <4>4
    <3>2. CASE d \notin touching
      <4>1. ok /\ d = g
        BY <1>9, <2>2, <3>2
      <4>2. found'[p] = now
        BY <1>1, <1>2, <1>9, <4>1
      <4> QED BY <1>1, <4>1, <4>2, PatAssumption
    <3> QED BY <3>1, <3>2
  <2> QED BY <1>1, <2>1, <2>2 DEF Justified
<1>15. UsedMeansUsed'
  <2>1. SUFFICES ASSUME NEW q \in Pats, IsRow(q), pats[q].lastUsedAt # None
                 PROVE  found'[q] # None /\ pats[q].lastUsedAt <= found'[q] + TouchTimeout
    BY <1>1 DEF UsedMeansUsed, IsRow
  <2>2. found[q] # None /\ pats[q].lastUsedAt <= found[q] + TouchTimeout
    BY <2>1 DEF IInv, UsedMeansUsed
  <2>3. pats[q].lastUsedAt \in Nat
    <3>1. pats[q] \in Pat
      BY <2>1, RowTyped DEF IInv
    <3> QED BY <2>1, <3>1 DEF Pat, Time
  <2>4. found'[q] # None /\ found[q] <= found'[q]
    BY <1>13, <2>2
  <2>5. found[q] \in Nat /\ found'[q] \in Nat
    BY <1>1, <1>11, <2>2, <2>4 DEF Time
  <2> QED BY <2>2, <2>3, <2>4, <2>5, PatAssumption
<1> QED BY <1>8, <1>12, <1>14, <1>15 DEF IInv

\* A row that replaces a row: same owner, same expiry, a revocation at most added.
LEMMA RowChanges ==
    ASSUME IInv, NEW k \in Call \cup {None}, Knows(k), NEW p \in Pats, NEW row \in Pat,
           pats' = [pats EXCEPT ![p] = row],
           pats[p] # Gone,
           IsRow(p) => /\ row.user = pats[p].user /\ row.expiresAt = pats[p].expiresAt
                       /\ row.revokedAt = pats[p].revokedAt
                             \/ (pats[p].revokedAt = None /\ row.revokedAt = now),
           UNCHANGED <<now, acct, power, lost>>
    PROVE  Knows(k)'
<1>1. /\ pats \in [Pats -> Pat \cup {Unused, Gone}] /\ DOMAIN pats = Pats /\ now \in Nat
      /\ row \notin {Unused, Gone}
  BY CallAssumption DEF IInv, TypeOK
<1>2. pats'[p] = row /\ \A q \in Pats : q # p => pats'[q] = pats[q]
  BY <1>1
<1>3. CASE k = None
  BY <1>3 DEF Knows
<1>4. CASE k # None /\ k.at \in {"check", "getByID"}
  <2>1. k.pat \in Pats /\ k.since \in Nat /\ k.row \in Snapshot /\ ReadTruly(k)
    BY <1>4, CallKinds DEF Knows
  <2>2. ReadTruly(k)'
    <3>1. CASE k.pat = p
      <4>1. IsRow(p)
        BY <2>1, <3>1 DEF ReadTruly, IsRow
      <4> QED BY <1>1, <1>2, <2>1, <3>1, <4>1 DEF ReadTruly, IsRow
    <3>2. CASE k.pat # p
      BY <1>2, <2>1, <3>2 DEF ReadTruly, IsRow
    <3> QED BY <3>1, <3>2
  <2> QED BY <1>4, <2>2 DEF Knows, Passed
<1>5. CASE k # None /\ k.at = "answer" /\ k.active
  <2>1. k.pat \in Pats /\ k.since \in Nat
    BY <1>5, CallKinds DEF Verdict
  <2>2. k.since <= now /\ pats[k.pat] # Unused /\ Fresh(k)
    BY <1>5 DEF Knows
  <2>3. pats'[k.pat] # Unused /\ Fresh(k)'
    <3>1. CASE k.pat = p
      <4>1. IsRow(p)
        BY <2>2, <3>1 DEF IsRow
      <4> QED BY <1>1, <1>2, <2>1, <2>2, <3>1, <4>1 DEF Fresh, IsRow, Active, Exists
    <3>2. CASE k.pat # p
      BY <1>2, <2>1, <2>2, <3>2 DEF Fresh, IsRow, Active, Exists
    <3> QED BY <3>1, <3>2
  <2> QED BY <1>5, <2>2, <2>3 DEF Knows
<1>6. CASE k # None /\ k.at \notin {"check", "getByID"} /\ ~(k.at = "answer" /\ k.active)
  BY <1>6 DEF Knows
<1> QED BY <1>3, <1>4, <1>5, <1>6

\* Create and Revoke: one row written, the request ends.
LEMMA OneRow ==
    ASSUME IInv, NEW h \in Calls, NEW p \in Pats, NEW row \in Pat, Become(h, None),
           pats' = [pats EXCEPT ![p] = row],
           pats[p] # Gone,
           IsRow(p) => /\ row.user = pats[p].user /\ row.expiresAt = pats[p].expiresAt
                       /\ row.lastUsedAt = pats[p].lastUsedAt
                       /\ row.revokedAt = pats[p].revokedAt
                             \/ (pats[p].revokedAt = None /\ row.revokedAt = now),
           ~IsRow(p) => row.lastUsedAt = None,
           UNCHANGED <<now, touching, found, acct, power, lost>>
    PROVE  IInv'
<1>1. /\ call \in [Calls -> Call \cup {None}] /\ call' = [call EXCEPT ![h] = None]
      /\ pats \in [Pats -> Pat \cup {Unused, Gone}]
  BY DEF IInv, TypeOK, Become
<1>2. TypeOK'
  <2>1. call' \in [Calls -> Call \cup {None}] /\ pats' \in [Pats -> Pat \cup {Unused, Gone}]
    BY <1>1
  <2> QED BY <2>1 DEF IInv, TypeOK
<1>3. ASSUME NEW i \in Calls PROVE Knows(call[i])'
  <2> SUFFICES ASSUME NEW k, k = call'[i] PROVE Knows(k)'
    BY DEF Knows, ReadTruly, Passed, Fresh
  <2>1. k = None \/ k = call[i]
    BY <1>1
  <2>2. k \in Call \cup {None} /\ Knows(k)
    BY <1>1, <2>1 DEF IInv, Knows
  <2> QED BY <2>2, RowChanges
<1>4. Justified'
  BY DEF IInv, Justified
<1>5. UsedMeansUsed'
  BY <1>1 DEF IInv, UsedMeansUsed, IsRow
<1> QED BY <1>2, <1>3, <1>4, <1>5 DEF IInv

LEMMA CreatePatKeeps ==
    ASSUME IInv, NEW h \in Calls, CreatePat(h)
    PROVE  IInv'
<1>1. /\ UNCHANGED <<now, touching, found, acct, power, lost>> /\ Become(h, None)
      /\ call[h] \in Call /\ call[h].at = "insert" /\ now \in Nat
  BY DEF CreatePat, KeepAccounts, At, IInv, TypeOK
<1>2. CASE UNCHANGED pats
  BY <1>1, <1>2, EndsKeep
<1>3. ASSUME NEW p \in Pats, NEW e \in {None, now + PatTTL}, pats[p] = Unused,
             pats' = [pats EXCEPT ![p] =
                        [user |-> call[h].user, expiresAt |-> e, revokedAt |-> None,
                         lastUsedAt |-> None]]
      PROVE  IInv'
  <2> SUFFICES ASSUME NEW row, row = [user |-> call[h].user, expiresAt |-> e, revokedAt |-> None,
                                      lastUsedAt |-> None]
               PROVE  IInv'
    OBVIOUS
  <2>1. call[h].user \in Users
    BY <1>1, CallKinds DEF Owning
  <2>2. e \in Time
    BY <1>1, PatAssumption DEF Time
  <2>3. row \in Pat /\ row.lastUsedAt = None
    BY <2>1, <2>2 DEF Pat, Time
  <2>4. ~IsRow(p) /\ pats[p] # Gone
    BY <1>3, CallAssumption DEF IsRow
  <2> QED BY <1>1, <1>3, <2>3, <2>4, OneRow
<1> QED BY <1>2, <1>3 DEF CreatePat

LEMMA RevokePatKeeps ==
    ASSUME IInv, NEW h \in Calls, RevokePat(h)
    PROVE  IInv'
<1> DEFINE p == call[h].pat
           matches == IsRow(p) /\ pats[p].user = call[h].user /\ pats[p].revokedAt = None
<1>1. /\ UNCHANGED <<now, touching, found, acct, power, lost>> /\ Become(h, None)
      /\ call[h] \in Call /\ call[h].at = "revoke" /\ now \in Nat
  BY DEF RevokePat, KeepAccounts, At, IInv, TypeOK
<1>2. CASE ~matches
  BY <1>1, <1>2, EndsKeep DEF RevokePat
<1>3. CASE matches
  <2> SUFFICES ASSUME NEW row, row = [pats[p] EXCEPT !.revokedAt = now] PROVE IInv'
    OBVIOUS
  <2>1. p \in Pats
    BY <1>1, CallKinds DEF Revoking
  <2>2. pats[p] \in Pat
    BY <1>3, <2>1, RowTyped DEF IInv
  <2>3. /\ row \in Pat /\ row.user = pats[p].user /\ row.expiresAt = pats[p].expiresAt
        /\ row.lastUsedAt = pats[p].lastUsedAt /\ row.revokedAt = now
    BY <1>1, <2>2 DEF Pat, Time
  <2>4. pats' = [pats EXCEPT ![p] = row]
    BY <1>3 DEF RevokePat
  <2>5. pats[p] # Gone
    BY <1>3 DEF IsRow
  <2> QED BY <1>1, <1>3, <2>1, <2>3, <2>4, <2>5, OneRow
<1> QED BY <1>2, <1>3

LEMMA TouchFailsKeeps ==
    ASSUME IInv, NEW g \in touching, TouchFails(g)
    PROVE  IInv'
<1>1. UNCHANGED <<now, pats, call, found, acct, power, lost>> /\ touching' \subseteq touching
  BY DEF TouchFails, KeepAccounts
<1>2. TypeOK'
  BY <1>1 DEF IInv, TypeOK
<1>3. \A h \in Calls : Knows(call[h])'
  BY <1>1 DEF IInv, Knows, ReadTruly, Passed, Fresh, IsRow, Active, Exists
<1>4. Justified' /\ UsedMeansUsed'
  BY <1>1 DEF IInv, Justified, UsedMeansUsed, IsRow
<1> QED BY <1>2, <1>3, <1>4 DEF IInv

\* The goroutine writes within its timeout of the verdict that started it.
LEMMA TouchLastUsedKeeps ==
    ASSUME IInv, NEW g \in touching, TouchLastUsed(g)
    PROVE  IInv'
<1> DEFINE p == g.pat
<1>1. /\ UNCHANGED <<now, call, found, acct, power, lost>>
      /\ touching' = touching \ {g} /\ touching \in SUBSET [pat : Pats, start : Nat]
      /\ now \in Nat /\ found \in [Pats -> Time]
      /\ pats \in [Pats -> Pat \cup {Unused, Gone}]
  BY DEF TouchLastUsed, KeepAccounts, IInv, TypeOK
<1>2. p \in Pats /\ g.start \in Nat
  BY <1>1
<1>3. Justified'
  BY <1>1 DEF IInv, Justified
<1>4. CASE ~IsRow(p)
  <2>1. pats' = pats
    BY <1>4 DEF TouchLastUsed
  <2>2. TypeOK'
    BY <1>1, <2>1 DEF IInv, TypeOK
  <2>3. \A h \in Calls : Knows(call[h])'
    BY <1>1, <2>1 DEF IInv, Knows, ReadTruly, Passed, Fresh, IsRow, Active, Exists
  <2>4. UsedMeansUsed'
    BY <1>1, <2>1 DEF IInv, UsedMeansUsed, IsRow
  <2> QED BY <1>3, <2>2, <2>3, <2>4 DEF IInv
<1>5. CASE IsRow(p)
  <2> SUFFICES ASSUME NEW row, row = [pats[p] EXCEPT !.lastUsedAt = now] PROVE IInv'
    OBVIOUS
  <2>1. pats' = [pats EXCEPT ![p] = row]
    BY <1>5 DEF TouchLastUsed
  <2>2. pats[p] \in Pat /\ pats[p] # Gone
    BY <1>2, <1>5, RowTyped DEF IInv, IsRow
  <2>3. /\ row \in Pat /\ row.user = pats[p].user /\ row.expiresAt = pats[p].expiresAt
        /\ row.lastUsedAt = now /\ row.revokedAt = pats[p].revokedAt
    BY <1>1, <2>2 DEF Pat, Time
  <2>4. TypeOK'
    <3>1. pats' \in [Pats -> Pat \cup {Unused, Gone}] /\ touching' \in SUBSET [pat : Pats, start : Nat]
      BY <1>1, <2>1, <2>3
    <3> QED BY <1>1, <3>1 DEF IInv, TypeOK
  <2>5. ASSUME NEW h \in Calls PROVE Knows(call[h])'
    <3> SUFFICES ASSUME NEW k, k = call[h] PROVE Knows(k)'
      BY <1>1 DEF Knows, ReadTruly, Passed, Fresh
    <3>1. k \in Call \cup {None} /\ Knows(k)
      BY DEF IInv, TypeOK, Knows
    <3> QED BY <1>1, <1>2, <2>1, <2>2, <2>3, <3>1, RowChanges
  <2>6. now <= found[p] + TouchTimeout /\ found[p] # None
    <3>1. found[p] # None /\ g.start <= found[p] /\ now <= g.start + TouchTimeout
      BY DEF IInv, Justified
    <3>2. found[p] \in Nat
      BY <1>1, <1>2, <3>1 DEF Time
    <3> QED BY <1>1, <1>2, <3>1, <3>2, PatAssumption
  <2>7. UsedMeansUsed'
    BY <1>1, <1>2, <2>1, <2>3, <2>6 DEF IInv, UsedMeansUsed, IsRow
  <2> QED BY <1>3, <2>4, <2>5, <2>7 DEF IInv
<1> QED BY <1>4, <1>5

\* An account that stops being active stops now, after every request was sent.
LEMMA AccountStepKeeps ==
    ASSUME IInv, AccountStep
    PROVE  IInv'
<1>1. /\ UNCHANGED <<now, call, touching, found>> /\ now \in Nat
      /\ pats \in [Pats -> Pat \cup {Unused, Gone}] /\ lost \in [Users -> Nat]
      /\ pats' = [p \in Pats |-> IF IsRow(p) /\ acct'[pats[p].user] = Gone THEN Gone ELSE pats[p]]
      /\ lost' = [u \in Users |-> IF Active(u)' THEN 0 ELSE IF Active(u) THEN now ELSE lost[u]]
  BY DEF AccountStep, IInv, TypeOK
<1>2. acct' \in [Users -> Account \cup {NoRow, Gone}] /\ power' \in BOOLEAN
  BY AccountsTyped DEF AccountStep, IInv, TypeOK
<1>3. \A p \in Pats : pats'[p] = pats[p] \/ pats'[p] = Gone
  BY <1>1
<1>4. \A u \in Users : Active(u)' \/ (Active(u) /\ lost'[u] = now) \/ (~Active(u) /\ lost'[u] = lost[u])
  <2>1. SUFFICES ASSUME NEW u \in Users
                 PROVE  Active(u)' \/ (Active(u) /\ lost'[u] = now) \/ (~Active(u) /\ lost'[u] = lost[u])
    OBVIOUS
  <2>2. lost'[u] = IF Active(u)' THEN 0 ELSE IF Active(u) THEN now ELSE lost[u]
    BY <1>1
  <2> QED BY <2>2
<1>5. TypeOK'
  <2>1. pats' \in [Pats -> Pat \cup {Unused, Gone}]
    BY <1>1
  <2>2. lost' \in [Users -> Nat]
    BY <1>1
  <2> QED BY <1>1, <1>2, <2>1, <2>2 DEF IInv, TypeOK
<1>6. ASSUME NEW h \in Calls PROVE Knows(call[h])'
  <2> SUFFICES ASSUME NEW k, k = call[h] PROVE Knows(k)'
    BY <1>1 DEF Knows, ReadTruly, Passed, Fresh
  <2>1. k \in Call \cup {None} /\ Knows(k)
    BY DEF IInv, TypeOK, Knows
  <2>2. CASE k # None /\ k.at \in {"check", "getByID"}
    <3>1. k.pat \in Pats
      BY <2>1, <2>2, CallKinds
    <3>2. ReadTruly(k)
      BY <2>1, <2>2 DEF Knows
    <3>3. ReadTruly(k)'
      BY <1>1, <1>3, <3>1, <3>2, CallAssumption DEF ReadTruly, IsRow
    <3> QED BY <2>1, <2>2, <3>3 DEF Knows, Passed
  <2>3. CASE k # None /\ k.at = "answer" /\ k.active
    <3>1. k.pat \in Pats /\ k.since \in Nat
      BY <2>1, <2>3, CallKinds DEF Verdict
    <3>2. k.since <= now /\ pats[k.pat] # Unused /\ Fresh(k)
      BY <2>1, <2>3 DEF Knows
    <3>3. Fresh(k)'
      <4>1. CASE pats'[k.pat] = Gone
        BY <4>1 DEF Fresh, IsRow
      <4>2. CASE pats'[k.pat] = pats[k.pat] /\ IsRow(k.pat)
        <5>1. pats[k.pat].user \in Users
          BY <3>1, <4>2, RowTyped DEF IInv, Pat
        <5>2. Active(pats[k.pat].user)' \/ k.since <= lost'[pats[k.pat].user]
          BY <1>1, <1>4, <3>2, <4>2, <5>1 DEF Fresh, Active, Exists
        <5> QED BY <3>2, <4>2, <5>2 DEF Fresh, IsRow, Active, Exists
      <4>3. CASE pats'[k.pat] = pats[k.pat] /\ ~IsRow(k.pat)
        BY <4>3 DEF Fresh, IsRow
      <4> QED BY <1>3, <3>1, <4>1, <4>2, <4>3
    <3>4. pats'[k.pat] # Unused
      BY <1>3, <3>1, <3>2, CallAssumption
    <3> QED BY <1>1, <2>3, <3>2, <3>3, <3>4 DEF Knows
  <2>4. CASE k = None \/ (k.at \notin {"check", "getByID"} /\ ~(k.at = "answer" /\ k.active))
    BY <1>1, <2>1, <2>4 DEF Knows
  <2> QED BY <2>2, <2>3, <2>4
<1>7. Justified'
  BY <1>1 DEF IInv, Justified
<1>8. UsedMeansUsed'
  BY <1>1, <1>3 DEF IInv, UsedMeansUsed, IsRow
<1> QED BY <1>5, <1>6, <1>7, <1>8 DEF IInv

LEMMA TickKeeps ==
    ASSUME IInv, Tick
    PROVE  IInv'
<1>1. /\ UNCHANGED <<pats, call, touching, found, acct, power, lost>>
      /\ now \in Nat /\ now' = now + 1 /\ now' \in Nat /\ now <= now'
      /\ found \in [Pats -> Time] /\ touching \in SUBSET [pat : Pats, start : Nat]
  BY DEF Tick, KeepAccounts, IInv, TypeOK
<1>2. TypeOK'
  BY <1>1 DEF IInv, TypeOK
<1>3. ASSUME NEW h \in Calls PROVE Knows(call[h])'
  <2> SUFFICES ASSUME NEW k, k = call[h] PROVE Knows(k)'
    BY <1>1 DEF Knows, ReadTruly, Passed, Fresh
  <2>1. k \in Call \cup {None} /\ Knows(k)
    BY DEF IInv, TypeOK, Knows
  <2>2. CASE k # None /\ k.at \in {"getByHash", "check", "getByID"}
    <3>1. k.since \in Nat
      BY <2>1, <2>2, CallKinds
    <3>2. k.since <= now
      BY <2>1, <2>2 DEF Knows, ReadTruly
    <3>3. k.since <= now'
      BY <1>1, <3>1, <3>2
    <3> QED BY <1>1, <2>1, <2>2, <3>3 DEF Knows, ReadTruly, Passed, IsRow
  <2>3. CASE k # None /\ k.at = "answer" /\ k.active
    <3>1. k.since \in Nat
      BY <2>1, <2>3, CallKinds DEF Verdict
    <3>2. k.since <= now'
      BY <1>1, <2>1, <2>3, <3>1 DEF Knows
    <3> QED BY <1>1, <2>1, <2>3, <3>2 DEF Knows, Fresh, IsRow, Active, Exists
  <2>4. CASE k = None \/ (k.at \notin {"getByHash", "check", "getByID"} /\ ~(k.at = "answer" /\ k.active))
    BY <2>4 DEF Knows
  <2> QED BY <2>2, <2>3, <2>4
<1>4. Justified'
  <2>1. \A p \in Pats : found'[p] # None => found'[p] <= now'
    <3>1. SUFFICES ASSUME NEW p \in Pats, found[p] # None PROVE found[p] <= now'
      BY <1>1
    <3>2. found[p] \in Nat /\ found[p] <= now
      BY <1>1, <3>1 DEF Time, IInv, Justified
    <3> QED BY <1>1, <3>2
  <2>2. ASSUME NEW g \in touching PROVE now' <= g.start + TouchTimeout
    <3>1. g.start \in Nat /\ now < g.start + TouchTimeout
      BY <1>1 DEF Tick
    <3> QED BY <1>1, <3>1, PatAssumption
  <2> QED BY <1>1, <2>1, <2>2 DEF IInv, Justified
<1>5. UsedMeansUsed'
  BY <1>1 DEF IInv, UsedMeansUsed, IsRow
<1> QED BY <1>2, <1>3, <1>4, <1>5 DEF IInv

-----------------------------------------------------------------------------
(* The theorems *)

LEMMA InitIInv == Init => IInv
<1> SUFFICES ASSUME Init PROVE IInv
  OBVIOUS
<1>1. TypeOK
  BY DEF Init, AccountsInit, TypeOK, Time
<1>2. \A h \in Calls : Knows(call[h])
  BY DEF Init, Knows
<1>3. Justified /\ UsedMeansUsed
  BY DEF Init, Justified, UsedMeansUsed, IsRow
<1> QED BY <1>1, <1>2, <1>3 DEF IInv

LEMMA NextKeepsIInv == IInv /\ [Next]_vars => IInv'
<1> SUFFICES ASSUME IInv, [Next]_vars PROVE IInv'
  OBVIOUS
<1>1. ASSUME NEW h \in Calls, SubmitIntrospect(h) \/ SubmitCreate(h) \/ SubmitRevoke(h) PROVE IInv'
  BY <1>1, SubmitKeeps
<1>2. ASSUME NEW h \in Calls, GetByHash(h) \/ Check(h) \/ GetByID(h) \/ Reply(h) PROVE IInv'
  BY <1>2, GetByHashKeeps, CheckKeeps, GetByIDKeeps, ReplyKeeps
<1>3. ASSUME NEW h \in Calls, CreatePat(h) \/ RevokePat(h) \/ StatementFails(h) PROVE IInv'
  BY <1>3, CreatePatKeeps, RevokePatKeeps, StatementFailsKeeps
<1>4. ASSUME NEW g \in touching, TouchLastUsed(g) \/ TouchFails(g) PROVE IInv'
  BY <1>4, TouchLastUsedKeeps, TouchFailsKeeps
<1>5. CASE AccountStep \/ Tick
  BY <1>5, AccountStepKeeps, TickKeeps
<1>6. CASE UNCHANGED vars
  <2>1. UNCHANGED <<acct, power, now, pats, call, touching, lost, found>>
    BY <1>6 DEF vars
  <2>2. TypeOK' /\ Justified' /\ UsedMeansUsed'
    BY <2>1 DEF IInv, TypeOK, Justified, UsedMeansUsed, IsRow
  <2>3. \A h \in Calls : Knows(call[h])'
    BY <2>1 DEF IInv, Knows, ReadTruly, Passed, Fresh, IsRow, Active, Exists
  <2> QED BY <2>2, <2>3 DEF IInv
<1> QED BY <1>1, <1>2, <1>3, <1>4, <1>5, <1>6 DEF Next, CallStep

\* What the theorems below rest on.
THEOREM InductiveInvariant == Spec => []IInv
<1>1. Init => IInv
  BY InitIInv
<1>2. IInv /\ [Next]_vars => IInv'
  BY NextKeepsIInv
<1> QED BY <1>1, <1>2, PTL DEF Spec

\* Rows, requests and goroutines have their types.
THEOREM TypeCorrect == Spec => []TypeOK
<1>1. IInv => TypeOK
  BY DEF IInv
<1> QED BY <1>1, InductiveInvariant, PTL

\* Introspect: the token was good at some time during the introspection.
THEOREM VerdictFreshCorrect == Spec => []VerdictFresh
<1>1. IInv => VerdictFresh
  BY DEF IInv, Knows, Fresh, VerdictFresh, At
<1> QED BY <1>1, InductiveInvariant, PTL

\* TouchLastUsed: last_used_at speaks of a use that was granted.
THEOREM UsedMeansUsedCorrect == Spec => []UsedMeansUsed
<1>1. IInv => UsedMeansUsed
  BY DEF IInv
<1> QED BY <1>1, InductiveInvariant, PTL

\* No statement takes a revocation back or moves it.
THEOREM RevocationFinalCorrect == Spec => RevocationFinal
<1> DEFINE Final == \A p \in Pats : IsRow(p) /\ pats[p].revokedAt # None
                       => pats'[p] = Gone \/ pats'[p].revokedAt = pats[p].revokedAt
<1>1. ASSUME IInv, [Next]_vars PROVE [Final]_vars
  <2>1. SUFFICES ASSUME NEW p \in Pats, IsRow(p), pats[p].revokedAt # None, pats'[p] # pats[p], Next
                 PROVE  pats'[p] = Gone \/ pats'[p].revokedAt = pats[p].revokedAt
    BY <1>1 DEF vars
  <2>2. /\ pats \in [Pats -> Pat \cup {Unused, Gone}]
        /\ touching \in SUBSET [pat : Pats, start : Nat]
        /\ pats[p] \in Pat
    BY <1>1, <2>1, RowTyped DEF IInv, TypeOK
  <2>3. ASSUME NEW h \in Calls, CreatePat(h) PROVE FALSE
    BY <2>1, <2>2, <2>3 DEF CreatePat, IsRow
  <2>4. ASSUME NEW h \in Calls, RevokePat(h) PROVE FALSE
    <3>1. call[h] \in Call /\ call[h].at = "revoke"
      BY <1>1, <2>4 DEF RevokePat, At, IInv, TypeOK
    <3>2. call[h].pat \in Pats
      BY <3>1, CallKinds DEF Revoking
    <3> QED BY <2>1, <2>2, <2>4, <3>2 DEF RevokePat
  <2>5. ASSUME NEW g \in touching, TouchLastUsed(g) \/ TouchFails(g)
        PROVE  pats'[p].revokedAt = pats[p].revokedAt
    <3>1. p = g.pat /\ pats' = [pats EXCEPT ![g.pat].lastUsedAt = now]
      BY <2>1, <2>2, <2>5 DEF TouchLastUsed, TouchFails
    <3>2. pats'[p] = [pats[p] EXCEPT !.lastUsedAt = now]
      BY <2>2, <3>1
    <3> QED BY <2>2, <3>2 DEF Pat
  <2>6. CASE AccountStep
    BY <2>1, <2>6 DEF AccountStep
  <2>7. \/ \E h \in Calls : CreatePat(h) \/ RevokePat(h)
        \/ \E g \in touching : TouchLastUsed(g) \/ TouchFails(g)
        \/ AccountStep
    BY <2>1 DEF Next, CallStep, SubmitIntrospect, GetByHash, Check, GetByID, Reply, SubmitCreate,
                SubmitRevoke, StatementFails, Tick
  <2> QED BY <2>3, <2>4, <2>5, <2>6, <2>7
<1>2. IInv /\ [Next]_vars => [Final]_vars
  BY <1>1
<1> QED BY <1>2, InductiveInvariant, PTL DEF Spec, RevocationFinal

=============================================================================
