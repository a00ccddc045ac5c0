------------------------ MODULE PersonalAccessTokens ------------------------
(***************************************************************************)
(* Personal access tokens: the table go_auth.personal_access_tokens, the   *)
(* requests that create, revoke and introspect tokens, and the goroutine   *)
(* an introspection leaves behind to set last_used_at (pat_service.go,     *)
(* pat_store.go, pat_connect_server.go).                                   *)
(*                                                                         *)
(* Requests run concurrently.  Each SQL statement is a step, and so is the *)
(* look at the clock between two of them: an introspection decides on a    *)
(* row it has read, while the owner revokes it, an administrator disables  *)
(* the owner, or the expiry passes.                                        *)
(*                                                                         *)
(* Accounts change as the module Accounts says; a deleted account takes    *)
(* its tokens with it (ON DELETE CASCADE).                                 *)
(***************************************************************************)
EXTENDS Accounts, Naturals

CONSTANTS
    Pats,          \* token values (their hashes are the keys of the table)
    Calls,         \* bound: the requests that may run at the same time
    Unused,        \* the random value has not been drawn yet
    None,          \* no expiry; not revoked; never used; no request running
    PatTTL,        \* what expires_in_days asks for, in clock units
    TouchTimeout,  \* timeout of the goroutine's context
    Horizon        \* bound: the clock stops here

ASSUME PatAssumption ==
    /\ None \notin Nat
    /\ PatTTL \in Nat \ {0} /\ TouchTimeout \in Nat /\ Horizon \in Nat
    /\ NoRow \notin Account /\ Gone \notin Account /\ NoRow # Gone

VARIABLES
    now,       \* the clock
    pats,      \* the table: a row for each token, or Unused, or Gone
    call,      \* what each request is about to do
    touching,  \* goroutines about to set last_used_at: token and start
    lost,      \* history: since when an account is not active; 0 while it is
    found      \* history: when an introspection last found a token active

vars == <<acct, power, now, pats, call, touching, lost, found>>

Time == Nat \cup {None}

Pat == [user : Users, expiresAt : Time, revokedAt : Time, lastUsedAt : Time]

\* What an introspection has read of the row.
Snapshot == [user : Users, expiresAt : Time, revokedAt : Time]

Introspecting ==
         [at : {"getByHash"}, pat : Pats, since : Nat]
    \cup [at : {"check"}, pat : Pats, since : Nat, row : Snapshot]
    \cup [at : {"getByID"}, pat : Pats, since : Nat, row : Snapshot]

\* The verdict of an introspection.
Verdict == [at : {"answer"}, pat : Pats, since : Nat, active : BOOLEAN]

Owning == [at : {"insert"}, user : Users]
Revoking == [at : {"revoke"}, user : Users, pat : Pats]

Call == Introspecting \cup Verdict \cup Owning \cup Revoking

ASSUME CallAssumption ==
    /\ None \notin Call
    /\ Unused \notin Pat /\ Gone \notin Pat /\ Unused # Gone

TypeOK ==
    /\ acct \in [Users -> Account \cup {NoRow, Gone}]
    /\ power \in BOOLEAN
    /\ now \in Nat
    /\ pats \in [Pats -> Pat \cup {Unused, Gone}]
    /\ call \in [Calls -> Call \cup {None}]
    /\ touching \in SUBSET [pat : Pats, start : Nat]
    /\ lost \in [Users -> Nat]
    /\ found \in [Pats -> Time]

Init ==
    /\ AccountsInit
    /\ now = 0
    /\ pats = [p \in Pats |-> Unused]
    /\ call = [h \in Calls |-> None]
    /\ touching = {}
    /\ lost = [u \in Users |-> 0]
    /\ found = [p \in Pats |-> None]

-----------------------------------------------------------------------------
Exists(u) == acct[u] \notin {NoRow, Gone}
Active(u) == Exists(u) /\ acct[u].active

IsRow(p) == pats[p] \notin {Unused, Gone}

\* time.Now().After(*expiresAt), for a token that expires at all.
Expired(e) == e # None /\ now > e

At(h, step) == call[h] # None /\ call[h].at = step

Become(h, k) == call' = [call EXCEPT ![h] = k]

Answer(h, ok) ==
    Become(h, [at |-> "answer", pat |-> call[h].pat, since |-> call[h].since, active |-> ok])

KeepAccounts == UNCHANGED <<acct, power, lost>>

-----------------------------------------------------------------------------
\* Mutated forms of operations below: slips this code could have had, each caught
\* by a property of the run.  No specification uses them.

\* revoked_at is not looked at.
Check_IgnoresRevocation(h) ==
    /\ At(h, "check")
    /\ IF Expired(call[h].row.expiresAt)
       THEN Answer(h, FALSE)
       ELSE Become(h, [call[h] EXCEPT !.at = "getByID"])
    /\ UNCHANGED <<now, pats, touching, found>> /\ KeepAccounts

\* The goroutine is started before the owner is looked at.
GetByID_TouchesAnyway(h) ==
    /\ At(h, "getByID")
    /\ LET p == call[h].pat
           ok == Active(call[h].row.user)
       IN  /\ Answer(h, ok)
           /\ touching' = touching \cup {[pat |-> p, start |-> now]}
           /\ found' = IF ok THEN [found EXCEPT ![p] = now] ELSE found
    /\ UNCHANGED <<now, pats>> /\ KeepAccounts

\* The goroutine writes back the whole row as the introspection read it.
TouchLastUsed_WholeRow(g) ==
    /\ g \in touching
    /\ touching' = touching \ {g}
    /\ pats' = IF IsRow(g.pat)
               THEN [pats EXCEPT ![g.pat].lastUsedAt = now, ![g.pat].revokedAt = None]
               ELSE pats
    /\ UNCHANGED <<now, call, found>> /\ KeepAccounts

\* personal_access_tokens.user_id does not reference users.
CreatePat_NoForeignKey(h) ==
    /\ At(h, "insert")
    /\ \E p \in Pats, e \in {None, now + PatTTL} :
        /\ pats[p] = Unused
        /\ pats' = [pats EXCEPT ![p] = [user |-> call[h].user, expiresAt |-> e,
                                        revokedAt |-> None, lastUsedAt |-> None]]
    /\ Become(h, None)
    /\ UNCHANGED <<now, touching, found>> /\ KeepAccounts

\* The expiry is computed with the wrong sign.
CreatePat_BackwardExpiry(h) ==
    /\ At(h, "insert")
    /\ IF Exists(call[h].user)
       THEN \E p \in Pats, e \in {None, now - PatTTL} :
                /\ pats[p] = Unused
                /\ pats' = [pats EXCEPT ![p] =
                        [user |-> call[h].user, expiresAt |-> e, revokedAt |-> None,
                         lastUsedAt |-> None]]
       ELSE UNCHANGED pats
    /\ Become(h, None)
    /\ UNCHANGED <<now, touching, found>> /\ KeepAccounts

-----------------------------------------------------------------------------
\* Introspect.

SubmitIntrospect(h) ==
    /\ call[h] = None
    /\ \E p \in Pats : Become(h, [at |-> "getByHash", pat |-> p, since |-> now])
    /\ UNCHANGED <<now, pats, touching, found>> /\ KeepAccounts

GetByHash(h) ==
    /\ At(h, "getByHash")
    /\ LET p == call[h].pat
       IN  IF ~IsRow(p) THEN Answer(h, FALSE)
           ELSE Become(h, [at |-> "check", pat |-> p, since |-> call[h].since,
                           row |-> [user |-> pats[p].user, expiresAt |-> pats[p].expiresAt,
                                    revokedAt |-> pats[p].revokedAt]])
    /\ UNCHANGED <<now, pats, touching, found>> /\ KeepAccounts

\* revoked_at and expires_at, as read.
Check(h) ==
    /\ At(h, "check")
    /\ IF call[h].row.revokedAt # None \/ Expired(call[h].row.expiresAt)
       THEN Answer(h, FALSE)
       ELSE Become(h, [call[h] EXCEPT !.at = "getByID"])
    /\ UNCHANGED <<now, pats, touching, found>> /\ KeepAccounts

\* The owner, and the goroutine for last_used_at if the token is active.
GetByID(h) ==
    /\ At(h, "getByID")
    /\ LET p == call[h].pat
           ok == Active(call[h].row.user)
       IN  /\ Answer(h, ok)
           /\ touching' = IF ok THEN touching \cup {[pat |-> p, start |-> now]} ELSE touching
           /\ found' = IF ok THEN [found EXCEPT ![p] = now] ELSE found
    /\ UNCHANGED <<now, pats>> /\ KeepAccounts

\* The answer goes out.
Reply(h) ==
    /\ At(h, "answer")
    /\ Become(h, None)
    /\ UNCHANGED <<now, pats, touching, found>> /\ KeepAccounts

\* TouchLastUsed, a no-op if the row is gone.
TouchLastUsed(g) ==
    /\ g \in touching
    /\ touching' = touching \ {g}
    /\ pats' = IF IsRow(g.pat) THEN [pats EXCEPT ![g.pat].lastUsedAt = now] ELSE pats
    /\ UNCHANGED <<now, call, found>> /\ KeepAccounts

\* The goroutine's statement fails or times out, or the process stops.
TouchFails(g) ==
    /\ g \in touching
    /\ touching' = touching \ {g}
    /\ UNCHANGED <<now, pats, call, found>> /\ KeepAccounts

-----------------------------------------------------------------------------
\* Create and Revoke.  The interceptor looks only at the caller's JWT, which may be
\* older than the account's last change, and currentUserUUID only for the row.

SubmitCreate(h) ==
    /\ call[h] = None
    /\ \E u \in Users : Exists(u) /\ Become(h, [at |-> "insert", user |-> u])
    /\ UNCHANGED <<now, pats, touching, found>> /\ KeepAccounts

\* The foreign key refuses a user deleted since.
CreatePat(h) ==
    /\ At(h, "insert")
    /\ IF Exists(call[h].user)
       THEN \E p \in Pats, e \in {None, now + PatTTL} :
                /\ pats[p] = Unused
                /\ pats' = [pats EXCEPT ![p] =
                        [user |-> call[h].user, expiresAt |-> e, revokedAt |-> None,
                         lastUsedAt |-> None]]
       ELSE UNCHANGED pats
    /\ Become(h, None)
    /\ UNCHANGED <<now, touching, found>> /\ KeepAccounts

SubmitRevoke(h) ==
    /\ call[h] = None
    /\ \E u \in Users, p \in Pats :
        Exists(u) /\ Become(h, [at |-> "revoke", user |-> u, pat |-> p])
    /\ UNCHANGED <<now, pats, touching, found>> /\ KeepAccounts

RevokePat(h) ==
    /\ At(h, "revoke")
    /\ LET p == call[h].pat
           matches == IsRow(p) /\ pats[p].user = call[h].user /\ pats[p].revokedAt = None
       IN  pats' = IF matches THEN [pats EXCEPT ![p].revokedAt = now] ELSE pats
    /\ Become(h, None)
    /\ UNCHANGED <<now, touching, found>> /\ KeepAccounts

\* A failed statement answers an error, but for the owner's lookup, whose failure
\* Introspect reads as an inactive token.
StatementFails(h) ==
    /\ \/ /\ call[h] # None /\ call[h].at \in {"getByHash", "insert", "revoke"}
          /\ Become(h, None)
       \/ At(h, "getByID") /\ Answer(h, FALSE)
    /\ UNCHANGED <<now, pats, touching, found>> /\ KeepAccounts

-----------------------------------------------------------------------------
\* A login, a promotion or an administrator's request somewhere else.
AccountStep ==
    /\ AccountsNext
    /\ pats' = [p \in Pats |-> IF IsRow(p) /\ acct'[pats[p].user] = Gone THEN Gone
                               ELSE pats[p]]
    /\ lost' = [u \in Users |-> IF Active(u)' THEN 0
                                ELSE IF Active(u) THEN now ELSE lost[u]]
    /\ UNCHANGED <<now, call, touching, found>>

\* Time passes, but not over the timeout of a goroutine.
Tick ==
    /\ now < Horizon
    /\ \A g \in touching : now < g.start + TouchTimeout
    /\ now' = now + 1
    /\ UNCHANGED <<pats, call, touching, found>> /\ KeepAccounts

CallStep(h) ==
    \/ SubmitIntrospect(h) \/ GetByHash(h) \/ Check(h) \/ GetByID(h) \/ Reply(h)
    \/ SubmitCreate(h) \/ CreatePat(h)
    \/ SubmitRevoke(h) \/ RevokePat(h)
    \/ StatementFails(h)

Next ==
    \/ \E h \in Calls : CallStep(h)
    \/ \E g \in touching : TouchLastUsed(g) \/ TouchFails(g)
    \/ AccountStep
    \/ Tick

Spec == Init /\ [][Next]_vars

-----------------------------------------------------------------------------
\* A token is called active only if, at some time during the introspection, it was
\* neither revoked nor expired and its owner was active, although the two are looked
\* at in different statements and neither is looked at again.
VerdictFresh ==
    \A h \in Calls : At(h, "answer") /\ call[h].active =>
        LET r == pats[call[h].pat]
        IN  IsRow(call[h].pat) =>
                /\ r.revokedAt = None \/ call[h].since <= r.revokedAt
                /\ r.expiresAt = None \/ call[h].since <= r.expiresAt
                /\ Active(r.user) \/ call[h].since <= lost[r.user]

\* A revoked token stays revoked, at the time it was first revoked, whatever
\* requests and goroutines that read it earlier still write.
RevocationFinal ==
    [][\A p \in Pats : IsRow(p) /\ pats[p].revokedAt # None
        => pats'[p] = Gone \/ pats'[p].revokedAt = pats[p].revokedAt]_vars

\* last_used_at never speaks of a use that was refused: it is set only for a token
\* an introspection found active, and at most TouchTimeout later.
UsedMeansUsed ==
    \A p \in Pats : IsRow(p) /\ pats[p].lastUsedAt # None =>
        found[p] # None /\ pats[p].lastUsedAt <= found[p] + TouchTimeout

=============================================================================
