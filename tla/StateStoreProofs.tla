-------------------------- MODULE StateStoreProofs --------------------------
(***************************************************************************)
(* StateStore for every set of tokens, providers and redirects, every      *)
(* lifetime, ticker period, horizon and number of restarts: its types, its *)
(* safety invariants, and that it implements OneTimeTickets.               *)
(*                                                                         *)
(* The inductive invariant is the mirror between map and ledger, together  *)
(* with what keeps it true: a ticket not yet presented was granted nothing *)
(* and was issued in the past, and the ticker is at most one period ahead  *)
(* of the clock.                                                           *)
(***************************************************************************)
EXTENDS StateStore, TLAPS

\* What the ledger says of itself, whatever the map does.
LedgerOK ==
    \A s \in States : ledger[s] # NoTicket =>
        /\ ledger[s].issuedAt <= now
        /\ ledger[s].epoch <= epoch
        /\ ledger[s].granted <= 1
        /\ ~ledger[s].presented => ledger[s].granted = 0

\* The next tick is ahead, at most a period; between ticks no entry is overdue
\* since before the last one.
TickerOK ==
    /\ now < nextTick
    /\ nextTick <= now + Period
    /\ ~sweepPending => \A s \in States :
            states[s] # NoEntry => nextTick <= states[s].expiresAt + Period

IInv == TypeOK /\ StoreMirrorsLedger /\ LedgerOK /\ TickerOK

-----------------------------------------------------------------------------
\* The initial store satisfies the inductive invariant.
LEMMA InitIInv == Init => IInv
<1> SUFFICES ASSUME Init PROVE IInv
  OBVIOUS
<1> USE StoreAssumption DEF Init, TicketsInit, LedgerInit
<1>1. \A s \in States : states[s] = NoEntry /\ ledger[s] = NoTicket
  OBVIOUS
<1>2. TypeOK
  BY DEF TypeOK
<1>3. StoreMirrorsLedger
  BY <1>1 DEF StoreMirrorsLedger
<1>4. LedgerOK
  BY <1>1 DEF LedgerOK
<1>5. TickerOK
  BY <1>1 DEF TickerOK
<1>. QED BY <1>2, <1>3, <1>4, <1>5 DEF IInv

\* Issuing a token: the entry and the ticket are written together.
LEMMA GenerateIInv ==
    ASSUME IInv, NEW p \in Providers, NEW r \in Redirects, GenerateWithRedirect(p, r)
    PROVE  IInv'
<1> USE StoreAssumption, EntryAssumption
<1>1. PICK s \in States :
        /\ Issue(s, p, r)
        /\ states' = [states EXCEPT ![s] =
                        [provider |-> p, redirectURI |-> r, expiresAt |-> now + TTL]]
  BY DEF GenerateWithRedirect
<1>2. UNCHANGED <<now, epoch, answer, nextTick, sweepPending>>
  BY <1>1 DEF Issue, GenerateWithRedirect
<1>3. TypeOK'
  BY <1>1, <1>2 DEF IInv, TypeOK, Issue, Ticket, stateEntry
<1>4. StoreMirrorsLedger'
  <2>1. /\ states'[s] = [provider |-> p, redirectURI |-> r, expiresAt |-> now + TTL]
        /\ ledger'[s] = [provider |-> p, redirectURI |-> r, issuedAt |-> now,
                         epoch |-> epoch, presented |-> FALSE, granted |-> 0]
    BY <1>1 DEF IInv, TypeOK, Issue
  <2>2. states'[s] \in stateEntry /\ ledger'[s] \in Ticket
    BY <2>1 DEF IInv, TypeOK, stateEntry, Ticket
  <2>3. \A t \in States \ {s} : states'[t] = states[t] /\ ledger'[t] = ledger[t]
    BY <1>1 DEF IInv, TypeOK, Issue
  <2>. QED BY <1>2, <2>1, <2>2, <2>3 DEF IInv, StoreMirrorsLedger
<1>5. LedgerOK'
  BY <1>1, <1>2 DEF IInv, TypeOK, LedgerOK, Issue, Ticket
<1>6. TickerOK'
  BY <1>1, <1>2 DEF IInv, TypeOK, TickerOK, Issue, stateEntry
<1>. QED BY <1>3, <1>4, <1>5, <1>6 DEF IInv

\* Presenting a token: the entry goes and the ticket is settled, whatever the answer.
LEMMA ValidateIInv ==
    ASSUME IInv, NEW s \in States, NEW p \in Providers, ValidateAndConsume(s, p)
    PROVE  IInv'
<1> USE StoreAssumption, EntryAssumption
<1>1. states' = [states EXCEPT ![s] = NoEntry] /\ ledger' = Settled(s, Accepts(s, p))
  BY DEF ValidateAndConsume
<1>2. UNCHANGED <<now, epoch, nextTick, sweepPending>>
  BY DEF ValidateAndConsume
<1>3. Accepts(s, p) \in BOOLEAN
  BY DEF Accepts
<1>4. Accepts(s, p) => ledger[s] # NoTicket /\ ~ledger[s].presented
  BY DEF IInv, StoreMirrorsLedger, Accepts
<1>5. TypeOK'
  <2>1. ledger' \in [States -> Ticket \cup {NoTicket}]
    <3>1. CASE ledger[s] = NoTicket
      BY <1>1, <3>1 DEF IInv, TypeOK, Settled
    <3>2. CASE ledger[s] # NoTicket
      <4>1. ledger[s] \in Ticket
        BY <3>2 DEF IInv, TypeOK
      <4>2. [ledger[s] EXCEPT !.presented = TRUE, !.granted = @ + 1] \in Ticket
        <5>1. ledger[s].granted + 1 \in Nat
          BY <4>1 DEF Ticket
        <5>2. ASSUME NEW n \in Nat
              PROVE  [ledger[s] EXCEPT !.presented = TRUE, !.granted = n] \in Ticket
          BY <4>1 DEF Ticket
        <5>. QED BY <5>1, <5>2
      <4>3. [ledger[s] EXCEPT !.presented = TRUE] \in Ticket
        BY <4>1 DEF Ticket
      <4>4. CASE Accepts(s, p)
        BY <1>1, <3>2, <4>2, <4>4 DEF IInv, TypeOK, Settled
      <4>5. CASE ~Accepts(s, p)
        <5>1. ledger' = [ledger EXCEPT ![s] = [ledger[s] EXCEPT !.presented = TRUE]]
          BY <1>1, <3>2, <4>1, <4>5 DEF IInv, TypeOK, Settled, Ticket
        <5>. QED BY <4>3, <5>1 DEF IInv, TypeOK
      <4>. QED BY <4>4, <4>5
    <3>. QED BY <3>1, <3>2
  <2>2. answer' \in Answer
    <3>1. Accepts(s, p) => states[s].redirectURI \in Redirects
      BY DEF IInv, TypeOK, stateEntry, Accepts
    <3>. QED BY <1>3, <3>1 DEF ValidateAndConsume, Answer
  <2>. QED BY <1>1, <1>2, <2>1, <2>2 DEF IInv, TypeOK
<1>6. StoreMirrorsLedger'
  BY <1>1, <1>2, <1>3 DEF IInv, TypeOK, StoreMirrorsLedger, Settled, Ticket
<1>7. LedgerOK'
  BY <1>1, <1>2, <1>3, <1>4 DEF IInv, TypeOK, LedgerOK, Settled, Ticket
<1>8. TickerOK'
  BY <1>1, <1>2 DEF IInv, TypeOK, TickerOK
<1>. QED BY <1>5, <1>6, <1>7, <1>8 DEF IInv

\* A sweep removes overdue entries only, and leaves none behind.
LEMMA CleanupIInv == ASSUME IInv, Cleanup PROVE IInv'
<1> USE StoreAssumption, EntryAssumption
<1>1. TypeOK'
  BY DEF Cleanup, IInv, TypeOK
<1>2. StoreMirrorsLedger'
  BY DEF Cleanup, IInv, TypeOK, StoreMirrorsLedger, Expired, Ticket, stateEntry
<1>3. LedgerOK'
  BY DEF Cleanup, IInv, LedgerOK
<1>4. TickerOK'
  BY DEF Cleanup, IInv, TypeOK, TickerOK, Expired, stateEntry
<1>. QED BY <1>1, <1>2, <1>3, <1>4 DEF IInv

\* The passing of time leaves map and ledger alone.
LEMMA TickIInv == ASSUME IInv, Tick PROVE IInv'
<1> USE StoreAssumption, EntryAssumption
<1>1. now' = now + 1 /\ UNCHANGED <<epoch, ledger, answer, states>>
  BY DEF Tick, Elapse
<1>2. TypeOK'
  <2>1. nextTick' \in Nat
    BY DEF Tick, IInv, TypeOK
  <2>2. sweepPending' = TRUE \/ sweepPending' = sweepPending
    BY DEF Tick
  <2>3. sweepPending' \in BOOLEAN
    BY <2>2, Zenon DEF IInv, TypeOK
  <2>. QED BY <1>1, <2>1, <2>3 DEF IInv, TypeOK
<1>3. StoreMirrorsLedger'
  BY <1>1 DEF IInv, TypeOK, StoreMirrorsLedger, Ticket
<1>4. LedgerOK'
  BY <1>1 DEF IInv, TypeOK, LedgerOK, Ticket
<1>5. TickerOK'
  BY <1>1 DEF Tick, IInv, TypeOK, TickerOK
<1>. QED BY <1>2, <1>3, <1>4, <1>5 DEF IInv

\* A restart forgets the map and makes every issued ticket one of a past epoch.
LEMMA RestartIInv == ASSUME IInv, Restart PROVE IInv'
<1> USE StoreAssumption, EntryAssumption
<1>1. epoch' = epoch + 1 /\ states' = [s \in States |-> NoEntry]
  BY DEF Restart, NewEpoch
<1>2. UNCHANGED <<now, ledger, answer>>
  BY DEF Restart, NewEpoch
<1>3. TypeOK'
  <2>1. nextTick' \in Nat
    BY DEF Restart, IInv, TypeOK
  <2>2. sweepPending' = FALSE
    BY DEF Restart
  <2>3. sweepPending' \in BOOLEAN
    BY <2>2, Zenon
  <2>. QED BY <1>1, <1>2, <2>1, <2>3 DEF IInv, TypeOK
<1>4. StoreMirrorsLedger'
  BY <1>1, <1>2 DEF IInv, TypeOK, StoreMirrorsLedger, LedgerOK, Ticket
<1>5. LedgerOK'
  BY <1>1, <1>2 DEF IInv, TypeOK, LedgerOK, Ticket
<1>6. TickerOK'
  BY <1>1, <1>2 DEF Restart, IInv, TypeOK, TickerOK
<1>. QED BY <1>3, <1>4, <1>5, <1>6 DEF IInv

\* A step that changes nothing.
LEMMA StutterIInv == ASSUME IInv, UNCHANGED vars PROVE IInv'
  BY DEF vars, IInv, TypeOK, StoreMirrorsLedger, LedgerOK, TickerOK

\* The inductive invariant holds in every reachable state of the store.
THEOREM InductiveInvariant == Spec => []IInv
<1>1. IInv /\ [Next]_vars => IInv'
  <2> SUFFICES ASSUME IInv, [Next]_vars PROVE IInv'
    OBVIOUS
  <2>1. ASSUME NEW p \in Providers, Generate(p) PROVE IInv'
    BY <2>1, GenerateIInv, StoreAssumption DEF Generate
  <2>2. ASSUME NEW p \in Providers, NEW r \in Redirects \ {NoRedirect},
               GenerateWithRedirect(p, r)
        PROVE  IInv'
    BY <2>2, GenerateIInv
  <2>3. ASSUME NEW s \in States, NEW p \in Providers, ValidateAndConsume(s, p)
        PROVE  IInv'
    BY <2>3, ValidateIInv
  <2>. QED
    BY <2>1, <2>2, <2>3, CleanupIInv, TickIInv, RestartIInv, StutterIInv DEF Next
<1>. QED BY <1>1, InitIInv, PTL DEF Spec

-----------------------------------------------------------------------------
\* Type correctness of the store.
THEOREM TypeCorrect == Spec => []TypeOK
<1>1. IInv => TypeOK
  BY DEF IInv
<1>. QED BY <1>1, InductiveInvariant, PTL

\* A state token opens at most one login (the delete under the lock in
\* ValidateAndConsume, against replays, sweeps and restarts).
THEOREM OneUseCorrect == Spec => []OneUse
<1>1. IInv => OneUse
  BY DEF IInv, LedgerOK, OneUse
<1>. QED BY <1>1, InductiveInvariant, PTL

\* The map is an exact image of the tokens that are still good.
THEOREM MirrorCorrect == Spec => []StoreMirrorsLedger
<1>1. IInv => StoreMirrorsLedger
  BY DEF IInv
<1>. QED BY <1>1, InductiveInvariant, PTL

\* The sweeper keeps garbage younger than one period of its ticker.
THEOREM GarbageCorrect == Spec => []GarbageBounded
<1>1. IInv => GarbageBounded
  BY StoreAssumption DEF IInv, TypeOK, TickerOK, GarbageBounded, stateEntry
<1>. QED BY <1>1, InductiveInvariant, PTL

\* Each step of the store is a step of the ledger or changes nothing of it: the
\* answer computed from the map is the answer of OneTimeTickets.
THEOREM Refinement == Spec => ImplementsTickets
<1> USE StoreAssumption, EntryAssumption
<1>1. Init => TicketsInit
  BY DEF Init
<1>2. IInv /\ [Next]_vars => [TicketsNext]_ticketVars
  <2> SUFFICES ASSUME IInv, [Next]_vars PROVE [TicketsNext]_ticketVars
    OBVIOUS
  <2>1. ASSUME NEW p \in Providers, NEW r \in Redirects, GenerateWithRedirect(p, r)
        PROVE  TicketsNext
    BY <2>1 DEF GenerateWithRedirect, TicketsNext
  <2>2. ASSUME NEW s \in States, NEW p \in Providers, ValidateAndConsume(s, p)
        PROVE  TicketsNext
    <3>1. Accepts(s, p) <=> Good(s, p)
      BY DEF IInv, TypeOK, StoreMirrorsLedger, Accepts, Good, Expired, Ticket, stateEntry
    <3>2. Accepts(s, p) => states[s].redirectURI = ledger[s].redirectURI
      <4>1. states[s] # NoEntry =>
              states[s] = [provider |-> ledger[s].provider,
                           redirectURI |-> ledger[s].redirectURI,
                           expiresAt |-> ledger[s].issuedAt + TTL]
        BY DEF IInv, StoreMirrorsLedger
      <4>. QED BY <4>1 DEF Accepts
    <3>3. Accepts(s, p) = Good(s, p)
      BY <3>1 DEF Accepts, Good
    <3>4. Present(s, p)
      BY <2>2, <3>2, <3>3 DEF ValidateAndConsume, Present, Settle
    <3>. QED BY <3>4 DEF TicketsNext
  <2>3. CASE Cleanup
    BY <2>3 DEF Cleanup, ticketVars
  <2>4. CASE Tick
    BY <2>4 DEF Tick, TicketsNext
  <2>5. CASE Restart
    BY <2>5 DEF Restart, TicketsNext
  <2>6. CASE UNCHANGED vars
    BY <2>6 DEF vars, ticketVars
  <2>. QED BY <2>1, <2>2, <2>3, <2>4, <2>5, <2>6 DEF Next, Generate
<1>. QED BY <1>1, <1>2, InductiveInvariant, PTL DEF Spec, ImplementsTickets, TicketsSpec

\* The tickets of the store are the ledger's: what LoginFlow does with them is a
\* matter of the ledger alone.
THEOREM LedgerCorrect == Spec => LedgerSpec
<1>1. TicketsInit => LedgerInit
  BY DEF TicketsInit
<1>2. [TicketsNext]_ticketVars => [LedgerNext]_ledgerVars
  BY DEF TicketsNext, Present, LedgerNext, ticketVars, ledgerVars
<1>3. TicketsSpec => LedgerSpec
  BY <1>1, <1>2, PTL DEF TicketsSpec, LedgerSpec
<1> QED BY <1>3, Refinement DEF ImplementsTickets

=============================================================================
