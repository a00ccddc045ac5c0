----------------------------- MODULE StateStore -----------------------------
(***************************************************************************)
(* The in-memory store of OAuth state tokens (src/pkg/auth/state_store.go) *)
(* that the browser flow and the RPC flow share.  The mutex makes every    *)
(* operation one step.  Beside the callers there are two more actors: the  *)
(* cleanup goroutine, driven by a ticker whose channel holds one tick, and *)
(* the process itself, which may stop and start with an empty map while    *)
(* the tokens it handed out are still in the browsers.                     *)
(*                                                                         *)
(* ledger, epoch and answer are what OneTimeTickets speaks about: history  *)
(* that no guard and no answer of the store reads, except that a random    *)
(* token is never one that was issued before.                              *)
(***************************************************************************)
EXTENDS OneTimeTickets

CONSTANTS
    NoEntry,      \* the map has no entry for this state
    Period,       \* period of the cleanup ticker
    Horizon,      \* bound: the clock stops here
    MaxRestarts   \* bound: how often the process restarts

ASSUME StoreAssumption ==
    /\ TTL \in Nat /\ Period \in Nat \ {0}
    /\ Horizon \in Nat /\ MaxRestarts \in Nat
    /\ NoRedirect \in Redirects
    /\ NoTicket \notin Ticket

VARIABLES
    states,        \* StateStore.states
    nextTick,      \* when the ticker fires next
    sweepPending   \* a tick waits in the ticker's channel

vars == <<now, epoch, ledger, answer, states, nextTick, sweepPending>>

stateEntry == [provider : Providers, redirectURI : Redirects, expiresAt : Nat]

ASSUME EntryAssumption == NoEntry \notin stateEntry

TypeOK ==
    /\ now \in Nat /\ epoch \in Nat
    /\ ledger \in [States -> Ticket \cup {NoTicket}]
    /\ answer \in Answer
    /\ states \in [States -> stateEntry \cup {NoEntry}]
    /\ nextTick \in Nat
    /\ sweepPending \in BOOLEAN

Init ==
    /\ TicketsInit
    /\ states = [s \in States |-> NoEntry]
    /\ nextTick = Period
    /\ sweepPending = FALSE

\* now.After(expiresAt): an entry is still good at the very instant it expires.
Expired(e) == now > e.expiresAt

-----------------------------------------------------------------------------
\* Mutated forms of the operations below: slips this code could have had, each
\* caught by a property of the run MCStateStore.  No specification uses them.

\* The lookup does not delete: "always delete to prevent replay" is forgotten.
ValidateAndConsume_NoDelete(s, p) ==
    LET ok == states[s] # NoEntry /\ ~Expired(states[s]) /\ states[s].provider = p
    IN  /\ answer' = [state |-> s, provider |-> p, ok |-> ok,
                      redirectURI |-> IF ok THEN states[s].redirectURI ELSE NoRedirect]
        /\ ledger' = Settled(s, ok)
        /\ UNCHANGED <<now, epoch, states, nextTick, sweepPending>>

\* The entry survives a refused presentation.
ValidateAndConsume_DeleteOnSuccess(s, p) ==
    LET ok == states[s] # NoEntry /\ ~Expired(states[s]) /\ states[s].provider = p
    IN  /\ answer' = [state |-> s, provider |-> p, ok |-> ok,
                      redirectURI |-> IF ok THEN states[s].redirectURI ELSE NoRedirect]
        /\ states' = [states EXCEPT ![s] = IF ok THEN NoEntry ELSE @]
        /\ ledger' = Settled(s, ok)
        /\ UNCHANGED <<now, epoch, nextTick, sweepPending>>

\* The sweep also takes what expires at this very instant.
Cleanup_TooEarly ==
    /\ sweepPending
    /\ sweepPending' = FALSE
    /\ states' = [s \in States |->
                    IF states[s] # NoEntry /\ now >= states[s].expiresAt THEN NoEntry
                                                                       ELSE states[s]]
    /\ UNCHANGED <<now, epoch, ledger, answer, nextTick>>

\* The sweep stops at the first overdue entry it finds.
Cleanup_OneOnly ==
    /\ sweepPending
    /\ sweepPending' = FALSE
    /\ LET overdue == {s \in States : states[s] # NoEntry /\ Expired(states[s])}
       IN  IF overdue = {} THEN UNCHANGED states
           ELSE \E s \in overdue : states' = [states EXCEPT ![s] = NoEntry]
    /\ UNCHANGED <<now, epoch, ledger, answer, nextTick>>

\* The ticker fires once, like time.After.
Tick_FiresOnce ==
    /\ now < Horizon
    /\ Elapse
    /\ sweepPending' = (sweepPending \/ now' = Period)
    /\ UNCHANGED <<answer, states, nextTick>>

-----------------------------------------------------------------------------
\* The bound on the clock leaves room for every entry to expire and be swept.
GenerateWithRedirect(p, r) ==
    /\ now + TTL + Period <= Horizon
    /\ \E s \in States :
        /\ Issue(s, p, r)
        /\ states' = [states EXCEPT ![s] =
                        [provider |-> p, redirectURI |-> r, expiresAt |-> now + TTL]]
    /\ UNCHANGED <<answer, nextTick, sweepPending>>

Generate(p) == GenerateWithRedirect(p, NoRedirect)

\* What the store answers to state s presented for provider p.
Accepts(s, p) ==
    /\ states[s] # NoEntry
    /\ ~Expired(states[s])
    /\ states[s].provider = p

\* Validate is the same step, with the redirect dropped by its caller.
ValidateAndConsume(s, p) ==
    /\ answer' = [state |-> s, provider |-> p, ok |-> Accepts(s, p),
                  redirectURI |-> IF Accepts(s, p) THEN states[s].redirectURI
                                                   ELSE NoRedirect]
    /\ states' = [states EXCEPT ![s] = NoEntry]
    /\ ledger' = Settled(s, Accepts(s, p))
    /\ UNCHANGED <<now, epoch, nextTick, sweepPending>>

\* One turn of the goroutine's loop.
Cleanup ==
    /\ sweepPending
    /\ sweepPending' = FALSE
    /\ states' = [s \in States |->
                    IF states[s] # NoEntry /\ Expired(states[s]) THEN NoEntry
                                                                 ELSE states[s]]
    /\ UNCHANGED <<now, epoch, ledger, answer, nextTick>>

\* Time passes.  A tick that finds the channel full is dropped.
Tick ==
    /\ now < Horizon
    /\ Elapse
    /\ IF now' = nextTick
       THEN sweepPending' = TRUE /\ nextTick' = nextTick + Period
       ELSE UNCHANGED <<sweepPending, nextTick>>
    /\ UNCHANGED <<answer, states>>

\* A new process: NewStateStore makes an empty map and starts a new ticker.
Restart ==
    /\ epoch < MaxRestarts
    /\ NewEpoch
    /\ states' = [s \in States |-> NoEntry]
    /\ nextTick' = now + Period
    /\ sweepPending' = FALSE
    /\ UNCHANGED answer

Next ==
    \/ \E p \in Providers : Generate(p)
    \/ \E p \in Providers, r \in Redirects \ {NoRedirect} : GenerateWithRedirect(p, r)
    \/ \E s \in States, p \in Providers : ValidateAndConsume(s, p)
    \/ Cleanup
    \/ Tick
    \/ Restart

Spec == Init /\ [][Next]_vars

\* The clock runs, and the runtime schedules the goroutine a tick has woken.
FairSpec == Spec /\ WF_vars(Tick) /\ WF_vars(Cleanup)

-----------------------------------------------------------------------------
\* A state token opens at most one login, however often, by whomever and in
\* whatever order with the sweeper and with restarts it is presented.
OneUse == \A s \in States : ledger[s] # NoTicket => ledger[s].granted <= 1

\* The map is an exact image of the ledger: an entry stands for a token issued
\* by this process and not presented since, with the same provider, redirect and
\* deadline; and such a token is missing from the map only when it is overdue.
StoreMirrorsLedger ==
    \A s \in States :
        /\ states[s] # NoEntry =>
            /\ ledger[s] # NoTicket
            /\ ~ledger[s].presented
            /\ ledger[s].epoch = epoch
            /\ states[s] = [provider |-> ledger[s].provider,
                            redirectURI |-> ledger[s].redirectURI,
                            expiresAt |-> ledger[s].issuedAt + TTL]
        /\ ledger[s] # NoTicket /\ ~ledger[s].presented /\ ledger[s].epoch = epoch
            /\ states[s] = NoEntry => now > ledger[s].issuedAt + TTL

\* The only bound the code puts on the map: once the goroutine has caught up with
\* its ticker, no abandoned entry is older than its lifetime plus one period.
GarbageBounded ==
    ~sweepPending => \A s \in States :
        states[s] # NoEntry => now < states[s].expiresAt + Period

\* Every entry leaves the map in the end, also when its login was abandoned.
AbandonedReclaimed == \A s \in States : states[s] # NoEntry ~> states[s] = NoEntry

\* The store answers every presentation as the ledger would.
ImplementsTickets == TicketsSpec

=============================================================================
