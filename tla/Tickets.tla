------------------------------ MODULE Tickets -------------------------------
(***************************************************************************)
(* A ledger of OAuth state tokens that forgets nothing: what was issued,   *)
(* for which provider and return address, when, by which run of the        *)
(* process, and what became of it.  OneTimeTickets adds the answers a      *)
(* store gives; LoginFlow runs whole logins on it.                         *)
(***************************************************************************)
EXTENDS Naturals

CONSTANTS
    States,      \* the values a random state token may take
    Providers,   \* the names a caller may give for an identity provider
    Redirects,   \* the return addresses, the absent one included
    NoRedirect,  \* the empty return address of the RPC flow
    NoTicket,    \* the ledger's entry for a state never issued
    TTL          \* lifetime of a ticket, in clock units

VARIABLES
    now,     \* the clock
    epoch,   \* which run of the process this is
    ledger   \* what became of each state token

ledgerVars == <<now, epoch, ledger>>

Ticket == [provider : Providers, redirectURI : Redirects, issuedAt : Nat,
           epoch : Nat, presented : BOOLEAN, granted : Nat]

LedgerInit ==
    /\ now = 0
    /\ epoch = 0
    /\ ledger = [s \in States |-> NoTicket]

Issue(s, p, r) ==
    /\ ledger[s] = NoTicket
    /\ ledger' = [ledger EXCEPT ![s] =
                    [provider |-> p, redirectURI |-> r, issuedAt |-> now,
                     epoch |-> epoch, presented |-> FALSE, granted |-> 0]]
    /\ UNCHANGED <<now, epoch>>

\* Mutated forms of the two definitions below: slips this code could have had,
\* each caught by a property of the run MCLoginFlow.

\* The provider of the entry is not compared.
Good_AnyProvider(s, p) ==
    /\ ledger[s] # NoTicket
    /\ ~ledger[s].presented
    /\ ledger[s].epoch = epoch
    /\ now <= ledger[s].issuedAt + TTL

\* The entry is not deleted.
Settled_Kept(s, ok) ==
    IF ledger[s] = NoTicket THEN ledger
    ELSE [ledger EXCEPT ![s].granted = IF ok THEN @ + 1 ELSE @]

\* The ticket entitles its bearer to go on with provider p.
Good(s, p) ==
    /\ ledger[s] # NoTicket
    /\ ~ledger[s].presented
    /\ ledger[s].epoch = epoch
    /\ ledger[s].provider = p
    /\ now <= ledger[s].issuedAt + TTL

\* The ledger after a presentation of s that was answered with ok.
Settled(s, ok) ==
    IF ledger[s] = NoTicket THEN ledger
    ELSE [ledger EXCEPT ![s].presented = TRUE,
                        ![s].granted = IF ok THEN @ + 1 ELSE @]

Settle(s, p) ==
    /\ ledger' = Settled(s, Good(s, p))
    /\ UNCHANGED <<now, epoch>>

Elapse ==
    /\ now' = now + 1
    /\ UNCHANGED <<epoch, ledger>>

NewEpoch ==
    /\ epoch' = epoch + 1
    /\ UNCHANGED <<now, ledger>>

LedgerNext ==
    \/ \E s \in States, p \in Providers : \/ \E r \in Redirects : Issue(s, p, r)
                                         \/ Settle(s, p)
    \/ Elapse
    \/ NewEpoch

\* What the stores and the logins have in common.
LedgerSpec == LedgerInit /\ [][LedgerNext]_ledgerVars

=============================================================================
