--------------------------- MODULE OneTimeTickets ---------------------------
(***************************************************************************)
(* What an OAuth state token promises to the two login flows that use it,  *)
(* stated without any store, on the ledger of Tickets.  A ticket is        *)
(* issued once, for one provider and one return address, by one run of the *)
(* process.  The first presentation of a ticket settles it: the answer is  *)
(* yes exactly when the ticket was issued by the running process, names    *)
(* the same provider and is at most TTL old; and the answer then carries   *)
(* the return address the ticket was issued with.                          *)
(*                                                                         *)
(* StateStore, which keeps a map it deletes from, sweeps and loses on      *)
(* restart, is shown to implement this module.                             *)
(***************************************************************************)
EXTENDS Tickets

VARIABLE answer  \* the last answer to a presentation

ticketVars == <<now, epoch, ledger, answer>>

Answer == [state : States, provider : Providers, ok : BOOLEAN, redirectURI : Redirects]

TicketsInit ==
    /\ LedgerInit
    /\ answer \in {a \in Answer : ~a.ok /\ a.redirectURI = NoRedirect}

Present(s, p) ==
    /\ answer' = [state |-> s, provider |-> p, ok |-> Good(s, p),
                  redirectURI |-> IF Good(s, p) THEN ledger[s].redirectURI
                                                ELSE NoRedirect]
    /\ Settle(s, p)

TicketsNext ==
    \/ \E s \in States, p \in Providers, r \in Redirects : Issue(s, p, r) /\ UNCHANGED answer
    \/ \E s \in States, p \in Providers : Present(s, p)
    \/ Elapse /\ UNCHANGED answer
    \/ NewEpoch /\ UNCHANGED answer

TicketsSpec == TicketsInit /\ [][TicketsNext]_ticketVars

=============================================================================
