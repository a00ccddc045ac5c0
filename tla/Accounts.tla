------------------------------ MODULE Accounts ------------------------------
(***************************************************************************)
(* What the rest of the service may rely on about accounts: who exists,    *)
(* who is active, who is an administrator, and that somebody with that     *)
(* power is behind every change of the three.  Everything else a row of    *)
(* go_auth.users holds is forgotten.                                       *)
(*                                                                         *)
(* An account is opened active and without rights by a login, or by an     *)
(* administrator; it never comes back once deleted; a login can only ever  *)
(* promote it; everything else takes power.  Power begins with the login   *)
(* of an active administrator, or of the one the configuration names, if   *)
(* it names one: without that and before there is an administrator's row   *)
(* nobody has it.  It is lost once the last JWT that says administrator    *)
(* has expired and the last request it allowed has ended.                  *)
(*                                                                         *)
(* UserDirectory, the table with its SQL statements and the handlers that  *)
(* run them, implements this module.                                       *)
(***************************************************************************)
CONSTANTS
    Users,   \* the ids a user row may get
    Roots,   \* subjects of configured administrators' JWTs: not rows
    NoRow,   \* the id has not been given to a row yet
    Gone     \* the row was deleted; its id is not given again

VARIABLES
    acct,    \* state of each account
    power    \* someone may be acting as an administrator

accountVars == <<acct, power>>

Account == [active : BOOLEAN, admin : BOOLEAN]

AccountsInit ==
    /\ acct = [u \in Users |-> NoRow]
    /\ power = FALSE

\* First OAuth login of a new identity.
Enroll(u) ==
    /\ acct[u] = NoRow
    /\ acct' = [acct EXCEPT ![u] = [active |-> TRUE, admin |-> FALSE]]
    /\ UNCHANGED power

\* Login of a listed e-mail: the role is added, nothing else changes.
Promote(u) ==
    /\ acct[u] \notin {NoRow, Gone}
    /\ acct' = [acct EXCEPT ![u].admin = TRUE]
    /\ power' = TRUE

\* Login of an administrator.
Empower(u) ==
    /\ acct[u] = [active |-> TRUE, admin |-> TRUE]
    /\ power' = TRUE
    /\ UNCHANGED acct

\* An administrator of the configuration logs in.
RootAppears ==
    /\ Roots # {}
    /\ power' = TRUE
    /\ UNCHANGED acct

\* Create, Update and Delete by an administrator, maybe the last thing one does.
Administer(u) ==
    /\ power
    /\ \/ /\ acct[u] = NoRow
          /\ \E b \in BOOLEAN :
                acct' = [acct EXCEPT ![u] = [active |-> TRUE, admin |-> b]]
       \/ /\ acct[u] \notin {NoRow, Gone}
          /\ \E a \in Account \cup {Gone} : acct' = [acct EXCEPT ![u] = a]
    /\ power' \in BOOLEAN

\* A token has expired or a request has ended, maybe the last one.
LosePower ==
    /\ power' \in {FALSE, power}
    /\ UNCHANGED acct

AccountsNext ==
    \/ \E u \in Users : Enroll(u) \/ Promote(u) \/ Empower(u) \/ Administer(u)
    \/ RootAppears
    \/ LosePower

AccountsSpec == AccountsInit /\ [][AccountsNext]_accountVars

=============================================================================
