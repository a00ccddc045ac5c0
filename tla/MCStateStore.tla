---------------------------- MODULE MCStateStore ----------------------------
(***************************************************************************)
(* StateStore on a small instance.                                         *)
(***************************************************************************)
EXTENDS StateStore

=============================================================================
