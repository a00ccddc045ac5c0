---------------------------- MODULE MCRpcGateway ----------------------------
(***************************************************************************)
(* RpcGateway on a small instance.                                         *)
(***************************************************************************)
EXTENDS RpcGateway

\* The ids a serial column gives.
MCAlternateId == [u \in Users |-> u]
=============================================================================
