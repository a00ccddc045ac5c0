--------------------------- MODULE MCServerStartup ---------------------------
(***************************************************************************)
(* ServerStartup on a small instance: two replicas, this build and the     *)
(* next one, which is also deployed with a wrong setting, over a database  *)
(* one migration behind.                                                   *)
(***************************************************************************)
EXTENDS ServerStartup

MCReleases == {[build |-> 3, flaw |-> "none"], [build |-> 4, flaw |-> "none"],
               [build |-> 4, flaw |-> "browser"]}
=============================================================================
