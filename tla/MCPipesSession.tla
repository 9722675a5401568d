---------------------------- MODULE MCPipesSession ----------------------------
(* Small instances of PipesSession. *)
EXTENDS PipesSession
==============================================================================
