---------------------------- MODULE MCPowerControl ----------------------------
(* Two requests in flight, and process identities enough for the one that    *)
(* runs, one that is being waited for and one the pump still refers to.      *)
EXTENDS PowerControl
=============================================================================
