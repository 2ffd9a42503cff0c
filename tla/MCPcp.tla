------------------------------- MODULE MCPcp -------------------------------
(* One mapping that is wanted for good and one that comes and goes; nonces   *)
(* enough for both, their orphans, and a late copy.                          *)
EXTENDS Pcp
=============================================================================
