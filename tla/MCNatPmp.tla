------------------------------ MODULE MCNatPmp ------------------------------
(* A mapping whose port the gateway chooses, gated on a listener, and one    *)
(* that asks for port 8: the gateway may give either the port of the other.  *)
EXTENDS NatPmpSystem

MCRequested == <<0, 8>>
=============================================================================
