------------------------------ MODULE MCDetect ------------------------------
(* UPnP's search takes most of the default timeout, and the gateway is slow  *)
(* to answer PCP: a configured timeout of one tick is enough for NAT-PMP     *)
(* alone, one of two for PCP as well, one of three for all.                  *)
EXTENDS Detect

MCNeeds == [p \in Protocol |-> IF p = "upnp" THEN 2 ELSE IF p = "pcp" THEN 1 ELSE 0]
=============================================================================
