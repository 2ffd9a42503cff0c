------------------------------ MODULE MCDaemon ------------------------------
(* Two requests for TLC: the first is gated on a listener and lets the      *)
(* gateway choose its port, the second asks for a port of its own.          *)
EXTENDS Daemon

MCRequested == <<0, 8>>
=============================================================================
