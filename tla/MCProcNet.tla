----------------------------- MODULE MCProcNet ------------------------------
(* Two tables of two sockets, one of three routes; the asked port is 1.       *)
EXTENDS ProcNet

MCLength == [tcp |-> 2, udp |-> 2, route |-> 3]

MCSocketRows ==
    [port : {1}, listening : BOOLEAN] \cup [port : {Garbled}, listening : {TRUE}]

Route(gateway, metric) == [default |-> TRUE, flags |-> "UG", metric |-> metric, gateway |-> gateway]
MCRouteRows ==
    {Route("a", 0), Route("a", 1), Route("b", 1), Route(Unspecified, 0),
     Route("b", Garbled),
     [Route("b", 0) EXCEPT !.flags = "other"]}
=============================================================================
