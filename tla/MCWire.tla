------------------------------- MODULE MCWire -------------------------------
(* Bytes of 64 values.  Ports and lifetimes that fill one byte, the next and  *)
(* all of them; leases at and beyond the limit, and of no whole second.       *)
EXTENDS Wire

Bytes4  == <<10, 0, 0, 63>>
MCNonce == [i \in 1 .. 12 |-> i]

SomePorts == {0, 5, 64 * 9 + 1, 64 ^ 2 - 1}
MCPorts     == {0, 64 * 7 + 2, 64 ^ 2 - 1}
MCLifetimes == {0, 60, 64 ^ 3 * 5 + 64 ^ 2 * 6 + 64 * 7 + 8, 64 ^ 4 - 1}
Global      == <<32, 1>> \o [i \in 1 .. 14 |-> i]
MCExternals == {v4mapped \o <<63, 2, 3, 4>>, Global}

Request_(protocols, internals, externals, leases) ==
    [protocol : protocols, internal : internals, external : externals, lease : leases]

MCRequests ==
    Request_({"tcp", "udp"}, SomePorts, SomePorts, {0, 2 * 64 ^ 3 + 2 * 65})
    \cup Request_({"tcp"}, {5}, {0}, {-2, 1, 2, MaxLease, MaxLease + 2, MaxLease + 4})
    \cup Request_({"sctp"}, {5}, {5}, {2})

MCCalls ==
    [client : {"natpmp", "pcp"}, op : {"map", "unmap"}, req : MCRequests]
    \cup [client : {"natpmp", "pcp"}, op : {"external"}, req : Request_({"udp"}, {5}, {5}, {0})]
=============================================================================
