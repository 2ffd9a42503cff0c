------------------------------ MODULE MCConfig ------------------------------
(* Configurations of up to two mappings with every protocol, port and kind   *)
(* of address, and of three mappings that differ in protocol and ports.      *)
EXTENDS Config, SequencesExt

Unset == [address |-> "", iface |-> ""]

Of(protocols_, internals, externals, leases, sources) ==
    [protocol : protocols_, internal : internals, external : externals,
     lease : leases, source : sources]

Ported  == Of({"tcp", "udp", "both"}, Ports, Ports, {"whole"}, {Unset})
Sourced == Of({"tcp"}, {1}, {0}, {"whole"}, Sources)
Odd     == Of({"sctp"}, {2}, {0}, {"whole"}, {Unset}) \cup Of({"tcp"}, {2}, {0}, {"odd"}, {Unset})
Plain   == Of({"tcp", "udp", "both"}, {1, 2}, {0, 1}, {"whole"}, {Unset})

MCConfigs ==
    [settings : {TRUE}, source : {Unset, [address |-> "", iface |-> "lan"]},
     mappings : BoundedSeq(Ported \cup Sourced \cup Odd, 2)]
    \cup
    [settings : {TRUE}, source : {Unset}, mappings : SeqOf(Plain, 3)]
    \cup
    [settings : BOOLEAN, source : Sources, mappings : BoundedSeq(Plain, 1)]
=============================================================================
