------------------------------- MODULE Config -------------------------------
(***************************************************************************)
(* What a configuration is before it reaches the daemon (internal/config): *)
(* Load validates it once, and the daemon asks it for its requests again   *)
(* on every pass.                                                          *)
(*                                                                         *)
(* Validate walks the mappings with two sets of the ports seen so far; a   *)
(* mapping for "both" protocols is two requests.  The daemon relies on     *)
(* what it accepts: one request per protocol and internal port.            *)
(*                                                                         *)
(* An address or an interface is told apart only by what the code asks of  *)
(* it.  Interfaces come and go while the daemon runs.                      *)
(***************************************************************************)
EXTENDS Naturals, Sequences

CONSTANTS
    Ports,    \* the ports configured, 0 included
    Configs   \* the configurations that Load may find

\* An internal_address / internal_iface pair of the file, "" when not set.
Addresses == {"", "garbled", "unspecified", "local", "foreign"}
Ifaces    == {"", "lan", "lost"}
Sources   == [address : Addresses, iface : Ifaces]

Mappings ==
    [protocol : {"tcp", "udp", "both", "sctp"}, internal : Ports, external : Ports,
     lease : {"whole", "odd"}, source : Sources]

ASSUME ConfigAssumption ==
    /\ Ports \subseteq Nat /\ 0 \in Ports
    /\ Configs \subseteq [settings : BOOLEAN, source : Sources, mappings : Seq(Mappings)]

VARIABLES
    cfg,
    pc,            \* "settings", "mapping", "ports", "accepted" or "rejected"
    i, j,          \* the mapping, and the request of it, being checked
    seenInternal,  \* protocol and internal port of the requests so far
    seenExternal,  \* protocol and external port of those that ask for one
    up             \* the interfaces that have a usable IPv4 address

vars == <<cfg, pc, i, j, seenInternal, seenExternal, up>>

-----------------------------------------------------------------------------
(* Mapping.Requests and the resolution of addresses *)

protocols(m) == IF m.protocol = "both" THEN <<"tcp", "udp">> ELSE <<m.protocol>>

\* resolveInternalAddress: an address is parsed, an interface looked up.
IsSet(s)    == s.address # "" \/ s.iface # ""
Resolves(s) == IF s.address # "" THEN s.address # "garbled"
               ELSE s.iface = "" \/ s.iface \in up
Resolve(s)  == IF s.address # "" THEN s.address ELSE s.iface

\* internalAddress, as Requests uses it: an error leaves no address, and the
\* mapping goes to the one on the route to the gateway ("").
defaultInternalAddress == IF Resolves(cfg.source) THEN Resolve(cfg.source) ELSE ""

\* (slip: the default goes before the mapping's own)
DefaultFirst(m) ==
    IF IsSet(cfg.source) \/ ~Resolves(m.source) THEN defaultInternalAddress ELSE Resolve(m.source)

Target(m) ==
    IF ~Resolves(m.source) THEN ""
    ELSE IF IsSet(m.source) THEN Resolve(m.source)
    ELSE defaultInternalAddress

Init ==
    /\ cfg \in Configs
    /\ pc = "settings" /\ i = 1 /\ j = 1
    /\ seenInternal = {} /\ seenExternal = {}
    /\ up = {"lan"}

-----------------------------------------------------------------------------
(* Config.Validate *)

Both(s) == s.address # "" /\ s.iface # ""

\* validateInternalAddresses: no source is ambiguous, all resolve, and the
\* addresses given in so many words are bound to an interface.
AllSources == {cfg.source} \cup {cfg.mappings[n].source : n \in DOMAIN cfg.mappings}
validateInternalAddresses ==
    \A s \in AllSources : ~Both(s) /\ Resolves(s) /\ s.address \in {"", "local"}

\* (slip: a zero internal port is let through)
AnyPort(m) ==
    /\ m.protocol \in {"tcp", "udp", "both"}
    /\ Target(m) # "unspecified"
    /\ m.lease = "whole"

\* Request.Validate, for every request of the mapping.
ValidRequests(m) ==
    /\ m.protocol \in {"tcp", "udp", "both"}
    /\ m.internal # 0
    /\ Target(m) # "unspecified"
    /\ m.lease = "whole"

Reject == pc' = "rejected" /\ UNCHANGED <<i, j, seenInternal, seenExternal>>

\* At least one mapping, a known log level and probe order, good addresses.
CheckSettings ==
    /\ pc = "settings"
    /\ IF cfg.mappings # <<>> /\ cfg.settings /\ validateInternalAddresses
       THEN pc' = "mapping" /\ UNCHANGED <<i, j, seenInternal, seenExternal>>
       ELSE Reject
    /\ UNCHANGED <<cfg, up>>

CheckMapping ==
    /\ pc = "mapping" /\ i <= Len(cfg.mappings)
    /\ IF ValidRequests(cfg.mappings[i])
       THEN pc' = "ports" /\ j' = 1 /\ UNCHANGED <<i, seenInternal, seenExternal>>
       ELSE Reject
    /\ UNCHANGED <<cfg, up>>

InternalKey == <<protocols(cfg.mappings[i])[j], cfg.mappings[i].internal>>
ExternalKey == <<protocols(cfg.mappings[i])[j], cfg.mappings[i].external>>

Duplicate == InternalKey \in seenInternal \/ ExternalKey \in seenExternal

\* (slip: only the ports of the same mapping are compared)
ForgetPorts ==
    seenInternal' = {InternalKey} /\ seenExternal' = {ExternalKey}

\* External port 0 is no port to collide on.
Record ==
    /\ seenInternal' = seenInternal \cup {InternalKey}
    /\ seenExternal' = IF cfg.mappings[i].external = 0 THEN seenExternal
                       ELSE seenExternal \cup {ExternalKey}

CheckPorts ==
    /\ pc = "ports"
    /\ IF Duplicate THEN Reject
       ELSE /\ Record
            /\ IF j < Len(protocols(cfg.mappings[i]))
               THEN j' = j + 1 /\ UNCHANGED <<i, pc>>
               ELSE i' = i + 1 /\ pc' = "mapping" /\ UNCHANGED j
    /\ UNCHANGED <<cfg, up>>

Accept ==
    /\ pc = "mapping" /\ i = Len(cfg.mappings) + 1
    /\ pc' = "accepted"
    /\ UNCHANGED <<cfg, i, j, seenInternal, seenExternal, up>>

Validate == CheckSettings \/ CheckMapping \/ CheckPorts \/ Accept

\* While the daemon runs, an interface loses its addresses or gets them back.
IfaceChanges ==
    /\ pc = "accepted"
    /\ \E iface \in Ifaces \ {""} :
          up' = IF iface \in up THEN up \ {iface} ELSE up \cup {iface}
    /\ UNCHANGED <<cfg, pc, i, j, seenInternal, seenExternal>>

Next == Validate \/ IfaceChanges

Spec == Init /\ [][Next]_vars /\ WF_vars(Validate)

-----------------------------------------------------------------------------
(* Properties *)

\* The requests of a configuration, by mapping and protocol.
Requests == {q \in (DOMAIN cfg.mappings) \X {"tcp", "udp"} :
                cfg.mappings[q[1]].protocol \in {q[2], "both"}}

Internal(q) == <<q[2], cfg.mappings[q[1]].internal>>
External(q) == <<q[2], cfg.mappings[q[1]].external>>

PortsDistinct ==
    \A q, r \in Requests : q # r =>
        /\ Internal(q) # Internal(r)
        /\ External(q) = External(r) => cfg.mappings[q[1]].external = 0

\* The requests of an accepted configuration differ in protocol or internal
\* port, the daemon's key, and in protocol or external port if they ask for one:
\* "both" collides with its own parts, and 0 collides with nothing.
AcceptedHasDistinctPorts == pc = "accepted" => PortsDistinct

\* README, "Validation", as a predicate on the file.
WellFormed ==
    /\ cfg.settings /\ cfg.mappings # <<>>
    /\ \A s \in AllSources :
          /\ ~(s.address # "" /\ s.iface # "")
          /\ s.address \in {"", "local"} /\ s.iface \in {"", "lan"}
    /\ \A n \in DOMAIN cfg.mappings :
          /\ cfg.mappings[n].protocol # "sctp" /\ cfg.mappings[n].internal # 0
          /\ cfg.mappings[n].lease = "whole"
    /\ PortsDistinct

\* The walk ends with a verdict on every configuration, the right one: none is
\* refused without one of the reasons the README gives, and none gets by with one.
Decides == <>(pc = IF WellFormed THEN "accepted" ELSE "rejected")

\* A mapping of an accepted configuration forwards to its own address or interface,
\* or else to the default one; to the address on the route to the gateway ("") only
\* when it names neither, or while the interface it names has no usable address.
\* What happens to interfaces after validation leaves no other trace.
ForwardsAsConfigured ==
    pc = "accepted" =>
        \A n \in DOMAIN cfg.mappings :
            LET m   == cfg.mappings[n]
                own == IF IsSet(m.source) THEN m.source ELSE cfg.source
            IN  \/ Target(m) = Resolve(own)
                \/ Target(m) = "" /\ own.iface # "" /\ own.iface \notin up
=============================================================================
