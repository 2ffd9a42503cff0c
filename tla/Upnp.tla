-------------------------------- MODULE Upnp --------------------------------
(***************************************************************************)
(* The UPnP client (internal/portmapper/upnp) under the daemon's passes.   *)
(*                                                                         *)
(* The client finds the router as Discovery says, on its first call, and   *)
(* keeps what it found for as long as the process lives.  The daemon's     *)
(* first call is detect's probe; a probe that fails ends the process, and  *)
(* systemd starts another.  Map is two SOAP calls, AddPortMapping and      *)
(* GetExternalIPAddress; it names the host's address on the route to the   *)
(* router, which the daemon derives anew for every pass (refreshLocalAddr).*)
(* A router gives a port to one mapping: it overwrites a mapping of the    *)
(* same host and refuses the port to another host (fault 718).             *)
(*                                                                         *)
(* When a pass is due, and in which order its mappings come, is the        *)
(* subject of Daemon: here any request may be due, in any order.           *)
(***************************************************************************)
EXTENDS Discovery

CONSTANTS
    Requests,   \* [internal, external : ports, address, gated]
    Addresses,  \* of the host
    Unknown,    \* no address; as a request's, the host's own
    MaxFaults   \* bound: failed calls, crashes, reboots, changes of address

\* The requests are of one protocol, for which config.Validate makes the internal
\* ports distinct.  The router is the only gateway on the LAN.
ASSUME UpnpAssumption ==
    /\ Requests \subseteq [internal : Nat \ {0}, external : Nat,
                           address : Addresses \cup {Unknown}, gated : BOOLEAN]
    /\ \A q, r \in Requests : q.internal = r.internal => q = r
    /\ Unknown \notin Addresses
    /\ \A l \in Lans, o \in Locations \ {Router} : ~Usable(l[o])
    /\ MaxFaults \in Nat

VARIABLES
    internalClient,  \* of the client
    chosen,          \* the probe has succeeded
    leases,          \* the daemon's, by external port; 0 is none
    due,             \* requests the pass has yet to visit
    call,            \* the ExternalIP, Map or Unmap under way
    table,           \* the router's mappings by port
    address,         \* of the host
    failed,          \* requests whose last Map or Unmap failed or was cut short (history)
    faults

client == <<discovery, internalClient>>
daemon == <<chosen, leases, due, failed>>
router == <<lan, table>>
vars   == <<client, daemon, call, router, address, faults>>

Ports == {r.internal : r \in Requests} \cup {r.external : r \in Requests} \cup {0}
Free  == [client |-> Unknown, internal |-> 0]
Idle  == [op |-> "none"]
Fault == faults < MaxFaults /\ faults' = faults + 1

TypeOK ==
    /\ DiscoveryTypeOK
    /\ internalClient \in Addresses \cup {Unknown} /\ chosen \in BOOLEAN
    /\ leases \in [Requests -> Ports] /\ due \subseteq Requests
    /\ call \in {Idle} \cup [op : {"probe"}, at : {"target", "address"}]
            \cup [op : {"map", "unmap"}, req : Requests, port : Ports \ {0},
                  at : {"target", "action", "address"}]
    /\ table \in [Ports \ {0} -> {Free} \cup [client : Addresses, internal : Ports \ {0}]]
    /\ address \in Addresses /\ failed \subseteq Requests
    /\ faults \in 0 .. MaxFaults

Init ==
    /\ DiscoveryInit /\ internalClient = Unknown
    /\ chosen = FALSE /\ leases = [r \in Requests |-> 0]
    /\ due = {} /\ call = Idle /\ failed = {} /\ faults = 0
    /\ table = [p \in Ports \ {0} |-> Free]
    /\ address \in Addresses

-----------------------------------------------------------------------------
(* The daemon *)

\* (slip: the address is derived only once)
OnlyOnce ==
    /\ internalClient' = IF internalClient = Unknown THEN address ELSE internalClient
    /\ UNCHANGED faults

\* refreshLocalAddr: without a route the last address is kept.
refreshLocalAddr ==
    \/ internalClient' = address /\ UNCHANGED faults
    \/ Fault /\ UNCHANGED internalClient

\* detect: the client is new, and is asked for the external address.
Probe ==
    /\ ~chosen /\ call = Idle
    /\ call' = [op |-> "probe", at |-> "target"]
    /\ UNCHANGED <<client, daemon, router, address, faults>>

\* What a new process starts with; the router keeps what the old one asked for.
NewProcess ==
    /\ Quiet /\ target' = NoTarget /\ internalClient' = Unknown
    /\ chosen' = FALSE /\ call' = Idle /\ due' = {}
    /\ leases' = [r \in Requests |-> 0]

Crash ==
    /\ chosen /\ Fault
    /\ NewProcess
    /\ failed' = failed \cup {r \in Requests : leases[r] # 0 \/ (call # Idle /\ call.req = r)}
    /\ UNCHANGED <<router, address>>

Pass(requests) ==
    /\ chosen /\ due = {} /\ call = Idle
    /\ refreshLocalAddr
    /\ due' = requests
    /\ UNCHANGED <<discovery, chosen, leases, failed, call, router, address>>

\* A zero external port becomes the internal port, in Map and in Unmap.  The
\* lease's port, which mapRequest and releaseRequest put in its place, is the same.
ExternalPort(r) == IF r.external = 0 THEN r.internal ELSE r.external

Begin(op, r) == call' = [op |-> op, req |-> r, port |-> ExternalPort(r), at |-> "target"]

\* A listener is there, or the mapping is not gated.
BeginMap(r) ==
    /\ call = Idle /\ r \in due
    /\ Begin("map", r)
    /\ UNCHANGED <<client, daemon, router, address, faults>>

\* The listener is gone.
BeginUnmap(r) ==
    /\ call = Idle /\ r \in due /\ r.gated
    /\ IF leases[r] # 0 THEN Begin("unmap", r) /\ UNCHANGED due
       ELSE due' = due \ {r} /\ UNCHANGED call
    /\ UNCHANGED <<client, chosen, leases, failed, router, address, faults>>

\* The call is over; an Unmap forgets the lease even if it failed, and a probe
\* that failed ends the process.
Return == call' = Idle /\ due' = due \ {call.req}

Record(port) == leases' = [leases EXCEPT ![call.req] = port]

Fails ==
    IF call.op = "probe" THEN NewProcess /\ UNCHANGED failed
    ELSE /\ Return /\ Quiet
         /\ IF call.op = "unmap" THEN Record(0) ELSE UNCHANGED leases
         /\ failed' = failed \cup {call.req}
         /\ UNCHANGED <<target, internalClient, chosen>>
Succeeds(port) ==
    /\ Return /\ Record(port)
    /\ failed' = failed \ {call.req}
    /\ UNCHANGED <<client, chosen>>

-----------------------------------------------------------------------------
(* resolveTarget *)

At(op, at) == call # Idle /\ call.op = op /\ call.at = at
Resolving  == call # Idle /\ call.at = "target"

\* The target is known, or has just been found.
Resolve ==
    /\ Resolving /\ target # NoTarget
    /\ call' = [call EXCEPT !.at = IF call.op = "probe" THEN "address" ELSE "action"]
    /\ UNCHANGED <<client, daemon, router, address, faults>>

FaultUnless(condition) == IF condition THEN UNCHANGED faults ELSE Fault

\* Unless something goes wrong the router answers the search within the window, if
\* the probe has that long, and serves its descriptor, and other devices hang only
\* if they always do.
Discover ==
    /\ Resolving
    /\ \/ (Search \/ FetchUsable) /\ UNCHANGED faults
       \/ CloseWindow /\ FaultUnless(Router \in Range(found) \/ Timeout < Window)
       \/ \E l \in Locations :
             \/ (Respond(l) \/ FetchUseless(l) \/ FetchTooLate(l)) /\ UNCHANGED faults
             \/ FetchFails(l) /\ FaultUnless(l # Router)
             \/ FetchHangs(l) /\ FaultUnless(lan[l].hangs)
    /\ UNCHANGED <<internalClient, daemon, call, router, address>>

\* The search fails, or nobody answers; nothing is kept of it.
SearchFails ==
    /\ Resolving /\ target = NoTarget /\ search # "fetch"
    /\ FaultUnless(Timeout < Window) /\ Fails
    /\ UNCHANGED <<router, address>>

GivesUp ==
    /\ Resolving /\ Exhausted
    /\ Fails
    /\ UNCHANGED <<router, address, faults>>

-----------------------------------------------------------------------------
(* The SOAP calls *)

\* The router takes SOAP actions at what it offers.
Reached == target \in Offered(Router)

\* The address a mapping is made for.
Advertised(r) == IF r.address # Unknown THEN r.address ELSE internalClient
Entry(r)      == [client |-> Advertised(r), internal |-> r.internal]

Conflict == table[call.port] # Free /\ table[call.port].client # Advertised(call.req)
Accepted == Reached /\ ~Conflict /\ Advertised(call.req) # Unknown

AddPortMapping ==
    /\ At("map", "action") /\ Accepted
    /\ table' = [table EXCEPT ![call.port] = Entry(call.req)]
    /\ \/ call' = [call EXCEPT !.at = "address"] /\ UNCHANGED <<client, daemon, faults>>
       \/ Fault /\ Fails                                     \* the response is lost
    /\ UNCHANGED <<lan, address>>

\* The router is not at the URL, refuses the port, or there is no address to give.
AddFails ==
    /\ At("map", "action")
    /\ (~Accepted /\ UNCHANGED faults) \/ Fault
    /\ Fails
    /\ UNCHANGED <<router, address>>

\* The last step of Map, and the whole of a probe.
ExternalIP ==
    /\ Reached
    /\ \/ At("map", "address") /\ Succeeds(call.port)
       \/ /\ At("probe", "address")
          /\ call' = Idle /\ chosen' = TRUE
          /\ UNCHANGED <<client, leases, due, failed>>
    /\ UNCHANGED <<router, address, faults>>

\* Map fails although the mapping has been made.
ExternalIPFails ==
    /\ At("map", "address") \/ At("probe", "address")
    /\ (~Reached /\ UNCHANGED faults) \/ Fault
    /\ Fails
    /\ UNCHANGED <<router, address>>

\* Deleting what is not there (fault 714) is a success.
DeletePortMapping ==
    /\ At("unmap", "action") /\ Reached
    /\ table' = [table EXCEPT ![call.port] = Free]
    /\ \/ Succeeds(0) /\ UNCHANGED faults
       \/ Fault /\ Fails                                     \* the response is lost
    /\ UNCHANGED <<lan, address>>

\* (slip: any fault is taken for the missing mapping)
AnyFaultSucceeds ==
    /\ At("unmap", "action")
    /\ (~Reached /\ UNCHANGED faults) \/ Fault
    /\ Succeeds(0)
    /\ UNCHANGED <<router, address>>

DeleteFails ==
    /\ At("unmap", "action")
    /\ (~Reached /\ UNCHANGED faults) \/ Fault
    /\ Fails
    /\ UNCHANGED <<router, address>>

Call == Resolve \/ Discover \/ SearchFails \/ GivesUp \/ AddPortMapping \/ AddFails
            \/ ExternalIP \/ ExternalIPFails \/ DeletePortMapping \/ DeleteFails

-----------------------------------------------------------------------------
(* The router and the host *)

Reboot ==
    /\ Fault
    /\ lan' \in Lans /\ table' = [p \in Ports \ {0} |-> Free]
    /\ UNCHANGED <<client, daemon, call, address>>

\* A mapping that a recorded lease keeps alive.
Renewed(p) == \E r \in Requests : leases[r] = p /\ table[p] = Entry(r)

Expires(p) ==
    /\ table[p] # Free
    /\ table' = [table EXCEPT ![p] = Free]
    /\ UNCHANGED <<client, daemon, call, lan, address>>

Expire(p)          == ~Renewed(p) /\ Expires(p) /\ UNCHANGED faults
ExpireUnrenewed(p) == Renewed(p) /\ Expires(p) /\ Fault

AddressChanges ==
    /\ Fault
    /\ address' \in Addresses \ {address}
    /\ UNCHANGED <<client, daemon, call, router>>

Next ==
    \/ Probe \/ Crash
    \/ \E requests \in SUBSET Requests : requests # {} /\ Pass(requests)
    \/ \E r \in Requests : BeginMap(r) \/ BeginUnmap(r)
    \/ Call
    \/ Reboot \/ AddressChanges
    \/ \E p \in Ports \ {0} : Expire(p) \/ ExpireUnrenewed(p)

Wanted == {r \in Requests : ~r.gated}

\* systemd starts the daemon again, every mapping comes round again, calls return,
\* what is not renewed expires.
Fairness ==
    /\ WF_vars(Probe)
    /\ \A r \in Wanted : SF_vars(\E requests \in SUBSET Requests : r \in requests /\ Pass(requests))
    /\ WF_vars(\E r \in Requests : BeginMap(r))
    /\ WF_vars(Call)
    /\ \A p \in Ports \ {0} : WF_vars(Expire(p))

Spec == Init /\ [][Next]_vars /\ Fairness

-----------------------------------------------------------------------------
(* Properties *)

Open(r) == table[ExternalPort(r)].internal = r.internal

\* A port is open only for a lease on record, a call under way, or a call that
\* failed: an Unmap that succeeds has closed the port, of whatever address.
OpenIsRecorded ==
    \A r \in Requests : Open(r) =>
        leases[r] # 0 \/ r \in failed \/ (call # Idle /\ call.req = r)

\* Whatever went wrong, and wherever the host has moved, a mapping that is wanted
\* comes to forward to the host's address, and stays (README.md:19), so long as
\* detect's timeout has room for the devices that hang.
Recreated ==
    <>[]Patient => \A r \in Wanted :
        <>[](/\ leases[r] = ExternalPort(r)
             /\ table[leases[r]] = [client |-> IF r.address # Unknown THEN r.address ELSE address,
                                    internal |-> r.internal])
=============================================================================
