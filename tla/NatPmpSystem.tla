---------------------------- MODULE NatPmpSystem ----------------------------
(***************************************************************************)
(* The daemon with the NAT-PMP client (internal/portmapper/natpmp) between *)
(* it and a gateway, and the applications whose sockets gate a mapping.    *)
(*                                                                         *)
(* Client.Map is two exchanges: the gateway serves the mapping request,    *)
(* and the client then asks for the external address before it returns the *)
(* lease.  Client.Unmap is one.  An exchange that fails (its datagrams are *)
(* lost, its answer is an error or does not decode) is a fault; faults and *)
(* reboots of the gateway are bounded.                                     *)
(*                                                                         *)
(* Time passes (SysTick) while the daemon sleeps, while it is in a call,   *)
(* for at most MaxCall ticks per call, and while it is not running; its    *)
(* own computation takes none.                                             *)
(***************************************************************************)
EXTENDS Daemon

CONSTANTS
    MaxCall,    \* the longest a Map or Unmap takes (attempts run out), in ticks
    MaxFaults,  \* bound: lost exchanges, failed checks, crashes
    MaxReboots  \* bound: reboots of the gateway

ASSUME SystemAssumption ==
    /\ MaxCall \in Nat /\ MaxFaults \in Nat /\ MaxReboots \in Nat
    /\ \E port \in [Req -> Port] : \A i, j \in Req : port[i] = port[j] => i = j

VARIABLES
    gwPort,   \* the gateway's table: the external port of each mapping
    ttl,      \* what is left of each mapping's lifetime at the gateway
    bound,    \* the gated requests with a socket bound to their port
    call,     \* how far the client's exchange has got
    answer,   \* the gateway's answer to the mapping request
    elapsed,  \* how long the call has taken
    stray,     \* a copy of a request that is still on its way, or NoStray
    wiped,     \* mappings a reboot or a stray request took or cut short, and no
               \* Map has put back since (history)
    faults, reboots

gateway == <<gwPort, ttl>>
link    == <<call, answer, elapsed>>
env     == <<bound, stray, wiped, faults, reboots>>
sysVars == <<vars, gateway, link, env>>

Answers  == [port : Port, life : Lifetime]
NoAnswer == [port |-> NoPort, life |-> 0]
Strays   == [kind : {"map", "unmap"}, req : Req, asked : Port \cup {NoPort}]
NoStray  == [kind |-> "none", req |-> 0, asked |-> NoPort]

SysTypeOK ==
    /\ TypeOK
    /\ gwPort \in [Req -> Port \cup {NoPort}]
    /\ ttl \in [Req -> Nat]
    /\ bound \subseteq Gated
    /\ call \in {"idle", "sent", "served", "confirm"}
    /\ answer \in Answers \cup {NoAnswer}
    /\ elapsed \in 0 .. MaxCall
    /\ stray \in Strays \cup {NoStray}
    /\ wiped \subseteq Req
    /\ faults \in 0 .. MaxFaults
    /\ reboots \in 0 .. MaxReboots

SysInit ==
    /\ Init
    /\ gwPort = [i \in Req |-> NoPort]
    /\ ttl = [i \in Req |-> 0]
    /\ bound \in SUBSET Gated
    /\ call = "idle" /\ answer = NoAnswer /\ elapsed = 0
    /\ stray = NoStray /\ wiped = {} /\ faults = 0 /\ reboots = 0

\* Something goes wrong, within the budget.
Fault   == faults < MaxFaults /\ faults' = faults + 1 /\ UNCHANGED reboots
Healthy == UNCHANGED <<faults, reboots>>

Begin(stage) == call' = stage /\ elapsed' = 0 /\ answer' = NoAnswer
HangUp       == call' = "idle" /\ elapsed' = 0 /\ answer' = NoAnswer

-----------------------------------------------------------------------------
(* The gateway *)

Taken(i) == {gwPort[j] : j \in Req \ {i}}

\* A mapping that exists keeps its port; a new one gets the port asked for when
\* it is free, and any free one otherwise.
Grants(i, asked) ==
    IF gwPort[i] # NoPort THEN {gwPort[i]}
    ELSE IF asked \in Port \ Taken(i) THEN {asked}
    ELSE Port \ Taken(i)

ServeMap(i) ==
    /\ pc = "map" /\ cur = i /\ call = "sent"
    /\ \E port \in Grants(i, mapRequest(i)), life \in Lifetime :
          /\ gwPort' = [gwPort EXCEPT ![i] = port]
          /\ ttl' = [ttl EXCEPT ![i] = life]
          /\ answer' = [port |-> port, life |-> life]
    /\ call' = "served"
    /\ UNCHANGED <<vars, elapsed, env>>

\* Unmap asks for lifetime 0: the gateway deletes the mapping of that port.
ServeUnmap(i) ==
    /\ pc \in {"unmap", "release"} /\ cur = i /\ call = "sent"
    /\ gwPort' = [gwPort EXCEPT ![i] = NoPort]
    /\ ttl' = [ttl EXCEPT ![i] = 0]
    /\ call' = "served"
    /\ UNCHANGED <<vars, answer, elapsed, env>>

\* A copy of the request, sent again because the answer was slow, is delayed.
Straggle(i) ==
    /\ pc \in {"map", "unmap", "release"} /\ cur = i /\ call # "idle"
    /\ stray = NoStray /\ Fault
    /\ stray' = [kind  |-> IF pc = "map" THEN "map" ELSE "unmap",
                 req   |-> i,
                 asked |-> mapRequest(i)]
    /\ UNCHANGED <<vars, gateway, link, bound, wiped>>

\* The gateway serves the copy; nobody waits for the answer any more.
StrayMapArrives(i) ==
    /\ stray.kind = "map" /\ stray.req = i
    /\ \E port \in Grants(i, stray.asked), life \in Lifetime :
          /\ gwPort' = [gwPort EXCEPT ![i] = port]
          /\ ttl' = [ttl EXCEPT ![i] = life]
          /\ wiped' = IF life < ttl[i] THEN wiped \cup {i} ELSE wiped
    /\ stray' = NoStray
    /\ UNCHANGED <<vars, link, bound, faults, reboots>>

StrayUnmapArrives(i) ==
    /\ stray.kind = "unmap" /\ stray.req = i
    /\ gwPort' = [gwPort EXCEPT ![i] = NoPort]
    /\ ttl' = [ttl EXCEPT ![i] = 0]
    /\ wiped' = IF gwPort[i] = NoPort THEN wiped ELSE wiped \cup {i}
    /\ stray' = NoStray
    /\ UNCHANGED <<vars, link, bound, faults, reboots>>

\* The router restarts with an empty table.
Reboot ==
    /\ reboots < MaxReboots /\ reboots' = reboots + 1
    /\ gwPort' = [i \in Req |-> NoPort]
    /\ ttl' = [i \in Req |-> 0]
    /\ wiped' = wiped \cup {i \in Req : gwPort[i] # NoPort}
    /\ UNCHANGED <<vars, link, bound, stray, faults>>

-----------------------------------------------------------------------------
(* Client.Map and Client.Unmap, as reconcileOne and releaseOne call them *)

\* What HasListener answers now; it may also fail.
Sees(i, seen) ==
    \/ seen = (IF i \in bound THEN "present" ELSE "absent") /\ Healthy
    \/ i \in Gated /\ seen = "unknown" /\ Fault

\* exchange sends nothing once the context is done.
AskMap(i) ==
    /\ \E seen \in Sighting : Sees(i, seen) /\ CallMap(i, seen)
    /\ Begin(IF cancelled THEN "idle" ELSE "sent")
    /\ UNCHANGED <<gateway, bound, stray, wiped>>

NoListener(i) ==
    /\ PollLater(i, "absent") /\ i \notin bound
    /\ UNCHANGED <<gateway, link, env>>

AskUnmap(i) ==
    /\ CallUnmap(i, "absent") /\ i \notin bound
    /\ Begin("sent")
    /\ UNCHANGED <<gateway, env>>

\* The mapping response is in; ExternalIP starts unless the context is done.
AskExternalIP(i) ==
    /\ pc = "map" /\ cur = i /\ call = "served" /\ ~cancelled
    /\ call' = "confirm"
    /\ UNCHANGED <<vars, gateway, answer, elapsed, env>>

\* The gateway's table still shows what it answered (history).
AsAnswered(i) == gwPort[i] = answer.port /\ ttl[i] + elapsed >= answer.life

MapReturns(i) ==
    /\ call = "confirm"
    /\ Granted(i, answer.port, answer.life)
    /\ HangUp
    /\ wiped' = IF AsAnswered(i) THEN wiped \ {i} ELSE wiped
    /\ UNCHANGED <<gateway, bound, stray, faults, reboots>>

\* Either exchange fails, or finds the context done.
MapFails(i) ==
    /\ Refused(i)
    /\ (cancelled /\ Healthy) \/ (call # "idle" /\ Fault)
    /\ HangUp
    /\ UNCHANGED <<gateway, bound, stray, wiped>>

UnmapReturns(i) ==
    /\ Unmapped(i)
    /\ (call = "served" /\ Healthy) \/ Fault
    /\ HangUp
    /\ UNCHANGED <<gateway, bound, stray, wiped>>

-----------------------------------------------------------------------------
(* releaseAll *)

AskRelease(i) ==
    /\ pc = "release" /\ cur = i /\ i \in Held /\ call = "idle"
    /\ Begin("sent")
    /\ UNCHANGED <<vars, gateway, env>>

ReleaseReturns(i) ==
    /\ \/ Released(i) /\ call = "served" /\ Healthy
       \/ ReleaseFailed(i) /\ call # "idle" /\ Fault
    /\ HangUp
    /\ UNCHANGED <<gateway, bound, stray, wiped>>

-----------------------------------------------------------------------------
(* The environment *)

\* Discovery or detection fails: no gateway answers, or the context is done.
SysStartFails ==
    /\ StartFails
    /\ (cancelled /\ Healthy) \/ Fault
    /\ UNCHANGED <<gateway, link, bound, stray, wiped>>

SysCrash ==
    /\ Crash /\ Fault /\ HangUp
    /\ UNCHANGED <<gateway, bound, stray, wiped>>

\* An application opens or closes the socket a mapping waits for.
Bind(i) ==
    /\ i \in Gated
    /\ bound' = IF i \in bound THEN bound \ {i} ELSE bound \cup {i}
    /\ UNCHANGED <<vars, gateway, link, stray, wiped, faults, reboots>>

Sleeping == pc = "select" /\ timer > 0 /\ ~cancelled
Waiting  == call # "idle" /\ elapsed < MaxCall
Absent   == pc \in {"start", "down", "done"}

SysTick ==
    /\ Sleeping \/ Waiting \/ Absent
    /\ Tick
    /\ ttl' = [i \in Req |-> Less(ttl[i])]
    /\ gwPort' = [i \in Req |-> IF ttl[i] <= 1 THEN NoPort ELSE gwPort[i]]
    /\ elapsed' = IF call = "idle" THEN 0 ELSE elapsed + 1
    /\ UNCHANGED <<call, answer, env>>

-----------------------------------------------------------------------------
\* The steps of the daemon that involve nobody else.
Alone ==
    /\ \/ Start \/ Restart \/ Arm \/ Fire \/ Shutdown \/ Exit
       \/ \E i \in Req : Skip(i) \/ NothingToRelease(i)
    /\ UNCHANGED <<gateway, link, env>>

Client(i) ==
    \/ AskMap(i) \/ NoListener(i) \/ AskUnmap(i) \/ AskExternalIP(i)
    \/ MapReturns(i) \/ MapFails(i) \/ UnmapReturns(i)
    \/ AskRelease(i) \/ ReleaseReturns(i)

Served(i) == ServeMap(i) \/ ServeUnmap(i)

Stray(i) == Straggle(i) \/ StrayMapArrives(i) \/ StrayUnmapArrives(i)

SysCancel == Cancel /\ UNCHANGED <<gateway, link, env>>

SysProgram == SysStartFails \/ Alone \/ \E i \in Req : Client(i) \/ Served(i)

SysNext ==
    \/ SysProgram \/ SysTick
    \/ SysCancel \/ SysCrash \/ Reboot \/ \E i \in Req : Bind(i) \/ Stray(i)

\* As for Daemon; the gateway answers, and nothing that goes wrong must happen.
SysFairness ==
    /\ WF_sysVars(SysProgram) /\ WF_sysVars(SysTick)
    /\ SF_sysVars(Shutdown /\ UNCHANGED <<gateway, link, env>>)

SysSpec == SysInit /\ [][SysNext]_sysVars /\ SysFairness

-----------------------------------------------------------------------------
(* Properties *)

Installed(i) == i \in Held /\ gwPort[i] = leases[i]
Unmapping(i) == pc = "unmap" /\ cur = i

\* A lifetime of which half outlasts MaxFaults failed attempts at renewal, each
\* with its backoff and the calls of the passes before and after it.
LeaseOutlastsRetries ==
    \A life \in Lifetime :
        life - RenewBefore(life) >
            (2 * NumRequests + 1) * MaxCall
              + MaxFaults * (RetryBackoff + 2 * NumRequests * MaxCall)

\* Given LeaseOutlastsRetries, until the daemon is told to stop, every lease it
\* records is installed at the gateway with the port it recorded, although up
\* to MaxFaults exchanges fail: renewing at half the lifetime leaves time for
\* the retries, and only a reboot of the gateway or a stray request takes a
\* mapping away.
RecordedIsInstalled ==
    ~cancelled => \A i \in Held \ wiped : ~Unmapping(i) => Installed(i)

\* Without a fault or a cancellation, whatever the gateway has open is known to
\* the daemon whenever it sleeps, so a shutdown would find it.
OpenIsRecorded ==
    pc = "select" /\ faults = 0 /\ ~cancelled =>
        \A i \in Req : gwPort[i] # NoPort => Installed(i)

\* A gateway-chosen port survives a reboot of the gateway: when the daemon's request
\* is served while the old port is free, the mapping is not moved to another
\* (mapRequest asks for it again).  This is about the call under way: a late copy of
\* the first request, which asked for no port, may still move the mapping.
PortKept ==
    [][\A i \in Req :
          (/\ pc = "map" /\ cur = i /\ call = "sent" /\ call' = "served"
           /\ Requested[i] = NoPort /\ leases[i] \in Port \ Taken(i)
           /\ gwPort'[i] # gwPort[i])
          => gwPort'[i] = leases[i]]_sysVars

\* Whatever goes wrong, once it stops going wrong every ungated mapping is
\* installed and recorded, for good, unless the daemon is told to stop.
Converges == <>[](cancelled \/ \A i \in Req \ Gated : Installed(i))

\* A gated mapping follows its listener: a socket that stays bound gets its
\* mapping, and the gateway closes the mapping of one that stays away, even if
\* the Unmap was lost or the daemon never learnt of the mapping.
GatedFollows ==
    \A i \in Gated :
        /\ <>[](i \in bound) => <>[](cancelled \/ Installed(i))
        /\ <>[](i \notin bound) => <>[](cancelled \/ gwPort[i] = NoPort)

\* The mishaps that have struck: a copy that is still on its way has not.
Struck == faults + reboots - (IF stray = NoStray THEN 0 ELSE 1)

Promise == INSTANCE Forwarding WITH
    Mapping  <- Req,
    open     <- gwPort,
    record   <- leases,
    atRisk   <- wiped,
    stopping <- cancelled,
    mishaps  <- Struck

\* The daemon, its client and the gateway do together what Forwarding promises,
\* given LeaseOutlastsRetries: a forwarding on record stays open until it is not
\* wanted, the daemon is told to stop or one of the mishaps strikes.
KeepsItsPromise == Promise!Spec

\* README: "Releases all mappings on SIGINT/SIGTERM for a clean shutdown."
\* When Run returns no error, the gateway is left with none of them.
CleanExitReleasesAll ==
    pc = "done" /\ failed = {} => \A i \in Req : gwPort[i] = NoPort
=============================================================================
