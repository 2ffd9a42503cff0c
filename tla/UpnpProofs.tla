----------------------------- MODULE UpnpProofs -----------------------------
(***************************************************************************)
(* Proofs about Upnp and Discovery, for any requests, addresses and        *)
(* devices on the LAN and any number of failures: a port is open only for  *)
(* what the daemon knows of, the router is not overlooked while there is   *)
(* time for it, and the control target is of the most preferred type.  How *)
(* findService walks a tree is recursion over data; here a walk is any     *)
(* list of services.                                                       *)
(*                                                                         *)
(* UInv is inductive; the types of what discovery keeps (FoundOK,          *)
(* TargetOK, FaultsOK) follow on top of it.                                *)
(***************************************************************************)
EXTENDS Upnp, FiniteSetTheorems, TLAPS

Probing == [op : {"probe"}, at : {"target", "address"}]
Serving == [op : {"map", "unmap"}, req : Requests, port : Ports \ {0},
            at : {"target", "action", "address"}]

DaemonOK ==
    /\ chosen \in BOOLEAN /\ leases \in [Requests -> Ports]
    /\ due \subseteq Requests /\ failed \subseteq Requests
    /\ call \in {Idle} \cup Probing \cup Serving
    /\ call \in Serving => call.port = ExternalPort(call.req)

TableOK == table \in [Ports \ {0} -> {Free} \cup [client : Addresses, internal : Ports \ {0}]]

RouterOK ==
    /\ lan \in Lans /\ address \in Addresses /\ TableOK
    /\ internalClient \in Addresses \cup {Unknown}

\* A client is asked for mappings once its probe has succeeded.
Phases ==
    /\ call \in Probing => ~chosen
    /\ call \in Serving => chosen
    /\ ~chosen => due = {} /\ \A r \in Requests : leases[r] = 0

\* Discovery is part of a probe, and what it finds is kept.
Looking ==
    /\ search \in {"idle", "listen", "fetch"}
    /\ search # "idle" => target = NoTarget /\ call \in Probing
    /\ chosen => target # NoTarget
    /\ call # Idle /\ call.at # "target" => target # NoTarget

\* The window and the fetches that hung are all that has cost time.
InTime ==
    /\ left \in 0 .. Timeout /\ hung \in Nat
    /\ search = "listen" => left = Timeout
    /\ search = "fetch" => left + Window + hung >= Timeout

\* The descriptors that were of no use; the router's is not one of them unless there
\* was no time for it.
Excused == missed \/ Window + hung >= Timeout
Tried ==
    /\ found \in Seq(Locations) /\ next \in Nat \ {0}
    /\ search # "fetch" => next = 1
    /\ \A n \in 1 .. next - 1 : n \in DOMAIN found /\ found[n] = Router => Excused

\* Why a port is open.
Recorded ==
    \A r \in Requests : Open(r) =>
        leases[r] # 0 \/ r \in failed \/ (call \in Serving /\ call.req = r)

UInv == DaemonOK /\ RouterOK /\ Phases /\ Looking /\ InTime /\ Tried /\ Recorded

-----------------------------------------------------------------------------
(* Requests, ports and calls *)

LEMMA RequestFacts ==
    ASSUME NEW r \in Requests
    PROVE  /\ r.internal \in Ports \ {0} /\ r.internal \in Nat \ {0} /\ r.address \in Addresses \cup {Unknown}
           /\ ExternalPort(r) \in Nat \ {0} /\ ExternalPort(r) \in Ports \ {0}
           /\ \A q \in Requests : q.internal = r.internal => q = r
BY UpnpAssumption DEF ExternalPort, Ports

LEMMA CallKinds ==
    /\ 0 \in Ports
    /\ Idle \notin Probing /\ Idle \notin Serving
    /\ \A c \in Probing : c.op = "probe" /\ c.at \in {"target", "address"} /\ c \notin Serving
    /\ \A c \in Serving : /\ c.op \in {"map", "unmap"} /\ c.op # "probe"
                          /\ c.req \in Requests /\ c.port \in Ports \ {0}
                          /\ c.at \in {"target", "action", "address"}
BY DEF Idle, Probing, Serving, Ports

LEMMA TimeFacts ==
    /\ Timeout \in Nat /\ Window \in Nat /\ HTTPTimeout \in Nat
    /\ 0 \in 0 .. Timeout /\ Timeout \in 0 .. Timeout
    /\ left \in 0 .. Timeout =>
          \A wait \in Nat : After(wait) \in 0 .. Timeout /\ After(wait) + wait >= left
BY DiscoveryAssumption DEF After

LEMMA NoLessTime ==
    ASSUME NEW h \in Nat, NEW k \in Nat, k >= h, Window + h >= Timeout
    PROVE  Window + k >= Timeout
BY DiscoveryAssumption

LEMMA UStarts ==
    ASSUME Init
    PROVE  UInv
<1>1. DaemonOK /\ Phases
  BY CallKinds DEF Init, DaemonOK, Phases
<1>2. RouterOK
  BY DEF Init, DiscoveryInit, RouterOK, TableOK, Free
<1>3. Looking /\ InTime /\ Tried
  BY TimeFacts DEF Init, DiscoveryInit, Looking, InTime, Tried
<1>4. Recorded
  BY RequestFacts DEF Init, Recorded, Open, Free
<1>5. QED
  BY <1>1, <1>2, <1>3, <1>4 DEF UInv

-----------------------------------------------------------------------------
(* How calls end *)

\* What a new process starts with.
LEMMA NewProcessStep ==
    ASSUME UInv, NewProcess, UNCHANGED <<lan, address, table>>, failed' \subseteq Requests,
           failed \subseteq failed',
           \A r \in Requests : leases[r] # 0 \/ (call \in Serving /\ call.req = r) => r \in failed'
    PROVE  UInv'
<1>1. /\ search' = "idle" /\ found' = <<>> /\ next' = 1 /\ left' = 0 /\ hung' = 0
      /\ target' = NoTarget /\ internalClient' = Unknown
      /\ chosen' = FALSE /\ call' = Idle /\ due' = {} /\ leases' = [r \in Requests |-> 0]
  BY DEF NewProcess, Quiet
<1>2. DaemonOK' /\ Phases'
  BY <1>1, CallKinds DEF DaemonOK, Phases
<1>3. RouterOK'
  BY <1>1 DEF UInv, RouterOK, TableOK
<1>4. Looking' /\ InTime' /\ Tried'
  BY TimeFacts, <1>1 DEF Looking, InTime, Tried, Excused
<1>5. \A r \in Requests : Open(r)' = Open(r)
  BY DEF Open
<1>6. Recorded'
  BY <1>5 DEF UInv, Recorded
<1>7. QED
  BY <1>2, <1>3, <1>4, <1>6 DEF UInv

\* The router's table, after a step that opens no port but that of the call.
Narrows ==
    /\ TableOK' /\ UNCHANGED <<lan, address>>
    /\ \A r \in Requests : Open(r)' => Open(r) \/ (call \in Serving /\ call.req = r)

LEMMA FailsStep ==
    ASSUME UInv, call # Idle, Fails, Narrows, call \in Probing => UNCHANGED table
    PROVE  UInv'
<1>1. CASE call \in Probing
  <2>1. NewProcess /\ UNCHANGED <<failed, lan, address, table>>
    BY <1>1, CallKinds DEF Fails, Narrows
  <2>2. /\ failed \subseteq Requests
        /\ \A r \in Requests : leases[r] = 0
        /\ call \notin Serving
    BY <1>1, CallKinds DEF UInv, DaemonOK, Phases
  <2>3. QED
    BY <2>1, <2>2, NewProcessStep
<1>2. CASE call \in Serving
  <2>1. /\ call.req \in Requests /\ call.op # "probe" /\ leases \in [Requests -> Ports]
        /\ chosen /\ target # NoTarget
    BY <1>2, CallKinds DEF UInv, DaemonOK, Phases, Looking
  <2>2. /\ call' = Idle /\ due' = due \ {call.req} /\ failed' = failed \cup {call.req}
        /\ search' = "idle" /\ found' = <<>> /\ next' = 1 /\ left' = 0 /\ hung' = 0
        /\ UNCHANGED <<target, internalClient, chosen>>
        /\ leases' = leases \/ leases' = [leases EXCEPT ![call.req] = 0]
    BY <2>1 DEF Fails, Return, Quiet, Record
  <2>3. DaemonOK' /\ Phases'
    BY <2>1, <2>2, CallKinds DEF UInv, DaemonOK, Phases
  <2>4. Looking' /\ InTime' /\ Tried'
    BY TimeFacts, <2>1, <2>2 DEF Looking, InTime, Tried, Excused
  <2>5. Recorded'
    BY <2>1, <2>2 DEF UInv, Recorded, Narrows
  <2>6. QED
    BY <2>2, <2>3, <2>4, <2>5 DEF UInv, Narrows, RouterOK
<1>3. QED
  BY <1>1, <1>2 DEF UInv, DaemonOK

LEMMA SucceedsStep ==
    ASSUME UInv, call \in Serving, NEW port \in Ports, Succeeds(port), Narrows,
           \A r \in Requests : port = 0 /\ r = call.req => ~Open(r)'
    PROVE  UInv'
<1>1. /\ call.req \in Requests /\ leases \in [Requests -> Ports]
      /\ chosen /\ target # NoTarget
  BY CallKinds DEF UInv, DaemonOK, Phases, Looking
<1>2. /\ call' = Idle /\ due' = due \ {call.req} /\ failed' = failed \ {call.req}
      /\ leases' = [leases EXCEPT ![call.req] = port]
      /\ UNCHANGED <<target, search, found, next, left, missed, hung, internalClient, chosen>>
  BY DEF Succeeds, Return, Record, client, discovery
<1>3. DaemonOK' /\ Phases'
  BY <1>1, <1>2, CallKinds DEF UInv, DaemonOK, Phases
<1>4. Looking' /\ InTime' /\ Tried'
  BY TimeFacts, <1>1, <1>2, CallKinds DEF UInv, Looking, InTime, Tried, Excused
<1>5. ASSUME NEW r \in Requests, Open(r)'
      PROVE  leases'[r] # 0 \/ r \in failed'
  <2>1. CASE r = call.req
    BY <1>1, <1>2, <1>5, <2>1
  <2>2. CASE r # call.req
    BY <1>1, <1>2, <1>5, <2>2 DEF UInv, Recorded, Narrows
  <2>3. QED
    BY <2>1, <2>2
<1>6. QED
  BY <1>2, <1>3, <1>4, <1>5 DEF UInv, Narrows, Recorded, RouterOK
-----------------------------------------------------------------------------
(* The daemon *)

LEMMA CrashStep ==
    ASSUME UInv, Crash
    PROVE  UInv'
<1>1. /\ chosen /\ NewProcess /\ UNCHANGED <<lan, table, address>>
      /\ failed' = failed \cup {r \in Requests : leases[r] # 0 \/ (call # Idle /\ call.req = r)}
  BY DEF Crash, router
<1>2. failed \subseteq Requests
  BY DEF UInv, DaemonOK
<1>3. QED
  BY <1>1, <1>2, CallKinds, NewProcessStep

\* A step that leaves the records, the router and discovery alone.
LEMMA QuietStep ==
    ASSUME UInv, UNCHANGED <<chosen, leases, failed, lan, table, address, discovery>>,
           internalClient' \in Addresses \cup {Unknown}, due' \subseteq Requests,
           ~chosen => due' = {},
           call' \in {Idle} \cup Probing \cup Serving,
           call' \in Serving => chosen /\ call'.port = ExternalPort(call'.req),
           call' \in Probing => ~chosen,
           call' # Idle /\ call'.at # "target" => target # NoTarget,
           search # "idle" => call' = call,
           call \in Serving => call' \in Serving /\ call'.req = call.req
    PROVE  UInv'
<1>1. DaemonOK' /\ RouterOK' /\ Phases'
  BY DEF UInv, DaemonOK, RouterOK, TableOK, Phases
<1>2. Looking' /\ InTime' /\ Tried'
  BY TimeFacts DEF UInv, Looking, InTime, Tried, Excused, discovery
<1>3. Recorded'
  BY DEF UInv, Recorded, Open
<1>4. QED
  BY <1>1, <1>2, <1>3 DEF UInv

LEMMA ProbeStep ==
    ASSUME UInv, Probe
    PROVE  UInv'
<1>1. /\ ~chosen /\ call = Idle /\ call' = [op |-> "probe", at |-> "target"]
      /\ UNCHANGED <<chosen, leases, failed, lan, table, address, discovery>>
      /\ UNCHANGED <<internalClient, due>>
  BY DEF Probe, client, daemon, router
<1>2. call' \in Probing /\ call' \notin Serving /\ call'.at = "target"
  BY <1>1, CallKinds DEF Probing
<1>3. search = "idle" /\ due \subseteq Requests /\ internalClient \in Addresses \cup {Unknown}
  BY <1>1, CallKinds DEF UInv, Looking, DaemonOK, RouterOK
<1>4. due' = {}
  BY <1>1 DEF UInv, Phases
<1>5. QED
  BY <1>1, <1>2, <1>3, <1>4, CallKinds, QuietStep

LEMMA PassStep ==
    ASSUME UInv, NEW requests \in SUBSET Requests, Pass(requests)
    PROVE  UInv'
<1>1. /\ chosen /\ call = Idle /\ due' = requests
      /\ UNCHANGED <<chosen, leases, failed, call, lan, table, address, discovery>>
      /\ internalClient' = address \/ internalClient' = internalClient
  BY DEF Pass, refreshLocalAddr, router
<1>2. internalClient' \in Addresses \cup {Unknown}
  BY <1>1 DEF UInv, RouterOK
<1>3. QED
  BY <1>1, <1>2, CallKinds, QuietStep

LEMMA BeginStep ==
    ASSUME UInv, NEW r \in Requests, BeginMap(r) \/ BeginUnmap(r)
    PROVE  UInv'
<1>1. /\ call = Idle /\ r \in due
      /\ UNCHANGED <<chosen, leases, failed, lan, table, address, discovery>>
      /\ UNCHANGED internalClient
      /\ \/ (Begin("map", r) \/ Begin("unmap", r)) /\ due' = due
         \/ call' = call /\ due' = due \ {r}
  BY DEF BeginMap, BeginUnmap, client, daemon, router
<1>2. ASSUME NEW op \in {"map", "unmap"}, Begin(op, r)
      PROVE  /\ call' \in Serving /\ call' \notin Probing
             /\ call'.port = ExternalPort(call'.req) /\ call'.at = "target"
  BY <1>2, RequestFacts, CallKinds DEF Begin, Serving
<1>3. /\ search = "idle" /\ due \subseteq Requests /\ internalClient \in Addresses \cup {Unknown}
      /\ chosen
  <2>1. search = "idle"
    BY <1>1, CallKinds DEF UInv, Looking
  <2>2. QED
    BY <1>1, <2>1 DEF UInv, DaemonOK, RouterOK, Phases
<1>4. QED
  BY <1>1, <1>2, <1>3, CallKinds, QuietStep
-----------------------------------------------------------------------------
(* Discovery *)

LEMMA ResolveStep ==
    ASSUME UInv, Resolve
    PROVE  UInv'
<1>1. /\ call # Idle /\ target # NoTarget
      /\ call' = [call EXCEPT !.at = IF call.op = "probe" THEN "address" ELSE "action"]
      /\ UNCHANGED <<chosen, leases, due, failed, lan, table, address, discovery, internalClient>>
  BY DEF Resolve, Resolving, client, daemon, router
<1>2. /\ search = "idle" /\ due \subseteq Requests /\ internalClient \in Addresses \cup {Unknown}
      /\ ~chosen => due = {}
  BY <1>1 DEF UInv, Looking, DaemonOK, RouterOK, Phases
<1>3. CASE call \in Probing
  <2>1. call' \in Probing /\ call' \notin Serving /\ call \notin Serving
    BY <1>1, <1>3, CallKinds DEF Probing
  <2>2. ~chosen
    BY <1>3 DEF UInv, Phases
  <2>3. QED
    BY <1>1, <1>2, <2>1, <2>2, QuietStep
<1>4. CASE call \in Serving
  <2>1. /\ call' \in Serving /\ call' \notin Probing
        /\ call'.req = call.req /\ call'.port = call.port
    BY <1>1, <1>4, CallKinds DEF Serving
  <2>2. chosen /\ call.port = ExternalPort(call.req)
    BY <1>4 DEF UInv, Phases, DaemonOK
  <2>3. QED
    BY <1>1, <1>2, <2>1, <2>2, QuietStep
<1>5. QED
  BY <1>1, <1>3, <1>4 DEF UInv, DaemonOK

\* The router's descriptor is always of use.
LEMMA RouterUsable ==
    ASSUME RouterOK
    PROVE  Usable(lan[Router])
BY DiscoveryAssumption DEF RouterOK

LEMMA DiscoverStep ==
    ASSUME UInv, Discover
    PROVE  UInv'
<1>1. /\ call # Idle /\ call.at = "target"
      /\ UNCHANGED <<chosen, leases, due, failed, call, lan, table, address, internalClient>>
  BY DEF Discover, Resolving, daemon, router
<1>2. DaemonOK' /\ RouterOK' /\ Phases'
  BY <1>1 DEF UInv, DaemonOK, RouterOK, TableOK, Phases
<1>3. Recorded'
  BY <1>1 DEF UInv, Recorded, Open
<1>4. CASE Search
  <2>1. /\ target = NoTarget /\ search = "idle" /\ search' = "listen" /\ left' = Timeout
        /\ UNCHANGED <<target, found, next, missed, hung>>
    BY <1>4 DEF Search
  <2>2. call \in Probing
    BY <1>1, <2>1 DEF UInv, DaemonOK, Phases, Looking
  <2>3. Looking'
    BY <1>1, <2>1, <2>2 DEF UInv, Looking
  <2>4. InTime' /\ Tried'
    BY <2>1, TimeFacts DEF UInv, InTime, Tried, Excused
  <2>5. QED
    BY <1>2, <1>3, <2>3, <2>4 DEF UInv
<1>5. CASE FetchUsable
  <2>1. /\ search = "fetch" /\ search' = "idle" /\ found' = <<>> /\ next' = 1
        /\ left' = 0 /\ hung' = 0
    BY <1>5 DEF FetchUsable, Served, Fetching, Quiet
  <2>2. ~chosen
    BY <2>1 DEF UInv, Looking, Phases
  <2>3. Looking' /\ InTime' /\ Tried'
    BY <1>1, <2>1, <2>2, TimeFacts DEF Looking, InTime, Tried
  <2>4. QED
    BY <1>2, <1>3, <2>3 DEF UInv
<1>6. CASE CloseWindow
  <2>1. /\ search = "listen" /\ search' = "fetch" /\ left' = After(Window)
        /\ UNCHANGED <<target, found, next, missed, hung>>
    BY <1>6 DEF CloseWindow
  <2>2. Looking'
    BY <1>1, <2>1 DEF UInv, Looking
  <2>3. next = 1 /\ left = Timeout /\ hung \in Nat
    BY <2>1 DEF UInv, Tried, InTime
  <2>4. left' \in 0 .. Timeout /\ left' + Window >= Timeout
    BY <2>1, <2>3, TimeFacts
  <2>5. InTime'
    BY <2>1, <2>3, <2>4, TimeFacts DEF InTime
  <2>6. Tried'
    BY <2>1, <2>3 DEF UInv, Tried
  <2>7. QED
    BY <1>2, <1>3, <2>2, <2>5, <2>6 DEF UInv
<1>7. ASSUME NEW l \in Locations, Respond(l)
      PROVE  UInv'
  <2>1. /\ search = "listen" /\ found' = Append(found, l)
        /\ UNCHANGED <<target, search, next, left, missed, hung>>
    BY <1>7 DEF Respond
  <2>2. Looking'
    BY <1>1, <2>1 DEF UInv, Looking
  <2>3. next = 1 /\ found' \in Seq(Locations)
    BY <2>1 DEF UInv, Tried
  <2>4. InTime' /\ Tried'
    BY <2>1, <2>3 DEF UInv, InTime, Tried
  <2>5. QED
    BY <1>2, <1>3, <2>2, <2>4 DEF UInv
<1>8. ASSUME NEW l \in Locations,
             FetchUseless(l) \/ FetchFails(l) \/ FetchHangs(l) \/ FetchTooLate(l)
      PROVE  UInv'
  <2>1. /\ search = "fetch" /\ next <= Len(found) /\ found[next] = l /\ next' = next + 1
        /\ UNCHANGED <<target, search, found>>
    BY <1>8 DEF FetchUseless, FetchFails, FetchHangs, FetchTooLate, Served, Fetching
  <2>2. left \in 0 .. Timeout /\ hung \in Nat /\ left + Window + hung >= Timeout
    BY <2>1 DEF UInv, InTime
  <2>3. \/ UNCHANGED <<left, hung>>
        \/ left' = After(HTTPTimeout) /\ hung' = hung + HTTPTimeout
    BY <1>8 DEF FetchUseless, FetchFails, FetchHangs, FetchTooLate
  <2>4. InTime' /\ hung' \in Nat /\ hung' >= hung
    <3> DEFINE rest == After(HTTPTimeout)
    <3>1. rest \in 0 .. Timeout /\ rest + HTTPTimeout >= left
      BY <2>2, TimeFacts
    <3> HIDE DEF rest
    <3>2. /\ left' \in 0 .. Timeout /\ hung' \in Nat /\ hung' >= hung
          /\ left' + Window + hung' >= Timeout
      BY <2>2, <2>3, <3>1, TimeFacts DEF rest
    <3>3. QED
      BY <2>1, <3>2 DEF InTime
  <2>5. (l = Router => Excused') /\ (Excused => Excused')
    <3>1. missed => missed'
      BY <1>8, Zenon DEF FetchUseless, FetchFails, FetchHangs, FetchTooLate
    <3>2. Excused => Excused'
      <4>1. Window + hung >= Timeout => Window + hung' >= Timeout
        BY <2>2, <2>4, NoLessTime
      <4>2. QED
        BY <3>1, <4>1, Zenon DEF Excused
    <3>3. CASE FetchUseless(l)
      BY <3>2, <3>3, RouterUsable DEF UInv, FetchUseless
    <3>4. CASE FetchFails(l) \/ FetchHangs(l)
      <4>1. l = Router => missed'
        BY <3>4, Zenon DEF FetchFails, FetchHangs
      <4>2. QED
        BY <3>2, <4>1 DEF Excused
    <3>5. CASE FetchTooLate(l)
      <4>1. left = 0
        BY <3>5 DEF FetchTooLate
      <4>2. Excused
        BY <2>2, <4>1, TimeFacts DEF Excused
      <4>3. QED
        BY <3>2, <4>2
    <3>6. QED
      BY <1>8, <3>2, <3>3, <3>4, <3>5
  <2>6. Looking'
    BY <1>1, <2>1 DEF UInv, Looking
  <2>7. found \in Seq(Locations) /\ next \in Nat \ {0}
    BY DEF UInv, Tried
  <2>8. ASSUME NEW n \in 1 .. next, n \in DOMAIN found, found[n] = Router
        PROVE  Excused'
    <3>1. CASE n = next
      BY <2>1, <2>5, <2>8, <3>1
    <3>2. CASE n \in 1 .. next - 1
      BY <2>1, <2>5, <2>8, <3>2 DEF UInv, Tried
    <3>3. QED
      BY <2>7, <3>1, <3>2
  <2>9. Tried'
    BY <2>1, <2>7, <2>8 DEF Tried
  <2>10. QED
    BY <1>2, <1>3, <2>4, <2>6, <2>9 DEF UInv
<1>9. QED
  BY <1>4, <1>5, <1>6, <1>7, <1>8 DEF Discover
-----------------------------------------------------------------------------
(* The SOAP calls *)

LEMMA SameTable ==
    ASSUME UInv, UNCHANGED <<lan, address, table>>
    PROVE  Narrows
BY DEF UInv, RouterOK, TableOK, Narrows, Open

LEMMA FailedCallStep ==
    ASSUME UInv, SearchFails \/ GivesUp \/ AddFails \/ ExternalIPFails \/ DeleteFails
    PROVE  UInv'
<1>1. call # Idle /\ Fails /\ UNCHANGED <<lan, address, table>>
  BY CallKinds DEF SearchFails, GivesUp, AddFails, ExternalIPFails, DeleteFails, Resolving, At, router
<1>2. QED
  BY <1>1, SameTable, FailsStep

LEMMA AddPortMappingStep ==
    ASSUME UInv, AddPortMapping
    PROVE  UInv'
<1>1. /\ call # Idle /\ call.op = "map" /\ call.at = "action"
      /\ Advertised(call.req) # Unknown
      /\ table' = [table EXCEPT ![call.port] = Entry(call.req)]
      /\ UNCHANGED <<lan, address>>
  BY DEF AddPortMapping, Accepted, At
<1>2. /\ call \in Serving /\ call.req \in Requests /\ call.port = ExternalPort(call.req)
      /\ call.port \in Ports \ {0} /\ call \notin Probing
  BY <1>1, CallKinds, RequestFacts DEF UInv, DaemonOK
<1>3. Entry(call.req) \in [client : Addresses, internal : Ports \ {0}]
      /\ Entry(call.req).internal = call.req.internal
  BY <1>1, <1>2, RequestFacts DEF Entry, Advertised, UInv, RouterOK
<1>4. TableOK'
  BY <1>1, <1>3 DEF UInv, RouterOK, TableOK
<1>5. ASSUME NEW r \in Requests, Open(r)'
      PROVE  Open(r) \/ r = call.req
  <2>1. CASE ExternalPort(r) = call.port
    BY <1>1, <1>2, <1>3, <1>5, <2>1, RequestFacts DEF UInv, RouterOK, TableOK, Open
  <2>2. CASE ExternalPort(r) # call.port
    BY <1>1, <1>5, <2>2, RequestFacts DEF UInv, RouterOK, TableOK, Open
  <2>3. QED
    BY <2>1, <2>2
<1>6. Narrows
  BY <1>1, <1>2, <1>4, <1>5 DEF Narrows
<1>7. CASE Fails
  BY <1>1, <1>2, <1>6, <1>7, FailsStep
<1>8. CASE /\ call' = [call EXCEPT !.at = "address"]
           /\ UNCHANGED <<client, daemon>>
  <2>1. /\ call' \in Serving /\ call' \notin Probing
        /\ call'.req = call.req /\ call'.port = call.port
    BY <1>2, <1>8, CallKinds DEF Serving
  <2>2. UNCHANGED <<target, search, found, next, left, missed, hung, internalClient, chosen, leases, due, failed>>
    BY <1>8 DEF client, daemon, discovery
  <2>3. DaemonOK' /\ Phases'
    BY <1>2, <2>1, <2>2 DEF UInv, DaemonOK, Phases
  <2>4. RouterOK'
    BY <1>1, <1>4, <2>2 DEF UInv, RouterOK
  <2>5. Looking' /\ InTime' /\ Tried'
    BY TimeFacts, <1>1, <1>2, <2>2 DEF UInv, Looking, InTime, Tried, Excused
  <2>6. Recorded'
    BY <1>5, <2>1, <2>2 DEF UInv, Recorded
  <2>7. QED
    BY <2>3, <2>4, <2>5, <2>6 DEF UInv
<1>9. QED
  BY <1>7, <1>8 DEF AddPortMapping

LEMMA ExternalIPStep ==
    ASSUME UInv, ExternalIP
    PROVE  UInv'
<1>1. UNCHANGED <<lan, table, address>>
  BY DEF ExternalIP, router
<1>2. CASE At("map", "address") /\ Succeeds(call.port)
  <2>1. call \in Serving /\ call.port \in Ports \ {0}
    BY <1>2, CallKinds DEF At, UInv, DaemonOK
  <2>2. PICK port \in Ports \ {0} : Succeeds(port)
    BY <1>2, <2>1
  <2>3. QED
    BY <1>1, <2>1, <2>2, SameTable, SucceedsStep
<1>3. CASE /\ At("probe", "address")
           /\ call' = Idle /\ chosen' = TRUE
           /\ UNCHANGED <<client, leases, due, failed>>
  <2>1. /\ call \in Probing /\ call \notin Serving /\ target # NoTarget
        /\ UNCHANGED <<target, search, found, next, left, missed, hung, internalClient>>
    BY <1>3, CallKinds DEF At, UInv, DaemonOK, Looking, client, discovery
  <2>2. DaemonOK' /\ RouterOK' /\ Phases'
    BY <1>1, <1>3, <2>1, CallKinds DEF UInv, DaemonOK, RouterOK, TableOK, Phases
  <2>3. Looking' /\ InTime' /\ Tried'
    BY TimeFacts, <1>3, <2>1 DEF UInv, Looking, InTime, Tried, Excused
  <2>4. Recorded'
    BY <1>1, <1>3, <2>1 DEF UInv, Recorded, Open
  <2>5. QED
    BY <2>2, <2>3, <2>4 DEF UInv
<1>4. QED
  BY <1>2, <1>3 DEF ExternalIP

LEMMA DeletePortMappingStep ==
    ASSUME UInv, DeletePortMapping
    PROVE  UInv'
<1>1. /\ call # Idle /\ call.op = "unmap"
      /\ table' = [table EXCEPT ![call.port] = Free] /\ UNCHANGED <<lan, address>>
  BY DEF DeletePortMapping, At
<1>2. /\ call \in Serving /\ call.req \in Requests /\ call.port = ExternalPort(call.req)
      /\ call \notin Probing
  BY <1>1, CallKinds DEF UInv, DaemonOK
<1>3. TableOK'
  BY <1>1 DEF UInv, RouterOK, TableOK, Free
<1>4. ASSUME NEW r \in Requests, Open(r)'
      PROVE  Open(r) /\ r # call.req
  <2>1. ExternalPort(r) # call.port
    BY <1>1, <1>4, RequestFacts DEF UInv, RouterOK, TableOK, Open, Free
  <2>2. QED
    BY <1>1, <1>2, <1>4, <2>1, RequestFacts DEF UInv, RouterOK, TableOK, Open
<1>5. Narrows
  BY <1>1, <1>3, <1>4 DEF Narrows
<1>6. CASE Succeeds(0)
  BY <1>2, <1>4, <1>5, <1>6, CallKinds, SucceedsStep
<1>7. CASE Fails
  BY <1>1, <1>2, <1>5, <1>7, FailsStep
<1>8. QED
  BY <1>6, <1>7 DEF DeletePortMapping

-----------------------------------------------------------------------------
(* The router and the host *)

LEMMA EnvironmentStep ==
    ASSUME UInv, \/ Reboot \/ AddressChanges
                 \/ \E p \in Ports \ {0} : Expire(p) \/ ExpireUnrenewed(p)
    PROVE  UInv'
<1>1. /\ UNCHANGED <<target, search, found, next, left, missed, hung, internalClient>>
      /\ UNCHANGED <<chosen, leases, due, failed, call>>
  BY DEF Reboot, AddressChanges, Expire, ExpireUnrenewed, Expires, client, discovery, daemon
<1>2. /\ lan' \in Lans /\ address' \in Addresses
      /\ \/ UNCHANGED table
         \/ table' = [p \in Ports \ {0} |-> Free]
         \/ \E p \in Ports \ {0} : table' = [table EXCEPT ![p] = Free]
  BY DEF UInv, RouterOK, Reboot, AddressChanges, Expire, ExpireUnrenewed, Expires, router
<1>3. TableOK' /\ \A r \in Requests : Open(r)' => Open(r)
  <2>1. CASE UNCHANGED table
    BY <2>1 DEF UInv, RouterOK, TableOK, Open
  <2>2. CASE table' = [p \in Ports \ {0} |-> Free]
    BY <2>2, RequestFacts DEF TableOK, Open, Free
  <2>3. ASSUME NEW p \in Ports \ {0}, table' = [table EXCEPT ![p] = Free]
        PROVE  TableOK' /\ \A r \in Requests : Open(r)' => Open(r)
    <3>1. TableOK'
      BY <2>3 DEF UInv, RouterOK, TableOK, Free
    <3>2. ASSUME NEW r \in Requests, Open(r)'
          PROVE  Open(r)
      BY <2>3, <3>2, RequestFacts DEF UInv, RouterOK, TableOK, Open, Free
    <3>3. QED
      BY <3>1, <3>2
  <2>4. QED
    BY <1>2, <2>1, <2>2, <2>3
<1>4. DaemonOK' /\ RouterOK' /\ Phases'
  BY <1>1, <1>2, <1>3 DEF UInv, DaemonOK, RouterOK, Phases
<1>5. Looking' /\ InTime' /\ Tried'
  BY TimeFacts, <1>1 DEF UInv, Looking, InTime, Tried, Excused
<1>6. Recorded'
  BY <1>1, <1>3 DEF UInv, Recorded
<1>7. QED
  BY <1>4, <1>5, <1>6 DEF UInv
-----------------------------------------------------------------------------
(* The theorems *)

LEMMA UStep ==
    ASSUME UInv, [Next]_vars
    PROVE  UInv'
<1>1. CASE UNCHANGED vars
  <2>1. /\ UNCHANGED <<target, search, found, next, left, missed, hung, internalClient>>
        /\ UNCHANGED <<chosen, leases, due, failed, call, lan, table, address>>
    BY <1>1 DEF vars, client, discovery, daemon, router
  <2>2. DaemonOK' /\ RouterOK' /\ Phases'
    BY <2>1 DEF UInv, DaemonOK, RouterOK, TableOK, Phases
  <2>3. Looking' /\ InTime' /\ Tried' /\ Recorded'
    BY <2>1 DEF UInv, Looking, InTime, Tried, Excused, Recorded, Open
  <2>4. QED
    BY <2>2, <2>3 DEF UInv
<1>2. CASE Call
  BY <1>2, ResolveStep, DiscoverStep, FailedCallStep, AddPortMappingStep, ExternalIPStep,
     DeletePortMappingStep DEF Call
<1>3. CASE Probe \/ Crash
  BY <1>3, ProbeStep, CrashStep
<1>4. CASE \E requests \in SUBSET Requests : requests # {} /\ Pass(requests)
  BY <1>4, PassStep
<1>5. CASE \E r \in Requests : BeginMap(r) \/ BeginUnmap(r)
  BY <1>5, BeginStep
<1>6. CASE \/ Reboot \/ AddressChanges
           \/ \E p \in Ports \ {0} : Expire(p) \/ ExpireUnrenewed(p)
  BY <1>6, EnvironmentStep
<1>7. QED
  BY <1>1, <1>2, <1>3, <1>4, <1>5, <1>6 DEF Next

LEMMA UInvHolds == Spec => []UInv
BY UStarts, UStep, PTL DEF Spec

\* Map and Unmap (upnp.go) and the daemon's records: whatever is lost, restarted,
\* rebooted or moved, a port is open only for a mapping the daemon has on record,
\* is about to record, or knows it failed to close.
THEOREM OpenIsRecordedHolds == Spec => []OpenIsRecorded
<1>1. UInv => OpenIsRecorded
  BY CallKinds DEF UInv, Recorded, OpenIsRecorded
<1>2. QED
  BY <1>1, UInvHolds, PTL

LEMMA OverlooksNobodyStep ==
    ASSUME UInv, [Next]_vars, search = "fetch", search' = "idle", target' = NoTarget
    PROVE  Router \notin Range(found) \/ Excused
<1>1. /\ call \in Probing /\ call # Idle /\ call.at = "target" /\ ~chosen /\ target = NoTarget
      /\ due = {}
  BY CallKinds DEF UInv, Looking, Phases
<1>2. CASE GivesUp
  <2>1. next > Len(found) /\ next \in Nat /\ found \in Seq(Locations)
    BY <1>2 DEF GivesUp, Exhausted, UInv, Tried
  <2>2. DOMAIN found \subseteq 1 .. next - 1
    BY <2>1
  <2>3. QED
    BY <2>2 DEF UInv, Tried, Excused, Range
<1>3. CASE FetchUsable
  <2>1. PICK l \in Locations : Usable(lan[l]) /\ target' = parseControlTarget(lan[l], l)
    BY <1>3 DEF FetchUsable
  <2>2. lan \in Lans
    BY DEF UInv, RouterOK
  <2>3. QED
    BY <2>1, <2>2, DiscoveryAssumption
<1>4. CASE Discover /\ ~FetchUsable
  BY <1>4 DEF Discover, Search, CloseWindow, Respond, FetchUseless, FetchFails, FetchHangs, FetchTooLate
<1>5. CASE \/ Resolve \/ SearchFails \/ AddPortMapping \/ AddFails
           \/ ExternalIP \/ ExternalIPFails \/ DeletePortMapping \/ DeleteFails
  BY <1>1, <1>5 DEF Resolve, SearchFails, AddPortMapping, AddFails, ExternalIP, ExternalIPFails,
     DeletePortMapping, DeleteFails, At
<1>6. CASE \/ Probe \/ Crash
           \/ \E requests \in SUBSET Requests : requests # {} /\ Pass(requests)
           \/ \E r \in Requests : BeginMap(r) \/ BeginUnmap(r)
  BY <1>1, <1>6 DEF Probe, Crash, Pass, BeginMap, BeginUnmap
<1>7. CASE \/ Reboot \/ AddressChanges
           \/ \E p \in Ports \ {0} : Expire(p) \/ ExpireUnrenewed(p)
  BY <1>7 DEF Reboot, AddressChanges, Expire, ExpireUnrenewed, Expires, client, discovery
<1>8. CASE UNCHANGED vars
  BY <1>8 DEF vars, client, discovery
<1>9. QED
  BY <1>2, <1>3, <1>4, <1>5, <1>6, <1>7, <1>8 DEF Next, Call

\* resolveTarget: a router that answered the search and serves its descriptor is found
\* for every timeout that the window and the devices that hang leave something of,
\* whichever devices are on the LAN and in whatever order they answer.
THEOREM OverlooksNobodyHolds == Spec => OverlooksNobody
<1>1. UInv /\ [Next]_vars =>
          (search = "fetch" /\ search' = "idle" /\ target' = NoTarget =>
              Router \notin Range(found) \/ missed \/ Window + hung >= Timeout)
  BY OverlooksNobodyStep DEF Excused
<1>2. QED
  BY <1>1, UInvHolds, PTL DEF Spec, OverlooksNobody
-----------------------------------------------------------------------------
(* The control target *)

\* The naturals are well-ordered.
LEMMA LeastOf ==
    ASSUME NEW S, S \subseteq Nat, S # {}
    PROVE  Min(S) \in S /\ \A n \in S : Min(S) <= n
<1> DEFINE UpTo(n) == 0 .. n
           T == {UpTo(n) : n \in S}
<1>1. T \subseteq FiniteSubsetsOf(Nat)
  <2>1. ASSUME NEW n \in S
        PROVE  UpTo(n) \in FiniteSubsetsOf(Nat)
    <3>1. IsFiniteSet(0 .. n)
      BY FS_Interval
    <3>2. QED
      BY <3>1 DEF FiniteSubsetsOf
  <2>2. QED
    BY <2>1
<1>2. T # {}
  OBVIOUS
<1>3. PICK X \in T : \A Y \in T : <<Y, X>> \notin StrictSubsetOrdering(Nat)
  <2> HIDE DEF T
  <2>1. IsWellFoundedOn(StrictSubsetOrdering(Nat), FiniteSubsetsOf(Nat))
    BY FS_StrictSubsetOrderingWellFounded
  <2>2. QED
    BY <1>1, <1>2, <2>1, WFMin
<1>4. PICK x \in S : X = UpTo(x)
  OBVIOUS
<1>5. ASSUME NEW y \in S, y < x
      PROVE  FALSE
  <2>1. UpTo(y) \subseteq UpTo(x) /\ UpTo(y) # UpTo(x)
    BY <1>5
  <2>2. <<UpTo(y), X>> \in StrictSubsetOrdering(Nat)
    BY <1>4, <2>1 DEF StrictSubsetOrdering
  <2>3. QED
    BY <1>3, <2>2
<1>6. \A y \in S : x <= y
  BY <1>5
<1>7. QED
  BY <1>6 DEF Min

LEMMA RankOf ==
    ASSUME NEW n \in DOMAIN wanServiceTypes
    PROVE  Rank(wanServiceTypes[n]) = n /\ n \in Nat
BY DEF wanServiceTypes, Rank

\* parseControlTarget: the service is one of the tree, and none is of a type that
\* goes before its own.
LEMMA PreferredFacts ==
    ASSUME NEW walk, DOMAIN walk \subseteq Nat, Has(walk) # {}
    PROVE  /\ Preferred(walk) \in Range(walk)
           /\ \E n \in Has(walk) : /\ Preferred(walk).type = wanServiceTypes[n]
                                   /\ \A m \in Has(walk) : n <= m
<1> DEFINE IsFirst(s, n) ==
               (\A m \in Has(walk) : n <= m) /\ s = walk[Min(findService(walk, wanServiceTypes[n]))]
<1>1. Has(walk) \subseteq Nat
  BY RankOf DEF Has
<1>2. PICK n \in Has(walk) : \A m \in Has(walk) : n <= m
  BY <1>1, LeastOf
<1>3. ASSUME NEW k \in Has(walk)
      PROVE  LET s == walk[Min(findService(walk, wanServiceTypes[k]))]
             IN  s \in Range(walk) /\ s.type = wanServiceTypes[k]
  <2> DEFINE S == findService(walk, wanServiceTypes[k])
  <2>1. S \subseteq DOMAIN walk /\ S \subseteq Nat /\ S # {}
    BY DEF Has, findService
  <2>2. Min(S) \in S
    BY <2>1, LeastOf
  <2>3. QED
    BY <2>1, <2>2 DEF findService, Range
<1>4. \E s \in Range(walk) : \E k \in Has(walk) : IsFirst(s, k)
  BY <1>2, <1>3
<1>5. Preferred(walk) \in Range(walk) /\ \E k \in Has(walk) : IsFirst(Preferred(walk), k)
  BY <1>4 DEF Preferred
<1>6. QED
  BY <1>3, <1>5

LEMMA PrefersNewestStep ==
    ASSUME UInv, [Next]_vars, target' # target, target' # NoTarget
    PROVE  \A s \in Range(Walk(lan[found[next]])) :
               s.type \in Range(wanServiceTypes) => Rank(target'.type) <= Rank(s.type)
<1>1. FetchUsable
  BY DEF Next, vars, Probe, Crash, NewProcess, Pass, BeginMap, BeginUnmap, Call, Resolve, Discover,
     SearchFails, GivesUp, AddPortMapping, AddFails, ExternalIP, ExternalIPFails,
     DeletePortMapping, DeleteFails, Reboot, AddressChanges, Expire, ExpireUnrenewed, Expires,
     Search, CloseWindow, Respond, FetchUseless, FetchFails, FetchHangs, FetchTooLate, Fails,
     Succeeds, client, discovery
<1>2. PICK l \in Locations : /\ Usable(lan[l]) /\ found[next] = l
                             /\ target' = parseControlTarget(lan[l], l)
  BY <1>1 DEF FetchUsable, Served, Fetching
<1> DEFINE walk == Walk(lan[l])
<1>3. DOMAIN walk \subseteq Nat /\ Has(walk) # {}
  BY <1>2, DiscoveryAssumption DEF UInv, RouterOK, Usable
<1>4. target'.type = Preferred(walk).type
  BY <1>2 DEF parseControlTarget
<1>5. PICK n \in Has(walk) : /\ target'.type = wanServiceTypes[n]
                             /\ \A m \in Has(walk) : n <= m
  <2> HIDE DEF walk
  <2>1. QED
    BY <1>3, <1>4, PreferredFacts
<1>6. ASSUME NEW s \in Range(walk), s.type \in Range(wanServiceTypes)
      PROVE  Rank(target'.type) <= Rank(s.type)
  <2> HIDE DEF walk
  <2>1. PICK m \in DOMAIN wanServiceTypes : s.type = wanServiceTypes[m]
    BY <1>6 DEF Range
  <2>2. m \in Has(walk)
    BY <1>6, <2>1 DEF Has, findService, Range
  <2>3. Rank(target'.type) = n /\ Rank(s.type) = m
    BY <1>5, <2>1, RankOf DEF Has
  <2>4. QED
    BY <1>5, <2>2, <2>3
<1>7. QED
  BY <1>2, <1>6

\* parseControlTarget and findService: however the devices of the descriptor are
\* nested, no service of a type before the target's is left unseen in it.
THEOREM PrefersNewestHolds == Spec => PrefersNewest
<1>1. UInv /\ [Next]_vars =>
          (target' # target /\ target' # NoTarget =>
              \A s \in Range(Walk(lan[found[next]])) :
                  s.type \in Range(wanServiceTypes) => Rank(target'.type) <= Rank(s.type))
  BY PrefersNewestStep
<1>2. QED
  BY <1>1, UInvHolds, PTL DEF Spec, PrefersNewest
-----------------------------------------------------------------------------
(* The types of what discovery keeps *)

FoundOK ==
    /\ IsInjective(found) /\ missed \in BOOLEAN
    /\ next <= Len(found) + 1

TargetOK == target \in {NoTarget} \cup UNION {Offers(l[Router], Router) : l \in Lans}

FaultsOK == faults \in 0 .. MaxFaults

\* The loop goes on after a descriptor.
Passes(l) == FetchUseless(l) \/ FetchFails(l) \/ FetchHangs(l) \/ FetchTooLate(l)

\* What a step makes of discovery.
LEMMA DiscoverySteps ==
    ASSUME [Next]_vars
    PROVE  \/ UNCHANGED <<target, found, next, missed>>
           \/ Quiet /\ target' \in {target, NoTarget}
           \/ FetchUsable
           \/ \E l \in Locations : Respond(l) \/ Passes(l)
<1>1. CASE UNCHANGED vars
  BY <1>1 DEF vars, client, discovery
<1>2. CASE Discover
  BY <1>2 DEF Discover, Search, CloseWindow, Passes
<1>3. CASE Fails
  BY <1>3 DEF Fails, NewProcess
<1>4. CASE Call /\ ~Discover /\ ~Fails
  BY <1>4 DEF Call, Resolve, SearchFails, GivesUp, AddPortMapping, AddFails, ExternalIP,
     ExternalIPFails, DeletePortMapping, DeleteFails, Succeeds, client, discovery
<1>5. CASE Next /\ ~Call
  BY <1>5 DEF Next, Probe, Crash, NewProcess, Pass, BeginMap, BeginUnmap, Reboot, AddressChanges,
     Expire, ExpireUnrenewed, Expires, client, discovery
<1>6. QED
  BY <1>1, <1>2, <1>3, <1>4, <1>5

LEMMA FoundStep ==
    ASSUME UInv, FoundOK, [Next]_vars
    PROVE  FoundOK'
<1>1. found \in Seq(Locations) /\ next \in Nat
  BY DEF UInv, Tried
<1>2. CASE UNCHANGED <<target, found, next, missed>>
  BY <1>2 DEF FoundOK
<1>3. CASE Quiet
  <2>1. missed' \in BOOLEAN
    BY <1>3, Zenon DEF Quiet
  <2>2. found' = <<>> /\ next' = 1
    BY <1>3 DEF Quiet
  <2>3. IsInjective(found') /\ next' <= Len(found') + 1
    BY <2>2 DEF IsInjective
  <2>4. QED
    BY <2>1, <2>3 DEF FoundOK
<1>4. ASSUME NEW l \in Locations, Respond(l)
      PROVE  FoundOK'
  <2>1. /\ search = "listen" /\ l \notin Range(found) /\ found' = Append(found, l)
        /\ UNCHANGED <<next, missed>>
    BY <1>4 DEF Respond
  <2>2. next = 1
    BY <2>1 DEF UInv, Tried
  <2>3. IsInjective(found')
    BY <1>1, <2>1 DEF FoundOK, IsInjective, Range
  <2>4. next' <= Len(found') + 1
    BY <1>1, <2>1, <2>2
  <2>5. QED
    BY <2>1, <2>3, <2>4 DEF FoundOK
<1>5. ASSUME NEW l \in Locations, Passes(l)
      PROVE  FoundOK'
  <2>1. next <= Len(found) /\ next' = next + 1 /\ found' = found
    BY <1>5 DEF Passes, FetchUseless, FetchFails, FetchHangs, FetchTooLate, Served, Fetching
  <2>2. missed' \in BOOLEAN
    BY <1>5, Zenon DEF Passes, FetchUseless, FetchFails, FetchHangs, FetchTooLate, FoundOK
  <2>3. QED
    BY <1>1, <2>1, <2>2 DEF FoundOK
<1>6. QED
  BY <1>2, <1>3, <1>4, <1>5, DiscoverySteps DEF FetchUsable

\* The target is a service the router offers, or offered once.
LEMMA TargetStep ==
    ASSUME UInv, TargetOK, [Next]_vars
    PROVE  TargetOK'
<1>1. CASE target' \in {target, NoTarget}
  BY <1>1 DEF TargetOK
<1>2. CASE FetchUsable
  <2>1. PICK l \in Locations : Usable(lan[l]) /\ target' = parseControlTarget(lan[l], l)
    BY <1>2 DEF FetchUsable
  <2>2. lan \in Lans /\ l = Router
    BY <2>1, UpnpAssumption DEF UInv, RouterOK
  <2> DEFINE walk == Walk(lan[l])
             s == Preferred(walk)
  <2>3. DOMAIN walk \subseteq Nat /\ Has(walk) # {} /\ s.control.path # ""
    BY <2>1, <2>2, DiscoveryAssumption DEF Usable
  <2>4. s \in Range(walk)
    <3> HIDE DEF walk
    <3>1. QED
      BY <2>3, PreferredFacts
  <2>5. target' \in Offers(lan[l], l)
    BY <2>1, <2>3, <2>4 DEF Offers, parseControlTarget
  <2>6. QED
    BY <2>2, <2>5 DEF TargetOK
<1>3. QED
  BY <1>1, <1>2, DiscoverySteps DEF Respond, Passes, FetchUseless, FetchFails, FetchHangs, FetchTooLate

LEMMA FaultsStep ==
    ASSUME FaultsOK, [Next]_vars
    PROVE  FaultsOK'
<1>1. UNCHANGED faults \/ Fault
  BY DEF Next, vars, Probe, Crash, Pass, refreshLocalAddr, BeginMap, BeginUnmap, Call, Resolve,
     Discover, FaultUnless, SearchFails, GivesUp, AddPortMapping, AddFails, ExternalIP, ExternalIPFails,
     DeletePortMapping, DeleteFails, Reboot, AddressChanges, Expire, ExpireUnrenewed
<1>2. QED
  BY <1>1, UpnpAssumption DEF Fault, FaultsOK

\* No more locations are kept than there are.
LEMMA FoundLength ==
    ASSUME UInv, FoundOK
    PROVE  /\ found \in SeqOf(Locations, Cardinality(Locations))
           /\ next \in 1 .. Cardinality(Locations) + 1
<1>1. found \in Seq(Locations) /\ next \in Nat \ {0} /\ next <= Len(found) + 1
  BY DEF UInv, Tried, FoundOK
<1>2. Len(found) \in Nat /\ found \in [1 .. Len(found) -> Locations]
  BY <1>1
<1>3. IsFiniteSet(Locations) /\ Cardinality(Locations) \in Nat
  BY DiscoveryAssumption, FS_CardinalityType
<1>4. Len(found) <= Cardinality(Locations)
  <2>1. found \in Injection(1 .. Len(found), Locations)
    BY <1>2 DEF Injection, FoundOK
  <2>2. Cardinality(1 .. Len(found)) <= Cardinality(Locations)
    BY <1>3, <2>1, FS_Injection
  <2>3. Cardinality(1 .. Len(found)) = Len(found)
    BY <1>2, FS_Interval
  <2>4. QED
    BY <2>2, <2>3
<1>5. QED
  BY <1>1, <1>2, <1>3, <1>4 DEF SeqOf

LEMMA TypesFollow ==
    ASSUME UInv, FoundOK, TargetOK, FaultsOK
    PROVE  TypeOK
<1>1. DiscoveryTypeOK
  BY FoundLength DEF UInv, RouterOK, Looking, InTime, FoundOK, TargetOK, DiscoveryTypeOK
<1>2. /\ internalClient \in Addresses \cup {Unknown} /\ chosen \in BOOLEAN
      /\ leases \in [Requests -> Ports] /\ due \subseteq Requests
      /\ call \in {Idle} \cup Probing \cup Serving
      /\ TableOK /\ address \in Addresses /\ failed \subseteq Requests
  BY DEF UInv, DaemonOK, RouterOK
<1>3. QED
  BY <1>1, <1>2 DEF TypeOK, Probing, Serving, TableOK, FaultsOK

\* The types of Upnp and Discovery: every location is kept once, so that no more
\* are fetched than there are, and the target is one the router offers or offered.
THEOREM TypeCorrect == Spec => []TypeOK
<1>1. Init => FoundOK /\ TargetOK /\ FaultsOK
  <2>1. Init => missed \in BOOLEAN
    BY Zenon DEF Init, DiscoveryInit
  <2>2. Init => IsInjective(found) /\ next <= Len(found) + 1
    BY DEF Init, DiscoveryInit, IsInjective
  <2>3. Init => TargetOK /\ FaultsOK
    BY UpnpAssumption DEF Init, DiscoveryInit, TargetOK, FaultsOK
  <2>4. QED
    BY <2>1, <2>2, <2>3 DEF FoundOK
<1>2. UInv /\ FoundOK /\ TargetOK /\ FaultsOK /\ [Next]_vars => FoundOK' /\ TargetOK' /\ FaultsOK'
  BY FoundStep, TargetStep, FaultsStep
<1>3. UInv /\ FoundOK /\ TargetOK /\ FaultsOK => TypeOK
  BY TypesFollow
<1>4. QED
  BY <1>1, <1>2, <1>3, UInvHolds, PTL DEF Spec
=============================================================================
