---------------------------- MODULE ConfigProofs ----------------------------
(***************************************************************************)
(* Proofs about Config.  What Validate accepts, however long the list of   *)
(* mappings, has one request per protocol and port: this is what the       *)
(* daemon's maps are keyed by, and what Daemon takes for granted when it   *)
(* names requests by their position.  And what was accepted goes on        *)
(* forwarding as configured, whatever becomes of the interfaces.           *)
(***************************************************************************)
EXTENDS Config, TLAPS

\* The requests the walk has recorded.
Recorded ==
    {q \in Requests :
        \/ q[1] < i
        \/ pc = "ports" /\ q[1] = i /\ j = 2 /\ q[2] = "tcp"}

\* The two sets hold the ports of the requests recorded, and no two collide.
Walked ==
    /\ \A q \in Recorded : Internal(q) \in seenInternal
    /\ \A q \in Recorded : cfg.mappings[q[1]].external # 0 => External(q) \in seenExternal
    /\ \A q, r \in Recorded : q # r =>
          /\ Internal(q) # Internal(r)
          /\ External(q) = External(r) => cfg.mappings[q[1]].external = 0

Walking == pc \in {"mapping", "ports", "accepted"}

IInv ==
    /\ cfg \in Configs
    /\ pc \in {"settings", "mapping", "ports", "accepted", "rejected"}
    /\ i \in 1 .. Len(cfg.mappings) + 1 /\ j \in {1, 2}
    /\ pc = "settings" => i = 1
    /\ pc = "accepted" => i = Len(cfg.mappings) + 1
    /\ pc = "ports" =>
          /\ i <= Len(cfg.mappings)
          /\ cfg.mappings[i].protocol \in {"tcp", "udp", "both"}
          /\ j = 2 => cfg.mappings[i].protocol = "both"
    /\ Walking => Walked

LEMMA MappingFacts ==
    ASSUME cfg \in Configs
    PROVE  /\ Len(cfg.mappings) \in Nat
           /\ DOMAIN cfg.mappings = 1 .. Len(cfg.mappings)
           /\ \A n \in DOMAIN cfg.mappings : cfg.mappings[n] \in Mappings
BY ConfigAssumption

\* The request being checked.
Current == <<i, protocols(cfg.mappings[i])[j]>>

LEMMA CurrentFacts ==
    ASSUME IInv, pc = "ports"
    PROVE  /\ Current \in Requests /\ Current \notin Recorded
           /\ Internal(Current) = InternalKey /\ External(Current) = ExternalKey
           /\ Current[1] = i
<1>1. i \in DOMAIN cfg.mappings
  BY MappingFacts DEF IInv
<1>2. /\ cfg.mappings[i].protocol = "both" => Current[2] = IF j = 1 THEN "tcp" ELSE "udp"
      /\ cfg.mappings[i].protocol # "both" => j = 1 /\ Current[2] = cfg.mappings[i].protocol
  BY DEF IInv, Current, protocols
<1>3. Current[1] = i /\ Current = <<i, Current[2]>>
  BY DEF Current
<1>4. Current \in Requests
  BY <1>1, <1>2, <1>3 DEF Requests, IInv
<1>5. Current \notin Recorded
  BY <1>1, <1>2, <1>3, MappingFacts DEF Recorded, IInv
<1>6. QED
  BY <1>3, <1>4, <1>5 DEF Current, Internal, External, InternalKey, ExternalKey

\* Recording the request being checked leaves out none before it.
LEMMA RecordFacts ==
    ASSUME IInv, pc = "ports", CheckPorts, ~Duplicate
    PROVE  /\ Recorded' \subseteq Recorded \cup {Current}
           /\ Requests' = Requests
           /\ \A q : Internal(q)' = Internal(q) /\ External(q)' = External(q)
<1>1. cfg' = cfg
  BY DEF CheckPorts
<1>2. Requests' = Requests /\ \A q : Internal(q)' = Internal(q) /\ External(q)' = External(q)
  BY <1>1 DEF Requests, Internal, External
<1>3. ASSUME NEW q \in Recorded', q # Current PROVE q \in Recorded
  <2>1. q \in Requests
    BY <1>2 DEF Recorded
  <2>2. q = <<q[1], q[2]>> /\ q[1] \in 1 .. Len(cfg.mappings) /\ q[2] \in {"tcp", "udp"}
        /\ cfg.mappings[q[1]].protocol \in {q[2], "both"}
    BY <2>1, MappingFacts DEF Requests, IInv
  <2>a. /\ cfg.mappings[i].protocol = "both" => Current = <<i, IF j = 1 THEN "tcp" ELSE "udp">>
        /\ cfg.mappings[i].protocol # "both" => Current = <<i, cfg.mappings[i].protocol>>
        /\ j < Len(protocols(cfg.mappings[i])) <=> j = 1 /\ cfg.mappings[i].protocol = "both"
        /\ j = 1 \/ j = 2
    BY DEF IInv, Current, protocols
  <2>b. q[1] = i => q = <<i, q[2]>>
    BY <2>2
  <2>3. CASE j < Len(protocols(cfg.mappings[i]))
    <3>1. j = 1 /\ cfg.mappings[i].protocol = "both"
      BY <2>a, <2>3
    <3>2. q[1] < i \/ (q[1] = i /\ q[2] = "tcp")
      <4>1. i' = i
        BY <2>3 DEF CheckPorts
      <4>2. QED
        BY <4>1 DEF Recorded
    <3>3. QED
      BY <1>3, <2>1, <2>a, <2>b, <3>1, <3>2 DEF Recorded
  <2>4. CASE ~(j < Len(protocols(cfg.mappings[i])))
    <3>1. q[1] < i + 1
      BY <2>4 DEF CheckPorts, Recorded
    <3>2. q[1] < i \/ q[1] = i
      BY <2>2, <3>1, MappingFacts DEF IInv
    <3>3. CASE q[1] = i
      <4>1. cfg.mappings[i].protocol = "both" => j = 2
        BY <2>4, <2>a
      <4>2. cfg.mappings[i].protocol # "both" => q = Current
        BY <2>2, <2>a, <2>b, <3>3
      <4>3. QED
        BY <1>3, <2>1, <2>2, <2>a, <2>b, <3>3, <4>1, <4>2 DEF Recorded
    <3>4. QED
      BY <2>1, <3>2, <3>3 DEF Recorded
  <2>5. QED
    BY <2>3, <2>4
<1>4. QED
  BY <1>2, <1>3

LEMMA WalkedStep ==
    ASSUME IInv, pc = "ports", CheckPorts, ~Duplicate
    PROVE  Walked'
<1>1. Walked
  BY DEF IInv, Walking
<1>2. /\ Internal(Current) \notin seenInternal
      /\ External(Current) \notin seenExternal
      /\ Internal(Current) \in seenInternal'
      /\ cfg.mappings[Current[1]].external # 0 => External(Current) \in seenExternal'
      /\ seenInternal \subseteq seenInternal' /\ seenExternal \subseteq seenExternal'
      /\ cfg' = cfg
  BY CurrentFacts DEF CheckPorts, Record, Duplicate
<1>3. \A q \in Recorded' : q \in Recorded \/ q = Current
  BY RecordFacts
<1>4. \A q : Internal(q)' = Internal(q) /\ External(q)' = External(q)
  BY RecordFacts
<1>5. \A q \in Recorded' : Internal(q)' \in seenInternal'
  BY <1>1, <1>2, <1>3, <1>4 DEF Walked
<1>6. \A q \in Recorded' : cfg'.mappings[q[1]].external # 0 => External(q)' \in seenExternal'
  BY <1>1, <1>2, <1>3, <1>4 DEF Walked
<1>7. ASSUME NEW q \in Recorded', NEW r \in Recorded', q # r
      PROVE  /\ Internal(q)' # Internal(r)'
             /\ External(q)' = External(r)' => cfg'.mappings[q[1]].external = 0
  <2>1. CASE q \in Recorded /\ r \in Recorded
    BY <1>1, <1>2, <1>4, <1>7, <2>1 DEF Walked
  <2>2. CASE q = Current /\ r \in Recorded
    <3>1. Internal(r) \in seenInternal
      BY <1>1, <2>2 DEF Walked
    <3>2. External(q) = External(r) =>
             cfg.mappings[q[1]].external = cfg.mappings[r[1]].external
      BY DEF External
    <3>3. cfg.mappings[r[1]].external # 0 => External(r) \in seenExternal
      BY <1>1, <2>2 DEF Walked
    <3>4. QED
      BY <1>2, <1>4, <2>2, <3>1, <3>2, <3>3
  <2>3. CASE q \in Recorded /\ r = Current
    <3>1. Internal(q) \in seenInternal
      BY <1>1, <2>3 DEF Walked
    <3>2. cfg.mappings[q[1]].external # 0 => External(q) \in seenExternal
      BY <1>1, <2>3 DEF Walked
    <3>3. QED
      BY <1>2, <1>4, <2>3, <3>1, <3>2
  <2>4. QED
    BY <1>3, <1>7, <2>1, <2>2, <2>3
<1>8. QED
  BY <1>5, <1>6, <1>7 DEF Walked

\* Steps that record no request.
LEMMA UnrecordedStep ==
    ASSUME IInv, UNCHANGED <<cfg, seenInternal, seenExternal>>, Recorded' \subseteq Recorded,
           Walking
    PROVE  Walked'
<1>1. Walked
  BY DEF IInv
<1>2. \A q : Internal(q)' = Internal(q) /\ External(q)' = External(q)
  BY DEF Internal, External
<1>3. QED
  BY <1>1, <1>2 DEF Walked

LEMMA IInvStep == IInv /\ [Next]_vars => IInv'
<1> SUFFICES ASSUME IInv, [Next]_vars PROVE IInv'
  OBVIOUS
<1>0. /\ Len(cfg.mappings) \in Nat
      /\ \A n \in DOMAIN cfg.mappings : cfg.mappings[n] \in Mappings
      /\ \A q \in Requests : q[1] \in 1 .. Len(cfg.mappings)
  BY MappingFacts DEF IInv, Requests
<1>1. CASE UNCHANGED vars
  <2>1. UNCHANGED <<cfg, pc, i, j, seenInternal, seenExternal>>
    BY <1>1 DEF vars
  <2>2. Recorded' = Recorded
    BY <2>1 DEF Recorded, Requests
  <2>3. QED
    BY <2>1, <2>2, UnrecordedStep DEF IInv, Walking
<1>2. CASE CheckSettings
  <2>1. cfg' = cfg /\ i' = i /\ j' = j /\ i = 1 /\ pc' \in {"mapping", "rejected"}
    BY <1>2 DEF CheckSettings, Reject, IInv
  <2>2. pc' = "mapping" => Recorded' = {}
    BY <1>0, <2>1 DEF Recorded, Requests
  <2>3. Walking' => Walked'
    BY <2>1, <2>2 DEF Walking, Walked
  <2>4. QED
    BY <2>1, <2>3 DEF IInv
<1>3. CASE CheckMapping
  <2>1. UNCHANGED <<cfg, i, seenInternal, seenExternal>> /\ pc = "mapping"
        /\ i <= Len(cfg.mappings)
    BY <1>3 DEF CheckMapping, Reject
  <2>2. \/ pc' = "ports" /\ j' = 1 /\ cfg.mappings[i].protocol \in {"tcp", "udp", "both"}
        \/ pc' = "rejected" /\ j' = j
    BY <1>3 DEF CheckMapping, Reject, ValidRequests
  <2>3. Recorded' \subseteq Recorded
    BY <2>1, <2>2 DEF Recorded, Requests
  <2>4. Walking' => Walked'
    BY <2>1, <2>3, UnrecordedStep DEF Walking
  <2>5. QED
    BY <2>1, <2>2, <2>4 DEF IInv
<1>4. CASE CheckPorts
  <2>1. cfg' = cfg /\ pc = "ports"
    BY <1>4 DEF CheckPorts
  <2>2. CASE Duplicate
    <3>1. pc' = "rejected" /\ UNCHANGED <<i, j>>
      BY <1>4, <2>2 DEF CheckPorts, Reject
    <3>2. QED
      BY <2>1, <3>1 DEF IInv, Walking
  <2>3. CASE ~Duplicate
    <3>1. Walked'
      BY <1>4, <2>1, <2>3, WalkedStep
    <3>2. CASE j < Len(protocols(cfg.mappings[i]))
      <4>1. i' = i /\ pc' = pc /\ j' = j + 1
        BY <1>4, <2>3, <3>2 DEF CheckPorts
      <4>2. j = 1 /\ cfg.mappings[i].protocol = "both"
        BY <2>1, <3>2 DEF IInv, protocols
      <4>3. QED
        BY <2>1, <3>1, <4>1, <4>2 DEF IInv
    <3>3. CASE ~(j < Len(protocols(cfg.mappings[i])))
      <4>1. i' = i + 1 /\ pc' = "mapping" /\ j' = j
        BY <1>4, <2>3, <3>3 DEF CheckPorts
      <4>2. QED
        BY <1>0, <2>1, <3>1, <4>1 DEF IInv
    <3>4. QED
      BY <3>2, <3>3
  <2>4. QED
    BY <2>2, <2>3
<1>5. CASE Accept
  <2>1. UNCHANGED <<cfg, i, j, seenInternal, seenExternal>> /\ pc = "mapping"
        /\ i = Len(cfg.mappings) + 1 /\ pc' = "accepted"
    BY <1>5 DEF Accept
  <2>2. Recorded' \subseteq Recorded
    BY <2>1 DEF Recorded, Requests
  <2>3. QED
    BY <2>1, <2>2, UnrecordedStep DEF IInv, Walking
<1>6. CASE IfaceChanges
  <2>1. UNCHANGED <<cfg, pc, i, j, seenInternal, seenExternal>>
    BY <1>6 DEF IfaceChanges
  <2>2. Recorded' = Recorded
    BY <2>1 DEF Recorded, Requests
  <2>3. QED
    BY <2>1, <2>2, UnrecordedStep DEF IInv, Walking
<1>7. QED
  BY <1>1, <1>2, <1>3, <1>4, <1>5, <1>6 DEF Next, Validate

\* Whatever the list of mappings, two requests of a configuration that was
\* accepted differ in protocol or internal port, and in protocol or external
\* port if they ask for one: the daemon's keys are distinct.
THEOREM AcceptedHasDistinctPortsHolds == Spec => []AcceptedHasDistinctPorts
<1>1. Init => IInv
  <2> SUFFICES ASSUME Init PROVE IInv
    OBVIOUS
  <2>1. Len(cfg.mappings) \in Nat
    BY MappingFacts DEF Init
  <2>2. QED
    BY <2>1 DEF Init, IInv, Walking
<1>2. IInv => AcceptedHasDistinctPorts
  <2> SUFFICES ASSUME IInv, pc = "accepted" PROVE PortsDistinct
    BY DEF AcceptedHasDistinctPorts
  <2>1. \A q \in Requests : q[1] \in 1 .. Len(cfg.mappings)
    BY MappingFacts DEF IInv, Requests
  <2>2. \A q \in Requests : q \in Recorded
    BY <2>1, MappingFacts DEF IInv, Recorded
  <2>3. QED
    BY <2>2 DEF IInv, Walking, Walked, PortsDistinct
<1>3. QED
  BY <1>1, <1>2, IInvStep, PTL DEF Spec
-----------------------------------------------------------------------------
(* Addresses *)

\* What a configuration that got past the settings still says of its sources,
\* whatever has become of the interfaces since.
SourcesChecked == Walking => \A s \in AllSources : s.address \in {"", "local"}

LEMMA SourcesStep == SourcesChecked /\ [Next]_vars => SourcesChecked'
<1> SUFFICES ASSUME SourcesChecked, [Next]_vars, Walking'
             PROVE  \A s \in AllSources' : s.address \in {"", "local"}
  BY DEF SourcesChecked
<1>1. AllSources' = AllSources
  BY DEF AllSources, vars, Next, Validate, CheckSettings, CheckMapping, CheckPorts, Accept,
         IfaceChanges
<1>2. CASE CheckSettings
  BY <1>1, <1>2 DEF CheckSettings, Reject, Walking, validateInternalAddresses
<1>3. CASE ~CheckSettings
  BY <1>1, <1>3
  DEF SourcesChecked, Walking, vars, Next, Validate, CheckMapping, CheckPorts, Accept,
      IfaceChanges
<1>4. QED
  BY <1>2, <1>3

\* Whatever interfaces come and go after validation, a mapping forwards to its
\* own address or interface, or to the default one if it has none; only a lost
\* interface makes it fall back on the route's address.
THEOREM ForwardsAsConfiguredHolds == Spec => []ForwardsAsConfigured
<1>1. Init => SourcesChecked
  BY DEF Init, SourcesChecked, Walking
<1>2. SourcesChecked => ForwardsAsConfigured
  <2> SUFFICES ASSUME SourcesChecked, pc = "accepted", NEW n \in DOMAIN cfg.mappings
               PROVE  LET m   == cfg.mappings[n]
                          own == IF IsSet(m.source) THEN m.source ELSE cfg.source
                      IN  \/ Target(m) = Resolve(own)
                          \/ Target(m) = "" /\ own.iface # "" /\ own.iface \notin up
    BY DEF ForwardsAsConfigured
  <2>1. cfg.mappings[n].source.address # "garbled" /\ cfg.source.address # "garbled"
    BY DEF SourcesChecked, Walking, AllSources
  <2>2. QED
    BY <2>1 DEF Target, defaultInternalAddress, Resolves, Resolve, IsSet
<1>3. QED
  BY <1>1, <1>2, SourcesStep, PTL DEF Spec
=============================================================================
