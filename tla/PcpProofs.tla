----------------------------- MODULE PcpProofs -----------------------------
(***************************************************************************)
(* TypeOK, NonceKept and RefusedForAnOrphan hold for every set of mappings *)
(* and of nonces, and for every number of faults; and for each of them Pcp *)
(* implements Forwarding.                                                  *)
(***************************************************************************)
EXTENDS Pcp, TLAPS

Call == [op : {"map", "unmap"}, key : Key, nonce : Nonce,
         reply : {"none", "success", "refused"}]

\* A call under way carries the nonce that is kept for its mapping.
CallKept == ~Idle => nonces[call.key] = call.nonce

\* An Unmap that was answered has removed the mapping, unless a late copy put it
\* back.
UnmapDone ==
    call.op = "unmap" /\ call.reply = "success" /\ call.key \notin orphaned
        => gwNonce[call.key] = NoNonce

IInv == TypeOK /\ CallKept /\ UnmapDone /\ NonceKept

\* A call under way is a record of a request and its reply.
LEMMA CallFacts ==
    ASSUME TypeOK, ~Idle
    PROVE  call \in Call /\ call.key \in Key /\ call.nonce \in Nonce
<1> USE DEF TypeOK, Idle, None, Call
<1>1. call \in Call
    OBVIOUS
<1> QED  BY <1>1

\* So is a copy that is late.
LEMMA LateFacts ==
    ASSUME TypeOK, late # None
    PROVE  late \in Request /\ late.key \in Key /\ late.nonce \in Nonce
<1>1. late \in Request
    BY DEF TypeOK
<1> QED  BY <1>1 DEF Request

\* nonceFor gives the nonce that is kept, or one when none was.
LEMMA NonceFacts ==
    ASSUME TypeOK, NEW k \in Key, NEW n \in nonceFor(k)
    PROVE  n \in Nonce /\ (nonces[k] # NoNonce => n = nonces[k])
<1>1. CASE nonces[k] # NoNonce
    BY <1>1 DEF nonceFor, TypeOK
<1>2. CASE nonces[k] = NoNonce
    BY <1>2 DEF nonceFor, Fresh
<1> QED  BY <1>1, <1>2

LEMMA Starts == Init => IInv
    BY PcpAssumption DEF Init, IInv, TypeOK, CallKept, UnmapDone, NonceKept, Idle, None

\* Asking keeps everything: the nonce is changed only where none was kept.
LEMMA AskStep ==
    ASSUME IInv, NEW op \in {"map", "unmap"}, NEW k \in Key, Ask(op, k)
    PROVE  IInv'
<1> USE DEF IInv
<1>1. PICK n \in nonceFor(k) : Keep(k, n) /\ call' = [op |-> op, key |-> k, nonce |-> n, reply |-> "none"]
    BY DEF Ask
<1>2. n \in Nonce /\ (nonces[k] # NoNonce => n = nonces[k]) /\ n # NoNonce
    BY NonceFacts, PcpAssumption
<1>3. UNCHANGED <<held, gwNonce, late, orphaned, atRisk, faults>>
    BY DEF Ask
<1>4. nonces' = [nonces EXCEPT ![k] = n]
    BY <1>1 DEF Keep
<1>5. nonces' \in [Key -> Nonce \cup {NoNonce}] /\ nonces'[k] = n
    BY <1>2, <1>4 DEF TypeOK
<1>6. TypeOK'
    <2>1. held' \subseteq {l \in Key : nonces'[l] # NoNonce}
        BY <1>2, <1>3, <1>4 DEF TypeOK
    <2>2. call' \in Call
        BY <1>1, <1>2 DEF Call
    <2> QED  BY <1>3, <1>5, <2>1, <2>2 DEF TypeOK, Call
<1>7. CallKept' /\ UnmapDone'
    BY <1>1, <1>5 DEF CallKept, UnmapDone
<1>8. NonceKept'
    BY <1>2, <1>3, <1>4 DEF NonceKept, TypeOK
<1> QED  BY <1>6, <1>7, <1>8

\* A call returns: only a successful Unmap forgets a nonce, and then the mapping
\* is gone or an orphan.
LEMMA ReturnStep ==
    ASSUME IInv, Return
    PROVE  IInv'
<1> USE DEF IInv
<1>1. ~Idle /\ call' = None
    BY DEF Return, MapReturns, MapFails, UnmapReturns, UnmapFails, Idle
<1>2. call \in Call /\ call.key \in Key /\ call.nonce \in Nonce
    BY <1>1, CallFacts
<1>3. faults' \in 0 .. MaxFaults
    BY PcpAssumption DEF Return, MapReturns, MapFails, UnmapReturns, UnmapFails, Fault, TypeOK
<1>4. gwNonce' = gwNonce /\ late' = late /\ orphaned' = orphaned /\ atRisk' \subseteq atRisk
    BY DEF Return, MapReturns, MapFails, UnmapReturns, UnmapFails
<1>5. nonces[call.key] = call.nonce /\ call.nonce # NoNonce
    BY <1>1, <1>2, PcpAssumption DEF CallKept
<1>6. CallKept' /\ UnmapDone'
    BY <1>1 DEF CallKept, UnmapDone, Idle, None
<1>7. CASE UnmapReturns
    <2>1. nonces' = [nonces EXCEPT ![call.key] = NoNonce] /\ held' = held \ {call.key}
        BY <1>7 DEF UnmapReturns
    <2>2. TypeOK'
        BY <1>1, <1>2, <1>3, <1>4, <2>1 DEF TypeOK
    <2>3. call.key \notin orphaned => gwNonce[call.key] = NoNonce
        BY <1>7 DEF UnmapReturns, UnmapDone
    <2>4. NonceKept'
        BY <1>4, <2>1, <2>3 DEF NonceKept, TypeOK
    <2> QED  BY <1>6, <2>2, <2>4
<1>8. CASE MapReturns \/ MapFails \/ UnmapFails
    <2>1. nonces' = nonces /\ held' \subseteq held \cup {call.key}
        BY <1>8 DEF MapReturns, MapFails, UnmapFails
    <2>2. TypeOK'
        BY <1>1, <1>2, <1>3, <1>4, <1>5, <2>1 DEF TypeOK
    <2>3. NonceKept'
        BY <1>4, <2>1 DEF NonceKept
    <2> QED  BY <1>6, <2>2, <2>3
<1> QED  BY <1>7, <1>8 DEF Return

\* The gateway serves the call: the mapping is then the client's, or gone.
LEMMA ServeStep ==
    ASSUME IInv, Serve
    PROVE  IInv'
<1> USE DEF IInv
<1>1. ~Idle /\ call \in Call /\ call.key \in Key /\ call.nonce \in Nonce
    BY CallFacts DEF Serve
<1>2. UNCHANGED <<nonces, held, late, atRisk, faults>>
    BY DEF Serve
<1>3. nonces[call.key] = call.nonce
    BY <1>1 DEF CallKept
<1>4. CASE Refuses(call.key, call.nonce)
    <2>1. gwNonce' = gwNonce /\ orphaned' = orphaned /\ call' = [call EXCEPT !.reply = "refused"]
        BY <1>4 DEF Serve, Apply
    <2>2. call' \in Call /\ call'.key = call.key /\ call'.nonce = call.nonce
            /\ call'.op = call.op /\ call'.reply = "refused"
        BY <1>1, <2>1 DEF Call
    <2>3. TypeOK'
        BY <1>2, <2>1, <2>2 DEF TypeOK, Call
    <2> QED  BY <1>2, <1>3, <2>1, <2>2, <2>3 DEF CallKept, UnmapDone, NonceKept
<1>5. CASE ~Refuses(call.key, call.nonce)
    <2>1. /\ gwNonce' = [gwNonce EXCEPT ![call.key] = IF call.op = "map" THEN call.nonce ELSE NoNonce]
          /\ orphaned' = orphaned \ {call.key}
          /\ call' = [call EXCEPT !.reply = "success"]
        BY <1>5 DEF Serve, Apply
    <2>2. call' \in Call /\ call'.key = call.key /\ call'.nonce = call.nonce
            /\ call'.op = call.op
        BY <1>1, <2>1 DEF Call
    <2>3. TypeOK'
        BY <1>1, <1>2, <2>1, <2>2 DEF TypeOK, Call
    <2>4. CallKept'
        BY <1>2, <1>3, <2>2 DEF CallKept
    <2>5. UnmapDone'
        BY <1>1, <2>1, <2>2 DEF UnmapDone, TypeOK
    <2>6. NonceKept'
        BY <1>1, <1>2, <1>3, <2>1 DEF NonceKept, TypeOK
    <2> QED  BY <2>3, <2>4, <2>5, <2>6
<1> QED  BY <1>4, <1>5

\* A late copy arrives: what it puts back after it was deleted is an orphan.
LEMMA LateStep ==
    ASSUME IInv, LateArrives
    PROVE  IInv'
<1> USE DEF IInv
<1>1. late \in Request /\ late.key \in Key /\ late.nonce \in Nonce
    BY LateFacts DEF LateArrives
<1>2. nonces' = nonces /\ held' = held /\ call' = call /\ faults' = faults /\ late' = None
    BY DEF LateArrives
<1>3. gwNonce' \in [Key -> Nonce \cup {NoNonce}] /\ orphaned' \subseteq Key /\ atRisk' \subseteq Key
    BY <1>1 DEF LateArrives, Apply, Harm, TypeOK
<1>4. TypeOK'
    BY <1>2, <1>3 DEF TypeOK
<1>5. CallKept'
    BY <1>2 DEF CallKept, Idle
<1>6. \A k \in Key \ {late.key} : gwNonce'[k] = gwNonce[k]
    BY DEF LateArrives, Apply, TypeOK
<1>7. orphaned \subseteq orphaned'
    BY DEF LateArrives
<1>8. \/ gwNonce'[late.key] = gwNonce[late.key]
      \/ gwNonce'[late.key] = NoNonce
      \/ late.op = "map" /\ gwNonce'[late.key] = late.nonce
    BY <1>1 DEF LateArrives, Apply, TypeOK
<1>9. late.op = "map" /\ Deleted(late) => late.key \in orphaned'
    BY DEF LateArrives
<1>10. NonceKept'
    BY <1>2, <1>6, <1>7, <1>8, <1>9 DEF NonceKept, Deleted
<1>11. UnmapDone'
    <2> SUFFICES ASSUME call.op = "unmap", call.reply = "success", call.key \notin orphaned'
                 PROVE  gwNonce'[call.key] = NoNonce
        BY <1>2 DEF UnmapDone
    <2>1. call.key \in Key /\ gwNonce[call.key] = NoNonce
        BY <1>7, CallFacts DEF UnmapDone, Idle
    <2>2. CASE call.key # late.key
        BY <1>6, <2>1, <2>2
    <2>3. CASE call.key = late.key
        BY <1>8, <1>9, <2>1, <2>3 DEF Deleted
    <2> QED  BY <2>2, <2>3
<1> QED  BY <1>4, <1>5, <1>10, <1>11

\* The rest: copies left behind, expiry, reboots and crashes.
LEMMA WorldStep ==
    ASSUME IInv,
           Straggle \/ Reboot \/ Crash \/ \E k \in Key : Expire(k) \/ ExpireUnrenewed(k)
    PROVE  IInv'
<1> USE DEF IInv
<1>0. faults' \in 0 .. MaxFaults
    BY PcpAssumption DEF Straggle, Reboot, Crash, Expire, ExpireUnrenewed, Fault, TypeOK
<1>00. atRisk' \subseteq Key
    BY DEF Straggle, Reboot, Crash, Expire, ExpireUnrenewed, Harm, TypeOK
<1>1. CASE Straggle
    <2>1. call \in Call
        BY <1>1, CallFacts DEF Straggle
    <2>2. late' \in Request
        BY <1>1, <2>1 DEF Straggle, Request, Call
    <2>3. UNCHANGED <<nonces, held, call, gwNonce, orphaned>>
        BY <1>1 DEF Straggle
    <2> QED  BY <1>0, <1>00, <2>2, <2>3 DEF TypeOK, CallKept, UnmapDone, NonceKept, Idle
<1>2. CASE Reboot
    <2>1. TypeOK' /\ gwNonce' = [k \in Key |-> NoNonce]
        BY <1>0, <1>00, <1>2 DEF Reboot, TypeOK
    <2>2. CallKept'
        BY <1>2 DEF Reboot, CallKept, Idle
    <2>3. UnmapDone'
        BY <1>2, <2>1, CallFacts DEF Reboot, UnmapDone, Idle
    <2> QED  BY <1>2, <2>1, <2>2, <2>3 DEF NonceKept
<1>3. CASE Crash
    BY <1>0, <1>00, <1>3 DEF Crash, TypeOK, CallKept, UnmapDone, NonceKept, Idle, None
<1>4. CASE \E k \in Key : Expire(k) \/ ExpireUnrenewed(k)
    <2>1. PICK k \in Key : Expires(k)
        BY <1>4 DEF Expire, ExpireUnrenewed
    <2>2. /\ gwNonce' = [gwNonce EXCEPT ![k] = NoNonce] /\ orphaned' = orphaned \ {k}
          /\ UNCHANGED <<nonces, held, call, late>>
        BY <2>1 DEF Expires
    <2>3. TypeOK'
        BY <1>0, <1>00, <2>2 DEF TypeOK
    <2>4. CallKept'
        BY <2>2 DEF CallKept, Idle
    <2>5. UnmapDone'
        BY <2>2, CallFacts DEF UnmapDone, TypeOK, Idle
    <2>6. NonceKept'
        BY <2>2 DEF NonceKept, TypeOK
    <2> QED  BY <2>3, <2>4, <2>5, <2>6
<1> QED  BY <1>1, <1>2, <1>3, <1>4

LEMMA Step == IInv /\ [Next]_vars => IInv'
<1> SUFFICES ASSUME IInv, [Next]_vars PROVE IInv'
    OBVIOUS
<1>1. CASE UNCHANGED vars
    BY <1>1 DEF vars, IInv, TypeOK, CallKept, UnmapDone, NonceKept, Idle
<1>2. CASE \E k \in Key : AskMap(k) \/ AskUnmap(k)
    <2>1. PICK k \in Key, op \in {"map", "unmap"} : Ask(op, k)
        BY <1>2 DEF AskMap, AskUnmap
    <2> QED  BY <2>1, AskStep
<1>3. CASE Return
    BY <1>3, ReturnStep
<1>4. CASE Serve
    BY <1>4, ServeStep
<1>5. CASE LateArrives
    BY <1>5, LateStep
<1>6. CASE Straggle \/ Reboot \/ Crash \/ \E k \in Key : Expire(k) \/ ExpireUnrenewed(k)
    BY <1>6, WorldStep
<1> QED  BY <1>1, <1>2, <1>3, <1>4, <1>5, <1>6 DEF Next

LEMMA Always == Spec => []IInv
    BY Starts, Step, PTL DEF Spec

\* The types hold for every instance; in them, that no lease is held whose nonce
\* is not kept (nonceFor, deleteNonce).
THEOREM TypeCorrect == Spec => []TypeOK
    BY Always, PTL DEF IInv

\* The client knows the nonce of every mapping that is not an orphan (nonceFor,
\* deleteNonce).
THEOREM NonceKeptHolds == Spec => []NonceKept
    BY Always, PTL DEF IInv

\* The gateway refuses the client only because of an orphan (Map, Unmap).
THEOREM RefusedForAnOrphanHolds == Spec => []RefusedForAnOrphan
<1>1. IInv => RefusedForAnOrphan
    BY CallFacts DEF IInv, RefusedForAnOrphan, Refuses, NonceKept, CallKept
<1> QED  BY <1>1, Always, PTL
-----------------------------------------------------------------------------
(* The nonces: each is one mapping's, wherever it is in use *)

\* A nonce is a mapping's in the client, at the gateway, or in a late copy.
Owns(k, n) ==
    \/ nonces[k] = n
    \/ gwNonce[k] = n
    \/ late # None /\ late.key = k /\ late.nonce = n

OneOwner == \A k, l \in Key, n \in Nonce : Owns(k, n) /\ Owns(l, n) => k = l

\* Only Ask gives a mapping a nonce it did not have, and one nobody has.
LEMMA OwnersStep ==
    ASSUME IInv, OneOwner, [Next]_vars
    PROVE  OneOwner'
<1> DEFINE NoNewOwner == \A k \in Key, n \in Nonce : Owns(k, n)' => Owns(k, n)
<1> USE DEF IInv
<1>0. NoNewOwner => OneOwner'
    BY DEF OneOwner
<1>1. CASE UNCHANGED vars
    BY <1>0, <1>1 DEF vars, Owns
<1>2. CASE \E k \in Key : AskMap(k) \/ AskUnmap(k)
    <2>1. PICK k \in Key, op \in {"map", "unmap"} : Ask(op, k)
        BY <1>2 DEF AskMap, AskUnmap
    <2>2. PICK n \in nonceFor(k) : nonces' = [nonces EXCEPT ![k] = n]
        BY <2>1 DEF Ask, Keep
    <2>3. gwNonce' = gwNonce /\ late' = late
        BY <2>1 DEF Ask
    <2>4. CASE nonces[k] # NoNonce
        BY <1>0, <2>2, <2>3, <2>4 DEF nonceFor, Owns, TypeOK
    <2>5. CASE nonces[k] = NoNonce
        <3>1. n \in Nonce /\ n \notin InUse
            BY <2>2, <2>5 DEF nonceFor, Fresh
        <3>2. \A l \in Key : ~Owns(l, n)
            BY <3>1 DEF InUse, Owns
        <3>3. \A l \in Key, m \in Nonce : Owns(l, m)' => Owns(l, m) \/ (l = k /\ m = n)
            BY <2>2, <2>3 DEF Owns, TypeOK
        <3> QED  BY <3>2, <3>3 DEF OneOwner
    <2> QED  BY <2>4, <2>5
<1>3. CASE Return
    <2>1. gwNonce' = gwNonce /\ late' = late
        BY <1>3 DEF Return, MapReturns, MapFails, UnmapReturns, UnmapFails
    <2>2. nonces' = nonces \/ nonces' = [nonces EXCEPT ![call.key] = NoNonce]
        BY <1>3 DEF Return, MapReturns, MapFails, UnmapReturns, UnmapFails
    <2> QED  BY <1>0, <2>1, <2>2, PcpAssumption DEF Owns, TypeOK
<1>4. CASE Serve
    <2>1. nonces[call.key] = call.nonce /\ call.key \in Key
        BY <1>4, CallFacts DEF Serve, CallKept
    <2>2. nonces' = nonces /\ late' = late
        BY <1>4 DEF Serve
    <2>3. \A k \in Key : \/ gwNonce'[k] \in {gwNonce[k], NoNonce}
                         \/ k = call.key /\ gwNonce'[k] = call.nonce
        BY <1>4, <2>1 DEF Serve, Apply, TypeOK
    <2> QED  BY <1>0, <2>1, <2>2, <2>3, PcpAssumption DEF Owns
<1>5. CASE Straggle
    <2>1. nonces[call.key] = call.nonce /\ late' = [op |-> call.op, key |-> call.key, nonce |-> call.nonce]
        BY <1>5 DEF Straggle, CallKept
    <2>2. nonces' = nonces /\ gwNonce' = gwNonce
        BY <1>5 DEF Straggle
    <2> QED  BY <1>0, <2>1, <2>2 DEF Owns
<1>6. CASE LateArrives
    <2>1. nonces' = nonces /\ late' = None /\ late # None
        BY <1>6 DEF LateArrives
    <2>2. \A k \in Key : \/ gwNonce'[k] \in {gwNonce[k], NoNonce}
                         \/ k = late.key /\ gwNonce'[k] = late.nonce
        BY <1>6 DEF LateArrives, Apply, TypeOK
    <2> QED  BY <1>0, <2>1, <2>2, PcpAssumption DEF Owns
<1>7. CASE Reboot \/ \E k \in Key : Expire(k) \/ ExpireUnrenewed(k)
    <2>1. nonces' = nonces /\ late' = late
        BY <1>7 DEF Reboot, Expire, ExpireUnrenewed, Expires
    <2>2. \A k \in Key : gwNonce'[k] \in {gwNonce[k], NoNonce}
        BY <1>7 DEF Reboot, Expire, ExpireUnrenewed, Expires, TypeOK
    <2> QED  BY <1>0, <2>1, <2>2, PcpAssumption DEF Owns
<1>8. CASE Crash
    <2>1. nonces' = [k \in Key |-> NoNonce] /\ gwNonce' = gwNonce /\ late' = late
        BY <1>8 DEF Crash
    <2> QED  BY <1>0, <2>1, PcpAssumption DEF Owns
<1> QED  BY <1>1, <1>2, <1>3, <1>4, <1>5, <1>6, <1>7, <1>8 DEF Next

-----------------------------------------------------------------------------
(* The mishaps: what cannot be explained otherwise is due to one *)

\* A copy on its way is a fault that has not struck; a refusal and an orphan are
\* the work of one that has.
Explained ==
    /\ late # None => faults > 0
    /\ orphaned # {} => Struck > 0
    /\ ~Idle /\ call.reply = "refused" => Struck > 0

\* How many mishaps have struck, before and after a step.
LEMMA Strikes ==
    ASSUME TypeOK, Explained
    PROVE  /\ Struck \in Nat
           /\ Fault /\ late' = late => Struck' = Struck + 1
           /\ UNCHANGED <<faults, late>> => Struck' = Struck
           /\ Straggle => Struck' = Struck
           /\ LateArrives => Struck' = Struck + 1
<1>1. faults \in Nat
    BY PcpAssumption DEF TypeOK
<1>2. Straggle => late = None /\ late' # None /\ faults' = faults + 1
    BY DEF Straggle, Fault, None
<1>3. Straggle => Struck' = Struck
    BY <1>1, <1>2 DEF Struck
<1>4. LateArrives => late # None /\ late' = None /\ faults' = faults
    BY DEF LateArrives
<1>5. LateArrives => Struck' = Struck + 1
    BY <1>1, <1>4 DEF Struck
<1> QED  BY <1>1, <1>3, <1>5 DEF Struck, Explained, Fault

LEMMA ExplainedStep ==
    ASSUME IInv, Explained, [Next]_vars
    PROVE  Explained'
<1> USE DEF IInv
<1>0. Struck \in Nat /\ faults \in Nat /\ TypeOK
    BY Strikes, PcpAssumption DEF TypeOK
<1>1. CASE UNCHANGED vars
    BY <1>1 DEF vars, Explained, Struck, Idle
<1>2. CASE \E k \in Key : AskMap(k) \/ AskUnmap(k)
    <2>1. PICK k \in Key, op \in {"map", "unmap"} : Ask(op, k)
        BY <1>2 DEF AskMap, AskUnmap
    <2>2. UNCHANGED <<late, orphaned, faults>> /\ call'.reply = "none"
        BY <2>1 DEF Ask
    <2> QED  BY <2>2 DEF Explained, Struck
<1>3. CASE Return
    <2>1. /\ call' = None /\ late' = late /\ orphaned' = orphaned
          /\ faults' = faults \/ Fault
        BY <1>3 DEF Return, MapReturns, MapFails, UnmapReturns, UnmapFails
    <2>2. Struck' \in {Struck, Struck + 1} /\ faults' \in {faults, faults + 1}
        BY <1>0, <2>1, Strikes DEF Fault
    <2>3. Idle'
        BY <2>1 DEF Idle, None
    <2>4. Struck > 0 => Struck' > 0
        BY <1>0, <2>2
    <2>5. faults > 0 => faults' > 0
        BY <1>0, <2>2
    <2> QED  BY <2>1, <2>3, <2>4, <2>5 DEF Explained
<1>4. CASE Serve
    <2>1. UNCHANGED <<late, faults>> /\ orphaned' \subseteq orphaned
        BY <1>4 DEF Serve
    <2>2. Struck' = Struck
        BY <1>0, <2>1, Strikes
    <2>3. call \in Call /\ ~Idle
        BY <1>4, CallFacts DEF Serve
    <2>4. call'.reply = "refused" => Refuses(call.key, call.nonce)
        BY <1>4, <2>3 DEF Serve, Call
    <2>5. Refuses(call.key, call.nonce) => orphaned # {}
        BY <2>3, CallFacts DEF Refuses, CallKept, NonceKept
    <2> QED  BY <2>1, <2>2, <2>4, <2>5 DEF Explained
<1>5. CASE Straggle
    <2>1. UNCHANGED <<call, orphaned>> /\ faults' > 0
        BY <1>0, <1>5 DEF Straggle, Fault
    <2> QED  BY <1>0, <1>5, <2>1, Strikes DEF Explained, Idle
<1>6. CASE LateArrives
    <2>1. late' = None /\ Struck' > 0
        BY <1>0, <1>6, Strikes DEF LateArrives
    <2> QED  BY <2>1 DEF Explained
<1>7. CASE Reboot \/ Crash \/ \E k \in Key : ExpireUnrenewed(k)
    <2>1. Fault /\ late' = late
        BY <1>7 DEF Reboot, Crash, ExpireUnrenewed, Expires
    <2>2. Struck' > 0 /\ faults' > 0
        BY <1>0, <2>1, Strikes DEF Fault
    <2> QED  BY <2>2 DEF Explained
<1>8. CASE \E k \in Key : Expire(k)
    <2>1. UNCHANGED <<call, late, faults>> /\ orphaned' \subseteq orphaned
        BY <1>8 DEF Expire, Expires
    <2> QED  BY <1>0, <2>1, Strikes DEF Explained, Idle
<1> QED  BY <1>1, <1>2, <1>3, <1>4, <1>5, <1>6, <1>7, <1>8 DEF Next

-----------------------------------------------------------------------------
(* The leases: what is on record is open with its nonce, or at risk *)

\* Only what is on record, and not wanted for good, is released.
Releasing == call.op = "unmap" => call.key \in held \ Wanted

\* What was granted just now is still open, or a mishap has come in between.
Granted ==
    call.op = "map" /\ call.reply = "success"
        => gwNonce[call.key] = call.nonce \/ call.key \in atRisk

\* So is what is on record, until an Unmap has closed it.
HeldOpen ==
    \A k \in held : gwNonce[k] # nonces[k] =>
        \/ k \in atRisk
        \/ call.op = "unmap" /\ call.reply = "success" /\ call.key = k /\ gwNonce[k] = NoNonce

Leased == Releasing /\ Granted /\ HeldOpen

\* Asking and returning.
LEMMA LeasedClient ==
    ASSUME IInv, Leased, Return \/ \E k \in Key : AskMap(k) \/ AskUnmap(k)
    PROVE  Leased'
<1> USE DEF IInv
<1>1. CASE \E k \in Key : AskMap(k)
    <2>1. PICK k \in Key : Ask("map", k)
        BY <1>1 DEF AskMap
    <2>2. PICK n \in nonceFor(k) :
              /\ nonces' = [nonces EXCEPT ![k] = n]
              /\ call' = [op |-> "map", key |-> k, nonce |-> n, reply |-> "none"]
        BY <2>1 DEF Ask, Keep
    <2>3. UNCHANGED <<held, gwNonce, atRisk>> /\ Idle
        BY <2>1 DEF Ask
    <2>4. \A l \in held : nonces'[l] = nonces[l]
        BY <2>2, NonceFacts DEF TypeOK
    <2> QED  BY <2>2, <2>3, <2>4 DEF Leased, Releasing, Granted, HeldOpen, Idle
<1>2. CASE \E k \in Key : AskUnmap(k)
    <2>1. PICK k \in Key : k \in held \ Wanted /\ Ask("unmap", k)
        BY <1>2 DEF AskUnmap
    <2>2. PICK n \in nonceFor(k) :
              /\ nonces' = [nonces EXCEPT ![k] = n]
              /\ call' = [op |-> "unmap", key |-> k, nonce |-> n, reply |-> "none"]
        BY <2>1 DEF Ask, Keep
    <2>3. UNCHANGED <<held, gwNonce, atRisk>> /\ Idle
        BY <2>1 DEF Ask
    <2>4. \A l \in held : nonces'[l] = nonces[l]
        BY <2>2, NonceFacts DEF TypeOK
    <2> QED  BY <2>1, <2>2, <2>3, <2>4 DEF Leased, Releasing, Granted, HeldOpen, Idle
<1>3. CASE MapReturns
    <2>1. /\ held' = held \cup {call.key} /\ call' = None /\ UNCHANGED <<nonces, gwNonce>>
          /\ call.op = "map" /\ call.reply = "success"
          /\ atRisk' = IF gwNonce[call.key] = call.nonce THEN atRisk \ {call.key} ELSE atRisk
        BY <1>3 DEF MapReturns
    <2>2. nonces[call.key] = call.nonce
        BY <2>1 DEF CallKept, Idle
    <2> QED  BY <2>1, <2>2 DEF Leased, Releasing, Granted, HeldOpen, None
<1>4. CASE MapFails
    BY <1>4 DEF MapFails, Leased, Releasing, Granted, HeldOpen, None
<1>5. CASE UnmapReturns \/ UnmapFails
    <2>1. /\ held' = held \ {call.key} /\ call' = None /\ UNCHANGED <<gwNonce, atRisk>>
          /\ call.op = "unmap"
        BY <1>5 DEF UnmapReturns, UnmapFails
    <2>2. \A k \in held' : nonces'[k] = nonces[k]
        BY <1>5, <2>1 DEF UnmapReturns, UnmapFails, TypeOK
    <2> QED  BY <2>1, <2>2 DEF Leased, Releasing, Granted, HeldOpen, None
<1> QED  BY <1>1, <1>2, <1>3, <1>4, <1>5 DEF Return

\* The gateway and the world.
LEMMA LeasedWorld ==
    ASSUME IInv, Leased,
           \/ Serve \/ Straggle \/ LateArrives \/ Reboot \/ Crash
           \/ \E k \in Key : Expire(k) \/ ExpireUnrenewed(k)
    PROVE  Leased'
<1> USE DEF IInv
<1>1. CASE Serve
    <2>1. ~Idle /\ call \in Call /\ call.key \in Key /\ call.reply = "none"
        BY <1>1, CallFacts DEF Serve
    <2>2. nonces[call.key] = call.nonce /\ UNCHANGED <<nonces, held, atRisk>>
        BY <1>1 DEF Serve, CallKept
    <2>3. /\ call'.op = call.op /\ call'.key = call.key /\ call'.nonce = call.nonce
          /\ call'.reply = IF Refuses(call.key, call.nonce) THEN "refused" ELSE "success"
        BY <1>1, <2>1 DEF Serve, Call
    <2>4. \A k \in Key : k # call.key => gwNonce'[k] = gwNonce[k]
        BY <1>1, <2>1 DEF Serve, Apply, TypeOK
    <2>5. CASE Refuses(call.key, call.nonce)
        <3>1. gwNonce' = gwNonce
            BY <1>1, <2>5 DEF Serve, Apply
        <3> QED  BY <2>1, <2>2, <2>3, <2>5, <3>1 DEF Leased, Releasing, Granted, HeldOpen
    <2>6. CASE ~Refuses(call.key, call.nonce)
        <3>1. gwNonce'[call.key] = IF call.op = "map" THEN call.nonce ELSE NoNonce
            BY <1>1, <2>1, <2>6 DEF Serve, Apply, TypeOK
        <3>2. Releasing' /\ Granted'
            BY <2>1, <2>2, <2>3, <3>1 DEF Leased, Releasing, Granted
        <3>3. call.op = "map" \/ call.op = "unmap"
            BY <2>1 DEF Call
        <3>4. HeldOpen'
            BY <2>1, <2>2, <2>3, <2>4, <2>6, <3>1, <3>3 DEF Leased, HeldOpen, TypeOK
        <3> QED  BY <3>2, <3>4 DEF Leased
    <2> QED  BY <2>5, <2>6
<1>2. CASE Straggle
    BY <1>2 DEF Straggle, Leased, Releasing, Granted, HeldOpen
<1>3. CASE LateArrives \/ Reboot \/ \E k \in Key : ExpireUnrenewed(k)
    <2>1. UNCHANGED <<nonces, held, call>> /\ Harm
        BY <1>3 DEF LateArrives, Reboot, ExpireUnrenewed, Expires
    <2>2. call.op = "map" => call.key \in Key
        BY CallFacts DEF Idle
    <2>3. atRisk \subseteq atRisk' /\ \A k \in Key : gwNonce'[k] = gwNonce[k] \/ k \in atRisk'
        BY <2>1 DEF Harm
    <2>4. held \subseteq Key
        BY DEF TypeOK
    <2> QED  BY <2>1, <2>2, <2>3, <2>4 DEF Leased, Releasing, Granted, HeldOpen
<1>4. CASE Crash
    BY <1>4 DEF Crash, Leased, Releasing, Granted, HeldOpen, None
<1>5. CASE \E k \in Key : Expire(k)
    <2>1. PICK k \in Key : Expire(k)
        BY <1>5
    <2>2. /\ gwNonce[k] # NoNonce /\ gwNonce' = [gwNonce EXCEPT ![k] = NoNonce]
          /\ UNCHANGED <<nonces, held, call, atRisk>>
          /\ ~InTime(k) \/ gwNonce[k] # nonces[k]
        BY <2>1 DEF Expire, Expires
    <2>3. gwNonce'[k] = NoNonce /\ \A l \in Key : l # k => gwNonce'[l] = gwNonce[l]
        BY <2>2 DEF TypeOK
    <2>4. InTime(k) => k \in atRisk
        <3>1. CASE k \in held
            BY <2>2, <3>1 DEF Leased, HeldOpen, InTime
        <3>2. CASE call.op = "map" /\ call.reply = "success" /\ call.key = k
            BY <2>2, <3>2 DEF Leased, Granted, CallKept, Idle, InTime
        <3> QED  BY <3>1, <3>2 DEF InTime
    <2>5. Granted'
        <3> SUFFICES ASSUME call.op = "map", call.reply = "success"
                     PROVE  gwNonce'[call.key] = call.nonce \/ call.key \in atRisk
            BY <2>2 DEF Granted
        <3>1. call.key \in Key
            BY CallFacts DEF Idle
        <3> QED  BY <2>3, <2>4, <3>1 DEF Leased, Granted, InTime
    <2>6. HeldOpen'
        BY <2>2, <2>3, <2>4 DEF Leased, HeldOpen, InTime, TypeOK
    <2> QED  BY <2>2, <2>5, <2>6 DEF Leased, Releasing
<1> QED  BY <1>1, <1>2, <1>3, <1>4, <1>5

-----------------------------------------------------------------------------
(* Pcp implements Forwarding *)

PInv == IInv /\ OneOwner /\ Explained /\ Leased

LEMMA PromiseStarts == Init => PInv
<1> SUFFICES ASSUME Init PROVE PInv
    OBVIOUS
<1>1. IInv
    BY Starts
<1>2. OneOwner
    BY PcpAssumption DEF Init, OneOwner, Owns
<1>3. Explained /\ Leased
    BY DEF Init, Explained, Leased, Releasing, Granted, HeldOpen, Idle, None
<1> QED  BY <1>1, <1>2, <1>3 DEF PInv

LEMMA PromiseKept == PInv /\ [Next]_vars => PInv'
<1> SUFFICES ASSUME PInv, [Next]_vars PROVE PInv'
    OBVIOUS
<1>0. IInv /\ OneOwner /\ Explained /\ Leased
    BY DEF PInv
<1>1. IInv' /\ OneOwner' /\ Explained'
    BY <1>0, Step, OwnersStep, ExplainedStep
<1>2. Leased'
    <2>1. CASE UNCHANGED vars
        BY <1>0, <2>1 DEF vars, Leased, Releasing, Granted, HeldOpen
    <2>2. CASE Next
        BY <1>0, <2>2, LeasedClient, LeasedWorld DEF Next
    <2> QED  BY <2>1, <2>2
<1> QED  BY <1>1, <1>2 DEF PInv

LEMMA PromiseAlways == Spec => []PInv
    BY PromiseStarts, PromiseKept, PTL DEF Spec

\* A call that fails moves nothing Forwarding sees, or loses a lease.
LEMMA PromiseLoss ==
    ASSUME PInv, Fault, UNCHANGED <<gwNonce, late, atRisk, nonces>>,
           held' = held \/ \E k \in Key \ Wanted : held' = held \ {k}
    PROVE  Promise!Next
<1>1. Struck' = Struck + 1
    BY Strikes DEF PInv, IInv
<1>2. Promise!Loss
    BY DEF Promise!Loss, Recorded
<1> QED  BY <1>1, <1>2 DEF Promise!Next, Promise!Mishap

\* The client's side: asking, putting on record, striking off the record.
LEMMA PromiseClient ==
    ASSUME PInv, Return \/ \E k \in Key : AskMap(k) \/ AskUnmap(k)
    PROVE  Promise!Next \/ UNCHANGED Promise!vars
<1>0. IInv /\ TypeOK /\ Explained /\ Leased
    BY DEF PInv, IInv
<1>1. CASE \E k \in Key : AskMap(k) \/ AskUnmap(k)
    <2>1. PICK k \in Key, op \in {"map", "unmap"} : Ask(op, k)
        BY <1>1 DEF AskMap, AskUnmap
    <2>2. PICK n \in nonceFor(k) : nonces' = [nonces EXCEPT ![k] = n]
        BY <2>1 DEF Ask, Keep
    <2>3. UNCHANGED <<held, gwNonce, late, atRisk, faults>>
        BY <2>1 DEF Ask
    <2>4. \A l \in held : nonces'[l] = nonces[l]
        BY <1>0, <2>2, NonceFacts DEF TypeOK
    <2>5. Struck' = Struck
        BY <1>0, <2>3, Strikes
    <2> QED  BY <2>3, <2>4, <2>5 DEF Promise!vars, Recorded
<1>2. CASE MapReturns
    <2> DEFINE k == call.key
    <2>1. call.op = "map" /\ call.reply = "success" /\ k \in Key /\ call.nonce \in Nonce
          /\ nonces[k] = call.nonce
        BY <1>0, <1>2, CallFacts DEF MapReturns, Idle, IInv, CallKept
    <2>2. /\ held' = held \cup {k} /\ UNCHANGED <<nonces, gwNonce, late, faults>>
          /\ atRisk' = IF gwNonce[k] = call.nonce THEN atRisk \ {k} ELSE atRisk
        BY <1>2 DEF MapReturns
    <2>3. gwNonce[k] = call.nonce \/ k \in atRisk
        BY <1>0, <2>1 DEF Leased, Granted
    <2>4. Struck' = Struck
        BY <1>0, <2>2, Strikes
    <2>5. Recorded' = [Recorded EXCEPT ![k] = call.nonce]
        BY <2>1, <2>2 DEF Recorded
    <2>6. atRisk' \in {atRisk} \cup (IF gwNonce[k] = call.nonce THEN {atRisk \ {k}} ELSE {})
        BY <2>2
    <2>7. Promise!Record(k)
        BY <2>1, <2>2, <2>3, <2>4, <2>5, <2>6 DEF Promise!Record
    <2>8. \E l \in Key : Promise!Record(l)
        BY <2>1, <2>7, Zenon
    <2> QED  BY <2>8 DEF Promise!Next
<1>3. CASE MapFails
    <2>1. UNCHANGED <<nonces, held, gwNonce, late, atRisk>> /\ (Fault \/ faults' = faults)
        BY <1>3 DEF MapFails
    <2>2. CASE Fault
        BY <2>1, <2>2, PromiseLoss
    <2>3. CASE faults' = faults
        BY <1>0, <2>1, <2>3, Strikes DEF Promise!vars, Recorded
    <2> QED  BY <2>1, <2>2, <2>3
<1>4. CASE UnmapReturns \/ UnmapFails
    <2> DEFINE k == call.key
    <2>1. call.op = "unmap" /\ k \in Key \ Wanted
        BY <1>0, <1>4, CallFacts DEF UnmapReturns, UnmapFails, Idle, Leased, Releasing
    <2>2. /\ held' = held \ {k} /\ UNCHANGED <<gwNonce, late, atRisk>>
          /\ \A l \in Key \ {k} : nonces'[l] = nonces[l]
        BY <1>0, <1>4 DEF UnmapReturns, UnmapFails, TypeOK
    <2>3. CASE UnmapFails /\ Fault
        BY <2>1, <2>2, <2>3, PromiseLoss DEF UnmapFails
    <2>4. ASSUME faults' = faults, Promise!Closed(k) \/ Struck > 0
          PROVE  Promise!Next
        <3>1. Struck' = Struck
            BY <1>0, <2>2, <2>4, Strikes
        <3>2. Recorded' = [Recorded EXCEPT ![k] = NoNonce]
            BY <2>1, <2>2 DEF Recorded
        <3>3. Promise!Forget(k)
            BY <2>1, <2>2, <2>4, <3>1, <3>2 DEF Promise!Forget
        <3>4. \E l \in Key : Promise!Forget(l)
            BY <2>1, <3>3, Zenon
        <3> QED  BY <3>4 DEF Promise!Next
    <2>5. CASE UnmapFails /\ call.reply = "refused" /\ faults' = faults
        BY <1>0, <2>1, <2>4, <2>5 DEF Explained, Idle
    <2>6. CASE UnmapReturns
        <3>1. call.reply = "success" /\ faults' = faults
            BY <2>6 DEF UnmapReturns
        <3>2. k \in orphaned \/ gwNonce[k] = NoNonce
            BY <1>0, <2>1, <3>1 DEF IInv, UnmapDone
        <3>3. Promise!Closed(k) \/ Struck > 0
            BY <1>0, <3>2 DEF Promise!Closed, Explained
        <3> QED  BY <2>4, <3>1, <3>3
    <2> QED  BY <1>4, <2>3, <2>5, <2>6 DEF UnmapFails
<1> QED  BY <1>1, <1>2, <1>3, <1>4 DEF Return

\* The gateway's side: it opens with a nonce no other mapping has, and closes
\* what is on record.
LEMMA PromiseServed ==
    ASSUME PInv, Serve
    PROVE  Promise!Next \/ UNCHANGED Promise!vars
<1> DEFINE k == call.key
<1>0. IInv /\ TypeOK /\ Explained /\ Leased /\ OneOwner
    BY DEF PInv, IInv
<1>1. call \in Call /\ k \in Key /\ call.nonce \in Nonce /\ nonces[k] = call.nonce
    BY <1>0, CallFacts DEF Serve, IInv, CallKept
<1>2. UNCHANGED <<nonces, held, late, atRisk, faults>>
    BY DEF Serve
<1>3. Struck' = Struck
    BY <1>0, <1>2, Strikes
<1>4. CASE Refuses(k, call.nonce)
    BY <1>2, <1>3, <1>4 DEF Serve, Apply, Promise!vars, Recorded
<1>5. CASE ~Refuses(k, call.nonce) /\ call.op = "map"
    <2>1. gwNonce' = [gwNonce EXCEPT ![k] = call.nonce]
        BY <1>5 DEF Serve, Apply
    <2>2. CASE gwNonce[k] = call.nonce
        BY <1>0, <1>2, <1>3, <2>1, <2>2 DEF TypeOK, Promise!vars, Recorded
    <2>3. CASE gwNonce[k] = NoNonce
        <3>1. call.nonce \notin {gwNonce[l] : l \in Key \ {k}}
            BY <1>0, <1>1 DEF OneOwner, Owns
        <3>2. Promise!Open(k)
            BY <1>1, <1>2, <1>3, <2>1, <2>3, <3>1 DEF Promise!Open, Promise!Closed, Recorded
        <3> QED  BY <1>1, <3>2 DEF Promise!Next
    <2> QED  BY <1>5, <2>2, <2>3 DEF Refuses
<1>6. CASE ~Refuses(k, call.nonce) /\ call.op = "unmap"
    <2>1. gwNonce' = [gwNonce EXCEPT ![k] = NoNonce]
        BY <1>6 DEF Serve, Apply
    <2>2. k \in held \ Wanted /\ nonces[k] # NoNonce
        BY <1>0, <1>1, <1>6, PcpAssumption DEF Leased, Releasing
    <2>3. Promise!Close(k)
        BY <1>1, <1>2, <1>3, <2>1, <2>2 DEF Promise!Close, Recorded
    <2> QED  BY <1>1, <2>3 DEF Promise!Next
<1> QED  BY <1>1, <1>4, <1>5, <1>6 DEF Call

\* A copy that arrives late is a mishap, whatever the gateway makes of it.
LEMMA PromiseLate ==
    ASSUME PInv, LateArrives
    PROVE  Promise!Next
<1> DEFINE k == late.key
<1>0. IInv /\ TypeOK /\ Explained /\ OneOwner
    BY DEF PInv, IInv
<1>1. late \in Request /\ k \in Key /\ late.nonce \in Nonce /\ late # None
    BY <1>0, LateFacts DEF LateArrives
<1>2. UNCHANGED <<nonces, held>>
    BY DEF LateArrives
<1>3. Struck' = Struck + 1
    BY <1>0, Strikes
<1>4. atRisk' = atRisk \cup {l \in Key : gwNonce'[l] # gwNonce[l]}
    BY DEF LateArrives, Harm
<1>5. CASE Refuses(k, late.nonce)
    <2>1. gwNonce' = gwNonce
        BY <1>5 DEF LateArrives, Apply
    <2>2. Promise!Loss
        BY <1>2, <1>4, <2>1 DEF Promise!Loss, Recorded
    <2> QED  BY <1>3, <2>2 DEF Promise!Next, Promise!Mishap
<1>6. CASE ~Refuses(k, late.nonce) /\ late.op = "map"
    <2>1. gwNonce' = [gwNonce EXCEPT ![k] = late.nonce]
        BY <1>6 DEF LateArrives, Apply
    <2>2. late.nonce \notin {gwNonce[l] : l \in Key \ {k}}
        BY <1>0, <1>1 DEF OneOwner, Owns
    <2>3. atRisk' \in {atRisk, atRisk \cup {k}}
        BY <1>0, <1>4, <2>1 DEF TypeOK
    <2>4. Promise!LateMap(k)
        BY <1>1, <1>2, <1>6, <2>1, <2>2, <2>3 DEF Promise!LateMap, Promise!Closed, Refuses, Recorded
    <2> QED  BY <1>1, <1>3, <2>4 DEF Promise!Next, Promise!Mishap
<1>7. CASE ~Refuses(k, late.nonce) /\ late.op = "unmap"
    <2>1. gwNonce' = [gwNonce EXCEPT ![k] = NoNonce]
        BY <1>7 DEF LateArrives, Apply
    <2>2. atRisk' = IF Promise!Closed(k) THEN atRisk ELSE atRisk \cup {k}
        BY <1>0, <1>1, <1>4, <2>1 DEF TypeOK, Promise!Closed
    <2>3. Promise!EndsEarly(k)
        BY <1>2, <2>1, <2>2 DEF Promise!EndsEarly, Recorded
    <2> QED  BY <1>1, <1>3, <2>3 DEF Promise!Next, Promise!Mishap
<1> QED  BY <1>1, <1>5, <1>6, <1>7 DEF Request

\* A mapping expires: what is on record does so only when it is at risk.
LEMMA PromiseExpires ==
    ASSUME PInv, NEW k \in Key, Expire(k) \/ ExpireUnrenewed(k)
    PROVE  Promise!Next
<1>0. IInv /\ TypeOK /\ Explained /\ Leased
    BY DEF PInv, IInv
<1>1. /\ gwNonce[k] # NoNonce /\ gwNonce' = [gwNonce EXCEPT ![k] = NoNonce]
      /\ UNCHANGED <<nonces, held, late>>
    BY DEF Expire, ExpireUnrenewed, Expires
<1>2. CASE Expire(k)
    <2>1. UNCHANGED <<atRisk, faults>> /\ (k \notin held \/ gwNonce[k] # nonces[k])
        BY <1>2 DEF Expire, InTime
    <2>2. k \notin held \/ k \in atRisk
        BY <1>0, <1>1, <2>1 DEF Leased, HeldOpen
    <2>3. Struck' = Struck
        BY <1>0, <1>1, <2>1, Strikes
    <2>4. gwNonce' = [l \in Key |-> IF l \in {k} THEN NoNonce ELSE gwNonce[l]]
        BY <1>0, <1>1 DEF TypeOK
    <2>5. Promise!Expire({k})
        BY <1>1, <2>1, <2>2, <2>3, <2>4 DEF Promise!Expire, Recorded
    <2>6. {k} \in SUBSET Key
        OBVIOUS
    <2> QED  BY <2>5, <2>6 DEF Promise!Next
<1>3. CASE ExpireUnrenewed(k)
    <2>1. Fault /\ atRisk' = atRisk \cup {l \in Key : gwNonce'[l] # gwNonce[l]}
        BY <1>3 DEF ExpireUnrenewed, Harm
    <2>2. Struck' = Struck + 1
        BY <1>0, <1>1, <2>1, Strikes
    <2>3. atRisk' = atRisk \cup {k}
        BY <1>0, <1>1, <2>1 DEF TypeOK
    <2>4. Promise!EndsEarly(k)
        BY <1>1, <2>3 DEF Promise!EndsEarly, Promise!Closed, Recorded
    <2> QED  BY <2>2, <2>4 DEF Promise!Next, Promise!Mishap
<1> QED  BY <1>2, <1>3

\* Every step of the client and the gateway is a step of Forwarding, or one it
\* does not see.
LEMMA PromiseStep == PInv /\ [Next]_vars => [Promise!Next]_(Promise!vars)
<1> SUFFICES ASSUME PInv, [Next]_vars PROVE Promise!Next \/ UNCHANGED Promise!vars
    OBVIOUS
<1>0. TypeOK /\ Explained
    BY DEF PInv, IInv
<1>1. CASE UNCHANGED vars
    BY <1>1 DEF vars, Struck, Promise!vars, Recorded
<1>2. CASE Return \/ \E k \in Key : AskMap(k) \/ AskUnmap(k)
    BY <1>2, PromiseClient
<1>3. CASE Serve
    BY <1>3, PromiseServed
<1>4. CASE LateArrives
    BY <1>4, PromiseLate
<1>5. CASE \E k \in Key : Expire(k) \/ ExpireUnrenewed(k)
    BY <1>5, PromiseExpires
<1>6. CASE Straggle
    <2>1. Struck' = Struck
        BY <1>0, <1>6, Strikes
    <2> QED  BY <1>6, <2>1 DEF Straggle, Promise!vars, Recorded
<1>7. CASE Reboot
    <2>1. Fault /\ late' = late
        BY <1>7 DEF Reboot
    <2>2. Struck' = Struck + 1
        BY <1>0, <2>1, Strikes
    <2>3. Promise!Reboot
        BY <1>7 DEF Reboot, Harm, Promise!Reboot, Promise!Closed, Recorded
    <2> QED  BY <2>2, <2>3 DEF Promise!Next, Promise!Mishap
<1>8. CASE Crash
    <2>1. Fault /\ late' = late
        BY <1>8 DEF Crash
    <2>2. Struck' = Struck + 1
        BY <1>0, <2>1, Strikes
    <2>3. Promise!Crash
        BY <1>8 DEF Crash, Promise!Crash, Recorded
    <2> QED  BY <2>2, <2>3 DEF Promise!Next, Promise!Mishap
<1> QED  BY <1>1, <1>2, <1>3, <1>4, <1>5, <1>6, <1>7, <1>8 DEF Next

\* Client and gateway together implement Forwarding: a lease is recorded with the
\* nonce its mapping was made with (nonceFor), no two mappings share a nonce, and
\* what is on record is closed, replaced or orphaned only by a mishap, each of
\* which strikes once.
THEOREM KeepsItsPromiseHolds == Spec => KeepsItsPromise
<1>1. Init => Promise!Init
    BY DEF Init, Promise!Init, Struck, Recorded
<1>2. PInv /\ [Next]_vars => [Promise!Next]_(Promise!vars)
    BY PromiseStep
<1> QED  BY <1>1, <1>2, PromiseAlways, PTL DEF Spec, KeepsItsPromise, Promise!Spec
=============================================================================
