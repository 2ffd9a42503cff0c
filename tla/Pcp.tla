-------------------------------- MODULE Pcp --------------------------------
(***************************************************************************)
(* The nonces of the PCP client (internal/portmapper/pcp).  A gateway lets *)
(* a mapping be refreshed or deleted only with the nonce it was made with, *)
(* so the client keeps one nonce per mapping, from the first Map until an  *)
(* Unmap succeeds, in memory: a restarted process has lost them, and a     *)
(* mapping of its predecessor stands in its way until it expires.          *)
(*                                                                         *)
(* The daemon calls Map and Unmap one at a time.  An exchange may fail     *)
(* after the gateway served it, and a copy of a request may arrive late    *)
(* (Exchange).  Renewal in time is NatPmpSystem's subject: a mapping that  *)
(* is held, or was granted just now, and whose nonce is known expires here *)
(* only by a fault.                                                        *)
(***************************************************************************)
EXTENDS Naturals

CONSTANTS
    Key,       \* the protocol and internal port of a request
    Wanted,    \* those the daemon never unmaps
    Nonce,
    NoNonce,
    MaxFaults  \* bound: failed exchanges, late copies, crashes, reboots

ASSUME PcpAssumption ==
    /\ Wanted \subseteq Key
    /\ NoNonce \notin Nonce
    /\ MaxFaults \in Nat

VARIABLES
    nonces,    \* c.nonces
    held,      \* the leases the daemon has recorded
    call,      \* the exchange under way
    gwNonce,   \* the gateway's table: the nonce each mapping was made with
    late,      \* a copy of a request still on its way
    orphaned,  \* mappings of a process that died, and those a late copy made
               \* after they had been deleted (history)
    atRisk,    \* mappings a mishap took or changed, until they are renewed (history)
    faults

vars == <<nonces, held, call, gwNonce, late, orphaned, atRisk, faults>>

Request == [op : {"map", "unmap"}, key : Key, nonce : Nonce]
None    == [op |-> "none", reply |-> "none"]
Idle    == call.op = "none"

TypeOK ==
    /\ nonces \in [Key -> Nonce \cup {NoNonce}]
    /\ held \subseteq {k \in Key : nonces[k] # NoNonce}
    /\ call \in [op : {"map", "unmap"}, key : Key, nonce : Nonce,
                 reply : {"none", "success", "refused"}] \cup {None}
    /\ gwNonce \in [Key -> Nonce \cup {NoNonce}]
    /\ late \in Request \cup {None}
    /\ orphaned \subseteq Key /\ atRisk \subseteq Key
    /\ faults \in 0 .. MaxFaults

Init ==
    /\ nonces = [k \in Key |-> NoNonce] /\ held = {} /\ call = None
    /\ gwNonce = [k \in Key |-> NoNonce] /\ late = None
    /\ orphaned = {} /\ atRisk = {} /\ faults = 0

Fault == faults < MaxFaults /\ faults' = faults + 1

-----------------------------------------------------------------------------
(* The client *)

\* A random nonce is none of those that are still in use anywhere.
InUse == {nonces[k] : k \in Key} \cup {gwNonce[k] : k \in Key}
            \cup (IF late = None THEN {} ELSE {late.nonce})
Fresh == Nonce \ InUse

Keep(k, n) == nonces' = [nonces EXCEPT ![k] = n]

\* (slip: every request gets a nonce of its own)
AlwaysFresh(k) == Fresh

\* nonceFor: the nonce of the mapping, or a new one.
nonceFor(k) == IF nonces[k] # NoNonce THEN {nonces[k]} ELSE Fresh

Ask(op, k) ==
    /\ Idle
    /\ \E n \in nonceFor(k) :
          /\ Keep(k, n)
          /\ call' = [op |-> op, key |-> k, nonce |-> n, reply |-> "none"]
    /\ UNCHANGED <<held, gwNonce, late, orphaned, atRisk, faults>>

\* Map, for a mapping that is missing or due.
AskMap(k) == Ask("map", k)

\* Unmap, for a lease that is recorded.
AskUnmap(k) == k \in held \ Wanted /\ Ask("unmap", k)

\* (slip: the result code is not looked at)
ReturnsAnyway ==
    /\ call.op = "map" /\ call.reply # "none"
    /\ held' = held \cup {call.key} /\ call' = None
    /\ atRisk' = IF gwNonce[call.key] = call.nonce THEN atRisk \ {call.key} ELSE atRisk
    /\ UNCHANGED <<nonces, gwNonce, late, orphaned, faults>>

MapReturns ==
    /\ call.op = "map" /\ call.reply = "success"
    /\ held' = held \cup {call.key} /\ call' = None
    /\ atRisk' = IF gwNonce[call.key] = call.nonce THEN atRisk \ {call.key} ELSE atRisk
    /\ UNCHANGED <<nonces, gwNonce, late, orphaned, faults>>

\* The exchange fails or its answer is not accepted; the nonce stays.
MapFails ==
    /\ call.op = "map"
    /\ (call.reply = "refused" /\ UNCHANGED faults) \/ Fault
    /\ call' = None
    /\ UNCHANGED <<nonces, held, gwNonce, late, orphaned, atRisk>>

\* deleteNonce.
UnmapReturns ==
    /\ call.op = "unmap" /\ call.reply = "success"
    /\ nonces' = [nonces EXCEPT ![call.key] = NoNonce]
    /\ held' = held \ {call.key} /\ call' = None
    /\ UNCHANGED <<gwNonce, late, orphaned, atRisk, faults>>

\* (slip: the nonce is deleted although the mapping may still be there)
UnmapFailsAndForgets ==
    /\ call.op = "unmap"
    /\ (call.reply = "refused" /\ UNCHANGED faults) \/ Fault
    /\ nonces' = [nonces EXCEPT ![call.key] = NoNonce]
    /\ held' = held \ {call.key} /\ call' = None
    /\ UNCHANGED <<gwNonce, late, orphaned, atRisk>>

\* The daemon forgets the lease, but the client keeps the nonce.
UnmapFails ==
    /\ call.op = "unmap"
    /\ (call.reply = "refused" /\ UNCHANGED faults) \/ Fault
    /\ held' = held \ {call.key} /\ call' = None
    /\ UNCHANGED <<nonces, gwNonce, late, orphaned, atRisk>>

-----------------------------------------------------------------------------
(* The gateway and the world *)

\* The mappings whose entry a mishap changes are at risk.
Harm == atRisk' = atRisk \cup {k \in Key : gwNonce'[k] # gwNonce[k]}

\* A mapping belongs to the nonce it was made with.
Refuses(k, n) == gwNonce[k] \notin {NoNonce, n}

Apply(req) ==
    gwNonce' = IF Refuses(req.key, req.nonce) THEN gwNonce
               ELSE [gwNonce EXCEPT ![req.key] = IF req.op = "map" THEN req.nonce ELSE NoNonce]

Serve ==
    /\ ~Idle /\ call.reply = "none"
    /\ Apply(call)
    /\ call' = [call EXCEPT !.reply = IF Refuses(call.key, call.nonce) THEN "refused"
                                      ELSE "success"]
    /\ orphaned' = IF Refuses(call.key, call.nonce) THEN orphaned ELSE orphaned \ {call.key}
    /\ UNCHANGED <<nonces, held, late, atRisk, faults>>

\* A copy of the request stays behind on its way.
Straggle ==
    /\ ~Idle /\ late = None /\ Fault
    /\ late' = [op |-> call.op, key |-> call.key, nonce |-> call.nonce]
    /\ UNCHANGED <<nonces, held, call, gwNonce, orphaned, atRisk>>

\* The mapping the copy is of has been deleted since.
Deleted(req) ==
    \/ nonces[req.key] # req.nonce
    \/ call.op = "unmap" /\ call.reply = "success" /\ call.key = req.key

LateArrives ==
    /\ late # None
    /\ Apply(late)
    /\ orphaned' = IF late.op = "map" /\ Deleted(late) THEN orphaned \cup {late.key}
                   ELSE orphaned
    /\ late' = None /\ Harm
    /\ UNCHANGED <<nonces, held, call, faults>>

Expires(k) ==
    /\ gwNonce[k] # NoNonce
    /\ gwNonce' = [gwNonce EXCEPT ![k] = NoNonce]
    /\ orphaned' = orphaned \ {k}
    /\ UNCHANGED <<nonces, held, call, late>>

\* The daemon renews it in time, or it has been granted just now.
InTime(k) == k \in held \/ (call.op = "map" /\ call.reply = "success" /\ call.key = k)

\* A mapping that nobody can or will renew ends.
Expire(k) ==
    /\ ~InTime(k) \/ gwNonce[k] # nonces[k]
    /\ Expires(k)
    /\ UNCHANGED <<atRisk, faults>>

\* No renewal came through for a whole lifetime.
ExpireUnrenewed(k) == InTime(k) /\ Fault /\ Expires(k) /\ Harm

Reboot ==
    /\ Fault
    /\ gwNonce' = [k \in Key |-> NoNonce] /\ orphaned' = {} /\ Harm
    /\ UNCHANGED <<nonces, held, call, late>>

\* The process dies and is started again: New makes an empty map of nonces.
Crash ==
    /\ Fault
    /\ nonces' = [k \in Key |-> NoNonce] /\ held' = {} /\ call' = None
    /\ orphaned' = {k \in Key : gwNonce[k] # NoNonce}
    /\ UNCHANGED <<gwNonce, late, atRisk>>

Return == MapReturns \/ MapFails \/ UnmapReturns \/ UnmapFails

Next ==
    \/ \E k \in Key : AskMap(k) \/ AskUnmap(k) \/ Expire(k) \/ ExpireUnrenewed(k)
    \/ Return \/ Serve \/ Straggle \/ LateArrives \/ Reboot \/ Crash

\* The daemon comes back to every mapping that is wanted, calls return, what is
\* not renewed expires.
Fairness ==
    /\ \A k \in Wanted : SF_vars(AskMap(k))
    /\ WF_vars(Serve) /\ WF_vars(MapReturns \/ UnmapReturns)
    /\ WF_vars(call.reply = "refused" /\ (MapFails \/ UnmapFails))
    /\ WF_vars(LateArrives) /\ \A k \in Key : WF_vars(Expire(k))

Spec == Init /\ [][Next]_vars /\ Fairness

-----------------------------------------------------------------------------
(* Properties *)

\* The client knows the nonce of every mapping the gateway has from this
\* process, also of those the daemon has given up after a failed Unmap: only a
\* crash, or a copy that arrives after the Unmap, leaves a mapping nobody can
\* refresh.
NonceKept ==
    \A k \in Key \ orphaned : gwNonce[k] # NoNonce => nonces[k] = gwNonce[k]

\* The gateway refuses a renewal or a release (NOT_AUTHORIZED) only when such an
\* orphan is in the way.
RefusedForAnOrphan ==
    ~Idle /\ Refuses(call.key, call.nonce) => call.key \in orphaned

\* The mishaps that have struck: a copy that is still on its way has not.
Struck == faults - (IF late = None THEN 0 ELSE 1)

\* What the client and the daemon have on record of a mapping.
Recorded == [k \in Key |-> IF k \in held THEN nonces[k] ELSE NoNonce]

\* A mapping is known by its nonce, at the gateway and in the client.
Promise == INSTANCE Forwarding WITH
    Mapping  <- Key,
    Port     <- Nonce,
    NoPort   <- NoNonce,
    Gated    <- Key \ Wanted,
    open     <- gwNonce,
    record   <- Recorded,
    stopping <- FALSE,
    mishaps  <- Struck

\* The client and the gateway do together what Forwarding promises: a lease is
\* recorded with the nonce its mapping was made with (nonceFor), no two mappings
\* share one, and what is on record is not closed, replaced or orphaned unless a
\* mishap strikes.
KeepsItsPromise == Promise!Spec

\* Whatever went wrong, a mapping that is wanted is had again, for good.
Regained ==
    \A k \in Wanted : <>[](k \in held /\ gwNonce[k] # NoNonce /\ gwNonce[k] = nonces[k])
=============================================================================
