------------------------------- MODULE Detect -------------------------------
(***************************************************************************)
(* Protocol detection (internal/daemon/detect.go, wiring.go): the          *)
(* candidates are put in the configured order and probed one after the     *)
(* other, each for at most the detection timeout; the first whose gateway  *)
(* answers ExternalIP is the daemon's client for the rest of its life.     *)
(*                                                                         *)
(* A probe of a protocol the gateway speaks may be lost, one it does not   *)
(* speak may be refused at once or time out.  The context may be cancelled *)
(* at any moment.  The probe that is under way notices at its next read,   *)
(* so it may still end either way; a probe that begins afterwards sends    *)
(* nothing, for each client looks at its context first (natpmp.go:125,     *)
(* pcp.go:203, ssdp.go:42).                                                *)
(***************************************************************************)
EXTENDS Naturals, Sequences, SequencesExt

CONSTANTS
    Configured,      \* what detect.timeout may be, in ticks; 0 when unset
    DefaultTimeout,  \* config.DefaultDetectTimeout
    Needs,           \* how long a probe takes to succeed, by protocol
    MaxLost          \* bound: probes lost although the gateway speaks the protocol

Protocol == {"natpmp", "pcp", "upnp"}

ASSUME DetectAssumption ==
    /\ Configured \subseteq Nat
    /\ DefaultTimeout \in Nat
    /\ Needs \in [Protocol -> Nat]
    /\ \A p \in Protocol : Needs[p] < DefaultTimeout
    /\ MaxLost \in Nat

VARIABLES
    order,       \* detect.order
    timeout,     \* detect.timeout
    candidates,  \* what orderCandidates made of order
    spoken,      \* the protocols the gateway speaks
    pc,          \* "next" (the loop's head), "probe", "check" (ctx.Err) or "done"
    at,          \* the candidate that is next, or being probed
    dead,        \* the probe began with a context that was done
    spent,       \* time spent in this probe
    cancelled,
    outcome,     \* "none", a protocol, "cancelled" or "unsupported"
    lost,        \* probes lost (history)
    late         \* probes begun after the cancellation (history)

inputs == <<order, timeout, candidates, spoken>>
vars   == <<inputs, pc, at, dead, spent, cancelled, outcome, lost, late>>

-----------------------------------------------------------------------------
(* orderCandidates *)

\* defaultCandidates: the fast UDP probes before UPnP's search.
defaultCandidates == <<"natpmp", "pcp", "upnp">>

\* validateDetect accepts the orders that name no protocol twice.
ValidOrders == {o \in BoundedSeq(Protocol, Len(defaultCandidates)) : IsInjective(o)}

\* (slip: what was used already is appended once more)
AppendAll(all, acc, names) == acc \o names

\* A loop of orderCandidates: acc with those of names appended that are
\* candidates (byName) and not yet in it (used).
Take(all, acc, name) ==
    IF name \in ToSet(all) \ ToSet(acc) THEN Append(acc, name) ELSE acc

AppendUnused(all, acc, names) ==
    LET f[n \in 0 .. Len(names)] ==
            IF n = 0 THEN acc ELSE Take(all, f[n - 1], names[n])
    IN  f[Len(names)]

\* The named candidates, and after them the others in their default order.
orderCandidates(all, wanted) ==
    IF wanted = <<>> THEN all
    ELSE AppendUnused(all, AppendUnused(all, <<>>, wanted), all)

\* (slip: 0 is taken literally)
TimeoutAsGiven(given) == given

\* defaultDetect: an unset timeout is the default one.
ProbeTimeout(given) == IF given = 0 THEN DefaultTimeout ELSE given

-----------------------------------------------------------------------------
Init ==
    /\ order \in ValidOrders
    /\ timeout \in Configured
    /\ candidates = orderCandidates(defaultCandidates, order)
    /\ spoken \in SUBSET Protocol
    /\ pc = "next" /\ at = 1 /\ dead = FALSE /\ spent = 0
    /\ cancelled = FALSE /\ outcome = "none"
    /\ lost = 0 /\ late = 0

Probed == candidates[at]

Return(result) == pc' = "done" /\ outcome' = result

\* A new client, and a context for its probe: it is done if ctx is.
Begin ==
    /\ pc = "next" /\ at <= Len(candidates)
    /\ pc' = "probe" /\ dead' = cancelled /\ spent' = 0
    /\ late' = late + (IF cancelled THEN 1 ELSE 0)
    /\ UNCHANGED <<inputs, at, cancelled, outcome, lost>>

\* ExternalIP answers: the context is not consulted any more.
Answered ==
    /\ pc = "probe" /\ ~dead
    /\ Probed \in spoken /\ spent >= Needs[Probed]
    /\ Return(Probed)
    /\ UNCHANGED <<inputs, at, dead, spent, cancelled, lost, late>>

\* ExternalIP fails: the gateway does not speak the protocol, the context is done,
\* the time does not suffice, or there is a loss (or a slow answer).
Failed ==
    /\ pc = "probe"
    /\ \/ (Probed \notin spoken \/ cancelled) /\ lost' = lost
       \/ spent = ProbeTimeout(timeout) /\ Needs[Probed] >= spent /\ lost' = lost
       \/ Probed \in spoken /\ lost < MaxLost /\ lost' = lost + 1
    /\ pc' = "check"
    /\ UNCHANGED <<inputs, at, dead, spent, cancelled, outcome, late>>

\* (slip: the error is not asked for its reason)
CheckNothing ==
    /\ pc = "check"
    /\ pc' = "next" /\ at' = at + 1 /\ UNCHANGED outcome
    /\ UNCHANGED <<inputs, dead, spent, cancelled, lost, late>>

\* After a failure: the next candidate, unless the context is done by now.
Check ==
    /\ pc = "check"
    /\ IF cancelled
       THEN Return("cancelled") /\ UNCHANGED at
       ELSE pc' = "next" /\ at' = at + 1 /\ UNCHANGED outcome
    /\ UNCHANGED <<inputs, dead, spent, cancelled, lost, late>>

Unsupported ==
    /\ pc = "next" /\ at > Len(candidates)
    /\ Return("unsupported")
    /\ UNCHANGED <<inputs, at, dead, spent, cancelled, lost, late>>

Cancel ==
    /\ pc # "done" /\ ~cancelled
    /\ cancelled' = TRUE
    /\ UNCHANGED <<inputs, pc, at, dead, spent, outcome, lost, late>>

\* context.WithTimeout bounds the probe.
Tick ==
    /\ pc = "probe" /\ spent < ProbeTimeout(timeout)
    /\ spent' = spent + 1
    /\ UNCHANGED <<inputs, pc, at, dead, cancelled, outcome, lost, late>>

Loop == Begin \/ Answered \/ Failed \/ Check \/ Unsupported
Next == Loop \/ Cancel \/ Tick

Spec == Init /\ [][Next]_vars

-----------------------------------------------------------------------------
(* Properties *)

\* The place of p among the candidates, and in the configured and the default
\* order.
Place(seq, p) == CHOOSE n \in DOMAIN seq : seq[n] = p

\* Every protocol is probed exactly once, those the configuration names first
\* and as it orders them, the others after them in the default order
\* (orderCandidates, its byName map and its used set).
EachProbedInOrder ==
    /\ IsInjective(candidates) /\ ToSet(candidates) = Protocol
    /\ \A p, q \in Protocol :
          (\/ p \in ToSet(order) /\ q \notin ToSet(order)
           \/ {p, q} \subseteq ToSet(order) /\ Place(order, p) < Place(order, q)
           \/ {p, q} \cap ToSet(order) = {}
              /\ Place(defaultCandidates, p) < Place(defaultCandidates, q))
          => Place(candidates, p) < Place(candidates, q)

\* A protocol is passed over only for a reason: as many probes were lost as the
\* gateway speaks protocols that come before the one that was chosen, or before
\* the end when none was.  A protocol does not count whose probe needs longer than
\* the configured timeout; the default is enough for every one, and a timeout of
\* zero is the default (wiring.go:24).
EnoughTime(p) == timeout = 0 \/ Needs[p] < timeout
PassedOverForAReason ==
    ~cancelled /\ pc = "done" =>
        lost >= Cardinality({n \in 1 .. at - 1 : candidates[n] \in spoken /\ EnoughTime(candidates[n])})

\* A cancellation ends the detection wherever it strikes, between the check of the
\* context (detect.go:70) and the next probe (detect.go:63) as well: at most one
\* more probe begins, it chooses no client, and then the cancellation is what detect
\* reports, not that the gateway speaks no protocol.
CancelEndsDetection ==
    /\ late <= 1
    /\ late = 1 /\ pc = "done" => outcome = "cancelled"
=============================================================================
