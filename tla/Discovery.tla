----------------------------- MODULE Discovery ------------------------------
(***************************************************************************)
(* How the UPnP client finds the router (ssdp.go, device.go and            *)
(* resolveTarget): a multicast search collects the locations of device     *)
(* descriptors for a while, then the descriptors are fetched in the order  *)
(* their locations arrived, and the first one with a usable WAN connection *)
(* service gives the control target, which is kept.                        *)
(*                                                                         *)
(* A descriptor is a tree of devices, each with services; node 1 is the    *)
(* root, and the children of a node have higher numbers.  The devices on   *)
(* the LAN are lan, which changes when the router reboots.  Datagrams      *)
(* without a location are ignored by the code and left out.                *)
(*                                                                         *)
(* The search is the first thing a client does, so all of it runs in the   *)
(* context of detect's probe (detect.go:64): the window, which is never    *)
(* closed early, and each fetch in turn use up what is left of its time.   *)
(* What answers does so at once; what hangs costs the HTTP client's whole  *)
(* timeout, and a device may hang for good.                                *)
(***************************************************************************)
EXTENDS Integers, SequencesExt

CONSTANTS
    Locations,  \* descriptor URLs that may answer a search
    Router,     \* the router's location
    Lans,       \* what the LAN may look like: [Locations -> Descriptor]
    NoTarget,   \* no control target
    Timeout,    \* what detect gives the probe, in seconds
    Window,     \* defaultSearchTimeout
    HTTPTimeout \* defaultHTTPTimeout

\* wanServiceTypes, in order of preference.
wanServiceTypes == <<"WANIPConnection:2", "WANIPConnection:1", "WANPPPConnection:1">>

VARIABLES
    lan,     \* what each location serves now
    target,  \* c.target: the control target resolved, or NoTarget
    search,  \* "idle", "listen" (collectResults) or "fetch" (the loop over results)
    found,   \* the locations found, in the order of their first answer
    next,    \* the one to be fetched
    left,    \* what is left of the probe's time, while it searches
    missed,  \* the router's descriptor could not be fetched in time (history)
    hung     \* time that hanging fetches took of the probe, or would have (history)

discovery == <<target, search, found, next, left, missed, hung>>

-----------------------------------------------------------------------------
(* device.go *)

\* The services of the tree under a node in the order findService meets them:
\* those of the device itself, then those of its children, one after the other.
Walk(d) ==
    LET under[n \in DOMAIN d.devices] ==
            d.devices[n].services \o
              FlattenSeq([k \in DOMAIN d.devices[n].children |->
                             under[d.devices[n].children[k]]])
    IN  under[1]

\* findService: where the services of that type are; it returns the first.
findService(walk, want) == {n \in DOMAIN walk : walk[n].type = want}

\* (slip: the first WAN service of the tree, whatever its type)
FirstInTree(walk) == walk[Min({n \in DOMAIN walk : walk[n].type \in Range(wanServiceTypes)})]

\* The types of service that there are, and the first service of the one that is
\* most preferred.
Has(walk) == {n \in DOMAIN wanServiceTypes : findService(walk, wanServiceTypes[n]) # {}}
Preferred(walk) ==
    CHOOSE s \in Range(walk) :
        \E n \in Has(walk) :
            /\ \A m \in Has(walk) : n <= m
            /\ s = walk[Min(findService(walk, wanServiceTypes[n]))]

\* resolveURL against descriptorBase: a relative control URL is taken at the
\* descriptor's URLBase, or at the location when there is none.
Resolved(d, location, control) ==
    [host |-> IF control.host # "" THEN control.host
              ELSE IF d.base # "" THEN d.base ELSE location,
     path |-> control.path]

\* parseControlTarget: a descriptor that does not parse, has no WAN service or
\* gives the preferred one no control URL is of no use.
Usable(d) ==
    LET walk == Walk(d)
    IN  d.parses /\ Has(walk) # {} /\ Preferred(walk).control.path # ""
parseControlTarget(d, location) ==
    LET service == Preferred(Walk(d))
    IN  [url |-> Resolved(d, location, service.control), type |-> service.type]

\* What a device really offers: every service of its tree that has a URL.
Offers(d, location) ==
    {[url  |-> Resolved(d, location, s.control), type |-> s.type] :
        s \in {t \in Range(Walk(d)) : t.control.path # ""}}
Offered(location) == Offers(lan[location], location)

\* The services of a descriptor are a list, the router's descriptor is of use and
\* served, and the zero target is no gateway's.
ASSUME DiscoveryAssumption ==
    /\ Router \in Locations /\ IsFiniteSet(Locations)
    /\ \A l \in Lans, o \in Locations : DOMAIN Walk(l[o]) \subseteq Nat
    /\ \A l \in Lans : DOMAIN l = Locations /\ Usable(l[Router]) /\ ~l[Router].hangs
    /\ \A l \in Lans, o \in Locations :
          Usable(l[o]) => parseControlTarget(l[o], o) # NoTarget
    /\ Timeout \in Nat \ {0} /\ Window \in Nat /\ HTTPTimeout \in Nat \ {0}

DiscoveryTypeOK ==
    /\ lan \in Lans
    /\ target \in {NoTarget} \cup UNION {Offers(l[Router], Router) : l \in Lans}
    /\ search \in {"idle", "listen", "fetch"}
    /\ found \in SeqOf(Locations, Cardinality(Locations)) /\ IsInjective(found)
    /\ next \in 1 .. Cardinality(Locations) + 1
    /\ left \in 0 .. Timeout /\ missed \in BOOLEAN /\ hung \in Nat

DiscoveryInit ==
    /\ lan \in Lans /\ target = NoTarget
    /\ search = "idle" /\ found = <<>> /\ next = 1
    /\ left = 0 /\ missed = FALSE /\ hung = 0

-----------------------------------------------------------------------------
(* resolveTarget *)

Quiet ==
    /\ search' = "idle" /\ found' = <<>> /\ next' = 1
    /\ left' = 0 /\ missed' = FALSE /\ hung' = 0

\* What is left after a wait that the context may cut short.
After(wait) == IF wait < left THEN left - wait ELSE 0

\* discover sends the M-SEARCH and listens; none of the probe's time is spent yet.
Search ==
    /\ target = NoTarget /\ search = "idle"
    /\ search' = "listen" /\ left' = Timeout
    /\ UNCHANGED <<target, found, next, missed, hung>>

\* A device answers, in its own time; a location that is known is not added.
Respond(location) ==
    /\ search = "listen" /\ location \notin Range(found)
    /\ found' = Append(found, location)
    /\ UNCHANGED <<target, search, next, left, missed, hung>>

\* The read deadline, or the context's, ends the window; what was found is returned
\* even if the context is done.
CloseWindow ==
    /\ search = "listen" /\ found # <<>>
    /\ search' = "fetch" /\ left' = After(Window)
    /\ UNCHANGED <<target, found, next, missed, hung>>

Fetching(location) == search = "fetch" /\ next <= Len(found) /\ found[next] = location
Served(location)   == Fetching(location) /\ left > 0 /\ ~lan[location].hangs

FetchUsable ==
    /\ \E location \in Locations :
          /\ Served(location) /\ Usable(lan[location])
          /\ target' = parseControlTarget(lan[location], location)
    /\ Quiet

\* The next location is tried after a descriptor that is of no use ...
FetchUseless(location) ==
    /\ Served(location) /\ ~Usable(lan[location])
    /\ next' = next + 1
    /\ UNCHANGED <<target, search, found, left, missed, hung>>

\* ... after one that could not be fetched, at no cost when the device refuses,
FetchFails(location) ==
    /\ Fetching(location) /\ left > 0
    /\ next' = next + 1
    /\ missed' = (missed \/ location = Router)
    /\ UNCHANGED <<target, search, found, left, hung>>

\* at the cost of the time it took when the device hangs,
FetchHangs(location) ==
    /\ Fetching(location) /\ left > 0
    /\ next' = next + 1
    /\ left' = After(HTTPTimeout) /\ hung' = hung + HTTPTimeout
    /\ missed' = (missed \/ location = Router)
    /\ UNCHANGED <<target, search, found>>

\* ... and after one that there was no time left for.
FetchTooLate(location) ==
    /\ Fetching(location) /\ left = 0
    /\ next' = next + 1
    /\ UNCHANGED <<target, search, found, left, missed, hung>>

\* (slip: an error ends the loop)
GiveUpAtOnce == search = "fetch" /\ next > 1

\* Every location has been tried in vain.
Exhausted == search = "fetch" /\ next > Len(found)

-----------------------------------------------------------------------------
(* Properties *)

Rank(type) == CHOOSE n \in DOMAIN wanServiceTypes : wanServiceTypes[n] = type

\* Whichever way the devices of a descriptor are nested, the control target is
\* of the most preferred service type anywhere in the tree: an IGDv2 service in
\* a deeper or later device goes before an IGDv1 service in an earlier one.
PrefersNewest ==
    [][target' # target /\ target' # NoTarget =>
          \A s \in Range(Walk(lan[found[next]])) :
              s.type \in Range(wanServiceTypes) => Rank(target'.type) <= Rank(s.type)
      ]_<<target, found, next, lan>>

\* Discovery gives up on a LAN whose router answered the search only when the
\* router's own descriptor could not be fetched, or the window and the devices that
\* hung took all of the probe's time: no other device keeps the router from being
\* found, however early it answers and whatever it publishes, but by hanging, and as
\* long as the timeout has room for that not even so.
OverlooksNobody ==
    [][search = "fetch" /\ search' = "idle" /\ target' = NoTarget =>
          Router \notin Range(found) \/ missed \/ Window + hung >= Timeout]_<<discovery, lan>>

\* The probe has time for the router after as many fetches as there are devices
\* that hang.
Room    == (Timeout - Window - 1) \div HTTPTimeout
Patient == Cardinality({l \in Locations : lan[l].hangs}) <= Room
=============================================================================
