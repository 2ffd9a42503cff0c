# A TLA+ development of nat-pmp

`nat-pmp` keeps port forwardings open on a home router. A daemon reads a list of
mappings, finds the gateway, detects which of NAT-PMP, PCP and UPnP IGD it
speaks, creates the mappings, renews each at half its lifetime, and releases
them when it is told to stop. This directory models that program, checks the
models with TLC and proves with TLAPS every safety property that holds.

Paths below are relative to the repository; `daemon.go:198` is a line of the file
of that name under `internal/`.

## The system

| Part | Source | State it keeps | Operations |
| --- | --- | --- | --- |
| Daemon | `internal/daemon/daemon.go`, `reconcile.go` | `leases`, `nextAt`, the client, `localIP` | `Run`, `reconcileAll`, `renewLoop`, `renewDue`, `releaseAll` |
| Detection | `internal/daemon/detect.go`, `wiring.go` | none beyond the call | `orderCandidates`, `detect` |
| NAT-PMP client | `internal/portmapper/natpmp` | none between calls | `Map`, `Unmap`, `ExternalIP`, `exchange` |
| PCP client | `internal/portmapper/pcp` | `nonces` | the same, and `nonceFor`, `deleteNonce` |
| UPnP client | `internal/portmapper/upnp` | `target`, `internalClient` | the same, and `resolveTarget`, `SetInternalClient` |
| Configuration | `internal/config`, `internal/mapping` | the file's values | `Load`, `Validate`, `Requests` |
| Listener check | `internal/portcheck` | none | `HasListener` |
| Gateway discovery | `internal/netgw` | none | `Default` |
| Command line | `main.go`, `internal/cli` | none | `run` |

One goroutine does everything: it makes the passes over the requests, and it
blocks in the calls of the client. What runs beside it is the outside: the signal
that cancels its context, the gateway, the network, the clock, the applications
whose sockets gate a mapping, the host's interfaces, and the kill that takes the
process down. The configuration is validated once and asked again for its
requests on every pass (`daemon.go:176`, `config.go:138`); the daemon calls
`HasListener` for a gated request and then `Map` or `Unmap` of the one client that
detection chose.

What makes the program hard to get right:

* *A call is not atomic.* NAT-PMP's and UPnP's `Map` are two exchanges, and the
  mapping exists after the first.
* *Datagrams.* Requests and answers are lost, delayed and duplicated; a request may
  be served after the client gave up; anybody may send to the socket.
* *Time.* A renewal begins at half the lifetime and is retried after a backoff
  while the lease runs out; waits double; three deadlines (attempt, context, probe)
  interact.
* *Memory.* Leases, schedules and nonces are lost in a crash while the gateway keeps
  its table; the gateway loses its table in a reboot while the daemon keeps its
  leases. The UPnP control URL and the chosen protocol are cached for ever.
* *Signals.* A cancellation may come at any point, and `select` chooses between it
  and a due timer at random.

The hazards, each with its line and the properties aimed at it, are listed in
`PROJECT.json`.

## The modules

| Module | Models | Refines or extends |
| --- | --- | --- |
| `Daemon` | the daemon's loop, everything outside it open | |
| `Forwarding` | the abstract specification: what a forwarding service promises of each mapping | |
| `NatPmpSystem` | the daemon, the NAT-PMP client, a gateway, sockets | extends `Daemon` and implements it; implements `Forwarding` |
| `Exchange` | one `exchange` / `exchangeOn` against a network | |
| `Detect` | `orderCandidates`, `detect`, the timeout of a probe | |
| `Config` | `Validate`, and the requests while interfaces change | |
| `Pcp` | the nonces of the PCP client against a gateway | implements `Forwarding` |
| `Discovery` | how the UPnP client finds the router and its control URL | |
| `Upnp` | the UPnP client under the daemon's passes, from detection to crash | extends `Discovery` |
| `ProcNet` | `HasListener` and `Default`, reading `/proc/net` while it changes | |
| `Wire` | the NAT-PMP and PCP codecs and the checks of an answer | |
| `MC...` | values of the constants for TLC | |
| `NatPmpProofs`, `ExchangeProofs`, `DetectProofs`, `ConfigProofs`, `PcpProofs`, `UpnpProofs`, `ProcNetProofs`, `WireProofs` | theorems | each extends its module; `NatPmpProofs` is also about `Daemon`, which `NatPmpSystem` extends |

Definitions keep the names of the source where they can (`mapRequest`,
`validateLease`, `timeUntilNext`, `nonceFor`, `refreshLocalAddr`). A definition
whose comment begins with "(slip: ...)" is not part of any specification: it is
the form a definition would take with a plausible mistake in it, and `PROJECT.json`
says which property finds it out.

### Daemon

Requests are named 1 .. N in the order of `cfg.Requests()`, which both loops
follow. `pc` says where `Run` is: `start` (discovery and detection), `pass` (the
loop of `reconcileAll` or `renewDue`, at request `cur`, reconciling those in
`pass`), `map` and `unmap` (a call under way), `select`, `release` (`releaseAll`),
`done`, and `down` for a process that is not running. `leases` holds the external
port of each recorded lease and `scheduled`/`nextAt` the schedule. The code
compares the instants in `nextAt` only with now, so an instant is modelled by the
time left until it, counted down to 0. `renewDue` compares with the instant its pass began
(`daemon.go:327`), hence `pass` is fixed by `Fire`. `Crash` may come at any step
and forgets everything; `Restart` is the service unit's `Restart=on-failure`.
`HasListener`'s answer, the outcome of each call, and granted ports and lifetimes
are arbitrary, so what holds here holds with every client and gateway.

The branch of `renewLoop` for an empty schedule (`daemon.go:288`) is modelled; it is not reached once
there is a request, since every path of `reconcileOne` schedules one.

### NatPmpSystem

Adds the gateway's table (`gwPort`, `ttl`), the call (`call`, `answer`,
`elapsed`), the bound sockets, and a `stray` copy of a request that is still on its
way. Each daemon step of the code is conjoined with what the client and the
gateway do: `AskMap` sends the request, `ServeMap` lets the gateway grant it,
`AskExternalIP` is the second exchange, `MapReturns` the return. An exchange that
fails for any reason (loss, error answer, answer that does not decode) is one
fault; how an exchange fails in detail is `Exchange`. The gateway keeps the
port of a mapping it has, gives the port asked for when that is free and any free
one otherwise. `wiped` is a history variable: the mappings that a reboot or a
stray copy took away and no `Map` has put back.

### Forwarding

What a user may rely on who sees only the router's table (`open`) and what the daemon
has on record (`record`): no calls, no schedule, no clock. A port that opens is one that
no other mapping has; what goes on record is open; what is on record is closed
only when it is gated or the program has been told to stop, and does not run out. A
mishap (a lost exchange, a crash, a reboot of the router, a late copy of a Map or
an Unmap) may break that, each kind in its own way, once, and only for the mappings
that it puts `atRisk`, until they are renewed. `NatPmpSystem` implements this
under the mapping `Promise`, checked as the property `KeepsItsPromise`. So does `Pcp`,
where a mapping is known by its nonce instead of its port: what is on record is the nonce
the client keeps for a lease.

### Exchange

One step per statement that can block, fail or branch: the `ctx.Err()` checks,
the write, the read with its deadline, the timeout, the foreign datagram, the short
one, the answer. At the very instant of the context's deadline the check may go
either way. `Serve` also serves requests that arrive late. The two loops differ
only in where the socket is opened and how long a response must be.

### Detect, Config, Pcp, Upnp

`Detect` chooses any order that `validateDetect` accepts, one of several timeouts,
and any set of protocols the gateway speaks; `Needs` says how long a successful probe takes,
which for UPnP includes the whole SSDP window (`ssdp.go:65`). The start of a probe, its
end and the check of the context after a failure are steps of their own, and a
cancellation may come between any two. A probe that starts after it finds its context
done and sends nothing (`dead`); one that is under way may still end either way.

`Config` walks a configuration with the sets of seen ports, one action for the
settings, one per mapping, one per request of it. Addresses and interfaces are told
apart by what the code asks: set, parsed, unspecified, bound, up. After acceptance
interfaces come and go and the requests are resolved anew.

`Pcp` keeps the client's `nonces`, the daemon's leases (`held`), the call, the
gateway's table by nonce, and a late copy of a request. `orphaned` is a history
variable for mappings nobody can refresh: those of a process that died, and those a
late copy put back after an Unmap. That a mapping which is held is
renewed in time is the subject of `NatPmpSystem`; here a mapping that is held, or was granted
just now, and whose nonce is known expires only by a fault. `atRisk` is a history variable as `wiped` is:
what a reboot, a late copy or such an expiry changed, until a Map has renewed it.

`Discovery` has the two loops that find the router. The search collects locations,
each once, until its window closes; the descriptors are then fetched in that order,
and one that cannot be fetched, does not parse or has no usable service is passed
over. All of it runs in the one context that `detect` gave the probe (`detect.go:64`):
`left` is what remains of it, of which the window takes its whole length and a
device that hangs up to the HTTP client's timeout, so that those behind it may get no
time at all (`FetchTooLate`). Answers that do come take no time.

A descriptor is a tree of devices, and the service chosen is the first in depth-first order
of the most preferred type that occurs anywhere in the tree (`Has`, `Preferred`). Its URL is resolved against the descriptor's own base or else its location.

`Upnp` starts with `detect`'s probe (`ExternalIP` of a new client): a failed one
ends the process, a later `Crash` forgets leases, address and control URL, and in
both cases the next process probes again. It keeps the advertised address, the leases,
the call with its stages (target, action, address) and the router's table. Any
set of requests may be due in a pass. The router overwrites a mapping of the same
client and refuses a port that another client has (fault 718). It is reached only at a
control URL it serves now. It is the only gateway device on its LAN; the other
devices have descriptors of no use.

### ProcNet, Wire

`ProcNet` is one scan: the table of sockets of a protocol in its two files, or the
table of routes in one. A file may be there, empty, missing or unreadable, and each row is read in
a step of its own, between which rows change. A socket or route keeps its row while
it is there. Columns are told apart by what the code asks of them, `Garbled` when they do
not parse. History variables say which rows changed and which there have been.

`Wire` is one call: validation, the request as a sequence of bytes, the gateway's
reading of those bytes by the RFC, its answer laid out by the RFC, and the
client's decoding and checks; NAT-PMP's `Map` has its second exchange. The gateway's
side is external and reads at the offsets of the RFCs' figures, the client's
side is written from the codecs, so that a field at the wrong place or of the wrong width shows.
The gateway may alter one field of its answer. By RFC 6887 a request with no
lifetime and port 0, which PCP's `ExternalIP` sends, asks for the deletion of all
mappings of its nonce; the nonce is new, so there are none, and `UnderstoodAsMeant`
leaves probes out.

## The runs

All runs are exhaustive. TLC's bounds are constants of the modules. The type
invariants of `Exchange`, `Pcp`, `Upnp` and `NatPmpSystem` are theorems and have no run; the
small sequential modules have none of their own.

| Run | Checks | Shows |
| --- | --- | --- |
| `Daemon.cfg` | `TypeOK`, `NothingForgotten`, `ExitAccounts`, `IdleRetriedSoon`, `NoneStarved`, `ShutdownCompletes` | the loop alone |
| `NatPmp.cfg` | `RecordedIsInstalled`, `OpenIsRecorded`, `PortKept`, `KeepsItsPromise` | daemon and gateway agree, and implement `Forwarding` |
| `NatPmpLive.cfg` | `Converges`, `GatedFollows` | they come to agree again after faults |
| `NatPmpCleanExit.cfg` | `CleanExitReleasesAll` (violated) | finding 1 |
| `Exchange.cfg` | `Paced`, `WaitsItOut`, `GivesUpOnlyWhenSilent`, `AnswerMeansServed`, `CancelStopsSending`, `NeverPastDeadline`, `Terminates` | the retransmission loop |
| `Detect.cfg` | `EachProbedInOrder`, `PassedOverForAReason`, `CancelEndsDetection` | detection |
| `Config.cfg` | `AcceptedHasDistinctPorts`, `ForwardsAsConfigured`, `Decides` | validation is the README's, and mappings go where the file says while their interfaces are up |
| `Pcp.cfg` | `NonceKept`, `RefusedForAnOrphan`, `Regained`, `KeepsItsPromise` | nonces; client and gateway implement `Forwarding` |
| `Upnp.cfg` | `OpenIsRecorded`, `Recreated`, `PrefersNewest`, `OverlooksNobody` | UPnP from the search on, among devices that may hang, with a router that keeps its URL |
| `UpnpMoved.cfg` | `Recreated` (violated) | finding 2 |
| `ProcNet.cfg` | `ListenerAnswer`, `BestRoute`, `FailsForAReason` | the scans of `/proc/net` |
| `Wire.cfg` | `UnderstoodAsMeant`, `LeaseIsWhatWasGranted`, `GoodAnswerTaken` | the codecs and the checks of an answer |

The bounds, and why they are enough:

* *Two requests*, one gated with a port the gateway chooses and one that asks for a
  port. The daemon's interactions between requests are pairwise: one delays
  another, or has the port another wants. Two ports make the conflict happen.
* *Lifetimes.* `Daemon.cfg` has 1, due again at once, and 6, longer than both
  backoffs. In `NatPmp.cfg` they are 24 and 25, just above what
  `LeaseOutlastsRetries` needs with one fault: half of them outlasts the retries,
  and the odd one has an uneven half. The liveness run takes 12 to stay small; convergence
  does not need the assumption.
* *One fault and one reboot* of the gateway in `NatPmpSystem`, and a call of at most
  one tick: a fault may be a lost exchange, a failed check, a delayed copy, or a
  crash, and each meets a reboot, a cancellation and every socket change in every
  order. Two faults multiply the states beyond the time a run has.
* *Three attempts, two foreign datagrams* and a context with no time, with time
  into the second attempt, and with more than the backoff takes; four mishaps let
  every attempt be lost and one more request be delayed.
* *Configurations* of up to two mappings with every protocol, port and source, and of
  three that differ in protocol and ports, so that `both` meets its parts on
  either side.
* *Five nonces* in `Pcp`: two kept, two of the gateway's table and a late copy's, so
  that a fresh one exists whenever one is asked for.
* *Three devices* on the LAN of `Upnp`: the router, whose preferred service is in the
  deepest and last device of its tree and given by a relative URL, and two useless ones, in
  every order of answers. None, one or both of the two hang for good, and the probe's 8
  seconds outlast the window of 2 and one fetch of 5 but not two: both sides of `Room`
  occur. `Recreated` supposes `Patient`, that no more devices hang than there is room
  for, and is false without it.
* *Detection timeouts* of 0 to 3 ticks, with probes that need 0, 1 and 2: unset, and
  too short for one, for two and for none of the protocols.
* *Two rows a table* of sockets and three routes in `ProcNet`, with two places that
  change during a scan: a socket can close in one table and open in the other behind
  or ahead of the reader, and equal metrics and a lower one occur in every order.
* *Bytes of 64 values* in `Wire`, so that four of them fit TLC's integers; ports and
  lifetimes that fill one byte, two and all, with different digits at each
  place, and leases at the limit, one and two seconds beyond it, and of half a second.
* *Three faults* in `Pcp` and `Upnp`: enough for a lost call, a crash or a change of
  address and a late effect of the first to meet.

### Fairness

Weak fairness of the program: its goroutine runs, and calls return, since every
read has a deadline and every release a timeout. Weak fairness of time. Strong fairness of
`Shutdown`: `select` picks among ready cases uniformly at random, so it
does not ignore a cancellation for ever although the timer may be due every time.
In `Upnp`, weak fairness of the probe is systemd's restart. In `Pcp` and `Upnp`, strong fairness of coming back to a wanted mapping stands for
`NoneStarved` of `Daemon`, and weak fairness of expiry for the gateway's clock. No
fault, crash, cancellation, socket change or reboot is ever fair; faults are bounded, so
"once it stops going wrong" is part of every behaviour.

## Findings

1. **A clean exit may leave a mapping** (`natpmp.go:227`). When the signal arrives
   after the gateway served the mapping request and before the external address
   has been fetched, `Map` fails, no lease is recorded and `releaseAll` does not know
   of the mapping. README.md:18 promises that all mappings are released.
2. **UPnP does not survive a router that moves** (`upnp.go:114`). The control URL is
   cached and no failure clears it; README.md:19 promises re-creation after a reboot.
   Only a restart of the daemon helps.

Three more observations have no run of their own. A mapping whose interface has no usable
address during a pass is made for the address on the default route, since
`config.go:105` drops the error of the resolution; `ForwardsAsConfigured` says
that it goes back afterwards and that nothing else diverts it. And the UPnP client
turns an external port of 0 into the internal port (`upnp.go:202`), while README.md:112 says that
the router chooses. `config.go:308` leaves 0 out of the comparison of ports, so another mapping may
ask for that port: the router then forwards it to whichever was renewed last, and the daemon
has both on record. That a mapping keeps its port from the others is thus no property of
the code, and none is stated; the run's mappings have ports of their own, and
`OpenIsRecorded` counts a port as a mapping's only by the internal port it goes to.

The third is about slow devices. The UPnP probe searches for 2 s (`ssdp.go:22`) and then
fetches the descriptors one after the other, up to 5 s each (`upnp.go:24`), in one context
of 3 s by default (`detect.go:64`). So a single device that answers the search before the
router and hangs on its descriptor makes the probe fail, whenever it is the faster one.
`OverlooksNobody` and `Recreated` say how much time is enough: what the window takes, and
5 s for every device that hangs.

`OpenIsRecorded` of `NatPmpSystem` excludes faults and cancellations because of the
first finding, and `GatedFollows` says what is left of it: the gateway closes such
a mapping when it expires.

## Proofs

The theorems hold for every value of the constants that satisfies the modules'
`ASSUME`s. These say that sets have the right kind, that times are positive, that there
are at least as many ports as requests, and for UPnP that internal ports are distinct
(`config.go:303`) and that the router is the LAN's only gateway device. Two theorems
about NAT-PMP have a hypothesis, `LeaseOutlastsRetries`; see below. `Backoff`, a constant of
`Exchange`, is the table of the doubled waits, since a power is beyond the prover.

* `NatPmpProofs` proves of `Daemon` type correctness, `NothingForgotten`, `ExitAccounts` and
  `IdleRetriedSoon`. `NothingForgotten` is not inductive: the first pass leaves the
  requests behind `cur` unscheduled. The invariant adds that a request is scheduled
  once the pass has gone by it or does not include it (`Covered`),
  and that the timer was armed no later than the soonest instant (`TimerSoonest`); `Tick` counts both
  down together. `ExitAccounts` needs that during `release` the failed requests are
  the held ones before `cur`.
* `NatPmpProofs` goes on to prove every safety property of the composition.
  `ImplementsDaemon`: it starts as `Daemon` starts and each step is a step of `Daemon` or leaves
  its variables alone, so safety proved of `Daemon` holds of it. The
  one step that needs an argument is `MapReturns`: what the gateway answered is a
  valid lease. `OpenIsRecorded` holds of every moment once the answer under way is counted in
  (`Known`); `PortKept` is a fact of the step that serves the daemon's request.
  `RecordedIsInstalled` holds under `LeaseOutlastsRetries`: what is left of a lifetime when its
  renewal is due is longer than the passes, calls and backoffs that `MaxFaults` failures can put
  before the renewal. The code does not see to that; lifetimes of minutes do, with calls of
  seconds. The invariant (`SysInv`, by its part `Kept`) says that the gateway keeps
  each recorded mapping for longer than it can take until its next renewal is
  served, with a reserve for every failure still to come; `OnTime` tells apart whether the current pass
  has yet to come to the request, the request is not due, a pass has gone by it, or the daemon sleeps. From the
  same invariant follows `KeepsItsPromise`: each step of the composition is a step of
  `Forwarding` or a stutter.
* `ExchangeProofs` proves type correctness, `Paced`, `CancelStopsSending`, `AnswerMeansServed`,
  `NeverPastDeadline`, `GivesUpOnlyWhenSilent` and `WaitsItOut`. The invariant behind `Paced` (`OnSchedule`) is that the time spent and what
  is left of the current wait never exceed the waits begun so far, which doubling
  keeps ahead of; `AnswerMeansServed` needs that no reply or short answer is in the inbox before
  one was served; `GivesUpOnlyWhenSilent` that every attempt gone by has been paid for by a loss or a
  full measure of foreign datagrams. For `WaitsItOut` the bound of `OnSchedule` is an equation
  (`InFull`) as long as no flood and no deadline has cut a wait short.
* `DetectProofs` proves `PassedOverForAReason` (each candidate missed so far was lost or had
  no time), `CancelEndsDetection` (a probe that began too late can only fail, and the check
  after it finds the context done) and `EachProbedInOrder`. For the last, the two loops of
  `orderCandidates` are a recursive function of the number of names gone through, and no order has more than
  three: `Unrolled` finds the function's values, and `Arranges` says what comes of every order, a
  permutation of the protocols that begins with it and goes on in the default order.
* `ConfigProofs` proves `AcceptedHasDistinctPorts` for any number of mappings: the
  keys of the requests before the current one are in the two sets of seen ports, and no
  two of those requests have the same key. And `ForwardsAsConfigured`: once the settings are
  checked, every source's address is unset or has been parsed.
* `PcpProofs` proves type correctness, `NonceKept` and `RefusedForAnOrphan`. The
  invariant adds that a call carries the nonce kept for its mapping and that an answered Unmap has
  removed it, unless a late copy came in between. `KeepsItsPromise` needs more (`PInv`): wherever a nonce is in
  use, in the client, at the gateway or in a late copy, it is one mapping's (`OneOwner`); an orphan
  or a refusal is there only after a mishap has struck (`Explained`); and a lease, or a grant not yet
  recorded, has its nonce at the gateway or is at risk (`Leased`). Then each action is a
  step of `Forwarding` or a stutter.
* `UpnpProofs` proves type correctness, `OpenIsRecorded`, `OverlooksNobody` and `PrefersNewest`, for any
  number of devices, requests and faults. The invariant ties discovery to the phases of the
  process (the search runs only in a probe, a client is used only with a target) and
  says of the locations tried so far that the router is among them only if its descriptor could not be
  fetched or no time was left for it, and that the probe has at least the timeout less the window and the
  hung fetches left (`InTime`). `OpenIsRecorded` rests on the distinct internal ports: they tell whose mapping is in
  the table. `PrefersNewest` is about any list of services; that a tree of devices is walked to such a list
  is assumed in `Discovery` and evaluated by TLC for the trees of `MCUpnp`.
* `ProcNetProofs` proves `ListenerAnswer`, `BestRoute` and `FailsForAReason` for files of any
  length and any number of changes. The invariant is about what lies behind the reader:
  every place there that has not changed since the scan began was read as it is now and
  was no match, or is no better than the best route so far.
* `WireProofs` proves the three properties of `Wire` for every base above 17,
  and every port, lifetime, address and nonce. A datagram has its pieces at places (`At`): `Three` and `Five` give
  the places of the pieces of a concatenation, the `Read` lemmas say that what is read at the place of a
  piece is the number or address it was made from. So the gateway reads each field of a
  request (`NatPmpAsked`, `PcpAsked`), and the client each field of an answer (`AddressTaken`,
  `MappingTaken`, `PcpTaken`), which it takes if and only if no field of it is odd. The invariant
  (`WInv`) says that a datagram on its way is the client's request or such an answer, and that a
  `Map` goes on to the address only after a grant. `LifetimeFits` is where the bound of `Validate` is needed.

Only model-checked: every liveness property, since the prover handles neither liveness nor
`ENABLED` (`NoneStarved`, `ShutdownCompletes`, `Converges`, `GatedFollows`,
`Terminates`, `Decides`, `Regained`, `Recreated`).

## Not modelled

* The SOAP envelope, the header lines of an SSDP datagram, XML and the joining of URL
  paths: text that is abstracted to what the code takes from it. What an exchange
  fails of (the sentinel errors of result codes) is only logged.
* The discovery of the gateway again after the host moved: the code has none.
* A second gateway device on the LAN of the UPnP client, of which the code takes
  the first that answers.
* `Load`'s file, defaults and environment variables, which the xconfig library
  handles; log levels, flags and packaging.
* `localIP` in the daemon is used for logging except with UPnP, where `Upnp` has it.

## Plan

Done: all modules above, the two refinements of `Forwarding`, and the proofs of every safety
property that holds.
