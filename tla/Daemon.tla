------------------------------- MODULE Daemon -------------------------------
(***************************************************************************)
(* The life of the nat-pmp daemon (internal/daemon): Run discovers the     *)
(* gateway, reconciles every configured request once, then sleeps until    *)
(* the soonest scheduled request is due, reconciles the due ones, and on   *)
(* cancellation releases every lease it holds.                             *)
(*                                                                         *)
(* Everything outside the daemon is open here: a listener check may answer *)
(* anything, a Map call may fail or grant any port and lifetime, an Unmap  *)
(* may fail, the process may be cancelled or crash at any moment and be    *)
(* restarted.  NatPmpSystem puts a gateway behind the calls.               *)
(*                                                                         *)
(* Requests are named by their position in cfg.Requests(), the order both  *)
(* loops visit them in; config.Validate makes their keys distinct.  An     *)
(* instant kept in nextAt is modelled by the time left until it, counted   *)
(* down to 0: the code only ever compares it with now.                     *)
(***************************************************************************)
EXTENDS Naturals, FiniteSets

CONSTANTS
    NumRequests,   \* length of cfg.Requests()
    Port,          \* external ports (0 is "none" and not one of them)
    Requested,     \* [Req -> Port \cup {NoPort}]: external_port, 0 = gateway chooses
    Gated,         \* the requests with require_listener
    Lifetime,      \* lifetimes a gateway may grant, in ticks
    RetryBackoff,  \* retryBackoff, in ticks
    PollInterval   \* listenerPollInterval, in ticks

NoPort == 0
Req    == 1 .. NumRequests

ASSUME RequestsAssumption ==
    /\ NumRequests \in Nat \ {0}
    /\ Port \subseteq Nat \ {0}
    /\ Requested \in [Req -> Port \cup {NoPort}]
    /\ Gated \subseteq Req

ASSUME TimesAssumption ==
    /\ Lifetime \subseteq Nat \ {0}
    /\ RetryBackoff \in Nat \ {0}
    /\ PollInterval \in Nat \ {0}

VARIABLES
    pc,         \* where Run's goroutine is
    cur,        \* the request the current loop over d.requests() is at
    pass,       \* the requests the current pass reconciles
    leases,     \* d.leases: the recorded external port, NoPort when absent
    scheduled,  \* the keys present in d.nextAt
    nextAt,     \* time left until d.nextAt[k], 0 once it has come
    timer,      \* time left on renewLoop's timer
    cancelled,  \* ctx.Done() is closed (SIGINT or SIGTERM arrived)
    failed      \* the requests whose error releaseAll collected

vars == <<pc, cur, pass, leases, scheduled, nextAt, timer, cancelled, failed>>

-----------------------------------------------------------------------------
(* What the daemon computes *)

\* (slip: renewed only when it expires)
AtExpiry(life) == life

\* RenewBefore: a lease is renewed halfway through its granted lifetime.
RenewBefore(life) == life \div 2

\* (slip: the port of the answer goes unchecked)
LifetimeOnly(port, life) == life > 0

\* validateLease, on what a grant tells apart here.
validateLease(port, life) == port # NoPort /\ life > 0

\* (slip: the assigned port is not asked for again)
AsConfigured(i) == Requested[i]

\* mapRequest: a gateway-chosen port, once assigned, is asked for again.
mapRequest(i) == IF Requested[i] # NoPort THEN Requested[i] ELSE leases[i]

\* (slip: the answer of the check is not looked at)
Unchecked(seen) == seen \in {"present", "absent", "unknown"}

\* hasListener: only a check that succeeds and finds no socket says no.
Sighting == {"present", "absent", "unknown"}
hasListener(seen) == seen # "absent"

Held == {i \in Req : leases[i] # NoPort}
Due  == {i \in scheduled : nextAt[i] = 0}
Below(n) == n - 1   \* (slip: the wait is not clamped with max)
Less(n) == IF n = 0 THEN 0 ELSE n - 1

TypeOK ==
    /\ pc \in {"start", "pass", "map", "unmap", "select", "release", "done", "down"}
    /\ cur \in 1 .. NumRequests + 1
    /\ pass \subseteq Req
    /\ leases \in [Req -> Port \cup {NoPort}]
    /\ scheduled \subseteq Req
    /\ nextAt \in [Req -> Nat]
    /\ timer \in Nat
    /\ cancelled \in BOOLEAN
    /\ failed \subseteq Req

\* A freshly started process (New).
Memoryless ==
    /\ cur' = 1 /\ pass' = {} /\ scheduled' = {} /\ failed' = {}
    /\ leases' = [i \in Req |-> NoPort]
    /\ nextAt' = [i \in Req |-> 0]
    /\ timer' = 0

Init ==
    /\ pc = "start" /\ cancelled = FALSE
    /\ cur = 1 /\ pass = {} /\ scheduled = {} /\ failed = {}
    /\ leases = [i \in Req |-> NoPort]
    /\ nextAt = [i \in Req |-> 0]
    /\ timer = 0

-----------------------------------------------------------------------------
(* Run: gateway discovery and protocol detection *)

Start ==
    /\ pc = "start"
    /\ pc' = "pass" /\ cur' = 1 /\ pass' = Req
    /\ UNCHANGED <<leases, scheduled, nextAt, timer, cancelled, failed>>

\* Run returns an error; the service manager starts the program again unless
\* it is the one that stopped it.
StartFails ==
    /\ pc = "start"
    /\ pc' = IF cancelled THEN "done" ELSE "down"
    /\ UNCHANGED <<cur, pass, leases, scheduled, nextAt, timer, cancelled, failed>>

-----------------------------------------------------------------------------
(* reconcileAll and renewDue: one pass over the requests *)

Visiting(i) == pc = "pass" /\ cur = i /\ i \in pass

Skip(i) ==
    /\ pc = "pass" /\ cur = i /\ i \notin pass
    /\ cur' = i + 1
    /\ UNCHANGED <<pc, pass, leases, scheduled, nextAt, timer, cancelled, failed>>

Advance(i) == pc' = "pass" /\ cur' = i + 1

Schedule(i, wait) ==
    /\ scheduled' = scheduled \cup {i}
    /\ nextAt' = [nextAt EXCEPT ![i] = wait]

\* ensure is called: client.Map is under way.
CallMap(i, seen) ==
    /\ Visiting(i)
    /\ i \in Gated => hasListener(seen)
    /\ pc' = "map"
    /\ UNCHANGED <<cur, pass, leases, scheduled, nextAt, timer, cancelled, failed>>

Granted(i, port, life) ==
    /\ pc = "map" /\ cur = i
    /\ validateLease(port, life)
    /\ leases' = [leases EXCEPT ![i] = port]
    /\ Schedule(i, RenewBefore(life))
    /\ Advance(i)
    /\ UNCHANGED <<pass, timer, cancelled, failed>>

\* (slip: a refused request is dropped from the schedule)
GiveUp(i) ==
    /\ pc = "map" /\ cur = i
    /\ scheduled' = scheduled \ {i}
    /\ Advance(i)
    /\ UNCHANGED <<pass, leases, nextAt, timer, cancelled, failed>>

\* (slip: a failed renewal drops the lease)
RefusedForgets(i) ==
    /\ pc = "map" /\ cur = i
    /\ leases' = [leases EXCEPT ![i] = NoPort]
    /\ Schedule(i, RetryBackoff)
    /\ Advance(i)
    /\ UNCHANGED <<pass, timer, cancelled, failed>>

\* Map failed, or its lease did not validate.  An older lease stays recorded.
Refused(i) ==
    /\ pc = "map" /\ cur = i
    /\ Schedule(i, RetryBackoff)
    /\ Advance(i)
    /\ UNCHANGED <<pass, leases, timer, cancelled, failed>>

\* (slip: the lease is deleted but Unmap is not called)
ForgetLease(i, seen) ==
    /\ Visiting(i)
    /\ i \in Gated /\ ~hasListener(seen)
    /\ leases' = [leases EXCEPT ![i] = NoPort]
    /\ Schedule(i, PollInterval)
    /\ Advance(i)
    /\ UNCHANGED <<pass, timer, cancelled, failed>>

PollLater(i, seen) ==
    /\ Visiting(i)
    /\ i \in Gated /\ ~hasListener(seen)
    /\ leases[i] = NoPort
    /\ Schedule(i, PollInterval)
    /\ Advance(i)
    /\ UNCHANGED <<pass, leases, timer, cancelled, failed>>

\* The listener of a mapping that is up has gone: releaseOne calls Unmap ...
CallUnmap(i, seen) ==
    /\ Visiting(i)
    /\ i \in Gated /\ ~hasListener(seen)
    /\ leases[i] # NoPort
    /\ pc' = "unmap"
    /\ UNCHANGED <<cur, pass, leases, scheduled, nextAt, timer, cancelled, failed>>

\* ... and forgets the lease whatever Unmap answers.
Unmapped(i) ==
    /\ pc = "unmap" /\ cur = i
    /\ leases' = [leases EXCEPT ![i] = NoPort]
    /\ Schedule(i, PollInterval)
    /\ Advance(i)
    /\ UNCHANGED <<pass, timer, cancelled, failed>>

-----------------------------------------------------------------------------
(* renewLoop: the timer and the select *)

\* (slip: the comparison is the wrong way round)
Latest == {i \in scheduled : \A j \in scheduled : nextAt[j] <= nextAt[i]}

\* timeUntilNext: the soonest scheduled instant, or a backoff if there is none.
Soonest       == {i \in scheduled : \A j \in scheduled : nextAt[i] <= nextAt[j]}
timeUntilNext == IF scheduled = {} THEN {RetryBackoff} ELSE {nextAt[i] : i \in Soonest}

Arm ==
    /\ pc = "pass" /\ cur = NumRequests + 1
    /\ timer' \in timeUntilNext
    /\ pc' = "select" /\ cur' = 1 /\ pass' = {}
    /\ UNCHANGED <<leases, scheduled, nextAt, cancelled, failed>>

Fire ==
    /\ pc = "select" /\ timer = 0
    /\ pc' = "pass" /\ cur' = 1 /\ pass' = Due
    /\ UNCHANGED <<leases, scheduled, nextAt, timer, cancelled, failed>>

\* (slip: shutdown only when no renewal is due)
ShutdownWhenIdle ==
    /\ pc = "select" /\ cancelled /\ timer > 0
    /\ pc' = "release" /\ cur' = 1
    /\ UNCHANGED <<pass, leases, scheduled, nextAt, timer, cancelled, failed>>

Shutdown ==
    /\ pc = "select" /\ cancelled
    /\ pc' = "release" /\ cur' = 1
    /\ UNCHANGED <<pass, leases, scheduled, nextAt, timer, cancelled, failed>>

-----------------------------------------------------------------------------
(* releaseAll *)

NothingToRelease(i) ==
    /\ pc = "release" /\ cur = i /\ i \notin Held
    /\ cur' = i + 1
    /\ UNCHANGED <<pc, pass, leases, scheduled, nextAt, timer, cancelled, failed>>

Released(i) ==
    /\ pc = "release" /\ cur = i /\ i \in Held
    /\ leases' = [leases EXCEPT ![i] = NoPort]
    /\ cur' = i + 1
    /\ UNCHANGED <<pc, pass, scheduled, nextAt, timer, cancelled, failed>>

\* (slip: the error is logged but not collected)
ReleaseFailedQuietly(i) ==
    /\ pc = "release" /\ cur = i /\ i \in Held
    /\ cur' = i + 1
    /\ UNCHANGED <<pc, pass, leases, scheduled, nextAt, timer, cancelled, failed>>

ReleaseFailed(i) ==
    /\ pc = "release" /\ cur = i /\ i \in Held
    /\ failed' = failed \cup {i}
    /\ cur' = i + 1
    /\ UNCHANGED <<pc, pass, leases, scheduled, nextAt, timer, cancelled>>

Exit ==
    /\ pc = "release" /\ cur = NumRequests + 1
    /\ pc' = "done"
    /\ UNCHANGED <<cur, pass, leases, scheduled, nextAt, timer, cancelled, failed>>

-----------------------------------------------------------------------------
(* The world around the daemon *)

Running == pc \notin {"down", "done"}

\* signal.NotifyContext cancels the context.
Cancel ==
    /\ Running /\ ~cancelled
    /\ cancelled' = TRUE
    /\ UNCHANGED <<pc, cur, pass, leases, scheduled, nextAt, timer, failed>>

\* The process dies with everything it remembers; nothing is persisted.
Crash ==
    /\ Running
    /\ pc' = "down" /\ cancelled' = FALSE
    /\ Memoryless

\* Restart=on-failure in the service unit.
Restart ==
    /\ pc = "down"
    /\ pc' = "start"
    /\ UNCHANGED <<cur, pass, leases, scheduled, nextAt, timer, cancelled, failed>>

Tick ==
    /\ nextAt' = [i \in Req |-> Less(nextAt[i])]
    /\ timer' = Less(timer)
    /\ UNCHANGED <<pc, cur, pass, leases, scheduled, cancelled, failed>>

-----------------------------------------------------------------------------
Reconcile(i) ==
    \/ Skip(i)
    \/ \E seen \in Sighting : CallMap(i, seen) \/ PollLater(i, seen) \/ CallUnmap(i, seen)
    \/ \E port \in Port \cup {NoPort}, life \in Lifetime \cup {0} : Granted(i, port, life)
    \/ Refused(i)
    \/ Unmapped(i)

Release(i) == NothingToRelease(i) \/ Released(i) \/ ReleaseFailed(i)

Program ==
    \/ Start \/ StartFails \/ Restart
    \/ \E i \in Req : Reconcile(i) \/ Release(i)
    \/ Arm \/ Fire \/ Shutdown \/ Exit

Next == Program \/ Tick \/ Cancel \/ Crash

\* The goroutine runs, its calls return and time passes.  select chooses among
\* its ready cases at random, so a cancellation is not passed over for ever.
Fairness == WF_vars(Program) /\ WF_vars(Tick) /\ SF_vars(Shutdown)

Spec == Init /\ [][Next]_vars /\ Fairness

-----------------------------------------------------------------------------
(* Properties *)

\* While the daemon sleeps, every configured request has a scheduled instant
\* and the timer ends no later than any of them, whatever failed in the passes
\* before: reconcileOne schedules on every path and timeUntilNext finds the
\* soonest.
NothingForgotten ==
    pc = "select" => scheduled = Req /\ \A i \in Req : timer <= nextAt[i]

\* Run returns an error on shutdown (errors.Join) exactly when a lease it
\* recorded could not be released, and for exactly those leases.
ExitAccounts == pc = "done" => failed = Held

\* While the daemon sleeps, a request without a lease is never left to wait
\* longer than the longer of the two short intervals: a refusal, a missing
\* listener and an invalid lease all come back soon, and only a lease that is
\* recorded earns the long wait until its renewal.
LongestWait     == IF PollInterval < RetryBackoff THEN RetryBackoff ELSE PollInterval
IdleRetriedSoon == pc = "select" => \A i \in Req \ Held : nextAt[i] <= LongestWait

\* No request is starved: each is reconciled again and again for as long as
\* the process is up and not told to stop.
NoneStarved == \A i \in Req : []<>(Visiting(i) \/ cancelled \/ pc = "down")

\* A signal always ends the process, even if renewals come due all the time.
ShutdownCompletes == cancelled ~> pc \in {"done", "down"}
=============================================================================
