---------------------------- MODULE NatPmpProofs ----------------------------
(***************************************************************************)
(* Proofs about the Daemon, for any number of requests, any ports,         *)
(* lifetimes and intervals, and about NatPmpSystem: its daemon is that     *)
(* Daemon, and what the daemon records is installed at the gateway.        *)
(*                                                                         *)
(* The inductive invariant of the daemon is                                *)
(*     TypeOK /\ Covered /\ TimerSoonest /\ Accounted /\ IdleSoon,          *)
(* and each part is shown to be kept from the parts it needs.              *)
(*                                                                         *)
(* That of the system is about time: at every moment the gateway keeps     *)
(* each recorded mapping for longer than it can take until the gateway     *)
(* serves its next renewal, with enough in reserve for every failure that  *)
(* may still happen.                                                       *)
(***************************************************************************)
EXTENDS NatPmpSystem, TLAPS

-----------------------------------------------------------------------------
(* The daemon's inductive invariant *)

InPass == pc \in {"pass", "map", "unmap"}

\* A pass leaves nothing behind it unscheduled.
Covered ==
    /\ InPass => \A i \in Req : (i \notin pass \/ i < cur) => i \in scheduled
    /\ pc = "select" => scheduled = Req

\* A process that has not started its first pass remembers nothing.
Fresh == pc \in {"start", "down"} => Held = {} /\ scheduled = {}

\* The errors collected are those of the leases already passed over.
Collected ==
    /\ pc \notin {"release", "done"} => failed = {}
    /\ pc = "release" => failed = {i \in Held : i < cur}

TimerSoonest == pc = "select" => \A i \in scheduled : timer <= nextAt[i]

IdleSoon ==
    InPass \/ pc = "select" => \A i \in scheduled \ Held : nextAt[i] <= LongestWait

-----------------------------------------------------------------------------
(* Type correctness *)

\* A duration counted down stays a duration.
LEMMA LessIsNat == ASSUME NEW n \in Nat PROVE Less(n) \in Nat /\ Less(n) <= n
BY DEF Less

\* Where a loop over the requests can be: at its start, or one past a request.
LEMMA LoopIndex ==
    /\ 1 \in 1 .. NumRequests + 1
    /\ \A i \in Req : i + 1 \in 1 .. NumRequests + 1
BY RequestsAssumption DEF Req

\* Every step keeps the types: what a grant records is a port, and the timer
\* and the schedule never become negative.
LEMMA TypeStep == TypeOK /\ [Next]_vars => TypeOK'
<1> SUFFICES ASSUME TypeOK, [Next]_vars PROVE TypeOK'
  OBVIOUS
<1> USE RequestsAssumption, TimesAssumption, LoopIndex DEF TypeOK
<1>1. CASE UNCHANGED vars
  BY <1>1 DEF vars
<1>2. CASE Start \/ StartFails \/ Restart
  BY <1>2 DEF Start, StartFails, Restart
<1>3. ASSUME NEW i \in Req, Reconcile(i) PROVE TypeOK'
  <2>1. CASE Skip(i)
    BY <2>1 DEF Skip
  <2>2. ASSUME NEW seen \in Sighting,
               CallMap(i, seen) \/ PollLater(i, seen) \/ CallUnmap(i, seen)
        PROVE  TypeOK'
    BY <2>2 DEF CallMap, PollLater, CallUnmap, Schedule, Advance
  <2>3. ASSUME NEW port \in Port \cup {NoPort}, NEW life \in Lifetime \cup {0},
               Granted(i, port, life)
        PROVE  TypeOK'
    <3>1. RenewBefore(life) \in Nat
      BY DEF RenewBefore
    <3>2. QED
      BY <2>3, <3>1 DEF Granted, Schedule, Advance
  <2>4. CASE Refused(i)
    BY <2>4 DEF Refused, Schedule, Advance
  <2>5. CASE Unmapped(i)
    BY <2>5 DEF Unmapped, Schedule, Advance
  <2>6. QED
    BY <1>3, <2>1, <2>2, <2>3, <2>4, <2>5 DEF Reconcile
<1>4. ASSUME NEW i \in Req, Release(i) PROVE TypeOK'
  BY <1>4 DEF Release, NothingToRelease, Released, ReleaseFailed
<1>5. CASE Arm
  <2>1. timer' \in Nat
    BY <1>5 DEF Arm, timeUntilNext, Soonest
  <2>2. QED
    BY <1>5, <2>1 DEF Arm
<1>6. CASE Fire \/ Shutdown \/ Exit
  BY <1>6 DEF Fire, Shutdown, Exit, Due
<1>7. CASE Tick
  BY <1>7, LessIsNat DEF Tick
<1>8. CASE Cancel
  BY <1>8 DEF Cancel
<1>9. CASE Crash
  BY <1>9 DEF Crash, Memoryless
<1>10. QED
  BY <1>1, <1>2, <1>3, <1>4, <1>5, <1>6, <1>7, <1>8, <1>9 DEF Next, Program

\* The daemon's state is well typed in every behaviour of the program.
THEOREM TypeCorrect == Spec => []TypeOK
<1>1. Init => TypeOK
  <2> SUFFICES ASSUME Init PROVE TypeOK
    OBVIOUS
  <2>1. leases \in [Req -> Port \cup {NoPort}] /\ nextAt \in [Req -> Nat]
    BY DEF Init
  <2>2. QED
    BY <2>1, LoopIndex DEF Init, TypeOK
<1>2. QED
  BY <1>1, TypeStep, PTL DEF Spec

-----------------------------------------------------------------------------
(* Nothing is forgotten *)

\* A pass schedules every request it visits, so the requests behind the loop
\* stay scheduled; when the pass ends, that is all of them.
LEMMA CoveredStep == TypeOK /\ Covered /\ [Next]_vars => Covered'
<1> SUFFICES ASSUME TypeOK, Covered, [Next]_vars PROVE Covered'
  OBVIOUS
<1> USE RequestsAssumption DEF TypeOK, Covered, InPass
<1>1. CASE UNCHANGED vars
  BY <1>1 DEF vars
<1>2. CASE Start
  BY <1>2 DEF Start, Req
<1>3. CASE StartFails \/ Restart \/ Shutdown \/ Exit
  BY <1>3 DEF StartFails, Restart, Shutdown, Exit
<1>4. ASSUME NEW i \in Req, Reconcile(i) PROVE Covered'
  <2>1. i \in Nat /\ \A j \in Req : j \in Nat /\ (j < i + 1 => j < i \/ j = i)
    BY DEF Req
  <2>2. CASE Skip(i)
    BY <2>1, <2>2 DEF Skip
  <2>3. ASSUME NEW seen \in Sighting, CallMap(i, seen) \/ CallUnmap(i, seen)
        PROVE  Covered'
    BY <2>3 DEF CallMap, CallUnmap, Visiting
  <2>4. ASSUME cur = i, InPass, cur' = i + 1, pc' = "pass", pass' = pass,
               scheduled' = scheduled \cup {i}
        PROVE  Covered'
    BY <2>1, <2>4
  <2>5. QED
    BY <1>4, <2>2, <2>3, <2>4
    DEF Reconcile, PollLater, Granted, Refused, Unmapped, Visiting, Schedule, Advance
<1>5. ASSUME NEW i \in Req, Release(i) PROVE Covered'
  BY <1>5 DEF Release, NothingToRelease, Released, ReleaseFailed
<1>6. CASE Arm
  <2>1. \A i \in Req : i < NumRequests + 1
    BY DEF Req
  <2>2. scheduled = Req
    BY <1>6, <2>1 DEF Arm
  <2>3. QED
    BY <1>6, <2>2 DEF Arm
<1>7. CASE Fire
  BY <1>7 DEF Fire
<1>8. CASE Tick \/ Cancel
  BY <1>8 DEF Tick, Cancel
<1>9. CASE Crash
  BY <1>9 DEF Crash
<1>10. QED
  BY <1>1, <1>2, <1>3, <1>4, <1>5, <1>6, <1>7, <1>8, <1>9 DEF Next, Program

\* The timer is armed with the soonest instant, and both run down together.
LEMMA TimerStep == TypeOK /\ TimerSoonest /\ [Next]_vars => TimerSoonest'
<1> SUFFICES ASSUME TypeOK, TimerSoonest, [Next]_vars PROVE TimerSoonest'
  OBVIOUS
<1> USE DEF TypeOK, TimerSoonest
<1>1. CASE UNCHANGED vars
  BY <1>1 DEF vars
<1>2. CASE pc' # "select"
  BY <1>2
<1>3. CASE Arm
  BY <1>3 DEF Arm, timeUntilNext, Soonest
<1>4. CASE Tick
  <2>1. \A m, n \in Nat : m <= n => Less(m) <= Less(n)
    BY DEF Less
  <2>2. QED
    BY <1>4, <2>1 DEF Tick
<1>5. CASE Cancel
  BY <1>5 DEF Cancel
<1>6. ASSUME Next, pc' = "select" PROVE Arm \/ Tick \/ Cancel
  <2>1. ASSUME NEW i \in Req, Reconcile(i) \/ Release(i) PROVE FALSE
    BY <1>6, <2>1
    DEF Reconcile, Release, Skip, CallMap, PollLater, CallUnmap, Granted, Refused,
        Unmapped, Advance, NothingToRelease, Released, ReleaseFailed
  <2>2. QED
    BY <1>6, <2>1 DEF Next, Program, Start, StartFails, Restart, Fire, Shutdown, Exit, Crash
<1>7. QED
  BY <1>1, <1>2, <1>3, <1>4, <1>5, <1>6

\* While the daemon sleeps every configured request is scheduled and the timer
\* ends no later than any of them, for every way calls and checks may fail.
THEOREM NothingForgottenHolds == Spec => []NothingForgotten
<1>1. Init => Covered /\ TimerSoonest
  BY DEF Init, Covered, InPass, TimerSoonest
<1>2. Covered /\ TimerSoonest => NothingForgotten
  BY DEF Covered, TimerSoonest, NothingForgotten
<1>3. QED
  BY <1>1, <1>2, TypeCorrect, CoveredStep, TimerStep, PTL DEF Spec

-----------------------------------------------------------------------------
(* The exit status accounts for every lease *)

Accounted == Fresh /\ Collected /\ ExitAccounts

\* Where no release runs, no error is collected.
LEMMA QuietStep ==
    ASSUME Accounted, pc \notin {"release", "done"}, failed' = failed,
           pc' \notin {"start", "release", "done", "down"}
    PROVE  Accounted'
BY DEF Accounted, Fresh, Collected, ExitAccounts

\* The releasing loop sorts the leases it passes into given back and failed.
LEMMA ReleaseStep ==
    ASSUME TypeOK, Accounted, NEW i \in Req, Release(i)
    PROVE  Accounted'
<1> USE DEF TypeOK, Accounted, Fresh, Collected, ExitAccounts, Held
<1>1. pc = "release" /\ cur = i /\ pc' = "release" /\ cur' = i + 1
  BY DEF Release, NothingToRelease, Released, ReleaseFailed
<1>2. i \in Nat /\ \A j \in Req : j \in Nat /\ (j < i + 1 <=> j < i \/ j = i)
  BY DEF Req
<1>3. failed' = {j \in Held' : j < i + 1}
  <2>1. CASE NothingToRelease(i)
    BY <1>1, <1>2, <2>1 DEF NothingToRelease
  <2>2. CASE Released(i)
    <3>1. Held' = Held \ {i}
      BY <2>2 DEF Released
    <3>2. {j \in Held' : j < i + 1} = {j \in Held : j < i}
      <4>1. Held \subseteq Req /\ ~(i < i)
        BY <1>2
      <4> HIDE DEF Held
      <4>2. QED
        BY <1>2, <3>1, <4>1
    <3>3. QED
      BY <1>1, <2>2, <3>2 DEF Released
  <2>3. CASE ReleaseFailed(i)
    BY <1>1, <1>2, <2>3 DEF ReleaseFailed
  <2>4. QED
    BY <2>1, <2>2, <2>3 DEF Release
<1>4. QED
  BY <1>1, <1>3

LEMMA AccountedStep == TypeOK /\ Accounted /\ [Next]_vars => Accounted'
<1> SUFFICES ASSUME TypeOK, Accounted, [Next]_vars PROVE Accounted'
  OBVIOUS
<1> USE DEF TypeOK
<1>1. CASE UNCHANGED vars
  BY <1>1 DEF vars, Accounted, Fresh, Collected, ExitAccounts, Held
<1>2. CASE Start \/ Fire \/ Arm
  BY <1>2, QuietStep DEF Start, Fire, Arm
<1>3. CASE StartFails \/ Restart \/ Cancel \/ Tick
  BY <1>3 DEF StartFails, Restart, Cancel, Tick, Accounted, Fresh, Collected, ExitAccounts, Held
<1>4. ASSUME NEW i \in Req, Reconcile(i) PROVE Accounted'
  BY <1>4, QuietStep
  DEF Reconcile, Skip, CallMap, PollLater, CallUnmap, Granted, Refused, Unmapped,
      Visiting, Advance
<1>5. ASSUME NEW i \in Req, Release(i) PROVE Accounted'
  BY <1>5, ReleaseStep
<1>6. CASE Shutdown
  <2>1. \A i \in Req : ~(i < 1)
    BY DEF Req
  <2>2. QED
    <3>1. {i \in Held' : i < 1} = {}
      BY <2>1 DEF Held
    <3>2. QED
      BY <1>6, <3>1 DEF Shutdown, Accounted, Fresh, Collected, ExitAccounts
<1>7. CASE Exit
  <2>1. \A i \in Req : i < NumRequests + 1
    BY RequestsAssumption DEF Req
  <2>2. QED
    BY <1>7, <2>1 DEF Exit, Accounted, Fresh, Collected, ExitAccounts, Held
<1>8. CASE Crash
  BY <1>8 DEF Crash, Memoryless, Accounted, Fresh, Collected, ExitAccounts, Held
<1>9. QED
  BY <1>1, <1>2, <1>3, <1>4, <1>5, <1>6, <1>7, <1>8 DEF Next, Program

\* Run's error on shutdown names exactly the leases that are still held.
THEOREM ExitAccountsHolds == Spec => []ExitAccounts
<1>1. Init => Accounted
  BY DEF Init, Accounted, Fresh, Collected, ExitAccounts, Held
<1>2. Accounted => ExitAccounts
  BY DEF Accounted
<1>3. QED
  BY <1>1, <1>2, TypeCorrect, AccountedStep, PTL DEF Spec

-----------------------------------------------------------------------------
(* A request without a lease comes back soon *)

\* The bound holds of whatever a pass schedules for a request without a lease.
LEMMA IdleScheduled ==
    ASSUME TypeOK, IdleSoon, NEW i \in Req, InPass, NEW wait \in Nat,
           Schedule(i, wait), leases' \in [Req -> Port \cup {NoPort}],
           \A j \in Req \ {i} : leases'[j] = leases[j],
           leases'[i] = NoPort => wait <= LongestWait
    PROVE  IdleSoon'
BY DEF TypeOK, IdleSoon, InPass, Schedule, Held

LEMMA IdleStep == TypeOK /\ IdleSoon /\ Covered /\ Fresh /\ [Next]_vars => IdleSoon'
<1> SUFFICES ASSUME TypeOK, IdleSoon, Covered, Fresh, [Next]_vars PROVE IdleSoon'
  OBVIOUS
<1>0. RetryBackoff \in Nat /\ RetryBackoff <= LongestWait
      /\ PollInterval \in Nat /\ PollInterval <= LongestWait
  BY TimesAssumption DEF LongestWait
<1>1. CASE UNCHANGED vars
  BY <1>1 DEF vars, IdleSoon, InPass, Held
<1>2. CASE Start \/ Fire \/ Arm
  <2>1. CASE Start
    BY <2>1 DEF Start, Fresh, IdleSoon, Held
  <2>2. CASE Fire \/ Arm
    BY <2>2 DEF Fire, Arm, IdleSoon, InPass, Held
  <2>3. QED
    BY <1>2, <2>1, <2>2
<1>3. CASE StartFails \/ Restart \/ Shutdown \/ Exit \/ Crash
  BY <1>3 DEF StartFails, Restart, Shutdown, Exit, Crash, IdleSoon, InPass
<1>4. ASSUME NEW i \in Req, Reconcile(i) PROVE IdleSoon'
  <2>1. CASE Skip(i)
    BY <2>1 DEF Skip, IdleSoon, InPass, Held
  <2>2. ASSUME NEW seen \in Sighting, CallMap(i, seen) \/ CallUnmap(i, seen)
        PROVE  IdleSoon'
    BY <2>2 DEF CallMap, CallUnmap, Visiting, IdleSoon, InPass, Held
  <2>3. ASSUME NEW seen \in Sighting, PollLater(i, seen) PROVE IdleSoon'
    BY <1>0, <2>3, IdleScheduled DEF PollLater, Visiting, InPass, TypeOK
  <2>4. ASSUME NEW port \in Port \cup {NoPort}, NEW life \in Lifetime \cup {0},
               Granted(i, port, life)
        PROVE  IdleSoon'
    <3>1. RenewBefore(life) \in Nat
      BY TimesAssumption DEF RenewBefore
    <3>2. leases'[i] # NoPort
      BY <2>4 DEF Granted, validateLease, TypeOK
    <3>3. QED
      BY <2>4, <3>1, <3>2, IdleScheduled DEF Granted, InPass, TypeOK
  <2>5. CASE Refused(i)
    BY <1>0, <2>5, IdleScheduled DEF Refused, InPass, TypeOK
  <2>6. CASE Unmapped(i)
    BY <1>0, <2>6, IdleScheduled DEF Unmapped, InPass, TypeOK
  <2>7. QED
    BY <1>4, <2>1, <2>2, <2>3, <2>4, <2>5, <2>6 DEF Reconcile
<1>5. ASSUME NEW i \in Req, Release(i) PROVE IdleSoon'
  BY <1>5 DEF Release, NothingToRelease, Released, ReleaseFailed, IdleSoon, InPass
<1>6. CASE Tick
  <2>1. LongestWait \in Nat
    BY TimesAssumption DEF LongestWait
  <2>2. \A n \in Nat : n <= LongestWait => Less(n) <= LongestWait
    BY <2>1 DEF Less
  <2>3. QED
    BY <1>6, <2>2 DEF Tick, IdleSoon, InPass, Held, TypeOK
<1>7. CASE Cancel
  BY <1>7 DEF Cancel, IdleSoon, InPass, Held
<1>8. QED
  BY <1>1, <1>2, <1>3, <1>4, <1>5, <1>6, <1>7 DEF Next, Program

\* While the daemon sleeps, only a recorded lease makes a request wait longer
\* than the retry backoff and the poll interval.
THEOREM IdleRetriedSoonHolds == Spec => []IdleRetriedSoon
<1>1. Init => IdleSoon /\ Covered /\ Fresh /\ Accounted
  BY DEF Init, IdleSoon, Covered, Fresh, Accounted, Collected, ExitAccounts, InPass, Held
<1>2. IdleSoon /\ Covered => IdleRetriedSoon
  BY DEF IdleSoon, Covered, IdleRetriedSoon
<1>3. Accounted => Fresh
  BY DEF Accounted
<1>4. QED
  BY <1>1, <1>2, <1>3, TypeCorrect, CoveredStep, AccountedStep, IdleStep, PTL DEF Spec

-----------------------------------------------------------------------------
(* The system's inductive invariant *)

\* What n calls take at most.
Slot(n) == n * MaxCall

\* What one failed attempt costs: its backoff, and the rest of the pass it was
\* in and a whole pass before the next attempt.
Setback == RetryBackoff + Slot(2 * NumRequests)

Reserve == (MaxFaults - faults) * Setback

\* The current pass has yet to come to request i.
Ahead(i) == InPass /\ i \in pass /\ cur <= i

\* The time left at the gateway outlasts: the calls of this pass up to and
\* including i's; or the wait until i is due, a pass that is under way then, and
\* the pass that serves i; or what is left of that pass, and the next one.
OnTime(i) ==
    IF Ahead(i) THEN ttl[i] + elapsed > Slot(i - cur + 1) + Reserve
    ELSE IF nextAt[i] > 0 THEN ttl[i] > nextAt[i] + Slot(NumRequests + i) + Reserve
    ELSE IF InPass THEN ttl[i] + elapsed > Slot(NumRequests + 1 - cur + i) + Reserve
    ELSE ttl[i] > Slot(i) + Reserve

\* Outside a call no call's time runs, and a call belongs to a request.
CallOK ==
    /\ call # "idle" => pc \in {"map", "unmap", "release"}
    /\ call = "idle" => elapsed = 0
    /\ pc \in {"map", "unmap"} => cur \in pass
    /\ pc = "unmap" => cur \in Gated
    /\ pc = "unmap" \/ (pc = "release" /\ call # "idle") => cur \in Held
    /\ pc \in {"release", "done"} => cancelled

\* A copy on its way has cost a fault, and one that has arrived too.
StrayOK == stray # NoStray => faults > 0

\* The gateway gives a port to one mapping.
OnePort == \A i, j \in Req : gwPort[i] = gwPort[j] /\ gwPort[i] # NoPort => i = j

\* An Unmap that was served has closed the port, unless a copy of an earlier Map
\* opened it again.
Closing ==
    pc \in {"unmap", "release"} /\ call = "served" =>
        gwPort[cur] = NoPort \/ (faults > 0 /\ Struck > 0)

\* The answer under way is in the gateway's table, unless that was disturbed.
AnswerOK ==
    pc = "map" /\ call \in {"served", "confirm"} =>
        answer \in Answers /\ (cur \notin wiped => AsAnswered(cur))

Answering(i) == pc = "map" /\ cur = i /\ call \in {"served", "confirm"}

\* Until something goes wrong, every mapping the gateway has is on record or the
\* answer under way.
Known ==
    faults = 0 /\ ~cancelled =>
        \A i \in Req : gwPort[i] # NoPort =>
            gwPort[i] = IF Answering(i) THEN answer.port ELSE leases[i]

\* A mapping on record is there in time for its renewal; while it is being
\* unmapped, it is either gone already or cannot run out.
Secure(i) ==
    /\ ~Unmapping(i) => gwPort[i] = leases[i]
    /\ gwPort[i] # NoPort => OnTime(i)

Kept == ~cancelled => \A i \in Held \ wiped : Secure(i)

-----------------------------------------------------------------------------
(* The daemon inside the system is Daemon *)

\* Every step of the system is a step of the daemon, or none.
LEMMA DaemonStep == SysTypeOK /\ [SysNext]_sysVars => [Next]_vars
<1> SUFFICES ASSUME SysTypeOK, [SysNext]_sysVars PROVE Next \/ UNCHANGED vars
  OBVIOUS
<1>1. CASE UNCHANGED sysVars
  BY <1>1 DEF sysVars
<1>2. CASE Alone
  BY <1>2 DEF Alone, Next, Program, Reconcile, Release
<1>3. ASSUME NEW i \in Req, Client(i) PROVE Next \/ UNCHANGED vars
  <2>1. CASE AskMap(i)
    BY <2>1 DEF AskMap, Next, Program, Reconcile
  <2>2. CASE NoListener(i)
    BY <2>2 DEF NoListener, Next, Program, Reconcile, Sighting
  <2>3. CASE AskUnmap(i)
    BY <2>3 DEF AskUnmap, Next, Program, Reconcile, Sighting
  <2>4. CASE AskExternalIP(i) \/ AskRelease(i)
    BY <2>4 DEF AskExternalIP, AskRelease
  <2>5. CASE MapReturns(i)
    <3>1. answer.port \in Port \cup {NoPort} /\ answer.life \in Lifetime \cup {0}
      BY DEF SysTypeOK, Answers, NoAnswer
    <3>2. QED
      BY <2>5, <3>1 DEF MapReturns, Next, Program, Reconcile
  <2>6. CASE MapFails(i)
    BY <2>6 DEF MapFails, Next, Program, Reconcile
  <2>7. CASE UnmapReturns(i)
    BY <2>7 DEF UnmapReturns, Next, Program, Reconcile
  <2>8. CASE ReleaseReturns(i)
    BY <2>8 DEF ReleaseReturns, Next, Program, Release
  <2>9. QED
    BY <1>3, <2>1, <2>2, <2>3, <2>4, <2>5, <2>6, <2>7, <2>8 DEF Client
<1>4. ASSUME NEW i \in Req, Served(i) \/ Bind(i) \/ Stray(i) PROVE UNCHANGED vars
  BY <1>4
  DEF Served, ServeMap, ServeUnmap, Bind, Stray, Straggle, StrayMapArrives, StrayUnmapArrives
<1>5. CASE SysStartFails \/ SysTick \/ SysCancel \/ SysCrash \/ Reboot
  BY <1>5 DEF SysStartFails, SysTick, SysCancel, SysCrash, Reboot, Next, Program
<1>6. QED
  BY <1>1, <1>2, <1>3, <1>4, <1>5 DEF SysNext, SysProgram

-----------------------------------------------------------------------------
(* Type correctness *)

\* Faults are counted up to their bound.
LEMMA FaultType ==
    ASSUME SysTypeOK, Fault \/ Healthy
    PROVE  faults' \in 0 .. MaxFaults /\ reboots' \in 0 .. MaxReboots
BY SystemAssumption DEF SysTypeOK, Fault, Healthy

\* What a client's step does to the call and to the world around it.
LEMMA ClientType ==
    ASSUME SysTypeOK, NEW i \in Req, Client(i)
    PROVE  /\ UNCHANGED <<gateway, bound, stray>>
           /\ faults' \in 0 .. MaxFaults /\ reboots' \in 0 .. MaxReboots
           /\ call' \in {call, "idle", "sent", "confirm"}
           /\ answer' \in {answer, NoAnswer} /\ elapsed' \in {elapsed, 0}
           /\ wiped' \in {wiped, wiped \ {i}}
<1>1. UNCHANGED <<faults, reboots>> => faults' \in 0 .. MaxFaults /\ reboots' \in 0 .. MaxReboots
  BY DEF SysTypeOK
<1>2. CASE AskMap(i)
  BY <1>2, FaultType DEF AskMap, Sees, Begin
<1>3. CASE NoListener(i) \/ AskUnmap(i) \/ AskExternalIP(i) \/ AskRelease(i)
  BY <1>1, <1>3
  DEF NoListener, AskUnmap, AskExternalIP, AskRelease, Begin, env, link, SysTypeOK
<1>4. CASE MapReturns(i)
  BY <1>1, <1>4 DEF MapReturns, HangUp
<1>5. CASE MapFails(i) \/ UnmapReturns(i) \/ ReleaseReturns(i)
  BY <1>5, FaultType DEF MapFails, UnmapReturns, ReleaseReturns, HangUp
<1>6. QED
  BY <1>2, <1>3, <1>4, <1>5 DEF Client

\* A port the gateway grants is a port, and it finds one for every request.
LEMMA GrantType ==
    ASSUME SysTypeOK, NEW i \in Req, NEW asked, NEW port \in Grants(i, asked)
    PROVE  port \in Port
BY DEF Grants, SysTypeOK

LEMMA SysTypeStep == SysTypeOK /\ CallOK /\ [SysNext]_sysVars => SysTypeOK'
<1> SUFFICES ASSUME SysTypeOK, CallOK, [SysNext]_sysVars PROVE SysTypeOK'
  OBVIOUS
<1>0. TypeOK'
  BY DaemonStep, TypeStep DEF SysTypeOK
<1>a. 0 \in 0 .. MaxCall /\ \A n \in 0 .. MaxCall : n < MaxCall => n + 1 \in 0 .. MaxCall
  BY SystemAssumption
<1>b. \A i \in Req : \A asked, port : port \in Grants(i, asked) => port \in Port
  BY GrantType
<1>1. CASE UNCHANGED sysVars
  BY <1>0, <1>1 DEF sysVars, gateway, link, env, SysTypeOK
<1>2. CASE Alone \/ SysCancel
  BY <1>0, <1>2 DEF Alone, SysCancel, gateway, link, env, SysTypeOK
<1>3. ASSUME NEW i \in Req, Client(i) PROVE SysTypeOK'
  BY <1>0, <1>a, <1>3, ClientType DEF gateway, SysTypeOK
<1>4. ASSUME NEW i \in Req, ServeMap(i) PROVE SysTypeOK'
  BY <1>0, <1>b, <1>4, TimesAssumption DEF ServeMap, env, SysTypeOK, Answers
<1>5. ASSUME NEW i \in Req, ServeUnmap(i) PROVE SysTypeOK'
  BY <1>0, <1>5 DEF ServeUnmap, env, SysTypeOK
<1>6. ASSUME NEW i \in Req, Straggle(i) PROVE SysTypeOK'
  <2>1. mapRequest(i) \in Port \cup {NoPort}
    BY RequestsAssumption DEF mapRequest, SysTypeOK, TypeOK
  <2>2. stray' \in Strays
    BY <1>6, <2>1 DEF Straggle, Strays
  <2>3. QED
    BY <1>0, <1>6, <2>2, FaultType DEF Straggle, gateway, link, SysTypeOK
<1>7. ASSUME NEW i \in Req, StrayMapArrives(i) PROVE SysTypeOK'
  BY <1>0, <1>b, <1>7, TimesAssumption DEF StrayMapArrives, link, SysTypeOK
<1>8. ASSUME NEW i \in Req, StrayUnmapArrives(i) PROVE SysTypeOK'
  BY <1>0, <1>8 DEF StrayUnmapArrives, link, SysTypeOK
<1>9. ASSUME NEW i \in Req, Bind(i) PROVE SysTypeOK'
  BY <1>0, <1>9 DEF Bind, gateway, link, SysTypeOK
<1>10. CASE SysStartFails
  BY <1>0, <1>10, FaultType DEF SysStartFails, gateway, link, SysTypeOK
<1>11. CASE SysCrash
  BY <1>0, <1>a, <1>11, FaultType DEF SysCrash, HangUp, gateway, SysTypeOK
<1>12. CASE Reboot
  BY <1>0, <1>12, SystemAssumption DEF Reboot, link, SysTypeOK
<1>13. CASE SysTick
  <2>1. \A n \in Nat : Less(n) \in Nat
    BY LessIsNat
  <2>2. elapsed' \in 0 .. MaxCall
    BY <1>a, <1>13 DEF SysTick, Sleeping, Waiting, Absent, SysTypeOK, CallOK
  <2>3. QED
    BY <1>0, <1>13, <2>1, <2>2 DEF SysTick, env, SysTypeOK
<1>14. QED
  BY <1>1, <1>2, <1>3, <1>4, <1>5, <1>6, <1>7, <1>8, <1>9, <1>10, <1>11, <1>12, <1>13
  DEF SysNext, SysProgram, Served, Stray

\* A call runs only while the daemon waits for it, and its time with it.
LEMMA CallStep == SysTypeOK /\ CallOK /\ [SysNext]_sysVars => CallOK'
<1> SUFFICES ASSUME SysTypeOK, CallOK, [SysNext]_sysVars PROVE CallOK'
  OBVIOUS
<1> USE DEF CallOK, Held
<1>1. CASE UNCHANGED sysVars
  BY <1>1 DEF sysVars, vars, link
<1>2. CASE Alone
  <2>1. UNCHANGED <<call, elapsed>>
    BY <1>2 DEF Alone, link
  <2>2. CASE Start \/ Restart \/ Arm \/ Fire \/ Exit
    <3>1. NumRequests + 1 \notin Held
      BY RequestsAssumption DEF Held, Req
    <3>2. QED
      BY <2>1, <2>2, <3>1 DEF Start, Restart, Arm, Fire, Exit
  <2>3. CASE Shutdown
    BY <2>1, <2>3 DEF Shutdown
  <2>4. ASSUME NEW i \in Req, Skip(i) \/ NothingToRelease(i) PROVE CallOK'
    BY <2>1, <2>4 DEF Skip, NothingToRelease
  <2>5. QED
    BY <1>2, <2>2, <2>3, <2>4 DEF Alone
<1>3. ASSUME NEW i \in Req, Client(i) PROVE CallOK'
  <2>1. CASE AskMap(i)
    BY <2>1 DEF AskMap, Begin, CallMap, Visiting
  <2>2. CASE NoListener(i)
    BY <2>2 DEF NoListener, PollLater, Visiting, Advance, link
  <2>3. CASE AskUnmap(i)
    BY <2>3 DEF AskUnmap, CallUnmap, Begin, Visiting
  <2>4. CASE AskExternalIP(i)
    BY <2>4 DEF AskExternalIP, vars
  <2>5. CASE AskRelease(i)
    BY <2>5 DEF AskRelease, Begin, vars
  <2>6. CASE MapReturns(i) \/ MapFails(i) \/ UnmapReturns(i)
    BY <2>6
    DEF MapReturns, MapFails, UnmapReturns, HangUp, Granted, Refused, Unmapped, Advance
  <2>7. CASE ReleaseReturns(i)
    BY <2>7 DEF ReleaseReturns, HangUp, Released, ReleaseFailed
  <2>8. QED
    BY <1>3, <2>1, <2>2, <2>3, <2>4, <2>5, <2>6, <2>7 DEF Client
<1>4. ASSUME NEW i \in Req, Served(i) \/ Bind(i) \/ Stray(i) PROVE CallOK'
  BY <1>4
  DEF Served, ServeMap, ServeUnmap, Bind, Stray, Straggle, StrayMapArrives,
      StrayUnmapArrives, vars, link
<1>5. CASE SysStartFails
  BY <1>5 DEF SysStartFails, StartFails, link
<1>6. CASE SysTick
  BY <1>6 DEF SysTick, Tick
<1>7. CASE SysCancel
  BY <1>7 DEF SysCancel, Cancel, link
<1>8. CASE SysCrash
  BY <1>8 DEF SysCrash, Crash, HangUp
<1>9. CASE Reboot
  BY <1>9 DEF Reboot, vars, link
<1>10. QED
  BY <1>1, <1>2, <1>3, <1>4, <1>5, <1>6, <1>7, <1>8, <1>9 DEF SysNext, SysProgram

LEMMA SysInitOK == SysInit => SysTypeOK /\ CallOK
<1> SUFFICES ASSUME SysInit PROVE SysTypeOK /\ CallOK
  OBVIOUS
<1>1. TypeOK
  <2>1. leases \in [Req -> Port \cup {NoPort}] /\ nextAt \in [Req -> Nat]
    BY DEF SysInit, Init
  <2>2. QED
    BY <2>1, LoopIndex DEF SysInit, Init, TypeOK
<1>2. gwPort \in [Req -> Port \cup {NoPort}] /\ ttl \in [Req -> Nat]
  BY DEF SysInit
<1>3. QED
  BY <1>1, <1>2, SystemAssumption DEF SysInit, Init, SysTypeOK, CallOK

\* The system is well typed: no call outlasts MaxCall, and every answer the
\* daemon records is a port and a lifetime the gateway granted.
THEOREM SysTypeCorrect == SysSpec => []SysTypeOK
BY SysInitOK, SysTypeStep, CallStep, PTL DEF SysSpec

\* The system implements the daemon's specification, step by step: what is
\* proved of every Daemon holds of this one.
THEOREM ImplementsDaemon == SysSpec => Init /\ [][Next]_vars
<1>1. SysInit => Init
  BY DEF SysInit
<1>2. QED
  BY <1>1, SysTypeCorrect, DaemonStep, PTL DEF SysSpec

-----------------------------------------------------------------------------
(* The gateway's table and the mishaps *)

\* A mishap is counted when it strikes, a late copy when it arrives.
LEMMA MishapFacts ==
    ASSUME SysTypeOK, StrayOK
    PROVE  /\ Struck \in Nat /\ faults \in Nat
           /\ faults > 0 /\ stray = NoStray => Struck > 0
           /\ Fault /\ stray' = stray => Struck' = Struck + 1
           /\ Fault => faults' > 0
           /\ UNCHANGED <<faults, reboots, stray>> => Struck' = Struck
<1>1. faults \in Nat /\ reboots \in Nat
  BY SystemAssumption DEF SysTypeOK
<1>2. QED
  BY <1>1 DEF Struck, StrayOK, Fault

\* A copy is sent in the place of no other, and costs a fault.
LEMMA StrayStep == SysTypeOK /\ StrayOK /\ [SysNext]_sysVars => StrayOK'
<1> SUFFICES ASSUME SysTypeOK, StrayOK, [SysNext]_sysVars PROVE StrayOK'
  OBVIOUS
<1>0. faults \in Nat /\ (Fault => faults' > 0)
  BY MishapFacts
<1>1. CASE stray' = NoStray
  BY <1>1 DEF StrayOK
<1>2. CASE stray' = stray /\ (faults' = faults \/ Fault)
  BY <1>0, <1>2 DEF StrayOK
<1>3. CASE Fault
  BY <1>0, <1>3 DEF StrayOK
<1>4. ASSUME NEW i \in Req, Client(i) PROVE stray' = stray /\ (faults' = faults \/ Fault)
  BY <1>4
  DEF Client, AskMap, NoListener, AskUnmap, AskExternalIP, MapReturns, MapFails, UnmapReturns,
      AskRelease, ReleaseReturns, Sees, Healthy, env
<1>5. ASSUME NEW i \in Req, Stray(i) PROVE stray' = NoStray \/ Fault
  BY <1>5 DEF Stray, Straggle, StrayMapArrives, StrayUnmapArrives
<1>6. ASSUME NEW i \in Req, Served(i) \/ Bind(i) PROVE stray' = stray /\ faults' = faults
  BY <1>6 DEF Served, ServeMap, ServeUnmap, Bind, env
<1>7. CASE SysStartFails \/ Alone \/ SysTick \/ SysCancel \/ SysCrash \/ Reboot
  BY <1>2, <1>7 DEF SysStartFails, Alone, SysTick, SysCancel, SysCrash, Reboot, Healthy, env
<1>8. CASE UNCHANGED sysVars
  BY <1>2, <1>8 DEF sysVars, env
<1>9. QED
  BY <1>1, <1>2, <1>3, <1>4, <1>5, <1>6, <1>7, <1>8 DEF SysNext, SysProgram

\* Only serving a request, a reboot and time change the gateway's table.
LEMMA TableFrame ==
    ASSUME [SysNext]_sysVars
    PROVE  \/ UNCHANGED gateway
           \/ \E i \in Req : ServeMap(i) \/ ServeUnmap(i) \/ StrayMapArrives(i) \/ StrayUnmapArrives(i)
           \/ Reboot \/ SysTick
<1>1. ASSUME NEW i \in Req, Client(i) PROVE UNCHANGED gateway
  BY <1>1
  DEF Client, AskMap, NoListener, AskUnmap, AskExternalIP, MapReturns, MapFails, UnmapReturns,
      AskRelease, ReleaseReturns
<1>2. ASSUME NEW i \in Req, Bind(i) \/ Straggle(i) PROVE UNCHANGED gateway
  BY <1>2 DEF Bind, Straggle
<1>3. CASE SysStartFails \/ Alone \/ SysCancel \/ SysCrash \/ UNCHANGED sysVars
  BY <1>3 DEF SysStartFails, Alone, SysCancel, SysCrash, sysVars
<1>4. QED
  BY <1>1, <1>2, <1>3 DEF SysNext, SysProgram, Served, Stray

\* A port is granted to the mapping that has it or, if it has none, to one only.
LEMMA GrantFacts ==
    ASSUME SysTypeOK, OnePort, NEW i \in Req, NEW asked, NEW port \in Grants(i, asked)
    PROVE  /\ port \in Port \ Taken(i)
           /\ gwPort[i] # NoPort => port = gwPort[i]
<1>1. port \in Port /\ port # NoPort
  BY GrantType, RequestsAssumption DEF NoPort
<1>2. CASE gwPort[i] # NoPort
  BY <1>1, <1>2 DEF Grants, Taken, OnePort
<1>3. CASE gwPort[i] = NoPort
  BY <1>1, <1>3 DEF Grants
<1>4. QED
  BY <1>2, <1>3

LEMMA OnePortStep == SysTypeOK /\ OnePort /\ [SysNext]_sysVars => OnePort'
<1> SUFFICES ASSUME SysTypeOK, OnePort, [SysNext]_sysVars PROVE OnePort'
  OBVIOUS
<1>1. CASE UNCHANGED gateway
  BY <1>1 DEF gateway, OnePort
<1>2. ASSUME NEW i \in Req, NEW asked, NEW port \in Grants(i, asked),
             gwPort' = [gwPort EXCEPT ![i] = port]
      PROVE  OnePort'
  BY <1>2, GrantFacts DEF OnePort, SysTypeOK, Taken
<1>3. ASSUME \A j \in Req : gwPort'[j] \in {gwPort[j], NoPort} PROVE OnePort'
  BY <1>3 DEF OnePort
<1>4. ASSUME NEW i \in Req, ServeMap(i) \/ StrayMapArrives(i) PROVE OnePort'
  BY <1>2, <1>4 DEF ServeMap, StrayMapArrives
<1>5. ASSUME NEW i \in Req, ServeUnmap(i) \/ StrayUnmapArrives(i) PROVE OnePort'
  BY <1>3, <1>5 DEF ServeUnmap, StrayUnmapArrives, SysTypeOK
<1>6. CASE Reboot \/ SysTick
  BY <1>3, <1>6 DEF Reboot, SysTick
<1>7. QED
  BY <1>1, <1>4, <1>5, <1>6, TableFrame

\* Outside the calls the client is idle, and after a step of its own no request
\* of its own has just been served.
LEMMA NotServed ==
    ASSUME SysTypeOK, CallOK,
           SysStartFails \/ Alone \/ SysCrash \/ \E i \in Req : Client(i)
    PROVE  call' # "served"
<1> USE DEF CallOK
<1>1. CASE SysStartFails \/ SysCrash
  BY <1>1 DEF SysStartFails, StartFails, SysCrash, HangUp, link
<1>2. CASE Alone
  <2>1. NumRequests + 1 \notin Held
    BY RequestsAssumption DEF Held, Req
  <2>2. QED
    BY <1>2, <2>1
    DEF Alone, link, Start, Restart, Arm, Fire, Shutdown, Exit, Skip, NothingToRelease
<1>3. ASSUME NEW i \in Req, Client(i) PROVE call' # "served"
  BY <1>3
  DEF Client, AskMap, NoListener, AskUnmap, AskExternalIP, MapReturns, MapFails, UnmapReturns,
      AskRelease, ReleaseReturns, Begin, HangUp, PollLater, Visiting, link
<1>4. QED
  BY <1>1, <1>2, <1>3

\* An Unmap that was served has closed its port; what opens it again is a copy of
\* a Map, and a copy is a mishap.
LEMMA ClosingStep ==
    SysTypeOK /\ CallOK /\ StrayOK /\ Closing /\ [SysNext]_sysVars => Closing'
<1> SUFFICES ASSUME SysTypeOK, CallOK, StrayOK, Closing, [SysNext]_sysVars,
                    pc' \in {"unmap", "release"}, call' = "served"
             PROVE  gwPort'[cur'] = NoPort \/ (faults' > 0 /\ Struck' > 0)
  BY DEF Closing
<1>0. Struck \in Nat /\ faults \in Nat
  BY MishapFacts
<1>1. CASE SysStartFails \/ Alone \/ SysCrash \/ \E i \in Req : Client(i)
  BY <1>1, NotServed
<1>2. ASSUME NEW i \in Req, ServeMap(i) PROVE FALSE
  BY <1>2 DEF ServeMap, vars
<1>3. ASSUME NEW i \in Req, ServeUnmap(i) PROVE gwPort'[cur'] = NoPort
  BY <1>3 DEF ServeUnmap, vars, SysTypeOK
<1>4. ASSUME UNCHANGED <<pc, cur>>, UNCHANGED call PROVE cur \in Req /\ Closing /\ pc \in {"unmap", "release"} /\ call = "served"
  BY <1>4 DEF CallOK, Held, SysTypeOK, TypeOK
<1>5. ASSUME NEW i \in Req, StrayMapArrives(i)
      PROVE  faults' > 0 /\ Struck' > 0
  <2>1. stray # NoStray
    BY <1>5 DEF StrayMapArrives, NoStray
  <2>2. QED
    BY <1>0, <1>5, <2>1, SystemAssumption DEF StrayMapArrives, StrayOK, Struck, SysTypeOK
<1>6. ASSUME NEW i \in Req, StrayUnmapArrives(i) \/ Straggle(i) \/ Bind(i)
      PROVE  gwPort'[cur'] = NoPort \/ (faults' > 0 /\ Struck' > 0)
  <2>1. cur \in Req /\ Closing /\ pc \in {"unmap", "release"} /\ call = "served"
    BY <1>4, <1>6 DEF StrayUnmapArrives, Straggle, Bind, vars, link
  <2>2. cur' = cur
    BY <1>6 DEF StrayUnmapArrives, Straggle, Bind, vars
  <2>3. gwPort[cur] = NoPort => gwPort'[cur] = NoPort
    BY <1>6, <2>1 DEF StrayUnmapArrives, Straggle, Bind, gateway, SysTypeOK
  <2>4. faults' >= faults /\ Struck' >= Struck /\ faults' \in Nat /\ Struck' \in Nat
    <3>1. reboots \in Nat /\ faults \in Nat
      BY SystemAssumption DEF SysTypeOK
    <3>2. CASE StrayUnmapArrives(i)
      BY <1>0, <3>1, <3>2 DEF StrayUnmapArrives, NoStray, Struck
    <3>3. CASE Straggle(i)
      BY <1>0, <3>1, <3>3 DEF Straggle, Fault, NoStray, Struck
    <3>4. CASE Bind(i)
      BY <1>0, <3>4 DEF Bind, Struck
    <3>5. QED
      BY <1>6, <3>2, <3>3, <3>4
  <2>5. QED
    BY <1>0, <2>1, <2>2, <2>3, <2>4 DEF Closing
<1>7. CASE Reboot \/ SysTick \/ SysCancel \/ UNCHANGED sysVars
  <2>1. cur \in Req /\ Closing /\ pc \in {"unmap", "release"} /\ call = "served"
    BY <1>4, <1>7 DEF Reboot, SysTick, Tick, SysCancel, Cancel, sysVars, vars, link
  <2>2. cur' = cur
    BY <1>7 DEF Reboot, SysTick, Tick, SysCancel, Cancel, sysVars, vars
  <2>3. gwPort[cur] = NoPort \/ Reboot => gwPort'[cur] = NoPort
    BY <1>7, <2>1 DEF Reboot, SysTick, SysCancel, sysVars, gateway
  <2>4. ~Reboot => UNCHANGED <<faults, Struck>>
    BY <1>7 DEF SysTick, SysCancel, sysVars, env, Struck
  <2>5. QED
    BY <1>0, <2>1, <2>2, <2>3, <2>4 DEF Closing
<1>8. QED
  BY <1>1, <1>2, <1>3, <1>5, <1>6, <1>7 DEF SysNext, SysProgram, Served, Stray

-----------------------------------------------------------------------------
(* What is open is recorded *)

\* No fault yet: a cancellation or a fault makes Known vacuous.
LEMMA KnownStep ==
    SysTypeOK /\ CallOK /\ StrayOK /\ Closing /\ Known /\ [SysNext]_sysVars => Known'
<1> SUFFICES ASSUME SysTypeOK, CallOK, StrayOK, Closing, Known, [SysNext]_sysVars,
                    faults' = 0, ~cancelled',
                    NEW i \in Req, gwPort'[i] # NoPort
             PROVE  gwPort'[i] = IF Answering(i)' THEN answer'.port ELSE leases'[i]
  BY DEF Known
<1> DEFINE Goal == gwPort'[i] = IF Answering(i)' THEN answer'.port ELSE leases'[i]
<1>0. faults \in Nat /\ (Fault => faults' > 0)
  BY MishapFacts
<1>1. ~Fault
  BY <1>0
<1>2. ~SysCrash
  BY <1>1 DEF SysCrash
<1>3. ASSUME faults' = faults PROVE faults = 0 /\ stray = NoStray
  BY <1>0, <1>3 DEF StrayOK
<1>4. ASSUME faults' = faults, cancelled' = cancelled, gwPort'[i] = gwPort[i],
             leases'[i] = leases[i], UNCHANGED answer, Answering(i)' = Answering(i)
      PROVE  Goal
  BY <1>3, <1>4 DEF Known
<1>5. ASSUME faults' = faults, cancelled' = cancelled, gwPort'[i] = gwPort[i],
             leases'[i] = leases[i], ~Answering(i), ~Answering(i)'
      PROVE  Goal
  BY <1>3, <1>5 DEF Known
<1>6. CASE UNCHANGED sysVars
  BY <1>4, <1>6 DEF sysVars, vars, gateway, link, env, Answering
<1>7. CASE Alone
  <2>1. faults' = faults /\ gwPort' = gwPort /\ pc # "map" /\ pc' # "map" /\ leases' = leases
    BY <1>7
    DEF Alone, env, gateway, Start, Restart, Arm, Fire, Shutdown, Exit, Skip, NothingToRelease
  <2>2. cancelled' = cancelled
    BY <1>7 DEF Alone, Start, Restart, Arm, Fire, Shutdown, Exit, Skip, NothingToRelease
  <2>3. QED
    BY <1>5, <2>1, <2>2 DEF Answering
<1>8. CASE SysStartFails
  BY <1>1, <1>8 DEF SysStartFails, StartFails
<1>9. CASE SysCancel
  BY <1>9 DEF SysCancel, Cancel
<1>10. CASE SysTick
  <2>1. gwPort'[i] = gwPort[i]
    BY <1>10 DEF SysTick
  <2>2. QED
    BY <1>4, <1>10, <2>1 DEF SysTick, Tick, env, Answering
<1>11. CASE Reboot
  BY <1>11 DEF Reboot
<1>12. ASSUME NEW j \in Req, Bind(j) PROVE Goal
  BY <1>4, <1>12 DEF Bind, gateway, vars, link, Answering
<1>13. ASSUME NEW j \in Req, Stray(j) PROVE FALSE
  <2>1. ~Straggle(j)
    BY <1>1 DEF Straggle
  <2>2. faults' = faults
    BY <1>13, <2>1 DEF Stray, StrayMapArrives, StrayUnmapArrives
  <2>3. QED
    BY <1>3, <1>13, <2>1, <2>2 DEF Stray, StrayMapArrives, StrayUnmapArrives, NoStray
<1>14. ASSUME NEW j \in Req, ServeMap(j) PROVE Goal
  <2>1. /\ pc = "map" /\ cur = j /\ call = "sent" /\ call' = "served"
        /\ faults' = faults /\ UNCHANGED vars
    BY <1>14 DEF ServeMap, env
  <2>2. CASE i = j
    BY <1>14, <2>1, <2>2 DEF ServeMap, SysTypeOK, vars, Answering
  <2>3. CASE i # j
    BY <1>5, <1>14, <2>1, <2>3 DEF ServeMap, SysTypeOK, vars, Answering
  <2>4. QED
    BY <2>2, <2>3
<1>15. ASSUME NEW j \in Req, ServeUnmap(j) PROVE Goal
  <2>1. i # j /\ gwPort'[i] = gwPort[i]
    BY <1>15 DEF ServeUnmap, SysTypeOK
  <2>2. QED
    BY <1>5, <1>15, <2>1 DEF ServeUnmap, vars, env, Answering
<1>16. ASSUME NEW j \in Req, Client(j) PROVE Goal
  <2>0. gwPort' = gwPort
    BY <1>16, ClientType DEF gateway
  <2>1. CASE AskMap(j) \/ NoListener(j) \/ AskUnmap(j)
    <3>1. /\ faults' = faults /\ UNCHANGED <<leases, cancelled>>
          /\ pc = "pass" /\ (pc' = "map" => call' \notin {"served", "confirm"})
      BY <1>1, <2>1
      DEF AskMap, NoListener, AskUnmap, Sees, Healthy, Begin, CallMap, PollLater, CallUnmap,
          Visiting, Advance, env
    <3>2. QED
      BY <1>5, <2>0, <3>1 DEF Answering
  <2>2. CASE AskExternalIP(j)
    BY <1>4, <2>0, <2>2 DEF AskExternalIP, vars, env, Answering
  <2>3. CASE MapReturns(j)
    <3>1. /\ faults' = faults /\ cancelled' = cancelled /\ pc = "map" /\ cur = j
          /\ call = "confirm" /\ pc' = "pass"
          /\ leases' = [leases EXCEPT ![j] = answer.port]
      BY <2>3 DEF MapReturns, Granted, Advance
    <3>2. CASE i = j
      <4>1. leases'[i] = answer.port
        BY <3>1, <3>2 DEF SysTypeOK, TypeOK
      <4>2. gwPort[i] = answer.port
        BY <1>3, <2>0, <3>1, <3>2 DEF Known, Answering
      <4>3. QED
        BY <2>0, <3>1, <4>1, <4>2 DEF Answering
    <3>3. CASE i # j
      BY <1>5, <2>0, <3>1, <3>3 DEF SysTypeOK, TypeOK, Answering
    <3>4. QED
      BY <3>2, <3>3
  <2>4. CASE MapFails(j)
    BY <1>1, <2>4 DEF MapFails, Refused
  <2>5. CASE UnmapReturns(j)
    <3>1. /\ pc = "unmap" /\ cur = j /\ call = "served" /\ Healthy /\ cancelled' = cancelled
          /\ leases' = [leases EXCEPT ![j] = NoPort] /\ pc' = "pass"
      BY <1>1, <2>5 DEF UnmapReturns, Unmapped, Advance
    <3>2. faults' = faults /\ gwPort[j] = NoPort
      BY <1>3, <3>1 DEF Healthy, Closing
    <3>3. i # j
      BY <2>0, <3>2
    <3>4. leases'[i] = leases[i]
      BY <3>1, <3>3 DEF SysTypeOK, TypeOK
    <3>5. QED
      BY <1>5, <2>0, <3>1, <3>2, <3>4 DEF Answering
  <2>6. CASE AskRelease(j) \/ ReleaseReturns(j)
    <3>1. pc = "release" /\ cancelled' = cancelled
      BY <2>6 DEF AskRelease, ReleaseReturns, Released, ReleaseFailed, vars
    <3>2. QED
      BY <3>1 DEF CallOK
  <2>7. QED
    BY <1>16, <2>1, <2>2, <2>3, <2>4, <2>5, <2>6 DEF Client
<1>17. QED
  BY <1>2, <1>6, <1>7, <1>8, <1>9, <1>10, <1>11, <1>12, <1>13, <1>14, <1>15, <1>16
  DEF SysNext, SysProgram, Served

\* Before anything has gone wrong, a daemon that sleeps knows every mapping the
\* gateway has, and a shutdown would find it.
THEOREM OpenIsRecordedHolds == SysSpec => []OpenIsRecorded
<1>1. SysInit => SysTypeOK /\ CallOK
  BY SysInitOK
<1>2. SysInit => StrayOK /\ Closing /\ Known
  BY DEF SysInit, StrayOK, Closing, Known
<1>3. SysTypeOK /\ Known => OpenIsRecorded
  BY RequestsAssumption DEF Known, OpenIsRecorded, Installed, Held, Answering
<1>4. QED
  BY <1>1, <1>2, <1>3, SysTypeStep, CallStep, StrayStep, ClosingStep, KnownStep, PTL DEF SysSpec

-----------------------------------------------------------------------------
(* A port the gateway chose is kept *)

\* What may not happen to mapping i in a step.
Moved(i) ==
    /\ pc = "map" /\ cur = i /\ call = "sent" /\ call' = "served"
    /\ Requested[i] = NoPort /\ leases[i] \in Port \ Taken(i)
    /\ gwPort'[i] # gwPort[i] /\ gwPort'[i] # leases[i]

LEMMA NotMoved == ASSUME SysTypeOK, [SysNext]_sysVars, NEW i \in Req PROVE ~Moved(i)
<1> SUFFICES ASSUME Moved(i) PROVE FALSE
  OBVIOUS
<1> USE DEF Moved
<1>1. ASSUME NEW j \in Req, ServeMap(j) PROVE FALSE
  <2>1. j = i
    BY <1>1 DEF ServeMap
  <2>2. PICK port \in Grants(i, mapRequest(i)) : gwPort' = [gwPort EXCEPT ![i] = port]
    BY <1>1, <2>1 DEF ServeMap
  <2>3. gwPort'[i] = port
    BY <2>2 DEF SysTypeOK
  <2>4. mapRequest(i) = leases[i]
    BY DEF mapRequest
  <2>5. QED
    BY <2>2, <2>3, <2>4 DEF Grants
<1>2. ASSUME NEW j \in Req, ServeUnmap(j) \/ StrayMapArrives(j) \/ StrayUnmapArrives(j)
      PROVE  FALSE
  BY <1>2 DEF ServeUnmap, StrayMapArrives, StrayUnmapArrives, link
<1>3. CASE Reboot \/ SysTick
  BY <1>3 DEF Reboot, SysTick, link
<1>4. CASE UNCHANGED gateway
  BY <1>4 DEF gateway
<1>5. QED
  BY <1>1, <1>2, <1>3, <1>4, TableFrame

\* While the port is free, a gateway that gives the mapping a port gives this one:
\* mapRequest has asked for it.
THEOREM PortKeptHolds == SysSpec => PortKept
<1>1. SysTypeOK /\ [SysNext]_sysVars =>
         [\A i \in Req :
             (/\ pc = "map" /\ cur = i /\ call = "sent" /\ call' = "served"
              /\ Requested[i] = NoPort /\ leases[i] \in Port \ Taken(i)
              /\ gwPort'[i] # gwPort[i])
             => gwPort'[i] = leases[i]]_sysVars
  BY NotMoved DEF Moved
<1>2. QED
  BY <1>1, SysTypeCorrect, PTL DEF SysSpec, PortKept

-----------------------------------------------------------------------------
(* Arithmetic of slots and of the reserve *)

LEMMA Distribute ==
    ASSUME NEW a \in Nat, NEW b \in Nat, NEW c \in Nat
    PROVE  (a + b) * c = a * c + b * c
OBVIOUS

LEMMA SlotFacts ==
    /\ \A n \in Nat : Slot(n) \in Nat
    /\ \A m, n \in Nat : Slot(m + n) = Slot(m) + Slot(n)
    /\ \A m, n \in Nat : m <= n => Slot(m) <= Slot(n)
    /\ Slot(1) = MaxCall
    /\ MaxCall \in Nat
<1>1. MaxCall \in Nat
  BY SystemAssumption
<1>2. \A n \in Nat : Slot(n) \in Nat
  BY <1>1 DEF Slot
<1>3. ASSUME NEW m \in Nat, NEW n \in Nat PROVE Slot(m + n) = Slot(m) + Slot(n)
  BY <1>1, Distribute DEF Slot
<1>4. ASSUME NEW m \in Nat, NEW n \in Nat, m <= n PROVE Slot(m) <= Slot(n)
  <2>1. n - m \in Nat /\ n = m + (n - m)
    BY <1>4
  <2>2. Slot(n) = Slot(m) + Slot(n - m)
    BY <1>3, <2>1
  <2>3. QED
    BY <1>2, <2>1, <2>2
<1>5. Slot(1) = MaxCall
  BY <1>1 DEF Slot
<1>6. QED
  BY <1>1, <1>2, <1>3, <1>4, <1>5

\* A fault draws one setback from the reserve; nothing adds to it.
LEMMA ReserveFacts ==
    ASSUME SysTypeOK
    PROVE  /\ Reserve \in Nat
           /\ Setback \in Nat
           /\ Reserve <= MaxFaults * Setback
           /\ faults' = faults => Reserve' = Reserve
           /\ Fault => Reserve' \in Nat /\ Reserve = Reserve' + Setback
<1>1. MaxFaults \in Nat /\ faults \in Nat /\ faults <= MaxFaults
  BY SystemAssumption DEF SysTypeOK
<1>2. Setback \in Nat
  <2>1. 2 * NumRequests \in Nat
    BY RequestsAssumption
  <2>2. Slot(2 * NumRequests) \in Nat
    BY <2>1, SlotFacts
  <2>3. QED
    BY <2>2, TimesAssumption DEF Setback
<1>3. \A n \in Nat : n * Setback \in Nat
  BY <1>2
<1>4. Reserve \in Nat
  BY <1>1, <1>3 DEF Reserve
<1>5. Reserve <= MaxFaults * Setback
  <2>1. MaxFaults * Setback = (MaxFaults - faults) * Setback + faults * Setback
    BY <1>1, <1>2
  <2>2. QED
    BY <1>1, <1>3, <1>4, <2>1 DEF Reserve
<1>6. faults' = faults => Reserve' = Reserve
  BY DEF Reserve, Setback, Slot
<1>7. ASSUME Fault PROVE Reserve' \in Nat /\ Reserve = Reserve' + Setback
  <2>1. MaxFaults - faults' \in Nat /\ MaxFaults - faults = (MaxFaults - faults') + 1
    BY <1>1, <1>7 DEF Fault
  <2>2. Reserve' = (MaxFaults - faults') * Setback
    BY DEF Reserve, Setback, Slot
  <2>3. ((MaxFaults - faults') + 1) * Setback = (MaxFaults - faults') * Setback + Setback
    BY <1>2, <2>1
  <2>4. QED
    BY <1>3, <2>1, <2>2, <2>3 DEF Reserve
<1>8. QED
  BY <1>2, <1>4, <1>5, <1>6, <1>7

\* A lifetime just granted outlasts its renewal by two passes, a call and the
\* whole reserve.
LEMMA LifeFacts ==
    ASSUME SysTypeOK, LeaseOutlastsRetries, NEW life \in Lifetime
    PROVE  /\ life \in Nat /\ RenewBefore(life) \in Nat
           /\ life > RenewBefore(life) + Slot(2 * NumRequests) + MaxCall + Reserve
<1>1. life \in Nat /\ RenewBefore(life) \in Nat
  BY TimesAssumption DEF RenewBefore
<1>2. life - RenewBefore(life) >
         (2 * NumRequests + 1) * MaxCall + MaxFaults * (RetryBackoff + 2 * NumRequests * MaxCall)
  BY DEF LeaseOutlastsRetries
<1>3. (2 * NumRequests + 1) * MaxCall = Slot(2 * NumRequests) + MaxCall
  <2>1. 2 * NumRequests \in Nat /\ 1 \in Nat /\ MaxCall \in Nat /\ 1 * MaxCall = MaxCall
    BY RequestsAssumption, SystemAssumption
  <2>2. (2 * NumRequests + 1) * MaxCall = (2 * NumRequests) * MaxCall + 1 * MaxCall
    BY <2>1, Distribute
  <2>3. QED
    BY <2>1, <2>2 DEF Slot
<1>4. RetryBackoff + 2 * NumRequests * MaxCall = Setback
  BY DEF Setback, Slot
<1>5. MaxFaults * Setback \in Nat
  BY ReserveFacts, SystemAssumption
<1>6. Slot(2 * NumRequests) \in Nat /\ MaxCall \in Nat
  <2>1. 2 * NumRequests \in Nat
    BY RequestsAssumption
  <2>2. QED
    BY <2>1, SlotFacts
<1>7. Reserve \in Nat /\ Reserve <= MaxFaults * Setback
  BY ReserveFacts
<1>8. life - RenewBefore(life) > Slot(2 * NumRequests) + MaxCall + MaxFaults * Setback
  BY <1>2, <1>3, <1>4
<1>9. QED
  BY <1>1, <1>5, <1>6, <1>7, <1>8

-----------------------------------------------------------------------------
(* What is recorded is installed: steps that take no time *)

\* The slots the proof compares, as numbers: a request's place in the loop.
LEMMA Places ==
    ASSUME TypeOK, NEW i \in Req
    PROVE  /\ i \in Nat /\ 1 <= i /\ i <= NumRequests /\ NumRequests \in Nat
           /\ cur \in Nat /\ 1 <= cur /\ cur <= NumRequests + 1
           /\ nextAt[i] \in Nat
BY RequestsAssumption DEF TypeOK, Req

\* OnTime in the next state, with the operators on numbers outside the prime.
LEMMA OnTimeNext ==
    ASSUME NEW i \in Req
    PROVE  OnTime(i)' <=>
             IF Ahead(i)' THEN ttl'[i] + elapsed' > Slot(i - cur' + 1) + Reserve'
             ELSE IF nextAt'[i] > 0 THEN ttl'[i] > nextAt'[i] + Slot(NumRequests + i) + Reserve'
             ELSE IF InPass' THEN ttl'[i] + elapsed' > Slot(NumRequests + 1 - cur' + i) + Reserve'
             ELSE ttl'[i] > Slot(i) + Reserve'
BY DEF OnTime, Slot

\* The numbers that OnTime compares, and the sums of slots among them.
LEMMA TimeFacts ==
    ASSUME SysTypeOK, NEW i \in Req
    PROVE  /\ ttl[i] \in Nat /\ nextAt[i] \in Nat /\ elapsed \in Nat /\ elapsed <= MaxCall
           /\ MaxCall \in Nat /\ Reserve \in Nat
           /\ Slot(i) \in Nat /\ Slot(NumRequests) \in Nat
           /\ MaxCall <= Slot(i) /\ Slot(i) <= Slot(NumRequests)
           /\ Slot(2 * NumRequests) = Slot(NumRequests) + Slot(NumRequests)
           /\ Slot(NumRequests + i) = Slot(NumRequests) + Slot(i)
           /\ Slot(NumRequests + 1 - cur + i) = Slot(NumRequests + 1 - cur) + Slot(i)
           /\ Slot(NumRequests + 1 - cur) \in Nat
           /\ Slot(NumRequests + 1 - cur) <= Slot(NumRequests)
           /\ cur <= i => /\ Slot(i - cur + 1) = Slot(i - cur) + MaxCall
                          /\ Slot(i - cur) \in Nat
<1>1. ttl[i] \in Nat /\ elapsed \in Nat /\ elapsed <= MaxCall /\ MaxCall \in Nat
  BY SystemAssumption DEF SysTypeOK
<1>2. /\ i \in Nat /\ 1 <= i /\ i <= NumRequests /\ NumRequests \in Nat
      /\ cur \in Nat /\ 1 <= cur /\ cur <= NumRequests + 1 /\ nextAt[i] \in Nat
  BY Places DEF SysTypeOK
<1>3. Reserve \in Nat
  BY ReserveFacts
<1>4. NumRequests + 1 - cur \in Nat /\ NumRequests + 1 - cur <= NumRequests
  BY <1>2
<1>5. Slot(NumRequests + 1 - cur + i) = Slot(NumRequests + 1 - cur) + Slot(i)
  BY <1>2, <1>4, SlotFacts
<1>6. ASSUME cur <= i
      PROVE  Slot(i - cur + 1) = Slot(i - cur) + MaxCall /\ Slot(i - cur) \in Nat
  <2>1. i - cur \in Nat /\ 1 \in Nat
    BY <1>2, <1>6
  <2>2. QED
    BY <2>1, SlotFacts
<1>7. Slot(2 * NumRequests) = Slot(NumRequests) + Slot(NumRequests)
  <2>1. 2 * NumRequests = NumRequests + NumRequests
    BY <1>2
  <2>2. QED
    BY <1>2, <2>1, SlotFacts
<1>8. MaxCall <= Slot(i) /\ Slot(i) <= Slot(NumRequests)
  <2>1. 1 \in Nat
    OBVIOUS
  <2>2. QED
    BY <1>2, <2>1, SlotFacts
<1>9. Slot(NumRequests + i) = Slot(NumRequests) + Slot(i)
  BY <1>2, SlotFacts
<1>10. QED
  BY <1>1, <1>2, <1>3, <1>4, <1>5, <1>6, <1>7, <1>8, <1>9, SlotFacts

\* A step that neither moves the daemon nor touches the mapping.
LEMMA StayOnTime ==
    ASSUME SysTypeOK, NEW i \in Req, OnTime(i), ttl'[i] \in Nat, ttl'[i] >= ttl[i],
           InPass' = InPass, UNCHANGED <<cur, pass, nextAt>>,
           elapsed' = elapsed, Fault \/ faults' = faults
    PROVE  OnTime(i)'
<1>1. Reserve \in Nat /\ Reserve' \in Nat /\ Reserve' <= Reserve
  BY ReserveFacts
<1>2. Ahead(i)' = Ahead(i)
  BY DEF Ahead
<1>3. Ahead(i) => cur <= i
  BY DEF Ahead
<1>4. QED
  BY <1>1, <1>2, <1>3, TimeFacts, OnTimeNext DEF OnTime

\* The loop goes on to the next request.
LEMMA PassBy ==
    ASSUME SysTypeOK, NEW i \in Req, NEW j \in Req, OnTime(j),
           InPass, InPass', cur = i, cur' = i + 1, pass' = pass, j # i \/ j \notin pass,
           ttl'[j] = ttl[j], nextAt'[j] = nextAt[j],
           elapsed' = 0, Fault \/ faults' = faults
    PROVE  OnTime(j)'
<1>1. Reserve \in Nat /\ Reserve' \in Nat /\ Reserve' <= Reserve
  BY ReserveFacts
<1>2. i \in Nat /\ j \in Nat /\ i <= NumRequests /\ NumRequests \in Nat
  BY Places DEF SysTypeOK
<1>3. Ahead(j)' = Ahead(j) /\ (Ahead(j) => cur <= j /\ i + 1 <= j)
  BY <1>2 DEF Ahead
<1>4. j - cur' + 1 = j - cur
  BY <1>2
<1>5. Slot(NumRequests + 1 - cur' + j) + MaxCall = Slot(NumRequests + 1 - cur + j)
      /\ Slot(NumRequests + 1 - cur' + j) \in Nat
  <2>1. /\ NumRequests + 1 - cur' + j \in Nat /\ 1 \in Nat
        /\ NumRequests + 1 - cur + j = (NumRequests + 1 - cur' + j) + 1
    BY <1>2
  <2>2. QED
    BY <2>1, SlotFacts
<1>6. QED
  BY <1>1, <1>3, <1>4, <1>5, TimeFacts, OnTimeNext DEF OnTime

\* The pass is over, and the daemon sleeps until the soonest request is due.
LEMMA SleepOnTime ==
    ASSUME SysTypeOK, NEW j \in Req, OnTime(j), Arm, call = "idle", elapsed = 0,
           UNCHANGED <<ttl, elapsed, faults>>
    PROVE  OnTime(j)'
<1>1. Reserve' = Reserve
  BY ReserveFacts
<1>2. j <= NumRequests /\ j \in Nat /\ NumRequests \in Nat
  BY Places DEF SysTypeOK
<1>3. InPass /\ ~InPass' /\ cur = NumRequests + 1 /\ nextAt' = nextAt
  BY DEF Arm, InPass
<1>4. ~Ahead(j) /\ ~Ahead(j)'
  BY <1>2, <1>3 DEF Ahead
<1>5. QED
  BY <1>1, <1>3, <1>4, TimeFacts, OnTimeNext DEF OnTime

\* The timer fires, and a pass begins over what is due.
LEMMA WakeOnTime ==
    ASSUME SysTypeOK, NEW j \in Req, OnTime(j), Fire, j \in scheduled, elapsed = 0,
           UNCHANGED <<ttl, elapsed, faults>>
    PROVE  OnTime(j)'
<1>1. Reserve' = Reserve
  BY ReserveFacts
<1>2. j \in Nat /\ 1 <= j
  BY Places DEF SysTypeOK
<1>3. ~InPass /\ InPass' /\ cur' = 1 /\ nextAt' = nextAt /\ ~Ahead(j)
  BY DEF Fire, InPass, Ahead
<1>4. Ahead(j)' <=> nextAt[j] = 0
  BY <1>2, <1>3 DEF Fire, Due, Ahead
<1>5. j - cur' + 1 = j
  BY <1>2, <1>3
<1>6. QED
  BY <1>1, <1>3, <1>4, <1>5, TimeFacts, OnTimeNext DEF OnTime

\* Time passes during a call, and the mapping lasts.
LEMMA CallTick ==
    ASSUME SysTypeOK, NEW j \in Req, OnTime(j), InPass, Tick,
           elapsed < MaxCall, elapsed' = elapsed + 1,
           ttl'[j] = Less(ttl[j]), UNCHANGED faults
    PROVE  ttl[j] > 1 /\ OnTime(j)'
<1>1. Reserve' = Reserve
  BY ReserveFacts
<1>2. Ahead(j)' = Ahead(j) /\ InPass' /\ (Ahead(j) => cur <= j)
  BY DEF Tick, Ahead, InPass
<1>3. cur' = cur /\ nextAt'[j] = Less(nextAt[j])
  BY DEF Tick
<1>4. ttl[j] > 1
  BY <1>2, TimeFacts DEF OnTime
<1>5. OnTime(j)'
  BY <1>1, <1>2, <1>3, <1>4, TimeFacts, OnTimeNext DEF OnTime, Less
<1>6. QED
  BY <1>4, <1>5

\* Time passes while the daemon sleeps, no longer than until the next renewal.
LEMMA SleepTick ==
    ASSUME SysTypeOK, NEW j \in Req, OnTime(j), Tick, pc = "select", nextAt[j] > 0,
           ttl'[j] = Less(ttl[j]), UNCHANGED faults
    PROVE  ttl[j] > 1 /\ OnTime(j)'
<1>1. Reserve' = Reserve
  BY ReserveFacts
<1>2. ~Ahead(j) /\ ~Ahead(j)' /\ ~InPass' /\ nextAt'[j] = Less(nextAt[j])
  BY DEF Tick, Ahead, InPass
<1>3. ttl[j] > 1
  BY <1>2, TimeFacts DEF OnTime
<1>4. OnTime(j)'
  BY <1>1, <1>2, <1>3, TimeFacts, OnTimeNext DEF OnTime, Less
<1>5. QED
  BY <1>3, <1>4

\* The gateway has just given or renewed the mapping, in answer to the daemon or
\* to a copy of its request.
LEMMA ServedOnTime ==
    ASSUME SysTypeOK, LeaseOutlastsRetries, NEW i \in Req, NEW life \in Lifetime,
           Ahead(i), cur = i, ttl'[i] = life, InPass' = InPass,
           UNCHANGED <<cur, pass, elapsed, faults>>
    PROVE  OnTime(i)'
<1>1. Reserve' = Reserve
  BY ReserveFacts
<1>2. Ahead(i)' /\ i - cur' + 1 = 1
  BY Places DEF SysTypeOK, Ahead
<1>3. life > MaxCall + Reserve /\ life \in Nat
  BY LifeFacts, TimeFacts
<1>4. Slot(i - cur' + 1) = MaxCall
  BY <1>2, SlotFacts
<1>5. QED
  BY <1>1, <1>2, <1>3, <1>4, TimeFacts, OnTimeNext

\* Map returns a lease that the gateway still has as it answered.
LEMMA RenewedOnTime ==
    ASSUME SysTypeOK, LeaseOutlastsRetries, NEW i \in Req, NEW life \in Lifetime,
           cur = i, cur' = i + 1, InPass', nextAt'[i] = RenewBefore(life),
           ttl[i] + elapsed >= life, ttl'[i] = ttl[i], elapsed' = 0, UNCHANGED faults
    PROVE  OnTime(i)'
<1>1. Reserve' = Reserve
  BY ReserveFacts
<1>2. i \in Nat /\ NumRequests \in Nat /\ ~Ahead(i)'
  BY Places DEF SysTypeOK, Ahead
<1>3. NumRequests + 1 - cur' + i = NumRequests
  BY <1>2
<1>4. /\ life \in Nat /\ RenewBefore(life) \in Nat
      /\ life > RenewBefore(life) + Slot(2 * NumRequests) + MaxCall + Reserve
  BY LifeFacts
<1>5. ttl[i] > RenewBefore(life) + Slot(NumRequests) + Slot(NumRequests) + Reserve
  BY <1>4, TimeFacts
<1>6. QED
  BY <1>1, <1>2, <1>3, <1>4, <1>5, TimeFacts, OnTimeNext

\* A Map that was to renew the mapping fails, and one setback is used up.
LEMMA RefusedOnTime ==
    ASSUME SysTypeOK, NEW i \in Req, OnTime(i), Ahead(i), cur = i, cur' = i + 1,
           nextAt'[i] = RetryBackoff, ttl'[i] = ttl[i], Fault
    PROVE  OnTime(i)'
<1>1. Reserve' \in Nat /\ Reserve = Reserve' + RetryBackoff + Slot(2 * NumRequests)
  BY ReserveFacts, TimesAssumption, TimeFacts DEF Setback
<1>2. i \in Nat /\ ~Ahead(i)' /\ i - cur + 1 = 1
  BY Places DEF SysTypeOK, Ahead
<1>3. ttl[i] > Reserve
  <2>1. Slot(i - cur + 1) = MaxCall
    BY <1>2, SlotFacts
  <2>2. QED
    BY <2>1, TimeFacts DEF OnTime
<1>4. RetryBackoff \in Nat /\ RetryBackoff > 0
  BY TimesAssumption
<1>5. QED
  BY <1>1, <1>2, <1>3, <1>4, TimeFacts, OnTimeNext
-----------------------------------------------------------------------------
(* The answer under way *)

\* From when the gateway serves a Map until the daemon records the answer, the
\* gateway keeps the mapping as it answered, or a mishap has marked it.
LEMMA AnswerStep ==
    SysTypeOK /\ CallOK /\ OnePort /\ AnswerOK /\ LeaseOutlastsRetries /\ [SysNext]_sysVars
      => AnswerOK'
<1> SUFFICES ASSUME SysTypeOK, CallOK, OnePort, AnswerOK, LeaseOutlastsRetries, [SysNext]_sysVars,
                    pc' = "map", call' \in {"served", "confirm"}
             PROVE  answer' \in Answers /\ (cur' \notin wiped' => AsAnswered(cur)')
  BY DEF AnswerOK
<1> DEFINE Before == pc = "map" /\ call \in {"served", "confirm"} /\ UNCHANGED <<cur, answer>>
           Goal == answer' \in Answers /\ (cur' \notin wiped' => AsAnswered(cur)')
<1>1. ASSUME Before
      PROVE  /\ cur \in Req /\ ttl[cur] \in Nat /\ elapsed \in Nat
             /\ answer \in Answers /\ answer.port \in Port /\ answer.port # NoPort
             /\ answer.life \in Lifetime /\ answer.life \in Nat
             /\ cur \in wiped \/ AsAnswered(cur)
  <2>1. cur \in Req /\ answer \in Answers /\ (cur \in wiped \/ AsAnswered(cur))
    BY <1>1 DEF AnswerOK, CallOK, SysTypeOK, TypeOK
  <2>2. answer.port \in Port /\ answer.life \in Lifetime
    BY <2>1 DEF Answers
  <2>3. answer.port # NoPort /\ answer.life \in Nat
    BY <2>2, RequestsAssumption, TimesAssumption DEF NoPort
  <2>4. ttl[cur] \in Nat /\ elapsed \in Nat
    BY <2>1, SystemAssumption DEF SysTypeOK
  <2>5. QED
    BY <2>1, <2>2, <2>3, <2>4
<1>2. ASSUME Before, UNCHANGED <<gwPort, ttl, elapsed, wiped>> PROVE Goal
  BY <1>1, <1>2 DEF AsAnswered
<1>3. CASE UNCHANGED sysVars
  BY <1>2, <1>3 DEF sysVars, vars, gateway, link, env
<1>4. CASE Alone \/ SysCrash
  BY <1>4
  DEF Alone, Start, Restart, Arm, Fire, Shutdown, Exit, Skip, NothingToRelease, SysCrash, Crash,
      CallOK, link
<1>5. CASE SysStartFails
  BY <1>5 DEF SysStartFails, StartFails
<1>6. CASE SysCancel
  BY <1>2, <1>6 DEF SysCancel, Cancel, gateway, link, env
<1>7. CASE SysTick
  <2>1. Before /\ elapsed < MaxCall /\ elapsed' = elapsed + 1 /\ wiped' = wiped
    BY <1>7 DEF SysTick, Tick, Sleeping, Waiting, Absent, env
  <2>2. CASE cur \in wiped
    BY <1>1, <2>1, <2>2
  <2>3. CASE AsAnswered(cur)
    <3>1. ttl[cur] + elapsed >= answer.life /\ gwPort[cur] = answer.port
      BY <2>3 DEF AsAnswered
    <3>2. answer.life > MaxCall /\ MaxCall \in Nat
      <4>1. cur \in Req /\ answer.life \in Lifetime /\ answer.life \in Nat
        BY <1>1, <2>1
      <4>2. QED
        BY <4>1, LifeFacts, TimeFacts
    <3>3. ttl[cur] > 1
      BY <1>1, <2>1, <3>1, <3>2
    <3>4. ttl'[cur] = ttl[cur] - 1 /\ gwPort'[cur] = gwPort[cur]
      BY <1>1, <1>7, <2>1, <3>3 DEF SysTick, Less
    <3>5. ttl'[cur] + elapsed' = ttl[cur] + elapsed
      BY <1>1, <2>1, <3>4
    <3>6. QED
      BY <1>1, <2>1, <3>1, <3>4, <3>5 DEF AsAnswered
  <2>4. QED
    BY <1>1, <2>1, <2>2, <2>3
<1>8. CASE Reboot
  <2>1. Before /\ UNCHANGED elapsed
    BY <1>8 DEF Reboot, vars, link
  <2>2. CASE cur \in wiped
    BY <1>1, <1>8, <2>1, <2>2 DEF Reboot
  <2>3. CASE AsAnswered(cur)
    BY <1>1, <1>8, <2>1, <2>3 DEF Reboot, AsAnswered
  <2>4. QED
    BY <1>1, <2>1, <2>2, <2>3
<1>9. ASSUME NEW i \in Req, Client(i) PROVE Goal
  <2>1. CASE AskExternalIP(i)
    BY <1>2, <2>1 DEF AskExternalIP, vars, gateway, env
  <2>2. CASE AskMap(i)
    BY <2>2 DEF AskMap, Begin
  <2>3. CASE NoListener(i) \/ AskUnmap(i)
    BY <2>3 DEF NoListener, AskUnmap, PollLater, CallUnmap, Advance
  <2>4. CASE MapReturns(i) \/ MapFails(i) \/ UnmapReturns(i) \/ ReleaseReturns(i)
    BY <2>4 DEF MapReturns, MapFails, UnmapReturns, ReleaseReturns, HangUp
  <2>5. CASE AskRelease(i)
    BY <2>5 DEF AskRelease, vars
  <2>6. QED
    BY <1>9, <2>1, <2>2, <2>3, <2>4, <2>5 DEF Client
<1>10. ASSUME NEW i \in Req, ServeMap(i) PROVE Goal
  <2>1. PICK port \in Grants(i, mapRequest(i)), life \in Lifetime :
             /\ gwPort' = [gwPort EXCEPT ![i] = port]
             /\ ttl' = [ttl EXCEPT ![i] = life]
             /\ answer' = [port |-> port, life |-> life]
    BY <1>10 DEF ServeMap
  <2>2. port \in Port /\ cur' = i /\ elapsed' = elapsed
    BY <1>10, GrantType DEF ServeMap, vars
  <2>3. gwPort'[i] = port /\ ttl'[i] = life /\ answer'.port = port /\ answer'.life = life
    BY <2>1 DEF SysTypeOK
  <2>4. elapsed \in Nat /\ life \in Nat
    BY TimesAssumption, SystemAssumption DEF SysTypeOK
  <2>5. QED
    BY <2>1, <2>2, <2>3, <2>4 DEF AsAnswered, Answers
<1>11. ASSUME NEW i \in Req, ServeUnmap(i) PROVE Goal
  BY <1>11 DEF ServeUnmap, vars
<1>12. ASSUME NEW i \in Req, Bind(i) \/ Straggle(i) PROVE Goal
  BY <1>2, <1>12 DEF Bind, Straggle, vars, gateway, link
<1>13. ASSUME NEW i \in Req, StrayMapArrives(i) PROVE Goal
  <2>1. Before /\ elapsed' = elapsed
    BY <1>13 DEF StrayMapArrives, vars, link
  <2>2. PICK port \in Grants(i, stray.asked), life \in Lifetime :
             /\ gwPort' = [gwPort EXCEPT ![i] = port]
             /\ ttl' = [ttl EXCEPT ![i] = life]
             /\ wiped' = IF life < ttl[i] THEN wiped \cup {i} ELSE wiped
    BY <1>13 DEF StrayMapArrives
  <2>3. CASE cur # i
    BY <1>1, <2>1, <2>2, <2>3 DEF AsAnswered, SysTypeOK
  <2>4. CASE cur = i /\ cur \notin wiped'
    <3>1. AsAnswered(cur) /\ ~(life < ttl[i])
      BY <1>1, <2>1, <2>2, <2>4
    <3>2. port = gwPort[i]
      BY <1>1, <2>1, <2>2, <2>4, <3>1, GrantFacts DEF AsAnswered
    <3>3. gwPort'[i] = gwPort[i] /\ ttl'[i] = life
      BY <2>2, <3>2 DEF SysTypeOK
    <3>4. ttl'[i] >= ttl[i] /\ life \in Nat /\ ttl[i] \in Nat
      BY <3>1, <3>3, TimesAssumption DEF SysTypeOK
    <3>5. QED
      BY <1>1, <2>1, <2>4, <3>1, <3>3, <3>4 DEF AsAnswered
  <2>5. QED
    BY <1>1, <2>1, <2>3, <2>4
<1>14. ASSUME NEW i \in Req, StrayUnmapArrives(i) PROVE Goal
  <2>1. Before /\ elapsed' = elapsed
    BY <1>14 DEF StrayUnmapArrives, vars, link
  <2>2. CASE cur # i
    BY <1>1, <1>14, <2>1, <2>2 DEF StrayUnmapArrives, AsAnswered, SysTypeOK
  <2>3. CASE cur = i
    BY <1>1, <1>14, <2>1, <2>3 DEF StrayUnmapArrives, AsAnswered
  <2>4. QED
    BY <2>2, <2>3
<1>15. QED
  BY <1>3, <1>4, <1>5, <1>6, <1>7, <1>8, <1>9, <1>10, <1>11, <1>12, <1>13, <1>14
  DEF SysNext, SysProgram, Served, Stray
-----------------------------------------------------------------------------
(* What is recorded is installed: the steps *)

\* A mapping that a step neither records nor touches in the gateway's table.
LEMMA SecureFrame ==
    ASSUME NEW j \in Req, Secure(j), gwPort'[j] = gwPort[j], leases'[j] = leases[j],
           Unmapping(j) => Unmapping(j)', OnTime(j) => OnTime(j)'
    PROVE  Secure(j)'
BY DEF Secure

\* The loop passes over request i with its mapping j.
LEMMA SecurePassBy ==
    ASSUME SysTypeOK, NEW i \in Req, NEW j \in Req, Secure(j), InPass, InPass',
           cur = i, cur' = i + 1, pass' = pass, j # i \/ (j \notin pass /\ pc = "pass"),
           UNCHANGED gateway, leases'[j] = leases[j], nextAt'[j] = nextAt[j],
           elapsed' = 0, Fault \/ faults' = faults
    PROVE  Secure(j)'
<1>1. ~Unmapping(j)
  BY DEF Unmapping
<1>2. gwPort'[j] = gwPort[j] /\ ttl'[j] = ttl[j]
  BY DEF gateway
<1>3. OnTime(j) => OnTime(j)'
  BY <1>2, PassBy
<1>4. QED
  BY <1>1, <1>2, <1>3, SecureFrame

\* Nothing happens to mapping j, or it is renewed.
LEMMA SecureStay ==
    ASSUME SysTypeOK, NEW j \in Req, Secure(j), gwPort'[j] = gwPort[j], leases'[j] = leases[j],
           ttl'[j] \in Nat, ttl'[j] >= ttl[j], Unmapping(j) => Unmapping(j)',
           InPass' = InPass, UNCHANGED <<cur, pass, nextAt>>,
           elapsed' = elapsed, Fault \/ faults' = faults
    PROVE  Secure(j)'
BY SecureFrame, StayOnTime

\* The loop of the daemon, on its own.
LEMMA KeptAlone ==
    ASSUME SysTypeOK, CallOK, Covered, Fresh, NEW j \in Held' \ wiped', ~cancelled',
           ~cancelled /\ j \in Held \ wiped => Secure(j),
           Alone \/ SysStartFails
    PROVE  Secure(j)'
<1>1. UNCHANGED <<gateway, link, leases, wiped, cancelled>>
  BY DEF Alone, SysStartFails, env, Start, Restart, Arm, Fire, Shutdown, Exit, Skip,
         NothingToRelease, StartFails
<1>2. j \in Req /\ j \in Held /\ Secure(j)
  BY <1>1 DEF Held
<1>3. gwPort'[j] = gwPort[j] /\ leases'[j] = leases[j] /\ UNCHANGED <<ttl, elapsed>>
  BY <1>1 DEF gateway, link
<1>4. CASE Start \/ Restart \/ SysStartFails
  BY <1>2, <1>4 DEF Start, Restart, SysStartFails, StartFails, Fresh
<1>5. ASSUME Shutdown \/ Exit \/ \E i \in Req : NothingToRelease(i) PROVE FALSE
  BY <1>1, <1>5 DEF Shutdown, Exit, NothingToRelease, CallOK
<1>6. CASE Alone /\ Arm
  <2>1. ~Unmapping(j) /\ call = "idle" /\ elapsed = 0 /\ faults' = faults
    BY <1>6 DEF Arm, Unmapping, CallOK, Alone, env
  <2>2. QED
    BY <1>2, <1>3, <1>6, <2>1, SleepOnTime, SecureFrame
<1>7. CASE Alone /\ Fire
  <2>1. ~Unmapping(j) /\ elapsed = 0 /\ faults' = faults /\ j \in scheduled
    BY <1>2, <1>7 DEF Fire, Unmapping, CallOK, Alone, env, Covered
  <2>2. QED
    BY <1>2, <1>3, <1>7, <2>1, WakeOnTime, SecureFrame
<1>8. ASSUME NEW i \in Req, Alone, Skip(i) PROVE Secure(j)'
  <2>1. /\ InPass /\ InPass' /\ cur = i /\ cur' = i + 1 /\ pass' = pass
        /\ pc = "pass" /\ i \notin pass
        /\ nextAt'[j] = nextAt[j] /\ elapsed' = 0 /\ faults' = faults
    BY <1>3, <1>8 DEF Skip, InPass, CallOK, Alone, env
  <2>2. QED
    BY <1>1, <1>2, <1>3, <2>1, SecurePassBy
<1>9. QED
  BY <1>4, <1>5, <1>6, <1>7, <1>8 DEF Alone
\* The client's steps: a renewal comes in, fails at the price of one setback, or
\* has not begun.
LEMMA KeptByClient ==
    ASSUME SysTypeOK, CallOK, AnswerOK, LeaseOutlastsRetries,
           NEW j \in Held' \ wiped', ~cancelled',
           ~cancelled /\ j \in Held \ wiped => Secure(j),
           NEW i \in Req, Client(i)
    PROVE  Secure(j)'
<1>1. UNCHANGED gateway /\ j \in Req
  BY ClientType DEF Held
<1>2. gwPort'[j] = gwPort[j] /\ ttl'[j] = ttl[j] /\ ttl'[j] \in Nat /\ ttl'[j] >= ttl[j]
  BY <1>1 DEF gateway, SysTypeOK
<1>3. ASSUME leases'[j] = leases[j], wiped' = wiped \/ (j # i /\ wiped' = wiped \ {i}),
             cancelled' = cancelled
      PROVE  Secure(j)
  BY <1>1, <1>3 DEF Held
<1>4. CASE AskMap(i) \/ AskUnmap(i)
  <2>1. /\ pc = "pass" /\ InPass /\ InPass' /\ cancelled' = cancelled
        /\ UNCHANGED <<cur, pass, leases, nextAt, wiped>>
        /\ Fault \/ faults' = faults
    BY <1>4
    DEF AskMap, AskUnmap, CallMap, CallUnmap, Visiting, InPass, Sees, Healthy, env
  <2>2. elapsed' = elapsed
    BY <1>4, <2>1 DEF AskMap, AskUnmap, Begin, CallOK
  <2>3. ~Unmapping(j) /\ Secure(j)
    BY <1>3, <2>1 DEF Unmapping
  <2>4. QED
    BY <1>1, <1>2, <2>1, <2>2, <2>3, SecureStay
<1>5. CASE AskExternalIP(i)
  <2>1. UNCHANGED <<vars, elapsed, env>>
    BY <1>5 DEF AskExternalIP
  <2>2. /\ InPass' = InPass /\ UNCHANGED <<cur, pass, leases, nextAt, elapsed, faults>>
        /\ Unmapping(j)' = Unmapping(j) /\ wiped' = wiped /\ cancelled' = cancelled
    BY <2>1 DEF vars, env, InPass, Unmapping
  <2>3. Secure(j)
    BY <1>3, <2>2
  <2>4. QED
    BY <1>1, <1>2, <2>2, <2>3, SecureStay
<1>6. CASE NoListener(i)
  <2>1. /\ pc = "pass" /\ pc' = "pass" /\ cur = i /\ cur' = i + 1 /\ pass' = pass
        /\ leases' = leases /\ leases[i] = NoPort /\ UNCHANGED <<link, env, cancelled>>
        /\ nextAt' = [nextAt EXCEPT ![i] = PollInterval]
    BY <1>6 DEF NoListener, PollLater, Visiting, Schedule, Advance
  <2>2. j # i /\ InPass /\ InPass' /\ elapsed' = 0 /\ faults' = faults /\ wiped' = wiped
    BY <1>1, <2>1 DEF Held, InPass, CallOK, link, env
  <2>3. leases'[j] = leases[j] /\ nextAt'[j] = nextAt[j]
    BY <1>1, <2>1, <2>2 DEF SysTypeOK, TypeOK
  <2>4. Secure(j)
    BY <1>3, <2>1, <2>2, <2>3
  <2>5. QED
    BY <1>1, <2>1, <2>2, <2>3, <2>4, SecurePassBy
<1>7. CASE MapReturns(i)
  <2>1. /\ pc = "map" /\ pc' = "pass" /\ cur = i /\ cur' = i + 1 /\ pass' = pass
        /\ leases' = [leases EXCEPT ![i] = answer.port] /\ UNCHANGED <<faults, cancelled>>
        /\ nextAt' = [nextAt EXCEPT ![i] = RenewBefore(answer.life)]
        /\ elapsed' = 0 /\ call = "confirm"
        /\ wiped' = IF AsAnswered(i) THEN wiped \ {i} ELSE wiped
    BY <1>7 DEF MapReturns, Granted, Schedule, Advance, HangUp
  <2>2. InPass /\ InPass'
    BY <2>1 DEF InPass
  <2>3. CASE j # i
    <3>1. leases'[j] = leases[j] /\ nextAt'[j] = nextAt[j]
      BY <1>1, <2>1, <2>3 DEF SysTypeOK, TypeOK
    <3>2. Secure(j)
      BY <1>3, <2>1, <2>3, <3>1
    <3>3. QED
      BY <1>1, <2>1, <2>2, <2>3, <3>1, <3>2, SecurePassBy
  <2>4. CASE j = i
    <3>1. answer.life \in Lifetime /\ AsAnswered(i)
      BY <2>1, <2>4 DEF AnswerOK, Answers
    <3>2. leases'[i] = answer.port /\ nextAt'[i] = RenewBefore(answer.life)
      BY <2>1 DEF SysTypeOK, TypeOK
    <3>3. OnTime(i)'
      BY <1>2, <2>1, <2>2, <2>4, <3>1, <3>2, RenewedOnTime DEF AsAnswered
    <3>4. gwPort'[i] = leases'[i]
      BY <1>2, <2>4, <3>1, <3>2 DEF AsAnswered
    <3>5. QED
      BY <2>4, <3>3, <3>4 DEF Secure
  <2>5. QED
    BY <2>3, <2>4
<1>8. CASE MapFails(i)
  <2>1. /\ pc = "map" /\ pc' = "pass" /\ cur = i /\ cur' = i + 1 /\ pass' = pass
        /\ leases' = leases /\ cancelled' = cancelled /\ wiped' = wiped
        /\ nextAt' = [nextAt EXCEPT ![i] = RetryBackoff] /\ elapsed' = 0
        /\ Fault
    BY <1>8 DEF MapFails, Refused, Schedule, Advance, HangUp
  <2>2. InPass /\ InPass' /\ leases'[j] = leases[j] /\ ~Unmapping(j)
    BY <2>1 DEF InPass, Unmapping
  <2>3. Secure(j)
    BY <1>3, <2>1, <2>2
  <2>4. CASE j # i
    <3>1. nextAt'[j] = nextAt[j]
      BY <1>1, <2>1, <2>4 DEF SysTypeOK, TypeOK
    <3>2. QED
      BY <1>1, <2>1, <2>2, <2>3, <2>4, <3>1, SecurePassBy
  <2>5. CASE j = i
    <3>1. Ahead(i)
      BY <2>1, <2>2, Places DEF Ahead, CallOK, SysTypeOK
    <3>2. nextAt'[i] = RetryBackoff
      BY <2>1 DEF SysTypeOK, TypeOK
    <3>3. OnTime(i) => OnTime(i)'
      BY <1>2, <2>1, <2>5, <3>1, <3>2, RefusedOnTime
    <3>4. QED
      BY <1>1, <1>2, <2>2, <2>3, <2>5, <3>3, SecureFrame
  <2>6. QED
    BY <2>4, <2>5
<1>9. CASE UnmapReturns(i)
  <2>1. /\ pc = "unmap" /\ pc' = "pass" /\ cur = i /\ cur' = i + 1 /\ pass' = pass
        /\ leases' = [leases EXCEPT ![i] = NoPort] /\ cancelled' = cancelled /\ wiped' = wiped
        /\ nextAt' = [nextAt EXCEPT ![i] = PollInterval] /\ elapsed' = 0
        /\ Fault \/ faults' = faults
    BY <1>9 DEF UnmapReturns, Unmapped, Schedule, Advance, HangUp, Healthy
  <2>2. InPass /\ InPass' /\ j # i
    BY <1>1, <2>1 DEF InPass, Held, SysTypeOK, TypeOK
  <2>3. leases'[j] = leases[j] /\ nextAt'[j] = nextAt[j]
    BY <1>1, <2>1, <2>2 DEF SysTypeOK, TypeOK
  <2>4. Secure(j)
    BY <1>3, <2>1, <2>3
  <2>5. QED
    BY <1>1, <2>1, <2>2, <2>3, <2>4, SecurePassBy
<1>10. ASSUME AskRelease(i) \/ ReleaseReturns(i) PROVE FALSE
  BY <1>10 DEF AskRelease, ReleaseReturns, Released, ReleaseFailed, CallOK, vars
<1>11. QED
  BY <1>4, <1>5, <1>6, <1>7, <1>8, <1>9, <1>10 DEF Client
\* Requests that are served, in time or late, and reboots.
LEMMA KeptAtGateway ==
    ASSUME SysTypeOK, CallOK, OnePort, LeaseOutlastsRetries,
           NEW j \in Held' \ wiped', ~cancelled',
           ~cancelled /\ j \in Held \ wiped => Secure(j),
           Reboot \/ \E i \in Req : Served(i) \/ Stray(i) \/ Bind(i)
    PROVE  Secure(j)'
<1>1. UNCHANGED vars /\ elapsed' = elapsed
  BY DEF Reboot, Served, ServeMap, ServeUnmap, Stray, Straggle, StrayMapArrives,
         StrayUnmapArrives, Bind, link
<1>2. /\ InPass' = InPass /\ UNCHANGED <<cur, pass, nextAt>> /\ Unmapping(j)' = Unmapping(j)
      /\ leases' = leases /\ ~cancelled /\ j \in Held /\ j \in Req
  BY <1>1 DEF vars, InPass, Unmapping, Held
<1>3. leases[j] # NoPort /\ ttl[j] \in Nat
  BY <1>2 DEF Held, SysTypeOK
<1>4. ASSUME gwPort'[j] = gwPort[j], ttl'[j] \in Nat, ttl'[j] >= ttl[j], wiped' = wiped,
             Fault \/ faults' = faults
      PROVE  Secure(j)'
  BY <1>1, <1>2, <1>4, SecureStay
<1>5. ASSUME NEW life \in Lifetime, ttl'[j] = life, cur = j, pc \in {"map", "unmap"},
             faults' = faults
      PROVE  OnTime(j)'
  <2>1. Ahead(j)
    BY <1>2, <1>5, Places DEF CallOK, Ahead, InPass, SysTypeOK
  <2>2. QED
    BY <1>1, <1>2, <1>5, <2>1, ServedOnTime
<1>6. ASSUME NEW i \in Req, ServeMap(i) PROVE Secure(j)'
  <2>1. PICK port \in Grants(i, mapRequest(i)), life \in Lifetime :
             gwPort' = [gwPort EXCEPT ![i] = port] /\ ttl' = [ttl EXCEPT ![i] = life]
    BY <1>6 DEF ServeMap
  <2>2. pc = "map" /\ cur = i /\ wiped' = wiped /\ faults' = faults
    BY <1>6 DEF ServeMap, env
  <2>3. CASE j # i
    BY <1>2, <1>3, <1>4, <2>1, <2>2, <2>3 DEF SysTypeOK
  <2>4. CASE j = i
    <3>1. gwPort[i] = leases[i]
      BY <1>2, <2>2, <2>4 DEF Secure, Unmapping
    <3>2. port = gwPort[i]
      BY <1>3, <2>4, <3>1, GrantFacts
    <3>3. gwPort'[i] = leases'[i] /\ ttl'[i] = life
      BY <1>2, <2>1, <3>1, <3>2 DEF SysTypeOK
    <3>4. QED
      BY <1>5, <2>2, <2>4, <3>3 DEF Secure
  <2>5. QED
    BY <2>3, <2>4
<1>7. ASSUME NEW i \in Req, ServeUnmap(i) PROVE Secure(j)'
  <2>1. pc = "unmap" /\ cur = i /\ wiped' = wiped /\ faults' = faults
    BY <1>2, <1>7 DEF ServeUnmap, env, CallOK
  <2>2. CASE j # i
    BY <1>2, <1>3, <1>4, <1>7, <2>1, <2>2 DEF ServeUnmap, SysTypeOK
  <2>3. CASE j = i
    BY <1>2, <1>7, <2>1, <2>3 DEF ServeUnmap, SysTypeOK, Secure, Unmapping
  <2>4. QED
    BY <2>2, <2>3
<1>8. ASSUME NEW i \in Req, Straggle(i) \/ Bind(i) PROVE Secure(j)'
  BY <1>3, <1>4, <1>8 DEF Straggle, Bind, gateway
<1>9. ASSUME NEW i \in Req, StrayMapArrives(i) PROVE Secure(j)'
  <2>1. PICK port \in Grants(i, stray.asked), life \in Lifetime :
             /\ gwPort' = [gwPort EXCEPT ![i] = port]
             /\ ttl' = [ttl EXCEPT ![i] = life]
             /\ wiped' = IF life < ttl[i] THEN wiped \cup {i} ELSE wiped
    BY <1>9 DEF StrayMapArrives
  <2>2. faults' = faults /\ life \in Nat /\ wiped \subseteq wiped'
    BY <1>9, <2>1, TimesAssumption DEF StrayMapArrives
  <2>3. Secure(j)
    BY <1>2, <2>2
  <2>4. CASE j # i
    <3>1. gwPort'[j] = gwPort[j] /\ ttl'[j] = ttl[j]
      BY <1>2, <2>1, <2>4 DEF SysTypeOK
    <3>2. QED
      BY <1>1, <1>2, <1>3, <2>2, <2>3, <3>1, SecureStay
  <2>5. CASE j = i /\ gwPort[i] # NoPort
    <3>1. port = gwPort[i] /\ life >= ttl[i]
      BY <1>3, <2>1, <2>2, <2>5, GrantFacts
    <3>2. gwPort'[j] = gwPort[j] /\ ttl'[j] = life
      BY <1>2, <2>1, <2>5, <3>1 DEF SysTypeOK
    <3>3. QED
      BY <1>1, <1>2, <2>2, <2>3, <2>5, <3>1, <3>2, SecureStay
  <2>6. CASE j = i /\ gwPort[i] = NoPort
    <3>1. Unmapping(j)
      BY <1>3, <2>3, <2>6 DEF Secure
    <3>2. ttl'[j] = life
      BY <2>1, <2>6 DEF SysTypeOK
    <3>3. QED
      BY <1>2, <1>5, <2>2, <3>1, <3>2 DEF Secure, Unmapping
  <2>7. QED
    BY <2>4, <2>5, <2>6
<1>10. ASSUME NEW i \in Req, StrayUnmapArrives(i) PROVE Secure(j)'
  <2>1. /\ gwPort' = [gwPort EXCEPT ![i] = NoPort] /\ ttl' = [ttl EXCEPT ![i] = 0]
        /\ wiped' = IF gwPort[i] = NoPort THEN wiped ELSE wiped \cup {i}
        /\ faults' = faults
    BY <1>10 DEF StrayUnmapArrives
  <2>2. Secure(j)
    BY <1>2, <2>1
  <2>3. CASE j # i
    <3>1. gwPort'[j] = gwPort[j] /\ ttl'[j] = ttl[j]
      BY <1>2, <2>1, <2>3 DEF SysTypeOK
    <3>2. QED
      BY <1>1, <1>2, <1>3, <2>1, <2>2, <3>1, SecureStay
  <2>4. CASE j = i
    BY <1>2, <2>1, <2>2, <2>4 DEF Secure, SysTypeOK
  <2>5. QED
    BY <2>3, <2>4
<1>11. CASE Reboot
  <2>1. gwPort[j] = NoPort /\ gwPort'[j] = NoPort /\ j \notin wiped
    BY <1>2, <1>11 DEF Reboot
  <2>2. QED
    BY <1>2, <2>1 DEF Secure
<1>12. QED
  BY <1>6, <1>7, <1>8, <1>9, <1>10, <1>11 DEF Served, Stray

\* Time passes, and no mapping runs out before its renewal.
LEMMA TickFacts ==
    ASSUME SysTypeOK, CallOK, Covered, TimerSoonest, Fresh, Kept, ~cancelled, SysTick,
           NEW j \in Held \ wiped
    PROVE  /\ gwPort[j] # NoPort => ttl[j] > 1 /\ OnTime(j)'
           /\ gwPort'[j] = gwPort[j]
           /\ Secure(j)'
<1>1. j \in Req /\ Secure(j) /\ Tick /\ faults' = faults /\ ttl'[j] = Less(ttl[j])
  BY DEF Held, Kept, SysTick, env
<1>2. gwPort'[j] = IF ttl[j] <= 1 THEN NoPort ELSE gwPort[j]
  BY <1>1 DEF SysTick
<1>3. ASSUME gwPort[j] # NoPort PROVE ttl[j] > 1 /\ OnTime(j)'
  <2>1. OnTime(j)
    BY <1>1, <1>3 DEF Secure
  <2>2. CASE Sleeping
    <3>1. j \in scheduled /\ timer <= nextAt[j] /\ timer > 0 /\ pc = "select"
      BY <1>1, <2>2 DEF Sleeping, Covered, TimerSoonest
    <3>2. nextAt[j] > 0
      BY <1>1, <3>1 DEF SysTypeOK, TypeOK
    <3>3. QED
      BY <1>1, <2>1, <3>1, <3>2, SleepTick
  <2>3. CASE Waiting
    <3>1. InPass /\ elapsed < MaxCall /\ elapsed' = elapsed + 1
      BY <2>3 DEF Waiting, CallOK, InPass, SysTick
    <3>2. QED
      BY <1>1, <2>1, <3>1, CallTick
  <2>4. CASE Absent
    BY <1>1, <2>4 DEF Absent, Fresh, CallOK
  <2>5. QED
    BY <2>2, <2>3, <2>4 DEF SysTick
<1>4. gwPort'[j] = gwPort[j]
  BY <1>1, <1>2, <1>3 DEF SysTypeOK
<1>5. leases'[j] = leases[j] /\ Unmapping(j)' = Unmapping(j)
  BY <1>1 DEF Tick, Unmapping
<1>6. Secure(j)'
  BY <1>1, <1>3, <1>4, <1>5 DEF Secure
<1>7. QED
  BY <1>3, <1>4, <1>6

LEMMA KeptStep ==
    /\ SysTypeOK /\ CallOK /\ OnePort /\ AnswerOK /\ Covered /\ TimerSoonest /\ Fresh /\ Kept
    /\ LeaseOutlastsRetries /\ [SysNext]_sysVars
    => Kept'
<1> SUFFICES ASSUME SysTypeOK, CallOK, OnePort, AnswerOK, Covered, TimerSoonest, Fresh, Kept,
                    LeaseOutlastsRetries, [SysNext]_sysVars,
                    ~cancelled', NEW j \in Held' \ wiped'
             PROVE  Secure(j)'
  BY DEF Kept
<1>1. ~cancelled /\ j \in Held \ wiped => Secure(j)
  BY DEF Kept
<1>2. CASE UNCHANGED sysVars
  <2>1. Secure(j)' = Secure(j)
    BY <1>2 DEF sysVars, vars, gateway, link, env, Secure, Unmapping, OnTime, Ahead, InPass,
                Reserve, Setback, Slot
  <2>2. QED
    BY <1>1, <1>2, <2>1 DEF sysVars, vars, env, Held
<1>3. CASE Alone \/ SysStartFails
  BY <1>1, <1>3, KeptAlone
<1>4. CASE \E i \in Req : Client(i)
  BY <1>1, <1>4, KeptByClient
<1>5. CASE Reboot \/ \E i \in Req : Served(i) \/ Stray(i) \/ Bind(i)
  BY <1>1, <1>5, KeptAtGateway
<1>6. CASE SysTick
  BY <1>6, TickFacts DEF SysTick, Tick, env, Held
<1>7. CASE SysCancel
  BY <1>7 DEF SysCancel, Cancel
<1>8. CASE SysCrash
  BY <1>8 DEF SysCrash, Crash, Memoryless, Held
<1>9. QED
  BY <1>2, <1>3, <1>4, <1>5, <1>6, <1>7, <1>8 DEF SysNext, SysProgram

\* What the steps of the system keep, together.
SysInv ==
    /\ SysTypeOK /\ CallOK /\ StrayOK /\ OnePort /\ Closing /\ AnswerOK
    /\ Covered /\ TimerSoonest /\ Accounted /\ Kept

LEMMA SysInvHolds == LeaseOutlastsRetries => (SysSpec => []SysInv)
<1> SUFFICES ASSUME LeaseOutlastsRetries PROVE SysSpec => []SysInv
  OBVIOUS
<1>1. SysInit => SysInv
  <2>1. SysInit => SysTypeOK /\ CallOK /\ StrayOK /\ OnePort /\ Closing /\ AnswerOK
    BY SysInitOK DEF SysInit, StrayOK, OnePort, Closing, AnswerOK
  <2>2. SysInit => Covered /\ TimerSoonest /\ Accounted /\ Kept
    BY DEF SysInit, Init, Covered, InPass, TimerSoonest, Accounted, Fresh, Collected,
           ExitAccounts, Held, Kept
  <2>3. QED
    BY <2>1, <2>2 DEF SysInv
<1>2. SysInv /\ [SysNext]_sysVars => SysInv'
  <2> SUFFICES ASSUME SysInv, [SysNext]_sysVars PROVE SysInv'
    OBVIOUS
  <2>1. SysTypeOK /\ TypeOK /\ Fresh /\ [Next]_vars
    BY DaemonStep DEF SysInv, SysTypeOK, Accounted
  <2>2. SysTypeOK' /\ CallOK' /\ StrayOK' /\ OnePort' /\ Closing' /\ AnswerOK'
    BY <2>1, SysTypeStep, CallStep, StrayStep, OnePortStep, ClosingStep, AnswerStep DEF SysInv
  <2>3. Covered' /\ TimerSoonest' /\ Accounted' /\ Kept'
    BY <2>1, CoveredStep, TimerStep, AccountedStep, KeptStep DEF SysInv
  <2>4. QED
    BY <2>2, <2>3 DEF SysInv
<1>3. QED
  BY <1>1, <1>2, PTL DEF SysSpec

\* However many exchanges fail within the budget the lifetimes allow for, until
\* it is told to stop the daemon records only what the gateway has installed:
\* every renewal comes in time.
THEOREM RecordedIsInstalledHolds == LeaseOutlastsRetries => (SysSpec => []RecordedIsInstalled)
<1>1. SysInv => RecordedIsInstalled
  BY DEF SysInv, Kept, Secure, RecordedIsInstalled, Installed
<1>2. QED
  BY <1>1, SysInvHolds, PTL
-----------------------------------------------------------------------------
(* The system implements Forwarding *)

\* What Forwarding does not see.
LEMMA PromiseStutter ==
    ASSUME UNCHANGED <<gwPort, leases, wiped, cancelled, Struck>>
    PROVE  UNCHANGED Promise!vars
BY DEF Promise!vars

\* A fault that loses a request or an answer, and at most a gated record.
LEMMA PromiseLoss ==
    ASSUME SysTypeOK, StrayOK, Fault, UNCHANGED <<gwPort, wiped, cancelled, stray>>,
           leases' = leases \/ \E i \in Gated : leases' = [leases EXCEPT ![i] = NoPort]
    PROVE  Promise!Next
<1>1. Struck' = Struck + 1
  BY MishapFacts
<1>2. QED
  BY <1>1 DEF Promise!Next, Promise!Mishap, Promise!Loss

\* A step that may have cost a fault, and that Forwarding sees only as that.
LEMMA PromiseHidden ==
    ASSUME SysTypeOK, StrayOK, Fault \/ Healthy,
           UNCHANGED <<gwPort, leases, wiped, cancelled, stray>>
    PROVE  Promise!Next \/ UNCHANGED Promise!vars
<1>1. CASE Fault
  BY <1>1, PromiseLoss
<1>2. CASE Healthy
  BY <1>2, MishapFacts, PromiseStutter DEF Healthy
<1>3. QED
  BY <1>1, <1>2

\* The daemon's side: putting on record, striking off the record.
LEMMA PromiseClient ==
    ASSUME SysInv, NEW i \in Req, Client(i)
    PROVE  Promise!Next \/ UNCHANGED Promise!vars
<1>0. SysTypeOK /\ TypeOK /\ CallOK /\ StrayOK /\ gwPort' = gwPort /\ stray' = stray
  BY ClientType DEF SysInv, SysTypeOK, gateway
<1>1. CASE AskMap(i)
  BY <1>0, <1>1, PromiseHidden DEF AskMap, Sees, CallMap
<1>2. CASE NoListener(i) \/ AskUnmap(i) \/ AskExternalIP(i) \/ AskRelease(i)
  BY <1>0, <1>2, PromiseStutter
  DEF NoListener, AskUnmap, AskExternalIP, AskRelease, PollLater, CallUnmap, vars, env, Struck
<1>3. CASE MapReturns(i)
  <2>1. /\ leases' = [leases EXCEPT ![i] = answer.port] /\ pc = "map" /\ cur = i
        /\ call = "confirm" /\ wiped' = IF AsAnswered(i) THEN wiped \ {i} ELSE wiped
        /\ UNCHANGED <<cancelled, faults, reboots>>
    BY <1>3 DEF MapReturns, Granted
  <2>2. answer.port \in Port /\ (gwPort[i] = answer.port \/ i \in wiped)
    BY <2>1 DEF SysInv, AnswerOK, Answers, AsAnswered
  <2>3. wiped' \in {wiped} \cup (IF gwPort[i] = answer.port THEN {wiped \ {i}} ELSE {})
    BY <2>1 DEF AsAnswered
  <2>4. Struck' = Struck
    BY <1>0, <2>1, MishapFacts
  <2>5. Promise!Record(i)
    BY <1>0, <2>1, <2>2, <2>3, <2>4 DEF Promise!Record
  <2>6. QED
    BY <2>5 DEF Promise!Next
<1>4. CASE MapFails(i)
  BY <1>0, <1>4, PromiseHidden DEF MapFails, Refused
<1>5. CASE UnmapReturns(i)
  <2>1. /\ leases' = [leases EXCEPT ![i] = NoPort] /\ pc = "unmap" /\ cur = i
        /\ UNCHANGED <<cancelled, wiped>>
    BY <1>5 DEF UnmapReturns, Unmapped
  <2>2. i \in Gated
    BY <1>0, <2>1 DEF CallOK
  <2>3. CASE Fault
    BY <1>0, <2>1, <2>2, <2>3, PromiseLoss
  <2>4. CASE call = "served" /\ Healthy
    <3>1. gwPort[i] = NoPort \/ Struck > 0
      BY <2>1, <2>4 DEF SysInv, Closing
    <3>2. Struck' = Struck
      BY <1>0, <2>4, MishapFacts DEF Healthy
    <3>3. Promise!Forget(i)
      BY <1>0, <2>1, <2>2, <3>1, <3>2 DEF Promise!Forget, Promise!Closed
    <3>4. QED
      BY <3>3 DEF Promise!Next
  <2>5. QED
    BY <1>5, <2>3, <2>4 DEF UnmapReturns
<1>6. CASE ReleaseReturns(i)
  <2>1. pc = "release" /\ cur = i /\ UNCHANGED <<cancelled, wiped>> /\ cancelled
    BY <1>0, <1>6 DEF ReleaseReturns, Released, ReleaseFailed, CallOK
  <2>2. CASE ReleaseFailed(i) /\ Fault
    BY <1>0, <2>1, <2>2, PromiseLoss DEF ReleaseFailed
  <2>3. CASE Released(i) /\ call = "served" /\ Healthy
    <3>1. gwPort[i] = NoPort \/ Struck > 0
      BY <2>1, <2>3 DEF SysInv, Closing
    <3>2. Struck' = Struck /\ leases' = [leases EXCEPT ![i] = NoPort]
      BY <1>0, <2>3, MishapFacts DEF Healthy, Released
    <3>3. Promise!Forget(i)
      BY <1>0, <2>1, <3>1, <3>2 DEF Promise!Forget, Promise!Closed
    <3>4. QED
      BY <3>3 DEF Promise!Next
  <2>4. QED
    BY <1>6, <2>2, <2>3 DEF ReleaseReturns
<1>7. QED
  BY <1>1, <1>2, <1>3, <1>4, <1>5, <1>6 DEF Client

\* The gateway's side: opening, closing, and requests that come late.
LEMMA PromiseGateway ==
    ASSUME SysInv, NEW i \in Req, Served(i) \/ Stray(i) \/ Bind(i)
    PROVE  Promise!Next \/ UNCHANGED Promise!vars
<1>0. SysTypeOK /\ TypeOK /\ CallOK /\ StrayOK /\ OnePort /\ UNCHANGED <<leases, cancelled>>
  BY DEF SysInv, SysTypeOK, Served, ServeMap, ServeUnmap, Stray, Straggle, StrayMapArrives,
         StrayUnmapArrives, Bind, vars
<1>1. CASE ServeMap(i)
  <2>1. PICK port \in Grants(i, mapRequest(i)) : gwPort' = [gwPort EXCEPT ![i] = port]
    BY <1>1 DEF ServeMap
  <2>2. Struck' = Struck /\ wiped' = wiped
    BY <1>0, <1>1, MishapFacts DEF ServeMap, env
  <2>3. port \in Port \ Taken(i) /\ (gwPort[i] # NoPort => port = gwPort[i])
    BY <1>0, GrantFacts
  <2>4. CASE gwPort[i] # NoPort
    <3>1. gwPort' = gwPort
      BY <1>0, <2>1, <2>3, <2>4 DEF SysTypeOK
    <3>2. QED
      BY <1>0, <2>2, <3>1, PromiseStutter
  <2>5. CASE gwPort[i] = NoPort
    <3>1. Promise!Open(i)
      BY <1>0, <2>1, <2>2, <2>3, <2>5 DEF Promise!Open, Promise!Closed, Taken
    <3>2. QED
      BY <3>1 DEF Promise!Next
  <2>6. QED
    BY <2>4, <2>5
<1>2. CASE ServeUnmap(i)
  <2>1. /\ gwPort' = [gwPort EXCEPT ![i] = NoPort] /\ wiped' = wiped
        /\ cur = i /\ call = "sent" /\ pc \in {"unmap", "release"}
    BY <1>2 DEF ServeUnmap, env
  <2>2. Struck' = Struck
    BY <1>0, <1>2, MishapFacts DEF ServeUnmap, env
  <2>3. i \in Gated \/ cancelled
    BY <1>0, <2>1 DEF CallOK
  <2>4. leases[i] # NoPort
    BY <1>0, <2>1 DEF CallOK, Held
  <2>5. Promise!Close(i)
    BY <1>0, <2>1, <2>2, <2>3, <2>4 DEF Promise!Close
  <2>6. QED
    BY <2>5 DEF Promise!Next
<1>3. CASE Straggle(i)
  <2>1. UNCHANGED <<gwPort, wiped>> /\ stray = NoStray /\ stray' # NoStray /\ Fault
    BY <1>3 DEF Straggle, NoStray, gateway
  <2>2. Struck' = Struck
    BY <1>0, <2>1, SystemAssumption DEF Struck, Fault, SysTypeOK
  <2>3. QED
    BY <1>0, <2>1, <2>2, PromiseStutter
<1>4. ASSUME StrayMapArrives(i) \/ StrayUnmapArrives(i) PROVE Struck' = Struck + 1
  <2>1. stray # NoStray /\ stray' = NoStray /\ faults' = faults /\ reboots' = reboots
    BY <1>4 DEF StrayMapArrives, StrayUnmapArrives, NoStray
  <2>2. QED
    BY <1>0, <2>1, SystemAssumption DEF Struck, SysTypeOK
<1>5. CASE StrayMapArrives(i)
  <2>1. PICK port \in Grants(i, stray.asked) : gwPort' = [gwPort EXCEPT ![i] = port]
    BY <1>5 DEF StrayMapArrives
  <2>2. port \in Port \ Taken(i) /\ (gwPort[i] # NoPort => port = gwPort[i])
    BY <1>0, GrantFacts
  <2>3. wiped' \in {wiped, wiped \cup {i}}
    BY <1>5 DEF StrayMapArrives
  <2>4. Promise!LateMap(i)
    BY <1>0, <2>1, <2>2, <2>3 DEF Promise!LateMap, Promise!Closed, Taken
  <2>5. QED
    BY <1>4, <1>5, <2>4 DEF Promise!Next, Promise!Mishap
<1>6. CASE StrayUnmapArrives(i)
  <2>1. Promise!EndsEarly(i)
    BY <1>0, <1>6 DEF StrayUnmapArrives, Promise!EndsEarly, Promise!Closed
  <2>2. QED
    BY <1>4, <1>6, <2>1 DEF Promise!Next, Promise!Mishap
<1>7. CASE Bind(i)
  BY <1>0, <1>7, MishapFacts, PromiseStutter DEF Bind, gateway
<1>8. QED
  BY <1>1, <1>2, <1>3, <1>5, <1>6, <1>7 DEF Served, Stray

\* Every step of the system is a step of Forwarding, or one it does not see.
LEMMA PromiseStep ==
    SysInv /\ LeaseOutlastsRetries /\ [SysNext]_sysVars => [Promise!Next]_(Promise!vars)
<1> SUFFICES ASSUME SysInv, LeaseOutlastsRetries, [SysNext]_sysVars
             PROVE  Promise!Next \/ UNCHANGED Promise!vars
  OBVIOUS
<1>0. SysTypeOK /\ TypeOK /\ CallOK /\ StrayOK
  BY DEF SysInv, SysTypeOK
<1>1. CASE UNCHANGED sysVars
  BY <1>0, <1>1, MishapFacts, PromiseStutter DEF sysVars, vars, gateway, env
<1>2. CASE Alone
  <2>1. UNCHANGED <<leases, cancelled>>
    BY <1>2 DEF Alone, Start, Restart, Arm, Fire, Shutdown, Exit, Skip, NothingToRelease
  <2>2. QED
    BY <1>0, <1>2, <2>1, MishapFacts, PromiseStutter DEF Alone, gateway, env
<1>3. CASE SysStartFails
  BY <1>0, <1>3, PromiseHidden DEF SysStartFails, StartFails, gateway
<1>4. CASE \E i \in Req : Client(i)
  BY <1>4, PromiseClient
<1>5. CASE \E i \in Req : Served(i) \/ Stray(i) \/ Bind(i)
  BY <1>5, PromiseGateway
<1>6. CASE SysCrash
  <2>1. Struck' = Struck + 1
    BY <1>0, <1>6, MishapFacts DEF SysCrash
  <2>2. Promise!Crash
    BY <1>6 DEF SysCrash, Crash, Memoryless, gateway, Promise!Crash
  <2>3. QED
    BY <2>1, <2>2 DEF Promise!Next, Promise!Mishap
<1>7. CASE Reboot
  <2>1. Struck' = Struck + 1
    BY <1>0, <1>7, SystemAssumption DEF Reboot, Struck, SysTypeOK
  <2>2. Promise!Reboot
    BY <1>7 DEF Reboot, vars, Promise!Reboot, Promise!Closed
  <2>3. QED
    BY <2>1, <2>2 DEF Promise!Next, Promise!Mishap
<1>8. CASE SysTick
  <2> DEFINE expired == {i \in Req : gwPort[i] # NoPort /\ ttl[i] <= 1}
  <2>1. UNCHANGED <<leases, cancelled, wiped, Struck>>
    BY <1>0, <1>8, MishapFacts DEF SysTick, Tick, env
  <2>2. \A i \in expired : leases[i] = NoPort \/ i \in wiped \/ cancelled
    <3> SUFFICES ASSUME NEW i \in Held \ wiped, ~cancelled, gwPort[i] # NoPort
                 PROVE  ttl[i] > 1
      BY <1>0 DEF Held, SysTypeOK
    <3>1. QED
      BY <1>0, <1>8, TickFacts DEF SysInv, Accounted
  <2>3. gwPort' = [i \in Req |-> IF i \in expired THEN NoPort ELSE gwPort[i]]
    BY <1>8 DEF SysTick
  <2>4. Promise!Expire(expired)
    BY <2>1, <2>2, <2>3 DEF Promise!Expire
  <2>5. expired \in SUBSET Req
    OBVIOUS
  <2>6. QED
    BY <2>4, <2>5 DEF Promise!Next
<1>9. CASE SysCancel
  <2>1. Promise!Stop
    BY <1>0, <1>9, MishapFacts DEF SysCancel, Cancel, gateway, env, Promise!Stop
  <2>2. QED
    BY <2>1 DEF Promise!Next
<1>10. QED
  BY <1>1, <1>2, <1>3, <1>4, <1>5, <1>6, <1>7, <1>8, <1>9 DEF SysNext, SysProgram

\* Daemon, client and gateway together implement Forwarding: what is on record
\* stays open until it is not wanted, the daemon is told to stop, or one of the
\* mishaps strikes, and each mishap strikes once.
THEOREM KeepsItsPromiseHolds == LeaseOutlastsRetries => (SysSpec => KeepsItsPromise)
<1> SUFFICES ASSUME LeaseOutlastsRetries PROVE SysSpec => KeepsItsPromise
  OBVIOUS
<1>1. SysInit => Promise!Init
  BY DEF SysInit, Init, Promise!Init, Struck
<1>2. SysInv /\ [SysNext]_sysVars => [Promise!Next]_(Promise!vars)
  BY PromiseStep
<1>3. QED
  BY <1>1, <1>2, SysInvHolds, PTL DEF SysSpec, KeepsItsPromise, Promise!Spec
=============================================================================
