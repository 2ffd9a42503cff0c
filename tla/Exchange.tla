------------------------------ MODULE Exchange ------------------------------
(***************************************************************************)
(* One request and its answer over UDP: exchange of the NAT-PMP client and *)
(* exchangeOn of the PCP client, which are the same loop.  The request is  *)
(* sent up to MaxAttempts times; the wait for an answer doubles after each *)
(* attempt; datagrams that are not from the gateway are skipped, and too   *)
(* many of them end the attempt.                                           *)
(*                                                                         *)
(* The network loses requests and answers, delays requests beyond the      *)
(* exchange and lets anybody send to the client's socket.  A datagram that *)
(* is neither lost nor delayed arrives before time moves on.  The socket   *)
(* is opened for this exchange, so no answer to another one reaches it.    *)
(***************************************************************************)
EXTENDS Naturals, Sequences

CONSTANTS
    InitialTimeout,  \* initialTimeout, in ticks
    MaxAttempts,     \* maxAttempts
    Backoff,         \* Backoff[n]: initialTimeout doubled n times
    MaxIgnored,      \* maxIgnoredResponses
    CtxTimes,        \* what a context's deadline may leave; more than the whole
                     \* backoff takes stands for a context without a deadline
    Buffer,          \* bound: datagrams waiting in the socket
    MaxMishaps       \* bound: requests and answers lost or delayed, I/O errors

ASSUME ExchangeAssumption ==
    /\ InitialTimeout \in Nat \ {0}
    /\ MaxAttempts \in Nat \ {0}
    /\ Backoff \in [0 .. MaxAttempts -> Nat]
    /\ Backoff[0] = InitialTimeout
    /\ \A n \in 0 .. MaxAttempts - 1 : Backoff[n + 1] = 2 * Backoff[n]
    /\ MaxIgnored \in Nat \ {0}
    /\ CtxTimes \subseteq Nat
    /\ Buffer \in Nat /\ MaxMishaps \in Nat

VARIABLES
    pc,         \* "check", "send", "poll", "read", "returned"
    attempt,    \* attempts begun and ended
    timeout,    \* how long the current attempt waits
    readLeft,   \* time left until the socket's read deadline
    ignored,    \* datagrams skipped in this attempt
    outcome,    \* what exchange returned
    cancelled,  \* the context was cancelled
    ctxLeft,    \* time left until the context's deadline
    elapsed,    \* time since the call (history)
    toGw,       \* requests on their way to the gateway
    late,       \* requests delayed on their way
    inbox,      \* what waits in the socket: "reply", "short" or "foreign"
    served,     \* requests the gateway has answered (history)
    lost,       \* mishaps so far (history)
    foreign,    \* foreign datagrams read, up to a full flood (history)
    sentAfter   \* requests sent although the context was cancelled (history)

client  == <<pc, attempt, timeout, readLeft, ignored, outcome>>
time    == <<ctxLeft, elapsed>>
network == <<toGw, late, inbox, served, lost>>
vars    == <<client, cancelled, time, network, foreign, sentAfter>>

Shorter(m, n) == IF m < n THEN m ELSE n
Less(n)       == IF n = 0 THEN 0 ELSE n - 1
Flood         == MaxAttempts * MaxIgnored

TypeOK ==
    /\ pc \in {"check", "send", "poll", "read", "returned"}
    /\ attempt \in 0 .. MaxAttempts
    /\ timeout \in Nat /\ readLeft \in Nat
    /\ ignored \in 0 .. MaxIgnored
    /\ outcome \in {"none", "answer", "short", "ctx", "io", "exhausted"}
    /\ cancelled \in BOOLEAN
    /\ ctxLeft \in Nat /\ elapsed \in Nat
    /\ toGw \in Nat /\ late \in Nat /\ served \in Nat /\ sentAfter \in Nat
    /\ lost \in 0 .. MaxMishaps
    /\ foreign \in 0 .. Flood
    /\ inbox \in Seq({"reply", "short", "foreign"})

Init ==
    /\ pc = "check" /\ attempt = 0 /\ ignored = 0 /\ outcome = "none"
    /\ timeout = InitialTimeout /\ readLeft = 0
    /\ cancelled = FALSE /\ ctxLeft \in CtxTimes /\ elapsed = 0
    /\ toGw = 0 /\ late = 0 /\ inbox = <<>> /\ served = 0 /\ lost = 0
    /\ foreign = 0 /\ sentAfter = 0

-----------------------------------------------------------------------------
(* The client's loop *)

Return(result) == pc' = "returned" /\ outcome' = result

\* ctx.Err() is not nil.  At the very instant of its deadline the context's
\* timer may or may not have fired yet.
MayBeDone   == cancelled \/ ctxLeft = 0
NeverAsked  == TRUE   \* (slip: ctx.Err() is not consulted)
MayBeAlive  == ~cancelled

\* ctx.Err() before an attempt, and after the last.
GiveUp ==
    /\ pc \in {"check", "poll"} /\ MayBeDone
    /\ Return("ctx")
    /\ UNCHANGED <<attempt, timeout, readLeft, ignored, cancelled, time, network, foreign, sentAfter>>

Exhausted ==
    /\ pc = "check" /\ attempt = MaxAttempts /\ MayBeAlive
    /\ Return("exhausted")
    /\ UNCHANGED <<attempt, timeout, readLeft, ignored, cancelled, time, network, foreign, sentAfter>>

Attempt ==
    /\ pc = "check" /\ attempt < MaxAttempts /\ MayBeAlive
    /\ pc' = "send"
    /\ UNCHANGED <<attempt, timeout, readLeft, ignored, outcome, cancelled, time, network, foreign, sentAfter>>

WaitOnly(wait, ctx) == wait   \* (slip: the context's deadline is not looked at)
CtxOnly(wait, ctx)  == ctx    \* (slip: the context's deadline replaces the wait)
FirstWait(wait, ctx) ==       \* (slip: every attempt waits as long as the first)
    Shorter(InitialTimeout, ctx)

\* The attempt waits until the context's deadline if that comes first.
ReadDeadline(wait, ctx) == Shorter(wait, ctx)

Send ==
    /\ pc = "send"
    /\ pc' = "poll" /\ ignored' = 0
    /\ readLeft' = ReadDeadline(timeout, ctxLeft)
    /\ toGw' = toGw + 1
    /\ sentAfter' = IF cancelled THEN sentAfter + 1 ELSE sentAfter
    /\ UNCHANGED <<attempt, timeout, outcome, cancelled, time, late, inbox, served, lost, foreign>>

\* Dial, WriteToUDPAddrPort or ReadFromUDPAddrPort fails (SetReadDeadline too:
\* the request is out by then, as when the read fails).
IOError ==
    /\ pc \in {"send", "read"} \/ (pc = "check" /\ attempt = 0)
    /\ lost < MaxMishaps
    /\ lost' = lost + 1
    /\ Return("io")
    /\ UNCHANGED <<attempt, timeout, readLeft, ignored, cancelled, time,
                   toGw, late, inbox, served, foreign, sentAfter>>

Poll ==
    /\ pc = "poll" /\ MayBeAlive
    /\ pc' = "read"
    /\ UNCHANGED <<attempt, timeout, readLeft, ignored, outcome, cancelled, time, network, foreign, sentAfter>>

NextAttempt ==
    /\ pc' = "check" /\ attempt' = attempt + 1 /\ timeout' = 2 * timeout

ReadTimeout ==
    /\ pc = "read" /\ readLeft = 0
    /\ NextAttempt
    /\ UNCHANGED <<readLeft, ignored, outcome, cancelled, time, network, foreign, sentAfter>>

Take(kind) ==
    /\ pc = "read" /\ inbox # <<>> /\ Head(inbox) = kind
    /\ inbox' = Tail(inbox)
    /\ UNCHANGED <<readLeft, cancelled, time, toGw, late, served, lost, sentAfter>>

\* (slip: the first foreign datagram ends the attempt)
ReadForeignGivesUp ==
    /\ Take("foreign")
    /\ ignored' = ignored
    /\ foreign' = Shorter(foreign + 1, Flood)
    /\ NextAttempt
    /\ UNCHANGED outcome

\* (slip: skipped datagrams are not counted)
ReadForeignUncounted ==
    /\ Take("foreign")
    /\ foreign' = Shorter(foreign + 1, Flood)
    /\ pc' = "poll"
    /\ UNCHANGED <<attempt, timeout, ignored, outcome>>

\* from is not the gateway: skip the datagram, up to MaxIgnored of them.
ReadForeign ==
    /\ Take("foreign")
    /\ ignored' = ignored + 1
    /\ foreign' = Shorter(foreign + 1, Flood)
    /\ IF ignored + 1 >= MaxIgnored
       THEN NextAttempt
       ELSE pc' = "poll" /\ UNCHANGED <<attempt, timeout>>
    /\ UNCHANGED outcome

ReadShort ==
    /\ Take("short")
    /\ Return("short")
    /\ UNCHANGED <<attempt, timeout, ignored, foreign>>

\* (slip: the sender is not compared with the gateway)
ReadAnything ==
    /\ \E kind \in {"reply", "foreign"} : Take(kind)
    /\ Return("answer")
    /\ UNCHANGED <<attempt, timeout, ignored, foreign>>

ReadAnswer ==
    /\ Take("reply")
    /\ Return("answer")
    /\ UNCHANGED <<attempt, timeout, ignored, foreign>>

-----------------------------------------------------------------------------
(* The network and the gateway *)

Mishap == lost < MaxMishaps /\ lost' = lost + 1

LoseRequest ==
    /\ toGw > 0 /\ Mishap
    /\ toGw' = toGw - 1
    /\ UNCHANGED <<client, cancelled, time, late, inbox, served, foreign, sentAfter>>

DelayRequest ==
    /\ toGw > 0 /\ Mishap
    /\ toGw' = toGw - 1 /\ late' = late + 1
    /\ UNCHANGED <<client, cancelled, time, inbox, served, foreign, sentAfter>>

Arrive(kind) ==
    inbox' = IF pc = "returned" THEN inbox ELSE Append(inbox, kind)

\* The gateway processes a request, perhaps after the client has given up, and
\* answers: in full, with a bare header, or with an answer that is lost.
Serve ==
    /\ \/ toGw > 0 /\ toGw' = toGw - 1 /\ late' = late
       \/ late > 0 /\ late' = late - 1 /\ toGw' = toGw
    /\ served' = served + 1
    /\ \/ \E kind \in {"reply", "short"} : Arrive(kind) /\ lost' = lost
       \/ Mishap /\ UNCHANGED inbox
    /\ UNCHANGED <<client, cancelled, time, foreign, sentAfter>>

\* Anybody may send to the socket.
Intrude ==
    /\ pc # "returned" /\ Len(inbox) < Buffer
    /\ Arrive("foreign")
    /\ UNCHANGED <<client, cancelled, time, toGw, late, served, lost, foreign, sentAfter>>

\* A signal, or the caller of a bounded call, cancels the context.
Cancel ==
    /\ ~cancelled /\ pc # "returned"
    /\ cancelled' = TRUE
    /\ UNCHANGED <<client, time, network, foreign, sentAfter>>

\* Only the blocked read takes time, and it ends at the read deadline.
Tick ==
    /\ pc = "read" /\ inbox = <<>> /\ toGw = 0 /\ readLeft > 0
    /\ readLeft' = readLeft - 1
    /\ ctxLeft' = Less(ctxLeft)
    /\ elapsed' = elapsed + 1
    /\ UNCHANGED <<pc, attempt, timeout, ignored, outcome, cancelled, network, foreign, sentAfter>>

-----------------------------------------------------------------------------
Loop ==
    \/ GiveUp \/ Exhausted \/ Attempt \/ Send \/ IOError \/ Poll
    \/ ReadTimeout \/ ReadForeign \/ ReadShort \/ ReadAnswer

Next == Loop \/ LoseRequest \/ DelayRequest \/ Serve \/ Intrude \/ Cancel \/ Tick

\* The goroutine runs, the gateway answers what reaches it, and time passes.
Spec == Init /\ [][Next]_vars /\ WF_vars(Loop) /\ WF_vars(Serve) /\ WF_vars(Tick)

-----------------------------------------------------------------------------
(* Properties *)

\* An attempt begins no later than the waits before it add up to, and the fourth
\* is the last, so a call takes 250 ms doubling four times, 3.75 s, at most.
Paced == pc \in {"check", "send"} => elapsed + InitialTimeout <= timeout

\* An exchange that gives up though no flood cut an attempt short and the context
\* left it time has made every attempt and waited out each one's doubled timeout:
\* an answer that takes its time is given all of it, and not more.
WaitsItOut ==
    outcome = "exhausted" /\ foreign < MaxIgnored /\ ctxLeft > 0
        => elapsed + InitialTimeout = Backoff[MaxAttempts]

\* No read waits past the deadline of the context (the detection timeout, the
\* release timeout).
NeverPastDeadline == [][elapsed' # elapsed => ctxLeft > 0]_vars

\* The exchange gives up for want of an answer only if every attempt lost its
\* request or its answer or was flooded by a full measure of foreign datagrams,
\* or the context's time is up.
GivesUpOnlyWhenSilent ==
    outcome = "exhausted" => lost + foreign \div MaxIgnored >= MaxAttempts \/ ctxLeft = 0

\* What is accepted as the answer comes from the gateway, which has therefore
\* processed the request.
AnswerMeansServed == outcome \in {"answer", "short"} => served > 0

\* Once the context is cancelled, at most the request that was about to be
\* written still goes out.
CancelStopsSending == sentAfter <= 1

\* The exchange always ends, under any flood of foreign datagrams.
Terminates == <>(pc = "returned")
=============================================================================
