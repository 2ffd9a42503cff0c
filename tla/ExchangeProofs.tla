--------------------------- MODULE ExchangeProofs ---------------------------
(***************************************************************************)
(* Proofs about Exchange, for every timeout, number of attempts, limit on  *)
(* foreign datagrams and context: how long an exchange takes, what it      *)
(* still sends and accepts once it should not, and when it gives up.       *)
(***************************************************************************)
EXTENDS Exchange, TLAPS

\* What an exchange still has of its time: an attempt begins when the waits
\* before it are over at the latest, and a read ends with its own wait, and
\* with the context's time.
OnSchedule ==
    /\ pc \in {"check", "send"} => elapsed + InitialTimeout <= timeout
    /\ pc \in {"poll", "read"} =>
          /\ elapsed + readLeft + InitialTimeout <= 2 * timeout
          /\ readLeft <= ctxLeft

\* A request that went out after the cancellation was the last one.
LastRequest == sentAfter = 0 \/ (sentAfter = 1 /\ cancelled /\ pc # "send")

\* An answer in the socket, or taken from it, is one the gateway gave.
Answered ==
    /\ outcome \in {"answer", "short"} => served > 0
    /\ \A n \in 1 .. Len(inbox) : inbox[n] # "foreign" => served > 0

\* The numbers that only grow stay numbers.
LEMMA LessIsNat == \A n \in Nat : Less(n) \in Nat /\ Less(n) <= n
BY DEF Less

\* A datagram taken from the socket is its first.
LEMMA TakeFacts ==
    ASSUME TypeOK, NEW kind, Take(kind)
    PROVE  /\ Len(inbox) > 0 /\ kind = inbox[1]
           /\ inbox' \in Seq({"reply", "short", "foreign"})
           /\ Len(inbox') = Len(inbox) - 1
           /\ \A n \in 1 .. Len(inbox') : inbox'[n] = inbox[n + 1]
BY DEF TypeOK, Take

\* What the bounds have to be for the counters to stay within them.
LEMMA Bounds ==
    /\ InitialTimeout \in Nat /\ InitialTimeout > 0
    /\ MaxAttempts \in Nat /\ MaxIgnored \in Nat /\ MaxIgnored > 0 /\ MaxMishaps \in Nat
    /\ Flood \in Nat
    /\ 0 \in 0 .. MaxIgnored /\ 0 \in 0 .. MaxMishaps /\ 0 \in 0 .. Flood
    /\ \A n \in 0 .. Flood : Shorter(n + 1, Flood) \in 0 .. Flood
    /\ \A n \in 0 .. MaxMishaps : n < MaxMishaps => n + 1 \in 0 .. MaxMishaps
<1>1. MaxAttempts * MaxIgnored \in Nat
  BY ExchangeAssumption
<1>2. QED
  BY <1>1, ExchangeAssumption DEF Flood, Shorter

\* Wherever an attempt can end one is under way, and no flood has ended it.
Attempting ==
    /\ pc \in {"send", "poll", "read"} => attempt < MaxAttempts
    /\ pc \in {"poll", "read"} => ignored < MaxIgnored

Sound == TypeOK /\ Attempting /\ OnSchedule /\ LastRequest /\ Answered

-----------------------------------------------------------------------------
(* The invariant, step by step *)

LEMMA LoopStep == Sound /\ Loop => Sound'
<1> SUFFICES ASSUME Sound, Loop PROVE Sound'
  OBVIOUS
<1> USE Bounds DEF Sound, TypeOK, Attempting, OnSchedule, LastRequest, Answered,
                   client, time, network
<1>1. CASE GiveUp \/ Exhausted \/ Attempt \/ Poll
  BY <1>1 DEF GiveUp, Exhausted, Attempt, Poll, Return, MayBeAlive
<1>2. CASE Send
  <2>1. Shorter(timeout, ctxLeft) \in Nat
        /\ Shorter(timeout, ctxLeft) <= timeout /\ Shorter(timeout, ctxLeft) <= ctxLeft
    BY DEF Shorter
  <2>2. TypeOK'
    BY <1>2, <2>1 DEF Send, ReadDeadline
  <2>3. Attempting'
    BY <1>2 DEF Send
  <2>4. Answered'
    BY <1>2 DEF Send
  <2>5. OnSchedule'
    BY <1>2, <2>1 DEF Send, ReadDeadline
  <2>6. LastRequest'
    BY <1>2 DEF Send
  <2>7. QED
    BY <2>2, <2>3, <2>4, <2>5, <2>6
<1>3. CASE IOError
  BY <1>3 DEF IOError, Return
<1>4. CASE ReadTimeout
  BY <1>4 DEF ReadTimeout, NextAttempt
<1>5. CASE ReadForeign
  <2>1. Take("foreign")
    BY <1>5 DEF ReadForeign
  <2>2. Answered'
    BY <1>5, <2>1, TakeFacts DEF ReadForeign, Take
  <2>3. TypeOK' /\ Attempting'
    BY <1>5, <2>1, TakeFacts DEF ReadForeign, Take, NextAttempt
  <2>4. OnSchedule' /\ LastRequest'
    BY <1>5, <2>1 DEF ReadForeign, Take, NextAttempt
  <2>5. QED
    BY <2>2, <2>3, <2>4
<1>6. CASE ReadShort \/ ReadAnswer
  <2>1. PICK kind \in {"short", "reply"} : Take(kind)
    BY <1>6 DEF ReadShort, ReadAnswer
  <2>2. Answered'
    BY <1>6, <2>1, TakeFacts DEF ReadShort, ReadAnswer, Take, Return
  <2>3. TypeOK' /\ Attempting' /\ OnSchedule' /\ LastRequest'
    BY <1>6, <2>1, TakeFacts DEF ReadShort, ReadAnswer, Take, Return
  <2>4. QED
    BY <2>2, <2>3
<1>7. QED
  BY <1>1, <1>2, <1>3, <1>4, <1>5, <1>6 DEF Loop

LEMMA WorldStep ==
    Sound /\ (LoseRequest \/ DelayRequest \/ Serve \/ Intrude \/ Cancel \/ Tick) => Sound'
<1> SUFFICES ASSUME Sound,
                    LoseRequest \/ DelayRequest \/ Serve \/ Intrude \/ Cancel \/ Tick
             PROVE  Sound'
  OBVIOUS
<1> USE Bounds DEF Sound, TypeOK, Attempting, OnSchedule, LastRequest, Answered,
                   client, time, network
<1>1. CASE LoseRequest \/ DelayRequest
  <2>1. toGw' \in Nat /\ late' \in Nat /\ lost' \in 0 .. MaxMishaps
    BY <1>1 DEF LoseRequest, DelayRequest, Mishap
  <2>2. UNCHANGED <<client, cancelled, time, inbox, served, foreign, sentAfter>>
    BY <1>1 DEF LoseRequest, DelayRequest
  <2>3. QED
    BY <2>1, <2>2
<1>2. CASE Serve
  <2>1. served' = served + 1 /\ UNCHANGED <<client, cancelled, time, foreign, sentAfter>>
    BY <1>2 DEF Serve
  <2>2. /\ toGw' \in Nat /\ late' \in Nat /\ lost' \in 0 .. MaxMishaps
        /\ inbox' \in Seq({"reply", "short", "foreign"})
    <3>1. toGw' \in Nat /\ late' \in Nat
      BY <1>2 DEF Serve
    <3>2. CASE \E kind \in {"reply", "short"} : Arrive(kind) /\ lost' = lost
      BY <3>1, <3>2 DEF Arrive
    <3>3. CASE Mishap /\ UNCHANGED inbox
      BY <3>1, <3>3 DEF Mishap
    <3>4. QED
      BY <1>2, <3>2, <3>3 DEF Serve
  <2>3. served' \in Nat /\ served' > 0
    BY <2>1
  <2>4. Answered'
    BY <2>3
  <2>5. TypeOK'
    BY <2>1, <2>2, <2>3
  <2>6. Attempting' /\ OnSchedule' /\ LastRequest'
    BY <2>1
  <2>7. QED
    BY <2>4, <2>5, <2>6
<1>3. CASE Intrude
  BY <1>3 DEF Intrude, Arrive
<1>4. CASE Cancel
  BY <1>4 DEF Cancel
<1>5. CASE Tick
  BY <1>5, LessIsNat DEF Tick, Less
<1>6. QED
  BY <1>1, <1>2, <1>3, <1>4, <1>5

LEMMA SoundStep == Sound /\ [Next]_vars => Sound'
<1>1. Sound /\ UNCHANGED vars => Sound'
  BY DEF vars, client, time, network, Sound, TypeOK, Attempting, OnSchedule, LastRequest,
         Answered
<1>2. QED
  BY <1>1, LoopStep, WorldStep DEF Next

LEMMA SoundAlways == Spec => []Sound
<1>1. Init => Sound
  <2> SUFFICES ASSUME Init PROVE Sound
    OBVIOUS
  <2>1. ctxLeft \in Nat /\ 0 \in 0 .. MaxAttempts
    BY ExchangeAssumption DEF Init
  <2>2. inbox \in Seq({"reply", "short", "foreign"}) /\ Len(inbox) = 0
    BY DEF Init
  <2>3. TypeOK
    BY <2>1, <2>2, Bounds DEF Init, TypeOK
  <2>4. Attempting /\ OnSchedule /\ LastRequest
    BY Bounds DEF Init, Attempting, OnSchedule, LastRequest
  <2>5. Answered
    BY <2>2 DEF Init, Answered
  <2>6. QED
    BY <2>3, <2>4, <2>5 DEF Sound
<1>2. QED
  BY <1>1, SoundStep, PTL DEF Spec

-----------------------------------------------------------------------------
(* Theorems *)

\* The exchange is well typed: no attempt beyond MaxAttempts is made, and no
\* more than MaxIgnored foreign datagrams are skipped in one.
THEOREM TypeCorrect == Spec => []TypeOK
BY SoundAlways, PTL DEF Sound

\* An attempt begins no later than the waits before it add up to, whatever
\* arrives in between: foreign datagrams do not restart a wait.
THEOREM PacedHolds == Spec => []Paced
<1>1. Sound => Paced
  BY DEF Sound, OnSchedule, Paced
<1>2. QED
  BY <1>1, SoundAlways, PTL

\* After the cancellation at most the request being written goes out.
THEOREM CancelStopsSendingHolds == Spec => []CancelStopsSending
<1>1. Sound => CancelStopsSending
  BY DEF Sound, LastRequest, CancelStopsSending
<1>2. QED
  BY <1>1, SoundAlways, PTL

\* The answer exchange returns was given by the gateway.
THEOREM AnswerMeansServedHolds == Spec => []AnswerMeansServed
<1>1. Sound => AnswerMeansServed
  BY DEF Sound, Answered, AnswerMeansServed
<1>2. QED
  BY <1>1, SoundAlways, PTL

\* No read waits past the deadline of the context.
THEOREM NeverPastDeadlineHolds == Spec => NeverPastDeadline
<1>1. Sound /\ [Next]_vars => [elapsed' # elapsed => ctxLeft > 0]_vars
  <2> SUFFICES ASSUME Sound, Next, elapsed' # elapsed PROVE ctxLeft > 0
    BY DEF vars, time
  <2>1. Tick
    BY DEF Next, Loop, GiveUp, Exhausted, Attempt, Send, IOError, Poll, ReadTimeout,
           ReadForeign, ReadShort, ReadAnswer, Take, LoseRequest, DelayRequest, Serve,
           Intrude, Cancel, time
  <2>2. QED
    BY <2>1 DEF Tick, Sound, TypeOK, OnSchedule
<1>2. QED
  BY <1>1, SoundAlways, PTL DEF Spec, NeverPastDeadline
-----------------------------------------------------------------------------
(* Giving up only when nobody answers *)

\* The foreign datagrams that n attempts skip at most.
Due(n) == n * MaxIgnored

UnderWay == pc \in {"poll", "read"}

\* The requests sent.
Sends == attempt + (IF UnderWay THEN 1 ELSE 0)

AnswerWaits == \E n \in 1 .. Len(inbox) : inbox[n] # "foreign"

\* Every request sent is still on its way, has been lost in one form or another,
\* or has brought an answer that waits in the socket.
Answerable == AnswerWaits \/ lost + toGw >= Sends

\* The attempts that have ended were silent or flooded, and so far this one is.
InVain == ctxLeft = 0 \/ Due(lost) + foreign >= Due(attempt) + (IF UnderWay THEN ignored ELSE 0)

Silent ==
    /\ pc # "returned" => outcome = "none" /\ Answerable
    /\ pc # "returned" \/ outcome = "exhausted" => InVain
    /\ UnderWay /\ readLeft = 0 => ctxLeft = 0 \/ lost >= attempt + 1
    /\ outcome = "exhausted" => pc = "returned" /\ attempt = MaxAttempts

LEMMA DueFacts ==
    /\ \A n \in Nat : Due(n) \in Nat /\ Due(n + 1) = Due(n) + MaxIgnored
    /\ \A m, n \in Nat : m <= n => Due(m) <= Due(n)
    /\ Due(MaxAttempts) = Flood
<1>1. MaxIgnored \in Nat
  BY Bounds
<1>2. ASSUME NEW n \in Nat PROVE Due(n) \in Nat /\ Due(n + 1) = Due(n) + MaxIgnored
  BY <1>1 DEF Due
<1>3. ASSUME NEW m \in Nat, NEW n \in Nat, m <= n PROVE Due(m) <= Due(n)
  <2>1. n - m \in Nat /\ n = m + (n - m)
    BY <1>3
  <2>2. (n - m) * MaxIgnored \in Nat /\ n * MaxIgnored = m * MaxIgnored + (n - m) * MaxIgnored
    BY <1>1, <2>1
  <2>3. m * MaxIgnored \in Nat
    BY <1>1
  <2>4. QED
    BY <2>2, <2>3 DEF Due
<1>4. QED
  BY <1>2, <1>3 DEF Due, Flood

\* InVain in the next state, with the operators on numbers outside the prime.
LEMMA InVainNext ==
    InVain' <=> \/ ctxLeft' = 0
                \/ Due(lost') + foreign' >= Due(attempt') + (IF UnderWay' THEN ignored' ELSE 0)
BY DEF InVain, Due

\* The numbers InVain compares.
LEMMA InVainFacts ==
    ASSUME Sound
    PROVE  /\ lost \in Nat /\ foreign \in Nat /\ attempt \in Nat /\ ignored \in Nat
           /\ toGw \in Nat /\ ctxLeft \in Nat /\ readLeft \in Nat
           /\ Due(lost) \in Nat /\ Due(attempt) \in Nat
           /\ Due(attempt + 1) = Due(attempt) + MaxIgnored
           /\ attempt < MaxAttempts => Due(attempt) + MaxIgnored <= Flood
<1>1. lost \in Nat /\ foreign \in Nat /\ attempt \in Nat /\ ignored \in Nat
  BY Bounds DEF Sound, TypeOK
<1>2. attempt < MaxAttempts => Due(attempt + 1) <= Due(MaxAttempts)
  BY <1>1, Bounds, DueFacts
<1>3. QED
  BY <1>1, <1>2, DueFacts DEF Sound, TypeOK

\* Mishaps and time only add to what was in vain.
LEMMA InVainKept ==
    ASSUME Sound, InVain, lost' \in Nat, lost' >= lost, foreign' = foreign,
           ctxLeft = 0 => ctxLeft' = 0, UNCHANGED <<attempt, ignored>>, UnderWay' = UnderWay
    PROVE  InVain'
<1>1. Due(lost') \in Nat /\ Due(lost) <= Due(lost')
  BY InVainFacts, DueFacts
<1>2. QED
  BY <1>1, InVainFacts, InVainNext DEF InVain
LEMMA SilentStep == Sound /\ Silent /\ [Next]_vars => Silent'
<1> SUFFICES ASSUME Sound, Silent, [Next]_vars PROVE Silent'
  OBVIOUS
<1>0. /\ MaxAttempts \in Nat /\ MaxIgnored \in Nat /\ MaxIgnored > 0 /\ InitialTimeout > 0
      /\ InitialTimeout \in Nat
  BY Bounds
<1> USE DEF Silent, UnderWay
<1>1. CASE UNCHANGED vars
  BY <1>1, InVainNext DEF vars, client, time, network, Answerable, AnswerWaits, Sends, InVain
<1>2. CASE GiveUp \/ IOError
  BY <1>2 DEF GiveUp, IOError, Return
<1>3. CASE Exhausted
  BY <1>3, InVainNext DEF Exhausted, Return, network, time, InVain
<1>4. CASE Attempt \/ Poll
  BY <1>4, InVainNext DEF Attempt, Poll, network, time, InVain, Answerable, AnswerWaits, Sends
<1>5. CASE Send
  <2>1. /\ pc = "send" /\ pc' = "poll" /\ ignored' = 0 /\ toGw' = toGw + 1
        /\ readLeft' = Shorter(timeout, ctxLeft)
        /\ UNCHANGED <<attempt, outcome, ctxLeft, lost, foreign, inbox>>
    BY <1>5 DEF Send, ReadDeadline, time
  <2>2. readLeft' = 0 => ctxLeft' = 0
    BY <1>0, <2>1 DEF Shorter, Sound, OnSchedule, TypeOK
  <2>3. Answerable'
    BY <2>1, InVainFacts DEF Answerable, AnswerWaits, Sends
  <2>4. InVain'
    BY <2>1, InVainFacts, InVainNext DEF InVain
  <2>5. QED
    BY <2>1, <2>2, <2>3, <2>4
<1>6. CASE ReadTimeout
  <2>1. /\ pc = "read" /\ pc' = "check" /\ readLeft = 0 /\ attempt' = attempt + 1
        /\ UNCHANGED <<outcome, ctxLeft, toGw, lost, foreign, inbox>>
    BY <1>6 DEF ReadTimeout, NextAttempt, network, time
  <2>2. Answerable'
    BY <2>1, InVainFacts DEF Answerable, AnswerWaits, Sends
  <2>3. InVain'
    <3>1. CASE ctxLeft = 0
      BY <2>1, <3>1, InVainNext
    <3>2. CASE lost >= attempt + 1
      <4>1. Due(attempt + 1) <= Due(lost)
        BY <3>2, InVainFacts, DueFacts
      <4>2. QED
        BY <1>0, <2>1, <4>1, InVainFacts, InVainNext
    <3>3. QED
      BY <2>1, <3>1, <3>2
  <2>4. QED
    BY <2>1, <2>2, <2>3
<1>7. CASE ReadForeign
  <2>1. /\ Take("foreign") /\ pc = "read" /\ ignored' = ignored + 1
        /\ foreign' = Shorter(foreign + 1, Flood)
        /\ UNCHANGED <<outcome, ctxLeft, readLeft, toGw, lost>>
        /\ attempt < MaxAttempts /\ ignored < MaxIgnored
    BY <1>7 DEF ReadForeign, Take, time, Sound, Attempting
  <2>2. \/ pc' = "check" /\ attempt' = attempt + 1 /\ ignored' >= MaxIgnored
        \/ pc' = "poll" /\ attempt' = attempt
    BY <1>7, <2>1 DEF ReadForeign, NextAttempt
  <2>3. AnswerWaits => AnswerWaits'
    <3> SUFFICES ASSUME NEW n \in 1 .. Len(inbox), inbox[n] # "foreign"
                 PROVE  AnswerWaits'
      BY DEF AnswerWaits
    <3>1. n # 1 /\ Len(inbox') = Len(inbox) - 1 /\ Len(inbox) \in Nat
          /\ \A m \in 1 .. Len(inbox') : inbox'[m] = inbox[m + 1]
      BY <2>1, TakeFacts DEF Sound, TypeOK
    <3>2. n - 1 \in 1 .. Len(inbox') /\ (n - 1) + 1 = n
      BY <3>1
    <3>3. inbox'[n - 1] = inbox[n]
      BY <3>1, <3>2
    <3>4. QED
      BY <3>2, <3>3 DEF AnswerWaits
  <2>4. Answerable'
    BY <2>1, <2>2, <2>3, InVainFacts DEF Answerable, Sends
  <2>5. InVain'
    <3>1. Flood \in Nat /\ (foreign' = foreign + 1 \/ foreign' = Flood)
      BY <2>1, Bounds DEF Shorter
    <3>2. pc' = "check" => ignored' = MaxIgnored
      BY <1>0, <2>1, <2>2, InVainFacts
    <3>3. QED
      BY <1>0, <2>1, <2>2, <3>1, <3>2, InVainFacts, InVainNext DEF InVain
  <2>6. QED
    BY <2>1, <2>2, <2>4, <2>5
<1>8. CASE ReadShort \/ ReadAnswer
  BY <1>8 DEF ReadShort, ReadAnswer, Return
<1>9. CASE LoseRequest \/ DelayRequest
  <2>1. /\ toGw > 0 /\ toGw' = toGw - 1 /\ lost' = lost + 1
        /\ UNCHANGED <<pc, attempt, ignored, outcome, readLeft, ctxLeft, foreign, inbox>>
    BY <1>9 DEF LoseRequest, DelayRequest, Mishap, client, time
  <2>2. Answerable' = Answerable
    BY <2>1, InVainFacts DEF Answerable, AnswerWaits, Sends
  <2>3. InVain => InVain'
    BY <2>1, InVainKept, InVainFacts
  <2>4. QED
    BY <2>1, <2>2, <2>3, InVainFacts
<1>10. CASE Serve
  <2>1. UNCHANGED <<pc, attempt, ignored, outcome, readLeft, ctxLeft, foreign>>
    BY <1>10 DEF Serve, client, time
  <2>2. (toGw > 0 /\ toGw' = toGw - 1) \/ toGw' = toGw
    BY <1>10 DEF Serve
  <2>3. CASE \E kind \in {"reply", "short"} : Arrive(kind) /\ lost' = lost
    <3>1. pc # "returned" => AnswerWaits'
      <4> SUFFICES ASSUME pc # "returned" PROVE AnswerWaits'
        OBVIOUS
      <4>1. PICK kind \in {"reply", "short"} : inbox' = Append(inbox, kind)
        BY <2>3 DEF Arrive
      <4>2. Len(inbox) + 1 \in 1 .. Len(inbox') /\ inbox'[Len(inbox) + 1] = kind
        BY <4>1 DEF Sound, TypeOK
      <4>3. QED
        BY <4>2 DEF AnswerWaits
    <3>2. InVain => InVain'
      BY <2>1, <2>3, InVainKept, InVainFacts
    <3>3. QED
      BY <2>1, <2>3, <3>1, <3>2 DEF Answerable
  <2>4. CASE Mishap /\ UNCHANGED inbox
    <3>1. lost' = lost + 1
      BY <2>4 DEF Mishap
    <3>2. Answerable => Answerable'
      BY <2>1, <2>2, <2>4, <3>1, InVainFacts DEF Answerable, AnswerWaits, Sends
    <3>3. InVain => InVain'
      BY <2>1, <3>1, InVainKept, InVainFacts
    <3>4. QED
      BY <2>1, <3>1, <3>2, <3>3, InVainFacts
  <2>5. QED
    BY <1>10, <2>3, <2>4 DEF Serve
<1>11. CASE Intrude
  <2>1. /\ UNCHANGED <<pc, attempt, ignored, outcome, readLeft, ctxLeft, foreign, lost, toGw>>
        /\ pc # "returned" /\ inbox' = Append(inbox, "foreign")
    BY <1>11 DEF Intrude, Arrive, client, time
  <2>2. AnswerWaits => AnswerWaits'
    <3> SUFFICES ASSUME NEW n \in 1 .. Len(inbox), inbox[n] # "foreign"
                 PROVE  AnswerWaits'
      BY DEF AnswerWaits
    <3>1. n \in 1 .. Len(inbox') /\ inbox'[n] = inbox[n]
      BY <2>1 DEF Sound, TypeOK
    <3>2. QED
      BY <3>1 DEF AnswerWaits
  <2>3. Answerable => Answerable'
    BY <2>1, <2>2 DEF Answerable, Sends
  <2>4. InVain => InVain'
    BY <2>1, InVainKept, InVainFacts
  <2>5. QED
    BY <2>1, <2>3, <2>4
<1>12. CASE Cancel
  <2>1. UNCHANGED <<client, time, network, foreign>>
    BY <1>12 DEF Cancel
  <2>2. Answerable' = Answerable /\ InVain' = InVain
    BY <2>1, InVainNext DEF client, time, network, Answerable, AnswerWaits, Sends, InVain
  <2>3. QED
    BY <2>1, <2>2 DEF client, time, network
<1>13. CASE Tick
  <2>1. /\ pc = "read" /\ inbox = <<>> /\ toGw = 0 /\ ctxLeft' = Less(ctxLeft)
        /\ UNCHANGED <<pc, attempt, ignored, outcome, foreign, lost, toGw, inbox>>
    BY <1>13 DEF Tick, network
  <2>2. ~AnswerWaits
    BY <2>1 DEF AnswerWaits
  <2>3. lost >= attempt + 1
    BY <2>1, <2>2, InVainFacts DEF Answerable, Sends
  <2>4. Answerable'
    BY <2>1, <2>3, InVainFacts DEF Answerable, Sends
  <2>5. InVain'
    BY <2>1, InVainKept, InVainFacts DEF Less
  <2>6. QED
    BY <2>1, <2>3, <2>4, <2>5
<1>14. QED
  BY <1>1, <1>2, <1>3, <1>4, <1>5, <1>6, <1>7, <1>8, <1>9, <1>10, <1>11, <1>12, <1>13
  DEF Next, Loop

LEMMA SilentAtFirst == Init => Silent
<1> SUFFICES ASSUME Init PROVE Silent
  OBVIOUS
<1>1. Due(0) = 0
  BY Bounds DEF Due
<1>2. QED
  BY <1>1 DEF Init, Silent, UnderWay, Answerable, Sends, InVain

\* Rounding down loses no whole share.
LEMMA Shares ==
    ASSUME NEW n \in Nat, NEW m \in Nat, n * MaxIgnored <= m
    PROVE  n <= m \div MaxIgnored
<1>1. MaxIgnored \in Nat /\ MaxIgnored > 0
  BY Bounds
<1>2. m < ((m \div MaxIgnored) + 1) * MaxIgnored /\ m \div MaxIgnored \in Nat
  BY <1>1
<1>3. QED
  BY <1>1, <1>2

\* Every attempt of an exchange that gives up was lost or flooded, or the
\* context's time is up: no answer that came in time has been overlooked.
THEOREM GivesUpOnlyWhenSilentHolds == Spec => []GivesUpOnlyWhenSilent
<1>1. Init => Silent
  BY SilentAtFirst
<1>2. Sound /\ Silent => GivesUpOnlyWhenSilent
  <2> SUFFICES ASSUME Sound, Silent, outcome = "exhausted", ctxLeft # 0
               PROVE  lost + foreign \div MaxIgnored >= MaxAttempts
    BY DEF GivesUpOnlyWhenSilent
  <2>1. Due(lost) + foreign >= Due(MaxAttempts)
    BY InVainFacts DEF Silent, InVain, UnderWay
  <2>2. CASE lost < MaxAttempts
    <3>1. MaxAttempts - lost \in Nat /\ MaxAttempts = lost + (MaxAttempts - lost)
      BY <2>2, Bounds, InVainFacts
    <3>2. (MaxAttempts - lost) * MaxIgnored <= foreign
      BY <2>1, <3>1, Bounds, InVainFacts DEF Due
    <3>3. MaxAttempts - lost <= foreign \div MaxIgnored
      BY <3>1, <3>2, Shares, InVainFacts
    <3>4. foreign \div MaxIgnored \in Nat
      BY Bounds, InVainFacts
    <3>5. QED
      BY <3>1, <3>3, <3>4, InVainFacts
  <2>3. CASE lost >= MaxAttempts
    <3>1. foreign \div MaxIgnored \in Nat
      BY Bounds, InVainFacts
    <3>2. QED
      BY <2>3, <3>1, Bounds, InVainFacts
  <2>4. QED
    BY <2>2, <2>3, Bounds, InVainFacts
<1>3. QED
  BY <1>1, <1>2, SoundAlways, SilentStep, PTL DEF Spec
-----------------------------------------------------------------------------
(* Waiting in full *)

\* Unless a flood or the context's deadline cut something short, the time that
\* has gone is what the attempts so far were to wait.
InFull ==
    /\ timeout = Backoff[attempt]
    /\ UnderWay => ignored <= foreign
    /\ foreign < MaxIgnored /\ ctxLeft > 0 =>
          /\ pc \in {"check", "send"} \/ outcome = "exhausted"
                => elapsed + InitialTimeout = timeout
          /\ UnderWay => readLeft = ctxLeft \/ elapsed + readLeft + InitialTimeout = 2 * timeout

\* One attempt's skipped datagrams are no more than a full flood.
LEMMA FloodIsMore == MaxIgnored \in Nat /\ Flood \in Nat /\ MaxIgnored <= Flood
<1>1. MaxIgnored \in Nat /\ MaxAttempts \in Nat /\ 1 <= MaxAttempts
  BY ExchangeAssumption
<1>2. Due(1) <= Due(MaxAttempts) /\ Due(1) = MaxIgnored
  BY <1>1, DueFacts DEF Due
<1>3. QED
  BY <1>1, <1>2, DueFacts, Bounds

\* The next attempt's wait is the next of the doubled ones.
LEMMA Doubled ==
    ASSUME Sound, InFull, attempt < MaxAttempts
    PROVE  2 * timeout = Backoff[attempt + 1]
<1>1. attempt \in 0 .. MaxAttempts - 1
  BY Bounds DEF Sound, TypeOK
<1>2. QED
  BY <1>1, ExchangeAssumption DEF InFull

LEMMA InFullStep == Sound /\ Silent /\ InFull /\ [Next]_vars => InFull'
<1> SUFFICES ASSUME Sound, Silent, InFull, [Next]_vars PROVE InFull'
  OBVIOUS
<1> USE DEF InFull, UnderWay
<1>0. /\ elapsed \in Nat /\ readLeft \in Nat /\ ctxLeft \in Nat /\ timeout \in Nat
      /\ foreign \in Nat /\ ignored \in Nat /\ InitialTimeout \in Nat
      /\ MaxIgnored \in Nat /\ Flood \in Nat /\ MaxIgnored <= Flood
  BY Bounds, FloodIsMore DEF Sound, TypeOK
<1>1. CASE UNCHANGED vars
  BY <1>1 DEF vars, client, time, network
<1>2. CASE GiveUp \/ IOError
  BY <1>2 DEF GiveUp, IOError, Return, time
<1>3. CASE Exhausted \/ Attempt \/ Poll
  BY <1>3 DEF Exhausted, Attempt, Poll, Return, time, Silent
<1>4. CASE Send
  <2>1. /\ pc = "send" /\ pc' = "poll" /\ ignored' = 0
        /\ readLeft' = Shorter(timeout, ctxLeft)
        /\ UNCHANGED <<attempt, timeout, outcome, ctxLeft, elapsed, foreign>>
    BY <1>4 DEF Send, ReadDeadline, time
  <2>2. readLeft' = timeout \/ readLeft' = ctxLeft
    BY <2>1 DEF Shorter
  <2>3. outcome' # "exhausted"
    BY <2>1 DEF Silent
  <2>4. QED
    BY <1>0, <2>1, <2>2, <2>3
<1>5. CASE ReadTimeout
  <2>1. /\ pc = "read" /\ pc' = "check" /\ readLeft = 0 /\ attempt < MaxAttempts
        /\ attempt' = attempt + 1 /\ timeout' = 2 * timeout
        /\ UNCHANGED <<outcome, ctxLeft, elapsed, foreign>>
    BY <1>5 DEF ReadTimeout, NextAttempt, time, Sound, Attempting
  <2>2. QED
    BY <1>0, <2>1, Doubled
<1>6. CASE ReadForeign
  <2>1. /\ pc = "read" /\ ignored' = ignored + 1 /\ attempt < MaxAttempts
        /\ ignored < MaxIgnored
        /\ foreign' = Shorter(foreign + 1, Flood)
        /\ UNCHANGED <<outcome, ctxLeft, elapsed, readLeft>>
    BY <1>6 DEF ReadForeign, Take, time, Sound, Attempting
  <2>2. foreign' \in Nat /\ ignored' <= foreign'
    BY <1>0, <2>1 DEF Shorter
  <2>3. CASE ignored + 1 >= MaxIgnored
    <3>1. pc' = "check" /\ attempt' = attempt + 1 /\ timeout' = 2 * timeout
      BY <1>6, <2>3 DEF ReadForeign, NextAttempt
    <3>2. ~(foreign' < MaxIgnored)
      BY <1>0, <2>1, <2>2, <2>3
    <3>3. timeout' = Backoff[attempt']
      BY <2>1, <3>1, Doubled
    <3>4. QED
      BY <3>1, <3>2, <3>3
  <2>4. CASE ~(ignored + 1 >= MaxIgnored)
    <3>1. pc' = "poll" /\ UNCHANGED <<attempt, timeout>>
      BY <1>6, <2>4 DEF ReadForeign
    <3>2. foreign' < MaxIgnored => foreign < MaxIgnored
      BY <1>0, <2>1 DEF Shorter
    <3>3. outcome' # "exhausted"
      BY <2>1 DEF Silent
    <3>4. QED
      BY <2>1, <2>2, <3>1, <3>2, <3>3
  <2>5. QED
    BY <2>3, <2>4
<1>7. CASE ReadShort \/ ReadAnswer
  BY <1>7 DEF ReadShort, ReadAnswer, Return, Take, time
<1>8. CASE LoseRequest \/ DelayRequest \/ Serve \/ Intrude \/ Cancel
  <2>1. UNCHANGED <<pc, attempt, timeout, readLeft, ignored, outcome, ctxLeft, elapsed, foreign>>
    BY <1>8 DEF LoseRequest, DelayRequest, Serve, Intrude, Cancel, client, time
  <2>2. QED
    BY <2>1
<1>9. CASE Tick
  <2>1. /\ pc = "read" /\ readLeft > 0 /\ readLeft' = readLeft - 1
        /\ ctxLeft' = Less(ctxLeft) /\ elapsed' = elapsed + 1
        /\ UNCHANGED <<pc, attempt, timeout, ignored, outcome, foreign>>
    BY <1>9 DEF Tick
  <2>2. readLeft <= ctxLeft
    BY <2>1 DEF Sound, OnSchedule
  <2>3. ctxLeft' = ctxLeft - 1
    BY <1>0, <2>1, <2>2 DEF Less
  <2>4. outcome' # "exhausted"
    BY <2>1 DEF Silent
  <2>5. QED
    BY <1>0, <2>1, <2>2, <2>3, <2>4
<1>10. QED
  BY <1>1, <1>2, <1>3, <1>4, <1>5, <1>6, <1>7, <1>8, <1>9 DEF Next, Loop

\* A call that nobody answers, floods or bounds takes its whole backoff: every
\* attempt is made and waited out, and no other.
THEOREM WaitsItOutHolds == Spec => []WaitsItOut
<1>1. Init => Silent /\ InFull
  <2> SUFFICES ASSUME Init PROVE Silent /\ InFull
    OBVIOUS
  <2>1. Silent
    BY SilentAtFirst
  <2>2. InFull
    BY ExchangeAssumption DEF Init, InFull, UnderWay
  <2>3. QED
    BY <2>1, <2>2
<1>2. Sound /\ Silent /\ InFull => WaitsItOut
  BY DEF Silent, InFull, WaitsItOut
<1>3. QED
  BY <1>1, <1>2, SoundAlways, SilentStep, InFullStep, PTL DEF Spec
=============================================================================
