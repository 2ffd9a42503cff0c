---------------------------- MODULE DetectProofs ----------------------------
(***************************************************************************)
(* Proofs about Detect, for any timeouts, any time a probe needs, any      *)
(* choice of protocols the gateway speaks and any number of losses.  The   *)
(* loop over the candidates comes first; then orderCandidates, whose two   *)
(* loops are recursive functions of the names gone through: no order has   *)
(* more than three, so each is unrolled (Unrolled), and what comes of it   *)
(* is a permutation of the protocols that begins with the order (Arranges).*)
(***************************************************************************)
EXTENDS Detect, FiniteSetTheorems, TLAPS

\* The state of the loop.
LoopOK ==
    /\ timeout \in Configured /\ spoken \subseteq Protocol
    /\ at \in Nat \ {0} /\ lost \in Nat

\* The candidates whose probe has failed.
Over == IF pc = "check" THEN at ELSE at - 1

\* Those of them that would have answered in time.
Missed == {n \in 1 .. Over : candidates[n] \in spoken /\ EnoughTime(candidates[n])}

\* Without a cancellation each of them was lost.
EachWasLost == ~cancelled => lost >= Cardinality(Missed)

\* A probe that began after the cancellation is the last, and ends as cancelled.
LateIsLast ==
    \/ late = 0
    \/ /\ late = 1 /\ cancelled
       /\ \/ pc = "probe" /\ dead
          \/ pc = "check"
          \/ pc = "done" /\ outcome = "cancelled"

-----------------------------------------------------------------------------
LEMMA InputsStay ==
    ASSUME [Next]_vars
    PROVE  UNCHANGED inputs
BY DEF Next, Loop, Begin, Answered, Failed, Check, Unsupported, Cancel, Tick, vars

-----------------------------------------------------------------------------
(* The loop *)

LEMMA TimeoutFacts ==
    ASSUME LoopOK, NEW p \in Protocol, EnoughTime(p)
    PROVE  /\ ProbeTimeout(timeout) \in Nat /\ Needs[p] \in Nat
           /\ Needs[p] < ProbeTimeout(timeout)
BY DetectAssumption DEF LoopOK, ProbeTimeout, EnoughTime

LEMMA LoopStep ==
    ASSUME LoopOK, [Next]_vars
    PROVE  LoopOK'
<1>1. UNCHANGED <<timeout, spoken>>
  BY InputsStay DEF inputs
<1>2. at' \in {at, at + 1} /\ lost' \in {lost, lost + 1}
  BY DEF Next, Loop, Begin, Answered, Failed, Check, Unsupported, Cancel, Tick, vars
<1>3. QED
  BY <1>1, <1>2 DEF LoopOK

LEMMA LoopOKHolds == Spec => []LoopOK
<1>1. Init => LoopOK
  BY DEF Init, LoopOK
<1>2. QED
  BY <1>1, LoopStep, PTL DEF Spec

-----------------------------------------------------------------------------
(* What is passed over *)

LEMMA MissedFacts ==
    ASSUME LoopOK
    PROVE  IsFiniteSet(Missed) /\ Cardinality(Missed) \in Nat
<1>1. Over \in Nat
  BY DEF LoopOK, Over
<1>2. IsFiniteSet(1 .. Over)
  BY <1>1, FS_Interval
<1>3. IsFiniteSet(Missed)
  BY <1>2, FS_Subset DEF Missed
<1>4. QED
  BY <1>3, FS_CardinalityType

\* A failed probe adds one to what was missed, at most.
LEMMA OneMore ==
    ASSUME LoopOK, pc = "probe", pc' = "check", UNCHANGED <<inputs, at>>
    PROVE  IF Probed \in spoken /\ EnoughTime(Probed)
           THEN Cardinality(Missed') = Cardinality(Missed) + 1
           ELSE Missed' = Missed
<1>1. UNCHANGED <<timeout, candidates, spoken>>
  BY DEF inputs
<1>2. Over = at - 1 /\ Over' = at /\ at \in Nat \ {0}
  BY DEF Over, LoopOK
<1>3. 1 .. Over' = (1 .. Over) \cup {at} /\ at \notin 1 .. Over
  BY <1>2
<1>4. \A p : EnoughTime(p)' <=> EnoughTime(p)
  BY <1>1 DEF EnoughTime
<1> DEFINE M(n) == candidates[n] \in spoken /\ EnoughTime(candidates[n])
<1>5. Missed = {n \in 1 .. Over : M(n)} /\ Missed' = {n \in (1 .. Over) \cup {at} : M(n)}
  BY <1>1, <1>3, <1>4 DEF Missed
<1>6. M(at) <=> Probed \in spoken /\ EnoughTime(Probed)
  BY DEF Probed
<1> HIDE DEF M
<1>7. CASE M(at)
  <2>1. Missed' = Missed \cup {at} /\ at \notin Missed
    BY <1>3, <1>5, <1>7
  <2>2. Cardinality(Missed') = Cardinality(Missed) + 1
    BY <2>1, MissedFacts, FS_AddElement
  <2>3. QED
    BY <1>6, <1>7, <2>2
<1>8. CASE ~M(at)
  <2>1. Missed' = Missed
    BY <1>3, <1>5, <1>8
  <2>2. QED
    BY <1>6, <1>8, <2>1
<1>9. QED
  BY <1>7, <1>8

\* A step that is no failure of a probe passes nothing over.
LEMMA SameMissed ==
    ASSUME LoopOK, [Next]_vars, ~cancelled, ~Failed
    PROVE  Missed' = Missed /\ lost' = lost
<1>1. UNCHANGED <<timeout, candidates, spoken>>
  BY InputsStay DEF inputs
<1>2. Over' = Over /\ lost' = lost
  BY DEF Next, Loop, Begin, Answered, Check, Return, Unsupported, Cancel, Tick, vars, Over, LoopOK
<1>3. \A p : EnoughTime(p)' <=> EnoughTime(p)
  BY <1>1 DEF EnoughTime
<1>4. QED
  BY <1>1, <1>2, <1>3 DEF Missed

LEMMA EachWasLostStep ==
    ASSUME LoopOK, EachWasLost, [Next]_vars
    PROVE  EachWasLost'
<1> SUFFICES ASSUME ~cancelled'
             PROVE  lost' >= Cardinality(Missed')
  BY DEF EachWasLost
<1>1. ~cancelled
  BY DEF Next, Loop, Begin, Answered, Failed, Check, Unsupported, Cancel, Tick, vars
<1>2. lost >= Cardinality(Missed) /\ Cardinality(Missed) \in Nat /\ lost \in Nat
  BY <1>1, MissedFacts DEF EachWasLost, LoopOK
<1>3. CASE Failed
  <2>1. /\ pc = "probe" /\ pc' = "check" /\ UNCHANGED <<inputs, at>>
        /\ lost' \in {lost, lost + 1}
    BY <1>3 DEF Failed
  <2>2. CASE Probed \in spoken /\ EnoughTime(Probed)
    <3>1. Probed \in Protocol
      BY <2>2 DEF LoopOK
    <3>2. ~(spent = ProbeTimeout(timeout) /\ Needs[Probed] >= spent)
      BY <2>2, <3>1, TimeoutFacts
    <3>3. lost' = lost + 1
      BY <1>1, <1>3, <2>2, <3>2 DEF Failed
    <3>4. Cardinality(Missed') = Cardinality(Missed) + 1
      BY <2>1, <2>2, OneMore
    <3>5. QED
      BY <1>2, <3>3, <3>4
  <2>3. CASE ~(Probed \in spoken /\ EnoughTime(Probed))
    <3>1. Missed' = Missed
      BY <2>1, <2>3, OneMore
    <3>2. QED
      BY <1>2, <2>1, <3>1
  <2>4. QED
    BY <2>2, <2>3
<1>4. CASE ~Failed
  BY <1>1, <1>2, <1>4, SameMissed
<1>5. QED
  BY <1>3, <1>4

LEMMA NothingMissedYet ==
    ASSUME Init
    PROVE  EachWasLost
<1>1. Missed = {}
  BY DEF Init, Over, Missed
<1>2. QED
  BY <1>1, FS_EmptySet DEF Init, EachWasLost

\* detect: only a loss, or a timeout that is configured too short for it, keeps it
\* from a protocol that the gateway speaks, whatever the order and the timeouts are.
THEOREM PassedOverForAReasonHolds == Spec => []PassedOverForAReason
<1>1. EachWasLost => PassedOverForAReason
  BY DEF EachWasLost, Missed, Over, PassedOverForAReason
<1>2. LoopOK /\ EachWasLost /\ [Next]_vars => EachWasLost'
  BY EachWasLostStep
<1>3. Init => EachWasLost
  BY NothingMissedYet
<1>4. QED
  BY <1>1, <1>2, <1>3, LoopOKHolds, PTL DEF Spec

-----------------------------------------------------------------------------
(* A cancelled detection *)

LEMMA LateIsLastStep ==
    ASSUME LateIsLast, [Next]_vars
    PROVE  LateIsLast'
<1>1. CASE late = 0
  <2>1. CASE Begin
    BY <1>1, <2>1 DEF Begin, LateIsLast
  <2>2. CASE ~Begin
    <3>1. late' = late
      BY <2>2 DEF Next, Loop, Answered, Failed, Check, Unsupported, Cancel, Tick, vars
    <3>2. QED
      BY <1>1, <3>1 DEF LateIsLast
  <2>3. QED
    BY <2>1, <2>2
<1>2. CASE late = 1 /\ cancelled /\ pc = "probe" /\ dead
  BY <1>2 DEF LateIsLast, Next, Loop, Begin, Answered, Failed, Check, Unsupported, Cancel, Tick, vars
<1>3. CASE late = 1 /\ cancelled /\ pc = "check"
  BY <1>3 DEF LateIsLast, Next, Loop, Begin, Answered, Failed, Check, Return, Unsupported, Cancel, Tick, vars
<1>4. CASE late = 1 /\ cancelled /\ pc = "done" /\ outcome = "cancelled"
  BY <1>4 DEF LateIsLast, Next, Loop, Begin, Answered, Failed, Check, Unsupported, Cancel, Tick, vars
<1>5. QED
  BY <1>1, <1>2, <1>3, <1>4 DEF LateIsLast

\* detect: wherever the cancellation strikes, one more probe begins at most, it
\* chooses nothing, and detect returns the context's error.
THEOREM CancelEndsDetectionHolds == Spec => []CancelEndsDetection
<1>1. Init => LateIsLast
  BY DEF Init, LateIsLast
<1>2. LateIsLast /\ [Next]_vars => LateIsLast'
  BY LateIsLastStep
<1>3. LateIsLast => CancelEndsDetection
  BY DEF LateIsLast, CancelEndsDetection
<1>4. QED
  BY <1>1, <1>2, <1>3, PTL DEF Spec

-----------------------------------------------------------------------------
(* orderCandidates *)

\* The loop over at most three names, unrolled.
Once(all, acc, names)   == Take(all, acc, names[1])
Twice(all, acc, names)  == Take(all, Once(all, acc, names), names[2])
Thrice(all, acc, names) == Take(all, Twice(all, acc, names), names[3])

LEMMA Unrolled ==
    ASSUME NEW all, NEW acc, NEW names, Len(names) \in 1 .. 3
    PROVE  AppendUnused(all, acc, names) =
               IF Len(names) = 1 THEN Once(all, acc, names)
               ELSE IF Len(names) = 2 THEN Twice(all, acc, names) ELSE Thrice(all, acc, names)
<1>0. /\ Len(names) \in {1, 2, 3}
      /\ \A n \in 0 .. Len(names) : n \in {0, 1, 2, 3} /\ n <= Len(names)
  <2> DEFINE L == Len(names)
  <2>1. L \in 1 .. 3
    OBVIOUS
  <2> HIDE DEF L
  <2>2. L \in {1, 2, 3} /\ \A n \in 0 .. L : n \in {0, 1, 2, 3} /\ n <= L
    BY <2>1
  <2>3. QED
    BY <2>2 DEF L
<1> DEFINE Pass(f) == [n \in 0 .. Len(names) |-> IF n = 0 THEN acc ELSE Take(all, f[n - 1], names[n])]
           g == [n \in 0 .. Len(names) |->
                    IF n = 0 THEN acc ELSE IF n = 1 THEN Once(all, acc, names)
                    ELSE IF n = 2 THEN Twice(all, acc, names) ELSE Thrice(all, acc, names)]
           f == CHOOSE h : h = Pass(h)
<1>1. ASSUME NEW n \in 0 .. Len(names)
      PROVE  g[n] = IF n = 0 THEN acc ELSE Take(all, g[n - 1], names[n])
  <2>1. n \in {0, 1, 2, 3} /\ n <= Len(names)
    BY <1>0
  <2>2. /\ n = 1 => g[n - 1] = acc
        /\ n = 2 => g[n - 1] = Once(all, acc, names)
        /\ n = 3 => g[n - 1] = Twice(all, acc, names)
    BY <2>1
  <2>3. QED
    BY <2>1, <2>2 DEF Once, Twice, Thrice
<1>2. g = Pass(g)
  BY <1>1
<1>3. f = Pass(f)
  <2> HIDE DEF g, Pass
  <2>1. QED
    BY <1>2
<1>4. AppendUnused(all, acc, names) = f[Len(names)]
  BY DEF AppendUnused
<1> HIDE DEF f
<1>5. ASSUME NEW n \in 0 .. Len(names)
      PROVE  f[n] = IF n = 0 THEN acc ELSE Take(all, f[n - 1], names[n])
  BY <1>3
<1>6. f[0] = acc
  BY <1>5
<1>7. f[1] = Once(all, acc, names)
  <2>1. f[1] = Take(all, f[1 - 1], names[1])
    BY <1>5
  <2>2. QED
    BY <2>1, <1>6 DEF Once
<1>8. Len(names) >= 2 => f[2] = Twice(all, acc, names)
  <2>1. Len(names) >= 2 => f[2] = Take(all, f[2 - 1], names[2])
    BY <1>5
  <2>2. QED
    BY <2>1, <1>7 DEF Twice
<1>9. Len(names) >= 3 => f[3] = Thrice(all, acc, names)
  <2>1. Len(names) >= 3 => f[3] = Take(all, f[3 - 1], names[3])
    BY <1>5
  <2>2. QED
    BY <2>1, <1>8 DEF Thrice
<1>10. QED
  <2> HIDE DEF Pass, g
  <2> DEFINE L == Len(names)
  <2>1. /\ L = 1 => f[L] = Once(all, acc, names)
        /\ L = 2 => f[L] = Twice(all, acc, names)
        /\ L = 3 => f[L] = Thrice(all, acc, names)
    <3> HIDE DEF L
    <3>1. (L = 2 => L >= 2) /\ (L = 3 => L >= 3)
      OBVIOUS
    <3>2. QED
      BY <3>1, <1>7, <1>8, <1>9 DEF L
  <2>2. L \in {1, 2, 3}
    BY <1>0
  <2> HIDE DEF L
  <2>3. QED
    BY <1>4, <2>1, <2>2, Zenon DEF L

LEMMA TakeFacts ==
    ASSUME NEW acc, NEW p \in Protocol
    PROVE  /\ p \in ToSet(acc) => Take(defaultCandidates, acc, p) = acc
           /\ p \notin ToSet(acc) => Take(defaultCandidates, acc, p) = Append(acc, p)
<1>1. p \in ToSet(defaultCandidates)
  BY DEF Protocol, ToSet, defaultCandidates
<1>2. QED
  BY <1>1 DEF Take

LEMMA Members ==
    ASSUME NEW a, NEW b
    PROVE  ToSet(<<>>) = {} /\ ToSet(<<a>>) = {a} /\ ToSet(<<a, b>>) = {a, b}
<1>1. ToSet(<<>>) = {} /\ ToSet(<<a>>) = {a}
  BY DEF ToSet
<1>2. DOMAIN <<a, b>> = {1, 2}
  OBVIOUS
<1>3. ToSet(<<a, b>>) = {a, b}
  BY <1>2 DEF ToSet
<1>4. QED
  BY <1>1, <1>3

LEMMA ThreeMembers ==
    ASSUME NEW a, NEW b, NEW c
    PROVE  ToSet(<<a, b, c>>) = {a, b, c}
<1>1. DOMAIN <<a, b, c>> = {1, 2, 3}
  OBVIOUS
<1>2. QED
  BY <1>1 DEF ToSet

LEMMA Appends ==
    ASSUME NEW a, NEW b, NEW c
    PROVE  /\ Append(<<>>, a) = <<a>> /\ Append(<<a>>, b) = <<a, b>>
           /\ Append(<<a, b>>, c) = <<a, b, c>>
<1> DEFINE S == {a, b, c}
<1>1. <<>> \in Seq(S) /\ <<a>> \in Seq(S) /\ <<a, b>> \in Seq(S) /\ <<a, b, c>> \in Seq(S)
  OBVIOUS
<1>2. Append(<<>>, a) = <<a>>
  OBVIOUS
<1>3. Append(<<a>>, b) = <<a, b>>
  <2> DEFINE t == Append(<<a>>, b)
  <2>1. t \in Seq(S) /\ Len(t) = 2 /\ t[1] = a /\ t[2] = b
    OBVIOUS
  <2> HIDE DEF t
  <2>2. t = <<a, b>>
    BY <2>1
  <2>3. QED
    BY <2>2 DEF t
<1>4. Append(<<a, b>>, c) = <<a, b, c>>
  <2> DEFINE t == Append(<<a, b>>, c)
  <2>1. t \in Seq(S) /\ Len(t) = 3 /\ t[1] = a /\ t[2] = b /\ t[3] = c
    OBVIOUS
  <2> HIDE DEF t
  <2>2. t = <<a, b, c>>
    BY <2>1
  <2>3. QED
    BY <2>2 DEF t
<1>5. QED
  BY <1>2, <1>3, <1>4

\* The first loop keeps an order without repetitions as it is.
LEMMA Named ==
    ASSUME NEW a \in Protocol, NEW b \in Protocol, NEW c \in Protocol,
           a # b, a # c, b # c
    PROVE  /\ AppendUnused(defaultCandidates, <<>>, <<a>>) = <<a>>
           /\ AppendUnused(defaultCandidates, <<>>, <<a, b>>) = <<a, b>>
           /\ AppendUnused(defaultCandidates, <<>>, <<a, b, c>>) = <<a, b, c>>
<1>1. /\ Take(defaultCandidates, <<>>, a) = <<a>>
      /\ Take(defaultCandidates, <<a>>, b) = <<a, b>>
      /\ Take(defaultCandidates, <<a, b>>, c) = <<a, b, c>>
  <2>1. ToSet(<<>>) = {} /\ ToSet(<<a>>) = {a} /\ ToSet(<<a, b>>) = {a, b}
    BY Members, Zenon
  <2>2. a \notin ToSet(<<>>) /\ b \notin ToSet(<<a>>) /\ c \notin ToSet(<<a, b>>)
    BY <2>1
  <2>3. /\ Take(defaultCandidates, <<>>, a) = Append(<<>>, a)
        /\ Take(defaultCandidates, <<a>>, b) = Append(<<a>>, b)
        /\ Take(defaultCandidates, <<a, b>>, c) = Append(<<a, b>>, c)
    BY <2>2, TakeFacts, Zenon
  <2>4. QED
    BY <2>3, Appends, Zenon
<1>2. AppendUnused(defaultCandidates, <<>>, <<a>>) = Once(defaultCandidates, <<>>, <<a>>)
  <2>1. Len(<<a>>) = 1 /\ Len(<<a>>) \in 1 .. 3
    OBVIOUS
  <2>2. QED
    BY <2>1, Unrolled, Zenon
<1>3. AppendUnused(defaultCandidates, <<>>, <<a, b>>) = Twice(defaultCandidates, <<>>, <<a, b>>)
  <2>1. Len(<<a, b>>) = 2 /\ Len(<<a, b>>) # 1 /\ Len(<<a, b>>) \in 1 .. 3
    OBVIOUS
  <2>2. QED
    BY <2>1, Unrolled, Zenon
<1>4. AppendUnused(defaultCandidates, <<>>, <<a, b, c>>) = Thrice(defaultCandidates, <<>>, <<a, b, c>>)
  <2>1. /\ Len(<<a, b, c>>) # 1 /\ Len(<<a, b, c>>) # 2 /\ Len(<<a, b, c>>) \in 1 .. 3
    OBVIOUS
  <2>2. QED
    BY <2>1, Unrolled, Zenon
<1>5. /\ <<a>>[1] = a /\ <<a, b>>[1] = a /\ <<a, b>>[2] = b
      /\ <<a, b, c>>[1] = a /\ <<a, b, c>>[2] = b /\ <<a, b, c>>[3] = c
  OBVIOUS
<1>6. QED
  BY <1>1, <1>2, <1>3, <1>4, <1>5, Zenon DEF Once, Twice, Thrice

\* The second loop goes over the candidates in their default order.
LEMMA Others ==
    ASSUME NEW acc
    PROVE  AppendUnused(defaultCandidates, acc, defaultCandidates) =
               Take(defaultCandidates,
                    Take(defaultCandidates, Take(defaultCandidates, acc, "natpmp"), "pcp"), "upnp")
<1>1. /\ Len(defaultCandidates) # 1 /\ Len(defaultCandidates) # 2
      /\ Len(defaultCandidates) \in 1 .. 3
      /\ defaultCandidates[1] = "natpmp" /\ defaultCandidates[2] = "pcp"
      /\ defaultCandidates[3] = "upnp"
  BY DEF defaultCandidates
<1>2. QED
  BY <1>1, Unrolled, Zenon DEF Once, Twice, Thrice

\* Two protocols in their default order.
Behind(x, y) == <<x, y>> \in {<<"natpmp", "pcp">>, <<"natpmp", "upnp">>, <<"pcp", "upnp">>}

\* What the second loop makes of three, two and one protocols in front: those
\* that are missing are appended.
LEMMA AllThree ==
    ASSUME NEW a \in Protocol, NEW b \in Protocol, NEW c \in Protocol,
           a # b, a # c, b # c
    PROVE  Protocol = {a, b, c}
BY DEF Protocol

LEMMA NothingMissing ==
    ASSUME NEW a \in Protocol, NEW b \in Protocol, NEW c \in Protocol,
           a # b, a # c, b # c
    PROVE  AppendUnused(defaultCandidates, <<a, b, c>>, defaultCandidates) = <<a, b, c>>
<1>1. \A p \in Protocol : Take(defaultCandidates, <<a, b, c>>, p) = <<a, b, c>>
  <2>1. Protocol = {a, b, c}
    BY AllThree, Zenon
  <2>2. ToSet(<<a, b, c>>) = {a, b, c}
    BY ThreeMembers, Zenon
  <2>3. QED
    BY <2>1, <2>2, TakeFacts, Zenon
<1>2. "natpmp" \in Protocol /\ "pcp" \in Protocol /\ "upnp" \in Protocol
  BY DEF Protocol
<1>3. QED
  BY <1>1, <1>2, Others, Zenon

LEMMA OneMissing ==
    ASSUME NEW a \in Protocol, NEW b \in Protocol, NEW c \in Protocol,
           a # b, a # c, b # c
    PROVE  AppendUnused(defaultCandidates, <<a, b>>, defaultCandidates) = <<a, b, c>>
<1>1. \A p \in Protocol : Take(defaultCandidates, <<a, b, c>>, p) = <<a, b, c>>
  <2>1. Protocol = {a, b, c}
    BY AllThree, Zenon
  <2>2. ToSet(<<a, b, c>>) = {a, b, c}
    BY ThreeMembers, Zenon
  <2>3. QED
    BY <2>1, <2>2, TakeFacts, Zenon
<1>2. ToSet(<<a, b>>) = {a, b}
  BY Members, Zenon
<1>3. Take(defaultCandidates, <<a, b>>, c) = <<a, b, c>>
  <2>1. c \notin ToSet(<<a, b>>)
    BY <1>2
  <2>2. Take(defaultCandidates, <<a, b>>, c) = Append(<<a, b>>, c)
    BY <2>1, TakeFacts, Zenon
  <2>3. QED
    BY <2>2, Appends, Zenon
<1>4. \A p \in Protocol : p # c => Take(defaultCandidates, <<a, b>>, p) = <<a, b>>
  <2>1. \A p \in Protocol : p # c => p \in ToSet(<<a, b>>)
    <3>1. Protocol = {a, b, c}
      BY AllThree, Zenon
    <3>2. QED
      BY <3>1, <1>2
  <2>2. QED
    BY <2>1, TakeFacts, Zenon
<1>5. /\ "natpmp" \in Protocol /\ "pcp" \in Protocol /\ "upnp" \in Protocol
      /\ c \in {"natpmp", "pcp", "upnp"}
      /\ "natpmp" # "pcp" /\ "natpmp" # "upnp" /\ "pcp" # "upnp"
  BY DEF Protocol
<1>6. CASE c = "natpmp"
  BY <1>1, <1>3, <1>5, <1>6, Others, Zenon
<1>7. CASE c = "pcp"
  BY <1>1, <1>3, <1>4, <1>5, <1>7, Others, Zenon
<1>8. CASE c = "upnp"
  BY <1>3, <1>4, <1>5, <1>8, Others, Zenon
<1>9. QED
  BY <1>5, <1>6, <1>7, <1>8

LEMMA TwoMissing ==
    ASSUME NEW a \in Protocol, NEW b \in Protocol, NEW c \in Protocol,
           a # b, a # c, Behind(b, c)
    PROVE  AppendUnused(defaultCandidates, <<a>>, defaultCandidates) = <<a, b, c>>
<1>0. b # c
  BY DEF Behind
<1>1. /\ Take(defaultCandidates, <<a>>, a) = <<a>>
      /\ Take(defaultCandidates, <<a>>, b) = <<a, b>>
      /\ Take(defaultCandidates, <<a, b>>, a) = <<a, b>>
      /\ Take(defaultCandidates, <<a, b>>, c) = <<a, b, c>>
      /\ Take(defaultCandidates, <<a, b, c>>, a) = <<a, b, c>>
  <2>1. /\ ToSet(<<a>>) = {a}
        /\ ToSet(<<a, b>>) = {a, b}
        /\ ToSet(<<a, b, c>>) = {a, b, c}
    <3>1. ToSet(<<a>>) = {a}
      BY Members, Zenon
    <3>2. ToSet(<<a, b>>) = {a, b}
      BY Members, Zenon
    <3>3. ToSet(<<a, b, c>>) = {a, b, c}
      BY ThreeMembers, Zenon
    <3>4. QED
      BY <3>1, <3>2, <3>3
  <2>2. /\ a \in ToSet(<<a>>) /\ a \in ToSet(<<a, b>>) /\ a \in ToSet(<<a, b, c>>)
        /\ b \notin ToSet(<<a>>) /\ c \notin ToSet(<<a, b>>)
    BY <1>0, <2>1
  <2>3. Append(<<a>>, b) = <<a, b>> /\ Append(<<a, b>>, c) = <<a, b, c>>
    BY Appends, Zenon
  <2>4. QED
    BY <2>2, <2>3, TakeFacts, Zenon
<1>2. \/ a = "natpmp" /\ b = "pcp" /\ c = "upnp"
      \/ a = "pcp" /\ b = "natpmp" /\ c = "upnp"
      \/ a = "upnp" /\ b = "natpmp" /\ c = "pcp"
  BY DEF Behind, Protocol
<1>3. QED
  BY <1>1, <1>2, Others, Zenon

\* An order names none, one, two or three protocols, none of them twice.
LEMMA Orders ==
    ASSUME NEW o \in ValidOrders
    PROVE  \/ o = <<>>
           \/ \E a \in Protocol : o = <<a>>
           \/ \E a, b \in Protocol : a # b /\ o = <<a, b>>
           \/ \E a, b, c \in Protocol : a # b /\ a # c /\ b # c /\ o = <<a, b, c>>
<1>1. IsInjective(o) /\ \E n \in 0 .. 3 : o \in [1 .. n -> Protocol]
  BY DEF ValidOrders, BoundedSeq, SeqOf, defaultCandidates
<1>2. PICK n \in 0 .. 3 : o \in [1 .. n -> Protocol]
  BY <1>1
<1>3. CASE n = 0
  BY <1>2, <1>3
<1>4. CASE n = 1
  BY <1>2, <1>4
<1>5. CASE n = 2
  <2>1. o[1] \in Protocol /\ o[2] \in Protocol /\ o = <<o[1], o[2]>>
    BY <1>2, <1>5
  <2>2. o[1] # o[2]
    BY <1>1, <1>2, <1>5 DEF IsInjective
  <2>3. QED
    BY <2>1, <2>2
<1>6. CASE n = 3
  <2>1. /\ o[1] \in Protocol /\ o[2] \in Protocol /\ o[3] \in Protocol
        /\ o = <<o[1], o[2], o[3]>>
    BY <1>2, <1>6
  <2>2. o[1] # o[2] /\ o[1] # o[3] /\ o[2] # o[3]
    BY <1>1, <1>2, <1>6 DEF IsInjective
  <2>3. QED
    BY <2>1, <2>2
<1>7. QED
  BY <1>2, <1>3, <1>4, <1>5, <1>6

\* What orderCandidates makes of an order: a permutation of the protocols that
\* begins with it and goes on in the default order.
Arranged(o, a, b, c) ==
    /\ a # b /\ a # c /\ b # c
    /\ \/ o = <<>> /\ <<a, b, c>> = defaultCandidates
       \/ o = <<a>> /\ Behind(b, c)
       \/ o = <<a, b>>
       \/ o = <<a, b, c>>

LEMMA OthersOfOne ==
    ASSUME NEW a \in Protocol
    PROVE  \E b, c \in Protocol : a # b /\ a # c /\ Behind(b, c)
BY DEF Protocol, Behind

LEMMA OtherOfTwo ==
    ASSUME NEW a \in Protocol, NEW b \in Protocol, a # b
    PROVE  \E c \in Protocol : a # c /\ b # c
BY DEF Protocol

LEMMA Arranges ==
    ASSUME NEW o \in ValidOrders
    PROVE  \E a, b, c \in Protocol :
              Arranged(o, a, b, c) /\ orderCandidates(defaultCandidates, o) = <<a, b, c>>
<1>1. CASE o = <<>>
  <2>1. /\ orderCandidates(defaultCandidates, o) = <<"natpmp", "pcp", "upnp">>
        /\ Arranged(o, "natpmp", "pcp", "upnp")
    BY <1>1 DEF orderCandidates, Arranged, defaultCandidates
  <2>2. QED
    BY <2>1 DEF Protocol
<1>2. ASSUME NEW a \in Protocol, o = <<a>>
      PROVE  \E b, c \in Protocol :
                Arranged(o, a, b, c) /\ orderCandidates(defaultCandidates, o) = <<a, b, c>>
  <2>1. PICK b \in Protocol, c \in Protocol : a # b /\ a # c /\ Behind(b, c)
    BY OthersOfOne
  <2>2. b # c
    BY <2>1 DEF Behind
  <2>3. o # <<>>
    BY <1>2
  <2>4. AppendUnused(defaultCandidates, <<>>, o) = <<a>>
    BY <1>2, <2>1, <2>2, Named, Zenon
  <2>5. AppendUnused(defaultCandidates, <<a>>, defaultCandidates) = <<a, b, c>>
    BY <2>1, TwoMissing, Zenon
  <2>6. QED
    BY <1>2, <2>1, <2>2, <2>3, <2>4, <2>5, Zenon DEF orderCandidates, Arranged
<1>3. ASSUME NEW a \in Protocol, NEW b \in Protocol, a # b, o = <<a, b>>
      PROVE  \E c \in Protocol :
                Arranged(o, a, b, c) /\ orderCandidates(defaultCandidates, o) = <<a, b, c>>
  <2>1. PICK c \in Protocol : a # c /\ b # c
    BY <1>3, OtherOfTwo, Zenon
  <2>2. o # <<>>
    BY <1>3
  <2>3. AppendUnused(defaultCandidates, <<>>, o) = <<a, b>>
    BY <1>3, <2>1, Named, Zenon
  <2>4. AppendUnused(defaultCandidates, <<a, b>>, defaultCandidates) = <<a, b, c>>
    BY <1>3, <2>1, OneMissing, Zenon
  <2>5. QED
    BY <1>3, <2>1, <2>2, <2>3, <2>4, Zenon DEF orderCandidates, Arranged
<1>4. ASSUME NEW a \in Protocol, NEW b \in Protocol, NEW c \in Protocol,
             a # b, a # c, b # c, o = <<a, b, c>>
      PROVE  Arranged(o, a, b, c) /\ orderCandidates(defaultCandidates, o) = <<a, b, c>>
  <2>1. o # <<>>
    BY <1>4
  <2>2. AppendUnused(defaultCandidates, <<>>, o) = <<a, b, c>>
    BY <1>4, Named, Zenon
  <2>3. AppendUnused(defaultCandidates, <<a, b, c>>, defaultCandidates) = <<a, b, c>>
    BY <1>4, NothingMissing, Zenon
  <2>4. QED
    BY <1>4, <2>1, <2>2, <2>3, Zenon DEF orderCandidates, Arranged
<1>5. QED
  <2>1. CASE \E a \in Protocol : o = <<a>>
    BY <1>2, <2>1, Zenon
  <2>2. CASE \E a, b \in Protocol : a # b /\ o = <<a, b>>
    <3>1. PICK a \in Protocol, b \in Protocol : a # b /\ o = <<a, b>>
      BY <2>2
    <3>2. PICK c \in Protocol :
              Arranged(o, a, b, c) /\ orderCandidates(defaultCandidates, o) = <<a, b, c>>
      BY <1>3, <3>1, Zenon
    <3>3. QED
      BY <3>2, Zenon
  <2>3. CASE \E a, b, c \in Protocol : a # b /\ a # c /\ b # c /\ o = <<a, b, c>>
    <3>1. PICK a \in Protocol, b \in Protocol, c \in Protocol :
              a # b /\ a # c /\ b # c /\ o = <<a, b, c>>
      BY <2>3
    <3>2. Arranged(o, a, b, c) /\ orderCandidates(defaultCandidates, o) = <<a, b, c>>
      BY <1>4, <3>1, Zenon
    <3>3. QED
      BY <3>2, Zenon
  <2>4. QED
    BY <1>1, <2>1, <2>2, <2>3, Orders, Zenon

-----------------------------------------------------------------------------
\* Where an element of a sequence is, when it is there only once.
LEMMA PlaceOf ==
    ASSUME NEW seq, NEW n \in DOMAIN seq, \A m \in DOMAIN seq : seq[m] = seq[n] => m = n
    PROVE  Place(seq, seq[n]) = n
<1>1. \E m \in DOMAIN seq : seq[m] = seq[n]
  OBVIOUS
<1>2. Place(seq, seq[n]) \in DOMAIN seq /\ seq[Place(seq, seq[n])] = seq[n]
  BY <1>1 DEF Place
<1>3. QED
  BY <1>2

LEMMA PlaceOfTwo ==
    ASSUME NEW a, NEW b, a # b
    PROVE  Place(<<a, b>>, a) = 1 /\ Place(<<a, b>>, b) = 2
<1> DEFINE s == <<a, b>>
<1>1. DOMAIN s = {1, 2} /\ s[1] = a /\ s[2] = b
  OBVIOUS
<1> HIDE DEF s
<1>2. Place(s, s[1]) = 1 /\ Place(s, s[2]) = 2
  BY <1>1, PlaceOf, Zenon
<1>3. QED
  BY <1>1, <1>2 DEF s

LEMMA PlaceOfThree ==
    ASSUME NEW a, NEW b, NEW c, a # b, a # c, b # c
    PROVE  /\ Place(<<a, b, c>>, a) = 1 /\ Place(<<a, b, c>>, b) = 2
           /\ Place(<<a, b, c>>, c) = 3
<1> DEFINE s == <<a, b, c>>
<1>1. DOMAIN s = {1, 2, 3} /\ s[1] = a /\ s[2] = b /\ s[3] = c
  OBVIOUS
<1> HIDE DEF s
<1>2. Place(s, s[1]) = 1 /\ Place(s, s[2]) = 2 /\ Place(s, s[3]) = 3
  BY <1>1, PlaceOf, Zenon
<1>3. QED
  BY <1>1, <1>2 DEF s

LEMMA PlaceOfDefault ==
    /\ Place(defaultCandidates, "natpmp") = 1
    /\ Place(defaultCandidates, "pcp") = 2
    /\ Place(defaultCandidates, "upnp") = 3
<1>1. "natpmp" # "pcp" /\ "natpmp" # "upnp" /\ "pcp" # "upnp"
  OBVIOUS
<1>2. /\ Place(<<"natpmp", "pcp", "upnp">>, "natpmp") = 1
      /\ Place(<<"natpmp", "pcp", "upnp">>, "pcp") = 2
      /\ Place(<<"natpmp", "pcp", "upnp">>, "upnp") = 3
  BY <1>1, PlaceOfThree
<1>3. QED
  BY <1>2 DEF defaultCandidates

\* The cases in which EachProbedInOrder has p probed before q.
Before(p, q) ==
    \/ p \in ToSet(order) /\ q \notin ToSet(order)
    \/ {p, q} \subseteq ToSet(order) /\ Place(order, p) < Place(order, q)
    \/ {p, q} \cap ToSet(order) = {}
       /\ Place(defaultCandidates, p) < Place(defaultCandidates, q)

InLine(p, q, a, b, c) == (p = a /\ q \in {b, c}) \/ (p = b /\ q = c)

LEMMA BeforeIsInLine ==
    ASSUME NEW a \in Protocol, NEW b \in Protocol, NEW c \in Protocol, Arranged(order, a, b, c),
           NEW p \in {a, b, c}, NEW q \in {a, b, c}, Before(p, q)
    PROVE  InLine(p, q, a, b, c)
<1>1. a # b /\ a # c /\ b # c
  BY DEF Arranged
<1> DEFINE P(x) == Place(order, x)
           D(x) == Place(defaultCandidates, x)
<1>2. D(a) \in Nat /\ D(b) \in Nat /\ D(c) \in Nat
  BY PlaceOfDefault DEF Protocol
<1>3. CASE order = <<>> /\ <<a, b, c>> = defaultCandidates
  <2>1. ToSet(order) = {}
    BY <1>3, Members, Zenon
  <2>2. D(a) = 1 /\ D(b) = 2 /\ D(c) = 3
    <3>1. /\ Place(<<a, b, c>>, a) = 1
          /\ Place(<<a, b, c>>, b) = 2
          /\ Place(<<a, b, c>>, c) = 3
      BY <1>1, PlaceOfThree
    <3>2. QED
      BY <1>3, <3>1, Zenon
  <2>3. D(p) < D(q)
    BY <2>1 DEF Before
  <2> HIDE DEF D
  <2>4. QED
    BY <2>2, <2>3 DEF InLine
<1>4. CASE order = <<a>> /\ Behind(b, c)
  <2>1. ToSet(order) = {a}
    BY <1>4, Members, Zenon
  <2>2. P(a) = 1
    <3>1. DOMAIN <<a>> = {1} /\ <<a>>[1] = a
      OBVIOUS
    <3>2. Place(<<a>>, <<a>>[1]) = 1
      BY <3>1, PlaceOf
    <3>3. QED
      BY <1>4, <3>1, <3>2
  <2>3. D(b) < D(c)
    BY <1>4, PlaceOfDefault DEF Behind
  <2>4. /\ p # a \/ q # a
        /\ q # a
        /\ p # a => D(p) < D(q)
    <3> DEFINE u == P(p)
               v == P(q)
    <3>1. \/ p = a /\ q # a
          \/ p = a /\ q = a /\ u < v
          \/ p # a /\ q # a /\ D(p) < D(q)
      BY <2>1 DEF Before
    <3>2. p = a /\ q = a => u = 1 /\ v = 1
      BY <2>2
    <3> HIDE DEF u, v, D, P
    <3>3. QED
      BY <3>1, <3>2
  <2> HIDE DEF D, P
  <2>5. QED
    BY <1>2, <2>3, <2>4 DEF InLine
<1>5. CASE order = <<a, b>>
  <2>1. ToSet(order) = {a, b}
    BY <1>5, Members, Zenon
  <2>2. P(a) = 1 /\ P(b) = 2
    BY <1>1, <1>5, PlaceOfTwo, Zenon
  <2>3. \/ p \in {a, b} /\ q = c
        \/ p \in {a, b} /\ q \in {a, b} /\ P(p) < P(q)
        \/ p = c /\ q = c /\ D(p) < D(q)
    BY <1>1, <2>1 DEF Before
  <2> HIDE DEF P, D
  <2>4. QED
    BY <1>1, <1>2, <2>2, <2>3 DEF InLine
<1>6. CASE order = <<a, b, c>>
  <2>1. ToSet(order) = {a, b, c}
    BY <1>6, ThreeMembers, Zenon
  <2>2. P(a) = 1 /\ P(b) = 2 /\ P(c) = 3
    <3>1. /\ Place(<<a, b, c>>, a) = 1
          /\ Place(<<a, b, c>>, b) = 2
          /\ Place(<<a, b, c>>, c) = 3
      BY <1>1, PlaceOfThree
    <3>2. QED
      BY <1>6, <3>1, Zenon
  <2>3. P(p) < P(q)
    BY <2>1 DEF Before
  <2> HIDE DEF P
  <2>4. QED
    BY <2>2, <2>3 DEF InLine
<1>7. QED
  BY <1>3, <1>4, <1>5, <1>6 DEF Arranged

LEMMA ProbedInOrder ==
    ASSUME Init
    PROVE  EachProbedInOrder
<1>1. PICK a \in Protocol, b \in Protocol, c \in Protocol :
          Arranged(order, a, b, c) /\ candidates = <<a, b, c>>
  BY Arranges DEF Init
<1>2. a # b /\ a # c /\ b # c
  BY <1>1 DEF Arranged
<1>3. Protocol = {a, b, c}
  BY <1>2, AllThree, Zenon
<1>4. IsInjective(candidates)
  BY <1>1, <1>2 DEF IsInjective
<1>5. ToSet(candidates) = Protocol
  BY <1>1, <1>3, ThreeMembers, Zenon
<1>6. ASSUME NEW p \in Protocol, NEW q \in Protocol, Before(p, q)
      PROVE  Place(candidates, p) < Place(candidates, q)
  <2>1. InLine(p, q, a, b, c)
    BY <1>1, <1>3, <1>6, BeforeIsInLine, Zenon
  <2> DEFINE C(x) == Place(candidates, x)
  <2>2. C(a) = 1 /\ C(b) = 2 /\ C(c) = 3
    <3>1. /\ Place(<<a, b, c>>, a) = 1
          /\ Place(<<a, b, c>>, b) = 2
          /\ Place(<<a, b, c>>, c) = 3
      BY <1>2, PlaceOfThree
    <3>2. QED
      BY <1>1, <3>1, Zenon
  <2> HIDE DEF C
  <2>3. C(p) < C(q)
    BY <2>1, <2>2 DEF InLine
  <2>4. QED
    BY <2>3 DEF C
<1>7. QED
  BY <1>4, <1>5, <1>6, Zenon DEF EachProbedInOrder, Before

\* orderCandidates: whatever order is configured, each protocol is probed once,
\* those it names first and as it has them, the others in the default order.
THEOREM EachProbedInOrderHolds == Spec => []EachProbedInOrder
<1>1. ASSUME EachProbedInOrder, [Next]_vars
      PROVE  EachProbedInOrder'
  <2>1. UNCHANGED inputs
    BY <1>1, InputsStay
  <2>2. QED
    BY <1>1, <2>1 DEF EachProbedInOrder, inputs
<1>2. QED
  BY <1>1, ProbedInOrder, PTL DEF Spec
=============================================================================
