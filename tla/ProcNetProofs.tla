--------------------------- MODULE ProcNetProofs ----------------------------
(***************************************************************************)
(* Proofs about ProcNet, for tables of any length and contents and any     *)
(* number of changes during a scan.  The argument is about what lies       *)
(* behind the reader: a place that has not changed since the scan began    *)
(* was read as it is now.                                                  *)
(***************************************************************************)
EXTENDS ProcNet, TLAPS

Table == [state : {"open", "empty", "missing", "denied"},
          rows  : [1 .. Length[reader] -> Rows(reader)]]

FilesOK ==
    /\ reader \in {"tcp", "udp", "route"}
    /\ files \in [1 .. (IF reader = "route" THEN 1 ELSE 2) -> Table]
    /\ file \in DOMAIN files /\ row \in 0 .. Length[reader] + 1

\* Every row there is has been there since the scan began.
EverOK == (\A p \in Places : At(p) \in ever) /\ ever \subseteq Rows(reader)

\* The reader has been there.
Behind(p) == p[1] < file \/ (p[1] = file /\ p[2] < row)

\* No listener that has not moved has been passed over.
Clear == ReadsSockets /\ Scanning => \A p \in Steady : Behind(p) => ~Listens(At(p))

\* The best route so far was read, and what is at its place now is the same or
\* has changed in the meantime.
BestIsBehind ==
    best # NoRoute =>
        /\ best \in ever /\ Usable(best)
        /\ \E n \in 1 .. row - 1 : At(<<1, n>>) = best \/ <<1, n>> \in changed

\* A route is preferred to the one at place p.
Preferred(r, p) ==
    \/ r.metric < At(p).metric
    \/ /\ r.metric = At(p).metric
       /\ \E n \in 1 .. p[2] : At(<<1, n>>) = r \/ <<1, n>> \in changed

\* No route behind the reader that has not moved goes before the best one.
BestSoFar ==
    reader = "route" /\ Scanning =>
        /\ BestIsBehind
        /\ \A p \in Steady : Behind(p) /\ Usable(At(p)) => best # NoRoute /\ Preferred(best, p)

IInv ==
    /\ FilesOK /\ EverOK /\ Clear /\ BestSoFar
    /\ ListenerAnswer /\ BestRoute /\ FailsForAReason

-----------------------------------------------------------------------------
(* Places and rows *)

LEMMA PlaceFacts ==
    ASSUME FilesOK
    PROVE  /\ Length[reader] \in Nat /\ Length[reader] > 0
           /\ DOMAIN files = IF reader = "route" THEN {1} ELSE {1, 2}
           /\ Len(files) = IF reader = "route" THEN 1 ELSE 2
           /\ file \in Nat /\ row \in Nat
           /\ \A p \in Places : /\ p = <<p[1], p[2]>>
                                /\ p[1] \in DOMAIN files /\ p[1] \in Nat /\ p[1] >= 1
                                /\ p[2] \in 1 .. Length[reader] /\ p[2] \in Nat /\ p[2] >= 1
           /\ row \in 1 .. Length[reader] => <<file, row>> \in Places
<1>1. Length[reader] \in Nat /\ Length[reader] > 0
  BY ProcNetAssumption DEF FilesOK
<1>2. DOMAIN files = IF reader = "route" THEN {1} ELSE {1, 2}
  <2>1. DOMAIN files = 1 .. (IF reader = "route" THEN 1 ELSE 2)
    BY DEF FilesOK
  <2>2. 1 .. 1 = {1} /\ 1 .. 2 = {1, 2}
    OBVIOUS
  <2>3. CASE reader = "route"
    BY <2>1, <2>2, <2>3
  <2>4. CASE reader # "route"
    BY <2>1, <2>2, <2>4
  <2>5. QED
    BY <2>3, <2>4
<1>3. Len(files) = IF reader = "route" THEN 1 ELSE 2
  BY DEF FilesOK
<1>4. DOMAIN files \subseteq Nat \ {0}
  BY <1>2
<1>5. file \in Nat /\ row \in Nat
  BY <1>1, <1>4 DEF FilesOK
<1>6. ASSUME NEW p \in Places
      PROVE  /\ p = <<p[1], p[2]>>
             /\ p[1] \in DOMAIN files /\ p[1] \in Nat /\ p[1] >= 1
             /\ p[2] \in 1 .. Length[reader] /\ p[2] \in Nat /\ p[2] >= 1
  <2>1. /\ p = <<p[1], p[2]>>
        /\ p[1] \in DOMAIN files /\ p[2] \in 1 .. Length[reader]
    BY DEF Places
  <2>2. QED
    BY <1>1, <1>4, <2>1
<1>7. row \in 1 .. Length[reader] => <<file, row>> \in Places
  BY DEF FilesOK, Places
<1>8. QED
  BY <1>1, <1>2, <1>3, <1>5, <1>6, <1>7

LEMMA ChangeFacts ==
    ASSUME FilesOK, NEW place \in Places, NEW r \in Rows(reader), Change(place, r)
    PROVE  /\ FilesOK' /\ Places' = Places
           /\ \A p \in Places : At(p)' = IF p = place THEN r ELSE At(p)
           /\ \A f \in DOMAIN files : Open(f)' = Open(f)
           /\ Steady' = Steady \ {place}
           /\ UNCHANGED <<reader, file, row, best, answer, failed>>
           /\ changed' = changed \cup {place} /\ ever' = ever \cup {r}
<1>1. /\ files' = [files EXCEPT ![place[1]].rows[place[2]] = r]
      /\ changed' = changed \cup {place} /\ ever' = ever \cup {r}
      /\ UNCHANGED <<reader, file, row, best, answer, failed>>
  BY DEF Change, scan
<1>2. /\ files \in [DOMAIN files -> Table] /\ place[1] \in DOMAIN files
      /\ place[2] \in 1 .. Length[reader] /\ place = <<place[1], place[2]>>
  BY PlaceFacts DEF FilesOK
<1>3. /\ files' \in [DOMAIN files -> Table]
      /\ \A f \in DOMAIN files : files'[f].state = files[f].state
      /\ \A f \in DOMAIN files, n \in 1 .. Length[reader] :
            files'[f].rows[n] = IF f = place[1] /\ n = place[2] THEN r ELSE files[f].rows[n]
  BY <1>1, <1>2 DEF Table
<1>4. FilesOK'
  <2>1. Table' = Table
    BY <1>1 DEF Table
  <2>2. QED
    BY <1>1, <1>3, <2>1 DEF FilesOK
<1>5. Places' = Places
  BY <1>1, <1>3 DEF Places
<1>6. \A p \in Places : At(p)' = IF p = place THEN r ELSE At(p)
  BY <1>2, <1>3, PlaceFacts DEF At
<1>7. \A f \in DOMAIN files : Open(f)' = Open(f)
  BY <1>3 DEF Open
<1>8. Steady' = Steady \ {place}
  BY <1>1, <1>5, <1>7, PlaceFacts DEF Steady
<1>9. QED
  BY <1>1, <1>4, <1>5, <1>6, <1>7, <1>8
-----------------------------------------------------------------------------
(* Steps of the reader *)

LEMMA SameTables ==
    ASSUME FilesOK, EverOK, UNCHANGED <<reader, files, changed, ever>>
    PROVE  /\ Places' = Places /\ Steady' = Steady /\ EverOK'
           /\ \A p \in Places : At(p)' = At(p)
           /\ \A f \in DOMAIN files : Open(f)' = Open(f)
           /\ \A r : Listens(r)' = Listens(r)
           /\ ReadsSockets' = ReadsSockets
           /\ file' \in DOMAIN files /\ row' \in 0 .. Length[reader] + 1 => FilesOK'
<1>1. Table' = Table
  BY DEF Table
<1>2. Places' = Places /\ \A p \in Places : At(p)' = At(p)
  BY DEF Places, At
<1>3. \A f \in DOMAIN files : Open(f)' = Open(f)
  BY DEF Open
<1>4. Steady' = Steady
  BY <1>2 DEF Steady, Open
<1>5. EverOK'
  BY <1>2 DEF EverOK, Rows
<1>6. QED
  BY <1>1, <1>2, <1>3, <1>4, <1>5 DEF FilesOK, Listens, ReadsSockets

\* A scan that goes on has not answered yet.
LEMMA Undecided ==
    ASSUME answer' = Pending
    PROVE  ListenerAnswer' /\ BestRoute' /\ FailsForAReason'
BY DEF Pending, Absent, Failure, ListenerAnswer, SteadyIsSeen, SeenWasThere, BestRoute,
       FailsForAReason

\* A failure is right when there is a reason for it.
LEMMA FailureStep ==
    ASSUME IInv, answer' = Failure, UNCHANGED <<reader, files, file, row, changed, ever>>,
           FailsForAReason'
    PROVE  IInv'
<1>1. FilesOK' /\ EverOK'
  BY SameTables DEF IInv, FilesOK
<1>2. answer' # Pending /\ answer' # Absent /\ answer'.is # "found"
  BY DEF Failure, Pending, Absent
<1>3. Clear' /\ BestSoFar'
  BY <1>2 DEF Clear, BestSoFar, Scanning
<1>4. ListenerAnswer' /\ BestRoute'
  BY <1>2 DEF ListenerAnswer, SteadyIsSeen, SeenWasThere, BestRoute
<1>5. QED
  BY <1>1, <1>3, <1>4 DEF IInv

LEMMA OpenFileStep ==
    ASSUME IInv, OpenFile
    PROVE  IInv'
<1>1. /\ Scanning /\ row = 0 /\ row' = 1
      /\ UNCHANGED <<reader, files, file, best, answer, changed, ever>>
  BY DEF OpenFile, Header, NextRow, Untouched, IInv, FilesOK
<1>2. FilesOK' /\ EverOK'
  BY <1>1, SameTables, PlaceFacts DEF IInv, FilesOK
<1>3. ASSUME NEW p \in Places
      PROVE  Behind(p)' = Behind(p)
  BY <1>1, <1>3, PlaceFacts DEF Behind, IInv
<1>4. Clear'
  BY <1>1, <1>3, SameTables DEF Clear, IInv, Scanning, Steady
<1>5. BestSoFar'
  <2>1. SUFFICES ASSUME reader = "route"
                 PROVE  /\ BestIsBehind'
                        /\ \A p \in Steady : Behind(p) /\ Usable(At(p))
                              => best # NoRoute /\ Preferred(best, p)'
    BY <1>1, <1>3, SameTables DEF BestSoFar, IInv, Steady
  <2>2. BestIsBehind /\ best = NoRoute
    BY <1>1, <2>1 DEF IInv, BestSoFar, BestIsBehind
  <2>3. QED
    BY <1>1, <2>1, <2>2 DEF IInv, BestSoFar, BestIsBehind
<1>6. QED
  BY <1>1, <1>2, <1>4, <1>5, Undecided DEF IInv, Scanning

\* What is read to its end has been read as it is now.
LEMMA FileDoneStep ==
    ASSUME IInv, ReadsSockets, Scanning, FileDone, Untouched,
           \A p \in Steady : p[1] = file => ~Listens(At(p))
    PROVE  IInv'
<1>1. UNCHANGED <<reader, files, best, changed, ever>>
  BY DEF FileDone, Untouched, Answer
<1>2. \A p \in Steady : p \in Places
  BY DEF Steady
<1>3. \A p \in Steady : p[1] <= file => ~Listens(At(p))
  BY <1>2, PlaceFacts DEF IInv, Clear, Behind
<1>4. CASE LastFile
  <2>1. answer' = Absent /\ UNCHANGED <<file, row>>
    BY <1>4 DEF FileDone, Answer
  <2>2. \A p \in Steady : p[1] <= file
    BY <1>2, <1>4, PlaceFacts DEF LastFile, IInv
  <2>3. FilesOK' /\ EverOK'
    BY <1>1, <2>1, SameTables DEF IInv, FilesOK
  <2>4. answer' # Pending /\ answer' # Failure /\ answer'.is # "found"
    BY <2>1 DEF Failure, Pending, Absent
  <2>5. SteadyIsSeen'
    BY <1>1, <1>2, <1>3, <2>2, SameTables DEF SteadyIsSeen, IInv
  <2>6. QED
    BY <2>3, <2>4, <2>5 DEF IInv, Clear, BestSoFar, Scanning, ListenerAnswer, SeenWasThere,
       BestRoute, FailsForAReason
<1>5. CASE ~LastFile
  <2>1. file' = file + 1 /\ row' = 0 /\ answer' = Pending
    BY <1>5 DEF FileDone, Scanning
  <2>2. file + 1 \in DOMAIN files /\ 0 \in 0 .. Length[reader] + 1
    BY <1>5, PlaceFacts DEF LastFile, IInv, FilesOK
  <2>3. FilesOK' /\ EverOK'
    BY <1>1, <2>1, <2>2, SameTables DEF IInv
  <2>4. ASSUME NEW p \in Steady
        PROVE  Behind(p)' => p[1] <= file
    BY <1>2, <2>1, PlaceFacts DEF Behind, IInv
  <2>5. Clear'
    BY <1>1, <1>2, <1>3, <2>4, SameTables DEF Clear, IInv
  <2>6. BestSoFar'
    BY <1>1 DEF BestSoFar, ReadsSockets
  <2>7. ListenerAnswer' /\ BestRoute' /\ FailsForAReason'
    BY <2>1, Undecided
  <2>8. QED
    BY <2>3, <2>5, <2>6, <2>7 DEF IInv
<1>6. QED
  BY <1>4, <1>5

LEMMA ReadSocketStep ==
    ASSUME IInv, ReadSocket
    PROVE  IInv'
<1> DEFINE r == At(<<file, row>>)
<1>1. /\ ReadsSockets /\ Scanning /\ row \in 1 .. Length[reader]
      /\ UNCHANGED <<reader, files, changed, ever>> /\ UNCHANGED <<file, best>>
  BY DEF ReadSocket, Reading, Untouched, Answer, NextRow
<1>2. IF Listens(r) THEN Answer(Found(r)) ELSE NextRow
  BY DEF ReadSocket, At
<1>3. <<file, row>> \in Places /\ r \in ever
  BY <1>1, PlaceFacts DEF IInv, EverOK
<1>4. CASE Listens(r)
  <2>1. answer' = Found(r) /\ UNCHANGED row
    BY <1>2, <1>4 DEF Answer
  <2>2. FilesOK' /\ EverOK'
    BY <1>1, <2>1, SameTables DEF IInv, FilesOK
  <2>3. answer' # Pending /\ answer' # Failure /\ answer' # Absent
    BY <2>1 DEF Failure, Pending, Absent, Found
  <2>4. SeenWasThere'
    BY <1>1, <1>3, <1>4 DEF SeenWasThere, Listens, ReadsSockets
  <2>5. QED
    BY <1>1, <2>2, <2>3, <2>4 DEF IInv, Clear, BestSoFar, Scanning, ListenerAnswer,
       SteadyIsSeen, BestRoute, FailsForAReason, ReadsSockets
<1>5. CASE ~Listens(r)
  <2>1. row' = row + 1 /\ answer' = Pending
    BY <1>1, <1>2, <1>5 DEF NextRow, Scanning
  <2>2. FilesOK' /\ EverOK'
    <3>1. Length[reader] \in Nat
      BY PlaceFacts DEF IInv
    <3>2. row' \in 0 .. Length[reader] + 1 /\ file' \in DOMAIN files
      BY <1>1, <2>1, <3>1 DEF IInv, FilesOK
    <3>3. QED
      BY <1>1, <3>2, SameTables DEF IInv
  <2>3. ASSUME NEW p \in Steady
        PROVE  Behind(p)' => Behind(p) \/ p = <<file, row>>
    BY <1>1, <2>1, PlaceFacts DEF Behind, IInv, Steady
  <2>4. Clear'
    BY <1>1, <1>5, <2>3, SameTables DEF Clear, IInv, Steady
  <2>5. BestSoFar'
    BY <1>1 DEF BestSoFar, ReadsSockets
  <2>6. ListenerAnswer' /\ BestRoute' /\ FailsForAReason'
    BY <2>1, Undecided
  <2>7. QED
    BY <2>2, <2>4, <2>5, <2>6 DEF IInv
<1>6. QED
  BY <1>4, <1>5
LEMMA NoTableStep ==
    ASSUME IInv, NoTable
    PROVE  IInv'
<1>1. /\ reader = "route" /\ ~Open(file)
      /\ answer' = Failure /\ UNCHANGED <<reader, files, file, row, changed, ever>>
  BY DEF NoTable, Header, Answer, Untouched, Open
<1>2. FailsForAReason'
  BY <1>1 DEF FailsForAReason, Open
<1>3. QED
  BY <1>1, <1>2, FailureStep

\* A usable route has a metric, and is not the zero value.
LEMMA UsableFacts ==
    ASSUME NEW r \in RouteRows, Usable(r)
    PROVE  r.metric \in Nat /\ r # NoRoute
BY ProcNetAssumption DEF Usable, Unparsed, Skipped, NoRoute

\* The only table of routes.
LEMMA OneTable ==
    ASSUME FilesOK, reader = "route"
    PROVE  file = 1 /\ \A p \in Places : p = <<1, p[2]>> /\ p[2] \in Nat
BY PlaceFacts DEF FilesOK

LEMMA ReadRouteStep ==
    ASSUME IInv, ReadRoute
    PROVE  IInv'
<1> DEFINE r == At(<<file, row>>)
<1>1. /\ reader = "route" /\ Scanning /\ row \in 1 .. Length[reader]
      /\ UNCHANGED <<reader, files, changed, ever>>
  BY DEF ReadRoute, Reading, Untouched
<1>2. IF Unparsed(r) THEN Answer(Failure)
      ELSE /\ best' = IF Usable(r) /\ Better(r) THEN r ELSE best
           /\ row' = row + 1
           /\ UNCHANGED <<file, answer>>
  BY DEF ReadRoute, At
<1>3. /\ <<file, row>> \in Places /\ r \in ever /\ r \in RouteRows
      /\ ever \subseteq RouteRows /\ row \in Nat
  BY <1>1, PlaceFacts DEF IInv, EverOK, Rows
<1>4. CASE Unparsed(r)
  <2>1. answer' = Failure /\ UNCHANGED <<file, row>>
    BY <1>2, <1>4 DEF Answer
  <2>2. FailsForAReason'
    BY <1>1, <1>3, <1>4 DEF FailsForAReason
  <2>3. QED
    BY <1>1, <2>1, <2>2, FailureStep
<1>5. CASE ~Unparsed(r)
  <2>1. /\ best' = IF Usable(r) /\ Better(r) THEN r ELSE best
        /\ row' = row + 1 /\ answer' = Pending /\ UNCHANGED file
    BY <1>1, <1>2, <1>5 DEF Scanning
  <2>2. FilesOK' /\ EverOK'
    <3>1. Length[reader] \in Nat
      BY PlaceFacts DEF IInv
    <3>2. row' \in 0 .. Length[reader] + 1 /\ file' \in DOMAIN files
      BY <1>1, <2>1, <3>1 DEF IInv, FilesOK
    <3>3. QED
      BY <1>1, <3>2, SameTables DEF IInv
  <2>3. ASSUME NEW p \in Steady
        PROVE  /\ p \in Places /\ p = <<1, p[2]>> /\ p[2] \in Nat
               /\ Behind(p)' => Behind(p) \/ p = <<file, row>>
    BY <1>1, <2>1, PlaceFacts, OneTable DEF Behind, IInv, Steady
  <2>4. file = 1
    BY <1>1, OneTable DEF IInv
  <2>5. /\ BestIsBehind
        /\ \A p \in Steady : Behind(p) /\ Usable(At(p)) => best # NoRoute /\ Preferred(best, p)
    BY <1>1 DEF IInv, BestSoFar
  <2>6. BestIsBehind'
    <3>1. CASE Usable(r) /\ Better(r)
      <4>1. best' = r
        BY <2>1, <3>1
      <4>2. \A n : At(<<1, n>>)' = At(<<1, n>>)
        BY <1>1 DEF At
      <4>3. \E n \in 1 .. row' - 1 : At(<<1, n>>) = r
        BY <1>1, <1>3, <2>1, <2>4
      <4>4. QED
        BY <1>1, <1>3, <3>1, <4>1, <4>2, <4>3 DEF BestIsBehind, Usable, Skipped, Unparsed
    <3>2. CASE ~(Usable(r) /\ Better(r))
      <4>1. best' = best /\ \A n \in 1 .. row - 1 : n \in 1 .. row' - 1 /\ At(<<1, n>>)' = At(<<1, n>>)
        BY <1>1, <1>3, <2>1, <3>2 DEF At
      <4>2. QED
        BY <1>1, <2>5, <4>1 DEF BestIsBehind
    <3>3. QED
      BY <3>1, <3>2
  <2>7. ASSUME NEW p \in Steady, Behind(p)', Usable(At(p))
        PROVE  best' # NoRoute /\ Preferred(best', p)
    <3>1. At(p) \in RouteRows /\ At(p).metric \in Nat
      BY <1>3, <2>3, <2>7, UsableFacts DEF IInv, EverOK
    <3>2. CASE Usable(r) /\ Better(r)
      <4>1. best' = r /\ r # NoRoute /\ r.metric \in Nat
        BY <1>3, <2>1, <3>2, UsableFacts
      <4>2. CASE p = <<file, row>>
        <5>1. At(p) = r /\ row \in 1 .. p[2] /\ At(<<1, row>>) = r
          BY <1>1, <2>4, <4>2
        <5>2. QED
          BY <4>1, <5>1 DEF Preferred
      <4>3. CASE Behind(p)
        <5>1. best # NoRoute /\ Preferred(best, p)
          BY <2>5, <2>7, <4>3
        <5>2. best.metric \in Nat
          BY <1>3, <2>5, <5>1, UsableFacts DEF BestIsBehind
        <5>3. r.metric < best.metric /\ best.metric <= At(p).metric
          BY <3>1, <3>2, <5>1, <5>2 DEF Better, Preferred
        <5>4. QED
          BY <3>1, <4>1, <5>2, <5>3 DEF Preferred
      <4>4. QED
        BY <2>3, <2>7, <4>2, <4>3
    <3>3. CASE ~(Usable(r) /\ Better(r))
      <4>1. best' = best
        BY <2>1, <3>3
      <4>2. CASE p = <<file, row>>
        <5>1. Usable(r) /\ ~Better(r) /\ At(p) = r /\ p[2] = row
          BY <2>7, <3>3, <4>2
        <5>2. best # NoRoute /\ best.metric \in Nat
          BY <1>3, <2>5, <5>1, UsableFacts DEF BestIsBehind, Better
        <5>3. best.metric <= At(p).metric
          BY <3>1, <5>1, <5>2 DEF Better
        <5>4. \E n \in 1 .. p[2] : At(<<1, n>>) = best \/ <<1, n>> \in changed
          BY <1>3, <2>5, <5>1, <5>2 DEF BestIsBehind
        <5>5. QED
          BY <3>1, <4>1, <5>2, <5>3, <5>4 DEF Preferred
      <4>3. CASE Behind(p)
        BY <2>5, <2>7, <4>1, <4>3
      <4>4. QED
        BY <2>3, <2>7, <4>2, <4>3
    <3>4. QED
      BY <3>2, <3>3
  <2>8. BestSoFar'
    <3>1. Steady' = Steady /\ \A p \in Steady : At(p)' = At(p)
      BY <1>1, <2>3, SameTables DEF IInv
    <3>2. ASSUME NEW p \in Steady, Behind(p)', Usable(At(p)')
          PROVE  best' # NoRoute /\ Preferred(best, p)'
      BY <1>1, <2>7, <3>1, <3>2 DEF Preferred, At
    <3>3. QED
      BY <2>6, <3>1, <3>2 DEF BestSoFar, Usable, Skipped, Unparsed
  <2>9. Clear'
    BY <1>1 DEF Clear, ReadsSockets
  <2>10. QED
    BY <2>1, <2>2, <2>8, <2>9, Undecided DEF IInv
<1>6. QED
  BY <1>4, <1>5

LEMMA NoMoreRoutesStep ==
    ASSUME IInv, NoMoreRoutes
    PROVE  IInv'
<1>1. /\ reader = "route" /\ Scanning /\ row = Length[reader] + 1
      /\ answer' = IF best = NoRoute THEN Failure ELSE Found(best)
      /\ UNCHANGED <<reader, files, changed, ever>> /\ UNCHANGED <<file, row, best>>
  BY DEF NoMoreRoutes, EndOfFile, Untouched, Answer
<1>2. /\ BestIsBehind
      /\ \A p \in Steady : Behind(p) /\ Usable(At(p)) => best # NoRoute /\ Preferred(best, p)
  BY <1>1 DEF IInv, BestSoFar
<1>3. \A p \in Steady : p \in Places /\ Behind(p)
  BY <1>1, PlaceFacts, OneTable DEF IInv, Steady, Behind
<1>4. CASE best = NoRoute
  <2>1. answer' = Failure
    BY <1>1, <1>4
  <2>2. ~\E p \in Steady : Usable(At(p))
    BY <1>2, <1>3, <1>4
  <2>3. FailsForAReason'
    BY <1>1, <1>3, <2>2, SameTables DEF FailsForAReason, IInv, Usable, Skipped, Unparsed
  <2>4. QED
    BY <1>1, <2>1, <2>3, FailureStep
<1>5. CASE best # NoRoute
  <2>1. answer' = Found(best)
    BY <1>1, <1>5
  <2>2. answer' # Pending /\ answer' # Failure /\ answer'.row = best
    BY <2>1 DEF Failure, Pending, Found
  <2>3. FilesOK' /\ EverOK'
    BY <1>1, SameTables DEF IInv, FilesOK
  <2>4. best \in ever /\ Usable(best)
    BY <1>2, <1>5 DEF BestIsBehind
  <2>5. Steady' = Steady /\ UNCHANGED <<files, changed, ever>>
    BY <1>1, SameTables DEF IInv
  <2>6. ASSUME NEW p \in Steady, Usable(At(p))
        PROVE  Preferred(best, p)
    BY <1>2, <1>3, <2>6
  <2>7. BestRoute'
    BY <2>2, <2>4, <2>5, <2>6 DEF BestRoute, Preferred, At, Usable, Skipped, Unparsed
  <2>8. QED
    BY <1>1, <2>2, <2>3, <2>7 DEF IInv, Clear, BestSoFar, Scanning, ListenerAnswer,
       SteadyIsSeen, SeenWasThere, FailsForAReason, ReadsSockets
<1>6. QED
  BY <1>4, <1>5
-----------------------------------------------------------------------------
(* A step of the kernel, and the theorems *)

LEMMA ChangeStep ==
    ASSUME IInv, NEW place \in Places, NEW r \in Rows(reader), Change(place, r)
    PROVE  IInv'
<1>1. /\ FilesOK' /\ Places' = Places
      /\ \A p \in Places : At(p)' = IF p = place THEN r ELSE At(p)
      /\ Steady' = Steady \ {place}
      /\ UNCHANGED <<reader, file, row, best, answer, failed>>
      /\ changed' = changed \cup {place} /\ ever' = ever \cup {r}
  BY ChangeFacts DEF IInv
<1>2. Scanning /\ answer' = Pending
  BY <1>1 DEF Change, Scanning
<1>3. EverOK'
  BY <1>1 DEF EverOK, IInv, Rows
<1>4. \A p \in Steady' : p \in Steady /\ p \in Places /\ At(p)' = At(p) /\ Behind(p)' = Behind(p)
  BY <1>1 DEF Steady, Behind
<1>5. Clear'
  BY <1>1, <1>2, <1>4 DEF Clear, IInv, Listens, ReadsSockets
<1>6. BestSoFar'
  <2>1. SUFFICES ASSUME reader = "route"
                 PROVE  /\ BestIsBehind'
                        /\ \A p \in Steady' : (Behind(p) /\ Usable(At(p)))'
                              => (best # NoRoute /\ Preferred(best, p))'
    BY <1>1 DEF BestSoFar
  <2>2. /\ BestIsBehind
        /\ \A p \in Steady : Behind(p) /\ Usable(At(p)) => best # NoRoute /\ Preferred(best, p)
    BY <1>2, <2>1 DEF IInv, BestSoFar
  <2>3. ASSUME NEW n \in 1 .. Length[reader], NEW x, At(<<1, n>>) = x \/ <<1, n>> \in changed
        PROVE  At(<<1, n>>)' = x \/ <<1, n>> \in changed'
    <3>1. <<1, n>> \in Places
      BY PlaceFacts DEF Places, IInv
    <3>2. QED
      BY <1>1, <2>3, <3>1
  <2>4. BestIsBehind'
    <3>1. SUFFICES ASSUME best # NoRoute
                   PROVE  /\ best \in ever /\ Usable(best)
                          /\ \E n \in 1 .. row - 1 : At(<<1, n>>)' = best \/ <<1, n>> \in changed'
      BY <1>1 DEF BestIsBehind, Usable, Skipped, Unparsed
    <3>2. PICK n \in 1 .. row - 1 : At(<<1, n>>) = best \/ <<1, n>> \in changed
      BY <2>2, <3>1 DEF BestIsBehind
    <3>3. n \in 1 .. Length[reader]
      BY PlaceFacts DEF IInv, FilesOK
    <3>4. QED
      BY <2>2, <2>3, <3>1, <3>2, <3>3 DEF BestIsBehind
  <2>5. ASSUME NEW p \in Steady', (Behind(p) /\ Usable(At(p)))'
        PROVE  (best # NoRoute /\ Preferred(best, p))'
    <3>1. Behind(p) /\ Usable(At(p)) /\ At(p)' = At(p) /\ p \in Places
      BY <1>4, <2>5 DEF Usable, Skipped, Unparsed
    <3>2. best # NoRoute /\ Preferred(best, p)
      BY <1>4, <2>2, <3>1
    <3>3. CASE best.metric < At(p).metric
      BY <1>1, <3>1, <3>2, <3>3 DEF Preferred
    <3>4. CASE /\ best.metric = At(p).metric
               /\ \E n \in 1 .. p[2] : At(<<1, n>>) = best \/ <<1, n>> \in changed
      <4>1. PICK n \in 1 .. p[2] : At(<<1, n>>) = best \/ <<1, n>> \in changed
        BY <3>4
      <4>2. n \in 1 .. Length[reader]
        BY <3>1, PlaceFacts DEF IInv
      <4>3. At(<<1, n>>)' = best \/ <<1, n>> \in changed'
        BY <2>3, <4>1, <4>2
      <4>4. QED
        BY <1>1, <3>1, <3>2, <3>4, <4>3 DEF Preferred
    <3>5. QED
      BY <3>2, <3>3, <3>4 DEF Preferred
  <2>6. QED
    BY <2>4, <2>5
<1>7. QED
  BY <1>1, <1>2, <1>3, <1>5, <1>6, Undecided DEF IInv

LEMMA StutterStep ==
    ASSUME IInv, UNCHANGED vars
    PROVE  IInv'
<1>1. UNCHANGED <<reader, files, file, row, best, answer, changed, ever, failed>>
  BY DEF vars, scan
<1>2. /\ FilesOK' /\ EverOK' /\ Steady' = Steady
      /\ \A p \in Steady : At(p)' = At(p)
      /\ \A r : Listens(r)' = Listens(r)
  BY <1>1, SameTables DEF IInv, FilesOK, Steady
<1>3. Clear'
  BY <1>1, <1>2 DEF IInv, Clear, Scanning, ReadsSockets, Behind
<1>4. BestIsBehind' = BestIsBehind
  BY <1>1 DEF BestIsBehind, Usable, Skipped, Unparsed, At
<1>5. \A p, r : Preferred(r, p)' = Preferred(r, p)
  BY <1>1 DEF Preferred, At
<1>6. BestSoFar'
  BY <1>1, <1>2, <1>4, <1>5 DEF IInv, BestSoFar, Scanning, Behind, Usable, Skipped, Unparsed
<1>7. ListenerAnswer'
  BY <1>1, <1>2 DEF IInv, ListenerAnswer, SteadyIsSeen, SeenWasThere, ReadsSockets
<1>8. BestRoute'
  BY <1>1, <1>2 DEF IInv, BestRoute, Usable, Skipped, Unparsed, At
<1>9. FailsForAReason'
  BY <1>1, <1>2 DEF IInv, FailsForAReason, Open, Usable, Skipped, Unparsed
<1>10. QED
  BY <1>2, <1>3, <1>6, <1>7, <1>8, <1>9 DEF IInv

LEMMA ScanStarts ==
    ASSUME Init
    PROVE  IInv
<1>1. FilesOK
  <2>1. reader \in {"tcp", "udp", "route"} /\ Length[reader] \in Nat
    BY ProcNetAssumption DEF Init
  <2>2. files \in [1 .. (IF reader = "route" THEN 1 ELSE 2) -> Table]
    BY DEF Init, Table
  <2>3. 1 \in DOMAIN files
    BY <2>2
  <2>4. QED
    BY <2>1, <2>2, <2>3 DEF Init, FilesOK
<1>2. \A p \in Places : At(p) \in Rows(reader)
  BY PlaceFacts, <1>1 DEF FilesOK, Table, At
<1>3. EverOK
  BY <1>2 DEF Init, EverOK
<1>4. \A p \in Places : ~Behind(p)
  BY <1>1, PlaceFacts DEF Init, Behind
<1>5. Clear /\ BestSoFar
  BY <1>4 DEF Init, Clear, BestSoFar, BestIsBehind, Steady
<1>6. ListenerAnswer /\ BestRoute /\ FailsForAReason
  BY DEF Init, Pending, Absent, Failure, ListenerAnswer, SteadyIsSeen, SeenWasThere,
     BestRoute, FailsForAReason
<1>7. QED
  BY <1>1, <1>3, <1>5, <1>6 DEF IInv

LEMMA ScanStep ==
    ASSUME IInv, [Next]_vars
    PROVE  IInv'
<1>1. CASE OpenFile
  BY <1>1, OpenFileStep
<1>2. CASE Denied
  <2>1. /\ answer' = Failure /\ UNCHANGED <<reader, files, file, row, changed, ever>>
        /\ files[file].state = "denied"
    BY <1>2 DEF Denied, Header, Answer, Untouched
  <2>2. FailsForAReason'
    BY <2>1 DEF FailsForAReason
  <2>3. QED
    BY <2>1, <2>2, FailureStep
<1>3. CASE ReadFails
  <2>1. /\ answer' = Failure /\ UNCHANGED <<reader, files, file, row, changed, ever>>
        /\ failed'
    BY <1>3 DEF ReadFails, Answer
  <2>2. FailsForAReason'
    BY <2>1 DEF FailsForAReason
  <2>3. QED
    BY <2>1, <2>2, FailureStep
<1>4. CASE NoFile
  <2>1. ReadsSockets /\ Scanning /\ FileDone /\ Untouched /\ ~Open(file)
    BY <1>4 DEF NoFile, Header, Open
  <2>2. \A p \in Steady : p[1] # file
    BY <2>1 DEF Steady
  <2>3. QED
    BY <2>1, <2>2, FileDoneStep
<1>5. CASE ReadSocket
  BY <1>5, ReadSocketStep
<1>6. CASE NoMoreSockets
  <2>1. /\ ReadsSockets /\ Scanning /\ FileDone /\ Untouched
        /\ row = Length[reader] + 1
    BY <1>6 DEF NoMoreSockets, EndOfFile
  <2>2. ASSUME NEW p \in Steady, p[1] = file
        PROVE  ~Listens(At(p))
    <3>1. p \in Places
      BY DEF Steady
    <3>2. Behind(p)
      BY <2>1, <2>2, <3>1, PlaceFacts DEF IInv, Behind
    <3>3. QED
      BY <2>1, <3>2 DEF IInv, Clear
  <2>3. QED
    BY <2>1, <2>2, FileDoneStep
<1>7. CASE NoTable
  BY <1>7, NoTableStep
<1>8. CASE ReadRoute
  BY <1>8, ReadRouteStep
<1>9. CASE NoMoreRoutes
  BY <1>9, NoMoreRoutesStep
<1>10. CASE \E place \in Places, r \in Rows(reader) : Change(place, r)
  BY <1>10, ChangeStep
<1>11. CASE UNCHANGED vars
  BY <1>11, StutterStep
<1>12. QED
  BY <1>1, <1>2, <1>3, <1>4, <1>5, <1>6, <1>7, <1>8, <1>9, <1>10, <1>11 DEF Next

LEMMA IInvHolds == Spec => []IInv
<1>1. Init => IInv
  BY ScanStarts
<1>2. IInv /\ [Next]_vars => IInv'
  BY ScanStep
<1>3. QED
  BY <1>1, <1>2, PTL DEF Spec

\* HasListener (portcheck): however the tables change while they are read, a
\* listener that was there all along is seen, and what is reported as one was one.
THEOREM ListenerAnswerHolds == Spec => []ListenerAnswer
<1>1. IInv => ListenerAnswer
  BY DEF IInv
<1>2. QED
  BY <1>1, IInvHolds, PTL

\* Default (netgw): its answer is a usable default route that the table has held,
\* and none that was there all along goes before it.
THEOREM BestRouteHolds == Spec => []BestRoute
<1>1. IInv => BestRoute
  BY DEF IInv
<1>2. QED
  BY <1>1, IInvHolds, PTL

\* HasListener and Default: neither fails without a reason in the files it read.
THEOREM FailsForAReasonHolds == Spec => []FailsForAReason
<1>1. IInv => FailsForAReason
  BY DEF IInv
<1>2. QED
  BY <1>1, IInvHolds, PTL
=============================================================================
