------------------------------ MODULE ProcNet -------------------------------
(***************************************************************************)
(* The two readers of /proc/net: HasListener (internal/portcheck), which   *)
(* looks for a socket in the IPv4 and then in the IPv6 table of a          *)
(* protocol, and Default (internal/netgw), which looks for the default     *)
(* route of lowest metric.  Both go through a text file row by row while   *)
(* the kernel's table changes under them.                                  *)
(*                                                                         *)
(* A file is [state, rows].  What is there keeps its row while it is       *)
(* there; a row of no interest stands for a vacant one and for one with    *)
(* too few columns as well.  A scan begins in Init and ends with its       *)
(* answer.                                                                 *)
(***************************************************************************)
EXTENDS Integers, Sequences, FiniteSets

CONSTANTS
    Port,        \* the port HasListener is asked for
    SocketRows,  \* [port, listening]
    RouteRows,   \* [default, flags, metric, gateway]
    Garbled,     \* a column that does not parse
    Unspecified, \* 0.0.0.0
    Length,      \* rows in a file, by reader
    MaxChanges   \* bound: rows that change during a scan

ASSUME ProcNetAssumption ==
    /\ SocketRows \subseteq [port : Nat \cup {Garbled}, listening : BOOLEAN]
    /\ \A r \in RouteRows : r.metric \in Nat \cup {Garbled}
    /\ Port \in Nat /\ MaxChanges \in Nat
    /\ Length \in [{"tcp", "udp", "route"} -> Nat \ {0}]

VARIABLES
    reader,     \* "tcp" or "udp" (HasListener) or "route" (Default)
    files,      \* what it reads, in that order
    file, row,  \* the row it reads next; row 0 is the header
    best,       \* Default's best route so far, or NoRoute
    answer,
    changed,    \* the places that have changed since the scan began (history)
    ever,       \* every row there has been since then (history)
    failed      \* a read has failed (history)

scan == <<file, row, best, answer>>
vars == <<reader, files, scan, changed, ever, failed>>

NoRoute == [gateway |-> Unspecified]
Pending == [is |-> "pending"]
Absent  == [is |-> "absent"]
Failure == [is |-> "error"]
Found(r) == [is |-> "found", row |-> r]

Rows(rd)   == IF rd = "route" THEN RouteRows ELSE SocketRows
Places     == (DOMAIN files) \X (1 .. Length[reader])
At(place)  == files[place[1]].rows[place[2]]
Open(f)    == files[f].state = "open"

Init ==
    /\ reader \in {"tcp", "udp", "route"}
    /\ files \in [1 .. (IF reader = "route" THEN 1 ELSE 2) ->
                     [state : {"open", "empty", "missing", "denied"},
                      rows : [1 .. Length[reader] -> Rows(reader)]]]
    /\ file = 1 /\ row = 0 /\ best = NoRoute /\ answer = Pending
    /\ changed = {} /\ ever = {At(p) : p \in Places} /\ failed = FALSE

Answer(a) == answer' = a /\ UNCHANGED <<file, row, best>>
NextRow   == row' = row + 1 /\ UNCHANGED <<file, best, answer>>

\* A file of which nothing is left; the next one is read, if there is one.
LastFile == file = Len(files)
FileDone ==
    IF LastFile THEN Answer(Absent)
    ELSE file' = file + 1 /\ row' = 0 /\ UNCHANGED <<best, answer>>

Scanning     == answer = Pending
Header(s)    == Scanning /\ row = 0 /\ files[file].state = s
Reading      == Scanning /\ row \in 1 .. Length[reader]
EndOfFile    == Scanning /\ row = Length[reader] + 1
ReadsSockets == reader \in {"tcp", "udp"}
Untouched    == UNCHANGED <<reader, files, changed, ever, failed>>

-----------------------------------------------------------------------------
(* Both *)

OpenFile == Header("open") /\ NextRow /\ Untouched
Denied   == Header("denied") /\ Answer(Failure) /\ Untouched

\* The scanner stops at an error, also at the header.
ReadFails ==
    /\ Scanning /\ Open(file)
    /\ Answer(Failure)
    /\ failed' = TRUE
    /\ UNCHANGED <<reader, files, changed, ever>>

-----------------------------------------------------------------------------
(* HasListener *)

\* scan: a socket is bound to the port, and listens if it is a TCP socket.
Listens(r) == r.port = Port /\ (reader = "tcp" => r.listening)

\* (slip: a missing file is an error)
MissingFails == ReadsSockets /\ (Header("missing") \/ Header("empty")) /\ Answer(Failure) /\ Untouched

\* scanPath: a missing file is a file without sockets; scan: so is an empty one.
NoFile == ReadsSockets /\ (Header("missing") \/ Header("empty")) /\ FileDone /\ Untouched

\* (slip: the first socket at the port decides)
FirstDecides ==
    /\ ReadsSockets /\ Reading
    /\ LET r == files[file].rows[row]
       IN  IF r.port # Port THEN NextRow ELSE Answer(IF Listens(r) THEN Found(r) ELSE Absent)
    /\ Untouched

ReadSocket ==
    /\ ReadsSockets /\ Reading
    /\ LET r == files[file].rows[row] IN IF Listens(r) THEN Answer(Found(r)) ELSE NextRow
    /\ Untouched

NoMoreSockets == ReadsSockets /\ EndOfFile /\ FileDone /\ Untouched

-----------------------------------------------------------------------------
(* Default *)

NoTable == reader = "route" /\ (Header("missing") \/ Header("empty")) /\ Answer(Failure) /\ Untouched

\* parseDefaultGateway: what becomes of a row, in the order of the checks.
Skipped(r)  == ~r.default \/ r.flags = "other"
Unparsed(r) == r.default /\ (\/ r.flags = Garbled
                             \/ ~Skipped(r) /\ (r.metric = Garbled \/ r.gateway = Garbled))
Usable(r)   == ~Skipped(r) /\ ~Unparsed(r) /\ r.gateway # Unspecified

\* (slip: the last of equals)
NotWorse(r) == best = NoRoute \/ r.metric <= best.metric

\* The first of equals is kept.
Better(r) == best = NoRoute \/ r.metric < best.metric

ReadRoute ==
    /\ reader = "route" /\ Reading
    /\ LET r == files[file].rows[row]
       IN  IF Unparsed(r) THEN Answer(Failure)
           ELSE /\ best' = IF Usable(r) /\ Better(r) THEN r ELSE best
                /\ row' = row + 1
                /\ UNCHANGED <<file, answer>>
    /\ Untouched

NoMoreRoutes ==
    /\ reader = "route" /\ EndOfFile
    /\ Answer(IF best = NoRoute THEN Failure ELSE Found(best))
    /\ Untouched

-----------------------------------------------------------------------------
(* The kernel *)

Change(place, r) ==
    /\ Scanning /\ r # At(place)
    /\ Cardinality(changed \cup {place}) <= MaxChanges
    /\ files' = [files EXCEPT ![place[1]].rows[place[2]] = r]
    /\ changed' = changed \cup {place} /\ ever' = ever \cup {r}
    /\ UNCHANGED <<reader, scan, failed>>

Next ==
    \/ OpenFile \/ Denied \/ ReadFails
    \/ NoFile \/ ReadSocket \/ NoMoreSockets
    \/ NoTable \/ ReadRoute \/ NoMoreRoutes
    \/ \E place \in Places, r \in Rows(reader) : Change(place, r)

Spec == Init /\ [][Next]_vars

-----------------------------------------------------------------------------
(* Properties *)

\* What has been at its place since the scan began, in a file that is there.
Steady == {p \in Places \ changed : Open(p[1])}

\* Whatever comes and goes in the meantime, HasListener sees a listener that was
\* there all along, in the one table or the other: the daemon closes no mapping of
\* a service that kept its socket.
SteadyIsSeen ==
    ReadsSockets /\ answer = Absent => ~\E p \in Steady : Listens(At(p))

\* HasListener reports what a listener has been there for, and not a connection
\* that happens to use the port: no mapping is made for a port nobody listens at.
SeenWasThere ==
    ReadsSockets /\ answer.is = "found" =>
        \E r \in ever : r.port = Port /\ (r.listening \/ reader = "udp")

\* HasListener's answer, either way, is one that the tables have justified.
ListenerAnswer == SteadyIsSeen /\ SeenWasThere

\* Default answers with a gateway that a default route has had, and no route that
\* was there all along has a lower metric, or the same and an earlier place.
BestRoute ==
    reader = "route" /\ answer.is = "found" =>
        /\ answer.row \in ever /\ Usable(answer.row)
        /\ \A p \in Steady : Usable(At(p)) =>
              \/ answer.row.metric < At(p).metric
              \/ /\ answer.row.metric = At(p).metric
                 /\ \E n \in 1 .. p[2] : At(<<1, n>>) = answer.row \/ <<1, n>> \in changed

\* A reader fails only for a file it may not read, a read that failed or, for
\* Default, a table that is not there, does not parse or has no route that was
\* there all along: a host without IPv6, or without sockets, is no failure.
FailsForAReason ==
    answer = Failure =>
        \/ failed \/ files[file].state = "denied"
        \/ /\ reader = "route"
           /\ \/ ~Open(file)
              \/ \E r \in ever : Unparsed(r)
              \/ ~\E p \in Steady : Usable(At(p))
=============================================================================
