----------------------------- MODULE Forwarding -----------------------------
(***************************************************************************)
(* What the program promises about its forwardings, to somebody who sees   *)
(* only the router's table and the daemon's record of it: no calls, no     *)
(* schedule, no clock.  A forwarding opens, is put on record, and then     *)
(* stays open until it is no longer wanted, the program is told to stop,   *)
(* or a mishap strikes; and every mishap strikes once.                     *)
(*                                                                         *)
(* NatPmpSystem implements this module, and so does Pcp.                   *)
(***************************************************************************)
EXTENDS Naturals

CONSTANTS
    Mapping,  \* the forwardings configured
    Port,     \* external ports
    NoPort,   \* none of them
    Gated     \* the forwardings that are wanted only while a listener is there

VARIABLES
    open,      \* the port the router forwards for a mapping
    record,    \* the port the daemon believes it forwards
    atRisk,    \* mappings a mishap took or cut short, until they are renewed
    stopping,  \* the program has been told to stop
    mishaps    \* how many have struck

vars == <<open, record, atRisk, stopping, mishaps>>

Init ==
    /\ open = [m \in Mapping |-> NoPort]
    /\ record = [m \in Mapping |-> NoPort]
    /\ atRisk = {} /\ stopping = FALSE /\ mishaps = 0

Closed(m) == open[m] = NoPort

-----------------------------------------------------------------------------
(* The program and the router at their work *)

\* The router opens a port that no other mapping has.
Open(m) ==
    /\ Closed(m)
    /\ \E port \in Port \ {open[n] : n \in Mapping \ {m}} :
          open' = [open EXCEPT ![m] = port]
    /\ UNCHANGED <<record, atRisk, stopping, mishaps>>

\* What is put on record is open, unless a mishap has come in between.
Record(m) ==
    /\ \E port \in Port :
          /\ open[m] = port \/ m \in atRisk
          /\ record' = [record EXCEPT ![m] = port]
          /\ atRisk' \in {atRisk} \cup (IF open[m] = port THEN {atRisk \ {m}} ELSE {})
    /\ UNCHANGED <<open, stopping, mishaps>>

\* The program closes only what is gated, unless it has been told to stop, and
\* only what it has on record.
Close(m) ==
    /\ m \in Gated \/ stopping
    /\ record[m] # NoPort
    /\ open' = [open EXCEPT ![m] = NoPort]
    /\ UNCHANGED <<record, atRisk, stopping, mishaps>>

\* What it strikes off the record is closed; after a mishap it may be open.
Forget(m) ==
    /\ m \in Gated \/ stopping
    /\ Closed(m) \/ mishaps > 0
    /\ record' = [record EXCEPT ![m] = NoPort]
    /\ UNCHANGED <<open, atRisk, stopping, mishaps>>

\* What is on record does not run out, unless a mishap cut it short or the
\* program has been told to stop.
Expire(expired) ==
    /\ \A m \in expired : record[m] = NoPort \/ m \in atRisk \/ stopping
    /\ open' = [m \in Mapping |-> IF m \in expired THEN NoPort ELSE open[m]]
    /\ UNCHANGED <<record, atRisk, stopping, mishaps>>

Stop ==
    /\ ~stopping /\ stopping' = TRUE
    /\ UNCHANGED <<open, record, atRisk, mishaps>>

-----------------------------------------------------------------------------
(* Mishaps *)

\* A request or an answer is lost: nothing changes, or a mapping is struck off
\* the record although the router never heard of it.
Loss ==
    /\ \/ UNCHANGED record
       \/ \E m \in Gated : record' = [record EXCEPT ![m] = NoPort]
    /\ UNCHANGED <<open, atRisk, stopping>>

\* The program is killed, and forgets everything.
Crash ==
    /\ record' = [m \in Mapping |-> NoPort]
    /\ stopping' = FALSE
    /\ UNCHANGED <<open, atRisk>>

\* The router restarts, and forgets everything.
Reboot ==
    /\ open' = [m \in Mapping |-> NoPort]
    /\ atRisk' = atRisk \cup {m \in Mapping : ~Closed(m)}
    /\ UNCHANGED <<record, stopping>>

\* A request arrives after the program has given up on it.
LateMap(m) ==
    /\ \E port \in Port \ {open[n] : n \in Mapping \ {m}} :
          /\ Closed(m) \/ open[m] = port
          /\ open' = [open EXCEPT ![m] = port]
    /\ atRisk' \in {atRisk, atRisk \cup {m}}
    /\ UNCHANGED <<record, stopping>>

\* So does one to delete it, or no renewal comes through in time.
EndsEarly(m) ==
    /\ open' = [open EXCEPT ![m] = NoPort]
    /\ atRisk' = IF Closed(m) THEN atRisk ELSE atRisk \cup {m}
    /\ UNCHANGED <<record, stopping>>

Mishap ==
    /\ mishaps' = mishaps + 1
    /\ Loss \/ Crash \/ Reboot \/ \E m \in Mapping : LateMap(m) \/ EndsEarly(m)

-----------------------------------------------------------------------------
Next ==
    \/ \E m \in Mapping : Open(m) \/ Record(m) \/ Close(m) \/ Forget(m)
    \/ \E expired \in SUBSET Mapping : Expire(expired)
    \/ Stop \/ Mishap

Spec == Init /\ [][Next]_vars
=============================================================================
