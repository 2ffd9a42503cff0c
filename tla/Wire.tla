-------------------------------- MODULE Wire --------------------------------
(***************************************************************************)
(* What the NAT-PMP and the PCP client put on the wire and make of an      *)
(* answer: Request.Validate, the codecs (natpmp/codec.go, pcp/codec.go)    *)
(* and the checks of Map, Unmap and ExternalIP around one exchange.  A     *)
(* behaviour is one call.  Retransmission is the subject of Exchange, the  *)
(* life of a nonce that of Pcp.                                            *)
(*                                                                         *)
(* The gateway is external: it reads a request and lays out its answer as  *)
(* RFC 6886 and RFC 6887 say, at the offsets of their figures.  It may     *)
(* also send an answer with one field that is not what it should be.       *)
(*                                                                         *)
(* A datagram is a sequence of digits to the base Base, which is 256 in    *)
(* the code; durations are in ticks, so many to a second.                  *)
(***************************************************************************)
EXTENDS Integers, Sequences

CONSTANTS
    Base,          \* values of a byte
    Second,        \* ticks in a second; a nanosecond each in the code
    Calls,         \* [client, op, req], req as mapping.Request
    DefaultLease,  \* in ticks
    ClientAddress, \* the host's address, four bytes
    Nonce,         \* twelve bytes
    Ports, Lifetimes, Externals  \* what a gateway may answer with

\* What 8 bits hold, and how many values 16 and 32 bits have.
Byte == 0 .. Base - 1
Word == Base * Base
Long == Word * Word

\* Ports are uint16, a lease is of any sign and length; the default is an hour.
ASSUME WireAssumption ==
    /\ Base \in Nat /\ Base > 17
    /\ Second \in Nat \ {0}
    /\ DefaultLease \in Second .. (Long - 1) * Second /\ DefaultLease % Second = 0
    /\ ClientAddress \in [1 .. 4 -> Byte] /\ Nonce \in [1 .. 12 -> Byte]
    /\ Externals \subseteq [1 .. 16 -> Byte]
    /\ Ports \subseteq 0 .. Word - 1 /\ Lifetimes \subseteq 0 .. Long - 1
    /\ \A c \in Calls :
          /\ c.client \in {"natpmp", "pcp"} /\ c.op \in {"map", "unmap", "external"}
          /\ c.req.internal \in 0 .. Word - 1 /\ c.req.external \in 0 .. Word - 1
          /\ c.req.lease \in Int

VARIABLES
    call,
    exchange,  \* which one of the call: "mapping" or "address", or "over"
    sent,      \* the datagram on its way to the gateway
    answer,    \* what the gateway means by its datagram in each exchange, or NoAnswer
    received,  \* the datagram on its way back
    granted,   \* the mapping that the first exchange of a NAT-PMP Map came to
    outcome

vars == <<call, exchange, sent, answer, received, granted, outcome>>

Nothing  == <<>>
NoAnswer == [is |-> "none"]
Unanswered == [is |-> "unanswered"]
Error    == [is |-> "error"]
Done     == [is |-> "done"]
Running  == [is |-> "running"]

-----------------------------------------------------------------------------
(* binary.BigEndian *)

U8(v)  == <<v % Base>>
U16(v) == U8(v \div Base) \o U8(v)
U32(v) == U16(v \div Word) \o U16(v)

\* The values at an offset.
Get8(b, at)  == b[at + 1]
Get16(b, at) == Get8(b, at) * Base + Get8(b, at + 1)
Get32(b, at) == Get16(b, at) * Word + Get16(b, at + 2)
Bytes(b, from, to) == SubSeq(b, from + 1, to)
Zeros(n) == [i \in 1 .. n |-> 0]

ResponseFlag == Base \div 2

-----------------------------------------------------------------------------
(* mapping.Request *)

MaxLease == (Long - 1) * Second

\* (slip: a lease of any length)
AnyLength(r) ==
    /\ r.protocol \in {"tcp", "udp"} /\ r.internal # 0
    /\ r.lease >= 0 /\ r.lease % Second = 0

\* An unspecified internal address is refused by the configuration already.
Validate(r) ==
    /\ r.protocol \in {"tcp", "udp"} /\ r.internal # 0
    /\ 0 <= r.lease /\ r.lease <= MaxLease /\ r.lease % Second = 0

\* uint32(lifetime / time.Second), of the lease or the default.
Lifetime(r)    == IF r.lease <= 0 THEN DefaultLease ELSE r.lease
LifetimeSec(r) == (Lifetime(r) \div Second) % Long

-----------------------------------------------------------------------------
(* natpmp/codec.go *)

mapOpcode(p) == IF p = "udp" THEN 1 ELSE 2

encodeExternalAddressRequest == U8(0) \o U8(0)

natpmpRequest(p, internal, external, lifetime) ==
    U8(0) \o U8(mapOpcode(p)) \o Zeros(2) \o U16(internal) \o U16(external) \o U32(lifetime)

\* What both decoders check: the length, version, opcode and result code.
natpmpAccepts(b, opcode, length) ==
    Len(b) >= length /\ Get8(b, 0) = 0 /\ Get8(b, 1) = opcode + ResponseFlag /\ Get16(b, 2) = 0

natpmpMapping(b) ==
    [internal |-> Get16(b, 8), external |-> Get16(b, 10), lifetime |-> Get32(b, 12)]
natpmpAddress(b) == Bytes(b, 8, 12)

-----------------------------------------------------------------------------
(* pcp/codec.go *)

ipProtocol(p) == IF p = "tcp" THEN 6 ELSE 17

v4mapped == Zeros(10) \o U8(Base - 1) \o U8(Base - 1)
to16(a)  == v4mapped \o a

\* The external address suggested is always the unspecified one.
pcpRequest(p, internal, external, lifetime) ==
    U8(2) \o U8(1) \o Zeros(2) \o U32(lifetime) \o to16(ClientAddress)
        \o Nonce \o U8(ipProtocol(p)) \o Zeros(3) \o U16(internal) \o U16(external) \o Zeros(16)

\* (slip: no answer may carry options)
ExactLength(b) ==
    Len(b) = 60 /\ Get8(b, 0) = 2 /\ Get8(b, 1) = 1 + ResponseFlag /\ Get8(b, 3) = 0

pcpAccepts(b) ==
    Len(b) >= 60 /\ Get8(b, 0) = 2 /\ Get8(b, 1) = 1 + ResponseFlag /\ Get8(b, 3) = 0

\* An address is given back in its four-byte form if it has one.
Unmap4(a) == IF Bytes(a, 0, 12) = v4mapped THEN Bytes(a, 12, 16) ELSE a

pcpMapping(b) ==
    [lifetime |-> Get32(b, 4), nonce |-> Bytes(b, 24, 36), proto |-> Get8(b, 36),
     internal |-> Get16(b, 40), external |-> Get16(b, 42),
     address |-> Unmap4(Bytes(b, 44, 60))]

-----------------------------------------------------------------------------
(* The client *)

NatPmp == call.client = "natpmp"
req    == call.req

Init ==
    /\ call \in Calls
    /\ exchange = IF NatPmp /\ call.op = "external" THEN "address" ELSE "mapping"
    /\ sent = Nothing /\ received = Nothing /\ outcome = Running
    /\ granted = Nothing /\ answer = [x \in {"mapping", "address"} |-> NoAnswer]

Over(o) == outcome' = o /\ exchange' = "over"

Waiting == outcome = Running /\ sent = Nothing /\ received = Nothing
Checked == call.op = "external" \/ Validate(req)

Invalid ==
    /\ Waiting /\ ~Checked
    /\ Over(Error)
    /\ UNCHANGED <<call, sent, answer, received, granted>>

\* An Unmap is a request for no time at all; NAT-PMP has it name no port, and
\* PCP's ExternalIP is one for no mapping.
Request ==
    IF exchange = "address" THEN encodeExternalAddressRequest
    ELSE IF NatPmp THEN
        IF call.op = "map"
        THEN natpmpRequest(req.protocol, req.internal, req.external, LifetimeSec(req))
        ELSE natpmpRequest(req.protocol, req.internal, 0, 0)
    ELSE IF call.op = "external" THEN pcpRequest("tcp", 0, 0, 0)
    ELSE pcpRequest(req.protocol, req.internal, req.external,
                    IF call.op = "map" THEN LifetimeSec(req) ELSE 0)

Ask ==
    /\ Waiting /\ Checked
    /\ sent' = Request
    /\ UNCHANGED <<call, exchange, answer, received, granted, outcome>>

\* The exchange comes to nothing.
NoReply ==
    /\ sent # Nothing
    /\ sent' = Nothing /\ Over(Error)
    /\ answer' = [answer EXCEPT ![exchange] = Unanswered]
    /\ UNCHANGED <<call, received, granted>>

Lease(m, address) ==
    [is |-> "lease", protocol |-> req.protocol, internal |-> m.internal,
     external |-> m.external, lifetime |-> m.lifetime * Second, address |-> address]

\* A new or refreshed mapping has a port and a lifetime.
Given(m) == m.external # 0 /\ m.lifetime # 0

\* (slip: the answer for the other protocol's mapping will do)
AnyProtocol(m) == m.nonce = Nonce /\ m.internal = req.internal

\* The answer is for this request.  A probe is one for TCP and port 0.
Matches(m) ==
    /\ m.nonce = Nonce
    /\ m.proto = ipProtocol(IF call.op = "external" THEN "tcp" ELSE req.protocol)
    /\ m.internal = IF call.op = "external" THEN 0 ELSE req.internal

Finish(o) == received' = Nothing /\ Over(o) /\ UNCHANGED <<call, sent, answer, granted>>

ReturnPcp ==
    /\ received # Nothing /\ ~NatPmp
    /\ LET m == pcpMapping(received)
       IN  Finish(IF ~pcpAccepts(received) \/ ~Matches(m) THEN Error
                  ELSE IF call.op = "unmap" THEN Done
                  ELSE IF call.op = "external" THEN [is |-> "address", address |-> m.address]
                  ELSE IF Given(m) THEN Lease(m, m.address) ELSE Error)

\* The first exchange of Map, and the only one of Unmap.
ReturnMapping ==
    /\ received # Nothing /\ NatPmp /\ exchange = "mapping"
    /\ LET m  == natpmpMapping(received)
           ok == /\ natpmpAccepts(received, mapOpcode(req.protocol), 16)
                 /\ m.internal = req.internal
       IN  IF ok /\ call.op = "map" /\ Given(m)
           THEN /\ granted' = m /\ exchange' = "address" /\ received' = Nothing
                /\ UNCHANGED <<call, sent, answer, outcome>>
           ELSE Finish(IF ok /\ call.op = "unmap" THEN Done ELSE Error)

ReturnAddress ==
    /\ received # Nothing /\ NatPmp /\ exchange = "address"
    /\ Finish(IF ~natpmpAccepts(received, 0, 12) THEN Error
              ELSE IF call.op = "map" THEN Lease(granted, natpmpAddress(received))
              ELSE [is |-> "address", address |-> natpmpAddress(received)])

-----------------------------------------------------------------------------
(* The gateway *)

\* The requests of RFC 6886 and RFC 6887, as a gateway reads them.
natpmpReads(b) ==
    IF Len(b) = 2 THEN [asks |-> "address", opcode |-> Get8(b, 1)]
    ELSE [asks     |-> IF Get32(b, 8) = 0 THEN "unmap" ELSE "map",
          opcode   |-> Get8(b, 1),
          protocol |-> IF Get8(b, 1) = 1 THEN "udp" ELSE "tcp",
          internal |-> Get16(b, 4), external |-> Get16(b, 6), lifetime |-> Get32(b, 8)]

pcpReads(b) ==
    [asks     |-> IF Get32(b, 4) = 0 THEN "unmap" ELSE "map",
     opcode   |-> Get8(b, 1), nonce |-> Bytes(b, 24, 36), client |-> Bytes(b, 8, 24),
     protocol |-> IF Get8(b, 36) = 6 THEN "tcp" ELSE "udp", proto |-> Get8(b, 36),
     internal |-> Get16(b, 40), external |-> Get16(b, 42), lifetime |-> Get32(b, 4)]

Reads(b) == IF NatPmp THEN natpmpReads(b) ELSE pcpReads(b)

\* The answers to what the gateway has read.  The epoch is of no consequence.
Right(rd) ==
    [version : {IF NatPmp THEN 0 ELSE 2}, opcode : {rd.opcode + ResponseFlag}, code : {0},
     internal : {IF rd.asks = "address" THEN 0 ELSE rd.internal},
     external : IF rd.asks = "map" THEN Ports ELSE {0},
     lifetime : IF rd.asks = "map" THEN Lifetimes ELSE {0},
     epoch : {Long - 1}, address : Externals,
     nonce : {IF NatPmp THEN Nonce ELSE rd.nonce}, proto : {IF NatPmp THEN 6 ELSE rd.proto},
     size : {"exact", "longer"}, odd : {FALSE}]

\* One field is not what it should be.
Odd(a) ==
    {[a EXCEPT !.odd = TRUE, !.version = (@ + 1) % Base],
     [a EXCEPT !.odd = TRUE, !.opcode = (@ + 1) % Base],
     [a EXCEPT !.odd = TRUE, !.opcode = @ - ResponseFlag],
     [a EXCEPT !.odd = TRUE, !.code = 2],
     [a EXCEPT !.odd = TRUE, !.size = "short"]}
    \cup (IF exchange = "address" THEN {} ELSE
            {[a EXCEPT !.odd = TRUE, !.internal = (@ + Base) % Word]})
    \cup (IF NatPmp THEN {} ELSE
            {[a EXCEPT !.odd = TRUE, !.nonce[12] = (@ + 1) % Base],
             [a EXCEPT !.odd = TRUE, !.proto = 23 - @]})

\* A NAT-PMP client reads no more than 16 bytes.
Sized(b, size) ==
    IF size = "short" THEN SubSeq(b, 1, 8)
    ELSE IF size = "exact" \/ (NatPmp /\ Len(b) = 16) THEN b ELSE b \o Zeros(4)

\* The datagrams of RFC 6886 and RFC 6887.
Layout(a) ==
    IF exchange = "address"
    THEN U8(a.version) \o U8(a.opcode) \o U16(a.code) \o U32(a.epoch) \o Bytes(a.address, 12, 16)
    ELSE IF NatPmp
    THEN U8(a.version) \o U8(a.opcode) \o U16(a.code) \o U32(a.epoch)
            \o U16(a.internal) \o U16(a.external) \o U32(a.lifetime)
    ELSE U8(a.version) \o U8(a.opcode) \o U8(0) \o U8(a.code) \o U32(a.lifetime) \o U32(a.epoch)
            \o Zeros(12) \o a.nonce \o U8(a.proto) \o Zeros(3)
            \o U16(a.internal) \o U16(a.external) \o a.address

Answers ==
    /\ sent # Nothing
    /\ \E right \in Right(Reads(sent)) : \E a \in {right} \cup Odd(right) :
          /\ answer' = [answer EXCEPT ![exchange] = a]
          /\ received' = Sized(Layout(a), a.size)
    /\ sent' = Nothing
    /\ UNCHANGED <<call, exchange, granted, outcome>>

Next == Invalid \/ Ask \/ NoReply \/ ReturnPcp \/ ReturnMapping \/ ReturnAddress \/ Answers

Spec == Init /\ [][Next]_vars

-----------------------------------------------------------------------------
(* Properties *)

\* What the gateway reads is what the daemon meant, for every port and lifetime
\* that Validate lets through: the mapping, the whole of the lease, the host's own
\* address.  A Map is never read as the deletion that a lifetime of 0 asks for.
UnderstoodAsMeant ==
    sent # Nothing /\ exchange = "mapping" /\ call.op # "external" =>
        LET rd == Reads(sent)
        IN  /\ rd.asks = call.op /\ rd.protocol = req.protocol /\ rd.internal = req.internal
            /\ call.op = "map" => /\ rd.external = req.external
                                  /\ rd.lifetime * Second = Lifetime(req)
            /\ NatPmp /\ call.op = "unmap" => rd.external = 0
            /\ ~NatPmp => rd.nonce = Nonce /\ rd.client = to16(ClientAddress)

\* A Map that succeeds returns what the gateway granted for this very mapping, its
\* port, lifetime and external address, and not what was asked, what another
\* mapping was granted or what is no grant at all.
LeaseIsWhatWasGranted ==
    outcome.is = "lease" =>
        LET m == answer["mapping"]
        IN  /\ ~m.odd
            /\ outcome.protocol = req.protocol /\ outcome.internal = req.internal
            /\ outcome.external = m.external /\ m.external # 0
            /\ outcome.lifetime = m.lifetime * Second /\ m.lifetime # 0
            /\ IF NatPmp
               THEN /\ ~answer["address"].odd
                    /\ outcome.address = Bytes(answer["address"].address, 12, 16)
               ELSE outcome.address \in {m.address, Bytes(m.address, 12, 16)}

\* A call fails only if it is not valid, if nothing came back, or if the gateway's
\* answer was wrong somewhere or no grant: an answer by the book is never refused,
\* whatever its port, its lifetime, its epoch and the options after it.
GoodAnswerTaken ==
    outcome = Error =>
        \/ ~Checked
        \/ \E x \in DOMAIN answer :
              answer[x] # NoAnswer /\ (answer[x] = Unanswered \/ answer[x].odd)
        \/ call.op = "map" /\ (answer["mapping"].external = 0 \/ answer["mapping"].lifetime = 0)
=============================================================================
