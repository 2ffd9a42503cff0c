----------------------------- MODULE WireProofs -----------------------------
(***************************************************************************)
(* Proofs about Wire, for every base, request, nonce, address and answer:  *)
(* what is put at a place of a datagram is what the other side reads       *)
(* there, and an answer is taken if and only if nothing in it is odd.      *)
(***************************************************************************)
EXTENDS Wire, SequenceTheorems, TLAPS

-----------------------------------------------------------------------------
(* Pieces of a datagram *)

\* So many bytes.
Piece(x, n) == x \in Seq(Byte) /\ Len(x) = n

\* A datagram has a piece at a place.
At(b, at, x) ==
    /\ b \in Seq(Byte) /\ x \in Seq(Byte) /\ at \in Nat /\ at + Len(x) <= Len(b)
    /\ \A n \in 1 .. Len(x) : b[at + n] = x[n]

LEMMA Join ==
    ASSUME NEW s \in Seq(Byte), NEW t \in Seq(Byte)
    PROVE  /\ s \o t \in Seq(Byte) /\ Len(s \o t) = Len(s) + Len(t)
           /\ At(s \o t, 0, s) /\ At(s \o t, Len(s), t)
BY DEF At

\* What a datagram has it still has with more after it.
LEMMA Longer ==
    ASSUME NEW s, NEW at, NEW x, At(s, at, x), NEW t \in Seq(Byte)
    PROVE  At(s \o t, at, x)
BY DEF At

\* What the beginning of a datagram has, the datagram has.
LEMMA Nested ==
    ASSUME NEW b, NEW s, At(b, 0, s), NEW at, NEW x, At(s, at, x)
    PROVE  At(b, at, x)
<1>1. ASSUME NEW n \in 1 .. Len(x)
      PROVE  b[at + n] = x[n]
  <2>1. at + n \in 1 .. Len(s) /\ s[at + n] = x[n]
    BY DEF At
  <2>2. b[0 + (at + n)] = s[at + n]
    BY <2>1 DEF At
  <2>3. at + n \in Nat
    BY DEF At
  <2>4. QED
    BY <2>1, <2>2, <2>3
<1>2. at + Len(x) <= Len(b)
  BY DEF At
<1>3. QED
  BY <1>1, <1>2 DEF At

\* Three pieces in a row, and five, each at its place.
Row3(s, t, u) ==
    LET b == s \o t \o u
    IN  /\ b \in Seq(Byte) /\ Len(b) = Len(s) + Len(t) + Len(u)
        /\ At(b, 0, s) /\ At(b, Len(s), t) /\ At(b, Len(s) + Len(t), u)

Row5(s, t, u, v, w) ==
    LET b == s \o t \o u \o v \o w
    IN  /\ b \in Seq(Byte) /\ Len(b) = Len(s) + Len(t) + Len(u) + Len(v) + Len(w)
        /\ At(b, 0, s) /\ At(b, Len(s), t) /\ At(b, Len(s) + Len(t), u)
        /\ At(b, Len(s) + Len(t) + Len(u), v)
        /\ At(b, Len(s) + Len(t) + Len(u) + Len(v), w)

LEMMA Three ==
    ASSUME NEW s \in Seq(Byte), NEW t \in Seq(Byte), NEW u \in Seq(Byte)
    PROVE  Row3(s, t, u)
<1> DEFINE h == s \o t
           b == h \o u
<1>1. h \in Seq(Byte) /\ Len(h) = Len(s) + Len(t) /\ At(h, 0, s) /\ At(h, Len(s), t)
  BY Join
<1> HIDE DEF h
<1>2. b \in Seq(Byte) /\ Len(b) = Len(h) + Len(u) /\ At(b, 0, h) /\ At(b, Len(h), u)
  BY <1>1, Join
<1>3. At(b, 0, s) /\ At(b, Len(s), t)
  BY <1>1, Longer
<1> HIDE DEF b
<1>4. Len(b) = Len(s) + Len(t) + Len(u) /\ At(b, Len(s) + Len(t), u)
  BY <1>1, <1>2
<1>5. QED
  BY <1>2, <1>3, <1>4 DEF b, h, Row3

LEMMA Five ==
    ASSUME NEW s \in Seq(Byte), NEW t \in Seq(Byte), NEW u \in Seq(Byte),
           NEW v \in Seq(Byte), NEW w \in Seq(Byte)
    PROVE  Row5(s, t, u, v, w)
<1> DEFINE h == s \o t \o u
           b == h \o v \o w
<1>1. /\ h \in Seq(Byte) /\ Len(h) = Len(s) + Len(t) + Len(u)
      /\ At(h, 0, s) /\ At(h, Len(s), t) /\ At(h, Len(s) + Len(t), u)
  BY Three DEF Row3
<1> HIDE DEF h
<1>2. Row3(h, v, w)
  BY <1>1, Three
<1>3. /\ b \in Seq(Byte) /\ Len(b) = Len(h) + Len(v) + Len(w)
      /\ At(b, 0, h) /\ At(b, Len(h), v) /\ At(b, Len(h) + Len(v), w)
  BY <1>2 DEF Row3
<1> HIDE DEF b
<1>4. At(b, 0, s) /\ At(b, Len(s), t) /\ At(b, Len(s) + Len(t), u)
  BY <1>1, <1>3, Nested
<1>5. /\ Len(b) = Len(s) + Len(t) + Len(u) + Len(v) + Len(w)
      /\ At(b, Len(s) + Len(t) + Len(u), v)
      /\ At(b, Len(s) + Len(t) + Len(u) + Len(v), w)
  BY <1>1, <1>3
<1>6. QED
  BY <1>3, <1>4, <1>5 DEF b, h, Row5

-----------------------------------------------------------------------------
(* Digits *)

LEMMA Divide ==
    ASSUME NEW v \in Nat, NEW d \in Nat \ {0}
    PROVE  v \div d \in Nat /\ v % d \in 0 .. d - 1 /\ v = (v \div d) * d + (v % d)
OBVIOUS

LEMMA DivideUnique ==
    ASSUME NEW d \in Nat \ {0}, NEW q \in Nat, NEW r \in 0 .. d - 1
    PROVE  (q * d + r) \div d = q /\ (q * d + r) % d = r
<1> DEFINE v == q * d + r
           w == v \div d
           s == v % d
<1>1. q * d \in Nat /\ v \in Nat /\ v = q * d + r
  OBVIOUS
<1>2. w \in Nat /\ s \in 0 .. d - 1 /\ v = w * d + s
  <2> HIDE DEF v
  <2>1. QED
    BY <1>1, Divide
<1>3. w = q
  <2> HIDE DEF v, w, s
  <2>1. QED
    BY <1>1, <1>2
<1>4. s = r
  <2> HIDE DEF v, w, s
  <2>1. QED
    BY <1>1, <1>2, <1>3
<1>5. QED
  BY <1>3, <1>4

\* A number of two places.
LEMMA Places ==
    ASSUME NEW k \in Nat \ {0}, NEW d \in Nat \ {0}, NEW v \in 0 .. k * d - 1
    PROVE  v \div d \in 0 .. k - 1 /\ v % d \in 0 .. d - 1 /\ v = (v \div d) * d + (v % d)
<1>1. v \in Nat
  OBVIOUS
<1>2. v \div d \in 0 .. k - 1
  OBVIOUS
<1>3. QED
  BY <1>1, <1>2, Divide

LEMMA Sizes ==
    /\ Base \in Nat \ {0} /\ Base > 17 /\ Word \in Nat \ {0} /\ Long \in Nat \ {0}
    /\ Word > 2 * Base /\ Word = Base * Base /\ Long = Word * Word
    /\ ResponseFlag \in Nat /\ ResponseFlag > 3 /\ ResponseFlag + 3 < Base
<1>1. Base \in Nat \ {0} /\ Base > 17
  BY WireAssumption
<1>2. Word \in Nat \ {0} /\ Word > 2 * Base
  BY <1>1 DEF Word
<1>3. Long \in Nat \ {0}
  BY <1>2 DEF Long
<1>4. ResponseFlag \in Nat /\ ResponseFlag > 3 /\ ResponseFlag + 3 < Base
  BY <1>1 DEF ResponseFlag
<1>5. QED
  BY <1>1, <1>2, <1>3, <1>4 DEF Word, Long

LEMMA OneByte ==
    ASSUME NEW v \in Byte
    PROVE  U8(v) = <<v>> /\ U8(v) \in Seq(Byte) /\ Len(U8(v)) = 1
<1>1. v % Base = v
  BY Sizes DEF Byte
<1>2. QED
  BY <1>1 DEF U8

LEMMA TwoBytes ==
    ASSUME NEW v \in Nat
    PROVE  /\ U16(v) \in Seq(Byte) /\ Len(U16(v)) = 2
           /\ U16(v)[1] * Base + U16(v)[2] = v % Word
<1> DEFINE a == v \div Word
           w == v % Word
           h == w \div Base
           l == w % Base
<1>1. a \in Nat /\ w \in 0 .. Word - 1 /\ v = a * Word + w
  BY Divide, Sizes
<1>2. h \in Byte /\ l \in Byte /\ w = h * Base + l
  <2> HIDE DEF w
  <2>1. w \in 0 .. Base * Base - 1
    BY <1>1, Sizes
  <2>2. QED
    BY <2>1, Places, Sizes DEF Byte
<1>3. v = (a * Base + h) * Base + l /\ a * Base + h \in Nat
  <2> HIDE DEF a, w, h, l
  <2>1. a * Base \in Nat /\ a * Word = (a * Base) * Base
    BY <1>1, Sizes
  <2>2. QED
    BY <1>1, <1>2, <2>1, Sizes DEF Byte
<1>4. v \div Base = a * Base + h /\ v % Base = l /\ (a * Base + h) % Base = h
  <2> HIDE DEF a, w, h, l
  <2>1. QED
    BY <1>1, <1>2, <1>3, DivideUnique, Sizes DEF Byte
<1>5. U16(v) = <<h>> \o <<l>>
  <2> HIDE DEF a, w, h, l
  <2>1. QED
    BY <1>4 DEF U16, U8
<1>6. /\ U16(v) \in Seq(Byte) /\ Len(U16(v)) = 2
      /\ U16(v)[1] = h /\ U16(v)[2] = l
  <2> HIDE DEF a, w, h, l
  <2>1. <<h>> \in Seq(Byte) /\ <<l>> \in Seq(Byte)
    BY <1>2
  <2>2. QED
    BY <1>5, <2>1, Join DEF At
<1>7. QED
  <2> HIDE DEF a, h, l
  <2>1. QED
    BY <1>2, <1>6

LEMMA FourBytes ==
    ASSUME NEW v \in 0 .. Long - 1
    PROVE  /\ U32(v) \in Seq(Byte) /\ Len(U32(v)) = 4
           /\ (U32(v)[1] * Base + U32(v)[2]) * Word + (U32(v)[3] * Base + U32(v)[4]) = v
<1> DEFINE h == v \div Word
<1>1. h \in 0 .. Word - 1 /\ v \in Nat /\ v = h * Word + (v % Word)
  <2>1. Word \in Nat \ {0} /\ v \in 0 .. Word * Word - 1 /\ v \in Nat
    BY Sizes
  <2>2. h \in 0 .. Word - 1
    BY <2>1, Places
  <2>3. v = h * Word + (v % Word)
    BY <2>1, Divide
  <2>4. QED
    BY <2>1, <2>2, <2>3
<1>2. h \in Nat /\ h % Word = h
  <2> HIDE DEF h
  <2>1. QED
    BY <1>1, Sizes
<1>3. U32(v) = U16(h) \o U16(v)
  BY DEF U32
<1>4. /\ U16(h) \in Seq(Byte) /\ Len(U16(h)) = 2 /\ U16(h)[1] * Base + U16(h)[2] = h
      /\ U16(v) \in Seq(Byte) /\ Len(U16(v)) = 2 /\ U16(v)[1] * Base + U16(v)[2] = v % Word
  <2> HIDE DEF h
  <2>1. QED
    BY <1>1, <1>2, TwoBytes
<1>5. /\ U32(v) \in Seq(Byte) /\ Len(U32(v)) = 4
      /\ U32(v)[1] = U16(h)[1] /\ U32(v)[2] = U16(h)[2]
      /\ U32(v)[3] = U16(v)[1] /\ U32(v)[4] = U16(v)[2]
  <2> HIDE DEF h
  <2>1. /\ U32(v) \in Seq(Byte) /\ Len(U32(v)) = 4
        /\ At(U32(v), 0, U16(h)) /\ At(U32(v), 2, U16(v))
    <3>1. /\ U16(h) \in Seq(Byte) /\ U16(v) \in Seq(Byte)
          /\ Len(U16(h)) = 2 /\ Len(U16(v)) = 2
      BY <1>4
    <3> DEFINE both == U16(h) \o U16(v)
    <3>2. /\ both \in Seq(Byte) /\ Len(both) = Len(U16(h)) + Len(U16(v))
          /\ At(both, 0, U16(h)) /\ At(both, Len(U16(h)), U16(v))
      BY <3>1, Join
    <3>3. Len(both) = 4
      <4> HIDE DEF both
      <4>1. QED
        BY <3>1, <3>2
    <3>4. QED
      BY <1>3, <3>1, <3>2, <3>3
  <2>2. \A n \in 1 .. 2 : U32(v)[0 + n] = U16(h)[n] /\ U32(v)[2 + n] = U16(v)[n]
    BY <1>4, <2>1 DEF At
  <2>3. U32(v)[0 + 1] = U16(h)[1] /\ U32(v)[0 + 2] = U16(h)[2]
    BY <2>2
  <2>4. U32(v)[2 + 1] = U16(v)[1] /\ U32(v)[2 + 2] = U16(v)[2]
    BY <2>2
  <2>5. QED
    BY <2>1, <2>3, <2>4
<1>6. (U32(v)[1] * Base + U32(v)[2]) * Word + (U32(v)[3] * Base + U32(v)[4]) = v
  <2> HIDE DEF h
  <2>1. U32(v)[1] * Base + U32(v)[2] = h /\ U32(v)[3] * Base + U32(v)[4] = v % Word
    BY <1>4, <1>5
  <2>2. QED
    BY <1>1, <2>1
<1>7. QED
  BY <1>5, <1>6

-----------------------------------------------------------------------------
(* What is read is what was put there *)

LEMMA ReadByte ==
    ASSUME NEW b, NEW at, NEW v \in Byte, At(b, at, U8(v))
    PROVE  Get8(b, at) = v
<1>1. U8(v) = <<v>> /\ Len(U8(v)) = 1
  BY OneByte
<1>2. at \in Nat /\ b[at + 1] = U8(v)[1]
  BY <1>1 DEF At
<1>3. QED
  BY <1>1, <1>2 DEF Get8

LEMMA ReadTwo ==
    ASSUME NEW b, NEW at, NEW v \in 0 .. Word - 1, At(b, at, U16(v))
    PROVE  Get16(b, at) = v
<1>1. v \in Nat /\ v % Word = v
  BY Sizes
<1>2. b[at + 1] = U16(v)[1] /\ b[at + 2] = U16(v)[2]
  BY <1>1, TwoBytes DEF At
<1>3. b[at + 1 + 1] = b[at + 2]
  BY DEF At
<1>4. QED
  BY <1>1, <1>2, <1>3, TwoBytes DEF Get16, Get8

LEMMA ReadFour ==
    ASSUME NEW b, NEW at, NEW v \in 0 .. Long - 1, At(b, at, U32(v))
    PROVE  Get32(b, at) = v
<1>1. /\ b[at + 1] = U32(v)[1] /\ b[at + 2] = U32(v)[2]
      /\ b[at + 3] = U32(v)[3] /\ b[at + 4] = U32(v)[4]
  BY FourBytes DEF At
<1>2. at + 1 + 1 = at + 2 /\ at + 2 + 1 = at + 3 /\ at + 2 + 1 + 1 = at + 4
  BY DEF At
<1>3. Get16(b, at) = U32(v)[1] * Base + U32(v)[2]
  BY <1>1, <1>2 DEF Get16, Get8
<1>4. Get16(b, at + 2) = U32(v)[3] * Base + U32(v)[4]
  BY <1>1, <1>2 DEF Get16, Get8
<1>5. QED
  BY <1>3, <1>4, FourBytes DEF Get32

LEMMA ReadBytes ==
    ASSUME NEW b, NEW at, NEW x, At(b, at, x), NEW to, to = at + Len(x)
    PROVE  Bytes(b, at, to) = x
<1> USE DEF At
<1>1. SubSeq(b, at + 1, to) \in Seq(Byte) /\ Len(SubSeq(b, at + 1, to)) = Len(x)
  BY SubSeqProperties
<1>2. \A n \in 1 .. Len(x) : SubSeq(b, at + 1, to)[n] = x[n]
  BY SubSeqProperties
<1>3. QED
  BY <1>1, <1>2, SeqEqual DEF Bytes

-----------------------------------------------------------------------------
(* The requests *)

\* The pieces a datagram is put together from.
LEMMA PieceFacts ==
    /\ \A v \in Byte : Piece(U8(v), 1)
    /\ \A v \in 0 .. Word - 1 : Piece(U16(v), 2)
    /\ \A v \in 0 .. Long - 1 : Piece(U32(v), 4)
<1>1. ASSUME NEW v \in 0 .. Word - 1
      PROVE  Piece(U16(v), 2)
  <2>1. v \in Nat
    BY Sizes
  <2>2. QED
    BY <2>1, TwoBytes DEF Piece
<1>2. QED
  BY <1>1, OneByte, FourBytes DEF Piece

LEMMA Tuple ==
    ASSUME NEW n \in Nat, NEW x \in [1 .. n -> Byte]
    PROVE  Piece(x, n)
BY DEF Piece

LEMMA SmallBytes == \A n \in 0 .. 17 : n \in Byte
BY Sizes DEF Byte

LEMMA ZeroBytes ==
    ASSUME NEW n \in Nat
    PROVE  Piece(Zeros(n), n)
<1>1. Zeros(n) \in [1 .. n -> Byte]
  BY SmallBytes DEF Zeros
<1>2. QED
  BY <1>1, Tuple

\* natpmp/codec.go and RFC 6886: the fields of a mapping request.
LEMMA NatPmpRequest ==
    ASSUME NEW p, NEW internal \in 0 .. Word - 1, NEW external \in 0 .. Word - 1,
           NEW lifetime \in 0 .. Long - 1
    PROVE  LET b == natpmpRequest(p, internal, external, lifetime)
           IN  /\ Piece(b, 12) /\ Get8(b, 1) = mapOpcode(p)
               /\ Get16(b, 4) = internal /\ Get16(b, 6) = external /\ Get32(b, 8) = lifetime
<1> DEFINE op == U8(mapOpcode(p))
           in == U16(internal)
           ex == U16(external)
           li == U32(lifetime)
           h == U8(0) \o op \o Zeros(2) \o in \o ex
           b == h \o li
<1>1. mapOpcode(p) \in Byte /\ 0 \in Byte
  BY SmallBytes DEF mapOpcode
<1>2. /\ Piece(U8(0), 1) /\ Piece(op, 1) /\ Piece(Zeros(2), 2)
      /\ Piece(in, 2) /\ Piece(ex, 2) /\ Piece(li, 4)
  BY <1>1, PieceFacts, ZeroBytes
<1> HIDE DEF op, in, ex, li
<1>3. Row5(U8(0), op, Zeros(2), in, ex)
  <2>1. /\ U8(0) \in Seq(Byte) /\ op \in Seq(Byte) /\ Zeros(2) \in Seq(Byte)
        /\ in \in Seq(Byte) /\ ex \in Seq(Byte)
    BY <1>2 DEF Piece
  <2>2. QED
    BY <2>1, Five, Zenon
<1>4. Piece(h, 8) /\ At(h, 1, op) /\ At(h, 4, in) /\ At(h, 6, ex)
  BY <1>2, <1>3 DEF Row5, Piece
<1> HIDE DEF h
<1>5. Piece(b, 12) /\ At(b, 8, li)
  <2>1. h \in Seq(Byte) /\ Len(h) = 8 /\ li \in Seq(Byte) /\ Len(li) = 4
    BY <1>2, <1>4 DEF Piece
  <2>2. b \in Seq(Byte) /\ Len(b) = Len(h) + Len(li) /\ At(b, Len(h), li)
    BY <2>1, Join
  <2> HIDE DEF b
  <2>3. QED
    BY <2>1, <2>2 DEF Piece
<1>6. At(b, 1, op) /\ At(b, 4, in) /\ At(b, 6, ex)
  BY <1>2, <1>4, Longer DEF Piece
<1> HIDE DEF b
<1>7. Get8(b, 1) = mapOpcode(p)
  BY <1>1, <1>6, ReadByte DEF op
<1>8. Get16(b, 4) = internal /\ Get16(b, 6) = external /\ Get32(b, 8) = lifetime
  BY <1>5, <1>6, ReadTwo, ReadFour DEF in, ex, li
<1>9. QED
  BY <1>5, <1>7, <1>8 DEF b, h, op, in, ex, li, natpmpRequest

\* natpmp/codec.go and RFC 6886: the request for the external address.
LEMMA AddressRequest ==
    LET b == encodeExternalAddressRequest
    IN  Piece(b, 2) /\ Get8(b, 1) = 0
<1> DEFINE op == U8(0)
           b == op \o op
<1>1. 0 \in Byte /\ op \in Seq(Byte) /\ Len(op) = 1
  BY SmallBytes, PieceFacts DEF Piece
<1> HIDE DEF op
<1>2. Piece(b, 2) /\ At(b, 1, op)
  <2>1. b \in Seq(Byte) /\ Len(b) = Len(op) + Len(op) /\ At(b, Len(op), op)
    BY <1>1, Join
  <2> HIDE DEF b
  <2>2. QED
    BY <1>1, <2>1 DEF Piece
<1>3. Get8(b, 1) = 0
  <2> HIDE DEF b
  <2>1. QED
    BY <1>1, <1>2, ReadByte DEF op
<1>4. QED
  BY <1>2, <1>3 DEF encodeExternalAddressRequest, op

LEMMA ToSixteen ==
    ASSUME NEW a \in [1 .. 4 -> Byte]
    PROVE  Piece(to16(a), 16)
<1> DEFINE z == Zeros(10)
           f == U8(Base - 1)
<1>1. z \in Seq(Byte) /\ Len(z) = 10
  BY ZeroBytes DEF Piece
<1>2. f \in Seq(Byte) /\ Len(f) = 1
  <2>1. Base - 1 \in Byte
    BY Sizes DEF Byte
  <2>2. QED
    BY <2>1, PieceFacts DEF Piece
<1>3. v4mapped = z \o f \o f
  BY DEF v4mapped
<1> HIDE DEF z, f
<1>4. v4mapped \in Seq(Byte) /\ Len(v4mapped) = 12
  <2>1. Row3(z, f, f)
    BY <1>1, <1>2, Three, Zenon
  <2>2. QED
    BY <1>1, <1>2, <1>3, <2>1 DEF Row3
<1>5. a \in Seq(Byte) /\ Len(a) = 4
  BY Tuple DEF Piece
<1>6. QED
  <2>1. v4mapped \o a \in Seq(Byte) /\ Len(v4mapped \o a) = Len(v4mapped) + Len(a)
    BY <1>4, <1>5, Join
  <2>2. QED
    BY <1>4, <1>5, <2>1 DEF to16, Piece

\* pcp/codec.go and RFC 6887: the fields of a MAP request.
LEMMA PcpRequest ==
    ASSUME NEW p, NEW internal \in 0 .. Word - 1, NEW external \in 0 .. Word - 1,
           NEW lifetime \in 0 .. Long - 1
    PROVE  LET b == pcpRequest(p, internal, external, lifetime)
           IN  /\ Piece(b, 60) /\ Get8(b, 1) = 1 /\ Get32(b, 4) = lifetime
               /\ Bytes(b, 8, 24) = to16(ClientAddress) /\ Bytes(b, 24, 36) = Nonce
               /\ Get8(b, 36) = ipProtocol(p)
               /\ Get16(b, 40) = internal /\ Get16(b, 42) = external
<1> DEFINE ve == U8(2)
           op == U8(1)
           z2 == Zeros(2)
           li == U32(lifetime)
           me == to16(ClientAddress)
           pr == U8(ipProtocol(p))
           z3 == Zeros(3)
           in == U16(internal)
           ex == U16(external)
           no == Zeros(16)
           h  == ve \o op \o z2 \o li \o me
           g  == h \o Nonce \o pr \o z3 \o in
           b  == g \o ex \o no
<1>1. 1 \in Byte /\ 2 \in Byte /\ ipProtocol(p) \in Byte
  BY SmallBytes DEF ipProtocol
<1>2. /\ Piece(ve, 1) /\ Piece(op, 1) /\ Piece(z2, 2) /\ Piece(li, 4)
      /\ Piece(pr, 1) /\ Piece(z3, 3) /\ Piece(in, 2) /\ Piece(ex, 2) /\ Piece(no, 16)
  BY <1>1, PieceFacts, ZeroBytes
<1>3. Piece(me, 16) /\ Piece(Nonce, 12)
  BY ToSixteen, Tuple, WireAssumption
<1>4. b = pcpRequest(p, internal, external, lifetime)
  BY DEF pcpRequest
<1> HIDE DEF ve, op, z2, li, me, pr, z3, in, ex, no
<1>5. Piece(h, 24) /\ At(h, 1, op) /\ At(h, 4, li) /\ At(h, 8, me)
  <2>1. /\ ve \in Seq(Byte) /\ op \in Seq(Byte) /\ z2 \in Seq(Byte)
        /\ li \in Seq(Byte) /\ me \in Seq(Byte)
    BY <1>2, <1>3 DEF Piece
  <2>2. Row5(ve, op, z2, li, me)
    BY <2>1, Five, Zenon
  <2>3. QED
    BY <1>2, <1>3, <2>2 DEF Row5, Piece
<1> HIDE DEF h
<1>6. /\ Piece(g, 42) /\ At(g, 0, h) /\ At(g, 24, Nonce) /\ At(g, 36, pr) /\ At(g, 40, in)
  <2>1. /\ h \in Seq(Byte) /\ Nonce \in Seq(Byte) /\ pr \in Seq(Byte)
        /\ z3 \in Seq(Byte) /\ in \in Seq(Byte)
    BY <1>2, <1>3, <1>5 DEF Piece
  <2>2. Row5(h, Nonce, pr, z3, in)
    BY <2>1, Five, Zenon
  <2>3. QED
    BY <1>2, <1>3, <1>5, <2>2 DEF Row5, Piece
<1> HIDE DEF g
<1>7. Piece(b, 60) /\ At(b, 0, g) /\ At(b, 42, ex)
  <2>1. g \in Seq(Byte) /\ ex \in Seq(Byte) /\ no \in Seq(Byte)
    BY <1>2, <1>6 DEF Piece
  <2>2. Row3(g, ex, no)
    BY <2>1, Three, Zenon
  <2>3. QED
    BY <1>2, <1>6, <2>2 DEF Row3, Piece
<1> HIDE DEF b
<1>8. At(b, 0, h) /\ At(b, 24, Nonce) /\ At(b, 36, pr) /\ At(b, 40, in)
  BY <1>6, <1>7, Nested, Zenon
<1>9. At(b, 1, op) /\ At(b, 4, li) /\ At(b, 8, me)
  BY <1>5, <1>8, Nested, Zenon
<1>10. Bytes(b, 8, 24) = me /\ Bytes(b, 24, 36) = Nonce
  <2>1. 24 = 8 + Len(me) /\ 36 = 24 + Len(Nonce)
    BY <1>3 DEF Piece
  <2>2. Bytes(b, 8, 24) = me
    BY <1>9, <2>1, ReadBytes
  <2>3. Bytes(b, 24, 36) = Nonce
    BY <1>8, <2>1, ReadBytes
  <2>4. QED
    BY <2>2, <2>3
<1>11. Get8(b, 1) = 1 /\ Get8(b, 36) = ipProtocol(p)
  BY <1>1, <1>8, <1>9, ReadByte DEF op, pr
<1>12. Get32(b, 4) = lifetime /\ Get16(b, 40) = internal /\ Get16(b, 42) = external
  BY <1>7, <1>8, <1>9, ReadTwo, ReadFour DEF li, in, ex
<1>13. QED
  BY <1>4, <1>7, <1>10, <1>11, <1>12 DEF me

-----------------------------------------------------------------------------
(* The answers *)

\* What a field of an answer can be, odd or not.
AnswerOK(a) ==
    /\ a.version \in Byte /\ a.opcode \in Byte /\ a.code \in 0 .. 2 /\ a.proto \in Byte
    /\ a.internal \in 0 .. Word - 1 /\ a.external \in 0 .. Word - 1
    /\ a.lifetime \in 0 .. Long - 1 /\ a.epoch \in 0 .. Long - 1
    /\ a.address \in [1 .. 16 -> Byte] /\ a.nonce \in [1 .. 12 -> Byte]

LEMMA LastFour ==
    ASSUME NEW a \in [1 .. 16 -> Byte]
    PROVE  Piece(Bytes(a, 12, 16), 4)
BY SubSeqProperties DEF Bytes, Piece

\* An answer to a request for the external address.
LEMMA AddressAnswer ==
    ASSUME NEW a, AnswerOK(a), exchange = "address"
    PROVE  LET b == Layout(a)
           IN  /\ Piece(b, 12) /\ At(b, 0, U8(a.version)) /\ At(b, 1, U8(a.opcode))
               /\ At(b, 2, U16(a.code)) /\ At(b, 8, Bytes(a.address, 12, 16))
<1> DEFINE ve == U8(a.version)
           op == U8(a.opcode)
           co == U16(a.code)
           ep == U32(a.epoch)
           ad == Bytes(a.address, 12, 16)
           b  == ve \o op \o co \o ep \o ad
<1>1. a.code \in 0 .. Word - 1
  BY Sizes DEF AnswerOK
<1>2. Piece(ve, 1) /\ Piece(op, 1) /\ Piece(co, 2) /\ Piece(ep, 4) /\ Piece(ad, 4)
  BY <1>1, PieceFacts, LastFour DEF AnswerOK
<1>3. Layout(a) = b
  BY DEF Layout
<1> HIDE DEF ve, op, co, ep, ad
<1>4. Piece(b, 12) /\ At(b, 0, ve) /\ At(b, 1, op) /\ At(b, 2, co) /\ At(b, 8, ad)
  <2>1. /\ ve \in Seq(Byte) /\ op \in Seq(Byte) /\ co \in Seq(Byte)
        /\ ep \in Seq(Byte) /\ ad \in Seq(Byte)
    BY <1>2 DEF Piece
  <2>2. Row5(ve, op, co, ep, ad)
    BY <2>1, Five, Zenon
  <2>3. QED
    BY <1>2, <2>2 DEF Row5, Piece
<1> HIDE DEF b
<1>5. QED
  BY <1>3, <1>4 DEF ve, op, co, ad

\* An answer to a NAT-PMP mapping request.
LEMMA NatPmpAnswer ==
    ASSUME NEW a, AnswerOK(a), exchange = "mapping", NatPmp
    PROVE  LET b == Layout(a)
           IN  /\ Piece(b, 16) /\ At(b, 0, U8(a.version)) /\ At(b, 1, U8(a.opcode))
               /\ At(b, 2, U16(a.code)) /\ At(b, 8, U16(a.internal))
               /\ At(b, 10, U16(a.external)) /\ At(b, 12, U32(a.lifetime))
<1> DEFINE ve == U8(a.version)
           op == U8(a.opcode)
           co == U16(a.code)
           ep == U32(a.epoch)
           in == U16(a.internal)
           ex == U16(a.external)
           li == U32(a.lifetime)
           h  == ve \o op \o co \o ep \o in
           b  == h \o ex \o li
<1>1. a.code \in 0 .. Word - 1
  BY Sizes DEF AnswerOK
<1>2. /\ Piece(ve, 1) /\ Piece(op, 1) /\ Piece(co, 2) /\ Piece(ep, 4)
      /\ Piece(in, 2) /\ Piece(ex, 2) /\ Piece(li, 4)
  BY <1>1, PieceFacts DEF AnswerOK
<1>3. Layout(a) = b
  BY DEF Layout
<1> HIDE DEF ve, op, co, ep, in, ex, li
<1>4. /\ Piece(h, 10) /\ At(h, 0, ve) /\ At(h, 1, op) /\ At(h, 2, co) /\ At(h, 8, in)
  <2>1. /\ ve \in Seq(Byte) /\ op \in Seq(Byte) /\ co \in Seq(Byte)
        /\ ep \in Seq(Byte) /\ in \in Seq(Byte)
    BY <1>2 DEF Piece
  <2>2. Row5(ve, op, co, ep, in)
    BY <2>1, Five, Zenon
  <2>3. QED
    BY <1>2, <2>2 DEF Row5, Piece
<1> HIDE DEF h
<1>5. Piece(b, 16) /\ At(b, 0, h) /\ At(b, 10, ex) /\ At(b, 12, li)
  <2>1. h \in Seq(Byte) /\ ex \in Seq(Byte) /\ li \in Seq(Byte)
    BY <1>2, <1>4 DEF Piece
  <2>2. Row3(h, ex, li)
    BY <2>1, Three, Zenon
  <2>3. QED
    BY <1>2, <1>4, <2>2 DEF Row3, Piece
<1> HIDE DEF b
<1>6. At(b, 0, ve) /\ At(b, 1, op) /\ At(b, 2, co) /\ At(b, 8, in)
  BY <1>4, <1>5, Nested, Zenon
<1>7. QED
  BY <1>3, <1>5, <1>6 DEF ve, op, co, in, ex, li

\* An answer to a PCP request.
LEMMA PcpAnswer ==
    ASSUME NEW a, AnswerOK(a), exchange = "mapping", ~NatPmp
    PROVE  LET b == Layout(a)
           IN  /\ Piece(b, 60) /\ At(b, 0, U8(a.version)) /\ At(b, 1, U8(a.opcode))
               /\ At(b, 3, U8(a.code)) /\ At(b, 4, U32(a.lifetime)) /\ At(b, 24, a.nonce)
               /\ At(b, 36, U8(a.proto)) /\ At(b, 40, U16(a.internal))
               /\ At(b, 42, U16(a.external)) /\ At(b, 44, a.address)
<1> DEFINE ve == U8(a.version)
           op == U8(a.opcode)
           re == U8(0)
           co == U8(a.code)
           li == U32(a.lifetime)
           ep == U32(a.epoch)
           z  == Zeros(12)
           no == a.nonce
           pr == U8(a.proto)
           z3 == Zeros(3)
           in == U16(a.internal)
           ex == U16(a.external)
           ad == a.address
           h  == ve \o op \o re \o co \o li
           g  == h \o ep \o z \o no \o pr
           b  == g \o z3 \o in \o ex \o ad
<1>1. a.code \in Byte /\ 0 \in Byte
  BY SmallBytes DEF AnswerOK
<1>2. /\ Piece(ve, 1) /\ Piece(op, 1) /\ Piece(re, 1) /\ Piece(co, 1) /\ Piece(li, 4)
      /\ Piece(ep, 4) /\ Piece(pr, 1) /\ Piece(in, 2) /\ Piece(ex, 2)
  BY <1>1, PieceFacts DEF AnswerOK
<1>3. Piece(z, 12) /\ Piece(z3, 3) /\ Piece(no, 12) /\ Piece(ad, 16)
  BY ZeroBytes, Tuple DEF AnswerOK
<1>4. Layout(a) = b
  BY DEF Layout
<1> HIDE DEF ve, op, re, co, li, ep, z, no, pr, z3, in, ex, ad
<1>5. /\ Piece(h, 8) /\ At(h, 0, ve) /\ At(h, 1, op) /\ At(h, 3, co) /\ At(h, 4, li)
  <2>1. /\ ve \in Seq(Byte) /\ op \in Seq(Byte) /\ re \in Seq(Byte)
        /\ co \in Seq(Byte) /\ li \in Seq(Byte)
    BY <1>2 DEF Piece
  <2>2. Row5(ve, op, re, co, li)
    BY <2>1, Five, Zenon
  <2>3. QED
    BY <1>2, <2>2 DEF Row5, Piece
<1> HIDE DEF h
<1>6. /\ Piece(g, 37) /\ At(g, 0, h) /\ At(g, 24, no) /\ At(g, 36, pr)
  <2>1. /\ h \in Seq(Byte) /\ ep \in Seq(Byte) /\ z \in Seq(Byte)
        /\ no \in Seq(Byte) /\ pr \in Seq(Byte)
    BY <1>2, <1>3, <1>5 DEF Piece
  <2>2. Row5(h, ep, z, no, pr)
    BY <2>1, Five, Zenon
  <2>3. QED
    BY <1>2, <1>3, <1>5, <2>2 DEF Row5, Piece
<1> HIDE DEF g
<1>7. Piece(b, 60) /\ At(b, 0, g) /\ At(b, 40, in) /\ At(b, 42, ex) /\ At(b, 44, ad)
  <2>1. /\ g \in Seq(Byte) /\ z3 \in Seq(Byte) /\ in \in Seq(Byte)
        /\ ex \in Seq(Byte) /\ ad \in Seq(Byte)
    BY <1>2, <1>3, <1>6 DEF Piece
  <2>2. Row5(g, z3, in, ex, ad)
    BY <2>1, Five, Zenon
  <2>3. QED
    BY <1>2, <1>3, <1>6, <2>2 DEF Row5, Piece
<1> HIDE DEF b
<1>8. At(b, 0, h) /\ At(b, 24, no) /\ At(b, 36, pr)
  BY <1>6, <1>7, Nested, Zenon
<1>9. At(b, 0, ve) /\ At(b, 1, op) /\ At(b, 3, co) /\ At(b, 4, li)
  BY <1>5, <1>8, Nested, Zenon
<1>10. QED
  BY <1>4, <1>7, <1>8, <1>9 DEF ve, op, co, li, no, pr, in, ex, ad

\* What a datagram that is not short had is read on.
LEMMA NotShort ==
    ASSUME NEW b \in Seq(Byte), NEW size, size # "short"
    PROVE  LET r == Sized(b, size)
           IN  /\ r \in Seq(Byte) /\ Len(r) >= Len(b)
               /\ \A at, x : At(b, at, x) => At(r, at, x)
<1>1. CASE Sized(b, size) = b
  BY <1>1
<1>2. CASE Sized(b, size) = b \o Zeros(4)
  <2>1. Zeros(4) \in Seq(Byte) /\ Len(Zeros(4)) = 4
    BY ZeroBytes DEF Piece
  <2>2. b \o Zeros(4) \in Seq(Byte) /\ Len(b \o Zeros(4)) = Len(b) + Len(Zeros(4))
    BY <2>1, Join
  <2>3. \A at, x : At(b, at, x) => At(b \o Zeros(4), at, x)
    BY <2>1, Longer, Zenon
  <2>4. Len(b \o Zeros(4)) >= Len(b)
    BY <2>1, <2>2
  <2>5. QED
    BY <1>2, <2>2, <2>3, <2>4
<1>3. QED
  BY <1>1, <1>2 DEF Sized

LEMMA Short ==
    ASSUME NEW b \in Seq(Byte), Len(b) >= 12
    PROVE  Len(Sized(b, "short")) = 8
BY SubSeqProperties DEF Sized

\* Which answers the decoders accept, and what they make of them.
LEMMA AddressVerdict ==
    ASSUME NEW a, AnswerOK(a), exchange = "address"
    PROVE  LET r == Sized(Layout(a), a.size)
           IN  /\ natpmpAccepts(r, 0, 12) <=>
                     /\ a.size # "short" /\ a.version = 0
                     /\ a.opcode = ResponseFlag /\ a.code = 0
               /\ a.size # "short" => natpmpAddress(r) = Bytes(a.address, 12, 16)
<1> DEFINE b == Layout(a)
           r == Sized(b, a.size)
<1>1. /\ b \in Seq(Byte) /\ Len(b) = 12 /\ At(b, 0, U8(a.version)) /\ At(b, 1, U8(a.opcode))
      /\ At(b, 2, U16(a.code)) /\ At(b, 8, Bytes(a.address, 12, 16))
  BY AddressAnswer DEF Piece
<1> HIDE DEF b
<1>2. CASE a.size = "short"
  <2>1. Len(b) >= 12
    BY <1>1
  <2>2. Len(Sized(b, "short")) = 8
    BY <1>1, <2>1, Short
  <2>3. Len(r) = 8
    BY <1>2, <2>2
  <2> HIDE DEF r
  <2>4. ~(Len(r) >= 12)
    BY <2>3
  <2>5. ~natpmpAccepts(r, 0, 12)
    BY <2>4, Zenon DEF natpmpAccepts
  <2>6. QED
    BY <1>2, <2>5, Zenon DEF r, b
<1>3. CASE a.size # "short"
  <2>1. /\ r \in Seq(Byte) /\ Len(r) >= 12 /\ At(r, 0, U8(a.version)) /\ At(r, 1, U8(a.opcode))
        /\ At(r, 2, U16(a.code)) /\ At(r, 8, Bytes(a.address, 12, 16))
    BY <1>1, <1>3, NotShort
  <2> HIDE DEF r
  <2>2. a.version \in Byte /\ a.opcode \in Byte /\ a.code \in 0 .. Word - 1
    BY Sizes DEF AnswerOK
  <2>3. Get8(r, 0) = a.version /\ Get8(r, 1) = a.opcode /\ Get16(r, 2) = a.code
    BY <2>1, <2>2, ReadByte, ReadTwo
  <2>4. natpmpAddress(r) = Bytes(a.address, 12, 16)
    <3> DEFINE ad == Bytes(a.address, 12, 16)
    <3>1. Len(ad) = 4 /\ At(r, 8, ad)
      BY <2>1, LastFour DEF AnswerOK, Piece
    <3>2. Bytes(r, 8, 12) = ad
      <4> HIDE DEF ad
      <4>1. 12 = 8 + Len(ad) /\ At(r, 8, ad)
        BY <3>1
      <4>2. QED
        BY <4>1, ReadBytes
    <3>3. QED
      BY <3>2 DEF natpmpAddress
  <2>5. 0 + ResponseFlag = ResponseFlag
    BY Sizes
  <2>6. natpmpAccepts(r, 0, 12) <=>
            a.version = 0 /\ a.opcode = ResponseFlag /\ a.code = 0
    BY <2>1, <2>3, <2>5 DEF natpmpAccepts
  <2>7. QED
    BY <1>3, <2>4, <2>6 DEF r, b
<1>4. QED
  BY <1>2, <1>3

LEMMA NatPmpVerdict ==
    ASSUME NEW a, AnswerOK(a), exchange = "mapping", NatPmp, NEW op
    PROVE  LET r == Sized(Layout(a), a.size)
           IN  /\ natpmpAccepts(r, op, 16) <=>
                     /\ a.size # "short" /\ a.version = 0
                     /\ a.opcode = op + ResponseFlag /\ a.code = 0
               /\ a.size # "short" =>
                     natpmpMapping(r) = [internal |-> a.internal, external |-> a.external,
                                         lifetime |-> a.lifetime]
<1> DEFINE b == Layout(a)
           r == Sized(b, a.size)
<1>1. /\ b \in Seq(Byte) /\ Len(b) = 16 /\ At(b, 0, U8(a.version)) /\ At(b, 1, U8(a.opcode))
      /\ At(b, 2, U16(a.code)) /\ At(b, 8, U16(a.internal))
      /\ At(b, 10, U16(a.external)) /\ At(b, 12, U32(a.lifetime))
  BY NatPmpAnswer DEF Piece
<1> HIDE DEF b
<1>2. CASE a.size = "short"
  <2>1. Len(b) >= 12
    BY <1>1
  <2>2. Len(Sized(b, "short")) = 8
    BY <1>1, <2>1, Short
  <2>3. Len(r) = 8
    BY <1>2, <2>2
  <2> HIDE DEF r
  <2>4. ~(Len(r) >= 16)
    BY <2>3
  <2>5. ~natpmpAccepts(r, op, 16)
    BY <2>4, Zenon DEF natpmpAccepts
  <2>6. QED
    BY <1>2, <2>5, Zenon DEF r, b
<1>3. CASE a.size # "short"
  <2>1. /\ r \in Seq(Byte) /\ Len(r) >= 16 /\ At(r, 0, U8(a.version)) /\ At(r, 1, U8(a.opcode))
        /\ At(r, 2, U16(a.code)) /\ At(r, 8, U16(a.internal))
        /\ At(r, 10, U16(a.external)) /\ At(r, 12, U32(a.lifetime))
    BY <1>1, <1>3, NotShort
  <2> HIDE DEF r
  <2>2. a.version \in Byte /\ a.opcode \in Byte /\ a.code \in 0 .. Word - 1
    BY Sizes DEF AnswerOK
  <2>3. Get8(r, 0) = a.version /\ Get8(r, 1) = a.opcode /\ Get16(r, 2) = a.code
    BY <2>1, <2>2, ReadByte, ReadTwo
  <2>4. Get16(r, 8) = a.internal /\ Get16(r, 10) = a.external /\ Get32(r, 12) = a.lifetime
    BY <2>1, ReadTwo, ReadFour DEF AnswerOK
  <2>5. natpmpAccepts(r, op, 16) <=>
            a.version = 0 /\ a.opcode = op + ResponseFlag /\ a.code = 0
    BY <2>1, <2>3 DEF natpmpAccepts
  <2>6. QED
    BY <1>3, <2>4, <2>5 DEF r, b, natpmpMapping
<1>4. QED
  BY <1>2, <1>3

LEMMA PcpVerdict ==
    ASSUME NEW a, AnswerOK(a), exchange = "mapping", ~NatPmp
    PROVE  LET r == Sized(Layout(a), a.size)
           IN  /\ pcpAccepts(r) <=>
                     /\ a.size # "short" /\ a.version = 2
                     /\ a.opcode = 1 + ResponseFlag /\ a.code = 0
               /\ a.size # "short" =>
                     pcpMapping(r) = [lifetime |-> a.lifetime, nonce |-> a.nonce,
                                      proto |-> a.proto, internal |-> a.internal,
                                      external |-> a.external, address |-> Unmap4(a.address)]
<1> DEFINE b == Layout(a)
           r == Sized(b, a.size)
<1>1. /\ b \in Seq(Byte) /\ Len(b) = 60 /\ At(b, 0, U8(a.version)) /\ At(b, 1, U8(a.opcode))
      /\ At(b, 3, U8(a.code)) /\ At(b, 4, U32(a.lifetime)) /\ At(b, 24, a.nonce)
      /\ At(b, 36, U8(a.proto)) /\ At(b, 40, U16(a.internal))
      /\ At(b, 42, U16(a.external)) /\ At(b, 44, a.address)
  BY PcpAnswer DEF Piece
<1> HIDE DEF b
<1>2. CASE a.size = "short"
  <2>1. Len(b) >= 12
    BY <1>1
  <2>2. Len(Sized(b, "short")) = 8
    BY <1>1, <2>1, Short
  <2>3. Len(r) = 8
    BY <1>2, <2>2
  <2> HIDE DEF r
  <2>4. ~(Len(r) >= 60)
    BY <2>3
  <2>5. ~pcpAccepts(r)
    BY <2>4, Zenon DEF pcpAccepts
  <2>6. QED
    BY <1>2, <2>5, Zenon DEF r, b
<1>3. CASE a.size # "short"
  <2>1. /\ r \in Seq(Byte) /\ Len(r) >= 60 /\ At(r, 0, U8(a.version)) /\ At(r, 1, U8(a.opcode))
        /\ At(r, 3, U8(a.code)) /\ At(r, 4, U32(a.lifetime)) /\ At(r, 24, a.nonce)
        /\ At(r, 36, U8(a.proto)) /\ At(r, 40, U16(a.internal))
        /\ At(r, 42, U16(a.external)) /\ At(r, 44, a.address)
    <3>1. /\ r \in Seq(Byte) /\ Len(r) >= Len(b)
          /\ \A at, x : At(b, at, x) => At(r, at, x)
      BY <1>1, <1>3, NotShort
    <3>2. Len(r) >= 60
      <4> HIDE DEF r
      <4>1. QED
        BY <1>1, <3>1
    <3>3. \A at, x : At(b, at, x) => At(r, at, x)
      BY <3>1
    <3>4. At(r, 0, U8(a.version)) /\ At(r, 1, U8(a.opcode)) /\ At(r, 3, U8(a.code))
      <4>1. At(b, 0, U8(a.version)) /\ At(b, 1, U8(a.opcode)) /\ At(b, 3, U8(a.code))
        BY <1>1
      <4> HIDE DEF r
      <4>2. QED
        BY <3>3, <4>1, Zenon
    <3>5. At(r, 4, U32(a.lifetime)) /\ At(r, 24, a.nonce) /\ At(r, 36, U8(a.proto))
      <4>1. At(b, 4, U32(a.lifetime)) /\ At(b, 24, a.nonce) /\ At(b, 36, U8(a.proto))
        BY <1>1
      <4> HIDE DEF r
      <4>2. QED
        BY <3>3, <4>1, Zenon
    <3>6. /\ At(r, 40, U16(a.internal)) /\ At(r, 42, U16(a.external))
          /\ At(r, 44, a.address)
      <4>1. /\ At(b, 40, U16(a.internal)) /\ At(b, 42, U16(a.external))
            /\ At(b, 44, a.address)
        BY <1>1
      <4> HIDE DEF r
      <4>2. QED
        BY <3>3, <4>1, Zenon
    <3>7. QED
      BY <3>1, <3>2, <3>4, <3>5, <3>6
  <2> HIDE DEF r
  <2>2. a.version \in Byte /\ a.opcode \in Byte /\ a.code \in Byte /\ a.proto \in Byte
    BY SmallBytes DEF AnswerOK
  <2>3. /\ Get8(r, 0) = a.version /\ Get8(r, 1) = a.opcode
        /\ Get8(r, 3) = a.code /\ Get8(r, 36) = a.proto
    BY <2>1, <2>2, ReadByte
  <2>4. Get16(r, 40) = a.internal /\ Get16(r, 42) = a.external /\ Get32(r, 4) = a.lifetime
    BY <2>1, ReadTwo, ReadFour DEF AnswerOK
  <2>5. Bytes(r, 24, 36) = a.nonce
    <3>1. a.nonce \in [1 .. 12 -> Byte] /\ 12 \in Nat
      BY DEF AnswerOK
    <3>2. Len(a.nonce) = 12
      BY <3>1, Tuple DEF Piece
    <3>3. 36 = 24 + Len(a.nonce) /\ At(r, 24, a.nonce)
      BY <2>1, <3>2
    <3>4. QED
      BY <3>3, ReadBytes
  <2>6. Bytes(r, 44, 60) = a.address
    <3>1. a.address \in [1 .. 16 -> Byte] /\ 16 \in Nat
      BY DEF AnswerOK
    <3>2. Len(a.address) = 16
      BY <3>1, Tuple DEF Piece
    <3>3. 60 = 44 + Len(a.address) /\ At(r, 44, a.address)
      BY <2>1, <3>2
    <3>4. QED
      BY <3>3, ReadBytes
  <2>7. pcpAccepts(r) <=>
            a.version = 2 /\ a.opcode = 1 + ResponseFlag /\ a.code = 0
    BY <2>1, <2>3 DEF pcpAccepts
  <2>8. QED
    BY <1>3, <2>3, <2>4, <2>5, <2>6, <2>7 DEF r, b, pcpMapping
<1>4. QED
  BY <1>2, <1>3
-----------------------------------------------------------------------------
(* What the gateway reads *)

LEMMA CallFacts ==
    ASSUME call \in Calls
    PROVE  /\ call.client \in {"natpmp", "pcp"} /\ call.op \in {"map", "unmap", "external"}
           /\ req.internal \in 0 .. Word - 1 /\ req.external \in 0 .. Word - 1
           /\ req.lease \in Int
           /\ 0 \in 0 .. Word - 1 /\ 0 \in 0 .. Long - 1
BY WireAssumption, Sizes DEF req

\* The whole of a lease that Validate lets through fits in 32 bits of seconds.
LEMMA LifetimeFits ==
    ASSUME call \in Calls, Validate(req)
    PROVE  /\ LifetimeSec(req) \in 0 .. Long - 1 /\ LifetimeSec(req) # 0
           /\ LifetimeSec(req) * Second = Lifetime(req)
<1> DEFINE l == Lifetime(req)
           n == l \div Second
<1>1. Second \in Nat \ {0} /\ Long \in Nat \ {0} /\ (Long - 1) * Second \in Nat
  <2>1. Second \in Nat \ {0} /\ Long \in Nat \ {0}
    BY WireAssumption, Sizes
  <2>2. QED
    BY <2>1
<1>2. l \in 1 .. (Long - 1) * Second /\ l % Second = 0
  <2>1. CASE req.lease <= 0
    <3>1. l = DefaultLease
      BY <2>1 DEF Lifetime
    <3>2. DefaultLease \in Second .. (Long - 1) * Second /\ DefaultLease % Second = 0
      BY WireAssumption
    <3> HIDE DEF l
    <3>3. QED
      BY <1>1, <3>1, <3>2
  <2>2. CASE ~(req.lease <= 0)
    <3>1. l = req.lease
      BY <2>2 DEF Lifetime
    <3>2. req.lease \in Int /\ req.lease <= (Long - 1) * Second /\ req.lease % Second = 0
      BY CallFacts DEF Validate, MaxLease
    <3> HIDE DEF l
    <3>3. QED
      BY <1>1, <2>2, <3>1, <3>2
  <2>3. QED
    BY <2>1, <2>2
<1> HIDE DEF l
<1>3. n \in Nat /\ l = n * Second
  <2>1. l \in Nat
    BY <1>1, <1>2
  <2>2. n \in Nat /\ l = n * Second + (l % Second)
    BY <1>1, <2>1, Divide
  <2> HIDE DEF n
  <2>3. n * Second \in Nat
    BY <1>1, <2>2
  <2>4. QED
    BY <1>2, <2>2, <2>3
<1> HIDE DEF n
<1>4. n \in 1 .. Long - 1
  <2>1. n # 0
    <3>1. n = 0 => n * Second = 0
      BY <1>1
    <3>2. l # 0
      BY <1>2
    <3>3. QED
      BY <1>3, <3>1, <3>2
  <2>2. n <= Long - 1
    BY <1>1, <1>2, <1>3
  <2>3. QED
    BY <1>3, <2>1, <2>2
<1>5. n % Long = n
  BY <1>1, <1>4
<1>6. LifetimeSec(req) = n
  BY <1>5 DEF LifetimeSec, l, n
<1>7. QED
  BY <1>1, <1>3, <1>4, <1>6 DEF l

\* The request of a NAT-PMP exchange for the external address.
LEMMA AddressAsked ==
    ASSUME NatPmp, exchange = "address"
    PROVE  /\ Reads(Request) = [asks |-> "address", opcode |-> 0] /\ Request # Nothing
<1> DEFINE b == encodeExternalAddressRequest
<1>1. Len(b) = 2 /\ Get8(b, 1) = 0
  BY AddressRequest DEF Piece
<1>2. Request = b
  BY DEF Request
<1> HIDE DEF b
<1>3. natpmpReads(b) = [asks |-> "address", opcode |-> 0]
  BY <1>1 DEF natpmpReads
<1>4. b # Nothing
  BY <1>1 DEF Nothing
<1>5. QED
  BY <1>2, <1>3, <1>4 DEF Reads

\* What the daemon means a gateway to read: the mapping, the whole of its lease or no
\* time at all.
Meant ==
    [asks |-> IF call.op = "map" THEN "map" ELSE "unmap",
     internal |-> IF call.op = "external" THEN 0 ELSE req.internal,
     external |-> IF call.op = "map" \/ (~NatPmp /\ call.op = "unmap")
                  THEN req.external ELSE 0,
     lifetime |-> IF call.op = "map" THEN LifetimeSec(req) ELSE 0,
     protocol |-> IF call.op = "external" THEN "tcp" ELSE req.protocol]

LEMMA MeantFits ==
    ASSUME call \in Calls, Checked
    PROVE  /\ Meant.internal \in 0 .. Word - 1 /\ Meant.external \in 0 .. Word - 1
           /\ Meant.lifetime \in 0 .. Long - 1 /\ Meant.protocol \in {"tcp", "udp"}
           /\ Meant.lifetime = 0 <=> call.op # "map"
<1>1. CASE call.op = "external"
  BY <1>1, CallFacts DEF Meant
<1>2. CASE call.op # "external"
  <2>1. Validate(req)
    BY <1>2 DEF Checked
  <2>2. QED
    BY <1>2, <2>1, CallFacts, LifetimeFits DEF Meant, Validate
<1>3. QED
  BY <1>1, <1>2

\* What it asks of a gateway, and what the gateway reads, with NAT-PMP.
LEMMA NatPmpAsked ==
    ASSUME call \in Calls, Checked, NatPmp, exchange = "mapping", call.op # "external"
    PROVE  /\ Request # Nothing
           /\ Reads(Request) = [asks |-> Meant.asks, opcode |-> mapOpcode(Meant.protocol),
                                protocol |-> Meant.protocol, internal |-> Meant.internal,
                                external |-> Meant.external, lifetime |-> Meant.lifetime]
<1> DEFINE m == Meant
           b == natpmpRequest(m.protocol, m.internal, m.external, m.lifetime)
<1>1. Request = b
  BY CallFacts DEF Request, Meant
<1>2. /\ m.internal \in 0 .. Word - 1 /\ m.external \in 0 .. Word - 1
      /\ m.lifetime \in 0 .. Long - 1 /\ m.protocol \in {"tcp", "udp"}
      /\ m.lifetime = 0 <=> call.op # "map"
  BY MeantFits
<1>3. m.asks = IF m.lifetime = 0 THEN "unmap" ELSE "map"
  BY <1>2 DEF Meant
<1> HIDE DEF m
<1>4. /\ Len(b) = 12 /\ Get8(b, 1) = mapOpcode(m.protocol)
      /\ Get16(b, 4) = m.internal /\ Get16(b, 6) = m.external /\ Get32(b, 8) = m.lifetime
  <2>1. /\ m.internal \in 0 .. Word - 1 /\ m.external \in 0 .. Word - 1
        /\ m.lifetime \in 0 .. Long - 1
    BY <1>2
  <2>2. QED
    BY <2>1, NatPmpRequest, Zenon DEF Piece
<1> HIDE DEF b
<1>5. m.protocol = IF Get8(b, 1) = 1 THEN "udp" ELSE "tcp"
  BY <1>2, <1>4 DEF mapOpcode
<1>6. Len(b) # 2 /\ b # Nothing
  <2>1. Len(b) = 12
    BY <1>4
  <2>2. QED
    BY <2>1 DEF Nothing
<1>7. natpmpReads(b) = [asks |-> m.asks, opcode |-> mapOpcode(m.protocol),
                        protocol |-> m.protocol, internal |-> m.internal,
                        external |-> m.external, lifetime |-> m.lifetime]
  BY <1>3, <1>4, <1>5, <1>6 DEF natpmpReads
<1>8. QED
  BY <1>1, <1>6, <1>7 DEF Reads, m

\* And with PCP.
LEMMA PcpAsked ==
    ASSUME call \in Calls, Checked, ~NatPmp, exchange = "mapping"
    PROVE  /\ Request # Nothing
           /\ Reads(Request) = [asks |-> Meant.asks, opcode |-> 1, nonce |-> Nonce,
                                client |-> to16(ClientAddress), protocol |-> Meant.protocol,
                                proto |-> ipProtocol(Meant.protocol),
                                internal |-> Meant.internal, external |-> Meant.external,
                                lifetime |-> Meant.lifetime]
<1> DEFINE m == Meant
           b == pcpRequest(m.protocol, m.internal, m.external, m.lifetime)
<1>1. Request = b
  BY CallFacts DEF Request, Meant
<1>2. /\ m.internal \in 0 .. Word - 1 /\ m.external \in 0 .. Word - 1
      /\ m.lifetime \in 0 .. Long - 1 /\ m.protocol \in {"tcp", "udp"}
      /\ m.lifetime = 0 <=> call.op # "map"
  BY MeantFits
<1>3. m.asks = IF m.lifetime = 0 THEN "unmap" ELSE "map"
  BY <1>2 DEF Meant
<1> HIDE DEF m
<1>4. /\ Len(b) = 60 /\ Get8(b, 1) = 1 /\ Get32(b, 4) = m.lifetime
      /\ Bytes(b, 8, 24) = to16(ClientAddress) /\ Bytes(b, 24, 36) = Nonce
      /\ Get8(b, 36) = ipProtocol(m.protocol)
      /\ Get16(b, 40) = m.internal /\ Get16(b, 42) = m.external
  <2>1. /\ m.internal \in 0 .. Word - 1 /\ m.external \in 0 .. Word - 1
        /\ m.lifetime \in 0 .. Long - 1
    BY <1>2
  <2>2. QED
    <3>1. /\ Piece(b, 60) /\ Get8(b, 1) = 1 /\ Get32(b, 4) = m.lifetime
          /\ Bytes(b, 8, 24) = to16(ClientAddress) /\ Bytes(b, 24, 36) = Nonce
          /\ Get8(b, 36) = ipProtocol(m.protocol)
          /\ Get16(b, 40) = m.internal /\ Get16(b, 42) = m.external
      BY <2>1, PcpRequest
    <3>2. QED
      BY <3>1, Zenon DEF Piece
<1> HIDE DEF b
<1>5. m.protocol = IF Get8(b, 36) = 6 THEN "tcp" ELSE "udp"
  BY <1>2, <1>4 DEF ipProtocol
<1>6. b # Nothing
  <2>1. Len(b) = 60
    BY <1>4
  <2>2. QED
    BY <2>1 DEF Nothing
<1>7. pcpReads(b) = [asks |-> m.asks, opcode |-> 1, nonce |-> Nonce,
                     client |-> to16(ClientAddress), protocol |-> m.protocol,
                     proto |-> ipProtocol(m.protocol), internal |-> m.internal,
                     external |-> m.external, lifetime |-> m.lifetime]
  BY <1>3, <1>4, <1>5 DEF pcpReads
<1>8. QED
  BY <1>1, <1>6, <1>7 DEF Reads, m
-----------------------------------------------------------------------------
(* What the gateway answers *)

AnswerType ==
    [version : Byte, opcode : Byte, code : 0 .. 2, internal : 0 .. Word - 1,
     external : 0 .. Word - 1, lifetime : 0 .. Long - 1, epoch : 0 .. Long - 1,
     address : [1 .. 16 -> Byte], nonce : [1 .. 12 -> Byte], proto : Byte,
     size : {"exact", "longer", "short"}, odd : BOOLEAN]

\* A call is in one of its exchanges, with a request that the client has checked.
Asking ==
    /\ call \in Calls /\ Checked /\ exchange \in {"mapping", "address"}
    /\ exchange = "address" => NatPmp
    /\ NatPmp /\ exchange = "mapping" => call.op # "external"

Due ==
    IF ~NatPmp THEN 1 ELSE IF exchange = "address" THEN 0 ELSE mapOpcode(Meant.protocol)

\* Nothing in an answer is other than the request makes it.
ByTheBook(a) ==
    /\ a.size # "short" /\ a.version = (IF NatPmp THEN 0 ELSE 2)
    /\ a.opcode = Due + ResponseFlag /\ a.code = 0
    /\ exchange = "mapping" => a.internal = Meant.internal
    /\ ~NatPmp => a.nonce = Nonce /\ a.proto = ipProtocol(Meant.protocol)

LEMMA TypeIsOK ==
    ASSUME NEW a \in AnswerType
    PROVE  AnswerOK(a) /\ a # NoAnswer /\ a # Unanswered
<1>1. AnswerOK(a)
  BY DEF AnswerType, AnswerOK
<1>2. "odd" \in DOMAIN a
  BY DEF AnswerType
<1>3. "odd" \notin DOMAIN NoAnswer /\ "odd" \notin DOMAIN Unanswered
  BY DEF NoAnswer, Unanswered
<1>4. QED
  BY <1>1, <1>2, <1>3

LEMMA DueFits ==
    /\ Due \in Nat /\ Due <= 2 /\ Due + ResponseFlag \in Byte
    /\ (Due + ResponseFlag + 1) % Base # Due + ResponseFlag
    /\ (Due + ResponseFlag + 1) % Base \in Byte
<1>1. Due \in 0 .. 2
  BY DEF Due, mapOpcode
<1>2. ResponseFlag \in Nat /\ ResponseFlag + 3 < Base /\ Base \in Nat
  BY Sizes
<1>3. Due + ResponseFlag + 1 \in 0 .. Base - 1
  BY <1>1, <1>2
<1>4. (Due + ResponseFlag + 1) % Base = Due + ResponseFlag + 1
  BY <1>1, <1>2, <1>3
<1>5. QED
  BY <1>1, <1>2, <1>3, <1>4 DEF Byte

LEMMA RightFacts ==
    ASSUME Asking, NEW right \in Right(Reads(Request))
    PROVE  right \in AnswerType /\ ByTheBook(right) /\ right.odd = FALSE
<1> DEFINE rd == Reads(Request)
           p  == ipProtocol(Meant.protocol)
<1>1. /\ Meant.internal \in 0 .. Word - 1 /\ 0 \in 0 .. Word - 1 /\ 0 \in 0 .. Long - 1
      /\ Long - 1 \in 0 .. Long - 1
  BY MeantFits, Sizes DEF Asking
<1>2. /\ rd.opcode = Due
      /\ exchange = "mapping" => rd.internal = Meant.internal /\ rd.asks # "address"
      /\ exchange = "address" => rd.asks = "address" /\ NatPmp
      /\ ~NatPmp => rd.nonce = Nonce /\ rd.proto = p /\ exchange = "mapping"
  <2>1. CASE exchange = "address"
    <3>1. rd = [asks |-> "address", opcode |-> 0] /\ NatPmp
      BY <2>1, AddressAsked DEF Asking
    <3>2. Due = 0
      BY <2>1, <3>1 DEF Due
    <3> HIDE DEF rd
    <3>3. QED
      BY <2>1, <3>1, <3>2
  <2>2. CASE exchange = "mapping" /\ NatPmp
    <3>1. rd = [asks |-> Meant.asks, opcode |-> mapOpcode(Meant.protocol),
                protocol |-> Meant.protocol, internal |-> Meant.internal,
                external |-> Meant.external, lifetime |-> Meant.lifetime]
      BY <2>2, NatPmpAsked DEF Asking
    <3>2. Due = mapOpcode(Meant.protocol) /\ Meant.asks # "address"
      BY <2>2 DEF Due, Meant
    <3> HIDE DEF rd
    <3>3. QED
      BY <2>2, <3>1, <3>2
  <2>3. CASE exchange = "mapping" /\ ~NatPmp
    <3>1. rd = [asks |-> Meant.asks, opcode |-> 1, nonce |-> Nonce,
                client |-> to16(ClientAddress), protocol |-> Meant.protocol,
                proto |-> ipProtocol(Meant.protocol),
                internal |-> Meant.internal, external |-> Meant.external,
                lifetime |-> Meant.lifetime]
      BY <2>3, PcpAsked DEF Asking
    <3>2. Due = 1 /\ Meant.asks # "address"
      BY <2>3 DEF Due, Meant
    <3> HIDE DEF rd
    <3>3. QED
      BY <2>3, <3>1, <3>2
  <2>4. QED
    BY <2>1, <2>2, <2>3 DEF Asking
<1>3. /\ right.version = (IF NatPmp THEN 0 ELSE 2) /\ right.opcode = Due + ResponseFlag
      /\ right.code = 0
      /\ right.internal = (IF exchange = "address" THEN 0 ELSE Meant.internal)
      /\ right.nonce = Nonce /\ right.proto = (IF NatPmp THEN 6 ELSE p)
      /\ right.size \in {"exact", "longer"} /\ right.odd = FALSE
  <2>1. right \in Right(rd)
    OBVIOUS
  <2> HIDE DEF rd
  <2>2. QED
    BY <1>2, <2>1 DEF Right, Asking
<1>4. /\ right.external \in 0 .. Word - 1 /\ right.lifetime \in 0 .. Long - 1
      /\ right.epoch \in 0 .. Long - 1 /\ right.address \in [1 .. 16 -> Byte]
  <2>1. right \in Right(rd)
    OBVIOUS
  <2>2. /\ Ports \subseteq 0 .. Word - 1 /\ Lifetimes \subseteq 0 .. Long - 1
        /\ Externals \subseteq [1 .. 16 -> Byte]
    BY WireAssumption
  <2> HIDE DEF rd
  <2>3. QED
    BY <1>1, <2>1, <2>2 DEF Right
<1>5. /\ right.version \in Byte /\ right.opcode \in Byte /\ right.nonce \in [1 .. 12 -> Byte]
      /\ right.proto \in Byte /\ right.internal \in 0 .. Word - 1
  <2>1. 0 \in Byte /\ 2 \in Byte /\ 6 \in Byte /\ p \in Byte
    BY SmallBytes DEF ipProtocol
  <2>2. Nonce \in [1 .. 12 -> Byte]
    BY WireAssumption
  <2>3. QED
    BY <1>1, <1>3, <2>1, <2>2, DueFits
<1>6. right \in AnswerType
  <2>1. /\ right.code \in 0 .. 2 /\ right.odd \in BOOLEAN
        /\ right.size \in {"exact", "longer", "short"}
    <3>1. right.code = 0 /\ right.odd = FALSE /\ right.size \in {"exact", "longer"}
      BY <1>3
    <3>2. 0 \in 0 .. 2
      OBVIOUS
    <3>3. QED
      BY <3>1, <3>2, Zenon
  <2>2. right = [version |-> right.version, opcode |-> right.opcode, code |-> right.code,
                 internal |-> right.internal, external |-> right.external,
                 lifetime |-> right.lifetime, epoch |-> right.epoch,
                 address |-> right.address, nonce |-> right.nonce, proto |-> right.proto,
                 size |-> right.size, odd |-> right.odd]
    BY DEF Right
  <2>3. QED
    BY <1>4, <1>5, <2>1, <2>2 DEF AnswerType
<1>7. ByTheBook(right)
  BY <1>3 DEF ByTheBook
<1>8. QED
  BY <1>3, <1>6, <1>7
\* 16 bits that a higher byte was changed in are not what they were.
LEMMA Changed ==
    ASSUME NEW v \in 0 .. Word - 1
    PROVE  (v + Base) % Word # v /\ (v + Base) % Word \in 0 .. Word - 1
<1>1. Base \in Nat /\ Word \in Nat /\ 0 < Base /\ 2 * Base < Word /\ v \in Nat /\ v < Word
  BY Sizes
<1>2. CASE v + Base < Word
  <2>1. v + Base \in 0 .. Word - 1
    BY <1>1, <1>2
  <2>2. (v + Base) % Word = v + Base
    BY <1>1, <2>1
  <2>3. QED
    BY <1>1, <2>1, <2>2
<1>3. CASE ~(v + Base < Word)
  <2> DEFINE r == v + Base - Word
  <2>1. r \in 0 .. Word - 1 /\ r # v /\ v + Base = 1 * Word + r
    BY <1>1, <1>3
  <2>2. (1 * Word + r) % Word = r
    BY <1>1, <2>1, DivideUnique
  <2>3. QED
    BY <2>1, <2>2
<1>4. QED
  BY <1>2, <1>3

\* The client sees every one of the gateway's slips.
LEMMA OddFacts ==
    ASSUME Asking, NEW right \in Right(Reads(Request)), NEW a \in Odd(right)
    PROVE  /\ a \in AnswerType /\ ~ByTheBook(a) /\ a.odd = TRUE
           /\ a.external = right.external /\ a.lifetime = right.lifetime
<1> DEFINE p == ipProtocol(Meant.protocol)
<1>1. right \in AnswerType /\ ByTheBook(right)
  BY RightFacts
<1>2. /\ right.version = (IF NatPmp THEN 0 ELSE 2) /\ right.opcode = Due + ResponseFlag
      /\ exchange = "mapping" => right.internal = Meant.internal
      /\ ~NatPmp => right.nonce = Nonce /\ right.proto = p
  BY <1>1 DEF ByTheBook
<1>3. CASE a = [right EXCEPT !.odd = TRUE, !.version = (@ + 1) % Base]
  <2>1. /\ (right.version + 1) % Base = right.version + 1 /\ right.version + 1 \in Byte
        /\ right.version \in Nat
    BY <1>2, Sizes DEF Byte
  <2>2. a \in AnswerType /\ a.odd = TRUE /\ a.version = right.version + 1
    BY <1>1, <1>3, <2>1 DEF AnswerType
  <2>3. a.version # (IF NatPmp THEN 0 ELSE 2)
    BY <1>2, <2>1, <2>2
  <2>4. a.external = right.external /\ a.lifetime = right.lifetime
    BY <1>1, <1>3 DEF AnswerType
  <2>5. QED
    BY <2>2, <2>3, <2>4 DEF ByTheBook
<1>4. CASE a = [right EXCEPT !.odd = TRUE, !.opcode = (@ + 1) % Base]
  <2>1. (right.opcode + 1) % Base # right.opcode /\ (right.opcode + 1) % Base \in Byte
    BY <1>2, DueFits
  <2>2. a \in AnswerType /\ a.odd = TRUE /\ a.opcode = (right.opcode + 1) % Base
    BY <1>1, <1>4, <2>1 DEF AnswerType
  <2>3. a.opcode # Due + ResponseFlag
    BY <1>2, <2>1, <2>2
  <2>4. a.external = right.external /\ a.lifetime = right.lifetime
    BY <1>1, <1>4 DEF AnswerType
  <2>5. QED
    BY <2>2, <2>3, <2>4 DEF ByTheBook
<1>5. CASE a = [right EXCEPT !.odd = TRUE, !.opcode = @ - ResponseFlag]
  <2>1. right.opcode - ResponseFlag = Due /\ Due \in Byte /\ Due # Due + ResponseFlag
    BY <1>2, DueFits, Sizes DEF Byte
  <2>2. a \in AnswerType /\ a.odd = TRUE /\ a.opcode = right.opcode - ResponseFlag
    BY <1>1, <1>5, <2>1 DEF AnswerType
  <2>3. a.opcode # Due + ResponseFlag
    BY <2>1, <2>2
  <2>4. a.external = right.external /\ a.lifetime = right.lifetime
    BY <1>1, <1>5 DEF AnswerType
  <2>5. QED
    BY <2>2, <2>3, <2>4 DEF ByTheBook
<1>6. CASE a = [right EXCEPT !.odd = TRUE, !.code = 2]
  <2>1. a \in AnswerType /\ a.odd = TRUE /\ a.code = 2
    <3> DEFINE n == 2
    <3>1. n \in 0 .. 2
      OBVIOUS
    <3>2. a = [right EXCEPT !.odd = TRUE, !.code = n] /\ n = 2
      BY <1>6
    <3> HIDE DEF n
    <3>3. a \in AnswerType /\ a.odd = TRUE /\ a.code = n
      BY <1>1, <3>1, <3>2 DEF AnswerType
    <3>4. QED
      BY <3>2, <3>3
  <2>2. a.external = right.external /\ a.lifetime = right.lifetime
    BY <1>1, <1>6 DEF AnswerType
  <2>3. a.code # 0
    BY <2>1
  <2>4. QED
    BY <2>1, <2>2, <2>3 DEF ByTheBook
<1>7. CASE a = [right EXCEPT !.odd = TRUE, !.size = "short"]
  <2>1. a \in AnswerType /\ a.odd = TRUE /\ a.size = "short"
    BY <1>1, <1>7 DEF AnswerType
  <2>2. a.external = right.external /\ a.lifetime = right.lifetime
    BY <1>1, <1>7 DEF AnswerType
  <2>3. QED
    BY <2>1, <2>2 DEF ByTheBook
<1>8. CASE exchange = "mapping" /\ a = [right EXCEPT !.odd = TRUE, !.internal = (@ + Base) % Word]
  <2>1. /\ (right.internal + Base) % Word # right.internal
        /\ (right.internal + Base) % Word \in 0 .. Word - 1
    <3>1. right.internal \in 0 .. Word - 1
      BY <1>1 DEF AnswerType
    <3>2. QED
      BY <3>1, Changed
  <2>2. a \in AnswerType /\ a.odd = TRUE /\ a.internal = (right.internal + Base) % Word
    BY <1>1, <1>8, <2>1 DEF AnswerType
  <2>3. a.internal # Meant.internal
    BY <1>2, <1>8, <2>1, <2>2
  <2>4. a.external = right.external /\ a.lifetime = right.lifetime
    BY <1>1, <1>8 DEF AnswerType
  <2>5. QED
    BY <1>8, <2>2, <2>3, <2>4 DEF ByTheBook
<1>9. CASE ~NatPmp /\ a = [right EXCEPT !.odd = TRUE, !.nonce[12] = (@ + 1) % Base]
  <2> DEFINE c == right.nonce[12]
             n == [right.nonce EXCEPT ![12] = (c + 1) % Base]
  <2>1. right.nonce \in [1 .. 12 -> Byte] /\ c \in 0 .. Base - 1 /\ Base \in Nat /\ Base > 17
    BY <1>1, Sizes DEF AnswerType, Byte
  <2>2. (c + 1) % Base \in Byte /\ (c + 1) % Base # c
    <3> HIDE DEF c
    <3>1. CASE c = Base - 1
      <4>1. (c + 1) % Base = 0
        BY <2>1, <3>1
      <4>2. QED
        BY <2>1, <3>1, <4>1 DEF Byte
    <3>2. CASE c # Base - 1
      <4>1. (c + 1) % Base = c + 1
        BY <2>1, <3>2
      <4>2. QED
        BY <2>1, <3>2, <4>1 DEF Byte
    <3>3. QED
      BY <3>1, <3>2
  <2>3. n \in [1 .. 12 -> Byte] /\ n[12] # right.nonce[12]
    BY <2>1, <2>2
  <2>4. a = [[right EXCEPT !.odd = TRUE] EXCEPT !.nonce = n]
    BY <1>1, <1>9 DEF AnswerType
  <2> HIDE DEF n, c
  <2>5. a \in AnswerType /\ a.odd = TRUE /\ a.nonce = n
    BY <1>1, <2>3, <2>4 DEF AnswerType
  <2>6. a.external = right.external /\ a.lifetime = right.lifetime
    BY <1>1, <2>4 DEF AnswerType
  <2>7. a.nonce # Nonce
    BY <1>2, <1>9, <2>3, <2>5
  <2>8. QED
    BY <1>9, <2>5, <2>6, <2>7 DEF ByTheBook
<1>10. CASE ~NatPmp /\ a = [right EXCEPT !.odd = TRUE, !.proto = 23 - @]
  <2>1. 23 - right.proto \in Byte /\ 23 - right.proto # right.proto
    <3>1. right.proto = 6 \/ right.proto = 17
      BY <1>2, <1>10 DEF ipProtocol
    <3>2. 6 \in Byte /\ 17 \in Byte
      BY SmallBytes
    <3>3. QED
      BY <3>1, <3>2
  <2>2. a \in AnswerType /\ a.odd = TRUE /\ a.proto = 23 - right.proto
    BY <1>1, <1>10, <2>1 DEF AnswerType
  <2>3. a.proto # p
    BY <1>2, <1>10, <2>1, <2>2
  <2>4. a.external = right.external /\ a.lifetime = right.lifetime
    BY <1>1, <1>10 DEF AnswerType
  <2>5. QED
    BY <1>10, <2>2, <2>3, <2>4 DEF ByTheBook
<1>11. QED
  BY <1>3, <1>4, <1>5, <1>6, <1>7, <1>8, <1>9, <1>10 DEF Odd, Asking
\* An answer that a gateway may give to the request.
Said(a) == \E right \in Right(Reads(Request)) : a \in {right} \cup Odd(right)

LEMMA SaidFacts ==
    ASSUME Asking, NEW a, Said(a)
    PROVE  /\ a \in AnswerType /\ AnswerOK(a) /\ a # NoAnswer /\ a # Unanswered
           /\ ByTheBook(a) <=> ~a.odd
<1>1. PICK right \in Right(Reads(Request)) : a \in {right} \cup Odd(right)
  BY DEF Said
<1>2. CASE a = right
  BY <1>2, RightFacts, TypeIsOK
<1>3. CASE a \in Odd(right)
  BY <1>3, OddFacts, TypeIsOK
<1>4. QED
  BY <1>1, <1>2, <1>3

-----------------------------------------------------------------------------
(* What the client takes *)

Datagram(a) == Sized(Layout(a), a.size)

LEMMA AddressTaken ==
    ASSUME Asking, exchange = "address", NEW a, Said(a)
    PROVE  /\ natpmpAccepts(Datagram(a), 0, 12) <=> ~a.odd
           /\ ~a.odd => natpmpAddress(Datagram(a)) = Bytes(a.address, 12, 16)
<1>1. AnswerOK(a) /\ (ByTheBook(a) <=> ~a.odd)
  BY SaidFacts
<1>2. /\ natpmpAccepts(Datagram(a), 0, 12) <=>
            /\ a.size # "short" /\ a.version = 0
            /\ a.opcode = ResponseFlag /\ a.code = 0
      /\ a.size # "short" => natpmpAddress(Datagram(a)) = Bytes(a.address, 12, 16)
  BY <1>1, AddressVerdict DEF Datagram
<1>3. Due + ResponseFlag = ResponseFlag /\ NatPmp
  BY Sizes DEF Due, Asking
<1>4. ByTheBook(a) <=>
          /\ a.size # "short" /\ a.version = 0
          /\ a.opcode = ResponseFlag /\ a.code = 0
  BY <1>3, Zenon DEF ByTheBook
<1>5. QED
  BY <1>1, <1>2, <1>4, Zenon

LEMMA MappingTaken ==
    ASSUME Asking, exchange = "mapping", NatPmp, NEW a, Said(a)
    PROVE  LET m == natpmpMapping(Datagram(a))
           IN  /\ /\ natpmpAccepts(Datagram(a), mapOpcode(req.protocol), 16)
                  /\ m.internal = req.internal
                  <=> ~a.odd
               /\ ~a.odd => m = [internal |-> req.internal, external |-> a.external,
                                 lifetime |-> a.lifetime]
<1> DEFINE m == natpmpMapping(Datagram(a))
           op == mapOpcode(req.protocol)
<1>1. AnswerOK(a) /\ (ByTheBook(a) <=> ~a.odd)
  BY SaidFacts
<1>2. /\ natpmpAccepts(Datagram(a), op, 16) <=>
            /\ a.size # "short" /\ a.version = 0
            /\ a.opcode = op + ResponseFlag /\ a.code = 0
      /\ a.size # "short" =>
            m = [internal |-> a.internal, external |-> a.external, lifetime |-> a.lifetime]
  BY <1>1, NatPmpVerdict DEF Datagram
<1>3. Due = op /\ Meant.internal = req.internal
  BY DEF Due, Meant, Asking
<1>4. ByTheBook(a) <=>
          /\ a.size # "short" /\ a.version = 0
          /\ a.opcode = op + ResponseFlag /\ a.code = 0 /\ a.internal = req.internal
  BY <1>3 DEF ByTheBook
<1> HIDE DEF m, op
<1>5. /\ natpmpAccepts(Datagram(a), op, 16) /\ m.internal = req.internal <=> ~a.odd
      /\ ~a.odd => m = [internal |-> req.internal, external |-> a.external,
                        lifetime |-> a.lifetime]
  BY <1>1, <1>2, <1>4
<1>6. QED
  BY <1>5 DEF m, op

LEMMA PcpTaken ==
    ASSUME Asking, exchange = "mapping", ~NatPmp, NEW a, Said(a)
    PROVE  LET m == pcpMapping(Datagram(a))
           IN  /\ pcpAccepts(Datagram(a)) /\ Matches(m) <=> ~a.odd
               /\ ~a.odd => /\ m.internal = Meant.internal /\ m.external = a.external
                            /\ m.lifetime = a.lifetime /\ m.address = Unmap4(a.address)
<1> DEFINE m == pcpMapping(Datagram(a))
<1>1. AnswerOK(a) /\ (ByTheBook(a) <=> ~a.odd)
  BY SaidFacts
<1>2. /\ pcpAccepts(Datagram(a)) <=>
            /\ a.size # "short" /\ a.version = 2
            /\ a.opcode = 1 + ResponseFlag /\ a.code = 0
      /\ a.size # "short" =>
            m = [lifetime |-> a.lifetime, nonce |-> a.nonce,
                 proto |-> a.proto, internal |-> a.internal,
                 external |-> a.external, address |-> Unmap4(a.address)]
  BY <1>1, PcpVerdict DEF Datagram
<1>3. Due = 1
  BY DEF Due
<1>4. ByTheBook(a) <=>
          /\ a.size # "short" /\ a.version = 2
          /\ a.opcode = 1 + ResponseFlag /\ a.code = 0 /\ a.internal = Meant.internal
          /\ a.nonce = Nonce /\ a.proto = ipProtocol(Meant.protocol)
  BY <1>3 DEF ByTheBook
<1> HIDE DEF m
<1>5. Matches(m) <=> /\ m.nonce = Nonce /\ m.proto = ipProtocol(Meant.protocol)
                     /\ m.internal = Meant.internal
  BY DEF Matches, Meant
<1>6. /\ pcpAccepts(Datagram(a)) /\ Matches(m) <=> ~a.odd
      /\ ~a.odd => /\ m.internal = Meant.internal /\ m.external = a.external
                   /\ m.lifetime = a.lifetime /\ m.address = Unmap4(a.address)
  BY <1>1, <1>2, <1>4, <1>5
<1>7. QED
  BY <1>6 DEF m
-----------------------------------------------------------------------------
(* The inductive invariant *)

\* Where a call can be.
Phase ==
    /\ call \in Calls
    /\ answer = [x \in {"mapping", "address"} |-> answer[x]]
    /\ outcome = Running => exchange \in {"mapping", "address"}
    /\ outcome # Running => sent = Nothing /\ received = Nothing
    /\ sent # Nothing => received = Nothing
    /\ sent # Nothing \/ received # Nothing => Checked
    /\ exchange = "address" => NatPmp /\ (call.op = "external" \/ (call.op = "map" /\ Checked))
    /\ exchange = "mapping" /\ NatPmp => call.op # "external"

\* The datagrams on the way are the client's request and the gateway's answer.
Genuine ==
    /\ sent # Nothing => sent = Request
    /\ received # Nothing => LET a == answer[exchange] IN Said(a) /\ received = Datagram(a)

\* A Map that goes on to the address has been granted its mapping.
Kept ==
    exchange = "address" /\ call.op = "map" =>
        LET m == answer["mapping"]
        IN  /\ ~m.odd /\ m.external # 0 /\ m.lifetime # 0
            /\ granted = [internal |-> req.internal, external |-> m.external,
                          lifetime |-> m.lifetime]

WInv == Phase /\ Genuine /\ Kept /\ LeaseIsWhatWasGranted /\ GoodAnswerTaken

\* Nothing that is asked or answered depends on more than the call and its exchange.
LEMMA Same ==
    ASSUME call' = call, exchange' = exchange
    PROVE  /\ NatPmp' = NatPmp /\ req' = req /\ Checked' = Checked /\ Request' = Request
           /\ \A a : Datagram(a)' = Datagram(a) /\ Said(a)' = Said(a)
<1>1. NatPmp' = NatPmp /\ req' = req
  BY DEF NatPmp, req
<1>2. Checked' = Checked
  BY <1>1 DEF Checked
<1>3. Request' = Request
  BY <1>1 DEF Request
<1>4. ASSUME NEW a PROVE Datagram(a)' = Datagram(a)
  BY <1>1 DEF Datagram, Sized, Layout
<1>5. ASSUME NEW b PROVE Reads(b)' = Reads(b)
  BY <1>1 DEF Reads
<1>6. ASSUME NEW rd PROVE Right(rd)' = Right(rd)
  BY <1>1 DEF Right
<1>7. ASSUME NEW a PROVE Odd(a)' = Odd(a)
  BY <1>1 DEF Odd
<1>8. ASSUME NEW a PROVE Said(a)' = Said(a)
  BY <1>3, <1>5, <1>6, <1>7 DEF Said
<1>9. QED
  BY <1>1, <1>2, <1>3, <1>4, <1>8
LEMMA InitWInv == Init => WInv
<1> SUFFICES ASSUME Init PROVE WInv
  OBVIOUS
<1>1. Phase
  BY DEF Init, Phase, Nothing, Running, NatPmp
<1>2. Genuine /\ Kept
  BY DEF Init, Genuine, Kept, Nothing, NatPmp
<1>3. LeaseIsWhatWasGranted /\ GoodAnswerTaken
  BY DEF Init, LeaseIsWhatWasGranted, GoodAnswerTaken, Running, Error
<1>4. QED
  BY <1>1, <1>2, <1>3 DEF WInv

LEMMA StayInvalid == WInv /\ Invalid => WInv'
<1> SUFFICES ASSUME WInv, Invalid PROVE WInv'
  OBVIOUS
<1>1. /\ outcome = Running /\ sent = Nothing /\ received = Nothing /\ ~Checked
      /\ outcome' = Error /\ exchange' = "over"
      /\ UNCHANGED <<call, sent, answer, received, granted>>
  BY DEF Invalid, Over, Waiting
<1>2. Phase'
  BY <1>1 DEF WInv, Phase, Error, Running
<1>3. Genuine' /\ Kept'
  BY <1>1 DEF Genuine, Kept
<1>4. LeaseIsWhatWasGranted'
  BY <1>1 DEF LeaseIsWhatWasGranted, Error
<1>5. GoodAnswerTaken'
  <2>1. Checked' = Checked
    BY <1>1 DEF Checked, req
  <2>2. QED
    BY <1>1, <2>1 DEF GoodAnswerTaken
<1>6. QED
  BY <1>2, <1>3, <1>4, <1>5 DEF WInv

LEMMA StayAsk == WInv /\ Ask => WInv'
<1> SUFFICES ASSUME WInv, Ask PROVE WInv'
  OBVIOUS
<1>1. /\ outcome = Running /\ sent = Nothing /\ received = Nothing /\ Checked
      /\ sent' = Request
      /\ UNCHANGED <<call, exchange, answer, received, granted, outcome>>
  BY DEF Ask, Waiting
<1>2. /\ NatPmp' = NatPmp /\ req' = req /\ Checked' = Checked /\ Request' = Request
  BY <1>1, Same
<1>3. Phase'
  BY <1>1, <1>2 DEF WInv, Phase
<1>4. Genuine'
  BY <1>1, <1>2 DEF Genuine
<1>5. Kept'
  BY <1>1, <1>2 DEF WInv, Kept
<1>6. LeaseIsWhatWasGranted' /\ GoodAnswerTaken'
  BY <1>1 DEF LeaseIsWhatWasGranted, GoodAnswerTaken, Running, Error
<1>7. QED
  BY <1>3, <1>4, <1>5, <1>6 DEF WInv

LEMMA StayNoReply == WInv /\ NoReply => WInv'
<1> SUFFICES ASSUME WInv, NoReply PROVE WInv'
  OBVIOUS
<1>1. /\ sent # Nothing /\ sent' = Nothing /\ outcome' = Error /\ exchange' = "over"
      /\ answer' = [answer EXCEPT ![exchange] = Unanswered]
      /\ UNCHANGED <<call, received, granted>>
  BY DEF NoReply, Over
<1>2. /\ received = Nothing /\ exchange \in {"mapping", "address"}
      /\ answer = [x \in {"mapping", "address"} |-> answer[x]] /\ call \in Calls
  BY <1>1 DEF WInv, Phase
<1>3. /\ answer' = [x \in {"mapping", "address"} |-> answer'[x]]
      /\ exchange \in DOMAIN answer' /\ answer'[exchange] = Unanswered
  BY <1>1, <1>2
<1>4. Phase'
  BY <1>1, <1>2, <1>3 DEF Phase, Error, Running
<1>5. Genuine' /\ Kept'
  BY <1>1, <1>2 DEF Genuine, Kept
<1>6. LeaseIsWhatWasGranted'
  BY <1>1 DEF LeaseIsWhatWasGranted, Error
<1>7. GoodAnswerTaken'
  <2>1. Unanswered # NoAnswer
    BY DEF Unanswered, NoAnswer
  <2>2. QED
    BY <1>3, <2>1 DEF GoodAnswerTaken
<1>8. QED
  BY <1>4, <1>5, <1>6, <1>7 DEF WInv

LEMMA StayAnswers == WInv /\ Answers => WInv'
<1> SUFFICES ASSUME WInv, Answers PROVE WInv'
  OBVIOUS
<1>1. /\ sent # Nothing /\ sent' = Nothing /\ UNCHANGED <<call, exchange, granted, outcome>>
  BY DEF Answers
<1>2. /\ outcome = Running /\ exchange \in {"mapping", "address"} /\ sent = Request /\ Checked
      /\ answer = [x \in {"mapping", "address"} |-> answer[x]]
  BY <1>1 DEF WInv, Phase, Genuine
<1>3. PICK right \in Right(Reads(sent)) : \E a \in {right} \cup Odd(right) :
          /\ answer' = [answer EXCEPT ![exchange] = a]
          /\ received' = Sized(Layout(a), a.size)
  BY DEF Answers
<1>4. PICK a \in {right} \cup Odd(right) :
          /\ answer' = [answer EXCEPT ![exchange] = a]
          /\ received' = Sized(Layout(a), a.size)
  BY <1>3
<1>5. Said(a) /\ received' = Datagram(a) /\ answer'[exchange] = a
  BY <1>2, <1>4 DEF Said, Datagram
<1>6. /\ NatPmp' = NatPmp /\ req' = req /\ Checked' = Checked
      /\ Datagram(a)' = Datagram(a) /\ Said(a)' = Said(a)
  BY <1>1, Same
<1>7. Phase'
  <2>1. answer' = [x \in {"mapping", "address"} |-> answer'[x]]
    BY <1>2, <1>4
  <2>2. QED
    BY <1>1, <1>2, <1>6, <2>1 DEF WInv, Phase
<1>8. Genuine'
  BY <1>1, <1>5, <1>6 DEF Genuine
<1>9. Kept'
  <2>1. exchange = "address" => answer'["mapping"] = answer["mapping"]
    BY <1>2, <1>4
  <2>2. QED
    BY <1>1, <1>6, <2>1 DEF WInv, Kept
<1>10. LeaseIsWhatWasGranted' /\ GoodAnswerTaken'
  BY <1>1, <1>2 DEF LeaseIsWhatWasGranted, GoodAnswerTaken, Running, Error
<1>11. QED
  BY <1>7, <1>8, <1>9, <1>10 DEF WInv
\* What is known when an answer has come.
Come(a) ==
    /\ a = answer[exchange] /\ Said(a) /\ received = Datagram(a) /\ Asking
    /\ outcome = Running /\ sent = Nothing /\ exchange \in DOMAIN answer
    /\ answer = [x \in {"mapping", "address"} |-> answer[x]]

LEMMA AnswerCome == WInv /\ received # Nothing => \E a : Come(a)
<1> SUFFICES ASSUME WInv, received # Nothing PROVE Come(answer[exchange])
  OBVIOUS
<1>1. Said(answer[exchange]) /\ received = Datagram(answer[exchange])
  BY DEF WInv, Genuine
<1>2. /\ outcome = Running /\ sent = Nothing /\ exchange \in {"mapping", "address"}
      /\ answer = [x \in {"mapping", "address"} |-> answer[x]] /\ Asking
  BY DEF WInv, Phase, Asking
<1>3. exchange \in DOMAIN answer
  BY <1>2
<1>4. QED
  BY <1>1, <1>2, <1>3 DEF Come

\* A call that is over keeps the invariant if its outcome does.
LEMMA StayFinished ==
    ASSUME WInv, NEW a, Come(a), NEW o, o # Running, Finish(o),
           LeaseIsWhatWasGranted', GoodAnswerTaken'
    PROVE  WInv'
<1>1. /\ received' = Nothing /\ outcome' = o /\ exchange' = "over"
      /\ UNCHANGED <<call, sent, answer, granted>>
  BY DEF Finish, Over
<1>2. Phase'
  BY <1>1 DEF WInv, Phase, Come
<1>3. Genuine' /\ Kept'
  BY <1>1 DEF Genuine, Kept, Come
<1>4. QED
  BY <1>2, <1>3 DEF WInv

\* A failure after an answer is the fault of one odd field at least.
LEMMA OddIsExcuse ==
    ASSUME NEW a, Come(a), answer' = answer, a.odd
    PROVE  GoodAnswerTaken'
<1>1. a # NoAnswer
  BY SaidFacts DEF Come
<1>2. exchange \in DOMAIN answer' /\ answer'[exchange] = a
  BY DEF Come
<1>3. QED
  BY <1>1, <1>2 DEF GoodAnswerTaken

LEMMA StayReturnAddress == WInv /\ ReturnAddress => WInv'
<1> SUFFICES ASSUME WInv, ReturnAddress PROVE WInv'
  OBVIOUS
<1>1. PICK a : Come(a)
  BY AnswerCome DEF ReturnAddress
<1> DEFINE ok == natpmpAccepts(received, 0, 12)
           ad == natpmpAddress(received)
           o  == IF ~ok THEN Error
                 ELSE IF call.op = "map" THEN Lease(granted, ad)
                 ELSE [is |-> "address", address |-> ad]
<1>2. NatPmp /\ exchange = "address" /\ Finish(o)
  BY DEF ReturnAddress
<1>3. (ok <=> ~a.odd) /\ (~a.odd => ad = Bytes(a.address, 12, 16))
  BY <1>1, <1>2, AddressTaken DEF Come
<1> HIDE DEF ok, ad
<1>4. o # Running
  BY DEF Error, Running, Lease
<1> HIDE DEF o
<1>5. outcome' = o /\ UNCHANGED <<call, answer, granted>>
  BY <1>2 DEF Finish, Over
<1>6. NatPmp' = NatPmp /\ req' = req
  BY <1>5 DEF NatPmp, req
<1>7. CASE ~ok
  <2>1. outcome' = Error
    BY <1>5, <1>7 DEF o
  <2>2. LeaseIsWhatWasGranted'
    BY <2>1 DEF LeaseIsWhatWasGranted, Error
  <2>3. a.odd
    BY <1>3, <1>7
  <2>4. GoodAnswerTaken'
    BY <1>1, <1>5, <2>3, OddIsExcuse
  <2>5. QED
    BY <1>1, <1>2, <1>4, <2>2, <2>4, StayFinished
<1>8. CASE ok /\ call.op = "map"
  <2>1. outcome' = Lease(granted, ad) /\ ~a.odd /\ answer["address"] = a
    BY <1>1, <1>2, <1>3, <1>5, <1>8 DEF o, Come
  <2>2. /\ ~answer["mapping"].odd /\ answer["mapping"].external # 0
        /\ answer["mapping"].lifetime # 0
        /\ granted = [internal |-> req.internal, external |-> answer["mapping"].external,
                      lifetime |-> answer["mapping"].lifetime]
    BY <1>2, <1>8 DEF WInv, Kept
  <2>3. outcome' = [is |-> "lease", protocol |-> req.protocol, internal |-> req.internal,
                    external |-> answer["mapping"].external,
                    lifetime |-> answer["mapping"].lifetime * Second,
                    address |-> Bytes(a.address, 12, 16)]
    BY <1>3, <2>1, <2>2 DEF Lease
  <2>4. LeaseIsWhatWasGranted'
    BY <1>2, <1>5, <1>6, <2>1, <2>2, <2>3 DEF LeaseIsWhatWasGranted
  <2>5. GoodAnswerTaken'
    BY <2>3 DEF GoodAnswerTaken, Error
  <2>6. QED
    BY <1>1, <1>2, <1>4, <2>4, <2>5, StayFinished
<1>9. CASE ok /\ call.op # "map"
  <2>1. outcome' = [is |-> "address", address |-> ad]
    BY <1>5, <1>9 DEF o
  <2>2. LeaseIsWhatWasGranted' /\ GoodAnswerTaken'
    BY <2>1 DEF LeaseIsWhatWasGranted, GoodAnswerTaken, Error
  <2>3. QED
    BY <1>1, <1>2, <1>4, <2>2, StayFinished
<1>10. QED
  BY <1>7, <1>8, <1>9
LEMMA StayReturnMapping == WInv /\ ReturnMapping => WInv'
<1> SUFFICES ASSUME WInv, ReturnMapping PROVE WInv'
  OBVIOUS
<1>1. PICK a : Come(a)
  BY AnswerCome DEF ReturnMapping
<1> DEFINE m  == natpmpMapping(received)
           ok == /\ natpmpAccepts(received, mapOpcode(req.protocol), 16)
                 /\ m.internal = req.internal
           o  == IF ok /\ call.op = "unmap" THEN Done ELSE Error
<1>2. /\ NatPmp /\ exchange = "mapping" /\ received # Nothing
      /\ IF ok /\ call.op = "map" /\ Given(m)
         THEN /\ granted' = m /\ exchange' = "address" /\ received' = Nothing
              /\ UNCHANGED <<call, sent, answer, outcome>>
         ELSE Finish(o)
  BY DEF ReturnMapping
<1>3. /\ ok <=> ~a.odd
      /\ ~a.odd => m = [internal |-> req.internal, external |-> a.external,
                        lifetime |-> a.lifetime]
  <2>1. Asking /\ Said(a) /\ received = Datagram(a)
    BY <1>1 DEF Come
  <2>2. QED
    BY <1>2, <2>1, MappingTaken
<1> HIDE DEF m, ok
<1>4. o # Running
  BY DEF Error, Running, Done
<1>5. /\ call \in Calls /\ call.op \in {"map", "unmap"} /\ answer["mapping"] = a /\ Checked
  BY <1>1, <1>2, CallFacts DEF Come, Asking
<1>6. CASE ok /\ call.op = "map" /\ Given(m)
  <2>1. /\ granted' = m /\ exchange' = "address" /\ received' = Nothing
        /\ UNCHANGED <<call, sent, answer, outcome>>
    BY <1>2, <1>6
  <2>2. NatPmp' = NatPmp /\ req' = req /\ Checked' = Checked
    BY <2>1 DEF NatPmp, req, Checked
  <2>3. Phase'
    BY <1>1, <1>2, <1>5, <1>6, <2>1, <2>2 DEF WInv, Phase, Come
  <2>4. Genuine'
    BY <1>1, <2>1 DEF Genuine, Come
  <2>5. Kept'
    BY <1>3, <1>5, <1>6, <2>1, <2>2 DEF Kept, Given
  <2>6. LeaseIsWhatWasGranted' /\ GoodAnswerTaken'
    BY <1>1, <2>1 DEF LeaseIsWhatWasGranted, GoodAnswerTaken, Running, Error, Come
  <2>7. QED
    BY <2>3, <2>4, <2>5, <2>6 DEF WInv
<1>7. CASE ~(ok /\ call.op = "map" /\ Given(m))
  <2>1. Finish(o) /\ outcome' = o /\ UNCHANGED <<call, answer>>
    BY <1>2, <1>7 DEF Finish, Over
  <2>2. LeaseIsWhatWasGranted'
    BY <2>1 DEF LeaseIsWhatWasGranted, Done, Error
  <2>3. CASE ~ok
    <3>1. GoodAnswerTaken'
      BY <1>1, <1>3, <2>1, <2>3, OddIsExcuse
    <3>2. QED
      BY <1>1, <1>4, <2>1, <2>2, <3>1, StayFinished
  <2>4. CASE ok /\ call.op = "map"
    <3>1. a.external = 0 \/ a.lifetime = 0
      BY <1>3, <1>7, <2>4 DEF Given
    <3>2. GoodAnswerTaken'
      BY <1>5, <2>1, <2>4, <3>1 DEF GoodAnswerTaken
    <3>3. QED
      BY <1>1, <1>4, <2>1, <2>2, <3>2, StayFinished
  <2>5. CASE ok /\ call.op = "unmap"
    <3>1. GoodAnswerTaken'
      BY <2>1, <2>5 DEF GoodAnswerTaken, Done, Error
    <3>2. QED
      BY <1>1, <1>4, <2>1, <2>2, <3>1, StayFinished
  <2>6. QED
    BY <1>5, <2>3, <2>4, <2>5
<1>8. QED
  BY <1>6, <1>7

LEMMA StayReturnPcp == WInv /\ ReturnPcp => WInv'
<1> SUFFICES ASSUME WInv, ReturnPcp PROVE WInv'
  OBVIOUS
<1>1. PICK a : Come(a)
  BY AnswerCome DEF ReturnPcp
<1> DEFINE m  == pcpMapping(received)
           ok == pcpAccepts(received) /\ Matches(m)
           o  == IF ~pcpAccepts(received) \/ ~Matches(m) THEN Error
                 ELSE IF call.op = "unmap" THEN Done
                 ELSE IF call.op = "external" THEN [is |-> "address", address |-> m.address]
                 ELSE IF Given(m) THEN Lease(m, m.address) ELSE Error
<1>2. ~NatPmp /\ received # Nothing /\ Finish(o)
  BY DEF ReturnPcp
<1>3. exchange = "mapping"
  BY <1>1, <1>2 DEF Come, Asking
<1>4. /\ ok <=> ~a.odd
      /\ ~a.odd => /\ m.internal = Meant.internal /\ m.external = a.external
                   /\ m.lifetime = a.lifetime /\ m.address = Unmap4(a.address)
  <2>1. Asking /\ Said(a) /\ received = Datagram(a)
    BY <1>1 DEF Come
  <2>2. QED
    BY <1>2, <1>3, <2>1, PcpTaken
<1>5. o = IF ~ok THEN Error
          ELSE IF call.op = "unmap" THEN Done
          ELSE IF call.op = "external" THEN [is |-> "address", address |-> m.address]
          ELSE IF Given(m) THEN Lease(m, m.address) ELSE Error
  OBVIOUS
<1> HIDE DEF m, ok, o
<1>6. o # Running
  BY <1>5 DEF Error, Running, Done, Lease
<1>7. /\ call.op \in {"map", "unmap", "external"} /\ answer["mapping"] = a
  BY <1>1, <1>3, CallFacts DEF Come, Asking
<1>8. outcome' = o /\ UNCHANGED <<call, answer>>
  BY <1>2 DEF Finish, Over
<1>9. NatPmp' = NatPmp /\ req' = req
  BY <1>8 DEF NatPmp, req
<1>10. CASE ~ok
  <2>1. outcome' = Error
    BY <1>5, <1>8, <1>10
  <2>2. LeaseIsWhatWasGranted'
    BY <2>1 DEF LeaseIsWhatWasGranted, Error
  <2>3. GoodAnswerTaken'
    BY <1>1, <1>4, <1>8, <1>10, OddIsExcuse
  <2>4. QED
    BY <1>1, <1>2, <1>6, <2>2, <2>3, StayFinished
<1>11. CASE ok /\ call.op \in {"unmap", "external"}
  <2>1. outcome' = Done \/ outcome' = [is |-> "address", address |-> m.address]
    BY <1>5, <1>8, <1>11
  <2>2. LeaseIsWhatWasGranted' /\ GoodAnswerTaken'
    BY <2>1 DEF LeaseIsWhatWasGranted, GoodAnswerTaken, Error, Done
  <2>3. QED
    BY <1>1, <1>2, <1>6, <2>2, StayFinished
<1>12. CASE ok /\ call.op = "map" /\ Given(m)
  <2>1. outcome' = Lease(m, m.address) /\ ~a.odd
    BY <1>4, <1>5, <1>8, <1>12
  <2>2. /\ m.internal = req.internal /\ m.external = a.external /\ m.lifetime = a.lifetime
        /\ m.address = Unmap4(a.address) /\ a.external # 0 /\ a.lifetime # 0
    BY <1>4, <1>12, <2>1 DEF Meant, Given
  <2>3. outcome' = [is |-> "lease", protocol |-> req.protocol, internal |-> req.internal,
                    external |-> a.external, lifetime |-> a.lifetime * Second,
                    address |-> Unmap4(a.address)]
    BY <2>1, <2>2 DEF Lease
  <2>4. Unmap4(a.address) \in {a.address, Bytes(a.address, 12, 16)}
    BY DEF Unmap4
  <2>5. LeaseIsWhatWasGranted'
    BY <1>2, <1>7, <1>8, <1>9, <2>1, <2>2, <2>3, <2>4 DEF LeaseIsWhatWasGranted
  <2>6. GoodAnswerTaken'
    BY <2>3 DEF GoodAnswerTaken, Error
  <2>7. QED
    BY <1>1, <1>2, <1>6, <2>5, <2>6, StayFinished
<1>13. CASE ok /\ call.op = "map" /\ ~Given(m)
  <2>1. outcome' = Error
    BY <1>5, <1>8, <1>13
  <2>2. LeaseIsWhatWasGranted'
    BY <2>1 DEF LeaseIsWhatWasGranted, Error
  <2>3. a.external = 0 \/ a.lifetime = 0
    BY <1>4, <1>13 DEF Given
  <2>4. GoodAnswerTaken'
    BY <1>7, <1>8, <1>13, <2>3 DEF GoodAnswerTaken
  <2>5. QED
    BY <1>1, <1>2, <1>6, <2>2, <2>4, StayFinished
<1>14. QED
  BY <1>7, <1>10, <1>11, <1>12, <1>13

LEMMA StutterWInv == WInv /\ UNCHANGED vars => WInv'
<1> SUFFICES ASSUME WInv, UNCHANGED vars PROVE WInv'
  OBVIOUS
<1> USE DEF vars
<1>1. /\ NatPmp' = NatPmp /\ req' = req /\ Checked' = Checked /\ Request' = Request
      /\ \A a : Datagram(a)' = Datagram(a) /\ Said(a)' = Said(a)
  BY Same
<1>2. Phase'
  BY <1>1 DEF WInv, Phase
<1>3. Genuine'
  BY <1>1 DEF WInv, Genuine
<1>4. Kept'
  BY <1>1 DEF WInv, Kept
<1>5. LeaseIsWhatWasGranted' /\ GoodAnswerTaken'
  BY <1>1 DEF WInv, LeaseIsWhatWasGranted, GoodAnswerTaken
<1>6. QED
  BY <1>2, <1>3, <1>4, <1>5 DEF WInv

LEMMA WInvHolds == Spec => []WInv
<1>1. WInv /\ [Next]_vars => WInv'
  BY StayInvalid, StayAsk, StayNoReply, StayReturnPcp, StayReturnMapping, StayReturnAddress,
     StayAnswers, StutterWInv DEF Next
<1>2. QED
  BY InitWInv, <1>1, PTL DEF Spec

\* natpmp/codec.go, pcp/codec.go and Request.Validate: whatever the base, the port and the
\* lifetime, what a gateway reads in a request that a client has sent is what was meant.
THEOREM RequestsAreUnderstood == Spec => []UnderstoodAsMeant
<1>1. WInv => UnderstoodAsMeant
  <2> SUFFICES ASSUME WInv, sent # Nothing, exchange = "mapping", call.op # "external"
               PROVE  LET rd == Reads(sent)
                      IN  /\ rd.asks = call.op /\ rd.protocol = req.protocol
                          /\ rd.internal = req.internal
                          /\ call.op = "map" => /\ rd.external = req.external
                                                /\ rd.lifetime * Second = Lifetime(req)
                          /\ NatPmp /\ call.op = "unmap" => rd.external = 0
                          /\ ~NatPmp => rd.nonce = Nonce /\ rd.client = to16(ClientAddress)
    BY DEF UnderstoodAsMeant
  <2> DEFINE rd == Reads(sent)
  <2>1. sent = Request /\ call \in Calls /\ Checked
    BY DEF WInv, Genuine, Phase
  <2>2. Validate(req) /\ call.op \in {"map", "unmap"}
    BY <2>1, CallFacts DEF Checked
  <2>3. /\ Meant.asks = call.op /\ Meant.protocol = req.protocol /\ Meant.internal = req.internal
        /\ call.op = "map" => Meant.external = req.external /\ Meant.lifetime = LifetimeSec(req)
        /\ NatPmp /\ call.op = "unmap" => Meant.external = 0
    BY <2>2 DEF Meant
  <2>4. LifetimeSec(req) * Second = Lifetime(req)
    BY <2>1, <2>2, LifetimeFits
  <2>5. /\ rd.asks = Meant.asks /\ rd.protocol = Meant.protocol
        /\ rd.internal = Meant.internal /\ rd.external = Meant.external
        /\ rd.lifetime = Meant.lifetime
        /\ ~NatPmp => rd.nonce = Nonce /\ rd.client = to16(ClientAddress)
    <3>1. CASE NatPmp
      <4>1. rd = [asks |-> Meant.asks, opcode |-> mapOpcode(Meant.protocol),
                  protocol |-> Meant.protocol, internal |-> Meant.internal,
                  external |-> Meant.external, lifetime |-> Meant.lifetime]
        BY <2>1, <3>1, NatPmpAsked
      <4> HIDE DEF rd
      <4>2. QED
        BY <3>1, <4>1
    <3>2. CASE ~NatPmp
      <4>1. rd = [asks |-> Meant.asks, opcode |-> 1, nonce |-> Nonce,
                  client |-> to16(ClientAddress), protocol |-> Meant.protocol,
                  proto |-> ipProtocol(Meant.protocol), internal |-> Meant.internal,
                  external |-> Meant.external, lifetime |-> Meant.lifetime]
        BY <2>1, <3>2, PcpAsked
      <4> HIDE DEF rd
      <4>2. QED
        BY <3>2, <4>1
    <3>3. QED
      BY <3>1, <3>2
  <2> HIDE DEF rd
  <2>6. /\ rd.asks = call.op /\ rd.protocol = req.protocol /\ rd.internal = req.internal
        /\ call.op = "map" => rd.external = req.external /\ rd.lifetime * Second = Lifetime(req)
        /\ NatPmp /\ call.op = "unmap" => rd.external = 0
        /\ ~NatPmp => rd.nonce = Nonce /\ rd.client = to16(ClientAddress)
    BY <2>3, <2>4, <2>5
  <2>7. QED
    BY <2>6 DEF rd
<1>2. QED
  BY <1>1, WInvHolds, PTL

\* natpmp.Map and pcp.Map: a lease that is returned is what the gateway granted for this
\* very mapping, for every answer that is odd in one field or in none.
THEOREM LeaseIsGranted == Spec => []LeaseIsWhatWasGranted
<1>1. WInv => LeaseIsWhatWasGranted
  BY DEF WInv
<1>2. QED
  BY <1>1, WInvHolds, PTL

\* The decoders and the checks after them: an answer by the book is never refused, whatever
\* it grants.
THEOREM GoodAnswers == Spec => []GoodAnswerTaken
<1>1. WInv => GoodAnswerTaken
  BY DEF WInv
<1>2. QED
  BY <1>1, WInvHolds, PTL
=============================================================================
