-------------------------- MODULE ClientRecvProofs --------------------------
(***************************************************************************)
(* Theorems about ClientRecv, for any number of connections and any        *)
(* lengths: what waits on a connection is complete and in order, recv has  *)
(* space whenever it is called, packets are dropped at the limit only, and *)
(* nothing of an unverified peer reaches the channel.                      *)
(***************************************************************************)
EXTENDS ClientRecv, FiniteSetTheorems, SequenceTheorems, TLAPS

-----------------------------------------------------------------------------
(* Sums.                                                                   *)

LEMMA UnitIs ==
  ASSUME NEW f, NEW x
  PROVE  x \in Units(f) <=> \E i \in DOMAIN f : \E k \in 1 .. f[i] : x = <<i, k>>
  BY DEF Units

\* The units of one value.
LEMMA Block ==
  ASSUME NEW i, NEW n \in Nat
  PROVE  IsFiniteSet({i} \X (1 .. n)) /\ Cardinality({i} \X (1 .. n)) = n
<1> DEFINE S == {i} \X (1 .. n)
<1> DEFINE f == [k \in 1 .. n |-> <<i, k>>]
<1>1. f \in [1 .. n -> S] /\ \A k, m \in 1 .. n : f[k] = f[m] => k = m
  OBVIOUS
<1>2. \A x \in S : \E k \in 1 .. n : f[k] = x
  OBVIOUS
<1> HIDE DEF f, S
<1>3. f \in Bijection(1 .. n, S)
  BY <1>1, <1>2 DEF Bijection, Injection, Surjection, IsInjective
<1>4. IsFiniteSet(1 .. n) /\ Cardinality(1 .. n) = n
  BY FS_Interval
<1>5. QED
  BY <1>3, <1>4, FS_Bijection DEF ExistsBijection, S

LEMMA UnitsAreFinite ==
  ASSUME NEW w \in Seq(Nat)
  PROVE  IsFiniteSet(Units(w)) /\ Total(w) \in Nat
<1> DEFINE b(i) == {i} \X (1 .. w[i])
<1> DEFINE f == [i \in 1 .. Len(w) |-> b(i)]
<1> DEFINE T == {b(i) : i \in DOMAIN w}
<1>1. f \in Surjection(1 .. Len(w), T)
  <2>1. f \in [1 .. Len(w) -> T] /\ \A x \in T : \E i \in 1 .. Len(w) : f[i] = x
    OBVIOUS
  <2>2. QED
    BY <2>1 DEF Surjection
<1>2. IsFiniteSet(1 .. Len(w))
  BY FS_Interval
<1> HIDE DEF f
<1>3. IsFiniteSet(T)
  BY <1>1, <1>2, FS_Surjection
<1>4. \A x \in T : IsFiniteSet(x)
  <2>1. SUFFICES ASSUME NEW i \in DOMAIN w PROVE IsFiniteSet(b(i))
    OBVIOUS
  <2>2. w[i] \in Nat
    OBVIOUS
  <2>3. QED
    BY <2>2, Block
<1>5. IsFiniteSet(UNION T)
  BY <1>3, <1>4, FS_UNION
<1>6. QED
  BY <1>5, FS_CardinalityType DEF Units, Total

\* Units that are those of w once their places are moved by n.
LEMMA Moved ==
  ASSUME NEW w \in Seq(Nat), NEW n \in Int, NEW S,
         \A x \in S : \E i \in Int, k \in Int : x = <<i, k>> /\ <<i + n, k>> \in Units(w)
  PROVE  IsFiniteSet(S) /\ Cardinality(S) <= Total(w)
<1> DEFINE f == [x \in S |-> <<x[1] + n, x[2]>>]
<1>1. f \in [S -> Units(w)]
  <2>1. SUFFICES ASSUME NEW x \in S PROVE <<x[1] + n, x[2]>> \in Units(w)
    OBVIOUS
  <2>2. PICK i \in Int, k \in Int : x = <<i, k>> /\ <<i + n, k>> \in Units(w)
    OBVIOUS
  <2>3. QED
    BY <2>2
<1>2. ASSUME NEW x \in S, NEW y \in S, f[x] = f[y] PROVE x = y
  <2>1. PICK i \in Int, k \in Int : x = <<i, k>>
    OBVIOUS
  <2>2. PICK j \in Int, m \in Int : y = <<j, m>>
    OBVIOUS
  <2>3. i + n = j + n /\ k = m
    BY <1>2, <2>1, <2>2
  <2>4. QED
    BY <2>1, <2>2, <2>3
<1> HIDE DEF f
<1>3. f \in Injection(S, Units(w))
  BY <1>1, <1>2 DEF Injection, IsInjective
<1>4. QED
  BY <1>3, UnitsAreFinite, FS_Injection DEF Total

LEMMA TotalNone == Total(<<>>) = 0
<1>1. Units(<<>>) = {}
  BY UnitIs
<1>2. QED
  BY <1>1, FS_EmptySet DEF Total

LEMMA TotalAppend ==
  ASSUME NEW w \in Seq(Nat), NEW n \in Nat
  PROVE  Append(w, n) \in Seq(Nat) /\ Total(Append(w, n)) = Total(w) + n
<1> DEFINE v == Append(w, n)
<1> DEFINE m == Len(w) + 1
<1> DEFINE B == {m} \X (1 .. n)
<1>1. /\ v \in Seq(Nat) /\ DOMAIN v = 1 .. m /\ v[m] = n /\ m \in Nat \ {0}
      /\ \A i \in 1 .. m : i # m => i \in DOMAIN w /\ v[i] = w[i]
      /\ \A i \in DOMAIN w : i \in 1 .. m /\ i # m
  OBVIOUS
<1> HIDE DEF v, m
<1>2. Units(v) = Units(w) \cup B
  <2>1. ASSUME NEW x \in Units(v) PROVE x \in Units(w) \cup B
    <3>1. PICK i \in DOMAIN v : \E k \in 1 .. v[i] : x = <<i, k>>
      BY UnitIs
    <3>2. PICK k \in 1 .. v[i] : x = <<i, k>>
      BY <3>1
    <3>3. CASE i = m
      BY <3>2, <3>3, <1>1
    <3>4. CASE i # m
      BY <3>2, <3>4, <1>1, UnitIs
    <3>5. QED
      BY <3>3, <3>4
  <2>2. ASSUME NEW x \in Units(w) PROVE x \in Units(v)
    <3>1. PICK i \in DOMAIN w : \E k \in 1 .. w[i] : x = <<i, k>>
      BY UnitIs
    <3>2. PICK k \in 1 .. w[i] : x = <<i, k>>
      BY <3>1
    <3>3. i \in DOMAIN v /\ v[i] = w[i]
      BY <1>1
    <3>4. QED
      BY <3>2, <3>3, UnitIs
  <2>3. ASSUME NEW x \in B PROVE x \in Units(v)
    <3>1. PICK k \in 1 .. n : x = <<m, k>>
      OBVIOUS
    <3>2. m \in DOMAIN v /\ k \in 1 .. v[m]
      BY <1>1
    <3>3. QED
      BY <3>1, <3>2, UnitIs
  <2>4. QED
    BY <2>1, <2>2, <2>3
<1>3. Units(w) \cap B = {}
  BY <1>1, UnitIs
<1>4. IsFiniteSet(Units(w)) /\ IsFiniteSet(B) /\ Cardinality(B) = n /\ Cardinality(Units(w)) \in Nat
  BY UnitsAreFinite, Block, <1>1 DEF Total
<1> HIDE DEF B
<1>5. Cardinality(Units(w) \cup B) = Cardinality(Units(w)) + n
  <2>1. Cardinality(Units(w) \cap B) = 0
    BY <1>3, FS_EmptySet
  <2>2. Cardinality(Units(w) \cup B) = Cardinality(Units(w)) + Cardinality(B) - Cardinality(Units(w) \cap B)
    BY <1>4, FS_Union
  <2>3. QED
    BY <2>1, <2>2, <1>4
<1>6. QED
  BY <1>1, <1>2, <1>5 DEF Total, v

\* Leaving out the first values.
LEMMA TotalRest ==
  ASSUME NEW w \in Seq(Nat), NEW v \in Seq(Nat), NEW n \in Nat,
         \A i \in 1 .. Len(v) : i + n \in DOMAIN w /\ v[i] = w[i + n]
  PROVE  Total(v) <= Total(w)
<1> DEFINE S == Units(v)
<1>1. ASSUME NEW x \in S
      PROVE  \E i \in Int, k \in Int : x = <<i, k>> /\ <<i + n, k>> \in Units(w)
  <2>1. PICK i \in DOMAIN v : \E k \in 1 .. v[i] : x = <<i, k>>
    BY UnitIs
  <2>2. PICK k \in 1 .. v[i] : x = <<i, k>>
    BY <2>1
  <2>3. i \in 1 .. Len(v) /\ v[i] \in Nat
    OBVIOUS
  <2>4. i + n \in DOMAIN w /\ k \in 1 .. w[i + n]
    BY <2>3
  <2>5. <<i + n, k>> \in Units(w)
    BY <2>4, UnitIs
  <2>6. i \in Int /\ k \in Int
    BY <2>3
  <2>7. QED
    BY ONLY <2>2, <2>5, <2>6
<1>2. Total(v) = Cardinality(S) /\ n \in Int
  BY DEF Total
<1> HIDE DEF S
<1>3. Cardinality(S) <= Total(w)
  BY <1>1, <1>2, Moved
<1>4. QED
  BY <1>2, <1>3

LEMMA TotalTail ==
  ASSUME NEW w \in Seq(Nat), w # <<>>
  PROVE  Tail(w) \in Seq(Nat) /\ Total(Tail(w)) <= Total(w) /\ Total(w) <= w[1] + Total(Tail(w))
<1> DEFINE v == Tail(w)
<1> DEFINE d == -1
<1>1. /\ v \in Seq(Nat) /\ Len(v) = Len(w) - 1 /\ w[1] \in Nat /\ DOMAIN v = 1 .. Len(v) /\ d \in Int
      /\ \A i \in 1 .. Len(v) : i + 1 \in DOMAIN w /\ v[i] = w[i + 1]
      /\ \A i \in DOMAIN w : i # 1 => i \in Int /\ i + d \in 1 .. Len(v) /\ v[i + d] = w[i]
  OBVIOUS
<1> HIDE DEF v, d
<1>2. Total(v) <= Total(w)
  BY <1>1, TotalRest
<1> DEFINE B == {1} \X (1 .. w[1])
<1> DEFINE R == Units(w) \ B
<1>3. ASSUME NEW x \in R
      PROVE  \E i \in Int, k \in Int : x = <<i, k>> /\ <<i + d, k>> \in Units(v)
  <2>1. PICK i \in DOMAIN w : \E k \in 1 .. w[i] : x = <<i, k>>
    BY UnitIs
  <2>2. PICK k \in 1 .. w[i] : x = <<i, k>>
    BY <2>1
  <2>3. i # 1
    BY <2>2
  <2>4. i \in Int /\ i + d \in DOMAIN v /\ v[i + d] = w[i]
    BY <2>3, <1>1
  <2>5. <<i + d, k>> \in Units(v)
    BY <2>4, UnitIs
  <2>6. k \in Int
    OBVIOUS
  <2>7. QED
    BY ONLY <2>2, <2>4, <2>5, <2>6
<1>4. R \cap B = {} /\ Units(w) \subseteq R \cup B
  OBVIOUS
<1>5. IsFiniteSet(B) /\ Cardinality(B) = w[1]
  BY <1>1, Block
<1> HIDE DEF R, B
<1>6. IsFiniteSet(R) /\ Cardinality(R) <= Total(v)
  BY <1>1, <1>3, Moved
<1>7. Cardinality(R) \in Nat /\ Total(w) \in Nat /\ Total(v) \in Nat
  BY <1>1, <1>6, FS_CardinalityType, UnitsAreFinite
<1>8. IsFiniteSet(R \cup B) /\ Cardinality(R \cup B) = Cardinality(R) + w[1]
  <2>1. Cardinality(R \cap B) = 0
    BY <1>4, FS_EmptySet
  <2>2. /\ IsFiniteSet(R \cup B)
        /\ Cardinality(R \cup B) = Cardinality(R) + Cardinality(B) - Cardinality(R \cap B)
    BY <1>5, <1>6, FS_Union
  <2>3. QED
    BY <2>1, <2>2, <1>1, <1>5, <1>7
<1>9. Cardinality(Units(w)) <= Cardinality(R \cup B)
  BY <1>4, <1>8, FS_Subset
<1>10. Total(w) = Cardinality(Units(w))
  BY DEF Total
<1>11. QED
  BY <1>1, <1>2, <1>6, <1>7, <1>8, <1>9, <1>10 DEF v

-----------------------------------------------------------------------------
(* Packets and their bytes.                                                *)

LEMMA PacketIs ==
  /\ DataPacket \subseteq Packet /\ VerifyPacket \subseteq Packet
  /\ \A p \in Packet : p.len \in Nat \ {0} /\ p.no \in Nat /\ StlvLen(p) \in Nat \ {0}
                       /\ StlvLen(p) <= PackMax + Over
                       /\ (p.kind = "data" <=> p \in DataPacket)
  /\ \A p \in DataPacket : p.len \in Lens /\ p.len <= PackMax
<1>1. DataPacket \subseteq Packet /\ VerifyPacket \subseteq Packet
  BY DEF Packet
<1>2. ASSUME NEW p \in DataPacket
      PROVE  p.len \in Lens /\ p.len \in Nat \ {0} /\ p.no \in Nat /\ p.len <= PackMax /\ p.kind = "data"
  <2>1. p.kind = "data" /\ p.no \in Nat /\ p.len \in Lens
    BY DEF DataPacket
  <2>2. \A n \in Lens : n \in Nat \ {0} /\ n <= PackMax
    BY ClientAssumption
  <2>3. QED
    BY <2>1, <2>2
<1>3. ASSUME NEW p \in VerifyPacket
      PROVE  p.len \in Nat \ {0} /\ p.no \in Nat /\ p.len <= PackMax /\ p.kind # "data"
  BY ClientAssumption DEF VerifyPacket
<1>4. ASSUME NEW p \in Packet
      PROVE  /\ p.len \in Nat \ {0} /\ p.no \in Nat /\ p.len <= PackMax
             /\ p.kind = "data" <=> p \in DataPacket
  BY <1>2, <1>3 DEF Packet
<1>5. ASSUME NEW p \in Packet PROVE StlvLen(p) \in Nat \ {0} /\ StlvLen(p) <= PackMax + Over
  BY <1>4, ClientAssumption DEF StlvLen
<1>6. QED
  BY <1>1, <1>2, <1>4, <1>5

LEMMA LengthsOf ==
  ASSUME NEW s \in Seq(DataPacket)
  PROVE  /\ [i \in DOMAIN s |-> s[i].len] \in Seq(Nat)
         /\ Bytes(s) = Total([i \in DOMAIN s |-> s[i].len]) /\ Bytes(s) \in Nat
<1> DEFINE v == [i \in DOMAIN s |-> s[i].len]
<1>1. \A i \in 1 .. Len(s) : s[i] \in DataPacket
  OBVIOUS
<1>2. \A i \in 1 .. Len(s) : s[i].len \in Nat
  BY <1>1, PacketIs
<1>3. v \in Seq(Nat)
  BY <1>2
<1>4. QED
  BY <1>3, UnitsAreFinite DEF Bytes

LEMMA StlvLengthsOf ==
  ASSUME NEW s \in Seq(Packet)
  PROVE  /\ [i \in DOMAIN s |-> StlvLen(s[i])] \in Seq(Nat)
         /\ StlvBytes(s) = Total([i \in DOMAIN s |-> StlvLen(s[i])]) /\ StlvBytes(s) \in Nat
<1> DEFINE v == [i \in DOMAIN s |-> StlvLen(s[i])]
<1>1. \A i \in 1 .. Len(s) : s[i] \in Packet
  OBVIOUS
<1>2. \A i \in 1 .. Len(s) : StlvLen(s[i]) \in Nat
  BY <1>1, PacketIs
<1>3. v \in Seq(Nat)
  BY <1>2
<1>4. QED
  BY <1>3, UnitsAreFinite DEF StlvBytes

LEMMA NoBytes == Bytes(<<>>) = 0 /\ StlvBytes(<<>>) = 0
<1>1. [i \in DOMAIN <<>> |-> <<>>[i].len] = <<>> /\ [i \in DOMAIN <<>> |-> StlvLen(<<>>[i])] = <<>>
  OBVIOUS
<1>2. QED
  BY <1>1, TotalNone DEF Bytes, StlvBytes

LEMMA BytesAppend ==
  ASSUME NEW s \in Seq(DataPacket), NEW p \in DataPacket
  PROVE  /\ Append(s, p) \in Seq(DataPacket)
         /\ Bytes(Append(s, p)) = Bytes(s) + p.len
<1> DEFINE z == Append(s, p)
<1> DEFINE v == [i \in DOMAIN s |-> s[i].len]
<1>1. /\ z \in Seq(DataPacket) /\ Len(z) = Len(s) + 1 /\ z[Len(s) + 1] = p
      /\ \A i \in 1 .. Len(s) : z[i] = s[i]
  OBVIOUS
<1>2. p.len \in Nat
  BY PacketIs
<1>3. v \in Seq(Nat) /\ Len(v) = Len(s) /\ \A i \in 1 .. Len(s) : v[i] = s[i].len
  BY LengthsOf
<1>4. /\ Append(v, p.len) \in Seq(Nat) /\ DOMAIN Append(v, p.len) = 1 .. Len(s) + 1
      /\ \A i \in 1 .. Len(s) + 1 : Append(v, p.len)[i] = IF i = Len(s) + 1 THEN p.len ELSE v[i]
  BY <1>2, <1>3
<1> HIDE DEF z
<1>5. [i \in DOMAIN z |-> z[i].len] = Append(v, p.len)
  BY <1>1, <1>3, <1>4
<1>6. Bytes(z) = Total(v) + p.len
  BY <1>2, <1>3, <1>5, TotalAppend DEF Bytes
<1>7. QED
  BY <1>1, <1>6 DEF z, Bytes

LEMMA StlvAppend ==
  ASSUME NEW s \in Seq(Packet), NEW p \in Packet
  PROVE  /\ Append(s, p) \in Seq(Packet)
         /\ StlvBytes(Append(s, p)) = StlvBytes(s) + StlvLen(p)
<1> DEFINE z == Append(s, p)
<1> DEFINE v == [i \in DOMAIN s |-> StlvLen(s[i])]
<1> DEFINE n == StlvLen(p)
<1>1. /\ z \in Seq(Packet) /\ Len(z) = Len(s) + 1 /\ z[Len(s) + 1] = p
      /\ \A i \in 1 .. Len(s) : z[i] = s[i]
  OBVIOUS
<1>2. n \in Nat
  BY PacketIs
<1>3. v \in Seq(Nat) /\ Len(v) = Len(s) /\ \A i \in 1 .. Len(s) : v[i] = StlvLen(s[i])
  BY StlvLengthsOf
<1> HIDE DEF z, n
<1>4. /\ Append(v, n) \in Seq(Nat) /\ DOMAIN Append(v, n) = 1 .. Len(s) + 1
      /\ \A i \in 1 .. Len(s) + 1 : Append(v, n)[i] = IF i = Len(s) + 1 THEN n ELSE v[i]
  BY <1>2, <1>3
<1>5. [i \in DOMAIN z |-> StlvLen(z[i])] = Append(v, n)
  BY <1>1, <1>3, <1>4 DEF n
<1>6. StlvBytes(z) = Total(v) + n
  BY <1>2, <1>3, <1>5, TotalAppend DEF StlvBytes
<1>7. QED
  BY <1>1, <1>6 DEF z, n, StlvBytes

\* What is left after the first n packets has no more bytes than all.
LEMMA BytesRest ==
  ASSUME NEW s \in Seq(DataPacket), NEW n \in Nat, n <= Len(s)
  PROVE  /\ SubSeq(s, n + 1, Len(s)) \in Seq(DataPacket)
         /\ Bytes(SubSeq(s, n + 1, Len(s))) <= Bytes(s)
<1> DEFINE z == SubSeq(s, n + 1, Len(s))
<1> DEFINE v == [i \in DOMAIN s |-> s[i].len]
<1> DEFINE u == [i \in DOMAIN z |-> z[i].len]
<1>1. /\ z \in Seq(DataPacket) /\ Len(z) = Len(s) - n
      /\ \A i \in 1 .. Len(z) : i + n \in 1 .. Len(s) /\ z[i] = s[i + n]
  OBVIOUS
<1> HIDE DEF z
<1>2. v \in Seq(Nat) /\ DOMAIN v = 1 .. Len(s) /\ \A i \in 1 .. Len(s) : v[i] = s[i].len
  BY LengthsOf
<1>3. u \in Seq(Nat) /\ Len(u) = Len(z) /\ \A i \in 1 .. Len(z) : u[i] = z[i].len
  BY <1>1, LengthsOf
<1>4. Bytes(z) = Total(u) /\ Bytes(s) = Total(v)
  BY DEF Bytes
<1> HIDE DEF v, u
<1>5. Total(u) <= Total(v)
  BY <1>1, <1>2, <1>3, TotalRest, ZenonT(60)
<1>6. QED
  BY <1>1, <1>4, <1>5 DEF z

LEMMA StlvTail ==
  ASSUME NEW s \in Seq(Packet), s # <<>>
  PROVE  /\ Tail(s) \in Seq(Packet) /\ Head(s) \in Packet /\ s[1] = Head(s)
         /\ StlvBytes(s) <= StlvLen(Head(s)) + StlvBytes(Tail(s))
<1> DEFINE z == Tail(s)
<1> DEFINE v == [i \in DOMAIN s |-> StlvLen(s[i])]
<1> DEFINE u == [i \in DOMAIN z |-> StlvLen(z[i])]
<1>1. /\ z \in Seq(Packet) /\ Len(z) = Len(s) - 1 /\ Head(s) \in Packet /\ s[1] = Head(s)
      /\ \A i \in 1 .. Len(z) : i + 1 \in 1 .. Len(s) /\ z[i] = s[i + 1]
  OBVIOUS
<1> HIDE DEF z
<1>2. v \in Seq(Nat) /\ DOMAIN v = 1 .. Len(s) /\ Len(v) = Len(s) /\ \A i \in 1 .. Len(s) : v[i] = StlvLen(s[i])
  BY StlvLengthsOf
<1>3. u \in Seq(Nat) /\ Len(u) = Len(z) /\ \A i \in 1 .. Len(z) : u[i] = StlvLen(z[i])
  BY <1>1, StlvLengthsOf
<1>4. StlvBytes(z) = Total(u) /\ StlvBytes(s) = Total(v)
  BY DEF StlvBytes
<1> HIDE DEF v, u
<1>5. Len(s) \in Nat \ {0} /\ v # <<>>
  BY <1>2
<1>6. /\ Tail(v) \in Seq(Nat) /\ Len(Tail(v)) = Len(v) - 1
      /\ \A i \in 1 .. Len(Tail(v)) : Tail(v)[i] = v[i + 1]
  BY <1>2, <1>5
<1>7. Tail(v) = u
  <2>1. Len(Tail(v)) = Len(u) /\ \A i \in 1 .. Len(u) : Tail(v)[i] = u[i]
    BY <1>1, <1>2, <1>3, <1>6
  <2>2. QED
    BY <2>1, <1>3, <1>6, SeqEqual
<1>8. Total(v) <= v[1] + Total(u)
  BY <1>2, <1>5, <1>7, TotalTail
<1>9. QED
  BY <1>1, <1>2, <1>4, <1>5, <1>8 DEF z

-----------------------------------------------------------------------------
(* The order of packets.                                                   *)

InOrder(pkgs, lo, hi, out) == Increasing(pkgs) /\ Numbers(pkgs) = (lo + 1 .. hi) \ out

\* z is w without the packet in place n.
LeavesOut(z, w, n) ==
  /\ Len(z) = Len(w) - 1
  /\ \A i \in 1 .. Len(z) : z[i] = IF i < n THEN w[i] ELSE w[i + 1]

LEMMA NumberIs ==
  ASSUME NEW w \in Seq(Packet), NEW x
  PROVE  x \in Numbers(w) <=> \E i \in 1 .. Len(w) : IsData(w[i]) /\ x = w[i].no
  BY DEF Numbers

LEMMA IncreasingIs ==
  ASSUME NEW w \in Seq(Packet)
  PROVE  Increasing(w) <=>
           \A i, j \in 1 .. Len(w) : i < j /\ IsData(w[i]) /\ IsData(w[j]) => w[i].no < w[j].no
  BY DEF Increasing

\* What leaving out a packet does to the order and to the numbers.
LEMMA LeftOut ==
  ASSUME NEW w \in Seq(Packet), NEW z \in Seq(Packet), NEW n \in 1 .. Len(w),
         LeavesOut(z, w, n), Increasing(w)
  PROVE  /\ Increasing(z)
         /\ ~IsData(w[n]) => Numbers(z) = Numbers(w)
         /\ IsData(w[n]) => Numbers(z) = Numbers(w) \ {w[n].no}
         /\ n = 1 /\ IsData(w[1]) => \A x \in Numbers(z) : w[1].no < x
<1> DEFINE at(i) == IF i < n THEN i ELSE i + 1
<1>1. /\ Len(w) \in Nat /\ Len(z) \in Nat /\ n \in Nat \ {0}
      /\ \A i \in 1 .. Len(z) : at(i) \in 1 .. Len(w) /\ at(i) # n /\ z[i] = w[at(i)] /\ i <= at(i)
      /\ \A i, j \in 1 .. Len(z) : i < j => at(i) < at(j)
      /\ \A i \in 1 .. Len(w) : i # n => \E j \in 1 .. Len(z) : at(j) = i
  <2>1. Len(w) \in Nat /\ Len(z) \in Nat /\ n \in Nat \ {0} /\ n <= Len(w) /\ Len(z) = Len(w) - 1
    BY DEF LeavesOut
  <2>2. ASSUME NEW i \in 1 .. Len(z)
        PROVE  at(i) \in 1 .. Len(w) /\ at(i) # n /\ z[i] = w[at(i)] /\ i <= at(i)
    BY <2>1 DEF LeavesOut
  <2>3. ASSUME NEW i \in 1 .. Len(w), i # n PROVE \E j \in 1 .. Len(z) : at(j) = i
    <3>1. CASE i < n
      <4>1. i \in 1 .. Len(z) /\ at(i) = i
        BY <2>1, <3>1
      <4>2. QED
        BY <4>1
    <3>2. CASE i > n
      <4>1. i - 1 \in 1 .. Len(z) /\ at(i - 1) = i
        BY <2>1, <3>2
      <4>2. QED
        BY <4>1
    <3>3. QED
      BY <2>1, <2>3, <3>1, <3>2
  <2>4. \A i, j \in 1 .. Len(z) : i < j => at(i) < at(j)
    BY <2>1
  <2>5. QED
    BY <2>1, <2>2, <2>3, <2>4
<1> HIDE DEF at
<1>2. \A i, j \in 1 .. Len(w) : i < j /\ IsData(w[i]) /\ IsData(w[j]) => w[i].no < w[j].no
  BY IncreasingIs
<1>3. Increasing(z)
  BY <1>1, <1>2, IncreasingIs, ZenonT(60)
<1>4. \A i \in 1 .. Len(w) : w[i].no \in Nat
  BY PacketIs
<1>5. \A x : x \in Numbers(z) <=> \E i \in 1 .. Len(w) : i # n /\ IsData(w[i]) /\ x = w[i].no
  <2>1. ASSUME NEW x \in Numbers(z)
        PROVE  \E i \in 1 .. Len(w) : i # n /\ IsData(w[i]) /\ x = w[i].no
    <3>1. PICK i \in 1 .. Len(z) : IsData(z[i]) /\ x = z[i].no
      BY NumberIs
    <3>2. at(i) \in 1 .. Len(w) /\ at(i) # n /\ IsData(w[at(i)]) /\ x = w[at(i)].no
      BY <3>1, <1>1
    <3>3. QED
      BY <3>2
  <2>2. ASSUME NEW i \in 1 .. Len(w), i # n, IsData(w[i]) PROVE w[i].no \in Numbers(z)
    <3>1. PICK j \in 1 .. Len(z) : at(j) = i
      BY <1>1, <2>2
    <3>2. z[j] = w[i]
      BY <3>1, <1>1
    <3>3. QED
      BY <3>2, <2>2, NumberIs
  <2>3. QED
    BY <2>1, <2>2
<1>6. ASSUME ~IsData(w[n]) PROVE Numbers(z) = Numbers(w)
  <2>1. \A x : x \in Numbers(z) <=> x \in Numbers(w)
    BY <1>5, <1>6, NumberIs
  <2>2. QED
    BY <2>1 DEF Numbers
<1>7. ASSUME IsData(w[n]) PROVE Numbers(z) = Numbers(w) \ {w[n].no}
  <2>1. \A i \in 1 .. Len(w) : i # n /\ IsData(w[i]) => w[i].no # w[n].no
    BY <1>1, <1>2, <1>4, <1>7
  <2>2. QED
    BY <2>1, <1>5, NumberIs
<1>8. ASSUME n = 1, IsData(w[1]) PROVE \A x \in Numbers(z) : w[1].no < x
  BY <1>1, <1>2, <1>5, <1>8, SMTT(40)
<1>9. QED
  BY <1>3, <1>6, <1>7, <1>8

LEMMA OrderWithoutVerify ==
  ASSUME NEW w \in Seq(Packet), NEW z \in Seq(Packet), NEW n \in 1 .. Len(w), LeavesOut(z, w, n),
         NEW lo, NEW hi, NEW out, InOrder(w, lo, hi, out), ~IsData(w[n])
  PROVE  InOrder(z, lo, hi, out)
  BY LeftOut DEF InOrder

\* A packet is dropped.
LEMMA OrderWithoutDropped ==
  ASSUME NEW w \in Seq(Packet), NEW z \in Seq(Packet), NEW n \in 1 .. Len(w), LeavesOut(z, w, n),
         NEW lo \in Nat, NEW hi \in Nat, NEW out, InOrder(w, lo, hi, out), IsData(w[n])
  PROVE  InOrder(z, lo, hi, out \cup {w[n].no}) /\ w[n].no \in 1 .. hi
<1>1. w[n].no \in Numbers(w)
  BY NumberIs
<1>2. QED
  BY <1>1, LeftOut DEF InOrder

\* The first packet is put into the channel.
LEMMA OrderWithoutFirst ==
  ASSUME NEW w \in Seq(Packet), NEW z \in Seq(Packet), 1 <= Len(w), LeavesOut(z, w, 1),
         NEW lo \in Nat, NEW hi \in Nat, NEW out, InOrder(w, lo, hi, out), IsData(w[1])
  PROVE  InOrder(z, w[1].no, hi, out) /\ w[1].no \in 1 .. hi
<1> DEFINE m == w[1].no
<1>1. 1 \in 1 .. Len(w) /\ m \in Numbers(w) /\ m \in Nat
  BY NumberIs, PacketIs
<1>2. Increasing(z) /\ Numbers(z) = Numbers(w) \ {m} /\ \A x \in Numbers(z) : m < x
  BY <1>1, LeftOut DEF InOrder
<1>3. Numbers(w) = (lo + 1 .. hi) \ out
  BY DEF InOrder
<1> HIDE DEF m
<1>4. Numbers(z) = (m + 1 .. hi) \ out
  BY <1>1, <1>2, <1>3
<1>5. QED
  BY <1>1, <1>2, <1>3, <1>4 DEF InOrder, m

\* The next packet is sent.
LEMMA OrderWithNext ==
  ASSUME NEW w \in Seq(Packet), NEW p \in DataPacket,
         NEW lo \in Nat, NEW hi \in Nat, NEW out, out \subseteq 1 .. hi, lo <= hi,
         InOrder(w, lo, hi, out), p.no = hi + 1
  PROVE  InOrder(Append(w, p), lo, hi + 1, out)
<1> DEFINE z == Append(w, p)
<1>1. /\ z \in Seq(Packet) /\ Len(w) \in Nat /\ Len(z) = Len(w) + 1 /\ z[Len(w) + 1] = p
      /\ \A i \in 1 .. Len(w) : z[i] = w[i]
  BY PacketIs
<1> HIDE DEF z
<1>2. IsData(p)
  BY DEF IsData, DataPacket
<1>3. \A x : x \in Numbers(z) <=> x \in Numbers(w) \/ x = hi + 1
  BY <1>1, <1>2, NumberIs
<1>4. Numbers(w) = (lo + 1 .. hi) \ out
  BY DEF InOrder
<1>5. Numbers(z) = (lo + 1 .. hi + 1) \ out
  BY <1>3, <1>4
<1>6. \A i \in 1 .. Len(w) : IsData(w[i]) => w[i].no \in Int /\ w[i].no < hi + 1
  <2>1. SUFFICES ASSUME NEW i \in 1 .. Len(w), IsData(w[i])
                 PROVE  w[i].no \in Int /\ w[i].no < hi + 1
    OBVIOUS
  <2>2. w[i].no \in Numbers(w)
    BY <2>1, NumberIs
  <2>3. QED
    BY <2>2, <1>4
<1>7. \A i, j \in 1 .. Len(w) : i < j /\ IsData(w[i]) /\ IsData(w[j]) => w[i].no < w[j].no
  BY IncreasingIs DEF InOrder
<1>8. \A i, j \in 1 .. Len(z) : i < j /\ IsData(z[i]) /\ IsData(z[j]) => z[i].no < z[j].no
  BY <1>1, <1>6, <1>7
<1>9. Increasing(z)
  BY <1>1, <1>8, IncreasingIs
<1>10. QED
  BY <1>5, <1>9 DEF InOrder, z

-----------------------------------------------------------------------------
(* What waits on a connection: the packets kept back, the one in hand and  *)
(* those on the way.                                                       *)

LEMMA ThreeParts ==
  ASSUME NEW K \in Seq(Packet), NEW H \in Seq(Packet), NEW W \in Seq(Packet)
  PROVE  /\ (K \o H \o W) \in Seq(Packet) /\ Len(K \o H \o W) = Len(K) + Len(H) + Len(W)
         /\ \A i \in 1 .. Len(K \o H \o W) :
              (K \o H \o W)[i] = IF i <= Len(K) THEN K[i]
                                 ELSE IF i <= Len(K) + Len(H) THEN H[i - Len(K)]
                                 ELSE W[i - (Len(K) + Len(H))]
<1>1. /\ (K \o H) \in Seq(Packet) /\ Len(K \o H) = Len(K) + Len(H)
      /\ \A i \in 1 .. Len(K \o H) : (K \o H)[i] = IF i <= Len(K) THEN K[i] ELSE H[i - Len(K)]
  OBVIOUS
<1> DEFINE A == K \o H
<1>2. /\ (A \o W) \in Seq(Packet) /\ Len(A \o W) = Len(A) + Len(W)
      /\ \A i \in 1 .. Len(A \o W) : (A \o W)[i] = IF i <= Len(A) THEN A[i] ELSE W[i - Len(A)]
  BY <1>1
<1>3. Len(K) \in Nat /\ Len(H) \in Nat /\ Len(W) \in Nat
  OBVIOUS
<1>4. QED
  BY <1>1, <1>2, <1>3

LEMMA TwoParts ==
  ASSUME NEW K \in Seq(Packet), NEW W \in Seq(Packet)
  PROVE  /\ (K \o <<>> \o W) \in Seq(Packet) /\ Len(K \o <<>> \o W) = Len(K) + Len(W)
         /\ \A i \in 1 .. Len(K \o <<>> \o W) :
              (K \o <<>> \o W)[i] = IF i <= Len(K) THEN K[i] ELSE W[i - Len(K)]
<1>1. K \o <<>> = K
  OBVIOUS
<1>2. QED
  BY <1>1

\* The first packet on the way is left out.
LEMMA WithoutHead ==
  ASSUME NEW K \in Seq(Packet), NEW W \in Seq(Packet), W # <<>>
  PROVE  /\ Len(K) + 1 \in 1 .. Len(K \o <<>> \o W) /\ (K \o <<>> \o W)[Len(K) + 1] = Head(W)
         /\ LeavesOut(K \o <<>> \o Tail(W), K \o <<>> \o W, Len(K) + 1)
<1> DEFINE V == Tail(W)
<1> DEFINE w == K \o <<>> \o W
<1> DEFINE z == K \o <<>> \o V
<1> DEFINE k == Len(K)
<1>1. /\ V \in Seq(Packet) /\ Len(V) = Len(W) - 1 /\ W[1] = Head(W)
      /\ \A i \in 1 .. Len(V) : V[i] = W[i + 1]
      /\ k \in Nat /\ Len(W) \in Nat \ {0}
  OBVIOUS
<1>2. Len(w) = k + Len(W) /\ \A i \in 1 .. Len(w) : w[i] = IF i <= k THEN K[i] ELSE W[i - k]
  BY TwoParts
<1>3. Len(z) = k + Len(V) /\ \A i \in 1 .. Len(z) : z[i] = IF i <= k THEN K[i] ELSE V[i - k]
  BY <1>1, TwoParts
<1> HIDE DEF V, w, z, k
<1>4. ASSUME NEW i \in 1 .. Len(z) PROVE z[i] = IF i < k + 1 THEN w[i] ELSE w[i + 1]
  <2>1. i \in Int /\ i \in 1 .. Len(w) /\ i + 1 \in 1 .. Len(w)
    BY <1>1, <1>2, <1>3
  <2>2. CASE i <= k
    BY <1>1, <1>2, <1>3, <2>1, <2>2
  <2>3. CASE i > k
    <3>1. z[i] = V[i - k] /\ i - k \in 1 .. Len(V)
      BY <1>1, <1>3, <2>3
    <3>2. i + 1 > k /\ (i + 1) - k = (i - k) + 1
      BY <1>1, <2>1, <2>3
    <3>3. w[i + 1] = W[(i - k) + 1]
      BY <1>1, <1>2, <2>1, <3>2
    <3>4. QED
      BY <1>1, <2>1, <2>3, <3>1, <3>3, SMTT(40)
  <2>4. QED
    BY <1>1, <2>1, <2>2, <2>3
<1>5. k + 1 \in 1 .. Len(w) /\ w[k + 1] = Head(W) /\ Len(z) = Len(w) - 1
  <2>1. k + 1 \in 1 .. Len(w) /\ (k + 1) - k = 1 /\ Len(z) = Len(w) - 1 /\ ~(k + 1 <= k)
    BY <1>1, <1>2, <1>3
  <2>2. w[k + 1] = W[(k + 1) - k]
    BY <1>1, <1>2, <2>1
  <2>3. QED
    BY <1>1, <2>1, <2>2
<1>6. QED
  BY <1>4, <1>5 DEF LeavesOut, V, w, z, k

\* The packet in hand is left out.
LEMMA WithoutHeld ==
  ASSUME NEW K \in Seq(Packet), NEW p \in Packet, NEW W \in Seq(Packet)
  PROVE  /\ Len(K) + 1 \in 1 .. Len(K \o <<p>> \o W) /\ (K \o <<p>> \o W)[Len(K) + 1] = p
         /\ LeavesOut(K \o <<>> \o W, K \o <<p>> \o W, Len(K) + 1)
<1> DEFINE H == <<p>>
<1> DEFINE w == K \o H \o W
<1> DEFINE z == K \o <<>> \o W
<1> DEFINE k == Len(K)
<1>1. H \in Seq(Packet) /\ Len(H) = 1 /\ H[1] = p /\ k \in Nat /\ Len(W) \in Nat
  OBVIOUS
<1>2. /\ Len(w) = k + Len(H) + Len(W)
      /\ \A i \in 1 .. Len(w) : w[i] = IF i <= k THEN K[i]
                                       ELSE IF i <= k + Len(H) THEN H[i - k] ELSE W[i - (k + Len(H))]
  BY <1>1, ThreeParts
<1>3. Len(z) = k + Len(W) /\ \A i \in 1 .. Len(z) : z[i] = IF i <= k THEN K[i] ELSE W[i - k]
  BY TwoParts
<1> HIDE DEF H, w, z, k
<1>4. ASSUME NEW i \in 1 .. Len(z) PROVE z[i] = IF i < k + 1 THEN w[i] ELSE w[i + 1]
  <2>1. i \in Int /\ i \in 1 .. Len(w) /\ i + 1 \in 1 .. Len(w)
    BY <1>1, <1>2, <1>3
  <2>2. CASE i <= k
    BY <1>1, <1>2, <1>3, <2>1, <2>2
  <2>3. CASE i > k
    <3>1. i + 1 > k + 1 /\ (i + 1) - (k + 1) = i - k
      BY <1>1, <2>1, <2>3
    <3>2. w[i + 1] = W[i - k]
      BY <1>1, <1>2, <2>1, <3>1
    <3>3. QED
      BY <1>1, <1>3, <2>1, <2>3, <3>2
  <2>4. QED
    BY <1>1, <2>1, <2>2, <2>3
<1>5. k + 1 \in 1 .. Len(w) /\ w[k + 1] = p /\ Len(z) = Len(w) - 1
  <2>1. k + 1 \in 1 .. Len(w) /\ (k + 1) - k = 1 /\ Len(z) = Len(w) - 1 /\ ~(k + 1 <= k)
    BY <1>1, <1>2, <1>3
  <2>2. w[k + 1] = H[(k + 1) - k]
    BY <1>1, <1>2, <2>1
  <2>3. QED
    BY <1>1, <2>1, <2>2
<1>6. QED
  BY <1>4, <1>5 DEF LeavesOut, H, w, z, k

\* The first of the packets kept back is left out.
LEMMA WithoutKept ==
  ASSUME NEW K \in Seq(Packet), NEW d \in Nat, d < Len(K), NEW H \in Seq(Packet), NEW W \in Seq(Packet)
  PROVE  /\ 1 <= Len(SubSeq(K, d + 1, Len(K)) \o H \o W)
         /\ (SubSeq(K, d + 1, Len(K)) \o H \o W)[1] = K[d + 1]
         /\ LeavesOut(SubSeq(K, (d + 1) + 1, Len(K)) \o H \o W, SubSeq(K, d + 1, Len(K)) \o H \o W, 1)
<1> DEFINE A == SubSeq(K, d + 1, Len(K))
<1> DEFINE B == SubSeq(K, (d + 1) + 1, Len(K))
<1>1. /\ A \in Seq(Packet) /\ Len(A) = Len(K) - d /\ \A i \in 1 .. Len(A) : A[i] = K[i + d]
      /\ Len(K) \in Nat /\ Len(H) \in Nat /\ Len(W) \in Nat
  OBVIOUS
<1>2. /\ B \in Seq(Packet) /\ Len(B) = Len(K) - (d + 1) /\ \A i \in 1 .. Len(B) : B[i] = K[i + (d + 1)]
  OBVIOUS
<1> HIDE DEF A, B
<1>3. Len(A) = Len(B) + 1 /\ A[1] = K[d + 1] /\ Len(B) \in Nat /\ \A i \in 1 .. Len(B) : B[i] = A[i + 1]
  <2>1. Len(A) = Len(B) + 1 /\ Len(B) \in Nat /\ 1 \in 1 .. Len(A)
    BY <1>1, <1>2
  <2>2. ASSUME NEW i \in 1 .. Len(B) PROVE B[i] = A[i + 1]
    <3>1. i + 1 \in 1 .. Len(A) /\ (i + 1) + d = i + (d + 1)
      BY <2>1
    <3>2. QED
      BY <1>1, <1>2, <3>1
  <2>3. A[1] = K[1 + d] /\ 1 + d = d + 1
    BY <1>1, <2>1
  <2>4. QED
    BY <2>1, <2>2, <2>3
<1> DEFINE w == A \o H \o W
<1> DEFINE z == B \o H \o W
<1> DEFINE h == Len(H)
<1>4. /\ Len(w) = Len(A) + h + Len(W)
      /\ \A i \in 1 .. Len(w) : w[i] = IF i <= Len(A) THEN A[i]
                                       ELSE IF i <= Len(A) + h THEN H[i - Len(A)] ELSE W[i - (Len(A) + h)]
  BY <1>1, ThreeParts
<1>5. /\ Len(z) = Len(B) + h + Len(W)
      /\ \A i \in 1 .. Len(z) : z[i] = IF i <= Len(B) THEN B[i]
                                       ELSE IF i <= Len(B) + h THEN H[i - Len(B)] ELSE W[i - (Len(B) + h)]
  BY <1>2, <1>1, ThreeParts, ZenonT(60)
<1>6. h \in Nat /\ Len(W) \in Nat
  OBVIOUS
<1> HIDE DEF w, z, h
<1>7. \A i \in 1 .. Len(z) : z[i] = IF i < 1 THEN w[i] ELSE w[i + 1]
  <2>1. SUFFICES ASSUME NEW i \in 1 .. Len(z) PROVE z[i] = w[i + 1]
    OBVIOUS
  <2>2. /\ i + 1 \in 1 .. Len(w) /\ i \in Nat \ {0} /\ (i + 1) - Len(A) = i - Len(B)
        /\ (i + 1) - (Len(A) + h) = i - (Len(B) + h)
    BY <1>3, <1>4, <1>5, <1>6
  <2>3. CASE i <= Len(B)
    BY <1>3, <1>4, <1>5, <2>2, <2>3
  <2>4. CASE i > Len(B) /\ i <= Len(B) + h
    <3>1. w[i + 1] = H[(i + 1) - Len(A)]
      BY <1>3, <1>4, <1>6, <2>2, <2>4, SMTT(40)
    <3>2. z[i] = H[i - Len(B)]
      BY <1>3, <1>5, <1>6, <2>2, <2>4, SMTT(40)
    <3>3. QED
      BY <2>2, <3>1, <3>2
  <2>5. CASE i > Len(B) + h
    <3>1. w[i + 1] = W[(i + 1) - (Len(A) + h)]
      BY <1>3, <1>4, <1>6, <2>2, <2>5, SMTT(40)
    <3>2. z[i] = W[i - (Len(B) + h)]
      BY <1>3, <1>5, <1>6, <2>2, <2>5, SMTT(40)
    <3>3. QED
      BY <2>2, <3>1, <3>2
  <2>6. QED
    BY <1>3, <1>6, <2>2, <2>3, <2>4, <2>5
<1>8. 1 <= Len(w) /\ w[1] = K[d + 1] /\ Len(z) = Len(w) - 1
  BY <1>3, <1>4, <1>5, <1>6
<1>9. QED
  BY <1>7, <1>8 DEF LeavesOut, A, B, w, z

LEMMA DataIsPacket == Seq(DataPacket) \subseteq Seq(Packet)
  BY PacketIs

\* The head goes into the hand.
LEMMA HeadTaken ==
  ASSUME NEW K \in Seq(Packet), NEW W \in Seq(Packet), W # <<>>
  PROVE  K \o <<Head(W)>> \o Tail(W) = K \o <<>> \o W
<1>1. Head(W) \in Packet /\ Tail(W) \in Seq(Packet) /\ <<Head(W)>> \o Tail(W) = W
  OBVIOUS
<1>2. <<Head(W)>> \in Seq(Packet) /\ <<>> \in Seq(Packet)
  BY <1>1
<1>3. K \o <<Head(W)>> \o Tail(W) = K \o (<<Head(W)>> \o Tail(W))
  BY <1>1, <1>2, ConcatAssociative
<1>4. K \o <<>> = K
  BY ConcatEmptySeq
<1>5. QED
  BY <1>1, <1>3, <1>4

\* The packet in hand is kept back.
LEMMA HeldKept ==
  ASSUME NEW K \in Seq(Packet), NEW p \in Packet, NEW W \in Seq(Packet)
  PROVE  Append(K, p) \o <<>> \o W = K \o <<p>> \o W
<1>1. Append(K, p) = K \o <<p>> /\ Append(K, p) \in Seq(Packet)
  BY AppendIsConcat
<1>2. Append(K, p) \o <<>> = Append(K, p)
  BY <1>1, ConcatEmptySeq
<1>3. QED
  BY <1>1, <1>2

\* A packet is sent.
LEMMA SentBehind ==
  ASSUME NEW K \in Seq(Packet), NEW H \in Seq(Packet), NEW W \in Seq(Packet), NEW p \in Packet
  PROVE  K \o H \o Append(W, p) = Append(K \o H \o W, p)
<1>1. (K \o H) \in Seq(Packet) /\ <<p>> \in Seq(Packet)
  BY ConcatProperties
<1> DEFINE A == K \o H
<1> HIDE DEF A
<1>2. (A \o W) \in Seq(Packet) /\ A \in Seq(Packet)
  BY <1>1, ConcatProperties DEF A
<1>3. Append(W, p) = W \o <<p>> /\ Append(A \o W, p) = (A \o W) \o <<p>>
  BY <1>2, AppendIsConcat
<1>4. A \o (W \o <<p>>) = (A \o W) \o <<p>>
  BY <1>1, <1>2, ConcatAssociative
<1>5. QED
  BY <1>3, <1>4 DEF A

-----------------------------------------------------------------------------
(* The invariant, one client at a time.                                    *)

Done(ca, c) == IF ca.at = "flush" /\ ca.c = c THEN ca.done ELSE 0
Hand(ca, c) == IF ca.at \in {"flush", "deliver"} /\ ca.c = c THEN <<ca.pkg>> ELSE <<>>
Behind(r, ca, c) == SubSeq(r.kept, Done(ca, c) + 1, Len(r.kept)) \o Hand(ca, c) \o r.wire

WholeWaits(r) == r.wire # <<>> /\ r.tail >= StlvLen(Head(r.wire))

\* The state of client c, its record being r and read_client_socket being at ca.
ClientIs(c, r, ca, lo, hi, out) ==
  /\ r \in Client /\ r.tail <= StlvBytes(r.wire) /\ r.tail <= MainBuffSize /\ Bytes(r.kept) <= r.buffLen
  /\ lo \in Nat /\ hi \in Nat /\ lo <= hi /\ out \subseteq 1 .. hi
  /\ ~r.open => r = NoClient
  /\ (ca.at # "idle" => ca.c # c) => ~WholeWaits(r)
  /\ InOrder(Behind(r, ca, c), lo, hi, out)

Shared ==
  /\ chan \in Seq(Lens) /\ Total(chan) < RecvSize
  /\ client \in [Clients -> Client] /\ call \in Call
  /\ sent \in [Clients -> Nat] /\ last \in [Clients -> Nat] /\ gone \in [Clients -> SUBSET Nat]
  /\ lost \in 0 .. MaxLost /\ CallAt

LEMMA WaitingIs == \A c : Waiting(c) = Behind(client[c], call, c)
  BY DEF Waiting, StillKept, InHand, Behind, Done, Hand

LEMMA IInvParts ==
  IInv <=> /\ Shared
           /\ \A c \in Clients : ClientIs(c, client[c], call, last[c], sent[c], gone[c])
<1>1. ASSUME IInv PROVE Shared /\ \A c \in Clients : ClientIs(c, client[c], call, last[c], sent[c], gone[c])
  <2>1. Shared
    BY <1>1 DEF IInv, TypeOK, Shared
  <2>2. ASSUME NEW c \in Clients PROVE ClientIs(c, client[c], call, last[c], sent[c], gone[c])
    <3>1. InOrder(Behind(client[c], call, c), last[c], sent[c], gone[c])
      BY <1>1, WaitingIs DEF IInv, CompleteInOrder, InOrder
    <3>2. (call.at # "idle" => call.c # c) => ~WholeWaits(client[c])
      BY <1>1 DEF IInv, UnpackedElsewhere, Complete, WholeWaits
    <3>3. ~client[c].open => client[c] = NoClient
      BY <1>1 DEF IInv, ClosedIsClear
    <3>4. QED
      BY <1>1, <3>1, <3>2, <3>3 DEF IInv, TypeOK, WireBytes, ClientIs
  <2>3. QED
    BY <2>1, <2>2
<1>2. ASSUME Shared, \A c \in Clients : ClientIs(c, client[c], call, last[c], sent[c], gone[c]) PROVE IInv
  <2>1. TypeOK
    BY <1>2 DEF Shared, ClientIs, TypeOK, WireBytes
  <2>2. CallAt
    BY <1>2 DEF Shared
  <2>3. ClosedIsClear
    BY <1>2 DEF ClientIs, ClosedIsClear
  <2>4. UnpackedElsewhere
    BY <1>2 DEF ClientIs, UnpackedElsewhere, Complete, WholeWaits
  <2>5. CompleteInOrder
    BY <1>2, WaitingIs DEF ClientIs, CompleteInOrder, InOrder
  <2>6. QED
    BY <2>1, <2>2, <2>3, <2>4, <2>5 DEF IInv
<1>3. QED
  BY <1>1, <1>2

LEMMA IInvPartsNext ==
  ASSUME Shared', \A c \in Clients : ClientIs(c, client'[c], call', last'[c], sent'[c], gone'[c])
  PROVE  IInv'
<1>1. (IInv <=> /\ Shared
                /\ \A c \in Clients : ClientIs(c, client[c], call, last[c], sent[c], gone[c]))'
  BY IInvParts, PTL
<1>2. QED
  BY <1>1

LEMMA CallIs ==
  ASSUME NEW ca \in Call
  PROVE  /\ ca.at \in {"idle", "unpack", "flush", "deliver"}
         /\ ca.at = "idle" => ca = Idle
         /\ ca.at # "idle" => ca.c \in Clients
         /\ ca.at \in {"flush", "deliver"} => ca.pkg \in DataPacket
         /\ ca.at = "flush" => ca.done \in Nat /\ ca = Flushing(ca.c, ca.pkg, ca.done)
         /\ ca.at = "deliver" => ca = Delivering(ca.c, ca.pkg)
  BY DEF Call, Idle, Flushing, Delivering

LEMMA Calls ==
  ASSUME NEW c \in Clients, NEW p \in DataPacket, NEW d \in Nat
  PROVE  /\ Idle \in Call /\ Idle.at = "idle"
         /\ Unpacking(c) \in Call /\ Unpacking(c).at = "unpack" /\ Unpacking(c).c = c
         /\ Flushing(c, p, d) \in Call /\ Flushing(c, p, d).at = "flush" /\ Flushing(c, p, d).c = c
         /\ Flushing(c, p, d).pkg = p /\ Flushing(c, p, d).done = d
         /\ Delivering(c, p) \in Call /\ Delivering(c, p).at = "deliver" /\ Delivering(c, p).c = c
         /\ Delivering(c, p).pkg = p
  BY DEF Call, Idle, Unpacking, Flushing, Delivering

LEMMA RecordIs ==
  ASSUME NEW r \in Client
  PROVE  /\ r.open \in BOOLEAN /\ r.verify \in BOOLEAN /\ r.wire \in Seq(Packet) /\ r.tail \in Nat
         /\ r.kept \in Seq(DataPacket) /\ r.kept \in Seq(Packet) /\ r.buffLen \in Nat
         /\ Bytes(r.kept) \in Nat /\ StlvBytes(r.wire) \in Nat
<1>1. /\ r.open \in BOOLEAN /\ r.verify \in BOOLEAN /\ r.wire \in Seq(Packet) /\ r.tail \in Nat
      /\ r.kept \in Seq(DataPacket) /\ r.buffLen \in Nat
  BY DEF Client
<1>2. QED
  BY <1>1, DataIsPacket, LengthsOf, StlvLengthsOf

\* What waits where the carrier is not at work with a packet of c, where it
\* is about to deliver one, and where it first flushes what was kept back.
LEMMA BehindPlain ==
  ASSUME NEW r \in Client, NEW ca, NEW c, ca.at \in {"idle", "unpack"} \/ ca.c # c
  PROVE  Behind(r, ca, c) = r.kept \o <<>> \o r.wire
<1>1. Done(ca, c) = 0 /\ Hand(ca, c) = <<>>
  BY DEF Done, Hand
<1>2. SubSeq(r.kept, 0 + 1, Len(r.kept)) = r.kept
  BY RecordIs, SubSeqFull
<1>3. QED
  BY <1>1, <1>2 DEF Behind

LEMMA BehindDelivering ==
  ASSUME NEW r \in Client, NEW c, NEW p
  PROVE  Behind(r, Delivering(c, p), c) = r.kept \o <<p>> \o r.wire
<1>1. Done(Delivering(c, p), c) = 0 /\ Hand(Delivering(c, p), c) = <<p>>
  BY DEF Done, Hand, Delivering
<1>2. SubSeq(r.kept, 0 + 1, Len(r.kept)) = r.kept
  BY RecordIs, SubSeqFull
<1>3. QED
  BY <1>1, <1>2 DEF Behind

LEMMA BehindFlushing ==
  ASSUME NEW r, NEW c, NEW p, NEW d
  PROVE  Behind(r, Flushing(c, p, d), c) = SubSeq(r.kept, d + 1, Len(r.kept)) \o <<p>> \o r.wire
<1>1. Done(Flushing(c, p, d), c) = d /\ Hand(Flushing(c, p, d), c) = <<p>>
  BY DEF Done, Hand, Flushing
<1>2. QED
  BY <1>1 DEF Behind

LEMMA BehindIsPackets ==
  ASSUME NEW r \in Client, NEW ca \in Call, NEW c, ca.at = "flush" /\ ca.c = c => ca.done <= Len(r.kept)
  PROVE  Behind(r, ca, c) \in Seq(Packet)
<1>1. r.kept \in Seq(Packet) /\ r.wire \in Seq(Packet)
  BY RecordIs
<1>2. Hand(ca, c) \in Seq(Packet)
  BY CallIs, PacketIs DEF Hand
<1>3. Done(ca, c) \in Nat
  BY CallIs DEF Done
<1>4. SubSeq(r.kept, Done(ca, c) + 1, Len(r.kept)) \in Seq(Packet)
  BY <1>1, <1>3
<1>5. QED
  BY <1>1, <1>2, <1>4, ThreeParts DEF Behind

\* A step with one client leaves the state of the others as it is.
LEMMA OneClient ==
  ASSUME IInv, NEW c \in Clients, Shared',
         \A d \in Clients \ {c} :
           client'[d] = client[d] /\ last'[d] = last[d] /\ sent'[d] = sent[d] /\ gone'[d] = gone[d],
         \/ call' = call
         \/ (call.at # "idle" => call.c = c) /\ (call'.at # "idle" => call'.c = c),
         ClientIs(c, client'[c], call', last'[c], sent'[c], gone'[c])
  PROVE  IInv'
<1>1. ASSUME NEW d \in Clients \ {c}
      PROVE  ClientIs(d, client'[d], call', last'[d], sent'[d], gone'[d])
  <2>1. ClientIs(d, client[d], call, last[d], sent[d], gone[d])
    BY IInvParts
  <2>2. CASE call' = call
    BY <2>1, <2>2
  <2>3. CASE (call.at # "idle" => call.c = c) /\ (call'.at # "idle" => call'.c = c)
    <3>1. (call.at # "idle" => call.c # d) /\ (call'.at # "idle" => call'.c # d)
      BY <2>3
    <3>2. client[d] \in Client
      BY <2>1 DEF ClientIs
    <3>3. Behind(client[d], call', d) = Behind(client[d], call, d)
      BY <3>1, <3>2, BehindPlain, ZenonT(60)
    <3>4. ClientIs(d, client[d], call', last[d], sent[d], gone[d])
      BY <2>1, <3>1, <3>3 DEF ClientIs
    <3>5. QED
      BY <3>4
  <2>4. QED
    BY <2>2, <2>3
<1>2. QED
  BY <1>1, IInvPartsNext

\* A connection that has been freed.
LEMMA FreedClient ==
  ASSUME NEW c, NEW ca, ca.at = "idle", NEW hi \in Nat
  PROVE  ClientIs(c, NoClient, ca, hi, hi, {})
<1>1. NoClient \in Client /\ NoClient.kept = <<>> /\ NoClient.wire = <<>> /\ NoClient.tail = 0 /\ NoClient.buffLen = 0
  BY DEF NoClient, Client
<1>2. Behind(NoClient, ca, c) = <<>>
  <2>1. Behind(NoClient, ca, c) = NoClient.kept \o <<>> \o NoClient.wire
    BY <1>1, BehindPlain
  <2>2. <<>> \o <<>> \o <<>> = <<>>
    OBVIOUS
  <2>3. QED
    BY <1>1, <2>1, <2>2
<1>3. Increasing(<<>>) /\ Numbers(<<>>) = {}
  BY DEF Increasing, Numbers
<1>4. InOrder(<<>>, hi, hi, {})
  BY <1>3, SMTT(40) DEF InOrder
<1>5. QED
  BY <1>1, <1>2, <1>4, NoBytes, ClientAssumption DEF ClientIs, WholeWaits

-----------------------------------------------------------------------------
(* The peers and the network keep the invariant.                           *)

LEMMA AcceptKeeps ==
  ASSUME IInv, NEW c \in Clients, Accept(c)
  PROVE  IInv'
<1> DEFINE q == client'[c]
<1>1. PICK first \in {<<>>} \cup {<<pkg>> : pkg \in VerifyPacket} :
        client' = [client EXCEPT ![c] = [NoClient EXCEPT !.open = TRUE, !.wire = first]]
  BY DEF Accept
<1>2. Shared /\ ClientIs(c, client[c], call, last[c], sent[c], gone[c])
  BY IInvParts
<1>3. /\ client \in [Clients -> Client] /\ client[c] = NoClient /\ call = Idle /\ call.at = "idle"
      /\ UNCHANGED <<chan, call, sent, last, gone, lost>>
  BY <1>2 DEF Accept, ClientIs, Shared, Idle, history
<1>4. first \in Seq(Packet) /\ Len(first) <= 1 /\ \A i \in 1 .. Len(first) : ~IsData(first[i])
  <2>1. CASE first = <<>>
    BY <2>1
  <2>2. CASE \E pkg \in VerifyPacket : first = <<pkg>>
    BY <2>2, PacketIs DEF IsData, VerifyPacket
  <2>3. QED
    BY <2>1, <2>2
<1>5. /\ q = [open |-> TRUE, verify |-> FALSE, wire |-> first, tail |-> 0, kept |-> <<>>, buffLen |-> 0]
      /\ \A d \in Clients \ {c} : client'[d] = client[d]
  BY <1>1, <1>3 DEF NoClient
<1>6. /\ q \in Client /\ q.open = TRUE /\ q.wire = first /\ q.kept = <<>> /\ q.tail = 0 /\ q.buffLen = 0
  BY <1>4, <1>5 DEF Client
<1>7. client' \in [Clients -> Client]
  BY <1>1, <1>3, <1>6
<1> HIDE DEF q
<1>8. Behind(q, call, c) = first
  <2>1. Behind(q, call, c) = q.kept \o <<>> \o q.wire
    BY <1>3, <1>6, BehindPlain
  <2>2. <<>> \o <<>> \o first = first
    BY <1>4
  <2>3. QED
    BY <1>6, <2>1, <2>2
<1>9. InOrder(Behind(q, call, c), last[c], sent[c], gone[c])
  <2>1. Behind(client[c], call, c) = <<>>
    <3>1. Behind(client[c], call, c) = NoClient.kept \o <<>> \o NoClient.wire
      BY <1>2, <1>3, BehindPlain DEF ClientIs
    <3>2. <<>> \o <<>> \o <<>> = <<>>
      OBVIOUS
    <3>3. QED
      BY <3>1, <3>2 DEF NoClient
  <2>2. (last[c] + 1 .. sent[c]) \ gone[c] = {}
    BY <1>2, <2>1 DEF ClientIs, InOrder, Numbers
  <2>3. Numbers(first) = {} /\ Increasing(first)
    BY <1>4 DEF Numbers, Increasing
  <2>4. QED
    BY <1>8, <2>2, <2>3 DEF InOrder
<1>10. ~WholeWaits(q)
  <2>1. CASE q.wire = <<>>
    BY <2>1 DEF WholeWaits
  <2>2. CASE q.wire # <<>>
    <3>1. Head(q.wire) \in Packet
      BY <1>4, <1>6, <2>2
    <3>2. StlvLen(Head(q.wire)) \in Nat \ {0} /\ q.tail = 0
      BY <1>6, <3>1, PacketIs
    <3>3. ~(q.tail >= StlvLen(Head(q.wire)))
      BY ONLY <3>2
    <3>4. QED
      BY <3>3 DEF WholeWaits
  <2>3. QED
    BY <2>1, <2>2
<1>11. ClientIs(c, q, call, last[c], sent[c], gone[c])
  BY <1>2, <1>6, <1>9, <1>10, NoBytes, RecordIs, ClientAssumption DEF ClientIs
<1>12. Shared'
  BY <1>2, <1>3, <1>7 DEF Shared, CallAt
<1>13. QED
  BY <1>3, <1>5, <1>11, <1>12, OneClient DEF q

LEMMA PeerSendsKeeps ==
  ASSUME IInv, NEW c \in Clients, PeerSends(c)
  PROVE  IInv'
<1> DEFINE r == client[c]
<1> DEFINE q == client'[c]
<1> DEFINE hi == sent[c]
<1>1. Shared /\ ClientIs(c, r, call, last[c], hi, gone[c])
  BY IInvParts
<1>2. /\ client \in [Clients -> Client] /\ r \in Client /\ r.open /\ sent \in [Clients -> Nat] /\ hi \in Nat
      /\ sent' = [sent EXCEPT ![c] = hi + 1] /\ UNCHANGED <<chan, call, last, gone, lost>>
  BY <1>1 DEF PeerSends, Shared
<1>3. PICK n \in Lens : client' = [client EXCEPT ![c].wire = Append(@, [kind |-> "data", no |-> hi + 1, len |-> n])]
  BY DEF PeerSends
<1> DEFINE p == [kind |-> "data", no |-> hi + 1, len |-> n]
<1>4. p \in DataPacket /\ p.no = hi + 1 /\ p \in Packet
  BY <1>2 DEF DataPacket, Packet
<1>5. /\ q = [r EXCEPT !.wire = Append(r.wire, p)] /\ sent'[c] = hi + 1
      /\ \A d \in Clients \ {c} : client'[d] = client[d] /\ sent'[d] = sent[d]
  BY <1>2, <1>3
<1> HIDE DEF p, hi
<1>6. /\ Append(r.wire, p) \in Seq(Packet) /\ StlvBytes(Append(r.wire, p)) = StlvBytes(r.wire) + StlvLen(p)
      /\ StlvLen(p) \in Nat /\ StlvBytes(r.wire) \in Nat /\ r.wire \in Seq(Packet)
  BY <1>2, <1>4, RecordIs, StlvAppend, PacketIs
<1>7. /\ q \in Client /\ q.open = r.open /\ q.wire = Append(r.wire, p) /\ q.kept = r.kept
      /\ q.tail = r.tail /\ q.buffLen = r.buffLen
  BY <1>2, <1>5, <1>6, ZenonT(60) DEF Client
<1>8. client' \in [Clients -> Client] /\ sent' \in [Clients -> Nat]
  BY <1>2, <1>3, <1>7 DEF hi
<1> HIDE DEF q, r
<1>9. Behind(q, call, c) = Append(Behind(r, call, c), p)
  <2>1. r.kept \in Seq(Packet) /\ Done(call, c) \in Nat /\ Hand(call, c) \in Seq(Packet)
    BY <1>1, <1>2, RecordIs, CallIs, PacketIs DEF Done, Hand, Shared
  <2>2. SubSeq(r.kept, Done(call, c) + 1, Len(r.kept)) \in Seq(Packet)
    BY <2>1
  <2> DEFINE K == SubSeq(r.kept, Done(call, c) + 1, Len(r.kept))
  <2> DEFINE H == Hand(call, c)
  <2>3. Behind(q, call, c) = K \o H \o Append(r.wire, p) /\ Behind(r, call, c) = K \o H \o r.wire
    BY <1>7 DEF Behind
  <2> HIDE DEF K, H
  <2>4. K \o H \o Append(r.wire, p) = Append(K \o H \o r.wire, p)
    BY <1>4, <1>6, <2>1, <2>2, SentBehind, ZenonT(60) DEF K, H
  <2>5. QED
    BY <2>3, <2>4
<1>10. Behind(r, call, c) \in Seq(Packet)
  BY <1>1, <1>2, BehindIsPackets DEF Shared, CallAt, r
<1>11. InOrder(Behind(q, call, c), last[c], hi + 1, gone[c])
  BY <1>1, <1>4, <1>9, <1>10, OrderWithNext DEF ClientIs
<1>12. WholeWaits(q) => WholeWaits(r)
  <2>1. CASE r.wire = <<>>
    <3>1. r.tail = 0 /\ q.tail = 0
      BY <1>1, <1>2, <1>7, <2>1, NoBytes, RecordIs DEF ClientIs
    <3>2. Head(q.wire) \in Packet
      BY <1>4, <1>7, <2>1
    <3>3. StlvLen(Head(q.wire)) \in Nat \ {0}
      BY <3>2, PacketIs
    <3>4. ~(q.tail >= StlvLen(Head(q.wire)))
      BY ONLY <3>1, <3>3
    <3>5. QED
      BY <3>4 DEF WholeWaits
  <2>2. CASE r.wire # <<>>
    <3>1. Head(q.wire) = Head(r.wire)
      BY <1>4, <1>6, <1>7, <2>2
    <3>2. q.tail = r.tail
      BY <1>7
    <3>3. QED
      BY ONLY <2>2, <3>1, <3>2 DEF WholeWaits
  <2>3. QED
    BY <2>1, <2>2
<1>13. q.tail <= StlvBytes(q.wire)
  BY <1>1, <1>6, <1>7, <1>2, RecordIs DEF ClientIs
<1>14. hi + 1 \in Nat /\ last[c] <= hi + 1 /\ gone[c] \subseteq 1 .. hi + 1
  BY <1>1 DEF ClientIs
<1>15. ClientIs(c, q, call, last[c], hi + 1, gone[c])
  BY <1>1, <1>2, <1>7, <1>11, <1>12, <1>13, <1>14 DEF ClientIs
<1>16. Shared'
  <2>1. q.verify = r.verify
    BY <1>2, <1>5 DEF q, r
  <2>2. \A d \in Clients : /\ client'[d].open = client[d].open /\ client'[d].verify = client[d].verify
                           /\ client'[d].kept = client[d].kept
    BY <1>5, <1>7, <2>1 DEF q, r
  <2>3. call.at # "idle" => call.c \in Clients
    BY <1>1, CallIs DEF Shared
  <2>4. CallAt'
    BY <1>1, <1>2, <2>2, <2>3 DEF Shared, CallAt
  <2>5. QED
    BY <1>1, <1>2, <1>8, <2>4 DEF Shared
<1>17. QED
  BY <1>2, <1>5, <1>15, <1>16, OneClient DEF q

\* free_client_info of one connection, or of all.
LEMMA FreedKeeps ==
  ASSUME IInv, NEW C \in SUBSET Clients, Freed(C), lost' \in 0 .. MaxLost,
         \A d \in Clients \ C : call.at # "idle" => call.c # d
  PROVE  IInv'
<1>1. Shared /\ \A d \in Clients : ClientIs(d, client[d], call, last[d], sent[d], gone[d])
  BY IInvParts
<1>2. /\ call' = Idle /\ call'.at = "idle" /\ chan' = chan /\ sent' = sent
      /\ client \in [Clients -> Client] /\ NoClient \in Client
      /\ sent \in [Clients -> Nat] /\ last \in [Clients -> Nat] /\ gone \in [Clients -> SUBSET Nat]
  BY <1>1 DEF Freed, Idle, Shared, NoClient, Client
<1>3. /\ client' = [d \in Clients |-> IF d \in C THEN NoClient ELSE client[d]]
      /\ last' = [d \in Clients |-> IF d \in C THEN sent[d] ELSE last[d]]
      /\ gone' = [d \in Clients |-> IF d \in C THEN {} ELSE gone[d]]
  BY DEF Freed
<1>4. client' \in [Clients -> Client] /\ last' \in [Clients -> Nat] /\ gone' \in [Clients -> SUBSET Nat]
  BY <1>2, <1>3
<1>5. Shared'
  BY <1>1, <1>2, <1>4, CallIs DEF Shared, CallAt, Call
<1>6. ASSUME NEW d \in C PROVE ClientIs(d, client'[d], call', last'[d], sent'[d], gone'[d])
  <2>1. client'[d] = NoClient /\ last'[d] = sent[d] /\ sent'[d] = sent[d] /\ gone'[d] = {} /\ sent[d] \in Nat
    BY <1>2, <1>3
  <2>2. QED
    BY <1>2, <2>1, FreedClient
<1>7. ASSUME NEW d \in Clients \ C PROVE ClientIs(d, client'[d], call', last'[d], sent'[d], gone'[d])
  <2>1. client'[d] = client[d] /\ last'[d] = last[d] /\ sent'[d] = sent[d] /\ gone'[d] = gone[d]
    BY <1>2, <1>3
  <2>2. ClientIs(d, client[d], call, last[d], sent[d], gone[d]) /\ client[d] \in Client
    BY <1>1, <1>2
  <2>3. (call.at # "idle" => call.c # d) /\ (call'.at # "idle" => call'.c # d)
    BY <1>2
  <2>4. Behind(client[d], call', d) = Behind(client[d], call, d)
    BY <2>2, <2>3, BehindPlain
  <2>5. QED
    BY <2>1, <2>2, <2>3, <2>4 DEF ClientIs
<1>8. QED
  BY <1>5, <1>6, <1>7, IInvPartsNext

LEMMA LossKeeps ==
  ASSUME IInv, NEW c \in Clients, ConnectionLost(c) \/ CheckClientInfo(c) \/ KillCarrier
  PROVE  IInv'
<1>1. lost \in 0 .. MaxLost /\ MaxLost \in Nat
  BY IInvParts, ClientAssumption DEF Shared
<1>2. lost' \in 0 .. MaxLost
  BY <1>1 DEF ConnectionLost, CheckClientInfo, KillCarrier
<1>3. CASE ConnectionLost(c) \/ CheckClientInfo(c)
  <2>1. Freed({c}) /\ call.at = "idle" /\ {c} \in SUBSET Clients
    BY <1>3 DEF ConnectionLost, CheckClientInfo, Idle
  <2>2. QED
    BY <1>2, <2>1, FreedKeeps
<1>4. CASE KillCarrier
  <2>1. Freed(Clients) /\ Clients \in SUBSET Clients
    BY <1>4 DEF KillCarrier
  <2>2. QED
    BY <1>2, <2>1, FreedKeeps
<1>5. QED
  BY <1>3, <1>4

-----------------------------------------------------------------------------
(* The unpacking loop keeps the invariant.                                 *)

LEMMA RecvKeeps ==
  ASSUME IInv, NEW c \in Clients, Recv(c)
  PROVE  IInv'
<1> DEFINE r == client[c]
<1> DEFINE q == client'[c]
<1>1. Shared /\ ClientIs(c, r, call, last[c], sent[c], gone[c])
  BY IInvParts
<1>2. /\ client \in [Clients -> Client] /\ r \in Client /\ r.open /\ call = Idle /\ call.at = "idle"
      /\ call' = Unpacking(c) /\ UNCHANGED <<chan, sent, last, gone, lost>>
  BY <1>1 DEF Recv, Shared, history, Idle
<1>3. PICK k \in 1 .. LeastOf(MainBuffSize, StlvBytes(r.wire)) - r.tail :
        client' = [client EXCEPT ![c].tail = @ + k]
  BY DEF Recv, WireBytes
<1>4. r.tail \in Nat /\ StlvBytes(r.wire) \in Nat /\ MainBuffSize \in Nat
  BY <1>2, RecordIs, ClientAssumption
<1>5. r.tail + k \in Nat /\ r.tail + k <= MainBuffSize /\ r.tail + k <= StlvBytes(r.wire)
  BY <1>3, <1>4 DEF LeastOf
<1>6. q = [r EXCEPT !.tail = r.tail + k] /\ \A d \in Clients \ {c} : client'[d] = client[d]
  BY <1>2, <1>3
<1>7. /\ q \in Client /\ q.wire = r.wire /\ q.kept = r.kept /\ q.tail = r.tail + k /\ q.buffLen = r.buffLen
      /\ q.open = r.open
  BY <1>2, <1>5, <1>6, ZenonT(60) DEF Client
<1>8. client' \in [Clients -> Client]
  BY <1>2, <1>3, <1>7
<1>9. Unpacking(c) \in Call /\ Unpacking(c).at = "unpack" /\ Unpacking(c).c = c
  BY DEF Call, Unpacking
<1>10. q.open
  BY <1>2, <1>7
<1> HIDE DEF r, q
<1>11. Behind(q, call', c) = Behind(r, call, c)
  BY <1>2, <1>7, <1>9, BehindPlain, ZenonT(60)
<1>12. ClientIs(c, q, call', last[c], sent[c], gone[c])
  BY <1>1, <1>2, <1>5, <1>7, <1>9, <1>10, <1>11 DEF ClientIs
<1>13. Shared'
  BY <1>1, <1>2, <1>8, <1>9, <1>10 DEF Shared, CallAt, q
<1>14. QED
  BY <1>2, <1>6, <1>9, <1>12, <1>13, OneClient DEF q

LEMMA UnpackEndsKeeps ==
  ASSUME IInv, NEW c \in Clients, UnpackEnds(c)
  PROVE  IInv'
<1>1. Shared /\ ClientIs(c, client[c], call, last[c], sent[c], gone[c])
  BY IInvParts
<1>2. /\ call.at = "unpack" /\ call.c = c /\ call' = Idle /\ call'.at = "idle" /\ Idle \in Call
      /\ UNCHANGED <<chan, client, sent, last, gone, lost>> /\ client[c] \in Client
  BY <1>1 DEF UnpackEnds, Unpacking, Idle, history, Call, Shared
<1>3. ~WholeWaits(client[c])
  BY DEF UnpackEnds, Complete, WholeWaits
<1>4. Behind(client[c], call', c) = Behind(client[c], call, c)
  BY <1>2, BehindPlain
<1>5. ClientIs(c, client'[c], call', last'[c], sent'[c], gone'[c])
  BY <1>1, <1>2, <1>3, <1>4 DEF ClientIs
<1>6. Shared'
  BY <1>1, <1>2 DEF Shared, CallAt
<1>7. QED
  BY <1>2, <1>5, <1>6, OneClient

\* The record after the first packet has been unpacked.
UnpackedRecord(r, v) ==
  [open |-> r.open, verify |-> v, wire |-> Tail(r.wire), tail |-> r.tail - StlvLen(Head(r.wire)),
   kept |-> r.kept, buffLen |-> r.buffLen]

LEMMA UnpackedIs ==
  ASSUME IInv, NEW c \in Clients, Complete(c), NEW v \in BOOLEAN, NEW q, q = UnpackedRecord(client[c], v)
  PROVE  /\ q \in Client /\ q.open = client[c].open /\ q.verify = v /\ q.wire = Tail(client[c].wire)
         /\ q.kept = client[c].kept /\ q.buffLen = client[c].buffLen
         /\ q.tail <= StlvBytes(q.wire) /\ q.tail <= MainBuffSize
         /\ Head(client[c].wire) \in Packet /\ client[c].wire # <<>>
<1> DEFINE r == client[c]
<1> DEFINE h == StlvLen(Head(r.wire))
<1>1. ClientIs(c, r, call, last[c], sent[c], gone[c]) /\ r \in Client
  BY IInvParts DEF Shared
<1>2. r.wire # <<>> /\ r.tail >= h /\ r.wire \in Seq(Packet) /\ r.tail \in Nat
  BY <1>1, RecordIs DEF Complete
<1>3. /\ Head(r.wire) \in Packet /\ Tail(r.wire) \in Seq(Packet) /\ h \in Nat
      /\ StlvBytes(r.wire) <= h + StlvBytes(Tail(r.wire))
  BY <1>2, StlvTail, PacketIs
<1>4. StlvBytes(r.wire) \in Nat /\ StlvBytes(Tail(r.wire)) \in Nat
  BY <1>2, <1>3, StlvLengthsOf
<1>5. r.tail <= StlvBytes(r.wire) /\ r.tail <= MainBuffSize /\ MainBuffSize \in Nat
  BY <1>1, ClientAssumption DEF ClientIs
<1> HIDE DEF h
<1>6. r.tail - h \in Nat /\ r.tail - h <= StlvBytes(Tail(r.wire)) /\ r.tail - h <= MainBuffSize
  BY <1>2, <1>3, <1>4, <1>5
<1>7. q = [open |-> r.open, verify |-> v, wire |-> Tail(r.wire), tail |-> r.tail - h,
           kept |-> r.kept, buffLen |-> r.buffLen]
  BY DEF h, UnpackedRecord
<1> HIDE DEF r
<1>8. /\ q \in Client /\ q.open = r.open /\ q.verify = v /\ q.wire = Tail(r.wire)
      /\ q.kept = r.kept /\ q.buffLen = r.buffLen /\ q.tail = r.tail - h
  BY <1>1, <1>3, <1>6, <1>7, RecordIs DEF Client
<1>9. QED
  BY <1>2, <1>3, <1>6, <1>8 DEF r

LEMMA UnpackVerifyKeeps ==
  ASSUME IInv, NEW c \in Clients, UnpackVerify(c)
  PROVE  IInv'
<1> DEFINE r == client[c]
<1> DEFINE q == client'[c]
<1> DEFINE v == r.verify \/ Head(r.wire).kind = "verify"
<1>1. Shared /\ ClientIs(c, r, call, last[c], sent[c], gone[c]) /\ client \in [Clients -> Client] /\ r \in Client
  BY IInvParts DEF Shared
<1>2. /\ call = Unpacking(c) /\ call.at = "unpack" /\ call.c = c /\ Complete(c) /\ ~IsData(Head(r.wire))
      /\ UNCHANGED <<chan, call, sent, last, gone, lost>>
  BY DEF UnpackVerify, Unpacking, history, IsData
<1>3. client' = [Unpacked(c) EXCEPT ![c].verify = @ \/ Head(r.wire).kind = "verify"]
  BY DEF UnpackVerify
<1>4. v \in BOOLEAN
  OBVIOUS
<1>5. /\ q = UnpackedRecord(r, v)
      /\ \A d \in Clients \ {c} : client'[d] = client[d]
      /\ client' \in [Clients -> Client] <=> q \in Client
  BY <1>1, <1>3 DEF Unpacked, UnpackedRecord, Client
<1> HIDE DEF v
<1>6. /\ q \in Client /\ q.open = r.open /\ q.wire = Tail(r.wire) /\ q.kept = r.kept /\ q.buffLen = r.buffLen
      /\ q.tail <= StlvBytes(q.wire) /\ q.tail <= MainBuffSize
      /\ Head(r.wire) \in Packet /\ r.wire # <<>>
  BY <1>2, <1>4, <1>5, UnpackedIs
<1>7. client' \in [Clients -> Client]
  BY <1>5, <1>6
<1>8. r.open
  BY <1>1, <1>2 DEF Shared, CallAt
<1>9. r.kept \in Seq(Packet) /\ r.wire \in Seq(Packet)
  BY <1>1, RecordIs
<1> HIDE DEF r, q
<1>10. InOrder(Behind(q, call, c), last[c], sent[c], gone[c])
  <2> DEFINE w == r.kept \o <<>> \o r.wire
  <2> DEFINE z == r.kept \o <<>> \o Tail(r.wire)
  <2>1. Behind(r, call, c) = w /\ Behind(q, call, c) = z
    BY <1>1, <1>2, <1>6, BehindPlain
  <2>2. w \in Seq(Packet) /\ z \in Seq(Packet)
    BY <1>6, <1>9, TwoParts, StlvTail
  <2>3. LeavesOut(z, w, Len(r.kept) + 1) /\ Len(r.kept) + 1 \in 1 .. Len(w) /\ w[Len(r.kept) + 1] = Head(r.wire)
    BY <1>6, <1>9, WithoutHead
  <2> HIDE DEF w, z
  <2>4. InOrder(w, last[c], sent[c], gone[c])
    BY <1>1, <2>1 DEF ClientIs
  <2>5. QED
    BY <1>2, <2>1, <2>2, <2>3, <2>4, OrderWithoutVerify
<1>11. q.open
  BY <1>6, <1>8
<1>12. ClientIs(c, q, call, last[c], sent[c], gone[c])
  BY <1>1, <1>2, <1>6, <1>10, <1>11 DEF ClientIs
<1>13. Shared'
  BY <1>1, <1>2, <1>7, <1>11 DEF Shared, CallAt, q
<1>14. QED
  BY <1>2, <1>5, <1>12, <1>13, OneClient DEF q

LEMMA UnpackUnverifiedKeeps ==
  ASSUME IInv, NEW c \in Clients, UnpackUnverified(c)
  PROVE  IInv'
<1>1. call.c = c /\ Freed({c}) /\ lost' = lost
  BY DEF UnpackUnverified, Unpacking
<1>2. lost' \in 0 .. MaxLost /\ {c} \in SUBSET Clients
  BY <1>1, IInvParts DEF Shared
<1>3. QED
  BY <1>1, <1>2, FreedKeeps

LEMMA UnpackDataKeeps ==
  ASSUME IInv, NEW c \in Clients, UnpackData(c)
  PROVE  IInv'
<1> DEFINE r == client[c]
<1> DEFINE q == client'[c]
<1> DEFINE p == Head(r.wire)
<1> DEFINE v == r.verify
<1>1. Shared /\ ClientIs(c, r, call, last[c], sent[c], gone[c]) /\ client \in [Clients -> Client] /\ r \in Client
  BY IInvParts DEF Shared
<1>2. /\ call = Unpacking(c) /\ call.at = "unpack" /\ call.c = c /\ Complete(c) /\ r.verify /\ p.kind = "data"
      /\ UNCHANGED <<chan, sent, last, gone, lost>>
  BY DEF UnpackData, Unpacking, history
<1>3. client' = Unpacked(c) /\ call' = IF r.kept # <<>> THEN Flushing(c, p, 0) ELSE Delivering(c, p)
  BY DEF UnpackData
<1>4. v \in BOOLEAN
  BY <1>1, RecordIs
<1>5. /\ q = UnpackedRecord(r, v)
      /\ \A d \in Clients \ {c} : client'[d] = client[d]
      /\ client' \in [Clients -> Client] <=> q \in Client
  BY <1>1, <1>3 DEF Unpacked, UnpackedRecord, Client
<1> HIDE DEF v
<1>6. /\ q \in Client /\ q.open = r.open /\ q.verify = v /\ q.wire = Tail(r.wire)
      /\ q.kept = r.kept /\ q.buffLen = r.buffLen
      /\ q.tail <= StlvBytes(q.wire) /\ q.tail <= MainBuffSize
      /\ p \in Packet /\ r.wire # <<>>
  BY <1>2, <1>4, <1>5, UnpackedIs
<1>7. client' \in [Clients -> Client] /\ p \in DataPacket
  BY <1>2, <1>5, <1>6, PacketIs
<1>8. q.open /\ q.verify
  <2>1. r.open
    BY <1>1, <1>2 DEF Shared, CallAt
  <2>2. QED
    BY <1>2, <1>6, <2>1 DEF v
<1>9. r.kept \in Seq(Packet) /\ r.wire \in Seq(Packet) /\ Len(r.kept) \in Nat
  BY <1>1, RecordIs
<1> HIDE DEF r, q, p
<1>10. /\ call' \in Call /\ call'.at \in {"flush", "deliver"} /\ call'.c = c
       /\ call'.at = "flush" => call'.done <= Len(q.kept)
  <2>1. CASE r.kept # <<>>
    <3>1. call' = Flushing(c, p, 0) /\ 0 \in Nat
      BY <1>3, <2>1 DEF r, p
    <3>2. call' \in Call /\ call'.at = "flush" /\ call'.c = c /\ call'.done = 0
      BY <1>7, <3>1, Calls
    <3>3. QED
      BY <1>6, <1>9, <3>2
  <2>2. CASE r.kept = <<>>
    <3>1. call' = Delivering(c, p)
      BY <1>3, <2>2 DEF r, p
    <3>2. QED
      BY <1>7, <3>1, Calls
  <2>3. QED
    BY <2>1, <2>2
<1>11. Behind(q, call', c) = Behind(r, call, c)
  <2>1. Behind(r, call, c) = r.kept \o <<>> \o r.wire
    BY <1>1, <1>2, BehindPlain
  <2>2. r.kept \o <<>> \o r.wire = r.kept \o <<p>> \o Tail(r.wire)
    BY <1>6, <1>9, HeadTaken DEF p
  <2>3. CASE r.kept # <<>>
    <3>1. Behind(q, call', c) = SubSeq(q.kept, 0 + 1, Len(q.kept)) \o <<p>> \o q.wire
      BY <1>3, <2>3, BehindFlushing DEF r, p
    <3>2. SubSeq(q.kept, 0 + 1, Len(q.kept)) = r.kept
      BY <1>6, <1>9, SubSeqFull
    <3>3. QED
      BY <1>6, <2>1, <2>2, <3>1, <3>2
  <2>4. CASE r.kept = <<>>
    <3>1. Behind(q, call', c) = q.kept \o <<p>> \o q.wire
      BY <1>3, <1>6, <2>4, BehindDelivering DEF r, p
    <3>2. QED
      BY <1>6, <2>1, <2>2, <3>1
  <2>5. QED
    BY <2>3, <2>4
<1>12. ClientIs(c, q, call', last[c], sent[c], gone[c])
  BY <1>1, <1>6, <1>8, <1>10, <1>11 DEF ClientIs
<1>13. Shared'
  BY <1>1, <1>2, <1>7, <1>8, <1>10 DEF Shared, CallAt, q
<1>14. QED
  BY <1>2, <1>5, <1>10, <1>12, <1>13, OneClient DEF q

-----------------------------------------------------------------------------
(* recv_client_pkg and the upper process keep the invariant.               *)

LEMMA LensAreNat == Lens \subseteq Nat /\ Seq(Lens) \subseteq Seq(Nat)
<1>1. Lens \subseteq Nat
  BY ClientAssumption
<1>2. ASSUME NEW s \in Seq(Lens) PROVE s \in Seq(Nat)
  <2>1. Len(s) \in Nat /\ s \in [1 .. Len(s) -> Lens]
    BY LenProperties
  <2>2. s \in [1 .. Len(s) -> Nat]
    BY ONLY <1>1, <2>1
  <2>3. QED
    BY <2>1, <2>2, SeqDef
<1>3. QED
  BY <1>1, <1>2

LEMMA PutIntoChannel ==
  ASSUME NEW ch \in Seq(Lens), NEW p \in DataPacket, Total(ch) + p.len < RecvSize
  PROVE  Append(ch, p.len) \in Seq(Lens) /\ Total(Append(ch, p.len)) < RecvSize
<1>1. ch \in Seq(Nat) /\ p.len \in Lens /\ p.len \in Nat
  BY LensAreNat, PacketIs
<1>2. Append(ch, p.len) \in Seq(Lens)
  BY <1>1
<1>3. QED
  BY <1>1, <1>2, TotalAppend

LEMMA FlushPackageKeeps ==
  ASSUME IInv, NEW c \in Clients, FlushPackage(c)
  PROVE  IInv'
<1> DEFINE r == client[c]
<1> DEFINE p == call.pkg
<1> DEFINE d == call.done
<1> DEFINE f == r.kept[d + 1]
<1>1. Shared /\ ClientIs(c, r, call, last[c], sent[c], gone[c]) /\ client \in [Clients -> Client] /\ r \in Client
  BY IInvParts DEF Shared
<1>2. /\ call.at = "flush" /\ call.c = c /\ d < Len(r.kept) /\ HasRoom(f)
      /\ chan' = Append(chan, f.len) /\ last' = [last EXCEPT ![c] = f.no]
      /\ call' = [call EXCEPT !.done = @ + 1] /\ UNCHANGED <<client, sent, gone, lost>>
  BY DEF FlushPackage
<1>3. p \in DataPacket /\ d \in Nat /\ call = Flushing(c, p, d)
  BY <1>1, <1>2, CallIs DEF Shared
<1>4. r.kept \in Seq(DataPacket) /\ r.kept \in Seq(Packet) /\ r.wire \in Seq(Packet) /\ <<p>> \in Seq(Packet)
  BY <1>1, <1>3, RecordIs, PacketIs
<1>5. f \in DataPacket /\ f \in Packet /\ f.no \in Nat /\ IsData(f)
  <2>1. f \in DataPacket
    BY <1>2, <1>3, <1>4
  <2>2. QED
    BY <2>1, PacketIs DEF IsData
<1> HIDE DEF r, p, d, f
<1>6. call' = Flushing(c, p, d + 1)
  BY <1>2, <1>3 DEF Flushing
<1>7. call' \in Call /\ call'.at = "flush" /\ call'.c = c /\ call'.done = d + 1 /\ d + 1 <= Len(r.kept)
  <2>1. d + 1 \in Nat /\ Len(r.kept) \in Nat
    BY <1>3, <1>4
  <2>2. QED
    BY <1>2, <1>3, <1>6, <2>1, Calls, SMTT(40)
<1>8. chan' \in Seq(Lens) /\ Total(chan)' < RecvSize
  <2>1. chan \in Seq(Lens) /\ Total(chan) + f.len < RecvSize
    BY <1>1, <1>2 DEF Shared, HasRoom
  <2>2. chan' \in Seq(Lens) /\ Total(chan') < RecvSize
    BY <1>2, <1>5, <2>1, PutIntoChannel
  <2>3. QED
    BY <2>2 DEF Total, Units
<1>9. InOrder(Behind(r, call', c), f.no, sent[c], gone[c]) /\ f.no \in 1 .. sent[c]
  <2> DEFINE w == SubSeq(r.kept, d + 1, Len(r.kept)) \o <<p>> \o r.wire
  <2> DEFINE z == SubSeq(r.kept, (d + 1) + 1, Len(r.kept)) \o <<p>> \o r.wire
  <2>1. Behind(r, call, c) = w /\ Behind(r, call', c) = z
    BY <1>3, <1>6, BehindFlushing
  <2>2. w \in Seq(Packet) /\ z \in Seq(Packet)
    <3>1. SubSeq(r.kept, d + 1, Len(r.kept)) \in Seq(Packet) /\ SubSeq(r.kept, (d + 1) + 1, Len(r.kept)) \in Seq(Packet)
      BY <1>3, <1>4
    <3>2. QED
      BY <1>4, <3>1, ThreeParts
  <2>3. 1 <= Len(w) /\ w[1] = f /\ LeavesOut(z, w, 1)
    BY <1>2, <1>3, <1>4, WithoutKept, ZenonT(60) DEF f
  <2> HIDE DEF w, z
  <2>4. InOrder(w, last[c], sent[c], gone[c]) /\ last[c] \in Nat /\ sent[c] \in Nat
    BY <1>1, <2>1 DEF ClientIs
  <2>5. QED
    BY <1>5, <2>1, <2>2, <2>3, <2>4, OrderWithoutFirst
<1>10. /\ last' \in [Clients -> Nat] /\ last'[c] = f.no
       /\ \A e \in Clients \ {c} : last'[e] = last[e]
  BY <1>1, <1>2, <1>5 DEF Shared
<1>11. ClientIs(c, r, call', f.no, sent[c], gone[c])
  BY <1>1, <1>5, <1>7, <1>9 DEF ClientIs
<1>12. r.open /\ r.verify
  BY <1>1, <1>2 DEF Shared, CallAt, r
<1>13. Shared'
  BY <1>1, <1>2, <1>7, <1>8, <1>10, <1>12 DEF Shared, CallAt, r
<1>14. QED
  BY <1>2, <1>7, <1>10, <1>11, <1>13, OneClient DEF r

LEMMA FlushEndsKeeps ==
  ASSUME IInv, NEW c \in Clients, FlushEnds(c)
  PROVE  IInv'
<1> DEFINE r == client[c]
<1> DEFINE q == client'[c]
<1> DEFINE p == call.pkg
<1> DEFINE d == call.done
<1> DEFINE K == SubSeq(r.kept, d + 1, Len(r.kept))
<1>1. Shared /\ ClientIs(c, r, call, last[c], sent[c], gone[c]) /\ client \in [Clients -> Client] /\ r \in Client
  BY IInvParts DEF Shared
<1>2. /\ call.at = "flush" /\ call.c = c /\ client' = [client EXCEPT ![c].kept = SubSeq(@, d + 1, Len(@))]
      /\ call' = Delivering(c, p) /\ UNCHANGED <<chan, sent, last, gone, lost>>
  BY DEF FlushEnds, history
<1>3. p \in DataPacket /\ d \in Nat /\ call = Flushing(c, p, d) /\ d <= Len(r.kept)
  BY <1>1, <1>2, CallIs DEF Shared, CallAt
<1>4. r.kept \in Seq(DataPacket) /\ r.kept \in Seq(Packet) /\ r.wire \in Seq(Packet) /\ r.buffLen \in Nat
  BY <1>1, RecordIs
<1>5. K \in Seq(DataPacket) /\ Bytes(K) <= Bytes(r.kept)
  BY <1>3, <1>4, BytesRest
<1>6. q = [r EXCEPT !.kept = K] /\ \A e \in Clients \ {c} : client'[e] = client[e]
  BY <1>1, <1>2
<1> HIDE DEF K
<1>7. /\ q \in Client /\ q.open = r.open /\ q.wire = r.wire /\ q.kept = K /\ q.tail = r.tail
      /\ q.buffLen = r.buffLen
  BY <1>1, <1>5, <1>6 DEF Client
<1>8. q.verify = r.verify
  BY <1>1, <1>6 DEF Client
<1>9. client' \in [Clients -> Client]
  BY <1>1, <1>2, <1>6, <1>7 DEF K
<1>10. q.open /\ q.verify
  BY <1>1, <1>2, <1>7, <1>8 DEF Shared, CallAt
<1>11. call' \in Call /\ call'.at = "deliver" /\ call'.c = c
  BY <1>2, <1>3, Calls
<1> HIDE DEF r, q, p, d
<1>12. Behind(q, call', c) = Behind(r, call, c)
  <2>1. Behind(q, call', c) = q.kept \o <<p>> \o q.wire
    BY <1>2, <1>7, BehindDelivering
  <2>2. Behind(r, call, c) = K \o <<p>> \o r.wire
    BY <1>3, BehindFlushing DEF K
  <2>3. QED
    BY <1>7, <2>1, <2>2
<1>13. Bytes(q.kept) <= q.buffLen
  <2>1. Bytes(K) \in Nat /\ Bytes(r.kept) \in Nat
    BY <1>4, <1>5, LengthsOf
  <2>2. QED
    BY <1>1, <1>4, <1>5, <1>7, <2>1 DEF ClientIs
<1>14. ClientIs(c, q, call', last[c], sent[c], gone[c])
  BY <1>1, <1>7, <1>10, <1>11, <1>12, <1>13 DEF ClientIs
<1>15. Shared'
  BY <1>1, <1>2, <1>9, <1>10, <1>11 DEF Shared, CallAt, q
<1>16. QED
  BY <1>2, <1>6, <1>11, <1>14, <1>15, OneClient DEF q

LEMMA DeliverKeeps ==
  ASSUME IInv, NEW c \in Clients, Deliver(c)
  PROVE  IInv'
<1> DEFINE r == client[c]
<1> DEFINE p == call.pkg
<1>1. Shared /\ ClientIs(c, r, call, last[c], sent[c], gone[c]) /\ client \in [Clients -> Client] /\ r \in Client
  BY IInvParts DEF Shared
<1>2. /\ call.at = "deliver" /\ call.c = c /\ r.kept = <<>> /\ HasRoom(p)
      /\ chan' = Append(chan, p.len) /\ last' = [last EXCEPT ![c] = p.no]
      /\ call' = Unpacking(c) /\ UNCHANGED <<client, sent, gone, lost>>
  BY DEF Deliver, MayAppend
<1>3. p \in DataPacket /\ call = Delivering(c, p)
  BY <1>1, <1>2, CallIs DEF Shared
<1>4. r.wire \in Seq(Packet) /\ r.kept \in Seq(Packet) /\ p \in Packet /\ p.no \in Nat /\ IsData(p) /\ Len(r.kept) = 0
  BY <1>1, <1>2, <1>3, RecordIs, PacketIs DEF IsData
<1> HIDE DEF r, p
<1>5. call' \in Call /\ call'.at = "unpack" /\ call'.c = c
  BY <1>2 DEF Call, Unpacking
<1>6. chan' \in Seq(Lens) /\ Total(chan)' < RecvSize
  <2>1. chan \in Seq(Lens) /\ Total(chan) + p.len < RecvSize
    BY <1>1, <1>2 DEF Shared, HasRoom
  <2>2. chan' \in Seq(Lens) /\ Total(chan') < RecvSize
    BY <1>2, <1>3, <2>1, PutIntoChannel
  <2>3. QED
    BY <2>2 DEF Total, Units
<1>7. InOrder(Behind(r, call', c), p.no, sent[c], gone[c]) /\ p.no \in 1 .. sent[c]
  <2> DEFINE w == r.kept \o <<p>> \o r.wire
  <2> DEFINE z == r.kept \o <<>> \o r.wire
  <2>1. Behind(r, call, c) = w /\ Behind(r, call', c) = z
    BY <1>1, <1>3, <1>5, BehindDelivering, BehindPlain
  <2>2. w \in Seq(Packet) /\ z \in Seq(Packet)
    <3>1. <<p>> \in Seq(Packet)
      BY <1>4
    <3>2. QED
      BY <1>4, <3>1, ThreeParts, TwoParts
  <2>3. /\ LeavesOut(z, w, Len(r.kept) + 1) /\ Len(r.kept) + 1 \in 1 .. Len(w) /\ w[Len(r.kept) + 1] = p
    BY <1>4, WithoutHeld
  <2> HIDE DEF w, z
  <2>4. LeavesOut(z, w, 1) /\ 1 <= Len(w) /\ w[1] = p
    BY <1>4, <2>3
  <2>5. InOrder(w, last[c], sent[c], gone[c]) /\ last[c] \in Nat /\ sent[c] \in Nat
    BY <1>1, <2>1 DEF ClientIs
  <2>6. QED
    BY <1>4, <2>1, <2>2, <2>4, <2>5, OrderWithoutFirst
<1>8. /\ last' \in [Clients -> Nat] /\ last'[c] = p.no
      /\ \A e \in Clients \ {c} : last'[e] = last[e]
  BY <1>1, <1>2, <1>4 DEF Shared
<1>9. ClientIs(c, r, call', p.no, sent[c], gone[c])
  BY <1>1, <1>4, <1>5, <1>7 DEF ClientIs
<1>10. r.open
  BY <1>1, <1>2 DEF Shared, CallAt, r
<1>11. Shared'
  BY <1>1, <1>2, <1>5, <1>6, <1>8, <1>10 DEF Shared, CallAt, r
<1>12. QED
  BY <1>2, <1>5, <1>8, <1>9, <1>11, OneClient DEF r

\* buff_len after expand_recv_buff is never less than it was.
LEMMA ExpandedIs ==
  ASSUME IInv, NEW c \in Clients, NEW p \in DataPacket
  PROVE  /\ Expanded(c, p) \in Nat /\ client[c].buffLen \in Nat /\ client[c].buffLen <= Expanded(c, p)
         /\ Bytes(client[c].kept) \in Nat /\ Bytes(client[c].kept) <= client[c].buffLen
         /\ Expanded(c, p) - Bytes(client[c].kept) < p.len =>
              Expanded(c, p) = client[c].buffLen /\ client[c].buffLen >= MaxClientBuff
<1>1. client[c] \in Client /\ Bytes(client[c].kept) <= client[c].buffLen
  BY IInvParts DEF ClientIs
<1>2. client[c].buffLen \in Nat /\ Bytes(client[c].kept) \in Nat
  BY <1>1, RecordIs
<1>3. PackMax \in Nat /\ MaxClientBuff \in Nat /\ p.len \in Nat /\ p.len <= PackMax
  BY PacketIs, ClientAssumption
<1> DEFINE now == client[c].buffLen
<1> DEFINE b == Bytes(client[c].kept)
<1>4. Expanded(c, p) = IF now - b < p.len /\ now < MaxClientBuff THEN now + 2 * PackMax ELSE now
  BY DEF Expanded
<1> HIDE DEF now, b
<1>5. now \in Nat /\ b \in Nat /\ b <= now
  BY <1>1, <1>2 DEF now, b
<1>6. CASE now - b < p.len /\ now < MaxClientBuff
  <2>1. Expanded(c, p) = now + 2 * PackMax
    BY <1>4, <1>6
  <2>2. now + 2 * PackMax \in Nat /\ now <= now + 2 * PackMax /\ ~((now + 2 * PackMax) - b < p.len)
    BY <1>3, <1>5
  <2>3. QED
    BY <1>5, <2>1, <2>2 DEF now, b
<1>7. CASE ~(now - b < p.len /\ now < MaxClientBuff)
  <2>1. Expanded(c, p) = now
    BY <1>4, <1>7
  <2>2. now - b < p.len => now >= MaxClientBuff
    BY <1>3, <1>5, <1>7
  <2>3. QED
    BY <1>5, <2>1, <2>2 DEF now, b
<1>8. QED
  BY <1>6, <1>7

LEMMA KeepBackKeeps ==
  ASSUME IInv, NEW c \in Clients, KeepBack(c)
  PROVE  IInv'
<1> DEFINE r == client[c]
<1> DEFINE q == client'[c]
<1> DEFINE p == call.pkg
<1> DEFINE e == Expanded(c, p)
<1> DEFINE fits == e - Bytes(r.kept) >= p.len
<1> DEFINE K == IF fits THEN Append(r.kept, p) ELSE r.kept
<1> DEFINE out == IF fits THEN gone[c] ELSE gone[c] \cup {p.no}
<1>1. Shared /\ ClientIs(c, r, call, last[c], sent[c], gone[c]) /\ client \in [Clients -> Client] /\ r \in Client
  BY IInvParts DEF Shared
<1>2. /\ call.at = "deliver" /\ call.c = c /\ call' = Unpacking(c)
      /\ UNCHANGED <<chan, sent, last, lost>>
  BY DEF KeepBack
<1>3. /\ client' = [client EXCEPT ![c].buffLen = e, ![c].kept = IF fits THEN Append(@, p) ELSE @]
      /\ gone' = IF fits THEN gone ELSE [gone EXCEPT ![c] = @ \cup {p.no}]
  BY DEF KeepBack
<1>4. p \in DataPacket /\ call = Delivering(c, p)
  BY <1>1, <1>2, CallIs DEF Shared
<1>5. /\ r.wire \in Seq(Packet) /\ r.kept \in Seq(DataPacket) /\ r.kept \in Seq(Packet)
      /\ p \in Packet /\ p.no \in Nat /\ p.len \in Nat /\ IsData(p) /\ Len(r.kept) \in Nat
  BY <1>1, <1>4, RecordIs, PacketIs DEF IsData
<1>6. e \in Nat /\ r.buffLen <= e /\ r.buffLen \in Nat /\ Bytes(r.kept) \in Nat /\ Bytes(r.kept) <= r.buffLen
  BY <1>4, ExpandedIs
<1> HIDE DEF e
<1>7. K \in Seq(DataPacket) /\ Bytes(K) <= e
  <2>1. CASE fits
    <3>1. Append(r.kept, p) \in Seq(DataPacket) /\ Bytes(Append(r.kept, p)) = Bytes(r.kept) + p.len
      BY <1>4, <1>5, BytesAppend
    <3>2. Bytes(r.kept) + p.len <= e
      BY <1>5, <1>6, <2>1
    <3>3. K = Append(r.kept, p)
      BY <2>1
    <3> HIDE DEF K
    <3>4. Bytes(K) <= e
      BY <3>1, <3>2, <3>3
    <3>5. QED
      BY <3>1, <3>3, <3>4
  <2>2. CASE ~fits
    <3>1. K = r.kept
      BY <2>2
    <3> HIDE DEF K
    <3>2. Bytes(r.kept) <= e
      BY <1>6
    <3>3. QED
      BY <1>5, <3>1, <3>2
  <2>3. QED
    BY <2>1, <2>2
<1>8. /\ q = [open |-> r.open, verify |-> r.verify, wire |-> r.wire, tail |-> r.tail, kept |-> K, buffLen |-> e]
      /\ \A x \in Clients \ {c} : client'[x] = client[x]
      /\ client' \in [Clients -> Client] <=> q \in Client
  BY <1>1, <1>3 DEF Client
<1> HIDE DEF K
<1>9. /\ q \in Client /\ q.open = r.open /\ q.wire = r.wire /\ q.kept = K /\ q.tail = r.tail /\ q.buffLen = e
  BY <1>1, <1>6, <1>7, <1>8, RecordIs DEF Client
<1>10. gone' \in [Clients -> SUBSET Nat] /\ gone'[c] = out /\ \A x \in Clients \ {c} : gone'[x] = gone[x]
  BY <1>1, <1>3, <1>5 DEF Shared
<1>11. r.open
  BY <1>1, <1>2 DEF Shared, CallAt
<1>12. call' \in Call /\ call'.at = "unpack" /\ call'.c = c
  BY <1>2 DEF Call, Unpacking
<1> HIDE DEF r, q, p, fits, out
<1> DEFINE w == r.kept \o <<p>> \o r.wire
<1>13. Behind(r, call, c) = w /\ Behind(q, call', c) = K \o <<>> \o r.wire
  BY <1>1, <1>4, <1>9, <1>12, BehindDelivering, BehindPlain
<1>14. w \in Seq(Packet)
  <2>1. <<p>> \in Seq(Packet)
    BY <1>5
  <2>2. QED
    BY <1>5, <2>1, ThreeParts
<1>15. InOrder(w, last[c], sent[c], gone[c]) /\ last[c] \in Nat /\ sent[c] \in Nat /\ gone[c] \subseteq 1 .. sent[c]
  BY <1>1, <1>13 DEF ClientIs
<1>16. InOrder(Behind(q, call', c), last[c], sent[c], out) /\ out \subseteq 1 .. sent[c]
  <2>1. CASE fits
    <3>1. K = Append(r.kept, p) /\ out = gone[c]
      BY <2>1 DEF K, out
    <3>2. K \o <<>> \o r.wire = w
      BY <1>5, <3>1, HeldKept
    <3>3. QED
      BY <1>13, <1>15, <3>1, <3>2
  <2>2. CASE ~fits
    <3> DEFINE z == r.kept \o <<>> \o r.wire
    <3>1. K = r.kept /\ out = gone[c] \cup {p.no}
      BY <2>2 DEF K, out
    <3>2. /\ z \in Seq(Packet) /\ LeavesOut(z, w, Len(r.kept) + 1)
          /\ Len(r.kept) + 1 \in 1 .. Len(w) /\ w[Len(r.kept) + 1] = p
      BY <1>5, WithoutHeld, TwoParts
    <3>3. Behind(q, call', c) = z
      BY <1>13, <3>1
    <3> HIDE DEF z, w
    <3>4. InOrder(z, last[c], sent[c], gone[c] \cup {p.no}) /\ p.no \in 1 .. sent[c]
      BY <1>5, <1>14, <1>15, <3>2, OrderWithoutDropped
    <3>5. QED
      BY <1>15, <3>1, <3>3, <3>4
  <2>3. QED
    BY <2>1, <2>2
<1> HIDE DEF w
<1>17. Bytes(q.kept) <= q.buffLen /\ q.open
  BY <1>7, <1>9, <1>11
<1>18. ClientIs(c, q, call', last[c], sent[c], out)
  BY <1>1, <1>9, <1>12, <1>16, <1>17 DEF ClientIs
<1>19. Shared'
  BY <1>1, <1>2, <1>8, <1>9, <1>10, <1>12, <1>17, <1>3 DEF Shared, CallAt, q, KeepBack
<1>20. QED
  BY <1>2, <1>8, <1>10, <1>12, <1>18, <1>19, OneClient DEF q

LEMMA UpperRecvKeeps ==
  ASSUME IInv, UpperRecv
  PROVE  IInv'
<1>1. Shared /\ \A d \in Clients : ClientIs(d, client[d], call, last[d], sent[d], gone[d])
  BY IInvParts
<1>2. chan # <<>> /\ chan' = Tail(chan) /\ UNCHANGED <<client, call, sent, last, gone, lost>>
  BY DEF UpperRecv, history
<1>3. chan \in Seq(Lens) /\ chan \in Seq(Nat) /\ Total(chan) < RecvSize /\ RecvSize \in Nat
  <2>1. RecvSize \in Nat
    BY ClientAssumption
  <2>2. chan \in Seq(Lens) /\ Total(chan) < RecvSize
    BY <1>1 DEF Shared
  <2>3. QED
    BY <2>1, <2>2, LensAreNat
<1>4. Tail(chan) \in Seq(Lens)
  BY <1>2, <1>3
<1>5. Total(Tail(chan)) < RecvSize
  <2>1. Tail(chan) \in Seq(Nat) /\ Total(Tail(chan)) <= Total(chan)
    BY <1>2, <1>3, TotalTail
  <2>2. Total(chan) \in Nat /\ Total(Tail(chan)) \in Nat
    BY <1>3, <2>1, UnitsAreFinite
  <2>3. QED
    BY <1>3, <2>1, <2>2
<1>6. Total(chan)' < RecvSize
  BY <1>2, <1>5 DEF Total, Units
<1>7. Shared'
  BY <1>1, <1>2, <1>4, <1>6 DEF Shared, CallAt
<1>8. QED
  BY <1>1, <1>2, <1>7, IInvPartsNext

-----------------------------------------------------------------------------
(* The theorems.                                                           *)

LEMMA InitIsIInv == Init => IInv
<1> SUFFICES ASSUME Init PROVE IInv
  OBVIOUS
<1>1. /\ chan = <<>> /\ client = [c \in Clients |-> NoClient] /\ call = Idle /\ call.at = "idle"
      /\ sent = [c \in Clients |-> 0] /\ last = [c \in Clients |-> 0] /\ gone = [c \in Clients |-> {}] /\ lost = 0
  BY DEF Init, Idle
<1>2. NoClient \in Client /\ Idle \in Call /\ MaxLost \in Nat /\ RecvSize \in Nat \ {0}
  BY ClientAssumption DEF NoClient, Client, Call
<1>3. chan \in Seq(Lens) /\ Total(chan) < RecvSize
  BY <1>1, <1>2, TotalNone
<1>4. Shared
  BY <1>1, <1>2, <1>3 DEF Shared, CallAt
<1>5. ASSUME NEW c \in Clients PROVE ClientIs(c, client[c], call, last[c], sent[c], gone[c])
  <2> DEFINE zero == 0
  <2>1. /\ client[c] = NoClient /\ last[c] = zero /\ sent[c] = zero /\ gone[c] = {} /\ zero \in Nat
    BY <1>1
  <2> HIDE DEF zero
  <2>2. ClientIs(c, NoClient, call, zero, zero, {})
    BY <1>1, <2>1, FreedClient
  <2>3. QED
    BY <2>1, <2>2
<1>6. QED
  BY <1>4, <1>5, IInvParts

LEMMA NextKeepsIInv == IInv /\ [Next]_vars => IInv'
<1> SUFFICES ASSUME IInv, [Next]_vars PROVE IInv'
  OBVIOUS
<1>1. ASSUME NEW c \in Clients, Accept(c) PROVE IInv'
  BY <1>1, AcceptKeeps
<1>2. ASSUME NEW c \in Clients, PeerSends(c) PROVE IInv'
  BY <1>2, PeerSendsKeeps
<1>3. ASSUME NEW c \in Clients, ConnectionLost(c) \/ CheckClientInfo(c) PROVE IInv'
  BY <1>3, LossKeeps
<1>4. ASSUME NEW c \in Clients, Recv(c) PROVE IInv'
  BY <1>4, RecvKeeps
<1>5. ASSUME NEW c \in Clients, Handle(c) PROVE IInv'
  BY <1>5, UnpackEndsKeeps, UnpackVerifyKeeps, UnpackUnverifiedKeeps, UnpackDataKeeps, FlushEndsKeeps,
     DeliverKeeps, KeepBackKeeps DEF Handle
<1>6. ASSUME NEW c \in Clients, FlushPackage(c) PROVE IInv'
  BY <1>6, FlushPackageKeeps
<1>7. CASE KillCarrier
  <2>1. Freed(Clients) /\ lost' \in 0 .. MaxLost /\ Clients \in SUBSET Clients
    BY <1>7, IInvParts, ClientAssumption DEF KillCarrier, Shared
  <2>2. QED
    BY <2>1, FreedKeeps
<1>8. CASE UpperRecv
  BY <1>8, UpperRecvKeeps
<1>9. CASE UNCHANGED vars
  <2>1. Shared /\ \A d \in Clients : ClientIs(d, client[d], call, last[d], sent[d], gone[d])
    BY IInvParts
  <2>2. UNCHANGED <<chan, client, call, sent, last, gone, lost>>
    BY <1>9 DEF vars
  <2>3. Total(chan)' = Total(chan)
    BY <2>2 DEF Total, Units
  <2>4. Shared'
    BY <2>1, <2>2, <2>3 DEF Shared, CallAt
  <2>5. QED
    BY <2>1, <2>2, <2>4, IInvPartsNext
<1>10. QED
  BY <1>1, <1>2, <1>3, <1>4, <1>5, <1>6, <1>7, <1>8, <1>9 DEF Next

\* The inductive invariant, of any number of connections: their buffers and
\* packets are what the code takes them to be, the carrier is at work for an
\* open connection only, and nothing unpacked is left behind.
THEOREM Inductive == Spec => []IInv
<1>1. Init => IInv
  BY InitIsIInv
<1>2. IInv /\ [Next]_vars => IInv'
  BY NextKeepsIInv
<1>3. QED
  BY <1>1, <1>2, PTL DEF Spec

\* Buffers, lengths and the carrier's place in read_client_socket are what the
\* code takes them to be.
THEOREM TypeCorrect == Spec => []TypeOK
<1>1. IInv => TypeOK
  BY DEF IInv
<1>2. QED
  BY <1>1, Inductive, PTL

\* Every packet that has been sent on a connection and not dropped is still
\* kept back, in hand or on the way, once and in order, or it has been put
\* into the recv channel (recv_client_pkg, flush_recving_buff).
THEOREM InOrderAlways == Spec => []CompleteInOrder
<1>1. IInv => CompleteInOrder
  BY DEF IInv
<1>2. QED
  BY <1>1, Inductive, PTL

\* Every recv of read_client_socket has space to fill.
THEOREM SpaceAlways == Spec => []RecvHasSpace
<1>1. ASSUME IInv, NEW c \in Clients, call = Idle PROVE client[c].tail < MainBuffSize
  <2> DEFINE r == client[c]
  <2>1. ClientIs(c, r, call, last[c], sent[c], gone[c]) /\ call.at = "idle"
    BY <1>1, IInvParts DEF Idle
  <2>2. r \in Client /\ r.tail <= StlvBytes(r.wire) /\ ~WholeWaits(r)
    BY <2>1 DEF ClientIs
  <2>3. r.tail \in Nat /\ r.wire \in Seq(Packet)
    BY <2>2, RecordIs
  <2>4. PackMax \in Nat \ {0} /\ Over \in Nat /\ MainBuffSize \in Nat /\ PackMax + Over <= MainBuffSize
    BY ClientAssumption
  <2> HIDE DEF r
  <2>5. CASE r.wire = <<>>
    <3>1. r.tail = 0
      BY <2>2, <2>3, <2>5, NoBytes
    <3>2. QED
      BY <2>4, <3>1 DEF r
  <2>6. CASE r.wire # <<>>
    <3>1. Head(r.wire) \in Packet
      BY <2>3, <2>6
    <3>2. StlvLen(Head(r.wire)) \in Nat /\ StlvLen(Head(r.wire)) <= PackMax + Over
      BY <3>1, PacketIs
    <3>3. r.tail < StlvLen(Head(r.wire))
      BY <2>2, <2>3, <2>6, <3>2 DEF WholeWaits
    <3>4. QED
      BY <2>3, <2>4, <3>2, <3>3 DEF r
  <2>7. QED
    BY <2>5, <2>6
<1>2. IInv => RecvHasSpace
  BY <1>1 DEF RecvHasSpace
<1>3. QED
  BY <1>2, Inductive, PTL

\* What the actions do to the numbers dropped and to the last one delivered.
LEMMA GrowsWhere ==
  ASSUME IInv, [Next]_vars, NEW c \in Clients
  PROVE  /\ ~(gone'[c] \subseteq gone[c]) =>
              /\ KeepBack(c)
              /\ ~(Expanded(c, call.pkg) - Bytes(client[c].kept) >= call.pkg.len)
         /\ client'[c].open /\ last'[c] # last[c] => FlushPackage(c) \/ Deliver(c)
<1>1. gone \in [Clients -> SUBSET Nat] /\ last \in [Clients -> Nat]
  BY IInvParts DEF Shared
<1>2. ASSUME NEW C, Freed(C)
      PROVE  gone'[c] \subseteq gone[c] /\ ~(client'[c].open /\ last'[c] # last[c])
  <2>1. CASE c \in C
    <3>1. gone'[c] = {} /\ client'[c] = NoClient
      BY <1>2, <2>1 DEF Freed
    <3>2. ~NoClient.open
      BY DEF NoClient
    <3>3. QED
      BY <3>1, <3>2
  <2>2. CASE c \notin C
    BY <1>2, <2>2 DEF Freed
  <2>3. QED
    BY <2>1, <2>2
<1>3. ASSUME NEW d \in Clients, FlushPackage(d) \/ Deliver(d)
      PROVE  gone' = gone /\ (last'[c] # last[c] => c = d)
  BY <1>1, <1>3 DEF FlushPackage, Deliver
<1>4. ASSUME NEW d \in Clients, KeepBack(d)
      PROVE  /\ last' = last
             /\ ~(gone'[c] \subseteq gone[c]) =>
                  c = d /\ ~(Expanded(d, call.pkg) - Bytes(client[d].kept) >= call.pkg.len)
  BY <1>1, <1>4 DEF KeepBack
<1>5. ASSUME NEW d \in Clients,
             \/ Accept(d) \/ PeerSends(d) \/ Recv(d)
             \/ UnpackEnds(d) \/ UnpackVerify(d) \/ UnpackData(d) \/ FlushEnds(d)
      PROVE  gone' = gone /\ last' = last
  BY <1>5 DEF Accept, PeerSends, Recv, UnpackEnds, UnpackVerify, UnpackData, FlushEnds, history
<1>6. CASE UpperRecv \/ UNCHANGED vars
  BY <1>6 DEF UpperRecv, history, vars
<1>7. CASE KillCarrier
  BY <1>2, <1>7 DEF KillCarrier
<1>8. ASSUME NEW d \in Clients, ConnectionLost(d) \/ CheckClientInfo(d) \/ UnpackUnverified(d)
      PROVE  gone'[c] \subseteq gone[c] /\ ~(client'[c].open /\ last'[c] # last[c])
  BY <1>2, <1>8 DEF ConnectionLost, CheckClientInfo, UnpackUnverified
<1>9. CASE \E d \in Clients : FlushPackage(d) \/ Deliver(d)
  BY <1>3, <1>9
<1>10. CASE \E d \in Clients : KeepBack(d)
  BY <1>4, <1>10
<1>11. CASE \E d \in Clients :
             \/ Accept(d) \/ PeerSends(d) \/ Recv(d)
             \/ UnpackEnds(d) \/ UnpackVerify(d) \/ UnpackData(d) \/ FlushEnds(d)
  BY <1>5, <1>11
<1>12. CASE \E d \in Clients : ConnectionLost(d) \/ CheckClientInfo(d) \/ UnpackUnverified(d)
  BY <1>8, <1>12
<1>13. QED
  BY <1>6, <1>7, <1>9, <1>10, <1>11, <1>12 DEF Next, Handle

\* A packet is dropped only when recv_buffer has reached its limit and has no
\* room for it (recv_client_pkg, expand_recv_buff).
THEOREM DroppedAtLimit == Spec => DroppedOnlyAtLimit
<1>1. ASSUME IInv, [Next]_vars, NEW c \in Clients, ~(gone'[c] \subseteq gone[c])
      PROVE  /\ client'[c].buffLen >= MaxClientBuff
             /\ Bytes(client'[c].kept) + call.pkg.len > client'[c].buffLen
  <2> DEFINE r == client[c]
  <2> DEFINE p == call.pkg
  <2> DEFINE e == Expanded(c, p)
  <2>1. KeepBack(c) /\ ~(e - Bytes(r.kept) >= p.len)
    BY <1>1, GrowsWhere
  <2>2. Shared /\ client \in [Clients -> Client] /\ r \in Client
    BY <1>1, IInvParts DEF Shared
  <2>3. p \in DataPacket /\ p.len \in Nat
    BY <2>1, <2>2, CallIs, PacketIs DEF KeepBack, Shared
  <2>4. /\ e \in Nat /\ Bytes(r.kept) \in Nat
        /\ e - Bytes(r.kept) < p.len => e = r.buffLen /\ r.buffLen >= MaxClientBuff
    BY <1>1, <2>3, ExpandedIs
  <2>5. client'[c].buffLen = e /\ client'[c].kept = r.kept
    BY <2>1, <2>2 DEF KeepBack, Client
  <2> HIDE DEF r, p, e
  <2>6. e - Bytes(r.kept) < p.len /\ Bytes(r.kept) + p.len > e
    BY <2>1, <2>3, <2>4
  <2>7. QED
    BY <2>4, <2>5, <2>6 DEF p
<1>2. IInv /\ [Next]_vars =>
        [\A c \in Clients :
           ~(gone'[c] \subseteq gone[c]) =>
             /\ client'[c].buffLen >= MaxClientBuff
             /\ Bytes(client'[c].kept) + call.pkg.len > client'[c].buffLen]_vars
  BY <1>1
<1>3. QED
  BY <1>2, Inductive, PTL DEF Spec, DroppedOnlyAtLimit

\* Only a verified connection delivers into the recv channel
\* (recv_inner_proto, read_client_socket).
THEOREM VerifiedOnly == Spec => OnlyVerified
<1>1. ASSUME IInv, [Next]_vars, NEW c \in Clients, client'[c].open, last'[c] # last[c]
      PROVE  client[c].verify
  <2>1. FlushPackage(c) \/ Deliver(c)
    BY <1>1, GrowsWhere
  <2>2. call.at \in {"flush", "deliver"} /\ call.c = c
    BY <2>1 DEF FlushPackage, Deliver
  <2>3. QED
    BY <1>1, <2>2 DEF IInv, CallAt
<1>2. IInv /\ [Next]_vars =>
        [\A c \in Clients : client'[c].open /\ last'[c] # last[c] => client[c].verify]_vars
  BY <1>1
<1>3. QED
  BY <1>2, Inductive, PTL DEF Spec, OnlyVerified

=============================================================================
