-------------------------- MODULE SendChannelProofs --------------------------
(***************************************************************************)
(* The send channel's invariants for every channel size, header length,    *)
(* set of body lengths and number of kills.                                *)
(***************************************************************************)
EXTENDS SendChannel, TLAPS

-----------------------------------------------------------------------------
(* The positions of a channel, for every size.                             *)

\* Moving on by at most the whole length stays in the array.
LEMMA AdvType ==
  ASSUME NEW p \in Index, NEW n \in 0 .. Size
  PROVE  Adv(p, n) \in Index
  BY SizeAssumption DEF Adv, Index

\* Two moves are one.
LEMMA AdvAdv ==
  ASSUME NEW p \in Index, NEW m \in Nat, NEW n \in Nat, m + n <= Size
  PROVE  Adv(Adv(p, m), n) = Adv(p, m + n)
  BY SizeAssumption DEF Adv, Index

LEMMA AdvZero ==
  ASSUME NEW p \in Index
  PROVE  Adv(p, 0) = p
  BY SizeAssumption DEF Adv, Index

\* Dist is how far Adv has to go.
LEMMA AdvDist ==
  ASSUME NEW p \in Index, NEW j \in Index
  PROVE  Dist(p, j) \in 0 .. Size - 1 /\ Adv(p, Dist(p, j)) = j
  BY SizeAssumption DEF Adv, Dist, Index

LEMMA DistAdv ==
  ASSUME NEW p \in Index, NEW n \in 0 .. Size - 1
  PROVE  Dist(p, Adv(p, n)) = n
  BY SizeAssumption DEF Adv, Dist, Index

\* The code's empty_space is what the occupied bytes leave.
LEMMA FreeDist ==
  ASSUME NEW h \in Index, NEW t \in Index
  PROVE  FreeSpace(h, t) = Size - Dist(h, t)
  BY SizeAssumption DEF FreeSpace, Dist, Index

\* Moving the head on shortens the distance to the tail, ...
LEMMA HeadMoves ==
  ASSUME NEW h \in Index, NEW t \in Index, NEW n \in Nat, n <= Dist(h, t)
  PROVE  Dist(Adv(h, n), t) = Dist(h, t) - n
  BY SizeAssumption DEF Adv, Dist, Index

\* ... and moving the tail on, into free space, lengthens it.
LEMMA TailMoves ==
  ASSUME NEW h \in Index, NEW t \in Index, NEW n \in Nat, n < Size - Dist(h, t)
  PROVE  Dist(h, Adv(t, n)) = Dist(h, t) + n
  BY SizeAssumption DEF Adv, Dist, Index

\* No byte of the occupied stretch is among n of the free one, ...
LEMMA OccupiedApart ==
  ASSUME NEW h \in Index, NEW t \in Index, NEW u \in Nat, u < Dist(h, t),
         NEW m \in Nat, NEW n \in Nat, Dist(h, t) + m + n < Size
  PROVE  Dist(Adv(t, m), Adv(h, u)) >= n
  BY SizeAssumption DEF Adv, Dist, Index

\* ... nor is any that was laid down before them.
LEMMA EarlierApart ==
  ASSUME NEW t \in Index, NEW m \in Nat, NEW k \in Nat, k < m,
         NEW n \in Nat, m + n < Size
  PROVE  Dist(Adv(t, m), Adv(t, k)) >= n
  BY SizeAssumption DEF Adv, Dist, Index

\* What a copy into the array leaves there.
LEMMA CopyInType ==
  ASSUME NEW b \in [Index -> Cell], NEW pos \in Index, NEW n \in Nat,
         NEW p \in Packet, NEW off \in Nat
  PROVE  CopyIn(b, pos, n, p, off) \in [Index -> Cell]
<1>1. SUFFICES ASSUME NEW j \in Index
               PROVE  Byte(p, off + Dist(pos, j)) \in Cell
  BY <1>1 DEF CopyIn
<1>2. off + Dist(pos, j) \in Nat
  BY AdvDist, SizeAssumption
<1>3. QED
  BY <1>2 DEF Byte, Cell

LEMMA CopyInside ==
  ASSUME NEW b, NEW pos \in Index, NEW n \in 0 .. Size - 1, NEW p, NEW off \in Nat,
         NEW k \in 0 .. n - 1
  PROVE  CopyIn(b, pos, n, p, off)[Adv(pos, k)] = Byte(p, off + k)
<1>1. Adv(pos, k) \in Index /\ Dist(pos, Adv(pos, k)) = k
  BY AdvType, DistAdv, SizeAssumption
<1>2. QED
  BY <1>1 DEF CopyIn

LEMMA CopyOutside ==
  ASSUME NEW b, NEW pos \in Index, NEW n \in Nat, NEW p, NEW off \in Nat,
         NEW j \in Index, Dist(pos, j) >= n
  PROVE  CopyIn(b, pos, n, p, off)[j] = b[j]
<1>1. ~(Dist(pos, j) < n)
  BY AdvDist, SizeAssumption
<1>2. QED
  BY <1>1 DEF CopyIn

(***************************************************************************)
(* Copying n bytes in at m behind the tail, into free space, leaves the    *)
(* occupied bytes and those laid at the tail before as they were.          *)
(***************************************************************************)
LEMMA OccupiedKept ==
  ASSUME NEW b, NEW h \in Index, NEW t \in Index, NEW m \in Nat, NEW n \in Nat,
         Dist(h, t) + m + n < Size, NEW p, NEW off \in Nat,
         NEW u \in Nat, u < Dist(h, t)
  PROVE  CopyIn(b, Adv(t, m), n, p, off)[Adv(h, u)] = b[Adv(h, u)]
<1>1. Dist(h, t) \in 0 .. Size - 1 /\ Size \in Nat
  BY AdvDist, SizeAssumption
<1>2. Adv(t, m) \in Index /\ Adv(h, u) \in Index
  BY <1>1, AdvType
<1>3. Dist(Adv(t, m), Adv(h, u)) >= n
  BY OccupiedApart
<1>4. QED
  BY <1>2, <1>3, CopyOutside

LEMMA EarlierKept ==
  ASSUME NEW b, NEW t \in Index, NEW m \in Nat, NEW n \in Nat, m + n < Size,
         NEW p, NEW off \in Nat, NEW k \in 0 .. m - 1
  PROVE  CopyIn(b, Adv(t, m), n, p, off)[Adv(t, k)] = b[Adv(t, k)]
<1>1. Adv(t, m) \in Index /\ Adv(t, k) \in Index
  BY AdvType, SizeAssumption
<1>2. Dist(Adv(t, m), Adv(t, k)) >= n
  BY EarlierApart
<1>3. QED
  BY <1>1, <1>2, CopyOutside

\* ... and puts the n bytes of p from off on behind those.
LEMMA LaidBehind ==
  ASSUME NEW b, NEW t \in Index, NEW m \in Nat, NEW n \in Nat, m + n < Size,
         NEW p, NEW off \in Nat, NEW k \in 0 .. n - 1
  PROVE  CopyIn(b, Adv(t, m), n, p, off)[Adv(t, m + k)] = Byte(p, off + k)
<1>1. Adv(t, m) \in Index /\ n \in 0 .. Size - 1
  BY AdvType, SizeAssumption
<1>2. Adv(t, m + k) = Adv(Adv(t, m), k)
  BY AdvAdv, SizeAssumption
<1>3. QED
  BY <1>1, <1>2, CopyInside

\* A packet is never of length zero: it has a header.
LEMMA PackLenType ==
  ASSUME NEW p, p.len \in Nat
  PROVE  PackLen(p) \in Nat /\ PackLen(p) > 0 /\ HeadLen <= PackLen(p)
  BY HeadLenAssumption DEF PackLen

\* A faithful copy is taken for the packet it is a copy of.
LEMMA DecodeBytes ==
  ASSUME NEW p \in Packet
  PROVE  Decode(Bytes(p)) = p
<1>1. 0 \in 0 .. PackLen(p) - 1
  BY PackLenType, HeadLenAssumption DEF Packet
<1>2. Bytes(p)[0].pkt = p
  BY <1>1 DEF Bytes, Byte
<1>3. QED
  BY <1>2 DEF Decode

-----------------------------------------------------------------------------
(* The channel.                                                            *)

\* Stream positions of what is in the channel.
LEMMA Positions ==
  ASSUME TypeOK, Ledger, WholePacketsInOrder
  PROVE  /\ Published \in Nat /\ Consumed \in Nat /\ Consumed <= Published
         /\ \A i \in 1 .. Len(sent) : ends[i] <= Published
         /\ \A i \in Len(taken) + 1 .. Len(sent) :
              Consumed + PackLen(sent[i]) <= ends[i]
<1>1. /\ Len(sent) \in Nat /\ Len(taken) \in Nat /\ Len(ends) = Len(sent)
      /\ Len(taken) <= Len(sent)
      /\ \A i \in 1 .. Len(sent) : ends[i] \in Nat /\ sent[i] \in Packet
  BY DEF TypeOK, Ledger, WholePacketsInOrder
<1>2. (ends = <<>> <=> Len(sent) = 0) /\ (taken = <<>> <=> Len(taken) = 0)
  BY <1>1 DEF TypeOK
<1>3. \A i \in 1 .. Len(sent) : PackLen(sent[i]) \in Nat
  BY <1>1, PackLenType DEF Packet
<1>4. /\ Published \in Nat /\ Consumed \in Nat
      /\ \A i \in 1 .. Len(sent) : ends[i] <= Published
  BY <1>1, <1>2, <1>3 DEF Published, Consumed, Ledger
<1>5. Consumed <= Published
  BY <1>1, <1>2, <1>4 DEF Consumed
<1>6. ASSUME NEW i \in Len(taken) + 1 .. Len(sent)
      PROVE  Consumed + PackLen(sent[i]) <= ends[i]
  <2>1. CASE Len(taken) = 0
    BY <2>1, <1>1, <1>2, <1>3 DEF Consumed, Ledger
  <2>2. CASE Len(taken) > 0
    <3>1. Len(taken) \in 1 .. Len(sent) /\ Len(taken) < i /\ i \in 1 .. Len(sent)
      BY <2>2, <1>1
    <3>2. Consumed = ends[Len(taken)]
      BY <2>2, <1>2 DEF Consumed
    <3>3. QED
      BY <3>1, <3>2 DEF Ledger
  <2>3. QED
    BY <2>1, <2>2, <1>1
<1>7. QED
  BY <1>4, <1>5, <1>6

\* The offset from the head of byte k of an unread packet is within the
\* occupied stretch, whose length is Dist(head, tail).
LEMMA Within ==
  ASSUME TypeOK, Ledger, WholePacketsInOrder, Occupied,
         NEW i \in Len(taken) + 1 .. Len(sent), NEW k \in 0 .. PackLen(sent[i]) - 1
  PROVE  /\ ends[i] - PackLen(sent[i]) - Consumed + k \in Nat
         /\ ends[i] - PackLen(sent[i]) - Consumed + k < Dist(head, tail)
<1>1. /\ Len(sent) \in Nat /\ Len(taken) \in Nat /\ i \in 1 .. Len(sent)
      /\ ends[i] \in Nat /\ sent[i] \in Packet
  BY DEF TypeOK, Ledger, WholePacketsInOrder
<1>2. PackLen(sent[i]) \in Nat
  BY <1>1, PackLenType DEF Packet
<1>3. /\ Published \in Nat /\ Consumed \in Nat /\ ends[i] <= Published
      /\ Consumed + PackLen(sent[i]) <= ends[i]
  BY <1>1, Positions
<1>4. QED
  BY <1>1, <1>2, <1>3, SMTT(30) DEF Occupied

THEOREM InitIInv == Init => IInv
<1> SUFFICES ASSUME Init PROVE IInv
  OBVIOUS
<1> USE DEF Init
<1>1. TypeOK
  <2>1. NoPacket \in Packet /\ Byte(NoPacket, 0) \in Cell
    BY DEF NoPacket, Packet, Byte, Cell
  <2>2. 0 \in Index
    BY SizeAssumption DEF Index
  <2>3. /\ buf \in [Index -> Cell] /\ sended \in 0 .. CountWrap - 1
        /\ sent \in Seq(Packet) /\ ends \in Seq(Nat)
        /\ taken \in Seq(Packet \X {"delivered"})
    BY <2>1, CountWrapAssumption
  <2>4. /\ wpc \in WriterPCs /\ rpc \in ReaderPCs /\ kills \in [upper : Nat, carrier : Nat]
    BY DEF WriterPCs, ReaderPCs
  <2>5. QED
    BY <2>1, <2>2, <2>3, <2>4 DEF TypeOK
<1>2. Ledger
  BY DEF Ledger
<1>3. Occupied
  BY SizeAssumption DEF Occupied, Dist, Published, Consumed
<1>4. WholePacketsInOrder /\ UnreadIntact
  BY DEF WholePacketsInOrder, UnreadIntact
<1>5. WriterAt /\ ReaderAt
  BY DEF WriterAt, ReaderAt
<1>6. QED
  BY <1>1, <1>2, <1>3, <1>4, <1>5 DEF IInv

-----------------------------------------------------------------------------
(* Steps that leave the array, the indices and the history alone.          *)

LEMMA Frame ==
  ASSUME Ledger, Occupied, WholePacketsInOrder, UnreadIntact,
         UNCHANGED <<buf, head, tail, history>>
  PROVE  Ledger' /\ Occupied' /\ WholePacketsInOrder' /\ UnreadIntact'
  BY DEF history, Ledger, Occupied, Published, Consumed, WholePacketsInOrder, UnreadIntact

LEMMA WriterFrame ==
  ASSUME WriterAt, UNCHANGED <<buf, head, tail, writer>>
  PROVE  WriterAt'
  BY DEF writer, WriterAt, Laid

LEMMA ReaderFrame ==
  ASSUME ReaderAt, UNCHANGED <<head, reader, history>>
  PROVE  ReaderAt'
  BY DEF reader, history, ReaderAt, Due

LEMMA SendBeginStep ==
  ASSUME IInv, NEW len \in Lens, SendBegin(len)
  PROVE  IInv'
<1> USE DEF SendBegin, hub
<1>1. TypeOK'
  BY LensAssumption DEF IInv, TypeOK, WriterPCs, reader, history, Packet
<1>2. Ledger' /\ Occupied' /\ WholePacketsInOrder' /\ UnreadIntact'
  BY Frame DEF IInv
<1>3. WriterAt'
  <2>1. PackLen(wpkt') = HeadLen + len
    BY DEF PackLen
  <2>2. wpkt'.id \in 1 .. MaxSend /\ wpkt'.len \in Lens
    BY BoundsAssumption DEF IInv, TypeOK
  <2>3. QED
    BY <2>1, <2>2 DEF WriterAt
<1>4. ReaderAt'
  BY ReaderFrame DEF IInv
<1>5. QED
  BY <1>1, <1>2, <1>3, <1>4 DEF IInv

LEMMA CountUpStep ==
  ASSUME IInv, CountUpLoad \/ CountUpStore
  PROVE  IInv'
<1> USE DEF CountUpLoad, CountUpStore, hub
<1>1. TypeOK'
  BY CountWrapAssumption DEF IInv, TypeOK, WriterPCs, reader, history
<1>2. Ledger' /\ Occupied' /\ WholePacketsInOrder' /\ UnreadIntact'
  BY Frame DEF IInv
<1>3. WriterAt' /\ ReaderAt'
  BY ReaderFrame DEF IInv, WriterAt
<1>4. QED
  BY <1>1, <1>2, <1>3 DEF IInv

LEMMA KillUpperStep ==
  ASSUME IInv, KillUpper
  PROVE  IInv'
<1> USE DEF KillUpper, hub
<1>1. TypeOK'
  <2>1. 0 \in Index /\ NoPacket \in Packet
    BY SizeAssumption DEF Index, NoPacket, Packet
  <2>2. kills' \in [upper : Nat, carrier : Nat]
    <3>1. kills \in [upper : Nat, carrier : Nat] /\ kills' = [kills EXCEPT !.upper = @ + 1]
      BY DEF IInv, TypeOK
    <3>2. QED
      BY ONLY <3>1
  <2>3. QED
    BY <2>1, <2>2 DEF IInv, TypeOK, WriterPCs, reader, history
<1>2. Ledger' /\ Occupied' /\ WholePacketsInOrder' /\ UnreadIntact'
  BY Frame DEF IInv
<1>3. WriterAt' /\ ReaderAt'
  BY ReaderFrame DEF IInv, WriterAt
<1>4. QED
  BY <1>1, <1>2, <1>3 DEF IInv

LEMMA FetchBeginStep ==
  ASSUME IInv, FetchBegin
  PROVE  IInv'
<1> USE DEF FetchBegin, hub
<1>1. TypeOK'
  BY DEF IInv, TypeOK, ReaderPCs, writer, history
<1>2. Ledger' /\ Occupied' /\ WholePacketsInOrder' /\ UnreadIntact'
  BY Frame DEF IInv
<1>3. Len(taken) < Len(sent)
  <2>1. Len(taken) \in Nat /\ Len(sent) \in Nat /\ Len(taken) <= Len(sent)
        /\ Len(ends) = Len(sent)
    BY DEF IInv, TypeOK, WholePacketsInOrder, Ledger
  <2>2. SUFFICES ASSUME Len(taken) = Len(sent) PROVE FALSE
    BY <2>1
  <2>3. Published = Consumed
    BY <2>1, <2>2 DEF IInv, TypeOK, Published, Consumed
  <2>4. Dist(head, tail) = 0
    BY <2>3, Positions DEF IInv, Occupied
  <2>5. QED
    BY <2>4, AdvDist, AdvZero DEF IInv, TypeOK
<1>4. WriterAt' /\ ReaderAt'
  BY <1>3, WriterFrame DEF IInv, ReaderAt, history
<1>5. QED
  BY <1>1, <1>2, <1>4 DEF IInv

LEMMA CountDownStep ==
  ASSUME IInv, CountDownLoad \/ CountDownStore
  PROVE  IInv'
<1> USE DEF CountDownLoad, CountDownStore, hub
<1>1. TypeOK'
  BY DEF IInv, TypeOK, ReaderPCs, writer, history
<1>2. Ledger' /\ Occupied' /\ WholePacketsInOrder' /\ UnreadIntact'
  BY Frame DEF IInv
<1>3. WriterAt'
  BY WriterFrame DEF IInv
<1>4. ReaderAt'
  BY DEF IInv, ReaderAt, Due, history
<1>5. QED
  BY <1>1, <1>2, <1>3, <1>4 DEF IInv

LEMMA KillCarrierStep ==
  ASSUME IInv, KillCarrier
  PROVE  IInv'
<1> USE DEF KillCarrier, hub
<1>1. TypeOK'
  <2>1. 0 \in Index
    BY SizeAssumption DEF Index
  <2>2. kills' \in [upper : Nat, carrier : Nat]
    <3>1. kills \in [upper : Nat, carrier : Nat] /\ kills' = [kills EXCEPT !.carrier = @ + 1]
      BY DEF IInv, TypeOK
    <3>2. QED
      BY ONLY <3>1
  <2>3. QED
    BY <2>1, <2>2 DEF IInv, TypeOK, ReaderPCs, writer, history
<1>2. Ledger' /\ Occupied' /\ WholePacketsInOrder' /\ UnreadIntact'
  BY Frame DEF IInv
<1>3. WriterAt' /\ ReaderAt'
  BY WriterFrame DEF IInv, ReaderAt
<1>4. QED
  BY <1>1, <1>2, <1>3 DEF IInv

-----------------------------------------------------------------------------
(* The copies.                                                             *)

\* What the reader finds from the head on is the packet that is due.
LEMMA Front ==
  ASSUME IInv, Len(taken) < Len(sent)
  PROVE  /\ Due \in Packet /\ PackLen(Due) \in Nat /\ HeadLen <= PackLen(Due)
         /\ PackLen(Due) <= Dist(head, tail)
         /\ ends[Len(taken) + 1] = Consumed + PackLen(Due)
         /\ \A k \in 0 .. PackLen(Due) - 1 : buf[Adv(head, k)] = Byte(Due, k)
<1> DEFINE d == Len(taken) + 1
<1>1. /\ Len(taken) \in Nat /\ Len(sent) \in Nat /\ d \in 1 .. Len(sent)
      /\ d \in Len(taken) + 1 .. Len(sent) /\ Len(ends) = Len(sent)
  BY DEF IInv, TypeOK, Ledger
<1>2. Due \in Packet
  BY <1>1 DEF IInv, TypeOK, Due
<1>3. PackLen(Due) \in Nat /\ HeadLen <= PackLen(Due)
  BY <1>2, PackLenType DEF Packet
<1>4. ends[d] = Consumed + PackLen(Due)
  <2>1. CASE Len(taken) = 0
    <3>1. taken = <<>> /\ sent # <<>>
      BY <2>1, <1>1 DEF IInv, TypeOK
    <3>2. QED
      BY <2>1, <3>1, <1>3 DEF IInv, Ledger, Consumed, Due
  <2>2. CASE Len(taken) # 0
    <3>1. taken # <<>> /\ Len(taken) \in 1 .. Len(sent) - 1
      BY <2>2, <1>1 DEF IInv, TypeOK
    <3>2. QED
      BY <3>1 DEF IInv, Ledger, Consumed, Due
  <2>3. QED
    BY <2>1, <2>2
<1>5. Consumed \in Nat /\ Published \in Nat /\ ends[d] <= Published
  BY <1>1, Positions DEF IInv
<1>6. PackLen(Due) <= Dist(head, tail)
  BY <1>3, <1>4, <1>5 DEF IInv, Occupied
<1>7. ASSUME NEW k \in 0 .. PackLen(Due) - 1
      PROVE  buf[Adv(head, k)] = Byte(Due, k)
  <2>1. buf[Adv(head, ends[d] - PackLen(sent[d]) - Consumed + k)] = Byte(sent[d], k)
    BY <1>1 DEF IInv, UnreadIntact, Due
  <2>2. ends[d] - PackLen(sent[d]) - Consumed + k = k
    BY <1>3, <1>4, <1>5 DEF Due
  <2>3. QED
    BY <2>1, <2>2 DEF Due
<1>8. QED
  BY <1>2, <1>3, <1>4, <1>6, <1>7

\* A copy that leaves the occupied bytes alone leaves the unread packets alone.
LEMMA UnreadFrame ==
  ASSUME IInv, UNCHANGED <<head, tail, history>>,
         \A u \in Nat : u < Dist(head, tail) => buf'[Adv(head, u)] = buf[Adv(head, u)]
  PROVE  Ledger' /\ Occupied' /\ WholePacketsInOrder' /\ UnreadIntact'
<1>1. Ledger' /\ Occupied' /\ WholePacketsInOrder'
  BY DEF IInv, history, Ledger, Occupied, Published, Consumed, WholePacketsInOrder
<1>2. ASSUME NEW i \in Len(taken) + 1 .. Len(sent), NEW k \in 0 .. PackLen(sent[i]) - 1
      PROVE  buf'[Adv(head, ends[i] - PackLen(sent[i]) - Consumed + k)] = Byte(sent[i], k)
  BY Within DEF IInv, UnreadIntact
<1>3. UnreadIntact'
  BY <1>2 DEF UnreadIntact, history, Consumed
<1>4. QED
  BY <1>1, <1>3

\* The room a writer at work has, in bytes.
LEMMA Room ==
  ASSUME IInv, wpc \in {"head", "body", "publish"}
  PROVE  /\ wpkt \in Packet /\ wpkt.len \in Nat /\ PackLen(wpkt) = HeadLen + wpkt.len
         /\ Dist(head, tail) \in Nat /\ Dist(head, tail) + PackLen(wpkt) < Size
<1>1. wpkt \in Packet /\ PackLen(wpkt) = HeadLen + wpkt.len /\ head \in Index /\ tail \in Index
  BY DEF IInv, TypeOK, PackLen
<1>2. Dist(head, tail) \in 0 .. Size - 1 /\ FreeSpace(head, tail) = Size - Dist(head, tail)
  BY <1>1, AdvDist, FreeDist
<1>3. HasRoom(head, tail, PackLen(wpkt))
  BY DEF IInv, WriterAt
<1>4. wpkt.len \in Nat
  BY <1>1 DEF Packet
<1>5. QED
  BY <1>1, <1>2, <1>3, <1>4, SizeAssumption, HeadLenAssumption DEF HasRoom

LEMMA CopyHeadStep ==
  ASSUME IInv, CopyHead
  PROVE  IInv'
<1> USE DEF CopyHead
<1>1. /\ head \in Index /\ tail \in Index /\ wpos = tail /\ wpos = Adv(tail, 0)
      /\ buf \in [Index -> Cell]
  BY AdvZero DEF IInv, TypeOK, WriterAt
<1>2. /\ wpkt \in Packet /\ PackLen(wpkt) = HeadLen + wpkt.len /\ wpkt.len \in Nat
      /\ Dist(head, tail) \in Nat /\ Dist(head, tail) + 0 + HeadLen < Size
  BY Room, HeadLenAssumption, SizeAssumption
<1>3. /\ \A u \in Nat : u < Dist(head, tail) => buf'[Adv(head, u)] = buf[Adv(head, u)]
      /\ \A k \in 0 .. HeadLen - 1 : buf'[Adv(tail, k)] = Byte(wpkt, k)
  <2>1. buf' = CopyIn(buf, Adv(tail, 0), HeadLen, wpkt, 0)
    BY <1>1
  <2>2. 0 \in Nat /\ HeadLen \in Nat /\ 0 + HeadLen < Size
    BY <1>2, HeadLenAssumption, SizeAssumption
  <2>3. ASSUME NEW u \in Nat, u < Dist(head, tail)
        PROVE  buf'[Adv(head, u)] = buf[Adv(head, u)]
    BY ONLY <1>1, <1>2, <2>1, <2>2, <2>3, OccupiedKept
  <2>4. ASSUME NEW k \in 0 .. HeadLen - 1
        PROVE  buf'[Adv(tail, k)] = Byte(wpkt, k)
    <3>1. HeadLen \in 0 .. Size - 1 /\ 0 + k = k
      BY <2>2, SizeAssumption
    <3>2. CopyIn(buf, tail, HeadLen, wpkt, 0)[Adv(tail, k)] = Byte(wpkt, 0 + k)
      BY ONLY <1>1, <2>2, <3>1, <2>4, CopyInside
    <3>3. QED
      BY <1>1, <3>1, <3>2
  <2>5. QED
    BY <2>3, <2>4
<1>4. TypeOK'
  <2>1. buf' \in [Index -> Cell]
    BY <1>1, <1>2, CopyInType, HeadLenAssumption
  <2>2. wpos' \in Index
    BY <1>1, <1>2, AdvType, HeadLenAssumption, SizeAssumption
  <2>3. QED
    BY <2>1, <2>2 DEF IInv, TypeOK, WriterPCs, reader, history
<1>5. Ledger' /\ Occupied' /\ WholePacketsInOrder' /\ UnreadIntact'
  BY <1>3, UnreadFrame
<1>6. WriterAt'
  <2>1. Laid(wpkt, HeadLen)'
    BY <1>3, HeadLenAssumption DEF Laid
  <2>2. QED
    BY <1>1, <2>1 DEF IInv, WriterAt
<1>7. ReaderAt'
  BY ReaderFrame DEF IInv
<1>8. QED
  BY <1>4, <1>5, <1>6, <1>7 DEF IInv

LEMMA CopyBodyStep ==
  ASSUME IInv, CopyBody
  PROVE  IInv'
<1> USE DEF CopyBody
<1>1. /\ head \in Index /\ tail \in Index /\ wpos \in Index /\ wpos = Adv(tail, HeadLen)
      /\ Laid(wpkt, HeadLen) /\ buf \in [Index -> Cell]
  BY DEF IInv, TypeOK, WriterAt
<1>2. /\ wpkt \in Packet /\ PackLen(wpkt) = HeadLen + wpkt.len /\ wpkt.len \in Nat
      /\ Dist(head, tail) \in Nat /\ Dist(head, tail) + HeadLen + wpkt.len < Size
  BY Room, HeadLenAssumption, SizeAssumption
<1>3. /\ \A u \in Nat : u < Dist(head, tail) => buf'[Adv(head, u)] = buf[Adv(head, u)]
      /\ \A k \in 0 .. HeadLen - 1 : buf'[Adv(tail, k)] = buf[Adv(tail, k)]
      /\ \A k \in 0 .. wpkt.len - 1 : buf'[Adv(tail, HeadLen + k)] = Byte(wpkt, HeadLen + k)
  <2>1. buf' = CopyIn(buf, Adv(tail, HeadLen), wpkt.len, wpkt, HeadLen)
    BY <1>1
  <2>2. HeadLen \in Nat /\ HeadLen + wpkt.len < Size
    BY <1>2, HeadLenAssumption, SizeAssumption
  <2>3. ASSUME NEW u \in Nat, u < Dist(head, tail)
        PROVE  buf'[Adv(head, u)] = buf[Adv(head, u)]
    BY ONLY <1>1, <1>2, <2>1, <2>2, <2>3, OccupiedKept
  <2>4. ASSUME NEW k \in 0 .. HeadLen - 1
        PROVE  buf'[Adv(tail, k)] = buf[Adv(tail, k)]
    BY ONLY <1>1, <1>2, <2>1, <2>2, <2>4, EarlierKept
  <2>5. ASSUME NEW k \in 0 .. wpkt.len - 1
        PROVE  buf'[Adv(tail, HeadLen + k)] = Byte(wpkt, HeadLen + k)
    BY ONLY <1>1, <1>2, <2>1, <2>2, <2>5, LaidBehind
  <2>6. QED
    BY <2>3, <2>4, <2>5
<1>4. wpos' = Adv(tail, PackLen(wpkt))
  BY <1>1, <1>2, AdvAdv, HeadLenAssumption, SizeAssumption
<1>5. TypeOK'
  <2>1. buf' \in [Index -> Cell]
    BY <1>1, <1>2, CopyInType, HeadLenAssumption
  <2>2. wpos' \in Index
    BY <1>1, <1>2, <1>4, AdvType, HeadLenAssumption, SizeAssumption
  <2>3. QED
    BY <2>1, <2>2 DEF IInv, TypeOK, WriterPCs, reader, history
<1>6. Ledger' /\ Occupied' /\ WholePacketsInOrder' /\ UnreadIntact'
  BY <1>3, UnreadFrame
<1>7. WriterAt'
  <2>1. ASSUME NEW k \in 0 .. PackLen(wpkt) - 1
        PROVE  buf'[Adv(tail, k)] = Byte(wpkt, k)
    <3>1. CASE k < HeadLen
      BY <3>1, <1>1, <1>3, HeadLenAssumption DEF Laid
    <3>2. CASE k >= HeadLen
      <4>1. k - HeadLen \in 0 .. wpkt.len - 1 /\ HeadLen + (k - HeadLen) = k
        BY <3>2, <1>2, HeadLenAssumption
      <4>2. QED
        BY <4>1, <1>3
    <3>3. QED
      BY <3>1, <3>2, <1>2, HeadLenAssumption
  <2>2. Laid(wpkt, PackLen(wpkt))'
    BY <2>1 DEF Laid, PackLen
  <2>3. QED
    BY <1>4, <2>2 DEF IInv, WriterAt, PackLen
<1>8. ReaderAt'
  BY ReaderFrame DEF IInv
<1>9. QED
  BY <1>5, <1>6, <1>7, <1>8 DEF IInv

LEMMA FetchHeadStep ==
  ASSUME IInv, FetchHead
  PROVE  IInv'
<1> USE DEF FetchHead, hub
<1>1. Len(taken) < Len(sent) /\ head \in Index /\ tail \in Index /\ rpos = head
  BY DEF IInv, TypeOK, ReaderAt
<1>2. /\ PackLen(Due) \in Nat /\ HeadLen <= PackLen(Due)
      /\ \A k \in 0 .. PackLen(Due) - 1 : buf[Adv(head, k)] = Byte(Due, k)
      /\ PackLen(Due) <= Dist(head, tail) /\ Dist(head, tail) \in 0 .. Size - 1
  BY <1>1, Front, AdvDist
<1>3. rcopy' = [k \in 0 .. HeadLen - 1 |-> Byte(Due, k)]
  BY <1>1, <1>2, HeadLenAssumption DEF CopyOut
<1>4. rpos' \in Index /\ rpos' = Adv(head, HeadLen)
  BY <1>1, <1>2, AdvType, HeadLenAssumption, SizeAssumption
<1>5. TypeOK'
  BY <1>4 DEF IInv, TypeOK, ReaderPCs, writer, history
<1>6. Ledger' /\ Occupied' /\ WholePacketsInOrder' /\ UnreadIntact'
  BY Frame DEF IInv
<1>7. WriterAt'
  BY WriterFrame DEF IInv
<1>8. ReaderAt'
  BY <1>1, <1>3, <1>4 DEF ReaderAt, Due, history
<1>9. QED
  BY <1>5, <1>6, <1>7, <1>8 DEF IInv

LEMMA FetchBodyStep ==
  ASSUME IInv, FetchBody
  PROVE  IInv'
<1> USE DEF FetchBody, hub
<1>1. /\ Len(taken) < Len(sent) /\ head \in Index /\ tail \in Index
      /\ rpos = Adv(head, HeadLen) /\ rcopy = [k \in 0 .. HeadLen - 1 |-> Byte(Due, k)]
  BY DEF IInv, TypeOK, ReaderAt
<1>2. /\ PackLen(Due) \in Nat /\ HeadLen <= PackLen(Due)
      /\ \A k \in 0 .. PackLen(Due) - 1 : buf[Adv(head, k)] = Byte(Due, k)
      /\ PackLen(Due) <= Dist(head, tail) /\ Dist(head, tail) \in 0 .. Size - 1
      /\ Due \in Packet
  BY <1>1, Front, AdvDist
<1>3. DataLen(rcopy) = Due.len /\ Due.len \in Nat /\ PackLen(Due) = HeadLen + Due.len
  BY <1>1, <1>2, HeadLenAssumption DEF DataLen, Byte, Packet, PackLen
<1>4. ASSUME NEW k \in 0 .. PackLen(Due) - 1
      PROVE  (IF k < HeadLen THEN rcopy[k] ELSE buf[Adv(rpos, k - HeadLen)]) = Byte(Due, k)
  <2>1. CASE k < HeadLen
    <3>1. k \in 0 .. HeadLen - 1
      BY <2>1, <1>2, HeadLenAssumption
    <3>2. QED
      BY <2>1, <3>1, <1>1
  <2>2. CASE k >= HeadLen
    <3>1. Adv(rpos, k - HeadLen) = Adv(head, HeadLen + (k - HeadLen))
      BY <2>2, <1>1, <1>2, AdvAdv, HeadLenAssumption, SizeAssumption
    <3>2. HeadLen + (k - HeadLen) = k
      BY HeadLenAssumption, <1>2
    <3>3. QED
      BY <2>2, <3>1, <3>2, <1>2, HeadLenAssumption
  <2>3. QED
    BY <2>1, <2>2, <1>2, HeadLenAssumption
<1>5. rcopy' = Bytes(Due)
  <2>1. HeadLen + DataLen(rcopy) - 1 = PackLen(Due) - 1
    BY <1>3, HeadLenAssumption
  <2>2. rcopy' = [k \in 0 .. PackLen(Due) - 1 |->
                    IF k < HeadLen THEN rcopy[k] ELSE buf[Adv(rpos, k - HeadLen)]]
    BY <2>1 DEF Extend
  <2>3. QED
    BY ONLY <2>2, <1>4 DEF Bytes
<1>6. rpos' = Adv(head, PackLen(Due)) /\ rpos' \in Index
  BY <1>1, <1>2, <1>3, AdvAdv, AdvType, HeadLenAssumption, SizeAssumption
<1>7. TypeOK'
  BY <1>6 DEF IInv, TypeOK, ReaderPCs, writer, history
<1>8. Ledger' /\ Occupied' /\ WholePacketsInOrder' /\ UnreadIntact'
  BY Frame DEF IInv
<1>9. WriterAt'
  BY WriterFrame DEF IInv
<1>10. ReaderAt'
  BY <1>1, <1>5, <1>6 DEF ReaderAt, Due, history
<1>11. QED
  BY <1>7, <1>8, <1>9, <1>10 DEF IInv

-----------------------------------------------------------------------------
(* The two stores that publish.                                            *)

\* What appending a packet does to the stream and its positions.
LEMMA PublishEffect ==
  ASSUME IInv, PublishTail
  PROVE  /\ Len(sent) \in Nat /\ Len(sent') = Len(sent) + 1 /\ Len(ends') = Len(sent) + 1
         /\ \A i \in 1 .. Len(sent) : sent'[i] = sent[i] /\ ends'[i] = ends[i]
         /\ sent'[Len(sent) + 1] = wpkt
         /\ ends'[Len(sent) + 1] = Published + PackLen(wpkt)
         /\ sent' \in Seq(Packet) /\ ends' \in Seq(Nat)
         /\ Published' = Published + PackLen(wpkt) /\ Consumed' = Consumed
<1>1. /\ wpkt \in Packet /\ PackLen(wpkt) \in Nat /\ Published \in Nat
      /\ sent \in Seq(Packet) /\ ends \in Seq(Nat) /\ Len(ends) = Len(sent)
      /\ Len(taken) <= Len(sent) /\ Len(taken) \in Nat /\ (taken = <<>> <=> Len(taken) = 0)
  BY Room, Positions, PackLenType DEF PublishTail, IInv, TypeOK, Ledger, WholePacketsInOrder
<1>2. /\ sent' = Append(sent, wpkt) /\ ends' = Append(ends, Published + PackLen(wpkt))
      /\ taken' = taken
  BY DEF PublishTail, Publish
<1>3. /\ Len(sent) \in Nat /\ Len(sent') = Len(sent) + 1 /\ Len(ends') = Len(sent) + 1
      /\ \A i \in 1 .. Len(sent) : sent'[i] = sent[i] /\ ends'[i] = ends[i]
      /\ sent'[Len(sent) + 1] = wpkt
      /\ ends'[Len(sent) + 1] = Published + PackLen(wpkt)
      /\ sent' \in Seq(Packet) /\ ends' \in Seq(Nat)
  BY ONLY <1>1, <1>2
<1>4. Published' = Published + PackLen(wpkt)
  BY <1>3 DEF Published
<1>5. Consumed' = Consumed
  BY <1>1, <1>2, <1>3 DEF Consumed
<1>6. QED
  BY <1>3, <1>4, <1>5

LEMMA PublishTailStep ==
  ASSUME IInv, PublishTail
  PROVE  IInv'
<1> DEFINE n == Len(sent)
<1> DEFINE L == PackLen(wpkt)
<1>1. /\ n \in Nat /\ Len(sent') = n + 1 /\ Len(ends') = n + 1
      /\ \A i \in 1 .. n : sent'[i] = sent[i] /\ ends'[i] = ends[i]
      /\ sent'[n + 1] = wpkt /\ ends'[n + 1] = Published + L
      /\ sent' \in Seq(Packet) /\ ends' \in Seq(Nat)
      /\ Published' = Published + L /\ Consumed' = Consumed
  BY PublishEffect
<1>2. /\ wpkt \in Packet /\ L \in Nat /\ L > 0 /\ Dist(head, tail) \in Nat
      /\ Dist(head, tail) + L < Size
  BY Room, PackLenType DEF PublishTail
<1>3. /\ Published \in Nat /\ Consumed \in Nat /\ Consumed <= Published
      /\ \A i \in 1 .. n : ends[i] <= Published
      /\ head \in Index /\ tail \in Index /\ wpos = Adv(tail, L) /\ Laid(wpkt, L)
      /\ Len(taken) \in Nat /\ Len(taken) <= n
      /\ \A i \in 1 .. n : ends[i] \in Nat /\ PackLen(sent[i]) \in Nat
  <2>1. /\ Published \in Nat /\ Consumed \in Nat /\ Consumed <= Published
        /\ \A i \in 1 .. n : ends[i] <= Published
    BY Positions DEF IInv
  <2>2. /\ head \in Index /\ tail \in Index /\ wpos = Adv(tail, L) /\ Laid(wpkt, L)
        /\ Len(taken) \in Nat /\ Len(taken) <= n
    BY DEF PublishTail, IInv, TypeOK, WriterAt, WholePacketsInOrder
  <2>3. \A i \in 1 .. n : ends[i] \in Nat /\ sent[i] \in Packet
    BY DEF IInv, TypeOK, Ledger
  <2>4. \A i \in 1 .. n : PackLen(sent[i]) \in Nat
    BY <2>3, PackLenType DEF Packet
  <2>5. QED
    BY <2>1, <2>2, <2>3, <2>4
<1>4. TypeOK'
  <2>1. 0 \in Index /\ NoPacket \in Packet
    BY SizeAssumption DEF Index, NoPacket, Packet
  <2>2. tail' \in Index
    BY <1>2, <1>3, AdvType, SizeAssumption DEF PublishTail
  <2>3. QED
    BY <1>1, <2>1, <2>2 DEF PublishTail, Publish, IInv, TypeOK, WriterPCs, reader
<1>5. Ledger'
  <2>1. Len(ends') = Len(sent')
    BY <1>1
  <2>2. \A i \in 1 .. n + 1 : PackLen(sent'[i]) <= ends'[i]
    BY <1>1, <1>2, <1>3 DEF IInv, Ledger
  <2>3. \A i, j \in 1 .. n + 1 : i < j => ends'[i] + PackLen(sent'[j]) <= ends'[j]
    <3>1. SUFFICES ASSUME NEW i \in 1 .. n + 1, NEW j \in 1 .. n + 1, i < j
                   PROVE  ends'[i] + PackLen(sent'[j]) <= ends'[j]
      OBVIOUS
    <3>2. CASE j = n + 1
      <4>1. i \in 1 .. n
        BY <3>1, <3>2, <1>1
      <4>2. ends'[i] = ends[i] /\ ends[i] \in Nat /\ ends[i] <= Published
        BY <4>1, <1>1, <1>3
      <4>3. QED
        BY <3>2, <4>2, <1>1, <1>2, <1>3
    <3>3. CASE j # n + 1
      <4>1. n \in Nat
        BY <1>1
      <4>2. i \in 1 .. n /\ j \in 1 .. n
        BY ONLY <3>1, <3>3, <4>1
      <4>3. ends[i] + PackLen(sent[j]) <= ends[j]
        BY <3>1, <4>2 DEF IInv, Ledger
      <4>4. QED
        BY <4>2, <4>3, <1>1
    <3>4. QED
      BY <3>2, <3>3
  <2>4. \A i \in 1 .. n : ends'[i] + PackLen(sent'[i + 1]) = ends'[i + 1]
    <3>1. SUFFICES ASSUME NEW i \in 1 .. n
                   PROVE  ends'[i] + PackLen(sent'[i + 1]) = ends'[i + 1]
      OBVIOUS
    <3>2. CASE i = n
      <4>1. Published = ends[n]
        BY <3>1, <3>2, <1>1, <1>3 DEF IInv, Ledger, Published, TypeOK
      <4>2. QED
        BY <3>2, <4>1, <1>1, <1>3
    <3>3. CASE i # n
      BY <3>1, <3>3, <1>1, SMTT(30) DEF IInv, Ledger
    <3>4. QED
      BY <3>2, <3>3
  <2>5. ends'[1] = PackLen(sent'[1])
    <3>1. CASE n = 0
      <4>1. Published = 0
        BY <3>1 DEF IInv, Ledger, Published, TypeOK
      <4>2. QED
        BY <3>1, <4>1, <1>1, <1>2
    <3>2. CASE n # 0
      <4>1. sent # <<>> /\ 1 \in 1 .. n
        BY <3>2, <1>1 DEF IInv, TypeOK
      <4>2. QED
        BY <4>1, <1>1 DEF IInv, Ledger
    <3>3. QED
      BY <3>1, <3>2
  <2>6. \A i \in 1 .. n + 1 : sent'[i].id \in 1 .. MaxSend /\ sent'[i].len \in Lens
    BY <1>1 DEF PublishTail, IInv, WriterAt, Ledger
  <2>7. n + 1 - 1 = n
    BY <1>1
  <2>8. QED
    BY <1>1, <2>1, <2>2, <2>3, <2>4, <2>5, <2>6, <2>7 DEF Ledger
<1>6. Occupied'
  <2>1. Dist(head, Adv(tail, L)) = Dist(head, tail) + L
    BY <1>2, <1>3, TailMoves, SizeAssumption
  <2>2. QED
    BY <1>1, <1>2, <1>3, <2>1 DEF PublishTail, IInv, Occupied
<1>7. WholePacketsInOrder'
  BY <1>1, <1>3 DEF PublishTail, Publish, IInv, WholePacketsInOrder
<1>8. UnreadIntact'
  <2>1. SUFFICES ASSUME NEW i \in Len(taken) + 1 .. n + 1,
                        NEW k \in 0 .. PackLen(sent'[i]) - 1
                 PROVE  buf[Adv(head, ends'[i] - PackLen(sent'[i]) - Consumed + k)]
                          = Byte(sent'[i], k)
    BY <1>1 DEF UnreadIntact, PublishTail, Publish
  <2>2. CASE i = n + 1
    <3>1. Occupied /\ ends'[i] - PackLen(sent'[i]) - Consumed + k = Dist(head, tail) + k
      BY <2>2, <1>1, <1>2, <1>3 DEF IInv, Occupied
    <3>2. k \in 0 .. L - 1 /\ Dist(head, tail) + k <= Size
      BY <2>2, <1>1, <1>2, SizeAssumption
    <3>3. Adv(head, Dist(head, tail) + k) = Adv(tail, k)
      BY <3>2, <1>2, <1>3, AdvAdv, AdvDist
    <3>4. QED
      BY <2>2, <3>1, <3>2, <3>3, <1>1, <1>3 DEF Laid
  <2>3. CASE i # n + 1
    <3>1. i \in Len(taken) + 1 .. n /\ i \in 1 .. n
      BY <2>3, <1>1, <1>3
    <3>2. QED
      BY <3>1, <1>1 DEF IInv, UnreadIntact
  <2>4. QED
    BY <2>2, <2>3
<1>9. WriterAt'
  BY DEF PublishTail, WriterAt
<1>10. ReaderAt'
  <2>1. rpc # "idle" => Len(taken) < n /\ Len(taken) + 1 \in 1 .. n
    BY <1>1, <1>3 DEF IInv, ReaderAt
  <2>2. rpc # "idle" => Due' = Due
    BY <2>1, <1>1 DEF PublishTail, Publish, Due
  <2>3. rpc # "idle" => Len(taken') < Len(sent')
    BY <2>1, <1>1, <1>3 DEF PublishTail, Publish
  <2>4. QED
    BY <2>2, <2>3 DEF PublishTail, reader, IInv, ReaderAt
<1>11. QED
  BY <1>4, <1>5, <1>6, <1>7, <1>8, <1>9, <1>10 DEF IInv

LEMMA PublishHeadStep ==
  ASSUME IInv, PublishHead
  PROVE  IInv'
<1> DEFINE n == Len(taken)
<1> DEFINE L == PackLen(Due)
<1>1. /\ n < Len(sent) /\ n \in Nat /\ Len(sent) \in Nat /\ Len(ends) = Len(sent)
      /\ head \in Index /\ tail \in Index
      /\ rpos = Adv(head, L) /\ rcopy = Bytes(Due) /\ rpos \in Index
  BY DEF PublishHead, IInv, TypeOK, ReaderAt, Ledger
<1>2. /\ Due \in Packet /\ L \in Nat /\ L <= Dist(head, tail)
      /\ ends[n + 1] = Consumed + L /\ Dist(head, tail) \in 0 .. Size - 1
  BY <1>1, Front, AdvDist
<1>3. Decode(rcopy) = Due
  BY <1>1, <1>2, DecodeBytes
<1>4. /\ taken' = Append(taken, <<Due, "delivered">>)
      /\ sent' = sent /\ ends' = ends
  BY <1>3 DEF PublishHead, HandOn
<1>5. /\ taken' \in Seq(Packet \X {"delivered"}) /\ Len(taken') = n + 1
      /\ \A i \in 1 .. n : taken'[i] = taken[i]
      /\ taken'[n + 1] = <<Due, "delivered">>
  <2>1. taken \in Seq(Packet \X {"delivered"}) /\ <<Due, "delivered">> \in Packet \X {"delivered"}
    BY <1>2 DEF IInv, TypeOK
  <2>2. QED
    BY ONLY <1>4, <2>1
<1>6. Consumed' = Consumed + L
  BY <1>1, <1>2, <1>4, <1>5 DEF Consumed
<1>7. /\ Published \in Nat /\ Consumed \in Nat
  BY Positions DEF IInv
<1>8. TypeOK'
  <2>1. 0 \in Index
    BY SizeAssumption DEF Index
  <2>2. QED
    BY <1>1, <1>4, <1>5, <2>1 DEF PublishHead, IInv, TypeOK, ReaderPCs, writer
<1>9. Ledger'
  BY <1>4 DEF IInv, Ledger
<1>10. Dist(head', tail) = Dist(head, tail) - L
  BY <1>1, <1>2, HeadMoves DEF PublishHead
<1>11. Occupied'
  <2>1. Published' = Published /\ tail' = tail
    BY <1>4 DEF PublishHead, Published
  <2>2. QED
    BY <1>2, <1>6, <1>7, <1>10, <2>1 DEF IInv, Occupied
<1>12. WholePacketsInOrder'
  <2>1. n + 1 <= Len(sent)
    BY <1>1
  <2>2. ASSUME NEW i \in 1 .. n + 1 PROVE taken'[i][1] = sent[i]
    <3>1. CASE i = n + 1
      BY <3>1, <1>5 DEF Due
    <3>2. CASE i # n + 1
      BY <3>2, <1>1, <1>5 DEF IInv, WholePacketsInOrder
    <3>3. QED
      BY <3>1, <3>2
  <2>3. QED
    BY <2>1, <2>2, <1>4, <1>5 DEF WholePacketsInOrder
<1>13. UnreadIntact'
  <2>1. SUFFICES ASSUME NEW i \in n + 1 + 1 .. Len(sent),
                        NEW k \in 0 .. PackLen(sent[i]) - 1
                 PROVE  buf[Adv(rpos, ends[i] - PackLen(sent[i]) - (Consumed + L) + k)]
                          = Byte(sent[i], k)
    <3>1. /\ Len(taken') = n + 1 /\ Len(sent') = Len(sent) /\ head' = rpos /\ buf' = buf
          /\ sent' = sent /\ ends' = ends /\ Consumed' = Consumed + L
      BY <1>4, <1>5, <1>6 DEF PublishHead
    <3>2. QED
      BY <3>1 DEF UnreadIntact
  <2>2. i \in n + 1 .. Len(sent) /\ i \in 1 .. Len(sent) /\ n + 1 \in 1 .. Len(sent) /\ n + 1 < i
    BY <1>1
  <2>3. ends[i] \in Nat /\ PackLen(sent[i]) \in Nat
    <3>1. ends[i] \in Nat /\ sent[i] \in Packet
      BY <2>2, <1>1 DEF IInv, TypeOK
    <3>2. QED
      BY <3>1, PackLenType DEF Packet
  <2>4. ends[n + 1] + PackLen(sent[i]) <= ends[i]
    BY <2>2 DEF IInv, Ledger
  <2>5. /\ ends[i] - PackLen(sent[i]) - Consumed + k \in Nat
        /\ ends[i] - PackLen(sent[i]) - Consumed + k < Dist(head, tail)
    BY <2>2, Within DEF IInv
  <2>6. DEFINE off == ends[i] - PackLen(sent[i]) - (Consumed + L) + k
  <2>7. off \in Nat /\ L + off = ends[i] - PackLen(sent[i]) - Consumed + k /\ L + off <= Size
    <3>1. k \in Nat /\ L \in Nat /\ Size \in Nat
      BY <2>3, <1>2, SizeAssumption
    <3>2. Consumed + L + PackLen(sent[i]) <= ends[i]
      BY <2>4, <1>2
    <3>3. ends[i] - PackLen(sent[i]) - Consumed + k <= Size
      BY <2>5, <1>2, <3>1
    <3>4. off \in Nat
      BY <3>1, <3>2, <2>3, <1>7
    <3>5. L + off = ends[i] - PackLen(sent[i]) - Consumed + k
      BY <3>1, <2>3, <1>7
    <3>6. QED
      BY <3>3, <3>4, <3>5
  <2>8. Adv(rpos, off) = Adv(head, L + off)
    BY <2>7, <1>1, <1>2, AdvAdv
  <2>9. QED
    BY <2>2, <2>7, <2>8 DEF IInv, UnreadIntact
<1>14. WriterAt'
  <2>1. wpc \in {"head", "body", "publish"} => HasRoom(head', tail, PackLen(wpkt))
    <3>1. SUFFICES ASSUME wpc \in {"head", "body", "publish"}
                   PROVE  HasRoom(head', tail, PackLen(wpkt))
      OBVIOUS
    <3>2. /\ PackLen(wpkt) \in Nat
          /\ Dist(head, tail) + PackLen(wpkt) < Size
      BY <3>1, Room, PackLenType
    <3>3. FreeSpace(head', tail) = Size - Dist(head', tail)
      BY <1>1, FreeDist DEF PublishHead
    <3>4. QED
      BY <3>2, <3>3, <1>2, <1>10, SizeAssumption DEF HasRoom
  <2>2. QED
    BY <2>1 DEF PublishHead, writer, IInv, WriterAt, Laid
<1>15. ReaderAt'
  BY DEF PublishHead, ReaderAt
<1>16. QED
  BY <1>8, <1>9, <1>11, <1>12, <1>13, <1>14, <1>15 DEF IInv

-----------------------------------------------------------------------------
(* The theorems.                                                           *)

LEMMA NextIInv == IInv /\ [Next]_vars => IInv'
<1> SUFFICES ASSUME IInv, [Next]_vars PROVE IInv'
  OBVIOUS
<1>1. CASE \E len \in Lens : SendBegin(len)
  BY <1>1, SendBeginStep
<1>2. CASE CopyHead
  BY <1>2, CopyHeadStep
<1>3. CASE CopyBody
  BY <1>3, CopyBodyStep
<1>4. CASE PublishTail
  BY <1>4, PublishTailStep
<1>5. CASE CountUpLoad \/ CountUpStore
  BY <1>5, CountUpStep
<1>6. CASE FetchBegin
  BY <1>6, FetchBeginStep
<1>7. CASE FetchHead
  BY <1>7, FetchHeadStep
<1>8. CASE FetchBody
  BY <1>8, FetchBodyStep
<1>9. CASE CountDownLoad \/ CountDownStore
  BY <1>9, CountDownStep
<1>10. CASE PublishHead
  BY <1>10, PublishHeadStep
<1>11. CASE KillUpper
  BY <1>11, KillUpperStep
<1>12. CASE KillCarrier
  BY <1>12, KillCarrierStep
<1>13. CASE UNCHANGED vars
  <2>1. UNCHANGED <<buf, head, tail, history>> /\ UNCHANGED <<hub, writer, reader, ids, kills>>
    BY <1>13 DEF vars, hub
  <2>2. TypeOK'
    BY <2>1 DEF IInv, TypeOK, hub, writer, reader, history
  <2>3. QED
    BY <2>1, <2>2, Frame, WriterFrame, ReaderFrame DEF IInv
<1>14. QED
  BY <1>1, <1>2, <1>3, <1>4, <1>5, <1>6, <1>7, <1>8, <1>9, <1>10, <1>11, <1>12, <1>13
     DEF Next, Upper, Carrier

(***************************************************************************)
(* The inductive invariant holds throughout _send_to_bridge and            *)
(* fetch_send_channel, whatever the sizes and however often either is      *)
(* killed.                                                                 *)
(***************************************************************************)
THEOREM Inductive == Spec => []IInv
<1>1. Init => IInv
  BY InitIInv
<1>2. IInv /\ [Next]_vars => IInv'
  BY NextIInv
<1>3. QED
  BY <1>1, <1>2, PTL DEF Spec

\* Every index stays inside the channel and every field keeps its type.
THEOREM TypeCorrect == Spec => []TypeOK
<1>1. IInv => TypeOK
  BY DEF IInv
<1>2. QED
  BY <1>1, Inductive, PTL

\* fetch_send_channel hands on just the packets _send_to_bridge published,
\* whole and in order.
THEOREM WholeAndInOrder == Spec => []WholePacketsInOrder
<1>1. IInv => WholePacketsInOrder
  BY DEF IInv
<1>2. QED
  BY <1>1, Inductive, PTL

\* _send_to_bridge never writes over a byte not yet consumed.
THEOREM UnreadStaysIntact == Spec => []UnreadIntact
<1>1. IInv => UnreadIntact
  BY DEF IInv
<1>2. QED
  BY <1>1, Inductive, PTL

\* A copy by _send_to_bridge that does not split at the end of the array ends
\* below the head it was checked against.
LEMMA FitsBelowHead == IInv => CopyFits
<1> SUFFICES ASSUME IInv, wpc \in {"head", "body", "publish"}
             PROVE  /\ HasRoom(head, tail, PackLen(wpkt))
                    /\ wpc = "head" /\ wpos < whead => wpos + HeadLen < whead
                    /\ wpc = "body" /\ wpos < whead => wpos + wpkt.len < whead
  BY DEF CopyFits
<1>1. HasRoom(head, tail, PackLen(wpkt)) /\ HasRoom(whead, tail, PackLen(wpkt))
  BY DEF IInv, WriterAt
<1>2. /\ wpkt.len \in Nat /\ PackLen(wpkt) = HeadLen + wpkt.len
      /\ whead \in 0 .. Size - 1 /\ tail \in 0 .. Size - 1
  BY Room DEF IInv, TypeOK, Index
<1>3. ASSUME wpc = "head", wpos < whead
      PROVE  wpos + HeadLen < whead
  <2>1. wpos = tail
    BY <1>3 DEF IInv, WriterAt
  <2>2. QED
    BY <1>1, <1>2, <1>3, <2>1, SizeAssumption, HeadLenAssumption DEF HasRoom, FreeSpace
<1>4. ASSUME wpc = "body", wpos < whead
      PROVE  wpos + wpkt.len < whead
  <2>1. wpos = Adv(tail, HeadLen)
    BY <1>4 DEF IInv, WriterAt
  <2>2. QED
    BY <1>1, <1>2, <1>4, <2>1, SizeAssumption, HeadLenAssumption DEF HasRoom, FreeSpace, Adv
<1>5. QED
  BY <1>1, <1>3, <1>4

\* The head _send_to_bridge read when it began is still good when it copies,
\* however far the carrier has moved it since.
THEOREM CopiesFit == Spec => []CopyFits
<1>1. QED
  BY FitsBelowHead, Inductive, PTL

(***************************************************************************)
(* The send channel is a packet stream: a step of either process puts one  *)
(* packet in, takes the first one out, or is invisible.                    *)
(***************************************************************************)
LEMMA StepImplementsStream == IInv /\ [Next]_vars => [Stream!Next]_(Stream!streamVars)
<1> SUFFICES ASSUME IInv, [Next]_vars
             PROVE  Stream!Next \/ UNCHANGED <<sent, taken>>
  BY DEF Stream!streamVars
<1>1. CASE PublishTail
  <2>1. wpkt \in [id : 1 .. MaxSend, len : Lens]
    <3>1. wpkt \in Packet /\ wpkt.id \in 1 .. MaxSend /\ wpkt.len \in Lens
      BY <1>1 DEF PublishTail, IInv, TypeOK, WriterAt
    <3>2. wpkt = [id |-> wpkt.id, len |-> wpkt.len]
      BY <3>1 DEF Packet
    <3>3. QED
      BY <3>1, <3>2
  <2>2. Stream!Put(wpkt)
    BY <1>1 DEF PublishTail, Publish, Stream!Put
  <2>3. QED
    BY <2>1, <2>2 DEF Stream!Next
<1>2. CASE PublishHead
  <2>1. Len(taken) < Len(sent) /\ rcopy = Bytes(Due)
    BY <1>2 DEF PublishHead, IInv, ReaderAt
  <2>2. Decode(rcopy) = sent[Len(taken) + 1]
    BY <2>1, Front, DecodeBytes DEF Due
  <2>3. Stream!Take("delivered")
    BY <1>2, <2>1, <2>2 DEF PublishHead, HandOn, Stream!Take
  <2>4. "delivered" \in Stream!Fates
    BY DEF Stream!Fates
  <2>5. QED
    BY <2>3, <2>4 DEF Stream!Next
<1>3. ASSUME ~PublishTail, ~PublishHead
      PROVE  UNCHANGED <<sent, taken>>
  BY <1>3 DEF Next, Upper, Carrier, SendBegin, CopyHead, CopyBody, CountUpLoad, CountUpStore,
              FetchBegin, FetchHead, FetchBody, CountDownLoad, CountDownStore,
              KillUpper, KillCarrier, vars, history
<1>4. QED
  BY <1>1, <1>2, <1>3

THEOREM Refinement == Spec => ImplementsStream
<1>1. Init => Stream!Init
  BY DEF Init, Stream!Init
<1>2. IInv /\ [Next]_vars => [Stream!Next]_(Stream!streamVars)
  BY StepImplementsStream
<1>3. QED
  BY <1>1, <1>2, Inductive, PTL DEF Spec, ImplementsStream, Stream!Spec

=============================================================================
