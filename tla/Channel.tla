------------------------------- MODULE Channel -------------------------------
(***************************************************************************)
(* What the two channels of a bridge have in common.  A bridge is a System *)
(* V shared memory segment (bridge_hub_t): a send channel the upper        *)
(* process writes and its carrier reads, and a recv channel the carrier    *)
(* writes and the upper process reads.  Each is an array of bytes with a   *)
(* head only the reader moves and a tail only the writer moves; one byte   *)
(* is never used, so that head = tail means "empty" and nothing else.      *)
(*                                                                         *)
(* A byte is modelled by what it is for: which packet it belongs to and at *)
(* which offset.  A reader that finds anything but the bytes 0, 1, 2, ...  *)
(* of one packet has been handed a torn packet.                            *)
(***************************************************************************)
EXTENDS Integers, Sequences

CONSTANTS
  Size,     \* send_buff_size or recv_buff_size
  HeadLen   \* sizeof(bridge_package_head_t)

ASSUME SizeAssumption == Size \in Nat \ {0}
ASSUME HeadLenAssumption == HeadLen \in Nat \ {0}

Index == 0 .. Size - 1

(***************************************************************************)
(* A packet: id tells it from every other packet ever written, len is      *)
(* data_len.                                                               *)
(***************************************************************************)
Packet == [id : Nat, len : Nat]

PackLen(p) == HeadLen + p.len

Cell == [pkt : Packet, off : Nat]
Byte(p, k) == [pkt |-> p, off |-> k]

NoPacket == [id |-> 0, len |-> 0]
NoCopy == [k \in {} |-> Byte(NoPacket, 0)]

\* The bytes of packet p, as a reader that is handed p sees them.
Bytes(p) == [k \in 0 .. PackLen(p) - 1 |-> Byte(p, k)]

\* What a reader's copy amounts to: a packet, or no packet at all.
Decode(copy) ==
  IF copy = Bytes(copy[0].pkt) THEN copy[0].pkt ELSE NoPacket

\* The same for a reader that copied the header alone.
DecodeHead(copy) ==
  IF copy = [k \in 0 .. HeadLen - 1 |-> Byte(copy[0].pkt, k)] THEN copy[0].pkt ELSE NoPacket

\* Mutated form of Adv: the position is not brought back into the array.
AdvNoWrap(p, n) == p + n

\* Position p moved on by n bytes, for 0 <= n <= Size: `pos += n; pos %= size`,
\* and `pos = n - copyed` when the copy is split at the end of the array.
Adv(p, n) == IF p + n < Size THEN p + n ELSE p + n - Size

\* How far j is ahead of p, walking towards the tail.
Dist(p, j) == IF j >= p THEN j - p ELSE j - p + Size

\* empty_space: tail<->end plus start<->head, or tail<->head.
FreeSpace(head, tail) ==
  IF tail >= head THEN Size - tail + head ELSE head - tail

\* Mutated form of HasRoom: the reserved byte is forgotten.
HasRoomNoReserve(head, tail, n) == FreeSpace(head, tail) >= n

\* "empty_space-1 < total_count" refuses: one byte is kept free.
HasRoom(head, tail, n) == FreeSpace(head, tail) - 1 >= n

\* The array after the n bytes from offset off of p were copied in at pos.
CopyIn(buf, pos, n, p, off) ==
  [j \in Index |-> IF Dist(pos, j) < n THEN Byte(p, off + Dist(pos, j)) ELSE buf[j]]

\* The n bytes found at pos.
CopyOut(buf, pos, n) == [k \in 0 .. n - 1 |-> buf[Adv(pos, k)]]

\* A header followed by n more bytes found at pos.
Extend(hdr, buf, pos, n) ==
  [k \in 0 .. HeadLen + n - 1 |-> IF k < HeadLen THEN hdr[k] ELSE buf[Adv(pos, k - HeadLen)]]

\* data_len of a header that was read.
DataLen(hdr) == hdr[0].pkt.len

=============================================================================
