---------------------------- MODULE TargetBuffer ----------------------------
(***************************************************************************)
(* The send buffer a carrier keeps for one target (target_detail_t): a     *)
(* ring of bytes that grows when a packet does not fit, shrinks when it is *)
(* mostly unused, and is emptied into the target's socket in one send, or  *)
(* in two when the data wraps around.                                      *)
(*                                                                         *)
(* A carrier is a single thread, so a step is a whole handler.  The socket *)
(* decides how many bytes each send takes, none of them, all of them or    *)
(* any number between; or it fails, and the connection is closed.          *)
(*                                                                         *)
(* The bytes of a connection are numbered in the order they are packed,    *)
(* modulo Wrap, which is more than any buffer holds: two bytes of one      *)
(* buffer never have the same number.                                      *)
(***************************************************************************)
EXTENDS TargetSizes

CONSTANTS
  PackLens,   \* lengths of the packets fetched from the send channel
  InnerLens   \* lengths of the carrier's own packets

ASSUME LensAssumption ==
  PackLens \subseteq 1 .. PackMax /\ InnerLens \subseteq 1 .. PackMax /\ InnerLens # {}

VARIABLES
  target,   \* connected, snd_buff_len, snd_head, snd_tail, snd_buff, snd_block, in_append
  bit,      \* the target's bit in snd_bitmap
  gone,     \* history: the number of the next byte the socket will take
  stranded  \* history: a reload has left data here, off the list, and no
            \* step has listed, sent or closed it since

vars == <<target, bit, gone, stranded>>

Wrap == MaxExpand + BlockSize + 1

Empty == [j \in {} |-> 0]

\* Mutated form of Calloc: one byte short.
CallocShort(len) == [j \in 0 .. len - 2 |-> Wrap]

Calloc(len) == [j \in 0 .. len - 1 |-> Wrap]

\* TARGET_DATA_LEN and TARGET_EMPTY_SPACE.
DataLen(t) == IF t.head <= t.tail THEN t.tail - t.head ELSE t.len - t.head + t.tail
EmptySpace(t) ==
  IF t.head <= t.tail THEN t.len - t.tail + t.head - 1 ELSE t.head - t.tail - 1

\* The positions lie inside the buffer, where there is one.
Inside(t) == IF t.len = 0 THEN t.head = 0 /\ t.tail = 0 ELSE t.head < t.len /\ t.tail < t.len

(***************************************************************************)
(* A state of a handler: the target, its bit and the byte count together.  *)
(***************************************************************************)
Here == [t |-> [target EXCEPT !.dropped = FALSE], bit |-> bit, gone |-> gone]
Moves(s) == target' = s.t /\ bit' = s.bit /\ gone' = s.gone

\* Data to send, and no place on the sending list.
Unlisted(t) == t.conn = "done" /\ DataLen(t) > 0 /\ ~t.listed

Becomes(s) == Moves(s) /\ stranded' = (stranded /\ Unlisted(s.t))

Become(S) == \E s \in S : Becomes(s)

NoBuffer(t) == [t EXCEPT !.len = 0, !.head = 0, !.tail = 0, !.cells = Empty]

\* close_target_fd.  The bytes of the next connection are numbered anew.
Closed(s) ==
  [t |-> [NoBuffer(s.t) EXCEPT !.conn = "none", !.block = FALSE], bit |-> FALSE, gone |-> 0]

-----------------------------------------------------------------------------
(* flush_target.                                                           *)

\* The socket takes k bytes at the head; the head is left at h.
Sent(s, k, h) == [s EXCEPT !.t.head = h, !.gone = (@ + k) % Wrap]

Freed(s) == s.t.len - DataLen(s.t)   \* empty_size

Blocked(s) ==
  IF s.t.len >= MaxExpand /\ Freed(s) <= BlockSize /\ ~s.t.block
  THEN [s EXCEPT !.t.block = TRUE, !.bit = TRUE]
  ELSE s

Unblocked(s) == IF s.t.block THEN [s EXCEPT !.t.block = FALSE, !.bit = FALSE] ELSE s

\* Mutated form of Reviewed: any progress lifts the blocking.
ReviewedAtOnce(s) ==
  IF s.t.len >= MaxExpand /\ s.t.block THEN Unblocked(s) ELSE Blocked(s)

Reviewed(s) ==
  IF s.t.len >= MaxExpand /\ s.t.block /\ Freed(s) >= BlockSize THEN Unblocked(s) ELSE Blocked(s)

\* flush_target_1: the data lies in one piece.  Also the second send of
\* flush_target_2, of which nothing may be left to send.
OneSend(s) ==
  LET n == s.t.tail - s.t.head
  IN {Closed(s), Unblocked(Sent(s, n, s.t.tail))}
       \cup (IF n > 0 THEN {Blocked(s)} ELSE {})
       \cup {Reviewed(Sent(s, k, s.t.head + k)) : k \in 1 .. n - 1}

\* Mutated form of TwoSends: the head stays at the end of the buffer when
\* the first piece is sent.
TwoSendsNoReset(s) ==
  LET n == s.t.len - s.t.head
  IN {Closed(s), Blocked(s)}
       \cup {Reviewed(Sent(s, k, s.t.head + k)) : k \in 1 .. n - 1}
       \cup {Sent(s, n, s.t.head)}

\* flush_target_2: up to the end of the buffer, and then from its start.
TwoSends(s) ==
  LET n == s.t.len - s.t.head
  IN {Closed(s), Blocked(s)}
       \cup {Reviewed(Sent(s, k, s.t.head + k)) : k \in 1 .. n - 1}
       \cup OneSend(Sent(s, n, 0))

Flushed(s) == IF s.t.head < s.t.tail THEN OneSend(s) ELSE TwoSends(s)

-----------------------------------------------------------------------------
(* expand_target_buff and pkg_2_target.                                    *)

\* Mutated form of MovedTo: only the piece up to the end of the buffer is
\* copied.
MovedFirstPiece(t, len) ==
  [t EXCEPT
     !.len = len, !.head = 0, !.tail = DataLen(t),
     !.cells = [j \in 0 .. len - 1 |->
                  IF j < DataLen(t) /\ t.head + j < t.len THEN t.cells[t.head + j] ELSE Wrap]]

\* The data, laid out from the start of a buffer of len bytes.
MovedTo(t, len) ==
  [t EXCEPT
     !.len = len, !.head = 0, !.tail = DataLen(t),
     !.cells = [j \in 0 .. len - 1 |->
                  IF j < DataLen(t) THEN t.cells[(t.head + j) % t.len] ELSE Wrap]]

\* expand_target_buff.
Expanded(t) ==
  IF t.len >= MaxExpand THEN t
  ELSE IF t.len = 0 THEN [t EXCEPT !.len = InitLen, !.cells = Calloc(InitLen)]
  ELSE IF t.head = t.tail THEN [t EXCEPT !.len = Grown(t.len), !.cells = Calloc(Grown(t.len))]
  ELSE MovedTo(t, Grown(t.len))

Initialised(s) == IF s.t.len = 0 THEN [s EXCEPT !.t = Expanded(@)] ELSE s

\* Where the j-th byte of a packet goes.  Below the head it goes straight
\* on; otherwise it wraps around if the packet might not fit before the end.
Place(t, n, j) ==
  IF t.tail < t.head \/ t.len - t.tail >= SafeLen(n) THEN t.tail + j ELSE (t.tail + j) % t.len

PackedTail(t, n) ==
  IF t.tail < t.head THEN t.tail + StlvLen(n) ELSE (t.tail + StlvLen(n)) % t.len

\* pkg_2_target, on a target with room.
Packed(s, n) ==
  LET t == s.t
      size == StlvLen(n)
      at == [j \in 0 .. size - 1 |-> Place(t, n, j)]
      byte(i) == (s.gone + DataLen(t) + CHOOSE j \in 0 .. size - 1 : at[j] = i) % Wrap
  IN [s EXCEPT
        !.t.cells = [i \in DOMAIN @ |-> IF \E j \in 0 .. size - 1 : at[j] = i THEN byte(i) ELSE @[i]],
        !.t.tail = PackedTail(t, n)]

\* Mutated form of Stored: the buffer is expanded only when it is full.
StoredTight(s, n) ==
  LET r == IF DataLen(s.t) > 0 /\ EmptySpace(s.t) = 0
           THEN [s EXCEPT !.t = Expanded(@)] ELSE s
  IN IF EmptySpace(r.t) < SafeLen(n) THEN [r EXCEPT !.t.dropped = TRUE] ELSE Packed(r, n)

\* The packet is put into the buffer, after an expansion if there is data in
\* the way, or dropped.
Stored(s, n) ==
  LET r == IF DataLen(s.t) > 0 /\ EmptySpace(s.t) < SafeLen(n)
           THEN [s EXCEPT !.t = Expanded(@)] ELSE s
  IN IF EmptySpace(r.t) < SafeLen(n) THEN [r EXCEPT !.t.dropped = TRUE] ELSE Packed(r, n)

\* append_sending_node.
Appended(s) == IF DataLen(s.t) > 0 THEN [s EXCEPT !.t.listed = TRUE] ELSE s

-----------------------------------------------------------------------------
(* dispatch_bridge, for a packet of n bytes fetched for this target.       *)
Dispatched(s, n) ==
  LET i == Initialised(s)
      ready == IF DataLen(i.t) >= PackMax THEN Flushed(i) ELSE {i}
  IN {IF f.t.conn = "none" THEN f ELSE Appended(Stored(Appended(f), n)) : f \in ready}

\* inner_send_pkg, for a packet of the carrier's own.  It flushes first
\* whatever there is, and at the end if the packet is alone in the buffer.
InnerSent(s, n) ==
  LET i == Initialised(s)
      store(f) == [Stored(Appended(f), n) EXCEPT !.t.dropped = FALSE]
      after(f) ==
        IF f.t.conn = "none" THEN {f}
        ELSE IF DataLen(f.t) > 0 THEN {store(f)}
        ELSE {Appended(g) : g \in Flushed(store(f))}
  IN IF DataLen(i.t) > 0 THEN UNION {after(f) : f \in Flushed(i)} ELSE after(i)

\* Mutated form of Iterated: only a flush that took something keeps the
\* target on the list.
IteratedOnProgress(s, del) ==
  IF s.t.conn = "none" \/ DataLen(s.t) = 0
  THEN {[s EXCEPT !.t.listed = FALSE]}
  ELSE {[f EXCEPT !.t.listed = DataLen(f.t) \in 1 .. DataLen(s.t) - 1 /\ ~del] : f \in Flushed(s)}

\* iter_sending_list at this target's node; del takes it off the list
\* whatever is left.
Iterated(s, del) ==
  IF s.t.conn = "none" \/ DataLen(s.t) = 0
  THEN {[s EXCEPT !.t.listed = FALSE]}
  ELSE {[f EXCEPT !.t.listed = DataLen(f.t) > 0 /\ ~del] : f \in Flushed(s)}

\* check_snd_buff_memory.  An empty buffer is replaced and the positions
\* stay as they are.
Shrunk(t) ==
  LET len == (2 * t.len) \div 3
  IN IF DataLen(t) = 0 THEN [t EXCEPT !.len = len, !.cells = Calloc(len)] ELSE MovedTo(t, len)

-----------------------------------------------------------------------------
Init ==
  /\ target = [conn |-> "none", len |-> 0, head |-> 0, tail |-> 0, cells |-> Empty,
               block |-> FALSE, listed |-> FALSE, dropped |-> FALSE]
  /\ bit = FALSE /\ gone = 0 /\ stranded = FALSE

\* connect_to_remote connected at once.
ConnectAtOnce ==
  /\ target.conn = "none"
  /\ Becomes([Here EXCEPT !.t = [NoBuffer(@) EXCEPT !.conn = "done"], !.gone = 0])

\* handle_connecting_fd: the connection came up later, and is verified.
ConnectLater ==
  /\ target.conn = "none"
  /\ \E n \in InnerLens :
       Become(InnerSent([Here EXCEPT !.t = [NoBuffer(@) EXCEPT !.conn = "done"], !.gone = 0], n))

\* handle_target_fd: the peer has closed the connection.
PeerCloses == target.conn = "done" /\ Becomes(Closed(Here))

(***************************************************************************)
(* Once the positions are outside the buffer what packing and sending do   *)
(* is undefined, and the model goes no further than closing.               *)
(***************************************************************************)
DispatchPacket ==
  /\ target.conn = "done" /\ Inside(target)
  /\ \E n \in PackLens : Become(Dispatched(Here, n))

SendInner ==
  /\ target.conn = "done" /\ Inside(target)
  /\ \E n \in InnerLens : Become(InnerSent(Here, n))

\* The main loop calls iter_sending_list(penv, 0).
IterSendingList ==
  /\ target.listed /\ Inside(target)
  /\ Become(Iterated(Here, FALSE))

\* A reload ends with del_sending_list, which is iter_sending_list(penv, 1).
DelSendingList ==
  /\ target.listed /\ Inside(target)
  /\ \E s \in Iterated(Here, TRUE) : Moves(s) /\ stranded' = Unlisted(s.t)

CheckSndBuffMemory ==
  /\ target.len >= Mega /\ DataLen(target) < target.len \div 3
  /\ Becomes([Here EXCEPT !.t = Shrunk(@)])

Next ==
  \/ ConnectAtOnce \/ ConnectLater \/ PeerCloses
  \/ DispatchPacket \/ SendInner \/ CheckSndBuffMemory
  \/ IterSendingList \/ DelSendingList

Spec == Init /\ [][Next]_vars

-----------------------------------------------------------------------------
TypeOK ==
  /\ target \in [conn : {"none", "done"}, len : 0 .. Wrap - 1, head : Nat, tail : Nat,
                 cells : [0 .. target.len - 1 -> 0 .. Wrap],
                 block : BOOLEAN, listed : BOOLEAN, dropped : BOOLEAN]
  /\ bit \in BOOLEAN /\ gone \in 0 .. Wrap - 1 /\ stranded \in BOOLEAN

(***************************************************************************)
(* The bytes not yet sent are where the next flush looks for them, in the  *)
(* order they were packed, however often the buffer has wrapped around,    *)
(* grown or shrunk, and wherever a partial send stopped.                   *)
(***************************************************************************)
UnsentInOrder ==
  target.len > 0 =>
    \A i \in 0 .. DataLen(target) - 1 :
      target.cells[(target.head + i) % target.len] = (gone + i) % Wrap

(***************************************************************************)
(* A packet for a connected target is dropped for want of space only when  *)
(* the buffer cannot grow any more: one expansion is always enough, and an *)
(* empty buffer takes any packet.                                          *)
(***************************************************************************)
DroppedOnlyAtLimit ==
  target.dropped => target.len >= MaxExpand /\ DataLen(target) > 0

(***************************************************************************)
(* The upper process is held off only while there is something to wait     *)
(* for: the bit is set exactly when the carrier has it down as blocking,   *)
(* the target is connected then and has data, and it has a place on the    *)
(* list, so that a flush will come to clear the bit.  A reload alone takes *)
(* that place away (del_sending_list), and only until the target is listed *)
(* again.                                                                  *)
(***************************************************************************)
BlockedIsBeingFlushed ==
  /\ bit = target.block
  /\ bit => target.conn = "done" /\ DataLen(target) > 0 /\ (target.listed \/ stranded)

(***************************************************************************)
(* Seen through its amounts the buffer is the abstract target.             *)
(***************************************************************************)
Amount(t) ==
  [conn |-> t.conn, len |-> t.len, data |-> DataLen(t),
   block |-> t.block, listed |-> t.listed, dropped |-> t.dropped]

Amounts == INSTANCE TargetAmounts WITH target <- Amount(target)

ImplementsAmounts == Amounts!Spec

\* The inductive invariant of the proofs: what the handlers
\* of TargetSizes keep to, data off the list only where a reload has left it,
\* and positions that are outside the buffer only when they are equal and
\* nothing is in it.
Situated ==
  /\ bit = target.block
  /\ Consistent(Amount(target)) /\ DropJustified(Amount(target))
  /\ Unlisted(target) => stranded
  /\ Inside(target) \/ target.head = target.tail

IInv == TypeOK /\ Situated /\ UnsentInOrder

(***************************************************************************)
(* The positions of the ring (the comment on target_detail_t calls it a    *)
(* circular buffer) stay inside it.                                        *)
(***************************************************************************)
PositionsInside == Inside(target)

=============================================================================
