----------------------------- MODULE TargetSizes -----------------------------
(***************************************************************************)
(* What a carrier does to the send buffer of one target, seen through      *)
(* amounts alone: how long the buffer is and how many bytes wait in it.    *)
(* TargetBuffer has the bytes and the positions; SendPath puts several     *)
(* targets behind one send channel.                                        *)
(*                                                                         *)
(* A handler is an operator from the target to the set of targets it may   *)
(* leave: what varies is how much of the data the socket takes.            *)
(***************************************************************************)
EXTENDS Integers

CONSTANTS
  PackMax,    \* BRIDGE_PACK_LEN
  Mega,       \* 1024*1024
  SendSize,   \* send_buff_size of the bridge
  Over,       \* what STLV_PACK_ARRAY adds to a packet
  SafeOver    \* what STLV_PACK_SAFE_LEN allows for it

(***************************************************************************)
(* The last two conjuncts are why a buffer, new or shrunk, takes at least  *)
(* one packet of any length: 2 * 100K and 2/3 of 1M are both enough.       *)
(***************************************************************************)
ASSUME SizesAssumption ==
  /\ PackMax \in Nat \ {0} /\ Mega \in Nat \ {0} /\ SendSize \in Nat \ {0}
  /\ Over \in Nat /\ SafeOver \in Nat /\ Over <= SafeOver
  /\ PackMax + SafeOver < 2 * PackMax
  /\ PackMax + SafeOver < (2 * Mega) \div 3

InitLen == 2 * PackMax
MaxExpand == 2 * SendSize + Mega   \* max_expand_size
BlockSize == SendSize + Mega       \* block_snd_size

StlvLen(n) == n + Over
SafeLen(n) == n + SafeOver

\* Mutated form of Grown: the last growth stops at max_expand_size.
GrownToMax(len) ==
  LET next == IF len < Mega THEN 2 * len ELSE len + Mega
  IN IF next >= MaxExpand THEN MaxExpand ELSE next

\* expand_target_buff: the next length.  The growth that gets to
\* max_expand_size is topped up to block_snd_size beyond it.
Grown(len) ==
  LET next == IF len < Mega THEN 2 * len ELSE len + Mega
  IN IF next >= MaxExpand /\ next - MaxExpand < BlockSize THEN MaxExpand + BlockSize ELSE next

(***************************************************************************)
(* A target_detail_t: conn is `connected', len is snd_buff_len (0 for no   *)
(* buffer), data is TARGET_DATA_LEN, block is snd_block, listed is         *)
(* in_append.  dropped says that the last packet meant for this target was *)
(* dropped, although connected, for want of space.                         *)
(***************************************************************************)
Target ==
  [conn : {"none", "done"}, len : Nat, data : Nat,
   block : BOOLEAN, listed : BOOLEAN, dropped : BOOLEAN]

NewTarget ==
  [conn |-> "none", len |-> 0, data |-> 0, block |-> FALSE, listed |-> FALSE, dropped |-> FALSE]

\* Mutated form of Fits: the reserved byte is forgotten.
FitsNoReserve(t, n) == t.len - t.data >= SafeLen(n)

\* TARGET_EMPTY_SPACE against STLV_PACK_SAFE_LEN.
Fits(t, n) == t.len - t.data - 1 >= SafeLen(n)

\* expand_target_buff, the failure at the limit included.
Grow(t) ==
  IF t.len >= MaxExpand THEN t
  ELSE [t EXCEPT !.len = IF @ = 0 THEN InitLen ELSE Grown(@)]

\* Mutated form of List: a small rest is left for the next packet to push.
ListLarge(t) == IF t.data >= PackMax THEN [t EXCEPT !.listed = TRUE] ELSE t

\* append_sending_node, wherever it is called: there is data to send.
List(t) == IF t.data > 0 THEN [t EXCEPT !.listed = TRUE] ELSE t

\* close_target_fd.  in_append is left alone.
Close(t) == [t EXCEPT !.conn = "none", !.len = 0, !.data = 0, !.block = FALSE]

AtLimit(t) == t.len >= MaxExpand
Tight(t) == t.len - t.data <= BlockSize

\* The check for blocking, after a send that took nothing.
Block(t) == IF AtLimit(t) /\ Tight(t) THEN [t EXCEPT !.block = TRUE] ELSE t

\* The check both ways, after a send that took part of what it was given.
Review(t) ==
  IF AtLimit(t) /\ t.block /\ t.len - t.data >= BlockSize
  THEN [t EXCEPT !.block = FALSE]
  ELSE Block(t)

(***************************************************************************)
(* flush_target of a target with data.  On an error every caller closes    *)
(* the connection.  A buffer that wraps around takes two sends, and one    *)
(* that stops between them can block but not unblock.                      *)
(***************************************************************************)
Flush(t) ==
  {Close(t), Block(t), [t EXCEPT !.data = 0, !.block = FALSE]}
    \cup UNION {{Block([t EXCEPT !.data = d]), Review([t EXCEPT !.data = d])} : d \in 1 .. t.data - 1}

\* pkg_2_target with the expansion before it.
Add(t, n) ==
  LET r == IF t.data > 0 /\ ~Fits(t, n) THEN Grow(t) ELSE t
  IN IF Fits(r, n)
     THEN [r EXCEPT !.data = @ + StlvLen(n)]
     ELSE [r EXCEPT !.dropped = TRUE]

\* dispatch_bridge for one fetched packet of n bytes.
Dispatch(t, n) ==
  LET u == IF t.len = 0 THEN Grow(t) ELSE t
      next == IF u.data >= PackMax THEN Flush(u) ELSE {u}
  IN IF t.conn # "done" THEN {t}
     ELSE {IF f.conn = "none" THEN f ELSE List(Add(List(f), n)) : f \in next}

\* inner_send_pkg for a packet of the carrier's own.  It drops in silence.
InnerSend(t, n) ==
  LET u == IF t.len = 0 THEN Grow(t) ELSE t
      store(f) == [Add(List(f), n) EXCEPT !.dropped = FALSE]
      after(f) ==
        IF f.conn = "none" THEN {f}
        ELSE IF f.data > 0 THEN {store(f)}
        ELSE {List(g) : g \in Flush(store(f))}
  IN IF u.data > 0 THEN UNION {after(f) : f \in Flush(u)} ELSE after(u)

\* iter_sending_list at one node of the list; del takes it off the list
\* whatever is left.
Iter(t, del) ==
  IF ~t.listed THEN {t}
  ELSE IF t.conn # "done" \/ t.data = 0 THEN {[t EXCEPT !.listed = FALSE]}
  ELSE {[f EXCEPT !.listed = f.data > 0 /\ ~del] : f \in Flush(t)}

\* check_snd_buff_memory.
Shrink(t) ==
  IF t.len < Mega \/ t.data >= t.len \div 3 THEN t
  ELSE [t EXCEPT !.len = (2 * @) \div 3]

\* A connection comes up: a new socket, no buffer, and, when it came up
\* through the event loop and not at once, the verification of n bytes.
Connect(t, n) ==
  LET u == [t EXCEPT !.conn = "done", !.len = 0, !.data = 0]
  IN {u} \cup InnerSend(u, n)

-----------------------------------------------------------------------------
\* What all of these handlers keep to: a buffer has room for a packet of any
\* length when it is empty, it is never quite full, it belongs to a
\* connection, and a target is blocked only while there is data to send.
Consistent(t) ==
  /\ t \in Target
  /\ t.len = 0 => t.data = 0
  /\ t.len > 0 => t.len > PackMax + SafeOver /\ t.data < t.len
  /\ t.conn = "none" => t.len = 0
  /\ t.block => t.data > 0

\* Data of a connected target has a place on the sending list.
Listed(t) == t.conn = "done" /\ t.data > 0 => t.listed

\* A packet is dropped only by a buffer that holds data and cannot grow.
DropJustified(t) == t.dropped => AtLimit(t) /\ t.data > 0

=============================================================================
