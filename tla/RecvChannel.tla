----------------------------- MODULE RecvChannel -----------------------------
(***************************************************************************)
(* The recv channel of a bridge: the carrier in append_recv_channel        *)
(* (carrier/carrier_lib.c) and the upper process in _recv_from_bridge      *)
(* (library/proc_bridge.c).  The writer differs from the send channel's in *)
(* copying a packet in one piece, the reader in what a call may do: refuse *)
(* a packet longer than the caller's buffer and leave it at the front,     *)
(* drop packets sent too long ago, and go on in the same call to the next  *)
(* one, up to the recv_tail it read when it began.                         *)
(*                                                                         *)
(* The cut into actions and the kills are as in SendChannel.  The age of a *)
(* packet compares two machines' clocks, so a call that was given a        *)
(* drop_time may find any packet too old.                                  *)
(***************************************************************************)
EXTENDS Channel

CONSTANTS
  Lens,        \* body lengths of the packets that arrive
  BufLens,     \* recv_len of the caller
  CountWrap,   \* recved_count restarts at 0 when it gets here (0xFFFFF000)
  MaxAppend,   \* bound on the calls that start copying
  MaxCrash     \* bound on the kills of each process

ASSUME LensAssumption == Lens \subseteq Nat
ASSUME BufLensAssumption == BufLens \subseteq Nat
ASSUME CountWrapAssumption == CountWrap \in Nat \ {0}
ASSUME BoundsAssumption == MaxAppend \in Nat /\ MaxCrash \in Nat

VARIABLES
  buf, head, tail,      \* the channel's bytes, recv_head, recv_tail
  count, recved,        \* recving_count, recved_count
  wpc, whead, wpos,     \* the carrier: where it is, its recv_head and tail_pos
  wpkt, wcnt,           \* the packet it is copying, recving_count as loaded
  rpc, rpos, rtail,     \* the upper process: where it is, its head_pos, tail_pos
  rlen, rdrop,          \* arguments of its call: recv_len, drop_time >= 0
  rcopy, rfate, rcnt,   \* its copy, !should_copy, recving_count as loaded
  sent, ends, taken,    \* history, as in SendChannel
  ids, kills            \* bounds: packets begun, kills of each process

history == <<sent, ends, taken>>
hub == <<buf, head, tail, count, recved>>
writer == <<wpc, whead, wpos, wpkt, wcnt>>
reader == <<rpc, rpos, rtail, rlen, rdrop, rcopy, rfate, rcnt>>
vars == <<hub, writer, reader, history, ids, kills>>

WriterPCs == {"idle", "copy", "publish", "load", "store"}
ReaderPCs == {"idle", "head", "body", "load", "store", "publish"}

Published == IF ends = <<>> THEN 0 ELSE ends[Len(ends)]
Consumed == IF taken = <<>> THEN 0 ELSE ends[Len(taken)]

Init ==
  /\ buf = [j \in Index |-> Byte(NoPacket, 0)]
  /\ head = 0 /\ tail = 0 /\ count = 0 /\ recved = 0
  /\ wpc = "idle" /\ whead = 0 /\ wpos = 0 /\ wpkt = NoPacket /\ wcnt = 0
  /\ rpc = "idle" /\ rpos = 0 /\ rtail = 0 /\ rlen = 0 /\ rdrop = FALSE
  /\ rcopy = NoCopy /\ rfate = "delivered" /\ rcnt = 0
  /\ sent = <<>> /\ ends = <<>> /\ taken = <<>>
  /\ ids = 0 /\ kills = [upper |-> 0, carrier |-> 0]

-----------------------------------------------------------------------------
(* append_recv_channel.  A call that finds no room returns -3.             *)

\* Read recv_tail and recv_head, check for room.
AppendBegin(len) ==
  /\ wpc = "idle" /\ ids < MaxAppend
  /\ HasRoom(head, tail, HeadLen + len)
  /\ wpc' = "copy" /\ whead' = head /\ wpos' = tail
  /\ wpkt' = [id |-> ids + 1, len |-> len] /\ ids' = ids + 1
  /\ UNCHANGED <<hub, wcnt, reader, history, kills>>

\* Copy header and data in at recv_tail.
AppendCopy ==
  /\ wpc = "copy"
  /\ buf' = CopyIn(buf, wpos, PackLen(wpkt), wpkt, 0)
  /\ wpos' = Adv(wpos, PackLen(wpkt))
  /\ wpc' = "publish"
  /\ UNCHANGED <<head, tail, count, recved, whead, wpkt, wcnt, reader, history, ids, kills>>

\* recv_tail = tail_pos.
PublishTail ==
  /\ wpc = "publish"
  /\ tail' = wpos
  /\ sent' = Append(sent, wpkt) /\ ends' = Append(ends, Published + PackLen(wpkt))
  /\ wpc' = "load" /\ whead' = 0 /\ wpos' = 0 /\ wpkt' = NoPacket
  /\ UNCHANGED <<buf, head, count, recved, wcnt, reader, taken, ids, kills>>

\* recving_count++, then recved_count++.
CountUpLoad ==
  /\ wpc = "load"
  /\ wcnt' = count /\ wpc' = "store"
  /\ UNCHANGED <<hub, whead, wpos, wpkt, reader, history, ids, kills>>

CountUpStore ==
  /\ wpc = "store"
  /\ count' = wcnt + 1
  /\ recved' = IF recved + 1 >= CountWrap THEN 0 ELSE recved + 1
  /\ wpc' = "idle" /\ wcnt' = 0
  /\ UNCHANGED <<buf, head, tail, whead, wpos, wpkt, reader, history, ids, kills>>

\* The carrier is killed in mid-call and another takes its place.
KillCarrier ==
  /\ wpc # "idle" /\ kills.carrier < MaxCrash
  /\ wpc' = "idle" /\ whead' = 0 /\ wpos' = 0 /\ wpkt' = NoPacket /\ wcnt' = 0
  /\ kills' = [kills EXCEPT !.carrier = @ + 1]
  /\ UNCHANGED <<hub, reader, history, ids>>

-----------------------------------------------------------------------------
(* _recv_from_bridge.  A call that finds head = tail returns -2.           *)

\* Mutated form of RecvBegin: a tail that has wrapped counts as empty.
RecvBeginAhead(len, drop) ==
  /\ rpc = "idle" /\ tail > head
  /\ rpc' = "head" /\ rpos' = head /\ rtail' = tail /\ rlen' = len /\ rdrop' = drop
  /\ UNCHANGED <<hub, writer, rcopy, rfate, rcnt, history, ids, kills>>

\* Read recv_head and recv_tail, once per call.
RecvBegin(len, drop) ==
  /\ rpc = "idle" /\ head # tail
  /\ rpc' = "head" /\ rpos' = head /\ rtail' = tail /\ rlen' = len /\ rdrop' = drop
  /\ UNCHANGED <<hub, writer, rcopy, rfate, rcnt, history, ids, kills>>

\* Copy the header out.
RecvHead ==
  /\ rpc = "head"
  /\ rcopy' = CopyOut(buf, rpos, HeadLen)
  /\ rpos' = Adv(rpos, HeadLen)
  /\ rpc' = "body"
  /\ UNCHANGED <<hub, writer, rtail, rlen, rdrop, rfate, rcnt, history, ids, kills>>

\* The packet is too old: step over its data.
RecvSkip ==
  /\ rpc = "body" /\ rdrop
  /\ rpos' = Adv(rpos, DataLen(rcopy))
  /\ rfate' = "dropped" /\ rpc' = "load"
  /\ UNCHANGED <<hub, writer, rtail, rlen, rdrop, rcopy, rcnt, history, ids, kills>>

ReturnIdle ==
  /\ rpc' = "idle" /\ rpos' = 0 /\ rtail' = 0 /\ rlen' = 0 /\ rdrop' = FALSE
  /\ rcopy' = NoCopy /\ rfate' = "delivered" /\ rcnt' = 0

\* Mutated form of RecvTooLong: the refused packet is stepped over.
RecvTooLongConsuming ==
  /\ rpc = "body" /\ DataLen(rcopy) > rlen
  /\ head' = Adv(rpos, DataLen(rcopy))
  /\ ReturnIdle
  /\ UNCHANGED <<buf, tail, count, recved, writer, history, ids, kills>>

\* It does not fit the caller's buffer: return -3, the head stays.
RecvTooLong ==
  /\ rpc = "body" /\ DataLen(rcopy) > rlen
  /\ ReturnIdle
  /\ UNCHANGED <<hub, writer, history, ids, kills>>

\* Copy the data out.
RecvBody ==
  /\ rpc = "body" /\ DataLen(rcopy) <= rlen
  /\ rcopy' = Extend(rcopy, buf, rpos, DataLen(rcopy))
  /\ rpos' = Adv(rpos, DataLen(rcopy))
  /\ rpc' = "load"
  /\ UNCHANGED <<hub, writer, rtail, rlen, rdrop, rfate, rcnt, history, ids, kills>>

\* recving_count--, before the head is stored.
CountDownLoad ==
  /\ rpc = "load"
  /\ rcnt' = count /\ rpc' = "store"
  /\ UNCHANGED <<hub, writer, rpos, rtail, rlen, rdrop, rcopy, rfate, history, ids, kills>>

CountDownStore ==
  /\ rpc = "store"
  /\ count' = rcnt - 1 /\ rcnt' = 0 /\ rpc' = "publish"
  /\ UNCHANGED <<buf, head, tail, recved, writer, rpos, rtail, rlen, rdrop, rcopy, rfate,
                 history, ids, kills>>

\* The packet leaves the channel with what the call made of it.
TakeOut(p, fate) ==
  /\ taken' = Append(taken, <<p, fate>>)
  /\ UNCHANGED <<sent, ends>>

\* recv_head = head_pos; the packet is the caller's and the call returns.
PublishHead ==
  /\ rpc = "publish" /\ rfate = "delivered"
  /\ head' = rpos /\ TakeOut(Decode(rcopy), "delivered")
  /\ ReturnIdle
  /\ UNCHANGED <<buf, tail, count, recved, writer, ids, kills>>

\* Mutated form of NextAfterDrop: the tail read at the beginning is not compared.
NextAfterDropAlways == TRUE

\* `goto _recv_again`, which compares with the tail read when the call began.
NextAfterDrop == rpos # rtail

\* recv_head = head_pos for a dropped packet; on to the next one, if any.
PublishDrop ==
  /\ rpc = "publish" /\ rfate = "dropped"
  /\ head' = rpos /\ TakeOut(DecodeHead(rcopy), "dropped")
  /\ IF NextAfterDrop
       THEN /\ rpc' = "head" /\ rcopy' = NoCopy /\ rfate' = "delivered"
            /\ UNCHANGED <<rpos, rtail, rlen, rdrop, rcnt>>
       ELSE ReturnIdle
  /\ UNCHANGED <<buf, tail, count, recved, writer, ids, kills>>

\* The upper process is killed in mid-call and another attaches.
KillUpper ==
  /\ rpc # "idle" /\ kills.upper < MaxCrash
  /\ ReturnIdle
  /\ kills' = [kills EXCEPT !.upper = @ + 1]
  /\ UNCHANGED <<hub, writer, history, ids>>

-----------------------------------------------------------------------------
Carrier ==
  \/ \E len \in Lens : AppendBegin(len)
  \/ AppendCopy \/ PublishTail \/ CountUpLoad \/ CountUpStore

Call == \E len \in BufLens, drop \in BOOLEAN : RecvBegin(len, drop)

InCall ==
  \/ RecvHead \/ RecvSkip \/ RecvTooLong \/ RecvBody
  \/ CountDownLoad \/ CountDownStore \/ PublishHead \/ PublishDrop

Next == Carrier \/ Call \/ InCall \/ KillUpper \/ KillCarrier

Spec == Init /\ [][Next]_vars

(***************************************************************************)
(* A call once begun runs to its end.  The upper process polls the channel *)
(* and, now and then, offers a buffer for the longest packet sent to it:   *)
(* that is for the user of the library to do, as demo/echo/test_proc.c and *)
(* bridge_manager.c, with one buffer for everything, do.                   *)
(***************************************************************************)
LongestBuf == CHOOSE len \in BufLens : \A other \in BufLens : other <= len

FairSpec ==
  /\ Spec /\ WF_vars(InCall)
  /\ SF_vars(\E drop \in BOOLEAN : RecvBegin(LongestBuf, drop))

-----------------------------------------------------------------------------
Fates == {"delivered", "dropped"}

TypeOK ==
  /\ buf \in [Index -> Cell] /\ head \in Index /\ tail \in Index
  /\ count \in Int /\ recved \in 0 .. CountWrap - 1
  /\ wpc \in WriterPCs /\ whead \in Index /\ wpos \in Index
  /\ wpkt \in Packet /\ wcnt \in Int
  /\ rpc \in ReaderPCs /\ rpos \in Index /\ rtail \in Index
  /\ rlen \in Nat /\ rdrop \in BOOLEAN /\ rfate \in Fates /\ rcnt \in Int
  /\ sent \in Seq(Packet) /\ ends \in Seq(Nat) /\ taken \in Seq(Packet \X Fates)
  /\ ids \in Nat /\ kills \in [upper : Nat, carrier : Nat]

(***************************************************************************)
(* What the upper process is given or drops is, in order and without gap   *)
(* or repetition, what the carrier appended, byte for byte: a refusal for  *)
(* a small buffer loses nothing, a run of drops never runs past the data.  *)
(***************************************************************************)
WholePacketsInOrder ==
  /\ Len(taken) <= Len(sent)
  /\ \A i \in 1 .. Len(taken) : taken[i][1] = sent[i]

(***************************************************************************)
(* The carrier never writes over bytes the upper process has not let go.   *)
(***************************************************************************)
UnreadIntact ==
  \A i \in Len(taken) + 1 .. Len(sent) :
    \A k \in 0 .. PackLen(sent[i]) - 1 :
      buf[Adv(head, ends[i] - PackLen(sent[i]) - Consumed + k)] = Byte(sent[i], k)

(***************************************************************************)
(* A call in progress is about a packet that is there, at the position the *)
(* call is reading: its head_pos is recv_head until it has read a header,  *)
(* even after drops in the same call and with a tail that has moved since. *)
(***************************************************************************)
CallOnARealPacket ==
  /\ rpc # "idle" => Len(taken) < Len(sent)
  /\ rpc = "head" => rpos = head
  /\ rpc \in {"body", "load", "store", "publish"} =>
       rcopy[0] = Byte(sent[Len(taken) + 1], 0)

(***************************************************************************)
(* The inductive invariant, as in SendChannel.  What a call that drops old *)
(* packets adds is that the tail it read when it began is the end of some  *)
(* packet it has not come to yet: before that the run of drops is never at *)
(* its end, and there it is.                                               *)
(***************************************************************************)
Ledger ==
  /\ Len(ends) = Len(sent)
  /\ \A i \in 1 .. Len(sent) : PackLen(sent[i]) <= ends[i]
  /\ \A i, j \in 1 .. Len(sent) : i < j => ends[i] + PackLen(sent[j]) <= ends[j]
  /\ \A i \in 1 .. Len(sent) - 1 : ends[i] + PackLen(sent[i + 1]) = ends[i + 1]
  /\ sent # <<>> => ends[1] = PackLen(sent[1])
  /\ \A i \in 1 .. Len(sent) : sent[i].id \in 1 .. MaxAppend /\ sent[i].len \in Lens

Occupied == Dist(head, tail) = Published - Consumed

\* The first n bytes of p are in place at the tail.
Laid(p, n) == \A k \in 0 .. n - 1 : buf[Adv(tail, k)] = Byte(p, k)

WriterAt ==
  /\ wpc \in {"copy", "publish"} =>
       /\ wpkt.id \in 1 .. MaxAppend /\ wpkt.len \in Lens
       /\ HasRoom(head, tail, PackLen(wpkt))
  /\ wpc = "copy" => wpos = tail
  /\ wpc = "publish" => wpos = Adv(tail, PackLen(wpkt)) /\ Laid(wpkt, PackLen(wpkt))

\* The packet at the front of the channel, and what a call that drops it copies.
Due == sent[Len(taken) + 1]
HeadBytes(p) == [k \in 0 .. HeadLen - 1 |-> Byte(p, k)]

\* The recv_tail the call read is where packet m ends.
RunEndsAt(m) == rtail = Adv(head, ends[m] - Consumed)

ReaderAt ==
  /\ rpc # "idle" =>
       Len(taken) < Len(sent) /\ \E m \in Len(taken) + 1 .. Len(sent) : RunEndsAt(m)
  /\ rpc \in {"idle", "head", "body"} => rfate = "delivered"
  /\ rpc = "head" => rpos = head
  /\ rpc = "body" => rpos = Adv(head, HeadLen) /\ rcopy = HeadBytes(Due)
  /\ rpc \in {"load", "store", "publish"} =>
       /\ rpos = Adv(head, PackLen(Due))
       /\ rcopy = IF rfate = "delivered" THEN Bytes(Due) ELSE HeadBytes(Due)

IInv ==
  /\ TypeOK /\ Ledger /\ Occupied
  /\ WholePacketsInOrder /\ UnreadIntact
  /\ WriterAt /\ ReaderAt

Stream == INSTANCE PacketStream WITH
            Packets <- [id : 1 .. MaxAppend, len : Lens], MayDrop <- TRUE

\* Publishing the tail is Put, publishing the head is Take with its fate, and
\* every other step is invisible.
ImplementsStream == Stream!Spec

(***************************************************************************)
(* Every packet that arrived is delivered or dropped in the end, so a      *)
(* packet too long for some call does not block the channel for good.      *)
(***************************************************************************)
EveryPacketTaken ==
  \A n \in 1 .. MaxAppend : Len(sent) >= n ~> Len(taken) >= n

=============================================================================
