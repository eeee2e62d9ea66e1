----------------------------- MODULE SendChannel -----------------------------
(***************************************************************************)
(* The send channel of a bridge: the upper process in _send_to_bridge      *)
(* (library/proc_bridge.c) and its carrier in fetch_send_channel           *)
(* (carrier/bridge_carrier.c), two processes on shared memory with no lock *)
(* between them.                                                           *)
(*                                                                         *)
(* An action is a stretch of code that touches what the other process      *)
(* touches at most once: the snapshot of head and tail, each memcpy, the   *)
(* store that publishes the new tail or head, and the load and the store   *)
(* of sending_count, which both processes update in place without a lock.  *)
(* Both are built without optimisation (carrier/make.sh, library/          *)
(* install_lib.sh), so stores happen in program order.                     *)
(*                                                                         *)
(* Either process may be killed between any two steps; the segment stays   *)
(* and a new process attaches to what it finds there.                      *)
(***************************************************************************)
EXTENDS Channel

CONSTANTS
  Lens,        \* body lengths the upper process sends
  CountWrap,   \* sended_count restarts at 0 when it gets here (0xFFFFF000)
  MaxSend,     \* bound on the calls that start copying
  MaxCrash     \* bound on the kills of each process

ASSUME LensAssumption == Lens \subseteq Nat \ {0}
ASSUME CountWrapAssumption == CountWrap \in Nat \ {0}
ASSUME BoundsAssumption == MaxSend \in Nat /\ MaxCrash \in Nat

VARIABLES
  buf, head, tail,      \* the channel's bytes, send_head, send_tail
  count, sended,        \* sending_count, sended_count
  wpc, whead, wpos,     \* the writer: where it is, its send_head and tail_pos
  wpkt, wcnt,           \* the packet it is copying, sending_count as loaded
  rpc, rpos,            \* the reader: where it is, its head_pos
  rcopy, rcnt,          \* what it has copied out, sending_count as loaded
  sent, ends, taken,    \* history, see below
  ids, kills            \* bounds: packets begun, kills of each process

(***************************************************************************)
(* History: sent is the packets published and ends[i] where the i-th ends  *)
(* in the stream of all bytes ever published; taken is what was handed on. *)
(***************************************************************************)
history == <<sent, ends, taken>>
hub == <<buf, head, tail, count, sended>>
writer == <<wpc, whead, wpos, wpkt, wcnt>>
reader == <<rpc, rpos, rcopy, rcnt>>
vars == <<hub, writer, reader, history, ids, kills>>

WriterPCs == {"idle", "head", "body", "publish", "load", "store"}
ReaderPCs == {"idle", "head", "body", "load", "store", "publish"}

\* Bytes ever published and bytes ever consumed.
Published == IF ends = <<>> THEN 0 ELSE ends[Len(ends)]
Consumed == IF taken = <<>> THEN 0 ELSE ends[Len(taken)]

\* The packet becomes part of the stream; the copy is handed on.
Publish(p) ==
  /\ sent' = Append(sent, p) /\ ends' = Append(ends, Published + PackLen(p))
  /\ UNCHANGED taken
HandOn(copy) ==
  /\ taken' = Append(taken, <<Decode(copy), "delivered">>)
  /\ UNCHANGED <<sent, ends>>

Init ==
  /\ buf = [j \in Index |-> Byte(NoPacket, 0)]
  /\ head = 0 /\ tail = 0 /\ count = 0 /\ sended = 0
  /\ wpc = "idle" /\ whead = 0 /\ wpos = 0 /\ wpkt = NoPacket /\ wcnt = 0
  /\ rpc = "idle" /\ rpos = 0 /\ rcopy = NoCopy /\ rcnt = 0
  /\ sent = <<>> /\ ends = <<>> /\ taken = <<>>
  /\ ids = 0 /\ kills = [upper |-> 0, carrier |-> 0]

-----------------------------------------------------------------------------
(* _send_to_bridge.  A call that finds no room returns -3 and changes      *)
(* nothing.                                                                *)

\* Read send_head and send_tail, check for room.
SendBegin(len) ==
  /\ wpc = "idle" /\ ids < MaxSend
  /\ HasRoom(head, tail, HeadLen + len)
  /\ wpc' = "head" /\ whead' = head /\ wpos' = tail
  /\ wpkt' = [id |-> ids + 1, len |-> len]
  /\ ids' = ids + 1
  /\ UNCHANGED <<hub, wcnt, reader, history, kills>>

\* Mutated form of CopyHead: the tail is stored before the body is copied.
CopyHeadPublishing ==
  /\ wpc = "head"
  /\ buf' = CopyIn(buf, wpos, HeadLen, wpkt, 0)
  /\ wpos' = Adv(wpos, HeadLen)
  /\ wpc' = "body"
  /\ tail' = Adv(wpos, PackLen(wpkt)) /\ Publish(wpkt)
  /\ UNCHANGED <<head, count, sended, whead, wpkt, wcnt, reader, ids, kills>>

\* Copy the header in at send_tail.
CopyHead ==
  /\ wpc = "head"
  /\ buf' = CopyIn(buf, wpos, HeadLen, wpkt, 0)
  /\ wpos' = Adv(wpos, HeadLen)
  /\ wpc' = "body"
  /\ UNCHANGED <<head, tail, count, sended, whead, wpkt, wcnt, reader, history, ids, kills>>

\* Copy the data in behind it.
CopyBody ==
  /\ wpc = "body"
  /\ buf' = CopyIn(buf, wpos, wpkt.len, wpkt, HeadLen)
  /\ wpos' = Adv(wpos, wpkt.len)
  /\ wpc' = "publish"
  /\ UNCHANGED <<head, tail, count, sended, whead, wpkt, wcnt, reader, history, ids, kills>>

\* send_tail = tail_pos: from here on the packet exists.
PublishTail ==
  /\ wpc = "publish"
  /\ tail' = wpos /\ Publish(wpkt)
  /\ wpc' = "load" /\ whead' = 0 /\ wpos' = 0 /\ wpkt' = NoPacket
  /\ UNCHANGED <<buf, head, count, sended, wcnt, reader, ids, kills>>

\* sending_count++ is a load and a store, and the reader's is another.
CountUpLoad ==
  /\ wpc = "load"
  /\ wcnt' = count /\ wpc' = "store"
  /\ UNCHANGED <<hub, whead, wpos, wpkt, reader, history, ids, kills>>

\* ... and sended_count++, which only the writer touches.
CountUpStore ==
  /\ wpc = "store"
  /\ count' = wcnt + 1
  /\ sended' = IF sended + 1 >= CountWrap THEN 0 ELSE sended + 1
  /\ wpc' = "idle" /\ wcnt' = 0
  /\ UNCHANGED <<buf, head, tail, whead, wpos, wpkt, reader, history, ids, kills>>

\* The upper process is killed in mid-call; open_bridge by its successor
\* leaves the indices alone.
KillUpper ==
  /\ wpc # "idle" /\ kills.upper < MaxCrash
  /\ wpc' = "idle" /\ whead' = 0 /\ wpos' = 0 /\ wpkt' = NoPacket /\ wcnt' = 0
  /\ kills' = [kills EXCEPT !.upper = @ + 1]
  /\ UNCHANGED <<hub, reader, history, ids>>

-----------------------------------------------------------------------------
(* fetch_send_channel.  A call that finds head = tail returns -2.          *)

\* Mutated form of FetchBegin: a tail that has wrapped counts as empty.
FetchBeginAhead ==
  /\ rpc = "idle" /\ tail > head
  /\ rpc' = "head" /\ rpos' = head
  /\ UNCHANGED <<hub, writer, rcopy, rcnt, history, ids, kills>>

\* Read send_head and send_tail, check for data.
FetchBegin ==
  /\ rpc = "idle" /\ head # tail
  /\ rpc' = "head" /\ rpos' = head
  /\ UNCHANGED <<hub, writer, rcopy, rcnt, history, ids, kills>>

\* Copy the header out.
FetchHead ==
  /\ rpc = "head"
  /\ rcopy' = CopyOut(buf, rpos, HeadLen)
  /\ rpos' = Adv(rpos, HeadLen)
  /\ rpc' = "body"
  /\ UNCHANGED <<hub, writer, rcnt, history, ids, kills>>

\* Mutated form of FetchBody: send_head is stored before the data is copied.
FetchBodyReleasing ==
  /\ rpc = "body"
  /\ head' = Adv(rpos, DataLen(rcopy))
  /\ rcopy' = Extend(rcopy, buf, rpos, DataLen(rcopy))
  /\ rpos' = Adv(rpos, DataLen(rcopy))
  /\ rpc' = "load"
  /\ UNCHANGED <<buf, tail, count, sended, writer, rcnt, history, ids, kills>>

\* Copy out as much data as the header says.
FetchBody ==
  /\ rpc = "body"
  /\ rcopy' = Extend(rcopy, buf, rpos, DataLen(rcopy))
  /\ rpos' = Adv(rpos, DataLen(rcopy))
  /\ rpc' = "load"
  /\ UNCHANGED <<hub, writer, rcnt, history, ids, kills>>

\* sending_count--, before the head is stored.
CountDownLoad ==
  /\ rpc = "load"
  /\ rcnt' = count /\ rpc' = "store"
  /\ UNCHANGED <<hub, writer, rpos, rcopy, history, ids, kills>>

CountDownStore ==
  /\ rpc = "store"
  /\ count' = rcnt - 1
  /\ rpc' = "publish" /\ rcnt' = 0
  /\ UNCHANGED <<buf, head, tail, sended, writer, rpos, rcopy, history, ids, kills>>

\* send_head = head_pos, and the packet is the caller's.
PublishHead ==
  /\ rpc = "publish"
  /\ head' = rpos /\ HandOn(rcopy)
  /\ rpc' = "idle" /\ rpos' = 0 /\ rcopy' = NoCopy
  /\ UNCHANGED <<buf, tail, count, sended, writer, rcnt, ids, kills>>

\* The carrier is killed in mid-call and another takes its place.
KillCarrier ==
  /\ rpc # "idle" /\ kills.carrier < MaxCrash
  /\ rpc' = "idle" /\ rpos' = 0 /\ rcopy' = NoCopy /\ rcnt' = 0
  /\ kills' = [kills EXCEPT !.carrier = @ + 1]
  /\ UNCHANGED <<hub, writer, history, ids>>

-----------------------------------------------------------------------------
Upper ==
  \/ \E len \in Lens : SendBegin(len)
  \/ CopyHead \/ CopyBody \/ PublishTail \/ CountUpLoad \/ CountUpStore

Carrier ==
  \/ FetchBegin \/ FetchHead \/ FetchBody
  \/ CountDownLoad \/ CountDownStore \/ PublishHead

Next == Upper \/ Carrier \/ KillUpper \/ KillCarrier

Spec == Init /\ [][Next]_vars

(***************************************************************************)
(* The carrier's main loop calls dispatch_bridge on every turn, and a      *)
(* restarted carrier starts with it.  Nothing obliges the upper process to *)
(* send or to finish a call.                                               *)
(***************************************************************************)
FairSpec == Spec /\ WF_vars(Carrier)

-----------------------------------------------------------------------------
TypeOK ==
  /\ buf \in [Index -> Cell] /\ head \in Index /\ tail \in Index
  /\ count \in Int /\ sended \in 0 .. CountWrap - 1
  /\ wpc \in WriterPCs /\ whead \in Index /\ wpos \in Index
  /\ wpkt \in Packet /\ wcnt \in Int
  /\ rpc \in ReaderPCs /\ rpos \in Index /\ rcnt \in Int
  /\ sent \in Seq(Packet) /\ ends \in Seq(Nat)
  /\ taken \in Seq(Packet \X {"delivered"})
  /\ ids \in Nat /\ kills \in [upper : Nat, carrier : Nat]

(***************************************************************************)
(* Every copy handed on is, byte for byte, the packet that was due: none   *)
(* torn, repeated, skipped or out of order, whatever the writer was doing  *)
(* while it was copied out and whoever was killed when.                    *)
(***************************************************************************)
WholePacketsInOrder ==
  /\ Len(taken) <= Len(sent)
  /\ \A i \in 1 .. Len(taken) : taken[i][1] = sent[i]

(***************************************************************************)
(* Published bytes are left alone until the reader has let go of them: for *)
(* every packet not yet consumed, each byte is where the reader will look. *)
(***************************************************************************)
UnreadIntact ==
  \A i \in Len(taken) + 1 .. Len(sent) :
    \A k \in 0 .. PackLen(sent[i]) - 1 :
      buf[Adv(head, ends[i] - PackLen(sent[i]) - Consumed + k)] = Byte(sent[i], k)

(***************************************************************************)
(* A writer at work, which still goes by the head it read when it began,   *)
(* has room between tail and head for all of its packet and one byte more, *)
(* and a copy that takes the branch without wrap-around (tail_pos below    *)
(* that head) ends below that head.                                        *)
(***************************************************************************)
CopyFits ==
  wpc \in {"head", "body", "publish"} =>
    /\ HasRoom(head, tail, PackLen(wpkt))
    /\ wpc = "head" /\ wpos < whead => wpos + HeadLen < whead
    /\ wpc = "body" /\ wpos < whead => wpos + wpkt.len < whead

(***************************************************************************)
(* The inductive invariant.  It adds to the properties above what makes    *)
(* them hold together: the ledger of stream positions, that tail is ahead  *)
(* of head by just the bytes published and not consumed, and, for each     *)
(* process, what its position and its copy are at each point of a call.    *)
(***************************************************************************)
Ledger ==
  /\ Len(ends) = Len(sent)
  /\ \A i \in 1 .. Len(sent) : PackLen(sent[i]) <= ends[i]
  /\ \A i, j \in 1 .. Len(sent) : i < j => ends[i] + PackLen(sent[j]) <= ends[j]
  /\ \A i \in 1 .. Len(sent) - 1 : ends[i] + PackLen(sent[i + 1]) = ends[i + 1]
  /\ sent # <<>> => ends[1] = PackLen(sent[1])
  /\ \A i \in 1 .. Len(sent) : sent[i].id \in 1 .. MaxSend /\ sent[i].len \in Lens

Occupied == Dist(head, tail) = Published - Consumed

\* The first n bytes of p are in place at the tail.
Laid(p, n) == \A k \in 0 .. n - 1 : buf[Adv(tail, k)] = Byte(p, k)

WriterAt ==
  /\ wpc \in {"head", "body", "publish"} =>
       /\ wpkt.id \in 1 .. MaxSend /\ wpkt.len \in Lens
       /\ HasRoom(head, tail, PackLen(wpkt)) /\ HasRoom(whead, tail, PackLen(wpkt))
  /\ wpc = "head" => wpos = tail
  /\ wpc = "body" => wpos = Adv(tail, HeadLen) /\ Laid(wpkt, HeadLen)
  /\ wpc = "publish" => wpos = Adv(tail, PackLen(wpkt)) /\ Laid(wpkt, PackLen(wpkt))

\* The packet at the front of the channel.
Due == sent[Len(taken) + 1]

ReaderAt ==
  /\ rpc # "idle" => Len(taken) < Len(sent)
  /\ rpc = "head" => rpos = head
  /\ rpc = "body" =>
       /\ rpos = Adv(head, HeadLen)
       /\ rcopy = [k \in 0 .. HeadLen - 1 |-> Byte(Due, k)]
  /\ rpc \in {"load", "store", "publish"} =>
       rpos = Adv(head, PackLen(Due)) /\ rcopy = Bytes(Due)

IInv ==
  /\ TypeOK /\ Ledger /\ Occupied
  /\ WholePacketsInOrder /\ UnreadIntact
  /\ WriterAt /\ ReaderAt

Stream == INSTANCE PacketStream WITH
            Packets <- [id : 1 .. MaxSend, len : Lens], MayDrop <- FALSE

\* Publishing the tail is Put, publishing the head is Take, and every other
\* step, a kill included, is invisible.
ImplementsStream == Stream!Spec

(***************************************************************************)
(* A published packet is fetched in the end, though its sender be killed   *)
(* and the carrier restarted meanwhile.                                    *)
(***************************************************************************)
EveryPacketFetched ==
  \A n \in 1 .. MaxSend : Len(sent) >= n ~> Len(taken) >= n

=============================================================================
