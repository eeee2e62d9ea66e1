------------------------------ MODULE SendPath ------------------------------
(***************************************************************************)
(* The way of a packet from the upper process to the sockets: the send     *)
(* channel (here the FIFO that SendChannel implements), the carrier's main *)
(* loop with a buffer per target (TargetSizes), and the bitmap in shared   *)
(* memory by which the carrier tells the upper process to hold back the    *)
(* packets of a target it cannot get rid of.                               *)
(*                                                                         *)
(* The upper process reads the bit first and publishes its packet later;   *)
(* the carrier may do anything in between, be killed and started again     *)
(* included.  The carrier is one thread, so its handlers are steps.  It    *)
(* sends packets of its own through the same buffers, verifications,       *)
(* reports, requests and replies, and these heed no bit.                   *)
(***************************************************************************)
EXTENDS TargetSizes, Sequences, FiniteSets

CONSTANTS
  Ids,         \* proc_ids of the targets
  PackLens,    \* lengths of the packets sent, header included
  InnerLens,   \* lengths of the carrier's own packets
  OwnRoom,     \* bytes of its own packets that the margin is to cover
  MaxReload,   \* bound on reloads of the configuration
  MaxKill      \* bound on kills of the carrier

ASSUME IdsAssumption == Ids \subseteq Nat
ASSUME LensAssumption ==
  /\ PackLens \subseteq 1 .. PackMax /\ PackLens # {} /\ IsFiniteSet(PackLens)
  /\ InnerLens \subseteq 1 .. PackMax /\ OwnRoom \in Nat

(***************************************************************************)
(* What the design counts on without checking it: the megabyte that        *)
(* max_expand_size and block_snd_size have in addition to the size of the  *)
(* send channel covers what STLV adds to a channel full of the shortest    *)
(* packets, and OwnRoom bytes of the carrier's own packets, also when      *)
(* shrinking has taken a third of it away.                                 *)
(***************************************************************************)
ASSUME SlackAssumption ==
  \A n \in PackLens :
    LET added == ((SendSize - 1) \div n + 1) * Over + OwnRoom
    IN /\ PackMax + SafeOver + added <= (2 * Mega) \div 3
       /\ 2 * (PackMax + SafeOver) + added <= Mega

ASSUME BoundsAssumption == MaxReload \in Nat /\ MaxKill \in Nat

VARIABLES
  chan,      \* the send channel: packets published and not fetched
  sending,   \* the packet of a call that has read the bit, or nothing
  bits,      \* snd_bitmap
  targets,   \* the carrier's targets
  own,       \* history: what the carrier's own packets for a target have come
             \* to since it was blocked, not counted further than OwnRoom + 1
  running,   \* the carrier is up
  walk,      \* the walk along the sending list, see below
  reloads, kills

vars == <<chan, sending, bits, targets, own, running, walk, reloads, kills>>
bounds == <<reloads, kills>>

(***************************************************************************)
(* iter_sending_list flushes node after node, and the upper process may    *)
(* read any bit between two of them.  left is the nodes still to come; del *)
(* says that none is put back on the list.                                 *)
(***************************************************************************)
NoWalk == [left |-> {}, del |-> FALSE]
Walk(del) == [left |-> {id \in Ids : targets[id].listed}, del |-> del]

Packet == [to : Ids, len : PackLens]

\* The sum of a sequence of numbers: a fold that can be reasoned about.
Total(w) ==
  LET upto[i \in 0 .. Len(w)] == IF i = 0 THEN 0 ELSE upto[i - 1] + w[i]
  IN upto[Len(w)]

\* How much of the send channel the packets take.
Bytes(q) == Total([i \in DOMAIN q |-> q[i].len])

-----------------------------------------------------------------------------
(* _send_to_bridge.  A refused call changes nothing.                       *)

\* get_snd_bit ends with (v > 0) ? 1 : 0 for a signed char v, and the
\* highest bit of a byte makes v negative.
SndBit(id) == bits[id] /\ id % 8 # 7

SendCheck(p) ==
  /\ sending = <<>> /\ ~SndBit(p.to)
  /\ sending' = <<p>>
  /\ UNCHANGED <<chan, bits, targets, own, running, walk, bounds>>

\* The packet is published, or refused because there is no room for it, or
\* its sender is killed.
SendFinish ==
  /\ sending # <<>>
  /\ sending' = <<>>
  /\ \/ chan' = chan
     \/ Bytes(chan) + sending[1].len < SendSize /\ chan' = Append(chan, sending[1])
  /\ UNCHANGED <<bits, targets, own, running, walk, bounds>>

-----------------------------------------------------------------------------
(* The carrier.                                                            *)

\* Mutated form of BitsAfter: closing a connection leaves the bit alone.
BitsAfterFlushOnly(new) ==
  [id \in Ids |-> IF new[id].block = targets[id].block \/ new[id].conn = "none"
                  THEN bits[id] ELSE new[id].block]

\* set_snd_bit and clr_snd_bit go with every change of snd_block, and
\* close_target_fd clears the bit whatever snd_block is.
BitsAfter(new) ==
  [id \in Ids |->
     IF new[id].conn = "none" /\ targets[id].conn = "done" THEN FALSE
     ELSE IF new[id].block = targets[id].block THEN bits[id] ELSE new[id].block]

\* Every handler starts with no packet dropped.
Now == [id \in Ids |-> [targets[id] EXCEPT !.dropped = FALSE]]

Counted(n) == IF n > OwnRoom THEN OwnRoom + 1 ELSE n

\* put is the bytes of the carrier's own packets in this handler.
Becomes(new, put) ==
  /\ targets' = new /\ bits' = BitsAfter(new)
  /\ own' = [id \in Ids |-> IF new[id].block THEN Counted(own[id] + put[id]) ELSE 0]
  /\ UNCHANGED <<sending, running>>

Nothing == [id \in Ids |-> 0]

BecomesAt(id, S) == \E t \in S : Becomes([Now EXCEPT ![id] = t], Nothing)

\* The carrier is between two handlers.
Ready == running /\ walk.left = {}

\* fetch_send_channel.
Fetch == Ready /\ chan # <<>> /\ chan' = Tail(chan)

\* One turn of dispatch_bridge's loop.
DispatchBridge ==
  /\ Fetch
  /\ BecomesAt(Head(chan).to, Dispatch(Now[Head(chan).to], Head(chan).len))
  /\ UNCHANGED <<walk, bounds>>

\* The main loop calls iter_sending_list(penv, 0).
IterSendingList ==
  /\ Ready /\ Walk(FALSE).left # {}
  /\ walk' = Walk(FALSE)
  /\ UNCHANGED <<chan, sending, bits, targets, own, running, bounds>>

\* One node of the list.
Visit(id) ==
  /\ running /\ id \in walk.left
  /\ walk' = IF walk.left = {id} THEN NoWalk ELSE [walk EXCEPT !.left = @ \ {id}]

IterNode(id) ==
  /\ Visit(id)
  /\ BecomesAt(id, Iter(Now[id], walk.del))
  /\ UNCHANGED <<chan, bounds>>

\* check_snd_buff_memory goes over all the targets.
CheckSndBuffMemory ==
  /\ Ready
  /\ Becomes([id \in Ids |-> Shrink(Now[id])], Nothing)
  /\ UNCHANGED <<chan, walk, bounds>>

\* connect_to_remote or handle_connecting_fd: a connection comes up.
ConnectTarget(id) ==
  /\ Ready /\ targets[id].conn = "none"
  /\ \E n \in InnerLens : BecomesAt(id, Connect(Now[id], n))
  /\ UNCHANGED <<chan, walk, bounds>>

\* inner_send_pkg to a connected target, blocked or not: reports to the
\* managers, their requests, the replies, pings.
SendInner(id) ==
  /\ Ready /\ targets[id].conn = "done"
  /\ \E n \in InnerLens : \E t \in InnerSend(Now[id], n) :
       Becomes([Now EXCEPT ![id] = t], [Nothing EXCEPT ![id] = StlvLen(n)])
  /\ UNCHANGED <<chan, walk, bounds>>

\* handle_target_fd: the peer has closed.
PeerCloses(id) ==
  /\ Ready /\ targets[id].conn = "done"
  /\ Becomes([Now EXCEPT ![id] = Close(@)], Nothing)
  /\ UNCHANGED <<chan, walk, bounds>>

\* copy_target_info: the targets whose address has changed are closed, and
\* del_sending_list takes every node off the list after one last flush.
Reload(changed) ==
  /\ Ready /\ reloads < MaxReload
  /\ reloads' = reloads + 1 /\ walk' = Walk(TRUE)
  /\ Becomes([id \in Ids |-> IF id \in changed THEN Close(Now[id]) ELSE Now[id]], Nothing)
  /\ UNCHANGED <<chan, kills>>

KillCarrier ==
  /\ running /\ kills < MaxKill
  /\ running' = FALSE /\ kills' = kills + 1
  /\ targets' = [id \in Ids |-> NewTarget] /\ own' = Nothing /\ walk' = NoWalk
  /\ UNCHANGED <<chan, sending, bits, reloads>>

\* Mutated form of StartCarrier: the bitmap is taken as it is found.
StartCarrierAsFound ==
  /\ ~running
  /\ running' = TRUE
  /\ UNCHANGED <<chan, sending, bits, targets, own, walk, bounds>>

\* main: attach to the segment and clear the bitmap.
StartCarrier ==
  /\ ~running
  /\ running' = TRUE /\ bits' = [id \in Ids |-> FALSE]
  /\ UNCHANGED <<chan, sending, targets, own, walk, bounds>>

-----------------------------------------------------------------------------
Init ==
  /\ chan = <<>> /\ sending = <<>> /\ running = FALSE
  /\ bits = [id \in Ids |-> FALSE] /\ targets = [id \in Ids |-> NewTarget]
  /\ own = Nothing /\ walk = NoWalk /\ reloads = 0 /\ kills = 0

Upper == SendFinish \/ \E p \in Packet : SendCheck(p)

Carrier ==
  \/ DispatchBridge \/ IterSendingList \/ CheckSndBuffMemory
  \/ \E id \in Ids : ConnectTarget(id) \/ SendInner(id) \/ PeerCloses(id) \/ IterNode(id)
  \/ \E changed \in SUBSET Ids : Reload(changed)
  \/ KillCarrier \/ StartCarrier

Next == Upper \/ Carrier

Spec == Init /\ [][Next]_vars

(***************************************************************************)
(* Fairness: the main loop dispatches and walks along the sending list on  *)
(* every turn, and a socket that is offered data over and over takes all   *)
(* of it in the end, for the peer keeps reading.  Nothing obliges the      *)
(* upper process to send, the carrier to send packets of its own, a peer   *)
(* to close or anybody to start a carrier.                                 *)
(***************************************************************************)
\* The outcome of IterNode in which the socket takes everything.
SocketDrains(id) ==
  /\ Visit(id)
  /\ targets[id].conn = "done" /\ targets[id].listed /\ targets[id].data > 0
  /\ Becomes([Now EXCEPT ![id] = [@ EXCEPT !.data = 0, !.block = FALSE, !.listed = FALSE]], Nothing)
  /\ UNCHANGED <<chan, bounds>>

\* Fetch and Visit stand for the actions they begin: no step but those of
\* DispatchBridge and IterNode leaves a carrier up and is one of them.
FairSpec ==
  /\ Spec
  /\ WF_chan(Fetch)
  /\ WF_walk(IterSendingList)
  /\ \A id \in Ids : WF_walk(Visit(id)) /\ SF_vars(SocketDrains(id))

-----------------------------------------------------------------------------
\* A full buffer would look like an empty one, so there is no such buffer.
TypeOK ==
  /\ chan \in Seq(Packet) /\ sending \in {<<>>} \cup {<<p>> : p \in Packet}
  /\ bits \in [Ids -> BOOLEAN] /\ targets \in [Ids -> Target] /\ own \in [Ids -> 0 .. OwnRoom + 1]
  /\ running \in BOOLEAN /\ walk \in [left : SUBSET Ids, del : BOOLEAN]
  /\ \A id \in Ids : targets[id].len > 0 => targets[id].data < targets[id].len
  /\ reloads \in 0 .. MaxReload /\ kills \in 0 .. MaxKill

(***************************************************************************)
(* No packet of the upper process is dropped for want of space unless the  *)
(* carrier's own packets have used up the margin: once a target is         *)
(* blocked, what the upper process can still get into the send channel,    *)
(* the packet of a call that read the bit too early included, and OwnRoom  *)
(* bytes that the carrier sends on its own account, fit in the room kept   *)
(* for them, whatever growing and shrinking the buffer has been through.   *)
(* Nothing holds the carrier to OwnRoom: beyond it packets are lost.       *)
(***************************************************************************)
NoDropForSpace == \A id \in Ids : targets[id].dropped => own[id] > OwnRoom

(***************************************************************************)
(* While the carrier is up a bit is set exactly when the carrier waits for *)
(* that target, which then is connected and has data in its buffer: a      *)
(* closed connection, a kill or a restart leaves no bit behind.            *)
(***************************************************************************)
BitMeansBacklog ==
  running =>
    \A id \in Ids :
      /\ bits[id] = targets[id].block
      /\ bits[id] => targets[id].conn = "done" /\ targets[id].data > 0

(***************************************************************************)
(* Nothing waits where nobody will look: a connected target with data in   *)
(* its buffer is on the sending list.  A reload takes it off the list, so  *)
(* this holds until the first one.                                         *)
(***************************************************************************)
BacklogIsListed ==
  reloads = 0 =>
    \A id \in Ids : targets[id].conn = "done" /\ targets[id].data > 0 => targets[id].listed

\* The inductive invariant of the proofs.  First, what the handlers of TargetSizes
\* keep to, nothing left of a carrier that is down, and the walk that takes
\* nodes off the list for good only after a reload.
Sound ==
  /\ TypeOK /\ BitMeansBacklog /\ BacklogIsListed
  /\ \A id \in Ids : Consistent(targets[id]) /\ (~running => targets[id] = NewTarget)
  /\ walk.del => reloads > 0

\* What the packets under way to a target will take of its buffer: those in
\* the channel and the one whose sender has read the bit.
Loads(q, id) == [i \in DOMAIN q |-> IF q[i].to = id THEN StlvLen(q[i].len) ELSE 0]
Load(id) == Total(Loads(chan, id)) + Total(Loads(sending, id))

\* What a blocked target's buffer must have more than, so that the last of
\* them is still taken: nothing, once the carrier has overdrawn OwnRoom.
Need(id) == IF own[id] > OwnRoom THEN 0 ELSE Load(id) + OwnRoom - own[id] + SafeOver - Over

\* The room that a channel full of packets of n bytes needs, a packet more, of
\* any length, and the carrier's own.
Reserve(n) == SendSize + PackMax + SafeOver + OwnRoom + ((SendSize - 1) \div n + 1) * Over

Spacious(t) == \A n \in PackLens : t.len - t.data >= Reserve(n)

\* A buffer at its limit was made by the last growth, or by shrinking it
\* once.  It has room for all that can come before its bit is read again:
\* while it is not blocked for all that the channel can hold, and from then
\* on for what is under way.
Roomy(t, need) ==
  AtLimit(t) =>
    /\ t.len \in {MaxExpand + BlockSize, (2 * (MaxExpand + BlockSize)) \div 3}
    /\ Spacious(t) \/ (t.block /\ t.len - t.data > need)

RoomIsKept ==
  /\ Bytes(chan) < SendSize
  /\ \A id \in Ids :
       id % 8 # 7 =>
         /\ targets[id].dropped => own[id] > OwnRoom
         /\ Roomy(targets[id], Need(id))

IInv == Sound /\ RoomIsKept

(***************************************************************************)
(* A blocked target does not stay so: the upper process may send to it     *)
(* again in the end, unless the carrier is killed and not started again,   *)
(* or a reload comes in between.                                           *)
(***************************************************************************)
BlockingEnds == \A id \in Ids : bits[id] ~> ~bits[id] \/ ~running \/ reloads > 0

(***************************************************************************)
(* src/README.md:10: routes are changed while the system runs without      *)
(* affecting its work.  A blocked target does not stay so after a reload   *)
(* either.                                                                 *)
(***************************************************************************)
BlockingEndsAlways == \A id \in Ids : bits[id] ~> ~bits[id] \/ ~running

=============================================================================
