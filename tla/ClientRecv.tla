----------------------------- MODULE ClientRecv -----------------------------
(***************************************************************************)
(* How a carrier takes packets from the connections other carriers have    *)
(* opened to it (client_info_t) to the recv channel of its upper process.  *)
(*                                                                         *)
(* The bytes of a connection come in pieces into a buffer of their own and *)
(* are unpacked there.  A packet the channel has no room for is kept back  *)
(* in recv_buffer, and the packets of that connection that come after it   *)
(* go behind it.  The upper process empties the channel all the while, and *)
(* a connection may be lost between any two handlers.                      *)
(*                                                                         *)
(* The recv channel is the FIFO that RecvChannel implements; what matters  *)
(* here of a packet in it is its length.                                   *)
(***************************************************************************)
EXTENDS Integers, Sequences, FiniteSets

CONSTANTS
  Clients,         \* connections
  Lens,            \* lengths of the packets, header included
  VerifyLen,       \* length of a VERIFY_REQ packet
  PackMax,         \* BRIDGE_PACK_LEN
  Over,            \* what STLV adds to a packet
  MainBuffSize,    \* sizeof(main_buff)
  MaxClientBuff,   \* MAX_CLIENT_BUFF_SIZE
  RecvSize,        \* recv_buff_size of the bridge
  MaxSent,         \* bound on the packets sent, on all connections together
  MaxLost          \* bound on lost connections

ASSUME ClientAssumption ==
  /\ IsFiniteSet(Clients) /\ PackMax \in Nat \ {0}
  /\ Lens \subseteq 1 .. PackMax /\ VerifyLen \in 1 .. PackMax
  /\ Over \in Nat /\ MainBuffSize \in Nat /\ PackMax + Over <= MainBuffSize
  /\ MaxClientBuff \in Nat \ {0} /\ RecvSize \in Nat \ {0}
  /\ MaxSent \in Nat /\ MaxLost \in Nat

VARIABLES
  chan,     \* the recv channel: the lengths of the packets in it
  client,   \* client_info_t of every connection, and what is on the way to it
  call,     \* what read_client_socket is at
  sent,     \* history: the number of packets sent on a connection
  last,     \* history: the number of the last packet put into the channel
  gone,     \* history: the numbers of the packets dropped
  lost      \* bound

vars == <<chan, client, call, sent, last, gone, lost>>
history == <<sent, last, gone>>

(***************************************************************************)
(* wire is the packets not unpacked yet; tail says how many of their bytes *)
(* are in buff.  kept is the packets in recv_buffer, buffLen its buff_len. *)
(***************************************************************************)
DataPacket == [kind : {"data"}, no : Nat, len : Lens]
VerifyPacket == [kind : {"verify", "badkey"}, no : {0}, len : {VerifyLen}]
Packet == DataPacket \cup VerifyPacket

Client ==
  [open : BOOLEAN, verify : BOOLEAN, wire : Seq(Packet), tail : Nat, kept : Seq(DataPacket), buffLen : Nat]

NoClient ==
  [open |-> FALSE, verify |-> FALSE, wire |-> <<>>, tail |-> 0, kept |-> <<>>, buffLen |-> 0]

(***************************************************************************)
(* at is where the carrier is: out of read_client_socket or between two of *)
(* the reads in its loop, which are not told apart, in its unpacking loop, *)
(* in flush_recving_buff after `done' packets, or about to deliver the     *)
(* packet pkg.                                                             *)
(***************************************************************************)
Idle == [at |-> "idle"]
Unpacking(c) == [at |-> "unpack", c |-> c]
Flushing(c, pkg, done) == [at |-> "flush", c |-> c, pkg |-> pkg, done |-> done]
Delivering(c, pkg) == [at |-> "deliver", c |-> c, pkg |-> pkg]

Call ==
  {Idle} \cup [at : {"unpack"}, c : Clients]
    \cup [at : {"flush"}, c : Clients, pkg : DataPacket, done : Nat]
    \cup [at : {"deliver"}, c : Clients, pkg : DataPacket]

StlvLen(pkg) == pkg.len + Over

\* The sum of the values of f: its units, each a pair, are counted.
Units(f) == UNION {{i} \X (1 .. f[i]) : i \in DOMAIN f}
Total(f) == Cardinality(Units(f))

Bytes(pkgs) == Total([i \in DOMAIN pkgs |-> pkgs[i].len])
StlvBytes(pkgs) == Total([i \in DOMAIN pkgs |-> StlvLen(pkgs[i])])
WireBytes(c) == StlvBytes(client[c].wire)

\* Mutated form of HasRoom: the channel is filled to the last byte.
HasRoomNoReserve(pkg) == Total(chan) + pkg.len <= RecvSize

\* append_recv_channel keeps one byte free.
HasRoom(pkg) == Total(chan) + pkg.len < RecvSize

LeastOf(a, b) == IF a < b THEN a ELSE b

-----------------------------------------------------------------------------
(* The peers and the network.                                              *)

\* main: accept.  The peer's first packet is its VERIFY_REQ, unless its
\* connect succeeded at once.
Accept(c) ==
  /\ ~client[c].open /\ call = Idle
  /\ \E first \in {<<>>} \cup {<<pkg>> : pkg \in VerifyPacket} :
       client' = [client EXCEPT ![c] = [NoClient EXCEPT !.open = TRUE, !.wire = first]]
  /\ UNCHANGED <<chan, call, history, lost>>

\* The peer's carrier sends a packet of its upper process.
PeerSends(c) ==
  /\ client[c].open /\ Total(sent) < MaxSent
  /\ \E n \in Lens :
       client' = [client EXCEPT ![c].wire = Append(@, [kind |-> "data", no |-> sent[c] + 1, len |-> n])]
  /\ sent' = [sent EXCEPT ![c] = @ + 1]
  /\ UNCHANGED <<chan, call, last, gone, lost>>

\* free_client_info.  What was kept back, and what is still on the way, is
\* not delivered.
Freed(C) ==
  /\ client' = [c \in Clients |-> IF c \in C THEN NoClient ELSE client[c]]
  /\ last' = [c \in Clients |-> IF c \in C THEN sent[c] ELSE last[c]]
  /\ gone' = [c \in Clients |-> IF c \in C THEN {} ELSE gone[c]]
  /\ call' = Idle
  /\ UNCHANGED <<chan, sent>>

\* read_client_socket: the peer has closed, or recv fails.
ConnectionLost(c) ==
  /\ call = Idle /\ client[c].open /\ lost < MaxLost
  /\ Freed({c}) /\ lost' = lost + 1

\* check_client_info: not verified within ten seconds.
CheckClientInfo(c) ==
  /\ call = Idle /\ client[c].open /\ ~client[c].verify /\ lost < MaxLost
  /\ Freed({c}) /\ lost' = lost + 1

KillCarrier ==
  /\ lost < MaxLost
  /\ Freed(Clients) /\ lost' = lost + 1

-----------------------------------------------------------------------------
(* read_client_socket.                                                     *)

\* One recv into the space behind tail.
Recv(c) ==
  /\ call = Idle /\ client[c].open
  /\ \E k \in 1 .. LeastOf(MainBuffSize, WireBytes(c)) - client[c].tail :
       client' = [client EXCEPT ![c].tail = @ + k]
  /\ call' = Unpacking(c)
  /\ UNCHANGED <<chan, history, lost>>

\* STLV_UNPACK finds a whole packet at the front of buff.
Complete(c) ==
  client[c].wire # <<>> /\ client[c].tail >= StlvLen(Head(client[c].wire))

Unpacked(c) ==
  [client EXCEPT ![c].wire = Tail(@), ![c].tail = @ - StlvLen(Head(client[c].wire))]

\* Mutated form of UnpackEnds: one recv unpacks one packet.
UnpackEndsEarly(c) ==
  /\ call = Unpacking(c)
  /\ call' = Idle
  /\ UNCHANGED <<chan, client, history, lost>>

\* "imcomplete pack. waiting for next recv!"; the rest moves to the front.
UnpackEnds(c) ==
  /\ call = Unpacking(c) /\ ~Complete(c)
  /\ call' = Idle
  /\ UNCHANGED <<chan, client, history, lost>>

\* recv_inner_proto: a VERIFY_REQ, with the right key or not.
UnpackVerify(c) ==
  /\ call = Unpacking(c) /\ Complete(c)
  /\ LET pkg == Head(client[c].wire)
     IN /\ pkg.kind # "data"
        /\ client' = [Unpacked(c) EXCEPT ![c].verify = @ \/ pkg.kind = "verify"]
  /\ UNCHANGED <<chan, call, history, lost>>

\* Mutated form of UnpackUnverified: the packet is skipped and its sender
\* is taken for verified.
UnpackUnverifiedTrusting(c) ==
  /\ call = Unpacking(c) /\ Complete(c) /\ ~client[c].verify
  /\ Head(client[c].wire).kind = "data"
  /\ client' = Unpacked(c)
  /\ call' = Delivering(c, Head(client[c].wire))
  /\ UNCHANGED <<chan, history, lost>>

\* A data packet of a peer that has not been verified: the connection is
\* closed.
UnpackUnverified(c) ==
  /\ call = Unpacking(c) /\ Complete(c) /\ ~client[c].verify
  /\ Head(client[c].wire).kind = "data"
  /\ Freed({c})
  /\ UNCHANGED lost

\* recv_client_pkg begins: what was kept back comes first.
UnpackData(c) ==
  /\ call = Unpacking(c) /\ Complete(c) /\ client[c].verify
  /\ LET pkg == Head(client[c].wire)
     IN /\ pkg.kind = "data"
        /\ call' = IF client[c].kept # <<>> THEN Flushing(c, pkg, 0) ELSE Delivering(c, pkg)
  /\ client' = Unpacked(c)
  /\ UNCHANGED <<chan, history, lost>>

-----------------------------------------------------------------------------
(* flush_recving_buff.                                                     *)

\* One turn of the loop that succeeds.  A turn that fails for want of room
\* changes nothing: append_recv_channel's -3 is not one of the results that
\* leave the loop.
FlushPackage(c) ==
  /\ call.at = "flush" /\ call.c = c /\ call.done < Len(client[c].kept)
  /\ LET pkg == client[c].kept[call.done + 1]
     IN /\ HasRoom(pkg)
        /\ chan' = Append(chan, pkg.len)
        /\ last' = [last EXCEPT ![c] = pkg.no]
  /\ call' = [call EXCEPT !.done = @ + 1]
  /\ UNCHANGED <<client, sent, gone, lost>>

\* Mutated form of FlushEnds: there is no limit of time.
FlushEndsWhenDone(c) ==
  /\ call.at = "flush" /\ call.c = c /\ call.done = Len(client[c].kept)
  /\ client' = [client EXCEPT ![c].kept = <<>>]
  /\ call' = Delivering(c, call.pkg)
  /\ UNCHANGED <<chan, history, lost>>

\* No more data, or 20 ms are over, at any turn of the loop.
FlushEnds(c) ==
  /\ call.at = "flush" /\ call.c = c
  /\ client' = [client EXCEPT ![c].kept = SubSeq(@, call.done + 1, Len(@))]
  /\ call' = Delivering(c, call.pkg)
  /\ UNCHANGED <<chan, history, lost>>

-----------------------------------------------------------------------------
(* The rest of recv_client_pkg, and back to the unpacking loop.            *)

\* Mutated form of MayAppend: a packet overtakes those kept back.
MayAppendAhead(c, pkg) == HasRoom(pkg)

MayAppend(c, pkg) == client[c].kept = <<>> /\ HasRoom(pkg)

Deliver(c) ==
  /\ call.at = "deliver" /\ call.c = c /\ MayAppend(c, call.pkg)
  /\ chan' = Append(chan, call.pkg.len)
  /\ last' = [last EXCEPT ![c] = call.pkg.no]
  /\ call' = Unpacking(c)
  /\ UNCHANGED <<client, sent, gone, lost>>

\* Mutated form of Expanded: the buffer never gets beyond its first length.
ExpandedOnce(c, pkg) ==
  LET now == client[c].buffLen
  IN IF now = 0 THEN 2 * PackMax ELSE now

\* buff_len after expand_recv_buff, if the packet needs it.
Expanded(c, pkg) ==
  LET now == client[c].buffLen
  IN IF now - Bytes(client[c].kept) < pkg.len /\ now < MaxClientBuff THEN now + 2 * PackMax ELSE now

\* The packet is kept back, or dropped.
KeepBack(c) ==
  /\ call.at = "deliver" /\ call.c = c /\ ~MayAppend(c, call.pkg)
  /\ LET fits == Expanded(c, call.pkg) - Bytes(client[c].kept) >= call.pkg.len
     IN /\ client' = [client EXCEPT ![c].buffLen = Expanded(c, call.pkg),
                                    ![c].kept = IF fits THEN Append(@, call.pkg) ELSE @]
        /\ gone' = IF fits THEN gone ELSE [gone EXCEPT ![c] = @ \cup {call.pkg.no}]
  /\ call' = Unpacking(c)
  /\ UNCHANGED <<chan, sent, last, lost>>

\* recv_from_bridge: the upper process takes a packet.
UpperRecv ==
  /\ chan # <<>> /\ chan' = Tail(chan)
  /\ UNCHANGED <<client, call, history, lost>>

-----------------------------------------------------------------------------
Init ==
  /\ chan = <<>> /\ client = [c \in Clients |-> NoClient] /\ call = Idle
  /\ sent = [c \in Clients |-> 0] /\ last = [c \in Clients |-> 0]
  /\ gone = [c \in Clients |-> {}] /\ lost = 0

\* What read_client_socket does between two recvs.
Handle(c) ==
  \/ UnpackEnds(c) \/ UnpackVerify(c) \/ UnpackUnverified(c) \/ UnpackData(c)
  \/ FlushEnds(c) \/ Deliver(c) \/ KeepBack(c)

Next ==
  \/ \E c \in Clients :
       \/ Accept(c) \/ PeerSends(c) \/ ConnectionLost(c) \/ CheckClientInfo(c)
       \/ Recv(c) \/ Handle(c) \/ FlushPackage(c)
  \/ KillCarrier \/ UpperRecv

Spec == Init /\ [][Next]_vars

(***************************************************************************)
(* Fairness: the carrier's thread runs, and time passes in it; a socket    *)
(* with data is read, for epoll reports it; the upper process takes what   *)
(* is in the channel.  Nothing obliges a peer to send.                     *)
(***************************************************************************)
CarrierFair == \A c \in Clients : WF_vars(Handle(c)) /\ WF_vars(Recv(c))

CarrierSpec == Spec /\ CarrierFair

FairSpec == Spec /\ CarrierFair /\ WF_vars(UpperRecv)

-----------------------------------------------------------------------------
TypeOK ==
  /\ chan \in Seq(Lens) /\ Total(chan) < RecvSize
  /\ client \in [Clients -> Client] /\ call \in Call
  /\ sent \in [Clients -> Nat] /\ last \in [Clients -> Nat] /\ gone \in [Clients -> SUBSET Nat]
  /\ \A c \in Clients :
       /\ client[c].tail <= WireBytes(c) /\ client[c].tail <= MainBuffSize
       /\ Bytes(client[c].kept) <= client[c].buffLen
       /\ last[c] <= sent[c] /\ gone[c] \subseteq 1 .. sent[c]
  /\ lost \in 0 .. MaxLost

(***************************************************************************)
(* Every time recv is called there is space for it to fill: a recv of no   *)
(* bytes returns 0, which the code takes for the peer closing.             *)
(***************************************************************************)
RecvHasSpace == \A c \in Clients : call = Idle => client[c].tail < MainBuffSize

\* The packet of connection c in the hands of recv_client_pkg.
InHand(c) == IF call.at \in {"flush", "deliver"} /\ call.c = c THEN <<call.pkg>> ELSE <<>>

\* The packets kept back that flush_recving_buff has not delivered yet.
StillKept(c) ==
  LET done == IF call.at = "flush" /\ call.c = c THEN call.done ELSE 0
  IN SubSeq(client[c].kept, done + 1, Len(client[c].kept))

\* All that is still to be put into the channel, but for a VERIFY_REQ.
Waiting(c) == StillKept(c) \o InHand(c) \o client[c].wire

IsData(pkg) == pkg.kind = "data"

Increasing(pkgs) ==
  \A i, j \in DOMAIN pkgs : i < j /\ IsData(pkgs[i]) /\ IsData(pkgs[j]) => pkgs[i].no < pkgs[j].no

Numbers(pkgs) == {pkgs[i].no : i \in {j \in DOMAIN pkgs : IsData(pkgs[j])}}

(***************************************************************************)
(* Order, no loss and no repetition on a connection: after the last packet *)
(* put into the channel come, in recv_buffer, in hand and on the way, all  *)
(* the packets sent since that have not been dropped, each of them once    *)
(* and in the order they were sent.                                        *)
(***************************************************************************)
CompleteInOrder ==
  \A c \in Clients :
    Increasing(Waiting(c)) /\ Numbers(Waiting(c)) = (last[c] + 1 .. sent[c]) \ gone[c]

\* The inductive invariant of the proofs.  Whoever is at work is at it for an
\* open connection, beyond unpacking for a verified one; one that is not open has
\* nothing; and whole packets wait only where the unpacking loop is.
CallAt ==
  call.at # "idle" =>
    /\ client[call.c].open
    /\ call.at \in {"flush", "deliver"} => client[call.c].verify
    /\ call.at = "flush" => call.done <= Len(client[call.c].kept)

ClosedIsClear == \A c \in Clients : ~client[c].open => client[c] = NoClient

UnpackedElsewhere == \A c \in Clients : (call.at # "idle" => call.c # c) => ~Complete(c)

IInv == TypeOK /\ CallAt /\ ClosedIsClear /\ UnpackedElsewhere /\ CompleteInOrder

(***************************************************************************)
(* A packet is dropped only when recv_buffer cannot be expanded any more   *)
(* and has no room for it.                                                 *)
(***************************************************************************)
DroppedOnlyAtLimit ==
  [][\A c \in Clients :
       ~(gone'[c] \subseteq gone[c]) =>
         /\ client'[c].buffLen >= MaxClientBuff
         /\ Bytes(client'[c].kept) + call.pkg.len > client'[c].buffLen]_vars

(***************************************************************************)
(* A packet reaches the recv channel only from a connection that has been  *)
(* verified.                                                               *)
(***************************************************************************)
OnlyVerified ==
  [][\A c \in Clients : client'[c].open /\ last'[c] # last[c] => client[c].verify]_vars

(***************************************************************************)
(* The carrier never waits for the upper process: whatever it is at with   *)
(* what it has read, unpacking, flushing or delivering, it is through with *)
(* in the end although nobody empties the channel.  It then reads again or *)
(* leaves read_client_socket; a peer that sends all the time can keep it   *)
(* in the loop of reads, of which this says nothing.                       *)
(***************************************************************************)
HandlerEnds == call # Idle ~> call = Idle

(***************************************************************************)
(* recv_buffer keeps packets for the time being (carrier_base.h): while    *)
(* the upper process goes on receiving they are delivered in the end, or   *)
(* the connection is lost.                                                 *)
(***************************************************************************)
KeptIsDelivered == \A c \in Clients : client[c].kept # <<>> ~> client[c].kept = <<>>

=============================================================================
