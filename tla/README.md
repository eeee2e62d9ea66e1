# proc_bridge in TLA+

proc_bridge connects the processes of a distributed application. Every process
(the *upper process*) shares a System V memory segment, the *bridge*, with a
daemon on the same machine, its *carrier*. To send, the upper process writes a
packet into the *send channel* of the segment; its carrier fetches it and sends
it over TCP to the carrier of the target process, which writes it into the
*recv channel* of that process's segment. Carriers whose proc_id is at most
1000 are *managers*: they gather reports from the others for a console.

The modules here model the code under `src/src`, action by action; TLC checks
them on small instances, and TLAPS proves for every instance the safety of the two
channels, the targets' buffers, the send path, the client connections, the
carrier's tables and the bridges. File names below are relative to `src/src`.

## 1. Inventory

| Component | State | Operations | What must hold |
|---|---|---|---|
| Send channel (`library/proc_bridge.c`, `carrier/bridge_carrier.c`) | ring of bytes, `send_head`, `send_tail`, `sending_count`, `sended_count` | `_send_to_bridge`, `fetch_send_channel` | whole packets, in order, once; nothing unread is overwritten |
| Recv channel (`carrier/carrier_lib.c`, `library/proc_bridge.c`) | ring of bytes, `recv_head`, `recv_tail`, `recving_count`, `recved_count` | `append_recv_channel`, `_recv_from_bridge` with its drop loop | the same; a refused packet stays; a drop run stops at the last packet |
| Target buffers (`carrier/carrier_lib.c`) | per target: ring `snd_buff`, `snd_head`, `snd_tail`, `snd_buff_len`, `connected`, `snd_block`, `in_append` | `dispatch_bridge`, `pkg_2_target`, `flush_target_1/2`, `expand_target_buff`, `check_snd_buff_memory`, `inner_send_pkg`, `close_target_fd` | unsent bytes stay in order through growth, shrinking and partial sends; drops only at the limit |
| Flow control | `snd_bitmap` in the segment, the sending list, `max_expand_size`, `block_snd_size` | `set_snd_bit`, `clr_snd_bit`, `get_snd_bit`, `iter_sending_list`, `del_sending_list` | no packet dropped for want of space; no target blocked for good |
| Client connections (`carrier/bridge_carrier.c`) | per connection: `main_buff`/`back_buff`, `tail`, `recv_buffer`, `verify` | accept, `read_client_socket`, `recv_client_pkg`, `flush_recving_buff`, `expand_recv_buff`, `free_client_info`, `check_client_info` | order per connection, no loss below the limit, nothing from unverified peers, no waiting for the upper process |
| Connecting to targets | `connected` (none, in process, done), `fd`, the open descriptors | `connect_to_remote`, `handle_connecting_fd`, `handle_target_fd` | every reachable target gets connected and verified in the end; a descriptor has one owner |
| Bridge registry of the library | table of `proc_bridge_space_t`, `valid_count` | `open_bridge`, `close_bridge`, `bd2bridge` | a descriptor names one open bridge until it is closed |
| Segment and keys | key file, segment, lock of the carrier | `creater`, `deleter`, `get_bridge_shm_key`, `check_tmp_file`, `tools/deploy_proc.sh` | nobody attaches to an unfinished segment; a deployment repairs whatever an earlier one left |
| Hash maps (`carrier/carrier_base.c`) | entries by fd and by proc_id, for targets and clients | insert, delete, fetch, check | they agree with the lists they index |
| Tickers (`carrier/carrier_base.c`) | list of tickers, `latest_expire_ms` | `append_carrier_ticker`, `iter_time_ticker` | no expired ticker is passed over |
| Reload | target list, `sig_map` | `read_carrier_cfg`, `copy_target_info`, `check_signal_stat` | targets that stay are undisturbed; removed ones leave no reference |
| Manager carrier | manage items | `manager_handle`, `rebuild_manager_item_list`, `do_manage_cmd_*` | items agree with the targets |
| Console, Go binding, build scripts, demos | none of interest | | |

**Interaction.** Upper process and carrier share memory and nothing else: there
is no lock, no atomic operation and no wake-up. Each channel has one writer and
one reader, who tell each other how far they are through the two positions. The
bitmap is written by the carrier and read by the upper process. The carrier is
one thread: its main loop (`carrier/bridge_carrier.c:428-621`) runs the
tickers, dispatches packets from the send channel, walks the sending list and
handles sockets, so its handlers do not interrupt one another, but the upper
process may run between any two of its accesses to the segment. Carriers speak
to each other through TCP connections, each used in one direction only.

**What is hard.** Unsynchronised shared memory; positions read once and used
after they are out of date; packets split across the end of a ring; kills of
either process, with a segment that survives them and a bitmap that outlives
the buffers it speaks of; partial sends; buffers that grow and shrink with data
in them; a reservation (`block_snd_size`) that must cover what is already under
way; work that is done only when something else happens to trigger it; one
connection referred to from a list, two maps, a sending list and a table of
items, all of which a reload changes; descriptor numbers the kernel hands out
again; and tools that may die between making a key, a segment and its content.
`PROJECT.json` lists these hazards at their lines.

## 2. Modules

| Module | Models | Stands on |
|---|---|---|
| `Channel` | a ring of bytes: packets, positions, free space, copies in and out | |
| `PacketStream` | abstract: a FIFO of whole packets | |
| `SendChannel` | `_send_to_bridge` against `fetch_send_channel` | implements `PacketStream` |
| `RecvChannel` | `append_recv_channel` against `_recv_from_bridge` | implements `PacketStream` |
| `SendChannelProofs`, `RecvChannelProofs` | lemmas on rings, theorems on the two channels | proofs |
| `TargetSizes` | what each handler does to a target, by amounts | |
| `TargetAmounts` | abstract: one target, as a specification over `TargetSizes` | |
| `TargetBuffer` | one target's ring of bytes, with positions and contents | implements `TargetAmounts` |
| `TargetProofs` | lemmas on the handlers of `TargetSizes` | proofs |
| `TargetBufferProofs` | theorems on the ring of a target | proofs, from `TargetProofs` |
| `SendPath` | the upper process, the bitmap, the send channel as a FIFO, several targets by amounts | composes what `SendChannel` and `TargetBuffer` implement |
| `SendPathProofs` | theorems on the send path | proofs, from `TargetProofs` |
| `ClientRecv` | client connections in front of the recv channel as a FIFO | composes what `RecvChannel` implements |
| `ClientRecvProofs` | theorems on the client connections | proofs |
| `HashMap` | a map of the carrier: entries by fd and by proc_id | |
| `Carrier`, `MCCarrier` | one carrier and all its tables of connections: targets, sending list, clients, maps, descriptors, items; start, signals, reload | composes lists and `HashMap` |
| `CarrierProofs` | theorems on the carrier's tables, lemmas on `HashMap` | proofs |
| `BridgeSpace` | the table of bridges of a process, and the key file, segment, tools and carrier behind each bridge | |
| `BridgeSpaceProofs` | theorems on the table and on attaching | proofs |

The two abstractions carry the composition. `SendChannel` and `RecvChannel` go
down to single copies of bytes, and are shown to be FIFOs of whole packets; so
`SendPath` and `ClientRecv` work on sequences of packets. `TargetBuffer` goes
down to the bytes of a ring, and is shown to do to its amounts what the
operators of `TargetSizes` say; so `SendPath` works with amounts.

### Channels

An action of `SendChannel` or `RecvChannel` is a stretch of code with at most
one access to what the other process writes: the snapshot of the positions, each
`memcpy`, the store of the new position, the load and the store of a counter.
The libraries and the carrier are built with `gcc -g` and no optimisation
(`carrier/make.sh:12-18`, `library/install_lib.sh:20-22`), so that stores
are taken to happen in program order; a weaker order is not modelled. A kill puts
a process back to where it is before its first call and leaves the segment as it is.
A cell of the ring holds the packet's identity and the offset within it, so that
every byte can be told from every other.

The data length a caller passes is taken to be at most
`BRIDGE_PACKAGE_DATA_LEN`, as the API requires. `HeadLen` stands for the 25
bytes of the header: 2 are enough for a header to be split by the end of the
ring. History variables (`sent`, `ends`, `taken`) record what was published and
handed on; no action reads them for a decision. In `RecvChannel` a call that
was given a `drop_time` may find any packet too old, because the age compares the
clocks of two machines.

### Targets

A step of `TargetBuffer` is a whole handler of the carrier. Each `send` takes
no byte, some, or all, or fails. `Dispatched` is one turn of
`dispatch_bridge`'s loop: initialise, flush if a packet's worth is waiting,
store (expand at most once, else drop), put on the sending list. The bytes of
one connection are numbered modulo `Wrap`, which is more than a buffer holds, so
that the module needs no bound on time. STLV, an external library, is modelled by
the length it adds (`Over`) and the length its macro reserves (`SafeOver`).
"Connecting" is merged into not connected: in both no handler touches the buffer.
`DelSendingList` is the end of a reload, which flushes the target once and takes it
off the list with whatever is left; the history `stranded` says that this has
happened and that no step has listed, sent or closed the target since.

Once shrinking has left a position outside the buffer (finding below), what
packing and sending do is undefined, and `TargetBuffer` only goes on to close
the connection. Its invariants are therefore about what the code defines.

`SendPath` has the upper process read the bit in one step and publish in another,
with anything in between; `iter_sending_list` flushes one node per step,
because the upper process may read bits between two nodes. The set of targets is
constant; a reload changes addresses. The carrier also sends packets of its own
(`inner_send_pkg`: verifications, reports to managers, their requests and the
replies, pings). They go into the same buffers, blocked or not: `SendInner`, at any
time, to any connected target. The history `own` adds them up since the target was
blocked.

### Client connections

`ClientRecv` splits `read_client_socket` at every append to the recv
channel, since the upper process may empty the channel between two of them. A
connection's bytes arrive in pieces of any length. `FlushEnds` may happen at any
turn of the flush loop: that is the limit of 20 ms. Memory allocation does not
fail. Fragments are counted, not spelled out, and the swap between `main_buff`
and `back_buff` is part of the end of unpacking. `Idle` stands both for being out of
`read_client_socket` and for being between two of its `recv` calls: the loop that goes
on until `EAGAIN` (`carrier/bridge_carrier.c:1550`) is not told apart from a new call
of the function, and other connections may be served in between.

### The carrier's tables

`Carrier` keeps in `env` what the code keeps in `carrier_env_t` and the structs
it points to, and a function of the code is an operator on it: `CloseTargetFd`,
`IterList`, `CopyTargetInfo`, `RebuildItems` and so on carry the names they have
in C. Where the network decides, the operator gives the set of what may follow.
A handler is one step, as the carrier is one thread; `iter_sending_list` is one
step too, because here no other process looks on. A loop over targets or clients
does to each something that does not depend on the others; the operator is given
the set of those it is done to and does it at once, which the proofs need too. Descriptors are numbers the
kernel hands out lowest first (`socket`, `accept`), so a number that is closed is
used again at once, which is what the maps have to get right. `demon_proc`
closes 0, 1 and 2; the listening socket then is 0, and 1 is the epoll descriptor,
which is why `Fds` leaves 1 out. A target read at the start has `fd` 0 until it
is first connected, one that a reload adds has -1: both as in the code.

A buffer is only empty or not (amounts are the matter of `TargetSizes`). A
configuration is a function from proc_ids to addresses; a proc_id that appears
twice in the file is not modelled. `HashMap` keeps, per key, the entries in the
order a bucket has them; which keys share a bucket makes no difference to the
code, and the number of entries is counted over all. Reports to managers
(`send_carrier_msg`) are sent with every outcome `inner_send_pkg` may have; those
of `connect_to_remote` are taken together, ahead of the loop that connects. A
reload may find a configuration, an error in the file (and is tried again), or no
file at all (the process ends in `fclose(NULL)`).

### Bridges, keys and segments

`BridgeSpace` puts the table of `open_bridge` and `close_bridge` in front of
the life of a segment. `open_bridge` is cut where other processes can come
between: the read of the key file, `shmget`, `shmat` with its checks. Deployment
is cut at every system call of `creater` and of the carrier's start, and follows
`tools/deploy_proc.sh`: stop the carrier, `deleter`, `creater`, start the
carrier; `deleter` is one step. Points of the code that matter:

- `creater` opens the key file without truncating it, computes the key from the
  inode and the time *before* it writes, and takes the key it has made; when
  that key has a segment already it ends, and the script goes on.
- `check_tmp_file` truncates the file and writes the key the carrier has read at
  its start. In between the file is empty, and `atoi` makes key 0 of that, which
  is `IPC_PRIVATE`, which `shmget` refuses for size 0.
- A segment that has been removed stays with whoever is attached (`Removed`):
  after a redeployment a process that was attached before goes on writing into a
  segment that no carrier reads, until it opens the bridge again.
- `shmat` fails with `(void *)-1`, the code tests for `NULL`: the process ends
  (`OpenFaults`), reached when `deleter` comes between `shmget` and `shmat`.

Two bridges are taken never to make the same key, though a key has 16 bits of the
inode, 7 of the time and 8 of the proc_id; `deleter` removes whatever segment the
key leads to. A script is killed, and run again, but not run twice at the same time.
The lock file is never cleaned away.

## 3. Runs

| Run | Instance | What it shows |
|---|---|---|
| `send_channel` | ring of 7, header 2, bodies of 1 to 3, 4 sends, one kill of each process | the properties of the send channel, the inductive invariant `IInv` of the proofs, refinement of `PacketStream`, every packet fetched |
| `recv_channel` | ring of 7, header 2, bodies and buffers of 1 and 2, 3 appends, one kill each | the same for the recv channel, its `IInv` included, and that a call only ever looks at real packets |
| `target_buffer` | packets of 1 and 2, buffers of 4, 8, ... 18 bytes, no bound on time | byte order, drops only at the limit, blocking always with data, and with a place on the list unless a reload has taken it away, the inductive invariant `IInv`, refinement of `TargetAmounts` |
| `target_shrink` (violation) | the same | positions outside the buffer after shrinking |
| `send_path` | one target, channel of 4, packets of 1 and 2, the carrier's own packets of 1 with a margin of 2 bytes, one kill of the carrier and one reload | no drop for want of space while the carrier's own packets stay within their margin, bits only for targets with a backlog, both also across a kill or a reload; the inductive invariant `IInv`; blocking ends where there is no reload |
| `seventh_bit` (violation) | as `send_path`, proc_id 15 | packets are dropped |
| `reload_strands` (violation) | as `send_path`, packets of 2, no kill | after a reload a target stays blocked for good |
| `client_recv` | two connections, packets of 2, up to 6 in all, one loss or kill | order and completeness per connection, drops only at the limit, verification, the inductive invariant `IInv`, a carrier that never waits for the upper process with what it has read |
| `client_stuck` (violation) | one connection, 3 packets | a packet kept back is never delivered |
| `carrier` | a manager with two targets (one itself a manager) and one client, three sockets, five configurations, one signal | descriptors have one owner, lookups by map agree with the lists, the sending list with its marks, the items with the targets; a reload leaves unchanged targets alone; the inductive invariant `IInv`; targets get connected |
| `listener_closed` (violation) | the same, not a manager | a reload closes the listening socket |
| `bridge_space` | three bridges, one of them redeployed, two keys, two kills or deployments over a running carrier, one cleaning of `/tmp` | descriptors stay true and others are refused, nobody attaches to an unfinished segment, the inductive invariant `IInv`, a further deployment always ends with a carrier that serves |

**Why the bounds are enough.** A ring of 7 with packets of 3 to 5 bytes reaches
every relation of head and tail, header and body split by the end at every
offset, the ring full to the reserved byte, and, after four packets, a writer
that wraps around behind a reader that has done so once. One kill of each
process reaches every pair of points where they can be killed; a second kill
starts from the same kind of state. `target_buffer` is not bounded in time and
its lengths cover the first buffer, both ways of growing, the top-up at the
limit, and shrinking at every length at or above `Mega`. `send_path`'s
constants are chosen so that blocking, the race between the bit and the packet,
and the reserve all matter: with `Mega` 10 instead of 14, packets are dropped although
the carrier's own stay within their margin. Those may exceed it (two of them do), so
that the drops which `NoDropForSpace` allows happen too. Six packets in `client_recv` fill the channel, make
`recv_buffer` grow twice to its limit, and overflow it. In `carrier` three
sockets are as many as two targets and a client can hold at once, and every
number is handed out again after each close; the configurations of `MCCarrier`
change the address of one target while the other stays, remove and add each of
them, and remove both. One signal is one reload, with as many failed attempts
before it as may be, or one end of the process with a new start: it comes in every
state the carrier can reach before it, and everything that can happen after it
follows. In
`bridge_space` the table starts with one slot instead of two and grows to two and to
four with three bridges; two keys are the one a segment has and the one a file
makes after its time or its inode has changed, and with two faults a repair can be
broken as well. `CHECK_DEADLOCK FALSE` appears where bounds, not the code, let the
model stop.

**Fairness.** The carrier's main loop dispatches and walks the sending list on
every turn (`carrier/bridge_carrier.c:441-451`): weak fairness of `Fetch`, of
`IterSendingList` and of each `Visit` of a walk in `SendPath`.
A reader in a call goes on: weak fairness of `Carrier` and `InCall`. That the
upper process keeps calling `recv_from_bridge` with its longest buffer is an
assumption about the user of the library (strong fairness of `RecvBegin` in
`RecvChannel`, weak fairness of `UpperRecv` in `ClientRecv`). That a socket
offered data again and again takes all of it in the end is an assumption about
the peer, which reads until there is no more: strong fairness of `SocketDrains`.
In `Carrier` the ticker tries an unconnected target every few seconds and a peer
that runs answers in the end, with the handshake under way when `connect` returns
and the socket writable and not readable when it is over: strong fairness of
`InProgress` and `HandshakeOver`, since lost connections and reports come in
between. A connection that came up without `VERIFY_REQ` is closed by the other
carrier's `check_client_info`: weak fairness of `PeerClosesUnverified`. In
`BridgeSpace` a script and a starting carrier go on (weak fairness), the carrier
looks at `sig_exit` between two rewrites of the key file (strong fairness of
`StopCarrier`), and whoever finds a bridge not served runs the deployment again,
stopping the carrier first, as the message of the lock file asks (strong
fairness).
Nothing is assumed of senders, of the carrier's own packets, of the time at which peers close, of kills and
restarts or of reloads. `client_recv`'s liveness property does without the upper process: the
carrier is through with what it has read although nobody empties the channel. It does
not say that `read_client_socket` returns: a peer that sends without a pause can keep
the carrier in its loop of `recv` calls.

**What the design counts on.** `SlackAssumption` in `SendPath` is not checked
anywhere in the code: the megabyte in `max_expand_size` and `block_snd_size`
must cover what STLV adds to a send channel full of the shortest packets, and what
the carrier sends on its own account to a target while it is blocked, also after
shrinking has taken a third of a buffer away. For the carrier's own packets `OwnRoom`
is that amount. `carrier/carrier_base.h:376` gives preventing loss as the purpose of the
two fields, but nothing in the code bounds own packets: reports and replies to a target that
stays blocked long enough use up the room kept for packets whose senders have read the
bit before, and these are dropped. `NoDropForSpace` therefore ends where `OwnRoom` is
exceeded, and does not claim more. The assumption is sufficient; in the instance of
`send_path` it asks for `Mega` of 14, and TLC finds drops within `OwnRoom` up to 10.

## 4. Findings

1. `check_snd_buff_memory` replaces an empty buffer by a shorter one and keeps the
   positions (`target_shrink`).
2. `get_snd_bit` returns 0 for the highest bit of every byte, since a `char` with
   that bit set is negative: targets whose proc_id is 7 modulo 8 are never held
   back, and their packets are dropped (`seventh_bit`).
3. A reload takes targets off the sending list that still have data; a blocked one
   is put back only if the carrier itself happens to send to it, as it does to managers
   (`reload_strands`).
4. Packets kept back for a connection are delivered only when the connection brings
   another one (`client_stuck`).
5. A reload that changes or removes a target which has not been connected since the
   start closes its `fd` 0, the listening socket: the carrier runs on and nobody can
   connect to it (`listener_closed`). `ConnectedInTheEnd` and `OneOwner` leave
   descriptor 0 out for this reason.

Smaller ones are in the models and in `PROJECT.json` without a run of their own:
`sending_count` and `recving_count` are updated in place by both processes and lose
updates for good (they are only shown); descriptor 0 of the library is accepted when
nobody has it, as long as any bridge is open (`StaleRefused` leaves 0 out); a reload
without a configuration file ends the process; a failed `shmat` is not noticed; the
carrier's own packets to a blocked target heed no bit and use up the room kept for those
of the upper process (`own`, section 3).

## 5. Proofs

The theorems hold for every value of the constants that the named assumptions
admit: sizes and lengths are positive, packets are not longer than their maximum,
the reserve of STLV covers what STLV adds (`SizesAssumption`), and, for
`SendPath`, the slack of section 3. Each module of theorems on a model uses its
inductive invariant `IInv` (defined beside the model, checked by the run of that
model), proves that it holds initially and after each action, one lemma per
action, and takes the properties from it. `PROJECT.json` lists the theorems.

| Proved | From | Inductive invariant |
|---|---|---|
| send channel: `WholePacketsInOrder`, `UnreadIntact`, `CopyFits`, implements `PacketStream` | `SendChannel!IInv` | bytes against packets, writer, reader |
| recv channel: `WholePacketsInOrder`, `UnreadIntact`, `CallOnARealPacket`, implements `PacketStream` | `RecvChannel!IInv` | the same, with the drop run of the reader |
| target buffer: `UnsentInOrder`, `DroppedOnlyAtLimit`, `BlockedIsBeingFlushed`, implements `TargetAmounts` | `TargetBuffer!IInv` | positions inside unless nothing is stored; data on the list unless a reload left it; bytes in order |
| send path: `BitMeansBacklog`, `BacklogIsListed`, `NoDropForSpace` | `SendPath!IInv` | consistent targets; the room kept for what is under way and for the carrier's own packets |
| client connections: `CompleteInOrder`, `RecvHasSpace`, `DroppedOnlyAtLimit`, `OnlyVerified` | `ClientRecv!IInv` | whom the carrier is at work for; nothing whole is left behind; what waits is in order |
| carrier: `OneOwner`, `LookupAgrees`, `ListMatchesMarks`, `ItemsAgree`, `ReloadKeepsConnections` | `Carrier!IInv` | one owner per socket; the map of targets exact, that of clients never wrong; list against marks; items against targets |
| bridges: `HeldIsOpen`, `StaleRefused`, `AttachedIsComplete` | `BridgeSpace!IInv` | slots against descriptors; where `creater` is |

and of each its type invariant. None of these safety properties is inductive by
itself, and the invariants say why they hold.

**Send channel.** That unread packets are intact does not say where a writer at
work may write, nor that the copy in a reader's hands is the packet that is due.
`IInv` adds: `Ledger`, which places every packet in the stream of all bytes ever
published; `Occupied`, that the distance from head to tail is the number of bytes
published and not consumed; `WriterAt`, what the writer has laid behind the tail at
each point of its call, and that there is room both by the head it read and by the
head as it is now; and `ReaderAt`, how much of the due packet the reader holds. The
step that matters is a copy of the writer: the cells it writes are at least
`Dist(head, tail)` beyond the head, the cells of unread packets less than that
(lemma `Within`), and two offsets below the ring's size never meet (the lemmas on
positions that stand before it).

**Recv channel.** The reader may consume several packets in one call, against the
tail it read at the start. `ReaderAt` therefore says that this tail is the end of
*some* packet not before the one that is due (`RunEndsAt`): the tail itself may have
moved on, and the run must still stop at the end of a packet. From it follows
`CallOnARealPacket`.

**Target buffer.** A place of the ring is `(head + i) % len`, and two different
places never meet (`Apart`); bytes carry their number modulo `Wrap`. `Situated`
allows positions outside the buffer, as the code does after shrinking an empty one,
but only when they are equal, and so nothing is stored; and data off the sending list,
but only where a reload has left it. The proof that bytes are
in order goes through every handler: expanding copies the two parts of a ring that
wraps around to the front of a longer one, a partial send moves the head, a flush
may wrap. Each handler on bytes is then shown to be the handler of `TargetSizes` on
the amount between the positions, which is the refinement.

**Send path.** `Sound` says that each target is as its handlers expect it, that
nothing is left of a carrier that is down, and that a walk takes nodes off for good
only after a reload. `RoomIsKept` is the arithmetic of the reservation: a buffer at
its limit that is not blocked has room for a channel full of the shortest packets,
one packet more and `OwnRoom` (`Spacious`, `Reserve`); once blocked, it has room for
what is under way to it (`Load`): the packets for it in the channel and the one whose
sender has read the bit before, and for what is left of `OwnRoom` (`Need`). Each packet
of the carrier's own takes as much from the room as it adds to `own`; once `own` exceeds
`OwnRoom` nothing is claimed of the buffer until it is no longer blocked. A packet enters the load only by a sender that found
the bit clear. Blocking takes place with the room of `Reserve`, and a channel never
holds more than `Reserve` provides for, because each of its packets has at least the
shortest length (lemmas on `Total`, sums over sequences). Shrinking may take a third
of a buffer away, once, and `SlackAssumption` covers that. `NothingIsDropped` is
stated for proc_ids that are not 7 modulo 8; for the others the run `seventh_bit`
shows that it is false.

**Client connections.** What waits of a connection is, in this order, what is kept
back in `recv_buffer`, the packet in hand, and what is unpacked or on the wire
(`Waiting`). `CompleteInOrder` relates its numbers to those delivered and dropped;
every handler either takes the first one away and delivers it, takes one from
anywhere and drops it, takes a `VERIFY_REQ`, which has no number, or shifts the
border between the three parts. `RecvHasSpace` needs `UnpackedElsewhere`: only the
connection the carrier is at work for can have a complete packet in `main_buff`,
all others were unpacked to the last fragment when their handler ended, so that what
is left is shorter than a packet and the next `read` has room. Bytes and lengths are
sums over sequences, written as the size of a set of counted units, so that their
lemmas need no induction.

**The carrier's tables.** `Sound` is what every handler finds and leaves, and
each operator is shown to lead from `Sound` to `Sound` (`Follows`, and the lemmas
named after the operators). The parts carry one another: because a socket has one
owner (`Owned`), the entry that `close_target_fd` deletes is that of the target it
closes; because the map of targets has exactly the entries the list asks for
(`TargetMapExact`), a number the kernel hands out again finds its key free; because
it is exact, its short cut when it is full is harmless. The map of clients is filled
only once, by `check_hash`, and may lack entries; it has no wrong one
(`ClientMapSound`), since `insert_hash_map` asks the *other* map whether the key is
taken and `free_client_info` removes what there is. Within a reload the map and the
list are out of step with the targets: between the closing of redundant targets and
the new map only the owners, `Settled`, the map of clients and "a marked target is
in the list" hold, and `MergedIs` and `CopyTargetInfoIs` lead across; nodes of
targets that are gone leave in `del_sending_list`. `ReloadKeepsConnections` follows
from what `ReloadIs` says of a reload as a whole. `Fds`, `Ids` and `Configs` are any
finite sets of descriptors and proc_ids and any configurations over them.

**Bridges.** `SlotsAreHeld`: the slots with a bridge are those of the descriptors
held, each with its own index, every other slot is as `memset` left it, and
`valid_count` counts them, through the growth and the release of the table.
`SlotIsReserved`: the slot that an `open_bridge` under way has found is still free
when it fills it. `CreaterAt`: `creater` fills only a segment that it has made, and
which nobody can have attached to; so a kill of it leaves a segment that is refused.

Only model-checked: liveness, that is `EveryPacketFetched`, `EveryPacketTaken`,
`BlockingEnds`, `HandlerEnds`, `ConnectedInTheEnd` and `RedeployServes`, since
fairness and ENABLED are beyond the prover; and that the code violates what section
4 lists. Every other property of a passing run is a theorem.

## 6. Not modelled

- Statistics and logging; failing `malloc`; the weak memory order of optimised
  builds; the fields of headers and the STLV format; the order of packets across two
  successive connections of one peer, which the code does not establish.
- What a manager does with the reports it gets, and the commands of the console
  (`handle_msg_event`, `handle_msg_error`, `do_manage_cmd_*`,
  `carrier/bridge_manager.c`): tables for display, written by one thread and read
  by the same one. Of a manager's items only their set and addresses are modelled,
  not the connection states they show.
- The list of tickers: its handlers are actions that may come at any time.
- A signal handler that interrupts the main thread within a handler.
- Bridges whose keys collide; the removal of the lock file; descriptor 0 of the
  library closed twice.
- The bits of the bitmap for targets that a reload removes.
- The Go binding (one call per function of the library, no state), the scripts that
  build and copy, and the demos.

## 7. Plan

In order of weight:

1. `Manager`: items, messages and reports.
2. In `ClientRecv`: failing allocation.
