------------------------------- MODULE Carrier -------------------------------
(***************************************************************************)
(* One carrier and the tables it keeps of its connections: the targets it  *)
(* connects to, the list of those with unsent data, the clients connected  *)
(* to it, the two hash maps, the descriptors of the process, and, on a     *)
(* manager, the items it shows.  The configuration is read at the start    *)
(* and again whenever SIGUSR1 asks for it.                                 *)
(*                                                                         *)
(* The carrier is one thread: a handler is a step.  Nearly all it keeps is *)
(* one struct, carrier_env_t, and so is env here; a function of the code   *)
(* is an operator from env to env, or to the set of what env may become    *)
(* where that depends on the network.  What is in the buffers is the       *)
(* matter of TargetSizes; here a target has unsent data or has not.        *)
(*                                                                         *)
(* A loop of the code over targets or clients does to each what does not   *)
(* depend on the others, and is done at once here: the operator is given   *)
(* all it is done to.                                                      *)
(***************************************************************************)
EXTENDS HashMap, SequencesExt

CONSTANTS
  Addrs,      \* addresses (ip and port) of targets
  Configs,    \* what the configuration may say: addresses of some proc_ids
  Managers,   \* the proc_ids up to MANAGER_PROC_ID_MAX
  IsManager,  \* this carrier is a manager
  MaxSignals  \* bound on signals to the process

ASSUME CarrierAssumption ==
  /\ Configs \subseteq UNION {[S -> Addrs] : S \in SUBSET Ids}
  /\ Managers \subseteq Ids /\ IsManager \in BOOLEAN /\ MaxSignals \in Nat
  /\ Ids \cap Cids = {} /\ Null \notin Cids

VARIABLES
  env,      \* carrier_env_t
  sigs,     \* sig_map: what signals have asked for
  checked,  \* check_hash has had its one turn
  running,  \* the process is up
  signals

vars == <<env, sigs, checked, running, signals>>

\* The functions from some of S to T.
Partial(S, T) == UNION {[D -> T] : D \in SUBSET S}

NoFd == -1
Listener == 0   \* demon_proc closes 0, 1 and 2: listen_socket becomes 0

(***************************************************************************)
(* A target_detail_t: listed is in_append, data says that the buffer is    *)
(* not empty, and ver that VERIFY_REQ has been sent on this connection.    *)
(***************************************************************************)
Target ==
  [addr : Addrs, fd : Fds \cup {NoFd}, conn : {"none", "proc", "done"},
   ver : BOOLEAN, data : BOOLEAN, listed : BOOLEAN]

NewTarget(addr, fd) ==
  [addr |-> addr, fd |-> fd, conn |-> "none", ver |-> FALSE, data |-> FALSE, listed |-> FALSE]

(***************************************************************************)
(* sending is the sending list by the proc_ids of its nodes; open is what  *)
(* descriptors of sockets the kernel has open, listening that 0 still is   *)
(* the listening socket.                                                   *)
(***************************************************************************)
NoEnv ==
  [targets |-> <<>>, sending |-> <<>>, tmap |-> NoMap, cmap |-> NoMap,
   clients |-> <<>>, items |-> <<>>, open |-> {}, listening |-> FALSE]

FreeFds(e) == Fds \ e.open

\* close(2) of each of fds.
CloseFds(e, fds) == [e EXCEPT !.open = @ \ fds, !.listening = @ /\ Listener \notin fds]

-----------------------------------------------------------------------------
(* Looking up.                                                             *)

TheOne(S) == IF S = {} THEN Null ELSE CHOOSE x \in S : TRUE

InList(e, fd) == TheOne({id \in DOMAIN e.targets : e.targets[id].fd = fd})

\* The short cut of the lookups: a map that is full has all there is.
MapIsFull(e) == e.tmap.on /\ EntryCount(e.tmap) = 2 * Cardinality(DOMAIN e.targets)

Fd2Target(e, fd) ==
  LET hit == Fetch(e.tmap, FdKey(fd))
  IN IF fd <= 0 THEN Null
     ELSE IF hit # Null THEN hit
     ELSE IF MapIsFull(e) THEN Null ELSE InList(e, fd)

ProcId2Target(e, id) ==
  LET hit == Fetch(e.tmap, ProcKey(id))
  IN IF hit # Null THEN hit
     ELSE IF MapIsFull(e) THEN Null ELSE TheOne(DOMAIN e.targets \cap {id})

Fd2Client(e, fd) ==
  LET hit == Fetch(e.cmap, FdKey(fd))
  IN IF fd <= 0 THEN Null
     ELSE IF hit # Null THEN hit
     ELSE TheOne({c \in DOMAIN e.clients : e.clients[c].fd = fd})

-----------------------------------------------------------------------------
(* Targets.                                                                *)

FdsOf(e, ids) == {e.targets[id].fd : id \in ids}

Disconnected(t) == [t EXCEPT !.fd = NoFd, !.conn = "none", !.ver = FALSE, !.data = FALSE]

Disconnect(e, ids) ==
  [e EXCEPT !.tmap = Delete(@, {FdKey(fd) : fd \in FdsOf(e, ids)}),
            !.targets = [id \in DOMAIN @ |-> IF id \in ids THEN Disconnected(@[id]) ELSE @[id]]]

\* Mutated form of CloseTargetFd: the descriptors are forgotten, not closed.
CloseTargetFdLeak(e, ids) == Disconnect(e, ids)

\* Mutated form of CloseTargetFd: the buffer is kept for the next connection.
CloseTargetFdKeepData(e, ids) ==
  LET off == CloseFds(Disconnect(e, ids), FdsOf(e, ids))
  IN [off EXCEPT !.targets = [id \in DOMAIN @ |-> [@[id] EXCEPT !.data = e.targets[id].data]]]

\* close_target_fd.  It closes descriptor 0 if that is what fd says, and
\* leaves in_append and the item of a manager as they are.
CloseTargetFd(e, ids) == CloseFds(Disconnect(e, ids), FdsOf(e, ids))

\* append_sending_node, to the front.
AppendSendingNode(e, ids) ==
  [e EXCEPT !.sending = SetToSeq({id \in ids : ~e.targets[id].listed}) \o @,
            !.targets = [id \in DOMAIN @ |-> IF id \in ids THEN [@[id] EXCEPT !.listed = TRUE] ELSE @[id]]]

SetData(e, ids, data) ==
  [e EXCEPT !.targets = [id \in DOMAIN @ |-> IF id \in ids THEN [@[id] EXCEPT !.data = data] ELSE @[id]]]

\* What cannot be sent is kept, and waits for iter_sending_list.
Keep(e, ids) == AppendSendingNode(SetData(e, ids, TRUE), ids)

\* inner_send_pkg: it fails and closes, keeps some, or sends it all.
InnerSend(e, ids) ==
  UNION {{Keep(CloseTargetFd(SetData(e, ids, FALSE), failed), kept) : kept \in SUBSET (ids \ failed)} :
           failed \in SUBSET ids}

\* send_carrier_msg: to every connected manager.
SendCarrierMsg(e) ==
  InnerSend(e, {id \in Managers \cap DOMAIN e.targets : e.targets[id].conn = "done"})

\* Nothing is reported in the first 20 seconds.
MayReport(e) == {e} \cup SendCarrierMsg(e)

-----------------------------------------------------------------------------
(* Connecting.                                                             *)

\* Sockets for some unconnected targets: the lowest numbers that are free,
\* as those that fail are closed at once; which target gets which depends
\* on the order of the list.
Unconnected(e) == {id \in DOMAIN e.targets : e.targets[id].conn = "none"}

Sockets(e) ==
  {fds \in Partial(Unconnected(e), FreeFds(e)) :
     /\ IsInjective(fds)
     /\ \A id \in DOMAIN fds, fd \in FreeFds(e) \ Range(fds) : fds[id] < fd}

\* connect is in progress or has succeeded, for those in up: the targets
\* have got their sockets, and the map its entries.
Attach(e, fds, up) ==
  [e EXCEPT !.open = @ \cup Range(fds),
            !.tmap = Insert(@, @, ByFd(fds)),
            !.targets = [id \in DOMAIN @ |->
               IF id \in DOMAIN fds
               THEN [@[id] EXCEPT !.fd = fds[id], !.conn = IF id \in up THEN "done" ELSE "proc",
                                  !.ver = FALSE, !.data = FALSE]
               ELSE @[id]]]

\* The loop over the unconnected targets: a failure leaves nothing behind.
ConnectAll(e) == UNION {{Attach(e, fds, up) : up \in SUBSET DOMAIN fds} : fds \in Sockets(e)}

\* The ticker.  What it reports before, within and after the loop is taken
\* together, ahead of it.
ConnectToRemote ==
  /\ running
  /\ env' \in UNION {ConnectAll(e) : e \in MayReport(env)}
  /\ UNCHANGED <<sigs, checked, running, signals>>

\* Mutated form of HandleConnectingFd: after a failure the target goes on
\* as one that is connecting, as the item of a manager does.
HandleConnectingFdGoesOn(e, id) ==
  LET up == [e EXCEPT !.targets[id] = [@ EXCEPT !.conn = "done", !.data = FALSE]]
      off == CloseTargetFd(e, {id})
  IN {[off EXCEPT !.targets[id] = [@ EXCEPT !.fd = 0, !.conn = "proc"]], up}
       \cup InnerSend([up EXCEPT !.targets[id] = [@ EXCEPT !.ver = TRUE]], {id})

\* handle_connecting_fd: writable only, and VERIFY_REQ goes out; readable
\* too, but connected (EISCONN); or anything else, which is a failure.
HandleConnectingFd(e, id) ==
  LET up == [e EXCEPT !.targets[id] = [@ EXCEPT !.conn = "done", !.data = FALSE]]
      ver == [up EXCEPT !.targets[id] = [@ EXCEPT !.ver = TRUE]]
  IN {CloseTargetFd(e, {id}), up} \cup InnerSend(ver, {id})

\* The main loop with an event of the socket of a target.  handle_target_fd
\* closes; on a manager it writes to the item of the target first, which
\* ItemsAgree says is there.
TargetEvent(fd) ==
  LET id == Fd2Target(env, fd)
  IN /\ running /\ fd \in env.open \ {Listener} /\ id # Null
     /\ env' \in IF env.targets[id].conn = "proc" THEN HandleConnectingFd(env, id)
                 ELSE {CloseTargetFd(env, {id})}
     /\ UNCHANGED <<sigs, checked, running, signals>>

-----------------------------------------------------------------------------
(* Sending.                                                                *)

\* dispatch_bridge with a packet for a connected target.
DispatchBridge(to) ==
  LET id == ProcId2Target(env, to)
  IN /\ running /\ id # Null /\ env.targets[id].conn = "done"
     /\ env' \in {CloseTargetFd(env, {id}), Keep(env, {id})}
     /\ UNCHANGED <<sigs, checked, running, signals>>

\* The tickers check_bridge and check_run_statistics report to the managers.
Report ==
  /\ running
  /\ env' \in SendCarrierMsg(env)
  /\ UNCHANGED <<sigs, checked, running, signals>>

(***************************************************************************)
(* iter_sending_list.  A node is flushed if its target is connected and    *)
(* has data, and then fails and is closed, is kept, or is empty.  All but  *)
(* those kept, none if del, are taken off.  A node of a target that reload *)
(* has freed is left with what close_target_fd wrote into it: not          *)
(* connected.  The order of those kept makes no difference to anything.    *)
(***************************************************************************)
Nodes(e) == ToSet(e.sending) \cap DOMAIN e.targets
Busy(e) == {id \in Nodes(e) : e.targets[id].conn = "done" /\ e.targets[id].data}

Flushed(e, failed, kept, stay) ==
  LET x == CloseTargetFd(SetData(e, Busy(e) \ kept, FALSE), failed)
  IN [x EXCEPT !.sending = SetToSeq(stay),
               !.targets = [id \in DOMAIN @ |-> IF id \in Nodes(e) \ stay THEN [@[id] EXCEPT !.listed = FALSE] ELSE @[id]]]

IterList(e, del) ==
  UNION {{Flushed(e, failed, kept, IF del THEN {} ELSE kept) : kept \in SUBSET (Busy(e) \ failed)} :
           failed \in SUBSET Busy(e)}

IterSendingList ==
  /\ running /\ env.sending # <<>>
  /\ env' \in IterList(env, FALSE)
  /\ UNCHANGED <<sigs, checked, running, signals>>

-----------------------------------------------------------------------------
(* Clients.                                                                *)

\* The main loop with an event of the listening socket.
Accept(c) ==
  /\ running /\ env.listening /\ c \notin DOMAIN env.clients
  /\ \E fd \in FreeFds(env) :
       /\ \A other \in FreeFds(env) : fd <= other
       /\ env' = [env EXCEPT !.open = @ \cup {fd},
                             !.clients = [x \in DOMAIN @ \cup {c} |->
                                            IF x = c THEN [fd |-> fd, verify |-> FALSE] ELSE @[x]],
                             !.cmap = Insert(@, env.tmap, ByFd([x \in {c} |-> fd]))]
  /\ UNCHANGED <<sigs, checked, running, signals>>

ClientFds(e, cs) == {e.clients[c].fd : c \in cs}

\* Mutated form of FreeClientInfo: the entry stays in the hash map.
FreeClientInfoKeepEntry(e, cs) ==
  CloseFds([e EXCEPT !.clients = Restrict(@, DOMAIN @ \ cs)], ClientFds(e, cs))

\* free_client_info.  What is left under the key after the deletion is wiped.
FreeClientInfo(e, cs) ==
  CloseFds([e EXCEPT !.clients = Restrict(@, DOMAIN @ \ cs),
                     !.cmap = Wipe(@, {FdKey(fd) : fd \in ClientFds(e, cs)})],
           ClientFds(e, cs))

\* The main loop with an event of any other socket: read_client_socket gets
\* VERIFY_REQ, or finds the connection closed or useless.
ClientEvent(fd) ==
  LET c == Fd2Client(env, fd)
  IN /\ running /\ fd \in env.open \ {Listener} /\ Fd2Target(env, fd) = Null /\ c # Null
     /\ \/ env' = [env EXCEPT !.clients[c].verify = TRUE]
        \/ env' \in {FreeClientInfo(e, {c}) : e \in MayReport(env)}
     /\ UNCHANGED <<sigs, checked, running, signals>>

\* The ticker closes those that have not verified for more than 10 seconds.
CheckClientInfo ==
  /\ running
  /\ \E late \in SUBSET {c \in DOMAIN env.clients : ~env.clients[c].verify} :
       /\ late # {}
       /\ env' = FreeClientInfo(env, late)
  /\ UNCHANGED <<sigs, checked, running, signals>>

-----------------------------------------------------------------------------
(* The hash maps are checked once, 15 seconds after the start.             *)

\* The entries the list of targets asks for.
ProcEntries(e) == [k \in {ProcKey(id) : id \in DOMAIN e.targets} |-> k[2]]
FdEntries(e) == ByFd([id \in {i \in DOMAIN e.targets : e.targets[i].fd > 0} |-> e.targets[id].fd])

Rehash(e) ==
  LET procs == Insert(e.tmap, e.tmap, ProcEntries(e))
  IN [e EXCEPT !.tmap = Insert(procs, procs, FdEntries(e))]

CheckTargetHashMap(e) == IF MapIsFull(e) THEN e ELSE Rehash(e)

\* For the clients that have verified: the newest entry of the key is made
\* theirs, or there is none and one is inserted.
CheckClientHashMap(e) ==
  LET known == {c \in DOMAIN e.clients : e.clients[c].fd > 0 /\ e.clients[c].verify}
      wanted == ByFd([c \in known |-> e.clients[c].fd])
      map == [e.cmap EXCEPT !.on = TRUE]
      found == {k \in DOMAIN wanted : Fetch(map, k) # Null}
      updated == [map EXCEPT !.chain =
                    [k \in Key |-> IF k \in found THEN <<wanted[k]>> \o Tail(@[k]) ELSE @[k]]]
  IN [e EXCEPT !.cmap = IF DOMAIN e.clients = {} THEN NoMap
                        ELSE Insert(updated, e.tmap, Restrict(wanted, DOMAIN wanted \ found))]

CheckHash ==
  /\ running /\ ~checked
  /\ checked' = TRUE
  /\ env' = CheckClientHashMap(CheckTargetHashMap(env))
  /\ UNCHANGED <<sigs, running, signals>>

-----------------------------------------------------------------------------
(* The configuration.                                                      *)

\* Mutated form of DelSendingList: the list is forgotten, the marks stay.
DelSendingListForget(e) == {[e EXCEPT !.sending = <<>>]}

DelSendingList(e) == {[x EXCEPT !.sending = <<>>] : x \in IterList(e, TRUE)}

\* The end of copy_target_info: the map is built anew.
Rebuilt(e) ==
  Rehash([e EXCEPT !.tmap = InitMap(NoMap, Cardinality(DOMAIN e.targets))])

\* Mutated form of ToClose: every target is closed that the new
\* configuration names, as if its address had changed.
ToCloseAll(e, cfg) == DOMAIN e.targets

\* The targets copy_target_info closes: the address has changed, or the
\* configuration has them no more.
ToClose(e, cfg) ==
  {id \in DOMAIN e.targets : IF id \in DOMAIN cfg THEN e.targets[id].addr # cfg[id] ELSE TRUE}

\* copy_target_info while running.
CopyTargetInfo(e, cfg) ==
  LET closed == CloseTargetFd(e, ToClose(e, cfg))
      merged == [closed EXCEPT !.targets = [id \in DOMAIN cfg |->
                   IF id \in DOMAIN @ THEN [@[id] EXCEPT !.addr = cfg[id]] ELSE NewTarget(cfg[id], NoFd)]]
  IN {Rebuilt(x) : x \in DelSendingList(merged)}

\* Mutated form of RebuildItems: no item is dropped.
RebuildItemsKeep(e) ==
  [e EXCEPT !.items = IF ~IsManager THEN @ ELSE [id \in DOMAIN e.targets |-> e.targets[id].addr] @@ @]

\* init_manager_item_list and rebuild_manager_item_list.
RebuildItems(e) ==
  [e EXCEPT !.items = IF ~IsManager THEN @ ELSE [id \in DOMAIN e.targets |-> e.targets[id].addr]]

\* main up to the loop.  calloc leaves 0 in the fd of every target.
Start(cfg) ==
  /\ ~running
  /\ running' = TRUE
  /\ env' = RebuildItems(Rebuilt([NoEnv EXCEPT
               !.targets = [id \in DOMAIN cfg |-> NewTarget(cfg[id], 0)],
               !.open = {Listener}, !.listening = TRUE]))
  /\ UNCHANGED <<sigs, checked, signals>>

\* handle_signal, for SIGUSR1 and for the signals that end the process.
\* The latter tells the managers from within the signal handler.
Signal(sig) ==
  /\ running /\ signals < MaxSignals
  /\ signals' = signals + 1 /\ sigs' = sigs \cup {sig}
  /\ env' \in IF sig = "exit" THEN SendCarrierMsg(env) ELSE {env}
  /\ UNCHANGED <<checked, running>>

\* check_signal_stat with sig_reload, and a file that can be read.
Reload(cfg) ==
  /\ running /\ "reload" \in sigs /\ "exit" \notin sigs
  /\ env' \in UNION {SendCarrierMsg(RebuildItems(e)) : e \in CopyTargetInfo(env, cfg)}
  /\ sigs' = sigs \ {"reload"}
  /\ UNCHANGED <<checked, running, signals>>

\* A file with an error is tried again by the next tick.
ReloadFails ==
  /\ running /\ "reload" \in sigs /\ "exit" \notin sigs
  /\ env' \in SendCarrierMsg(env)
  /\ UNCHANGED <<sigs, checked, running, signals>>

\* The process is gone, and the kernel closes what it had open.
Down ==
  /\ running /\ running' = FALSE
  /\ env' = NoEnv /\ sigs' = {} /\ checked' = FALSE
  /\ UNCHANGED signals

\* Without a file read_carrier_cfg ends in fclose(NULL).
ReloadCrashes == "reload" \in sigs /\ "exit" \notin sigs /\ Down

Exit == "exit" \in sigs /\ Down

-----------------------------------------------------------------------------
Init == env = NoEnv /\ sigs = {} /\ checked = FALSE /\ running = FALSE /\ signals = 0

Next ==
  \/ ConnectToRemote \/ Report \/ IterSendingList \/ CheckClientInfo \/ CheckHash
  \/ \E fd \in Fds : TargetEvent(fd) \/ ClientEvent(fd)
  \/ \E id \in Ids : DispatchBridge(id)
  \/ \E c \in Cids : Accept(c)
  \/ \E cfg \in Configs : Start(cfg) \/ Reload(cfg)
  \/ \E sig \in {"reload", "exit"} : Signal(sig)
  \/ ReloadFails \/ ReloadCrashes \/ Exit

Spec == Init /\ [][Next]_vars

(***************************************************************************)
(* Fairness: the ticker comes round, and a peer that is tried over and     *)
(* over answers in the end, with the handshake still under way when        *)
(* connect returns and nothing to read when it is over (by then reports    *)
(* have gone out as well); a peer closes a connection that has not been    *)
(* verified (CheckClientInfo in the other carrier).  Each is an outcome of *)
(* an action above.                                                        *)
(***************************************************************************)
IsTarget(id) == running /\ id \in DOMAIN env.targets
Verified(id) == IsTarget(id) /\ env.targets[id].conn = "done" /\ env.targets[id].ver

InProgress(id) ==
  /\ IsTarget(id) /\ env.targets[id].conn = "none"
  /\ \E fds \in Sockets(env) :
       /\ id \in DOMAIN fds
       /\ \E up \in SUBSET (DOMAIN fds \ {id}) : env' = Attach(env, fds, up)
  /\ UNCHANGED <<sigs, checked, running, signals>>

\* A descriptor other than 0 leads its events to the target (LookupAgrees).
IsHandled(id, conn) ==
  IsTarget(id) /\ env.targets[id].conn = conn /\ env.targets[id].fd # Listener

HandshakeOver(id) ==
  /\ IsHandled(id, "proc")
  /\ env' = SetData([env EXCEPT !.targets[id] = [@ EXCEPT !.conn = "done", !.ver = TRUE]], {id}, FALSE)
  /\ UNCHANGED <<sigs, checked, running, signals>>

PeerClosesUnverified(id) ==
  /\ IsHandled(id, "done") /\ ~env.targets[id].ver
  /\ env' = CloseTargetFd(env, {id})
  /\ UNCHANGED <<sigs, checked, running, signals>>

FairSpec ==
  /\ Spec
  /\ \A id \in Ids : SF_vars(InProgress(id)) /\ SF_vars(HandshakeOver(id))
                     /\ WF_vars(PeerClosesUnverified(id))

-----------------------------------------------------------------------------
Client == [fd : Fds, verify : BOOLEAN]

Env ==
  [targets : Partial(Ids, Target), sending : Seq(Ids), tmap : HashMaps, cmap : HashMaps,
   clients : Partial(Cids, Client), items : Partial(Ids, Addrs), open : SUBSET Fds, listening : BOOLEAN]

\* A target without a connection has no socket, unless 0 is one, and no data
\* that a later connection would begin with.
Settled(e) ==
  \A id \in DOMAIN e.targets :
    LET t == e.targets[id]
    IN /\ t.conn = "none" => t.fd <= 0 /\ ~t.data /\ ~t.ver
       /\ t.fd = NoFd => t.conn = "none"

\* The tables name addresses, descriptors and nodes that exist.
TypeOK ==
  /\ env \in Env /\ Settled(env)
  /\ sigs \subseteq {"reload", "exit"} /\ checked \in BOOLEAN /\ running \in BOOLEAN
  /\ signals \in 0 .. MaxSignals

(***************************************************************************)
(* Every socket but the listening one belongs to exactly one target or     *)
(* client, and what a target or client holds is open: nothing leaks, and   *)
(* no handler closes or writes to the connection of somebody else, however *)
(* often the kernel hands out the same number again.                       *)
(***************************************************************************)
Owners(e, fd) ==
  {id \in DOMAIN e.targets : e.targets[id].fd = fd}
    \cup {c \in DOMAIN e.clients : e.clients[c].fd = fd}

OneOwner ==
  \A fd \in Fds \ {0} : Cardinality(Owners(env, fd)) = IF fd \in env.open THEN 1 ELSE 0

(***************************************************************************)
(* The hash maps and the short cut taken when the map of targets is full   *)
(* give the same answers as a walk along the lists: no entry survives its  *)
(* target, client or descriptor, and none is missed.                       *)
(***************************************************************************)
LookupAgrees ==
  /\ \A fd \in Fds \ {0} :
       /\ Fd2Target(env, fd) = InList(env, fd)
       /\ Fd2Client(env, fd) = TheOne({c \in DOMAIN env.clients : env.clients[c].fd = fd})
  /\ \A id \in Ids : ProcId2Target(env, id) = TheOne(DOMAIN env.targets \cap {id})

(***************************************************************************)
(* The sending list has each target whose in_append is set, once, and no   *)
(* other: a node that is in the list twice closes it to a ring, and one of *)
(* a target that is gone is memory that has been freed.                    *)
(***************************************************************************)
Marked(e) ==
  /\ IsInjective(e.sending)
  /\ ToSet(e.sending) = {id \in DOMAIN e.targets : e.targets[id].listed}

ListMatchesMarks == Marked(env)

(***************************************************************************)
(* A manager has an item for each of its targets, with its address, so     *)
(* that handle_target_fd finds one to write to, and none for a target that *)
(* the configuration has no more.                                          *)
(***************************************************************************)
Itemized(e) ==
  IsManager => e.items = [id \in DOMAIN e.targets |-> e.targets[id].addr]

ItemsAgree == Itemized(env)

-----------------------------------------------------------------------------
(* Why these hold.                                                         *)

\* OneOwner, by the owner and not by the number of owners.
Owned(e) ==
  /\ e.listening => Listener \in e.open
  /\ \A fd \in Fds \ {0} :
       IF fd \in e.open THEN \E owner \in Owners(e, fd) : Owners(e, fd) = {owner}
       ELSE Owners(e, fd) = {}

(***************************************************************************)
(* What the map of targets has under the keys of positive numbers is what  *)
(* the list says, one entry each: so a key is free when a socket is        *)
(* attached, and an entry that is deleted is the right one.                *)
(***************************************************************************)
TargetMapExact(e) ==
  /\ e.tmap.on <=> DOMAIN e.targets # {}
  /\ \A id \in Ids : e.tmap.chain[ProcKey(id)] = IF id \in DOMAIN e.targets THEN <<id>> ELSE <<>>
  /\ \A id \in DOMAIN e.targets : e.targets[id].fd > 0 => e.tmap.chain[FdKey(e.targets[id].fd)] = <<id>>
  /\ \A fd \in Fds \ {0} :
       (\A id \in DOMAIN e.targets : e.targets[id].fd # fd) => e.tmap.chain[FdKey(fd)] = <<>>

\* The map of clients may lack entries, but has none that is wrong.
ClientMapSound(e) ==
  \A k \in Key :
    e.cmap.chain[k] # <<>> =>
      \E c \in DOMAIN e.clients : k = FdKey(e.clients[c].fd) /\ e.cmap.chain[k] = <<c>>

\* What every handler finds and leaves, whatever the items of a manager.
Sound(e) ==
  e \in Env /\ Settled(e) /\ Owned(e) /\ TargetMapExact(e) /\ ClientMapSound(e) /\ Marked(e)

(***************************************************************************)
(* The inductive invariant: the tables of a carrier agree with one another *)
(* at the end of every handler.                                            *)
(***************************************************************************)
IInv == TypeOK /\ Sound(env) /\ Itemized(env)

(***************************************************************************)
(* A reload leaves alone the connection of a target whose address stays    *)
(* the same: it keeps its socket and its state, unless it has to send, be  *)
(* it old data or the report of the reload, and the network fails.         *)
(***************************************************************************)
Silent(id) == ~env.targets[id].data /\ id \notin Managers

ReloadKeepsConnections ==
  [][running' /\ "reload" \in sigs \ sigs' =>
       \A id \in DOMAIN env.targets \cap DOMAIN env'.targets :
         env.targets[id].addr = env'.targets[id].addr /\ Silent(id) =>
           /\ env'.targets[id].fd = env.targets[id].fd
           /\ env'.targets[id].conn = env.targets[id].conn]_vars

(***************************************************************************)
(* Every target is connected and has sent its verification in the end,     *)
(* whatever connections fail, come up without it, or are closed, and       *)
(* however often the configuration changes, unless it is removed, the      *)
(* process ends, or the listening socket is lost and 0 becomes an ordinary *)
(* descriptor that the main loop knows nothing of.                         *)
(***************************************************************************)
ConnectedInTheEnd ==
  \A id \in Ids : IsTarget(id) ~> Verified(id) \/ ~IsTarget(id) \/ ~env.listening

(***************************************************************************)
(* src/README.md:10: changing routes while the system runs does not affect *)
(* its work.  A carrier that is up takes connections.                      *)
(***************************************************************************)
StaysReachable == running => env.listening

=============================================================================
