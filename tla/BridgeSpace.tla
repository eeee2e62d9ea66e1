---- MODULE BridgeSpace ----
(***************************************************************************)
(* The table of open bridges of one process that uses the library          *)
(* (library/proc_bridge.c, open_bridge and close_bridge), and the key file *)
(* and the shared memory segment behind every bridge: creater              *)
(* (create_bridge.c), deleter (delete_bridge.c), the start of the carrier  *)
(* and its periodic rewrite of the key file (check_tmp_file), in the order *)
(* tools/deploy_proc.sh runs them.                                         *)
(*                                                                         *)
(* A key is made of the inode and the modification time of the key file,   *)
(* so it is a number that may change whenever the file is written or made  *)
(* again.  Two bridges never make the same key here (the inodes of their   *)
(* files differ in the 16 bits that the key keeps).                        *)
(***************************************************************************)
EXTENDS Integers, Sequences, FiniteSets, FiniteSetsExt

CONSTANTS
    Bridges,      \* the bridges the process may open: name space and proc_id
    Redeployed,   \* those that are deployed, broken and deployed again
    InitCount,    \* INIT_PB_SPACE_COUNT
    MaxKey,       \* bound: the number of keys the file of a bridge can get
    MaxFaults,    \* bound: kills, and deployments over a running carrier
    MaxCleans     \* bound: how often the key file is cleaned out of /tmp

\* What an unused slot has for a bridge: a name space that is empty.
NoBridge == "no bridge"

ASSUME BridgesAssumption == /\ IsFiniteSet(Bridges) /\ Redeployed \subseteq Bridges
                            /\ NoBridge \notin Bridges
ASSUME BoundsAssumption == /\ InitCount \in Nat \ {0} /\ MaxKey \in Nat \ {0}
                           /\ MaxFaults \in Nat /\ MaxCleans \in Nat

VARIABLES
    space,        \* space_list, the slots 0, 1, ... of the process
    valid,        \* valid_count
    opening,      \* an open_bridge under way
    held,         \* history: the descriptors returned and not closed
    file,         \* the content of the key file of a bridge
    stamp,        \* the key the file's inode and mtime give now
    shm,          \* how far the segment of each key is initialised
    deploy,       \* the deployment script of a bridge, and creater in it
    carrier,      \* the carrier of a bridge
    faults, cleans

table == <<space, valid, opening, held>>
memory == <<file, stamp, shm>>
vars == <<table, memory, deploy, carrier, faults, cleans>>

Keys == 1..MaxKey
Null == 0                       \* no segment; also an empty key file
NoFile == -1
Removed == -2                   \* attached, but removed by deleter
NotOpening == [pc |-> "idle", bridge |-> NoBridge, slot |-> 0, key |-> Null]

\* bridge_hub_t as creater fills it: all zero, proc_id, send_buff_size, recv_buff_size.
None == 0
Raw == 1
Named == 2
SendSized == 3
Ready == 4

Empty == [bridge |-> NoBridge, opened_id |-> 0, seg |-> Null]
Slots(n) == [i \in 1..n |-> Empty]

----------------------------------------------------------------------------
\* The key and the segment.

\* The key after the file was written: a new one when st_mtime has moved on
\* by more than its low 16 bits, or the file has a new inode.
Stamps(b) == {stamp[b], IF stamp[b] < MaxKey THEN stamp[b] + 1 ELSE stamp[b]}

\* write() into the key file through an open descriptor.
WriteFile(b, k) ==
    /\ file' = [file EXCEPT ![b] = IF @ = NoFile THEN NoFile ELSE k]
    /\ \E s \in Stamps(b) : stamp' = [stamp EXCEPT ![b] = s]

\* Mutant: the getters, deleter among them, refuse an unfinished segment.
GetsComplete(b, k) == k \in Keys /\ shm[b][k] = Ready

\* shmget(key, 0, 0) of the getters; key 0 is IPC_PRIVATE and size 0 is refused.
Gets(b, k) == k \in Keys /\ shm[b][k] # None

\* The checks of _open_bridge on the segment it has attached to.
ProcIdIsSet(b, k) == shm[b][k] >= Named
SendSizeIsSet(b, k) == shm[b][k] >= SendSized
RecvSizeIsSet(b, k) == shm[b][k] >= Ready
\* Mutant: without the check of recv_buff_size.
CompleteNoRecv(b, k) == ProcIdIsSet(b, k) /\ SendSizeIsSet(b, k)
Complete(b, k) == ProcIdIsSet(b, k) /\ SendSizeIsSet(b, k) /\ RecvSizeIsSet(b, k)

----------------------------------------------------------------------------
\* The process: open_bridge and close_bridge.

Initialised(t) == IF t = <<>> THEN Slots(InitCount) ELSE t
OpenedAt(b, t) == {i \in DOMAIN t : t[i].bridge = b}
EmptyAt(t) == {i \in DOMAIN t : t[i].bridge = NoBridge}

\* Mutant: the old list is not copied.
ExpandedNoCopy(t) == IF valid >= Len(t) THEN Slots(2 * Len(t)) ELSE t

\* "Wheter Expand": a list of twice the size, the old one copied into it.
Expanded(t) == IF valid >= Len(t) THEN t \o Slots(Len(t)) ELSE t

\* open_bridge up to the read of the key file.  A bridge that is already
\* open is found and its descriptor is returned: nothing changes then.
OpenBridge(b) ==
    LET t == Expanded(Initialised(space))
        i == Min(EmptyAt(t)) IN
    /\ opening = NotOpening
    /\ OpenedAt(b, Initialised(space)) = {}
    /\ EmptyAt(t) # {}
    /\ space' = t
    /\ opening' = IF file[b] = NoFile THEN NotOpening
                  ELSE [pc |-> "key", bridge |-> b, slot |-> i, key |-> file[b]]
    /\ UNCHANGED <<valid, held, memory, deploy, carrier, faults, cleans>>

\* shmget of _open_bridge.
OpenGet ==
    /\ opening.pc = "key"
    /\ opening' = IF Gets(opening.bridge, opening.key)
                  THEN [opening EXCEPT !.pc = "segment"] ELSE NotOpening
    /\ UNCHANGED <<space, valid, held, memory, deploy, carrier, faults, cleans>>

\* The end of open_bridge: the slot is filled and its index returned.
SetSlot(seg) ==
    LET i == opening.slot IN
    /\ space' = [space EXCEPT ![i] = [bridge |-> opening.bridge,
                                      opened_id |-> i - 1, seg |-> seg]]
    /\ valid' = valid + 1
    /\ held' = [bd \in DOMAIN held \cup {i - 1} |->
                   IF bd = i - 1 THEN opening.bridge ELSE held[bd]]

\* shmat and the checks.  A segment removed since shmget can still be
\* attached to as long as anybody is attached to it, which is not tracked.
OpenAttach ==
    /\ opening.pc = "segment"
    /\ opening' = NotOpening
    /\ \/ opening.key = Removed /\ SetSlot(Removed)
       \/ /\ opening.key \in Keys
          /\ Complete(opening.bridge, opening.key)
          /\ SetSlot(opening.key)
       \/ /\ opening.key \in Keys
          /\ ~Complete(opening.bridge, opening.key)
          /\ UNCHANGED <<space, valid, held>>
    /\ UNCHANGED <<memory, deploy, carrier, faults, cleans>>

\* Otherwise shmat returns (void *)-1, which is not the NULL the code tests
\* for: reading proc_id from it ends the process, which starts anew.
OpenFaults ==
    /\ opening.pc = "segment" /\ opening.key = Removed
    /\ space' = <<>> /\ valid' = 0 /\ held' = <<>> /\ opening' = NotOpening
    /\ UNCHANGED <<memory, deploy, carrier, faults, cleans>>

\* The checks of close_bridge, send_to_bridge and recv_from_bridge.
Accepts(bd) == /\ valid > 0 /\ bd < Len(space)
               /\ space[bd + 1].opened_id = bd

\* Mutant: the name is cleared and the number stays.
ClosedSlotKeepsId(s) == [Empty EXCEPT !.opened_id = s.opened_id]

\* memset(pspace, 0, sizeof(proc_bridge_space_t)).
ClosedSlot(s) == Empty

\* Mutant: the list is freed one bridge too early.
LastClosedEarly(count) == count <= 1

\* "Check Valid": the list is freed with its last bridge.
LastClosed(count) == count <= 0

\* close_bridge of a descriptor the process holds.
CloseBridge(bd) ==
    /\ opening = NotOpening
    /\ bd \in DOMAIN held /\ Accepts(bd)
    /\ valid' = valid - 1
    /\ space' = IF LastClosed(valid') THEN <<>>
                ELSE [space EXCEPT ![bd + 1] = ClosedSlot(@)]
    /\ held' = [d \in DOMAIN held \ {bd} |-> held[d]]
    /\ UNCHANGED <<opening, memory, deploy, carrier, faults, cleans>>

----------------------------------------------------------------------------
\* Deployment: tools/deploy_proc.sh.

\* Served: the carrier runs on the segment that the key file leads to.
Served(b) == /\ carrier[b].pc = "up" /\ carrier[b].seg = file[b]
             /\ Gets(b, file[b]) /\ Complete(b, file[b])

Unstarted == [pc |-> "down", key |-> Null, seg |-> Null]

Step(b, pc) == deploy' = [deploy EXCEPT ![b].pc = pc]

\* The script is run again, on a carrier that is neither starting nor
\* rewriting the file: it stops the carrier first, or that is forgotten.
Deploy(b) ==
    /\ deploy[b].pc = "idle" /\ carrier[b].pc \in {"up", "down"}
    /\ Step(b, "stop")
    /\ UNCHANGED <<table, memory, carrier, faults, cleans>>

DeployOver(b) ==
    /\ faults < MaxFaults /\ faults' = faults + 1
    /\ deploy[b].pc = "idle" /\ carrier[b].pc = "up"
    /\ Step(b, "delete")
    /\ UNCHANGED <<table, memory, carrier, cleans>>

\* shut_carrier: SIGINT, which the carrier takes up between two rounds.
StopCarrier(b) ==
    /\ deploy[b].pc = "stop" /\ carrier[b].pc # "rewrite"
    /\ carrier' = [carrier EXCEPT ![b] = Unstarted]
    /\ Step(b, "delete")
    /\ UNCHANGED <<table, memory, faults, cleans>>

\* main of delete_bridge.c: IPC_RMID of the segment the key file leads to.
\* Who is attached keeps it; the file stays as it is.
DeleteBridge(b) ==
    LET k == file[b]
        gone(seg) == IF seg = k THEN Removed ELSE seg IN
    /\ deploy[b].pc = "delete"
    /\ Step(b, "open")
    /\ IF Gets(b, k)
       THEN /\ shm' = [shm EXCEPT ![b][k] = None]
            /\ carrier' = [carrier EXCEPT ![b].seg = gone(@)]
            /\ space' = [i \in DOMAIN space |-> IF space[i].bridge = b
                            THEN [space[i] EXCEPT !.seg = gone(@)] ELSE space[i]]
            /\ opening' = IF opening.pc = "segment" /\ opening.bridge = b
                          THEN [opening EXCEPT !.key = gone(@)] ELSE opening
       ELSE UNCHANGED <<shm, carrier, space, opening>>
    /\ UNCHANGED <<valid, held, file, stamp, faults, cleans>>

\* get_bridge_shm_key of creater: open with O_CREAT and without O_TRUNC.
CreateFile(b) ==
    /\ deploy[b].pc = "open"
    /\ IF file[b] = NoFile
       THEN /\ file' = [file EXCEPT ![b] = Null]
            /\ \E s \in Stamps(b) : stamp' = [stamp EXCEPT ![b] = s]
       ELSE UNCHANGED <<file, stamp>>
    /\ Step(b, "write")
    /\ UNCHANGED <<table, shm, carrier, faults, cleans>>

\* The key of the file as it is before the write changes st_mtime.
WriteKey(b) ==
    /\ deploy[b].pc = "write"
    /\ deploy' = [deploy EXCEPT ![b] = [pc |-> "get", key |-> stamp[b]]]
    /\ WriteFile(b, stamp[b])
    /\ UNCHANGED <<table, shm, carrier, faults, cleans>>

\* shmget(IPC_CREAT | IPC_EXCL): creater gives up when the key has a segment.
GetSegment(b) ==
    /\ deploy[b].pc = "get"
    /\ IF shm[b][deploy[b].key] = None
       THEN shm' = [shm EXCEPT ![b][deploy[b].key] = Raw] /\ Step(b, "init")
       ELSE UNCHANGED shm /\ Step(b, "start")
    /\ UNCHANGED <<table, file, stamp, carrier, faults, cleans>>

\* One field of the hub after the other.
InitSegment(b) ==
    LET k == deploy[b].key IN
    /\ deploy[b].pc = "init"
    /\ shm' = [shm EXCEPT ![b][k] = @ + 1]
    /\ Step(b, IF shm'[b][k] = Ready THEN "start" ELSE "init")
    /\ UNCHANGED <<table, file, stamp, carrier, faults, cleans>>

\* main of the carrier: a second one finds the lock file locked and ends.
StartCarrier(b) ==
    /\ deploy[b].pc = "start"
    /\ Step(b, "idle")
    /\ carrier' = IF carrier[b].pc = "down" /\ file[b] # NoFile
                  THEN [carrier EXCEPT ![b] = [Unstarted EXCEPT !.pc = "key", !.key = file[b]]]
                  ELSE carrier
    /\ UNCHANGED <<table, memory, faults, cleans>>

\* _open_bridge in the carrier; on failure it ends.
CarrierAttach(b) ==
    LET k == carrier[b].key IN
    /\ carrier[b].pc = "key"
    /\ carrier' = [carrier EXCEPT ![b] = IF Gets(b, k) /\ Complete(b, k)
                      THEN [pc |-> "attached", key |-> k, seg |-> k] ELSE Unstarted]
    /\ UNCHANGED <<table, memory, deploy, faults, cleans>>

\* The key that check_tmp_file will write is read from the file once more.
CarrierKey(b) ==
    /\ carrier[b].pc = "attached"
    /\ carrier' = [carrier EXCEPT ![b] = IF file[b] = NoFile THEN Unstarted
                      ELSE [@ EXCEPT !.pc = "up", !.key = file[b]]]
    /\ UNCHANGED <<table, memory, deploy, faults, cleans>>

\* check_tmp_file: open with O_TRUNC, and the write that follows.
CheckTmpFile(b) ==
    /\ carrier[b].pc = "up" /\ file[b] # NoFile
    /\ carrier' = [carrier EXCEPT ![b].pc = "rewrite"]
    /\ WriteFile(b, Null)
    /\ UNCHANGED <<table, shm, deploy, faults, cleans>>

RewriteKey(b) ==
    /\ carrier[b].pc = "rewrite"
    /\ carrier' = [carrier EXCEPT ![b].pc = "up"]
    /\ WriteFile(b, carrier[b].key)
    /\ UNCHANGED <<table, shm, deploy, faults, cleans>>

----------------------------------------------------------------------------
\* Faults: the carrier or a tool is killed at any step, the file is cleaned away.

KillCarrier(b) ==
    /\ faults < MaxFaults /\ faults' = faults + 1
    /\ carrier[b].pc # "down"
    /\ carrier' = [carrier EXCEPT ![b] = Unstarted]
    /\ UNCHANGED <<table, memory, deploy, cleans>>

KillDeploy(b) ==
    /\ faults < MaxFaults /\ faults' = faults + 1
    /\ deploy[b].pc # "idle"
    /\ Step(b, "idle")
    /\ UNCHANGED <<table, memory, carrier, cleans>>

CleanTmp(b) ==
    /\ cleans < MaxCleans /\ cleans' = cleans + 1
    /\ file[b] # NoFile
    /\ file' = [file EXCEPT ![b] = NoFile]
    /\ UNCHANGED <<table, stamp, shm, deploy, carrier, faults>>

----------------------------------------------------------------------------
\* A bridge that is not redeployed has its segment from the start.
Init ==
    /\ space = <<>> /\ valid = 0 /\ held = <<>> /\ opening = NotOpening
    /\ file = [b \in Bridges |-> IF b \in Redeployed THEN NoFile ELSE 1]
    /\ stamp = [b \in Bridges |-> 1]
    /\ shm = [b \in Bridges |-> [k \in Keys |->
                 IF b \notin Redeployed /\ k = 1 THEN Ready ELSE None]]
    /\ deploy = [b \in Redeployed |-> [pc |-> "idle", key |-> Null]]
    /\ carrier = [b \in Redeployed |-> Unstarted]
    /\ faults = 0 /\ cleans = 0

Process == \/ \E b \in Bridges : OpenBridge(b)
           \/ OpenGet \/ OpenAttach \/ OpenFaults
           \/ \E bd \in DOMAIN held : CloseBridge(bd)

Script(b) == \/ StopCarrier(b) \/ DeleteBridge(b) \/ CreateFile(b) \/ WriteKey(b)
             \/ GetSegment(b) \/ InitSegment(b) \/ StartCarrier(b)

Starting(b) == CarrierAttach(b) \/ CarrierKey(b) \/ RewriteKey(b)

Next == \/ Process
        \/ \E b \in Redeployed :
              \/ Deploy(b) \/ DeployOver(b) \/ Script(b)
              \/ Starting(b) \/ CheckTmpFile(b)
              \/ KillCarrier(b) \/ KillDeploy(b) \/ CleanTmp(b)

\* What runs goes on, and whoever finds a bridge not served deploys it again.
\* Both wait while the carrier rewrites the file, hence strong fairness.
Fairness == \A b \in Redeployed :
    /\ WF_vars(Script(b)) /\ WF_vars(Starting(b))
    /\ SF_vars(StopCarrier(b)) /\ SF_vars(~Served(b) /\ Deploy(b))

Spec == Init /\ [][Next]_vars
LiveSpec == Spec /\ Fairness

----------------------------------------------------------------------------
Slot == [bridge : Bridges \cup {NoBridge}, opened_id : Nat, seg : Keys \cup {Null, Removed}]
ScriptState == [pc : {"idle", "stop", "delete", "open", "write", "get", "init", "start"},
                key : Keys \cup {Null}]
CarrierState == [pc : {"down", "key", "attached", "up", "rewrite"},
                 key : Keys \cup {Null}, seg : Keys \cup {Null, Removed}]

\* Every variable keeps to the values the code can give it.
TypeOK ==
    /\ space \in Seq(Slot)
    /\ valid \in 0..Len(space)
    /\ opening.pc \in {"idle", "key", "segment"}
    /\ file \in [Bridges -> Keys \cup {Null, NoFile}]
    /\ stamp \in [Bridges -> Keys]
    /\ shm \in [Bridges -> [Keys -> None..Ready]]
    /\ deploy \in [Redeployed -> ScriptState]
    /\ carrier \in [Redeployed -> CarrierState]
    /\ faults \in 0..MaxFaults /\ cleans \in 0..MaxCleans

\* A descriptor that open_bridge returned is accepted and names its bridge
\* until it is closed: through the growth of the table, its release when
\* the last bridge is closed, failed opens, and the close of other
\* descriptors.  valid_count counts exactly these, no two name one bridge.
HeldIsOpen ==
    /\ \A bd \in DOMAIN held : /\ Accepts(bd) /\ space[bd + 1].bridge = held[bd]
                               /\ space[bd + 1].seg # Null
    /\ valid = Cardinality(DOMAIN held)
    /\ \A c, d \in DOMAIN held : held[c] = held[d] => c = d

\* close_bridge, send_to_bridge and recv_from_bridge refuse a descriptor
\* the process does not hold, unless it is 0: the number of a zeroed slot
\* is 0, so 0 is accepted as long as any bridge is open.
StaleRefused ==
    \A bd \in 0..(Len(space) - 1) : bd \notin DOMAIN held /\ bd # 0 => ~Accepts(bd)

\* A process or a carrier that opened a bridge while creater was filling it,
\* or after creater was killed doing so, has not attached to a hub whose
\* proc_id or buffer sizes were still missing.
AttachedIsComplete ==
    /\ \A i \in DOMAIN space : space[i].seg \in Keys =>
          shm[space[i].bridge][space[i].seg] = Ready
    /\ \A b \in Redeployed : carrier[b].seg \in Keys => shm[b][carrier[b].seg] = Ready

\* The inductive invariant of the proofs.  The slots with a bridge are just
\* those held, each with its own number, and the others are as memset left them.
SlotsAreHeld ==
    /\ \A bd \in DOMAIN held : bd \in 0..(Len(space) - 1) /\ held[bd] \in Bridges
    /\ \A c, d \in DOMAIN held : held[c] = held[d] => c = d
    /\ valid = Cardinality(DOMAIN held)
    /\ \A i \in DOMAIN space :
          IF i - 1 \in DOMAIN held
          THEN /\ space[i].bridge = held[i - 1] /\ space[i].opened_id = i - 1
               /\ space[i].seg # Null
          ELSE space[i] = Empty

\* The slot an open_bridge under way has found is still unused, and its
\* bridge has not been opened meanwhile.
SlotIsReserved ==
    \/ opening = NotOpening
    \/ /\ opening \in [pc : {"key", "segment"}, bridge : Bridges, slot : DOMAIN space,
                        key : Keys \cup {Null, Removed}]
       /\ opening.slot - 1 \notin DOMAIN held
       /\ \A bd \in DOMAIN held : held[bd] # opening.bridge

\* creater fills only a segment that it has made and nobody else has attached to.
CreaterAt ==
    \A b \in Redeployed :
        /\ deploy[b].pc \in {"get", "init"} => deploy[b].key \in Keys
        /\ deploy[b].pc = "init" => shm[b][deploy[b].key] \in Raw..SendSized

IInv == TypeOK /\ SlotsAreHeld /\ SlotIsReserved /\ CreaterAt /\ AttachedIsComplete

\* However the tools and the carrier were killed, the key file was emptied,
\* overwritten by the carrier of a removed segment, or cleaned away: running
\* the deployment again ends with a carrier on the segment the file names.
RedeployServes == \A b \in Redeployed : []<>Served(b)

====
