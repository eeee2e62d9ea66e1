-------------------------- MODULE BridgeSpaceProofs --------------------------
(***************************************************************************)
(* What holds of the table of bridges and of the segments for every number *)
(* of bridges, keys, kills and cleanings.                                  *)
(***************************************************************************)
EXTENDS BridgeSpace, FiniteSetTheorems, WellFoundedInduction, TLAPS

\* Numbers that are told apart.
LEMMA Numbers ==
  /\ Keys \subseteq Nat /\ Null \notin Keys /\ NoFile \notin Keys /\ Removed \notin Keys
  /\ 1 \in Keys /\ Null # Removed /\ Null # NoFile
  /\ None \in None .. Ready /\ Ready \in None .. Ready /\ Raw .. SendSized \subseteq None .. Ready
  /\ \A v \in None .. Ready : v >= Ready => v = Ready
  BY BoundsAssumption
     DEF Keys, Null, NoFile, Removed, None, Ready, Raw, SendSized

\* The minimum of a set of numbers that is not empty is one of them.
LEMMA MinIn ==
  ASSUME NEW S \in SUBSET Nat, S # {}
  PROVE  Min(S) \in S
<1> DEFINE R == {ss \in Nat \X Nat : ss[1] < ss[2]}
<1>1. OpToRel(<, Nat) = R
  BY Zenon DEF OpToRel
<1>2. IsWellFoundedOn(R, Nat)
  BY <1>1, NatLessThanWellFounded
<1>3. PICK x \in S : \A y \in S : <<y, x>> \notin R
  <2> HIDE DEF R
  <2>1. QED
    BY <1>2, WFMin
<1>4. ASSUME NEW y \in S PROVE x <= y
  <2>1. <<y, x>> \in Nat \X Nat /\ <<y, x>>[1] = y /\ <<y, x>>[2] = x
    OBVIOUS
  <2>2. ~(y < x)
    BY <2>1, <1>3
  <2>3. QED
    BY <2>2
<1>5. QED
  BY <1>4 DEF Min

\* No more descriptors are held than the table has slots.
LEMMA HeldBound ==
  ASSUME NEW n \in Nat, NEW D, \A d \in D : d \in 0 .. n - 1
  PROVE  IsFiniteSet(D) /\ Cardinality(D) \in 0 .. n
<1>1. IsFiniteSet(0 .. n - 1) /\ Cardinality(0 .. n - 1) = n
  BY FS_Interval
<1>2. D \in SUBSET (0 .. n - 1)
  OBVIOUS
<1>3. IsFiniteSet(D) /\ Cardinality(D) <= n
  BY <1>1, <1>2, FS_Subset
<1>4. QED
  BY <1>3, FS_CardinalityType

-----------------------------------------------------------------------------
(* Frames, and the functions of functions that the handlers update.        *)

LEMMA TableFrame ==
  ASSUME SlotsAreHeld, UNCHANGED <<space, valid, held>>
  PROVE  SlotsAreHeld'
  BY DEF SlotsAreHeld

LEMMA OpeningFrame ==
  ASSUME SlotIsReserved, UNCHANGED <<space, opening, held>>
  PROVE  SlotIsReserved'
  BY DEF SlotIsReserved

LEMMA CreaterFrame ==
  ASSUME CreaterAt, UNCHANGED <<deploy, shm>>
  PROVE  CreaterAt'
  BY DEF CreaterAt

\* A carrier that starts or ends has attached to nothing new.
LEMMA AttachedFrame ==
  ASSUME AttachedIsComplete, UNCHANGED <<space, shm>>,
         \A b \in Redeployed : carrier'[b].seg \in Keys => carrier'[b].seg = carrier[b].seg
  PROVE  AttachedIsComplete'
  BY DEF AttachedIsComplete

\* The script of one bridge takes a step.
LEMMA ScriptMoves ==
  ASSUME TypeOK, NEW b \in Redeployed, NEW pc, Step(b, pc),
         pc \in {"idle", "stop", "delete", "open", "write", "get", "init", "start"}
  PROVE  /\ deploy' \in [Redeployed -> ScriptState]
         /\ deploy'[b].pc = pc /\ deploy'[b].key = deploy[b].key
         /\ \A c \in Redeployed : c # b => deploy'[c] = deploy[c]
<1>1. deploy \in [Redeployed -> ScriptState] /\ deploy' = [deploy EXCEPT ![b].pc = pc]
  BY DEF TypeOK, Step
<1>2. deploy'[b] = [deploy[b] EXCEPT !.pc = pc] /\ deploy[b] \in ScriptState
  BY <1>1
<1>3. deploy'[b] \in ScriptState /\ deploy'[b].pc = pc /\ deploy'[b].key = deploy[b].key
  BY ONLY <1>2, pc \in {"idle", "stop", "delete", "open", "write", "get", "init", "start"}
     DEF ScriptState
<1>4. QED
  BY <1>1, <1>3

LEMMA ScriptElsewhere ==
  ASSUME TypeOK, CreaterAt, UNCHANGED shm, NEW b \in Redeployed, NEW pc, Step(b, pc),
         pc \in {"idle", "stop", "delete", "open", "write", "start"}
  PROVE  deploy' \in [Redeployed -> ScriptState] /\ CreaterAt'
<1>1. /\ deploy' \in [Redeployed -> ScriptState] /\ deploy'[b].pc = pc
      /\ \A c \in Redeployed : c # b => deploy'[c] = deploy[c]
  BY ScriptMoves
<1>2. QED
  BY <1>1 DEF CreaterAt

\* One segment changes.
LEMMA SegmentSet ==
  ASSUME TypeOK, NEW b \in Bridges, NEW k \in Keys, NEW v \in None .. Ready,
         shm' = [shm EXCEPT ![b][k] = v]
  PROVE  /\ shm' \in [Bridges -> [Keys -> None .. Ready]] /\ shm'[b][k] = v
         /\ \A c \in Bridges, j \in Keys : c # b \/ j # k => shm'[c][j] = shm[c][j]
<1>1. shm \in [Bridges -> [Keys -> None .. Ready]]
  BY DEF TypeOK
<1>2. shm[b] \in [Keys -> None .. Ready] /\ shm'[b] = [shm[b] EXCEPT ![k] = v]
  BY <1>1
<1>3. shm'[b] \in [Keys -> None .. Ready] /\ shm'[b][k] = v
      /\ \A j \in Keys : j # k => shm'[b][j] = shm[b][j]
  BY ONLY <1>2, k \in Keys, v \in None .. Ready
<1>4. \A c \in Bridges : c # b => shm'[c] = shm[c]
  BY <1>1
<1>5. QED
  BY <1>1, <1>3, <1>4

\* The content of a key file and the key it makes stay of their types.
LEMMA FileWritten ==
  ASSUME TypeOK, NEW b \in Redeployed, NEW k \in Keys \cup {Null}, WriteFile(b, k)
  PROVE  file' \in [Bridges -> Keys \cup {Null, NoFile}] /\ stamp' \in [Bridges -> Keys]
<1>1. b \in Bridges /\ file \in [Bridges -> Keys \cup {Null, NoFile}] /\ stamp \in [Bridges -> Keys]
  BY BridgesAssumption DEF TypeOK
<1>2. PICK s \in Stamps(b) : stamp' = [stamp EXCEPT ![b] = s]
  BY DEF WriteFile
<1>3. s \in Keys
  BY <1>1, BoundsAssumption DEF Stamps, Keys
<1>4. QED
  BY <1>1, <1>2, <1>3 DEF WriteFile

-----------------------------------------------------------------------------
(* The process.                                                            *)

LEMMA Concatenated ==
  ASSUME NEW S, NEW u \in Seq(S), NEW v \in Seq(S)
  PROVE  /\ u \o v \in Seq(S) /\ Len(u \o v) = Len(u) + Len(v)
         /\ \A i \in 1 .. Len(u) : (u \o v)[i] = u[i]
         /\ \A i \in Len(u) + 1 .. Len(u) + Len(v) : (u \o v)[i] = v[i - Len(u)]
  OBVIOUS

\* open_bridge's table, initialised and expanded, begins with the old one,
\* and what is new in it is unused.
LEMMA Enlarged ==
  ASSUME space \in Seq(Slot), NEW t, t = Expanded(Initialised(space))
  PROVE  /\ t \in Seq(Slot) /\ Len(space) <= Len(t) /\ Len(t) \in Nat
         /\ \A i \in 1 .. Len(space) : t[i] = space[i]
         /\ \A i \in 1 .. Len(t) : i > Len(space) => t[i] = Empty
<1> DEFINE u == Initialised(space)
<1>1. Empty \in Slot
  BY DEF Empty, Slot
<1>2. \A n \in Nat : /\ Slots(n) \in Seq(Slot) /\ Len(Slots(n)) = n
                     /\ \A i \in 1 .. n : Slots(n)[i] = Empty
  BY <1>1 DEF Slots
<1>3. /\ u \in Seq(Slot) /\ Len(space) <= Len(u) /\ Len(u) \in Nat /\ Len(space) \in Nat
      /\ \A i \in 1 .. Len(space) : u[i] = space[i]
      /\ \A i \in 1 .. Len(u) : i > Len(space) => u[i] = Empty
  <2>1. CASE space = <<>>
    <3>1. u = Slots(InitCount) /\ InitCount \in Nat /\ Len(space) = 0
      BY <2>1, BoundsAssumption DEF Initialised
    <3>2. /\ u \in Seq(Slot) /\ Len(u) = InitCount
          /\ \A i \in 1 .. InitCount : u[i] = Empty
      BY <3>1, <1>2
    <3>3. QED
      BY ONLY <3>1, <3>2
  <2>2. CASE space # <<>>
    BY <2>2 DEF Initialised
  <2>3. QED
    BY <2>1, <2>2
<1>4. CASE valid >= Len(u)
  <2>1. t = u \o Slots(Len(u))
    BY <1>4 DEF Expanded
  <2>2. /\ Slots(Len(u)) \in Seq(Slot) /\ Len(Slots(Len(u))) = Len(u)
        /\ \A i \in 1 .. Len(u) : Slots(Len(u))[i] = Empty
    BY <1>2, <1>3
  <2>3. /\ t \in Seq(Slot) /\ Len(t) = Len(u) + Len(u)
        /\ \A i \in 1 .. Len(u) : t[i] = u[i]
        /\ \A i \in Len(u) + 1 .. Len(t) : t[i] = Slots(Len(u))[i - Len(u)]
    <3> DEFINE v == Slots(Len(u))
    <3>1. u \in Seq(Slot) /\ v \in Seq(Slot)
      BY <2>2, <1>3
    <3> HIDE DEF u, v
    <3>2. /\ u \o v \in Seq(Slot) /\ Len(u \o v) = Len(u) + Len(v)
          /\ \A i \in 1 .. Len(u) : (u \o v)[i] = u[i]
          /\ \A i \in Len(u) + 1 .. Len(u) + Len(v) : (u \o v)[i] = v[i - Len(u)]
      BY <3>1, Concatenated
    <3>3. t = u \o v /\ Len(v) = Len(u)
      BY <2>1, <2>2 DEF v
    <3>4. /\ t \in Seq(Slot) /\ Len(t) = Len(u) + Len(u)
          /\ \A i \in 1 .. Len(u) : t[i] = u[i]
          /\ \A i \in Len(u) + 1 .. Len(t) : t[i] = v[i - Len(u)]
      BY <3>2, <3>3
    <3>5. QED
      BY <3>4 DEF v
  <2>4. \A i \in Len(u) + 1 .. Len(t) : t[i] = Empty
    BY <2>2, <2>3, <1>3
  <2>5. ASSUME NEW i \in 1 .. Len(t), i > Len(space) PROVE t[i] = Empty
    <3>1. CASE i <= Len(u)
      BY <3>1, <2>5, <2>3, <1>3
    <3>2. CASE i > Len(u)
      BY <3>2, <2>3, <2>4, <1>3
    <3>3. QED
      BY <3>1, <3>2, <1>3
  <2>6. QED
    BY <2>3, <2>5, <1>3
<1>5. CASE ~(valid >= Len(u))
  BY <1>3, <1>5 DEF Expanded
<1>6. QED
  BY <1>4, <1>5

LEMMA OpenBridgeStep ==
  ASSUME IInv, NEW b \in Bridges, OpenBridge(b)
  PROVE  IInv'
<1> DEFINE t == Expanded(Initialised(space))
<1> DEFINE i == Min(EmptyAt(t))
<1>1. /\ space \in Seq(Slot) /\ Len(space) \in Nat /\ DOMAIN space = 1 .. Len(space)
      /\ SlotsAreHeld
  BY DEF IInv, TypeOK
<1>2. /\ t \in Seq(Slot) /\ Len(space) <= Len(t) /\ Len(t) \in Nat
      /\ \A j \in 1 .. Len(space) : t[j] = space[j]
      /\ \A j \in 1 .. Len(t) : j > Len(space) => t[j] = Empty
  BY <1>1, Enlarged
<1>3. /\ space' = t /\ valid' = valid /\ held' = held
      /\ UNCHANGED <<file, stamp, shm, deploy, carrier, faults, cleans>>
      /\ opening' = IF file[b] = NoFile THEN NotOpening
                    ELSE [pc |-> "key", bridge |-> b, slot |-> i, key |-> file[b]]
      /\ EmptyAt(t) # {} /\ OpenedAt(b, Initialised(space)) = {}
  BY DEF OpenBridge, memory
<1> HIDE DEF t
<1>4. i \in 1 .. Len(t) /\ t[i].bridge = NoBridge
  <2>1. EmptyAt(t) \in SUBSET Nat /\ EmptyAt(t) # {}
    BY <1>2, <1>3 DEF EmptyAt
  <2>2. i \in EmptyAt(t)
    BY <2>1, MinIn
  <2>3. QED
    BY <2>2, <1>2 DEF EmptyAt
<1>5. i - 1 \notin DOMAIN held
  <2>1. SUFFICES ASSUME i - 1 \in DOMAIN held PROVE FALSE
    OBVIOUS
  <2>2. i - 1 \in 0 .. Len(space) - 1 /\ held[i - 1] \in Bridges
    BY <2>1, <1>1 DEF SlotsAreHeld
  <2>3. i \in 1 .. Len(space)
    BY <2>2, <1>1, <1>4
  <2>4. space[i].bridge = held[i - 1]
    BY <2>1, <2>3, <1>1 DEF SlotsAreHeld
  <2>5. QED
    BY <2>2, <2>3, <2>4, <1>2, <1>4, BridgesAssumption
<1>6. \A bd \in DOMAIN held : held[bd] # b
  <2>1. SUFFICES ASSUME NEW bd \in DOMAIN held, held[bd] = b PROVE FALSE
    OBVIOUS
  <2>2. bd \in 0 .. Len(space) - 1
    BY <1>1 DEF SlotsAreHeld
  <2>3. bd + 1 \in 1 .. Len(space) /\ bd + 1 - 1 = bd /\ space # <<>>
    BY <2>2, <1>1
  <2>4. space[bd + 1].bridge = b
    BY <2>1, <2>3, <1>1 DEF SlotsAreHeld
  <2>5. bd + 1 \in OpenedAt(b, Initialised(space))
    BY <2>3, <2>4, <1>1 DEF OpenedAt, Initialised
  <2>6. QED
    BY <2>5, <1>3
<1>7. TypeOK'
  <2>1. opening'.pc \in {"idle", "key", "segment"}
    BY <1>3 DEF NotOpening
  <2>2. valid' \in 0 .. Len(space')
    BY <1>1, <1>2, <1>3 DEF IInv, TypeOK
  <2>3. QED
    BY <1>2, <1>3, <2>1, <2>2 DEF IInv, TypeOK
<1>8. SlotsAreHeld'
  <2>1. \A bd \in DOMAIN held : bd \in 0 .. Len(t) - 1 /\ held[bd] \in Bridges
    BY <1>1, <1>2 DEF SlotsAreHeld
  <2>2. ASSUME NEW j \in 1 .. Len(t)
        PROVE  IF j - 1 \in DOMAIN held
               THEN t[j].bridge = held[j - 1] /\ t[j].opened_id = j - 1 /\ t[j].seg # Null
               ELSE t[j] = Empty
    <3>1. CASE j \in 1 .. Len(space)
      BY <3>1, <1>1, <1>2 DEF SlotsAreHeld
    <3>2. CASE j > Len(space)
      <4>1. j - 1 \notin DOMAIN held
        BY <3>2, <1>1 DEF SlotsAreHeld
      <4>2. QED
        BY <3>2, <4>1, <1>2
    <3>3. QED
      BY <3>1, <3>2, <1>1
  <2>3. DOMAIN t = 1 .. Len(t)
    BY <1>2
  <2>4. QED
    BY <2>1, <2>2, <2>3, <1>1, <1>3 DEF SlotsAreHeld
<1>9. SlotIsReserved'
  <2>1. CASE file[b] = NoFile
    BY <2>1, <1>3 DEF SlotIsReserved
  <2>2. CASE file[b] # NoFile
    <3>1. file[b] \in Keys \cup {Null, Removed}
      BY <2>2 DEF IInv, TypeOK
    <3>2. opening' = [pc |-> "key", bridge |-> b, slot |-> i, key |-> file[b]]
      BY <2>2, <1>3
    <3>3. DOMAIN space' = 1 .. Len(t)
      BY <1>2, <1>3
    <3>4. QED
      BY <3>1, <3>2, <3>3, <1>3, <1>4, <1>5, <1>6 DEF SlotIsReserved
  <2>3. QED
    BY <2>1, <2>2
<1>10. CreaterAt'
  BY <1>3, CreaterFrame DEF IInv
<1>11. AttachedIsComplete'
  <2>1. ASSUME NEW j \in 1 .. Len(t), t[j].seg \in Keys
        PROVE  shm[t[j].bridge][t[j].seg] = Ready
    <3>1. CASE j \in 1 .. Len(space)
      BY <3>1, <2>1, <1>1, <1>2 DEF IInv, AttachedIsComplete
    <3>2. CASE j > Len(space)
      BY <3>2, <2>1, <1>2, Numbers DEF Empty
    <3>3. QED
      BY <3>1, <3>2, <1>1
  <2>2. DOMAIN space' = 1 .. Len(t)
    BY <1>2, <1>3
  <2>3. QED
    BY <2>1, <2>2, <1>3 DEF IInv, AttachedIsComplete
<1>12. QED
  BY <1>7, <1>8, <1>9, <1>10, <1>11 DEF IInv

LEMMA OpenGetStep ==
  ASSUME IInv, OpenGet
  PROVE  IInv'
<1>1. UNCHANGED <<space, valid, held, file, stamp, shm, deploy, carrier, faults, cleans>>
  BY DEF OpenGet, memory
<1>2. /\ opening.pc = "key" /\ opening # NotOpening
      /\ opening' \in {[opening EXCEPT !.pc = "segment"], NotOpening}
  BY DEF OpenGet, NotOpening
<1>3. SlotIsReserved' /\ opening'.pc \in {"idle", "key", "segment"}
  <2>1. CASE opening' = NotOpening
    BY <2>1 DEF SlotIsReserved, NotOpening
  <2>2. CASE opening' = [opening EXCEPT !.pc = "segment"]
    <3>1. opening \in [pc : {"key", "segment"}, bridge : Bridges, slot : DOMAIN space,
                       key : Keys \cup {Null, Removed}]
      BY <1>2 DEF IInv, SlotIsReserved
    <3>2. /\ opening' \in [pc : {"key", "segment"}, bridge : Bridges, slot : DOMAIN space,
                            key : Keys \cup {Null, Removed}]
          /\ opening'.slot = opening.slot /\ opening'.bridge = opening.bridge
          /\ opening'.pc = "segment"
      BY ONLY <2>2, <3>1
    <3>3. QED
      BY <3>2, <1>1, <1>2 DEF IInv, SlotIsReserved
  <2>3. QED
    BY <2>1, <2>2, <1>2
<1>4. TypeOK'
  BY <1>1, <1>3 DEF IInv, TypeOK
<1>5. SlotsAreHeld' /\ CreaterAt' /\ AttachedIsComplete'
  BY <1>1, TableFrame, CreaterFrame, AttachedFrame DEF IInv
<1>6. QED
  BY <1>3, <1>4, <1>5 DEF IInv

\* The slot that was reserved is filled: one descriptor more is held.
LEMMA SlotFilled ==
  ASSUME IInv, opening.pc = "segment", NEW seg \in Keys \cup {Removed}, SetSlot(seg),
         seg \in Keys => shm[opening.bridge][seg] = Ready,
         opening' = NotOpening,
         UNCHANGED <<memory, deploy, carrier, faults, cleans>>
  PROVE  IInv'
<1> DEFINE i == opening.slot
<1> DEFINE new == [bridge |-> opening.bridge, opened_id |-> i - 1, seg |-> seg]
<1>1. /\ space \in Seq(Slot) /\ Len(space) \in Nat /\ DOMAIN space = 1 .. Len(space)
      /\ valid = Cardinality(DOMAIN held) /\ SlotsAreHeld
  BY DEF IInv, TypeOK, SlotsAreHeld
<1>2. /\ opening.bridge \in Bridges /\ i \in 1 .. Len(space)
      /\ i - 1 \notin DOMAIN held /\ \A bd \in DOMAIN held : held[bd] # opening.bridge
  BY <1>1 DEF IInv, SlotIsReserved, NotOpening
<1>3. /\ space' = [space EXCEPT ![i] = new] /\ valid' = valid + 1
      /\ held' = [bd \in DOMAIN held \cup {i - 1} |->
                     IF bd = i - 1 THEN opening.bridge ELSE held[bd]]
      /\ opening' = NotOpening
      /\ UNCHANGED <<file, stamp, shm, deploy, carrier, faults, cleans>>
  BY DEF SetSlot, memory
<1>4. new \in Slot /\ i - 1 \in 0 .. Len(space) - 1
  BY <1>1, <1>2 DEF Slot
<1>5. /\ space' \in Seq(Slot) /\ Len(space') = Len(space) /\ space'[i] = new
      /\ DOMAIN space' = 1 .. Len(space)
      /\ \A j \in 1 .. Len(space) : j # i => space'[j] = space[j]
  <2> HIDE DEF new
  <2>1. QED
    BY ONLY <1>1, <1>2, <1>3, <1>4
<1>6. /\ DOMAIN held' = DOMAIN held \cup {i - 1} /\ held'[i - 1] = opening.bridge
      /\ \A bd \in DOMAIN held : held'[bd] = held[bd] /\ bd # i - 1
  BY <1>2, <1>3
<1>7. \A bd \in DOMAIN held' : bd \in 0 .. Len(space) - 1 /\ held'[bd] \in Bridges
  BY <1>1, <1>2, <1>4, <1>6 DEF SlotsAreHeld
<1>8. valid' = Cardinality(DOMAIN held') /\ valid' \in 0 .. Len(space')
  <2>1. IsFiniteSet(DOMAIN held)
    BY <1>1, HeldBound DEF SlotsAreHeld
  <2>2. Cardinality(DOMAIN held') = Cardinality(DOMAIN held) + 1
    BY <2>1, <1>2, <1>6, FS_AddElement
  <2>3. Cardinality(DOMAIN held') \in 0 .. Len(space)
    BY <1>1, <1>7, HeldBound
  <2>4. QED
    BY <2>2, <2>3, <1>1, <1>3, <1>5
<1>9. TypeOK'
  <2>1. opening'.pc = "idle"
    BY <1>3 DEF NotOpening
  <2>2. QED
    BY <2>1, <1>3, <1>5, <1>8 DEF IInv, TypeOK
<1>10. SlotsAreHeld'
  <2>1. \A c, d \in DOMAIN held' : held'[c] = held'[d] => c = d
    BY <1>1, <1>2, <1>6 DEF SlotsAreHeld
  <2>2. ASSUME NEW j \in 1 .. Len(space)
        PROVE  IF j - 1 \in DOMAIN held'
               THEN /\ space'[j].bridge = held'[j - 1] /\ space'[j].opened_id = j - 1
                    /\ space'[j].seg # Null
               ELSE space'[j] = Empty
    <3>1. CASE j = i
      BY <3>1, <1>5, <1>6, Numbers
    <3>2. CASE j # i
      <4>1. j - 1 # i - 1 /\ space'[j] = space[j]
        BY <3>2, <1>1, <1>2, <1>5
      <4>2. j - 1 \in DOMAIN held' <=> j - 1 \in DOMAIN held
        BY <4>1, <1>6
      <4>3. QED
        BY <4>1, <4>2, <1>1, <1>6 DEF SlotsAreHeld
    <3>3. QED
      BY <3>1, <3>2
  <2>3. QED
    BY <2>1, <2>2, <1>5, <1>7, <1>8 DEF SlotsAreHeld
<1>11. SlotIsReserved' /\ CreaterAt'
  BY <1>3, CreaterFrame DEF IInv, SlotIsReserved
<1>12. AttachedIsComplete'
  <2>1. ASSUME NEW j \in 1 .. Len(space), space'[j].seg \in Keys
        PROVE  shm[space'[j].bridge][space'[j].seg] = Ready
    <3>1. CASE j = i
      BY <3>1, <2>1, <1>5
    <3>2. CASE j # i
      BY <3>2, <2>1, <1>1, <1>5 DEF IInv, AttachedIsComplete
    <3>3. QED
      BY <3>1, <3>2
  <2>2. QED
    BY <2>1, <1>3, <1>5 DEF IInv, AttachedIsComplete
<1>13. QED
  BY <1>9, <1>10, <1>11, <1>12 DEF IInv

LEMMA OpenAttachStep ==
  ASSUME IInv, OpenAttach
  PROVE  IInv'
<1>1. /\ opening.pc = "segment" /\ opening' = NotOpening
      /\ UNCHANGED <<memory, deploy, carrier, faults, cleans>>
  BY DEF OpenAttach
<1>2. CASE opening.key = Removed /\ SetSlot(Removed)
  BY <1>1, <1>2, Numbers, SlotFilled
<1>3. CASE opening.key \in Keys /\ Complete(opening.bridge, opening.key) /\ SetSlot(opening.key)
  <2>1. opening.bridge \in Bridges
    BY <1>1 DEF IInv, SlotIsReserved, NotOpening
  <2>2. shm[opening.bridge][opening.key] \in None .. Ready
    BY <2>1, <1>3 DEF IInv, TypeOK
  <2>3. shm[opening.bridge][opening.key] = Ready
    BY <2>2, <1>3, Numbers DEF Complete, RecvSizeIsSet
  <2>4. QED
    BY <2>3, <1>1, <1>3, SlotFilled
<1>4. CASE UNCHANGED <<space, valid, held>>
  <2>1. UNCHANGED <<space, valid, held, file, stamp, shm, deploy, carrier, faults, cleans>>
    BY <1>1, <1>4 DEF memory
  <2>2. opening'.pc = "idle" /\ SlotIsReserved'
    BY <1>1 DEF NotOpening, SlotIsReserved
  <2>3. TypeOK'
    BY <2>1, <2>2 DEF IInv, TypeOK
  <2>4. SlotsAreHeld' /\ CreaterAt' /\ AttachedIsComplete'
    BY <2>1, TableFrame, CreaterFrame, AttachedFrame DEF IInv
  <2>5. QED
    BY <2>2, <2>3, <2>4 DEF IInv
<1>5. QED
  BY <1>2, <1>3, <1>4 DEF OpenAttach

\* An empty table of which nothing is held, as after a start.
LEMMA EmptyTable ==
  ASSUME IInv, space' = <<>>, valid' = 0, DOMAIN held' = {}, opening' = NotOpening,
         UNCHANGED <<memory, deploy, carrier, faults, cleans>>
  PROVE  IInv'
<1>1. UNCHANGED <<file, stamp, shm, deploy, carrier, faults, cleans>>
  BY DEF memory
<1>2. space' \in Seq(Slot) /\ Len(space') = 0 /\ DOMAIN space' = {} /\ Cardinality({}) = 0
  BY FS_EmptySet
<1>3. opening'.pc = "idle" /\ SlotIsReserved'
  BY DEF NotOpening, SlotIsReserved
<1>4. TypeOK'
  BY <1>1, <1>2, <1>3 DEF IInv, TypeOK
<1>5. SlotsAreHeld'
  BY <1>2 DEF SlotsAreHeld
<1>6. CreaterAt' /\ AttachedIsComplete'
  BY <1>1, <1>2, CreaterFrame DEF IInv, AttachedIsComplete
<1>7. QED
  BY <1>3, <1>4, <1>5, <1>6 DEF IInv

LEMMA OpenFaultsStep ==
  ASSUME IInv, OpenFaults
  PROVE  IInv'
<1>1. DOMAIN held' = {}
  BY DEF OpenFaults
<1>2. QED
  BY <1>1, EmptyTable DEF OpenFaults

LEMMA CloseBridgeStep ==
  ASSUME IInv, NEW bd \in DOMAIN held, CloseBridge(bd)
  PROVE  IInv'
<1>1. /\ space \in Seq(Slot) /\ Len(space) \in Nat /\ DOMAIN space = 1 .. Len(space)
      /\ valid = Cardinality(DOMAIN held) /\ SlotsAreHeld
  BY DEF IInv, TypeOK, SlotsAreHeld
<1>2. /\ opening = NotOpening /\ valid' = valid - 1
      /\ space' = IF LastClosed(valid') THEN <<>>
                  ELSE [space EXCEPT ![bd + 1] = ClosedSlot(@)]
      /\ held' = [d \in DOMAIN held \ {bd} |-> held[d]]
      /\ UNCHANGED <<opening, memory, deploy, carrier, faults, cleans>>
  BY DEF CloseBridge
<1>3. UNCHANGED <<file, stamp, shm, deploy, carrier, faults, cleans, opening>>
  BY <1>2 DEF memory
<1>4. DOMAIN held' = DOMAIN held \ {bd} /\ \A d \in DOMAIN held' : held'[d] = held[d]
  BY <1>2
<1>5. /\ IsFiniteSet(DOMAIN held') /\ valid' = Cardinality(DOMAIN held')
      /\ valid' \in 0 .. Len(space)
  <2>1. IsFiniteSet(DOMAIN held)
    BY <1>1, HeldBound DEF SlotsAreHeld
  <2>2. IsFiniteSet(DOMAIN held') /\ Cardinality(DOMAIN held') = Cardinality(DOMAIN held) - 1
    BY <2>1, <1>4, FS_RemoveElement
  <2>3. Cardinality(DOMAIN held') \in 0 .. Len(space)
    BY <1>1, <1>4, HeldBound DEF SlotsAreHeld
  <2>4. QED
    BY <2>2, <2>3, <1>1, <1>2
<1>6. CASE LastClosed(valid')
  <2>1. valid' = 0
    BY <1>5, <1>6 DEF LastClosed
  <2>2. DOMAIN held' = {}
    BY <2>1, <1>5, FS_EmptySet
  <2>3. QED
    BY <2>1, <2>2, <1>2, <1>6, EmptyTable
<1>7. CASE ~LastClosed(valid')
  <2>1. bd \in 0 .. Len(space) - 1
    BY <1>1 DEF SlotsAreHeld
  <2>2. space' = [space EXCEPT ![bd + 1] = Empty] /\ Empty \in Slot
    BY <1>2, <1>7 DEF ClosedSlot, Empty, Slot
  <2>3. /\ space' \in Seq(Slot) /\ Len(space') = Len(space) /\ space'[bd + 1] = Empty
        /\ DOMAIN space' = 1 .. Len(space)
        /\ \A j \in 1 .. Len(space) : j # bd + 1 => space'[j] = space[j]
    BY ONLY <2>1, <2>2, <1>1
  <2>4. TypeOK'
    BY <2>3, <1>3, <1>5 DEF IInv, TypeOK
  <2>5. SlotsAreHeld'
    <3>1. ASSUME NEW j \in 1 .. Len(space)
          PROVE  IF j - 1 \in DOMAIN held'
                 THEN /\ space'[j].bridge = held'[j - 1] /\ space'[j].opened_id = j - 1
                      /\ space'[j].seg # Null
                 ELSE space'[j] = Empty
      <4>1. CASE j = bd + 1
        BY <4>1, <2>1, <2>3, <1>4
      <4>2. CASE j # bd + 1
        <5>1. j - 1 # bd /\ space'[j] = space[j]
          BY <4>2, <2>1, <2>3, <1>1
        <5>2. j - 1 \in DOMAIN held' <=> j - 1 \in DOMAIN held
          BY <5>1, <1>4
        <5>3. QED
          BY <5>1, <5>2, <1>1, <1>4 DEF SlotsAreHeld
      <4>3. QED
        BY <4>1, <4>2
    <3>2. QED
      BY <3>1, <2>3, <1>1, <1>4, <1>5 DEF SlotsAreHeld
  <2>6. SlotIsReserved' /\ CreaterAt'
    BY <1>2, <1>3, CreaterFrame DEF IInv, SlotIsReserved
  <2>7. AttachedIsComplete'
    <3>1. ASSUME NEW j \in 1 .. Len(space), space'[j].seg \in Keys
          PROVE  shm[space'[j].bridge][space'[j].seg] = Ready
      <4>1. j # bd + 1
        BY <3>1, <2>3, Numbers DEF Empty
      <4>2. QED
        BY <3>1, <4>1, <2>3, <1>1 DEF IInv, AttachedIsComplete
    <3>2. QED
      BY <3>1, <2>3, <1>3 DEF IInv, AttachedIsComplete
  <2>8. QED
    BY <2>4, <2>5, <2>6, <2>7 DEF IInv
<1>8. QED
  BY <1>6, <1>7

-----------------------------------------------------------------------------
(* Deployment, the carrier, and the faults: the table stays as it is.      *)

LEMMA OutsideStep ==
  ASSUME IInv, UNCHANGED <<space, valid, opening, held>>,
         file' \in [Bridges -> Keys \cup {Null, NoFile}],
         stamp' \in [Bridges -> Keys],
         shm' \in [Bridges -> [Keys -> None .. Ready]],
         deploy' \in [Redeployed -> ScriptState],
         carrier' \in [Redeployed -> CarrierState],
         faults' \in 0 .. MaxFaults, cleans' \in 0 .. MaxCleans,
         CreaterAt', AttachedIsComplete'
  PROVE  IInv'
<1>1. TypeOK'
  BY DEF IInv, TypeOK
<1>2. SlotsAreHeld' /\ SlotIsReserved'
  BY TableFrame, OpeningFrame DEF IInv
<1>3. QED
  BY <1>1, <1>2 DEF IInv

\* What the types of the unchanged variables say of the new state.
LEMMA Typed ==
  ASSUME IInv
  PROVE  /\ file \in [Bridges -> Keys \cup {Null, NoFile}]
         /\ stamp \in [Bridges -> Keys]
         /\ shm \in [Bridges -> [Keys -> None .. Ready]]
         /\ deploy \in [Redeployed -> ScriptState]
         /\ carrier \in [Redeployed -> CarrierState]
         /\ faults \in 0 .. MaxFaults /\ cleans \in 0 .. MaxCleans
         /\ MaxFaults \in Nat /\ MaxCleans \in Nat
  BY BoundsAssumption DEF IInv, TypeOK

\* A slot that is attached to a segment has a bridge.
LEMMA SegmentOfABridge ==
  ASSUME IInv, NEW i \in DOMAIN space, space[i].seg \in Keys
  PROVE  space[i].bridge \in Bridges
<1>1. space[i] # Empty
  BY Numbers DEF Empty
<1>2. QED
  BY <1>1 DEF IInv, SlotsAreHeld

\* Only the script moves, and it is not at creater's segment then.
LEMMA ScriptStep ==
  ASSUME IInv, NEW b \in Redeployed, NEW pc, Step(b, pc),
         pc \in {"idle", "stop", "delete", "open", "write", "start"},
         UNCHANGED <<table, memory, carrier, cleans>>, faults' \in 0 .. MaxFaults
  PROVE  IInv'
<1>1. UNCHANGED <<space, valid, opening, held, file, stamp, shm, carrier, cleans>>
  BY DEF table, memory
<1>2. deploy' \in [Redeployed -> ScriptState] /\ CreaterAt'
  BY <1>1, ScriptElsewhere DEF IInv
<1>3. AttachedIsComplete'
  BY <1>1 DEF IInv, AttachedIsComplete
<1>4. QED
  BY <1>1, <1>2, <1>3, Typed, OutsideStep

LEMMA DeployStep ==
  ASSUME IInv, NEW b \in Redeployed, Deploy(b) \/ DeployOver(b) \/ KillDeploy(b)
  PROVE  IInv'
<1>1. CASE Deploy(b)
  BY <1>1, ScriptStep, Typed DEF Deploy
<1>2. CASE DeployOver(b)
  <2>1. faults' \in 0 .. MaxFaults
    BY <1>2, Typed DEF DeployOver
  <2>2. QED
    BY <1>2, <2>1, ScriptStep DEF DeployOver
<1>3. CASE KillDeploy(b)
  <2>1. faults' \in 0 .. MaxFaults
    BY <1>3, Typed DEF KillDeploy
  <2>2. QED
    BY <1>3, <2>1, ScriptStep DEF KillDeploy
<1>4. QED
  BY <1>1, <1>2, <1>3

\* A carrier starts, ends, or goes on: it attaches to nothing but a complete segment.
LEMMA CarrierStep ==
  ASSUME IInv, NEW b \in Redeployed, NEW c \in CarrierState,
         carrier' = [carrier EXCEPT ![b] = c],
         c.seg \in Keys => c.seg = carrier[b].seg \/ shm[b][c.seg] = Ready,
         UNCHANGED <<table, shm, cleans>>, faults' \in 0 .. MaxFaults,
         file' \in [Bridges -> Keys \cup {Null, NoFile}], stamp' \in [Bridges -> Keys],
         deploy' \in [Redeployed -> ScriptState], CreaterAt'
  PROVE  IInv'
<1>1. UNCHANGED <<space, valid, opening, held, shm, cleans>>
  BY DEF table
<1>2. carrier \in [Redeployed -> CarrierState]
  BY Typed
<1>3. /\ carrier' \in [Redeployed -> CarrierState] /\ carrier'[b] = c
      /\ \A d \in Redeployed : d # b => carrier'[d] = carrier[d]
  BY <1>2
<1>4. AttachedIsComplete'
  <2>1. ASSUME NEW d \in Redeployed, carrier'[d].seg \in Keys
        PROVE  shm[d][carrier'[d].seg] = Ready
    <3>1. CASE d = b
      BY <3>1, <2>1, <1>3 DEF IInv, AttachedIsComplete
    <3>2. CASE d # b
      BY <3>2, <2>1, <1>3 DEF IInv, AttachedIsComplete
    <3>3. QED
      BY <3>1, <3>2
  <2>2. QED
    BY <2>1, <1>1 DEF IInv, AttachedIsComplete
<1>5. QED
  BY <1>1, <1>3, <1>4, Typed, OutsideStep

LEMMA UnstartedState ==
  /\ Unstarted \in CarrierState /\ Unstarted.seg \notin Keys
  /\ \A k \in Keys \cup {Null} : /\ [Unstarted EXCEPT !.pc = "key", !.key = k] \in CarrierState
                       /\ [Unstarted EXCEPT !.pc = "key", !.key = k].seg \notin Keys
  BY Numbers DEF Unstarted, CarrierState

LEMMA StopCarrierStep ==
  ASSUME IInv, NEW b \in Redeployed, StopCarrier(b)
  PROVE  IInv'
<1>1. /\ carrier' = [carrier EXCEPT ![b] = Unstarted] /\ Step(b, "delete")
      /\ UNCHANGED <<table, memory, faults, cleans>>
  BY DEF StopCarrier
<1>2. UNCHANGED <<table, file, stamp, shm, faults, cleans>>
  BY <1>1 DEF memory
<1>3. deploy' \in [Redeployed -> ScriptState] /\ CreaterAt'
  BY <1>1, <1>2, ScriptElsewhere DEF IInv
<1>4. QED
  BY <1>1, <1>2, <1>3, UnstartedState, Typed, CarrierStep

LEMMA KillCarrierStep ==
  ASSUME IInv, NEW b \in Redeployed, KillCarrier(b)
  PROVE  IInv'
<1>1. UNCHANGED <<table, file, stamp, shm, deploy, cleans>>
  BY DEF KillCarrier, memory
<1>2. faults' \in 0 .. MaxFaults /\ carrier' = [carrier EXCEPT ![b] = Unstarted]
  BY Typed DEF KillCarrier
<1>3. CreaterAt'
  BY <1>1, CreaterFrame DEF IInv
<1>4. QED
  BY <1>1, <1>2, <1>3, UnstartedState, Typed, CarrierStep

LEMMA StartCarrierStep ==
  ASSUME IInv, NEW b \in Redeployed, StartCarrier(b)
  PROVE  IInv'
<1> DEFINE c == [Unstarted EXCEPT !.pc = "key", !.key = file[b]]
<1>1. UNCHANGED <<table, file, stamp, shm, faults, cleans>> /\ Step(b, "idle")
  BY DEF StartCarrier, memory
<1>2. deploy' \in [Redeployed -> ScriptState] /\ CreaterAt'
  BY <1>1, ScriptElsewhere DEF IInv
<1>3. CASE carrier[b].pc = "down" /\ file[b] # NoFile
  <2>1. carrier' = [carrier EXCEPT ![b] = c]
    BY <1>3 DEF StartCarrier
  <2>2. file[b] \in Keys \cup {Null}
    BY <1>3, BridgesAssumption, Typed
  <2>3. c \in CarrierState /\ c.seg \notin Keys
    BY <2>2, UnstartedState
  <2> HIDE DEF c
  <2>4. QED
    BY <2>1, <2>3, <1>1, <1>2, Typed, CarrierStep
<1>4. CASE ~(carrier[b].pc = "down" /\ file[b] # NoFile)
  <2>1. carrier' = carrier
    BY <1>4 DEF StartCarrier
  <2>2. UNCHANGED <<table, memory, carrier, cleans>> /\ faults' \in 0 .. MaxFaults
    BY <1>1, <2>1, Typed DEF memory
  <2>3. QED
    BY <1>1, <2>2, ScriptStep
<1>5. QED
  BY <1>3, <1>4

LEMMA CarrierAttachStep ==
  ASSUME IInv, NEW b \in Redeployed, CarrierAttach(b)
  PROVE  IInv'
<1> DEFINE k == carrier[b].key
<1>1. UNCHANGED <<table, file, stamp, shm, deploy, faults, cleans>>
  BY DEF CarrierAttach, memory
<1>2. CreaterAt'
  BY <1>1, CreaterFrame DEF IInv
<1>3. CASE Gets(b, k) /\ Complete(b, k)
  <2>1. k \in Keys /\ b \in Bridges
    BY <1>3, BridgesAssumption DEF Gets
  <2>2. shm[b][k] \in None .. Ready
    BY <2>1, Typed
  <2>3. shm[b][k] = Ready
    BY <2>2, <1>3, Numbers DEF Complete, RecvSizeIsSet
  <2>4. [pc |-> "attached", key |-> k, seg |-> k] \in CarrierState
    BY <2>1 DEF CarrierState
  <2>5. carrier' = [carrier EXCEPT ![b] = [pc |-> "attached", key |-> k, seg |-> k]]
    BY <1>3 DEF CarrierAttach
  <2>6. QED
    BY <2>3, <2>4, <2>5, <1>1, <1>2, Typed, CarrierStep
<1>4. CASE ~(Gets(b, k) /\ Complete(b, k))
  <2>1. carrier' = [carrier EXCEPT ![b] = Unstarted]
    BY <1>4 DEF CarrierAttach
  <2>2. QED
    BY <2>1, <1>1, <1>2, UnstartedState, Typed, CarrierStep
<1>5. QED
  BY <1>3, <1>4

\* A step of the carrier that keeps its segment.
LEMMA CarrierGoesOn ==
  ASSUME IInv, NEW b \in Redeployed, NEW pc \in {"up", "rewrite"}, NEW k \in Keys \cup {Null}
  PROVE  /\ [carrier[b] EXCEPT !.pc = pc, !.key = k] \in CarrierState
         /\ [carrier[b] EXCEPT !.pc = pc, !.key = k].seg = carrier[b].seg
         /\ [carrier[b] EXCEPT !.pc = pc] \in CarrierState
         /\ [carrier[b] EXCEPT !.pc = pc].seg = carrier[b].seg
<1>1. carrier[b] \in CarrierState
  BY Typed
<1>2. QED
  BY ONLY <1>1, pc \in {"up", "rewrite"}, k \in Keys \cup {Null} DEF CarrierState

LEMMA CarrierKeyStep ==
  ASSUME IInv, NEW b \in Redeployed, CarrierKey(b)
  PROVE  IInv'
<1>1. UNCHANGED <<table, file, stamp, shm, deploy, faults, cleans>>
  BY DEF CarrierKey, memory
<1>2. CreaterAt'
  BY <1>1, CreaterFrame DEF IInv
<1>3. CASE file[b] = NoFile
  <2>1. carrier' = [carrier EXCEPT ![b] = Unstarted]
    BY <1>3 DEF CarrierKey
  <2>2. QED
    BY <2>1, <1>1, <1>2, UnstartedState, Typed, CarrierStep
<1>4. CASE file[b] # NoFile
  <2> DEFINE c == [carrier[b] EXCEPT !.pc = "up", !.key = file[b]]
  <2>1. file[b] \in Keys \cup {Null}
    BY <1>4, BridgesAssumption, Typed
  <2>2. c \in CarrierState /\ c.seg = carrier[b].seg
    BY <2>1, CarrierGoesOn
  <2>3. carrier' = [carrier EXCEPT ![b] = c]
    BY <1>4 DEF CarrierKey
  <2> HIDE DEF c
  <2>4. QED
    BY <2>2, <2>3, <1>1, <1>2, Typed, CarrierStep
<1>5. QED
  BY <1>3, <1>4

LEMMA CheckTmpFileStep ==
  ASSUME IInv, NEW b \in Redeployed, CheckTmpFile(b) \/ RewriteKey(b)
  PROVE  IInv'
<1>1. UNCHANGED <<table, shm, deploy, faults, cleans>>
  BY DEF CheckTmpFile, RewriteKey
<1>2. PICK pc \in {"up", "rewrite"}, k \in Keys \cup {Null} :
        carrier' = [carrier EXCEPT ![b].pc = pc] /\ WriteFile(b, k)
  <2>1. carrier[b].key \in Keys \cup {Null}
    BY Typed DEF CarrierState
  <2>2. QED
    BY <2>1 DEF CheckTmpFile, RewriteKey
<1> DEFINE c == [carrier[b] EXCEPT !.pc = pc]
<1>3. c \in CarrierState /\ c.seg = carrier[b].seg
  BY CarrierGoesOn
<1>4. carrier' = [carrier EXCEPT ![b] = c]
  BY <1>2
<1>5. file' \in [Bridges -> Keys \cup {Null, NoFile}] /\ stamp' \in [Bridges -> Keys]
  BY <1>2, FileWritten DEF IInv
<1>6. CreaterAt'
  BY <1>1, CreaterFrame DEF IInv
<1> HIDE DEF c
<1>7. QED
  BY <1>1, <1>3, <1>4, <1>5, <1>6, Typed, CarrierStep

LEMMA CleanTmpStep ==
  ASSUME IInv, NEW b \in Redeployed, CleanTmp(b)
  PROVE  IInv'
<1>1. UNCHANGED <<space, valid, opening, held, stamp, shm, deploy, carrier, faults>>
  BY DEF CleanTmp, table
<1>2. cleans' \in 0 .. MaxCleans /\ file' = [file EXCEPT ![b] = NoFile]
  BY Typed DEF CleanTmp
<1>3. file' \in [Bridges -> Keys \cup {Null, NoFile}]
  BY <1>2, Typed
<1>4. CreaterAt' /\ AttachedIsComplete'
  BY <1>1, CreaterFrame DEF IInv, AttachedIsComplete
<1>5. QED
  BY <1>1, <1>2, <1>3, <1>4, Typed, OutsideStep

LEMMA CreateFileStep ==
  ASSUME IInv, NEW b \in Redeployed, CreateFile(b)
  PROVE  IInv'
<1>1. UNCHANGED <<table, shm, carrier, faults, cleans>> /\ Step(b, "write")
  BY DEF CreateFile
<1>2. UNCHANGED <<space, valid, opening, held, shm, carrier, faults, cleans>>
  BY <1>1 DEF table
<1>3. file' \in [Bridges -> Keys \cup {Null, NoFile}] /\ stamp' \in [Bridges -> Keys]
  <2>1. CASE file[b] = NoFile
    <3>1. PICK s \in Stamps(b) : stamp' = [stamp EXCEPT ![b] = s]
      BY <2>1 DEF CreateFile
    <3>2. b \in Bridges /\ stamp[b] \in Keys
      BY BridgesAssumption, Typed
    <3>3. s \in Keys
      BY <3>2, BoundsAssumption DEF Stamps, Keys
    <3>4. file' = [file EXCEPT ![b] = Null]
      BY <2>1 DEF CreateFile
    <3>5. QED
      BY <3>1, <3>3, <3>4, Typed
  <2>2. CASE file[b] # NoFile
    BY <2>2, Typed DEF CreateFile
  <2>3. QED
    BY <2>1, <2>2
<1>4. deploy' \in [Redeployed -> ScriptState] /\ CreaterAt'
  BY <1>1, ScriptElsewhere DEF IInv
<1>5. AttachedIsComplete'
  BY <1>2 DEF IInv, AttachedIsComplete
<1>6. QED
  BY <1>2, <1>3, <1>4, <1>5, Typed, OutsideStep

LEMMA WriteKeyStep ==
  ASSUME IInv, NEW b \in Redeployed, WriteKey(b)
  PROVE  IInv'
<1> DEFINE c == [pc |-> "get", key |-> stamp[b]]
<1>1. /\ UNCHANGED <<table, shm, carrier, faults, cleans>>
      /\ deploy' = [deploy EXCEPT ![b] = c] /\ WriteFile(b, stamp[b])
  BY DEF WriteKey
<1>2. UNCHANGED <<space, valid, opening, held, shm, carrier, faults, cleans>>
  BY <1>1 DEF table
<1>3. stamp[b] \in Keys
  BY BridgesAssumption, Typed
<1>4. file' \in [Bridges -> Keys \cup {Null, NoFile}] /\ stamp' \in [Bridges -> Keys]
  BY <1>1, <1>3, FileWritten DEF IInv
<1>5. c \in ScriptState /\ c.pc = "get" /\ c.key \in Keys
  BY <1>3 DEF ScriptState
<1> HIDE DEF c
<1>6. /\ deploy' \in [Redeployed -> ScriptState] /\ deploy'[b] = c
      /\ \A d \in Redeployed : d # b => deploy'[d] = deploy[d]
  BY <1>1, <1>5, Typed
<1>7. CreaterAt'
  BY <1>2, <1>5, <1>6 DEF IInv, CreaterAt
<1>8. AttachedIsComplete'
  BY <1>2 DEF IInv, AttachedIsComplete
<1>9. QED
  BY <1>2, <1>4, <1>6, <1>7, <1>8, Typed, OutsideStep

LEMMA GetSegmentStep ==
  ASSUME IInv, NEW b \in Redeployed, GetSegment(b)
  PROVE  IInv'
<1> DEFINE k == deploy[b].key
<1>1. UNCHANGED <<table, file, stamp, carrier, faults, cleans>> /\ deploy[b].pc = "get"
  BY DEF GetSegment
<1>2. UNCHANGED <<space, valid, opening, held, file, stamp, carrier, faults, cleans>>
  BY <1>1 DEF table
<1>3. k \in Keys /\ b \in Bridges
  BY <1>1, BridgesAssumption DEF IInv, CreaterAt
<1>4. CASE shm[b][k] = None
  <2>1. shm' = [shm EXCEPT ![b][k] = Raw] /\ Step(b, "init")
    BY <1>4 DEF GetSegment
  <2>2. /\ shm' \in [Bridges -> [Keys -> None .. Ready]] /\ shm'[b][k] = Raw
        /\ \A c \in Bridges, j \in Keys : c # b \/ j # k => shm'[c][j] = shm[c][j]
    <3>1. Raw \in None .. Ready
      BY DEF Raw, None, Ready
    <3>2. QED
      BY <2>1, <3>1, <1>3, SegmentSet, ZenonT(60) DEF IInv
  <2>3. /\ deploy' \in [Redeployed -> ScriptState]
        /\ deploy'[b].pc = "init" /\ deploy'[b].key = k
        /\ \A c \in Redeployed : c # b => deploy'[c] = deploy[c]
    BY <2>1, ScriptMoves DEF IInv
  <2>4. CreaterAt'
    <3>1. Raw \in Raw .. SendSized
      BY DEF Raw, SendSized
    <3>2. ASSUME NEW c \in Redeployed
          PROVE  /\ deploy'[c].pc \in {"get", "init"} => deploy'[c].key \in Keys
                 /\ deploy'[c].pc = "init" => shm'[c][deploy'[c].key] \in Raw .. SendSized
      <4>1. CASE c = b
        BY <4>1, <3>1, <2>2, <2>3, <1>3
      <4>2. CASE c # b
        BY <4>2, <2>2, <2>3, BridgesAssumption DEF IInv, CreaterAt
      <4>3. QED
        BY <4>1, <4>2
    <3>3. QED
      BY <3>2 DEF CreaterAt
  <2>5. AttachedIsComplete'
    <3>1. None # Ready
      BY DEF None, Ready
    <3>2. ASSUME NEW c \in Bridges, NEW j \in Keys, shm[c][j] = Ready
          PROVE  shm'[c][j] = Ready
      BY <3>1, <3>2, <2>2, <1>4
    <3>3. \A i \in DOMAIN space : space[i].seg \in Keys => space[i].bridge \in Bridges
      BY SegmentOfABridge
    <3>4. QED
      BY <3>2, <3>3, <1>2, BridgesAssumption DEF IInv, AttachedIsComplete
  <2>6. QED
    BY <2>2, <2>3, <2>4, <2>5, <1>2, Typed, OutsideStep
<1>5. CASE shm[b][k] # None
  <2>1. UNCHANGED shm /\ Step(b, "start")
    BY <1>5 DEF GetSegment
  <2>2. UNCHANGED <<table, memory, carrier, cleans>> /\ faults' \in 0 .. MaxFaults
    BY <2>1, <1>1, Typed DEF memory
  <2>3. QED
    BY <2>1, <2>2, ScriptStep
<1>6. QED
  BY <1>4, <1>5

LEMMA InitSegmentStep ==
  ASSUME IInv, NEW b \in Redeployed, InitSegment(b)
  PROVE  IInv'
<1> DEFINE k == deploy[b].key
<1>1. /\ UNCHANGED <<table, file, stamp, carrier, faults, cleans>> /\ deploy[b].pc = "init"
      /\ shm' = [shm EXCEPT ![b][k] = @ + 1]
      /\ Step(b, IF shm'[b][k] = Ready THEN "start" ELSE "init")
  BY DEF InitSegment
<1>2. UNCHANGED <<space, valid, opening, held, file, stamp, carrier, faults, cleans>>
  BY <1>1 DEF table
<1>3. k \in Keys /\ b \in Bridges /\ shm[b][k] \in Raw .. SendSized
  BY <1>1, BridgesAssumption DEF IInv, CreaterAt
<1> DEFINE v == shm[b][k] + 1
<1>4. v \in None .. Ready /\ shm[b][k] # Ready /\ (v # Ready => v \in Raw .. SendSized)
  BY <1>3 DEF Raw, SendSized, None, Ready
<1>5. shm' = [shm EXCEPT ![b][k] = v]
  BY <1>1
<1> HIDE DEF v
<1>6. /\ shm' \in [Bridges -> [Keys -> None .. Ready]] /\ shm'[b][k] = v
      /\ \A c \in Bridges, j \in Keys : c # b \/ j # k => shm'[c][j] = shm[c][j]
  BY <1>3, <1>4, <1>5, SegmentSet, ZenonT(60) DEF IInv
<1>7. PICK pc \in {"start", "init"} : Step(b, pc) /\ (pc = "init" => v # Ready)
  BY <1>1, <1>6
<1>8. /\ deploy' \in [Redeployed -> ScriptState]
      /\ deploy'[b].pc = pc /\ deploy'[b].key = k
      /\ \A c \in Redeployed : c # b => deploy'[c] = deploy[c]
  BY <1>7, ScriptMoves DEF IInv
<1>9. CreaterAt'
  <2>1. ASSUME NEW c \in Redeployed
        PROVE  /\ deploy'[c].pc \in {"get", "init"} => deploy'[c].key \in Keys
               /\ deploy'[c].pc = "init" => shm'[c][deploy'[c].key] \in Raw .. SendSized
    <3>1. CASE c = b
      BY <3>1, <1>3, <1>4, <1>6, <1>7, <1>8
    <3>2. CASE c # b
      BY <3>2, <1>6, <1>8, BridgesAssumption DEF IInv, CreaterAt
    <3>3. QED
      BY <3>1, <3>2
  <2>2. QED
    BY <2>1 DEF CreaterAt
<1>10. AttachedIsComplete'
  <2>1. ASSUME NEW c \in Bridges, NEW j \in Keys, shm[c][j] = Ready
        PROVE  shm'[c][j] = Ready
    BY <2>1, <1>4, <1>6
  <2>2. \A i \in DOMAIN space : space[i].seg \in Keys => space[i].bridge \in Bridges
    BY SegmentOfABridge
  <2>3. QED
    BY <2>1, <2>2, <1>2, BridgesAssumption DEF IInv, AttachedIsComplete
<1>11. QED
  BY <1>2, <1>6, <1>8, <1>9, <1>10, Typed, OutsideStep

-----------------------------------------------------------------------------
(* deleter takes the segment away from the carrier and the process alike.  *)

LEMMA DeleteBridgeStep ==
  ASSUME IInv, NEW b \in Redeployed, DeleteBridge(b)
  PROVE  IInv'
<1> DEFINE k == file[b]
<1> DEFINE gone(seg) == IF seg = k THEN Removed ELSE seg
<1>1. /\ UNCHANGED <<valid, held, file, stamp, faults, cleans>>
      /\ deploy[b].pc = "delete" /\ Step(b, "open")
  BY DEF DeleteBridge
<1>2. CASE ~Gets(b, k)
  <2>1. UNCHANGED <<shm, carrier, space, opening>>
    BY <1>2 DEF DeleteBridge
  <2>2. UNCHANGED <<table, memory, carrier, cleans>> /\ faults' \in 0 .. MaxFaults
    BY <2>1, <1>1, Typed DEF table, memory
  <2>3. QED
    BY <2>2, <1>1, ScriptStep
<1>3. CASE Gets(b, k)
  <2>1. k \in Keys /\ b \in Bridges /\ k # Null
    BY <1>3, BridgesAssumption, Numbers DEF Gets
  <2>2. /\ shm' = [shm EXCEPT ![b][k] = None]
        /\ carrier' = [carrier EXCEPT ![b].seg = gone(@)]
        /\ space' = [i \in DOMAIN space |-> IF space[i].bridge = b
                        THEN [space[i] EXCEPT !.seg = gone(@)] ELSE space[i]]
        /\ opening' = IF opening.pc = "segment" /\ opening.bridge = b
                      THEN [opening EXCEPT !.key = gone(@)] ELSE opening
    BY <1>3 DEF DeleteBridge
  <2>3. \A seg \in Keys \cup {Null, Removed} :
          /\ gone(seg) \in Keys \cup {Null, Removed}
          /\ seg # Null => gone(seg) # Null
          /\ gone(seg) \in Keys => gone(seg) = seg /\ seg # k
    BY <2>1, Numbers
  <2> HIDE DEF gone, k
  <2>5. /\ shm' \in [Bridges -> [Keys -> None .. Ready]]
        /\ \A c \in Bridges, j \in Keys : c # b \/ j # k => shm'[c][j] = shm[c][j]
    <3>1. TypeOK /\ None \in None .. Ready /\ shm' = [shm EXCEPT ![b][k] = None]
      BY <2>2, Numbers DEF IInv
    <3>2. QED
      BY <3>1, <2>1, SegmentSet, ZenonT(60)
  <2>6. /\ carrier' \in [Redeployed -> CarrierState] /\ carrier'[b].seg = gone(carrier[b].seg)
        /\ \A c \in Redeployed : c # b => carrier'[c] = carrier[c]
    <3>1. carrier \in [Redeployed -> CarrierState] /\ carrier[b] \in CarrierState
      BY Typed
    <3>2. carrier'[b] = [carrier[b] EXCEPT !.seg = gone(carrier[b].seg)]
      BY <3>1, <2>2
    <3>3. gone(carrier[b].seg) \in Keys \cup {Null, Removed}
      BY <3>1, <2>3 DEF CarrierState
    <3>4. carrier'[b] \in CarrierState /\ carrier'[b].seg = gone(carrier[b].seg)
      BY ONLY <3>1, <3>2, <3>3 DEF CarrierState
    <3>5. QED
      BY <3>1, <3>4, <2>2
  <2>7. /\ space \in Seq(Slot) /\ Len(space) \in Nat /\ DOMAIN space = 1 .. Len(space)
        /\ \A i \in 1 .. Len(space) : space[i] \in Slot
    BY DEF IInv, TypeOK
  <2>8. ASSUME NEW i \in 1 .. Len(space)
        PROVE  /\ space'[i] \in Slot /\ space'[i].bridge = space[i].bridge
               /\ space'[i].opened_id = space[i].opened_id
               /\ space'[i].seg = IF space[i].bridge = b THEN gone(space[i].seg)
                                  ELSE space[i].seg
               /\ space[i].bridge # b => space'[i] = space[i]
    <3>1. CASE space[i].bridge = b
      <4>1. space'[i] = [space[i] EXCEPT !.seg = gone(space[i].seg)]
        BY <3>1, <2>2, <2>7
      <4>2. space[i] \in Slot /\ gone(space[i].seg) \in Keys \cup {Null, Removed}
        BY <2>3, <2>7 DEF Slot
      <4>3. /\ space'[i] \in Slot /\ space'[i].bridge = space[i].bridge
            /\ space'[i].opened_id = space[i].opened_id
            /\ space'[i].seg = gone(space[i].seg)
        BY ONLY <4>1, <4>2 DEF Slot
      <4>4. QED
        BY <4>3, <3>1
    <3>2. CASE space[i].bridge # b
      BY <3>2, <2>2, <2>7
    <3>3. QED
      BY <3>1, <3>2
  <2>9. space' \in Seq(Slot) /\ Len(space') = Len(space) /\ DOMAIN space' = 1 .. Len(space)
    <3>1. DOMAIN space' = 1 .. Len(space) /\ space' = [i \in 1 .. Len(space) |-> space'[i]]
      BY <2>2, <2>7
    <3>2. QED
      BY <3>1, <2>7, <2>8
  <2>10. opening' = opening \/ /\ opening.pc = "segment" /\ opening.key \in Keys \cup {Null, Removed}
                               /\ opening' = [opening EXCEPT !.key = gone(opening.key)]
    BY <2>2 DEF IInv, SlotIsReserved, NotOpening
  <2>11. SlotIsReserved' /\ opening'.pc \in {"idle", "key", "segment"}
    <3>1. CASE opening' = opening
      BY <3>1, <2>7, <2>9, <1>1 DEF IInv, SlotIsReserved, TypeOK
    <3>2. CASE opening.pc = "segment" /\ opening' = [opening EXCEPT !.key = gone(opening.key)]
      <4>1. opening \in [pc : {"key", "segment"}, bridge : Bridges, slot : DOMAIN space,
                         key : Keys \cup {Null, Removed}]
        BY <3>2 DEF IInv, SlotIsReserved, NotOpening
      <4>2. gone(opening.key) \in Keys \cup {Null, Removed}
        BY <4>1, <2>3
      <4>3. /\ opening' \in [pc : {"key", "segment"}, bridge : Bridges, slot : DOMAIN space,
                             key : Keys \cup {Null, Removed}]
            /\ opening'.slot = opening.slot /\ opening'.bridge = opening.bridge
            /\ opening'.pc = "segment"
        BY ONLY <3>2, <4>1, <4>2
      <4>4. QED
        BY <3>2, <4>3, <2>7, <2>9, <1>1 DEF IInv, SlotIsReserved, NotOpening
    <3>3. QED
      BY <3>1, <3>2, <2>10
  <2>12. /\ deploy' \in [Redeployed -> ScriptState] /\ deploy'[b].pc = "open"
         /\ \A c \in Redeployed : c # b => deploy'[c] = deploy[c]
    BY <1>1, ScriptMoves DEF IInv
  <2>13. CreaterAt'
    <3>1. ASSUME NEW c \in Redeployed
          PROVE  /\ deploy'[c].pc \in {"get", "init"} => deploy'[c].key \in Keys
                 /\ deploy'[c].pc = "init" => shm'[c][deploy'[c].key] \in Raw .. SendSized
      <4>1. CASE c = b
        BY <4>1, <2>12
      <4>2. CASE c # b
        BY <4>2, <2>5, <2>12, BridgesAssumption DEF IInv, CreaterAt
      <4>3. QED
        BY <4>1, <4>2
    <3>2. QED
      BY <3>1 DEF CreaterAt
  <2>14. SlotsAreHeld'
    <3>1. ASSUME NEW i \in 1 .. Len(space)
          PROVE  IF i - 1 \in DOMAIN held
                 THEN /\ space'[i].bridge = held[i - 1] /\ space'[i].opened_id = i - 1
                      /\ space'[i].seg # Null
                 ELSE space'[i] = Empty
      <4>1. CASE i - 1 \in DOMAIN held
        <5>1. /\ space[i].bridge = held[i - 1] /\ space[i].opened_id = i - 1
              /\ space[i].seg # Null
          BY <4>1, <2>7 DEF IInv, SlotsAreHeld
        <5>2. space[i].seg \in Keys \cup {Null, Removed}
          BY <2>7 DEF Slot
        <5>3. space'[i].seg # Null
          BY <5>1, <5>2, <2>3, <2>8
        <5>4. QED
          BY <4>1, <5>1, <5>3, <2>8
      <4>2. CASE i - 1 \notin DOMAIN held
        <5>1. space[i] = Empty
          BY <4>2, <2>7 DEF IInv, SlotsAreHeld
        <5>2. space[i].bridge # b
          BY <5>1, <2>1, BridgesAssumption DEF Empty
        <5>3. QED
          BY <4>2, <5>1, <5>2, <2>8
      <4>3. QED
        BY <4>1, <4>2
    <3>2. QED
      BY <3>1, <2>9, <1>1 DEF IInv, SlotsAreHeld
  <2>15. AttachedIsComplete'
    <3>1. ASSUME NEW i \in 1 .. Len(space), space'[i].seg \in Keys
          PROVE  shm'[space'[i].bridge][space'[i].seg] = Ready
      <4>1. space[i].seg \in Keys \cup {Null, Removed}
        BY <2>7 DEF Slot
      <4>2. space'[i].seg = space[i].seg /\ (space[i].bridge = b => space[i].seg # k)
        BY <3>1, <4>1, <2>3, <2>8
      <4>3. space[i].bridge \in Bridges
        BY <3>1, <4>2, <2>7, SegmentOfABridge
      <4>4. shm'[space[i].bridge][space[i].seg] = shm[space[i].bridge][space[i].seg]
        BY <3>1, <4>2, <4>3, <2>5
      <4>5. shm[space[i].bridge][space[i].seg] = Ready
        BY <3>1, <4>2, <2>7 DEF IInv, AttachedIsComplete
      <4>6. QED
        BY <4>2, <4>4, <4>5, <2>8
    <3>2. ASSUME NEW c \in Redeployed, carrier'[c].seg \in Keys
          PROVE  shm'[c][carrier'[c].seg] = Ready
      <4>1. carrier[c].seg \in Keys \cup {Null, Removed} /\ c \in Bridges
        BY Typed, BridgesAssumption DEF CarrierState
      <4>2. carrier'[c].seg = carrier[c].seg /\ (c = b => carrier[c].seg # k)
        BY <3>2, <4>1, <2>3, <2>6
      <4>3. shm'[c][carrier[c].seg] = shm[c][carrier[c].seg]
        BY <3>2, <4>1, <4>2, <2>5
      <4>4. shm[c][carrier[c].seg] = Ready
        BY <3>2, <4>2 DEF IInv, AttachedIsComplete
      <4>5. QED
        BY <4>2, <4>3, <4>4
    <3>3. QED
      BY <3>1, <3>2, <2>9 DEF AttachedIsComplete
  <2>16. TypeOK'
    <3>1. valid' \in 0 .. Len(space')
      BY <2>9, <1>1 DEF IInv, TypeOK
    <3>2. QED
      BY <3>1, <2>5, <2>6, <2>9, <2>11, <2>12, <1>1 DEF IInv, TypeOK
  <2>17. QED
    BY <2>11, <2>13, <2>14, <2>15, <2>16 DEF IInv
<1>4. QED
  BY <1>2, <1>3

-----------------------------------------------------------------------------
(* The specification.                                                      *)

LEMMA NextIInv ==
  ASSUME IInv, [Next]_vars
  PROVE  IInv'
<1>1. CASE UNCHANGED vars
  <2>1. UNCHANGED <<space, valid, opening, held, file, stamp, shm, deploy, carrier, faults, cleans>>
    BY <1>1 DEF vars, table, memory
  <2>2. CreaterAt' /\ AttachedIsComplete'
    BY <2>1, CreaterFrame DEF IInv, AttachedIsComplete
  <2>3. QED
    BY <2>1, <2>2, Typed, OutsideStep
<1>2. CASE Process
  BY <1>2, OpenBridgeStep, OpenGetStep, OpenAttachStep, OpenFaultsStep, CloseBridgeStep
     DEF Process
<1>3. ASSUME NEW b \in Redeployed,
             \/ Deploy(b) \/ DeployOver(b) \/ Script(b) \/ Starting(b) \/ CheckTmpFile(b)
             \/ KillCarrier(b) \/ KillDeploy(b) \/ CleanTmp(b)
      PROVE  IInv'
  <2>1. CASE Deploy(b) \/ DeployOver(b) \/ KillDeploy(b)
    BY <2>1, DeployStep
  <2>2. CASE Script(b)
    BY <2>2, StopCarrierStep, DeleteBridgeStep, CreateFileStep, WriteKeyStep,
       GetSegmentStep, InitSegmentStep, StartCarrierStep DEF Script
  <2>3. CASE Starting(b) \/ CheckTmpFile(b)
    BY <2>3, CarrierAttachStep, CarrierKeyStep, CheckTmpFileStep DEF Starting
  <2>4. CASE KillCarrier(b) \/ CleanTmp(b)
    BY <2>4, KillCarrierStep, CleanTmpStep
  <2>5. QED
    BY <1>3, <2>1, <2>2, <2>3, <2>4
<1>4. QED
  BY <1>1, <1>2, <1>3 DEF Next

LEMMA InitIInv == Init => IInv
<1> SUFFICES ASSUME Init PROVE IInv
  OBVIOUS
<1>1. /\ space = <<>> /\ valid = 0 /\ held = <<>> /\ opening = NotOpening
      /\ file = [b \in Bridges |-> IF b \in Redeployed THEN NoFile ELSE 1]
      /\ stamp = [b \in Bridges |-> 1]
      /\ shm = [b \in Bridges |-> [k \in Keys |->
                   IF b \notin Redeployed /\ k = 1 THEN Ready ELSE None]]
      /\ deploy = [b \in Redeployed |-> [pc |-> "idle", key |-> Null]]
      /\ carrier = [b \in Redeployed |-> Unstarted]
      /\ faults = 0 /\ cleans = 0
  BY DEF Init
<1>2. space \in Seq(Slot) /\ Len(space) = 0 /\ DOMAIN space = {} /\ DOMAIN held = {}
  BY <1>1
<1>3. TypeOK
  <2>1. opening.pc = "idle"
    BY <1>1 DEF NotOpening
  <2>2. [pc |-> "idle", key |-> Null] \in ScriptState
    BY DEF ScriptState
  <2>3. shm \in [Bridges -> [Keys -> None .. Ready]]
    BY <1>1, Numbers
  <2>4. file \in [Bridges -> Keys \cup {Null, NoFile}] /\ stamp \in [Bridges -> Keys]
    BY <1>1, Numbers
  <2>5. faults \in 0 .. MaxFaults /\ cleans \in 0 .. MaxCleans
    BY <1>1, BoundsAssumption
  <2>6. deploy \in [Redeployed -> ScriptState] /\ carrier \in [Redeployed -> CarrierState]
    BY <1>1, <2>2, UnstartedState
  <2>7. QED
    BY <1>1, <1>2, <2>1, <2>3, <2>4, <2>5, <2>6 DEF TypeOK
<1>4. SlotsAreHeld
  <2>1. Cardinality({}) = 0
    BY FS_EmptySet
  <2>2. QED
    BY <1>1, <1>2, <2>1 DEF SlotsAreHeld
<1>5. SlotIsReserved /\ CreaterAt /\ AttachedIsComplete
  <2>1. \A b \in Redeployed : deploy[b].pc = "idle" /\ carrier[b].seg \notin Keys
    BY <1>1, UnstartedState
  <2>2. QED
    BY <1>1, <1>2, <2>1 DEF SlotIsReserved, CreaterAt, AttachedIsComplete
<1>6. QED
  BY <1>3, <1>4, <1>5 DEF IInv

\* What the table, the segments and the tools keep to, at every step of the
\* process, of a deployment, of the carrier, and of a kill or a cleaning.
THEOREM Inductive == Spec => []IInv
<1>1. Init => IInv
  BY InitIInv
<1>2. IInv /\ [Next]_vars => IInv'
  BY NextIInv
<1>3. QED
  BY <1>1, <1>2, PTL DEF Spec

\* Every variable keeps to its type: of valid_count, that it never exceeds
\* the number of slots nor falls below zero.
THEOREM TypeCorrect == Spec => []TypeOK
<1>1. IInv => TypeOK
  BY DEF IInv
<1>2. QED
  BY <1>1, Inductive, PTL

\* A descriptor that open_bridge returned is accepted by close_bridge,
\* send_to_bridge and recv_from_bridge and leads to its bridge, until it
\* is closed.
THEOREM DescriptorsStayOpen == Spec => []HeldIsOpen
<1>1. IInv => HeldIsOpen
  <2> SUFFICES ASSUME IInv PROVE HeldIsOpen
    OBVIOUS
  <2>1. /\ Len(space) \in Nat /\ DOMAIN space = 1 .. Len(space)
        /\ SlotsAreHeld
    BY DEF IInv, TypeOK
  <2>2. ASSUME NEW bd \in DOMAIN held
        PROVE  /\ Accepts(bd) /\ space[bd + 1].bridge = held[bd]
               /\ space[bd + 1].seg # Null
    <3>1. bd \in 0 .. Len(space) - 1
      BY <2>1 DEF SlotsAreHeld
    <3>2. bd + 1 \in DOMAIN space /\ bd + 1 - 1 = bd
      BY <2>1, <3>1
    <3>3. /\ space[bd + 1].bridge = held[bd] /\ space[bd + 1].opened_id = bd
          /\ space[bd + 1].seg # Null
      BY <2>1, <3>2 DEF SlotsAreHeld
    <3>4. valid > 0
      <4>1. IsFiniteSet(DOMAIN held) /\ Cardinality(DOMAIN held) \in Nat
        BY <2>1, HeldBound DEF SlotsAreHeld
      <4>2. Cardinality(DOMAIN held) # 0
        BY <4>1, FS_EmptySet
      <4>3. QED
        BY <4>1, <4>2, <2>1 DEF SlotsAreHeld
    <3>5. QED
      BY <3>1, <3>3, <3>4, <2>1 DEF Accepts
  <2>3. QED
    BY <2>1, <2>2 DEF HeldIsOpen, SlotsAreHeld
<1>2. QED
  BY <1>1, Inductive, PTL

\* Any other descriptor but 0 is refused: the number in a slot that is not
\* held is 0, whether memset or calloc made it so.
THEOREM OthersAreRefused == Spec => []StaleRefused
<1>1. IInv => StaleRefused
  <2> SUFFICES ASSUME IInv, NEW bd \in 0 .. Len(space) - 1, bd \notin DOMAIN held, bd # 0
               PROVE  ~Accepts(bd)
    BY DEF StaleRefused
  <2>1. Len(space) \in Nat /\ DOMAIN space = 1 .. Len(space)
    BY DEF IInv, TypeOK
  <2>2. bd + 1 \in DOMAIN space /\ bd + 1 - 1 = bd
    BY <2>1
  <2>3. space[bd + 1] = Empty
    BY <2>2 DEF IInv, SlotsAreHeld
  <2>4. QED
    BY <2>3 DEF Accepts, Empty
<1>2. QED
  BY <1>1, Inductive, PTL

\* Neither a process nor a carrier is attached to a hub that creater has
\* not finished, whenever creater was killed, the segment was removed and
\* the key file was rewritten.
THEOREM OnlyComplete == Spec => []AttachedIsComplete
<1>1. IInv => AttachedIsComplete
  BY DEF IInv
<1>2. QED
  BY <1>1, Inductive, PTL

=============================================================================
