----------------------------- MODULE CarrierProofs -----------------------------
(***************************************************************************)
(* The tables of a carrier agree, for any number of targets, clients and   *)
(* descriptors, and any configurations.                                    *)
(***************************************************************************)
EXTENDS Carrier, FiniteSetTheorems, TLAPS

-----------------------------------------------------------------------------
(* Functions, sequences and keys.                                          *)

LEMMA PartialIs ==
  ASSUME NEW S, NEW T, NEW f
  PROVE  f \in Partial(S, T) <=> /\ DOMAIN f \subseteq S /\ f = [x \in DOMAIN f |-> f[x]]
                                 /\ \A x \in DOMAIN f : f[x] \in T
  BY DEF Partial

LEMMA InPartial ==
  ASSUME NEW S, NEW T, NEW D \in SUBSET S, NEW f \in [D -> T]
  PROVE  f \in Partial(S, T)
  BY DEF Partial

LEMMA KeysDiffer ==
  /\ \A x, y : FdKey(x) = FdKey(y) => x = y
  /\ \A x, y : ProcKey(x) = ProcKey(y) => x = y
  /\ \A x, y : FdKey(x) # ProcKey(y)
  /\ \A x : ProcKey(x)[2] = x
  BY DEF FdKey, ProcKey

LEMMA KeyIs ==
  /\ \A fd \in Fds : FdKey(fd) \in Key
  /\ \A id \in Ids : ProcKey(id) \in Key
  /\ \A k \in Key : (\E fd \in Fds : k = FdKey(fd)) \/ (\E id \in Ids : k = ProcKey(id))
  /\ FdKey(NoFd) \notin Key
<1>1. FdKey(NoFd) \notin Key
  BY KeysDiffer, KeysAssumption DEF Key, NoFd
<1>2. QED
  BY <1>1 DEF Key

\* SetToSeq puts the elements of a finite set one behind the other.
LEMMA ToSeqIs ==
  ASSUME NEW S, IsFiniteSet(S)
  PROVE  /\ SetToSeq(S) \in Seq(S) /\ IsInjective(SetToSeq(S))
         /\ ToSet(SetToSeq(S)) = S
<1> DEFINE n == Cardinality(S)
           s == SetToSeq(S)
<1>1. n \in Nat /\ \E f : f \in Bijection(1 .. n, S)
  BY FS_CardinalityType DEF ExistsBijection
<1>2. \E f \in [1 .. n -> S] : IsInjective(f)
  BY <1>1 DEF Bijection, Injection
<1>3. s \in [1 .. n -> S] /\ IsInjective(s)
  BY <1>2 DEF SetToSeq
<1>4. IsFiniteSet(1 .. n) /\ Cardinality(1 .. n) = n
  BY <1>1, FS_Interval
<1>5. s \in Surjection(1 .. n, S)
  BY <1>3, <1>4, FS_Injection DEF Injection
<1> HIDE DEF n, s
<1>6. s \in Seq(S) /\ DOMAIN s = 1 .. n
  BY <1>1, <1>3
<1>7. ToSet(s) = S
  BY <1>3, <1>5, <1>6 DEF ToSet, Surjection
<1>8. QED
  BY <1>3, <1>6, <1>7 DEF s

\* Two lists with nothing in common make one list.
LEMMA ListsJoin ==
  ASSUME NEW S, NEW s \in Seq(S), NEW t \in Seq(S), IsInjective(s), IsInjective(t),
         ToSet(s) \cap ToSet(t) = {}
  PROVE  s \o t \in Seq(S) /\ IsInjective(s \o t) /\ ToSet(s \o t) = ToSet(s) \cup ToSet(t)
<1>1. /\ s \o t \in Seq(S) /\ Len(s \o t) = Len(s) + Len(t)
      /\ \A i \in 1 .. Len(s) + Len(t) : (s \o t)[i] = IF i <= Len(s) THEN s[i] ELSE t[i - Len(s)]
  OBVIOUS
<1> DEFINE u == s \o t
<1>2. DOMAIN u = 1 .. Len(s) + Len(t) /\ DOMAIN s = 1 .. Len(s) /\ DOMAIN t = 1 .. Len(t)
      /\ Len(s) \in Nat /\ Len(t) \in Nat
  BY <1>1
<1> HIDE DEF u
<1>3. \A i \in DOMAIN u : IF i <= Len(s) THEN i \in DOMAIN s /\ u[i] = s[i]
                          ELSE i - Len(s) \in DOMAIN t /\ u[i] = t[i - Len(s)]
  BY <1>1, <1>2 DEF u
<1>4. IsInjective(u)
  <2> SUFFICES ASSUME NEW i \in DOMAIN u, NEW j \in DOMAIN u, u[i] = u[j]
               PROVE  i = j
    BY DEF IsInjective
  <2>1. \A k \in DOMAIN s, l \in DOMAIN t : s[k] # t[l]
    BY DEF ToSet
  <2>2. i \in Int /\ j \in Int
    BY <1>2
  <2>3. QED
    BY <1>2, <1>3, <2>1, <2>2 DEF IsInjective
<1>5. ToSet(u) \subseteq ToSet(s) \cup ToSet(t)
  BY <1>3 DEF ToSet
<1>6. ToSet(s) \subseteq ToSet(u)
  <2>1. \A k \in DOMAIN s : k \in DOMAIN u /\ u[k] = s[k]
    BY <1>2, <1>3
  <2>2. QED
    BY <2>1 DEF ToSet
<1>7. ToSet(t) \subseteq ToSet(u)
  <2>1. \A k \in DOMAIN t : k + Len(s) \in DOMAIN u /\ u[k + Len(s)] = t[k]
    BY <1>1, <1>2 DEF u
  <2>2. QED
    BY <2>1 DEF ToSet
<1>8. QED
  BY <1>1, <1>4, <1>5, <1>6, <1>7 DEF u

-----------------------------------------------------------------------------
(* The hash maps.                                                          *)

LEMMA MapIs ==
  ASSUME NEW map \in HashMaps
  PROVE  /\ map = [on |-> map.on, chain |-> map.chain] /\ map.on \in BOOLEAN
         /\ map.chain \in [Key -> Seq(Refers)]
  BY DEF HashMaps

LEMMA NewChain ==
  ASSUME NEW map \in HashMaps, NEW c
  PROVE  [map EXCEPT !.chain = c] = [on |-> map.on, chain |-> c]
<1>1. map = [on |-> map.on, chain |-> map.chain]
  BY MapIs
<1>2. ASSUME NEW a, NEW b
      PROVE  [[on |-> a, chain |-> b] EXCEPT !.chain = c] = [on |-> a, chain |-> c]
  BY ONLY TRUE
<1>3. QED
  BY ONLY <1>1, <1>2

LEMMA NoMapIs ==
  /\ NoMap \in HashMaps /\ ~NoMap.on
  /\ \A k \in Key : NoMap.chain[k] = <<>>
  BY DEF NoMap, HashMaps

\* An entry is found where there is one.
LEMMA FetchIs ==
  ASSUME NEW map \in HashMaps, NEW k \in Key
  PROVE  /\ Fetch(map, k) = Null <=> ~map.on \/ map.chain[k] = <<>>
         /\ \A r : map.on /\ map.chain[k] = <<r>> => Fetch(map, k) = r
<1>1. map.chain[k] \in Seq(Refers)
  BY MapIs
<1>2. Null \notin Refers
  BY KeysAssumption, CarrierAssumption DEF Refers, Null
<1>3. map.chain[k] # <<>> => Head(map.chain[k]) \in Refers
  BY <1>1
<1>4. \A r : Head(<<r>>) = r /\ <<r>> # <<>>
  OBVIOUS
<1>5. QED
  BY <1>2, <1>3, <1>4 DEF Fetch

LEMMA DeleteIs ==
  ASSUME NEW map \in HashMaps, NEW keys
  PROVE  /\ Delete(map, keys) \in HashMaps /\ Delete(map, keys).on = map.on
         /\ \A k \in Key : k \notin keys => Delete(map, keys).chain[k] = map.chain[k]
         /\ \A k \in Key : \A r : k \in keys /\ map.on /\ map.chain[k] = <<r>> => Delete(map, keys).chain[k] = <<>>
<1> DEFINE d == Delete(map, keys)
           c == [k \in Key |-> IF k \in keys /\ Fetch(map, k) # Null THEN Tail(map.chain[k]) ELSE map.chain[k]]
<1>1. d = [on |-> map.on, chain |-> c]
  BY NewChain DEF Delete
<1>2. c \in [Key -> Seq(Refers)]
  <2>1. \A k \in Key : map.chain[k] \in Seq(Refers)
    BY MapIs
  <2>2. \A k \in Key : Fetch(map, k) # Null => Tail(map.chain[k]) \in Seq(Refers)
    BY <2>1, FetchIs
  <2>3. QED
    BY <2>1, <2>2
<1>3. d \in HashMaps /\ d.on = map.on /\ d.chain = c
  BY <1>1, <1>2, MapIs DEF HashMaps
<1>4. ASSUME NEW k \in Key, NEW r, k \in keys, map.on, map.chain[k] = <<r>>
      PROVE  c[k] = <<>>
  <2>1. Tail(<<r>>) = <<>> /\ <<r>> # <<>>
    OBVIOUS
  <2>2. Fetch(map, k) # Null
    BY <1>4, <2>1, FetchIs
  <2>3. QED
    BY <1>4, <2>1, <2>2
<1>5. QED
  BY <1>3, <1>4

LEMMA InsertIs ==
  ASSUME NEW map \in HashMaps, NEW targetMap \in HashMaps, NEW new,
         \A k \in DOMAIN new : new[k] \in Refers
  PROVE  /\ Insert(map, targetMap, new) \in HashMaps /\ Insert(map, targetMap, new).on = map.on
         /\ ~map.on => Insert(map, targetMap, new) = map
         /\ \A k \in Key :
              k \notin DOMAIN new \/ Fetch(targetMap, k) # Null
                => Insert(map, targetMap, new).chain[k] = map.chain[k]
         /\ \A k \in Key :
              map.on /\ k \in DOMAIN new /\ Fetch(targetMap, k) = Null /\ map.chain[k] = <<>>
                => Insert(map, targetMap, new).chain[k] = <<new[k]>>
<1> DEFINE i == Insert(map, targetMap, new)
           c == [k \in Key |-> IF k \in DOMAIN new /\ Fetch(targetMap, k) = Null
                               THEN <<new[k]>> \o map.chain[k] ELSE map.chain[k]]
<1>1. CASE ~map.on
  BY <1>1 DEF Insert
<1>2. CASE map.on
  <2>1. i = [on |-> map.on, chain |-> c]
    BY <1>2, NewChain DEF Insert
  <2>2. c \in [Key -> Seq(Refers)]
    <3>1. \A k \in Key : map.chain[k] \in Seq(Refers)
      BY MapIs
    <3>2. \A k \in Key : k \in DOMAIN new => <<new[k]>> \o map.chain[k] \in Seq(Refers)
      BY <3>1
    <3>3. QED
      BY <3>1, <3>2
  <2>3. i \in HashMaps /\ i.on = map.on /\ i.chain = c
    BY <2>1, <2>2, MapIs DEF HashMaps
  <2>4. \A x : <<x>> \o <<>> = <<x>>
    OBVIOUS
  <2>5. QED
    BY <1>2, <2>3, <2>4
<1>3. QED
  BY <1>1, <1>2, MapIs

\* Of references with different descriptors each has its entry.
LEMMA ByFdIs ==
  ASSUME NEW fdOf, IsInjective(fdOf)
  PROVE  /\ DOMAIN ByFd(fdOf) = {FdKey(fdOf[r]) : r \in DOMAIN fdOf}
         /\ \A r \in DOMAIN fdOf : ByFd(fdOf)[FdKey(fdOf[r])] = r
         /\ \A k \in DOMAIN ByFd(fdOf) : ByFd(fdOf)[k] \in DOMAIN fdOf
<1> DEFINE b == ByFd(fdOf)
<1>1. DOMAIN b = {FdKey(fdOf[r]) : r \in DOMAIN fdOf}
  BY DEF ByFd
<1>2. ASSUME NEW r \in DOMAIN fdOf
      PROVE  b[FdKey(fdOf[r])] = r
  <2>1. b[FdKey(fdOf[r])] = CHOOSE q \in DOMAIN fdOf : FdKey(fdOf[q]) = FdKey(fdOf[r])
    BY <1>1 DEF ByFd
  <2>2. \A q \in DOMAIN fdOf : FdKey(fdOf[q]) = FdKey(fdOf[r]) <=> q = r
    BY KeysDiffer DEF IsInjective
  <2>3. QED
    BY <2>1, <2>2
<1>3. QED
  BY <1>1, <1>2

-----------------------------------------------------------------------------
(* What the operators write.                                               *)

\* x is a carrier_env_t with these fields.
Has(x, targets, sending, tmap, cmap, clients, items, open, listening) ==
  /\ x \in Env
  /\ x.targets = targets /\ x.sending = sending /\ x.tmap = tmap /\ x.cmap = cmap
  /\ x.clients = clients /\ x.items = items /\ x.open = open /\ x.listening = listening

LEMMA EnvIs ==
  ASSUME NEW e \in Env
  PROVE  /\ e = [targets |-> e.targets, sending |-> e.sending, tmap |-> e.tmap, cmap |-> e.cmap,
                 clients |-> e.clients, items |-> e.items, open |-> e.open, listening |-> e.listening]
         /\ e.targets = [id \in DOMAIN e.targets |-> e.targets[id]] /\ DOMAIN e.targets \subseteq Ids
         /\ \A id \in DOMAIN e.targets : e.targets[id] \in Target
         /\ e.clients = [c \in DOMAIN e.clients |-> e.clients[c]] /\ DOMAIN e.clients \subseteq Cids
         /\ \A c \in DOMAIN e.clients : e.clients[c] \in Client
         /\ e.items \in Partial(Ids, Addrs)
         /\ e.sending \in Seq(Ids) /\ e.tmap \in HashMaps /\ e.cmap \in HashMaps
         /\ e.open \subseteq Fds /\ e.listening \in BOOLEAN
<1>1. e.targets \in Partial(Ids, Target) /\ e.clients \in Partial(Cids, Client)
  BY DEF Env
<1>2. QED
  BY <1>1, PartialIs DEF Env

\* The fields of a target, and what the assignments to them leave.
LEMMA TargetIs ==
  ASSUME NEW t \in Target
  PROVE  /\ t.addr \in Addrs /\ t.conn \in {"none", "proc", "done"}
         /\ t.ver \in BOOLEAN /\ t.data \in BOOLEAN /\ t.listed \in BOOLEAN
         /\ t.fd \in Int /\ (t.fd = NoFd \/ t.fd \in Fds)
<1>1. t.fd \in Fds \cup {NoFd}
  BY DEF Target
<1>2. Fds \subseteq Int /\ NoFd \in Int
  BY KeysAssumption DEF NoFd
<1>3. QED
  BY <1>1, <1>2 DEF Target

LEMMA SocketOf ==
  ASSUME NEW e \in Env, NEW id \in DOMAIN e.targets, e.targets[id].fd > 0
  PROVE  e.targets[id].fd \in Fds \ {0}
<1> DEFINE fd == e.targets[id].fd
<1>1. (fd = NoFd \/ fd \in Fds) /\ fd > 0
  BY EnvIs, TargetIs
<1> HIDE DEF fd
<1>2. fd \in Fds \ {0}
  BY <1>1 DEF NoFd
<1>3. QED
  BY <1>2 DEF fd

LEMMA DisconnectedIs ==
  ASSUME NEW t \in Target
  PROVE  /\ Disconnected(t) \in Target
         /\ Disconnected(t).addr = t.addr /\ Disconnected(t).fd = NoFd /\ Disconnected(t).conn = "none"
         /\ ~Disconnected(t).ver /\ ~Disconnected(t).data /\ Disconnected(t).listed = t.listed
  BY DEF Target, Disconnected

LEMMA DataSet ==
  ASSUME NEW t \in Target, NEW d \in BOOLEAN
  PROVE  LET u == [t EXCEPT !.data = d]
         IN /\ u \in Target /\ u.addr = t.addr /\ u.fd = t.fd /\ u.conn = t.conn
            /\ u.ver = t.ver /\ u.data = d /\ u.listed = t.listed
  BY DEF Target

LEMMA ListedSet ==
  ASSUME NEW t \in Target, NEW d \in BOOLEAN
  PROVE  LET u == [t EXCEPT !.listed = d]
         IN /\ u \in Target /\ u.addr = t.addr /\ u.fd = t.fd /\ u.conn = t.conn
            /\ u.ver = t.ver /\ u.data = t.data /\ u.listed = d
  BY DEF Target

\* Some of the targets are written.
LEMMA Written ==
  ASSUME NEW e \in Env, NEW new, NEW ids, \A id \in ids \cap DOMAIN e.targets : new[id] \in Target
  PROVE  [id \in DOMAIN e.targets |-> IF id \in ids THEN new[id] ELSE e.targets[id]] \in Partial(Ids, Target)
<1> DEFINE t == [id \in DOMAIN e.targets |-> IF id \in ids THEN new[id] ELSE e.targets[id]]
<1>1. t \in [DOMAIN e.targets -> Target]
  BY EnvIs
<1> HIDE DEF t
<1>2. t \in Partial(Ids, Target)
  BY <1>1, EnvIs, InPartial
<1>3. QED
  BY <1>2 DEF t

\* close_target_fd.
LEMMA CloseTargetFdIs ==
  ASSUME NEW e \in Env, NEW ids \in SUBSET DOMAIN e.targets
  PROVE  LET x == CloseTargetFd(e, ids)
         IN /\ Has(x, x.targets, e.sending, Delete(e.tmap, {FdKey(fd) : fd \in FdsOf(e, ids)}),
                   e.cmap, e.clients, e.items,
                   e.open \ FdsOf(e, ids), e.listening /\ Listener \notin FdsOf(e, ids))
            /\ DOMAIN x.targets = DOMAIN e.targets
            /\ \A id \in ids : x.targets[id] = Disconnected(e.targets[id])
            /\ \A id \in DOMAIN e.targets \ ids : x.targets[id] = e.targets[id]
<1> DEFINE m == Delete(e.tmap, {FdKey(fd) : fd \in FdsOf(e, ids)})
           t == [id \in DOMAIN e.targets |-> IF id \in ids THEN Disconnected(e.targets[id]) ELSE e.targets[id]]
           d == Disconnect(e, ids)
           o == e.open \ FdsOf(e, ids)
           l == e.listening /\ Listener \notin FdsOf(e, ids)
<1>1. m \in HashMaps
  BY EnvIs, DeleteIs
<1>2. t \in Partial(Ids, Target)
  <2>1. \A id \in DOMAIN e.targets : Disconnected(e.targets[id]) \in Target /\ e.targets[id] \in Target
    BY EnvIs, DisconnectedIs
  <2>2. t \in [DOMAIN e.targets -> Target]
    BY <2>1
  <2> HIDE DEF t
  <2>3. QED
    BY <2>2, EnvIs, InPartial
<1>3. d = [e EXCEPT !.tmap = m, !.targets = t]
  BY DEF Disconnect
<1>4. o \in SUBSET Fds /\ l \in BOOLEAN
  BY EnvIs
<1> HIDE DEF m, t, o, l
<1>5. Has(d, t, e.sending, m, e.cmap, e.clients, e.items, e.open, e.listening)
  BY <1>1, <1>2, <1>3 DEF Has, Env
<1>6. CloseTargetFd(e, ids) = [d EXCEPT !.open = o, !.listening = l]
  BY <1>5 DEF CloseTargetFd, CloseFds, Has, o, l
<1> HIDE DEF d
<1>7. Has(CloseTargetFd(e, ids), t, e.sending, m, e.cmap, e.clients, e.items, o, l)
  BY <1>4, <1>5, <1>6 DEF Has, Env
<1>8. QED
  BY <1>7 DEF Has, t, m, o, l

LEMMA SetDataIs ==
  ASSUME NEW e \in Env, NEW ids, NEW data \in BOOLEAN
  PROVE  LET x == SetData(e, ids, data)
         IN /\ Has(x, x.targets, e.sending, e.tmap, e.cmap, e.clients, e.items, e.open, e.listening)
            /\ DOMAIN x.targets = DOMAIN e.targets
            /\ \A id \in DOMAIN e.targets :
                 LET t == e.targets[id]  u == x.targets[id]
                 IN /\ u.addr = t.addr /\ u.fd = t.fd /\ u.conn = t.conn /\ u.ver = t.ver
                    /\ u.data = (IF id \in ids THEN data ELSE t.data) /\ u.listed = t.listed
<1> DEFINE new == [id \in DOMAIN e.targets |-> [e.targets[id] EXCEPT !.data = data]]
           t == [id \in DOMAIN e.targets |-> IF id \in ids THEN new[id] ELSE e.targets[id]]
           x == SetData(e, ids, data)
<1>1. \A id \in DOMAIN e.targets :
        /\ new[id] \in Target /\ new[id].addr = e.targets[id].addr /\ new[id].fd = e.targets[id].fd
        /\ new[id].conn = e.targets[id].conn /\ new[id].ver = e.targets[id].ver
        /\ new[id].data = data /\ new[id].listed = e.targets[id].listed
  <2> SUFFICES ASSUME NEW id \in DOMAIN e.targets
               PROVE  /\ new[id] \in Target /\ new[id].addr = e.targets[id].addr /\ new[id].fd = e.targets[id].fd
                      /\ new[id].conn = e.targets[id].conn /\ new[id].ver = e.targets[id].ver
                      /\ new[id].data = data /\ new[id].listed = e.targets[id].listed
    OBVIOUS
  <2>1. new[id] = [e.targets[id] EXCEPT !.data = data] /\ e.targets[id] \in Target
    BY EnvIs
  <2> HIDE DEF new
  <2>2. QED
    BY <2>1, DataSet
<1>2. x = [e EXCEPT !.targets = t]
  BY DEF SetData
<1> HIDE DEF new
<1>3. t \in Partial(Ids, Target)
  BY <1>1, Written
<1> HIDE DEF t, x
<1>4. Has(x, t, e.sending, e.tmap, e.cmap, e.clients, e.items, e.open, e.listening)
  BY <1>2, <1>3 DEF Has, Env
<1>5. DOMAIN t = DOMAIN e.targets /\ \A id \in DOMAIN t : t[id] = IF id \in ids THEN new[id] ELSE e.targets[id]
  BY DEF t
<1>6. QED
  BY <1>1, <1>4, <1>5 DEF Has, x

\* append_sending_node.
LEMMA AppendSendingNodeIs ==
  ASSUME NEW e \in Env, NEW ids \in SUBSET DOMAIN e.targets
  PROVE  LET x == AppendSendingNode(e, ids)
             s == SetToSeq({id \in ids : ~e.targets[id].listed}) \o e.sending
         IN /\ Has(x, x.targets, s, e.tmap, e.cmap, e.clients, e.items, e.open, e.listening)
            /\ DOMAIN x.targets = DOMAIN e.targets
            /\ \A id \in DOMAIN e.targets :
                 LET t == e.targets[id]  u == x.targets[id]
                 IN /\ u.addr = t.addr /\ u.fd = t.fd /\ u.conn = t.conn /\ u.ver = t.ver
                    /\ u.data = t.data /\ u.listed = IF id \in ids THEN TRUE ELSE t.listed
<1> DEFINE new == [id \in DOMAIN e.targets |-> [e.targets[id] EXCEPT !.listed = TRUE]]
           t == [id \in DOMAIN e.targets |-> IF id \in ids THEN new[id] ELSE e.targets[id]]
           s == SetToSeq({id \in ids : ~e.targets[id].listed}) \o e.sending
           x == AppendSendingNode(e, ids)
<1>1. \A id \in DOMAIN e.targets :
        /\ new[id] \in Target /\ new[id].addr = e.targets[id].addr /\ new[id].fd = e.targets[id].fd
        /\ new[id].conn = e.targets[id].conn /\ new[id].ver = e.targets[id].ver
        /\ new[id].data = e.targets[id].data /\ new[id].listed = TRUE
  BY EnvIs, ListedSet
<1>2. x = [e EXCEPT !.sending = s, !.targets = t]
  BY DEF AppendSendingNode
<1>3. s \in Seq(Ids)
  <2> DEFINE S == {id \in ids : ~e.targets[id].listed}
  <2>1. S \subseteq Ids /\ IsFiniteSet(S)
    BY EnvIs, KeysAssumption, FS_Subset
  <2>2. SetToSeq(S) \in Seq(Ids)
    <3> HIDE DEF S
    <3>1. SetToSeq(S) \in Seq(S)
      BY <2>1, ToSeqIs
    <3>2. QED
      BY <2>1, <3>1
  <2>3. e.sending \in Seq(Ids)
    BY EnvIs
  <2> HIDE DEF S
  <2>4. SetToSeq(S) \o e.sending \in Seq(Ids)
    BY <2>2, <2>3
  <2>5. QED
    BY <2>4 DEF S
<1> HIDE DEF new
<1>4. t \in Partial(Ids, Target)
  BY <1>1, Written
<1> HIDE DEF t, s, x
<1>5. Has(x, t, s, e.tmap, e.cmap, e.clients, e.items, e.open, e.listening)
  BY <1>2, <1>3, <1>4 DEF Has, Env
<1>6. /\ DOMAIN t = DOMAIN e.targets
      /\ \A id \in DOMAIN t : t[id] = IF id \in ids THEN new[id] ELSE e.targets[id]
  BY DEF t
<1>7. QED
  BY <1>1, <1>5, <1>6 DEF Has, x, s

-----------------------------------------------------------------------------
(* What a handler may leave of the connections it was given.               *)

\* x is e after the sockets of failed were closed and, maybe, the states,
\* the data and the marks of targets were changed.
Touches(e, x, failed) ==
  /\ e \in Env /\ x \in Env
  /\ failed \subseteq DOMAIN e.targets /\ DOMAIN x.targets = DOMAIN e.targets
  /\ \A id \in DOMAIN e.targets :
       /\ x.targets[id].addr = e.targets[id].addr
       /\ x.targets[id].fd = IF id \in failed THEN NoFd ELSE e.targets[id].fd
  /\ x.tmap.on = e.tmap.on
  /\ \A k \in Key :
       IF k \in {FdKey(fd) : fd \in FdsOf(e, failed)}
       THEN \A r : e.tmap.on /\ e.tmap.chain[k] = <<r>> => x.tmap.chain[k] = <<>>
       ELSE x.tmap.chain[k] = e.tmap.chain[k]
  /\ x.cmap = e.cmap /\ x.clients = e.clients /\ x.items = e.items
  /\ x.open = e.open \ FdsOf(e, failed)
  /\ x.listening = (e.listening /\ Listener \notin FdsOf(e, failed))

\* A socket has one owner, and so is closed for that owner only.
LEMMA OneTarget ==
  ASSUME NEW e \in Env, Owned(e), NEW fd \in Fds \ {0}
  PROVE  /\ \A i, j \in DOMAIN e.targets : e.targets[i].fd = fd /\ e.targets[j].fd = fd => i = j
         /\ \A c, d \in DOMAIN e.clients : e.clients[c].fd = fd /\ e.clients[d].fd = fd => c = d
         /\ \A i \in DOMAIN e.targets : e.targets[i].fd = fd =>
              fd \in e.open /\ \A c \in DOMAIN e.clients : e.clients[c].fd # fd
         /\ \A c \in DOMAIN e.clients : e.clients[c].fd = fd => fd \in e.open
<1>1. \A x, y \in Owners(e, fd) : x = y
  BY DEF Owned
<1>2. Owners(e, fd) # {} => fd \in e.open
  BY DEF Owned
<1>3. \A i \in DOMAIN e.targets : e.targets[i].fd = fd => i \in Owners(e, fd) /\ i \in Ids
  BY EnvIs DEF Owners
<1>4. \A c \in DOMAIN e.clients : e.clients[c].fd = fd => c \in Owners(e, fd) /\ c \in Cids
  BY EnvIs DEF Owners
<1>5. \A i \in Ids, c \in Cids : i # c
  BY CarrierAssumption
<1>6. QED
  BY <1>1, <1>2, <1>3, <1>4, <1>5

LEMMA TouchedOwned ==
  ASSUME NEW e, NEW x, NEW failed, Touches(e, x, failed), Owned(e)
  PROVE  Owned(x)
<1>1. x.listening => Listener \in x.open
  BY DEF Touches, Owned
<1>2. ASSUME NEW fd \in Fds \ {0}
      PROVE  IF fd \in x.open THEN \E owner \in Owners(x, fd) : Owners(x, fd) = {owner}
             ELSE Owners(x, fd) = {}
  <2>1. fd # NoFd
    BY KeysAssumption DEF NoFd
  <2>2. CASE fd \in FdsOf(e, failed)
    <3>1. PICK id \in failed : e.targets[id].fd = fd
      BY <2>2 DEF FdsOf
    <3>2. id \in DOMAIN e.targets /\ e \in Env
      BY DEF Touches
    <3>3. \A i \in DOMAIN x.targets : x.targets[i].fd # fd
      BY <2>1, <3>1, <3>2, OneTarget DEF Touches
    <3>4. \A c \in DOMAIN x.clients : x.clients[c].fd # fd
      BY <3>1, <3>2, OneTarget DEF Touches
    <3>5. fd \notin x.open
      BY <2>2 DEF Touches
    <3>6. QED
      BY <3>3, <3>4, <3>5 DEF Owners
  <2>3. CASE fd \notin FdsOf(e, failed)
    <3>1. \A i \in DOMAIN x.targets : x.targets[i].fd = fd <=> e.targets[i].fd = fd
      BY <2>1, <2>3 DEF Touches, FdsOf
    <3>2. Owners(x, fd) = Owners(e, fd)
      BY <3>1 DEF Owners, Touches
    <3>3. fd \in x.open <=> fd \in e.open
      BY <2>3 DEF Touches
    <3>4. QED
      BY <3>2, <3>3 DEF Owned
  <2>4. QED
    BY <2>2, <2>3
<1>3. QED
  BY <1>1, <1>2 DEF Owned

LEMMA TouchedMaps ==
  ASSUME NEW e, NEW x, NEW failed, Touches(e, x, failed), Owned(e)
  PROVE  /\ TargetMapExact(e) => TargetMapExact(x)
         /\ ClientMapSound(e) => ClientMapSound(x)
         /\ Itemized(e) => Itemized(x)
<1>1. ASSUME TargetMapExact(e)
      PROVE  TargetMapExact(x)
  <2>0. e \in Env /\ DOMAIN x.targets = DOMAIN e.targets /\ DOMAIN e.targets \subseteq Ids
    BY EnvIs DEF Touches
  <2>1. x.tmap.on <=> DOMAIN x.targets # {}
    BY <1>1 DEF TargetMapExact, Touches
  <2>2. \A id \in Ids : x.tmap.chain[ProcKey(id)] = e.tmap.chain[ProcKey(id)]
    BY KeyIs, KeysDiffer DEF Touches
  <2>3. ASSUME NEW id \in DOMAIN x.targets, x.targets[id].fd > 0
        PROVE  x.tmap.chain[FdKey(x.targets[id].fd)] = <<id>>
    <3> DEFINE fd == e.targets[id].fd
    <3>1. id \notin failed /\ x.targets[id].fd = fd
      BY <2>3 DEF Touches, NoFd
    <3>2. fd \in Fds \ {0}
      <4>1. fd = NoFd \/ fd \in Fds
        BY <2>0, EnvIs, TargetIs
      <4>2. fd > 0
        BY <2>3, <3>1
      <4> HIDE DEF fd
      <4>3. QED
        BY <4>1, <4>2 DEF NoFd
    <3>3. \A i \in failed : e.targets[i].fd # fd
      BY <2>0, <3>1, <3>2, OneTarget DEF Touches
    <3>4. x.tmap.chain[FdKey(fd)] = e.tmap.chain[FdKey(fd)]
      <4>1. FdKey(fd) \notin {FdKey(f) : f \in FdsOf(e, failed)}
        BY <3>3, KeysDiffer DEF FdsOf
      <4>2. FdKey(fd) \in Key
        BY <3>2, KeyIs
      <4>3. QED
        BY <4>1, <4>2 DEF Touches
    <3>5. e.tmap.chain[FdKey(fd)] = <<id>>
      BY <1>1, <2>0, <2>3, <3>1 DEF TargetMapExact
    <3>6. QED
      BY <3>1, <3>4, <3>5
  <2>4. ASSUME NEW fd \in Fds \ {0}, \A id \in DOMAIN x.targets : x.targets[id].fd # fd
        PROVE  x.tmap.chain[FdKey(fd)] = <<>>
    <3>0. FdKey(fd) \in Key
      BY KeyIs
    <3>1. CASE fd \in FdsOf(e, failed)
      <4>1. PICK id \in failed : e.targets[id].fd = fd
        BY <3>1 DEF FdsOf
      <4>2. id \in DOMAIN e.targets /\ fd > 0
        BY KeysAssumption DEF Touches
      <4>3. e.tmap.on /\ e.tmap.chain[FdKey(fd)] = <<id>>
        BY <1>1, <4>1, <4>2 DEF TargetMapExact
      <4>4. QED
        BY <3>0, <3>1, <4>3 DEF Touches
    <3>2. CASE fd \notin FdsOf(e, failed)
      <4>1. \A id \in DOMAIN e.targets : e.targets[id].fd # fd
        BY <2>4, <3>2 DEF Touches, FdsOf
      <4>2. FdKey(fd) \notin {FdKey(f) : f \in FdsOf(e, failed)}
        BY <3>2, KeysDiffer
      <4>3. e.tmap.chain[FdKey(fd)] = <<>>
        BY <1>1, <4>1 DEF TargetMapExact
      <4>4. QED
        BY <3>0, <4>2, <4>3 DEF Touches
    <3>3. QED
      BY <3>1, <3>2
  <2>5. QED
    BY <1>1, <2>0, <2>1, <2>2, <2>3, <2>4 DEF TargetMapExact
<1>2. ClientMapSound(e) => ClientMapSound(x)
  BY DEF ClientMapSound, Touches
<1>3. Itemized(e) => Itemized(x)
  BY DEF Itemized, Touches
<1>4. QED
  BY <1>1, <1>2, <1>3

(***************************************************************************)
(* How x, left by an operator, follows from e: the tables still agree, and *)
(* a connection that has not failed is as it was.                          *)
(***************************************************************************)
Follows(e, x, failed) ==
  /\ Sound(x) /\ DOMAIN x.targets = DOMAIN e.targets
  /\ x.items = e.items /\ x.clients = e.clients
  /\ \A id \in DOMAIN e.targets : x.targets[id].addr = e.targets[id].addr
  /\ \A id \in DOMAIN e.targets \ failed :
       x.targets[id].fd = e.targets[id].fd /\ x.targets[id].conn = e.targets[id].conn

LEMMA FollowsSelf ==
  ASSUME NEW e, Sound(e), NEW failed
  PROVE  Follows(e, e, failed)
  BY DEF Follows

LEMMA FollowsOn ==
  ASSUME NEW e, NEW x, NEW y, NEW f, NEW g, Follows(e, x, f), Follows(x, y, g)
  PROVE  Follows(e, y, f \cup g)
  BY DEF Follows

LEMMA FollowsItemized ==
  ASSUME NEW e, NEW x, NEW failed, Follows(e, x, failed), Itemized(e)
  PROVE  Itemized(x)
  BY DEF Follows, Itemized

LEMMA TouchedFollows ==
  ASSUME NEW e, NEW x, NEW failed, Touches(e, x, failed), Sound(e), Settled(x), Marked(x),
         \A id \in DOMAIN e.targets \ failed : x.targets[id].conn = e.targets[id].conn
  PROVE  Follows(e, x, failed)
<1>1. Owned(x) /\ TargetMapExact(x) /\ ClientMapSound(x)
  BY TouchedOwned, TouchedMaps DEF Sound
<1>2. Sound(x)
  BY <1>1 DEF Sound, Touches
<1>3. QED
  BY <1>2 DEF Follows, Touches

LEMMA CloseTouches ==
  ASSUME NEW e \in Env, NEW ids \in SUBSET DOMAIN e.targets
  PROVE  Touches(e, CloseTargetFd(e, ids), ids)
<1> DEFINE x == CloseTargetFd(e, ids)
           keys == {FdKey(fd) : fd \in FdsOf(e, ids)}
           m == Delete(e.tmap, keys)
<1>1. /\ Has(x, x.targets, e.sending, m, e.cmap, e.clients, e.items,
             e.open \ FdsOf(e, ids), e.listening /\ Listener \notin FdsOf(e, ids))
      /\ DOMAIN x.targets = DOMAIN e.targets
      /\ \A id \in ids : x.targets[id] = Disconnected(e.targets[id])
      /\ \A id \in DOMAIN e.targets \ ids : x.targets[id] = e.targets[id]
  BY CloseTargetFdIs
<1> HIDE DEF keys, x
<1>2. \A id \in DOMAIN e.targets :
        /\ x.targets[id].addr = e.targets[id].addr
        /\ x.targets[id].fd = IF id \in ids THEN NoFd ELSE e.targets[id].fd
  <2>1. \A id \in DOMAIN e.targets : e.targets[id] \in Target
    BY EnvIs
  <2>2. \A id \in ids : x.targets[id].addr = e.targets[id].addr /\ x.targets[id].fd = NoFd
    BY <1>1, <2>1, DisconnectedIs
  <2>3. QED
    BY <1>1, <2>2
<1>3. e.tmap \in HashMaps
  BY EnvIs
<1>4. /\ m.on = e.tmap.on
      /\ \A k \in Key : k \notin keys => m.chain[k] = e.tmap.chain[k]
      /\ \A k \in Key : \A r : k \in keys /\ e.tmap.on /\ e.tmap.chain[k] = <<r>> => m.chain[k] = <<>>
  BY <1>3, DeleteIs
<1> HIDE DEF m
<1>5. Touches(e, x, ids)
  BY <1>1, <1>2, <1>4 DEF Touches, Has, keys
<1>6. QED
  BY <1>5 DEF x

LEMMA CloseSettled ==
  ASSUME NEW e \in Env, NEW ids \in SUBSET DOMAIN e.targets, Settled(e)
  PROVE  LET x == CloseTargetFd(e, ids)
         IN Settled(x) /\ \A id \in ids : x.targets[id].conn = "none"
<1> DEFINE x == CloseTargetFd(e, ids)
<1>1. /\ DOMAIN x.targets = DOMAIN e.targets
      /\ \A id \in ids : x.targets[id] = Disconnected(e.targets[id])
      /\ \A id \in DOMAIN e.targets \ ids : x.targets[id] = e.targets[id]
  BY CloseTargetFdIs
<1>2. \A id \in DOMAIN e.targets : e.targets[id] \in Target
  BY EnvIs
<1> HIDE DEF x
<1>3. \A id \in ids : /\ x.targets[id].fd = NoFd /\ x.targets[id].conn = "none"
                      /\ ~x.targets[id].ver /\ ~x.targets[id].data
  BY <1>1, <1>2, DisconnectedIs
<1>4. Settled(x)
  BY <1>1, <1>3 DEF Settled, NoFd
<1>5. QED
  BY <1>3, <1>4 DEF x

LEMMA CloseFollows ==
  ASSUME NEW e, NEW ids \in SUBSET DOMAIN e.targets, Sound(e)
  PROVE  LET x == CloseTargetFd(e, ids)
         IN /\ Follows(e, x, ids)
            /\ \A id \in ids : x.targets[id].conn = "none"
            /\ \A id \in DOMAIN e.targets \ ids : x.targets[id] = e.targets[id]
<1> DEFINE x == CloseTargetFd(e, ids)
<1>0. e \in Env /\ Settled(e) /\ Marked(e)
  BY DEF Sound
<1>1. /\ x.sending = e.sending
      /\ DOMAIN x.targets = DOMAIN e.targets
      /\ \A id \in ids : x.targets[id] = Disconnected(e.targets[id])
      /\ \A id \in DOMAIN e.targets \ ids : x.targets[id] = e.targets[id]
  BY <1>0, CloseTargetFdIs DEF Has
<1>2. Touches(e, x, ids) /\ Settled(x) /\ \A id \in ids : x.targets[id].conn = "none"
  BY <1>0, CloseTouches, CloseSettled
<1> HIDE DEF x
<1>3. \A id \in DOMAIN e.targets : x.targets[id].listed = e.targets[id].listed
  BY <1>0, <1>1, EnvIs, DisconnectedIs
<1>4. Marked(x)
  BY <1>0, <1>1, <1>3 DEF Marked
<1>5. Follows(e, x, ids)
  BY <1>1, <1>2, <1>4, TouchedFollows
<1>6. QED
  BY <1>1, <1>2, <1>5 DEF x

\* What closes nothing.
LEMMA Untouched ==
  ASSUME NEW e \in Env, NEW x,
         Has(x, x.targets, x.sending, e.tmap, e.cmap, e.clients, e.items, e.open, e.listening),
         DOMAIN x.targets = DOMAIN e.targets,
         \A id \in DOMAIN e.targets :
           x.targets[id].addr = e.targets[id].addr /\ x.targets[id].fd = e.targets[id].fd
  PROVE  Touches(e, x, {})
<1>1. FdsOf(e, {}) = {} /\ {FdKey(fd) : fd \in FdsOf(e, {})} = {}
  BY DEF FdsOf
<1>2. e.listening \in BOOLEAN /\ e.open = e.open \ {}
  BY EnvIs
<1>3. QED
  BY <1>1, <1>2 DEF Touches, Has

LEMMA DataFollows ==
  ASSUME NEW e, NEW ids, NEW data \in BOOLEAN, Sound(e),
         data => \A id \in ids : id \in DOMAIN e.targets => e.targets[id].conn # "none"
  PROVE  /\ Follows(e, SetData(e, ids, data), {})
         /\ \A id \in ids : id \in DOMAIN e.targets => SetData(e, ids, data).targets[id].data = data
<1> DEFINE x == SetData(e, ids, data)
<1>0. e \in Env /\ Settled(e) /\ Marked(e)
  BY DEF Sound
<1>1. /\ Has(x, x.targets, e.sending, e.tmap, e.cmap, e.clients, e.items, e.open, e.listening)
      /\ DOMAIN x.targets = DOMAIN e.targets
      /\ \A id \in DOMAIN e.targets :
           LET t == e.targets[id]  u == x.targets[id]
           IN /\ u.addr = t.addr /\ u.fd = t.fd /\ u.conn = t.conn /\ u.ver = t.ver
              /\ u.data = (IF id \in ids THEN data ELSE t.data) /\ u.listed = t.listed
  BY <1>0, SetDataIs
<1> HIDE DEF x
<1>2. Touches(e, x, {})
  BY <1>0, <1>1, Untouched DEF Has
<1>3. Settled(x)
  BY <1>0, <1>1 DEF Settled
<1>4. Marked(x)
  BY <1>0, <1>1 DEF Marked, Has
<1>5. Follows(e, x, {})
  BY <1>1, <1>2, <1>3, <1>4, TouchedFollows
<1>6. QED
  BY <1>1, <1>5 DEF x

LEMMA AppendFollows ==
  ASSUME NEW e, NEW ids \in SUBSET DOMAIN e.targets, Sound(e)
  PROVE  Follows(e, AppendSendingNode(e, ids), {})
<1> DEFINE x == AppendSendingNode(e, ids)
           S == {id \in ids : ~e.targets[id].listed}
           s == SetToSeq(S)
<1>0. e \in Env /\ Settled(e) /\ Marked(e) /\ DOMAIN e.targets \subseteq Ids
  BY EnvIs DEF Sound
<1>1. /\ Has(x, x.targets, s \o e.sending, e.tmap, e.cmap, e.clients, e.items, e.open, e.listening)
      /\ DOMAIN x.targets = DOMAIN e.targets
      /\ \A id \in DOMAIN e.targets :
           LET t == e.targets[id]  u == x.targets[id]
           IN /\ u.addr = t.addr /\ u.fd = t.fd /\ u.conn = t.conn /\ u.ver = t.ver
              /\ u.data = t.data /\ u.listed = IF id \in ids THEN TRUE ELSE t.listed
  <2>1. e \in Env /\ ids \in SUBSET DOMAIN e.targets
    BY <1>0
  <2>2. QED
    BY ONLY <2>1, AppendSendingNodeIs, ZenonT(60)
<1>2. s \in Seq(Ids) /\ IsInjective(s) /\ ToSet(s) = S
  <2>1. S \subseteq Ids /\ IsFiniteSet(S)
    BY <1>0, KeysAssumption, FS_Subset
  <2> HIDE DEF S
  <2>2. s \in Seq(S) /\ IsInjective(s) /\ ToSet(s) = S
    BY <2>1, ToSeqIs
  <2>3. QED
    BY <2>1, <2>2
<1>3. e.sending \in Seq(Ids) /\ IsInjective(e.sending)
      /\ ToSet(e.sending) = {id \in DOMAIN e.targets : e.targets[id].listed}
  BY <1>0, EnvIs DEF Marked
<1>4. ToSet(s) \cap ToSet(e.sending) = {}
  BY <1>2, <1>3
<1> HIDE DEF x, s
<1>5. IsInjective(s \o e.sending) /\ ToSet(s \o e.sending) = S \cup ToSet(e.sending)
  BY <1>2, <1>3, <1>4, ListsJoin
<1>6. Marked(x)
  <2>1. {id \in DOMAIN x.targets : x.targets[id].listed} = S \cup ToSet(e.sending)
    BY <1>1, <1>3
  <2>2. QED
    BY <1>1, <1>5, <2>1 DEF Marked, Has
<1>7. Touches(e, x, {})
  BY <1>0, <1>1, Untouched DEF Has
<1>8. Settled(x)
  BY <1>0, <1>1 DEF Settled
<1>9. Follows(e, x, {})
  BY <1>1, <1>6, <1>7, <1>8, TouchedFollows
<1>10. QED
  BY <1>9 DEF x

LEMMA KeepFollows ==
  ASSUME NEW e, NEW ids \in SUBSET DOMAIN e.targets, Sound(e),
         \A id \in ids : e.targets[id].conn # "none"
  PROVE  Follows(e, Keep(e, ids), {})
<1> DEFINE x == SetData(e, ids, TRUE)
<1>1. Follows(e, x, {})
  BY DataFollows
<1> HIDE DEF x
<1>2. Follows(x, AppendSendingNode(x, ids), {})
  BY <1>1, AppendFollows DEF Follows
<1>3. Follows(e, AppendSendingNode(x, ids), {} \cup {})
  BY <1>1, <1>2, FollowsOn
<1>4. QED
  BY <1>3 DEF Keep, x

\* inner_send_pkg.
LEMMA InnerSendFollows ==
  ASSUME NEW e, NEW ids \in SUBSET DOMAIN e.targets, Sound(e),
         \A id \in ids : e.targets[id].conn # "none",
         NEW y \in InnerSend(e, ids)
  PROVE  Follows(e, y, ids)
<1>0. PICK failed \in SUBSET ids :
        y \in {Keep(CloseTargetFd(SetData(e, ids, FALSE), failed), kept) : kept \in SUBSET (ids \ failed)}
  BY DEF InnerSend
<1>1. PICK kept \in SUBSET (ids \ failed) :
        y = Keep(CloseTargetFd(SetData(e, ids, FALSE), failed), kept)
  BY <1>0
<1> DEFINE d == SetData(e, ids, FALSE)
           x == CloseTargetFd(d, failed)
<1>2. Follows(e, d, {})
  BY DataFollows
<1> HIDE DEF d
<1>3. failed \in SUBSET DOMAIN d.targets /\ Sound(d)
  BY <1>2 DEF Follows
<1>4. Follows(d, x, failed)
  BY <1>3, CloseFollows
<1> HIDE DEF x
<1>5. /\ kept \in SUBSET DOMAIN x.targets /\ Sound(x)
      /\ \A id \in kept : x.targets[id].conn # "none"
  BY <1>2, <1>4 DEF Follows
<1>6. Follows(x, y, {})
  BY <1>1, <1>5, KeepFollows DEF x, d
<1>7. Follows(e, x, {} \cup failed)
  BY <1>2, <1>4, FollowsOn
<1>8. Follows(e, y, ({} \cup failed) \cup {})
  BY <1>6, <1>7, FollowsOn
<1>9. QED
  BY <1>8 DEF Follows

\* send_carrier_msg.
LEMMA SendCarrierMsgFollows ==
  ASSUME NEW e, Sound(e), NEW y \in SendCarrierMsg(e)
  PROVE  Follows(e, y, Managers \cap DOMAIN e.targets)
<1> DEFINE ids == {id \in Managers \cap DOMAIN e.targets : e.targets[id].conn = "done"}
<1>1. /\ ids \in SUBSET DOMAIN e.targets /\ y \in InnerSend(e, ids)
      /\ \A id \in ids : e.targets[id].conn # "none" /\ id \in Managers
  BY DEF SendCarrierMsg
<1> HIDE DEF ids
<1>2. Follows(e, y, ids)
  BY <1>1, InnerSendFollows
<1>3. QED
  BY <1>1, <1>2 DEF Follows

LEMMA MayReportFollows ==
  ASSUME NEW e, Sound(e), NEW y \in MayReport(e)
  PROVE  Follows(e, y, Managers \cap DOMAIN e.targets)
  BY SendCarrierMsgFollows, FollowsSelf DEF MayReport

-----------------------------------------------------------------------------
(* Connecting.                                                             *)

\* One target gets another state.
LEMMA StateFollows ==
  ASSUME NEW e, Sound(e), NEW id \in DOMAIN e.targets, NEW u \in Target,
         u.addr = e.targets[id].addr, u.fd = e.targets[id].fd, u.listed = e.targets[id].listed,
         u.conn # "none", e.targets[id].conn # "none"
  PROVE  LET x == [e EXCEPT !.targets[id] = u]
         IN Follows(e, x, {id}) /\ x.targets[id] = u
<1> DEFINE x == [e EXCEPT !.targets[id] = u]
           new == [i \in {id} |-> u]
           t == [i \in DOMAIN e.targets |-> IF i \in {id} THEN new[i] ELSE e.targets[i]]
<1>0. e \in Env /\ Settled(e) /\ Marked(e)
  BY DEF Sound
<1>1. [e.targets EXCEPT ![id] = u] = t
  BY <1>0, EnvIs
<1>2. x = [e EXCEPT !.targets = t]
  BY <1>1
<1>3. t \in Partial(Ids, Target)
  BY <1>0, Written
<1>4. /\ DOMAIN t = DOMAIN e.targets /\ t[id] = u
      /\ \A i \in DOMAIN t : i # id => t[i] = e.targets[i]
  OBVIOUS
<1> HIDE DEF x, t
<1>5. Has(x, t, e.sending, e.tmap, e.cmap, e.clients, e.items, e.open, e.listening)
  BY <1>0, <1>2, <1>3 DEF Has, Env
<1>6. Touches(e, x, {})
  BY <1>0, <1>4, <1>5, Untouched DEF Has
<1>7. Settled(x)
  BY <1>0, <1>4, <1>5 DEF Settled, Has
<1>8. Marked(x)
  BY <1>0, <1>4, <1>5 DEF Marked, Has
<1>9. Sound(x)
  BY <1>6, <1>7, <1>8, TouchedOwned, TouchedMaps DEF Sound, Touches
<1>10. Follows(e, x, {id})
  BY <1>4, <1>5, <1>9 DEF Follows, Has
<1>11. QED
  BY <1>4, <1>5, <1>10 DEF Has, x

\* handle_connecting_fd.
LEMMA HandleConnectingFdFollows ==
  ASSUME NEW e, Sound(e), NEW id \in DOMAIN e.targets, e.targets[id].conn = "proc",
         NEW y \in HandleConnectingFd(e, id)
  PROVE  Follows(e, y, {id})
<1> DEFINE t == e.targets[id]
           u == [t EXCEPT !.conn = "done", !.data = FALSE]
           v == [u EXCEPT !.ver = TRUE]
           up == [e EXCEPT !.targets[id] = u]
           ver == [up EXCEPT !.targets[id] = v]
<1>0. t \in Target
  BY EnvIs DEF Sound
<1>1. u \in Target /\ u.addr = t.addr /\ u.fd = t.fd /\ u.listed = t.listed /\ u.conn = "done"
  BY <1>0 DEF Target
<1>2. v \in Target /\ v.addr = u.addr /\ v.fd = u.fd /\ v.listed = u.listed /\ v.conn = "done"
  BY <1>1 DEF Target
<1>3. Follows(e, up, {id}) /\ up.targets[id] = u
  <2>1. u.conn # "none" /\ t.conn # "none"
    BY <1>1
  <2> HIDE DEF u
  <2>2. QED
    BY <1>1, <2>1, StateFollows
<1>4. id \in DOMAIN up.targets /\ Sound(up)
  BY <1>3 DEF Follows
<1>5. y = CloseTargetFd(e, {id}) \/ y = up \/ y \in InnerSend(ver, {id})
  <2>1. up = [e EXCEPT !.targets[id] = [@ EXCEPT !.conn = "done", !.data = FALSE]]
    OBVIOUS
  <2>2. ver = [up EXCEPT !.targets[id] = [@ EXCEPT !.ver = TRUE]]
    BY <1>3
  <2> HIDE DEF up, ver
  <2>3. QED
    BY <2>1, <2>2 DEF HandleConnectingFd
<1> HIDE DEF u, v, up
<1>6. Follows(up, ver, {id}) /\ ver.targets[id] = v
  BY <1>1, <1>2, <1>3, <1>4, StateFollows
<1> HIDE DEF ver
<1>7. ASSUME y \in InnerSend(ver, {id})
      PROVE  Follows(e, y, {id})
  <2>1. {id} \in SUBSET DOMAIN ver.targets /\ Sound(ver) /\ \A i \in {id} : ver.targets[i].conn # "none"
    BY <1>2, <1>4, <1>6 DEF Follows
  <2>2. Follows(ver, y, {id})
    BY <1>7, <2>1, InnerSendFollows
  <2>3. Follows(e, y, ({id} \cup {id}) \cup {id})
    BY <1>3, <1>6, <2>2, FollowsOn
  <2>4. QED
    BY <2>3
<1>8. QED
  BY <1>3, <1>5, <1>7, CloseFollows

-----------------------------------------------------------------------------
(* The walk along the sending list.                                        *)

LEMMA TouchesBefore ==
  ASSUME NEW e, NEW d, NEW x, NEW failed, Touches(e, d, {}), Touches(d, x, failed)
  PROVE  Touches(e, x, failed)
<1>1. FdsOf(e, {}) = {} /\ {FdKey(fd) : fd \in FdsOf(e, {})} = {}
  BY DEF FdsOf
<1>2. /\ e \in Env /\ d \in Env /\ x \in Env
      /\ DOMAIN d.targets = DOMAIN e.targets /\ DOMAIN x.targets = DOMAIN e.targets
      /\ failed \subseteq DOMAIN e.targets
      /\ \A id \in DOMAIN e.targets :
           d.targets[id].addr = e.targets[id].addr /\ d.targets[id].fd = e.targets[id].fd
      /\ d.tmap.on = e.tmap.on /\ \A k \in Key : d.tmap.chain[k] = e.tmap.chain[k]
      /\ d.cmap = e.cmap /\ d.clients = e.clients /\ d.items = e.items
      /\ d.open = e.open /\ d.listening = e.listening
  BY <1>1, EnvIs DEF Touches
<1>3. FdsOf(d, failed) = FdsOf(e, failed)
  BY <1>2 DEF FdsOf
<1>4. /\ \A id \in DOMAIN e.targets :
           /\ x.targets[id].addr = e.targets[id].addr
           /\ x.targets[id].fd = IF id \in failed THEN NoFd ELSE e.targets[id].fd
      /\ x.cmap = e.cmap /\ x.clients = e.clients /\ x.items = e.items
      /\ x.open = e.open \ FdsOf(e, failed)
      /\ x.listening = (e.listening /\ Listener \notin FdsOf(e, failed))
  BY <1>2, <1>3 DEF Touches
<1>5. /\ x.tmap.on = e.tmap.on
      /\ \A k \in Key :
           IF k \in {FdKey(fd) : fd \in FdsOf(e, failed)}
           THEN \A r : e.tmap.on /\ e.tmap.chain[k] = <<r>> => x.tmap.chain[k] = <<>>
           ELSE x.tmap.chain[k] = e.tmap.chain[k]
  BY <1>2, <1>3 DEF Touches
<1>6. QED
  BY <1>2, <1>4, <1>5 DEF Touches

LEMMA TouchesAfter ==
  ASSUME NEW e, NEW x, NEW y, NEW failed, Touches(e, x, failed), Touches(x, y, {})
  PROVE  Touches(e, y, failed)
<1>1. FdsOf(x, {}) = {} /\ {FdKey(fd) : fd \in FdsOf(x, {})} = {}
  BY DEF FdsOf
<1>2. /\ y \in Env /\ DOMAIN y.targets = DOMAIN x.targets
      /\ \A id \in DOMAIN x.targets :
           y.targets[id].addr = x.targets[id].addr /\ y.targets[id].fd = x.targets[id].fd
      /\ y.tmap.on = x.tmap.on /\ \A k \in Key : y.tmap.chain[k] = x.tmap.chain[k]
      /\ y.cmap = x.cmap /\ y.clients = x.clients /\ y.items = x.items
      /\ y.open = x.open /\ y.listening = x.listening
  BY <1>1, EnvIs DEF Touches
<1>3. QED
  BY <1>2 DEF Touches

\* y is e after a walk that has left stay on the list.
WalkedTo(e, y, failed, stay) ==
  /\ Touches(e, y, failed) /\ Settled(y) /\ y.sending = SetToSeq(stay)
  /\ \A id \in DOMAIN e.targets :
       y.targets[id].listed = IF id \in Nodes(e) \ stay THEN FALSE ELSE e.targets[id].listed
  /\ \A id \in DOMAIN e.targets \ failed : y.targets[id].conn = e.targets[id].conn

LEMMA FlushedIs ==
  ASSUME NEW e \in Env, Settled(e), NEW failed \in SUBSET Busy(e), NEW kept \in SUBSET (Busy(e) \ failed),
         NEW stay \in SUBSET kept
  PROVE  WalkedTo(e, Flushed(e, failed, kept, stay), failed, stay)
<1> DEFINE idle == Busy(e) \ kept
           no == FALSE
           d == SetData(e, idle, no)
           x == CloseTargetFd(d, failed)
           gone == Nodes(e) \ stay
           new == [id \in DOMAIN x.targets |-> [x.targets[id] EXCEPT !.listed = FALSE]]
           t == [id \in DOMAIN x.targets |-> IF id \in gone THEN new[id] ELSE x.targets[id]]
           y == Flushed(e, failed, kept, stay)
           off == FALSE
<1>1. failed \in SUBSET DOMAIN e.targets /\ stay \in SUBSET DOMAIN e.targets /\ DOMAIN e.targets \subseteq Ids
  BY EnvIs DEF Busy, Nodes
<1>2. /\ Has(d, d.targets, e.sending, e.tmap, e.cmap, e.clients, e.items, e.open, e.listening)
      /\ DOMAIN d.targets = DOMAIN e.targets
      /\ \A id \in DOMAIN e.targets :
           LET a == e.targets[id]  b == d.targets[id]
           IN /\ b.addr = a.addr /\ b.fd = a.fd /\ b.conn = a.conn /\ b.ver = a.ver
              /\ b.data = (IF id \in idle THEN no ELSE a.data) /\ b.listed = a.listed
  <2>1. no \in BOOLEAN
    OBVIOUS
  <2> HIDE DEF idle, no
  <2>2. QED
    BY <2>1, SetDataIs
<1>3. y = [x EXCEPT !.sending = SetToSeq(stay), !.targets = t]
  BY DEF Flushed
<1> HIDE DEF d, idle
<1>4. Touches(e, d, {}) /\ Settled(d) /\ d \in Env
  <2>1. d \in Env
    BY <1>2 DEF Has
  <2>2. Touches(e, d, {})
    BY <1>2, Untouched DEF Has
  <2>3. Settled(d)
    BY <1>2 DEF Settled
  <2>4. QED
    BY <2>1, <2>2, <2>3
<1>5. Touches(d, x, failed) /\ Settled(x)
  BY <1>1, <1>2, <1>4, CloseTouches, CloseSettled
<1>6. /\ DOMAIN x.targets = DOMAIN e.targets
      /\ \A id \in failed : x.targets[id] = Disconnected(d.targets[id])
      /\ \A id \in DOMAIN e.targets \ failed : x.targets[id] = d.targets[id]
  <2>1. failed \in SUBSET DOMAIN d.targets
    BY <1>1, <1>2
  <2>2. /\ DOMAIN x.targets = DOMAIN d.targets
        /\ \A id \in failed : x.targets[id] = Disconnected(d.targets[id])
        /\ \A id \in DOMAIN d.targets \ failed : x.targets[id] = d.targets[id]
    BY <1>4, <2>1, CloseTargetFdIs
  <2>3. QED
    BY <1>2, <2>2
<1> HIDE DEF x, gone, off
<1>7. x \in Env /\ \A id \in DOMAIN x.targets :
        /\ new[id] \in Target /\ new[id].addr = x.targets[id].addr /\ new[id].fd = x.targets[id].fd
        /\ new[id].conn = x.targets[id].conn /\ new[id].ver = x.targets[id].ver
        /\ new[id].data = x.targets[id].data /\ new[id].listed = FALSE
  <2>1. x \in Env
    BY <1>5 DEF Touches
  <2> SUFFICES ASSUME NEW id \in DOMAIN x.targets
               PROVE  /\ new[id] \in Target /\ new[id].addr = x.targets[id].addr /\ new[id].fd = x.targets[id].fd
                      /\ new[id].conn = x.targets[id].conn /\ new[id].ver = x.targets[id].ver
                      /\ new[id].data = x.targets[id].data /\ new[id].listed = off
    BY <2>1 DEF off
  <2>2. new[id] = [x.targets[id] EXCEPT !.listed = off] /\ x.targets[id] \in Target /\ off \in BOOLEAN
    BY <2>1, EnvIs DEF off
  <2> HIDE DEF new
  <2>3. QED
    BY <2>2, ListedSet
<1> HIDE DEF new
<1>8. t \in Partial(Ids, Target)
  BY <1>7, Written
<1>9. DOMAIN t = DOMAIN e.targets /\ \A id \in DOMAIN t : t[id] = IF id \in gone THEN new[id] ELSE x.targets[id]
  BY <1>6
<1>10. SetToSeq(stay) \in Seq(Ids)
  <2>1. IsFiniteSet(stay) /\ stay \subseteq Ids
    BY <1>1, KeysAssumption, FS_Subset
  <2>2. SetToSeq(stay) \in Seq(stay)
    BY <2>1, ToSeqIs
  <2>3. QED
    BY <2>1, <2>2
<1> HIDE DEF t, y
<1>11. Has(y, t, SetToSeq(stay), x.tmap, x.cmap, x.clients, x.items, x.open, x.listening)
  BY <1>3, <1>7, <1>8, <1>10 DEF Has, Env
<1>12. Touches(x, y, {})
  BY <1>6, <1>7, <1>9, <1>11, Untouched DEF Has
<1>13. Touches(e, y, failed)
  BY <1>4, <1>5, <1>12, TouchesBefore, TouchesAfter
<1>14. Settled(y)
  BY <1>5, <1>6, <1>7, <1>9, <1>11 DEF Settled, Has
<1>15. \A id \in DOMAIN e.targets : x.targets[id].listed = e.targets[id].listed
  <2>1. \A id \in failed : x.targets[id].listed = d.targets[id].listed
    BY <1>1, <1>2, <1>4, <1>6, EnvIs, DisconnectedIs
  <2>2. QED
    BY <1>2, <1>6, <2>1
<1>16. \A id \in DOMAIN e.targets :
         y.targets[id].listed = IF id \in gone THEN FALSE ELSE e.targets[id].listed
  BY <1>6, <1>7, <1>9, <1>11, <1>15 DEF Has
<1>17. \A id \in DOMAIN e.targets \ failed : y.targets[id].conn = e.targets[id].conn
  <2>1. \A id \in DOMAIN e.targets \ failed : x.targets[id].conn = e.targets[id].conn
    BY <1>2, <1>6
  <2>2. \A id \in DOMAIN e.targets : y.targets[id].conn = x.targets[id].conn
    BY <1>6, <1>7, <1>9, <1>11 DEF Has
  <2>3. QED
    BY <2>1, <2>2
<1>18. QED
  BY <1>11, <1>13, <1>14, <1>16, <1>17 DEF Has, y, gone, WalkedTo

LEMMA IterListFollows ==
  ASSUME NEW e, Sound(e), NEW y \in IterList(e, FALSE)
  PROVE  Follows(e, y, Busy(e))
<1>1. PICK failed \in SUBSET Busy(e) :
        y \in {Flushed(e, failed, kept, IF FALSE THEN {} ELSE kept) : kept \in SUBSET (Busy(e) \ failed)}
  BY DEF IterList
<1>2. PICK kept \in SUBSET (Busy(e) \ failed) : y = Flushed(e, failed, kept, kept)
  BY <1>1
<1>3. /\ e \in Env /\ Settled(e)
      /\ ToSet(e.sending) = {id \in DOMAIN e.targets : e.targets[id].listed}
  BY DEF Sound, Marked
<1>4. /\ Touches(e, y, failed) /\ Settled(y) /\ y.sending = SetToSeq(kept)
      /\ \A id \in DOMAIN e.targets :
           y.targets[id].listed = IF id \in Nodes(e) \ kept THEN FALSE ELSE e.targets[id].listed
      /\ \A id \in DOMAIN e.targets \ failed : y.targets[id].conn = e.targets[id].conn
  <2>1. kept \in SUBSET kept
    OBVIOUS
  <2>2. WalkedTo(e, y, failed, kept)
    BY <1>2, <1>3, <2>1, FlushedIs
  <2>3. QED
    BY <2>2 DEF WalkedTo
<1>5. kept \subseteq Nodes(e) /\ Nodes(e) = {id \in DOMAIN e.targets : e.targets[id].listed}
  BY <1>3 DEF Busy, Nodes
<1>6. IsInjective(SetToSeq(kept)) /\ ToSet(SetToSeq(kept)) = kept
  <2>1. kept \subseteq Ids
    BY <1>3, <1>5, EnvIs
  <2>2. IsFiniteSet(kept)
    BY <2>1, KeysAssumption, FS_Subset
  <2>3. QED
    BY <2>2, ToSeqIs
<1>7. {id \in DOMAIN y.targets : y.targets[id].listed} = kept
  BY <1>4, <1>5 DEF Touches
<1>8. Marked(y)
  BY <1>4, <1>6, <1>7 DEF Marked
<1>9. Follows(e, y, failed)
  BY <1>4, <1>8, TouchedFollows
<1>10. QED
  BY <1>9 DEF Follows

-----------------------------------------------------------------------------
(* New sockets.                                                            *)

\* What Sockets chooses: free descriptors, each for one unconnected target.
LEMMA SocketsAre ==
  ASSUME NEW e \in Env, NEW fds \in Sockets(e)
  PROVE  /\ DOMAIN fds \subseteq DOMAIN e.targets /\ IsInjective(fds)
         /\ \A id \in DOMAIN fds : /\ fds[id] \in Fds /\ fds[id] \notin e.open
                                   /\ e.targets[id].conn = "none"
<1>1. fds \in Partial(Unconnected(e), FreeFds(e)) /\ IsInjective(fds)
  BY DEF Sockets
<1>2. DOMAIN fds \subseteq Unconnected(e) /\ \A id \in DOMAIN fds : fds[id] \in FreeFds(e)
  BY <1>1, PartialIs
<1>3. QED
  BY <1>1, <1>2 DEF Unconnected, FreeFds

\* x is e with these sockets.
AttachedTo(e, x, fds) ==
  /\ Has(x, x.targets, e.sending, Insert(e.tmap, e.tmap, ByFd(fds)), e.cmap, e.clients, e.items,
         e.open \cup Range(fds), e.listening)
  /\ DOMAIN x.targets = DOMAIN e.targets
  /\ \A id \in DOMAIN e.targets \ DOMAIN fds : x.targets[id] = e.targets[id]
  /\ \A id \in DOMAIN fds :
       LET t == e.targets[id]  u == x.targets[id]
       IN /\ u.addr = t.addr /\ u.fd = fds[id] /\ u.conn \in {"proc", "done"} /\ u.listed = t.listed

LEMMA AttachIs ==
  ASSUME NEW e \in Env, NEW fds \in Sockets(e), NEW up
  PROVE  AttachedTo(e, Attach(e, fds, up), fds)
<1> DEFINE m == Insert(e.tmap, e.tmap, ByFd(fds))
           new == [id \in DOMAIN fds |->
                     [e.targets[id] EXCEPT !.fd = fds[id], !.conn = IF id \in up THEN "done" ELSE "proc",
                                           !.ver = FALSE, !.data = FALSE]]
           t == [id \in DOMAIN e.targets |-> IF id \in DOMAIN fds THEN new[id] ELSE e.targets[id]]
           o == e.open \cup Range(fds)
           x == Attach(e, fds, up)
<1>1. /\ DOMAIN fds \subseteq DOMAIN e.targets /\ DOMAIN e.targets \subseteq Ids /\ IsInjective(fds)
      /\ \A id \in DOMAIN fds : fds[id] \in Fds
      /\ \A id \in DOMAIN e.targets : e.targets[id] \in Target
  BY SocketsAre, EnvIs
<1>2. x = [e EXCEPT !.open = o, !.tmap = m, !.targets = t]
  <2>1. t = [id \in DOMAIN e.targets |->
               IF id \in DOMAIN fds
               THEN [e.targets[id] EXCEPT !.fd = fds[id], !.conn = IF id \in up THEN "done" ELSE "proc",
                                          !.ver = FALSE, !.data = FALSE]
               ELSE e.targets[id]]
    OBVIOUS
  <2> HIDE DEF t, m, o, new
  <2>2. QED
    BY <2>1 DEF Attach, m, o
<1>3. m \in HashMaps
  <2>1. \A k \in DOMAIN ByFd(fds) : ByFd(fds)[k] \in Refers
    BY <1>1, ByFdIs DEF Refers
  <2>2. e.tmap \in HashMaps
    BY EnvIs
  <2>3. QED
    BY <2>1, <2>2, InsertIs
<1>4. o \in SUBSET Fds
  BY <1>1, EnvIs DEF Range
<1>5. \A id \in DOMAIN fds :
        /\ new[id] \in Target /\ new[id].addr = e.targets[id].addr /\ new[id].fd = fds[id]
        /\ new[id].conn \in {"proc", "done"} /\ new[id].listed = e.targets[id].listed
  <2> SUFFICES ASSUME NEW id \in DOMAIN fds
               PROVE  /\ new[id] \in Target /\ new[id].addr = e.targets[id].addr /\ new[id].fd = fds[id]
                      /\ new[id].conn \in {"proc", "done"} /\ new[id].listed = e.targets[id].listed
    OBVIOUS
  <2> DEFINE a == e.targets[id]
             c == IF id \in up THEN "done" ELSE "proc"
  <2>1. new[id] = [a EXCEPT !.fd = fds[id], !.conn = c, !.ver = FALSE, !.data = FALSE]
    OBVIOUS
  <2>2. a \in Target /\ fds[id] \in Fds /\ c \in {"proc", "done"}
    BY <1>1
  <2> HIDE DEF new, a, c
  <2>3. /\ new[id] \in Target /\ new[id].addr = a.addr /\ new[id].fd = fds[id]
        /\ new[id].conn \in {"proc", "done"} /\ new[id].listed = a.listed
    BY <2>1, <2>2 DEF Target
  <2>4. QED
    BY <2>3 DEF a
<1> HIDE DEF new
<1>6. t \in Partial(Ids, Target)
  BY <1>5, Written
<1> HIDE DEF t, m, o, x
<1>7. Has(x, t, e.sending, m, e.cmap, e.clients, e.items, o, e.listening)
  BY <1>2, <1>3, <1>4, <1>6 DEF Has, Env
<1>8. /\ DOMAIN t = DOMAIN e.targets
      /\ \A id \in DOMAIN t : t[id] = IF id \in DOMAIN fds THEN new[id] ELSE e.targets[id]
  BY DEF t
<1>9. QED
  BY <1>1, <1>5, <1>7, <1>8 DEF Has, AttachedTo, x, m, o

LEMMA AttachOwned ==
  ASSUME NEW e, Sound(e), NEW fds \in Sockets(e), NEW up
  PROVE  Owned(Attach(e, fds, up))
<1> DEFINE x == Attach(e, fds, up)
<1>0. e \in Env /\ Owned(e) /\ Settled(e)
  BY DEF Sound
<1>1. /\ x.clients = e.clients /\ x.open = e.open \cup Range(fds) /\ x.listening = e.listening
      /\ DOMAIN x.targets = DOMAIN e.targets
      /\ \A id \in DOMAIN e.targets \ DOMAIN fds : x.targets[id] = e.targets[id]
      /\ \A id \in DOMAIN fds : x.targets[id].fd = fds[id]
  <2>1. AttachedTo(e, x, fds)
    BY <1>0, AttachIs
  <2> HIDE DEF x
  <2>2. QED
    BY <2>1 DEF AttachedTo, Has
<1>2. /\ DOMAIN fds \subseteq DOMAIN e.targets /\ IsInjective(fds)
      /\ \A id \in DOMAIN fds : /\ fds[id] \in Fds /\ fds[id] \notin e.open
                                /\ e.targets[id].conn = "none"
  BY <1>0, SocketsAre
<1>3. \A id \in DOMAIN fds : e.targets[id].fd <= 0 /\ e.targets[id].fd \in Int
  BY <1>0, <1>2, EnvIs, TargetIs DEF Settled
<1> HIDE DEF x
<1>4. ASSUME NEW fd \in Fds \ {0}
      PROVE  IF fd \in x.open THEN \E owner \in Owners(x, fd) : Owners(x, fd) = {owner}
             ELSE Owners(x, fd) = {}
  <2>0. fd > 0
    BY KeysAssumption
  <2>1. CASE fd \in Range(fds)
    <3>1. PICK id \in DOMAIN fds : fds[id] = fd
      BY <2>1 DEF Range
    <3>2. Owners(e, fd) = {}
      BY <1>0, <1>2, <3>1 DEF Owned
    <3>3. \A i \in DOMAIN x.targets : x.targets[i].fd = fd <=> i = id
      BY <1>1, <1>2, <3>1, <3>2 DEF Owners, IsInjective
    <3>4. \A c \in DOMAIN x.clients : x.clients[c].fd # fd
      BY <1>1, <3>2 DEF Owners
    <3>5. Owners(x, fd) = {id}
      BY <1>1, <1>2, <3>3, <3>4 DEF Owners
    <3>6. QED
      BY <1>1, <2>1, <3>5
  <2>2. CASE fd \notin Range(fds)
    <3>1. \A i \in DOMAIN fds : x.targets[i].fd # fd /\ e.targets[i].fd # fd
      BY <1>1, <1>3, <2>0, <2>2 DEF Range
    <3>2. \A i \in DOMAIN x.targets : x.targets[i].fd = fd <=> e.targets[i].fd = fd
      BY <1>1, <3>1
    <3>3. Owners(x, fd) = Owners(e, fd)
      BY <1>1, <3>2 DEF Owners
    <3>4. QED
      BY <1>0, <1>1, <2>2, <3>3 DEF Owned
  <2>3. QED
    BY <2>1, <2>2
<1>5. x.listening => Listener \in x.open
  BY <1>0, <1>1 DEF Owned
<1>6. Owned(x)
  BY <1>4, <1>5 DEF Owned
<1>7. QED
  BY <1>6 DEF x

LEMMA AttachMap ==
  ASSUME NEW e, Sound(e), NEW fds \in Sockets(e), NEW up
  PROVE  TargetMapExact(Attach(e, fds, up))
<1> DEFINE x == Attach(e, fds, up)
           new == ByFd(fds)
           map == e.tmap
<1>0. e \in Env /\ Owned(e) /\ Settled(e) /\ TargetMapExact(e)
  BY DEF Sound
<1>1. /\ x.tmap = Insert(map, map, new)
      /\ DOMAIN x.targets = DOMAIN e.targets
      /\ \A id \in DOMAIN e.targets \ DOMAIN fds : x.targets[id] = e.targets[id]
      /\ \A id \in DOMAIN fds : x.targets[id].fd = fds[id]
  <2>1. AttachedTo(e, x, fds)
    BY <1>0, AttachIs
  <2> HIDE DEF x
  <2>2. QED
    BY <2>1 DEF AttachedTo, Has
<1>2. /\ DOMAIN fds \subseteq DOMAIN e.targets /\ IsInjective(fds)
      /\ \A id \in DOMAIN fds : /\ fds[id] \in Fds /\ fds[id] \notin e.open
                                /\ e.targets[id].conn = "none"
  BY <1>0, SocketsAre
<1>3. /\ DOMAIN e.targets \subseteq Ids /\ map \in HashMaps
      /\ \A id \in DOMAIN e.targets : e.targets[id].fd = NoFd \/ e.targets[id].fd \in Fds
  BY <1>0, EnvIs, TargetIs
<1>4. /\ DOMAIN new = {FdKey(fds[r]) : r \in DOMAIN fds}
      /\ \A r \in DOMAIN fds : new[FdKey(fds[r])] = r
      /\ \A k \in DOMAIN new : new[k] \in Refers
  BY <1>2, <1>3, ByFdIs DEF Refers
<1> HIDE DEF x, new
<1>5. /\ x.tmap.on = map.on
      /\ \A k \in Key : k \notin DOMAIN new => x.tmap.chain[k] = map.chain[k]
      /\ \A k \in Key : map.on /\ k \in DOMAIN new /\ Fetch(map, k) = Null /\ map.chain[k] = <<>>
                       => x.tmap.chain[k] = <<new[k]>>
  BY <1>1, <1>3, <1>4, InsertIs
<1>6. \A fd \in Fds : FdKey(fd) \in DOMAIN new <=> \E id \in DOMAIN fds : fds[id] = fd
  BY <1>4, KeysDiffer
<1>7. \A id \in Ids : x.tmap.chain[ProcKey(id)] = map.chain[ProcKey(id)]
  BY <1>4, <1>5, KeyIs, KeysDiffer
<1>8. ASSUME NEW id \in DOMAIN x.targets, x.targets[id].fd > 0
      PROVE  x.tmap.chain[FdKey(x.targets[id].fd)] = <<id>>
  <2>1. CASE id \in DOMAIN fds
    <3> DEFINE k == FdKey(fds[id])
    <3>1. fds[id] \in Fds \ {0} /\ x.targets[id].fd = fds[id] /\ fds[id] \notin e.open
      BY <1>1, <1>2, <1>8, <2>1
    <3>2. \A i \in DOMAIN e.targets : e.targets[i].fd # fds[id]
      BY <1>0, <3>1, OneTarget
    <3>3. k \in Key /\ map.chain[k] = <<>>
      BY <1>0, <3>1, <3>2, KeyIs DEF TargetMapExact
    <3>4. Fetch(map, k) = Null /\ map.on
      <4>1. map.on
        BY <1>0, <1>1, <1>8 DEF TargetMapExact
      <4>2. QED
        BY <1>3, <3>3, <4>1, FetchIs
    <3>5. k \in DOMAIN new /\ new[k] = id
      BY <1>4, <2>1
    <3> HIDE DEF k
    <3>6. x.tmap.chain[k] = <<id>>
      BY <1>5, <3>3, <3>4, <3>5
    <3>7. QED
      BY <3>1, <3>6 DEF k
  <2>2. CASE id \notin DOMAIN fds
    <3>1. x.targets[id].fd = e.targets[id].fd /\ e.targets[id].fd \in Fds \ {0} /\ id \in DOMAIN e.targets
      BY <1>1, <1>3, <1>8, <2>2 DEF NoFd
    <3>2. e.targets[id].fd \in e.open
      BY <1>0, <3>1, OneTarget
    <3>3. FdKey(e.targets[id].fd) \notin DOMAIN new /\ FdKey(e.targets[id].fd) \in Key
      BY <1>2, <1>6, <3>1, <3>2, KeyIs
    <3>4. map.chain[FdKey(e.targets[id].fd)] = <<id>>
      BY <1>0, <1>8, <3>1 DEF TargetMapExact
    <3>5. QED
      BY <1>5, <3>1, <3>3, <3>4
  <2>3. QED
    BY <2>1, <2>2
<1>9. ASSUME NEW fd \in Fds \ {0}, \A id \in DOMAIN x.targets : x.targets[id].fd # fd
      PROVE  x.tmap.chain[FdKey(fd)] = <<>>
  <2>1. fd > 0
    BY KeysAssumption
  <2>2. \A id \in DOMAIN fds : fds[id] # fd /\ e.targets[id].fd # fd
    <3>1. \A id \in DOMAIN fds : e.targets[id].fd <= 0 /\ e.targets[id].fd \in Int
      BY <1>0, <1>2, EnvIs, TargetIs DEF Settled
    <3>2. QED
      BY <1>1, <1>2, <1>9, <2>1, <3>1
  <2>3. \A id \in DOMAIN e.targets : e.targets[id].fd # fd
    BY <1>1, <1>9, <2>2
  <2>4. map.chain[FdKey(fd)] = <<>>
    BY <1>0, <2>3 DEF TargetMapExact
  <2>5. FdKey(fd) \notin DOMAIN new /\ FdKey(fd) \in Key
    BY <1>6, <2>2, KeyIs
  <2>6. QED
    BY <1>5, <2>4, <2>5
<1>10. TargetMapExact(x)
  BY <1>0, <1>1, <1>5, <1>7, <1>8, <1>9 DEF TargetMapExact
<1>11. QED
  BY <1>10 DEF x

LEMMA AttachSound ==
  ASSUME NEW e, Sound(e), NEW fds \in Sockets(e), NEW up
  PROVE  Sound(Attach(e, fds, up)) /\ (Itemized(e) => Itemized(Attach(e, fds, up)))
<1> DEFINE x == Attach(e, fds, up)
<1>0. e \in Env /\ Settled(e) /\ ClientMapSound(e) /\ Marked(e)
  BY DEF Sound
<1>1. AttachedTo(e, x, fds)
  BY <1>0, AttachIs
<1>2. \A id \in DOMAIN fds : fds[id] # NoFd
  BY <1>0, SocketsAre, KeysAssumption DEF NoFd
<1>3. Owned(x) /\ TargetMapExact(x)
  BY AttachOwned, AttachMap
<1> HIDE DEF x
<1>4. Settled(x)
  BY <1>0, <1>1, <1>2 DEF Settled, AttachedTo
<1>5. Marked(x)
  BY <1>0, <1>1 DEF Marked, Has, AttachedTo
<1>6. ClientMapSound(x)
  BY <1>0, <1>1 DEF ClientMapSound, Has, AttachedTo
<1>7. Itemized(e) => Itemized(x)
  BY <1>1 DEF Itemized, Has, AttachedTo
<1>8. Sound(x)
  BY <1>1, <1>3, <1>4, <1>5, <1>6 DEF Sound, Has, AttachedTo
<1>9. QED
  BY <1>7, <1>8 DEF x

-----------------------------------------------------------------------------
(* Clients.                                                                *)

LEMMA WipeIs ==
  ASSUME NEW map \in HashMaps, NEW keys
  PROVE  /\ Wipe(map, keys) \in HashMaps
         /\ \A k \in Key : Wipe(map, keys).chain[k] = IF k \in keys THEN <<>> ELSE map.chain[k]
<1> DEFINE c == [k \in Key |-> IF k \in keys THEN <<>> ELSE map.chain[k]]
<1>1. Wipe(map, keys) = [on |-> map.on, chain |-> c]
  BY NewChain DEF Wipe
<1>2. c \in [Key -> Seq(Refers)]
  BY MapIs
<1>3. QED
  BY <1>1, <1>2, MapIs DEF HashMaps

\* The targets are not concerned.
LEMMA SameTargets ==
  ASSUME NEW e, Sound(e), NEW x \in Env,
         x.targets = e.targets, x.sending = e.sending, x.tmap = e.tmap, x.items = e.items,
         Owned(x), ClientMapSound(x)
  PROVE  Sound(x) /\ (Itemized(e) => Itemized(x))
<1>1. Settled(x) /\ Marked(x) /\ (Itemized(e) => Itemized(x))
  BY DEF Sound, Settled, Marked, Itemized
<1>2. TargetMapExact(x)
  BY DEF Sound, TargetMapExact
<1>3. QED
  BY <1>1, <1>2 DEF Sound

\* accept: the new connection has a descriptor nobody else has.
LEMMA AcceptSound ==
  ASSUME NEW e, Sound(e), e.listening, NEW c \in Cids \ DOMAIN e.clients, NEW fd \in FreeFds(e)
  PROVE  LET x == [e EXCEPT !.open = @ \cup {fd},
                            !.clients = [y \in DOMAIN @ \cup {c} |->
                                           IF y = c THEN [fd |-> fd, verify |-> FALSE] ELSE @[y]],
                            !.cmap = Insert(@, e.tmap, ByFd([y \in {c} |-> fd]))]
         IN Sound(x) /\ (Itemized(e) => Itemized(x))
<1> DEFINE x == [e EXCEPT !.open = @ \cup {fd},
                          !.clients = [y \in DOMAIN @ \cup {c} |->
                                         IF y = c THEN [fd |-> fd, verify |-> FALSE] ELSE @[y]],
                          !.cmap = Insert(@, e.tmap, ByFd([y \in {c} |-> fd]))]
           o == e.open \cup {fd}
           cs == [y \in DOMAIN e.clients \cup {c} |->
                    IF y = c THEN [fd |-> fd, verify |-> FALSE] ELSE e.clients[y]]
           fdOf == [y \in {c} |-> fd]
           new == ByFd(fdOf)
           m == Insert(e.cmap, e.tmap, new)
<1>0. e \in Env /\ Owned(e) /\ ClientMapSound(e) /\ e.tmap \in HashMaps /\ e.cmap \in HashMaps
  BY EnvIs DEF Sound
<1>1. x = [e EXCEPT !.open = o, !.clients = cs, !.cmap = m]
  OBVIOUS
<1>2. fd \in Fds \ {0} /\ fd \notin e.open /\ Owners(e, fd) = {}
  BY <1>0 DEF FreeFds, Owned, Listener
<1>3. /\ DOMAIN new = {FdKey(fd)} /\ new[FdKey(fd)] = c
      /\ \A k \in DOMAIN new : new[k] \in Refers
  <2>1. IsInjective(fdOf) /\ DOMAIN fdOf = {c} /\ fdOf[c] = fd
    BY DEF IsInjective
  <2> HIDE DEF fdOf
  <2>2. QED
    BY <2>1, ByFdIs DEF Refers
<1> HIDE DEF x, new, fdOf
<1>4. /\ m \in HashMaps
      /\ ~e.cmap.on => m = e.cmap
      /\ \A k \in Key : k \notin DOMAIN new \/ Fetch(e.tmap, k) # Null => m.chain[k] = e.cmap.chain[k]
      /\ \A k \in Key : e.cmap.on /\ k \in DOMAIN new /\ Fetch(e.tmap, k) = Null /\ e.cmap.chain[k] = <<>>
                       => m.chain[k] = <<new[k]>>
  BY <1>0, <1>3, InsertIs
<1>5. /\ cs \in Partial(Cids, Client) /\ DOMAIN cs = DOMAIN e.clients \cup {c}
      /\ cs[c].fd = fd /\ \A y \in DOMAIN e.clients : cs[y] = e.clients[y]
  <2>1. DOMAIN e.clients \subseteq Cids /\ \A y \in DOMAIN e.clients : e.clients[y] \in Client
    BY <1>0, EnvIs
  <2>2. [fd |-> fd, verify |-> FALSE] \in Client
    BY <1>2 DEF Client
  <2>3. /\ cs \in [DOMAIN e.clients \cup {c} -> Client]
        /\ cs[c].fd = fd /\ \A y \in DOMAIN e.clients : cs[y] = e.clients[y]
    BY <2>1, <2>2
  <2> HIDE DEF cs
  <2>4. QED
    BY <2>1, <2>3, InPartial
<1>6. o \in SUBSET Fds
  BY <1>0, <1>2, EnvIs
<1> HIDE DEF cs, m
<1>7. Has(x, e.targets, e.sending, e.tmap, m, cs, e.items, o, e.listening)
  BY <1>0, <1>1, <1>4, <1>5, <1>6 DEF Has, Env
<1>8. ASSUME NEW f \in Fds \ {0}
      PROVE  IF f \in x.open THEN \E owner \in Owners(x, f) : Owners(x, f) = {owner}
             ELSE Owners(x, f) = {}
  <2>1. CASE f = fd
    <3>1. Owners(x, f) = {c}
      BY <1>2, <1>5, <1>7, <2>1 DEF Has, Owners
    <3>2. QED
      BY <1>7, <2>1, <3>1 DEF Has
  <2>2. CASE f # fd
    <3>1. Owners(x, f) = Owners(e, f)
      BY <1>5, <1>7, <2>2 DEF Has, Owners
    <3>2. QED
      BY <1>0, <1>7, <2>2, <3>1 DEF Has, Owned
  <2>3. QED
    BY <2>1, <2>2
<1>9. Owned(x)
  BY <1>0, <1>7, <1>8 DEF Owned, Has
<1>10. ASSUME NEW k \in Key, x.cmap.chain[k] # <<>>
       PROVE  \E d \in DOMAIN x.clients : k = FdKey(x.clients[d].fd) /\ x.cmap.chain[k] = <<d>>
  <2>1. CASE m.chain[k] = e.cmap.chain[k]
    <3>1. PICK d \in DOMAIN e.clients : k = FdKey(e.clients[d].fd) /\ e.cmap.chain[k] = <<d>>
      BY <1>0, <1>7, <1>10, <2>1 DEF ClientMapSound, Has
    <3>2. QED
      BY <1>5, <1>7, <2>1, <3>1 DEF Has
  <2>2. CASE m.chain[k] # e.cmap.chain[k]
    <3>1. e.cmap.on /\ k = FdKey(fd) /\ Fetch(e.tmap, k) = Null
      BY <1>3, <1>4, <2>2
    <3>2. e.cmap.chain[k] = <<>>
      BY <1>0, <1>2, <3>1, KeysDiffer DEF ClientMapSound, Owners
    <3>3. m.chain[k] = <<c>>
      BY <1>3, <1>4, <3>1, <3>2
    <3>4. QED
      BY <1>5, <1>7, <3>1, <3>3 DEF Has
  <2>3. QED
    BY <2>1, <2>2
<1>11. ClientMapSound(x)
  BY <1>10 DEF ClientMapSound
<1>12. Sound(x) /\ (Itemized(e) => Itemized(x))
  BY <1>7, <1>9, <1>11, SameTargets DEF Has
<1>13. QED
  BY <1>12 DEF x

\* free_client_info.
LEMMA FreeClientInfoSound ==
  ASSUME NEW e, Sound(e), NEW cs \in SUBSET DOMAIN e.clients
  PROVE  LET x == FreeClientInfo(e, cs)
         IN Sound(x) /\ (Itemized(e) => Itemized(x))
<1> DEFINE fds == ClientFds(e, cs)
           keys == {FdKey(fd) : fd \in fds}
           m == Wipe(e.cmap, keys)
           cl == Restrict(e.clients, DOMAIN e.clients \ cs)
           o == e.open \ fds
           l == e.listening /\ Listener \notin fds
           d == [e EXCEPT !.clients = cl, !.cmap = m]
           x == FreeClientInfo(e, cs)
<1>0. e \in Env /\ Owned(e) /\ ClientMapSound(e) /\ e.cmap \in HashMaps
  BY EnvIs DEF Sound
<1>1. /\ m \in HashMaps
      /\ \A k \in Key : m.chain[k] = IF k \in keys THEN <<>> ELSE e.cmap.chain[k]
  BY <1>0, WipeIs
<1>2. /\ cl \in Partial(Cids, Client) /\ DOMAIN cl = DOMAIN e.clients \ cs
      /\ \A c \in DOMAIN cl : cl[c] = e.clients[c]
  <2>1. DOMAIN e.clients \subseteq Cids /\ \A y \in DOMAIN e.clients : e.clients[y] \in Client
    BY <1>0, EnvIs
  <2>2. /\ cl \in [DOMAIN e.clients \ cs -> Client]
        /\ \A c \in DOMAIN cl : cl[c] = e.clients[c]
    BY <2>1 DEF Restrict
  <2> HIDE DEF cl
  <2>3. QED
    BY <2>1, <2>2, InPartial
<1>3. o \in SUBSET Fds /\ l \in BOOLEAN
  BY <1>0, EnvIs
<1>4. x = [d EXCEPT !.open = d.open \ fds, !.listening = d.listening /\ Listener \notin fds]
  BY DEF FreeClientInfo, CloseFds
<1>5. /\ \A c \in cs : e.clients[c].fd \in fds
      /\ \A fd \in fds : \E c \in cs : e.clients[c].fd = fd
  BY DEF ClientFds
<1> HIDE DEF m, cl, fds, x
<1>6. Has(d, e.targets, e.sending, e.tmap, m, cl, e.items, e.open, e.listening)
  BY <1>0, <1>1, <1>2 DEF Has, Env
<1> HIDE DEF d
<1>7. x = [d EXCEPT !.open = o, !.listening = l]
  BY <1>4, <1>6 DEF Has
<1> HIDE DEF o, l
<1>8. Has(x, e.targets, e.sending, e.tmap, m, cl, e.items, o, l)
  BY <1>3, <1>6, <1>7 DEF Has, Env
<1>9. ASSUME NEW fd \in Fds \ {0}
      PROVE  IF fd \in x.open THEN \E owner \in Owners(x, fd) : Owners(x, fd) = {owner}
             ELSE Owners(x, fd) = {}
  <2>1. CASE fd \in fds
    <3>1. PICK c \in cs : e.clients[c].fd = fd
      BY <1>5, <2>1
    <3>2. \A i \in DOMAIN x.targets : x.targets[i].fd # fd
      BY <1>0, <1>8, <3>1, OneTarget DEF Has
    <3>3. \A y \in DOMAIN x.clients : x.clients[y].fd # fd
      BY <1>0, <1>2, <1>8, <3>1, OneTarget DEF Has
    <3>4. fd \notin x.open
      BY <1>8, <2>1 DEF Has, o
    <3>5. QED
      BY <3>2, <3>3, <3>4 DEF Owners
  <2>2. CASE fd \notin fds
    <3>1. \A y \in DOMAIN e.clients : e.clients[y].fd = fd => y \in DOMAIN cl
      BY <1>2, <1>5, <2>2
    <3>2. Owners(x, fd) = Owners(e, fd)
      BY <1>2, <1>8, <3>1 DEF Has, Owners
    <3>3. fd \in x.open <=> fd \in e.open
      BY <1>8, <2>2 DEF Has, o
    <3>4. QED
      BY <1>0, <3>2, <3>3 DEF Owned
  <2>3. QED
    BY <2>1, <2>2
<1>10. Owned(x)
  <2>1. x.listening => Listener \in x.open
    BY <1>0, <1>8 DEF Has, Owned, o, l
  <2>2. QED
    BY <1>9, <2>1 DEF Owned
<1>11. ClientMapSound(x)
  <2> SUFFICES ASSUME NEW k \in Key, x.cmap.chain[k] # <<>>
               PROVE  \E c \in DOMAIN x.clients : k = FdKey(x.clients[c].fd) /\ x.cmap.chain[k] = <<c>>
    BY DEF ClientMapSound
  <2>1. k \notin keys /\ x.cmap.chain[k] = e.cmap.chain[k]
    BY <1>1, <1>8 DEF Has
  <2>2. PICK c \in DOMAIN e.clients : k = FdKey(e.clients[c].fd) /\ e.cmap.chain[k] = <<c>>
    BY <1>0, <2>1 DEF ClientMapSound
  <2>3. c \notin cs
    BY <1>5, <2>1, <2>2
  <2>4. QED
    BY <1>2, <1>8, <2>1, <2>2, <2>3 DEF Has
<1>12. Sound(x) /\ (Itemized(e) => Itemized(x))
  BY <1>8, <1>10, <1>11, SameTargets DEF Has
<1>13. QED
  BY <1>12 DEF x

\* A client has sent VERIFY_REQ.
LEMMA VerifySound ==
  ASSUME NEW e, Sound(e), NEW c \in DOMAIN e.clients
  PROVE  LET x == [e EXCEPT !.clients[c].verify = TRUE]
         IN Sound(x) /\ (Itemized(e) => Itemized(x))
<1> DEFINE x == [e EXCEPT !.clients[c].verify = TRUE]
           cl == [e.clients EXCEPT ![c].verify = TRUE]
<1>0. e \in Env /\ Owned(e) /\ ClientMapSound(e)
  BY DEF Sound
<1>1. /\ cl \in Partial(Cids, Client) /\ DOMAIN cl = DOMAIN e.clients
      /\ \A d \in DOMAIN cl : cl[d].fd = e.clients[d].fd
  <2>1. /\ DOMAIN e.clients \subseteq Cids /\ \A y \in DOMAIN e.clients : e.clients[y] \in Client
        /\ e.clients = [y \in DOMAIN e.clients |-> e.clients[y]]
    BY <1>0, EnvIs
  <2>2. /\ cl \in [DOMAIN e.clients -> Client]
        /\ \A d \in DOMAIN cl : cl[d].fd = e.clients[d].fd
    BY <2>1 DEF Client
  <2> HIDE DEF cl
  <2>3. QED
    BY <2>1, <2>2, InPartial
<1>2. x = [e EXCEPT !.clients = cl]
  OBVIOUS
<1> HIDE DEF x, cl
<1>3. Has(x, e.targets, e.sending, e.tmap, e.cmap, cl, e.items, e.open, e.listening)
  BY <1>0, <1>1, <1>2 DEF Has, Env
<1>4. \A fd \in Fds : Owners(x, fd) = Owners(e, fd)
  BY <1>1, <1>3 DEF Has, Owners
<1>5. Owned(x)
  BY <1>0, <1>3, <1>4 DEF Has, Owned
<1>6. ClientMapSound(x)
  BY <1>0, <1>1, <1>3 DEF Has, ClientMapSound
<1>7. Sound(x) /\ (Itemized(e) => Itemized(x))
  BY <1>3, <1>5, <1>6, SameTargets DEF Has
<1>8. QED
  BY <1>7 DEF x

-----------------------------------------------------------------------------
(* The map of targets is filled up from the list.                          *)

\* The map of targets may lack entries, but has none that is wrong.
NoWrongEntry(e) ==
  /\ e.tmap.on <=> DOMAIN e.targets # {}
  /\ \A id \in Ids :
       \/ e.tmap.chain[ProcKey(id)] = <<>>
       \/ id \in DOMAIN e.targets /\ e.tmap.chain[ProcKey(id)] = <<id>>
  /\ \A fd \in Fds \ {0} :
       \/ e.tmap.chain[FdKey(fd)] = <<>>
       \/ \E id \in DOMAIN e.targets : e.targets[id].fd = fd /\ e.tmap.chain[FdKey(fd)] = <<id>>

LEMMA ExactIsRight ==
  ASSUME NEW e, TargetMapExact(e)
  PROVE  NoWrongEntry(e)
<1>1. ASSUME NEW fd \in Fds \ {0}
      PROVE  \/ e.tmap.chain[FdKey(fd)] = <<>>
             \/ \E id \in DOMAIN e.targets : e.targets[id].fd = fd /\ e.tmap.chain[FdKey(fd)] = <<id>>
  <2>1. CASE \E id \in DOMAIN e.targets : e.targets[id].fd = fd
    <3>1. PICK id \in DOMAIN e.targets : e.targets[id].fd = fd
      BY <2>1
    <3>2. fd > 0
      BY KeysAssumption
    <3>3. e.tmap.chain[FdKey(fd)] = <<id>>
      BY <3>1, <3>2 DEF TargetMapExact
    <3>4. QED
      BY <3>1, <3>3
  <2>2. CASE \A id \in DOMAIN e.targets : e.targets[id].fd # fd
    BY <2>2 DEF TargetMapExact
  <2>3. QED
    BY <2>1, <2>2
<1>2. QED
  BY <1>1 DEF TargetMapExact, NoWrongEntry

LEMMA ProcEntriesAre ==
  ASSUME NEW e \in Env
  PROVE  LET p == ProcEntries(e)
         IN /\ \A id : ProcKey(id) \in DOMAIN p <=> id \in DOMAIN e.targets
            /\ \A id \in DOMAIN e.targets : p[ProcKey(id)] = id
            /\ \A fd : FdKey(fd) \notin DOMAIN p
            /\ \A k \in DOMAIN p : p[k] \in Refers
<1> DEFINE p == ProcEntries(e)
<1>1. /\ DOMAIN p = {ProcKey(id) : id \in DOMAIN e.targets}
      /\ \A id \in DOMAIN e.targets : p[ProcKey(id)] = ProcKey(id)[2]
  BY DEF ProcEntries
<1> HIDE DEF p
<1>2. DOMAIN e.targets \subseteq Ids
  BY EnvIs
<1>3. \A id : ProcKey(id) \in DOMAIN p <=> id \in DOMAIN e.targets
  BY <1>1, KeysDiffer
<1>4. \A fd : FdKey(fd) \notin DOMAIN p
  BY <1>1, KeysDiffer
<1>5. \A id \in DOMAIN e.targets : p[ProcKey(id)] = id
  BY <1>1, KeysDiffer
<1>6. \A k \in DOMAIN p : p[k] \in Refers
  BY <1>1, <1>2, <1>5 DEF Refers
<1>7. QED
  BY <1>3, <1>4, <1>5, <1>6 DEF p

LEMMA FdEntriesAre ==
  ASSUME NEW e \in Env, Owned(e)
  PROVE  LET p == FdEntries(e)
         IN /\ \A fd : FdKey(fd) \in DOMAIN p <=> \E id \in DOMAIN e.targets : e.targets[id].fd = fd /\ fd > 0
            /\ \A id \in DOMAIN e.targets : e.targets[id].fd > 0 => p[FdKey(e.targets[id].fd)] = id
            /\ \A id : ProcKey(id) \notin DOMAIN p
            /\ \A k \in DOMAIN p : p[k] \in Refers
<1> DEFINE S == {i \in DOMAIN e.targets : e.targets[i].fd > 0}
           g == [id \in S |-> e.targets[id].fd]
           p == ByFd(g)
<1>1. \A id \in S : e.targets[id].fd \in Fds \ {0} /\ id \in DOMAIN e.targets /\ id \in Ids
  BY EnvIs, SocketOf
<1>2. IsInjective(g)
  BY <1>1, OneTarget DEF IsInjective
<1>3. DOMAIN g = S /\ \A id \in S : g[id] = e.targets[id].fd
  OBVIOUS
<1> HIDE DEF g
<1>4. /\ DOMAIN p = {FdKey(g[r]) : r \in DOMAIN g}
      /\ \A r \in DOMAIN g : p[FdKey(g[r])] = r
      /\ \A k \in DOMAIN p : p[k] \in DOMAIN g
  BY <1>2, ByFdIs
<1>5. p = FdEntries(e)
  BY DEF FdEntries, g
<1> HIDE DEF p
<1>6. \A fd : FdKey(fd) \in DOMAIN p <=> \E id \in DOMAIN e.targets : e.targets[id].fd = fd /\ fd > 0
  BY <1>3, <1>4, KeysDiffer
<1>7. \A id : ProcKey(id) \notin DOMAIN p
  BY <1>4, KeysDiffer
<1>8. \A k \in DOMAIN p : p[k] \in Refers
  BY <1>1, <1>3, <1>4 DEF Refers
<1>9. \A id \in DOMAIN e.targets : e.targets[id].fd > 0 => p[FdKey(e.targets[id].fd)] = id
  BY <1>3, <1>4
<1>10. QED
  BY <1>5, <1>6, <1>7, <1>8, <1>9

\* An entry is inserted where there is none.
LEMMA InsertFills ==
  ASSUME NEW map \in HashMaps, NEW new, NEW k \in Key, map.on, k \in DOMAIN new,
         \A j \in DOMAIN new : new[j] \in Refers,
         map.chain[k] = <<>> \/ map.chain[k] = <<new[k]>>
  PROVE  Insert(map, map, new).chain[k] = <<new[k]>>
<1>1. CASE map.chain[k] = <<>>
  BY <1>1, FetchIs, InsertIs
<1>2. CASE map.chain[k] = <<new[k]>>
  <2>1. Fetch(map, k) # Null
    <3>1. <<new[k]>> # <<>>
      OBVIOUS
    <3>2. QED
      BY <1>2, <3>1, FetchIs
  <2>2. QED
    BY <1>2, <2>1, InsertIs
<1>3. QED
  BY <1>1, <1>2

LEMMA RehashIs ==
  ASSUME NEW e \in Env, Owned(e), NoWrongEntry(e)
  PROVE  LET x == Rehash(e)
         IN /\ Has(x, e.targets, e.sending, x.tmap, e.cmap, e.clients, e.items, e.open, e.listening)
            /\ TargetMapExact(x)
<1> DEFINE p == ProcEntries(e)
           f == FdEntries(e)
           m == Insert(e.tmap, e.tmap, p)
           n == Insert(m, m, f)
           x == Rehash(e)
<1>1. e.tmap \in HashMaps /\ DOMAIN e.targets \subseteq Ids
  BY EnvIs
<1>2. /\ \A id : ProcKey(id) \in DOMAIN p <=> id \in DOMAIN e.targets
      /\ \A id \in DOMAIN e.targets : p[ProcKey(id)] = id
      /\ \A fd : FdKey(fd) \notin DOMAIN p
      /\ \A k \in DOMAIN p : p[k] \in Refers
  BY ProcEntriesAre
<1>3. /\ \A fd : FdKey(fd) \in DOMAIN f <=> \E id \in DOMAIN e.targets : e.targets[id].fd = fd /\ fd > 0
      /\ \A id \in DOMAIN e.targets : e.targets[id].fd > 0 => f[FdKey(e.targets[id].fd)] = id
      /\ \A id : ProcKey(id) \notin DOMAIN f
      /\ \A k \in DOMAIN f : f[k] \in Refers
  BY FdEntriesAre
<1>4. x = [e EXCEPT !.tmap = n]
  BY DEF Rehash
<1> HIDE DEF p, f, x
<1>5. /\ m \in HashMaps /\ m.on = e.tmap.on
      /\ \A k \in Key : k \notin DOMAIN p => m.chain[k] = e.tmap.chain[k]
  BY <1>1, <1>2, InsertIs
<1>6. \A k \in Key : /\ e.tmap.on /\ k \in DOMAIN p
                     /\ e.tmap.chain[k] = <<>> \/ e.tmap.chain[k] = <<p[k]>>
                     => m.chain[k] = <<p[k]>>
  BY <1>1, <1>2, InsertFills
<1> HIDE DEF m
<1>7. /\ n \in HashMaps /\ n.on = m.on
      /\ \A k \in Key : k \notin DOMAIN f => n.chain[k] = m.chain[k]
  BY <1>3, <1>5, InsertIs
<1>8. \A k \in Key : /\ m.on /\ k \in DOMAIN f
                     /\ m.chain[k] = <<>> \/ m.chain[k] = <<f[k]>>
                     => n.chain[k] = <<f[k]>>
  BY <1>3, <1>5, InsertFills
<1> HIDE DEF n
<1>9. Has(x, e.targets, e.sending, n, e.cmap, e.clients, e.items, e.open, e.listening)
  BY <1>4, <1>7 DEF Has, Env
<1>10. ASSUME NEW id \in Ids
       PROVE  n.chain[ProcKey(id)] = IF id \in DOMAIN e.targets THEN <<id>> ELSE <<>>
  <2>0. ProcKey(id) \in Key
    BY KeyIs
  <2>1. n.chain[ProcKey(id)] = m.chain[ProcKey(id)]
    BY <1>3, <1>7, <2>0
  <2>2. CASE id \in DOMAIN e.targets
    <3>1. e.tmap.on /\ (e.tmap.chain[ProcKey(id)] = <<>> \/ e.tmap.chain[ProcKey(id)] = <<id>>)
      BY <2>2 DEF NoWrongEntry
    <3>2. m.chain[ProcKey(id)] = <<id>>
      BY <1>2, <1>6, <2>0, <2>2, <3>1
    <3>3. QED
      BY <2>1, <2>2, <3>2
  <2>3. CASE id \notin DOMAIN e.targets
    <3>1. e.tmap.chain[ProcKey(id)] = <<>>
      BY <2>3 DEF NoWrongEntry
    <3>2. QED
      BY <1>2, <1>5, <2>0, <2>1, <2>3, <3>1
  <2>4. QED
    BY <2>2, <2>3
<1>11. ASSUME NEW id \in DOMAIN e.targets, e.targets[id].fd > 0
       PROVE  n.chain[FdKey(e.targets[id].fd)] = <<id>>
  <2> DEFINE fd == e.targets[id].fd
             k == FdKey(fd)
  <2>0. fd \in Fds \ {0}
    BY <1>11, SocketOf
  <2>1. k \in Key /\ m.chain[k] = e.tmap.chain[k]
    BY <1>2, <1>5, <2>0, KeyIs
  <2>2. e.tmap.chain[k] = <<>> \/ e.tmap.chain[k] = <<id>>
    <3>1. \A i \in DOMAIN e.targets : e.targets[i].fd = fd => i = id
      BY <2>0, OneTarget
    <3> HIDE DEF fd
    <3>2. QED
      BY <2>0, <3>1 DEF NoWrongEntry
  <2>3. k \in DOMAIN f /\ f[k] = id /\ m.on
    BY <1>3, <1>5, <1>11 DEF NoWrongEntry
  <2> HIDE DEF k
  <2>4. QED
    BY <1>8, <2>1, <2>2, <2>3 DEF k
<1>12. ASSUME NEW fd \in Fds \ {0}, \A id \in DOMAIN e.targets : e.targets[id].fd # fd
       PROVE  n.chain[FdKey(fd)] = <<>>
  <2>1. e.tmap.chain[FdKey(fd)] = <<>> /\ FdKey(fd) \in Key
    BY <1>12, KeyIs DEF NoWrongEntry
  <2>2. FdKey(fd) \notin DOMAIN f /\ FdKey(fd) \notin DOMAIN p
    BY <1>2, <1>3, <1>12
  <2>3. QED
    BY <1>5, <1>7, <2>1, <2>2
<1>13. TargetMapExact(x)
  <2>1. x.tmap = n /\ x.targets = e.targets
    BY <1>9 DEF Has
  <2>2. n.on <=> DOMAIN e.targets # {}
    BY <1>5, <1>7 DEF NoWrongEntry
  <2>3. QED
    BY <1>10, <1>11, <1>12, <2>1, <2>2 DEF TargetMapExact
<1>14. QED
  BY <1>9, <1>13 DEF Has, x

LEMMA RehashSound ==
  ASSUME NEW e, Sound(e)
  PROVE  Sound(Rehash(e)) /\ (Itemized(e) => Itemized(Rehash(e)))
<1> DEFINE x == Rehash(e)
<1>1. /\ Has(x, e.targets, e.sending, x.tmap, e.cmap, e.clients, e.items, e.open, e.listening)
      /\ TargetMapExact(x)
  BY RehashIs, ExactIsRight DEF Sound
<1> HIDE DEF x
<1>2. Settled(x) /\ Marked(x) /\ (Itemized(e) => Itemized(x)) /\ ClientMapSound(x)
  BY <1>1 DEF Has, Sound, Settled, Marked, Itemized, ClientMapSound
<1>3. Owned(x)
  BY <1>1 DEF Has, Sound, Owned, Owners
<1>4. Sound(x)
  BY <1>1, <1>2, <1>3 DEF Sound, Has
<1>5. QED
  BY <1>2, <1>4 DEF x

\* The map of clients is filled up from those that have verified.
LEMMA CheckClientHashMapSound ==
  ASSUME NEW e, Sound(e)
  PROVE  LET x == CheckClientHashMap(e)
         IN Sound(x) /\ (Itemized(e) => Itemized(x))
<1> DEFINE known == {c \in DOMAIN e.clients : e.clients[c].fd > 0 /\ e.clients[c].verify}
           g == [c \in known |-> e.clients[c].fd]
           wanted == ByFd(g)
           map == [e.cmap EXCEPT !.on = TRUE]
           found == {k \in DOMAIN wanted : Fetch(map, k) # Null}
           chain == [k \in Key |-> IF k \in found THEN <<wanted[k]>> \o Tail(map.chain[k]) ELSE map.chain[k]]
           updated == [map EXCEPT !.chain = chain]
           rest == Restrict(wanted, DOMAIN wanted \ found)
           m == IF DOMAIN e.clients = {} THEN NoMap ELSE Insert(updated, e.tmap, rest)
           x == CheckClientHashMap(e)
<1>0. /\ e \in Env /\ Owned(e) /\ ClientMapSound(e)
      /\ e.cmap \in HashMaps /\ e.tmap \in HashMaps /\ DOMAIN e.clients \subseteq Cids
      /\ \A c \in DOMAIN e.clients : e.clients[c] \in Client
  BY EnvIs DEF Sound
<1>1. x = [e EXCEPT !.cmap = m]
  BY DEF CheckClientHashMap
<1> HIDE DEF x
<1>2. map \in HashMaps /\ map.on /\ map.chain = e.cmap.chain
  BY <1>0 DEF HashMaps
<1>3. \A c \in known : e.clients[c].fd \in Fds \ {0} /\ c \in Cids /\ c \in DOMAIN e.clients
  <2>1. 0 > 0 <=> FALSE
    OBVIOUS
  <2>2. QED
    BY <1>0, <2>1 DEF Client
<1>4. /\ DOMAIN wanted = {FdKey(e.clients[c].fd) : c \in known}
      /\ \A c \in known : wanted[FdKey(e.clients[c].fd)] = c
  <2>1. IsInjective(g)
    BY <1>0, <1>3, OneTarget DEF IsInjective
  <2>2. DOMAIN g = known /\ \A c \in known : g[c] = e.clients[c].fd
    OBVIOUS
  <2> HIDE DEF g
  <2>3. /\ DOMAIN wanted = {FdKey(g[c]) : c \in DOMAIN g}
        /\ \A c \in DOMAIN g : wanted[FdKey(g[c])] = c
    BY <2>1, ByFdIs
  <2> HIDE DEF wanted, known
  <2>4. QED
    BY <2>2, <2>3
<1> HIDE DEF known, g, wanted, map
<1>5. \A k \in DOMAIN wanted : /\ k \in Key /\ wanted[k] \in Cids /\ wanted[k] \in DOMAIN e.clients
                               /\ k = FdKey(e.clients[wanted[k]].fd)
  BY <1>3, <1>4, KeyIs
<1>6. \A k \in found : map.chain[k] = <<wanted[k]>>
  <2> SUFFICES ASSUME NEW k \in found
               PROVE  map.chain[k] = <<wanted[k]>>
    OBVIOUS
  <2>1. PICK c \in known : k = FdKey(e.clients[c].fd)
    BY <1>4
  <2>2. k \in Key /\ map.chain[k] # <<>>
    BY <1>2, <1>5, FetchIs
  <2>3. PICK d \in DOMAIN e.clients : k = FdKey(e.clients[d].fd) /\ map.chain[k] = <<d>>
    BY <1>0, <1>2, <2>2 DEF ClientMapSound
  <2>4. d = c
    <3>1. e.clients[d].fd = e.clients[c].fd
      BY <2>1, <2>3 DEF FdKey
    <3>2. e.clients[c].fd \in Fds \ {0} /\ c \in DOMAIN e.clients
      BY <1>3
    <3>3. QED
      BY <1>0, <3>1, <3>2, OneTarget
  <2>5. QED
    BY <1>4, <2>1, <2>3, <2>4
<1>7. \A k \in Key : chain[k] = map.chain[k]
  <2>1. \A y : <<y>> \o Tail(<<y>>) = <<y>>
    OBVIOUS
  <2>2. QED
    BY <1>6, <2>1
<1>8. chain \in [Key -> Seq(Refers)]
  <2>1. chain = [k \in Key |-> chain[k]]
    OBVIOUS
  <2>2. \A k \in Key : map.chain[k] \in Seq(Refers)
    BY <1>2, MapIs
  <2> HIDE DEF chain
  <2>3. QED
    BY <1>7, <2>1, <2>2
<1> HIDE DEF chain
<1>9. updated \in HashMaps /\ updated.on /\ updated.chain = chain
  <2>1. updated = [on |-> map.on, chain |-> chain]
    BY <1>2, NewChain
  <2>2. QED
    BY <1>2, <1>8, <2>1 DEF HashMaps
<1>10. /\ DOMAIN rest = DOMAIN wanted \ found
       /\ \A k \in DOMAIN rest : rest[k] = wanted[k] /\ rest[k] \in Refers
  BY <1>5 DEF Restrict, Refers
<1>11. \A k \in DOMAIN rest : map.chain[k] = <<>>
  BY <1>2, <1>5, <1>10, FetchIs
<1> HIDE DEF updated, rest, found
<1>12. /\ Insert(updated, e.tmap, rest) \in HashMaps
       /\ \A k \in Key :
            k \notin DOMAIN rest \/ Fetch(e.tmap, k) # Null
              => Insert(updated, e.tmap, rest).chain[k] = updated.chain[k]
       /\ \A k \in Key :
            k \in DOMAIN rest /\ Fetch(e.tmap, k) = Null /\ updated.chain[k] = <<>>
              => Insert(updated, e.tmap, rest).chain[k] = <<rest[k]>>
  BY <1>0, <1>9, <1>10, InsertIs
<1>13. /\ m \in HashMaps
       /\ \A k \in Key :
            \/ m.chain[k] = <<>>
            \/ m.chain[k] = e.cmap.chain[k]
            \/ k \in DOMAIN wanted /\ m.chain[k] = <<wanted[k]>>
  <2>1. CASE DOMAIN e.clients = {}
    BY <2>1, NoMapIs
  <2>2. CASE DOMAIN e.clients # {}
    BY <1>2, <1>7, <1>9, <1>10, <1>11, <1>12, <2>2
  <2>3. QED
    BY <2>1, <2>2
<1> HIDE DEF m
<1>14. Has(x, e.targets, e.sending, e.tmap, m, e.clients, e.items, e.open, e.listening)
  BY <1>0, <1>1, <1>13 DEF Has, Env
<1>15. Owned(x)
  BY <1>0, <1>14 DEF Has, Owned, Owners
<1>16. ClientMapSound(x)
  BY <1>0, <1>5, <1>13, <1>14 DEF Has, ClientMapSound
<1>17. Sound(x) /\ (Itemized(e) => Itemized(x))
  BY <1>14, <1>15, <1>16, SameTargets DEF Has
<1>18. QED
  BY <1>17 DEF x

-----------------------------------------------------------------------------
(* The configuration.                                                      *)

LEMMA ConfigIs ==
  ASSUME NEW cfg \in Configs
  PROVE  DOMAIN cfg \subseteq Ids /\ \A id \in DOMAIN cfg : cfg[id] \in Addrs
  BY CarrierAssumption

LEMMA NewTargetIs ==
  ASSUME NEW addr \in Addrs, NEW fd \in {NoFd, 0}
  PROVE  LET t == NewTarget(addr, fd)
         IN /\ t \in Target /\ t.addr = addr /\ t.fd = fd /\ t.conn = "none"
            /\ ~t.ver /\ ~t.data /\ ~t.listed
  BY KeysAssumption DEF NewTarget, Target

LEMMA RebuiltIs ==
  ASSUME NEW e \in Env, Owned(e)
  PROVE  LET x == Rebuilt(e)
         IN /\ Has(x, e.targets, e.sending, x.tmap, e.cmap, e.clients, e.items, e.open, e.listening)
            /\ TargetMapExact(x)
<1> DEFINE n == Cardinality(DOMAIN e.targets)
           m == InitMap(NoMap, n)
           b == [e EXCEPT !.tmap = m]
           x == Rebuilt(e)
<1>1. n \in Nat /\ (n > 0 <=> DOMAIN e.targets # {})
  <2>1. IsFiniteSet(DOMAIN e.targets)
    BY EnvIs, KeysAssumption, FS_Subset
  <2>2. QED
    BY <2>1, FS_CardinalityType, FS_EmptySet
<1> HIDE DEF n
<1>2. m \in HashMaps /\ (m.on <=> n > 0) /\ \A k \in Key : m.chain[k] = <<>>
  <2>1. ASSUME NEW map \in HashMaps
        PROVE  LET on == [map EXCEPT !.on = TRUE]
               IN on \in HashMaps /\ on.on /\ on.chain = map.chain
    BY DEF HashMaps
  <2>2. CASE n > 0
    <3>1. m = [NoMap EXCEPT !.on = TRUE]
      BY <2>2, NoMapIs DEF InitMap
    <3> HIDE DEF m
    <3>2. QED
      BY <2>1, <2>2, <3>1, NoMapIs
  <2>3. CASE ~(n > 0)
    <3>1. m = NoMap
      BY <2>3 DEF InitMap
    <3>2. QED
      BY <2>3, <3>1, NoMapIs
  <2>4. QED
    BY <2>2, <2>3
<1>3. x = Rehash(b)
  BY DEF Rebuilt, n
<1> HIDE DEF m
<1>4. Has(b, e.targets, e.sending, m, e.cmap, e.clients, e.items, e.open, e.listening)
  BY <1>2 DEF Has, Env
<1> HIDE DEF b, x
<1>5. NoWrongEntry(b)
  BY <1>1, <1>2, <1>4, KeyIs DEF NoWrongEntry, Has
<1>6. Owned(b)
  BY <1>4 DEF Owned, Owners, Has
<1>7. /\ Has(x, b.targets, b.sending, x.tmap, b.cmap, b.clients, b.items, b.open, b.listening)
      /\ TargetMapExact(x)
  BY <1>3, <1>4, <1>5, <1>6, RehashIs DEF Has
<1>8. QED
  BY <1>4, <1>7 DEF Has, x

LEMMA RebuiltSound ==
  ASSUME NEW e \in Env, Settled(e), Owned(e), ClientMapSound(e), Marked(e)
  PROVE  Sound(Rebuilt(e)) /\ Rebuilt(e).targets = e.targets
<1> DEFINE x == Rebuilt(e)
<1>1. /\ Has(x, e.targets, e.sending, x.tmap, e.cmap, e.clients, e.items, e.open, e.listening)
      /\ TargetMapExact(x)
  BY RebuiltIs
<1> HIDE DEF x
<1>2. Settled(x) /\ Marked(x) /\ ClientMapSound(x) /\ x.targets = e.targets
  BY <1>1 DEF Has, Settled, Marked, ClientMapSound
<1>3. Owned(x)
  BY <1>1 DEF Has, Owned, Owners
<1>4. Sound(x)
  BY <1>1, <1>2, <1>3 DEF Sound, Has
<1>5. QED
  BY <1>2, <1>4 DEF x

LEMMA RebuildItemsSound ==
  ASSUME NEW e, Sound(e)
  PROVE  LET x == RebuildItems(e)
         IN Sound(x) /\ Itemized(x) /\ x.targets = e.targets
<1> DEFINE new == [id \in DOMAIN e.targets |-> e.targets[id].addr]
           i == IF ~IsManager THEN e.items ELSE new
           x == RebuildItems(e)
<1>0. e \in Env
  BY DEF Sound
<1>1. new \in Partial(Ids, Addrs)
  <2>1. DOMAIN e.targets \subseteq Ids /\ \A id \in DOMAIN e.targets : e.targets[id].addr \in Addrs
    BY <1>0, EnvIs, TargetIs
  <2>2. new \in [DOMAIN e.targets -> Addrs]
    BY <2>1
  <2> HIDE DEF new
  <2>3. QED
    BY <2>1, <2>2, InPartial
<1>2. x = [e EXCEPT !.items = i]
  BY DEF RebuildItems
<1>3. i \in Partial(Ids, Addrs) /\ (IsManager => i = new)
  BY <1>0, <1>1, EnvIs
<1> HIDE DEF i, x
<1>4. Has(x, e.targets, e.sending, e.tmap, e.cmap, e.clients, i, e.open, e.listening)
  BY <1>0, <1>2, <1>3 DEF Has, Env
<1>5. Itemized(x)
  BY <1>3, <1>4 DEF Has, Itemized
<1>6. Settled(x) /\ Marked(x) /\ ClientMapSound(x) /\ TargetMapExact(x)
  <2>1. Settled(x) /\ Marked(x)
    BY <1>4 DEF Has, Sound, Settled, Marked
  <2>2. ClientMapSound(x)
    BY <1>4 DEF Has, Sound, ClientMapSound
  <2>3. TargetMapExact(x)
    BY <1>4 DEF Has, Sound, TargetMapExact
  <2>4. QED
    BY <2>1, <2>2, <2>3
<1>7. Owned(x)
  BY <1>4 DEF Has, Sound, Owned, Owners
<1>8. Sound(x)
  BY <1>4, <1>6, <1>7 DEF Sound, Has
<1>9. QED
  BY <1>4, <1>5, <1>8 DEF Has, x

\* The targets as the new configuration has them, before those that are
\* gone are off the sending list and the map is built anew.
Merged(e, cfg) ==
  [CloseTargetFd(e, ToClose(e, cfg)) EXCEPT !.targets = [id \in DOMAIN cfg |->
     IF id \in DOMAIN @ THEN [@[id] EXCEPT !.addr = cfg[id]] ELSE NewTarget(cfg[id], NoFd)]]

\* What holds then.
MergedTo(e, cfg, x) ==
  /\ x \in Env /\ Settled(x) /\ Owned(x) /\ ClientMapSound(x)
  /\ DOMAIN x.targets = DOMAIN cfg
  /\ \A id \in DOMAIN cfg : /\ x.targets[id].addr = cfg[id]
                            /\ x.targets[id].listed => id \in ToSet(x.sending)
  /\ \A id \in DOMAIN cfg \cap DOMAIN e.targets :
       e.targets[id].addr = cfg[id] =>
         /\ x.targets[id].fd = e.targets[id].fd /\ x.targets[id].conn = e.targets[id].conn
         /\ x.targets[id].data = e.targets[id].data

LEMMA MergedIs ==
  ASSUME NEW e, Sound(e), NEW cfg \in Configs
  PROVE  MergedTo(e, cfg, Merged(e, cfg))
<1> DEFINE ids == ToClose(e, cfg)
           c == CloseTargetFd(e, ids)
           old == [id \in DOMAIN cfg |-> [c.targets[id] EXCEPT !.addr = cfg[id]]]
           new == [id \in DOMAIN cfg |-> NewTarget(cfg[id], NoFd)]
           t == [id \in DOMAIN cfg |-> IF id \in DOMAIN c.targets THEN old[id] ELSE new[id]]
           x == Merged(e, cfg)
<1>0. ids \in SUBSET DOMAIN e.targets /\ \A id \in DOMAIN e.targets \ DOMAIN cfg : id \in ids
  BY DEF ToClose
<1>1. /\ DOMAIN cfg \subseteq Ids
      /\ \A id \in DOMAIN cfg : cfg[id] \in Addrs
  BY ConfigIs
<1>2. \A id \in DOMAIN cfg \cap DOMAIN e.targets : e.targets[id].addr = cfg[id] => id \notin ids
  BY DEF ToClose
<1>3. x = [c EXCEPT !.targets = t]
  <2>1. t = [id \in DOMAIN cfg |->
               IF id \in DOMAIN c.targets THEN [c.targets[id] EXCEPT !.addr = cfg[id]]
               ELSE NewTarget(cfg[id], NoFd)]
    OBVIOUS
  <2> HIDE DEF t, old, new
  <2>2. QED
    BY <2>1 DEF Merged
<1> HIDE DEF ids
<1>4. /\ Follows(e, c, ids)
      /\ \A id \in ids : c.targets[id].conn = "none"
      /\ \A id \in DOMAIN e.targets \ ids : c.targets[id] = e.targets[id]
  BY <1>0, CloseFollows
<1> HIDE DEF c, x
<1>5. /\ c \in Env /\ Settled(c) /\ Owned(c) /\ ClientMapSound(c) /\ Marked(c)
      /\ DOMAIN c.targets = DOMAIN e.targets
      /\ \A id \in DOMAIN c.targets : c.targets[id] \in Target
  BY <1>4, EnvIs DEF Follows, Sound
<1>6. \A id \in DOMAIN cfg \cap DOMAIN c.targets :
        /\ old[id] \in Target /\ old[id].addr = cfg[id] /\ old[id].fd = c.targets[id].fd
        /\ old[id].conn = c.targets[id].conn /\ old[id].ver = c.targets[id].ver
        /\ old[id].data = c.targets[id].data /\ old[id].listed = c.targets[id].listed
  <2> SUFFICES ASSUME NEW id \in DOMAIN cfg, id \in DOMAIN c.targets
               PROVE  /\ old[id] \in Target /\ old[id].addr = cfg[id] /\ old[id].fd = c.targets[id].fd
                      /\ old[id].conn = c.targets[id].conn /\ old[id].ver = c.targets[id].ver
                      /\ old[id].data = c.targets[id].data /\ old[id].listed = c.targets[id].listed
    OBVIOUS
  <2> DEFINE a == c.targets[id]
             b == cfg[id]
  <2>1. old[id] = [a EXCEPT !.addr = b] /\ a \in Target /\ b \in Addrs
    BY <1>1, <1>5
  <2> HIDE DEF old, a, b
  <2>2. /\ old[id] \in Target /\ old[id].addr = b /\ old[id].fd = a.fd
        /\ old[id].conn = a.conn /\ old[id].ver = a.ver
        /\ old[id].data = a.data /\ old[id].listed = a.listed
    BY <2>1 DEF Target
  <2>3. QED
    BY <2>2 DEF a, b
<1>7. \A id \in DOMAIN cfg :
        /\ new[id] \in Target /\ new[id].addr = cfg[id] /\ new[id].fd = NoFd /\ new[id].conn = "none"
        /\ ~new[id].ver /\ ~new[id].data /\ ~new[id].listed
  <2> SUFFICES ASSUME NEW id \in DOMAIN cfg
               PROVE  /\ new[id] \in Target /\ new[id].addr = cfg[id] /\ new[id].fd = NoFd /\ new[id].conn = "none"
                      /\ ~new[id].ver /\ ~new[id].data /\ ~new[id].listed
    OBVIOUS
  <2>1. new[id] = NewTarget(cfg[id], NoFd) /\ cfg[id] \in Addrs
    BY <1>1
  <2> HIDE DEF new
  <2>2. QED
    BY <2>1, NewTargetIs
<1> HIDE DEF old, new
<1>8. DOMAIN t = DOMAIN cfg /\ \A id \in DOMAIN cfg : t[id] = IF id \in DOMAIN c.targets THEN old[id] ELSE new[id]
  OBVIOUS
<1> HIDE DEF t
<1>9. t \in Partial(Ids, Target)
  <2>1. t = [id \in DOMAIN cfg |-> t[id]]
    BY DEF t
  <2>2. t \in [DOMAIN cfg -> Target]
    BY <1>6, <1>7, <1>8, <2>1
  <2>3. QED
    BY <1>1, <2>2, InPartial
<1>10. Has(x, t, c.sending, c.tmap, c.cmap, c.clients, c.items, c.open, c.listening)
  BY <1>3, <1>5, <1>9 DEF Has, Env
<1>11. Settled(x)
  BY <1>5, <1>6, <1>7, <1>8, <1>10 DEF Settled, Has, NoFd
<1>12. Owned(x)
  <2>1. ASSUME NEW fd \in Fds \ {0}
        PROVE  Owners(x, fd) = Owners(c, fd)
    <3>1. fd # NoFd /\ fd > 0 /\ fd \in Int
      BY KeysAssumption DEF NoFd
    <3>2. \A id \in DOMAIN c.targets : c.targets[id].fd = fd => id \notin ids
      BY <1>4, <1>5, <3>1, TargetIs DEF Settled
    <3>3. \A id \in DOMAIN c.targets : c.targets[id].fd = fd => id \in DOMAIN cfg
      BY <1>0, <1>5, <3>2
    <3>4. \A id \in DOMAIN cfg : t[id].fd = fd <=> id \in DOMAIN c.targets /\ c.targets[id].fd = fd
      BY <1>6, <1>7, <1>8, <3>1
    <3>5. {id \in DOMAIN t : t[id].fd = fd} = {id \in DOMAIN c.targets : c.targets[id].fd = fd}
      BY <1>8, <3>3, <3>4
    <3>6. QED
      BY <1>10, <3>5 DEF Owners, Has
  <2>2. QED
    BY <1>5, <1>10, <2>1 DEF Owned, Has
<1>13. ClientMapSound(x)
  BY <1>5, <1>10 DEF ClientMapSound, Has
<1>14. \A id \in DOMAIN cfg : x.targets[id].addr = cfg[id] /\ (x.targets[id].listed => id \in ToSet(x.sending))
  BY <1>5, <1>6, <1>7, <1>8, <1>10 DEF Has, Marked
<1>15. \A id \in DOMAIN cfg \cap DOMAIN e.targets :
         e.targets[id].addr = cfg[id] =>
           /\ x.targets[id].fd = e.targets[id].fd /\ x.targets[id].conn = e.targets[id].conn
           /\ x.targets[id].data = e.targets[id].data
  BY <1>2, <1>4, <1>5, <1>6, <1>8, <1>10 DEF Has
<1>16. MergedTo(e, cfg, x)
  BY <1>8, <1>10, <1>11, <1>12, <1>13, <1>14, <1>15 DEF MergedTo, Has
<1>17. QED
  BY <1>16 DEF x

\* y is e after its targets have become those of cfg.
CopiedTo(e, cfg, y) ==
  /\ Sound(y) /\ DOMAIN y.targets = DOMAIN cfg
  /\ \A id \in DOMAIN cfg : y.targets[id].addr = cfg[id]
  /\ \A id \in DOMAIN cfg \cap DOMAIN e.targets :
       e.targets[id].addr = cfg[id] /\ ~e.targets[id].data =>
         y.targets[id].fd = e.targets[id].fd /\ y.targets[id].conn = e.targets[id].conn

LEMMA CopyTargetInfoIs ==
  ASSUME NEW e, Sound(e), NEW cfg \in Configs, NEW y \in CopyTargetInfo(e, cfg)
  PROVE  CopiedTo(e, cfg, y)
<1> DEFINE g == Merged(e, cfg)
<1>1. MergedTo(e, cfg, g)
  BY MergedIs
<1>2. PICK x \in DelSendingList(g) : y = Rebuilt(x)
  BY DEF CopyTargetInfo, Merged
<1> HIDE DEF g
<1>3. PICK w \in IterList(g, TRUE) : x = [w EXCEPT !.sending = <<>>]
  BY <1>2 DEF DelSendingList
<1>4. PICK failed \in SUBSET Busy(g) :
        w \in {Flushed(g, failed, kept, IF TRUE THEN {} ELSE kept) : kept \in SUBSET (Busy(g) \ failed)}
  BY <1>3 DEF IterList
<1>5. PICK kept \in SUBSET (Busy(g) \ failed) : w = Flushed(g, failed, kept, {})
  BY <1>4
<1>6. WalkedTo(g, w, failed, {})
  <2>1. {} \in SUBSET kept
    OBVIOUS
  <2>2. QED
    BY <1>1, <1>5, <2>1, FlushedIs DEF MergedTo
<1>7. Owned(w) /\ ClientMapSound(w) /\ Settled(w) /\ w \in Env /\ DOMAIN w.targets = DOMAIN g.targets
  BY <1>1, <1>6, TouchedOwned, TouchedMaps DEF WalkedTo, MergedTo, Touches
<1>8. \A id \in DOMAIN w.targets : ~w.targets[id].listed
  <2> SUFFICES ASSUME NEW id \in DOMAIN w.targets
               PROVE  ~w.targets[id].listed
    OBVIOUS
  <2>1. w.targets[id].listed = IF id \in Nodes(g) \ {} THEN FALSE ELSE g.targets[id].listed
    BY <1>6, <1>7 DEF WalkedTo
  <2>2. g.targets[id].listed => id \in Nodes(g)
    BY <1>1, <1>7 DEF MergedTo, Nodes
  <2>3. QED
    BY <2>1, <2>2
<1>9. Has(x, w.targets, <<>>, w.tmap, w.cmap, w.clients, w.items, w.open, w.listening)
  <2>1. <<>> \in Seq(Ids)
    OBVIOUS
  <2> DEFINE none == <<>>
  <2>2. none \in Seq(Ids) /\ x = [w EXCEPT !.sending = none]
    BY <1>3, <2>1
  <2> HIDE DEF none
  <2>3. Has(x, w.targets, none, w.tmap, w.cmap, w.clients, w.items, w.open, w.listening)
    BY <1>7, <2>2 DEF Has, Env
  <2>4. QED
    BY <2>3 DEF none
<1>10. Marked(x)
  <2>1. IsInjective(<<>>) /\ ToSet(<<>>) = {}
    BY DEF IsInjective, ToSet
  <2>2. {id \in DOMAIN x.targets : x.targets[id].listed} = {}
    BY <1>8, <1>9 DEF Has
  <2>3. QED
    BY <1>9, <2>1, <2>2 DEF Marked, Has
<1>11. Settled(x) /\ ClientMapSound(x)
  BY <1>7, <1>9 DEF Has, Settled, ClientMapSound
<1>12. Owned(x)
  BY <1>7, <1>9 DEF Has, Owned, Owners
<1>13. Sound(y) /\ y.targets = w.targets
  BY <1>2, <1>9, <1>10, <1>11, <1>12, RebuiltSound DEF Has
<1>14. DOMAIN y.targets = DOMAIN cfg /\ \A id \in DOMAIN cfg : y.targets[id].addr = cfg[id]
  BY <1>1, <1>6, <1>7, <1>13 DEF MergedTo, WalkedTo, Touches
<1>15. ASSUME NEW id \in DOMAIN cfg \cap DOMAIN e.targets,
              e.targets[id].addr = cfg[id], ~e.targets[id].data
       PROVE  y.targets[id].fd = e.targets[id].fd /\ y.targets[id].conn = e.targets[id].conn
  <2>1. /\ g.targets[id].fd = e.targets[id].fd /\ g.targets[id].conn = e.targets[id].conn
        /\ ~g.targets[id].data /\ id \in DOMAIN g.targets
    BY <1>1, <1>15 DEF MergedTo
  <2>2. id \notin failed
    BY <2>1 DEF Busy
  <2>3. w.targets[id].fd = g.targets[id].fd /\ w.targets[id].conn = g.targets[id].conn
    BY <1>6, <2>1, <2>2 DEF WalkedTo, Touches
  <2>4. QED
    BY <1>13, <2>1, <2>3
<1>16. QED
  BY <1>13, <1>14, <1>15 DEF CopiedTo

LEMMA NoEnvSound == Sound(NoEnv) /\ Itemized(NoEnv)
<1>1. /\ NoEnv.targets = <<>> /\ NoEnv.sending = <<>> /\ NoEnv.tmap = NoMap /\ NoEnv.cmap = NoMap
      /\ NoEnv.clients = <<>> /\ NoEnv.items = <<>> /\ NoEnv.open = {} /\ NoEnv.listening = FALSE
  BY DEF NoEnv
<1>2. DOMAIN <<>> = {} /\ <<>> \in Seq(Ids)
  OBVIOUS
<1>3. \A S, T : <<>> \in Partial(S, T)
  <2> SUFFICES ASSUME NEW S, NEW T
               PROVE  <<>> \in Partial(S, T)
    OBVIOUS
  <2>1. <<>> \in [{} -> T] /\ {} \in SUBSET S
    OBVIOUS
  <2>2. QED
    BY <2>1 DEF Partial
<1>4. NoEnv \in Env
  BY <1>2, <1>3, NoMapIs DEF NoEnv, Env
<1> HIDE DEF NoEnv
<1>5. Settled(NoEnv) /\ Itemized(NoEnv)
  <2>1. <<>> = [id \in {} |-> NoEnv.targets[id].addr]
    OBVIOUS
  <2>2. QED
    BY <1>1, <1>2, <2>1 DEF Settled, Itemized
<1>6. Owned(NoEnv)
  BY <1>1, <1>2 DEF Owned, Owners
<1>7. TargetMapExact(NoEnv)
  BY <1>1, <1>2, NoMapIs, KeyIs DEF TargetMapExact
<1>8. ClientMapSound(NoEnv)
  BY <1>1, NoMapIs DEF ClientMapSound
<1>9. Marked(NoEnv)
  <2>1. IsInjective(<<>>) /\ ToSet(<<>>) = {}
    BY <1>2 DEF IsInjective, ToSet
  <2>2. QED
    BY <1>1, <1>2, <2>1 DEF Marked
<1>10. QED
  BY <1>4, <1>5, <1>6, <1>7, <1>8, <1>9 DEF Sound

\* main: the targets of the first configuration, and the listening socket.
LEMMA StartSound ==
  ASSUME NEW cfg \in Configs
  PROVE  LET x == RebuildItems(Rebuilt([NoEnv EXCEPT
                    !.targets = [id \in DOMAIN cfg |-> NewTarget(cfg[id], 0)],
                    !.open = {Listener}, !.listening = TRUE]))
         IN Sound(x) /\ Itemized(x)
<1> DEFINE t == [id \in DOMAIN cfg |-> NewTarget(cfg[id], 0)]
           s == [NoEnv EXCEPT !.targets = t, !.open = {Listener}, !.listening = TRUE]
<1>0. NoEnv \in Env /\ Marked(NoEnv) /\ ClientMapSound(NoEnv) /\ Owned(NoEnv)
  BY NoEnvSound DEF Sound
<1>1. /\ NoEnv.sending = <<>> /\ NoEnv.cmap = NoMap /\ NoEnv.clients = <<>>
      /\ ToSet(<<>>) = {} /\ DOMAIN <<>> = {}
  BY DEF NoEnv, ToSet
<1> HIDE DEF NoEnv
<1>2. \A id \in DOMAIN cfg :
        /\ t[id] \in Target /\ t[id].fd = 0 /\ t[id].conn = "none"
        /\ ~t[id].ver /\ ~t[id].data /\ ~t[id].listed
  <2> SUFFICES ASSUME NEW id \in DOMAIN cfg
               PROVE  /\ t[id] \in Target /\ t[id].fd = 0 /\ t[id].conn = "none"
                      /\ ~t[id].ver /\ ~t[id].data /\ ~t[id].listed
    OBVIOUS
  <2> DEFINE zero == 0
  <2>1. t[id] = NewTarget(cfg[id], zero) /\ cfg[id] \in Addrs /\ zero \in {NoFd, 0}
    BY ConfigIs
  <2> HIDE DEF zero, t
  <2>2. /\ t[id] \in Target /\ t[id].fd = zero /\ t[id].conn = "none"
        /\ ~t[id].ver /\ ~t[id].data /\ ~t[id].listed
    BY <2>1, NewTargetIs
  <2>3. QED
    BY <2>2 DEF zero
<1>3. t \in Partial(Ids, Target) /\ DOMAIN t = DOMAIN cfg
  <2>1. t \in [DOMAIN cfg -> Target]
    BY <1>2
  <2>2. DOMAIN cfg \in SUBSET Ids
    BY ConfigIs
  <2> HIDE DEF t
  <2>3. QED
    BY <2>1, <2>2, InPartial
<1> HIDE DEF t
<1>4. {Listener} \subseteq Fds
  BY KeysAssumption DEF Listener
<1>5. Has(s, t, NoEnv.sending, NoEnv.tmap, NoEnv.cmap, NoEnv.clients, NoEnv.items, {Listener}, TRUE)
  BY <1>0, <1>3, <1>4 DEF Has, Env
<1> HIDE DEF s
<1>6. Settled(s)
  BY <1>2, <1>3, <1>5 DEF Has, Settled, NoFd
<1>7. Owned(s)
  BY <1>1, <1>2, <1>3, <1>5 DEF Has, Owned, Owners, Listener
<1>8. ClientMapSound(s)
  BY <1>0, <1>5 DEF Has, ClientMapSound
<1>9. Marked(s)
  BY <1>0, <1>1, <1>2, <1>3, <1>5 DEF Has, Marked
<1>10. Sound(Rebuilt(s))
  BY <1>5, <1>6, <1>7, <1>8, <1>9, RebuiltSound DEF Has
<1>11. Sound(RebuildItems(Rebuilt(s))) /\ Itemized(RebuildItems(Rebuilt(s)))
  BY <1>10, RebuildItemsSound
<1>12. QED
  BY <1>11 DEF s, t

-----------------------------------------------------------------------------
(* Looking up.                                                             *)

LEMMA TheOneIs ==
  /\ \A x : TheOne({x}) = x
  /\ TheOne({}) = Null
  /\ \A S : TheOne(S) # Null => TheOne(S) \in S
  BY DEF TheOne

LEMMA LookupTarget ==
  ASSUME NEW e, Sound(e), NEW fd \in Fds \ {0}
  PROVE  Fd2Target(e, fd) = InList(e, fd)
<1> DEFINE S == {id \in DOMAIN e.targets : e.targets[id].fd = fd}
           k == FdKey(fd)
<1>0. /\ e \in Env /\ Owned(e) /\ TargetMapExact(e) /\ e.tmap \in HashMaps
      /\ DOMAIN e.targets \subseteq Ids
  BY EnvIs DEF Sound
<1>1. fd > 0 /\ ~(fd <= 0) /\ k \in Key
  BY KeysAssumption, KeyIs
<1>2. InList(e, fd) = TheOne(S)
  BY DEF InList
<1>3. CASE S = {}
  <2>1. e.tmap.chain[k] = <<>>
    BY <1>0, <1>3 DEF TargetMapExact
  <2>2. Fetch(e.tmap, k) = Null
    BY <1>0, <1>1, <2>1, FetchIs
  <2>3. TheOne(S) = Null
    BY <1>3, TheOneIs
  <2>4. QED
    BY <1>1, <1>2, <2>2, <2>3 DEF Fd2Target
<1>4. CASE S # {}
  <2>1. PICK id \in S : TRUE
    BY <1>4
  <2>2. S = {id}
    BY <1>0, <2>1, OneTarget
  <2>3. e.tmap.on /\ e.tmap.chain[k] = <<id>>
    BY <1>0, <1>1, <2>1 DEF TargetMapExact
  <2>4. Fetch(e.tmap, k) = id
    BY <1>0, <1>1, <2>3, FetchIs
  <2>5. id # Null
    BY <1>0, <2>1, KeysAssumption DEF Null
  <2>6. TheOne(S) = id
    BY <2>2, TheOneIs
  <2>7. QED
    BY <1>1, <1>2, <2>4, <2>5, <2>6 DEF Fd2Target
<1>5. QED
  BY <1>3, <1>4

LEMMA LookupProc ==
  ASSUME NEW e, Sound(e), NEW id \in Ids
  PROVE  ProcId2Target(e, id) = TheOne(DOMAIN e.targets \cap {id})
<1> DEFINE k == ProcKey(id)
<1>0. e \in Env /\ TargetMapExact(e) /\ e.tmap \in HashMaps /\ k \in Key
  BY EnvIs, KeyIs DEF Sound
<1>1. CASE id \notin DOMAIN e.targets
  <2>1. DOMAIN e.targets \cap {id} = {}
    BY <1>1
  <2>2. Fetch(e.tmap, k) = Null
    BY <1>0, <1>1, FetchIs DEF TargetMapExact
  <2>3. QED
    BY <2>1, <2>2, TheOneIs DEF ProcId2Target
<1>2. CASE id \in DOMAIN e.targets
  <2>1. DOMAIN e.targets \cap {id} = {id}
    BY <1>2
  <2>2. e.tmap.on /\ e.tmap.chain[k] = <<id>>
    BY <1>0, <1>2 DEF TargetMapExact
  <2>3. Fetch(e.tmap, k) = id
    BY <1>0, <2>2, FetchIs
  <2>4. id # Null
    BY KeysAssumption DEF Null
  <2>5. QED
    BY <2>1, <2>3, <2>4, TheOneIs DEF ProcId2Target
<1>3. QED
  BY <1>1, <1>2

LEMMA LookupClient ==
  ASSUME NEW e, Sound(e), NEW fd \in Fds \ {0}
  PROVE  Fd2Client(e, fd) = TheOne({c \in DOMAIN e.clients : e.clients[c].fd = fd})
<1> DEFINE S == {c \in DOMAIN e.clients : e.clients[c].fd = fd}
           k == FdKey(fd)
           hit == Fetch(e.cmap, k)
<1>0. e \in Env /\ Owned(e) /\ ClientMapSound(e) /\ e.cmap \in HashMaps
  BY EnvIs DEF Sound
<1>1. fd > 0 /\ ~(fd <= 0) /\ k \in Key
  BY KeysAssumption, KeyIs
<1>2. CASE hit = Null
  BY <1>1, <1>2 DEF Fd2Client
<1>3. CASE hit # Null
  <2>1. e.cmap.on /\ e.cmap.chain[k] # <<>>
    BY <1>0, <1>1, <1>3, FetchIs
  <2>2. PICK c \in DOMAIN e.clients : k = FdKey(e.clients[c].fd) /\ e.cmap.chain[k] = <<c>>
    BY <1>0, <1>1, <2>1 DEF ClientMapSound
  <2>3. hit = c
    BY <1>0, <1>1, <2>1, <2>2, FetchIs
  <2>4. e.clients[c].fd = fd
    BY <2>2 DEF FdKey
  <2>5. S = {c}
    BY <1>0, <2>4, OneTarget
  <2>6. TheOne(S) = c
    BY <2>5, TheOneIs
  <2>7. Fd2Client(e, fd) = hit
    BY <1>1, <1>3 DEF Fd2Client
  <2>8. QED
    BY <2>3, <2>6, <2>7
<1>4. QED
  BY <1>2, <1>3

-----------------------------------------------------------------------------
(* The invariant.                                                          *)

LEMMA IInvParts ==
  ASSUME IInv
  PROVE  /\ Sound(env) /\ Itemized(env)
         /\ sigs \subseteq {"reload", "exit"} /\ checked \in BOOLEAN /\ running \in BOOLEAN
         /\ signals \in 0 .. MaxSignals
  BY DEF IInv, TypeOK

LEMMA Concludes ==
  ASSUME Sound(env'), Itemized(env'), sigs' \subseteq {"reload", "exit"}, checked' \in BOOLEAN,
         running' \in BOOLEAN, signals' \in 0 .. MaxSignals
  PROVE  IInv'
  BY DEF IInv, TypeOK, Sound

LEMMA InitInv ==
  ASSUME Init
  PROVE  IInv
<1>1. Sound(env) /\ Itemized(env)
  BY NoEnvSound DEF Init
<1>2. 0 \in 0 .. MaxSignals
  BY CarrierAssumption
<1>3. QED
  BY <1>1, <1>2 DEF Init, IInv, TypeOK, Sound

LEMMA ConnectToRemoteInv ==
  ASSUME IInv, ConnectToRemote
  PROVE  IInv'
<1>1. PICK e \in MayReport(env) : env' \in ConnectAll(e)
  BY DEF ConnectToRemote
<1>2. Sound(e) /\ Itemized(e)
  BY IInvParts, MayReportFollows, FollowsItemized DEF Follows
<1>3. PICK fds \in Sockets(e) : env' \in {Attach(e, fds, up) : up \in SUBSET DOMAIN fds}
  BY <1>1 DEF ConnectAll
<1>4. PICK up : env' = Attach(e, fds, up)
  BY <1>3
<1>5. Sound(env') /\ Itemized(env')
  BY <1>2, <1>4, AttachSound
<1>6. QED
  BY <1>5, IInvParts, Concludes DEF ConnectToRemote

LEMMA ReportInv ==
  ASSUME IInv, Report
  PROVE  IInv'
<1>1. Sound(env') /\ Itemized(env')
  BY IInvParts, SendCarrierMsgFollows, FollowsItemized DEF Report, Follows
<1>2. QED
  BY <1>1, IInvParts, Concludes DEF Report

LEMMA IterSendingListInv ==
  ASSUME IInv, IterSendingList
  PROVE  IInv'
<1>1. env' \in IterList(env, FALSE)
  BY DEF IterSendingList
<1>2. Follows(env, env', Busy(env))
  BY <1>1, IInvParts, IterListFollows
<1>3. Sound(env') /\ Itemized(env')
  BY <1>2, IInvParts, FollowsItemized DEF Follows
<1>4. QED
  BY <1>3, IInvParts, Concludes DEF IterSendingList

LEMMA CheckClientInfoInv ==
  ASSUME IInv, CheckClientInfo
  PROVE  IInv'
<1>1. PICK late \in SUBSET DOMAIN env.clients : env' = FreeClientInfo(env, late)
  BY DEF CheckClientInfo
<1>2. Sound(env') /\ Itemized(env')
  BY <1>1, IInvParts, FreeClientInfoSound
<1>3. QED
  BY <1>2, IInvParts, Concludes DEF CheckClientInfo

LEMMA CheckHashInv ==
  ASSUME IInv, CheckHash
  PROVE  IInv'
<1> DEFINE e == CheckTargetHashMap(env)
<1>1. Sound(e) /\ Itemized(e)
  BY IInvParts, RehashSound DEF CheckTargetHashMap
<1> HIDE DEF e
<1>2. Sound(CheckClientHashMap(e)) /\ Itemized(CheckClientHashMap(e))
  BY <1>1, CheckClientHashMapSound
<1>3. Sound(env') /\ Itemized(env')
  BY <1>2 DEF CheckHash, e
<1>4. QED
  BY <1>3, IInvParts, Concludes DEF CheckHash

LEMMA TargetEventInv ==
  ASSUME IInv, NEW fd \in Fds, TargetEvent(fd)
  PROVE  IInv'
<1> DEFINE id == Fd2Target(env, fd)
<1>1. /\ fd \in Fds \ {0} /\ id # Null
      /\ env' \in IF env.targets[id].conn = "proc" THEN HandleConnectingFd(env, id)
                  ELSE {CloseTargetFd(env, {id})}
  BY DEF TargetEvent, Listener
<1>2. id \in DOMAIN env.targets
  <2>1. id = InList(env, fd)
    BY <1>1, IInvParts, LookupTarget
  <2> HIDE DEF id
  <2>2. QED
    BY <1>1, <2>1, TheOneIs DEF InList
<1> HIDE DEF id
<1>3. Follows(env, env', {id})
  <2>1. CASE env.targets[id].conn = "proc"
    BY <1>1, <1>2, <2>1, IInvParts, HandleConnectingFdFollows
  <2>2. CASE env.targets[id].conn # "proc"
    BY <1>1, <1>2, <2>2, IInvParts, CloseFollows
  <2>3. QED
    BY <2>1, <2>2
<1>4. Sound(env') /\ Itemized(env')
  BY <1>3, IInvParts, FollowsItemized DEF Follows
<1>5. QED
  BY <1>4, IInvParts, Concludes DEF TargetEvent

LEMMA ClientEventInv ==
  ASSUME IInv, NEW fd \in Fds, ClientEvent(fd)
  PROVE  IInv'
<1> DEFINE c == Fd2Client(env, fd)
<1>1. /\ fd \in Fds \ {0} /\ c # Null
      /\ \/ env' = [env EXCEPT !.clients[c].verify = TRUE]
         \/ \E e \in MayReport(env) : env' = FreeClientInfo(e, {c})
  BY DEF ClientEvent, Listener
<1>2. c \in DOMAIN env.clients
  <2>1. c = TheOne({d \in DOMAIN env.clients : env.clients[d].fd = fd})
    BY <1>1, IInvParts, LookupClient
  <2> HIDE DEF c
  <2>2. QED
    BY <1>1, <2>1, TheOneIs
<1> HIDE DEF c
<1>3. CASE env' = [env EXCEPT !.clients[c].verify = TRUE]
  <2>1. Sound(env') /\ Itemized(env')
    BY <1>2, <1>3, IInvParts, VerifySound
  <2>2. QED
    BY <2>1, IInvParts, Concludes DEF ClientEvent
<1>4. CASE \E e \in MayReport(env) : env' = FreeClientInfo(e, {c})
  <2>1. PICK e \in MayReport(env) : env' = FreeClientInfo(e, {c})
    BY <1>4
  <2>2. Sound(e) /\ Itemized(e) /\ e.clients = env.clients
    BY IInvParts, MayReportFollows, FollowsItemized DEF Follows
  <2>3. {c} \in SUBSET DOMAIN e.clients
    BY <1>2, <2>2
  <2>4. Sound(env') /\ Itemized(env')
    BY <2>1, <2>2, <2>3, FreeClientInfoSound
  <2>5. QED
    BY <2>4, IInvParts, Concludes DEF ClientEvent
<1>5. QED
  BY <1>1, <1>3, <1>4

LEMMA DispatchBridgeInv ==
  ASSUME IInv, NEW to \in Ids, DispatchBridge(to)
  PROVE  IInv'
<1> DEFINE id == ProcId2Target(env, to)
<1>1. /\ id # Null /\ env.targets[id].conn = "done"
      /\ env' \in {CloseTargetFd(env, {id}), Keep(env, {id})}
  BY DEF DispatchBridge
<1>2. id \in DOMAIN env.targets
  <2>1. id = TheOne(DOMAIN env.targets \cap {to})
    BY IInvParts, LookupProc
  <2> HIDE DEF id
  <2>2. QED
    BY <1>1, <2>1, TheOneIs
<1> HIDE DEF id
<1>3. {id} \in SUBSET DOMAIN env.targets /\ \A i \in {id} : env.targets[i].conn # "none"
  BY <1>1, <1>2
<1>4. Follows(env, CloseTargetFd(env, {id}), {id}) /\ Follows(env, Keep(env, {id}), {})
  BY <1>3, IInvParts, CloseFollows, KeepFollows
<1>5. Sound(env') /\ Itemized(env')
  BY <1>1, <1>4, IInvParts, FollowsItemized DEF Follows
<1>6. QED
  BY <1>5, IInvParts, Concludes DEF DispatchBridge

LEMMA AcceptInv ==
  ASSUME IInv, NEW c \in Cids, Accept(c)
  PROVE  IInv'
<1>1. PICK fd \in FreeFds(env) :
        env' = [env EXCEPT !.open = @ \cup {fd},
                           !.clients = [x \in DOMAIN @ \cup {c} |->
                                          IF x = c THEN [fd |-> fd, verify |-> FALSE] ELSE @[x]],
                           !.cmap = Insert(@, env.tmap, ByFd([x \in {c} |-> fd]))]
  BY DEF Accept
<1>2. env.listening /\ c \in Cids \ DOMAIN env.clients
  BY DEF Accept
<1>3. Sound(env') /\ Itemized(env')
  BY <1>1, <1>2, IInvParts, AcceptSound
<1>4. QED
  BY <1>3, IInvParts, Concludes DEF Accept

LEMMA StartInv ==
  ASSUME IInv, NEW cfg \in Configs, Start(cfg)
  PROVE  IInv'
<1>1. Sound(env') /\ Itemized(env')
  BY StartSound DEF Start
<1>2. QED
  BY <1>1, IInvParts, Concludes DEF Start

LEMMA SignalInv ==
  ASSUME IInv, NEW sig \in {"reload", "exit"}, Signal(sig)
  PROVE  IInv'
<1>1. Sound(env') /\ Itemized(env')
  BY IInvParts, SendCarrierMsgFollows, FollowsItemized DEF Signal, Follows
<1>2. signals' \in 0 .. MaxSignals
  BY IInvParts, CarrierAssumption DEF Signal
<1>3. QED
  BY <1>1, <1>2, IInvParts, Concludes DEF Signal

\* What a reload leaves, and of which connections.
LEMMA ReloadIs ==
  ASSUME IInv, NEW cfg \in Configs, Reload(cfg)
  PROVE  /\ Sound(env') /\ Itemized(env') /\ DOMAIN env'.targets = DOMAIN cfg
         /\ \A id \in DOMAIN cfg : env'.targets[id].addr = cfg[id]
         /\ \A id \in DOMAIN cfg \cap DOMAIN env.targets :
              env.targets[id].addr = cfg[id] /\ Silent(id) =>
                /\ env'.targets[id].fd = env.targets[id].fd
                /\ env'.targets[id].conn = env.targets[id].conn
<1>1. PICK e \in CopyTargetInfo(env, cfg) : env' \in SendCarrierMsg(RebuildItems(e))
  BY DEF Reload
<1> DEFINE r == RebuildItems(e)
<1>2. CopiedTo(env, cfg, e)
  BY IInvParts, CopyTargetInfoIs
<1>3. Sound(r) /\ Itemized(r) /\ r.targets = e.targets
  BY <1>2, RebuildItemsSound DEF CopiedTo
<1> HIDE DEF r
<1>4. Follows(r, env', Managers \cap DOMAIN r.targets)
  BY <1>1, <1>3, SendCarrierMsgFollows DEF r
<1>5. Sound(env') /\ Itemized(env')
  BY <1>3, <1>4, FollowsItemized DEF Follows
<1>6. DOMAIN env'.targets = DOMAIN cfg /\ \A id \in DOMAIN cfg : env'.targets[id].addr = cfg[id]
  BY <1>2, <1>3, <1>4 DEF CopiedTo, Follows
<1>7. ASSUME NEW id \in DOMAIN cfg \cap DOMAIN env.targets, env.targets[id].addr = cfg[id], Silent(id)
      PROVE  env'.targets[id].fd = env.targets[id].fd /\ env'.targets[id].conn = env.targets[id].conn
  <2>1. e.targets[id].fd = env.targets[id].fd /\ e.targets[id].conn = env.targets[id].conn
    BY <1>2, <1>7 DEF CopiedTo, Silent
  <2>2. id \in DOMAIN r.targets \ (Managers \cap DOMAIN r.targets)
    BY <1>2, <1>3, <1>7 DEF CopiedTo, Silent
  <2>3. QED
    BY <1>3, <1>4, <2>1, <2>2 DEF Follows
<1>8. QED
  BY <1>5, <1>6, <1>7

LEMMA ReloadInv ==
  ASSUME IInv, NEW cfg \in Configs, Reload(cfg)
  PROVE  IInv'
<1>1. Sound(env') /\ Itemized(env')
  BY ReloadIs
<1>2. sigs' \subseteq {"reload", "exit"}
  BY IInvParts DEF Reload
<1>3. QED
  BY <1>1, <1>2, IInvParts, Concludes DEF Reload

LEMMA ReloadFailsInv ==
  ASSUME IInv, ReloadFails
  PROVE  IInv'
<1>1. Sound(env') /\ Itemized(env')
  BY IInvParts, SendCarrierMsgFollows, FollowsItemized DEF ReloadFails, Follows
<1>2. QED
  BY <1>1, IInvParts, Concludes DEF ReloadFails

LEMMA DownInv ==
  ASSUME IInv, Down
  PROVE  IInv'
<1>1. Sound(env') /\ Itemized(env')
  BY NoEnvSound DEF Down
<1>2. QED
  BY <1>1, IInvParts, Concludes DEF Down

LEMMA StutterInv ==
  ASSUME IInv, UNCHANGED vars
  PROVE  IInv'
  BY IInvParts, Concludes DEF vars

\* The tables of the carrier agree with one another at the end of every
\* handler, whatever the network does and however often the configuration
\* is read again (IInv).
THEOREM Inductive == Spec => []IInv
<1>1. Init => IInv
  BY InitInv
<1>2. IInv /\ [Next]_vars => IInv'
  <2> SUFFICES ASSUME IInv, [Next]_vars
               PROVE  IInv'
    OBVIOUS
  <2>1. CASE ConnectToRemote
    BY <2>1, ConnectToRemoteInv
  <2>2. CASE Report
    BY <2>2, ReportInv
  <2>3. CASE IterSendingList
    BY <2>3, IterSendingListInv
  <2>4. CASE CheckClientInfo
    BY <2>4, CheckClientInfoInv
  <2>5. CASE CheckHash
    BY <2>5, CheckHashInv
  <2>6. ASSUME NEW fd \in Fds, TargetEvent(fd) \/ ClientEvent(fd)
        PROVE  IInv'
    BY <2>6, TargetEventInv, ClientEventInv
  <2>7. ASSUME NEW id \in Ids, DispatchBridge(id)
        PROVE  IInv'
    BY <2>7, DispatchBridgeInv
  <2>8. ASSUME NEW c \in Cids, Accept(c)
        PROVE  IInv'
    BY <2>8, AcceptInv
  <2>9. ASSUME NEW cfg \in Configs, Start(cfg) \/ Reload(cfg)
        PROVE  IInv'
    BY <2>9, StartInv, ReloadInv
  <2>10. ASSUME NEW sig \in {"reload", "exit"}, Signal(sig)
         PROVE  IInv'
    BY <2>10, SignalInv
  <2>11. CASE ReloadFails
    BY <2>11, ReloadFailsInv
  <2>12. CASE ReloadCrashes \/ Exit
    BY <2>12, DownInv DEF ReloadCrashes, Exit
  <2>13. CASE UNCHANGED vars
    BY <2>13, StutterInv
  <2>14. QED
    BY <2>1, <2>2, <2>3, <2>4, <2>5, <2>6, <2>7, <2>8, <2>9, <2>10, <2>11, <2>12, <2>13 DEF Next
<1>3. QED
  BY <1>1, <1>2, PTL DEF Spec

\* The tables name addresses, descriptors and nodes that exist (TypeOK).
THEOREM TypeCorrect == Spec => []TypeOK
<1>1. IInv => TypeOK
  BY DEF IInv
<1>2. QED
  BY <1>1, Inductive, PTL

\* No descriptor is leaked, and none belongs to two connections, though the
\* kernel hands out the same numbers again (OneOwner).
THEOREM OneOwnerAlways == Spec => []OneOwner
<1>1. ASSUME IInv
      PROVE  OneOwner
  <2> SUFFICES ASSUME NEW fd \in Fds \ {0}
               PROVE  Cardinality(Owners(env, fd)) = IF fd \in env.open THEN 1 ELSE 0
    BY DEF OneOwner
  <2>1. Owned(env)
    BY <1>1, IInvParts DEF Sound
  <2>2. CASE fd \in env.open
    <3>1. PICK owner \in Owners(env, fd) : Owners(env, fd) = {owner}
      BY <2>1, <2>2 DEF Owned
    <3>2. Cardinality({owner}) = 1
      BY FS_Singleton
    <3>3. QED
      BY <2>2, <3>1, <3>2
  <2>3. CASE fd \notin env.open
    <3>1. Owners(env, fd) = {}
      BY <2>1, <2>3 DEF Owned
    <3>2. QED
      BY <2>3, <3>1, FS_EmptySet
  <2>4. QED
    BY <2>2, <2>3
<1>2. QED
  BY <1>1, Inductive, PTL

\* A lookup in a hash map, with its short cut, finds what a walk along the
\* list would find, and nothing else (LookupAgrees).
THEOREM LookupAlwaysAgrees == Spec => []LookupAgrees
<1>1. ASSUME IInv
      PROVE  LookupAgrees
  BY <1>1, IInvParts, LookupTarget, LookupProc, LookupClient DEF LookupAgrees
<1>2. QED
  BY <1>1, Inductive, PTL

\* The sending list has every marked target once, and nothing else
\* (ListMatchesMarks).
THEOREM ListAlwaysMatches == Spec => []ListMatchesMarks
<1>1. ASSUME IInv
      PROVE  ListMatchesMarks
  BY <1>1, IInvParts DEF Sound, ListMatchesMarks
<1>2. QED
  BY <1>1, Inductive, PTL

\* The items of a manager are its targets, with their addresses (ItemsAgree).
THEOREM ItemsAlwaysAgree == Spec => []ItemsAgree
<1>1. ASSUME IInv
      PROVE  ItemsAgree
  BY <1>1, IInvParts DEF ItemsAgree
<1>2. QED
  BY <1>1, Inductive, PTL

\* Only a reload that has read its file takes the signal back.
LEMMA OnlyReload ==
  ASSUME IInv, [Next]_vars, running', "reload" \in sigs \ sigs'
  PROVE  \E cfg \in Configs : Reload(cfg)
<1>1. sigs' # sigs
  OBVIOUS
<1>2. ~(ConnectToRemote \/ Report \/ IterSendingList \/ CheckClientInfo \/ CheckHash \/ ReloadFails)
  BY <1>1 DEF ConnectToRemote, Report, IterSendingList, CheckClientInfo, CheckHash, ReloadFails
<1>3. ~\E fd \in Fds : TargetEvent(fd) \/ ClientEvent(fd)
  BY <1>1 DEF TargetEvent, ClientEvent
<1>4. /\ ~\E id \in Ids : DispatchBridge(id)
      /\ ~\E c \in Cids : Accept(c)
      /\ ~\E cfg \in Configs : Start(cfg)
  BY <1>1 DEF DispatchBridge, Accept, Start
<1>5. ~\E sig \in {"reload", "exit"} : Signal(sig)
  BY DEF Signal
<1>6. ~(ReloadCrashes \/ Exit)
  BY DEF ReloadCrashes, Exit, Down
<1>7. QED
  BY <1>1, <1>2, <1>3, <1>4, <1>5, <1>6 DEF Next, vars

\* A reload leaves alone the connections whose addresses stay the same, but
\* for those it has to send on (ReloadKeepsConnections).
THEOREM ReloadKeeps == Spec => ReloadKeepsConnections
<1> DEFINE Keeps ==
      running' /\ "reload" \in sigs \ sigs' =>
        \A id \in DOMAIN env.targets \cap DOMAIN env'.targets :
          env.targets[id].addr = env'.targets[id].addr /\ Silent(id) =>
            /\ env'.targets[id].fd = env.targets[id].fd
            /\ env'.targets[id].conn = env.targets[id].conn
<1>1. IInv /\ [Next]_vars => [Keeps]_vars
  <2> SUFFICES ASSUME IInv, [Next]_vars, running', "reload" \in sigs \ sigs',
                      NEW id \in DOMAIN env.targets \cap DOMAIN env'.targets,
                      env.targets[id].addr = env'.targets[id].addr, Silent(id)
               PROVE  /\ env'.targets[id].fd = env.targets[id].fd
                      /\ env'.targets[id].conn = env.targets[id].conn
    OBVIOUS
  <2>1. PICK cfg \in Configs : Reload(cfg)
    BY OnlyReload
  <2>2. /\ DOMAIN env'.targets = DOMAIN cfg /\ env'.targets[id].addr = cfg[id]
        /\ id \in DOMAIN cfg \cap DOMAIN env.targets
    BY <2>1, ReloadIs
  <2>3. QED
    BY <2>1, <2>2, ReloadIs
<1>2. QED
  BY <1>1, Inductive, PTL DEF Spec, ReloadKeepsConnections

===============================================================================
