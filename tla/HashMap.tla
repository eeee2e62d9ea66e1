------------------------------- MODULE HashMap -------------------------------
(***************************************************************************)
(* cr_hash_map_t: how the carrier finds a target or a client by its        *)
(* descriptor, and a target by its proc_id, without walking along a list.  *)
(* There is one map for the targets and one for the clients.               *)
(*                                                                         *)
(* A map has, for each key, the references stored under it, the newest     *)
(* first: a bucket is a list that is pushed at its head, and the entries   *)
(* of different keys in one bucket do not disturb one another.             *)
(***************************************************************************)
EXTENDS Integers, Sequences, FiniteSetsExt

CONSTANTS
  Fds,   \* the descriptors a process may have open
  Ids,   \* proc_ids
  Cids   \* what tells one client_info_t from another

ASSUME KeysAssumption ==
  /\ Fds \subseteq Nat /\ 0 \in Fds /\ IsFiniteSet(Fds)
  /\ Ids \subseteq Nat \ {0} /\ IsFiniteSet(Ids)

FdKey(fd) == <<"fd", fd>>
ProcKey(id) == <<"proc", id>>
Key == {FdKey(fd) : fd \in Fds} \cup {ProcKey(id) : id \in Ids}

\* What an entry points to; Null is the pointer that points to nothing.
Refers == Ids \cup Cids
Null == 0

HashMaps == [on : BOOLEAN, chain : [Key -> Seq(Refers)]]

\* clear_hash_map, and a map nobody has switched on: flag is 0.
NoMap == [on |-> FALSE, chain |-> [k \in Key |-> <<>>]]

\* init_target_hash_map.  Without targets there is nothing to switch on.
InitMap(map, count) == IF count > 0 /\ ~map.on THEN [NoMap EXCEPT !.on = TRUE] ELSE map

\* fetch_hash_entry.
Fetch(map, k) ==
  IF map.on /\ k \in Key /\ map.chain[k] # <<>> THEN Head(map.chain[k]) ELSE Null

(***************************************************************************)
(* insert_hash_map, for every key of new with what new says it refers to:  *)
(* the keys differ, so that no insertion sees another.  Whether a key is   *)
(* taken is asked of the map of targets, whatever map the entry goes to.   *)
(***************************************************************************)
Insert(map, targetMap, new) ==
  IF ~map.on THEN map
  ELSE [map EXCEPT !.chain =
          [k \in Key |-> IF k \in DOMAIN new /\ Fetch(targetMap, k) = Null
                         THEN <<new[k]>> \o map.chain[k] ELSE map.chain[k]]]

\* del_from_hash_map takes away the newest entry of a key, here of each of keys.
Delete(map, keys) ==
  [map EXCEPT !.chain =
     [k \in Key |-> IF k \in keys /\ Fetch(map, k) # Null THEN Tail(map.chain[k]) ELSE map.chain[k]]]

\* memset of whatever is under these keys.
Wipe(map, keys) ==
  [map EXCEPT !.chain = [k \in Key |-> IF k \in keys THEN <<>> ELSE map.chain[k]]]

\* The entries for the descriptors fdOf gives to references.
ByFd(fdOf) ==
  [k \in {FdKey(fdOf[r]) : r \in DOMAIN fdOf} |-> CHOOSE r \in DOMAIN fdOf : FdKey(fdOf[r]) = k]

EntryCount(map) == MapThenSumSet(LAMBDA k : Len(map.chain[k]), Key)

=============================================================================
