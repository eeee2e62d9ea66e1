---------------------------- MODULE PacketStream ----------------------------
(***************************************************************************)
(* What a channel promises, without bytes, positions or steps: packets are *)
(* taken out whole, in the order they were put in, none twice and none     *)
(* that was not put in.  A packet at the front is either delivered to the  *)
(* caller or, where the reader was told to, dropped for its age.           *)
(***************************************************************************)
EXTENDS Naturals, Sequences

CONSTANTS
  Packets,   \* everything that can be sent
  MayDrop    \* whether the reader of this channel drops old packets

VARIABLES
  sent,   \* packets put in, in order
  taken   \* packets taken out: <<packet, "delivered" or "dropped">>

streamVars == <<sent, taken>>

Fates == {"delivered"} \cup (IF MayDrop THEN {"dropped"} ELSE {})

Init == sent = <<>> /\ taken = <<>>

Put(p) == sent' = Append(sent, p) /\ UNCHANGED taken

Take(fate) ==
  /\ Len(taken) < Len(sent)
  /\ taken' = Append(taken, <<sent[Len(taken) + 1], fate>>)
  /\ UNCHANGED sent

Next == (\E p \in Packets : Put(p)) \/ (\E f \in Fates : Take(f))

Spec == Init /\ [][Next]_streamVars

=============================================================================
