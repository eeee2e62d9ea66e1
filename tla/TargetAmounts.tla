---------------------------- MODULE TargetAmounts ----------------------------
(***************************************************************************)
(* One target of a carrier, by amounts: what TargetBuffer implements, and  *)
(* what SendPath takes every target of a carrier to be.                    *)
(***************************************************************************)
EXTENDS TargetSizes

CONSTANTS
  PackLens,   \* lengths of the packets fetched from the send channel
  InnerLens   \* lengths of the carrier's own packets

VARIABLE target

\* Every handler starts with no packet dropped.
Now == [target EXCEPT !.dropped = FALSE]

Init == target = NewTarget

Next ==
  \/ target.conn = "none" /\ \E n \in InnerLens : target' \in Connect(Now, n)
  \/ target.conn = "done" /\ target' = Close(Now)
  \/ \E n \in PackLens : target' \in Dispatch(Now, n)
  \/ target.conn = "done" /\ \E n \in InnerLens : target' \in InnerSend(Now, n)
  \/ \E del \in BOOLEAN : target' \in Iter(Now, del)
  \/ target' = Shrink(Now)

Spec == Init /\ [][Next]_target

=============================================================================
