------------------------------ MODULE MCCarrier ------------------------------
(***************************************************************************)
(* The configurations TLC uses: 1 is a manager whose address changes, 9 an *)
(* ordinary process; each is removed and added while the other stays, and  *)
(* both go at once.                                                        *)
(***************************************************************************)
EXTENDS Carrier

CONSTANTS a, b

MCConfigs == {1 :> a @@ 9 :> a, 1 :> b @@ 9 :> a, 1 :> a, 9 :> a, <<>>}

=============================================================================
