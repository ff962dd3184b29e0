------------------------------- MODULE MCBaseAck ------------------------------
(***************************************************************************)
(* BaseAck alone, for TLC: two nodes that compete for the pass.            *)
(***************************************************************************)
EXTENDS BaseAck

FairBaseSpec == BaseSpec /\ BaseFairness
=============================================================================
