------------------------------- MODULE MCJoin -------------------------------
(***************************************************************************)
(* A small instance of Join for TLC.                                       *)
(***************************************************************************)
EXTENDS Join

MCNodes == {"n1", "n2"}
MCTemp  == [n \in MCNodes |-> IF n = "n1" THEN 17 ELSE 200]
MCSame  == [n \in MCNodes |-> 17]
MCMode  == [n \in MCNodes |-> IF n = "n1" THEN "timed" ELSE "continuous"]
=============================================================================
