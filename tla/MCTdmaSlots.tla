----------------------------- MODULE MCTdmaSlots -----------------------------
(***************************************************************************)
(* Three stations of TdmaSlots.  The configurations keep a profile's guard *)
(* bands, completion margin, wake-ahead and TIME_SYNC airtime in           *)
(* proportion, and shorten the slot to little more than the longest frame: *)
(* the rest of a slot only adds idle time.                                 *)
(***************************************************************************)
EXTENDS TdmaSlots

CONSTANT FrameAir
MCAirtimes == {FrameAir}
=============================================================================
