------------------------------- MODULE MCNodeTx -------------------------------
(***************************************************************************)
(* NodeTx alone, for TLC.                                                  *)
(***************************************************************************)
EXTENDS NodeTx

Telemetry == {"BUNDLE", "STATUS"}
Windowed  == {"BUNDLE", "WINDOW_BEGIN", "WINDOW_END"}
Wakeups   == {"BUNDLE", "WINDOW_BEGIN"}
=============================================================================
