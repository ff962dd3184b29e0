--------------------------- MODULE MCTelemetryLink ---------------------------
(***************************************************************************)
(* TelemetryLink for TLC.                                                  *)
(***************************************************************************)
EXTENDS TelemetryLink

Bundles   == {"BUNDLE"}
Telemetry == {"BUNDLE", "STATUS"}
=============================================================================
