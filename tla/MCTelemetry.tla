---------------------------- MODULE MCTelemetry ----------------------------
(***************************************************************************)
(* Small instances of Telemetry.                                           *)
(***************************************************************************)
EXTENDS Telemetry
=============================================================================
