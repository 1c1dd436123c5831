----------------------------- MODULE MCHandover -----------------------------
(* Constant values for the model-checking run of a handover.              *)
EXTENDS Handover

Commands == {"PlugIn", "StartCharging", "StopCharging"}
=============================================================================
