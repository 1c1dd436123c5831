------------------------------ MODULE MCMeter ------------------------------
(* Constant values for the model-checking run of the metering.             *)
EXTENDS Meter

\* Below, within and above the ceiling.
SomePowers == {-1, 1, Ceiling + 1}
AllModes == Faults \cup {"", "unknown"}
=============================================================================
