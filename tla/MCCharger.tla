----------------------------- MODULE MCCharger -----------------------------
(* Constant values for the model-checking runs of the charger actor.       *)
EXTENDS ChargerProperties

AllOps == ConnectorOps \cup LinkOps
AllButClearFault == AllOps \ {"ClearFault"}
StartStopOps == {"PlugIn", "StartCharging", "StopCharging"}
LivenessOps == StartStopOps \cup LinkOps
PassiveRemoteOps == {"RemoteStart", "RemoteStop", "TriggerStatus", "TriggerMeter"}
AllRemoteOps == {"RemoteStart", "RemoteStop", "TriggerBoot", "TriggerStatus", "TriggerMeter"}
AllButRemoteStart == AllRemoteOps \ {"RemoteStart"}

Symmetry == Permutations(Connectors)
=============================================================================
