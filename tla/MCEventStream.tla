--------------------------- MODULE MCEventStream ---------------------------
(* Constant values for the model-checking runs of the event stream.        *)
EXTENDS EventStream, TLC

Symmetry == Permutations(Clients)
=============================================================================
