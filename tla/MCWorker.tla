------------------------------ MODULE MCWorker ------------------------------
(* Constant values for the model-checking runs of the worker.              *)
EXTENDS Worker, TLC

Symmetry == Permutations(Configs) \cup Permutations(Handlers)
=============================================================================
