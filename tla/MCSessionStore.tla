--------------------------- MODULE MCSessionStore ---------------------------
(* Constant values for the model-checking runs of the session store.       *)
EXTENDS SessionStore, TLC

Symmetry == Permutations(Keys) \cup Permutations(Callers)
=============================================================================
