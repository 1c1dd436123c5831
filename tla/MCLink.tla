------------------------------- MODULE MCLink -------------------------------
(* Constant values for the model-checking run of the link.                 *)
EXTENDS Link

\* A trigger, a CALL the charger does not implement, and a frame that is none:
\* a CALLERROR without its details.
SomeCmsCalls == {
  Marshal(Call("t", "TriggerMessage", EmptyObject)),
  Marshal(Call("u", "ClearCache", EmptyObject)),
  <<Integer("4"), Text("a"), Text("GenericError"), Text("")>>}
=============================================================================
