--------------------------- MODULE SessionJournal ---------------------------
(***************************************************************************)
(* What the session store promises the CMS (internal/session/store.go,     *)
(* package comment): every transaction a connector runs is journaled from  *)
(* the moment it starts until the CMS has been told that it stopped, and   *)
(* one connector journals one transaction at a time.                       *)
(***************************************************************************)
EXTENDS Naturals

CONSTANT Connectors

VARIABLES
  held,    \* per connector: the journaled transaction, 0 if none
  issued,  \* the CMS has issued transactions 1 .. issued
  closed   \* transactions the CMS has been told to stop

vars == <<held, issued, closed>>

Init == held = [c \in Connectors |-> 0] /\ issued = 0 /\ closed = {}

\* The CMS accepts a start; the charger may never hear of it.
Issue == issued' = issued + 1 /\ UNCHANGED <<held, closed>>

Open(c, tx) ==
  /\ held[c] = 0
  /\ tx \notin closed /\ \A d \in Connectors : held[d] # tx
  /\ held' = [held EXCEPT ![c] = tx]
  /\ UNCHANGED <<issued, closed>>

\* The CMS learns that a transaction stopped, only ever of a journaled one.
Close(tx) ==
  /\ \E c \in Connectors : held[c] = tx
  /\ closed' = closed \cup {tx}
  /\ UNCHANGED <<held, issued>>

Forget(c) ==
  /\ held[c] \in closed
  /\ held' = [held EXCEPT ![c] = 0]
  /\ UNCHANGED <<issued, closed>>

Next ==
  \/ Issue
  \/ \E tx \in 1 .. issued : Close(tx) \/ \E c \in Connectors : Open(c, tx)
  \/ \E c \in Connectors : Forget(c)

Spec == Init /\ [][Next]_vars
=============================================================================
