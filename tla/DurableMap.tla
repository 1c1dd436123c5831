----------------------------- MODULE DurableMap -----------------------------
(***************************************************************************)
(* What the session store promises an actor (internal/session/store.go):   *)
(* a map that changes one key at a time, each change saved as a whole or   *)
(* not at all before the next one begins, and read back after a crash as   *)
(* it was last saved.                                                      *)
(***************************************************************************)
CONSTANTS Keys, Values, NoValue

VARIABLES
  known,   \* what a reader gets, now or once the process is back
  saved,   \* what a crash of the process leaves
  settled, \* what a power loss leaves
  busy     \* a change is being saved

vars == <<known, saved, settled, busy>>

Nothing == [k \in Keys |-> NoValue]

Init == known = Nothing /\ saved = Nothing /\ settled = Nothing /\ busy = FALSE

Begin(k, v) ==
  /\ ~busy /\ busy' = TRUE
  /\ known' = [known EXCEPT ![k] = v]
  /\ UNCHANGED <<saved, settled>>

Save ==
  /\ busy /\ busy' = FALSE
  /\ saved' = known
  /\ UNCHANGED <<known, settled>>

\* The caller gets an error; the next save takes the change along.
GiveUp == busy /\ busy' = FALSE /\ UNCHANGED <<known, saved, settled>>

\* What was saved last reaches the medium.
Settle == settled' = saved /\ UNCHANGED <<known, saved, busy>>

Crash == known' = saved /\ busy' = FALSE /\ UNCHANGED <<saved, settled>>

PowerLoss == known' = settled /\ saved' = settled /\ busy' = FALSE /\ UNCHANGED settled

\* A process that cannot read what was saved starts with nothing.
Unreadable == ~busy /\ known' = Nothing /\ UNCHANGED <<saved, settled, busy>>

Next ==
  \/ \E k \in Keys, v \in Values \cup {NoValue} : Begin(k, v)
  \/ Save \/ GiveUp \/ Settle \/ Crash \/ PowerLoss \/ Unreadable

Spec == Init /\ [][Next]_vars
=============================================================================
