------------------------------ MODULE FifoLink ------------------------------
(***************************************************************************)
(* What the websocket client promises the actor (transport/ws/client.go,   *)
(* package comment: "pump inbound text frames onto a single channel"): the *)
(* frames of the CMS arrive in order, each once, nothing is lost while the *)
(* link is up, a break may only lose the last ones, and a link is replaced *)
(* only once it is broken, by one that holds no frame of the old one.      *)
(***************************************************************************)
EXTENDS Sequences, SequencesExt

VARIABLES
  up,    \* the CMS can still write
  queue  \* frames written and not yet taken by the actor, oldest first

Init == up = FALSE /\ queue = <<>>

Write == up /\ queue' # <<>> /\ Front(queue') = queue /\ UNCHANGED up

Take == queue # <<>> /\ queue' = Tail(queue) /\ UNCHANGED up

Break == up /\ up' = FALSE /\ UNCHANGED queue

Lose == ~up /\ IsPrefix(queue', queue) /\ UNCHANGED up

Renew == ~up /\ up' = TRUE /\ queue' = <<>>

Next == Write \/ Take \/ Break \/ Lose \/ Renew

Safety == Init /\ [][Next]_<<up, queue>>
Spec == Safety /\ WF_<<up, queue>>(up /\ Take)
=============================================================================
