---------------------------- MODULE EventStream ----------------------------
(***************************************************************************)
(* How the state of the charger reaches the dashboards: the actor stores a *)
(* snapshot and emits it on a bounded channel (charger.go, emit and        *)
(* publishSnapshot), one fanout goroutine per charger copies every event   *)
(* to the bounded queue of every registered dashboard, and each dashboard  *)
(* is greeted with the snapshot of the moment (server.go, handleWS and     *)
(* fanout).  Reconfiguring replaces the charger and its fanout under the   *)
(* dashboards; shutting down closes their queues.                          *)
(*                                                                         *)
(* Chargers are numbered in the order they are configured.  A snapshot is  *)
(* known by its charger and its version.  Log lines travel the same way    *)
(* and only take room, as more snapshots would.  An actor may publish for  *)
(* as long as its Run has not returned, so also after it was replaced.     *)
(* What RLock or Lock encloses is one action.                              *)
(***************************************************************************)
EXTENDS Naturals, Sequences

CONSTANTS
  Clients,     \* dashboard connections
  EventCap,    \* capacity of Charger.events (256 in the code)
  OutCap,      \* capacity of wsClient.outCh (64 in the code)
  MaxGen,      \* bound: chargers ever configured
  MaxVersion   \* bound: snapshots one charger publishes

ASSUME StreamAssumption ==
  EventCap \in Nat \ {0} /\ OutCap \in Nat \ {0} /\ MaxGen \in Nat /\ MaxVersion \in Nat \ {0}

Gens == 1 .. MaxGen
Event == [gen : Gens, ver : 1 .. MaxVersion, greet : BOOLEAN]
News(g, v) == [gen |-> g, ver |-> v, greet |-> FALSE]

VARIABLES
  made,     \* chargers configured so far
  current,  \* s.current: the number of the charger, 0 if none
  snap,     \* per charger: version of the stored snapshot
  unsent,   \* per charger: the snapshot is stored and not yet emitted
  events,   \* per charger: its event channel
  fan,      \* per charger: its fanout is "new", "live", "cancelled" or "returned"
  held,     \* per charger: the event its fanout has taken, as a sequence
  stage,    \* per client: how far its handleWS is
  sees,     \* per client: the charger handleWS has read from s.current
  greeting, \* per client: the greeting it will get, as a sequence
  clients,  \* s.clients
  outCh,    \* per client: its queue
  closed,   \* per client: its queue has been closed
  seen,     \* per client and charger: version last shown
  regAt,    \* per client and charger: version current when it registered
  dropped   \* per client and charger: newest version that found a full channel

actorVars == <<snap, unsent, events>>
fanVars == <<fan, held>>
clientVars == <<stage, sees, greeting, clients, outCh, closed, seen, regAt>>
vars == <<made, current, actorVars, fanVars, clientVars, dropped>>

PerGen(v) == [g \in Gens |-> v]
PerClient(v) == [c \in Clients |-> v]

Init ==
  /\ made = 0 /\ current = 0
  /\ snap = PerGen(0) /\ unsent = PerGen(FALSE) /\ events = PerGen(<<>>)
  /\ fan = PerGen("new") /\ held = PerGen(<<>>)
  /\ stage = PerClient("out") /\ sees = PerClient(0) /\ greeting = PerClient(<<>>)
  /\ clients = {}
  /\ outCh = PerClient(<<>>) /\ closed = PerClient(FALSE)
  /\ seen = PerClient(PerGen(0)) /\ regAt = PerClient(PerGen(0)) /\ dropped = PerClient(PerGen(0))

-----------------------------------------------------------------------------
(* The actor                                                               *)

\* The event carries the snapshot that was stored; the mutant's, the one before.
PublishedBefore(g) == News(g, IF snap[g] > 1 THEN snap[g] - 1 ELSE 1)
Published(g) == News(g, snap[g])

\* The newest version that did not reach a client for want of room.
Dropping(c, e) == [dropped[c] EXCEPT ![e.gen] = IF e.ver > @ THEN e.ver ELSE @]

\* publishSnapshot stores the snapshot and then emits it; emit drops an event
\* that finds the channel full, for every dashboard.
StoreSnapshot(g) ==
  /\ g <= made /\ ~unsent[g] /\ snap[g] < MaxVersion
  /\ snap' = [snap EXCEPT ![g] = @ + 1] /\ unsent' = [unsent EXCEPT ![g] = TRUE]
  /\ UNCHANGED <<made, current, events, fanVars, clientVars, dropped>>

EmitSnapshot(g) ==
  /\ unsent[g] /\ unsent' = [unsent EXCEPT ![g] = FALSE]
  /\ \/ /\ Len(events[g]) < EventCap
        /\ events' = [events EXCEPT ![g] = Append(@, Published(g))] /\ UNCHANGED dropped
     \/ /\ Len(events[g]) = EventCap
        /\ dropped' = [c \in Clients |-> Dropping(c, Published(g))] /\ UNCHANGED events
  /\ UNCHANGED <<made, current, snap, fanVars, clientVars>>

-----------------------------------------------------------------------------
(* The fanout                                                              *)

\* The select takes an event even when ctx is done as well.  The mutant takes
\* the newest one.
TakeNewest(g) ==
  /\ events[g] # <<>>
  /\ held' = [held EXCEPT ![g] = <<events[g][Len(events[g])]>>]
  /\ events' = [events EXCEPT ![g] = SubSeq(@, 1, Len(@) - 1)]
TakeEvent(g) ==
  /\ events[g] # <<>>
  /\ held' = [held EXCEPT ![g] = <<Head(events[g])>>]
  /\ events' = [events EXCEPT ![g] = Tail(@)]

FanoutTakes(g) ==
  /\ fan[g] \in {"live", "cancelled"} /\ held[g] = <<>>
  /\ TakeEvent(g)
  /\ UNCHANGED <<made, current, snap, unsent, fan, clientVars, dropped>>

HasRoom(c) == Len(outCh[c]) < OutCap

\* Every registered client that has room gets the event; the mutant waits until
\* they all have.
DeliverToAll(e) ==
  /\ \A c \in clients : HasRoom(c)
  /\ outCh' = [c \in Clients |-> IF c \in clients THEN Append(outCh[c], e) ELSE outCh[c]]
  /\ UNCHANGED dropped
Deliver(e) ==
  /\ outCh' = [c \in Clients |-> IF c \in clients /\ HasRoom(c)
                                 THEN Append(outCh[c], e) ELSE outCh[c]]
  /\ dropped' = [c \in Clients |-> IF c \in clients /\ ~HasRoom(c)
                                   THEN Dropping(c, e) ELSE dropped[c]]

FanoutSends(g) ==
  /\ held[g] # <<>> /\ held' = [held EXCEPT ![g] = <<>>]
  /\ Deliver(Head(held[g]))
  /\ UNCHANGED <<made, current, actorVars, fan, stage, sees, greeting, clients, closed, seen, regAt>>

FanoutReturns(g) ==
  /\ fan[g] = "cancelled" /\ held[g] = <<>>
  /\ fan' = [fan EXCEPT ![g] = "returned"]
  /\ UNCHANGED <<made, current, actorVars, held, clientVars, dropped>>

-----------------------------------------------------------------------------
(* The server                                                              *)

\* fanoutCancel.  The mutant does not call it.
CancelNothing == UNCHANGED fan
Cancel ==
  fan' = [g \in Gens |-> IF g = current /\ fan[g] = "live" THEN "cancelled" ELSE fan[g]]

\* startCharger while no charger is configured, or after Teardown: NewCharger
\* has published its first snapshot before the fanout starts.
Configure ==
  /\ current = 0 /\ made < MaxGen
  /\ made' = made + 1 /\ current' = made'
  /\ fan' = [fan EXCEPT ![made'] = "live"]
  /\ snap' = [snap EXCEPT ![made'] = 1]
  /\ events' = [events EXCEPT ![made'] = <<News(made', 1)>>]
  /\ UNCHANGED <<unsent, held, clientVars, dropped>>

\* The first half of startCharger, and all of handleDisconnect.
Teardown ==
  /\ current # 0 /\ current' = 0 /\ Cancel
  /\ UNCHANGED <<made, snap, unsent, events, held, clientVars, dropped>>

\* Close also closes the queue of every registered client, and forgets it.  The
\* mutant leaves the client registered.
CloseRegistered ==
  /\ closed' = [c \in Clients |-> closed[c] \/ c \in clients] /\ UNCHANGED clients
CloseClients ==
  /\ closed' = [c \in Clients |-> closed[c] \/ c \in clients] /\ clients' = {}
ServerCloses ==
  /\ Cancel /\ current' = 0 /\ CloseClients
  /\ UNCHANGED <<made, snap, unsent, events, held, stage, sees, greeting, outCh, seen, regAt, dropped>>

-----------------------------------------------------------------------------
(* One dashboard: handleWS                                                 *)

ReadCurrent(c) ==
  /\ stage[c] = "out" /\ stage' = [stage EXCEPT ![c] = "accepted"]
  /\ sees' = [sees EXCEPT ![c] = current]
  /\ UNCHANGED <<made, current, actorVars, fanVars, greeting, clients, outCh, closed, seen, regAt, dropped>>

\* The mutant registers the client before the greeting is queued.
RegisterEarly(c) == clients' = clients \cup {c}
NotYetRegistered(c) == UNCHANGED clients

\* State() of the charger that was current then.
ReadState(c) ==
  /\ stage[c] = "accepted" /\ stage' = [stage EXCEPT ![c] = "greeted"]
  /\ sees' = [sees EXCEPT ![c] = 0]
  /\ greeting' = [greeting EXCEPT ![c] =
       IF sees[c] = 0 THEN <<>> ELSE <<[gen |-> sees[c], ver |-> snap[sees[c]], greet |-> TRUE]>>]
  /\ NotYetRegistered(c)
  /\ UNCHANGED <<made, current, actorVars, fanVars, outCh, closed, seen, regAt, dropped>>

\* The greeting is queued without blocking, then the client is registered.
Register(c) ==
  /\ stage[c] = "greeted" /\ stage' = [stage EXCEPT ![c] = "serving"]
  /\ greeting' = [greeting EXCEPT ![c] = <<>>]
  /\ outCh' = IF HasRoom(c) THEN [outCh EXCEPT ![c] = @ \o greeting[c]] ELSE outCh
  /\ clients' = clients \cup {c}
  /\ regAt' = [regAt EXCEPT ![c] = snap]
  /\ UNCHANGED <<made, current, actorVars, fanVars, sees, closed, seen, dropped>>

\* The write loop; what is shown of each charger is the last snapshot of it.
Show(c) ==
  /\ stage[c] = "serving" /\ outCh[c] # <<>>
  /\ LET e == Head(outCh[c])
     IN  seen' = [seen EXCEPT ![c][e.gen] = e.ver]
  /\ outCh' = [outCh EXCEPT ![c] = Tail(@)]
  /\ UNCHANGED <<made, current, actorVars, fanVars, stage, sees, greeting, clients, closed, regAt, dropped>>

\* The connection ends, or the write loop finds its queue closed and empty: c
\* may connect again, with a new queue.
Leave(c) ==
  /\ stage[c] = "serving" /\ stage' = [stage EXCEPT ![c] = "out"]
  /\ clients' = clients \ {c}
  /\ outCh' = [outCh EXCEPT ![c] = <<>>] /\ closed' = [closed EXCEPT ![c] = FALSE]
  /\ seen' = [seen EXCEPT ![c] = PerGen(0)] /\ regAt' = [regAt EXCEPT ![c] = PerGen(0)]
  /\ dropped' = [dropped EXCEPT ![c] = PerGen(0)]
  /\ UNCHANGED <<made, current, actorVars, fanVars, sees, greeting>>

-----------------------------------------------------------------------------

Next ==
  \/ Configure \/ Teardown \/ ServerCloses
  \/ \E g \in Gens :
       \/ StoreSnapshot(g) \/ EmitSnapshot(g)
       \/ FanoutTakes(g) \/ FanoutSends(g) \/ FanoutReturns(g)
  \/ \E c \in Clients : ReadCurrent(c) \/ ReadState(c) \/ Register(c) \/ Show(c) \/ Leave(c)

Spec == Init /\ [][Next]_vars

-----------------------------------------------------------------------------
(* Properties                                                              *)

\* Every variable keeps its type, and no channel exceeds its capacity.
TypeOK ==
  /\ made \in 0 .. MaxGen /\ current \in 0 .. made
  /\ fan \in [Gens -> {"new", "live", "cancelled", "returned"}]
  /\ snap \in [Gens -> 0 .. MaxVersion] /\ unsent \in [Gens -> BOOLEAN]
  /\ events \in [Gens -> Seq(Event)] /\ \A g \in Gens : Len(events[g]) <= EventCap
  /\ held \in [Gens -> Seq(Event)] /\ \A g \in Gens : Len(held[g]) <= 1
  /\ stage \in [Clients -> {"out", "accepted", "greeted", "serving"}]
  /\ sees \in [Clients -> 0 .. MaxGen] /\ greeting \in [Clients -> Seq(Event)] /\ clients \in SUBSET Clients
  /\ outCh \in [Clients -> Seq(Event)] /\ \A c \in Clients : Len(outCh[c]) <= OutCap
  /\ closed \in [Clients -> BOOLEAN]
  /\ seen \in [Clients -> [Gens -> 0 .. MaxVersion]]
  /\ regAt \in [Clients -> [Gens -> 0 .. MaxVersion]]
  /\ dropped \in [Clients -> [Gens -> 0 .. MaxVersion]]

\* The fanout never sends on a closed queue, which would panic, and no queue
\* is closed twice: a client is registered only while its queue is open.
NoSendOnClosed == \A c \in clients : ~closed[c]

\* What is on its way from charger g to client c, nearest first.
Pipeline(c, g) == outCh[c] \o held[g] \o events[g]
NewsOf(e, g) == e.gen = g /\ ~e.greet

\* The events of a charger reach a dashboard in the order they were emitted.
DeliveredInOrder ==
  \A c \in Clients, g \in Gens :
    LET p == Pipeline(c, g)
    IN  \A i, j \in 1 .. Len(p) :
          i < j /\ NewsOf(p[i], g) /\ NewsOf(p[j], g) => p[i].ver < p[j].ver

\* server.go:631-632: the greeting never comes after a newer state of its
\* charger, whatever the fanout does between State() and the registration.
GreetNotOvertaken ==
  \A c \in Clients : \A j \in DOMAIN outCh[c] : outCh[c][j].greet =>
    /\ \A i \in 1 .. j - 1 : outCh[c][i].gen = outCh[c][j].gen => outCh[c][i].ver <= outCh[c][j].ver
    /\ seen[c][outCh[c][j].gen] <= outCh[c][j].ver

\* Nothing between charger g and client c is under way.
Settled(c, g) ==
  /\ c \in clients /\ fan[g] = "live"
  /\ ~unsent[g] /\ events[g] = <<>> /\ held[g] = <<>> /\ outCh[c] = <<>>

\* A dashboard that has received everything knows the current state of the
\* charger, unless that event found a full channel, or was published before the
\* dashboard was registered: nothing else is ever lost.
NothingElseLost ==
  \A c \in Clients, g \in Gens :
    Settled(c, g) =>
      \/ seen[c][g] = snap[g]
      \/ dropped[c][g] = snap[g]
      \/ regAt[c][g] = snap[g]

\* A dashboard that stopped reading holds up neither the fanout, and with it the
\* other dashboards, nor the actor: what is held can be sent, what was stored
\* can be emitted.
NobodyBlocked ==
  \A g \in Gens :
    /\ held[g] # <<>> => ENABLED FanoutSends(g)
    /\ unsent[g] => ENABLED EmitSnapshot(g)

\* Only the current charger has a fanout that goes on: one that was replaced or
\* disconnected, whenever that was, can only finish.
ReplacedFallsSilent == \A g \in Gens : fan[g] = "live" => g = current
=============================================================================
