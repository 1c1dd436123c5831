# A TLA+ model of charger-simulator

charger-simulator is an OCPP 1.6J charge point in Go: a *worker* process that
serves a dashboard, runs at most one simulated charger, talks to a CMS over a
WebSocket and keeps the open charging sessions on disk, so that a charger that
was cut off closes them later. This directory models the parts of it that are
hard to test, checks them with TLC on small instances and proves what matters
most about them with TLAPS, for every value of the constants. Line numbers are
those of the commit this directory was written against.

## The system and its parts

| part | source | state it keeps | operations | modelled in |
|---|---|---|---|---|
| charger actor | `internal/actor/charger.go` | lifecycle `cpState`, `offline`, per connector status, `txID`, `startPending`, energy register, meter fault; `pending` CALLs; `cmdCh`; the published snapshot | the select loop of `Run`: commands, frames, meter and heartbeat tickers, loss of the link; the handlers they call | sessions: `Charger`, `ChargerProperties`, `ChargerProofs`, `ChargerSessionProofs`; frames and connections: `Link`, `LinkProofs`; readings: `Meter`, `MeterProofs` |
| session store | `internal/session/store.go` | map of open sessions in memory, one JSON file | `NewFileStore`, `Put`, `UpdateMeter`, `Delete`, `LoadOpen`, `atomicWrite` | `SessionStore`, `SessionStoreProofs`; abstractly `DurableMap` and `SessionJournal`; shared by two actors: `Handover`, `HandoverProofs` |
| event stream | `charger.go:1560-1582`, `internal/api/server.go:612-729` | snapshot pointer, event channel, one queue per dashboard, set of registered dashboards | publish, emit, fanout, greet, register, leave, `Close` | `EventStream`, `EventStreamProofs` |
| API server and persistence | `internal/api/server.go`, `persist.go` | the current charger and its configuration under `s.mu`, `charger.json` | configure, disconnect, restore, `Close`; action requests | `Worker`, `WorkerProofs`; the replacement of an actor: `Handover`, `HandoverProofs` |
| worker main | `cmd/worker/main.go` | the process | open the store, restore, serve, shut down | `Worker`, `WorkerProofs` |
| WebSocket client | `internal/transport/ws/client.go` | the connection, the `closed` channel, a 64-frame inbound channel | connect, read loop, send, close | `WsClient` and, with both its users, `Link`; abstractly `FifoLink` |
| meter engine and faults | `internal/sim/meter/meter.go` | register, state of charge, power limit, time of the last sample | `Start`, `Sample`, `SetMaxPower`, `ToOCPP`, `ApplyFault` | `Meter`, `MeterProofs` |
| OCPP frames | `internal/ocpp/j16/frame.go` | none | `Marshal`, `Decode` | `Frame`, `LinkProofs` |
| stub CMS | `cmd/stub-cms` | none the charger sees | reads a CALL, answers it, reads the next | its serving loop in `Link`, what it answers in `Charger`, both generalised |
| configuration, OCPP messages, dashboard, smoke test | `internal/config`, `internal/ocpp/j16/messages.go`, `internal/api/web`, `cmd/wstest` | data and rendering | | not modelled: field declarations, HTML, a printing client |

How they interact. A dashboard request enqueues a command (`cmdCh`, dropped
when full) for the actor goroutine. The actor sends CALLs and keeps a callback
per CALL in `pending`; a reply is handled in a later iteration. A confirmed
start puts a record in the store, every meter tick refreshes it, a confirmed
stop deletes it. After every accepted boot the actor stops, with reason
PowerLoss, each session it finds in the store. Every handler that changes state
publishes a snapshot, which the fanout goroutine of that charger copies to all
dashboards. A client has a read loop of its own, which pumps frames into the inbound
channel and waits when that is full. Reconfiguring cancels the actor and starts another one on the same
store without waiting for the first to return; the last configuration is kept in a file, from which a new process
relaunches the charger.

What is hard here: replies that come after the state they were meant for has
changed; outages that throw callbacks away; a restart that leaves only the
store; two sides that each write before they read; a repeated reply, or one of
the last connection; a cancelled actor that goes on beside its successor; readings taken across an outage or under a fault; commands
and CMS requests that race; a flush that is cut off or fails;
dashboards that come while state changes; requests that race across the mutex
and the file. `PROJECT.json` lists each of them with its line and the
properties that would catch it.

## Modules

* **Charger** - the actor, its CMS (external) and the link. One action is one
  iteration of the loop of `Run` with everything the handler does, or one step of
  the environment. `calls` stands for the pending map and the frames in transit.
* **ChargerProperties** - its properties, grouped by the environment they need.
* **SessionJournal** - the abstract promise of actor, store and CMS together: a
  transaction is journaled from its start until the CMS was told of its stop.
  `KeepsJournal` says that `Charger` implements it (`held` is the transaction
  on disk, `closed` what the CMS has been told).
* **ChargerProofs** - theorems about the actor in every environment.
* **ChargerSessionProofs** - theorems about its sessions and the CMS, each in the
  environment it names, and the refinement of `SessionJournal`.
* **Handover** - two actors of `Charger`, one instance each, on one store and one
  CMS: the one that `startCharger` has cancelled and its successor.
* **HandoverProofs** - theorems about the two.
* **SessionStore** - the map, the file, the mutex, each system call of
  `atomicWrite`, process crashes, power losses, failing calls.
* **DurableMap** - the abstract promise of the store to its callers: a map that
  changes one key at a time and is saved as a whole or not at all.
  `ImplementsMap` says that `SessionStore` implements it, whatever fails (`known`
  is `mem`, or the file while no process runs, `saved` the file, `settled` the
  file that the medium would give back after a power loss; `busy` says that the
  mutex is held). Without power losses, unreadable files and failed saves, `known`
  and `saved` differ only within a call: so `Charger` has one variable `store`,
  which changes in one step.
* **SessionStoreProofs** - theorems about the store.
* **Frame** - `Marshal` and `Decode`, every error return of it, over arrays of
  JSON elements.
* **WsClient** - the clients of a charger, one per connection: what is on the
  wire, what the read loop holds, the inbound channel, `Close`, the break.
* **Link** - the actor as the owner of the connection (`Run`, `call`, the
  settling of replies, the replies to CALLs, GoOffline, GoOnline, the backoff),
  over `WsClient` and `Frame`, with a CMS at the other end. A handler that sends
  fills `outbox`, and the actor does nothing else until `Send` has returned for
  each frame of it. `Charger` has the same loop with frames that arrive at once.
* **FifoLink** - the abstract promise of the client. `ImplementsFifo` says that
  `Link` implements it (`queue` is what the current client's inbound channel,
  its read loop and the wire hold, in this order).
* **LinkProofs** - theorems about frames and the link.
* **Meter** - the engine of one connector, its faults, and the readings that the
  start, the ticks, the stop and the recovery of a session report or keep, over
  outages. Energy is counted in grains, so that rounding to Wh is visible.
* **MeterProofs** - theorems about the meter.
* **EventStream** - snapshot, channels, fanout goroutines and dashboards, over
  several chargers configured one after the other.
* **EventStreamProofs** - theorems about them.
* **Worker** - the process, requests that run concurrently, `charger.json`.
* **WorkerProofs** - theorems about them.
* **MC...** - definitions that give the constants their values.

State and code correspond by name wherever TLA+ allows it (`cpState`,
`offline`, `txID`, `startPending`, `cmdCh`, `outCh`, `clients`, `current`);
`calls` is `pending`, `reg` the register of the meter engine, `announced` the last
StatusNotification sent, `ledger` what the CMS knows. In `Link`, `conn` is the
client in `c.ws`, `sel` the client whose channel `Run` selects on (0 for a nil
channel) and `sock[c]` the state of the c-th client. In `Meter`, `eng` is the
`Engine`, `record` the reading in the store, `out` the CALL of the last step.
Ghost variables, which no code reads: `ledger` and `announced` in `Charger` (what
the CMS can have seen), `told` in `SessionStore`, `askedOn`, `ran` and `extra` in
`Link` (the connection of a CALL, how often its callback ran, what the CMS sent
unasked), `top`, `gap` and `metered` in `Meter` (the highest reading sent, the
longest time between samples, the reading of the last tick), `looked` and `late` in
`Handover` (see "The handover"), `regAt`, `dropped`
and `seen` in `EventStream`, `excused`, `due` and `panicked` in `Worker`.

Some definitions come in pairs, the code's and one or two that a plausible bug
would leave in its place (`SendStop` and `SendStopAndForget`): the second is
never used by a specification. `PROJECT.json` ("mutants") says which property
each of them breaks.

## Runs

| run | question | instance |
|---|---|---|
| `charger_impatient` | Can racing requests open two handshakes, part status and transaction, or orphan one? | one connector, no drop and no restart; every refusal; two queued commands, three CALLs in flight |
| `charger_patient` | Does the actor keep the journal, announce itself and let no start meet another session of its connector? | two connectors, drops, failed dials and restarts, replies in any order, repeated boots, refused boots, starts and stops; unplugs, stops, emergency stops and offline periods at any time |
| `charger_metering` | Is energy billed once over all transactions of a connector? | readings 0 to 2, three transactions, drops, failed dials, going offline, every refusal, replies in any order |
| `charger_liveness` | What outlives an outage, and does everything that was cut off come back and end? | one connector, drops, restarts and going offline, which stop some day |
| `link` | Do frames arrive in order, does every CALL settle, and only once? | two connections, three CALLs of the charger, a trigger, an unknown CALL, a malformed frame or a repeated reply; channels of one |
| `meter` | Is what is reported and billed possible, whatever fault and outage? | AC and DC, four instants, every fault, limits below, within and above the ceiling |
| `session_store` | Is the store crash-safe, and the durable map the actor takes it for? | two keys, two actors, every fault |
| `handover` | What may a cancelled actor do beside its successor? | one connector, plug-ins and stops of both at any time, refused stops and starts, two transactions, drops |
| `event_stream` | What can a dashboard miss? | two chargers of three snapshots, channels of two |
| `worker` | Is there one charger, and does it come back? | two concurrent requests, two configurations, every fault |
| `finding_guard_stuck` | `charger.go:269-273`: does `startPending` end with the handshake? | violated |
| `finding_nil_store` | `main.go:40`: does the worker continue without a store? | violated |

**What the passing runs show.** A connector holds a
transaction exactly while it shows Charging or Finishing, that transaction is on
disk, a charger that went offline has no link and no CALL waiting, and `State()`
is never behind the actor; TLC sees this where requests race and where outages
come, the proofs cover every environment. The start guard admits one handshake per connector
however requests race, as long as the connection lasts; then, if the CMS answers
in order, no transaction is left open on it that its connector does not run. If no
session is started too early, a start in flight meets no transaction, record or stop
of its connector, whatever is unplugged or stopped meanwhile, and the journal is kept
across drops, lost and refused replies, replays and restarts; if the CMS confirms the stops of recovery, it is told every
status. Frames arrive in order and none is lost before the
connection breaks; every CALL is answered or forgotten with its connection, its
callback runs at most once, and no read loop outlives its client. What the CMS is
asked to bill is never more than the configured power could have delivered
between start and stop, and a meter fault changes nothing of it; starts, ticks
and stops never report less than was reported before. The store never shows half
a file, keeps what it acknowledged, and is a durable map to its callers. A charger
that is reconfigured in the middle of a session keeps the journal together with
its successor, which closes every session it inherits, until the cancelled actor
changes what it should have left alone. A dashboard gets the events of a charger
in order, none before its greeting, and loses one only to a full channel or by
coming at the wrong moment. One charger is live, and a new process runs what the
last one ran unless requests overlapped.

**Bounds.** Every bound is a constant: `MaxTx`, `MaxWh`, `MaxInFlight`,
`MaxConn`, `MaxPending`, `MaxExtra`, `MaxTime`, `MaxGen`, `MaxVersion`,
`MaxCharger`, and the capacities, which the code fixes at 32, 64 and 256 and the
network at `WireCap`. One connector is enough for what concerns a connector,
since handlers touch only their own; two show that they do not disturb each
other. Two transactions are enough for one session to follow, replace or be
mistaken for another, three for a third after a replay. Capacities of 1 or 2
make full queues happen in a few steps. Two or three CALLs in flight let a reply overtake, be lost
and be replayed. `MaxWh = 0` takes the readings out where no property
is about them. Two store callers are enough, since the mutex admits one. Two
connections are enough for a reply of the first to come on the second, and one
frame in each channel for everybody to wait for room. Two grains to a Wh, a
battery of ten with the knee at eight, and a ceiling of two let one sample round
down, taper, and cross the knee.

One bound in `Link` matters to what is claimed. The CMS writes an answer before
it reads on, and the actor writes a CALL before it reads on. With one connection,
channels of one, seven ids and no unsolicited frames, `EveryCallSettles` holds
with `MaxPending` up to 5 and fails from 6 on: with as many CALLs unanswered as
fit on the way there and back the actor is blocked in `Send`, the CMS in its
write, and the read loop on a full inbound channel, with nothing to break the
connection. In the code the way holds 64 frames and the network's buffers, and
what keeps the CALLs below that is only how seldom a charger sends: neither the
number of unanswered CALLs nor the time `Send` may take is bounded.

**Patience.** `Patient` restricts one command of the operator, StartCharging: he
gives it when the charge point is online, no command is queued, no CALL of that
connector is in flight, and no session of it that a restart interrupted is still on
disk. Everything else he does at any time: plug in, unplug in the middle of a
handshake, stop, press the emergency stop, clear a fault, go offline. The dashboard
shows him all that he waits for but does not enforce it, and a CMS that starts
sessions on its own (RemoteStart) does not wait: a repeated boot or a restart is then
enough to break `HandshakeAlone` and `KeepsJournal`. So it is for an operator with
`Patient = FALSE` in `charger_patient.cfg`, and the trace to `KeepsJournal` is the
disagreement listed below as "a record lost". An operator of either kind can unplug while
a start is in flight, which is the disagreement "unplugged while starting": the
connector then charges though it was Available, with a record and a guard as they
should be. `finding_guard_stuck` needs a drop only. The run
leaves out the clear-fault, which `charger_metering` and the proofs have.

**Deadlock.** It is checked but in `charger_impatient` and `charger_metering`,
where a failed dial or a shutdown ends `Run` and nothing starts it again, and in
`link`, where `Run` ends too and the connections of an instance run out.

**The handover.** `startCharger` cancels the context of one actor and starts the
next without waiting. A Go select takes any ready case, so the cancelled actor may
still handle frames, commands and ticks (a request that fetched it under `s.mu` may
still enqueue a command) before it takes ctx.Done; its `Send` may succeed or break the
connection, its dial fails. `looked` says that the new actor has been online and
so has looked for interrupted sessions, `late` that after this the old one has
changed a record that is not the one of its own live transaction. It can do so by
`Put`, when a start it had asked for is accepted now, and by `UpdateMeter` or
`Delete`, which know the connector and not the transaction. `JournalHandedOver` and
`InheritedIsClosed` hold until then: the old actor may sample, stop and close its own
session beside the recovery of the new one, in any order.
What happens otherwise is the disagreement listed below as "a late Put". In the run an
actor that has taken ctx.Done is one whose link drops and that takes no further step,
which it may do anywhere, since nothing is assumed to be fair; the proofs have
`RunReturns` as well. `handover`
has an operator of either actor who starts no session of it too early.

**Fairness.** `Charger!Fairness` is weak fairness of the select loop (a Go
select with a ready case runs), of `reconnectWithBackoff` (it retries until it
succeeds) and of the CMS answering. Liveness is claimed under `Calm`: drops,
restarts and offline periods happen any number of times, and then end. In the
store, weak fairness says that a system call returns. `Link` assumes that a
select takes a ready channel some time, that a `Write` returns once there is room
or the connection is broken, that the read loop notices a broken connection, that
the backoff dials again while connections are left, and that the CMS keeps
serving; it assumes no ping, timeout or retry, because the code has none, and
nothing of the network: a link may stay up or break at any time. `Meter`,
`EventStream` and
`Worker` have no fairness: their properties are safety; `NobodyBlocked` says in
terms of ENABLED that neither the fanout nor the actor ever waits for a
dashboard.

## Proofs

Proved by TLAPS for all values of the constants, or for those that make the
hypothesis before the colon true:

| theorem | says |
|---|---|
| `ChargerProofs!TypeCorrect` | `Spec => []TypeOK` |
| `ChargerProofs!TransactionMatchesStatus` | `Spec => []TxMatchesStatus` |
| `ChargerProofs!LiveTransactionPersisted` | `Spec => []LiveTxPersisted` |
| `ChargerProofs!OfflineIsQuiescent` | `Spec => []OfflineQuiescent` |
| `ChargerProofs!SnapshotIsFresh` | `Spec => []SnapshotFresh` |
| `ChargerSessionProofs!AnnouncedOnceOnline` | `RecoveryIsConfirmed`: `Spec => []AnnouncedWhenOnline` |
| `ChargerSessionProofs!OneHandshakeIfUnbroken` | `Unbroken`: `Spec => []OneHandshake` |
| `ChargerSessionProofs!NoTransactionOrphaned` | `InTurn`: `Spec => []NoOrphan` |
| `ChargerSessionProofs!OneHandshakeIfPatient` | `PatientStarts`: `Spec => []OneHandshake` |
| `ChargerSessionProofs!StartsReplaceNothing` | `PatientStarts`: `Spec => []HandshakeAlone` |
| `ChargerSessionProofs!JournalIsKept` | `PatientStarts`: `Spec => KeepsJournal`, the refinement |
| `ChargerSessionProofs!EnergyBilledOnce` | `OneProcess`: `Spec => []NoEnergyBilledTwice` |
| `HandoverProofs!HandoverTypeCorrect` | `HandoverSpec => []HandoverTypeOK` |
| `HandoverProofs!InheritedSessionsAreClosed` | `RecoveryIsConfirmed`: `HandoverSpec => []InheritedIsClosed` |
| `HandoverProofs!JournalHandedOverKept` | `PatientStarts`: `HandoverSpec => JournalHandedOver` |
| `SessionStoreProofs!StoreTypeCorrect` | `Spec => []TypeOK` |
| `SessionStoreProofs!AckedSurvivesCrash` | `Spec => []AckedSurvives` |
| `SessionStoreProofs!FileNeverTorn` | `Spec => NeverTorn` |
| `SessionStoreProofs!OnlyPutOpensSessions` | `Spec => OnlyPutOpens` |
| `SessionStoreProofs!StoreIsDurableMap` | `Spec => ImplementsMap`, the refinement |
| `LinkProofs!MarshalRoundTrip` | what is marshalled is decoded to the same frame |
| `LinkProofs!DecodeFaithful` | an accepted array without nulls is what marshalling its frame gives |
| `LinkProofs!LinkTypeCorrect` | `Spec => []TypeOK` |
| `LinkProofs!SettlesOnce` | `Spec => SettledOnce` |
| `LinkProofs!LinkIsFifo` | `Spec => Fifo!Safety`, the safety part of `ImplementsFifo` |
| `MeterProofs!MeterTypeCorrect` | `Spec => []TypeOK` |
| `MeterProofs!BatteryNeverOverfilled` | `Spec => []NeverOverfilled` |
| `MeterProofs!BilledIsDeliverable` | `Spec => []BilledWithinCeiling` |
| `MeterProofs!ReadingsGoForward` | `Spec => ReadingsNeverBack` |
| `MeterProofs!FaultsHideOnly` | `Spec => []FaultsOnlyHide` |
| `EventStreamProofs!StreamTypeCorrect` | `Spec => []TypeOK` |
| `EventStreamProofs!NeverSendsOnClosed` | `Spec => []NoSendOnClosed` |
| `EventStreamProofs!ReplacedIsSilent` | `Spec => []ReplacedFallsSilent` |
| `EventStreamProofs!OrderKept` | `Spec => []DeliveredInOrder` |
| `EventStreamProofs!GreetingNotOvertaken` | `Spec => []GreetNotOvertaken` |
| `EventStreamProofs!NothingElseIsLost` | `Spec => []NothingElseLost` |
| `WorkerProofs!WorkerTypeCorrect` | `Spec => []TypeOK` |
| `WorkerProofs!OnlyOneCharger` | `Spec => []OneCharger` |
| `WorkerProofs!SavedConfigurationRuns` | `Spec => []SavedIsRunning` |
| `WorkerProofs!RestartRestoresCharger` | `Spec => RestartRestores` |

*The actor.* The assumptions are those of `Charger`: finitely many connectors, 0
not among them, bounds that are naturals, and environments drawn from the named
sets. Types come first, by one step per action. The two session invariants are
not inductive: an accepted StartTransaction that carried transaction 0 would
make a connector Charging without a transaction, and a status change by a
command could separate status and transaction. `SessionInv` adds to them
`Named`, every accepted start names a transaction of the CMS. Then every handler
that changes the status does so from one that the guards fix (plug-in from
Available, unplug from Preparing, clear-fault from Faulted, stop with a live
transaction), or moves status, transaction and record together. `OfflineInv` adds to `OfflineQuiescent` that
while offline the event loop is in its select or has exited, never between a
reconnect and its boot, so that nothing is registered while offline. The last theorem needs no strengthening.

*The sessions.* Five hypotheses about the environment, in terms of the constants:
`RecoveryIsConfirmed` (the CMS does not refuse a stop of recovery),
`PatientStarts` (an operator who starts no session too early, no RemoteStart), `OneProcess` (that, and no
restart, since a new process counts energy from 0), `Unbroken` (no drop, restart,
GoOffline or TriggerBoot: the first connection and its boot are the only ones) and `InTurn` (that,
and a CMS that answers in order). None can be dropped: with the runs'
configurations relaxed in any of these points TLC finds the property violated. Only
`EnergyBilledOnce` may not need to exclude RemoteStart: there the hypothesis serves `PatientInv`.
Connectors, bounds, refusals and the rest of the outages and requests stay
arbitrary.

The proofs look at `calls` as the set of its elements (`Elems`). `Origins` says
where a CALL that waits after a step comes from, `SessionMoves` that a step lets
the session of a connector go on, opens it by an accepted start or closes it by a
confirmed stop, `LedgerGrows` that the CMS forgets nothing; with these three most
steps need no look at the actions. Over them:

* `LedgerInv`, in every environment: the record of a connector, the accepted
  starts and the stops in flight all name a transaction that the CMS opened for
  that connector, and an accepted stop one that it has closed.
* `AnnounceInv`: no stop of recovery is refused, and a reconnection or a restart is not Online
  before its boot is accepted, which announces every connector without a
  transaction and sends a stop for the others.
* `PatientInv`: one start at a time waits for each connector, with its guard up, no
  transaction, no record and no stop in flight; and a start in `cmdCh` is the first
  command there and finds its connector as settled as it was when the operator looked,
  whatever was queued behind it since. `OneHandshake` and `HandshakeAlone` follow, and neither
  is inductive without the part about records: the confirmed stop of an old session
  would lower the guard. The status is no part of it, since an unplug or an emergency
  stop may change it at any time.
* `JournalInv`: a transaction whose start is about to be told is open, and a stop in
  flight is the one of the record, or of a session closed since. With it each step is
  a step or a stutter of `SessionJournal`: the CMS's answer to a start issues a transaction, its
  answer to a stop closes one, the two replies make and delete the record.
* `BillingInv`: the register only grows while the process lives, and bounds everything billed and about to
  be billed; a transaction with a record or a stop in flight is the latest of its
  connector, so that a replayed stop never meets a later start.
* `UnbrokenInv`: the one boot stays at the head of `calls` and is followed by no recovery, and
  while a start waits its guard is up and its connector has no transaction.
* `OrderInv`: a stop is ahead of every start of its connector, and
  names the live transaction, if there is one. So its confirmation ends no other
  transaction than the one the CMS has closed.

*The handover.* `OneProcessAssumption`: what ends the process ends both actors, and
`Charger` has that. The two actors are two instances of one module, so what is
proved of the actor holds of the cancelled one as well: `HandoverProofs` has
`ChargerSessionProofs` as `OldActor`, and first shows that both mean the same
by types, records, steps and journal. But a theorem about an actor speaks of steps of that actor, and
now another one moves its store and its ledger. So the session invariants are
split: `WorkingInv` is what an actor keeps that has the store to itself, and
`CancelledInv` the part of it that survives a successor. An accepted start and a stop
in flight name a transaction that the CMS opened for the connector, and a live
transaction or one to be stopped is on disk or closed. `CancelledUndisturbed`
and `WorkingUndisturbed` say which steps of another actor leave them true: the
ledger forgets nothing, and a record only goes on, or goes for good when the CMS
has closed its transaction. The inductive invariant is

    HandedOver == ~late => IF looked THEN WorkingInv /\ OldActor!CancelledInv /\ Apart
                                     ELSE Fresh /\ OldActor!WorkingInv

Before its first look the new actor is `Fresh`: it has asked for nothing but
boots, none of its commands that wait is a start, and it touches neither store nor
ledger, though it may be told to go offline or to fault a connector. At the look the roles are exchanged, with
whatever the old one has in flight. `Apart` says that no transaction is live with, or
being started by, both; a new one is one more than all that are known, and so it
stays. It is why a step of the one never makes the other's reply come true for the
wrong transaction. `InheritedSessionsAreClosed` needs less: `Settled`, each record is of the
new actor's own transaction or waits for its stop of recovery, and that a stop of
recovery leaves `calls` only when it is confirmed or with the connection.

*The store.* `StoreInv` says that one caller at a time is past the mutex, that
what it has marshalled is what memory holds until it lets go, that a file in the
last two stages is synced, and that both memory and file are among what the
callers were told. `DecodeEncode` is the lemma that reading back what was
marshalled gives the same map. The rename then puts on disk what memory holds. The
refinement needs no more: the mutex makes a mutation a `Begin` that finds the map
not busy, the rename is its `Save`, a flush that fails its `GiveUp`. `WriteBackKeepsInv`
says that the directory, which nobody syncs, may reach the medium at any time: that
is `Settle`, and a power loss goes back to what had settled. A process that cannot
read the file starts with nothing (`Unreadable`), and what was saved stays until
the next save.

*The link.* The assumptions are those of `WsClient` and `Link`: capacities that
are positive, finitely many ids that are strings, CMS frames that are arrays.
`SockInv` types one client and adds that a client that is closed, or has stopped
reading, has a broken connection. Each operation on a client is one lemma: it
keeps `SockInv`, never mends or reopens, and moves frames as the abstract link may
(`Follows`). `LinkInv` adds two things about the actor. `Asked`: a CALL that waits
was sent on the present connection and has not been settled, which is why a reply
settles once. `Phase`: `Run` selects on the present client or on none, and while
it backs off or is offline the old one is broken and at most the boot being sent
waits, which is why a dial finds a broken link and nothing to inherit. Without
`Phase` neither `SettledOnce` nor the refinement is inductive, since `Dial` says
nothing of what it replaces.

*The meter.* `Billing` bounds the energy of a session up to its last sample and up
to its record by the power that was configured; it is stated in products, and
`Division` and `Product` are the two facts of arithmetic it needs. `Clock` orders
start, sample and present, `Highest` says that no CALL carried more than the
register holds, `Battery` that the state of charge follows the register.
`EngineAssumption` bounds what flows in one interval by what the taper has to
spare; a larger step could jump over the full battery, in the code as here.

*Event stream.* `StreamInv` follows the events of each charger through the three
places they can be in on their way to a dashboard, its event channel, the hand
of its fanout and the queue. `InOrder` says that they are in order there,
`Accounted` that the newest version emitted is among them, was shown last, was
dropped, or is not newer than the registration. `Open` and `GreetFirst` tell
queues that are registered from those that are closed or not greeted yet. Every
step puts an event into, or takes one out of, one of these sequences, so the
lemmas are about adding at the end and taking the first.

*The worker.* `Kept` says what the file says, or is about to: without an excuse at
most one request is between its locked half and the file, what it will write is
what the process owes, and otherwise that is already there.

*Only model-checked*: all liveness (`ReadLoopsEnd`, `EveryCallSettles`,
`RecoveryCompletes`, `StopCompletes`, `ComesBack`, `LockReleased`) and the
fairness part of `ImplementsFifo`; `NobodyBlocked`, because of ENABLED. Every other
invariant and action property of a passing run is stated by a theorem. The types of
the store, the event stream, the worker and the handover are proved, and no run
repeats them.

## What is abstracted

* Error codes and idTags are left out: no modelled state depends on them.
  Heartbeats and CALLs that are answered and change nothing (Reset,
  ChangeAvailability, UnlockConnector) are frames of `Link`, timestamps,
  `SetPower` and `SetMeterFault` are in `Meter`; `Charger` has neither. Formatting
  and logging are left out everywhere.
* A frame of `Link` has a type, an id, an action and an empty payload; a payload
  matters only in `Charger`. Every CALL of the charger has the action Heartbeat.
* The meter counts grains for the code's floats, and only the taper rounds. Of
  voltage, current and power it keeps whether a sample is the measured one. The
  values of a sample that only the dashboard shows (`LastSnap`) are left out.
  A session of `Meter` starts once its idTag is authorized, and the process does
  not restart.
* In `Charger`, a CALL on a dead link is one that is never registered; the code registers it,
  fails to send it and deletes it in the same handler. A frame received before a
  drop can be read until the actor notices the drop. A frame the CMS processes
  after the drop counts as processed before it. `Link` has all of that in full.
* A CALLERROR to a boot or an Authorize does what a denial does. The decode
  failures of a reply are left out: the CMS sends replies of the right shape.
* A failing store is in `SessionStore`, not in `Charger`, where `Put`,
  `UpdateMeter` and `Delete` succeed. The number of connectors does not change
  in a restart, though a configuration may go from two guns to one.
* The register restarts at 0 with the process, as a new meter engine does.
* `Handover` has two actors, as many as one configure request makes run at once.
  A handler is one step of it, as in `Charger`: what the two share, they touch at
  most once in a handler, the store under its mutex. Both have the same connectors.

## Disagreements between the code and its comments

Two are shown by a run (above, and "findings" in `PROJECT.json`). Others were
met while modelling and have no run of their own:

* Unplugged while starting, `charger.go:110-113`, `1421`: charging starts only
  from Preparing. An unplug (line 1370 asks for the status only) between Authorize
  and the reply of StartTransaction leaves Available, and the reply then makes
  the connector Charging.
* A record lost, `store.go:10`: a record is deleted only when its stop was
  confirmed. `Put` replaces the record of the connector (line 777 of
  `charger.go`), and a session started before the recovery of the last one was
  confirmed overwrites what that one would have been replayed from.
* A late Put, `store.go:12`: a record is deleted only when its stop was confirmed.
  A cancelled actor (`server.go:346-372`) may handle one accepted StartTransaction
  after its successor has looked for open sessions and started one of its own. Its
  `Put` (line 777 of `charger.go`) replaces the successor's record, since the key is
  CPID and connector; the successor's confirmed stop then deletes the record of a
  transaction that the CMS has open and nobody will stop. If the late `Put` comes
  before the successor's, it is the record that is lost at once: with this trace TLC
  finds `JournalHandedOver` violated when its premise `~late'` is left out.
* `charger.go:1287-1291`: the wait between attempts is the only place the
  actor blocks while it reconnects. The dial and the `Send` of the boot block
  too.
* `charger.go:118-127`, `README.md:99-100`: an emergency stop leaves the
  connector Faulted until a clear-fault. One handled between a reconnection and its
  boot reply sends a stop that recovery sends as well; the second confirmation
  makes the connector Available.
* `charger.go:269-273`: the guard is to keep a second start out. The
  confirmation of a recovered session (line 912) lowers it whatever it stands for.
* `charger.go:55-56`, `147-150`: while offline every user action is rejected.
  Stop, emergency stop and clear-fault are executed.
* `charger.go:636-638`: recovery is for interrupted sessions. After
  TriggerMessage(BootNotification) it stops a session nothing interrupted.
* `charger.go:1055-1057`: a remote start is accepted only if it can start. A
  command already queued may make it be dropped.
* `charger.go:884-887`: the replayed stop is identical. Its reading is that of the last
  tick: below that of a stop already sent, or, if the CMS triggers MeterValues
  before it answers the boot, above it by all of the outage.
* `charger.go:607-618`: the interval of an accepted boot is stored and logged as the
  heartbeat interval. The ticker of line 483 keeps the configured one.
* `charger.go:94-97`: a start on an Available connector plugs in first. It is
  rejected.
* `persist.go:12-16`: the last applied configuration comes back on its own. Two
  overlapping requests can leave the file of the first, a kill during the write
  leaves none, and the first dial of a relaunched charger is not retried.
* `server.go:629-630`: the greeting spares a dashboard the wait for the next
  change. A change between `State()` and the registration is lost to it.

## Plan

What could follow:

1. `Charger` over `Link` in place of its own link, for outages between two
   frames of one handler.
2. A meter that restarts with the process, and the samples of two connectors.
3. Three actors, when a second configure request comes before the first cancelled
   actor has returned; and `Charger` over `SessionStore` with power losses.

## Not modelled

Configuration and the OCPP message types are field declarations and defaults;
the dashboard renders what it is sent; `cmd/wstest` prints what it receives; HTTP
routing, request validation, flags and logging hold no state that a step of the
system depends on. The tests were read for what they expect of the code.
