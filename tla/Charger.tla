------------------------------ MODULE Charger ------------------------------
(***************************************************************************)
(* The charger actor (internal/actor/charger.go): one goroutine that owns  *)
(* the connectors, the OCPP calls waiting for a reply, the command queue   *)
(* and the durable record of every open transaction, and reacts to         *)
(* commands, to CMS frames, to the meter ticker and to the loss of the     *)
(* link.  One action is one iteration of the select loop of Run, with      *)
(* everything the handler it calls does, or one step of the environment:   *)
(* the API enqueueing a command, the CMS (external) answering a CALL, the  *)
(* link breaking, the process stopping or restarting.                      *)
(*                                                                         *)
(* CALLs whose reply changes state are in "calls", which stands for both   *)
(* the pending map and the frames in transit: a CALL leaves it when its    *)
(* reply is handled or when the code empties the map.  StatusNotification, *)
(* Heartbeat and MeterValues have no callback that changes state, so only  *)
(* the last StatusNotification sent on the link is kept, in "announced".   *)
(***************************************************************************)
EXTENDS Naturals, Sequences, FiniteSets, SequencesExt

CONSTANTS
  Connectors,   \* connector ids; 0 is the whole charge point
  UserOps,      \* commands the API issues in this configuration
  RemoteOps,    \* CALLs the CMS issues in this configuration
  CmsRefuses,   \* kinds of CALL the CMS may refuse
  Outages,      \* outages the environment may cause
  InOrder,      \* TRUE: the CMS answers CALLs in the order it got them
  Patient,      \* TRUE: the operator starts no session too early, see MayCommand
  CmdCap,       \* capacity of cmdCh (32 in the code)
  MaxTx,        \* bound: transactions the CMS issues before it denies them
  MaxWh,        \* bound: highest reading of an energy register
  MaxInFlight   \* bound: CALLs in flight at which no new one is started

HandshakeKinds == {"Authorize", "StartTx"}
StopKinds == {"StopLocal", "StopEmergency", "StopPowerLoss"}
CallKinds == {"Boot"} \cup HandshakeKinds \cup StopKinds

ConnectorOps == {"PlugIn", "Unplug", "StartCharging", "StopCharging",
                 "EmergencyStop", "ClearFault"}
LinkOps == {"GoOffline", "GoOnline"}

ASSUME ConnectorsAssumption == IsFiniteSet(Connectors) /\ 0 \notin Connectors
ASSUME OpsAssumption ==
  /\ UserOps \subseteq ConnectorOps \cup LinkOps
  /\ RemoteOps \subseteq {"RemoteStart", "RemoteStop", "TriggerBoot",
                          "TriggerStatus", "TriggerMeter"}
ASSUME EnvironmentAssumption ==
  /\ CmsRefuses \subseteq CallKinds
  /\ Outages \subseteq {"drop", "dialFail", "restart", "shutdown"}
  /\ InOrder \in BOOLEAN /\ Patient \in BOOLEAN
ASSUME BoundsAssumption ==
  CmdCap \in Nat \ {0} /\ MaxTx \in Nat /\ MaxWh \in Nat /\ MaxInFlight \in Nat \ {0}

VARIABLES
  loop,         \* where Run is: "dialing", "select", "backoff" or "exited"
  cpState,      \* lifecycle of the charge point
  offline,      \* TRUE between GoOffline and a successful GoOnline
  link,         \* "up" while frames can cross the WebSocket
  inbound,      \* the channel Run selects on: "open" or "nil"
  calls,        \* CALLs sent and not yet settled, oldest first
  cmdCh,        \* commands enqueued and not yet handled
  status,       \* per connector: OCPP ChargePointStatus
  txID,         \* per connector: the live transaction, 0 if none
  startPending, \* per connector: a start handshake is in flight
  reg,          \* per connector: energy register of its meter engine, in Wh
  store,        \* per connector: the persisted open session, or NoRecord
  snap,         \* the snapshot last published for State()
  announced,    \* per connector: last status sent on this connection
  ledger        \* the CMS: transaction tx is ledger[tx]

runVars  == <<loop, cpState, offline, link, inbound>>
connVars == <<status, txID, startPending, reg>>
vars == <<runVars, calls, cmdCh, connVars, store, snap, announced, ledger>>

CpStates == {"Booting", "Online", "Disconnected", "Offline", "Reconnecting"}
Statuses == {"Available", "Preparing", "Charging", "Finishing", "Faulted"}
Answers  == {"none", "Accepted", "Denied", "Error"}

\* tx is the transaction to stop, or the one the CMS assigned to a StartTx;
\* wh is meterStart or meterStop.
Wh == 0 .. MaxWh
Call == [kind : {"Boot"}, conn : {0}, tx : Nat, wh : Wh, ans : Answers]
        \cup [kind : HandshakeKinds \cup StopKinds, conn : Connectors,
              tx : Nat, wh : Wh, ans : Answers]
NoRecord == [tx |-> 0, startWh |-> 0, lastWh |-> 0]
Record == [tx : Nat, startWh : Wh, lastWh : Wh]
Command == [op : ConnectorOps, conn : Connectors] \cup [op : LinkOps, conn : {0}]

\* publishSnapshot; the mutant publishes before the handler has finished.
View == [cp |-> cpState, status |-> status, tx |-> txID, reg |-> reg]
PublishEarly == snap' = View
Publish == snap' = View'

Idle == [c \in Connectors |-> "Available"]
None == [c \in Connectors |-> "none"]
Zero == [c \in Connectors |-> 0]
False == [c \in Connectors |-> FALSE]

\* NewCharger, before Run is called, with nothing on disk.
Init ==
  /\ loop = "dialing" /\ cpState = "Booting" /\ offline = FALSE
  /\ link = "down" /\ inbound = "open"
  /\ calls = <<>> /\ cmdCh = <<>>
  /\ status = Idle /\ txID = Zero /\ startPending = False /\ reg = Zero
  /\ announced = None /\ snap = View
  /\ store = [c \in Connectors |-> NoRecord]
  /\ ledger = <<>>

-----------------------------------------------------------------------------
(* Sending                                                                 *)

NewCall(kind, c, tx, wh) ==
  [kind |-> kind, conn |-> c, tx |-> tx, wh |-> wh, ans |-> "none"]
Boot == NewCall("Boot", 0, 0, 0)

\* call: a CALL whose Send fails is forgotten at once.  The mutant keeps it.
SentKept(waiting, new) == waiting \o new
Sent(waiting, new) == IF link = "up" THEN waiting \o new ELSE waiting

\* sendStatus and sendStatusWithInfo of one connector.
Announce(c, s) ==
  /\ status' = [status EXCEPT ![c] = s]
  /\ announced' = IF link = "up" THEN [announced EXCEPT ![c] = s] ELSE announced

\* The bound on CALLs in flight; nothing is registered on a dead link.
RoomToCall == link = "up" => Len(calls) < MaxInFlight

\* What Engine.Sample may read: the register never goes back while it samples.
\* Meter has the engine that yields the readings.
Sampled(c) == {wh \in {reg[c], reg[c] + 1} : wh <= MaxWh}

-----------------------------------------------------------------------------
(* Run: connecting, the link, the ticker                                   *)

RunConnect ==
  /\ loop = "dialing"
  /\ loop' = "select" /\ link' = "up" /\ calls' = <<Boot>>
  /\ UNCHANGED <<cpState, offline, inbound, cmdCh, connVars, store, snap, announced, ledger>>

\* The first dial is not retried: Run returns before its defer is set up.
RunConnectFails ==
  /\ loop = "dialing" /\ "dialFail" \in Outages
  /\ loop' = "exited"
  /\ UNCHANGED <<cpState, offline, link, inbound, calls, cmdCh, connVars, store, snap, announced, ledger>>

\* Run returns through its defer: the boot could not be sent, or ctx is done.
RunReturns ==
  /\ \/ loop = "dialing" /\ "dialFail" \in Outages
     \/ loop \in {"select", "backoff"} /\ "shutdown" \in Outages
  /\ loop' = "exited" /\ cpState' = "Disconnected"
  /\ link' = "down" /\ announced' = None
  /\ UNCHANGED <<offline, inbound, calls, cmdCh, connVars, store, ledger>>
  /\ Publish

\* The inbound channel is closed: on purpose, or onUnexpectedDrop.
InboundClosed ==
  /\ loop = "select" /\ inbound = "open" /\ link = "down"
  /\ \/ /\ offline
        /\ inbound' = "nil"
        /\ UNCHANGED <<loop, cpState, calls, snap>>
     \/ /\ ~offline
        /\ cpState' = "Reconnecting" /\ calls' = <<>> /\ loop' = "backoff"
        /\ UNCHANGED <<offline, inbound, connVars>> /\ Publish
  /\ UNCHANGED <<offline, link, cmdCh, connVars, store, announced, ledger>>

\* reconnectWithBackoff: the attempt that succeeds; the others change nothing.
\* The mutant forgets to boot again.
ReconnectUnbooted ==
  /\ loop = "backoff"
  /\ loop' = "select" /\ link' = "up" /\ inbound' = "open"
  /\ UNCHANGED <<cpState, offline, calls, cmdCh, connVars, store, snap, announced, ledger>>
Reconnect ==
  /\ loop = "backoff"
  /\ loop' = "select" /\ link' = "up" /\ inbound' = "open" /\ calls' = Append(calls, Boot)
  /\ UNCHANGED <<cpState, offline, cmdCh, connVars, store, snap, announced, ledger>>

\* sendMeterValues of the connectors in cs: the register advances and the
\* record follows it, whatever becomes of the MeterValues CALL.
Meter(cs) ==
  /\ reg' \in [Connectors -> Wh]
  /\ \A c \in Connectors : IF c \in cs THEN reg'[c] \in Sampled(c) ELSE reg'[c] = reg[c]
  /\ store' = [c \in Connectors |->
                 IF c \in cs /\ store[c] # NoRecord
                 THEN [store[c] EXCEPT !.lastWh = reg'[c]] ELSE store[c]]

MeterTick ==
  /\ loop = "select" /\ cpState = "Online"
  /\ LET charging == {c \in Connectors : status[c] = "Charging" /\ txID[c] # 0}
     IN  charging # {} /\ Meter(charging)
  /\ UNCHANGED <<runVars, calls, cmdCh, status, txID, startPending, announced, ledger>>
  /\ Publish

-----------------------------------------------------------------------------
(* Replies: handleInbound with a CALLRESULT or CALLERROR                   *)

Listening == loop = "select" /\ inbound = "open" /\ ~offline

Reply(i, kinds, ans) ==
  /\ Listening
  /\ calls[i].kind \in kinds /\ calls[i].ans = ans
  /\ InOrder => i = 1

\* The callback leaves everything but the pending map alone.
OnlySettled(i) ==
  /\ calls' = RemoveAt(calls, i)
  /\ UNCHANGED <<runVars, cmdCh, connVars, store, snap, announced, ledger>>

\* LoadOpen.  The mutants skip the sessions this process does not hold, and
\* those whose stop had been requested before the outage.
InterruptedHeld == {c \in Connectors : store[c] # NoRecord /\ txID[c] # 0}
InterruptedRunning == {c \in Connectors : store[c] # NoRecord /\ status[c] # "Finishing"}
Interrupted == {c \in Connectors : store[c] # NoRecord}

\* stopTransactionFromRecord
RecoveryStop(c) == NewCall("StopPowerLoss", c, store[c].tx, store[c].lastWh)

\* Every connector without a live transaction is announced again (the mutant
\* also skips one whose handshake was cut off) ...
ReannouncedUnlessPending ==
  [c \in Connectors |->
     IF txID[c] = 0 /\ ~startPending[c] THEN status[c] ELSE announced[c]]
Reannounced ==
  [c \in Connectors |-> IF txID[c] = 0 THEN status[c] ELSE announced[c]]

\* ... and every record, in any order, is closed with a StopTransaction.
BootAccepted(i) ==
  /\ Reply(i, {"Boot"}, "Accepted")
  /\ cpState' = "Online"
  /\ announced' = IF link = "up" THEN Reannounced ELSE announced
  /\ \E order \in SetToSeqs(Interrupted) :
       calls' = Sent(RemoveAt(calls, i), [k \in DOMAIN order |-> RecoveryStop(order[k])])
  /\ UNCHANGED <<loop, offline, link, inbound, cmdCh, connVars, store, ledger>>
  /\ Publish

\* Pending, Rejected or a CALLERROR: nobody boots again.
BootRefused(i) == Reply(i, {"Boot"}, "Denied") /\ OnlySettled(i)

\* Engine.CurrentWh: the register is carried from one session to the next.  The
\* mutant starts every session at zero.
MeterStartAtZero(c) == 0
MeterStart(c) == reg[c]

\* onAccepted of the start handshake: sendStartTransaction.  The mutant takes
\* the end of Authorize for the end of the handshake.
AuthorizeReleases(i) ==
  /\ Reply(i, {"Authorize"}, "Accepted")
  /\ LET c == calls[i].conn
     IN  /\ calls' = Sent(RemoveAt(calls, i), <<NewCall("StartTx", c, 0, MeterStart(c))>>)
         /\ startPending' = [startPending EXCEPT ![c] = FALSE]
  /\ UNCHANGED <<runVars, cmdCh, status, txID, reg, store, snap, announced, ledger>>
AuthorizeAccepted(i) ==
  /\ Reply(i, {"Authorize"}, "Accepted")
  /\ LET c == calls[i].conn
     IN  calls' = Sent(RemoveAt(calls, i), <<NewCall("StartTx", c, 0, MeterStart(c))>>)
  /\ UNCHANGED <<runVars, cmdCh, connVars, store, snap, announced, ledger>>

\* A refused Authorize or StartTransaction releases the start guard.
StartRefused(i) ==
  /\ Reply(i, HandshakeKinds, "Denied")
  /\ calls' = RemoveAt(calls, i)
  /\ startPending' = [startPending EXCEPT ![calls[i].conn] = FALSE]
  /\ UNCHANGED <<runVars, cmdCh, status, txID, reg, store, announced, ledger>>
  /\ Publish

\* Put of the record the accepted start opens.
Put(c, tx, wh) ==
  store' = [store EXCEPT ![c] = [tx |-> tx, startWh |-> wh, lastWh |-> wh]]

StartAccepted(i) ==
  /\ Reply(i, {"StartTx"}, "Accepted")
  /\ LET c == calls[i].conn  wh == calls[i].wh
     IN  /\ txID' = [txID EXCEPT ![c] = calls[i].tx]
         /\ startPending' = [startPending EXCEPT ![c] = FALSE]
         /\ reg' = [reg EXCEPT ![c] = wh]
         /\ Put(c, calls[i].tx, wh)
         /\ Announce(c, "Charging")
  /\ calls' = RemoveAt(calls, i)
  /\ UNCHANGED <<runVars, cmdCh, ledger>>
  /\ Publish

\* StartTransaction and StopTransaction are sent with a nil onError.
ErrorIgnored(i) == Reply(i, {"StartTx"} \cup StopKinds, "Error") /\ OnlySettled(i)

\* What every confirmed stop does, and the status its afterStop announces.
SessionClosed(i, s) ==
  LET c == calls[i].conn
  IN  /\ txID' = [txID EXCEPT ![c] = 0]
      /\ store' = [store EXCEPT ![c] = NoRecord]
      /\ Announce(c, s)
      /\ calls' = RemoveAt(calls, i)
      /\ UNCHANGED <<runVars, cmdCh, reg, ledger>>
      /\ Publish

StopConfirmed(i) ==
  /\ \/ Reply(i, {"StopLocal"}, "Accepted") /\ SessionClosed(i, "Available")
     \/ Reply(i, {"StopEmergency"}, "Accepted") /\ SessionClosed(i, "Faulted")
  /\ UNCHANGED startPending

RecoveryConfirmed(i) ==
  /\ Reply(i, {"StopPowerLoss"}, "Accepted")
  /\ SessionClosed(i, "Available")
  /\ startPending' = [startPending EXCEPT ![calls[i].conn] = FALSE]

-----------------------------------------------------------------------------
(* Commands: one iteration that takes a command from cmdCh                 *)

\* canStartCharging.  The mutants lose a guard: the plug's, the handshake's.
CanStartUnplugged(c) == cpState = "Online" /\ txID[c] = 0 /\ ~startPending[c]
CanStartTwice(c) == cpState = "Online" /\ txID[c] = 0 /\ status[c] = "Preparing"
CanStart(c) == /\ cpState = "Online"
               /\ txID[c] = 0
               /\ status[c] = "Preparing"
               /\ ~startPending[c]

\* The guard of handlePlugIn.  The mutant loses the status test.
CanPlugInAnyStatus(c) == cpState = "Online"
CanPlugIn(c) == cpState = "Online" /\ status[c] = "Available"

\* The early returns of the command handlers.
Honoured(k) ==
  \/ k.op = "PlugIn" /\ CanPlugIn(k.conn)
  \/ k.op = "Unplug" /\ cpState = "Online" /\ status[k.conn] = "Preparing"
  \/ k.op = "StartCharging" /\ CanStart(k.conn)
  \/ k.op = "StopCharging" /\ txID[k.conn] # 0
  \/ k.op = "EmergencyStop"
  \/ k.op = "ClearFault" /\ status[k.conn] = "Faulted"
  \/ k.op = "GoOffline" /\ ~offline
  \/ k.op = "GoOnline" /\ offline

Take(op) ==
  /\ loop = "select" /\ cmdCh # <<>>
  /\ Head(cmdCh).op = op /\ Honoured(Head(cmdCh))
  /\ cmdCh' = Tail(cmdCh)

IgnoreCommand ==
  /\ loop = "select" /\ cmdCh # <<>>
  /\ ~Honoured(Head(cmdCh))
  /\ cmdCh' = Tail(cmdCh)
  /\ UNCHANGED <<runVars, calls, connVars, store, snap, announced, ledger>>

\* Commands whose whole effect is a StatusNotification.
PlugIn == Take("PlugIn") /\ Announce(Head(cmdCh).conn, "Preparing")
Unplug == Take("Unplug") /\ Announce(Head(cmdCh).conn, "Available")
ClearFault == Take("ClearFault") /\ Announce(Head(cmdCh).conn, "Available")
StatusCommand ==
  /\ PlugIn \/ Unplug \/ ClearFault
  /\ UNCHANGED <<runVars, calls, txID, startPending, reg, store, ledger>>
  /\ Publish

StartCharging ==
  /\ RoomToCall /\ Take("StartCharging")
  /\ LET c == Head(cmdCh).conn
     IN  /\ startPending' = [startPending EXCEPT ![c] = TRUE]
         /\ calls' = Sent(calls, <<NewCall("Authorize", c, 0, 0)>>)
  /\ UNCHANGED <<runVars, status, txID, reg, store, snap, announced, ledger>>

\* sendStopTransaction of a live transaction.  The mutant deletes the record
\* when the stop is sent.
SendStopAndForget(kind, c) ==
  /\ reg' = reg /\ calls' = Sent(calls, <<NewCall(kind, c, txID[c], reg[c])>>)
  /\ Announce(c, "Finishing")
  /\ store' = [store EXCEPT ![c] = NoRecord]
SendStop(kind, c) ==
  /\ \E wh \in Sampled(c) :
       /\ reg' = [reg EXCEPT ![c] = wh]
       /\ calls' = Sent(calls, <<NewCall(kind, c, txID[c], wh)>>)
  /\ Announce(c, "Finishing")
  /\ UNCHANGED store

StopCharging ==
  /\ RoomToCall /\ Take("StopCharging")
  /\ SendStop("StopLocal", Head(cmdCh).conn)
  /\ UNCHANGED <<runVars, txID, startPending, ledger>>
  /\ Publish

EmergencyStop ==
  /\ RoomToCall /\ Take("EmergencyStop")
  /\ LET c == Head(cmdCh).conn
     IN  \/ txID[c] # 0 /\ SendStop("StopEmergency", c)
         \/ txID[c] = 0 /\ Announce(c, "Faulted") /\ UNCHANGED <<reg, calls, store>>
  /\ UNCHANGED <<runVars, txID, startPending, ledger>>
  /\ Publish

GoOffline ==
  /\ Take("GoOffline")
  /\ offline' = TRUE /\ cpState' = "Offline" /\ calls' = <<>>
  /\ link' = "down" /\ announced' = None
  /\ UNCHANGED <<loop, inbound, connVars, store, ledger>>
  /\ Publish

\* handleGoOnline.  The last snapshot says Booting if the dial succeeds; if
\* the boot cannot be sent, the fresh link is found dead by InboundClosed.
GoOnline ==
  /\ Take("GoOnline")
  /\ \/ /\ offline' = FALSE /\ cpState' = "Booting" /\ inbound' = "open"
        /\ \/ link' = "up" /\ calls' = Append(calls, Boot)
           \/ "dialFail" \in Outages /\ link' = "down" /\ calls' = calls
     \/ /\ "dialFail" \in Outages
        /\ inbound' = "nil" /\ UNCHANGED <<offline, cpState, link, calls>>
  /\ UNCHANGED <<loop, connVars, store, announced, ledger>>
  /\ Publish

-----------------------------------------------------------------------------
(* CALLs of the CMS: handleIncomingCall                                    *)

\* enqueue: a command that finds cmdCh full is dropped.  The mutant queues it.
OfferAlways(k) == cmdCh' = Append(cmdCh, k)
Offer(k) == cmdCh' = IF Len(cmdCh) < CmdCap THEN Append(cmdCh, k) ELSE cmdCh

\* Accepted if the start is possible now; the command is handled later.
RemoteStart ==
  /\ Listening /\ "RemoteStart" \in RemoteOps
  /\ \E c \in Connectors :
       /\ CanStart(c)
       /\ Offer([op |-> "StartCharging", conn |-> c])
  /\ UNCHANGED <<runVars, calls, connVars, store, snap, announced, ledger>>

\* Any transaction id the CMS may name, 0 included, matches a connector
\* whose txID is equal to it.
RemoteStop ==
  /\ Listening /\ "RemoteStop" \in RemoteOps
  /\ \E tx \in 0 .. Len(ledger), c \in Connectors :
       /\ txID[c] = tx
       /\ Offer([op |-> "StopCharging", conn |-> c])
  /\ UNCHANGED <<runVars, calls, connVars, store, snap, announced, ledger>>

TriggerBoot ==
  /\ Listening /\ "TriggerBoot" \in RemoteOps /\ RoomToCall
  /\ calls' = Sent(calls, <<Boot>>)
  /\ UNCHANGED <<runVars, cmdCh, connVars, store, snap, announced, ledger>>

TriggerStatus ==
  /\ Listening /\ "TriggerStatus" \in RemoteOps
  /\ \E c \in Connectors : Announce(c, status[c])
  /\ UNCHANGED <<runVars, calls, cmdCh, txID, startPending, reg, store, ledger>>
  /\ Publish

TriggerMeter ==
  /\ Listening /\ "TriggerMeter" \in RemoteOps
  /\ \E c \in Connectors : txID[c] # 0 /\ Meter({c})
  /\ UNCHANGED <<runVars, calls, cmdCh, status, txID, startPending, announced, ledger>>
  /\ Publish

-----------------------------------------------------------------------------
(* The environment                                                         *)

\* A patient operator starts a session only when the charge point is online, no
\* command is queued, no CALL of that connector is in flight, and no session of
\* it that a restart interrupted is still to be closed.  All else he does when he
\* likes: plug in, unplug, stop, press the emergency stop, go offline.
MayCommand(op, c) ==
  Patient /\ op = "StartCharging" =>
    /\ cmdCh = <<>> /\ cpState = "Online"
    /\ \A i \in DOMAIN calls : calls[i].conn # c
    /\ store[c].tx = txID[c]

UserCommand ==
  /\ loop # "exited" /\ Len(cmdCh) < CmdCap
  /\ \/ \E op \in UserOps \cap ConnectorOps, c \in Connectors :
          MayCommand(op, c) /\ Offer([op |-> op, conn |-> c])
     \/ \E op \in UserOps \cap LinkOps : Offer([op |-> op, conn |-> 0])
  /\ UNCHANGED <<runVars, calls, connVars, store, snap, announced, ledger>>

\* The CMS accepts a CALL.  A transaction is a ledger entry whose stops are
\* the meterStop readings reported for it: it is open while there is none.
CmsAccept(i) ==
  /\ calls[i].kind = "StartTx" => Len(ledger) < MaxTx
  /\ ledger' = CASE calls[i].kind = "StartTx" ->
                      Append(ledger, [conn |-> calls[i].conn, start |-> calls[i].wh, stops |-> {}])
                 [] calls[i].kind \in StopKinds ->
                      [ledger EXCEPT ![calls[i].tx].stops = @ \cup {calls[i].wh}]
                 [] OTHER -> ledger
  /\ calls' = [calls EXCEPT ![i].ans = "Accepted",
                            ![i].tx = IF calls[i].kind = "StartTx" THEN Len(ledger) + 1 ELSE @]

\* It can deny a boot or a start, and answer by CALLERROR: to a boot or an
\* Authorize that has the effect of a denial.
CmsRefuse(i) ==
  /\ \/ calls[i].kind \in CmsRefuses
     \/ calls[i].kind = "StartTx" /\ Len(ledger) = MaxTx
  /\ \E ans \in {"Denied", "Error"} :
       /\ ans = "Denied" => calls[i].kind \notin StopKinds
       /\ ans = "Error" => calls[i].kind \in {"StartTx"} \cup StopKinds
       /\ calls' = [calls EXCEPT ![i].ans = ans]
  /\ UNCHANGED ledger

CmsAnswer(i) ==
  /\ link = "up" /\ calls[i].ans = "none"
  /\ InOrder => \A j \in 1 .. i - 1 : calls[j].ans # "none"
  /\ CmsAccept(i) \/ CmsRefuse(i)
  /\ UNCHANGED <<runVars, cmdCh, connVars, store, snap, announced>>

\* Frames already received may still be read: InboundClosed loses the rest.
LinkDrop ==
  /\ "drop" \in Outages /\ link = "up"
  /\ link' = "down" /\ announced' = None
  /\ UNCHANGED <<loop, cpState, offline, inbound, calls, cmdCh, connVars, store, snap, ledger>>

\* The process is replaced: only the store, and the CMS, remember anything.
Restart ==
  /\ "restart" \in Outages
  /\ loop' = "dialing" /\ cpState' = "Booting" /\ offline' = FALSE
  /\ link' = "down" /\ inbound' = "open"
  /\ calls' = <<>> /\ cmdCh' = <<>>
  /\ status' = Idle /\ txID' = Zero /\ startPending' = False /\ reg' = Zero
  /\ announced' = None /\ Publish
  /\ UNCHANGED <<store, ledger>>

-----------------------------------------------------------------------------

HandleReply(i) ==
  \/ BootAccepted(i) \/ BootRefused(i)
  \/ AuthorizeAccepted(i) \/ StartAccepted(i) \/ StartRefused(i) \/ ErrorIgnored(i)
  \/ StopConfirmed(i) \/ RecoveryConfirmed(i)

HandleCommand ==
  \/ StatusCommand \/ StartCharging \/ StopCharging \/ EmergencyStop
  \/ GoOffline \/ GoOnline \/ IgnoreCommand

HandleCall ==
  RemoteStart \/ RemoteStop \/ TriggerBoot \/ TriggerStatus \/ TriggerMeter

Next ==
  \/ RunConnect \/ RunConnectFails \/ RunReturns \/ InboundClosed \/ Reconnect \/ MeterTick
  \/ \E i \in DOMAIN calls : HandleReply(i) \/ CmsAnswer(i)
  \/ HandleCommand \/ HandleCall
  \/ UserCommand \/ LinkDrop \/ Restart

Spec == Init /\ [][Next]_vars

\* The select loop keeps running, the CMS answers, redialling succeeds.
Fairness ==
  /\ WF_vars(RunConnect) /\ WF_vars(InboundClosed) /\ WF_vars(Reconnect)
  /\ WF_vars(HandleCommand)
  /\ WF_vars(\E i \in DOMAIN calls : HandleReply(i))
  /\ WF_vars(\E i \in DOMAIN calls : CmsAnswer(i))

FairSpec == Spec /\ Fairness
=============================================================================
