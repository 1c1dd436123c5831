--------------------------- MODULE HandoverProofs ---------------------------
(***************************************************************************)
(* Theorems about two chargers of one CPID, one after the other, for any   *)
(* number of connectors and any bounds.                                    *)
(***************************************************************************)
EXTENDS Handover, ChargerSessionProofs

\* What is proved of any actor, said of the cancelled one.
OldActor == INSTANCE ChargerSessionProofs WITH
  loop <- oldLoop, cpState <- oldCpState, offline <- oldOffline, link <- oldLink,
  inbound <- oldInbound, calls <- oldCalls, cmdCh <- oldCmdCh, status <- oldStatus,
  txID <- oldTxID, startPending <- oldStartPending, reg <- oldReg, snap <- oldSnap,
  announced <- oldAnnounced

\* The assumptions on the constants are the same for both.
LEMMA OldAssumptions ==
  /\ IsFiniteSet(Connectors) <=> OldActor!IsFiniteSet(Connectors)
  /\ CallKinds = OldActor!CallKinds
  /\ ConnectorOps = OldActor!ConnectorOps /\ LinkOps = OldActor!LinkOps
  /\ PatientStarts <=> OldActor!PatientStarts
  BY DEF IsFiniteSet, CallKinds, HandshakeKinds, StopKinds, ConnectorOps, LinkOps, PatientStarts,
      OldActor!IsFiniteSet, OldActor!CallKinds, OldActor!HandshakeKinds, OldActor!StopKinds,
      OldActor!ConnectorOps, OldActor!LinkOps, OldActor!PatientStarts

\* The operators of Handover's old actor are those the proofs are about.
LEMMA OldTypes == Old!TypeOK <=> OldActor!TypeOK
  BY Zenon DEF Old!HandshakeKinds, Old!StopKinds, Old!ConnectorOps, Old!LinkOps, Old!CpStates,
      Old!Statuses, Old!Answers, Old!Wh, Old!Call, Old!Record, Old!Command, Old!Ledger,
      Old!TypeOK, OldActor!HandshakeKinds, OldActor!StopKinds, OldActor!ConnectorOps,
      OldActor!LinkOps, OldActor!CpStates, OldActor!Statuses, OldActor!Answers, OldActor!Wh,
      OldActor!Call, OldActor!Record, OldActor!Command, OldActor!Ledger, OldActor!TypeOK

LEMMA OldInit == Old!Init <=> OldActor!Init
  BY Zenon DEF Old!NoRecord, Old!View, Old!Idle, Old!None, Old!Zero, Old!False, Old!Init,
      OldActor!NoRecord, OldActor!View, OldActor!Idle, OldActor!None, OldActor!Zero,
      OldActor!False, OldActor!Init

LEMMA OldNext == Old!Next <=> OldActor!Next
  BY ZenonT(30) DEF Old!HandshakeKinds, Old!StopKinds, Old!ConnectorOps, Old!LinkOps, Old!runVars,
      Old!connVars, Old!Wh, Old!NoRecord, Old!View, Old!Publish, Old!Idle, Old!None, Old!Zero,
      Old!False, Old!NewCall, Old!Boot, Old!Sent, Old!Announce, Old!RoomToCall, Old!Sampled,
      Old!RunConnect, Old!RunConnectFails, Old!RunReturns, Old!InboundClosed, Old!Reconnect,
      Old!Meter, Old!MeterTick, Old!Listening, Old!Reply, Old!OnlySettled, Old!Interrupted,
      Old!RecoveryStop, Old!Reannounced, Old!BootAccepted, Old!BootRefused, Old!MeterStart,
      Old!AuthorizeAccepted, Old!StartRefused, Old!Put, Old!StartAccepted, Old!ErrorIgnored,
      Old!SessionClosed, Old!StopConfirmed, Old!RecoveryConfirmed, Old!CanStart, Old!CanPlugIn,
      Old!Honoured, Old!Take, Old!IgnoreCommand, Old!PlugIn, Old!Unplug, Old!ClearFault,
      Old!StatusCommand, Old!StartCharging, Old!SendStop, Old!StopCharging, Old!EmergencyStop,
      Old!GoOffline, Old!GoOnline, Old!Offer, Old!RemoteStart, Old!RemoteStop, Old!TriggerBoot,
      Old!TriggerStatus, Old!TriggerMeter, Old!MayCommand, Old!UserCommand, Old!CmsAccept,
      Old!CmsRefuse, Old!CmsAnswer, Old!LinkDrop, Old!Restart, Old!HandleReply,
      Old!HandleCommand, Old!HandleCall, Old!Next, Old!RemoveAt, Old!SetToSeqs, Old!Cardinality,
      OldActor!HandshakeKinds, OldActor!StopKinds, OldActor!ConnectorOps, OldActor!LinkOps,
      OldActor!runVars, OldActor!connVars, OldActor!Wh, OldActor!NoRecord, OldActor!View,
      OldActor!Publish, OldActor!Idle, OldActor!None, OldActor!Zero, OldActor!False,
      OldActor!NewCall, OldActor!Boot, OldActor!Sent, OldActor!Announce, OldActor!RoomToCall,
      OldActor!Sampled, OldActor!RunConnect, OldActor!RunConnectFails, OldActor!RunReturns,
      OldActor!InboundClosed, OldActor!Reconnect, OldActor!Meter, OldActor!MeterTick,
      OldActor!Listening, OldActor!Reply, OldActor!OnlySettled, OldActor!Interrupted,
      OldActor!RecoveryStop, OldActor!Reannounced, OldActor!BootAccepted, OldActor!BootRefused,
      OldActor!MeterStart, OldActor!AuthorizeAccepted, OldActor!StartRefused, OldActor!Put,
      OldActor!StartAccepted, OldActor!ErrorIgnored, OldActor!SessionClosed,
      OldActor!StopConfirmed, OldActor!RecoveryConfirmed, OldActor!CanStart, OldActor!CanPlugIn,
      OldActor!Honoured, OldActor!Take, OldActor!IgnoreCommand, OldActor!PlugIn,
      OldActor!Unplug, OldActor!ClearFault, OldActor!StatusCommand, OldActor!StartCharging,
      OldActor!SendStop, OldActor!StopCharging, OldActor!EmergencyStop, OldActor!GoOffline,
      OldActor!GoOnline, OldActor!Offer, OldActor!RemoteStart, OldActor!RemoteStop,
      OldActor!TriggerBoot, OldActor!TriggerStatus, OldActor!TriggerMeter, OldActor!MayCommand,
      OldActor!UserCommand, OldActor!CmsAccept, OldActor!CmsRefuse, OldActor!CmsAnswer,
      OldActor!LinkDrop, OldActor!Restart, OldActor!HandleReply, OldActor!HandleCommand,
      OldActor!HandleCall, OldActor!Next, OldActor!RemoveAt, OldActor!SetToSeqs,
      OldActor!Cardinality

\* What is said of the store and the ledger alone is the same for both.
LEMMA SharedTypes ==
  /\ OldActor!Record = Record /\ OldActor!Ledger = Ledger /\ OldActor!NoRecord = NoRecord
  BY DEF Record, Ledger, NoRecord, Wh, OldActor!Record, OldActor!Ledger, OldActor!NoRecord, OldActor!Wh

LEMMA SharedRecords ==
  /\ OldActor!RecordsOwned <=> RecordsOwned
  /\ OldActor!RecordsOwned' <=> RecordsOwned'
  /\ OldActor!LedgerKept <=> LedgerKept
  /\ \A c : OldActor!RecordKept(c) <=> RecordKept(c)
<1>1. OldActor!RecordsOwned <=> RecordsOwned
  BY SharedTypes DEF RecordsOwned, Owned, OldActor!RecordsOwned, OldActor!Owned
<1>2. OldActor!RecordsOwned' <=> RecordsOwned'
  BY SharedTypes DEF RecordsOwned, Owned, OldActor!RecordsOwned, OldActor!Owned
<1>3. OldActor!LedgerKept <=> LedgerKept
  BY DEF LedgerKept, OldActor!LedgerKept
<1>4. \A c : OldActor!RecordKept(c) <=> RecordKept(c)
  BY SharedTypes DEF RecordKept, OldActor!RecordKept
<1> QED
  BY <1>1, <1>2, <1>3, <1>4

LEMMA SharedJournal == [OldActor!Journal!Next]_(OldActor!JournalView) <=> [Journal!Next]_JournalView
  BY Zenon
  DEF Journal!Next, Journal!Issue, Journal!Open, Journal!Close, Journal!Forget, JournalView, Held,
      ClosedTxs, OldActor!Journal!Next, OldActor!Journal!Issue, OldActor!Journal!Open,
      OldActor!Journal!Close, OldActor!Journal!Forget, OldActor!JournalView, OldActor!Held,
      OldActor!ClosedTxs

\* A step of a handover is one of either actor, or leaves both alone.  One
\* process runs both, so neither restarts.
LEMMA NewMoves == NewStep => Next /\ ~Restart
  BY OneProcessAssumption DEF NewStep, Restart

LEMMA OldMoves == OldStep => OldActor!Next /\ ~OldActor!Restart
  BY OneProcessAssumption, OldNext DEF OldStep, OldActor!Restart

-----------------------------------------------------------------------------
(* Types.                                                                  *)

BothTyped == TypeOK /\ OldActor!TypeOK

LEMMA BothTypedInit == HandoverInit => BothTyped
<1>1. OldActor!Init => OldActor!TypeOK
  BY OldActor!TypeInit, OldAssumptions, ConnectorsAssumption, OpsAssumption, EnvironmentAssumption,
     BoundsAssumption
<1> QED
  BY <1>1, OldInit, TypeInit DEF HandoverInit, BothTyped

LEMMA BothTypedStep == BothTyped /\ [HandoverNext]_handoverVars => BothTyped'
<1> SUFFICES ASSUME BothTyped, [HandoverNext]_handoverVars PROVE BothTyped'
  OBVIOUS
<1> USE DEF BothTyped
<1>1. CASE NewStep
  <2>1. TypeOK'
    BY <1>1, NewMoves, TypeStep
  <2>2. OldActor!TypeOK'
    BY <1>1, <2>1, SharedTypes DEF NewStep, oldVars, TypeOK, OldActor!TypeOK
  <2> QED
    BY <2>1, <2>2
<1>2. CASE OldStep
  <2>1. OldActor!TypeOK'
    BY <1>2, OldMoves, OldActor!TypeStep, OldAssumptions, ConnectorsAssumption, OpsAssumption,
       EnvironmentAssumption, BoundsAssumption
  <2>2. TypeOK'
    BY <1>2, <2>1, SharedTypes
    DEF OldStep, newVars, runVars, connVars, TypeOK, OldActor!TypeOK
  <2> QED
    BY <2>1, <2>2
<1>3. CASE Replace \/ UNCHANGED handoverVars
  BY <1>3 DEF Replace, handoverVars, newVars, oldVars, runVars, connVars, TypeOK, OldActor!TypeOK
<1> QED
  BY <1>1, <1>2, <1>3 DEF HandoverNext

\* server.go:341-372: store and ledger are shared, and whatever one actor does
\* to them leaves the other with the types it expects.
THEOREM HandoverTypeCorrect == HandoverSpec => []HandoverTypeOK
<1> DEFINE Flags == replaced \in BOOLEAN /\ looked \in BOOLEAN /\ late \in BOOLEAN
<1>1. HandoverInit => BothTyped /\ Flags
  BY BothTypedInit DEF HandoverInit
<1>2. BothTyped /\ Flags /\ [HandoverNext]_handoverVars => (BothTyped /\ Flags)'
  <2>1. Flags /\ [HandoverNext]_handoverVars => Flags'
    BY DEF HandoverNext, Replace, OldStep, NewStep, handoverVars
  <2> QED
    BY <2>1, BothTypedStep
<1>3. BothTyped /\ Flags => HandoverTypeOK
  BY OldTypes DEF BothTyped, HandoverTypeOK
<1> QED
  BY <1>1, <1>2, <1>3, PTL DEF HandoverSpec

-----------------------------------------------------------------------------
(* What the new actor inherits.  It looks for interrupted sessions when a   *)
(* boot is accepted, sends a stop for each, and a stop leaves calls only    *)
(* when it is confirmed or when the connection ends.                        *)

\* While the actor stays online, a stop of recovery waits until it is confirmed.
LEMMA RecoveringKept ==
  ASSUME TypeOK, AnnounceInv, [Next]_vars, cpState' = "Online",
         NEW c \in Connectors, Recovering(c)
  PROVE  Recovering(c)' \/ store'[c] = NoRecord
<1> USE DEF runVars, connVars
<1>1. CASE UNCHANGED calls
  BY <1>1 DEF Recovering, Waits
<1>2. \A n \in Seq(Call) : calls' = Sent(calls, n) => Recovering(c)'
  BY KeptWaiting DEF Recovering
<1>3. ASSUME NEW i \in DOMAIN calls, HandleReply(i)
      PROVE  Recovering(c)' \/ store'[c] = NoRecord
  <2> DEFINE d == calls[i].conn
  <2>1. ASSUME NEW n \in Seq(Call), calls[i].kind # "StopPowerLoss" \/ d # c,
               calls' = RemoveAt(calls, i) \/ calls' = Sent(RemoveAt(calls, i), n)
        PROVE  Recovering(c)'
    <3>1. calls[i].kind \notin {"StopPowerLoss"} \/ calls[i].conn # c
      BY <2>1
    <3> QED
      BY <1>3, <2>1, <3>1, KeptWaiting DEF Recovering
  <2>2. <<>> \in Seq(Call)
    OBVIOUS
  <2>3. CASE BootAccepted(i)
    <3>1. PICK order \in SetToSeqs(Interrupted) :
            calls' = Sent(RemoveAt(calls, i), [j \in DOMAIN order |-> RecoveryStop(order[j])])
      BY <2>3 DEF BootAccepted
    <3>2. [j \in DOMAIN order |-> RecoveryStop(order[j])] \in Seq(Call) /\ calls[i].kind # "StopPowerLoss"
      BY <2>3, RecoveryElems DEF BootAccepted, Reply
    <3> QED
      BY <2>1, <3>1, <3>2
  <2>4. CASE AuthorizeAccepted(i)
    <3>1. /\ calls[i].kind = "Authorize" /\ d \in Connectors
          /\ calls' = Sent(RemoveAt(calls, i), <<NewCall("StartTx", d, 0, reg[d])>>)
      BY <1>3, <2>4, SettledElems, CallConnector DEF AuthorizeAccepted, Reply, MeterStart
    <3>2. <<NewCall("StartTx", d, 0, reg[d])>> \in Seq(Call)
      BY <3>1, CallTypes DEF HandshakeKinds, TypeOK
    <3> QED
      BY <2>1, <3>1, <3>2
  <2>5. CASE calls' = RemoveAt(calls, i) /\ (calls[i].kind # "StopPowerLoss" \/ d # c)
    BY <2>1, <2>2, <2>5
  <2>6. CASE calls[i].kind = "StopPowerLoss" /\ d = c
    <3>1. calls[i].ans = "none" \/ calls[i].ans = "Accepted"
      BY <1>3, <2>6, SettledElems DEF AnnounceInv
    <3>2. RecoveryConfirmed(i)
      BY <1>3, <2>6, <3>1
      DEF HandleReply, BootAccepted, BootRefused, AuthorizeAccepted, StartAccepted, StartRefused,
          ErrorIgnored, StopConfirmed, Reply, HandshakeKinds
    <3> QED
      BY <2>6, <3>2 DEF RecoveryConfirmed, SessionClosed, TypeOK
  <2> QED
    BY <1>3, <2>3, <2>4, <2>5, <2>6
    DEF HandleReply, BootRefused, OnlySettled, StartAccepted, StartRefused, ErrorIgnored,
        StopConfirmed, RecoveryConfirmed, SessionClosed
<1>4. ASSUME NEW i \in DOMAIN calls, CmsAnswer(i)
      PROVE  Recovering(c)'
  BY <1>4, KeptWaiting DEF Recovering
<1>5. CASE HandleCommand
  <2> DEFINE d == Head(cmdCh).conn
  <2>1. CASE StartCharging
    <3>1. d \in Connectors /\ calls' = Sent(calls, <<NewCall("Authorize", d, 0, 0)>>)
      BY <2>1, TakenConnector DEF StartCharging, ConnectorOps
    <3>2. <<NewCall("Authorize", d, 0, 0)>> \in Seq(Call)
      BY <3>1, CallTypes, BoundsAssumption DEF HandshakeKinds, Wh
    <3> QED
      BY <1>2, <3>1, <3>2
  <2>2. ASSUME NEW kind \in StopKinds, NEW op \in ConnectorOps, Take(op), SendStop(kind, d)
        PROVE  Recovering(c)'
    <3>1. d \in Connectors
      BY <2>2, TakenConnector
    <3>2. PICK n \in Seq(Call) : calls' = Sent(calls, n)
      BY <2>2, <3>1, SendStopTypes
    <3> QED
      BY <1>2, <3>2
  <2>3. CASE StopCharging
    BY <2>2, <2>3 DEF StopCharging, StopKinds, ConnectorOps
  <2>4. CASE EmergencyStop
    BY <1>1, <2>2, <2>4 DEF EmergencyStop, StopKinds, ConnectorOps
  <2>5. CASE GoOnline
    BY <1>1, <2>5 DEF GoOnline
  <2> QED
    BY <1>1, <1>5, <2>1, <2>3, <2>4, <2>5 DEF HandleCommand, StatusCommand, GoOffline, IgnoreCommand
<1>6. CASE HandleCall
  <2>1. CASE TriggerBoot
    BY <1>2, <2>1, CallTypes DEF TriggerBoot
  <2> QED
    BY <1>1, <1>6, <2>1 DEF HandleCall, RemoteStart, RemoteStop, TriggerStatus, TriggerMeter
<1>7. CASE RunConnect \/ Reconnect
  BY <1>7 DEF RunConnect, Reconnect, AnnounceInv
<1>8. CASE InboundClosed
  BY <1>1, <1>8 DEF InboundClosed
<1> QED
  BY <1>1, <1>3, <1>4, <1>5, <1>6, <1>7, <1>8
  DEF Next, RunConnectFails, RunReturns, MeterTick, UserCommand, LinkDrop, Restart, vars

\* An actor comes online on a live connection by looking for open sessions.
LEMMA ComesOnline ==
  ASSUME AnnounceInv, [Next]_vars, cpState' = "Online", link' = "up",
         ~(cpState = "Online" /\ link = "up")
  PROVE  \E i \in DOMAIN calls : BootAccepted(i)
<1> USE DEF runVars
<1>1. CASE UNCHANGED <<cpState, link>>
  BY <1>1
<1>2. CASE HandleCommand
  BY <1>2
  DEF HandleCommand, StatusCommand, StartCharging, StopCharging, EmergencyStop, GoOffline,
      GoOnline, IgnoreCommand
<1>3. ASSUME NEW i \in DOMAIN calls, HandleReply(i)
      PROVE  BootAccepted(i)
  BY <1>3
  DEF HandleReply, BootRefused, OnlySettled, AuthorizeAccepted, StartAccepted, StartRefused,
      ErrorIgnored, StopConfirmed, RecoveryConfirmed, SessionClosed
<1>4. CASE HandleCall
  BY <1>4 DEF HandleCall, RemoteStart, RemoteStop, TriggerBoot, TriggerStatus, TriggerMeter
<1> QED
  BY <1>2, <1>3, <1>4
  DEF Next, RunConnect, RunConnectFails, RunReturns, InboundClosed, Reconnect, MeterTick, CmsAnswer,
      UserCommand, LinkDrop, Restart, AnnounceInv, vars

\* The session of c is over, is the one the actor runs, or is being closed.
Settled(c) == store[c].tx \in {0, txID[c]} \/ Recovering(c)

LEMMA SettledInherited ==
  InheritedIsClosed <=>
    (~late /\ cpState = "Online" /\ link = "up" => \A c \in Connectors : Settled(c))
  BY DEF InheritedIsClosed, Settled, Recovering, Waits, Elems, InFlight

\* The actor settles all sessions when it comes online, and leaves none.
LEMMA SettledStep ==
  ASSUME TypeOK, AnnounceInv, [Next]_vars, cpState' = "Online", link' = "up",
         cpState = "Online" /\ link = "up" => \A c \in Connectors : Settled(c),
         NEW c \in Connectors
  PROVE  Settled(c)'
<1>1. ASSUME NEW i \in DOMAIN calls, BootAccepted(i)
      PROVE  Settled(c)'
  <2>1. PICK order \in SetToSeqs(Interrupted) :
          calls' = Sent(RemoveAt(calls, i), [j \in DOMAIN order |-> RecoveryStop(order[j])])
    BY <1>1 DEF BootAccepted
  <2>2. link = "up" /\ UNCHANGED store
    BY <1>1 DEF BootAccepted
  <2>3. CASE store[c] = NoRecord
    BY <2>2, <2>3 DEF Settled, NoRecord
  <2>4. CASE store[c] # NoRecord
    <3>1. RecoveryStop(c) \in Elems(calls')
      BY <1>1, <2>1, <2>2, <2>4, RecoveryElems, SettledElems, ElemsSent DEF Interrupted
    <3> QED
      BY <3>1 DEF Settled, Recovering, Waits, RecoveryStop, NewCall
  <2> QED
    BY <2>3, <2>4
<1>2. CASE Recovering(c)
  BY <1>2, RecoveringKept DEF Settled, NoRecord
<1>3. CASE store[c].tx \in {0, txID[c]}
  <2>1. ~Restart
    BY DEF Restart
  <2>2. CASE GoesOn(c)
    BY <1>3, <2>2 DEF GoesOn, Settled, TypeOK, Record
  <2>3. ASSUME NEW k \in Elems(calls), Opens(c, k) \/ Closes(c, k)
        PROVE  Settled(c)'
    BY <2>3 DEF Opens, Closes, Settled, NoRecord
  <2> QED
    BY <2>1, <2>2, <2>3, SessionMoves
<1> QED
  BY <1>1, <1>2, <1>3, ComesOnline DEF Settled

\* charger.go:612-639, server.go:341-372: if the CMS confirms the stops of
\* recovery, an online actor has left no session of its predecessor open: each
\* record is of its own transaction, or its stop is in flight, whatever the
\* predecessor was in the middle of, as long as that one changes only records
\* of its own live transactions.
THEOREM InheritedSessionsAreClosed ==
  ASSUME RecoveryIsConfirmed
  PROVE  HandoverSpec => []InheritedIsClosed
<1> DEFINE Unseen == ~looked => cpState # "Online"
           I == BothTyped /\ AnnounceInv /\ Unseen /\ InheritedIsClosed
<1>1. HandoverInit => I
  BY BothTypedInit, ElemsFew DEF HandoverInit, Init, AnnounceInv, InheritedIsClosed
<1>2. I /\ [HandoverNext]_handoverVars => I'
  <2> SUFFICES ASSUME I, [HandoverNext]_handoverVars
               PROVE  AnnounceInv' /\ Unseen' /\ InheritedIsClosed'
    BY BothTypedStep
  <2>1. CASE NewStep
    <3>1. TypeOK /\ [Next]_vars /\ UNCHANGED late
      BY <2>1, NewMoves DEF BothTyped, NewStep
    <3>2. AnnounceInv'
      BY <3>1, AnnounceInvStep
    <3>3. Unseen'
      BY <2>1 DEF NewStep
    <3>4. InheritedIsClosed'
      BY <3>1, SettledStep, SettledInherited DEF InheritedIsClosed, Settled, Recovering, Waits, Elems, InFlight
    <3> QED
      BY <3>2, <3>3, <3>4
  <2>2. CASE OldStep
    <3>1. UNCHANGED <<loop, cpState, link, calls, txID, looked>> /\ late' = (late \/ Late)
      BY <2>2 DEF OldStep, newVars, runVars, connVars
    <3>2. ~late' /\ looked => \A c \in Connectors : store'[c] = store[c] \/ OwnSession(c)
      BY <3>1 DEF Late
    <3>3. InheritedIsClosed'
      BY <3>1, <3>2 DEF InheritedIsClosed, InFlight, OwnSession
    <3> QED
      BY <3>1, <3>3 DEF AnnounceInv, Elems
  <2>3. CASE Replace \/ UNCHANGED handoverVars
    BY <2>3
    DEF Replace, handoverVars, newVars, runVars, connVars, AnnounceInv, Elems, InheritedIsClosed, InFlight
  <2> QED
    BY <2>1, <2>2, <2>3 DEF HandoverNext
<1>3. I => InheritedIsClosed
  OBVIOUS
<1> QED
  BY <1>1, <1>2, <1>3, PTL DEF HandoverSpec

-----------------------------------------------------------------------------
(* The journal.  Until the new actor looks it does not touch store and      *)
(* ledger, and the old one works as it always has.  From then on the new    *)
(* one works, and the old one is a cancelled actor with no transaction in   *)
(* common with its successor.                                               *)

Apart == \A c \in Connectors : \A tx : ~(Mine(c, tx) /\ OldActor!Mine(c, tx))

\* No start is queued.
NoStart(q) == \A j \in DOMAIN q : q[j].op # "StartCharging"

\* An actor that has not been online: it has no session, has asked the CMS for
\* nothing but boots, and no command that waits for it can start one.
Fresh ==
  /\ cpState # "Online"
  /\ \A c \in Connectors : txID[c] = 0 /\ status[c] \in {"Available", "Faulted"}
  /\ \A k \in Elems(calls) : k.kind = "Boot"
  /\ NoStart(cmdCh)

HandedOver ==
  ~late => IF looked THEN WorkingInv /\ OldActor!CancelledInv /\ Apart
                     ELSE Fresh /\ OldActor!WorkingInv

LEMMA FreshInit == Init => Fresh
  BY ElemsFew DEF Init, Fresh, NoStart, Idle, Zero

\* Whatever is on disk, a fresh actor works correctly on it.
LEMMA FreshWorks ==
  ASSUME TypeOK, Fresh, RecordsOwned
  PROVE  WorkingInv /\ \A c \in Connectors : \A tx : ~Mine(c, tx)
<1>1. \A k \in Elems(calls) : k.kind \notin HandshakeKinds \cup StopKinds
  BY DEF Fresh, HandshakeKinds, StopKinds
<1>2. \A c : ~Waits(c, HandshakeKinds) /\ ~Waits(c, StopKinds)
  BY <1>1 DEF Waits
<1>3. \A c \in Connectors : txID[c] = 0 /\ status[c] \in {"Available", "Faulted"}
  BY DEF Fresh
<1>4. \A i \in DOMAIN calls : calls[i] \in Elems(calls)
  BY DEF Elems
<1>5. SessionInv
  BY <1>1, <1>3, <1>4
  DEF SessionInv, Named, TxMatchesStatus, LiveTxPersisted, HandshakeKinds
<1>6. LedgerInv
  BY <1>1 DEF LedgerInv, OwnCall, RecordsOwned, HandshakeKinds
<1>7. PatientInv
  <2>1. OneStart(calls)
    BY <1>1, <1>4 DEF OneStart
  <2>2. StartFirst /\ \A c : ~Commanded(c)
    BY DEF Fresh, NoStart, StartFirst, Commanded
  <2> QED
    BY <1>2, <2>1, <2>2 DEF PatientInv, PatientOf
<1>8. JournalInv
  BY <1>1 DEF JournalInv, HandshakeKinds
<1>9. \A c \in Connectors : \A tx : ~Mine(c, tx)
  BY <1>1, <1>3 DEF Mine, Starting, HandshakeKinds
<1> QED
  BY <1>5, <1>6, <1>7, <1>8, <1>9 DEF WorkingInv

\* Until it is online, a fresh actor leaves store and ledger alone.
LEMMA FreshStep ==
  ASSUME PatientStarts, TypeOK, Fresh, Next, ~Restart
  PROVE  /\ UNCHANGED <<store, ledger>> /\ \A i \in DOMAIN calls : CmsAnswer(i) => cpState' = cpState
         /\ cpState' = "Online" \/ Fresh'
<1> USE DEF runVars, connVars
<1> DEFINE G == UNCHANGED <<store, ledger>> /\ (cpState' = "Online" \/ Fresh')
<1> SUFFICES G
  BY DEF CmsAnswer
<1>1. \A i \in DOMAIN calls : calls[i].kind = "Boot" /\ calls[i] \in Elems(calls)
  BY DEF Fresh, Elems
<1>2. \A c \in Connectors : txID[c] = 0
  BY DEF Fresh
<1>3. \A c \in Connectors : \A st \in {"Available", "Faulted"} :
        Announce(c, st) => \A d \in Connectors : status'[d] \in {"Available", "Faulted"}
  BY DEF Announce, TypeOK, Fresh
<1>4. ASSUME txID' = txID, cpState' # "Online",
             \A c \in Connectors : status'[c] \in {"Available", "Faulted"},
             \A k \in Elems(calls') : k.kind = "Boot",
             NoStart(cmdCh')
      PROVE  Fresh'
  BY <1>2, <1>4 DEF Fresh, NoStart
<1>5. Boot.kind = "Boot" /\ <<Boot>> \in Seq(Call) /\ calls \in Seq(Call)
  BY CallTypes DEF Boot, NewCall, TypeOK
<1>6. /\ \A k \in Elems(Append(calls, Boot)) : k \in Elems(calls) \/ k = Boot
      /\ \A k \in Elems(Sent(calls, <<Boot>>)) : k \in Elems(calls) \/ k = Boot
      /\ Elems(<<Boot>>) = {Boot} /\ Elems(<<>>) = {}
  <2>1. Elems(<<Boot>>) = {Boot} /\ Elems(<<>>) = {}
    BY ElemsFew
  <2>2. Elems(Append(calls, Boot)) = Elems(calls) \cup {Boot}
    BY <1>5, ElemsBoot
  <2>3. Elems(Sent(calls, <<Boot>>)) \subseteq Elems(calls) \cup Elems(<<Boot>>)
    BY <1>5, ElemsSent
  <2> QED
    BY <2>1, <2>2, <2>3
<1>7. ASSUME UNCHANGED <<txID, store, ledger>>, cpState' # "Online",
             status' = status \/ \A c \in Connectors : status'[c] \in {"Available", "Faulted"},
             NoStart(cmdCh'),
             \/ calls' = calls \/ calls' = <<>> \/ calls' = <<Boot>>
             \/ calls' = Append(calls, Boot) \/ calls' = Sent(calls, <<Boot>>)
      PROVE  G
  <2>1. \A c \in Connectors : status'[c] \in {"Available", "Faulted"}
    BY <1>7 DEF Fresh
  <2>2. \A k \in Elems(calls') : k.kind = "Boot"
    BY <1>5, <1>6, <1>7 DEF Fresh
  <2> QED
    BY <1>4, <1>7, <2>1, <2>2
<1>8. ASSUME NEW i \in DOMAIN calls, HandleReply(i)
      PROVE  G
  <2>1. calls[i].kind = "Boot" /\ \A k \in Elems(RemoveAt(calls, i)) : k.kind = "Boot"
    BY <1>1, <1>8, SettledElems DEF Fresh
  <2>2. CASE BootAccepted(i)
    BY <2>2 DEF BootAccepted
  <2>3. CASE BootRefused(i)
    BY <1>4, <2>1, <2>3 DEF BootRefused, OnlySettled, Fresh
  <2> QED
    BY <1>8, <2>1, <2>2, <2>3
    DEF HandleReply, AuthorizeAccepted, StartAccepted, StartRefused, ErrorIgnored, StopConfirmed,
        RecoveryConfirmed, Reply, HandshakeKinds, StopKinds
<1>9. ASSUME NEW i \in DOMAIN calls, CmsAnswer(i)
      PROVE  G
  <2>1. UNCHANGED <<store, ledger, status, txID, cmdCh, cpState>>
    BY <1>1, <1>9 DEF CmsAnswer, CmsAccept, CmsRefuse, StopKinds
  <2>2. \A k \in Elems(calls') : k.kind = "Boot"
    <3>1. \A j \in DOMAIN calls' : j \in DOMAIN calls /\ (j # i => calls'[j] = calls[j])
      BY <1>9 DEF CmsAnswer, CmsAccept, CmsRefuse, TypeOK
    <3>2. calls'[i].kind = "Boot"
      BY <1>1, <1>9, Answered
    <3> QED
      BY <1>1, <3>1, <3>2 DEF Elems
  <2> QED
    BY <1>4, <2>1, <2>2 DEF Fresh
<1>10. CASE HandleCommand
  <2>1. cmdCh # <<>> /\ cmdCh' = Tail(cmdCh)
    BY <1>10
    DEF HandleCommand, StatusCommand, PlugIn, Unplug, ClearFault, StartCharging, StopCharging,
        EmergencyStop, GoOffline, GoOnline, IgnoreCommand, Take
  <2>2. 1 \in DOMAIN cmdCh /\ Head(cmdCh) = cmdCh[1] /\ Head(cmdCh) \in Command
    BY <2>1 DEF TypeOK
  <2>3. NoStart(cmdCh') /\ Head(cmdCh).op # "StartCharging"
    BY <2>1, <2>2, CommandsTail DEF Fresh, NoStart, StartFirst, Commanded
  <2>4. Head(cmdCh).op \in ConnectorOps => Head(cmdCh).conn \in Connectors
    BY <2>2 DEF Command, ConnectorOps, LinkOps
  <2>5. CASE StatusCommand
    <3>1. ~PlugIn /\ ~Unplug
      BY DEF PlugIn, Unplug, Take, Honoured, CanPlugIn, Fresh
    <3>2. Announce(Head(cmdCh).conn, "Available") /\ Head(cmdCh).conn \in Connectors
      BY <2>4, <2>5, <3>1 DEF StatusCommand, ClearFault, Take, ConnectorOps
    <3>3. \A c \in Connectors : status'[c] \in {"Available", "Faulted"}
      BY <1>3, <3>2
    <3> QED
      BY <1>7, <2>3, <2>5, <3>3 DEF StatusCommand, Fresh
  <2>6. CASE EmergencyStop
    <3>1. Head(cmdCh).conn \in Connectors
      BY <2>4, <2>6 DEF EmergencyStop, Take, ConnectorOps
    <3>2. Announce(Head(cmdCh).conn, "Faulted") /\ UNCHANGED <<calls, store>>
      BY <1>2, <2>6, <3>1 DEF EmergencyStop
    <3>3. \A c \in Connectors : status'[c] \in {"Available", "Faulted"}
      BY <1>3, <3>1, <3>2
    <3> QED
      BY <1>7, <2>3, <2>6, <3>2, <3>3 DEF EmergencyStop, Fresh
  <2>7. ~StartCharging
    BY <2>3 DEF StartCharging, Take
  <2>8. ~StopCharging
    BY <1>2, <2>4 DEF StopCharging, Take, Honoured, ConnectorOps
  <2>9. CASE GoOffline \/ GoOnline \/ IgnoreCommand
    BY <1>7, <2>3, <2>9 DEF GoOffline, GoOnline, IgnoreCommand, Fresh
  <2> QED
    BY <1>10, <2>5, <2>6, <2>7, <2>8, <2>9 DEF HandleCommand
<1>11. ASSUME NEW k \in Command, k.op # "StartCharging", Offer(k)
       PROVE  NoStart(cmdCh')
  BY <1>11, CommandsOffered DEF Fresh, NoStart, StartFirst, Commanded
<1>12. CASE HandleCall
  <2>1. CASE RemoteStop
    <3>1. PICK c \in Connectors : Offer([op |-> "StopCharging", conn |-> c])
      BY <2>1 DEF RemoteStop
    <3>2. [op |-> "StopCharging", conn |-> c] \in Command
      BY DEF Command, ConnectorOps
    <3> QED
      BY <1>4, <1>11, <2>1, <3>1, <3>2 DEF RemoteStop, Fresh
  <2>2. CASE TriggerBoot
    BY <1>7, <2>2 DEF TriggerBoot, Fresh
  <2>3. CASE TriggerStatus
    <3>1. PICK c \in Connectors : Announce(c, status[c])
      BY <2>3 DEF TriggerStatus
    <3>2. UNCHANGED status
      BY <3>1 DEF Announce, TypeOK
    <3> QED
      BY <1>7, <2>3, <3>2 DEF TriggerStatus, Fresh
  <2>4. ~TriggerMeter
    BY <1>2 DEF TriggerMeter
  <2> QED
    BY <1>12, <2>1, <2>2, <2>3, <2>4 DEF HandleCall, RemoteStart, PatientStarts
<1>13. CASE UserCommand
  <2>1. ASSUME NEW op \in ConnectorOps, NEW c \in Connectors, MayCommand(op, c), Offer([op |-> op, conn |-> c])
        PROVE  NoStart(cmdCh')
    <3>1. [op |-> op, conn |-> c] \in Command /\ op # "StartCharging"
      BY <2>1 DEF MayCommand, PatientStarts, Command, Fresh
    <3> QED
      BY <1>11, <2>1, <3>1
  <2>2. ASSUME NEW op \in LinkOps, Offer([op |-> op, conn |-> 0])
        PROVE  NoStart(cmdCh')
    <3>1. [op |-> op, conn |-> 0] \in Command /\ op # "StartCharging"
      BY <2>2 DEF Command, LinkOps
    <3> QED
      BY <1>11, <2>2, <3>1
  <2>3. NoStart(cmdCh')
    BY <1>13, <2>1, <2>2 DEF UserCommand
  <2> QED
    BY <1>7, <1>13, <2>3 DEF UserCommand, Fresh
<1>14. ~MeterTick
  BY DEF MeterTick, Fresh
<1>15. CASE RunConnect \/ RunConnectFails \/ RunReturns \/ InboundClosed \/ Reconnect \/ LinkDrop
  BY <1>7, <1>15
  DEF RunConnect, RunConnectFails, RunReturns, InboundClosed, Reconnect, LinkDrop, Fresh
<1> QED
  BY <1>8, <1>9, <1>10, <1>12, <1>13, <1>14, <1>15 DEF Next

\* What a working actor has on disk is owned.
LEMMA WorkingOwned == WorkingInv => TypeOK /\ RecordsOwned /\ LedgerInv /\ LiveOwned
  BY LiveIsOwned DEF WorkingInv, SessionInv, LedgerInv, RecordsOwned

\* A working actor goes on working, if nobody else moves.
LEMMA WorkingStep == PatientStarts /\ WorkingInv /\ [Next]_vars => WorkingInv'
  BY SessionInvStep, LedgerStep, PatientStep, JournalInvStep DEF WorkingInv

LEMMA WorkingJournal == WorkingInv /\ [Next]_vars => [Journal!Next]_JournalView
  BY JournalStep DEF WorkingInv

\* The same of the old actor.
LEMMA OldOwned ==
  /\ OldActor!WorkingInv => OldActor!TypeOK /\ RecordsOwned
  /\ OldActor!CancelledInv =>
       OldActor!TypeOK /\ RecordsOwned /\ OldActor!LedgerInv /\ OldActor!LiveOwned
  BY SharedRecords
  DEF OldActor!WorkingInv, OldActor!CancelledInv, OldActor!SessionInv, OldActor!LedgerInv,
      OldActor!RecordsOwned

LEMMA OldWorkingInit == OldActor!Init => OldActor!WorkingInv
<1>1. OldActor!Init => OldActor!SessionInv /\ OldActor!LedgerInv /\ OldActor!PatientInv
  BY OldActor!SessionInit, OldActor!LedgerInit, OldActor!PatientInit, OldAssumptions,
     ConnectorsAssumption, OpsAssumption, EnvironmentAssumption, BoundsAssumption
<1>2. OldActor!Init => OldActor!JournalInv
  BY DEF OldActor!Init, OldActor!JournalInv, OldActor!Elems
<1> QED
  BY <1>1, <1>2 DEF OldActor!WorkingInv

LEMMA OldWorkingStep ==
  ASSUME PatientStarts, OldActor!WorkingInv, [OldActor!Next]_(OldActor!vars)
  PROVE  OldActor!WorkingInv' /\ [Journal!Next]_JournalView
<1> USE OldAssumptions, ConnectorsAssumption, OpsAssumption, EnvironmentAssumption, BoundsAssumption
<1>1. /\ OldActor!SessionInv /\ OldActor!LedgerInv /\ OldActor!PatientInv /\ OldActor!JournalInv
      /\ OldActor!PatientStarts
  BY DEF OldActor!WorkingInv
<1>2. OldActor!SessionInv' /\ OldActor!LedgerInv'
  BY <1>1, OldActor!SessionInvStep, OldActor!LedgerStep
<1>3. OldActor!PatientInv'
  BY <1>1, OldActor!PatientStep
<1>4. OldActor!JournalInv'
  BY <1>1, OldActor!JournalInvStep
<1>5. [OldActor!Journal!Next]_(OldActor!JournalView)
  BY <1>1, OldActor!JournalStep
<1> QED
  BY <1>2, <1>3, <1>4, <1>5, SharedJournal DEF OldActor!WorkingInv

\* Nothing moves.
LEMMA OldUnchanged == UNCHANGED <<oldVars, store, ledger>> => UNCHANGED OldActor!vars
  BY DEF oldVars, OldActor!vars, OldActor!runVars, OldActor!connVars

LEMMA OldCancelledSame ==
  ASSUME OldActor!CancelledInv, OldActor!TypeOK', UNCHANGED <<oldVars, store, ledger>>
  PROVE  OldActor!CancelledInv'
<1> USE OldAssumptions, ConnectorsAssumption, OpsAssumption, EnvironmentAssumption, BoundsAssumption
<1>1. RecordsOwned' /\ LedgerKept /\ \A c \in Connectors : RecordKept(c)
  BY OldOwned DEF RecordsOwned, Owned, LedgerKept, RecordKept
<1>2. OldActor!RecordsOwned' /\ OldActor!LedgerKept /\ \A c \in Connectors : OldActor!RecordKept(c)
  BY <1>1, SharedRecords
<1>3. UNCHANGED <<oldCalls, oldTxID>>
  BY DEF oldVars
<1> QED
  BY <1>2, <1>3, OldActor!CancelledUndisturbed

LEMMA OldCancelledStep ==
  ASSUME OldActor!CancelledInv, OldActor!Next, ~OldActor!Restart, OldActor!OwnRecords
  PROVE  /\ OldActor!CancelledInv' /\ [Journal!Next]_JournalView
         /\ \A c \in Connectors : RecordKept(c)
<1> USE OldAssumptions, ConnectorsAssumption, OpsAssumption, EnvironmentAssumption, BoundsAssumption
<1>1. [OldActor!Next]_(OldActor!vars)
  OBVIOUS
<1>2. OldActor!CancelledInv'
  BY <1>1, OldActor!CancelledStep
<1>3. [OldActor!Journal!Next]_(OldActor!JournalView)
  BY <1>1, OldActor!CancelledJournal
<1>4. \A c \in Connectors : OldActor!RecordKept(c)
  BY <1>1, OldActor!CancelledMoves
<1> QED
  BY <1>2, <1>3, <1>4, SharedJournal, SharedRecords

\* What no actor knows of, neither learns of at the same time as the other:
\* a new transaction is one more than all that are known.
LEMMA ApartKept ==
  ASSUME TypeOK, Apart,
         \A c \in Connectors : \A tx : Mine(c, tx) \/ OldActor!Mine(c, tx) => tx # Len(ledger) + 1,
         \/ /\ \A c \in Connectors : \A tx : Mine(c, tx)' => Mine(c, tx) \/ tx = Len(ledger) + 1
            /\ UNCHANGED <<oldCalls, oldTxID>>
         \/ /\ \A c \in Connectors : \A tx :
                 OldActor!Mine(c, tx)' => OldActor!Mine(c, tx) \/ tx = Len(ledger) + 1
            /\ UNCHANGED <<calls, txID>>
  PROVE  Apart'
<1>1. UNCHANGED <<calls, txID>> => \A c \in Connectors : \A tx : Mine(c, tx)' <=> Mine(c, tx)
  BY DEF Mine, Starting, Elems
<1>2. UNCHANGED <<oldCalls, oldTxID>> =>
        \A c \in Connectors : \A tx : OldActor!Mine(c, tx)' <=> OldActor!Mine(c, tx)
  BY DEF OldActor!Mine, OldActor!Starting, OldActor!Elems
<1>3. ASSUME NEW c \in Connectors, NEW tx, Mine(c, tx)', OldActor!Mine(c, tx)'
      PROVE  FALSE
  BY <1>1, <1>2, <1>3 DEF Apart
<1> QED
  BY <1>3 DEF Apart

\* All transactions of either are in the ledger.
LEMMA MineKnown ==
  ASSUME TypeOK, LedgerInv, LiveOwned, OldActor!TypeOK, OldActor!LedgerInv, OldActor!LiveOwned,
         NEW c \in Connectors, NEW tx, Mine(c, tx) \/ OldActor!Mine(c, tx)
  PROVE  tx # Len(ledger) + 1
<1>1. Len(ledger) \in Nat
  BY DEF TypeOK
<1>2. Mine(c, tx) => tx <= Len(ledger)
  BY MineOwned, OwnedNotZero
<1>3. OldActor!Mine(c, tx) => tx <= Len(ledger)
  <2> USE OldAssumptions, ConnectorsAssumption, OpsAssumption, EnvironmentAssumption, BoundsAssumption
  <2>1. OldActor!Mine(c, tx) => OldActor!Owned(c, tx)
    BY OldActor!MineOwned
  <2> QED
    BY <2>1, OldActor!OwnedNotZero
<1> QED
  BY <1>1, <1>2, <1>3

\* The new actor's step.  When it comes online it takes over: its first look
\* changes neither store nor ledger.
LEMMA HandedOverNew ==
  ASSUME PatientStarts, BothTyped, HandedOver, NewStep, ~late'
  PROVE  HandedOver' /\ [Journal!Next]_JournalView
<1>1. TypeOK /\ OldActor!TypeOK /\ TypeOK' /\ OldActor!TypeOK'
  BY BothTypedStep DEF BothTyped, HandoverNext
<1>2. /\ Next /\ ~Restart /\ [Next]_vars /\ ~late
      /\ UNCHANGED <<oldVars, late>> /\ looked' = (looked \/ cpState' = "Online")
  BY NewMoves DEF NewStep
<1>3. UNCHANGED <<oldCalls, oldTxID>>
  BY <1>2 DEF oldVars
<1>4. ASSUME LiveOwned, LedgerInv, OldActor!LiveOwned, OldActor!LedgerInv, Apart
      PROVE  Apart'
  BY <1>1, <1>2, <1>3, <1>4, ApartKept, MineKnown, MineMoves
<1>5. CASE looked
  <2>1. WorkingInv /\ OldActor!CancelledInv /\ Apart /\ looked'
    BY <1>2, <1>5 DEF HandedOver
  <2>2. WorkingInv' /\ [Journal!Next]_JournalView
    BY <1>2, <2>1, WorkingStep, WorkingJournal
  <2>3. RecordsOwned' /\ LedgerKept
    BY <1>1, <1>2, <2>2, LedgerIsKept, WorkingOwned DEF WorkingInv, SessionInv, LedgerInv, RecordsOwned
  <2>4. \A c \in Connectors :
          RecordKept(c) \/ (store[c] = NoRecord /\ ~OldActor!Mine(c, store'[c].tx))
    BY <1>2, <2>1, RecordMoves DEF Apart
  <2>5. OldActor!CancelledInv'
    <3> USE OldAssumptions, ConnectorsAssumption, OpsAssumption, EnvironmentAssumption, BoundsAssumption
    <3>1. OldActor!RecordsOwned' /\ OldActor!LedgerKept
          /\ \A c \in Connectors : OldActor!RecordKept(c) \/
               (store[c] = OldActor!NoRecord /\ ~OldActor!Mine(c, store'[c].tx))
      BY <2>3, <2>4, SharedRecords, SharedTypes
    <3> QED
      BY <1>1, <1>3, <2>1, <3>1, OldActor!CancelledUndisturbed
  <2>6. Apart'
    BY <1>4, <2>1, WorkingOwned, OldOwned
  <2> QED
    BY <2>1, <2>2, <2>5, <2>6 DEF HandedOver
<1>6. CASE ~looked
  <2>1. Fresh /\ OldActor!WorkingInv /\ RecordsOwned
    BY <1>2, <1>6, OldOwned DEF HandedOver
  <2>2. /\ UNCHANGED <<store, ledger>> /\ (cpState' = "Online" \/ Fresh')
        /\ \A i \in DOMAIN calls : CmsAnswer(i) => cpState' = cpState
    BY <1>1, <1>2, <2>1, FreshStep
  <2>3. [Journal!Next]_JournalView
    BY <2>2 DEF JournalView, Held, ClosedTxs
  <2>4. CASE cpState' = "Online"
    <3>1. WorkingInv /\ \A c \in Connectors : \A tx : ~Mine(c, tx)
      BY <1>1, <2>1, FreshWorks
    <3>2. WorkingInv'
      BY <1>2, <3>1, WorkingStep
    <3>3. OldActor!CancelledInv
      BY <2>1, OldActor!CancelledBegins, OldAssumptions, ConnectorsAssumption, OpsAssumption,
         EnvironmentAssumption, BoundsAssumption
    <3>4. OldActor!CancelledInv'
      BY <1>1, <1>2, <2>2, <3>3, OldCancelledSame
    <3>5. ~\E i \in DOMAIN calls : CmsAnswer(i)
      BY <2>1, <2>2, <2>4 DEF Fresh
    <3>6. \A c \in Connectors : \A tx : ~Mine(c, tx)'
      BY <1>1, <1>2, <3>1, <3>5, MineMoves
    <3>7. looked' /\ Apart'
      BY <1>2, <2>4, <3>6 DEF Apart
    <3> QED
      BY <2>3, <3>2, <3>4, <3>7 DEF HandedOver
  <2>5. CASE cpState' # "Online"
    <3>1. Fresh' /\ ~looked'
      BY <1>2, <1>6, <2>2, <2>5
    <3>2. OldActor!WorkingInv'
      BY <1>2, <2>1, <2>2, OldUnchanged, OldWorkingStep
    <3> QED
      BY <2>3, <3>1, <3>2 DEF HandedOver
  <2> QED
    BY <2>4, <2>5
<1> QED
  BY <1>5, <1>6

\* The old actor's step, before and after its successor has looked.
LEMMA HandedOverOld ==
  ASSUME PatientStarts, BothTyped, HandedOver, OldStep, ~late'
  PROVE  HandedOver' /\ [Journal!Next]_JournalView
<1>1. TypeOK /\ OldActor!TypeOK /\ TypeOK' /\ OldActor!TypeOK'
  BY BothTypedStep DEF BothTyped, HandoverNext
<1>2. /\ OldActor!Next /\ ~OldActor!Restart /\ ~late /\ ~Late
      /\ UNCHANGED <<newVars, looked>>
  BY OldMoves DEF OldStep
<1>3. UNCHANGED <<calls, cmdCh, status, txID, startPending, cpState>>
  BY <1>2 DEF newVars, runVars, connVars
<1>4. CASE ~looked
  <2>1. Fresh /\ OldActor!WorkingInv
    BY <1>2, <1>4 DEF HandedOver
  <2>2. OldActor!WorkingInv' /\ [Journal!Next]_JournalView
    BY <1>2, <2>1, OldWorkingStep
  <2>3. Fresh'
    BY <1>3, <2>1 DEF Fresh, NoStart, Elems
  <2> QED
    BY <1>2, <1>4, <2>2, <2>3 DEF HandedOver
<1>5. CASE looked
  <2>1. WorkingInv /\ OldActor!CancelledInv /\ Apart
    BY <1>2, <1>5 DEF HandedOver
  <2>2. \A c \in Connectors : store'[c] # store[c] =>
          oldTxID[c] # 0 /\ store[c].tx = oldTxID[c] /\ store'[c].tx \in {0, oldTxID[c]}
    BY <1>2, <1>5 DEF Late, OwnSession
  <2>3. OldActor!OwnRecords
    BY <2>2 DEF OldActor!OwnRecords
  <2>4. OldActor!CancelledInv' /\ [Journal!Next]_JournalView /\ \A c \in Connectors : RecordKept(c)
    BY <1>2, <2>1, <2>3, OldCancelledStep
  <2>5. LedgerKept
    <3> USE OldAssumptions, ConnectorsAssumption, OpsAssumption, EnvironmentAssumption, BoundsAssumption
    <3>1. OldActor!LedgerKept
      BY <1>1, <1>2, OldActor!LedgerIsKept
    <3> QED
      BY <3>1, SharedRecords
  <2>6. RecordsOwned'
    BY <2>4, SharedRecords DEF OldActor!CancelledInv, OldActor!LedgerInv, OldActor!RecordsOwned
  <2>7. ASSUME NEW c \in Connectors, store'[c] # store[c]
        PROVE  RecordKept(c) /\ store[c].tx # 0 /\ ~Mine(c, store[c].tx)
    <3>1. OldActor!Mine(c, store[c].tx)
      BY <2>2, <2>7 DEF OldActor!Mine
    <3> QED
      BY <2>1, <2>2, <2>4, <2>7, <3>1 DEF Apart
  <2>8. WorkingInv'
    BY <1>1, <1>3, <2>1, <2>4, <2>5, <2>6, <2>7, WorkingUndisturbed
  <2>9. Apart'
    <3> USE OldAssumptions, ConnectorsAssumption, OpsAssumption, EnvironmentAssumption, BoundsAssumption
    <3>1. \A c \in Connectors : \A tx :
            OldActor!Mine(c, tx)' => OldActor!Mine(c, tx) \/ tx = Len(ledger) + 1
      BY <1>1, <1>2, OldActor!MineMoves
    <3>2. \A c \in Connectors : \A tx : Mine(c, tx) \/ OldActor!Mine(c, tx) => tx # Len(ledger) + 1
      BY <1>1, <2>1, WorkingOwned, OldOwned, MineKnown
    <3> QED
      BY <1>1, <1>3, <2>1, <3>1, <3>2, ApartKept
  <2> QED
    BY <1>2, <1>5, <2>4, <2>8, <2>9 DEF HandedOver
<1> QED
  BY <1>4, <1>5

\* Cancelling the old actor changes nothing of what either knows.
LEMMA HandedOverSame ==
  ASSUME PatientStarts, BothTyped', HandedOver, ~late,
         UNCHANGED <<newVars, oldVars, store, ledger, looked>>
  PROVE  HandedOver'
<1>1. UNCHANGED vars /\ UNCHANGED <<calls, txID, oldCalls, oldTxID>>
  BY DEF newVars, oldVars, vars, runVars, connVars
<1>2. CASE looked
  <2>1. WorkingInv /\ OldActor!CancelledInv /\ Apart
    BY <1>2 DEF HandedOver
  <2>2. WorkingInv' /\ OldActor!CancelledInv'
    BY <1>1, <2>1, WorkingStep, OldCancelledSame DEF BothTyped
  <2>3. Apart'
    BY <1>1, <2>1
    DEF Apart, Mine, Starting, Elems, OldActor!Mine, OldActor!Starting, OldActor!Elems
  <2> QED
    BY <1>2, <2>2, <2>3 DEF HandedOver
<1>3. CASE ~looked
  <2>1. Fresh /\ OldActor!WorkingInv
    BY <1>3 DEF HandedOver
  <2>2. OldActor!WorkingInv'
    BY <2>1, OldUnchanged, OldWorkingStep
  <2>3. Fresh'
    BY <2>1 DEF newVars, runVars, connVars, Fresh, NoStart, Elems
  <2> QED
    BY <1>3, <2>2, <2>3 DEF HandedOver
<1> QED
  BY <1>2, <1>3

\* store.go:1-15, server.go:341-372: with a patient operator, two actors on one
\* store and the CMS keep the session journal as one actor does, whatever the
\* cancelled one was in the middle of, until it changes a record that is not
\* of its own live transaction after its successor has looked.
THEOREM JournalHandedOverKept ==
  ASSUME PatientStarts
  PROVE  HandoverSpec => JournalHandedOver
<1> DEFINE I == BothTyped /\ HandedOver
           JournalMove == ~late' => [Journal!Next]_JournalView
<1>1. HandoverInit => I
  BY BothTypedInit, FreshInit, OldInit, OldWorkingInit DEF HandoverInit, HandedOver
<1>2. I /\ [HandoverNext]_handoverVars => I' /\ JournalMove
  <2> SUFFICES ASSUME I, [HandoverNext]_handoverVars
               PROVE  HandedOver' /\ JournalMove
    BY BothTypedStep
  <2>1. CASE late'
    BY <2>1 DEF HandedOver
  <2>2. CASE ~late' /\ (NewStep \/ OldStep)
    BY <2>2, HandedOverNew, HandedOverOld
  <2>3. CASE ~late' /\ (Replace \/ UNCHANGED handoverVars)
    <3>1. UNCHANGED <<newVars, oldVars, store, ledger, looked, late>>
      BY <2>3 DEF Replace, handoverVars
    <3>2. [Journal!Next]_JournalView
      BY <3>1 DEF JournalView, Held, ClosedTxs
    <3>3. HandedOver'
      BY <2>3, <3>1, BothTypedStep, HandedOverSame
    <3> QED
      BY <3>2, <3>3
  <2> QED
    BY <2>1, <2>2, <2>3 DEF HandoverNext
<1>3. JournalHandedOver <=> [][JournalMove]_handoverVars
  BY PTL DEF JournalHandedOver, Journal!vars, JournalView, Held, ClosedTxs
<1> QED
  BY <1>1, <1>2, <1>3, PTL DEF HandoverSpec
=============================================================================
