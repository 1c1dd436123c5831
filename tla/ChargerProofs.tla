--------------------------- MODULE ChargerProofs ---------------------------
(***************************************************************************)
(* Theorems about the charger actor, for any number of connectors, any     *)
(* bounds and any environment, by induction on the actions of Next: the    *)
(* types, and the invariants that need nothing of operator, CMS or link.   *)
(***************************************************************************)
EXTENDS ChargerProperties, SequenceTheorems, FiniteSetTheorems, TLAPS

\* Forgetting a settled CALL keeps the others, in their order.
LEMMA RemoveAtProperties ==
  ASSUME NEW S, NEW s \in Seq(S), NEW i \in DOMAIN s
  PROVE  /\ RemoveAt(s, i) \in Seq(S)
         /\ DOMAIN RemoveAt(s, i) = 1 .. Len(s) - 1
         /\ \A j \in 1 .. Len(s) - 1 : RemoveAt(s, i)[j] = s[IF j < i THEN j ELSE j + 1]
         /\ \A j \in DOMAIN RemoveAt(s, i) : \E k \in DOMAIN s : RemoveAt(s, i)[j] = s[k]
<1> DEFINE a == SubSeq(s, 1, i - 1)  b == SubSeq(s, i + 1, Len(s))
<1>1. i \in 1 .. Len(s) /\ Len(s) \in Nat
  OBVIOUS
<1>2. a \in Seq(S) /\ Len(a) = i - 1 /\ \A j \in 1 .. i - 1 : a[j] = s[j]
  <2>1. \A j \in 1 .. i - 1 : s[j] \in S
    BY <1>1
  <2> QED
    BY <1>1, <2>1, SubSeqProperties
<1>3. b \in Seq(S) /\ Len(b) = Len(s) - i /\ \A j \in 1 .. Len(s) - i : b[j] = s[i + j]
  <2>1. \A j \in i + 1 .. Len(s) : s[j] \in S
    BY <1>1
  <2> QED
    BY <1>1, <2>1, SubSeqProperties
<1>4. RemoveAt(s, i) = a \o b
  BY DEF RemoveAt
<1> HIDE DEF a, b
<1>5. /\ a \o b \in Seq(S) /\ Len(a \o b) = Len(s) - 1
      /\ \A j \in 1 .. Len(s) - 1 : (a \o b)[j] = IF j <= Len(a) THEN a[j] ELSE b[j - Len(a)]
  BY <1>1, <1>2, <1>3, ConcatProperties
<1>6. \A j \in 1 .. Len(s) - 1 : (a \o b)[j] = s[IF j < i THEN j ELSE j + 1]
  <2> TAKE j \in 1 .. Len(s) - 1
  <2>1. CASE j < i
    BY <1>1, <1>2, <1>5, <2>1
  <2>2. CASE j >= i
    <3>1. (a \o b)[j] = b[j - (i - 1)] /\ j - (i - 1) \in 1 .. Len(s) - i
      BY <1>1, <1>2, <1>5, <2>2
    <3>2. b[j - (i - 1)] = s[j + 1]
      BY <1>1, <1>3, <3>1, <2>2
    <3> QED
      BY <1>1, <3>1, <3>2, <2>2
  <2>3. j < i \/ j >= i
    BY <1>1
  <2> QED
    BY <2>1, <2>2, <2>3
<1>7. DOMAIN (a \o b) = 1 .. Len(s) - 1
  BY <1>5
<1>8. \A j \in 1 .. Len(s) - 1 : (IF j < i THEN j ELSE j + 1) \in DOMAIN s
  BY <1>1
<1> QED
  BY <1>4, <1>5, <1>6, <1>7, <1>8

\* What the parts of a CALL range over.
LEMMA CallTypes ==
  /\ Boot \in Call /\ <<Boot>> \in Seq(Call)
  /\ \A kind \in HandshakeKinds \cup StopKinds, c \in Connectors, tx \in Nat, wh \in Wh :
       NewCall(kind, c, tx, wh) \in Call /\ <<NewCall(kind, c, tx, wh)>> \in Seq(Call)
  BY BoundsAssumption DEF Boot, NewCall, Call, Wh, Answers

\* Sending, on a link that is up or down, keeps the queue of CALLs typed.
LEMMA SentType ==
  ASSUME NEW w \in Seq(Call), NEW n \in Seq(Call)
  PROVE  Sent(w, n) \in Seq(Call)
  BY DEF Sent

\* Offering a command keeps cmdCh typed and within its capacity.
LEMMA OfferType ==
  ASSUME cmdCh \in Seq(Command), Len(cmdCh) <= CmdCap, NEW k \in Command, Offer(k)
  PROVE  cmdCh' \in Seq(Command) /\ Len(cmdCh') <= CmdCap
  BY BoundsAssumption DEF Offer

\* Taking a command does too.
LEMMA TailType ==
  ASSUME cmdCh \in Seq(Command), Len(cmdCh) <= CmdCap, cmdCh # <<>>
  PROVE  /\ Head(cmdCh) \in Command
         /\ Tail(cmdCh) \in Seq(Command) /\ Len(Tail(cmdCh)) <= CmdCap
  BY BoundsAssumption, HeadTailProperties

\* A command about a connector names one that exists.
LEMMA CommandConnector ==
  ASSUME NEW k \in Command, k.op \in ConnectorOps
  PROVE  k.conn \in Connectors
  BY DEF Command, ConnectorOps, LinkOps

\* A handler of a connector's command works on the connector the command names.
LEMMA TakenConnector ==
  ASSUME TypeOK, NEW op \in ConnectorOps, Take(op)
  PROVE  Head(cmdCh).conn \in Connectors
  BY TailType, CommandConnector DEF TypeOK, Take

\* The stop a command sends.
LEMMA SendStopTypes ==
  ASSUME TypeOK, NEW kind \in StopKinds, NEW c \in Connectors, SendStop(kind, c)
  PROVE  \E wh \in Wh :
           /\ reg' = [reg EXCEPT ![c] = wh]
           /\ calls' = Sent(calls, <<NewCall(kind, c, txID[c], wh)>>)
           /\ <<NewCall(kind, c, txID[c], wh)>> \in Seq(Call)
<1>1. PICK wh \in Sampled(c) :
        /\ reg' = [reg EXCEPT ![c] = wh]
        /\ calls' = Sent(calls, <<NewCall(kind, c, txID[c], wh)>>)
  BY DEF SendStop
<1>2. wh \in Wh
  BY <1>1, BoundsAssumption DEF Sampled, TypeOK, Wh
<1>3. <<NewCall(kind, c, txID[c], wh)>> \in Seq(Call)
  BY <1>2, CallTypes DEF TypeOK
<1> QED
  BY <1>1, <1>2, <1>3

\* The stop of a record, and any order in which the records are stopped.
LEMMA RecoveryTypes ==
  ASSUME TypeOK, NEW order \in SetToSeqs(Interrupted)
  PROVE  [k \in DOMAIN order |-> RecoveryStop(order[k])] \in Seq(Call)
<1>1. IsFiniteSet(Interrupted)
  BY ConnectorsAssumption, FS_Subset DEF Interrupted
<1>2. Cardinality(Interrupted) \in Nat
  BY <1>1, FS_CardinalityType
<1>3. order \in [1 .. Cardinality(Interrupted) -> Interrupted]
  BY DEF SetToSeqs
<1>4. \A c \in Interrupted : RecoveryStop(c) \in Call
  BY CallTypes DEF Interrupted, RecoveryStop, TypeOK, Record, StopKinds
<1> QED
  BY <1>2, <1>3, <1>4

-----------------------------------------------------------------------------

\* The state of a fresh process is typed.
LEMMA FreshTypes ==
  /\ Idle \in [Connectors -> Statuses] /\ Zero \in [Connectors -> Nat]
  /\ Zero \in [Connectors -> Wh] /\ False \in [Connectors -> BOOLEAN]
  /\ None \in [Connectors -> Statuses \cup {"none"}]
  /\ [c \in Connectors |-> NoRecord] \in [Connectors -> Record]
  /\ <<>> \in Seq(Call) /\ <<>> \in Seq(Command) /\ <<>> \in Seq(Ledger)
  /\ Len(<<>>) <= CmdCap
  BY BoundsAssumption, EmptySeq
  DEF Idle, None, Zero, False, NoRecord, Record, Wh, Statuses

\* Metering moves the registers and the readings of the records, nothing else.
LEMMA MeterTypes ==
  ASSUME TypeOK, NEW cs, Meter(cs)
  PROVE  reg' \in [Connectors -> Wh] /\ store' \in [Connectors -> Record]
  BY DEF Meter, TypeOK, Record

\* TypeOK holds before Run is called.
LEMMA TypeInit == Init => TypeOK
<1> SUFFICES ASSUME Init PROVE TypeOK
  OBVIOUS
<1>1. /\ calls \in Seq(Call)
      /\ cmdCh \in Seq(Command) /\ Len(cmdCh) <= CmdCap
      /\ ledger \in Seq(Ledger)
  BY FreshTypes DEF Init
<1>2. /\ status \in [Connectors -> Statuses] /\ txID \in [Connectors -> Nat]
      /\ startPending \in [Connectors -> BOOLEAN] /\ reg \in [Connectors -> Wh]
      /\ store \in [Connectors -> Record]
      /\ announced \in [Connectors -> Statuses \cup {"none"}]
  BY FreshTypes DEF Init
<1>3. snap \in [cp : CpStates, status : [Connectors -> Statuses],
                tx : [Connectors -> Nat], reg : [Connectors -> Wh]]
  BY <1>2 DEF Init, View, CpStates
<1> QED
  BY <1>1, <1>2, <1>3 DEF Init, TypeOK, CpStates

\* No handler and no step of the environment breaks a type.
LEMMA TypeStep == TypeOK /\ [Next]_vars => TypeOK'
<1> SUFFICES ASSUME TypeOK, [Next]_vars
             PROVE  TypeOK'
  OBVIOUS
<1> USE DEF runVars, connVars, CpStates, Statuses
<1>1. CASE RunConnect
  BY <1>1, CallTypes DEF RunConnect, TypeOK
<1>2. CASE RunConnectFails
  BY <1>2 DEF RunConnectFails, TypeOK
<1>3. CASE RunReturns
  BY <1>3 DEF RunReturns, TypeOK, Publish, View, None
<1>4. CASE InboundClosed
  <2>1. CASE offline
    BY <1>4, <2>1 DEF InboundClosed, TypeOK
  <2>2. CASE ~offline
    <3>1. calls' \in Seq(Call)
      BY <1>4, <2>2, EmptySeq DEF InboundClosed
    <3> QED
      BY <1>4, <2>2, <3>1 DEF InboundClosed, TypeOK, Publish, View
  <2> QED
    BY <2>1, <2>2
<1>5. CASE Reconnect
  BY <1>5, CallTypes DEF Reconnect, TypeOK
<1>6. CASE MeterTick
  <2>1. reg' \in [Connectors -> Wh] /\ store' \in [Connectors -> Record]
    BY <1>6, MeterTypes DEF MeterTick
  <2> QED
    BY <1>6, <2>1 DEF MeterTick, TypeOK, Publish, View
<1>7. ASSUME NEW i \in DOMAIN calls, HandleReply(i)
      PROVE  TypeOK'
  <2> USE <1>7
  <2>1. /\ RemoveAt(calls, i) \in Seq(Call)
        /\ calls[i] \in Call /\ calls[i].tx \in Nat /\ calls[i].wh \in Wh
        /\ calls[i].kind # "Boot" => calls[i].conn \in Connectors
    BY RemoveAtProperties, ElementOfSeq DEF TypeOK, Call
  <2>2. CASE BootAccepted(i)
    <3>1. PICK order \in SetToSeqs(Interrupted) :
            calls' = Sent(RemoveAt(calls, i), [k \in DOMAIN order |-> RecoveryStop(order[k])])
      BY <2>2 DEF BootAccepted
    <3>2. calls' \in Seq(Call)
      BY <2>1, <3>1, RecoveryTypes, SentType
    <3> QED
      BY <2>2, <3>2 DEF BootAccepted, Reannounced, TypeOK, Publish, View
  <2>3. CASE BootRefused(i)
    BY <2>1, <2>3 DEF BootRefused, OnlySettled, TypeOK
  <2>4. CASE AuthorizeAccepted(i)
    <3>1. calls[i].conn \in Connectors /\ MeterStart(calls[i].conn) \in Wh
      BY <2>1, <2>4 DEF AuthorizeAccepted, Reply, MeterStart, TypeOK
    <3>2. calls' \in Seq(Call)
      BY <2>1, <2>4, <3>1, CallTypes, SentType DEF AuthorizeAccepted, HandshakeKinds
    <3> QED
      BY <2>4, <3>2 DEF AuthorizeAccepted, TypeOK
  <2>5. CASE StartAccepted(i)
    <3>1. calls[i].conn \in Connectors
      BY <2>1, <2>5 DEF StartAccepted, Reply
    <3> QED
      BY <2>1, <2>5, <3>1 DEF StartAccepted, Announce, Put, TypeOK, Publish, View, Record
  <2>6. CASE StartRefused(i)
    <3>1. calls[i].conn \in Connectors
      BY <2>1, <2>6 DEF StartRefused, Reply, HandshakeKinds
    <3> QED
      BY <2>1, <2>6, <3>1 DEF StartRefused, TypeOK, Publish, View
  <2>7. CASE ErrorIgnored(i)
    BY <2>1, <2>7 DEF ErrorIgnored, OnlySettled, TypeOK
  <2>8. ASSUME NEW s \in Statuses, SessionClosed(i, s), calls[i].kind # "Boot",
               startPending' \in [Connectors -> BOOLEAN]
        PROVE  TypeOK'
    <3>1. NoRecord \in Record
      BY BoundsAssumption DEF NoRecord, Record, Wh
    <3> QED
      BY <2>1, <2>8, <3>1 DEF SessionClosed, Announce, TypeOK, Publish, View
  <2>9. CASE StopConfirmed(i)
    BY <2>8, <2>9 DEF StopConfirmed, Reply, TypeOK
  <2>10. CASE RecoveryConfirmed(i)
    BY <2>8, <2>10 DEF RecoveryConfirmed, Reply, TypeOK
  <2> QED
    BY <2>2, <2>3, <2>4, <2>5, <2>6, <2>7, <2>9, <2>10 DEF HandleReply
<1>8. ASSUME NEW i \in DOMAIN calls, CmsAnswer(i)
      PROVE  TypeOK'
  <2> USE <1>8
  <2>1. /\ calls[i] \in Call /\ calls \in Seq(Call)
        /\ ledger \in Seq(Ledger) /\ Len(ledger) \in Nat
    BY DEF TypeOK
  <2>2. CASE CmsAccept(i)
    <3>1. calls' \in Seq(Call)
      BY <2>1, <2>2 DEF CmsAccept, Call, Answers
    <3>2. ledger' \in Seq(Ledger)
      <4>1. CASE calls[i].kind = "StartTx"
        <5>1. [conn |-> calls[i].conn, start |-> calls[i].wh, stops |-> {}] \in Ledger
          BY <2>1, <4>1 DEF Ledger, Call
        <5> QED
          BY <2>1, <2>2, <4>1, <5>1, AppendProperties DEF CmsAccept, StopKinds
      <4>2. CASE calls[i].kind \in StopKinds
        <5> DEFINE tx == calls[i].tx
        <5> DEFINE e == [ledger[tx] EXCEPT !.stops = @ \cup {calls[i].wh}]
        <5>1. ledger' = [ledger EXCEPT ![tx] = e]
          BY <2>2, <4>2 DEF CmsAccept, StopKinds
        <5>2. ASSUME tx \in 1 .. Len(ledger) PROVE e \in Ledger
          <6>1. calls[i].wh \in Wh
            BY <2>1 DEF Call
          <6>2. ledger[tx] \in Ledger
            BY <2>1, <5>2
          <6>3. ledger[tx].stops \cup {calls[i].wh} \in SUBSET Wh
            BY <6>1, <6>2 DEF Ledger
          <6> QED
            BY <6>2, <6>3 DEF Ledger
        <5>3. ledger \in [1 .. Len(ledger) -> Ledger]
          BY <2>1
        <5> HIDE DEF tx, e
        <5>4. ledger' \in [1 .. Len(ledger) -> Ledger]
          BY <5>1, <5>2, <5>3
        <5> QED
          BY <2>1, <5>4
      <4>3. CASE calls[i].kind \notin {"StartTx"} \cup StopKinds
        BY <2>1, <2>2, <4>3 DEF CmsAccept
      <4> QED
        BY <4>1, <4>2, <4>3
    <3> QED
      BY <3>1, <3>2 DEF CmsAnswer, TypeOK
  <2>3. CASE CmsRefuse(i)
    <3>1. calls' \in Seq(Call)
      <4>1. PICK ans \in {"Denied", "Error"} : calls' = [calls EXCEPT ![i].ans = ans]
        BY <2>3 DEF CmsRefuse
      <4>2. [calls[i] EXCEPT !.ans = ans] \in Call
        BY <2>1, <4>1 DEF Call, Answers
      <4> QED
        BY <2>1, <4>1, <4>2
    <3> QED
      BY <2>3, <3>1 DEF CmsAnswer, CmsRefuse, TypeOK
  <2> QED
    BY <2>2, <2>3 DEF CmsAnswer
<1>9. ASSUME HandleCommand
      PROVE  TypeOK'
  <2> USE <1>9
  <2>1. /\ cmdCh # <<>>
        /\ cmdCh' = Tail(cmdCh)
    BY DEF HandleCommand, StatusCommand, PlugIn, Unplug, ClearFault, StartCharging,
           StopCharging, EmergencyStop, GoOffline, GoOnline, IgnoreCommand, Take
  <2>2. /\ cmdCh' \in Seq(Command) /\ Len(cmdCh') <= CmdCap
        /\ Head(cmdCh) \in Command
    BY <2>1, TailType DEF TypeOK
  <2> DEFINE c == Head(cmdCh).conn
  <2>3. ASSUME NEW op \in ConnectorOps, Take(op)
        PROVE  c \in Connectors
    BY <2>3, TakenConnector
  <2>4. CASE StatusCommand
    <3>1. c \in Connectors
      BY <2>3, <2>4 DEF StatusCommand, PlugIn, Unplug, ClearFault, ConnectorOps
    <3> QED
      BY <2>2, <2>4, <3>1
      DEF StatusCommand, PlugIn, Unplug, ClearFault, Announce, TypeOK, Publish, View
  <2>5. CASE StartCharging
    <3>1. c \in Connectors
      BY <2>3, <2>5 DEF StartCharging, ConnectorOps
    <3>2. calls' \in Seq(Call)
      <4>1. <<NewCall("Authorize", c, 0, 0)>> \in Seq(Call)
        BY <3>1, CallTypes, BoundsAssumption DEF HandshakeKinds, Wh
      <4> QED
        BY <2>5, <4>1, SentType DEF StartCharging, TypeOK
    <3> QED
      BY <2>2, <2>5, <3>1, <3>2 DEF StartCharging, TypeOK
  <2>6. ASSUME NEW kind \in StopKinds, c \in Connectors, SendStop(kind, c),
               UNCHANGED <<runVars, txID, startPending, ledger>>, Publish
        PROVE  TypeOK'
    <3>1. calls' \in Seq(Call) /\ reg' \in [Connectors -> Wh]
      <4>1. PICK wh \in Wh :
              /\ reg' = [reg EXCEPT ![c] = wh]
              /\ calls' = Sent(calls, <<NewCall(kind, c, txID[c], wh)>>)
              /\ <<NewCall(kind, c, txID[c], wh)>> \in Seq(Call)
        BY <2>6, SendStopTypes
      <4> HIDE DEF c
      <4> QED
        BY <4>1, SentType DEF TypeOK
    <3> QED
      BY <2>2, <2>6, <3>1 DEF SendStop, Announce, TypeOK, Publish, View
  <2>7. CASE StopCharging
    <3>1. c \in Connectors
      BY <2>3, <2>7 DEF StopCharging, ConnectorOps
    <3> QED
      BY <2>6, <2>7, <3>1 DEF StopCharging, StopKinds
  <2>8. CASE EmergencyStop
    <3>1. c \in Connectors
      BY <2>3, <2>8 DEF EmergencyStop, ConnectorOps
    <3>2. CASE txID[c] # 0
      BY <2>6, <2>8, <3>1, <3>2 DEF EmergencyStop, StopKinds
    <3>3. CASE txID[c] = 0
      BY <2>2, <2>8, <3>1, <3>3 DEF EmergencyStop, Announce, TypeOK, Publish, View
    <3> QED
      BY <3>2, <3>3
  <2>9. CASE GoOffline
    BY <2>2, <2>9 DEF GoOffline, TypeOK, Publish, View, None
  <2>10. CASE GoOnline
    <3>1. calls' \in Seq(Call)
      <4>1. Append(calls, Boot) \in Seq(Call)
        BY CallTypes, AppendProperties DEF TypeOK
      <4> QED
        BY <2>10, <4>1 DEF GoOnline, TypeOK
    <3> QED
      BY <2>2, <2>10, <3>1 DEF GoOnline, TypeOK, Publish, View
  <2>11. CASE IgnoreCommand
    BY <2>2, <2>11 DEF IgnoreCommand, TypeOK
  <2> QED
    BY <2>4, <2>5, <2>7, <2>8, <2>9, <2>10, <2>11 DEF HandleCommand
<1>10. ASSUME HandleCall
       PROVE  TypeOK'
  <2>1. CASE RemoteStart
    <3>1. PICK c \in Connectors :
            Offer([op |-> "StartCharging", conn |-> c])
      BY <2>1 DEF RemoteStart
    <3>2. [op |-> "StartCharging", conn |-> c] \in Command
      BY DEF Command, ConnectorOps
    <3> QED
      BY <2>1, <3>1, <3>2, OfferType DEF RemoteStart, TypeOK
  <2>2. CASE RemoteStop
    <3>1. PICK c \in Connectors :
            Offer([op |-> "StopCharging", conn |-> c])
      BY <2>2 DEF RemoteStop
    <3>2. [op |-> "StopCharging", conn |-> c] \in Command
      BY DEF Command, ConnectorOps
    <3> QED
      BY <2>2, <3>1, <3>2, OfferType DEF RemoteStop, TypeOK
  <2>3. CASE TriggerBoot
    BY <2>3, CallTypes, SentType DEF TriggerBoot, TypeOK
  <2>4. CASE TriggerStatus
    BY <2>4 DEF TriggerStatus, Announce, TypeOK, Publish, View
  <2>5. CASE TriggerMeter
    <3>1. reg' \in [Connectors -> Wh] /\ store' \in [Connectors -> Record]
      BY <2>5, MeterTypes DEF TriggerMeter
    <3> QED
      BY <2>5, <3>1 DEF TriggerMeter, TypeOK, Publish, View
  <2> QED
    BY <1>10, <2>1, <2>2, <2>3, <2>4, <2>5 DEF HandleCall
<1>11. CASE UserCommand
  <2>1. PICK k \in Command : Offer(k)
    <3>1. \A op \in ConnectorOps, c \in Connectors :
            [op |-> op, conn |-> c] \in Command
      BY DEF Command
    <3>2. \A op \in LinkOps : [op |-> op, conn |-> 0] \in Command
      BY DEF Command
    <3> QED
      BY <1>11, <3>1, <3>2 DEF UserCommand
  <2> QED
    BY <1>11, <2>1, OfferType DEF UserCommand, TypeOK
<1>12. CASE LinkDrop
  BY <1>12 DEF LinkDrop, TypeOK, None
<1>13. CASE Restart
  BY <1>13, FreshTypes DEF Restart, TypeOK, Publish, View
<1>14. CASE UNCHANGED vars
  BY <1>14 DEF vars, TypeOK
<1> QED
  BY <1>1, <1>2, <1>3, <1>4, <1>5, <1>6, <1>7, <1>8, <1>9, <1>10, <1>11, <1>12, <1>13, <1>14
  DEF Next

\* The types hold in every behaviour, for any number of connectors and any
\* bounds, whatever the operator, the CMS and the network do.
THEOREM TypeCorrect == Spec => []TypeOK
  BY TypeInit, TypeStep, PTL DEF Spec

-----------------------------------------------------------------------------
(* A StartTransaction the CMS accepted carries a transaction id: 0, which  *)
(* the code reads as "no transaction", is never assigned.                  *)

Named(q) ==
  \A i \in DOMAIN q : q[i].kind = "StartTx" /\ q[i].ans = "Accepted" => q[i].tx # 0

\* A queue in which every accepted start names its transaction stays so when
\* such a queue is sent after it.
LEMMA NamedSent ==
  ASSUME NEW w \in Seq(Call), NEW n \in Seq(Call), Named(w), Named(n)
  PROVE  Named(Sent(w, n))
<1>1. CASE link = "up"
  <2>1. Sent(w, n) = w \o n /\ Len(w) \in Nat /\ Len(n) \in Nat
    BY <1>1 DEF Sent
  <2>2. ASSUME NEW i \in 1 .. Len(w) + Len(n)
        PROVE  \/ i \in DOMAIN w /\ (w \o n)[i] = w[i]
               \/ i - Len(w) \in DOMAIN n /\ (w \o n)[i] = n[i - Len(w)]
    BY <2>1, <2>2, ConcatProperties
  <2> QED
    BY <2>1, <2>2, ConcatProperties DEF Named
<1>2. CASE link # "up"
  BY <1>2 DEF Sent
<1> QED
  BY <1>1, <1>2

\* A CALL that is only being sent is not answered yet.
LEMMA NamedNew ==
  /\ Named(<<>>) /\ Named(<<Boot>>)
  /\ \A kind, c, tx, wh : Named(<<NewCall(kind, c, tx, wh)>>)
  BY DEF Named, Boot, NewCall

\* Every accepted StartTransaction that waits to be read names the transaction
\* the CMS assigned: transaction 0, the mark of an idle connector, is never one.
LEMMA NamedStep == TypeOK /\ TypeOK' /\ Named(calls) /\ [Next]_vars => Named(calls')
<1> SUFFICES ASSUME TypeOK, TypeOK', Named(calls), [Next]_vars
             PROVE  Named(calls')
  OBVIOUS
<1> USE DEF runVars, connVars
<1>1. CASE UNCHANGED calls
  BY <1>1
<1>2. CASE calls' = <<>>
  BY <1>2, NamedNew
<1>3. CASE calls' = <<Boot>>
  BY <1>3, NamedNew
<1>4. ASSUME NEW n \in Seq(Call), Named(n), calls' = Sent(calls, n)
      PROVE  Named(calls')
  BY <1>4, NamedSent DEF TypeOK
<1>5. CASE calls' = Append(calls, Boot)
  <2>1. calls \in Seq(Call) /\ Len(calls) \in Nat /\ Boot \in Call
    BY CallTypes DEF TypeOK
  <2>2. /\ DOMAIN calls' = 1 .. Len(calls) + 1 /\ calls'[Len(calls) + 1] = Boot
        /\ \A j \in 1 .. Len(calls) : calls'[j] = calls[j]
    BY <1>5, <2>1, AppendProperties
  <2> QED
    BY <2>1, <2>2 DEF Named, Boot, NewCall
<1>6. ASSUME NEW i \in DOMAIN calls
      PROVE  RemoveAt(calls, i) \in Seq(Call) /\ Named(RemoveAt(calls, i))
  BY RemoveAtProperties DEF TypeOK, Named
<1>7. ASSUME NEW i \in DOMAIN calls, HandleReply(i)
      PROVE  Named(calls')
  <2>1. CASE BootAccepted(i)
    <3>1. PICK order \in SetToSeqs(Interrupted) :
            calls' = Sent(RemoveAt(calls, i), [k \in DOMAIN order |-> RecoveryStop(order[k])])
      BY <2>1 DEF BootAccepted
    <3>2. Named([k \in DOMAIN order |-> RecoveryStop(order[k])])
      BY DEF Named, RecoveryStop, NewCall
    <3> QED
      BY <1>6, <3>1, <3>2, RecoveryTypes, NamedSent
  <2>2. CASE AuthorizeAccepted(i)
    <3> DEFINE c == calls[i].conn
    <3>1. c \in Connectors /\ MeterStart(c) \in Wh
      BY <2>2 DEF AuthorizeAccepted, Reply, MeterStart, TypeOK, Call
    <3>2. calls' = Sent(RemoveAt(calls, i), <<NewCall("StartTx", c, 0, MeterStart(c))>>)
      BY <2>2 DEF AuthorizeAccepted
    <3> HIDE DEF c
    <3>3. <<NewCall("StartTx", c, 0, MeterStart(c))>> \in Seq(Call)
      BY <3>1, CallTypes DEF HandshakeKinds
    <3> QED
      BY <1>6, <3>2, <3>3, NamedSent, NamedNew
  <2>3. CASE calls' = RemoveAt(calls, i)
    BY <1>6, <2>3
  <2> QED
    BY <1>7, <2>1, <2>2, <2>3
    DEF HandleReply, BootRefused, OnlySettled, StartAccepted, StartRefused, ErrorIgnored,
        StopConfirmed, RecoveryConfirmed, SessionClosed
<1>8. ASSUME NEW i \in DOMAIN calls, CmsAnswer(i)
      PROVE  Named(calls')
  <2>1. calls \in Seq(Call) /\ calls[i] \in Call /\ Len(ledger) \in Nat
    BY <1>8 DEF TypeOK
  <2>2. CASE CmsAccept(i)
    <3> DEFINE tx == IF calls[i].kind = "StartTx" THEN Len(ledger) + 1 ELSE calls[i].tx
               k == [calls[i] EXCEPT !.ans = "Accepted", !.tx = tx]
    <3>1. calls' = [calls EXCEPT ![i] = k]
      BY <2>1, <2>2 DEF CmsAccept
    <3>2. k.kind = "StartTx" => k.tx # 0
      BY <2>1 DEF Call
    <3> HIDE DEF k
    <3> QED
      BY <1>8, <2>1, <3>1, <3>2 DEF Named
  <2>3. CASE CmsRefuse(i)
    <3>1. PICK ans \in {"Denied", "Error"} : calls' = [calls EXCEPT ![i].ans = ans]
      BY <2>3 DEF CmsRefuse
    <3> DEFINE k == [calls[i] EXCEPT !.ans = ans]
    <3>2. k.ans # "Accepted"
      BY <2>1, <3>1 DEF Call
    <3>3. calls' = [calls EXCEPT ![i] = k]
      BY <3>1
    <3> HIDE DEF k
    <3> QED
      BY <1>8, <2>1, <3>2, <3>3 DEF Named
  <2> QED
    BY <1>8, <2>2, <2>3 DEF CmsAnswer
<1>9. ASSUME HandleCommand
      PROVE  Named(calls')
  <2> DEFINE c == Head(cmdCh).conn
  <2>1. ASSUME NEW kind \in StopKinds, NEW op \in ConnectorOps, Take(op), SendStop(kind, c)
        PROVE  Named(calls')
    <3>1. c \in Connectors
      BY <2>1, TakenConnector
    <3> HIDE DEF c
    <3> QED
      BY <1>4, <2>1, <3>1, SendStopTypes, NamedNew
  <2>2. CASE StartCharging
    <3>1. c \in Connectors
      BY <2>2, TakenConnector DEF StartCharging, ConnectorOps
    <3>2. calls' = Sent(calls, <<NewCall("Authorize", c, 0, 0)>>)
      BY <2>2 DEF StartCharging
    <3> HIDE DEF c
    <3>3. <<NewCall("Authorize", c, 0, 0)>> \in Seq(Call)
      BY <3>1, CallTypes, BoundsAssumption DEF HandshakeKinds, Wh
    <3> QED
      BY <1>4, <3>2, <3>3, NamedNew
  <2>3. CASE StopCharging
    BY <2>1, <2>3 DEF StopCharging, StopKinds, ConnectorOps
  <2>4. CASE EmergencyStop
    BY <1>1, <2>1, <2>4 DEF EmergencyStop, StopKinds, ConnectorOps
  <2> QED
    BY <1>1, <1>2, <1>5, <1>9, <2>2, <2>3, <2>4
    DEF HandleCommand, StatusCommand, GoOffline, GoOnline, IgnoreCommand
<1>10. CASE TriggerBoot
  BY <1>4, <1>10, NamedNew, CallTypes DEF TriggerBoot
<1>11. CASE HandleCall
  BY <1>1, <1>10, <1>11 DEF HandleCall, RemoteStart, RemoteStop, TriggerStatus, TriggerMeter
<1>12. CASE InboundClosed
  BY <1>1, <1>2, <1>12 DEF InboundClosed
<1> QED
  BY <1>1, <1>2, <1>3, <1>5, <1>7, <1>8, <1>9, <1>11, <1>12
  DEF Next, RunConnect, RunConnectFails, RunReturns, Reconnect, MeterTick, UserCommand,
      LinkDrop, Restart, vars

-----------------------------------------------------------------------------
(* A connector and its transaction.  TxMatchesStatus and LiveTxPersisted   *)
(* are preserved only by states in which an accepted StartTx names a       *)
(* transaction, so Named belongs to the inductive invariant.               *)

SessionInv == TypeOK /\ Named(calls) /\ TxMatchesStatus /\ LiveTxPersisted

\* Before Run is called nothing is live and nothing is on disk.
LEMMA SessionInit == Init => SessionInv
<1> SUFFICES ASSUME Init PROVE SessionInv
  OBVIOUS
<1>1. TypeOK
  BY TypeInit
<1>2. Named(calls)
  BY NamedNew DEF Init
<1> QED
  BY <1>1, <1>2 DEF Init, SessionInv, TxMatchesStatus, LiveTxPersisted, Idle, Zero

\* Metering changes neither the status, nor the transaction, nor whose record
\* is on disk.
LEMMA MeterKeepsSessions ==
  ASSUME TypeOK, NEW cs, Meter(cs)
  PROVE  \A c \in Connectors : store'[c].tx = store[c].tx
  BY DEF Meter, TypeOK, Record

\* Every handler that opens, stops or closes a session moves the status,
\* the transaction and the record together.
LEMMA SessionStep == SessionInv /\ [Next]_vars => TxMatchesStatus' /\ LiveTxPersisted'
<1> SUFFICES ASSUME TypeOK, Named(calls), TxMatchesStatus, LiveTxPersisted, [Next]_vars
             PROVE  TxMatchesStatus' /\ LiveTxPersisted'
  BY DEF SessionInv
<1> USE DEF runVars, connVars
<1>1. CASE UNCHANGED <<status, txID, store>>
  BY <1>1 DEF TxMatchesStatus, LiveTxPersisted
<1>2. ASSUME UNCHANGED <<status, txID>>, NEW cs, Meter(cs)
      PROVE  TxMatchesStatus' /\ LiveTxPersisted'
  <2>1. \A c \in Connectors : store'[c].tx = store[c].tx
    BY <1>2, MeterKeepsSessions
  <2> QED
    BY <1>2, <2>1 DEF TxMatchesStatus, LiveTxPersisted
<1>3. ASSUME NEW i \in DOMAIN calls, HandleReply(i)
      PROVE  TxMatchesStatus' /\ LiveTxPersisted'
  <2>1. calls[i] \in Call /\ calls[i].tx \in Nat /\ calls[i].wh \in Wh
    BY <1>3 DEF TypeOK, Call
  <2>2. CASE StartAccepted(i)
    <3> DEFINE c == calls[i].conn
    <3>1. c \in Connectors /\ calls[i].tx # 0
      BY <1>3, <2>1, <2>2 DEF StartAccepted, Reply, Named, Call
    <3>2. /\ txID' = [txID EXCEPT ![c] = calls[i].tx]
          /\ status' = [status EXCEPT ![c] = "Charging"]
          /\ store' = [store EXCEPT ![c] =
                         [tx |-> calls[i].tx, startWh |-> calls[i].wh, lastWh |-> calls[i].wh]]
      BY <2>2 DEF StartAccepted, Put, Announce
    <3> HIDE DEF c
    <3> QED
      BY <3>1, <3>2 DEF TxMatchesStatus, LiveTxPersisted, TypeOK
  <2>3. ASSUME NEW s \in {"Available", "Faulted"}, SessionClosed(i, s)
        PROVE  TxMatchesStatus' /\ LiveTxPersisted'
    BY <2>3 DEF SessionClosed, Announce, TxMatchesStatus, LiveTxPersisted, TypeOK
  <2>4. CASE StopConfirmed(i) \/ RecoveryConfirmed(i)
    BY <2>3, <2>4 DEF StopConfirmed, RecoveryConfirmed
  <2> QED
    BY <1>1, <1>3, <2>2, <2>4
    DEF HandleReply, BootAccepted, BootRefused, OnlySettled, AuthorizeAccepted, StartRefused,
        ErrorIgnored
<1>4. CASE StatusCommand
  <2> DEFINE c == Head(cmdCh).conn
  <2>1. UNCHANGED <<txID, store>>
    BY <1>4 DEF StatusCommand
  <2>2. PICK s \in {"Preparing", "Available"} : status' = [status EXCEPT ![c] = s]
    BY <1>4 DEF StatusCommand, PlugIn, Unplug, ClearFault, Announce
  <2>3. status[c] \in {"Available", "Preparing", "Faulted"}
    BY <1>4 DEF StatusCommand, PlugIn, Unplug, ClearFault, Take, Honoured, CanPlugIn
  <2> HIDE DEF c
  <2> QED
    BY <2>1, <2>2, <2>3 DEF TxMatchesStatus, LiveTxPersisted, TypeOK
<1>5. ASSUME NEW kind, NEW c, txID[c] # 0, SendStop(kind, c), UNCHANGED txID
      PROVE  TxMatchesStatus' /\ LiveTxPersisted'
  BY <1>5 DEF SendStop, Announce, TxMatchesStatus, LiveTxPersisted, TypeOK
<1>6. CASE StopCharging
  BY <1>5, <1>6 DEF StopCharging, Take, Honoured
<1>7. CASE EmergencyStop
  <2>1. CASE txID[Head(cmdCh).conn] # 0
    BY <1>5, <1>7, <2>1 DEF EmergencyStop
  <2>2. CASE txID[Head(cmdCh).conn] = 0
    BY <1>7, <2>2 DEF EmergencyStop, Announce, TxMatchesStatus, LiveTxPersisted, TypeOK
  <2> QED
    BY <2>1, <2>2
<1>8. CASE TriggerStatus
  BY <1>8 DEF TriggerStatus, Announce, TxMatchesStatus, LiveTxPersisted, TypeOK
<1>9. CASE Restart
  BY <1>9 DEF Restart, Idle, Zero, TxMatchesStatus, LiveTxPersisted
<1>10. CASE HandleCommand
  BY <1>1, <1>4, <1>6, <1>7, <1>10
  DEF HandleCommand, StartCharging, GoOffline, GoOnline, IgnoreCommand
<1>11. CASE HandleCall
  BY <1>1, <1>2, <1>8, <1>11
  DEF HandleCall, RemoteStart, RemoteStop, TriggerBoot, TriggerMeter
<1> QED
  BY <1>1, <1>2, <1>3, <1>9, <1>10, <1>11
  DEF Next, RunConnect, RunConnectFails, RunReturns, InboundClosed, Reconnect, MeterTick,
      CmsAnswer, UserCommand, LinkDrop, vars

\* The session invariant is inductive.
LEMMA SessionInvStep == SessionInv /\ [Next]_vars => SessionInv'
  BY TypeStep, NamedStep, SessionStep DEF SessionInv

\* Whatever late reply, emergency stop, replay or outage comes between, a
\* connector of any charge point holds a transaction exactly while it shows
\* Charging or Finishing.
THEOREM TransactionMatchesStatus == Spec => []TxMatchesStatus
<1>1. SessionInv => TxMatchesStatus
  BY DEF SessionInv
<1> QED
  BY <1>1, SessionInit, SessionInvStep, PTL DEF Spec

\* Whenever the process may be killed, the transaction each connector runs is
\* the one in its record on disk.
THEOREM LiveTransactionPersisted == Spec => []LiveTxPersisted
<1>1. SessionInv => LiveTxPersisted
  BY DEF SessionInv
<1> QED
  BY <1>1, SessionInit, SessionInvStep, PTL DEF Spec

-----------------------------------------------------------------------------
(* Going offline.  Run is never redialling while offline, so nothing but   *)
(* GoOnline brings the link back.                                          *)

OfflineInv == OfflineQuiescent /\ (offline => loop \in {"select", "exited"})

\* Going offline empties everything, and nothing is sent until GoOnline succeeds.
LEMMA OfflineStep == TypeOK /\ OfflineInv /\ [Next]_vars => OfflineInv'
<1> SUFFICES ASSUME TypeOK, OfflineInv, [Next]_vars
             PROVE  OfflineInv'
  OBVIOUS
<1> USE DEF OfflineInv, OfflineQuiescent, runVars
<1>1. CASE UNCHANGED <<runVars, calls>>
  BY <1>1
<1>2. CASE RunConnect \/ RunConnectFails \/ RunReturns \/ Reconnect \/ LinkDrop \/ Restart
  BY <1>2 DEF RunConnect, RunConnectFails, RunReturns, Reconnect, LinkDrop, Restart
<1>3. CASE InboundClosed
  BY <1>3 DEF InboundClosed
<1>4. ASSUME NEW i \in DOMAIN calls, HandleReply(i)
      PROVE  OfflineInv'
  <2>1. ~offline /\ ~offline'
    BY <1>4 DEF HandleReply, BootAccepted, BootRefused, OnlySettled, AuthorizeAccepted,
                StartAccepted, StartRefused, ErrorIgnored, StopConfirmed, RecoveryConfirmed,
                SessionClosed, Reply, Listening
  <2> QED
    BY <2>1
<1>5. ASSUME NEW i \in DOMAIN calls, CmsAnswer(i)
      PROVE  OfflineInv'
  BY <1>5 DEF CmsAnswer
<1>6. ASSUME NEW n, calls' = Sent(calls, n), UNCHANGED runVars
      PROVE  OfflineInv'
  BY <1>6 DEF Sent
<1>7. ASSUME NEW kind, NEW c, SendStop(kind, c), UNCHANGED runVars
      PROVE  OfflineInv'
  BY <1>6, <1>7 DEF SendStop
<1>8. CASE HandleCommand
  <2>1. CASE GoOffline
    BY <2>1 DEF GoOffline, Take
  <2>2. CASE GoOnline
    BY <2>2 DEF GoOnline
  <2> QED
    BY <1>1, <1>6, <1>7, <1>8, <2>1, <2>2
    DEF HandleCommand, StatusCommand, StartCharging, StopCharging, EmergencyStop, IgnoreCommand
<1>9. CASE HandleCall
  BY <1>1, <1>6, <1>9
  DEF HandleCall, RemoteStart, RemoteStop, TriggerBoot, TriggerStatus, TriggerMeter
<1> QED
  BY <1>1, <1>2, <1>3, <1>4, <1>5, <1>8, <1>9 DEF Next, MeterTick, UserCommand, vars

\* From GoOffline until a GoOnline succeeds, whatever is commanded meanwhile,
\* there is no link and no CALL waits for a reply.
THEOREM OfflineIsQuiescent == Spec => []OfflineQuiescent
<1>1. Init => OfflineInv
  BY DEF Init, OfflineInv, OfflineQuiescent
<1>2. OfflineInv => OfflineQuiescent
  BY DEF OfflineInv
<1> QED
  BY <1>1, <1>2, OfflineStep, TypeCorrect, PTL DEF Spec

-----------------------------------------------------------------------------
(* The snapshot.                                                           *)

\* Every handler that changes what State() shows publishes after its last change.
LEMMA SnapshotStep == SnapshotFresh /\ [Next]_vars => SnapshotFresh'
<1> SUFFICES ASSUME SnapshotFresh, [Next]_vars
             PROVE  SnapshotFresh'
  OBVIOUS
<1> USE DEF SnapshotFresh, runVars, connVars
<1>1. CASE Publish
  BY <1>1 DEF Publish
<1>2. CASE UNCHANGED <<cpState, status, txID, reg, snap>>
  BY <1>2 DEF View
<1>3. ASSUME NEW i \in DOMAIN calls, HandleReply(i) \/ CmsAnswer(i)
      PROVE  SnapshotFresh'
  BY <1>1, <1>2, <1>3
  DEF HandleReply, BootAccepted, BootRefused, OnlySettled, AuthorizeAccepted, StartAccepted,
      StartRefused, ErrorIgnored, StopConfirmed, RecoveryConfirmed, SessionClosed, CmsAnswer
<1>4. CASE HandleCommand
  BY <1>1, <1>2, <1>4
  DEF HandleCommand, StatusCommand, StartCharging, StopCharging, EmergencyStop, GoOffline,
      GoOnline, IgnoreCommand
<1>5. CASE HandleCall
  BY <1>1, <1>2, <1>5
  DEF HandleCall, RemoteStart, RemoteStop, TriggerBoot, TriggerStatus, TriggerMeter
<1> QED
  BY <1>1, <1>2, <1>3, <1>4, <1>5
  DEF Next, RunConnect, RunConnectFails, RunReturns, InboundClosed, Reconnect, MeterTick,
      UserCommand, LinkDrop, Restart, vars

\* No handler returns to select without having published what it changed:
\* State() never shows an earlier state of the connectors.
THEOREM SnapshotIsFresh == Spec => []SnapshotFresh
<1>1. Init => SnapshotFresh
  BY DEF Init, SnapshotFresh
<1> QED
  BY <1>1, SnapshotStep, PTL DEF Spec
=============================================================================
