------------------------ MODULE ChargerSessionProofs ------------------------
(***************************************************************************)
(* Theorems about the sessions of the charger actor and of the CMS, for    *)
(* any number of connectors and any bounds.  Most of what can be said of   *)
(* them holds in some environments only; each theorem names its own.       *)
(***************************************************************************)
EXTENDS ChargerProofs

\* The CALLs of a queue, whatever their order.
Elems(q) == {q[i] : i \in DOMAIN q}

\* A CALL of one of these kinds waits for a reply about connector c.
Waits(c, kinds) == \E k \in Elems(calls) : k.conn = c /\ k.kind \in kinds

\* The properties count positions, the proofs look at elements.
LEMMA WaitsInFlight ==
  \A c, kinds : Waits(c, kinds) <=> InFlight(c, kinds) # {}
  BY DEF Waits, Elems, InFlight

\* Settling a CALL takes one out.
LEMMA ElemsRemove ==
  ASSUME NEW s \in Seq(Call), NEW i \in DOMAIN s
  PROVE  Elems(RemoveAt(s, i)) \subseteq Elems(s) /\ Elems(s) \subseteq Elems(RemoveAt(s, i)) \cup {s[i]}
<1>1. /\ DOMAIN RemoveAt(s, i) = 1 .. Len(s) - 1 /\ DOMAIN s = 1 .. Len(s) /\ Len(s) \in Nat
      /\ \A j \in 1 .. Len(s) - 1 : RemoveAt(s, i)[j] = s[IF j < i THEN j ELSE j + 1]
  BY RemoveAtProperties
<1>2. Elems(RemoveAt(s, i)) \subseteq Elems(s)
  BY RemoveAtProperties DEF Elems
<1>3. ASSUME NEW j \in DOMAIN s, j # i
      PROVE  s[j] \in Elems(RemoveAt(s, i))
  <2>1. CASE j < i
    BY <1>1, <2>1 DEF Elems
  <2>2. CASE j > i
    <3>1. j - 1 \in DOMAIN RemoveAt(s, i) /\ RemoveAt(s, i)[j - 1] = s[j]
      BY <1>1, <2>2
    <3> QED
      BY <3>1 DEF Elems
  <2> QED
    BY <1>1, <1>3, <2>1, <2>2
<1> QED
  BY <1>2, <1>3 DEF Elems

\* Sending adds what is sent, if the link is up.
LEMMA ElemsSent ==
  ASSUME NEW w \in Seq(Call), NEW n \in Seq(Call)
  PROVE  /\ Elems(w) \subseteq Elems(Sent(w, n)) /\ Elems(Sent(w, n)) \subseteq Elems(w) \cup Elems(n)
         /\ link = "up" => Elems(n) \subseteq Elems(Sent(w, n))
<1>1. CASE link = "up"
  <2>1. /\ Sent(w, n) = w \o n /\ Len(w) \in Nat /\ Len(n) \in Nat
        /\ DOMAIN w = 1 .. Len(w) /\ DOMAIN n = 1 .. Len(n)
        /\ DOMAIN (w \o n) = 1 .. Len(w) + Len(n)
        /\ \A j \in 1 .. Len(w) : (w \o n)[j] = w[j]
        /\ \A j \in 1 .. Len(w) + Len(n) : j > Len(w) => (w \o n)[j] = n[j - Len(w)]
    BY <1>1, ConcatProperties DEF Sent
  <2>2. \A j \in DOMAIN w : w[j] \in Elems(w \o n)
    BY <2>1 DEF Elems
  <2>3. \A j \in DOMAIN n : n[j] \in Elems(w \o n)
    <3> TAKE j \in DOMAIN n
    <3>1. Len(w) + j \in DOMAIN (w \o n) /\ (w \o n)[Len(w) + j] = n[j]
      BY <2>1
    <3> QED
      BY <3>1 DEF Elems
  <2>4. \A j \in DOMAIN (w \o n) : (w \o n)[j] \in Elems(w) \cup Elems(n)
    <3> TAKE j \in DOMAIN (w \o n)
    <3>1. CASE j <= Len(w)
      BY <2>1, <3>1 DEF Elems
    <3>2. CASE j > Len(w)
      <4>1. j - Len(w) \in DOMAIN n /\ (w \o n)[j] = n[j - Len(w)]
        BY <2>1, <3>2
      <4> QED
        BY <4>1 DEF Elems
    <3> QED
      BY <2>1, <3>1, <3>2
  <2> QED
    BY <2>1, <2>2, <2>3, <2>4 DEF Elems
<1>2. CASE link # "up"
  BY <1>2 DEF Sent
<1> QED
  BY <1>1, <1>2

\* The queues a step begins with, and those of one CALL.
LEMMA ElemsFew ==
  /\ Elems(<<>>) = {}
  /\ \A k : Elems(<<k>>) = {k}
  BY DEF Elems

\* What is queued goes behind everything that waits.
LEMMA ElemsAppend ==
  ASSUME NEW w \in Seq(Call), NEW x \in Call
  PROVE  /\ DOMAIN w = 1 .. Len(w) /\ DOMAIN Append(w, x) = 1 .. Len(w) + 1 /\ Len(w) \in Nat
         /\ \A j \in 1 .. Len(w) : Append(w, x)[j] = w[j]
         /\ Append(w, x)[Len(w) + 1] = x
         /\ Elems(Append(w, x)) = Elems(w) \cup {x}
<1>1. /\ DOMAIN w = 1 .. Len(w) /\ DOMAIN Append(w, x) = 1 .. Len(w) + 1 /\ Len(w) \in Nat
      /\ \A j \in 1 .. Len(w) : Append(w, x)[j] = w[j]
      /\ Append(w, x)[Len(w) + 1] = x
  BY AppendProperties
<1>2. \A j \in DOMAIN Append(w, x) : Append(w, x)[j] \in Elems(w) \cup {x}
  BY <1>1 DEF Elems
<1>3. \A j \in DOMAIN w : w[j] \in Elems(Append(w, x))
  BY <1>1 DEF Elems
<1>4. x \in Elems(Append(w, x))
  BY <1>1 DEF Elems
<1> QED
  BY <1>1, <1>2, <1>3, <1>4 DEF Elems

\* A boot goes behind everything that waits.
LEMMA ElemsBoot ==
  ASSUME NEW w \in Seq(Call)
  PROVE  Elems(Append(w, Boot)) = Elems(w) \cup {Boot}
  BY ElemsAppend, CallTypes

-----------------------------------------------------------------------------
(* What one step may do to the CALLs, to the records and to the ledger.    *)

\* A handler that only settles, or only forgets, brings nothing new.
LEMMA SettledElems ==
  ASSUME TypeOK, NEW i \in DOMAIN calls
  PROVE  /\ RemoveAt(calls, i) \in Seq(Call) /\ calls[i] \in Call /\ calls[i] \in Elems(calls)
         /\ Elems(RemoveAt(calls, i)) \subseteq Elems(calls)
         /\ Elems(calls) \subseteq Elems(RemoveAt(calls, i)) \cup {calls[i]}
<1>1. calls \in Seq(Call)
  BY DEF TypeOK
<1>2. RemoveAt(calls, i) \in Seq(Call)
  BY <1>1, RemoveAtProperties
<1>3. calls[i] \in Call /\ calls[i] \in Elems(calls)
  BY <1>1 DEF Elems
<1> QED
  BY <1>1, <1>2, <1>3, ElemsRemove

\* The stops of recovery.
LEMMA RecoveryElems ==
  ASSUME TypeOK, NEW order \in SetToSeqs(Interrupted)
  PROVE  /\ [k \in DOMAIN order |-> RecoveryStop(order[k])] \in Seq(Call)
         /\ Elems([k \in DOMAIN order |-> RecoveryStop(order[k])])
              = {RecoveryStop(c) : c \in Interrupted}
<1>1. IsFiniteSet(Interrupted)
  BY ConnectorsAssumption, FS_Subset DEF Interrupted
<1>2. Cardinality(Interrupted) \in Nat
  BY <1>1, FS_CardinalityType
<1>3. order \in [1 .. Cardinality(Interrupted) -> Interrupted]
      /\ \A c \in Interrupted : \E j \in 1 .. Cardinality(Interrupted) : order[j] = c
  <2> DEFINE D == 1 .. Cardinality(Interrupted)
  <2>1. order \in [D -> Interrupted] /\ \A i, j \in D : i # j => order[i] # order[j]
    BY DEF SetToSeqs
  <2>2. order \in Injection(D, Interrupted)
    BY <2>1 DEF Injection, IsInjective
  <2>3. Cardinality(D) = Cardinality(Interrupted)
    BY <1>2, FS_Interval
  <2>4. order \in Surjection(D, Interrupted)
    BY <1>1, <2>2, <2>3, FS_Injection
  <2> QED
    BY <2>1, <2>4 DEF Surjection
<1> DEFINE q == [k \in DOMAIN order |-> RecoveryStop(order[k])]
<1>4. q \in Seq(Call)
  BY RecoveryTypes
<1>5. DOMAIN q = 1 .. Cardinality(Interrupted) /\ \A j \in DOMAIN q : q[j] = RecoveryStop(order[j])
  BY <1>3
<1>6. Elems(q) = {RecoveryStop(c) : c \in Interrupted}
  BY <1>3, <1>5 DEF Elems
<1> QED
  BY <1>4, <1>6

\* Where the CALLs that wait after a step come from.
Starts(c) == StartCharging /\ Head(cmdCh).conn = c

SentBy(k) ==
  \/ k = Boot
  \/ \E c \in Connectors : k = NewCall("Authorize", c, 0, 0) /\ Starts(c)
  \/ \E c \in Connectors :
       k = NewCall("StartTx", c, 0, reg[c]) /\ Waits(c, {"Authorize"}) /\ UNCHANGED reg
  \/ /\ UNCHANGED <<txID, store>>
     /\ \/ \E c \in Connectors, kind \in {"StopLocal", "StopEmergency"} :
             /\ txID[c] # 0 /\ reg'[c] >= reg[c] /\ reg'[c] \in Wh
             /\ k = NewCall(kind, c, txID[c], reg'[c])
        \/ \E c \in Interrupted : k = RecoveryStop(c)

\* A CALL that waits after a step waited before, was sent, or was answered.
LEMMA Origins ==
  ASSUME TypeOK, [Next]_vars, NEW k \in Elems(calls')
  PROVE  \/ k \in Elems(calls)
         \/ SentBy(k)
         \/ \E i \in DOMAIN calls : CmsAnswer(i) /\ k = calls'[i]
<1> DEFINE P == k \in Elems(calls) \/ SentBy(k)
<1>1. CASE UNCHANGED calls
  BY <1>1
<1>2. CASE calls' = <<>> \/ calls' = <<Boot>>
  BY <1>2, ElemsFew DEF SentBy
<1>3. CASE calls' = Append(calls, Boot)
  BY <1>3, ElemsBoot DEF SentBy, TypeOK
<1>4. ASSUME NEW x \in Call, calls' = Sent(calls, <<x>>), SentBy(x)
      PROVE  P
  <2>1. calls \in Seq(Call) /\ <<x>> \in Seq(Call)
    BY <1>4 DEF TypeOK
  <2>2. k \in Elems(calls) \cup Elems(<<x>>)
    BY <1>4, <2>1, ElemsSent
  <2> QED
    BY <1>4, <2>2, ElemsFew
<1>5. ASSUME NEW i \in DOMAIN calls, HandleReply(i)
      PROVE  P
  <2> DEFINE c == calls[i].conn
  <2>1. CASE BootAccepted(i)
    <3>1. PICK order \in SetToSeqs(Interrupted) :
            calls' = Sent(RemoveAt(calls, i), [j \in DOMAIN order |-> RecoveryStop(order[j])])
      BY <2>1 DEF BootAccepted
    <3>2. k \in Elems(RemoveAt(calls, i)) \cup {RecoveryStop(d) : d \in Interrupted}
      BY <3>1, RecoveryElems, SettledElems, ElemsSent
    <3>3. UNCHANGED <<txID, store>>
      BY <2>1 DEF BootAccepted, connVars
    <3> QED
      BY <3>2, <3>3, SettledElems DEF SentBy
  <2>2. CASE AuthorizeAccepted(i)
    <3>1. calls' = Sent(RemoveAt(calls, i), <<NewCall("StartTx", c, 0, reg[c])>>)
      BY <2>2 DEF AuthorizeAccepted, MeterStart
    <3>2. c \in Connectors /\ reg[c] \in Wh /\ calls[i].kind = "Authorize" /\ UNCHANGED reg
      BY <2>2, SettledElems DEF AuthorizeAccepted, Reply, Call, TypeOK, connVars
    <3>3. SentBy(NewCall("StartTx", c, 0, reg[c]))
      BY <3>2, SettledElems DEF SentBy, Waits
    <3> HIDE DEF c
    <3>4. <<NewCall("StartTx", c, 0, reg[c])>> \in Seq(Call)
      BY <3>2, CallTypes DEF HandshakeKinds
    <3>5. k \in Elems(RemoveAt(calls, i)) \cup Elems(<<NewCall("StartTx", c, 0, reg[c])>>)
      BY <3>1, <3>4, SettledElems, ElemsSent
    <3> QED
      BY <3>3, <3>5, SettledElems, ElemsFew
  <2>3. CASE calls' = RemoveAt(calls, i)
    BY <2>3, SettledElems
  <2> QED
    BY <1>5, <2>1, <2>2, <2>3
    DEF HandleReply, BootRefused, OnlySettled, StartAccepted, StartRefused, ErrorIgnored,
        StopConfirmed, RecoveryConfirmed, SessionClosed
<1>6. ASSUME NEW i \in DOMAIN calls, CmsAnswer(i)
      PROVE  P \/ k = calls'[i]
  <2>1. \A j \in DOMAIN calls' : j \in DOMAIN calls /\ (j # i => calls'[j] = calls[j])
    BY <1>6 DEF CmsAnswer, CmsAccept, CmsRefuse, TypeOK
  <2> QED
    BY <2>1 DEF Elems
<1>7. CASE HandleCommand
  <2> DEFINE c == Head(cmdCh).conn
  <2>1. ASSUME NEW kind \in {"StopLocal", "StopEmergency"}, NEW op \in ConnectorOps, Take(op),
               SendStop(kind, c), txID[c] # 0, UNCHANGED txID
        PROVE  P
    <3>1. c \in Connectors
      BY <2>1, TakenConnector
    <3> HIDE DEF c
    <3>2. PICK wh \in Sampled(c) : reg' = [reg EXCEPT ![c] = wh]
            /\ calls' = Sent(calls, <<NewCall(kind, c, txID[c], wh)>>)
      BY <2>1 DEF SendStop
    <3>3. wh = reg'[c] /\ wh >= reg[c] /\ wh \in Wh /\ txID[c] \in Nat
      BY <3>1, <3>2, BoundsAssumption DEF Sampled, TypeOK, Wh
    <3>4. NewCall(kind, c, txID[c], wh) \in Call
      BY <3>1, <3>3, CallTypes DEF StopKinds
    <3>5. UNCHANGED <<txID, store>>
      BY <2>1 DEF SendStop
    <3> QED
      BY <1>4, <2>1, <3>1, <3>2, <3>3, <3>4, <3>5 DEF SentBy
  <2>2. CASE StartCharging
    <3>1. c \in Connectors
      BY <2>2, TakenConnector DEF StartCharging, ConnectorOps
    <3>2. calls' = Sent(calls, <<NewCall("Authorize", c, 0, 0)>>)
      BY <2>2 DEF StartCharging
    <3>4. Starts(c)
      BY <2>2 DEF Starts
    <3> HIDE DEF c
    <3>3. NewCall("Authorize", c, 0, 0) \in Call
      BY <3>1, CallTypes, BoundsAssumption DEF HandshakeKinds, Wh
    <3> QED
      BY <1>4, <3>1, <3>2, <3>3, <3>4 DEF SentBy
  <2>3. CASE StopCharging
    BY <2>1, <2>3 DEF StopCharging, ConnectorOps, Take, Honoured
  <2>4. CASE EmergencyStop
    BY <1>1, <2>1, <2>4 DEF EmergencyStop, ConnectorOps
  <2> QED
    BY <1>1, <1>2, <1>3, <1>7, <2>2, <2>3, <2>4
    DEF HandleCommand, StatusCommand, GoOffline, GoOnline, IgnoreCommand
<1>8. CASE TriggerBoot
  BY <1>4, <1>8, CallTypes DEF TriggerBoot, SentBy
<1>9. CASE HandleCall
  BY <1>1, <1>8, <1>9 DEF HandleCall, RemoteStart, RemoteStop, TriggerStatus, TriggerMeter
<1>10. CASE InboundClosed
  BY <1>1, <1>2, <1>10 DEF InboundClosed
<1> QED
  BY <1>1, <1>2, <1>3, <1>5, <1>6, <1>7, <1>9, <1>10
  DEF Next, RunConnect, RunConnectFails, RunReturns, Reconnect, MeterTick, UserCommand,
      LinkDrop, Restart, vars

\* A CALL is answered once, and only its answer and its transaction change.
LEMMA Answered ==
  ASSUME TypeOK, NEW i \in DOMAIN calls, CmsAnswer(i)
  PROVE  /\ calls'[i].kind = calls[i].kind /\ calls'[i].conn = calls[i].conn
         /\ calls'[i].wh = calls[i].wh /\ calls[i].ans = "none" /\ calls'[i].ans # "none"
         /\ calls'[i].ans = "Accepted" => CmsAccept(i)
         /\ calls'[i].ans # "Accepted" => ledger' = ledger /\ CmsRefuse(i)
         /\ calls'[i].tx = IF calls[i].kind = "StartTx" /\ calls'[i].ans = "Accepted"
                           THEN Len(ledger) + 1 ELSE calls[i].tx
<1>1. calls[i] \in Call /\ i \in DOMAIN calls
  BY DEF TypeOK
<1>2. CASE CmsAccept(i)
  BY <1>1, <1>2 DEF CmsAccept, CmsAnswer, Call
<1>3. CASE CmsRefuse(i)
  BY <1>1, <1>3 DEF CmsRefuse, CmsAnswer, Call
<1> QED
  BY <1>2, <1>3 DEF CmsAnswer

\* The CMS forgets nothing: a transaction keeps its connector and its start,
\* and once stopped it stays so.
LEMMA LedgerGrows ==
  ASSUME TypeOK, [Next]_vars, NEW tx \in DOMAIN ledger
  PROVE  /\ tx \in DOMAIN ledger' /\ ledger'[tx].conn = ledger[tx].conn
         /\ ledger'[tx].start = ledger[tx].start /\ ledger[tx].stops \subseteq ledger'[tx].stops
         /\ \/ ledger'[tx].stops = ledger[tx].stops
            \/ \E i \in DOMAIN calls :
                 /\ CmsAnswer(i) /\ CmsAccept(i) /\ calls[i].kind \in StopKinds /\ calls[i].tx = tx
                 /\ ledger'[tx].stops = ledger[tx].stops \cup {calls[i].wh}
<1>1. CASE UNCHANGED ledger
  BY <1>1
<1>2. ASSUME NEW i \in DOMAIN calls, CmsAnswer(i), CmsAccept(i)
      PROVE  /\ tx \in DOMAIN ledger' /\ ledger'[tx].conn = ledger[tx].conn
             /\ ledger'[tx].start = ledger[tx].start /\ ledger[tx].stops \subseteq ledger'[tx].stops
             /\ \/ ledger'[tx].stops = ledger[tx].stops
                \/ /\ calls[i].kind \in StopKinds /\ calls[i].tx = tx
                   /\ ledger'[tx].stops = ledger[tx].stops \cup {calls[i].wh}
  <2>1. ledger \in Seq(Ledger) /\ ledger[tx] \in Ledger /\ tx \in 1 .. Len(ledger)
        /\ Len(ledger) \in Nat /\ calls[i] \in Call
    BY DEF TypeOK
  <2>2. CASE calls[i].kind = "StartTx"
    <3>1. [conn |-> calls[i].conn, start |-> calls[i].wh, stops |-> {}] \in Ledger
      BY <2>1, <2>2 DEF Ledger, Call
    <3>2. ledger' = Append(ledger, [conn |-> calls[i].conn, start |-> calls[i].wh, stops |-> {}])
      BY <1>2, <2>2 DEF CmsAccept, StopKinds
    <3> QED
      BY <2>1, <3>1, <3>2, AppendProperties
  <2>3. CASE calls[i].kind \in StopKinds
    <3>1. ledger' = [ledger EXCEPT ![calls[i].tx].stops = @ \cup {calls[i].wh}]
      BY <1>2, <2>3 DEF CmsAccept, StopKinds
    <3> QED
      BY <2>1, <2>3, <3>1 DEF Ledger
  <2>4. CASE calls[i].kind \notin {"StartTx"} \cup StopKinds
    BY <1>2, <2>4 DEF CmsAccept
  <2> QED
    BY <2>2, <2>3, <2>4
<1>3. ASSUME NEW i \in DOMAIN calls, CmsAnswer(i) PROVE UNCHANGED ledger \/ CmsAccept(i)
  BY <1>3 DEF CmsAnswer, CmsRefuse
<1>4. ASSUME NEW i \in DOMAIN calls, HandleReply(i) PROVE UNCHANGED ledger
  BY <1>4 DEF HandleReply, BootAccepted, BootRefused, OnlySettled, AuthorizeAccepted, StartAccepted,
              StartRefused, ErrorIgnored, StopConfirmed, RecoveryConfirmed, SessionClosed
<1>5. HandleCommand => UNCHANGED ledger
  BY DEF HandleCommand, StatusCommand, StartCharging, StopCharging, EmergencyStop, GoOffline,
         GoOnline, IgnoreCommand
<1>6. HandleCall => UNCHANGED ledger
  BY DEF HandleCall, RemoteStart, RemoteStop, TriggerBoot, TriggerStatus, TriggerMeter
<1>7. \/ UNCHANGED ledger
      \/ \E i \in DOMAIN calls : CmsAnswer(i) /\ CmsAccept(i)
  BY <1>3, <1>4, <1>5, <1>6
  DEF Next, RunConnect, RunConnectFails, RunReturns, InboundClosed, Reconnect, MeterTick,
      UserCommand, LinkDrop, Restart, vars
<1> QED
  BY <1>1, <1>2, <1>7

\* What becomes of the session of a connector in one step: it goes on, and the
\* register advances only while it runs; a confirmed start opens it; a
\* confirmed stop closes it.
GoesOn(c) ==
  /\ txID'[c] = txID[c] /\ reg'[c] >= reg[c] /\ (reg'[c] # reg[c] => txID[c] # 0)
  /\ \/ store'[c] = store[c]
     \/ store[c] # NoRecord /\ store'[c] = [store[c] EXCEPT !.lastWh = reg'[c]]
Opens(c, k) ==
  /\ k.kind = "StartTx" /\ k.ans = "Accepted" /\ k.conn = c
  /\ txID'[c] = k.tx /\ reg'[c] = k.wh /\ store'[c] = [tx |-> k.tx, startWh |-> k.wh, lastWh |-> k.wh]
Closes(c, k) ==
  /\ k.kind \in StopKinds /\ k.ans = "Accepted" /\ k.conn = c
  /\ txID'[c] = 0 /\ reg'[c] = reg[c] /\ store'[c] = NoRecord

\* A step lets the session of a connector go on, opens it or closes it.
LEMMA SessionMoves ==
  ASSUME TypeOK, [Next]_vars, NEW c \in Connectors
  PROVE  Restart \/ GoesOn(c) \/ \E k \in Elems(calls) : Opens(c, k) \/ Closes(c, k)
<1> USE DEF runVars, connVars
<1>1. reg[c] \in Nat /\ reg \in [Connectors -> Nat]
  BY BoundsAssumption DEF TypeOK, Wh
<1>2. ASSUME UNCHANGED <<txID, reg, store>> PROVE GoesOn(c)
  BY <1>1, <1>2 DEF GoesOn
<1>3. ASSUME NEW cs, Meter(cs), UNCHANGED txID, c \in cs => txID[c] # 0
      PROVE  GoesOn(c)
  <2>1. c \in cs => reg'[c] \in Sampled(c)
    BY <1>3 DEF Meter
  <2>2. c \notin cs => reg'[c] = reg[c]
    BY <1>3 DEF Meter
  <2>3. store'[c] = IF c \in cs /\ store[c] # NoRecord
                    THEN [store[c] EXCEPT !.lastWh = reg'[c]] ELSE store[c]
    BY <1>3 DEF Meter
  <2> QED
    BY <1>1, <1>3, <2>1, <2>2, <2>3 DEF GoesOn, Sampled
<1>4. CASE MeterTick
  <2>1. Meter({d \in Connectors : status[d] = "Charging" /\ txID[d] # 0}) /\ UNCHANGED txID
    BY <1>4 DEF MeterTick
  <2> QED
    BY <1>3, <2>1
<1>5. CASE TriggerMeter
  <2>1. PICK d \in Connectors : txID[d] # 0 /\ Meter({d})
    BY <1>5 DEF TriggerMeter
  <2> QED
    BY <1>3, <1>5, <2>1 DEF TriggerMeter
<1>6. ASSUME NEW d, NEW kind, SendStop(kind, d), txID[d] # 0, UNCHANGED txID
      PROVE  GoesOn(c)
  <2>1. PICK wh \in Sampled(d) : reg' = [reg EXCEPT ![d] = wh]
    BY <1>6 DEF SendStop
  <2>2. c = d => reg'[c] \in Sampled(c)
    BY <1>1, <2>1
  <2>3. c # d => reg'[c] = reg[c]
    BY <1>1, <2>1
  <2> QED
    BY <1>1, <1>6, <2>2, <2>3 DEF GoesOn, Sampled, SendStop
<1>7. CASE HandleCommand
  <2>1. CASE StopCharging
    BY <1>6, <2>1 DEF StopCharging, Take, Honoured
  <2>2. CASE EmergencyStop
    BY <1>2, <1>6, <2>2 DEF EmergencyStop
  <2> QED
    BY <1>2, <1>7, <2>1, <2>2
    DEF HandleCommand, StatusCommand, StartCharging, GoOffline, GoOnline, IgnoreCommand
<1>8. ASSUME NEW i \in DOMAIN calls, HandleReply(i)
      PROVE  GoesOn(c) \/ \E k \in Elems(calls) : Opens(c, k) \/ Closes(c, k)
  <2> DEFINE d == calls[i].conn
  <2>1. CASE StartAccepted(i)
    <3>1. /\ txID' = [txID EXCEPT ![d] = calls[i].tx] /\ reg' = [reg EXCEPT ![d] = calls[i].wh]
          /\ store' = [store EXCEPT ![d] =
                         [tx |-> calls[i].tx, startWh |-> calls[i].wh, lastWh |-> calls[i].wh]]
          /\ calls[i].kind = "StartTx" /\ calls[i].ans = "Accepted"
      BY <2>1 DEF StartAccepted, Put, Reply
    <3>2. c = d => Opens(c, calls[i])
      BY <3>1 DEF Opens, TypeOK
    <3>3. c # d => GoesOn(c)
      BY <1>1, <3>1 DEF GoesOn, TypeOK
    <3> QED
      BY <1>8, <3>2, <3>3, SettledElems
  <2>2. ASSUME NEW s, SessionClosed(i, s), calls[i].kind \in StopKinds, calls[i].ans = "Accepted"
        PROVE  GoesOn(c) \/ \E k \in Elems(calls) : Opens(c, k) \/ Closes(c, k)
    <3>1. c = d => Closes(c, calls[i])
      BY <2>2 DEF SessionClosed, Closes, TypeOK
    <3>2. c # d => GoesOn(c)
      BY <1>1, <2>2 DEF SessionClosed, GoesOn, TypeOK
    <3> QED
      BY <1>8, <3>1, <3>2, SettledElems
  <2>3. CASE StopConfirmed(i) \/ RecoveryConfirmed(i)
    BY <2>2, <2>3 DEF StopConfirmed, RecoveryConfirmed, Reply, StopKinds
  <2>4. CASE BootAccepted(i) \/ BootRefused(i) \/ AuthorizeAccepted(i) \/ StartRefused(i) \/ ErrorIgnored(i)
    <3>1. UNCHANGED <<txID, reg, store>>
      BY <2>4 DEF BootAccepted, BootRefused, OnlySettled, AuthorizeAccepted, StartRefused, ErrorIgnored
    <3> QED
      BY <1>2, <3>1
  <2> QED
    BY <1>8, <2>1, <2>3, <2>4 DEF HandleReply
<1>9. CASE HandleCall
  BY <1>2, <1>5, <1>9 DEF HandleCall, RemoteStart, RemoteStop, TriggerBoot, TriggerStatus
<1> QED
  BY <1>2, <1>4, <1>7, <1>8, <1>9
  DEF Next, RunConnect, RunConnectFails, RunReturns, InboundClosed, Reconnect, CmsAnswer,
      UserCommand, LinkDrop, vars

-----------------------------------------------------------------------------
(* Whose transaction is whose.  In every environment the transaction in a  *)
(* record, in an accepted start and in a stop is one the CMS has opened    *)
(* for the same connector, and a confirmed stop is one the CMS has seen.   *)

Owned(c, tx) == tx \in DOMAIN ledger /\ ledger[tx].conn = c

OwnCall(k) ==
  /\ k.kind = "StartTx" => IF k.ans = "Accepted" THEN Owned(k.conn, k.tx) ELSE k.tx = 0
  /\ k.kind \in StopKinds => Owned(k.conn, k.tx)
  /\ k.kind \in StopKinds /\ k.ans = "Accepted" => ledger[k.tx].stops # {}

LedgerInv ==
  /\ \A c \in Connectors : store[c] # NoRecord => Owned(c, store[c].tx)
  /\ \A k \in Elems(calls) : OwnCall(k)

\* Nothing is on disk and nothing is in flight at first.
LEMMA LedgerInit == Init => LedgerInv
  BY ElemsFew DEF Init, LedgerInv

\* The transaction a connector runs is one the CMS has opened for it.
LiveOwned == \A c \in Connectors : txID[c] # 0 => Owned(c, txID[c])

LEMMA LiveIsOwned == SessionInv /\ LedgerInv => LiveOwned
  BY DEF SessionInv, LiveTxPersisted, LedgerInv, NoRecord, LiveOwned

\* LedgerInv is inductive as long as the live transactions are owned ...
LEMMA OwnershipStep ==
  TypeOK /\ LiveOwned /\ LedgerInv /\ [Next]_vars => LedgerInv'
<1> SUFFICES ASSUME TypeOK, LiveOwned, LedgerInv, [Next]_vars
             PROVE  LedgerInv'
  OBVIOUS
<1>1. \A c, tx : Owned(c, tx) => Owned(c, tx)' /\ (ledger[tx].stops # {} => ledger'[tx].stops # {})
  BY LedgerGrows DEF Owned
<1>2. \A k : OwnCall(k) => OwnCall(k)'
  BY <1>1 DEF OwnCall
<1>3. ASSUME NEW c \in Connectors, store'[c] # NoRecord
      PROVE  Owned(c, store[c].tx)'
  <2>1. CASE Restart
    BY <1>1, <1>3, <2>1 DEF Restart, LedgerInv
  <2>2. CASE GoesOn(c)
    BY <1>1, <1>3, <2>2 DEF GoesOn, LedgerInv, TypeOK, Record
  <2>3. ASSUME NEW k \in Elems(calls), Opens(c, k)
        PROVE  Owned(c, store[c].tx)'
    BY <1>1, <2>3 DEF Opens, LedgerInv, OwnCall
  <2>4. ASSUME NEW k \in Elems(calls), Closes(c, k)
        PROVE  FALSE
    BY <1>3, <2>4 DEF Closes
  <2> QED
    BY <2>1, <2>2, <2>3, <2>4, SessionMoves
<1>4. \A c \in Connectors : txID[c] # 0 => Owned(c, txID[c])
  BY DEF LiveOwned
<1>5. ASSUME NEW k \in Elems(calls')
      PROVE  OwnCall(k)'
  <2>1. CASE k \in Elems(calls)
    BY <1>2, <2>1 DEF LedgerInv
  <2>2. CASE SentBy(k)
    <3>1. OwnCall(k)
      BY <1>4, <2>2
      DEF SentBy, OwnCall, LedgerInv, Boot, NewCall, RecoveryStop, Interrupted, StopKinds
    <3> QED
      BY <1>2, <3>1
  <2>3. ASSUME NEW i \in DOMAIN calls, CmsAnswer(i), k = calls'[i]
        PROVE  OwnCall(k)'
    <3>1. calls[i] \in Elems(calls) /\ OwnCall(calls[i]) /\ calls[i] \in Call
      BY <2>3, SettledElems DEF LedgerInv
    <3>2. CASE k.ans # "Accepted"
      BY <1>1, <2>3, <3>1, <3>2, Answered DEF OwnCall
    <3>3. CASE k.ans = "Accepted" /\ k.kind = "StartTx"
      <4>1. ledger' = Append(ledger, [conn |-> k.conn, start |-> k.wh, stops |-> {}])
            /\ k.tx = Len(ledger) + 1
        BY <2>3, <3>3, Answered DEF CmsAccept, StopKinds
      <4>2. [conn |-> k.conn, start |-> k.wh, stops |-> {}] \in Ledger
        BY <2>3, <3>1, <3>3, Answered DEF Ledger, Call
      <4>3. k.tx \in DOMAIN ledger' /\ ledger'[k.tx] = [conn |-> k.conn, start |-> k.wh, stops |-> {}]
        BY <4>1, <4>2, AppendProperties DEF TypeOK
      <4> QED
        BY <3>3, <4>3 DEF OwnCall, Owned, StopKinds
    <3>4. CASE k.ans = "Accepted" /\ k.kind \in StopKinds
      <4>1. ledger' = [ledger EXCEPT ![k.tx].stops = @ \cup {k.wh}]
            /\ Owned(k.conn, k.tx)
        BY <2>3, <3>1, <3>4, Answered DEF CmsAccept, StopKinds, OwnCall
      <4>2. k.tx \in DOMAIN ledger /\ ledger[k.tx] \in Ledger
        BY <4>1 DEF Owned, TypeOK
      <4>3. ledger'[k.tx] = [ledger[k.tx] EXCEPT !.stops = @ \cup {k.wh}]
        BY <4>1, <4>2 DEF TypeOK
      <4>4. ledger'[k.tx].stops = ledger[k.tx].stops \cup {k.wh}
        BY <4>2, <4>3 DEF Ledger
      <4> QED
        BY <1>1, <3>4, <4>1, <4>4 DEF OwnCall, StopKinds
    <3> QED
      BY <3>2, <3>3, <3>4 DEF OwnCall
  <2> QED
    BY <2>1, <2>2, <2>3, Origins
<1> QED
  BY <1>3, <1>5 DEF LedgerInv

\* ... which they are in every environment.
LEMMA LedgerStep ==
  SessionInv /\ LedgerInv /\ [Next]_vars => LedgerInv'
  BY LiveIsOwned, OwnershipStep DEF SessionInv

-----------------------------------------------------------------------------
(* What the CMS has been told.  If it confirms the stops of recovery, what *)
(* a connector shows on a live connection is announced, or the stop whose  *)
(* confirmation will announce it is in flight: a boot announces those      *)
(* without a transaction and stops the others, which are all on disk.      *)

RecoveryIsConfirmed == "StopPowerLoss" \notin CmsRefuses

AnnounceInv ==
  /\ loop = "dialing" => cpState = "Booting"
  /\ loop = "backoff" => cpState = "Reconnecting"
  /\ \A k \in Elems(calls) : k.kind = "StopPowerLoss" => k.ans \in {"none", "Accepted"}

Recovering(c) == Waits(c, {"StopPowerLoss"})
Told(c) == announced[c] = status[c] \/ Recovering(c)

\* Only the reply to a CALL, or the end of the connection, takes it out.
LEMMA KeptWaiting ==
  ASSUME TypeOK, NEW c, NEW kinds, Waits(c, kinds)
  PROVE  /\ \A n \in Seq(Call) : calls' = Sent(calls, n) => Waits(c, kinds)'
         /\ \A i \in DOMAIN calls, n \in Seq(Call) :
              /\ calls[i].kind \notin kinds \/ calls[i].conn # c
              /\ calls' = RemoveAt(calls, i) \/ calls' = Sent(RemoveAt(calls, i), n)
              => Waits(c, kinds)'
         /\ \A i \in DOMAIN calls : CmsAnswer(i) => Waits(c, kinds)'
<1>1. PICK k \in Elems(calls) : k.conn = c /\ k.kind \in kinds
  BY DEF Waits
<1>2. calls \in Seq(Call)
  BY DEF TypeOK
<1>3. ASSUME k \in Elems(calls') PROVE Waits(c, kinds)'
  BY <1>1, <1>3 DEF Waits
<1>4. \A n \in Seq(Call) : calls' = Sent(calls, n) => Waits(c, kinds)'
  BY <1>2, <1>3, ElemsSent
<1>5. ASSUME NEW i \in DOMAIN calls, NEW n \in Seq(Call),
             calls[i].kind \notin kinds \/ calls[i].conn # c,
             calls' = RemoveAt(calls, i) \/ calls' = Sent(RemoveAt(calls, i), n)
      PROVE  Waits(c, kinds)'
  <2>1. k \in Elems(RemoveAt(calls, i)) /\ RemoveAt(calls, i) \in Seq(Call)
    BY <1>1, <1>5, SettledElems
  <2>2. k \in Elems(Sent(RemoveAt(calls, i), n))
    BY <2>1, ElemsSent
  <2> QED
    BY <1>3, <1>5, <2>1, <2>2
<1>6. ASSUME NEW i \in DOMAIN calls, CmsAnswer(i)
      PROVE  Waits(c, kinds)'
  <2>1. PICK j \in DOMAIN calls : k = calls[j]
    BY DEF Elems
  <2>2. /\ DOMAIN calls' = DOMAIN calls /\ (j # i => calls'[j] = calls[j])
        /\ calls'[i].kind = calls[i].kind /\ calls'[i].conn = calls[i].conn
    BY <1>6, Answered DEF CmsAnswer, CmsAccept, CmsRefuse, TypeOK
  <2>3. calls'[j].kind \in kinds /\ calls'[j].conn = c /\ calls'[j] \in Elems(calls')
    BY <1>1, <2>1, <2>2 DEF Elems
  <2> QED
    BY <2>3 DEF Waits
<1> QED
  BY <1>4, <1>5, <1>6

\* AnnounceInv is inductive if the stops of recovery are confirmed.
LEMMA AnnounceInvStep ==
  RecoveryIsConfirmed /\ TypeOK /\ AnnounceInv /\ [Next]_vars => AnnounceInv'
<1> SUFFICES ASSUME RecoveryIsConfirmed, TypeOK, AnnounceInv, [Next]_vars
             PROVE  AnnounceInv'
  OBVIOUS
<1>1. ASSUME NEW k \in Elems(calls'), k.kind = "StopPowerLoss"
      PROVE  k.ans \in {"none", "Accepted"}
  <2>1. SentBy(k) => k.ans = "none"
    BY DEF SentBy, Boot, NewCall, RecoveryStop
  <2>2. ASSUME NEW i \in DOMAIN calls, CmsAnswer(i), k = calls'[i]
        PROVE  k.ans = "Accepted"
    BY <1>1, <2>2, Answered DEF CmsRefuse, RecoveryIsConfirmed
  <2> QED
    BY <1>1, <2>1, <2>2, Origins DEF AnnounceInv
<1>2. (loop' = "dialing" => cpState' = "Booting") /\ (loop' = "backoff" => cpState' = "Reconnecting")
  <2> USE DEF AnnounceInv, runVars
  <2>1. ASSUME NEW i \in DOMAIN calls, HandleReply(i)
        PROVE  loop' = "select"
    BY <2>1
    DEF HandleReply, BootAccepted, BootRefused, OnlySettled, AuthorizeAccepted, StartAccepted,
        StartRefused, ErrorIgnored, StopConfirmed, RecoveryConfirmed, SessionClosed, Reply, Listening
  <2>2. HandleCommand => loop' = "select"
    BY DEF HandleCommand, StatusCommand, PlugIn, Unplug, ClearFault, StartCharging, StopCharging,
           EmergencyStop, GoOffline, GoOnline, IgnoreCommand, Take
  <2>3. HandleCall => loop' = "select"
    BY DEF HandleCall, RemoteStart, RemoteStop, TriggerBoot, TriggerStatus, TriggerMeter, Listening
  <2> QED
    BY <2>1, <2>2, <2>3
    DEF Next, RunConnect, RunConnectFails, RunReturns, InboundClosed, Reconnect, MeterTick, CmsAnswer,
        UserCommand, LinkDrop, Restart, vars
<1> QED
  BY <1>1, <1>2 DEF AnnounceInv

\* No step leaves the CMS with a status it has not been told of.
LEMMA AnnouncedStep ==
  SessionInv /\ AnnounceInv /\ AnnouncedWhenOnline /\ [Next]_vars => AnnouncedWhenOnline'
<1> SUFFICES ASSUME TypeOK, LiveTxPersisted, AnnounceInv, AnnouncedWhenOnline, [Next]_vars,
                    cpState' = "Online", link' = "up",
                    NEW c \in Connectors
             PROVE  Told(c)'
  BY WaitsInFlight DEF AnnouncedWhenOnline, Told, Recovering, SessionInv, InFlight, Waits, Elems
<1> USE DEF runVars, connVars
<1>1. ASSUME UNCHANGED <<cpState, link>> PROVE Told(c)
  BY <1>1, WaitsInFlight DEF AnnouncedWhenOnline, Told, Recovering
<1>2. CASE UNCHANGED <<cpState, link, status, announced, calls>>
  BY <1>1, <1>2 DEF Told, Recovering, Waits
<1>3. ASSUME UNCHANGED <<cpState, link>>, NEW d, NEW s, Announce(d, s),
             Recovering(c) /\ c # d => Recovering(c)'
      PROVE  Told(c)'
  BY <1>1, <1>3 DEF Announce, Told, TypeOK
<1>4. ASSUME UNCHANGED <<cpState, link, status, announced>>, Recovering(c) => Recovering(c)'
      PROVE  Told(c)'
  BY <1>1, <1>4 DEF Told
<1>5. \A n \in Seq(Call) : Recovering(c) /\ calls' = Sent(calls, n) => Recovering(c)'
  BY KeptWaiting DEF Recovering
<1>6. ASSUME NEW i \in DOMAIN calls, HandleReply(i)
      PROVE  Told(c)'
  <2> DEFINE d == calls[i].conn
  <2>1. ASSUME NEW n \in Seq(Call), calls[i].kind # "StopPowerLoss" \/ d # c,
               calls' = RemoveAt(calls, i) \/ calls' = Sent(RemoveAt(calls, i), n)
        PROVE  Recovering(c) => Recovering(c)'
    <3>1. SUFFICES ASSUME Waits(c, {"StopPowerLoss"})
                   PROVE  Waits(c, {"StopPowerLoss"})'
      BY DEF Recovering
    <3>2. calls[i].kind \notin {"StopPowerLoss"} \/ calls[i].conn # c
      BY <2>1
    <3> QED
      BY <1>6, <2>1, <3>1, <3>2, KeptWaiting
  <2>2. <<>> \in Seq(Call)
    OBVIOUS
  <2>3. CASE BootAccepted(i)
    <3>1. PICK order \in SetToSeqs(Interrupted) :
            calls' = Sent(RemoveAt(calls, i), [j \in DOMAIN order |-> RecoveryStop(order[j])])
      BY <2>3 DEF BootAccepted
    <3>2. link = "up" /\ announced' = Reannounced /\ UNCHANGED status
      BY <2>3 DEF BootAccepted
    <3>3. CASE txID[c] = 0
      BY <3>2, <3>3 DEF Reannounced, Told
    <3>4. CASE txID[c] # 0
      <4>1. c \in Interrupted
        BY <3>4 DEF LiveTxPersisted, Interrupted, NoRecord
      <4>2. RecoveryStop(c) \in Elems(calls')
        BY <1>6, <3>1, <3>2, <4>1, RecoveryElems, SettledElems, ElemsSent
      <4>3. RecoveryStop(c).conn = c /\ RecoveryStop(c).kind = "StopPowerLoss"
        BY DEF RecoveryStop, NewCall
      <4>4. Recovering(c)'
        BY <4>2, <4>3 DEF Recovering, Waits
      <4> QED
        BY <4>4 DEF Told
    <3> QED
      BY <3>3, <3>4
  <2>4. CASE BootRefused(i) \/ StartRefused(i)
    <3>1. /\ UNCHANGED <<cpState, link, status, announced>> /\ calls' = RemoveAt(calls, i)
          /\ calls[i].kind # "StopPowerLoss"
      BY <2>4 DEF BootRefused, OnlySettled, StartRefused, Reply, HandshakeKinds
    <3> QED
      BY <1>4, <2>1, <2>2, <3>1
  <2>5. CASE AuthorizeAccepted(i)
    <3>1. /\ UNCHANGED <<cpState, link, status, announced>> /\ calls[i].kind = "Authorize"
          /\ calls' = Sent(RemoveAt(calls, i), <<NewCall("StartTx", d, 0, reg[d])>>)
      BY <2>5 DEF AuthorizeAccepted, Reply, MeterStart
    <3>2. d \in Connectors /\ reg[d] \in Wh
      BY <1>6, <3>1, SettledElems DEF Call, TypeOK
    <3>3. <<NewCall("StartTx", d, 0, reg[d])>> \in Seq(Call)
      BY <3>2, CallTypes DEF HandshakeKinds
    <3> QED
      BY <1>4, <2>1, <3>1, <3>3
  <2>6. CASE StartAccepted(i)
    <3>1. /\ UNCHANGED <<cpState, link>> /\ Announce(d, "Charging") /\ calls' = RemoveAt(calls, i)
          /\ calls[i].kind # "StopPowerLoss"
      BY <2>6 DEF StartAccepted, Reply
    <3> QED
      BY <1>3, <2>1, <2>2, <3>1
  <2>7. CASE ErrorIgnored(i)
    <3>1. /\ UNCHANGED <<cpState, link, status, announced>> /\ calls' = RemoveAt(calls, i)
          /\ calls[i].ans = "Error"
      BY <2>7 DEF ErrorIgnored, OnlySettled, Reply
    <3>2. calls[i].kind # "StopPowerLoss"
      BY <1>6, <3>1, SettledElems DEF AnnounceInv
    <3> QED
      BY <1>4, <2>1, <2>2, <3>1, <3>2
  <2>8. CASE StopConfirmed(i) \/ RecoveryConfirmed(i)
    <3>1. PICK s : SessionClosed(i, s)
      BY <2>8 DEF StopConfirmed, RecoveryConfirmed
    <3>2. UNCHANGED <<cpState, link>> /\ Announce(d, s) /\ calls' = RemoveAt(calls, i)
      BY <3>1 DEF SessionClosed
    <3> QED
      BY <1>3, <2>1, <2>2, <3>2
  <2> QED
    BY <1>6, <2>3, <2>4, <2>5, <2>6, <2>7, <2>8 DEF HandleReply
<1>7. ASSUME NEW i \in DOMAIN calls, CmsAnswer(i)
      PROVE  Told(c)'
  <2>1. UNCHANGED <<cpState, link, status, announced>>
    BY <1>7 DEF CmsAnswer
  <2> QED
    BY <1>4, <1>7, <2>1, KeptWaiting DEF Recovering
<1>8. CASE HandleCommand
  <2> DEFINE d == Head(cmdCh).conn
  <2>1. CASE StatusCommand
    <3>1. PICK s : Announce(d, s)
      BY <2>1 DEF StatusCommand, PlugIn, Unplug, ClearFault
    <3>2. UNCHANGED <<cpState, link, calls>>
      BY <2>1 DEF StatusCommand
    <3> QED
      BY <1>3, <3>1, <3>2 DEF Recovering, Waits
  <2>2. CASE StartCharging
    <3>1. d \in Connectors
      BY <2>2, TakenConnector DEF StartCharging, ConnectorOps
    <3>2. UNCHANGED <<cpState, link, status, announced>> /\ calls' = Sent(calls, <<NewCall("Authorize", d, 0, 0)>>)
      BY <2>2 DEF StartCharging
    <3>3. <<NewCall("Authorize", d, 0, 0)>> \in Seq(Call)
      BY <3>1, CallTypes, BoundsAssumption DEF HandshakeKinds, Wh
    <3> QED
      BY <1>4, <1>5, <3>2, <3>3
  <2>3. ASSUME NEW kind \in StopKinds, NEW op \in ConnectorOps, Take(op), SendStop(kind, d),
               UNCHANGED <<cpState, link>>
        PROVE  Told(c)'
    <3>1. d \in Connectors /\ Announce(d, "Finishing")
      BY <2>3, TakenConnector DEF SendStop
    <3>2. PICK n \in Seq(Call) : calls' = Sent(calls, n)
      BY <2>3, <3>1, SendStopTypes
    <3> QED
      BY <1>3, <1>5, <2>3, <3>1, <3>2
  <2>4. CASE StopCharging
    BY <2>3, <2>4 DEF StopCharging, StopKinds, ConnectorOps
  <2>5. CASE EmergencyStop
    <3>1. CASE txID[d] # 0
      BY <2>3, <2>5, <3>1 DEF EmergencyStop, StopKinds, ConnectorOps
    <3>2. CASE txID[d] = 0
      <4>1. Announce(d, "Faulted") /\ UNCHANGED <<cpState, link, calls>>
        BY <2>5, <3>2 DEF EmergencyStop
      <4> QED
        BY <1>3, <4>1 DEF Recovering, Waits
    <3> QED
      BY <3>1, <3>2
  <2>6. CASE GoOnline
    BY <1>2, <2>6 DEF GoOnline
  <2> QED
    BY <1>2, <1>8, <2>1, <2>2, <2>4, <2>5, <2>6 DEF HandleCommand, GoOffline, IgnoreCommand
<1>9. CASE HandleCall
  <2>1. CASE TriggerBoot
    BY <1>4, <1>5, <2>1, CallTypes DEF TriggerBoot
  <2>2. CASE TriggerStatus
    <3>1. PICK d \in Connectors : Announce(d, status[d])
      BY <2>2 DEF TriggerStatus
    <3> QED
      BY <1>3, <2>2, <3>1 DEF TriggerStatus, Recovering, Waits
  <2> QED
    BY <1>2, <1>9, <2>1, <2>2 DEF HandleCall, RemoteStart, RemoteStop, TriggerMeter
<1>10. CASE RunConnect \/ Reconnect
  BY <1>10 DEF RunConnect, Reconnect, AnnounceInv
<1>11. CASE InboundClosed
  BY <1>11 DEF InboundClosed
<1> QED
  BY <1>2, <1>6, <1>7, <1>8, <1>9, <1>10, <1>11
  DEF Next, RunConnectFails, RunReturns, MeterTick, UserCommand, LinkDrop, Restart, vars

\* charger.go:612-639, 908-916: if the CMS confirms the stops of recovery, it
\* has been told what each connector of an online charger shows, or is about to
\* be, in spite of drops, restarts, lost and late replies and racing requests.
THEOREM AnnouncedOnceOnline ==
  ASSUME RecoveryIsConfirmed
  PROVE  Spec => []AnnouncedWhenOnline
<1> DEFINE I == SessionInv /\ AnnounceInv /\ AnnouncedWhenOnline
<1>1. Init => I
  BY SessionInit, ElemsFew DEF Init, AnnounceInv, AnnouncedWhenOnline
<1>2. I /\ [Next]_vars => I'
  BY SessionInvStep, AnnounceInvStep, AnnouncedStep DEF SessionInv
<1>3. I => AnnouncedWhenOnline
  OBVIOUS
<1> QED
  BY <1>1, <1>2, <1>3, PTL DEF Spec

-----------------------------------------------------------------------------
(* Start handshakes.  The guard of canStartCharging keeps a second one of a *)
(* connector out, as long as nothing lowers it before the handshake ends.   *)

OneStart(q) ==
  \A i, j \in DOMAIN q :
    q[i].kind \in HandshakeKinds /\ q[j].kind \in HandshakeKinds /\ q[i].conn = q[j].conn => i = j

Guarded == \A c \in Connectors : Waits(c, HandshakeKinds) => startPending[c]

\* Settling a start leaves none of its connector.
LEMMA OneStartRemove ==
  ASSUME NEW s \in Seq(Call), NEW i \in DOMAIN s, OneStart(s)
  PROVE  /\ OneStart(RemoveAt(s, i))
         /\ s[i].kind \in HandshakeKinds =>
              \A k \in Elems(RemoveAt(s, i)) : k.kind \in HandshakeKinds => k.conn # s[i].conn
<1> DEFINE old(j) == IF j < i THEN j ELSE j + 1
<1>1. /\ DOMAIN RemoveAt(s, i) = 1 .. Len(s) - 1 /\ DOMAIN s = 1 .. Len(s) /\ Len(s) \in Nat
      /\ \A j \in 1 .. Len(s) - 1 : RemoveAt(s, i)[j] = s[old(j)]
  BY RemoveAtProperties
<1>2. \A j \in DOMAIN RemoveAt(s, i) : old(j) \in DOMAIN s /\ old(j) # i
  BY <1>1
<1>3. \A j, k \in DOMAIN RemoveAt(s, i) : old(j) = old(k) => j = k
  BY <1>1
<1>4. \A j \in DOMAIN RemoveAt(s, i) : RemoveAt(s, i)[j] = s[old(j)]
  BY <1>1
<1> HIDE DEF old
<1> QED
  BY <1>2, <1>3, <1>4 DEF OneStart, Elems

\* Where the elements of a queue that was sent to come from.
LEMMA SentIndex ==
  ASSUME NEW w \in Seq(Call), NEW n \in Seq(Call), NEW j \in DOMAIN Sent(w, n)
  PROVE  /\ w \in Seq(Call) /\ Len(w) \in Nat /\ DOMAIN w = 1 .. Len(w) /\ j \in Nat
         /\ \/ j \in DOMAIN w /\ Sent(w, n)[j] = w[j]
            \/ j > Len(w) /\ j - Len(w) \in DOMAIN n /\ Sent(w, n)[j] = n[j - Len(w)]
<1>1. /\ Len(w) \in Nat /\ Len(n) \in Nat /\ DOMAIN w = 1 .. Len(w) /\ DOMAIN n = 1 .. Len(n)
      /\ DOMAIN (w \o n) = 1 .. Len(w) + Len(n)
      /\ \A l \in 1 .. Len(w) : (w \o n)[l] = w[l]
      /\ \A l \in 1 .. Len(w) + Len(n) : l > Len(w) => (w \o n)[l] = n[l - Len(w)]
  BY ConcatProperties
<1> QED
  BY <1>1 DEF Sent

\* Sending keeps one start per connector if what is sent adds no second.
LEMMA OneStartSent ==
  ASSUME NEW w \in Seq(Call), NEW n \in Seq(Call), OneStart(w), OneStart(n),
         \A k \in Elems(w), l \in Elems(n) :
           k.kind \in HandshakeKinds /\ l.kind \in HandshakeKinds => k.conn # l.conn
  PROVE  OneStart(Sent(w, n))
<1> SUFFICES ASSUME NEW i \in DOMAIN Sent(w, n), NEW j \in DOMAIN Sent(w, n),
                    Sent(w, n)[i].kind \in HandshakeKinds, Sent(w, n)[j].kind \in HandshakeKinds,
                    Sent(w, n)[i].conn = Sent(w, n)[j].conn
             PROVE  i = j
  BY DEF OneStart
<1>1. \/ i \in DOMAIN w /\ Sent(w, n)[i] = w[i]
      \/ i > Len(w) /\ i - Len(w) \in DOMAIN n /\ Sent(w, n)[i] = n[i - Len(w)]
  BY SentIndex
<1>2. \/ j \in DOMAIN w /\ Sent(w, n)[j] = w[j]
      \/ j > Len(w) /\ j - Len(w) \in DOMAIN n /\ Sent(w, n)[j] = n[j - Len(w)]
  BY SentIndex
<1>3. i \in Nat /\ j \in Nat /\ Len(w) \in Nat
  BY SentIndex
<1>4. i - Len(w) = j - Len(w) => i = j
  BY <1>3
<1> QED
  BY <1>1, <1>2, <1>4 DEF OneStart, Elems

\* What a CALL is about does not change with its answer.
LEMMA SameAnswered ==
  ASSUME TypeOK, NEW i \in DOMAIN calls, CmsAnswer(i)
  PROVE  /\ DOMAIN calls' = DOMAIN calls
         /\ \A j \in DOMAIN calls : calls'[j].kind = calls[j].kind /\ calls'[j].conn = calls[j].conn
         /\ \A j \in DOMAIN calls : j # i => calls'[j] = calls[j]
<1>1. DOMAIN calls' = DOMAIN calls /\ \A j \in DOMAIN calls : j # i => calls'[j] = calls[j]
  BY DEF CmsAnswer, CmsAccept, CmsRefuse, TypeOK
<1>2. calls'[i].kind = calls[i].kind /\ calls'[i].conn = calls[i].conn
  BY Answered
<1> QED
  BY <1>1, <1>2

\* An answer adds nothing to what waits.
LEMMA WaitsAnswered ==
  ASSUME TypeOK, NEW i \in DOMAIN calls, CmsAnswer(i), NEW c, NEW kinds, Waits(c, kinds)'
  PROVE  Waits(c, kinds)
  BY SameAnswered DEF Waits, Elems

\* The handshakes of a connector only go on, but for the start the guard lets
\* through, and end with the reply of StartTransaction or with a refusal.
LEMMA StartMoves ==
  ASSUME TypeOK, [Next]_vars, NEW c \in Connectors, Waits(c, HandshakeKinds)'
  PROVE  Waits(c, HandshakeKinds) \/ Starts(c)
<1>1. PICK k \in Elems(calls') : k.conn = c /\ k.kind \in HandshakeKinds
  BY DEF Waits
<1>2. CASE k \in Elems(calls)
  BY <1>1, <1>2 DEF Waits
<1>3. CASE SentBy(k)
  <2>1. k = Boot => k.kind \notin HandshakeKinds
    BY DEF Boot, NewCall, HandshakeKinds
  <2>2. ASSUME NEW d \in Connectors, k = NewCall("Authorize", d, 0, 0), Starts(d)
        PROVE  Starts(c)
    BY <1>1, <2>2 DEF NewCall
  <2>3. ASSUME NEW d \in Connectors, k = NewCall("StartTx", d, 0, reg[d]), Waits(d, {"Authorize"})
        PROVE  Waits(c, HandshakeKinds)
    BY <1>1, <2>3 DEF NewCall, Waits, HandshakeKinds
  <2>4. \A kind \in {"StopLocal", "StopEmergency"} : \A d, tx, wh :
          k = NewCall(kind, d, tx, wh) => k.kind \notin HandshakeKinds
    BY DEF NewCall, HandshakeKinds
  <2>5. \A d : k = RecoveryStop(d) => k.kind \notin HandshakeKinds
    BY DEF RecoveryStop, NewCall, HandshakeKinds
  <2> QED
    BY <1>1, <1>3, <2>1, <2>2, <2>3, <2>4, <2>5 DEF SentBy
<1>4. ASSUME NEW i \in DOMAIN calls, CmsAnswer(i)
      PROVE  Waits(c, HandshakeKinds)
  BY <1>4, WaitsAnswered
<1> QED
  BY <1>2, <1>3, <1>4, Origins

\* The reply of a StartTransaction, or a refusal, ends the handshake.
LEMMA StartResolved ==
  ASSUME TypeOK, OneStart(calls), NEW i \in DOMAIN calls, NEW c, calls[i].conn = c,
         StartAccepted(i) \/ StartRefused(i)
  PROVE  /\ calls[i].kind \in HandshakeKinds /\ calls' = RemoveAt(calls, i)
         /\ Waits(c, HandshakeKinds) /\ ~Waits(c, HandshakeKinds)'
<1>1. calls[i].kind \in HandshakeKinds /\ calls' = RemoveAt(calls, i)
  BY DEF StartAccepted, StartRefused, Reply, HandshakeKinds
<1>2. calls[i] \in Elems(calls)
  BY DEF Elems
<1>3. \A k \in Elems(calls') : k.kind \in HandshakeKinds => k.conn # c
  BY <1>1, OneStartRemove DEF TypeOK
<1> QED
  BY <1>1, <1>2, <1>3 DEF Waits

\* The guard, while it is up, keeps a second start out.
LEMMA OneStartStep ==
  TypeOK /\ OneStart(calls) /\ Guarded /\ [Next]_vars => OneStart(calls')
<1> SUFFICES ASSUME TypeOK, OneStart(calls), Guarded, [Next]_vars
             PROVE  OneStart(calls')
  OBVIOUS
<1> USE DEF runVars
<1>1. calls \in Seq(Call)
  BY DEF TypeOK
<1>2. CASE UNCHANGED calls
  BY <1>2
<1>3. OneStart(<<>>) /\ OneStart(<<Boot>>) /\ \A k : OneStart(<<k>>)
  BY DEF OneStart
<1>4. \A n \in Seq(Call) :
        OneStart(n) /\ (\A k \in Elems(n) : k.kind \notin HandshakeKinds) => OneStart(Sent(calls, n))
  BY <1>1, OneStartSent
<1>5. Boot.kind \notin HandshakeKinds /\ <<Boot>> \in Seq(Call)
  BY CallTypes DEF Boot, NewCall, HandshakeKinds
<1>6. CASE calls' = Append(calls, Boot)
  <2>1. \A j \in DOMAIN calls' :
          (j \in DOMAIN calls /\ calls'[j] = calls[j]) \/ calls'[j] = Boot
    BY <1>1, <1>6, CallTypes, AppendProperties
  <2> QED
    BY <1>5, <2>1 DEF OneStart
<1>7. CASE calls' = Sent(calls, <<Boot>>)
  BY <1>3, <1>4, <1>5, <1>7, ElemsFew
<1>8. ASSUME NEW i \in DOMAIN calls, HandleReply(i)
      PROVE  OneStart(calls')
  <2>1. OneStart(RemoveAt(calls, i)) /\ RemoveAt(calls, i) \in Seq(Call)
    BY <1>1, OneStartRemove, RemoveAtProperties
  <2>2. CASE BootAccepted(i)
    <3>1. PICK order \in SetToSeqs(Interrupted) :
            calls' = Sent(RemoveAt(calls, i), [j \in DOMAIN order |-> RecoveryStop(order[j])])
      BY <2>2 DEF BootAccepted
    <3> DEFINE n == [j \in DOMAIN order |-> RecoveryStop(order[j])]
    <3>2. n \in Seq(Call) /\ Elems(n) = {RecoveryStop(d) : d \in Interrupted}
      BY RecoveryElems
    <3>3. \A k \in Elems(n) : k.kind \notin HandshakeKinds
      BY <3>2 DEF RecoveryStop, NewCall, HandshakeKinds
    <3> HIDE DEF n
    <3>4. OneStart(n)
      BY <3>3 DEF OneStart, Elems
    <3>5. calls' = Sent(RemoveAt(calls, i), n)
      BY <3>1 DEF n
    <3> QED
      BY <2>1, <3>2, <3>3, <3>4, <3>5, OneStartSent
  <2>3. CASE AuthorizeAccepted(i)
    <3> DEFINE c == calls[i].conn
               x == NewCall("StartTx", c, 0, reg[c])
    <3>1. /\ calls' = Sent(RemoveAt(calls, i), <<x>>)
          /\ calls[i].kind \in HandshakeKinds /\ calls[i].kind # "Boot"
      BY <2>3 DEF AuthorizeAccepted, MeterStart, Reply, HandshakeKinds
    <3>2. c \in Connectors /\ reg[c] \in Wh
      BY <1>1, <3>1, SettledElems DEF Call, TypeOK
    <3>3. x.conn = c
      BY DEF NewCall
    <3>4. <<x>> \in Seq(Call)
      BY <3>2, CallTypes DEF HandshakeKinds
    <3>5. \A k \in Elems(RemoveAt(calls, i)) : k.kind \in HandshakeKinds => k.conn # c
      BY <1>1, <3>1, OneStartRemove
    <3> HIDE DEF x, c
    <3>6. \A k \in Elems(RemoveAt(calls, i)), l \in Elems(<<x>>) :
            k.kind \in HandshakeKinds /\ l.kind \in HandshakeKinds => k.conn # l.conn
      BY <3>3, <3>5, ElemsFew
    <3>7. OneStart(Sent(RemoveAt(calls, i), <<x>>))
      BY <1>3, <2>1, <3>4, <3>6, OneStartSent
    <3> QED
      BY <3>1, <3>7
  <2>4. CASE calls' = RemoveAt(calls, i)
    BY <2>1, <2>4
  <2> QED
    BY <1>8, <2>2, <2>3, <2>4
    DEF HandleReply, BootRefused, OnlySettled, StartAccepted, StartRefused, ErrorIgnored,
        StopConfirmed, RecoveryConfirmed, SessionClosed
<1>9. ASSUME NEW i \in DOMAIN calls, CmsAnswer(i)
      PROVE  OneStart(calls')
  BY <1>9, SameAnswered DEF OneStart
<1>10. CASE StartCharging
  <2> DEFINE c == Head(cmdCh).conn
             x == NewCall("Authorize", c, 0, 0)
  <2>1. c \in Connectors /\ calls' = Sent(calls, <<x>>) /\ ~startPending[c]
    BY <1>10, TakenConnector DEF StartCharging, ConnectorOps, Take, Honoured, CanStart
  <2>2. x.conn = c /\ <<x>> \in Seq(Call)
    BY <2>1, CallTypes, BoundsAssumption DEF HandshakeKinds, Wh, NewCall
  <2>3. \A k \in Elems(calls) : k.kind \in HandshakeKinds => k.conn # c
    BY <2>1 DEF Guarded, Waits
  <2> HIDE DEF x, c
  <2> QED
    BY <1>1, <1>3, <2>1, <2>2, <2>3, OneStartSent, ElemsFew
<1>11. ASSUME NEW kind \in StopKinds, NEW op \in ConnectorOps, Take(op), SendStop(kind, Head(cmdCh).conn)
       PROVE  OneStart(calls')
  <2> DEFINE c == Head(cmdCh).conn
  <2>1. PICK wh \in Wh : calls' = Sent(calls, <<NewCall(kind, c, txID[c], wh)>>)
    BY <1>11, TakenConnector, SendStopTypes
  <2>2. c \in Connectors /\ txID[c] \in Nat
    BY <1>11, TakenConnector DEF TypeOK
  <2>3. <<NewCall(kind, c, txID[c], wh)>> \in Seq(Call) /\ NewCall(kind, c, txID[c], wh).kind \notin HandshakeKinds
    BY <1>11, <2>1, <2>2, CallTypes DEF StopKinds, HandshakeKinds, NewCall
  <2> QED
    BY <1>3, <1>4, <2>1, <2>3, ElemsFew
<1>12. CASE HandleCommand
  <2>1. StopCharging => OneStart(calls')
    BY <1>11 DEF StopCharging, StopKinds, ConnectorOps
  <2>2. EmergencyStop => OneStart(calls')
    BY <1>2, <1>11 DEF EmergencyStop, StopKinds, ConnectorOps
  <2> QED
    BY <1>2, <1>3, <1>6, <1>10, <1>12, <2>1, <2>2
    DEF HandleCommand, StatusCommand, GoOffline, GoOnline, IgnoreCommand
<1>13. CASE HandleCall
  BY <1>2, <1>7, <1>13 DEF HandleCall, RemoteStart, RemoteStop, TriggerBoot, TriggerStatus, TriggerMeter
<1> QED
  BY <1>2, <1>3, <1>6, <1>8, <1>9, <1>12, <1>13
  DEF Next, RunConnect, RunConnectFails, RunReturns, InboundClosed, Reconnect, MeterTick, UserCommand,
      LinkDrop, Restart, vars
-----------------------------------------------------------------------------
(* With a patient operator, and no CMS that starts on its own, a handshake  *)
(* runs on a connector with no session, in memory or on disk, and no stop   *)
(* in flight, whatever else the operator does meanwhile.  A start that is   *)
(* queued is the next command, and finds its connector as it was given.     *)

PatientStarts == Patient /\ "RemoteStart" \notin RemoteOps

Free(c) == store[c] = NoRecord /\ ~Waits(c, StopKinds)
Commanded(c) == \E j \in DOMAIN cmdCh : cmdCh[j].conn = c /\ cmdCh[j].op = "StartCharging"
StartFirst == \A j \in DOMAIN cmdCh : cmdCh[j].op = "StartCharging" => j = 1

PatientOf(c) ==
  /\ Waits(c, HandshakeKinds) => txID[c] = 0 /\ startPending[c] /\ Free(c)
  /\ Commanded(c) => /\ ~Waits(c, HandshakeKinds) /\ store[c].tx = txID[c]
                     /\ status[c] = "Preparing" => Free(c)

PatientInv ==
  OneStart(calls) /\ StartFirst /\ \A c \in Connectors : PatientOf(c)

\* Taking a command leaves no start behind it.
LEMMA CommandsTail ==
  ASSUME TypeOK, StartFirst, cmdCh # <<>>, cmdCh' = Tail(cmdCh)
  PROVE  /\ StartFirst' /\ \A c : ~Commanded(c)'
         /\ Head(cmdCh).op = "StartCharging" => Commanded(Head(cmdCh).conn)
<1>1. /\ DOMAIN cmdCh = 1 .. Len(cmdCh) /\ DOMAIN cmdCh' = 1 .. Len(cmdCh) - 1 /\ Len(cmdCh) \in Nat
      /\ \A j \in 1 .. Len(cmdCh) - 1 : cmdCh'[j] = cmdCh[j + 1]
      /\ Head(cmdCh) = cmdCh[1] /\ Len(cmdCh) >= 1
  BY DEF TypeOK
<1>2. \A j \in DOMAIN cmdCh' : j + 1 \in DOMAIN cmdCh /\ j + 1 # 1 /\ cmdCh'[j] = cmdCh[j + 1]
  BY <1>1
<1>3. \A j \in DOMAIN cmdCh' : cmdCh'[j].op # "StartCharging"
  BY <1>2 DEF StartFirst
<1>4. 1 \in DOMAIN cmdCh
  BY <1>1
<1> QED
  BY <1>1, <1>3, <1>4 DEF StartFirst, Commanded

\* A command that is offered is the last one, or dropped.
LEMMA CommandsOffered ==
  ASSUME TypeOK, StartFirst, NEW k \in Command, Offer(k),
         k.op = "StartCharging" => cmdCh = <<>>
  PROVE  /\ StartFirst'
         /\ \A c : Commanded(c)' => Commanded(c) \/ (k.op = "StartCharging" /\ c = k.conn)
<1>1. CASE cmdCh' = cmdCh
  BY <1>1 DEF StartFirst, Commanded
<1>2. CASE cmdCh' = Append(cmdCh, k)
  <2>1. /\ DOMAIN cmdCh = 1 .. Len(cmdCh) /\ DOMAIN cmdCh' = 1 .. Len(cmdCh) + 1 /\ Len(cmdCh) \in Nat
        /\ \A j \in 1 .. Len(cmdCh) : cmdCh'[j] = cmdCh[j]
        /\ cmdCh'[Len(cmdCh) + 1] = k
    BY <1>2, AppendProperties DEF TypeOK
  <2>2. \A j \in DOMAIN cmdCh' : (j \in DOMAIN cmdCh /\ cmdCh'[j] = cmdCh[j]) \/ (j = Len(cmdCh) + 1 /\ cmdCh'[j] = k)
    BY <2>1
  <2>3. cmdCh = <<>> => Len(cmdCh) + 1 = 1
    OBVIOUS
  <2> QED
    BY <2>2, <2>3 DEF StartFirst, Commanded
<1> QED
  BY <1>1, <1>2 DEF Offer

\* A step that is not about c.
LEMMA PatientSame ==
  ASSUME NEW c \in Connectors, PatientOf(c),
         status'[c] = status[c], startPending'[c] = startPending[c], txID'[c] = txID[c],
         store'[c] = store[c] \/ (store[c] # NoRecord /\ store'[c].tx = store[c].tx),
         Waits(c, HandshakeKinds)' => Waits(c, HandshakeKinds),
         Waits(c, StopKinds)' => Waits(c, StopKinds) \/ store[c] # NoRecord,
         Commanded(c)' => Commanded(c)
  PROVE  PatientOf(c)'
  BY DEF PatientOf, Free
\* What adds a CALL about c of one of these kinds.
LEMMA NotWaiting ==
  ASSUME TypeOK, NEW c \in Connectors, NEW kinds, Waits(c, kinds)'
  PROVE  /\ calls' # <<>> /\ calls' # <<Boot>>
         /\ calls' = calls \/ calls' = Append(calls, Boot) \/ calls' = Sent(calls, <<Boot>>)
              => Waits(c, kinds)
         /\ \A i \in DOMAIN calls : calls' = RemoveAt(calls, i) => Waits(c, kinds)
         /\ \A x : <<x>> \in Seq(Call) /\ calls' = Sent(calls, <<x>>) =>
              Waits(c, kinds) \/ (x.conn = c /\ x.kind \in kinds)
<1>1. PICK k \in Elems(calls') : k.conn = c /\ k.kind \in kinds
  BY DEF Waits
<1>2. k # Boot
  BY <1>1, ConnectorsAssumption DEF Boot, NewCall
<1>3. calls \in Seq(Call) /\ <<Boot>> \in Seq(Call)
  BY CallTypes DEF TypeOK
<1>4. k \in Elems(calls) => Waits(c, kinds)
  BY <1>1 DEF Waits
<1>5. calls' # <<>> /\ calls' # <<Boot>>
  BY <1>1, <1>2, ElemsFew
<1>6. ASSUME NEW x, <<x>> \in Seq(Call), calls' = Sent(calls, <<x>>)
      PROVE  k \in Elems(calls) \/ k = x
  <2>1. k \in Elems(calls) \cup Elems(<<x>>)
    BY <1>1, <1>3, <1>6, ElemsSent
  <2> QED
    BY <2>1, ElemsFew
<1>7. calls' = Append(calls, Boot) => k \in Elems(calls)
  BY <1>1, <1>2, <1>3, ElemsBoot
<1>8. calls' = calls \/ calls' = Append(calls, Boot) \/ calls' = Sent(calls, <<Boot>>) => k \in Elems(calls)
  BY <1>1, <1>2, <1>3, <1>6, <1>7
<1>9. \A i \in DOMAIN calls : calls' = RemoveAt(calls, i) => k \in Elems(calls)
  BY <1>1, SettledElems
<1> QED
  BY <1>1, <1>4, <1>5, <1>6, <1>8, <1>9

\* A reply changes only what it is about.
LEMMA PatientReply ==
  ASSUME TypeOK, OneStart(calls), NEW c \in Connectors, PatientOf(c),
         NEW i \in DOMAIN calls, HandleReply(i)
  PROVE  PatientOf(c)'
<1> USE DEF connVars
<1> DEFINE d == calls[i].conn
<1>1. UNCHANGED cmdCh
  BY DEF HandleReply, BootAccepted, BootRefused, OnlySettled, AuthorizeAccepted, StartAccepted,
         StartRefused, ErrorIgnored, StopConfirmed, RecoveryConfirmed, SessionClosed
<1>2. Commanded(c)' = Commanded(c)
  BY <1>1 DEF Commanded
<1>3. calls \in Seq(Call) /\ calls[i] \in Elems(calls) /\ calls[i] \in Call
  BY SettledElems DEF TypeOK
<1>4. ASSUME calls' = RemoveAt(calls, i), status'[c] = status[c], startPending'[c] = startPending[c],
             txID'[c] = txID[c], store'[c] = store[c]
      PROVE  PatientOf(c)'
  BY <1>2, <1>4, NotWaiting, PatientSame
<1>5. CASE BootAccepted(i)
  <2>1. UNCHANGED <<status, startPending, txID, store>>
    BY <1>5 DEF BootAccepted
  <2>2. PICK order \in SetToSeqs(Interrupted) :
          calls' = Sent(RemoveAt(calls, i), [j \in DOMAIN order |-> RecoveryStop(order[j])])
    BY <1>5 DEF BootAccepted
  <2>3. \A k \in Elems(calls') : k \in Elems(calls) \/ \E e \in Interrupted : k = RecoveryStop(e)
    BY <2>2, RecoveryElems, SettledElems, ElemsSent
  <2>4. \A e \in Interrupted : /\ store[e] # NoRecord /\ RecoveryStop(e).conn = e
                               /\ RecoveryStop(e).kind \notin HandshakeKinds
    BY DEF RecoveryStop, NewCall, HandshakeKinds, Interrupted
  <2>5. /\ Waits(c, HandshakeKinds)' => Waits(c, HandshakeKinds)
        /\ Waits(c, StopKinds)' => Waits(c, StopKinds) \/ store[c] # NoRecord
    BY <2>3, <2>4 DEF Waits
  <2> QED
    BY <1>2, <2>1, <2>5, PatientSame
<1>6. CASE AuthorizeAccepted(i)
  <2> DEFINE x == NewCall("StartTx", d, 0, reg[d])
  <2>1. /\ UNCHANGED <<status, startPending, txID, store>>
        /\ calls' = Sent(RemoveAt(calls, i), <<x>>) /\ calls[i].kind = "Authorize"
    BY <1>6 DEF AuthorizeAccepted, MeterStart, Reply
  <2>2. x.conn = d /\ x.kind = "StartTx"
    BY DEF NewCall
  <2>3. d \in Connectors /\ reg[d] \in Wh
    BY <1>3, <2>1 DEF Call, TypeOK
  <2>4. <<x>> \in Seq(Call)
    BY <2>3, CallTypes DEF HandshakeKinds
  <2> HIDE DEF x
  <2>5. ASSUME NEW k \in Elems(calls') PROVE k \in Elems(calls) \/ k = x
    <3>1. k \in Elems(RemoveAt(calls, i)) \cup Elems(<<x>>)
      BY <2>1, <2>4, SettledElems, ElemsSent
    <3> QED
      BY <3>1, SettledElems, ElemsFew
  <2>6. /\ Waits(c, HandshakeKinds)' => Waits(c, HandshakeKinds)
        /\ Waits(c, StopKinds)' => Waits(c, StopKinds)
    BY <1>3, <2>1, <2>2, <2>5 DEF Waits, HandshakeKinds, StopKinds
  <2> QED
    BY <1>2, <2>1, <2>6, PatientSame
<1>7. CASE StartAccepted(i) \/ StartRefused(i)
  <2>1. ASSUME c = d PROVE PatientOf(c)'
    <3>1. Waits(c, HandshakeKinds) /\ ~Waits(c, HandshakeKinds)'
      BY <1>7, <2>1, StartResolved
    <3> QED
      BY <1>2, <3>1 DEF PatientOf
  <2>2. ASSUME c # d PROVE PatientOf(c)'
    <3>1. /\ calls' = RemoveAt(calls, i) /\ status'[c] = status[c] /\ startPending'[c] = startPending[c]
          /\ txID'[c] = txID[c] /\ store'[c] = store[c]
      BY <1>7, <2>2 DEF StartAccepted, StartRefused, Put, Announce, TypeOK
    <3> QED
      BY <1>4, <3>1
  <2> QED
    BY <2>1, <2>2
<1>8. CASE BootRefused(i) \/ ErrorIgnored(i)
  BY <1>4, <1>8 DEF BootRefused, ErrorIgnored, OnlySettled
<1>9. CASE StopConfirmed(i) \/ RecoveryConfirmed(i)
  <2>1. PICK s \in {"Available", "Faulted"} : SessionClosed(i, s)
    BY <1>9 DEF StopConfirmed, RecoveryConfirmed
  <2>2. calls[i].kind \in StopKinds /\ calls' = RemoveAt(calls, i)
    BY <1>9, <2>1 DEF StopConfirmed, RecoveryConfirmed, Reply, StopKinds, SessionClosed
  <2>3. ASSUME c = d PROVE PatientOf(c)'
    <3>1. Waits(c, StopKinds)
      BY <1>3, <2>2, <2>3 DEF Waits
    <3>2. ~Waits(c, HandshakeKinds)
      BY <3>1 DEF PatientOf, Free
    <3>3. ~Waits(c, HandshakeKinds)'
      BY <2>2, <3>2, NotWaiting
    <3>4. status'[c] # "Preparing" /\ store'[c].tx = txID'[c]
      BY <2>1, <2>3 DEF SessionClosed, Announce, NoRecord, TypeOK
    <3> QED
      BY <3>3, <3>4 DEF PatientOf
  <2>4. ASSUME c # d PROVE PatientOf(c)'
    <3>1. status'[c] = status[c] /\ txID'[c] = txID[c] /\ store'[c] = store[c]
      BY <2>1, <2>4 DEF SessionClosed, Announce, TypeOK
    <3>2. startPending'[c] = startPending[c]
      BY <1>9, <2>4 DEF StopConfirmed, RecoveryConfirmed, TypeOK
    <3> QED
      BY <1>4, <2>2, <3>1, <3>2
  <2> QED
    BY <2>3, <2>4
<1> QED
  BY <1>5, <1>6, <1>7, <1>8, <1>9 DEF HandleReply
\* A start was given when there was no handshake, and other commands do not
\* disturb one.
LEMMA PatientCommand ==
  ASSUME TypeOK, PatientInv, NEW c \in Connectors, HandleCommand
  PROVE  PatientOf(c)'
<1> USE DEF runVars, connVars
<1> DEFINE d == Head(cmdCh).conn
<1>1. cmdCh # <<>> /\ cmdCh' = Tail(cmdCh)
  BY DEF HandleCommand, StatusCommand, PlugIn, Unplug, ClearFault, StartCharging, StopCharging,
         EmergencyStop, GoOffline, GoOnline, IgnoreCommand, Take
<1>2. ~Commanded(c)'
  BY <1>1, CommandsTail DEF PatientInv
<1>3. ASSUME Head(cmdCh).op = "StartCharging" PROVE Commanded(d)
  BY <1>1, <1>3, CommandsTail DEF PatientInv
<1>4. PatientOf(c)
  BY DEF PatientInv
<1>5. ASSUME UNCHANGED <<status, startPending, txID, store>>,
             calls' = calls \/ calls' = <<>> \/ calls' = Append(calls, Boot)
      PROVE  PatientOf(c)'
  BY <1>2, <1>4, <1>5, NotWaiting, PatientSame
<1>6. ASSUME UNCHANGED <<calls, startPending, txID, store>>
      PROVE  PatientOf(c)'
  BY <1>2, <1>4, <1>6, NotWaiting DEF PatientOf, Free
<1>7. CASE StartCharging
  <2> DEFINE x == NewCall("Authorize", d, 0, 0)
  <2>1. /\ UNCHANGED <<status, txID, store>> /\ startPending' = [startPending EXCEPT ![d] = TRUE]
        /\ calls' = Sent(calls, <<x>>)
        /\ Head(cmdCh).op = "StartCharging" /\ status[d] = "Preparing" /\ txID[d] = 0
        /\ d \in Connectors
    BY <1>7, TakenConnector DEF StartCharging, Take, Honoured, CanStart, ConnectorOps
  <2>2. x.conn = d /\ x.kind = "Authorize" /\ <<x>> \in Seq(Call)
    BY <2>1, CallTypes, BoundsAssumption DEF HandshakeKinds, Wh, NewCall
  <2> HIDE DEF x
  <2>3. /\ Waits(c, StopKinds)' => Waits(c, StopKinds)
        /\ Waits(c, HandshakeKinds)' => Waits(c, HandshakeKinds) \/ c = d
    BY <2>1, <2>2, NotWaiting DEF StopKinds
  <2>4. CASE c = d
    <3>1. Free(c)
      BY <1>3, <1>4, <2>1, <2>4 DEF PatientOf
    <3> QED
      BY <1>2, <2>1, <2>3, <2>4, <3>1 DEF PatientOf, Free, TypeOK
  <2>5. CASE c # d
    <3>1. startPending'[c] = startPending[c]
      BY <2>1, <2>5 DEF TypeOK
    <3> QED
      BY <1>2, <1>4, <2>1, <2>3, <2>5, <3>1, PatientSame
  <2> QED
    BY <2>4, <2>5
<1>8. ASSUME NEW kind \in StopKinds, SendStop(kind, d), d \in Connectors, txID[d] # 0,
             UNCHANGED <<txID, startPending>>
      PROVE  PatientOf(c)'
  <2>1. PICK wh \in Wh : calls' = Sent(calls, <<NewCall(kind, d, txID[d], wh)>>)
    BY <1>8, SendStopTypes
  <2> DEFINE x == NewCall(kind, d, txID[d], wh)
  <2>2. x.conn = d /\ x.kind = kind /\ <<x>> \in Seq(Call)
    BY <1>8, <2>1, CallTypes DEF StopKinds, HandshakeKinds, NewCall, TypeOK
  <2>3. calls' = Sent(calls, <<x>>)
    BY <2>1
  <2> HIDE DEF x
  <2>4. /\ Waits(c, StopKinds)' => Waits(c, StopKinds) \/ c = d
        /\ Waits(c, HandshakeKinds)' => Waits(c, HandshakeKinds)
    BY <1>8, <2>2, <2>3, NotWaiting DEF StopKinds, HandshakeKinds
  <2>5. Announce(d, "Finishing") /\ UNCHANGED store
    BY <1>8 DEF SendStop
  <2>6. CASE c = d
    <3>1. ~Waits(c, HandshakeKinds)'
      BY <1>4, <1>8, <2>4, <2>6 DEF PatientOf
    <3> QED
      BY <1>2, <3>1 DEF PatientOf
  <2>7. CASE c # d
    <3>1. status'[c] = status[c]
      BY <2>5, <2>7 DEF Announce, TypeOK
    <3> QED
      BY <1>2, <1>4, <1>8, <2>4, <2>5, <2>7, <3>1, PatientSame
  <2> QED
    BY <2>6, <2>7
<1>9. CASE StopCharging
  BY <1>8, <1>9, TakenConnector DEF StopCharging, Take, Honoured, StopKinds, ConnectorOps
<1>10. CASE EmergencyStop
  <2>1. d \in Connectors /\ UNCHANGED <<txID, startPending>>
    BY <1>10, TakenConnector DEF EmergencyStop, Take, ConnectorOps
  <2>2. CASE txID[d] # 0
    BY <1>8, <1>10, <2>1, <2>2 DEF EmergencyStop, StopKinds
  <2>3. CASE txID[d] = 0
    BY <1>6, <1>10, <2>1, <2>3 DEF EmergencyStop
  <2> QED
    BY <2>2, <2>3
<1>11. CASE GoOffline \/ IgnoreCommand
  BY <1>5, <1>11 DEF GoOffline, IgnoreCommand
<1>12. CASE GoOnline
  BY <1>5, <1>12 DEF GoOnline
<1>13. CASE StatusCommand
  BY <1>6, <1>13 DEF StatusCommand
<1> QED
  BY <1>7, <1>9, <1>10, <1>11, <1>12, <1>13 DEF HandleCommand

\* A patient operator queues a start before other commands, and the CMS queues
\* only stops.
LEMMA StartFirstStep ==
  PatientStarts /\ TypeOK /\ StartFirst /\ [Next]_vars => StartFirst'
<1> SUFFICES ASSUME PatientStarts, TypeOK, StartFirst, [Next]_vars
             PROVE  StartFirst'
  OBVIOUS
<1>1. CASE UNCHANGED cmdCh \/ cmdCh' = <<>>
  BY <1>1 DEF StartFirst
<1>2. CASE cmdCh # <<>> /\ cmdCh' = Tail(cmdCh)
  BY <1>2, CommandsTail
<1>3. CASE UserCommand
  <2>1. ASSUME NEW op \in ConnectorOps, NEW c \in Connectors, MayCommand(op, c), Offer([op |-> op, conn |-> c])
        PROVE  StartFirst'
    <3>1. [op |-> op, conn |-> c] \in Command /\ (op = "StartCharging" => cmdCh = <<>>)
      BY <2>1 DEF Command, MayCommand, PatientStarts
    <3> QED
      BY <2>1, <3>1, CommandsOffered
  <2>2. ASSUME NEW op \in LinkOps, Offer([op |-> op, conn |-> 0])
        PROVE  StartFirst'
    <3>1. [op |-> op, conn |-> 0] \in Command /\ op # "StartCharging"
      BY <2>2 DEF Command, LinkOps
    <3> QED
      BY <2>2, <3>1, CommandsOffered
  <2> QED
    BY <1>3, <2>1, <2>2 DEF UserCommand
<1>4. CASE RemoteStop
  <2>1. PICK d \in Connectors : Offer([op |-> "StopCharging", conn |-> d])
    BY <1>4 DEF RemoteStop
  <2>2. [op |-> "StopCharging", conn |-> d] \in Command
    BY DEF Command, ConnectorOps
  <2> QED
    BY <2>1, <2>2, CommandsOffered
<1>5. ASSUME NEW i \in DOMAIN calls, HandleReply(i)
      PROVE  UNCHANGED cmdCh
  BY <1>5 DEF HandleReply, BootAccepted, BootRefused, OnlySettled, AuthorizeAccepted,
       StartAccepted, StartRefused, ErrorIgnored, StopConfirmed, RecoveryConfirmed, SessionClosed
<1>6. CASE HandleCommand
  BY <1>2, <1>6
  DEF HandleCommand, StatusCommand, PlugIn, Unplug, ClearFault, StartCharging, StopCharging,
      EmergencyStop, GoOffline, GoOnline, IgnoreCommand, Take
<1>7. CASE HandleCall
  BY <1>1, <1>4, <1>7
  DEF HandleCall, RemoteStart, TriggerBoot, TriggerStatus, TriggerMeter, PatientStarts
<1> QED
  BY <1>1, <1>3, <1>5, <1>6, <1>7
  DEF Next, RunConnect, RunConnectFails, RunReturns, InboundClosed, Reconnect, MeterTick,
      CmsAnswer, LinkDrop, Restart, vars

\* PatientInv is inductive with a patient operator and no RemoteStart.
LEMMA PatientStep ==
  PatientStarts /\ SessionInv /\ LedgerInv /\ PatientInv /\ [Next]_vars => PatientInv'
<1> SUFFICES ASSUME PatientStarts, TypeOK, TxMatchesStatus, LedgerInv, PatientInv, [Next]_vars
             PROVE  \A c \in Connectors : PatientOf(c)'
  BY OneStartStep, StartFirstStep DEF SessionInv, PatientInv, PatientOf, Guarded
<1> TAKE c \in Connectors
<1> USE DEF runVars, connVars
<1>1. PatientOf(c) /\ OneStart(calls) /\ StartFirst
  BY DEF PatientInv
<1>2. ASSUME UNCHANGED cmdCh PROVE Commanded(c)' => Commanded(c)
  BY <1>2 DEF Commanded
<1>3. ASSUME UNCHANGED <<cmdCh, status, startPending, txID>>,
             \/ calls' = calls \/ calls' = <<>> \/ calls' = <<Boot>>
             \/ calls' = Append(calls, Boot) \/ calls' = Sent(calls, <<Boot>>),
             store'[c] = store[c] \/ (store[c] # NoRecord /\ store'[c].tx = store[c].tx)
      PROVE  PatientOf(c)'
  BY <1>1, <1>2, <1>3, NotWaiting, PatientSame
<1>4. ASSUME NEW cs, Meter(cs)
      PROVE  store'[c] = store[c] \/ (store[c] # NoRecord /\ store'[c].tx = store[c].tx)
  BY <1>4, MeterKeepsSessions DEF Meter
<1>5. CASE MeterTick
  BY <1>3, <1>4, <1>5 DEF MeterTick
<1>6. ASSUME NEW i \in DOMAIN calls, HandleReply(i)
      PROVE  PatientOf(c)'
  <2>1. UNCHANGED cmdCh
    BY <1>6 DEF HandleReply, BootAccepted, BootRefused, OnlySettled, AuthorizeAccepted,
         StartAccepted, StartRefused, ErrorIgnored, StopConfirmed, RecoveryConfirmed, SessionClosed
  <2> QED
    BY <1>1, <1>2, <1>6, <2>1, PatientReply
<1>7. ASSUME NEW i \in DOMAIN calls, CmsAnswer(i)
      PROVE  PatientOf(c)'
  <2>1. UNCHANGED <<cmdCh, status, startPending, txID, store>>
    BY <1>7 DEF CmsAnswer
  <2> QED
    BY <1>1, <1>2, <1>7, <2>1, WaitsAnswered, PatientSame
<1>8. ASSUME NEW k \in Command, Offer(k), UNCHANGED <<calls, status, startPending, txID, store>>,
             k.op = "StartCharging" => cmdCh = <<>> /\ k.conn \in Connectors /\ MayCommand(k.op, k.conn)
      PROVE  PatientOf(c)'
  <2>1. Commanded(c)' => Commanded(c) \/ (k.op = "StartCharging" /\ c = k.conn)
    BY <1>1, <1>8, CommandsOffered
  <2>2. CASE Commanded(c)' => Commanded(c)
    BY <1>1, <1>8, <2>1, <2>2, NotWaiting, PatientSame
  <2>3. CASE k.op = "StartCharging" /\ c = k.conn
    <3>1. /\ \A i \in DOMAIN calls : calls[i].conn # c
          /\ store[c].tx = txID[c]
      BY <1>8, <2>3 DEF MayCommand, PatientStarts
    <3>2. ~Waits(c, HandshakeKinds)' /\ ~Waits(c, StopKinds)'
      BY <1>8, <3>1 DEF Waits, Elems
    <3>3. status[c] = "Preparing" => store[c].tx = 0
      BY <3>1 DEF TxMatchesStatus
    <3>4. store[c].tx = 0 => store[c] = NoRecord
      BY DEF LedgerInv, Owned, TypeOK
    <3> QED
      BY <1>8, <2>1, <3>1, <3>2, <3>3, <3>4 DEF PatientOf, Free
  <2> QED
    BY <2>1, <2>2, <2>3
<1>9. CASE UserCommand
  <2>1. ASSUME NEW op \in ConnectorOps, NEW d \in Connectors, MayCommand(op, d), Offer([op |-> op, conn |-> d])
        PROVE  PatientOf(c)'
    <3>1. /\ [op |-> op, conn |-> d] \in Command
          /\ op = "StartCharging" => cmdCh = <<>>
      BY <2>1 DEF Command, MayCommand, PatientStarts
    <3> QED
      BY <1>8, <1>9, <2>1, <3>1 DEF UserCommand
  <2>2. ASSUME NEW op \in LinkOps, Offer([op |-> op, conn |-> 0])
        PROVE  PatientOf(c)'
    <3>1. [op |-> op, conn |-> 0] \in Command /\ op # "StartCharging"
      BY <2>2 DEF Command, LinkOps
    <3> QED
      BY <1>8, <1>9, <2>2, <3>1 DEF UserCommand
  <2> QED
    BY <1>9, <2>1, <2>2 DEF UserCommand
<1>10. CASE RemoteStop
  <2>1. PICK d \in Connectors : Offer([op |-> "StopCharging", conn |-> d])
    BY <1>10 DEF RemoteStop
  <2>2. [op |-> "StopCharging", conn |-> d] \in Command
    BY DEF Command, ConnectorOps
  <2> QED
    BY <1>8, <1>10, <2>1, <2>2 DEF RemoteStop
<1>11. CASE TriggerStatus
  <2>1. status' = status
    BY <1>11 DEF TriggerStatus, Announce, TypeOK
  <2> QED
    BY <1>3, <1>11, <2>1 DEF TriggerStatus
<1>12. CASE TriggerMeter
  BY <1>3, <1>4, <1>12 DEF TriggerMeter
<1>13. CASE HandleCall
  BY <1>3, <1>10, <1>11, <1>12, <1>13 DEF HandleCall, RemoteStart, TriggerBoot, PatientStarts
<1>14. CASE Restart
  BY <1>14, NotWaiting DEF Restart, PatientOf, Commanded
<1>15. CASE HandleCommand
  BY <1>15, PatientCommand
<1> QED
  BY <1>3, <1>5, <1>6, <1>7, <1>9, <1>13, <1>14, <1>15
  DEF Next, RunConnect, RunConnectFails, RunReturns, InboundClosed, Reconnect, LinkDrop, vars

\* Nothing waits and nothing is queued at first.
LEMMA PatientInit == Init => PatientInv
  BY ElemsFew DEF Init, PatientInv, PatientOf, OneStart, StartFirst, Commanded, Waits

\* One start per connector, counted.
LEMMA OneStartCardinality ==
  ASSUME OneStart(calls), NEW c
  PROVE  Cardinality(InFlight(c, HandshakeKinds)) <= 1
<1> DEFINE S == InFlight(c, HandshakeKinds)
<1>1. \A i, j \in S : i = j
  BY DEF InFlight, OneStart
<1>2. S = {} \/ \E i : S = {i}
  BY <1>1
<1>3. Cardinality(S) = 0 \/ Cardinality(S) = 1
  BY <1>2, FS_EmptySet, FS_Singleton
<1> QED
  BY <1>3

\* charger.go:269-273, 1424-1445: with a patient operator a connector runs one
\* handshake at a time and its guard is up, whatever is lost, refused or late.
THEOREM OneHandshakeIfPatient ==
  ASSUME PatientStarts
  PROVE  Spec => []OneHandshake
<1> DEFINE I == SessionInv /\ LedgerInv /\ PatientInv
<1>1. Init => I
  BY SessionInit, LedgerInit, PatientInit
<1>2. I /\ [Next]_vars => I'
  BY SessionInvStep, LedgerStep, PatientStep
<1>3. I => OneHandshake
  BY OneStartCardinality, WaitsInFlight DEF PatientInv, PatientOf, OneHandshake
<1> QED
  BY <1>1, <1>2, <1>3, PTL DEF Spec

\* charger.go:762-790, 898-915, 1421-1445: with an operator who starts no session
\* too early an accepted start replaces nothing and nothing under way can end it,
\* though he unplugs or presses the emergency stop in the middle of the handshake,
\* and whatever is lost, refused, late or replayed.
THEOREM StartsReplaceNothing ==
  ASSUME PatientStarts
  PROVE  Spec => []HandshakeAlone
<1> DEFINE I == SessionInv /\ LedgerInv /\ PatientInv
<1>1. Init => I
  BY SessionInit, LedgerInit, PatientInit
<1>2. I /\ [Next]_vars => I'
  BY SessionInvStep, LedgerStep, PatientStep
<1>3. I => HandshakeAlone
  BY WaitsInFlight DEF PatientInv, PatientOf, Free, HandshakeAlone
<1> QED
  BY <1>1, <1>2, <1>3, PTL DEF Spec

-----------------------------------------------------------------------------
(* The journal.  A stop that waits is of the transaction on disk, or of one *)
(* the CMS has closed; a start it has accepted is of one it has open.       *)

JournalInv ==
  \A k \in Elems(calls) :
    /\ k.kind = "StartTx" /\ k.ans = "Accepted" => ledger[k.tx].stops = {}
    /\ k.kind \in StopKinds =>
         \/ store[k.conn].tx = k.tx
         \/ store[k.conn] = NoRecord /\ ledger[k.tx].stops # {}

\* A stop and a start of one connector do not wait together.
LEMMA NotBoth ==
  ASSUME TypeOK, PatientInv, NEW k \in Elems(calls), k.kind \in HandshakeKinds
  PROVE  /\ \A l \in Elems(calls) : l.kind \in StopKinds => l.conn # k.conn
         /\ k.conn \in Connectors /\ store[k.conn] = NoRecord /\ txID[k.conn] = 0
<1>1. k \in Call
  BY DEF TypeOK, Elems
<1>2. k.conn \in Connectors
  BY <1>1 DEF Call, HandshakeKinds
<1>3. Waits(k.conn, HandshakeKinds)
  BY DEF Waits
<1>4. Free(k.conn) /\ txID[k.conn] = 0
  BY <1>2, <1>3 DEF PatientInv, PatientOf
<1> QED
  BY <1>2, <1>4 DEF Free, Waits

\* JournalInv is inductive.
LEMMA JournalInvStep ==
  SessionInv /\ LedgerInv /\ PatientInv /\ JournalInv /\ [Next]_vars => JournalInv'
<1> SUFFICES ASSUME TypeOK, TxMatchesStatus, LiveTxPersisted, LedgerInv, PatientInv, JournalInv,
                    [Next]_vars, NEW k \in Elems(calls')
             PROVE  /\ k.kind = "StartTx" /\ k.ans = "Accepted" => ledger'[k.tx].stops = {}
                    /\ k.kind \in StopKinds =>
                         \/ store'[k.conn].tx = k.tx
                         \/ store'[k.conn] = NoRecord /\ ledger'[k.tx].stops # {}
  BY DEF JournalInv, SessionInv
<1>1. \A l \in Elems(calls) : l \in Call
  BY DEF TypeOK, Elems
<1>2. ASSUME k \in Elems(calls), k.kind = "StartTx", k.ans = "Accepted"
      PROVE  ledger'[k.tx].stops = {}
  <2>1. Owned(k.conn, k.tx) /\ ledger[k.tx].stops = {}
    BY <1>2 DEF LedgerInv, OwnCall, JournalInv
  <2>2. ASSUME NEW i \in DOMAIN calls, calls[i].kind \in StopKinds, calls[i].tx = k.tx
        PROVE  FALSE
    <3>1. Owned(calls[i].conn, k.tx)
      BY <2>2, SettledElems DEF LedgerInv, OwnCall
    <3>2. calls[i].conn = k.conn
      BY <2>1, <3>1 DEF Owned
    <3> QED
      BY <1>2, <2>2, <3>2, SettledElems, NotBoth DEF HandshakeKinds
  <2> QED
    BY <2>1, <2>2, LedgerGrows DEF Owned
<1>3. ASSUME k \in Elems(calls), k.kind \in StopKinds
      PROVE  \/ store'[k.conn].tx = k.tx
             \/ store'[k.conn] = NoRecord /\ ledger'[k.tx].stops # {}
  <2> DEFINE c == k.conn
  <2>1. c \in Connectors /\ Owned(c, k.tx) /\ k.tx # 0
    BY <1>1, <1>3 DEF LedgerInv, OwnCall, Owned, Call, StopKinds, TypeOK
  <2>2. ledger[k.tx].stops # {} => ledger'[k.tx].stops # {}
    BY <2>1, LedgerGrows DEF Owned
  <2>3. \/ store[c].tx = k.tx
        \/ store[c] = NoRecord /\ ledger[k.tx].stops # {}
    BY <1>3 DEF JournalInv
  <2>4. CASE Restart
    BY <2>4, ElemsFew DEF Restart
  <2>5. CASE GoesOn(c)
    BY <2>1, <2>2, <2>3, <2>5 DEF GoesOn, TypeOK, Record
  <2>6. ASSUME NEW l \in Elems(calls), Opens(c, l)
        PROVE  FALSE
    BY <1>3, <2>6, NotBoth DEF Opens, HandshakeKinds
  <2>7. ASSUME NEW l \in Elems(calls), Closes(c, l)
        PROVE  store'[c] = NoRecord /\ ledger'[k.tx].stops # {}
    <3>1. /\ ledger[l.tx].stops # {}
          /\ store[c].tx = l.tx \/ store[c] = NoRecord
      BY <2>7 DEF Closes, LedgerInv, OwnCall, JournalInv
    <3>2. store[c] = NoRecord => store[c].tx = 0
      BY DEF NoRecord
    <3>3. ledger[k.tx].stops # {}
      BY <2>1, <2>3, <3>1, <3>2
    <3> QED
      BY <2>2, <2>7, <3>3 DEF Closes
  <2> QED
    BY <2>1, <2>4, <2>5, <2>6, <2>7, SessionMoves
<1>4. ASSUME SentBy(k)
      PROVE  /\ ~(k.kind = "StartTx" /\ k.ans = "Accepted")
             /\ k.kind \in StopKinds => store'[k.conn].tx = k.tx
  <2>1. k.ans = "none"
    BY <1>4 DEF SentBy, Boot, NewCall, RecoveryStop
  <2>2. k.kind \in StopKinds => store'[k.conn].tx = k.tx
    BY <1>4
    DEF SentBy, Boot, NewCall, RecoveryStop, StopKinds, LiveTxPersisted, Interrupted
  <2> QED
    BY <2>1, <2>2
<1>5. ASSUME NEW i \in DOMAIN calls, CmsAnswer(i), k = calls'[i]
      PROVE  /\ k.kind = "StartTx" /\ k.ans = "Accepted" => ledger'[k.tx].stops = {}
             /\ k.kind \in StopKinds =>
                  \/ store'[k.conn].tx = k.tx
                  \/ store'[k.conn] = NoRecord /\ ledger'[k.tx].stops # {}
  <2>1. /\ calls[i] \in Elems(calls) /\ calls[i] \in Call /\ UNCHANGED store
        /\ k.kind = calls[i].kind /\ k.conn = calls[i].conn
    BY <1>5, Answered, SettledElems DEF CmsAnswer
  <2>2. CASE k.kind = "StartTx" /\ k.ans = "Accepted"
    <3>1. /\ ledger' = Append(ledger, [conn |-> k.conn, start |-> k.wh, stops |-> {}])
          /\ k.tx = Len(ledger) + 1
      BY <1>5, <2>2, Answered DEF CmsAccept, StopKinds
    <3>2. [conn |-> k.conn, start |-> k.wh, stops |-> {}] \in Ledger
      BY <1>5, <2>1, <2>2, Answered DEF Ledger, Call
    <3>3. ledger'[k.tx].stops = {}
      BY <3>1, <3>2, AppendProperties DEF TypeOK
    <3> QED
      BY <2>2, <3>3 DEF StopKinds
  <2>3. CASE k.kind \in StopKinds
    <3>1. k.tx = calls[i].tx /\ Owned(k.conn, k.tx)
      BY <1>5, <2>1, <2>3, Answered DEF LedgerInv, OwnCall, StopKinds
    <3>2. ledger[k.tx].stops # {} => ledger'[k.tx].stops # {}
      BY <3>1, LedgerGrows DEF Owned
    <3> QED
      BY <2>1, <2>3, <3>1, <3>2 DEF JournalInv, StopKinds
  <2> QED
    BY <2>2, <2>3
<1> QED
  BY <1>2, <1>3, <1>4, <1>5, Origins
\* The variables of the abstract journal, as KeepsJournal substitutes them.
Held == [c \in Connectors |-> store[c].tx]
ClosedTxs == {tx \in DOMAIN ledger : ledger[tx].stops # {}}
JournalView == <<Held, Len(ledger), ClosedTxs>>

\* A stop is of a transaction on disk, or of one the CMS has closed.
Kept(c, tx) == store[c].tx = tx \/ ledger[tx].stops # {}
StopsKept == \A k \in Elems(calls) : k.kind \in StopKinds => Kept(k.conn, k.tx)

\* What the CMS learns is an Issue, a Close, or nothing new.
LEMMA JournalAnswer ==
  ASSUME TypeOK, LedgerInv, StopsKept, NEW i \in DOMAIN calls, CmsAnswer(i)
  PROVE  [Journal!Next]_JournalView
<1>1. UNCHANGED store /\ calls[i] \in Elems(calls) /\ calls[i] \in Call
  BY SettledElems DEF CmsAnswer
<1>2. Held' = Held
  BY <1>1 DEF Held
<1>3. CASE UNCHANGED ledger
  BY <1>2, <1>3 DEF JournalView, ClosedTxs
<1>4. CASE CmsAccept(i) /\ calls[i].kind = "StartTx"
  <2> DEFINE e == [conn |-> calls[i].conn, start |-> calls[i].wh, stops |-> {}]
  <2>1. ledger' = Append(ledger, e)
    BY <1>4 DEF CmsAccept, StopKinds
  <2>2. e \in Ledger
    BY <1>1, <1>4 DEF Ledger, Call
  <2>3. e.stops = {}
    OBVIOUS
  <2> HIDE DEF e
  <2>4. /\ Len(ledger') = Len(ledger) + 1 /\ DOMAIN ledger = 1 .. Len(ledger)
        /\ DOMAIN ledger' = 1 .. Len(ledger) + 1 /\ Len(ledger) \in Nat
        /\ \A tx \in 1 .. Len(ledger) : ledger'[tx] = ledger[tx]
        /\ ledger'[Len(ledger) + 1] = e
    BY <2>1, <2>2, AppendProperties DEF TypeOK
  <2>5. ClosedTxs' = ClosedTxs
    BY <2>3, <2>4 DEF ClosedTxs
  <2>6. Journal!Issue
    BY <1>2, <2>4, <2>5 DEF Journal!Issue, Held, ClosedTxs
  <2> QED
    BY <2>6 DEF Journal!Next
<1>5. CASE CmsAccept(i) /\ calls[i].kind \in StopKinds
  <2> DEFINE tx == calls[i].tx
             c == calls[i].conn
  <2>1. ledger' = [ledger EXCEPT ![tx].stops = @ \cup {calls[i].wh}]
    BY <1>5 DEF CmsAccept, StopKinds
  <2>2. Owned(c, tx) /\ c \in Connectors
    BY <1>1, <1>5 DEF LedgerInv, OwnCall, Call, StopKinds
  <2>3. store[c].tx = tx \/ ledger[tx].stops # {}
    BY <1>1, <1>5 DEF StopsKept, Kept
  <2> HIDE DEF tx, c
  <2>4. /\ tx \in DOMAIN ledger /\ ledger[tx] \in Ledger /\ DOMAIN ledger' = DOMAIN ledger
        /\ DOMAIN ledger = 1 .. Len(ledger) /\ Len(ledger') = Len(ledger)
        /\ \A u \in DOMAIN ledger : u # tx => ledger'[u] = ledger[u]
        /\ ledger'[tx] = [ledger[tx] EXCEPT !.stops = @ \cup {calls[i].wh}]
    BY <2>1, <2>2 DEF Owned, TypeOK
  <2>5. ledger'[tx].stops # {}
    BY <2>4 DEF Ledger
  <2>6. ClosedTxs' = ClosedTxs \cup {tx}
    BY <2>4, <2>5 DEF ClosedTxs
  <2>7. CASE store[c].tx = tx
    <3>1. Journal!Close(tx)
      BY <1>2, <2>2, <2>4, <2>6, <2>7 DEF Journal!Close, Held, ClosedTxs
    <3> QED
      BY <2>4, <3>1 DEF Journal!Next, Journal!Close
  <2>8. CASE ledger[tx].stops # {}
    <3>1. ClosedTxs' = ClosedTxs
      BY <2>4, <2>6, <2>8 DEF ClosedTxs
    <3> QED
      BY <1>2, <2>4, <3>1 DEF JournalView
  <2> QED
    BY <2>3, <2>7, <2>8
<1> QED
  BY <1>3, <1>4, <1>5 DEF CmsAnswer, CmsAccept, CmsRefuse

\* A reply leaves the ledger, and the records unless it ends a handshake or a stop.
LEMMA ReplyMoves ==
  ASSUME NEW i \in DOMAIN calls, HandleReply(i)
  PROVE  /\ UNCHANGED ledger
         /\ \/ UNCHANGED store
            \/ StartAccepted(i)
            \/ calls[i].kind \in StopKinds /\ calls[i].ans = "Accepted" /\ \E s : SessionClosed(i, s)
<1>1. UNCHANGED ledger
  BY DEF HandleReply, BootAccepted, BootRefused, OnlySettled, AuthorizeAccepted, StartAccepted,
         StartRefused, ErrorIgnored, StopConfirmed, RecoveryConfirmed, SessionClosed
<1>2. StopConfirmed(i) \/ RecoveryConfirmed(i) =>
        calls[i].kind \in StopKinds /\ calls[i].ans = "Accepted" /\ \E s : SessionClosed(i, s)
  BY DEF StopConfirmed, RecoveryConfirmed, Reply, StopKinds
<1>3. BootAccepted(i) \/ BootRefused(i) \/ AuthorizeAccepted(i) \/ StartRefused(i) \/ ErrorIgnored(i)
        => UNCHANGED store
  BY DEF BootAccepted, BootRefused, OnlySettled, AuthorizeAccepted, StartRefused, ErrorIgnored
<1> QED
  BY <1>1, <1>2, <1>3 DEF HandleReply

\* A confirmed stop forgets the record of its transaction.
LEMMA JournalForget ==
  ASSUME TypeOK, LedgerInv, NEW i \in DOMAIN calls, NEW s, SessionClosed(i, s),
         calls[i].kind \in StopKinds, calls[i].ans = "Accepted",
         store[calls[i].conn].tx = calls[i].tx \/ store[calls[i].conn] = NoRecord
  PROVE  [Journal!Next]_JournalView
<1> DEFINE c == calls[i].conn
           tx == calls[i].tx
<1>1. calls[i] \in Elems(calls) /\ calls[i] \in Call /\ UNCHANGED ledger
      /\ store' = [store EXCEPT ![c] = NoRecord]
  BY SettledElems DEF SessionClosed
<1>2. Len(ledger') = Len(ledger) /\ ClosedTxs' = ClosedTxs
  BY <1>1 DEF ClosedTxs
<1>3. c \in Connectors /\ Owned(c, tx) /\ ledger[tx].stops # {}
  BY <1>1 DEF LedgerInv, OwnCall, Call, StopKinds
<1>4. store[c].tx = tx \/ store[c] = NoRecord
  OBVIOUS
<1> HIDE DEF c, tx
<1>5. CASE store[c].tx = tx
  <2>1. Held' = [Held EXCEPT ![c] = 0] /\ Held[c] = tx
    BY <1>1, <1>3, <1>5 DEF Held, TypeOK, NoRecord
  <2>2. tx \in ClosedTxs
    BY <1>3 DEF Owned, ClosedTxs
  <2>3. Journal!Forget(c)
    BY <1>2, <2>1, <2>2 DEF Journal!Forget, Held, ClosedTxs
  <2> QED
    BY <1>3, <2>3 DEF Journal!Next, Journal!Forget
<1>6. CASE store[c] = NoRecord
  <2>1. store' = store
    BY <1>1, <1>3, <1>6 DEF TypeOK
  <2> QED
    BY <1>2, <2>1 DEF JournalView, Held
<1> QED
  BY <1>4, <1>5, <1>6

\* An accepted start opens a record, a confirmed stop forgets one.
LEMMA JournalReply ==
  ASSUME TypeOK, LedgerInv, PatientInv, JournalInv, NEW i \in DOMAIN calls, HandleReply(i)
  PROVE  [Journal!Next]_JournalView
<1> DEFINE c == calls[i].conn
           tx == calls[i].tx
<1>1. calls[i] \in Elems(calls) /\ calls[i] \in Call
  BY SettledElems
<1>2. UNCHANGED ledger
  BY ReplyMoves
<1>3. Len(ledger') = Len(ledger) /\ ClosedTxs' = ClosedTxs
  BY <1>2 DEF ClosedTxs
<1>4. CASE StartAccepted(i)
  <2>1. /\ calls[i].kind = "StartTx" /\ calls[i].ans = "Accepted"
        /\ store' = [store EXCEPT ![c] = [tx |-> tx, startWh |-> calls[i].wh, lastWh |-> calls[i].wh]]
    BY <1>4 DEF StartAccepted, Put, Reply
  <2>2. /\ c \in Connectors /\ store[c] = NoRecord
        /\ Owned(c, tx) /\ ledger[tx].stops = {}
    BY <1>1, <2>1, NotBoth DEF LedgerInv, OwnCall, JournalInv, HandshakeKinds
  <2>3. tx \in 1 .. Len(ledger) /\ tx \notin ClosedTxs /\ tx # 0
    BY <2>2 DEF Owned, ClosedTxs, TypeOK
  <2>4. \A d \in Connectors : store[d].tx # tx
    <3> SUFFICES ASSUME NEW d \in Connectors, store[d].tx = tx PROVE FALSE
      OBVIOUS
    <3>1. store[d] # NoRecord
      BY <2>3 DEF NoRecord
    <3>2. Owned(d, tx)
      BY <3>1 DEF LedgerInv
    <3>3. d = c
      BY <2>2, <3>2 DEF Owned
    <3> QED
      BY <2>2, <3>1, <3>3
  <2> HIDE DEF c, tx
  <2>5. Held' = [Held EXCEPT ![c] = tx] /\ Held[c] = 0
    <3>1. store'[c].tx = tx /\ \A d \in Connectors : d # c => store'[d] = store[d]
      BY <2>1, <2>2 DEF TypeOK
    <3>2. store[c].tx = 0
      BY <2>2 DEF NoRecord
    <3> QED
      BY <2>2, <3>1, <3>2 DEF Held
  <2>6. Journal!Open(c, tx)
    BY <1>3, <2>2, <2>3, <2>4, <2>5 DEF Journal!Open, Held, ClosedTxs
  <2> QED
    BY <2>2, <2>3, <2>6 DEF Journal!Next, Journal!Open
<1>5. ASSUME NEW s, SessionClosed(i, s), calls[i].kind \in StopKinds, calls[i].ans = "Accepted"
      PROVE  [Journal!Next]_JournalView
  BY <1>1, <1>5, JournalForget DEF JournalInv
<1>6. CASE UNCHANGED store
  BY <1>3, <1>6 DEF JournalView, Held
<1> QED
  BY <1>4, <1>5, <1>6, ReplyMoves

\* No other step is one of the journal.
LEMMA JournalOther ==
  ASSUME TypeOK, [Next]_vars
  PROVE  [Journal!Next]_JournalView \/ \E i \in DOMAIN calls : HandleReply(i) \/ CmsAnswer(i)
<1>1. CASE UNCHANGED <<store, ledger>>
  BY <1>1 DEF JournalView, Held, ClosedTxs
<1>2. ASSUME NEW cs, Meter(cs), UNCHANGED ledger
      PROVE  [Journal!Next]_JournalView
  <2>1. Held' = Held
    BY <1>2, MeterKeepsSessions DEF Held
  <2> QED
    BY <1>2, <2>1 DEF JournalView, ClosedTxs
<1>3. CASE MeterTick
  BY <1>2, <1>3 DEF MeterTick
<1>4. CASE HandleCommand
  BY <1>1, <1>4
  DEF HandleCommand, StatusCommand, StartCharging, StopCharging, EmergencyStop, SendStop, GoOffline,
      GoOnline, IgnoreCommand
<1>5. CASE HandleCall
  BY <1>1, <1>2, <1>5
  DEF HandleCall, RemoteStart, RemoteStop, TriggerBoot, TriggerStatus, TriggerMeter
<1> QED
  BY <1>1, <1>3, <1>4, <1>5
  DEF Next, RunConnect, RunConnectFails, RunReturns, InboundClosed, Reconnect, UserCommand,
      LinkDrop, Restart, vars

\* Every step of the charger is a step or a stutter of the journal.
LEMMA JournalStep ==
  SessionInv /\ LedgerInv /\ PatientInv /\ JournalInv /\ [Next]_vars => [Journal!Next]_JournalView
<1> SUFFICES ASSUME TypeOK, LedgerInv, PatientInv, JournalInv, [Next]_vars
             PROVE  [Journal!Next]_JournalView
  BY DEF SessionInv
<1>1. StopsKept
  BY DEF StopsKept, Kept, JournalInv
<1> QED
  BY <1>1, JournalOther, JournalAnswer, JournalReply

\* store.go:1-15, charger.go:770-789, 827-834, 888-903: with a patient operator, actor,
\* store and CMS together keep the abstract session journal: a record opens for
\* a fresh transaction on a free connector, and is forgotten only after the CMS
\* has closed its transaction, in spite of every outage and refusal.
THEOREM JournalIsKept ==
  ASSUME PatientStarts
  PROVE  Spec => KeepsJournal
<1> DEFINE I == SessionInv /\ LedgerInv /\ PatientInv /\ JournalInv
<1>1. Init => I
  BY SessionInit, LedgerInit, PatientInit, ElemsFew DEF Init, JournalInv
<1>2. I /\ [Next]_vars => I'
  BY SessionInvStep, LedgerStep, PatientStep, JournalInvStep
<1>3. Init => Journal!Init
  BY DEF Init, Journal!Init, NoRecord
<1>4. I /\ [Next]_vars => [Journal!Next]_JournalView
  BY JournalStep
<1>5. KeepsJournal <=> Journal!Init /\ [][Journal!Next]_JournalView
  BY PTL DEF KeepsJournal, Journal!Spec, Journal!vars, JournalView, Held, ClosedTxs
<1> QED
  BY <1>1, <1>2, <1>3, <1>4, <1>5, PTL DEF Spec
-----------------------------------------------------------------------------
(* Two actors on one store, as one of them sees it (Handover has both).    *)
(* A cancelled actor holds transactions it has lost the record of, so the  *)
(* invariants above fail for it.  While it only changes records of its own *)
(* live transactions, weaker ones hold, and they keep the journal too.     *)

Starting(k) == k.kind = "StartTx" /\ k.ans = "Accepted"

\* Transactions an actor runs, or is about to learn of.
Mine(c, tx) ==
  tx # 0 /\ (txID[c] = tx \/ \E k \in Elems(calls) : Starting(k) /\ k.conn = c /\ k.tx = tx)

WorkingInv == SessionInv /\ LedgerInv /\ PatientInv /\ JournalInv

CancelledInv ==
  /\ TypeOK /\ LedgerInv /\ LiveOwned /\ StopsKept
  /\ \A c \in Connectors : txID[c] # 0 => Kept(c, txID[c])
  /\ \A k \in Elems(calls) :
       k.kind \in StopKinds /\ txID[k.conn] # 0 /\ store[k.conn].tx = txID[k.conn] => k.tx = txID[k.conn]
  /\ \A k \in Elems(calls) : Starting(k) => store[k.conn].tx # k.tx

\* What a step does to a record, and to the ledger.
RecordKept(c) ==
  store'[c].tx = store[c].tx \/ (store'[c] = NoRecord /\ ledger[store[c].tx].stops # {})
OwnRecords ==
  \A c \in Connectors :
    store'[c] # store[c] => txID[c] # 0 /\ store[c].tx = txID[c] /\ store'[c].tx \in {0, txID[c]}
RecordsOwned == \A c \in Connectors : store[c] # NoRecord => Owned(c, store[c].tx)
LedgerKept ==
  \A tx \in DOMAIN ledger : /\ tx \in DOMAIN ledger' /\ ledger'[tx].conn = ledger[tx].conn
                            /\ ledger[tx].stops \subseteq ledger'[tx].stops

LEMMA LedgerIsKept == TypeOK /\ [Next]_vars => LedgerKept
  BY LedgerGrows DEF LedgerKept

\* A CALL about a connector names one; transaction 0 is nobody's.
LEMMA CallConnector ==
  ASSUME TypeOK, NEW k \in Elems(calls), k.kind # "Boot"
  PROVE  k.conn \in Connectors /\ k \in Call /\ k.tx \in Nat
  BY DEF TypeOK, Elems, Call

LEMMA OwnedNotZero ==
  ASSUME TypeOK, NEW c, NEW tx, Owned(c, tx)
  PROVE  tx # 0 /\ tx \in Nat /\ tx <= Len(ledger)
  BY DEF TypeOK, Owned

\* A working actor that is cancelled begins as CancelledInv says.
LEMMA CancelledBegins == WorkingInv => CancelledInv
<1> SUFFICES ASSUME SessionInv, TypeOK, LiveTxPersisted, LedgerInv, PatientInv, JournalInv
             PROVE  CancelledInv
  BY DEF WorkingInv, SessionInv
<1>1. StopsKept
  BY DEF StopsKept, Kept, JournalInv
<1>2. \A c \in Connectors : txID[c] # 0 => Kept(c, txID[c])
  BY DEF LiveTxPersisted, Kept
<1>3. ASSUME NEW k \in Elems(calls), k.kind \in StopKinds, txID[k.conn] # 0
      PROVE  k.tx = txID[k.conn]
  <2>1. k.conn \in Connectors
    BY <1>3, CallConnector DEF StopKinds
  <2>2. store[k.conn].tx = txID[k.conn] /\ store[k.conn] # NoRecord
    BY <1>3, <2>1 DEF LiveTxPersisted, NoRecord
  <2> QED
    BY <1>3, <2>2 DEF JournalInv
<1>4. ASSUME NEW k \in Elems(calls), Starting(k)
      PROVE  store[k.conn].tx # k.tx
  <2>1. store[k.conn] = NoRecord
    BY <1>4, NotBoth DEF Starting, HandshakeKinds
  <2>2. Owned(k.conn, k.tx)
    BY <1>4 DEF Starting, LedgerInv, OwnCall
  <2> QED
    BY <2>1, <2>2, OwnedNotZero DEF NoRecord
<1> QED
  BY <1>1, <1>2, <1>3, <1>4, LiveIsOwned DEF CancelledInv

\* An actor learns of a new transaction only from the CMS.
LEMMA MineMoves ==
  ASSUME TypeOK, [Next]_vars, NEW c \in Connectors, NEW tx, Mine(c, tx)'
  PROVE  Mine(c, tx) \/ (tx = Len(ledger) + 1 /\ \E i \in DOMAIN calls : CmsAnswer(i))
<1>1. CASE txID'[c] = tx
  <2>1. ~Restart
    BY <1>1 DEF Restart, Zero, Mine
  <2>2. CASE GoesOn(c)
    BY <1>1, <2>2 DEF GoesOn, Mine
  <2>3. ASSUME NEW k \in Elems(calls), Opens(c, k)
        PROVE  Mine(c, tx)
    BY <1>1, <2>3 DEF Opens, Mine, Starting
  <2>4. ASSUME NEW k \in Elems(calls), Closes(c, k)
        PROVE  FALSE
    BY <1>1, <2>4 DEF Closes, Mine
  <2> QED
    BY <2>1, <2>2, <2>3, <2>4, SessionMoves
<1>2. ASSUME NEW k \in Elems(calls'), Starting(k), k.conn = c, k.tx = tx
      PROVE  Mine(c, tx) \/ (tx = Len(ledger) + 1 /\ \E i \in DOMAIN calls : CmsAnswer(i))
  <2>1. ~SentBy(k)
    BY <1>2 DEF SentBy, Boot, NewCall, RecoveryStop, Starting
  <2>2. ASSUME NEW i \in DOMAIN calls, CmsAnswer(i), k = calls'[i]
        PROVE  tx = Len(ledger) + 1
    BY <1>2, <2>2, Answered DEF Starting
  <2>3. tx # 0
    BY DEF Mine
  <2> QED
    BY <1>2, <2>1, <2>2, <2>3, Origins DEF Mine
<1> QED
  BY <1>1, <1>2 DEF Mine

LEMMA MineOwned ==
  ASSUME LiveOwned, LedgerInv, NEW c \in Connectors, NEW tx, Mine(c, tx)
  PROVE  Owned(c, tx)
  BY DEF Mine, LiveOwned, LedgerInv, OwnCall, Starting

\* A working actor opens a record where there is none, for a transaction of
\* its own, and forgets one when the CMS has closed it.
LEMMA RecordMoves ==
  ASSUME WorkingInv, [Next]_vars, ~Restart, NEW c \in Connectors
  PROVE  RecordKept(c) \/ (store[c] = NoRecord /\ Mine(c, store'[c].tx))
<1> USE DEF WorkingInv, SessionInv
<1>1. CASE GoesOn(c)
  BY <1>1 DEF GoesOn, RecordKept, TypeOK, Record
<1>2. ASSUME NEW k \in Elems(calls), Opens(c, k)
      PROVE  store[c] = NoRecord /\ Mine(c, store'[c].tx)
  <2>1. store[c] = NoRecord
    BY <1>2, NotBoth DEF Opens, HandshakeKinds
  <2>2. Owned(c, k.tx)
    BY <1>2 DEF Opens, LedgerInv, OwnCall
  <2>3. k.tx # 0
    BY <2>2, OwnedNotZero
  <2> QED
    BY <1>2, <2>1, <2>3 DEF Opens, Mine, Starting
<1>3. ASSUME NEW k \in Elems(calls), Closes(c, k)
      PROVE  RecordKept(c)
  <2>1. ledger[k.tx].stops # {} /\ (store[c].tx = k.tx \/ store[c] = NoRecord)
    BY <1>3 DEF Closes, LedgerInv, OwnCall, JournalInv
  <2> QED
    BY <1>3, <2>1 DEF Closes, RecordKept
<1> QED
  BY <1>1, <1>2, <1>3, SessionMoves

\* A cancelled actor opens none, as long as it leaves other records alone.
LEMMA CancelledMoves ==
  ASSUME CancelledInv, [Next]_vars, ~Restart, OwnRecords, NEW c \in Connectors
  PROVE  txID'[c] \in {0, txID[c]} /\ RecordKept(c)
<1> USE DEF CancelledInv
<1>1. CASE GoesOn(c)
  BY <1>1 DEF GoesOn, RecordKept, TypeOK, Record
<1>2. ASSUME NEW k \in Elems(calls), Opens(c, k)
      PROVE  FALSE
  <2>1. Owned(c, k.tx) /\ store[c].tx # k.tx /\ store'[c].tx = k.tx
    BY <1>2 DEF Opens, LedgerInv, OwnCall, Starting
  <2>2. k.tx # 0
    BY <2>1, OwnedNotZero
  <2> QED
    BY <2>1, <2>2 DEF OwnRecords
<1>3. ASSUME NEW k \in Elems(calls), Closes(c, k)
      PROVE  txID'[c] = 0 /\ RecordKept(c)
  <2>1. /\ txID'[c] = 0 /\ store'[c] = NoRecord
        /\ k.kind \in StopKinds /\ k.conn = c /\ ledger[k.tx].stops # {}
    BY <1>3 DEF Closes, LedgerInv, OwnCall
  <2>2. store'[c] # store[c] => store[c].tx = k.tx
    BY <2>1 DEF OwnRecords
  <2> QED
    BY <2>1, <2>2 DEF RecordKept
<1> QED
  BY <1>1, <1>2, <1>3, SessionMoves DEF GoesOn

\* CancelledInv is inductive for such an actor.
LEMMA CancelledStep ==
  ASSUME CancelledInv, [Next]_vars, ~Restart, OwnRecords
  PROVE  CancelledInv'
<1>1. TypeOK /\ LedgerInv /\ LiveOwned /\ StopsKept
  BY DEF CancelledInv
<1>2. TypeOK' /\ LedgerInv'
  BY <1>1, TypeStep, OwnershipStep
<1>3. \A c \in Connectors : txID'[c] \in {0, txID[c]} /\ RecordKept(c)
  BY CancelledMoves
<1>4. ASSUME NEW c \in Connectors, NEW tx, Owned(c, tx)
      PROVE  Owned(c, tx)' /\ (Kept(c, tx) => Kept(c, tx)')
  BY <1>1, <1>3, <1>4, LedgerIsKept DEF LedgerKept, Owned, Kept, RecordKept
<1>5. LiveOwned' /\ \A c \in Connectors : txID'[c] # 0 => Kept(c, txID[c])'
  <2>1. ASSUME NEW c \in Connectors, txID'[c] # 0
        PROVE  Owned(c, txID[c])' /\ Kept(c, txID[c])'
    <3>1. txID'[c] = txID[c] /\ Owned(c, txID[c]) /\ Kept(c, txID[c])
      BY <1>1, <1>3, <2>1 DEF LiveOwned, CancelledInv
    <3> DEFINE tx == txID[c]
    <3>2. Owned(c, tx) /\ Kept(c, tx)
      BY <3>1
    <3> HIDE DEF tx
    <3>3. Owned(c, tx)' /\ Kept(c, tx)' /\ tx' = tx
      BY <1>4, <3>1, <3>2 DEF tx
    <3> QED
      BY <3>3 DEF tx, Owned, Kept
  <2> QED
    BY <2>1 DEF LiveOwned
<1>6. ASSUME NEW k \in Elems(calls), k.kind \in StopKinds
      PROVE  /\ Kept(k.conn, k.tx)'
             /\ txID'[k.conn] # 0 /\ store'[k.conn].tx = txID'[k.conn] => k.tx = txID'[k.conn]
  <2>1. k.conn \in Connectors /\ Owned(k.conn, k.tx) /\ Kept(k.conn, k.tx)
    BY <1>1, <1>6, CallConnector DEF StopKinds, LedgerInv, OwnCall, StopsKept
  <2>2. ASSUME txID'[k.conn] # 0, store'[k.conn].tx = txID'[k.conn]
        PROVE  txID'[k.conn] = txID[k.conn] /\ store[k.conn].tx = txID[k.conn]
    BY <1>3, <2>1, <2>2 DEF RecordKept, NoRecord
  <2> QED
    BY <1>4, <1>6, <2>1, <2>2 DEF CancelledInv
<1>7. ASSUME NEW k \in Elems(calls'), k.kind \in StopKinds
      PROVE  /\ Kept(k.conn, k.tx)'
             /\ txID'[k.conn] # 0 /\ store'[k.conn].tx = txID'[k.conn] => k.tx = txID'[k.conn]
  <2>1. CASE SentBy(k)
    <3>1. PICK c \in Connectors :
            /\ k.conn = c /\ UNCHANGED <<txID, store>>
            /\ (txID[c] # 0 /\ k.tx = txID[c]) \/ k.tx = store[c].tx
      BY <1>7, <2>1 DEF SentBy, Boot, NewCall, RecoveryStop, StopKinds, Interrupted
    <3>2. txID[c] # 0 => Kept(c, txID[c])'
      BY <1>5, <3>1 DEF Kept
    <3> QED
      BY <3>1, <3>2 DEF Kept
  <2>2. ASSUME NEW i \in DOMAIN calls, CmsAnswer(i), k = calls'[i]
        PROVE  /\ calls[i] \in Elems(calls) /\ calls[i].kind = k.kind
               /\ calls[i].conn = k.conn /\ calls[i].tx = k.tx
    BY <1>1, <1>7, <2>2, Answered, SettledElems DEF StopKinds
  <2> QED
    BY <1>1, <1>6, <1>7, <2>1, <2>2, Origins
<1>8. ASSUME NEW k \in Elems(calls'), Starting(k)
      PROVE  store'[k.conn].tx # k.tx
  <2>1. CASE k \in Elems(calls)
    <3>1. k.conn \in Connectors /\ Owned(k.conn, k.tx) /\ store[k.conn].tx # k.tx
      BY <1>1, <1>8, <2>1, CallConnector DEF Starting, LedgerInv, OwnCall, CancelledInv
    <3> QED
      BY <1>1, <1>3, <3>1, OwnedNotZero DEF RecordKept, NoRecord
  <2>2. ~SentBy(k)
    BY <1>8 DEF SentBy, Boot, NewCall, RecoveryStop, Starting
  <2>3. ASSUME NEW i \in DOMAIN calls, CmsAnswer(i), k = calls'[i]
        PROVE  store'[k.conn].tx # k.tx
    <3>1. /\ k.tx = Len(ledger) + 1 /\ UNCHANGED store /\ Len(ledger) \in Nat
          /\ calls[i] \in Elems(calls) /\ calls[i].conn = k.conn /\ calls[i].kind = "StartTx"
      BY <1>1, <1>8, <2>3, Answered, SettledElems DEF Starting, CmsAnswer, TypeOK
    <3>2. k.conn \in Connectors
      BY <1>1, <3>1, CallConnector
    <3>3. store[k.conn] # NoRecord => store[k.conn].tx <= Len(ledger)
      BY <1>1, <3>2, OwnedNotZero DEF LedgerInv
    <3> QED
      BY <3>1, <3>3 DEF NoRecord
  <2> QED
    BY <1>1, <2>1, <2>2, <2>3, Origins
<1> QED
  BY <1>2, <1>5, <1>7, <1>8 DEF CancelledInv, StopsKept

\* Such an actor keeps the journal.
LEMMA CancelledJournal ==
  ASSUME CancelledInv, [Next]_vars, ~Restart, OwnRecords
  PROVE  [Journal!Next]_JournalView
<1>1. TypeOK /\ LedgerInv /\ StopsKept
  BY DEF CancelledInv
<1>2. ASSUME NEW i \in DOMAIN calls, HandleReply(i)
      PROVE  [Journal!Next]_JournalView
  <2>1. CASE StartAccepted(i)
    <3>1. /\ calls[i] \in Elems(calls) /\ Starting(calls[i]) /\ calls[i].conn \in Connectors
          /\ store'[calls[i].conn].tx = calls[i].tx
      BY <1>1, <2>1, SettledElems, CallConnector DEF StartAccepted, Put, Reply, Starting, TypeOK
    <3>2. Owned(calls[i].conn, calls[i].tx) /\ store[calls[i].conn].tx # calls[i].tx
      BY <1>1, <3>1 DEF Starting, LedgerInv, OwnCall, CancelledInv
    <3>3. RecordKept(calls[i].conn)
      BY <3>1, CancelledMoves
    <3> QED
      BY <1>1, <3>1, <3>2, <3>3, OwnedNotZero DEF RecordKept, NoRecord
  <2>2. ASSUME NEW s, SessionClosed(i, s), calls[i].kind \in StopKinds, calls[i].ans = "Accepted"
        PROVE  [Journal!Next]_JournalView
    <3>1. calls[i] \in Elems(calls) /\ calls[i].conn \in Connectors
      BY <1>1, <2>2, SettledElems, CallConnector DEF StopKinds
    <3>2. store'[calls[i].conn] = NoRecord
      BY <1>1, <2>2, <3>1 DEF SessionClosed, TypeOK
    <3>3. store[calls[i].conn].tx = calls[i].tx \/ store[calls[i].conn] = NoRecord
      BY <2>2, <3>1, <3>2 DEF OwnRecords, CancelledInv
    <3> QED
      BY <1>1, <2>2, <3>3, JournalForget
  <2>3. CASE UNCHANGED <<store, ledger>>
    BY <2>3 DEF JournalView, Held, ClosedTxs
  <2> QED
    BY <1>2, <2>1, <2>2, <2>3, ReplyMoves
<1> QED
  BY <1>1, <1>2, JournalOther, JournalAnswer

\* A step of another actor leaves a cancelled one as it is, if the records it
\* opens are not for transactions of the cancelled one ...
LEMMA CancelledUndisturbed ==
  ASSUME CancelledInv, TypeOK', RecordsOwned', LedgerKept, UNCHANGED <<calls, txID>>,
         \A c \in Connectors :
           RecordKept(c) \/ (store[c] = NoRecord /\ ~Mine(c, store'[c].tx))
  PROVE  CancelledInv'
<1>1. TypeOK /\ LedgerInv /\ LiveOwned /\ StopsKept
  BY DEF CancelledInv
<1>2. ASSUME NEW c \in Connectors, NEW tx, Owned(c, tx)
      PROVE  Owned(c, tx)' /\ (Kept(c, tx) => Kept(c, tx)')
  <2>1. tx # 0
    BY <1>1, <1>2, OwnedNotZero
  <2> QED
    BY <1>2, <2>1 DEF LedgerKept, Owned, Kept, RecordKept, NoRecord
<1>3. \A k : OwnCall(k) => OwnCall(k)'
  BY DEF OwnCall, Owned, LedgerKept
<1>4. LedgerInv'
  BY <1>1, <1>3 DEF LedgerInv, RecordsOwned
<1>5. \A c \in Connectors : txID[c] # 0 => Owned(c, txID[c])' /\ Kept(c, txID[c])'
  <2> TAKE c \in Connectors
  <2> DEFINE tx == txID[c]
  <2>1. tx # 0 => Owned(c, tx) /\ Kept(c, tx)
    BY DEF CancelledInv, LiveOwned
  <2>2. tx' = tx
    OBVIOUS
  <2> HIDE DEF tx
  <2>3. tx # 0 => Owned(c, tx)' /\ Kept(c, tx)'
    BY <1>2, <2>1, <2>2
  <2> QED
    BY <2>3 DEF tx
<1>6. ASSUME NEW k \in Elems(calls), k.kind \in StopKinds
      PROVE  /\ Kept(k.conn, k.tx)'
             /\ txID[k.conn] # 0 /\ store'[k.conn].tx = txID[k.conn] => k.tx = txID[k.conn]
  <2>1. k.conn \in Connectors /\ Owned(k.conn, k.tx) /\ Kept(k.conn, k.tx)
    BY <1>1, <1>6, CallConnector DEF StopKinds, LedgerInv, OwnCall, StopsKept
  <2>2. ASSUME txID[k.conn] # 0, store'[k.conn].tx = txID[k.conn]
        PROVE  store[k.conn].tx = txID[k.conn]
    BY <2>1, <2>2 DEF RecordKept, NoRecord, Mine
  <2> QED
    BY <1>2, <1>6, <2>1, <2>2 DEF CancelledInv
<1>7. ASSUME NEW k \in Elems(calls), Starting(k)
      PROVE  store'[k.conn].tx # k.tx
  <2>1. k.conn \in Connectors /\ Owned(k.conn, k.tx) /\ store[k.conn].tx # k.tx
    BY <1>1, <1>7, CallConnector DEF Starting, LedgerInv, OwnCall, CancelledInv
  <2>2. k.tx # 0 /\ Mine(k.conn, k.tx)
    BY <1>1, <1>7, <2>1, OwnedNotZero DEF Mine
  <2> QED
    BY <2>1, <2>2 DEF RecordKept, NoRecord
<1> QED
  BY <1>4, <1>5, <1>6, <1>7 DEF CancelledInv, LiveOwned, StopsKept

\* ... and a working one, if it keeps the journal and the records it changes
\* are not of transactions of the working one.
LEMMA WorkingUndisturbed ==
  ASSUME WorkingInv, TypeOK', RecordsOwned', LedgerKept, [Journal!Next]_JournalView,
         UNCHANGED <<calls, cmdCh, status, txID, startPending>>,
         \A c \in Connectors :
           \/ store'[c] = store[c]
           \/ RecordKept(c) /\ store[c].tx # 0 /\ ~Mine(c, store[c].tx)
  PROVE  WorkingInv'
<1> USE DEF WorkingInv, SessionInv
<1>1. Named(calls)' /\ TxMatchesStatus'
  BY DEF Named, TxMatchesStatus
<1>2. ASSUME NEW c \in Connectors, store[c].tx \in {0, txID[c]}
      PROVE  store'[c] = store[c]
  BY <1>2 DEF Mine
<1>3. LiveTxPersisted'
  BY <1>2 DEF LiveTxPersisted
<1>4. LedgerInv'
  <2>1. \A k : OwnCall(k) => OwnCall(k)'
    BY DEF OwnCall, Owned, LedgerKept
  <2> QED
    BY <2>1 DEF LedgerInv, RecordsOwned
<1>5. PatientInv'
  <2>1. ASSUME NEW c \in Connectors
        PROVE  PatientOf(c)'
    <3>1. PatientOf(c) /\ (store[c] = NoRecord => store[c].tx = 0)
      BY DEF PatientInv, NoRecord
    <3>2. \A kinds : Waits(c, kinds)' = Waits(c, kinds)
      BY DEF Waits
    <3>3. Commanded(c)' = Commanded(c)
      BY DEF Commanded
    <3> QED
      BY <1>2, <3>1, <3>2, <3>3 DEF PatientOf, Free
  <2> QED
    BY <2>1 DEF PatientInv, StartFirst
<1>6. ASSUME NEW k \in Elems(calls), Starting(k)
      PROVE  ledger'[k.tx].stops = {}
  <2>1. Owned(k.conn, k.tx) /\ ledger[k.tx].stops = {} /\ store[k.conn] = NoRecord
    BY <1>6, NotBoth DEF Starting, LedgerInv, OwnCall, JournalInv, HandshakeKinds
  <2>2. ASSUME NEW d \in Connectors, store[d].tx = k.tx
        PROVE  FALSE
    <3>1. store[d] # NoRecord
      BY <2>1, <2>2, OwnedNotZero DEF NoRecord
    <3>2. Owned(d, k.tx)
      BY <2>2, <3>1 DEF LedgerInv
    <3> QED
      BY <2>1, <3>1, <3>2 DEF Owned
  <2>3. k.tx \in ClosedTxs' => k.tx \in ClosedTxs
    <3>1. \A tx : ~Journal!Close(tx) \/ tx # k.tx
      BY <2>2 DEF Journal!Close
    <3> QED
      BY <3>1 DEF Journal!Next, Journal!Issue, Journal!Open, Journal!Close, Journal!Forget,
                  JournalView, ClosedTxs
  <2> QED
    BY <2>1, <2>3 DEF ClosedTxs, Owned, LedgerKept
<1>7. ASSUME NEW k \in Elems(calls), k.kind \in StopKinds
      PROVE  \/ store'[k.conn].tx = k.tx
             \/ store'[k.conn] = NoRecord /\ ledger'[k.tx].stops # {}
  <2>1. k.conn \in Connectors /\ Owned(k.conn, k.tx)
    BY <1>7, CallConnector DEF StopKinds, LedgerInv, OwnCall
  <2>2. ledger[k.tx].stops # {} => ledger'[k.tx].stops # {}
    BY <2>1 DEF Owned, LedgerKept
  <2>3. store[k.conn] = NoRecord => store'[k.conn] = NoRecord
    BY <1>2, <2>1 DEF NoRecord
  <2> QED
    BY <1>7, <2>1, <2>2, <2>3 DEF JournalInv, RecordKept
<1>8. JournalInv'
  BY <1>6, <1>7 DEF JournalInv, Starting
<1> QED
  BY <1>1, <1>3, <1>4, <1>5, <1>8

-----------------------------------------------------------------------------
(* What is billed.  Within one process the register of a connector only     *)
(* advances.  No transaction of the connector has a reading above it, and    *)
(* what the newest one waits to report lies between its start and it.        *)

OneProcess == PatientStarts /\ "restart" \notin Outages

Latest(c, tx) == \A u \in DOMAIN ledger : ledger[u].conn = c => u <= tx

RecordBilled(c) ==
  /\ store[c].tx = txID[c]
  /\ store[c] # NoRecord =>
       /\ Latest(c, txID[c])
       /\ ledger[txID[c]].start <= store[c].lastWh /\ store[c].lastWh <= reg[c]
CallBilled(k) ==
  /\ k.kind = "StartTx" =>
       /\ k.wh = reg[k.conn]
       /\ k.ans = "Accepted" => ledger[k.tx].start = k.wh /\ Latest(k.conn, k.tx)
  /\ k.kind \in StopKinds =>
       Latest(k.conn, k.tx) /\ ledger[k.tx].start <= k.wh /\ k.wh <= reg[k.conn]
EntryBilled(u) ==
  LET top == reg[ledger[u].conn]
  IN  ledger[u].start <= top /\ \A wh \in ledger[u].stops : wh <= top

BillingInv ==
  /\ \A c \in Connectors : RecordBilled(c)
  /\ \A k \in Elems(calls) : CallBilled(k)
  /\ \A u \in DOMAIN ledger : EntryBilled(u)
  /\ NoEnergyBilledTwice

\* A start that is accepted is the newest transaction of its connector.
LEMMA AcceptedStart ==
  ASSUME TypeOK, NEW i \in DOMAIN calls, CmsAnswer(i),
         calls[i].kind = "StartTx", calls'[i].ans = "Accepted"
  PROVE  /\ Len(ledger) \in Nat /\ DOMAIN ledger = 1 .. Len(ledger)
         /\ calls'[i].tx = Len(ledger) + 1 /\ DOMAIN ledger' = 1 .. Len(ledger) + 1
         /\ \A u \in DOMAIN ledger : ledger'[u] = ledger[u]
         /\ ledger'[Len(ledger) + 1].conn = calls[i].conn
         /\ ledger'[Len(ledger) + 1].start = calls[i].wh
         /\ ledger'[Len(ledger) + 1].stops = {}
<1> DEFINE e == [conn |-> calls[i].conn, start |-> calls[i].wh, stops |-> {}]
<1>1. ledger' = Append(ledger, e) /\ calls'[i].tx = Len(ledger) + 1
  BY Answered DEF CmsAccept, StopKinds
<1>2. calls[i] \in Call
  BY SettledElems
<1>3. e \in Ledger
  BY <1>2 DEF Ledger, Call
<1>4. e.conn = calls[i].conn /\ e.start = calls[i].wh /\ e.stops = {}
  OBVIOUS
<1> HIDE DEF e
<1> QED
  BY <1>1, <1>3, <1>4, AppendProperties DEF TypeOK

\* What a step adds to the ledger: no transaction, or one start.
Opened(i) == CmsAnswer(i) /\ calls[i].kind = "StartTx" /\ calls'[i].ans = "Accepted"

\* The CMS opens a transaction only by accepting a start.
LEMMA LedgerMoves ==
  ASSUME TypeOK, [Next]_vars
  PROVE  \/ DOMAIN ledger' = DOMAIN ledger
         \/ \E i \in DOMAIN calls : Opened(i)
<1>1. ASSUME NEW i \in DOMAIN calls, CmsAnswer(i), ~Opened(i)
      PROVE  DOMAIN ledger' = DOMAIN ledger
  <2>1. CASE calls[i].kind # "StartTx"
    BY <1>1, <2>1 DEF CmsAnswer, CmsAccept, CmsRefuse, TypeOK
  <2>2. CASE calls'[i].ans # "Accepted"
    BY <1>1, <2>2, Answered
  <2> QED
    BY <1>1, <2>1, <2>2 DEF Opened
<1>2. ASSUME NEW i \in DOMAIN calls, HandleReply(i) PROVE UNCHANGED ledger
  BY <1>2 DEF HandleReply, BootAccepted, BootRefused, OnlySettled, AuthorizeAccepted, StartAccepted,
              StartRefused, ErrorIgnored, StopConfirmed, RecoveryConfirmed, SessionClosed
<1>3. HandleCommand => UNCHANGED ledger
  BY DEF HandleCommand, StatusCommand, StartCharging, StopCharging, EmergencyStop, GoOffline,
         GoOnline, IgnoreCommand
<1>4. HandleCall => UNCHANGED ledger
  BY DEF HandleCall, RemoteStart, RemoteStop, TriggerBoot, TriggerStatus, TriggerMeter
<1> QED
  BY <1>1, <1>2, <1>3, <1>4
  DEF Next, RunConnect, RunConnectFails, RunReturns, InboundClosed, Reconnect, MeterTick,
      UserCommand, LinkDrop, Restart, vars

\* A transaction stays the newest of its connector until a start of that
\* connector is accepted.
LEMMA LatestStep ==
  ASSUME TypeOK, [Next]_vars, NEW c, NEW tx, Latest(c, tx)
  PROVE  \/ Latest(c, tx)'
         \/ \E i \in DOMAIN calls : CmsAnswer(i) /\ calls[i].kind = "StartTx" /\ calls[i].conn = c
<1>1. \A u \in DOMAIN ledger : ledger'[u].conn = ledger[u].conn
  BY LedgerGrows
<1>2. ASSUME DOMAIN ledger' = DOMAIN ledger PROVE Latest(c, tx)'
  BY <1>1, <1>2 DEF Latest
<1>3. ASSUME NEW i \in DOMAIN calls, Opened(i), calls[i].conn # c PROVE Latest(c, tx)'
  BY <1>3, AcceptedStart DEF Latest, Opened
<1> QED
  BY <1>2, <1>3, LedgerMoves DEF Opened

\* Nothing but its own start is newer than a session, or than its stop.
LEMMA LatestKept ==
  ASSUME TypeOK, PatientInv, [Next]_vars, NEW c \in Connectors, NEW tx, Latest(c, tx),
         store[c] # NoRecord \/ Waits(c, StopKinds)
  PROVE  Latest(c, tx)'
<1>1. ASSUME NEW i \in DOMAIN calls, calls[i].kind = "StartTx", calls[i].conn = c
      PROVE  FALSE
  <2>1. Waits(c, HandshakeKinds)
    BY <1>1 DEF Waits, Elems, HandshakeKinds
  <2> QED
    BY <2>1 DEF PatientInv, PatientOf, Free
<1> QED
  BY <1>1, LatestStep
\* A transaction has an id, and its start stays what it is.
LEMMA OwnedStart ==
  ASSUME TypeOK, [Next]_vars, NEW c, NEW tx, Owned(c, tx)
  PROVE  tx \in Nat \ {0} /\ ledger'[tx].start = ledger[tx].start /\ ledger[tx].start \in Nat
<1>1. tx \in DOMAIN ledger
  BY DEF Owned
<1>2. ledger[tx] \in Ledger /\ tx \in Nat \ {0}
  BY <1>1 DEF TypeOK
<1>3. ledger[tx].start \in Nat
  BY <1>2, BoundsAssumption DEF Ledger, Wh
<1>4. ledger'[tx].start = ledger[tx].start
  BY <1>1, LedgerGrows
<1> QED
  BY <1>2, <1>3, <1>4

\* The register of a connector does not go back, nor move during a handshake.
LEMMA RegisterKept ==
  ASSUME OneProcess, TypeOK, TxMatchesStatus, PatientInv, BillingInv, [Next]_vars, NEW c \in Connectors
  PROVE  /\ reg[c] \in Nat /\ reg'[c] \in Nat /\ reg'[c] >= reg[c]
         /\ Waits(c, HandshakeKinds) => reg'[c] = reg[c]
         /\ GoesOn(c) \/ \E k \in Elems(calls) : Opens(c, k) \/ Closes(c, k)
<1>1. GoesOn(c) \/ \E k \in Elems(calls) : Opens(c, k) \/ Closes(c, k)
  BY SessionMoves DEF OneProcess, Restart
<1>2. reg[c] \in Nat /\ reg'[c] \in Nat
  BY TypeStep, BoundsAssumption DEF TypeOK, Wh
<1>3. CASE GoesOn(c)
  <2>1. Waits(c, HandshakeKinds) => txID[c] = 0
    BY DEF PatientInv, PatientOf
  <2> QED
    BY <1>1, <1>2, <1>3, <2>1 DEF GoesOn
<1>4. ASSUME NEW k \in Elems(calls), Opens(c, k) PROVE reg'[c] = reg[c]
  BY <1>4 DEF Opens, BillingInv, CallBilled
<1>5. ASSUME NEW k \in Elems(calls), Closes(c, k) PROVE reg'[c] = reg[c]
  BY <1>5 DEF Closes
<1> QED
  BY <1>1, <1>2, <1>3, <1>4, <1>5

\* The record stays between the start of its transaction and the register.
LEMMA RecordBilledStep ==
  ASSUME OneProcess, TypeOK, TxMatchesStatus, LiveTxPersisted, LedgerInv, PatientInv, BillingInv,
         [Next]_vars, NEW c \in Connectors
  PROVE  RecordBilled(c)'
<1>1. RecordBilled(c) /\ reg[c] \in Nat /\ reg'[c] \in Nat /\ reg'[c] >= reg[c]
  BY RegisterKept DEF BillingInv
<1>2. CASE GoesOn(c)
  <2>1. store'[c].tx = txID'[c] /\ txID'[c] = txID[c]
    BY <1>1, <1>2 DEF GoesOn, RecordBilled, TypeOK, Record
  <2>2. PICK tx : tx = txID[c]
    OBVIOUS
  <2>3. ASSUME store'[c] # NoRecord
        PROVE  Latest(c, tx)' /\ ledger'[tx].start <= store'[c].lastWh /\ store'[c].lastWh <= reg'[c]
    <3>1. store[c] # NoRecord
      BY <1>2, <2>3 DEF GoesOn
    <3>2. Latest(c, tx) /\ ledger[tx].start <= store[c].lastWh /\ store[c].lastWh <= reg[c]
      BY <1>1, <2>2, <3>1 DEF RecordBilled
    <3>3. Latest(c, tx)'
      BY <3>1, <3>2, LatestKept
    <3>4. Owned(c, tx)
      BY <1>1, <2>2, <3>1 DEF LedgerInv, RecordBilled
    <3>5. ledger'[tx].start = ledger[tx].start /\ ledger[tx].start \in Nat
      BY <3>4, OwnedStart
    <3>6. store[c] \in Record
      BY DEF TypeOK
    <3>7. store[c].lastWh \in Nat /\ (store'[c].lastWh = store[c].lastWh \/ store'[c].lastWh = reg'[c])
      BY <1>2, <3>6, BoundsAssumption DEF GoesOn, Record, Wh
    <3> QED
      BY <1>1, <3>2, <3>3, <3>5, <3>7
  <2> QED
    BY <2>1, <2>2, <2>3 DEF RecordBilled, Latest
<1>3. ASSUME NEW k \in Elems(calls), Opens(c, k)
      PROVE  RecordBilled(c)'
  <2>1. /\ k.kind = "StartTx" /\ k.ans = "Accepted" /\ k.conn = c
        /\ txID'[c] = k.tx /\ reg'[c] = k.wh
        /\ store'[c] = [tx |-> k.tx, startWh |-> k.wh, lastWh |-> k.wh]
    BY <1>3 DEF Opens
  <2>2. Latest(c, k.tx) /\ ledger[k.tx].start = k.wh /\ Owned(c, k.tx)
    BY <2>1 DEF BillingInv, CallBilled, LedgerInv, OwnCall
  <2>3. txID[c] = 0 /\ k.tx # 0
    BY <2>1, <2>2, NotBoth, OwnedStart DEF HandshakeKinds
  <2>4. ASSUME NEW i \in DOMAIN calls, CmsAnswer(i) PROVE FALSE
    BY <2>1, <2>3, <2>4 DEF CmsAnswer, connVars
  <2>5. Latest(c, k.tx)'
    BY <2>2, <2>4, LatestStep
  <2>6. ledger'[k.tx].start = k.wh
    BY <2>2, OwnedStart
  <2>7. store'[c].tx = txID'[c] /\ store'[c].lastWh = reg'[c] /\ ledger'[txID'[c]].start = reg'[c]
    BY <2>1, <2>6
  <2> QED
    BY <1>1, <2>1, <2>5, <2>7 DEF RecordBilled, Latest
<1>4. ASSUME NEW k \in Elems(calls), Closes(c, k)
      PROVE  RecordBilled(c)'
  BY <1>4 DEF Closes, RecordBilled, NoRecord
<1> QED
  BY <1>2, <1>3, <1>4, RegisterKept

\* What is about to be billed is of the latest transaction, up to the register.
LEMMA CallBilledStep ==
  ASSUME OneProcess, TypeOK, TxMatchesStatus, LiveTxPersisted, LedgerInv, PatientInv, BillingInv,
         [Next]_vars, NEW k \in Elems(calls')
  PROVE  CallBilled(k)'
<1>1. \A c, tx : Owned(c, tx) => ledger'[tx].start = ledger[tx].start /\ ledger[tx].start \in Nat
  BY OwnedStart
<1>2. \A l \in Elems(calls) : l \in Call
  BY DEF TypeOK, Elems
<1>3. ASSUME NEW l \in Elems(calls), l.kind = "StartTx"
      PROVE  /\ l.conn \in Connectors /\ l.wh = reg[l.conn] /\ reg'[l.conn] = reg[l.conn]
             /\ l.ans = "Accepted" => /\ Owned(l.conn, l.tx) /\ ledger[l.tx].start = l.wh
                                      /\ Latest(l.conn, l.tx)
  <2>1. l.conn \in Connectors
    BY <1>2, <1>3 DEF Call
  <2>2. Waits(l.conn, HandshakeKinds)
    BY <1>3 DEF Waits, HandshakeKinds
  <2> QED
    BY <1>3, <2>1, <2>2, RegisterKept DEF BillingInv, CallBilled, LedgerInv, OwnCall
<1>4. ASSUME NEW l \in Elems(calls), l.kind \in StopKinds
      PROVE  /\ l.conn \in Connectors /\ Owned(l.conn, l.tx) /\ Latest(l.conn, l.tx)'
             /\ ledger'[l.tx].start <= l.wh /\ l.wh <= reg'[l.conn]
  <2>1. l.conn \in Connectors /\ Owned(l.conn, l.tx) /\ l.wh \in Nat
    BY <1>2, <1>4, BoundsAssumption DEF Call, StopKinds, LedgerInv, OwnCall, Wh
  <2>2. Latest(l.conn, l.tx) /\ ledger[l.tx].start <= l.wh /\ l.wh <= reg[l.conn]
    BY <1>4 DEF BillingInv, CallBilled
  <2>3. Waits(l.conn, StopKinds)
    BY <1>4 DEF Waits
  <2>4. reg[l.conn] \in Nat /\ reg'[l.conn] \in Nat /\ reg'[l.conn] >= reg[l.conn]
    BY <2>1, RegisterKept
  <2>5. Latest(l.conn, l.tx)'
    BY <2>1, <2>2, <2>3, LatestKept
  <2> QED
    BY <1>1, <2>1, <2>2, <2>4, <2>5
<1>5. ASSUME k \in Elems(calls), k.kind = "StartTx"
      PROVE  CallBilled(k)'
  <2>1. ASSUME k.ans = "Accepted" PROVE Latest(k.conn, k.tx)'
    <3>1. ASSUME NEW i \in DOMAIN calls, CmsAnswer(i), calls[i].kind = "StartTx", calls[i].conn = k.conn
          PROVE  FALSE
      <4>1. PICK j \in DOMAIN calls : k = calls[j]
        BY <1>5 DEF Elems
      <4>2. i = j
        BY <1>5, <3>1, <4>1 DEF PatientInv, OneStart, HandshakeKinds
      <4> QED
        BY <2>1, <3>1, <4>1, <4>2, Answered
    <3> QED
      BY <1>3, <1>5, <2>1, <3>1, LatestStep
  <2>2. k.wh = reg'[k.conn] /\ (k.ans = "Accepted" => ledger'[k.tx].start = k.wh)
    BY <1>1, <1>3, <1>5
  <2> QED
    BY <1>5, <2>1, <2>2 DEF CallBilled, StopKinds
<1>6. ASSUME k \in Elems(calls), k.kind \in StopKinds
      PROVE  CallBilled(k)'
  BY <1>4, <1>6 DEF CallBilled, StopKinds
<1>7. ASSUME SentBy(k)
      PROVE  CallBilled(k)'
  <2>1. CASE k.kind = "StartTx"
    BY <1>7, <2>1 DEF SentBy, Boot, NewCall, RecoveryStop, CallBilled, StopKinds
  <2>2. ASSUME NEW c \in Connectors, UNCHANGED <<txID, store>>, store[c] # NoRecord,
               k.conn = c, k.tx = store[c].tx, k.wh = reg'[c] \/ k.wh = store[c].lastWh, k.kind # "StartTx"
        PROVE  CallBilled(k)'
    <3>1. RecordBilled(c)' /\ k.tx = txID[c] /\ Owned(c, k.tx)
      BY <2>2, RecordBilledStep DEF BillingInv, RecordBilled, LedgerInv
    <3>2. /\ Latest(c, k.tx)' /\ ledger'[k.tx].start <= store[c].lastWh
          /\ store[c].lastWh <= reg'[c]
      <4>1. txID'[c] = k.tx /\ store'[c] = store[c]
        BY <2>2, <3>1
      <4> QED
        BY <2>2, <3>1, <4>1 DEF RecordBilled, Latest
    <3>3. ledger'[k.tx].start \in Nat /\ reg'[c] \in Nat
      BY <1>1, <3>1, RegisterKept
    <3>4. store[c].lastWh \in Nat
      <4>1. store[c] \in Record
        BY DEF TypeOK
      <4> QED
        BY <4>1, BoundsAssumption DEF Record, Wh
    <3> QED
      BY <2>2, <3>2, <3>3, <3>4 DEF CallBilled
  <2>3. CASE k.kind \in StopKinds
    <3>1. UNCHANGED <<txID, store>>
      BY <1>7, <2>3 DEF SentBy, Boot, NewCall, StopKinds
    <3>2. ASSUME NEW c \in Connectors, NEW kind, txID[c] # 0, k = NewCall(kind, c, txID[c], reg'[c])
          PROVE  CallBilled(k)'
      BY <2>2, <2>3, <3>1, <3>2 DEF NewCall, StopKinds, LiveTxPersisted, NoRecord
    <3>3. ASSUME NEW c \in Interrupted, k = RecoveryStop(c)
          PROVE  CallBilled(k)'
      BY <2>2, <2>3, <3>1, <3>3 DEF RecoveryStop, NewCall, StopKinds, Interrupted
    <3> QED
      BY <1>7, <2>3, <3>2, <3>3 DEF SentBy, Boot, NewCall, StopKinds
  <2> QED
    BY <2>1, <2>3 DEF CallBilled
<1>8. ASSUME NEW i \in DOMAIN calls, CmsAnswer(i), k = calls'[i]
      PROVE  CallBilled(k)'
  <2>1. /\ calls[i] \in Elems(calls) /\ k.kind = calls[i].kind /\ k.conn = calls[i].conn
        /\ k.wh = calls[i].wh /\ (k.kind # "StartTx" => k.tx = calls[i].tx)
    BY <1>8, Answered, SettledElems
  <2>2. CASE k.kind = "StartTx"
    <3>1. k.wh = reg'[k.conn]
      BY <1>3, <2>1, <2>2
    <3>2. ASSUME k.ans = "Accepted" PROVE ledger'[k.tx].start = k.wh /\ Latest(k.conn, k.tx)'
      <4>1. /\ Len(ledger) \in Nat /\ k.tx = Len(ledger) + 1 /\ DOMAIN ledger' = 1 .. Len(ledger) + 1
            /\ ledger'[Len(ledger) + 1].start = calls[i].wh
        BY <1>8, <2>1, <2>2, <3>2, AcceptedStart
      <4> QED
        BY <2>1, <4>1 DEF Latest
    <3> QED
      BY <2>2, <3>1, <3>2 DEF CallBilled, StopKinds
  <2>3. CASE k.kind \in StopKinds
    <3>1. PICK l \in Elems(calls) : l = calls[i]
      BY <2>1
    <3>2. l.kind \in StopKinds /\ l.conn = k.conn /\ l.tx = k.tx /\ l.wh = k.wh
      BY <2>1, <2>3, <3>1 DEF StopKinds
    <3> QED
      BY <1>4, <2>3, <3>2 DEF CallBilled, StopKinds
  <2> QED
    BY <2>2, <2>3 DEF CallBilled
<1> QED
  BY <1>5, <1>6, <1>7, <1>8, Origins DEF CallBilled
\* A reading a step adds to a transaction is of the newest one, lies at or
\* above its start, and at or below the register.
LEMMA StopsMove ==
  ASSUME TypeOK, LedgerInv, BillingInv, [Next]_vars, NEW u \in DOMAIN ledger, NEW wh \in ledger'[u].stops
  PROVE  \/ wh \in ledger[u].stops
         \/ /\ Latest(ledger[u].conn, u) /\ ledger[u].start <= wh /\ wh <= reg[ledger[u].conn]
            /\ \E i \in DOMAIN calls : CmsAnswer(i) /\ ~Opened(i)
<1>1. ASSUME NEW i \in DOMAIN calls, CmsAnswer(i), calls[i].kind \in StopKinds, calls[i].tx = u,
             wh = calls[i].wh
      PROVE  /\ Latest(ledger[u].conn, u) /\ ledger[u].start <= wh /\ wh <= reg[ledger[u].conn]
             /\ ~Opened(i)
  <2>1. calls[i] \in Elems(calls)
    BY SettledElems
  <2>2. CallBilled(calls[i]) /\ Owned(calls[i].conn, u)
    BY <1>1, <2>1 DEF BillingInv, LedgerInv, OwnCall
  <2> QED
    BY <1>1, <2>2 DEF CallBilled, Owned, Opened, StopKinds
<1> QED
  BY <1>1, LedgerGrows

\* What was billed stays below the register.
LEMMA EntryBilledStep ==
  ASSUME OneProcess, TypeOK, TxMatchesStatus, LedgerInv, PatientInv, BillingInv, [Next]_vars,
         NEW u \in DOMAIN ledger'
  PROVE  EntryBilled(u)'
<1>1. TypeOK' /\ ledger'[u] \in Ledger
  BY TypeStep DEF TypeOK
<1> PICK c \in Connectors : c = ledger'[u].conn
  BY <1>1 DEF Ledger
<1>2. ledger'[u].start \in Nat /\ \A wh \in ledger'[u].stops : wh \in Nat
  BY <1>1, BoundsAssumption DEF Ledger, Wh
<1>3. reg[c] \in Nat /\ reg'[c] \in Nat /\ reg'[c] >= reg[c]
  BY RegisterKept
<1>4. ledger'[u].start <= reg[c] /\ \A wh \in ledger'[u].stops : wh <= reg[c]
  <2>1. CASE u \in DOMAIN ledger
    <3>1. ledger[u].conn = c /\ ledger'[u].start = ledger[u].start
      BY <2>1, LedgerGrows
    <3>2. EntryBilled(u)
      BY <2>1 DEF BillingInv
    <3> QED
      BY <2>1, <3>1, <3>2, StopsMove DEF EntryBilled
  <2>2. ASSUME NEW i \in DOMAIN calls, Opened(i), u \notin DOMAIN ledger
        PROVE  ledger'[u].start <= reg[c] /\ ledger'[u].stops = {}
    <3>1. /\ u = Len(ledger) + 1 /\ ledger'[u].conn = calls[i].conn
          /\ ledger'[u].start = calls[i].wh /\ ledger'[u].stops = {}
      BY <2>2, AcceptedStart DEF Opened
    <3>2. calls[i].wh = reg[c]
      BY <2>2, <3>1, SettledElems DEF BillingInv, CallBilled, Opened
    <3> QED
      BY <1>3, <3>1, <3>2
  <2> QED
    BY <2>1, <2>2, LedgerMoves
<1> QED
  BY <1>2, <1>3, <1>4 DEF EntryBilled

\* What is billed next starts where the last transaction ended, or later.
LEMMA NoOverlapStep ==
  ASSUME TypeOK, LedgerInv, BillingInv, [Next]_vars
  PROVE  NoEnergyBilledTwice'
<1> SUFFICES ASSUME NEW t \in DOMAIN ledger', NEW u \in DOMAIN ledger', t <= u,
                    ledger'[t].conn = ledger'[u].conn, NEW wh \in ledger'[t].stops
             PROVE  IF t = u THEN ledger'[t].start <= wh ELSE wh <= ledger'[u].start
  BY DEF NoEnergyBilledTwice
<1>1. \A v \in DOMAIN ledger : v \in Nat
  BY DEF TypeOK
<1>2. CASE t \in DOMAIN ledger /\ u \in DOMAIN ledger
  <2>1. /\ ledger[t].conn = ledger[u].conn /\ ledger'[t].start = ledger[t].start
        /\ ledger'[u].start = ledger[u].start
    BY <1>2, LedgerGrows
  <2>2. CASE wh \in ledger[t].stops
    BY <1>2, <2>1, <2>2 DEF BillingInv, NoEnergyBilledTwice
  <2>3. CASE wh \notin ledger[t].stops
    <3>1. Latest(ledger[t].conn, t) /\ ledger[t].start <= wh
      BY <1>2, <2>3, StopsMove
    <3>2. u <= t
      BY <1>2, <2>1, <3>1 DEF Latest
    <3>3. t = u
      BY <1>1, <1>2, <3>2
    <3> QED
      BY <2>1, <3>1, <3>3
  <2> QED
    BY <2>2, <2>3
<1>3. ASSUME NEW i \in DOMAIN calls, Opened(i), t \notin DOMAIN ledger \/ u \notin DOMAIN ledger
      PROVE  t # u /\ wh <= ledger'[u].start
  <2>1. /\ Len(ledger) \in Nat /\ DOMAIN ledger = 1 .. Len(ledger) /\ DOMAIN ledger' = 1 .. Len(ledger) + 1
        /\ \A v \in DOMAIN ledger : ledger'[v] = ledger[v]
        /\ ledger'[Len(ledger) + 1].conn = calls[i].conn
        /\ ledger'[Len(ledger) + 1].start = calls[i].wh
        /\ ledger'[Len(ledger) + 1].stops = {}
    BY <1>3, AcceptedStart DEF Opened
  <2>2. u = Len(ledger) + 1 /\ t \in DOMAIN ledger /\ t # u
    BY <1>3, <2>1
  <2>3. EntryBilled(t) /\ wh \in ledger[t].stops /\ ledger[t].conn = calls[i].conn
    BY <2>1, <2>2 DEF BillingInv
  <2>4. calls[i].wh = reg[calls[i].conn]
    BY <1>3, SettledElems DEF BillingInv, CallBilled, Opened
  <2> QED
    BY <2>1, <2>2, <2>3, <2>4 DEF EntryBilled
<1> QED
  BY <1>2, <1>3, LedgerMoves

\* BillingInv is inductive as long as the process lives.
LEMMA BillingStep ==
  OneProcess /\ SessionInv /\ LedgerInv /\ PatientInv /\ BillingInv /\ [Next]_vars => BillingInv'
<1> SUFFICES ASSUME OneProcess, TypeOK, TxMatchesStatus, LiveTxPersisted, LedgerInv, PatientInv,
                    BillingInv, [Next]_vars
             PROVE  BillingInv'
  BY DEF SessionInv
<1>1. \A c \in Connectors : RecordBilled(c)'
  BY RecordBilledStep
<1>2. \A k \in Elems(calls') : CallBilled(k)'
  BY CallBilledStep
<1>3. \A u \in DOMAIN ledger' : EntryBilled(u)'
  BY EntryBilledStep
<1>4. NoEnergyBilledTwice'
  BY NoOverlapStep
<1> QED
  BY <1>1, <1>2, <1>3, <1>4 DEF BillingInv

\* charger.go:743-745, 770-789, 812-823, 888-896: with a patient operator, and as
\* long as the process lives, no energy is billed in two transactions of a
\* connector and none is stopped below its start, whatever is lost or replayed.
THEOREM EnergyBilledOnce ==
  ASSUME OneProcess
  PROVE  Spec => []NoEnergyBilledTwice
<1> DEFINE I == SessionInv /\ LedgerInv /\ PatientInv /\ BillingInv
<1>1. Init => BillingInv
  BY ElemsFew DEF Init, BillingInv, RecordBilled, NoEnergyBilledTwice, Zero, NoRecord
<1>2. Init => I
  BY <1>1, SessionInit, LedgerInit, PatientInit
<1>3. I /\ [Next]_vars => I'
  BY SessionInvStep, LedgerStep, PatientStep, BillingStep DEF OneProcess
<1>4. I => NoEnergyBilledTwice
  BY DEF BillingInv
<1> QED
  BY <1>2, <1>3, <1>4, PTL DEF Spec
-----------------------------------------------------------------------------
(* Without outages.  The first connection lasts, one boot opens it, and      *)
(* nothing is recovered, so the guard of a handshake is lowered by its end   *)
(* only, however commands and requests race.                                 *)

Unbroken ==
  /\ "drop" \notin Outages /\ "restart" \notin Outages
  /\ UserOps \cap LinkOps = {} /\ "TriggerBoot" \notin RemoteOps

BootFirst(q) == \A i \in DOMAIN q : q[i].kind = "Boot" => i = 1
StopsFirst(q) ==
  \A i, j \in DOMAIN q :
    q[i].kind \in StopKinds /\ q[j].kind \in HandshakeKinds /\ q[i].conn = q[j].conn => i < j

FirstConnection ==
  /\ ~offline /\ loop \in {"dialing", "select", "exited"} /\ (loop = "select" => link = "up")
  /\ loop = "dialing" => calls = <<>> /\ cpState = "Booting"
  /\ \A j \in DOMAIN cmdCh : cmdCh[j].op \notin LinkOps
OneBoot ==
  /\ BootFirst(calls)
  /\ \A k \in Elems(calls) : k.kind = "Boot" => cpState = "Booting" \/ loop = "exited"
  /\ cpState = "Booting" => \A c \in Connectors : ~Waits(c, HandshakeKinds) /\ store[c] = NoRecord
  /\ \A k \in Elems(calls) : k.kind # "StopPowerLoss"
GuardUp ==
  \A c \in Connectors : Waits(c, HandshakeKinds) => startPending[c] /\ txID[c] = 0

UnbrokenInv == FirstConnection /\ OneBoot /\ OneStart(calls) /\ GuardUp

\* The connection is not given up and not made again.
LEMMA NoReconnection ==
  ASSUME Unbroken, TypeOK, FirstConnection
  PROVE  ~GoOffline /\ ~GoOnline /\ ~InboundClosed /\ ~Reconnect /\ ~LinkDrop /\ ~Restart
<1>1. cmdCh # <<>> => Head(cmdCh) = cmdCh[1] /\ 1 \in DOMAIN cmdCh
  BY DEF TypeOK
<1>2. ~GoOffline /\ ~GoOnline
  BY <1>1 DEF FirstConnection, GoOffline, GoOnline, Take, LinkOps
<1> QED
  BY <1>2 DEF FirstConnection, InboundClosed, Reconnect, LinkDrop, Restart, Unbroken

\* Settling a CALL changes no order, and the boot is not there twice.
LEMMA QueueRemove ==
  ASSUME NEW s \in Seq(Call), NEW i \in DOMAIN s
  PROVE  /\ StopsFirst(s) => StopsFirst(RemoveAt(s, i))
         /\ BootFirst(s) => /\ BootFirst(RemoveAt(s, i))
                            /\ s[i].kind = "Boot" => \A k \in Elems(RemoveAt(s, i)) : k.kind # "Boot"
<1>1. /\ DOMAIN RemoveAt(s, i) = 1 .. Len(s) - 1 /\ DOMAIN s = 1 .. Len(s) /\ Len(s) \in Nat
      /\ \A j \in 1 .. Len(s) - 1 : RemoveAt(s, i)[j] = s[IF j < i THEN j ELSE j + 1]
  BY RemoveAtProperties
<1> DEFINE old(j) == IF j < i THEN j ELSE j + 1
<1>2. \A j \in DOMAIN RemoveAt(s, i) :
        old(j) \in DOMAIN s /\ old(j) # i /\ (old(j) = 1 => j = 1) /\ (i = 1 => old(j) # 1)
  BY <1>1
<1>3. \A j, k \in DOMAIN RemoveAt(s, i) : old(j) < old(k) => j < k
  BY <1>1
<1>4. \A j \in DOMAIN RemoveAt(s, i) : RemoveAt(s, i)[j] = s[old(j)]
  BY <1>1
<1> HIDE DEF old
<1>5. StopsFirst(s) => StopsFirst(RemoveAt(s, i))
  BY <1>2, <1>3, <1>4 DEF StopsFirst
<1>6. BootFirst(s) => BootFirst(RemoveAt(s, i))
  BY <1>2, <1>4 DEF BootFirst
<1>7. BootFirst(s) /\ s[i].kind = "Boot" => \A k \in Elems(RemoveAt(s, i)) : k.kind # "Boot"
  BY <1>2, <1>4 DEF BootFirst, Elems
<1> QED
  BY <1>5, <1>6, <1>7

\* What is queued goes last: anything but a boot, or a stop with no start ahead.
LEMMA QueueAppend ==
  ASSUME NEW s \in Seq(Call), NEW x \in Call
  PROVE  /\ BootFirst(s) /\ x.kind # "Boot" => BootFirst(Append(s, x))
         /\ /\ StopsFirst(s)
            /\ x.kind \in StopKinds =>
                 \A k \in Elems(s) : k.kind \in HandshakeKinds => k.conn # x.conn
            => StopsFirst(Append(s, x))
<1>1. /\ DOMAIN s = 1 .. Len(s) /\ DOMAIN Append(s, x) = 1 .. Len(s) + 1 /\ Len(s) \in Nat
      /\ \A j \in 1 .. Len(s) : Append(s, x)[j] = s[j]
      /\ Append(s, x)[Len(s) + 1] = x
  BY ElemsAppend
<1>2. \A j \in DOMAIN Append(s, x) :
        \/ j \in DOMAIN s /\ Append(s, x)[j] = s[j]
        \/ j = Len(s) + 1 /\ Append(s, x)[j] = x
  BY <1>1
<1>3. BootFirst(s) /\ x.kind # "Boot" => BootFirst(Append(s, x))
  BY <1>2 DEF BootFirst
<1>4. ASSUME StopsFirst(s),
             x.kind \in StopKinds => \A k \in Elems(s) : k.kind \in HandshakeKinds => k.conn # x.conn
      PROVE  StopsFirst(Append(s, x))
  <2> SUFFICES ASSUME NEW i \in DOMAIN Append(s, x), NEW j \in DOMAIN Append(s, x),
                      Append(s, x)[i].kind \in StopKinds, Append(s, x)[j].kind \in HandshakeKinds,
                      Append(s, x)[i].conn = Append(s, x)[j].conn
               PROVE  i < j
    BY DEF StopsFirst
  <2>1. CASE i \in DOMAIN s /\ j \in DOMAIN s
    BY <1>1, <1>4, <2>1 DEF StopsFirst
  <2>2. CASE i \in DOMAIN s /\ j = Len(s) + 1
    BY <1>1, <2>2
  <2>3. CASE i = Len(s) + 1 /\ j \in DOMAIN s
    BY <1>1, <1>4, <2>3 DEF Elems
  <2>4. CASE i = Len(s) + 1 /\ j = Len(s) + 1
    BY <1>1, <2>4 DEF StopKinds, HandshakeKinds
  <2> QED
    BY <1>2, <2>1, <2>2, <2>3, <2>4
<1> QED
  BY <1>3, <1>4

\* What a step does to the CALLs of the only connection.
SentStart(x) == x.kind = "Authorize" /\ Starts(x.conn)
SentStop(x) ==
  /\ x.kind \in {"StopLocal", "StopEmergency"} /\ UNCHANGED <<txID, store>>
  /\ x.conn \in Connectors /\ x.tx = txID[x.conn] /\ x.tx # 0
GoesToStart(i, x) ==
  /\ AuthorizeAccepted(i) /\ calls' = Append(RemoveAt(calls, i), x)
  /\ x.kind = "StartTx" /\ x.conn = calls[i].conn

\* The steps on a connection that lasts, by what they do to the CALLs.
LEMMA UnbrokenMoves ==
  ASSUME Unbroken, TypeOK, UnbrokenInv, [Next]_vars
  PROVE  \/ UNCHANGED <<calls, txID, startPending, cpState>>
         \/ RunConnect \/ RunReturns
         \/ \E x \in Call : /\ calls' = Append(calls, x) /\ x.ans = "none"
                            /\ SentStart(x) \/ (SentStop(x) /\ UNCHANGED startPending)
                            /\ UNCHANGED <<txID, cpState>>
         \/ \E i \in DOMAIN calls : HandleReply(i) /\ calls' = RemoveAt(calls, i)
         \/ \E i \in DOMAIN calls, x \in Call :
              GoesToStart(i, x) /\ x.ans = "none" /\ UNCHANGED <<txID, startPending, cpState>>
         \/ \E i \in DOMAIN calls : CmsAnswer(i)
<1> DEFINE P == \/ UNCHANGED <<calls, txID, startPending, cpState>>
                \/ \E x \in Call : /\ calls' = Append(calls, x) /\ x.ans = "none"
                                   /\ SentStart(x) \/ (SentStop(x) /\ UNCHANGED startPending)
                                   /\ UNCHANGED <<txID, cpState>>
           Q == \/ \E i \in DOMAIN calls : HandleReply(i) /\ calls' = RemoveAt(calls, i)
                \/ \E i \in DOMAIN calls, x \in Call :
                     GoesToStart(i, x) /\ x.ans = "none" /\ UNCHANGED <<txID, startPending, cpState>>
<1> USE DEF runVars, connVars
<1>1. FirstConnection /\ calls \in Seq(Call)
  BY DEF UnbrokenInv, TypeOK
<1>2. \A w \in Seq(Call) : \A x : link = "up" => Sent(w, <<x>>) = Append(w, x)
  BY DEF Sent
<1>3. CASE HandleCommand
  <2> DEFINE c == Head(cmdCh).conn
  <2>1. loop = "select"
    BY <1>3 DEF HandleCommand, StatusCommand, PlugIn, Unplug, ClearFault, StartCharging, StopCharging,
                EmergencyStop, GoOffline, GoOnline, IgnoreCommand, Take
  <2>2. link = "up"
    BY <1>1, <2>1 DEF FirstConnection
  <2>3. ~GoOffline /\ ~GoOnline
    BY <1>1, NoReconnection
  <2>4. CASE StartCharging
    <3>1. c \in Connectors
      BY <2>4, TakenConnector DEF StartCharging, ConnectorOps
    <3>2. calls' = Sent(calls, <<NewCall("Authorize", c, 0, 0)>>) /\ UNCHANGED <<txID, cpState>>
      BY <2>4 DEF StartCharging
    <3>3. Starts(c)
      BY <2>4 DEF Starts
    <3> HIDE DEF c
    <3>4. NewCall("Authorize", c, 0, 0) \in Call
      BY <3>1, CallTypes, BoundsAssumption DEF HandshakeKinds, Wh
    <3>5. SentStart(NewCall("Authorize", c, 0, 0)) /\ NewCall("Authorize", c, 0, 0).ans = "none"
      BY <3>3 DEF SentStart, NewCall
    <3>6. calls' = Append(calls, NewCall("Authorize", c, 0, 0))
      BY <1>1, <1>2, <2>2, <3>2
    <3> QED
      BY <3>2, <3>4, <3>5, <3>6
  <2>5. ASSUME NEW kind \in {"StopLocal", "StopEmergency"}, NEW op \in ConnectorOps, Take(op),
               SendStop(kind, c), txID[c] # 0, UNCHANGED <<txID, startPending, cpState>>
        PROVE  P
    <3>1. c \in Connectors /\ txID[c] \in Nat
      BY <2>5, TakenConnector DEF TypeOK
    <3>2. PICK wh \in Wh : calls' = Sent(calls, <<NewCall(kind, c, txID[c], wh)>>)
      BY <2>5, <3>1, SendStopTypes DEF StopKinds
    <3>3. UNCHANGED store
      BY <2>5 DEF SendStop
    <3> DEFINE x == NewCall(kind, c, txID[c], wh)
    <3>4. x \in Call /\ x.ans = "none"
      BY <3>1, CallTypes DEF StopKinds, NewCall
    <3>5. SentStop(x)
      BY <2>5, <3>1, <3>3 DEF SentStop, NewCall
    <3>6. calls' = Sent(calls, <<x>>)
      BY <3>2
    <3> HIDE DEF x
    <3>7. calls' = Append(calls, x)
      BY <1>1, <1>2, <2>2, <3>6
    <3> QED
      BY <2>5, <3>4, <3>5, <3>7
  <2>6. CASE StopCharging
    BY <2>5, <2>6 DEF StopCharging, ConnectorOps, Take, Honoured
  <2>7. CASE EmergencyStop
    BY <2>5, <2>7 DEF EmergencyStop, ConnectorOps
  <2>8. StatusCommand \/ IgnoreCommand => P
    BY DEF StatusCommand, IgnoreCommand
  <2> QED
    BY <1>3, <2>3, <2>4, <2>6, <2>7, <2>8 DEF HandleCommand
<1>4. ASSUME NEW i \in DOMAIN calls, HandleReply(i)
      PROVE  Q
  <2>1. link = "up" /\ calls[i] \in Elems(calls) /\ calls[i] \in Call
    <3>1. loop = "select"
      BY <1>4 DEF HandleReply, BootAccepted, BootRefused, AuthorizeAccepted, StartAccepted, StartRefused,
                  ErrorIgnored, StopConfirmed, RecoveryConfirmed, Reply, Listening
    <3> QED
      BY <1>1, <1>4, <3>1, SettledElems DEF FirstConnection
  <2>2. CASE BootAccepted(i)
    <3>1. calls[i].kind = "Boot" /\ loop = "select"
      BY <2>2 DEF BootAccepted, Reply, Listening
    <3>2. Interrupted = {}
      BY <2>1, <3>1 DEF UnbrokenInv, OneBoot, Interrupted
    <3>3. PICK order \in SetToSeqs(Interrupted) :
            calls' = Sent(RemoveAt(calls, i), [j \in DOMAIN order |-> RecoveryStop(order[j])])
      BY <2>2 DEF BootAccepted
    <3> DEFINE n == [j \in DOMAIN order |-> RecoveryStop(order[j])]
    <3>4. n \in Seq(Call) /\ Elems(n) = {}
      BY <3>2, RecoveryElems
    <3>5. calls' = Sent(RemoveAt(calls, i), n)
      BY <3>3
    <3> HIDE DEF n
    <3>6. n = <<>>
      <4>1. DOMAIN n = {} /\ DOMAIN n = 1 .. Len(n) /\ Len(n) \in Nat
        BY <3>4 DEF Elems
      <4>2. Len(n) = 0
        BY <4>1
      <4> QED
        BY <3>4, <4>2, EmptySeq
    <3>7. calls' = RemoveAt(calls, i)
      BY <1>4, <3>5, <3>6, SettledElems DEF Sent
    <3> QED
      BY <1>4, <3>7
  <2>3. CASE AuthorizeAccepted(i)
    <3> DEFINE c == calls[i].conn
               x == NewCall("StartTx", c, 0, reg[c])
    <3>1. calls' = Sent(RemoveAt(calls, i), <<x>>) /\ UNCHANGED <<txID, startPending, cpState>>
          /\ calls[i].kind = "Authorize"
      BY <2>3 DEF AuthorizeAccepted, MeterStart, Reply
    <3>2. c \in Connectors /\ reg[c] \in Wh
      BY <2>1, <3>1 DEF Call, TypeOK
    <3>3. x \in Call /\ x.ans = "none" /\ x.kind = "StartTx" /\ x.conn = calls[i].conn
      BY <3>2, CallTypes DEF HandshakeKinds, NewCall
    <3> HIDE DEF x, c
    <3>4. calls' = Append(RemoveAt(calls, i), x)
      BY <1>2, <1>4, <2>1, <3>1, SettledElems
    <3>5. GoesToStart(i, x)
      BY <2>3, <3>3, <3>4 DEF GoesToStart
    <3> QED
      BY <3>1, <3>3, <3>5
  <2>4. CASE calls' = RemoveAt(calls, i)
    BY <1>4, <2>4
  <2> QED
    BY <1>4, <2>2, <2>3, <2>4
    DEF HandleReply, BootRefused, OnlySettled, StartAccepted, StartRefused, ErrorIgnored,
        StopConfirmed, RecoveryConfirmed, SessionClosed
<1>5. CASE HandleCall
  BY <1>5 DEF HandleCall, RemoteStart, RemoteStop, TriggerBoot, TriggerStatus, TriggerMeter, Unbroken
<1>6. ~InboundClosed /\ ~Reconnect /\ ~LinkDrop /\ ~Restart
  BY <1>1, NoReconnection
<1>7. RunConnectFails \/ MeterTick \/ UserCommand => P
  BY DEF RunConnectFails, MeterTick, UserCommand
<1> QED
  BY <1>3, <1>4, <1>5, <1>6, <1>7 DEF Next, vars

\* Before Run is called nothing waits and nothing is queued.
LEMMA UnbrokenInit == Init => UnbrokenInv
<1> SUFFICES ASSUME Init PROVE UnbrokenInv
  OBVIOUS
<1>1. calls = <<>> /\ Elems(calls) = {} /\ DOMAIN calls = {} /\ cmdCh = <<>>
  BY ElemsFew DEF Init
<1>2. FirstConnection
  BY <1>1 DEF Init, FirstConnection
<1>3. OneBoot
  BY <1>1 DEF Init, OneBoot, BootFirst, Waits
<1> QED
  BY <1>1, <1>2, <1>3 DEF UnbrokenInv, OneStart, GuardUp, Waits

\* The first connection stays the only one: no command about the link is queued.
LEMMA FirstConnectionStep ==
  Unbroken /\ TypeOK /\ FirstConnection /\ [Next]_vars => FirstConnection'
<1> SUFFICES ASSUME Unbroken, TypeOK, FirstConnection, [Next]_vars
             PROVE  FirstConnection'
  OBVIOUS
<1> USE DEF runVars, connVars
<1> DEFINE NoLinkOp == \A j \in DOMAIN cmdCh' : cmdCh'[j].op \notin LinkOps
           SameRun == UNCHANGED <<loop, offline, link>>
<1>1. ASSUME SameRun, loop # "dialing" \/ UNCHANGED <<calls, cpState>>, NoLinkOp
      PROVE  FirstConnection'
  BY <1>1 DEF FirstConnection
<1>2. UNCHANGED cmdCh => NoLinkOp
  BY DEF FirstConnection
<1>3. ASSUME NEW k, Offer(k), k.op \notin LinkOps
      PROVE  NoLinkOp
  <2>1. cmdCh \in Seq(Command) /\ (cmdCh' = cmdCh \/ cmdCh' = Append(cmdCh, k))
    BY <1>3 DEF Offer, TypeOK
  <2>2. CASE cmdCh' = Append(cmdCh, k)
    <3>1. \A j \in DOMAIN cmdCh' : (j \in DOMAIN cmdCh /\ cmdCh'[j] = cmdCh[j]) \/ cmdCh'[j] = k
      BY <2>1, <2>2
    <3> QED
      BY <1>3, <3>1 DEF FirstConnection
  <2> QED
    BY <1>2, <2>1, <2>2
<1>4. CASE HandleCommand
  <2>1. /\ loop = "select" /\ cmdCh # <<>> /\ cmdCh' = Tail(cmdCh)
        /\ StartCharging \/ SameRun \/ GoOffline \/ GoOnline
    BY <1>4 DEF HandleCommand, StatusCommand, PlugIn, Unplug, ClearFault, StartCharging, StopCharging,
                EmergencyStop, GoOffline, GoOnline, IgnoreCommand, Take
  <2>2. \A j \in DOMAIN cmdCh' : j + 1 \in DOMAIN cmdCh /\ cmdCh'[j] = cmdCh[j + 1]
    BY <2>1 DEF TypeOK
  <2>3. ~GoOffline /\ ~GoOnline
    BY NoReconnection
  <2>4. NoLinkOp
    BY <2>2 DEF FirstConnection
  <2> QED
    BY <1>1, <2>1, <2>3, <2>4 DEF StartCharging
<1>5. CASE HandleCall
  <2>1. SameRun /\ loop # "dialing"
    BY <1>5 DEF HandleCall, RemoteStart, RemoteStop, TriggerBoot, TriggerStatus, TriggerMeter, Listening
  <2>2. UNCHANGED cmdCh \/ RemoteStart \/ RemoteStop
    BY <1>5 DEF HandleCall, TriggerBoot, TriggerStatus, TriggerMeter
  <2>3. CASE RemoteStart
    <3>1. PICK c \in Connectors : Offer([op |-> "StartCharging", conn |-> c])
      BY <2>3 DEF RemoteStart
    <3> QED
      BY <1>1, <1>3, <2>1, <3>1 DEF LinkOps
  <2>4. CASE RemoteStop
    <3>1. PICK c \in Connectors : Offer([op |-> "StopCharging", conn |-> c])
      BY <2>4 DEF RemoteStop
    <3> QED
      BY <1>1, <1>3, <2>1, <3>1 DEF LinkOps
  <2> QED
    BY <1>1, <1>2, <2>1, <2>2, <2>3, <2>4
<1>6. ASSUME NEW i \in DOMAIN calls, HandleReply(i) \/ CmsAnswer(i)
      PROVE  FirstConnection'
  <2>1. SameRun /\ UNCHANGED cmdCh
    BY <1>6 DEF HandleReply, BootAccepted, BootRefused, OnlySettled, AuthorizeAccepted, StartAccepted,
                StartRefused, ErrorIgnored, StopConfirmed, RecoveryConfirmed, SessionClosed, CmsAnswer
  <2>2. loop # "dialing"
    BY <1>6 DEF FirstConnection
  <2> QED
    BY <1>1, <1>2, <2>1, <2>2
<1>7. CASE UserCommand
  <2>1. SameRun /\ UNCHANGED <<calls, cpState>>
    BY <1>7 DEF UserCommand
  <2>2. PICK op \in UserOps : \E c : Offer([op |-> op, conn |-> c])
    BY <1>7 DEF UserCommand
  <2> QED
    BY <1>1, <1>3, <2>1, <2>2 DEF Unbroken
<1>8. ~InboundClosed /\ ~Reconnect /\ ~LinkDrop /\ ~Restart
  BY NoReconnection
<1>9. MeterTick \/ UNCHANGED vars => FirstConnection'
  BY <1>1, <1>2 DEF MeterTick, vars
<1>10. RunConnect \/ RunConnectFails \/ RunReturns => FirstConnection'
  BY <1>2 DEF RunConnect, RunConnectFails, RunReturns, FirstConnection
<1> QED
  BY <1>4, <1>5, <1>6, <1>7, <1>8, <1>9, <1>10 DEF Next
\* Run does not come back, and no second boot begins.
LEMMA RunMoves ==
  ASSUME Unbroken, TypeOK, FirstConnection, [Next]_vars
  PROVE  /\ loop = "exited" => loop' = "exited"
         /\ cpState' = "Booting" => cpState = "Booting"
<1> USE DEF runVars
<1>1. CASE HandleCommand
  BY <1>1, NoReconnection
  DEF HandleCommand, StatusCommand, StartCharging, StopCharging, EmergencyStop, IgnoreCommand
<1>2. CASE HandleCall
  BY <1>2 DEF HandleCall, RemoteStart, RemoteStop, TriggerBoot, TriggerStatus, TriggerMeter
<1>3. ASSUME NEW i \in DOMAIN calls, HandleReply(i) \/ CmsAnswer(i)
      PROVE  loop' = loop /\ (cpState' = "Booting" => cpState = "Booting")
  BY <1>3 DEF HandleReply, BootAccepted, BootRefused, OnlySettled, AuthorizeAccepted, StartAccepted,
              StartRefused, ErrorIgnored, StopConfirmed, RecoveryConfirmed, SessionClosed, CmsAnswer
<1> QED
  BY <1>1, <1>2, <1>3, NoReconnection
  DEF Next, RunConnect, RunConnectFails, RunReturns, MeterTick, UserCommand, vars

\* Until the boot is accepted no handshake begins and no session opens.
LEMMA BootingStep ==
  ASSUME Unbroken, TypeOK, UnbrokenInv, [Next]_vars, cpState' = "Booting", NEW c \in Connectors
  PROVE  ~Waits(c, HandshakeKinds)' /\ store'[c] = NoRecord
<1>1. FirstConnection
  BY DEF UnbrokenInv
<1>2. cpState = "Booting"
  BY <1>1, RunMoves
<1>3. ~Waits(c, HandshakeKinds) /\ store[c] = NoRecord
  BY <1>2 DEF UnbrokenInv, OneBoot
<1>4. ~Starts(c)
  BY <1>2 DEF Starts, StartCharging, Take, Honoured, CanStart
<1>5. \A k \in Elems(calls) : ~Opens(c, k)
  BY <1>3 DEF Opens, Waits, HandshakeKinds
<1>6. store'[c] = NoRecord
  BY <1>1, <1>3, <1>5, SessionMoves, NoReconnection DEF GoesOn, Closes
<1> QED
  BY <1>3, <1>4, <1>6, StartMoves

\* The one boot stays ahead of everything, and leaves when it is accepted.
LEMMA OneBootStep ==
  ASSUME Unbroken, TypeOK, UnbrokenInv, [Next]_vars
  PROVE  OneBoot'
<1> DEFINE BootOpen == \A k \in Elems(calls') : k.kind = "Boot" => cpState' = "Booting" \/ loop' = "exited"
           NoRecovery == \A k \in Elems(calls') : k.kind # "StopPowerLoss"
           G == BootFirst(calls') /\ BootOpen /\ NoRecovery
<1>1. FirstConnection /\ OneBoot /\ calls \in Seq(Call)
  BY DEF UnbrokenInv, TypeOK
<1>2. /\ loop = "exited" => loop' = "exited"
      /\ \A k \in Elems(calls) : k.kind # "StopPowerLoss"
      /\ cpState' = cpState => \A k \in Elems(calls) : k.kind = "Boot" => cpState' = "Booting" \/ loop' = "exited"
  BY <1>1, RunMoves DEF OneBoot
<1>3. ASSUME Elems(calls') \subseteq Elems(calls) \cup {k \in Call : k.kind \notin {"Boot", "StopPowerLoss"}},
             UNCHANGED cpState, BootFirst(calls')
      PROVE  G
  BY <1>2, <1>3
<1>4. UNCHANGED <<calls, cpState>> => G
  BY <1>1, <1>3 DEF OneBoot
<1>5. ASSUME RunConnect PROVE G
  <2>1. calls' = <<Boot>> /\ cpState' = "Booting"
    BY <1>1, <1>5 DEF RunConnect, FirstConnection
  <2>2. Elems(calls') = {Boot} /\ BootFirst(calls')
    BY <2>1, ElemsFew DEF BootFirst
  <2> QED
    BY <2>1, <2>2 DEF Boot, NewCall
<1>6. ASSUME RunReturns PROVE G
  BY <1>1, <1>6 DEF RunReturns, OneBoot
<1>7. ASSUME NEW x \in Call, calls' = Append(calls, x), SentStart(x) \/ SentStop(x), UNCHANGED cpState
      PROVE  G
  <2>1. x.kind \notin {"Boot", "StopPowerLoss"}
    BY <1>7 DEF SentStart, SentStop
  <2>2. BootFirst(calls')
    BY <1>1, <1>7, <2>1, QueueAppend DEF OneBoot
  <2>3. Elems(calls') = Elems(calls) \cup {x}
    BY <1>1, <1>7, ElemsAppend
  <2> QED
    BY <1>3, <1>7, <2>1, <2>2, <2>3
<1>8. ASSUME NEW i \in DOMAIN calls
      PROVE  /\ RemoveAt(calls, i) \in Seq(Call) /\ BootFirst(RemoveAt(calls, i))
             /\ Elems(RemoveAt(calls, i)) \subseteq Elems(calls)
             /\ calls[i].kind = "Boot" => \A k \in Elems(RemoveAt(calls, i)) : k.kind # "Boot"
  BY <1>1, SettledElems, QueueRemove DEF OneBoot
<1>9. ASSUME NEW i \in DOMAIN calls, HandleReply(i), calls' = RemoveAt(calls, i)
      PROVE  G
  <2>1. CASE calls[i].kind = "Boot"
    BY <1>2, <1>8, <1>9, <2>1
  <2>2. CASE calls[i].kind # "Boot"
    <3>1. UNCHANGED cpState
      BY <1>9, <2>2
      DEF HandleReply, BootAccepted, BootRefused, OnlySettled, AuthorizeAccepted, StartAccepted, StartRefused,
          ErrorIgnored, StopConfirmed, RecoveryConfirmed, SessionClosed, Reply, runVars
    <3> QED
      BY <1>3, <1>8, <1>9, <3>1
  <2> QED
    BY <2>1, <2>2
<1>10. ASSUME NEW i \in DOMAIN calls, NEW x \in Call, GoesToStart(i, x), UNCHANGED cpState
       PROVE  G
  <2>1. calls' = Append(RemoveAt(calls, i), x) /\ x.kind = "StartTx"
    BY <1>10 DEF GoesToStart
  <2>2. BootFirst(calls') /\ Elems(calls') = Elems(RemoveAt(calls, i)) \cup {x}
    BY <1>8, <2>1, QueueAppend, ElemsAppend
  <2> QED
    BY <1>3, <1>8, <1>10, <2>1, <2>2
<1>11. ASSUME NEW i \in DOMAIN calls, CmsAnswer(i)
       PROVE  G
  <2>1. UNCHANGED cpState
    BY <1>11 DEF CmsAnswer, runVars
  <2>2. \A k \in Elems(calls') : \E l \in Elems(calls) : k.kind = l.kind
    BY <1>11, SameAnswered DEF Elems
  <2>3. BootFirst(calls')
    BY <1>1, <1>11, SameAnswered DEF BootFirst, OneBoot
  <2> QED
    BY <1>2, <2>1, <2>2, <2>3
<1> HIDE DEF G
<1>12. G
  BY <1>4, <1>5, <1>6, <1>7, <1>9, <1>10, <1>11, UnbrokenMoves
<1> QED
  BY <1>12, BootingStep DEF G, OneBoot
\* Only the end of a handshake lowers its guard, and no session is open beside it.
LEMMA GuardUpStep ==
  ASSUME Unbroken, TypeOK, UnbrokenInv, [Next]_vars, NEW c \in Connectors, Waits(c, HandshakeKinds)'
  PROVE  startPending'[c] /\ txID'[c] = 0
<1> DEFINE G == startPending'[c] /\ txID'[c] = 0
<1> USE DEF connVars
<1>1. /\ startPending \in [Connectors -> BOOLEAN] /\ txID \in [Connectors -> Nat]
      /\ OneStart(calls) /\ \A k \in Elems(calls) : k.kind # "StopPowerLoss"
  BY DEF TypeOK, UnbrokenInv, OneBoot
<1>2. Starts(c) => G
  BY <1>1 DEF Starts, StartCharging, Take, Honoured, CanStart
<1>3. CASE Waits(c, HandshakeKinds)
  <2>1. startPending[c] /\ txID[c] = 0
    BY <1>3 DEF UnbrokenInv, GuardUp
  <2>2. UNCHANGED <<txID, startPending>> => G
    BY <2>1
  <2>3. ASSUME NEW x, SentStart(x), UNCHANGED txID PROVE G
    BY <1>1, <2>1, <2>3 DEF SentStart, Starts, StartCharging
  <2>4. ASSUME NEW i \in DOMAIN calls, HandleReply(i) PROVE G
    <3>1. calls[i].kind # "StopPowerLoss"
      BY <1>1, <2>4 DEF Elems
    <3>2. CASE StartAccepted(i) \/ StartRefused(i)
      <4>1. calls[i].conn # c
        BY <1>1, <2>4, <3>2, StartResolved
      <4> QED
        BY <1>1, <2>1, <3>2, <4>1 DEF StartAccepted, StartRefused
    <3>3. CASE StopConfirmed(i)
      BY <1>1, <2>1, <3>3 DEF StopConfirmed, SessionClosed
    <3>4. ~RecoveryConfirmed(i)
      BY <3>1 DEF RecoveryConfirmed, Reply
    <3> QED
      BY <2>2, <2>4, <3>2, <3>3, <3>4
      DEF HandleReply, BootAccepted, BootRefused, OnlySettled, AuthorizeAccepted, ErrorIgnored
  <2>5. ASSUME NEW i \in DOMAIN calls, CmsAnswer(i) PROVE G
    BY <2>2, <2>5 DEF CmsAnswer
  <2>6. RunConnect \/ RunReturns => G
    BY <2>2 DEF RunConnect, RunReturns
  <2> HIDE DEF G
  <2>7. G
    BY <2>2, <2>3, <2>4, <2>5, <2>6, UnbrokenMoves DEF GoesToStart
  <2> QED
    BY <2>7 DEF G
<1> QED
  BY <1>2, <1>3, StartMoves

\* UnbrokenInv is inductive.
LEMMA UnbrokenStep ==
  Unbroken /\ TypeOK /\ UnbrokenInv /\ [Next]_vars => UnbrokenInv'
<1> SUFFICES ASSUME Unbroken, TypeOK, UnbrokenInv, [Next]_vars
             PROVE  UnbrokenInv'
  OBVIOUS
<1>1. Guarded
  BY DEF UnbrokenInv, GuardUp, Guarded
<1>2. OneStart(calls')
  BY <1>1, OneStartStep DEF UnbrokenInv
<1>3. FirstConnection'
  BY FirstConnectionStep DEF UnbrokenInv
<1> QED
  BY <1>2, <1>3, OneBootStep, GuardUpStep DEF UnbrokenInv, GuardUp

\* On a connection that lasts, however commands, remote starts and stops race,
\* a connector runs at most one start handshake and its guard is up for as long
\* as the CMS has not answered: canStartCharging (charger.go:1424-1445), which
\* runs once for the RemoteStart and again for the queued command, is enough.
THEOREM OneHandshakeIfUnbroken ==
  ASSUME Unbroken
  PROVE  Spec => []OneHandshake
<1> DEFINE I == TypeOK /\ UnbrokenInv
<1>1. Init => I
  BY TypeInit, UnbrokenInit
<1>2. I /\ [Next]_vars => I'
  BY TypeStep, UnbrokenStep
<1>3. I => OneHandshake
  BY OneStartCardinality, WaitsInFlight DEF UnbrokenInv, GuardUp, OneHandshake
<1> QED
  BY <1>1, <1>2, <1>3, PTL DEF Spec
-----------------------------------------------------------------------------
(* If the CMS answers in order as well, a stop is answered before any       *)
(* handshake behind it, so that it never ends the session of a later one.   *)

InTurn == Unbroken /\ InOrder

StopsLive == \A k \in Elems(calls) : k.kind \in StopKinds => txID[k.conn] \in {0, k.tx}
OrderInv == StopsFirst(calls) /\ StopsLive
Awaited(tx) == \E k \in Elems(calls) : k.kind = "StartTx" /\ k.tx = tx

\* What may become of the transaction of a connector.
LEMMA TxMoves ==
  ASSUME Unbroken, TypeOK, UnbrokenInv, [Next]_vars, NEW c \in Connectors
  PROVE  \/ txID'[c] = txID[c]
         \/ \E i \in DOMAIN calls :
              calls[i].conn = c /\ (StartAccepted(i) \/ (StopConfirmed(i) /\ txID'[c] = 0))
<1> DEFINE G == \/ txID'[c] = txID[c]
                \/ \E i \in DOMAIN calls :
                     calls[i].conn = c /\ (StartAccepted(i) \/ (StopConfirmed(i) /\ txID'[c] = 0))
<1> USE DEF connVars
<1>1. txID \in [Connectors -> Nat] /\ \A k \in Elems(calls) : k.kind # "StopPowerLoss"
  BY DEF TypeOK, UnbrokenInv, OneBoot
<1>2. UNCHANGED txID => G
  OBVIOUS
<1>3. ASSUME NEW i \in DOMAIN calls, HandleReply(i) PROVE G
  <2>1. calls[i].kind # "StopPowerLoss"
    BY <1>1, <1>3 DEF Elems
  <2>2. ~RecoveryConfirmed(i)
    BY <2>1 DEF RecoveryConfirmed, Reply
  <2>3. CASE StartAccepted(i)
    BY <1>1, <2>3 DEF StartAccepted
  <2>4. CASE StopConfirmed(i)
    BY <1>1, <2>4 DEF StopConfirmed, SessionClosed
  <2> QED
    BY <1>3, <2>2, <2>3, <2>4
    DEF HandleReply, BootAccepted, BootRefused, OnlySettled, AuthorizeAccepted, StartRefused, ErrorIgnored
<1>4. (\E i \in DOMAIN calls : CmsAnswer(i)) \/ RunConnect \/ RunReturns => UNCHANGED txID
  BY DEF CmsAnswer, RunConnect, RunReturns
<1> HIDE DEF G
<1>5. G
  BY <1>2, <1>3, <1>4, UnbrokenMoves
<1> QED
  BY <1>5 DEF G

\* A stop never falls behind a handshake of its connector.
LEMMA StopsFirstStep ==
  ASSUME Unbroken, TypeOK, UnbrokenInv, StopsFirst(calls), [Next]_vars
  PROVE  StopsFirst(calls')
<1>1. calls \in Seq(Call)
  BY DEF TypeOK
<1>2. \A i \in DOMAIN calls : RemoveAt(calls, i) \in Seq(Call) /\ StopsFirst(RemoveAt(calls, i))
  BY <1>1, SettledElems, QueueRemove
<1>3. UNCHANGED calls => StopsFirst(calls')
  OBVIOUS
<1>4. ASSUME NEW x \in Call, calls' = Append(calls, x), SentStart(x) \/ SentStop(x)
      PROVE  StopsFirst(calls')
  <2>1. CASE SentStart(x)
    BY <1>1, <1>4, <2>1, QueueAppend DEF SentStart, StopKinds
  <2>2. CASE SentStop(x)
    <3>1. ~Waits(x.conn, HandshakeKinds)
      BY <2>2 DEF SentStop, UnbrokenInv, GuardUp
    <3>2. \A k \in Elems(calls) : k.kind \in HandshakeKinds => k.conn # x.conn
      BY <3>1 DEF Waits
    <3> QED
      BY <1>1, <1>4, <3>2, QueueAppend
  <2> QED
    BY <1>4, <2>1, <2>2
<1>5. ASSUME NEW i \in DOMAIN calls, NEW x \in Call, GoesToStart(i, x)
      PROVE  StopsFirst(calls')
  BY <1>2, <1>5, QueueAppend DEF GoesToStart, StopKinds
<1>6. ASSUME NEW i \in DOMAIN calls, CmsAnswer(i)
      PROVE  StopsFirst(calls')
  BY <1>6, SameAnswered DEF StopsFirst
<1>7. RunConnect => StopsFirst(calls')
  BY DEF RunConnect, StopsFirst, Boot, NewCall, StopKinds
<1>8. RunReturns => UNCHANGED calls
  BY DEF RunReturns
<1> QED
  BY <1>2, <1>3, <1>4, <1>5, <1>6, <1>7, <1>8, UnbrokenMoves

\* A stop names the live transaction of its connector, if there is one.
LEMMA StopsLiveStep ==
  ASSUME InTurn, TypeOK, UnbrokenInv, OrderInv, [Next]_vars
  PROVE  StopsLive'
<1> SUFFICES ASSUME NEW k \in Elems(calls'), k.kind \in StopKinds
             PROVE  txID'[k.conn] \in {0, k.tx}
  BY DEF StopsLive
<1>1. Unbroken /\ calls \in Seq(Call) /\ k.kind \notin HandshakeKinds \cup {"Boot"}
  BY DEF InTurn, TypeOK, StopKinds, HandshakeKinds
<1>2. \/ \E l \in Elems(calls) : l.kind = k.kind /\ l.conn = k.conn /\ l.tx = k.tx
      \/ SentStop(k)
  <2> DEFINE Old == \E l \in Elems(calls) : l.kind = k.kind /\ l.conn = k.conn /\ l.tx = k.tx
  <2>1. k \in Elems(calls) => Old
    OBVIOUS
  <2>2. ASSUME NEW x \in Call, calls' = Append(calls, x), SentStart(x) \/ SentStop(x)
        PROVE  Old \/ SentStop(k)
    BY <1>1, <2>1, <2>2, ElemsAppend DEF SentStart, HandshakeKinds
  <2>3. ASSUME NEW i \in DOMAIN calls, calls' = RemoveAt(calls, i)
        PROVE  Old
    BY <2>1, <2>3, SettledElems
  <2>4. ASSUME NEW i \in DOMAIN calls, NEW x \in Call, GoesToStart(i, x)
        PROVE  Old
    <3>1. RemoveAt(calls, i) \in Seq(Call) /\ Elems(RemoveAt(calls, i)) \subseteq Elems(calls)
      BY <2>4, SettledElems
    <3>2. k \in Elems(RemoveAt(calls, i)) \cup {x}
      BY <2>4, <3>1, ElemsAppend DEF GoesToStart
    <3> QED
      BY <1>1, <2>1, <2>4, <3>1, <3>2 DEF GoesToStart, HandshakeKinds
  <2>5. ASSUME NEW i \in DOMAIN calls, CmsAnswer(i)
        PROVE  Old
    <3>1. PICK j \in DOMAIN calls : k = calls'[j]
      BY <2>5, SameAnswered DEF Elems
    <3>2. calls'[j].kind = calls[j].kind /\ calls'[j].conn = calls[j].conn
      BY <2>5, SameAnswered
    <3>3. calls'[j].tx = calls[j].tx
      BY <1>1, <2>5, <3>1, <3>2, SameAnswered, Answered DEF HandshakeKinds
    <3> QED
      BY <3>1, <3>2, <3>3 DEF Elems
  <2>6. RunConnect => k = Boot
    BY ElemsFew DEF RunConnect
  <2>7. RunReturns => UNCHANGED calls
    BY DEF RunReturns
  <2>8. Boot.kind = "Boot"
    BY DEF Boot, NewCall
  <2> HIDE DEF Old
  <2>9. Old \/ SentStop(k)
    BY <1>1, <2>1, <2>2, <2>3, <2>4, <2>5, <2>6, <2>7, <2>8, UnbrokenMoves
  <2> QED
    BY <2>9 DEF Old
<1>3. CASE SentStop(k)
  BY <1>3 DEF SentStop
<1>4. ASSUME NEW l \in Elems(calls), l.kind = k.kind, l.conn = k.conn, l.tx = k.tx
      PROVE  txID'[k.conn] \in {0, k.tx}
  <2>1. txID[l.conn] \in {0, l.tx} /\ l \in Call
    BY <1>1, <1>4 DEF OrderInv, StopsLive, Elems
  <2>2. l.conn \in Connectors
    BY <1>1, <1>4, <2>1 DEF Call
  <2>3. \A i \in DOMAIN calls : StartAccepted(i) => calls[i].conn # l.conn
    <3> SUFFICES ASSUME NEW i \in DOMAIN calls, StartAccepted(i), calls[i].conn = l.conn
                 PROVE  FALSE
      OBVIOUS
    <3>1. i = 1 /\ calls[i].kind \in HandshakeKinds
      BY DEF StartAccepted, Reply, InTurn, HandshakeKinds
    <3>2. PICK j \in DOMAIN calls : l = calls[j]
      BY DEF Elems
    <3>3. j < 1
      BY <1>4, <3>1, <3>2 DEF OrderInv, StopsFirst
    <3> QED
      BY <1>1, <3>3
  <2> QED
    BY <1>1, <1>4, <2>1, <2>2, <2>3, TxMoves
<1> QED
  BY <1>2, <1>3, <1>4
\* The reply that tells the charger of a transaction is lost only by telling it.
LEMMA AwaitedStep ==
  ASSUME InTurn, TypeOK, LedgerInv, UnbrokenInv, [Next]_vars,
         NEW tx \in DOMAIN ledger, Awaited(tx)
  PROVE  Awaited(tx)' \/ txID'[ledger[tx].conn] = tx
<1>1. PICK k \in Elems(calls) : k.kind = "StartTx" /\ k.tx = tx
  BY DEF Awaited
<1>2. calls \in Seq(Call) /\ ledger \in Seq(Ledger) /\ Unbroken /\ tx # 0
  BY DEF TypeOK, InTurn
<1>3. k.ans = "Accepted" /\ k.conn = ledger[tx].conn
  BY <1>1, <1>2 DEF LedgerInv, OwnCall, Owned
<1>4. k.conn \in Connectors
  BY <1>1, <1>2 DEF Call, Elems, HandshakeKinds
<1>5. k \in Elems(calls') => Awaited(tx)'
  BY <1>1 DEF Awaited
<1>6. ASSUME NEW x \in Call, calls' = Append(calls, x)
      PROVE  k \in Elems(calls')
  BY <1>1, <1>2, <1>6, ElemsAppend
<1>7. ASSUME NEW i \in DOMAIN calls, HandleReply(i), calls' = RemoveAt(calls, i)
      PROVE  k \in Elems(calls') \/ txID'[k.conn] = tx
  <2>1. CASE k = calls[i]
    <3>1. StartAccepted(i)
      BY <1>1, <1>3, <1>7, <2>1
      DEF HandleReply, BootAccepted, BootRefused, AuthorizeAccepted, StartRefused, ErrorIgnored,
          StopConfirmed, RecoveryConfirmed, Reply, StopKinds
    <3> QED
      BY <1>1, <1>4, <2>1, <3>1 DEF StartAccepted, TypeOK
  <2>2. CASE k # calls[i]
    BY <1>1, <1>7, <2>2, SettledElems
  <2> QED
    BY <2>1, <2>2
<1>8. ASSUME NEW i \in DOMAIN calls, NEW x \in Call, GoesToStart(i, x)
      PROVE  k \in Elems(calls')
  <2>1. k # calls[i] /\ calls' = Append(RemoveAt(calls, i), x)
    BY <1>1, <1>8 DEF GoesToStart, AuthorizeAccepted, Reply
  <2>2. RemoveAt(calls, i) \in Seq(Call) /\ k \in Elems(RemoveAt(calls, i))
    BY <1>1, <1>8, <2>1, SettledElems
  <2> QED
    BY <1>8, <2>1, <2>2, ElemsAppend
<1>9. ASSUME NEW i \in DOMAIN calls, CmsAnswer(i)
      PROVE  k \in Elems(calls')
  <2>1. PICK j \in DOMAIN calls : k = calls[j]
    BY <1>1 DEF Elems
  <2>2. j # i
    BY <1>3, <1>9, <2>1 DEF CmsAnswer
  <2> QED
    BY <1>9, <2>1, <2>2, SameAnswered DEF Elems
<1>10. ~RunConnect
  BY <1>1, ElemsFew DEF RunConnect, UnbrokenInv, FirstConnection
<1>11. RunReturns => UNCHANGED calls
  BY DEF RunReturns
<1> QED
  BY <1>1, <1>2, <1>3, <1>5, <1>6, <1>7, <1>8, <1>9, <1>10, <1>11, UnbrokenMoves

\* A transaction that is open stays live or awaited; a new one is awaited.
LEMMA OrphanStep ==
  ASSUME InTurn, TypeOK, LedgerInv, UnbrokenInv, OrderInv, [Next]_vars,
         \A tx \in DOMAIN ledger : ledger[tx].stops = {} => txID[ledger[tx].conn] = tx \/ Awaited(tx),
         NEW tx \in DOMAIN ledger', ledger'[tx].stops = {}
  PROVE  txID'[ledger'[tx].conn] = tx \/ Awaited(tx)'
<1>1. calls \in Seq(Call) /\ ledger \in Seq(Ledger) /\ Unbroken
  BY DEF TypeOK, InTurn
<1>2. CASE tx \notin DOMAIN ledger
  <2>1. PICK i \in DOMAIN calls : Opened(i)
    BY <1>2, LedgerMoves
  <2>2. calls'[i].tx = Len(ledger) + 1 /\ tx = Len(ledger) + 1
    BY <1>2, <2>1, AcceptedStart DEF Opened
  <2>3. i \in DOMAIN calls' /\ calls'[i].kind = "StartTx"
    BY <2>1, SameAnswered DEF Opened
  <2> QED
    BY <2>2, <2>3 DEF Awaited, Elems
<1>3. CASE tx \in DOMAIN ledger
  <2>1. ledger'[tx].conn = ledger[tx].conn /\ ledger[tx].stops = {}
    BY <1>3, LedgerGrows
  <2>2. PICK c \in Connectors : c = ledger[tx].conn
    <3>1. ledger[tx] \in Ledger
      BY <1>1, <1>3
    <3> QED
      BY <3>1 DEF Ledger
  <2>3. CASE Awaited(tx)
    BY <1>3, <2>1, <2>3, AwaitedStep
  <2>4. CASE txID[c] = tx
    <3>1. \A i \in DOMAIN calls : StartAccepted(i) => calls[i].conn # c
      <4> SUFFICES ASSUME NEW i \in DOMAIN calls, StartAccepted(i), calls[i].conn = c
                   PROVE  FALSE
        OBVIOUS
      <4>1. Waits(c, HandshakeKinds)
        BY DEF Waits, Elems, StartAccepted, Reply, HandshakeKinds
      <4> QED
        BY <1>1, <1>3, <2>4, <4>1 DEF UnbrokenInv, GuardUp
    <3>2. \A i \in DOMAIN calls : StopConfirmed(i) => calls[i].conn # c
      <4> SUFFICES ASSUME NEW i \in DOMAIN calls, StopConfirmed(i), calls[i].conn = c
                   PROVE  FALSE
        OBVIOUS
      <4>1. calls[i] \in Elems(calls) /\ calls[i].kind \in StopKinds /\ calls[i].ans = "Accepted"
        BY DEF Elems, StopConfirmed, Reply, StopKinds
      <4>2. ledger[calls[i].tx].stops # {}
        BY <4>1 DEF LedgerInv, OwnCall
      <4>3. calls[i].tx = tx
        BY <1>1, <1>3, <2>4, <4>1 DEF OrderInv, StopsLive
      <4> QED
        BY <2>1, <4>2, <4>3
    <3> QED
      BY <1>1, <2>1, <2>2, <2>4, <3>1, <3>2, TxMoves
  <2> QED
    BY <1>3, <2>1, <2>2, <2>3, <2>4
<1> QED
  BY <1>2, <1>3

\* With no outage and a CMS that answers in order, every transaction the CMS has
\* open is the live one of its connector or about to be told to it: a stop that
\* races a start, be it the second of an impatient operator or of RemoteStop
\* (charger.go:803-834, 1067-1082, 1464-1476), never ends another transaction.
THEOREM NoTransactionOrphaned ==
  ASSUME InTurn
  PROVE  Spec => []NoOrphan
<1> DEFINE Accounted == \A tx \in DOMAIN ledger :
                          ledger[tx].stops = {} => txID[ledger[tx].conn] = tx \/ Awaited(tx)
           I == SessionInv /\ LedgerInv /\ UnbrokenInv /\ OrderInv /\ Accounted
<1>1. Init => I
  <2> SUFFICES ASSUME Init PROVE I
    OBVIOUS
  <2>1. Elems(calls) = {} /\ DOMAIN calls = {} /\ DOMAIN ledger = {}
    BY ElemsFew DEF Init
  <2>2. OrderInv /\ Accounted
    BY <2>1 DEF OrderInv, StopsFirst, StopsLive
  <2> QED
    BY <2>2, SessionInit, LedgerInit, UnbrokenInit
<1>2. I /\ [Next]_vars => I'
  <2> SUFFICES ASSUME I, [Next]_vars PROVE I'
    OBVIOUS
  <2>1. TypeOK /\ Unbroken
    BY DEF SessionInv, InTurn
  <2>2. OrderInv'
    BY <2>1, StopsFirstStep, StopsLiveStep DEF OrderInv
  <2>3. Accounted'
    BY <2>1, OrphanStep
  <2> QED
    BY <2>1, <2>2, <2>3, SessionInvStep, LedgerStep, UnbrokenStep
<1>3. I => NoOrphan
  BY DEF NoOrphan, Awaited, Elems
<1> QED
  BY <1>1, <1>2, <1>3, PTL DEF Spec
=============================================================================
