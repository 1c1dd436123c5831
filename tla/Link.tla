-------------------------------- MODULE Link --------------------------------
(***************************************************************************)
(* The charger and the CMS joined by websocket clients: the part of the    *)
(* actor that owns the connection (internal/actor/charger.go: Run, call,   *)
(* handleInbound, the replies, GoOffline, GoOnline and the reconnect) over *)
(* WsClient and Frame, and the serving loop of cmd/stub-cms.  What the     *)
(* CALLs mean is in Charger: here a handler sends CALLs and replies, and a *)
(* callback may send one more CALL.                                        *)
(*                                                                         *)
(* A handler writes its frames one after the other and the actor does      *)
(* nothing else meanwhile: outbox holds what it still has to write.        *)
(***************************************************************************)
EXTENDS WsClient, FiniteSets

CONSTANTS
  Ids,          \* message ids of the actor's CALLs: fresh ones never repeat
  CmsCalls,     \* frames a CMS other than the stub sends of its own accord
  MaxPending,   \* bound: unanswered CALLs at which no command sends another
  MaxExtra      \* bound: frames the CMS sends of its own accord

ASSUME IdsAssumption == IsFiniteSet(Ids) /\ Ids \subseteq STRING
ASSUME BoundsAssumption == MaxPending \in Nat \ {0} /\ MaxExtra \in Nat
ASSUME CmsCallsAssumption == CmsCalls \subseteq Seq(Json)

VARIABLES
  mode,     \* where Run is: "dialing", "select", "backoff" or "exited"
  conn,     \* the client in c.ws; 0 before the first dial
  sel,      \* the client whose inbound channel Run selects on, 0 for nil
  offline,  \* between GoOffline and a successful GoOnline
  pending,  \* ids of the CALLs waiting for a reply
  outbox,   \* frames the running handler still has to Send
  askedOn,  \* per id: the connection it was first sent on, 0 if never used
  ran,      \* per id: how often a callback of its CALL has run
  extra     \* frames the CMS has sent of its own accord

actor == <<mode, conn, sel, offline, pending, outbox, askedOn, ran>>
vars == <<sock, actor, extra>>

Init ==
  /\ sock = [c \in Conns |-> NewSock]
  /\ mode = "dialing" /\ conn = 0 /\ sel = 0 /\ offline = FALSE
  /\ pending = {} /\ outbox = <<>>
  /\ askedOn = [i \in Ids |-> 0] /\ ran = [i \in Ids |-> 0]
  /\ extra = 0

-----------------------------------------------------------------------------
(* Sending                                                                 *)

Unused == {i \in Ids : askedOn[i] = 0}
CallFrame(i) == Marshal(Call(i, "Heartbeat", Absent))

\* call, on connection c, of those waiting after the handler's other effects:
\* one CALL with a fresh id (uuid.NewString) is registered and then sent, after
\* the frames in "before".
Ask(c, waiting, before) ==
  /\ Unused # {}
  /\ LET i == CHOOSE i \in Unused : TRUE
     IN  /\ pending' = waiting \cup {i}
         /\ outbox' = Append(before, CallFrame(i))
         /\ askedOn' = [askedOn EXCEPT ![i] = c]

AskNothing(waiting, before) ==
  pending' = waiting /\ outbox' = before /\ UNCHANGED askedOn

Idle == mode = "select" /\ outbox = <<>>

\* A command, a tick of the heartbeat or of the meter sends a CALL.
SendCall ==
  /\ Idle /\ Cardinality(pending) < MaxPending
  /\ Ask(conn, pending, <<>>)
  /\ UNCHANGED <<sock, mode, conn, sel, offline, ran, extra>>

\* Send returns: the frame is out, or lost.  Run selects on the channel of a
\* new client once its boot has been sent.
SendReturns ==
  /\ outbox # <<>> /\ outbox' = Tail(outbox)
  /\ \E s \in Written(sock[conn], Head(outbox)) : sock' = [sock EXCEPT ![conn] = s]
  /\ IF mode = "select" THEN UNCHANGED <<mode, sel>> ELSE mode' = "select" /\ sel' = conn
  /\ UNCHANGED <<conn, offline, pending, askedOn, ran, extra>>

\* Send fails: a CALL is forgotten and a reply is given up.  Without its first
\* boot Run returns, and a reconnect closes its client and backs off again.
SendReturnsError ==
  /\ outbox # <<>> /\ outbox' = Tail(outbox) /\ SendFails(sock[conn])
  /\ pending' = pending \ {Decode(Head(outbox)).id}
  /\ sock' = IF mode = "select" THEN sock ELSE [sock EXCEPT ![conn] = Closed(@)]
  /\ mode' = IF mode = "dialing" THEN "exited" ELSE mode
  /\ UNCHANGED <<conn, sel, offline, askedOn, ran, extra>>

-----------------------------------------------------------------------------
(* The life of the connection                                              *)

\* The next client is dialled and takes the place of c.ws; then it boots.
Dial ==
  /\ conn < MaxConn
  /\ conn' = conn + 1 /\ sock' = [sock EXCEPT ![conn + 1] = Connected]
  /\ Ask(conn + 1, pending, <<>>)
  /\ UNCHANGED <<ran, extra>>

\* Run: the first connection, which is not tried twice.
RunConnect ==
  /\ mode = "dialing" /\ conn = 0
  /\ \/ Dial /\ UNCHANGED <<mode, sel, offline>>
     \/ mode' = "exited"
        /\ UNCHANGED <<sock, conn, sel, offline, pending, outbox, askedOn, ran, extra>>

\* onUnexpectedDrop.  The mutant keeps the CALLs of the lost connection.
DropKeeps == mode' = "backoff" /\ UNCHANGED <<pending, sel>>
OnUnexpectedDrop == mode' = "backoff" /\ pending' = {} /\ UNCHANGED sel

\* The channel Run selects on is closed and drained.
InboundClosed ==
  /\ Idle /\ sel # 0
  /\ sock[sel].reader = "exited" /\ sock[sel].inbound = <<>>
  /\ \/ offline /\ sel' = 0 /\ UNCHANGED <<mode, pending>>
     \/ ~offline /\ OnUnexpectedDrop
  /\ UNCHANGED <<sock, conn, offline, outbox, askedOn, ran, extra>>

\* reconnectWithBackoff: an attempt whose dial succeeds.
Redial ==
  /\ mode = "backoff" /\ outbox = <<>> /\ Dial
  /\ UNCHANGED <<mode, sel, offline>>

\* handleGoOffline: the CALLs are forgotten and the client is closed.
GoOffline ==
  /\ Idle /\ ~offline
  /\ offline' = TRUE /\ pending' = {}
  /\ sock' = [sock EXCEPT ![conn] = Closed(@)]
  /\ UNCHANGED <<mode, conn, sel, outbox, askedOn, ran, extra>>

\* handleGoOnline: a single attempt.  When the dial fails Run selects on nil.
GoOnline ==
  /\ Idle /\ offline
  /\ \/ Dial /\ offline' = FALSE /\ sel' = conn + 1 /\ UNCHANGED mode
     \/ sel' = 0
        /\ UNCHANGED <<sock, mode, conn, offline, pending, outbox, askedOn, ran, extra>>

\* The context is cancelled: Send and the backoff give up and Run returns.  (In
\* the first dial this is a failed dial.)
Shutdown ==
  /\ mode # "exited" /\ conn # 0
  /\ mode' = "exited" /\ outbox' = <<>> /\ sel' = 0
  /\ sock' = [sock EXCEPT ![conn] = Closed(@)]
  /\ UNCHANGED <<conn, offline, pending, askedOn, ran, extra>>

-----------------------------------------------------------------------------
(* handleInbound                                                           *)

\* The frame Run takes from the channel it selects on.
Taken == Decode(Head(sock[sel].inbound))

Take ==
  /\ Idle /\ sel # 0 /\ sock[sel].inbound # <<>>
  /\ sock' = [sock EXCEPT ![sel].inbound = Tail(@)]
  /\ UNCHANGED <<mode, conn, sel, offline, extra>>

\* A result or an error of a pending CALL: it is forgotten, and its callback
\* runs and may send a CALL.  The mutant forgets it only with a result.
Settles(f) == ~offline /\ f.type \in {"CALLRESULT", "CALLERROR"} /\ f.id \in pending
WithoutId(f) == IF f.type = "CALLRESULT" THEN pending \ {f.id} ELSE pending
Unsettled(f) == pending \ {f.id}
TakeReply ==
  /\ Take /\ Settles(Taken)
  /\ ran' = [ran EXCEPT ![Taken.id] = @ + 1]
  /\ AskNothing(Unsettled(Taken), <<>>) \/ Ask(conn, Unsettled(Taken), <<>>)

\* handleIncomingCall: one reply, and a trigger then sends what it asks for,
\* if there is such a thing.
Handled == {"RemoteStartTransaction", "RemoteStopTransaction", "Reset",
            "ChangeAvailability", "TriggerMessage", "UnlockConnector"}
ReplyTo(call) ==
  IF call.action \in Handled
  THEN Marshal(CallResult(call.id, EmptyObject))
  ELSE Marshal(CallError(call.id, "NotImplemented", "not implemented", EmptyObject))
TakeCall ==
  /\ Take /\ ~offline /\ Taken.type = "CALL"
  /\ \/ AskNothing(pending, <<ReplyTo(Taken)>>)
     \/ Taken.action = "TriggerMessage" /\ Ask(conn, pending, <<ReplyTo(Taken)>>)
  /\ UNCHANGED ran

\* What is malformed, answers nothing, or comes while offline is dropped.
TakeNothing ==
  /\ Take
  /\ offline \/ (~Settles(Taken) /\ Taken.type # "CALL")
  /\ AskNothing(pending, <<>>) /\ UNCHANGED ran

Receive == TakeReply \/ TakeCall \/ TakeNothing

-----------------------------------------------------------------------------
(* The CMS: the serving loop of handleWS, one goroutine per connection     *)

Known == {"BootNotification", "Heartbeat", "StatusNotification", "Authorize",
          "StartTransaction", "StopTransaction", "MeterValues", "DataTransfer"}
HandleCall(call) ==
  IF call.action \in Known
  THEN Marshal(CallResult(call.id, EmptyObject))
  ELSE Marshal(CallError(call.id, "InternalError", "unknown action", EmptyObject))

\* It reads the next frame only when it has written its reply to the last.
CmsReads(c) ==
  /\ sock[c].toCms # <<>> /\ sock[c].reply = <<>>
  /\ LET f == Decode(Head(sock[c].toCms))
     IN  sock' = [sock EXCEPT ![c].toCms = Tail(@),
                   ![c].reply = IF f.type = "CALL" THEN <<HandleCall(f)>> ELSE <<>>]
  /\ UNCHANGED <<actor, extra>>

CmsWrites(c) ==
  /\ sock[c].wire = "up" /\ sock[c].reply # <<>>
  /\ Len(sock[c].toCharger) < WireCap
  /\ sock' = [sock EXCEPT ![c].reply = <<>>, ![c].toCharger = @ \o sock[c].reply]
  /\ UNCHANGED <<actor, extra>>

\* Another CMS also calls the charger, repeats a reply it gave on this or an
\* earlier connection, refuses a CALL, or sends what is no frame.
CmsSends(c) ==
  /\ extra < MaxExtra /\ extra' = extra + 1
  /\ sock[c].wire = "up" /\ Len(sock[c].toCharger) < WireCap
  /\ \E f \in CmsCalls
            \cup {Marshal(CallResult(i, EmptyObject)) : i \in Ids \ Unused}
            \cup {Marshal(CallError(i, "GenericError", "", EmptyObject)) : i \in Ids \ Unused} :
       sock' = [sock EXCEPT ![c].toCharger = Append(@, f)]
  /\ UNCHANGED actor

-----------------------------------------------------------------------------

Next ==
  \/ RunConnect \/ SendCall \/ SendReturns \/ SendReturnsError
  \/ InboundClosed \/ Redial \/ GoOffline \/ GoOnline \/ Shutdown
  \/ TakeReply \/ TakeCall \/ TakeNothing
  \/ \E c \in Conns :
       \/ (ReadFrame(c) \/ Deliver(c) \/ ReadFails(c) \/ Abandon(c) \/ Cut(c))
          /\ UNCHANGED <<actor, extra>>
       \/ CmsReads(c) \/ CmsWrites(c) \/ CmsSends(c)

\* Every goroutine keeps running: select takes a ready channel some time, a
\* Write returns once there is room or the connection is broken, the read
\* loop notices a broken connection, and the CMS keeps serving.
Fairness ==
  /\ WF_vars(SendReturns \/ SendReturnsError)
  /\ WF_vars(Receive) /\ WF_vars(InboundClosed) /\ WF_vars(Redial)
  /\ \A c \in Conns :
       /\ WF_vars(ReadLoop(c) /\ UNCHANGED <<actor, extra>>)
       /\ WF_vars(CmsReads(c)) /\ WF_vars(CmsWrites(c))

Spec == Init /\ [][Next]_vars /\ Fairness

-----------------------------------------------------------------------------
(* Properties                                                              *)

\* Every variable keeps its type, no channel holds more than its capacity,
\* and a read loop holds at most one frame, and none once it has ended.
TypeOK ==
  /\ mode \in {"dialing", "select", "backoff", "exited"}
  /\ conn \in 0 .. MaxConn /\ sel \in 0 .. conn /\ offline \in BOOLEAN
  /\ pending \subseteq Ids /\ Len(outbox) <= 2
  /\ askedOn \in [Ids -> 0 .. MaxConn] /\ ran \in [Ids -> Nat] /\ extra \in 0 .. MaxExtra
  /\ \A c \in Conns :
       LET s == sock[c]
       IN  /\ s.wire \in {"none", "up", "cut"} /\ s.closed \in BOOLEAN
           /\ s.reader \in {"none", "reading", "exited"}
           /\ Len(s.hand) <= 1 /\ (s.hand # <<>> => s.reader = "reading")
           /\ Len(s.inbound) <= InCap
           /\ Len(s.toCms) <= WireCap /\ Len(s.toCharger) <= WireCap

\* Whatever the CMS repeats, and on whichever connection it does so, the
\* callback of a CALL runs at most once, and only for a reply that came over
\* the connection the CALL was sent on.  A second run would start or stop a
\* transaction twice.
SettledOnce ==
  [][\A i \in Ids : ran'[i] # ran[i] => ran[i] = 0 /\ askedOn[i] = sel]_vars

\* No read loop outlives its connection: once the client is closed, or another
\* one has taken its place, its goroutine ends, with a frame in hand or not.
ReadLoopsEnd ==
  \A c \in Conns :
    (sock[c].closed \/ c < conn) /\ sock[c].reader = "reading" ~> sock[c].reader = "exited"

\* With a CMS that keeps serving, no CALL waits for ever, through drops, going
\* offline and reconnects: it is answered, or forgotten with its connection.
\* Nobody stays blocked in a Write with the others waiting for it either.
EveryCallSettles ==
  \A i \in Ids : i \in pending ~> i \notin pending \/ mode = "exited"

\* The frames between the CMS and the actor, on the current connection, are a
\* FIFO link that loses nothing while it is up.
Current == IF conn = 0 THEN NewSock ELSE sock[conn]
Fifo == INSTANCE FifoLink WITH
  up <- Current.wire = "up",
  queue <- Current.inbound \o Current.hand \o Current.toCharger

ImplementsFifo == Fifo!Spec
=============================================================================
