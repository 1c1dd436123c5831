------------------------- MODULE ChargerProperties -------------------------
(***************************************************************************)
(* What the charger actor must never do and must eventually do.  The       *)
(* properties of the first group hold for every environment; the others    *)
(* name the environment they need.                                         *)
(***************************************************************************)
EXTENDS Charger

InFlight(c, kinds) ==
  {i \in DOMAIN calls : calls[i].conn = c /\ calls[i].kind \in kinds}

Ledger == [conn : Connectors, start : Wh, stops : SUBSET Wh]

\* Every variable keeps its type: a CALL or a command about a connector names
\* one that exists, and cmdCh never exceeds its capacity.
TypeOK ==
  /\ loop \in {"dialing", "select", "backoff", "exited"}
  /\ cpState \in CpStates /\ offline \in BOOLEAN
  /\ link \in {"up", "down"} /\ inbound \in {"open", "nil"}
  /\ calls \in Seq(Call)
  /\ cmdCh \in Seq(Command) /\ Len(cmdCh) <= CmdCap
  /\ status \in [Connectors -> Statuses]
  /\ txID \in [Connectors -> Nat]
  /\ startPending \in [Connectors -> BOOLEAN]
  /\ reg \in [Connectors -> Wh]
  /\ store \in [Connectors -> Record]
  /\ snap \in [cp : CpStates, status : [Connectors -> Statuses],
               tx : [Connectors -> Nat], reg : [Connectors -> Wh]]
  /\ announced \in [Connectors -> Statuses \cup {"none"}]
  /\ ledger \in Seq(Ledger)

-----------------------------------------------------------------------------
(* In every environment                                                    *)

\* A connector holds a transaction exactly while it shows Charging or
\* Finishing, whatever late reply, emergency stop or outage comes between.
TxMatchesStatus ==
  \A c \in Connectors : txID[c] # 0 <=> status[c] \in {"Charging", "Finishing"}

\* A live transaction is always on disk, so no crash can lose it: the record
\* of connector c is the one of the transaction c is running.
LiveTxPersisted ==
  \A c \in Connectors : txID[c] # 0 => store[c].tx = txID[c]

\* GoOffline leaves nothing behind that could reach the CMS: until GoOnline
\* succeeds there is no link and no CALL is waiting, whatever handlers ran.
OfflineQuiescent ==
  offline /\ loop = "select" => link = "down" /\ calls = <<>> /\ cpState = "Offline"

\* Whenever the actor is back in select, State() shows the current state.
SnapshotFresh == snap = View

-----------------------------------------------------------------------------
(* If the CMS confirms the stops of recovery                               *)

\* While online, the CMS has been told the present status of each connector
\* on this connection, unless the stop that will tell it is in flight.
AnnouncedWhenOnline ==
  cpState = "Online" /\ link = "up" =>
    \A c \in Connectors :
      announced[c] = status[c] \/ InFlight(c, {"StopPowerLoss"}) # {}

-----------------------------------------------------------------------------
(* If the connection lasts, whatever the operator and the CMS ask for       *)

\* No transaction is orphaned: one the CMS has open is the live transaction of
\* its connector, or the reply that tells the charger of it is on its way.
NoOrphan ==
  \A tx \in DOMAIN ledger :
    ledger[tx].stops = {} =>
      \/ txID[ledger[tx].conn] = tx
      \/ \E i \in DOMAIN calls : calls[i].kind = "StartTx" /\ calls[i].tx = tx

\* A connector runs at most one start handshake, and the guard that keeps a
\* second one out is up for as long as the first is unanswered.
OneHandshake ==
  \A c \in Connectors :
    LET starts == InFlight(c, HandshakeKinds)
    IN  Cardinality(starts) <= 1 /\ (starts # {} => startPending[c])

-----------------------------------------------------------------------------
(* If the operator starts no session too early, and the CMS starts none     *)

\* What comes between the two halves of a start handshake - an unplug, an
\* emergency stop, a drop, a repeated boot with its recovery - leaves the
\* connector without a session: the accepted start replaces no transaction and
\* no record, and no stop is under way whose confirmation would end it.
HandshakeAlone ==
  \A c \in Connectors :
    InFlight(c, HandshakeKinds) # {} =>
      txID[c] = 0 /\ store[c] = NoRecord /\ InFlight(c, StopKinds) = {}

\* As long as the process lives, the readings of the transactions of a connector
\* do not overlap: no stop is below its meterStart, and a later transaction
\* starts at or after the reading any earlier one is closed with.
NoEnergyBilledTwice ==
  \A t, u \in DOMAIN ledger :
    t <= u /\ ledger[t].conn = ledger[u].conn =>
      \A wh \in ledger[t].stops :
        IF t = u THEN ledger[t].start <= wh ELSE wh <= ledger[u].start

\* The charger and the CMS together keep the abstract session journal: a
\* record opens only for a fresh transaction on a free connector, and leaves
\* the disk only after the CMS has closed its transaction, in spite of drops,
\* lost replies, replays, restarts and going offline.
Journal == INSTANCE SessionJournal WITH
  held <- [c \in Connectors |-> store[c].tx],
  issued <- Len(ledger),
  closed <- {tx \in DOMAIN ledger : ledger[tx].stops # {}}

KeepsJournal == Journal!Spec

-----------------------------------------------------------------------------
(* Liveness, once outages stop                                             *)

\* From some point on the link is not cut, by the network or by GoOffline, the
\* operator does not stay offline, and the process neither stops nor restarts.
Calm ==
  /\ <>[][link' = link \/ link = "down"]_vars
  /\ <>[]~offline
  /\ <>[][~Restart /\ ~RunReturns]_vars

\* A persisted session the process does not hold, left by a restart, is
\* closed on the CMS and forgotten.
RecoveryCompletes ==
  Calm => \A c \in Connectors : (store[c] # NoRecord /\ txID[c] = 0) ~> store[c] = NoRecord

\* A session that is being stopped ends: Finishing is never a dead end.
StopCompletes ==
  Calm => \A c \in Connectors : status[c] = "Finishing" ~> status[c] # "Finishing"

\* Whatever the outage, drop, restart or offline period, the charger ends up
\* online again.
ComesBack == Calm => <>[](cpState = "Online")

-----------------------------------------------------------------------------
(* What a comment of the code says and the code does not do: the run that  *)
(* checks it finds it violated.                                            *)

\* charger.go:269-273: startPending is true only until the handshake resolves,
\* so it cannot stay up for ever once the outages are over.
GuardReleased ==
  Calm => \A c \in Connectors : startPending[c] ~> ~startPending[c]
=============================================================================
