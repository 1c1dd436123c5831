------------------------------ MODULE Handover ------------------------------
(***************************************************************************)
(* Two chargers of one CPID, one after the other (startCharger,            *)
(* internal/api/server.go): a configure request cancels the context of the *)
(* running actor and starts another one at once, without waiting for the   *)
(* first to return.  Both are the actor of Charger.  They share the        *)
(* session store and the CMS, and nothing else.                            *)
(*                                                                         *)
(* The variables of Charger are those of the new actor; the old one's have *)
(* "old" in front.  A cancelled actor goes on as any actor does until its  *)
(* select takes ctx.Done, which it picks at random among what is ready, so *)
(* it may still take frames, commands and ticks.  A Send with a cancelled  *)
(* context may succeed or break the connection ("drop"); a dial fails.     *)
(***************************************************************************)
EXTENDS ChargerProperties

VARIABLES
  oldLoop, oldCpState, oldOffline, oldLink, oldInbound, oldCalls, oldCmdCh,
  oldStatus, oldTxID, oldStartPending, oldReg, oldSnap, oldAnnounced,
  replaced,  \* startCharger has cancelled the old actor and started the new one
  looked,    \* the new actor has looked for interrupted sessions
  late       \* since then, the old one has changed what it should not, see Late

newVars == <<runVars, calls, cmdCh, connVars, snap, announced>>
oldVars == <<oldLoop, oldCpState, oldOffline, oldLink, oldInbound, oldCalls, oldCmdCh,
             oldStatus, oldTxID, oldStartPending, oldReg, oldSnap, oldAnnounced>>
handoverVars == <<newVars, oldVars, store, ledger, replaced, looked, late>>

Old == INSTANCE ChargerProperties WITH
  loop <- oldLoop, cpState <- oldCpState, offline <- oldOffline, link <- oldLink,
  inbound <- oldInbound, calls <- oldCalls, cmdCh <- oldCmdCh, status <- oldStatus,
  txID <- oldTxID, startPending <- oldStartPending, reg <- oldReg, snap <- oldSnap,
  announced <- oldAnnounced

\* One process: what ends it ends both actors, and Charger has that.
ASSUME OneProcessAssumption == "restart" \notin Outages

HandoverInit ==
  /\ Init /\ Old!Init
  /\ replaced = FALSE /\ looked = FALSE /\ late = FALSE

\* startCharger, under s.mu.
Replace ==
  /\ ~replaced /\ replaced' = TRUE
  /\ UNCHANGED <<newVars, oldVars, store, ledger, looked, late>>

\* The cancelled actor refreshes or deletes the record of its own session ...
OwnSession(c) ==
  oldTxID[c] # 0 /\ store[c].tx = oldTxID[c] /\ store'[c].tx \in {0, oldTxID[c]}

\* ... or does something else to a record its successor may have seen or made:
\* Put, UpdateMeter and Delete know the connector, and not the transaction.
Late == looked /\ \E c \in Connectors : store'[c] # store[c] /\ ~OwnSession(c)

\* A dial with a cancelled context fails.
MayDial == replaced /\ oldLink = "down" => oldLink' = "down"

OldStep ==
  /\ Old!Next /\ MayDial
  /\ late' = (late \/ Late)
  /\ UNCHANGED <<newVars, replaced, looked>>

NewStep ==
  /\ replaced /\ Next
  /\ looked' = (looked \/ cpState' = "Online")
  /\ UNCHANGED <<oldVars, replaced, late>>

HandoverNext == OldStep \/ Replace \/ NewStep

HandoverSpec == HandoverInit /\ [][HandoverNext]_handoverVars

-----------------------------------------------------------------------------
(* Properties                                                              *)

\* Both actors keep their types, whatever the other does to store and ledger.
HandoverTypeOK ==
  /\ TypeOK /\ Old!TypeOK
  /\ replaced \in BOOLEAN /\ looked \in BOOLEAN /\ late \in BOOLEAN

\* If no session is started too early: the two actors and the CMS keep the session
\* journal as one actor does, until the cancelled one changes a record that is not
\* its own after its successor has looked.
JournalHandedOver == [][~late' => [Journal!Next]_(Journal!vars)]_handoverVars

\* If the CMS confirms the stops of recovery: while the new actor is online, each
\* record is of its own live transaction or of one it is asking the CMS to stop.
\* No session of its predecessor is left on disk until some later boot.
InheritedIsClosed ==
  ~late /\ cpState = "Online" /\ link = "up" =>
    \A c \in Connectors :
      store[c].tx \in {0, txID[c]} \/ InFlight(c, {"StopPowerLoss"}) # {}
=============================================================================
