------------------------------- MODULE Meter -------------------------------
(***************************************************************************)
(* The metering of one connector: the engine of internal/sim/meter, the    *)
(* faults it may be given, and what the actor does with its readings from  *)
(* the start of a session to its stop or its recovery after an outage      *)
(* (internal/actor/charger.go).  One process life; a session is started    *)
(* here once its idTag is authorized, and the CMS answers in order.        *)
(*                                                                         *)
(* Energy is counted in grains, Grain of them to a Wh, power in grains per *)
(* unit of time, the state of charge as the energy in the battery.  The    *)
(* code's floats become integers: only the taper divides, and it rounds    *)
(* down.                                                                   *)
(***************************************************************************)
EXTENDS Integers, Functions

CONSTANTS
  Types,     \* "AC", "DC": charger types considered
  Grain,     \* grains in a Wh
  Ceiling,   \* the configured MaxPowerW
  Full,      \* BatteryCapacityKWh
  Initial,   \* InitialSoC
  Phases,    \* of an AC charger: 1 or 3
  Interval,  \* MeterInterval
  Powers,    \* what the operator asks SetPower for
  Modes,     \* what the operator asks SetMeterFault for
  MaxTime    \* bound: the last instant

\* "if soc < 80"
Knee == (4 * Full) \div 5

\* Between two samples less is delivered than the taper has to spare.
ASSUME EngineAssumption ==
  /\ Types \subseteq {"AC", "DC"} /\ Phases \in {1, 3}
  /\ Grain \in Nat \ {0} /\ Ceiling \in Nat /\ Interval \in Nat /\ MaxTime \in Nat
  /\ Full \in Nat \ {0} /\ Initial \in 0 .. Full
  /\ Ceiling * Interval <= Full - Knee
ASSUME OperatorAssumption == Powers \subseteq Int /\ Modes \subseteq STRING

VARIABLES
  now,      \* time.Now
  type,     \* Engine.Type
  eng,      \* the rest of the Engine: wh, startWh, soc, lastAt and limit
  fault,    \* meterFault
  phase,    \* of the connector: "idle", "starting", "charging" or "finishing"
  link,     \* "down", "booting" or, once the boot is accepted, "online"
  start,    \* meterStart and timestamp of the last StartTransaction
  record,   \* the persisted last reading of the session, or NoRecord
  waiting,  \* transaction CALLs without an answer: "start", "stop", "recovery"
  out,      \* the CALL sent by the last step, if any
  top,      \* the highest reading a CALL has carried
  gap,      \* the longest time between two samples of the session
  metered   \* the reading of the last sample taken for MeterValues

session == <<phase, link, waiting>>
history == <<top, gap, metered>>
vars == <<now, type, eng, fault, session, start, record, out, history>>

Times == 0 .. MaxTime
NoRecord == [wh |-> 0, at |-> MaxTime + 1]
Nothing == [kind |-> "none", wh |-> 0, at |-> 0, values |-> <<>>]

\* The zero time of an engine that was never started.
NeverSampled == MaxTime + 1

Clamp(v, lo, hi) == IF v < lo THEN lo ELSE IF v > hi THEN hi ELSE v

\* strconv.Itoa(int(EnergyWh))
Reading(grains) == grains \div Grain

\* newEngineForCfg
Init ==
  /\ now = 0 /\ type \in Types
  /\ eng = [wh |-> 0, startWh |-> 0, soc |-> 0, lastAt |-> NeverSampled, limit |-> Ceiling]
  /\ fault = "none"
  /\ phase = "idle" /\ link = "online" /\ waiting = {}
  /\ start = [wh |-> 0, at |-> 0] /\ record = NoRecord
  /\ out = Nothing /\ top = 0 /\ gap = 0 /\ metered = 0

-----------------------------------------------------------------------------
(* The engine                                                              *)

\* power: DC tapers linearly from the knee to zero.  The mutant does not taper.
Untapered(e) == IF e.soc >= Full /\ type = "DC" THEN 0 ELSE e.limit
Power(e) ==
  IF type = "AC" \/ e.soc < Knee THEN e.limit
  ELSE IF e.soc >= Full THEN 0
  ELSE (e.limit * (Full - e.soc)) \div (Full - Knee)

\* Start.  The mutants keep the time of the last sample, or start at zero.
StartUntimed(e, at, wh) ==
  [e EXCEPT !.wh = wh, !.startWh = wh,
            !.lastAt = IF @ = NeverSampled THEN at ELSE @,
            !.soc = IF type = "DC" THEN Initial ELSE 0]
StartAtZero(e, at, wh) ==
  [e EXCEPT !.wh = 0, !.startWh = 0, !.lastAt = at,
            !.soc = IF type = "DC" THEN Initial ELSE 0]
EngineStart(e, at, wh) ==
  [e EXCEPT !.wh = wh, !.startWh = wh, !.lastAt = at,
            !.soc = IF type = "DC" THEN Initial ELSE 0]

\* Sample: the power before the sample is taken to have flowed since the last.
Sample(e, at) ==
  LET wh == e.wh + Power(e) * (at - e.lastAt)
  IN  [e EXCEPT !.wh = wh, !.lastAt = at,
                !.soc = IF type = "DC" THEN Clamp(Initial + wh - e.startWh, 0, Full) ELSE @]

\* ToOCPP: the samples of a MeterValue by measurand and phase.  The energy and
\* the state of charge keep their value; of V, I and P only whether it is the
\* measured one.
ElectricPhases(l1) == IF Phases = 1 THEN {l1} ELSE {"L1", "L2", "L3"}
ElectricKeys ==
  {<<"Power", "">>} \cup
  IF type = "DC" THEN {<<"Voltage", "">>, <<"Current", "">>}
  ELSE {<<"Voltage", p>> : p \in ElectricPhases("L1-N")}
       \cup {<<"Current", p>> : p \in ElectricPhases("L1")}
SocKeys == IF type = "DC" THEN {<<"SoC", "">>} ELSE {}
Samples(e) ==
  [k \in ElectricKeys \cup SocKeys \cup {<<"Energy", "">>} |->
     IF k[1] = "Energy" THEN Reading(e.wh) ELSE IF k[1] = "SoC" THEN e.soc ELSE "measured"]

Faults == {"none", "dead_silent", "dead_empty", "dead_zero", "no_current", "no_vip"}

\* dropMeasurands and zeroMeasurands
Drop(mv, ms) == Restrict(mv, {k \in DOMAIN mv : k[1] \notin ms})
Zero(mv, ms) == [k \in DOMAIN mv |-> IF k[1] \in ms THEN "0" ELSE mv[k]]

\* ApplyFault, of a fault that lets the CALL go out.
ApplyFault(mv, f) ==
  CASE f = "dead_empty" -> <<>>
    [] f = "dead_zero" -> Zero(mv, {"Voltage", "Current", "Power"})
    [] f = "no_current" -> Drop(mv, {"Current"})
    [] f = "no_vip" -> Drop(mv, {"Voltage", "Current", "Power"})
    [] OTHER -> mv

-----------------------------------------------------------------------------
(* What goes out                                                           *)

Send(kind, wh, at, values) ==
  /\ out' = [kind |-> kind, wh |-> wh, at |-> at, values |-> values]
  /\ top' = IF wh > top THEN wh ELSE top
SendNothing == out' = Nothing /\ UNCHANGED top

\* Engine.Sample at the present instant.
TakeSample ==
  /\ eng' = Sample(eng, now)
  /\ gap' = IF now - eng.lastAt > gap THEN now - eng.lastAt ELSE gap

-----------------------------------------------------------------------------
(* The actor                                                               *)

\* sendStartTransaction: the register is carried from session to session.
StartTransaction ==
  /\ link = "online" /\ phase = "idle" /\ waiting = {}
  /\ phase' = "starting" /\ waiting' = {"start"}
  /\ start' = [wh |-> Reading(eng.wh), at |-> now]
  /\ Send("start", Reading(eng.wh), now, <<>>)
  /\ UNCHANGED <<now, type, eng, fault, link, record, gap, metered>>

\* Its answer: the session has been running since it was asked for.
StartAccepted ==
  /\ "start" \in waiting /\ waiting' = {}
  /\ phase' = "charging"
  /\ eng' = EngineStart(eng, start.at, start.wh * Grain)
  /\ record' = start /\ metered' = start.wh /\ gap' = 0
  /\ SendNothing
  /\ UNCHANGED <<now, type, fault, link, start>>

StartDenied ==
  /\ "start" \in waiting /\ waiting' = {}
  /\ phase' = "idle"
  /\ SendNothing /\ UNCHANGED <<now, type, eng, fault, link, start, record, gap, metered>>

\* sendMeterValues, of the ticker while Charging or of a TriggerMessage: the
\* record follows the register whatever the fault.  The mutant saves last.
UpdateMeterIfSent == record' = IF fault = "dead_silent" THEN record
                               ELSE [wh |-> Reading(eng'.wh), at |-> now]
UpdateMeter == record' = [wh |-> Reading(eng'.wh), at |-> now]
SendMeterValues ==
  /\ link # "down" /\ phase \in {"charging", "finishing"}
  /\ TakeSample /\ UpdateMeter /\ metered' = Reading(eng'.wh)
  /\ IF fault = "dead_silent" THEN SendNothing
     ELSE Send("values", Reading(eng'.wh), now, ApplyFault(Samples(eng'), fault))
  /\ UNCHANGED <<now, type, fault, session, start>>

\* sendStopTransaction: the reading is final, sent or not.
StopTransaction ==
  /\ phase \in {"charging", "finishing"}
  /\ TakeSample /\ phase' = "finishing"
  /\ IF link # "down"
     THEN waiting' = waiting \cup {"stop"} /\ Send("stop", Reading(eng'.wh), now, <<>>)
     ELSE SendNothing /\ UNCHANGED waiting
  /\ UNCHANGED <<now, type, fault, link, start, record, metered>>

\* Its confirmation closes the session, and that of a recovery does the same.
StopConfirmed ==
  /\ \E stop \in waiting \cap {"stop", "recovery"} : waiting' = waiting \ {stop}
  /\ phase' = "idle" /\ record' = NoRecord
  /\ SendNothing /\ UNCHANGED <<now, type, eng, fault, link, start, gap, metered>>

\* A CALLERROR settles a stop and nothing else happens.
StopError ==
  /\ \E stop \in waiting \cap {"stop", "recovery"} : waiting' = waiting \ {stop}
  /\ SendNothing /\ UNCHANGED <<now, type, eng, fault, phase, link, start, record, gap, metered>>

\* The link is lost, unexpectedly or by GoOffline: no answer will come.
Outage ==
  /\ link # "down" /\ link' = "down" /\ waiting' = {}
  /\ SendNothing /\ UNCHANGED <<now, type, eng, fault, phase, start, record, gap, metered>>

\* The link is back, and a boot is on its way.
Redial ==
  /\ link = "down" /\ link' = "booting"
  /\ SendNothing
  /\ UNCHANGED <<now, type, eng, fault, phase, waiting, start, record, gap, metered>>

\* The boot is accepted: stopTransactionFromRecord.
Recover ==
  /\ link = "booting" /\ link' = "online"
  /\ IF record = NoRecord THEN SendNothing /\ UNCHANGED waiting
     ELSE /\ waiting' = waiting \cup {"recovery"}
          /\ Send("recovery", record.wh, record.at, <<>>)
  /\ UNCHANGED <<now, type, eng, fault, phase, start, record, gap, metered>>

\* handleSetPower
Limit(w) == Clamp(w, 0, Ceiling)
SetPower ==
  /\ \E w \in Powers : eng' = [eng EXCEPT !.limit = Limit(w)]
  /\ SendNothing
  /\ UNCHANGED <<now, type, fault, session, start, record, gap, metered>>

\* handleSetMeterFault: "" clears the fault, an unknown mode changes nothing.
\* The mutant arms it without looking.
ArmedUnchecked(mode) == mode
Armed(mode) == IF mode = "" THEN "none" ELSE IF mode \in Faults THEN mode ELSE fault
SetMeterFault ==
  /\ \E mode \in Modes : fault' = Armed(mode)
  /\ SendNothing
  /\ UNCHANGED <<now, type, eng, session, start, record, gap, metered>>

Pass ==
  /\ now < MaxTime /\ now' = now + 1
  /\ SendNothing
  /\ UNCHANGED <<type, eng, fault, session, start, record, gap, metered>>

Next ==
  \/ StartTransaction \/ StartAccepted \/ StartDenied
  \/ SendMeterValues \/ StopTransaction \/ StopConfirmed \/ StopError
  \/ Outage \/ Redial \/ Recover \/ SetPower \/ SetMeterFault \/ Pass

Spec == Init /\ [][Next]_vars

-----------------------------------------------------------------------------
(* Properties                                                              *)

\* Every variable keeps its type: a connector's fault is a known one and its
\* limit within the configured ceiling, whatever the operator asks for.
TypeOK ==
  /\ now \in Times /\ type \in Types /\ fault \in Faults
  /\ eng \in [wh : Nat, startWh : Nat, soc : 0 .. Full,
              lastAt : Times \cup {NeverSampled}, limit : 0 .. Ceiling]
  /\ phase \in {"idle", "starting", "charging", "finishing"}
  /\ link \in {"down", "booting", "online"}
  /\ start \in [wh : Nat, at : Times]
  /\ record \in [wh : Nat, at : Times] \cup {NoRecord}
  /\ waiting \subseteq {"start", "stop", "recovery"}
  /\ out.kind \in {"none", "start", "values", "stop", "recovery"}
  /\ top \in Nat /\ gap \in Nat /\ metered \in Nat

\* As long as samples are no further apart than the meter interval, a DC
\* session never delivers more than the battery had room for: the taper ends
\* at the full battery, whatever the limit does and however rounding goes.
NeverOverfilled ==
  type = "DC" /\ phase \in {"charging", "finishing"} /\ gap <= Interval =>
    eng.wh - eng.startWh <= Full - Initial

\* What a CMS bills: the energy between the start and any stop it is sent is
\* within what the configured power could deliver between the timestamps of
\* the two, over outages, restarts of the meter and late answers.
BilledWithinCeiling ==
  out.kind \in {"stop", "recovery"} =>
    (out.wh - start.wh) * Grain <= Ceiling * (out.at - start.at)

\* The register is carried over sessions: no start, reading or stop is below a
\* reading sent before it, of this session or of any other.  (A recovery stop
\* may be below a stop whose confirmation the outage lost.)
ReadingsNeverBack ==
  [][out'.kind \in {"start", "values", "stop"} => out'.wh >= top]_vars

\* A fault is a filter on what is reported and never on what is billed: an
\* energy or a state of charge that is reported is the engine's, and after an
\* outage the CMS is told the reading of the session's last sample, although a
\* dead meter may have kept it from being seen.
FaultsOnlyHide ==
  /\ \A k \in DOMAIN out.values :
       /\ k[1] = "Energy" => out.values[k] = Reading(eng.wh)
       /\ k[1] = "SoC" => out.values[k] = eng.soc
       /\ k[1] \notin {"Energy", "SoC"} => out.values[k] = "measured" \/ fault = "dead_zero"
  /\ out.kind = "recovery" => out.wh = metered /\ out.wh >= start.wh
=============================================================================
