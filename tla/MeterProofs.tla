---------------------------- MODULE MeterProofs ----------------------------
(***************************************************************************)
(* Theorems about the metering of a connector, for every capacity, power,  *)
(* interval and length of life: the types and the properties of the run    *)
(* "meter", by induction on the actions of Next.                           *)
(***************************************************************************)
EXTENDS Meter, TLAPS

InSession == phase \in {"charging", "finishing"}

\* Only a start waits while a session starts, and there is a record exactly
\* while a session runs.
Bookkeeping ==
  /\ waiting \subseteq IF phase = "starting" THEN {"start"} ELSE {"stop", "recovery"}
  /\ record # NoRecord <=> InSession

\* Samples are taken in the past and, in a session, not before its start.
Clock ==
  /\ start.at <= now
  /\ InSession => start.at <= eng.lastAt /\ eng.lastAt <= now

\* The session's energy is within the power that was configured, up to the last
\* sample and up to the record, which is the last sample reported.
Billing ==
  InSession =>
    /\ eng.startWh = start.wh * Grain /\ eng.startWh <= eng.wh
    /\ eng.wh - eng.startWh <= Ceiling * (eng.lastAt - start.at)
    /\ (record.wh - start.wh) * Grain <= Ceiling * (record.at - start.at)
    /\ start.wh <= record.wh /\ record.wh <= Reading(eng.wh) /\ record.wh = metered

\* No CALL carried more than the register holds.
Highest ==
  /\ top <= Reading(eng.wh)
  /\ phase = "starting" => start.wh = Reading(eng.wh)

\* The state of charge follows the register, and the battery was not overfilled
\* by samples taken in time.
Battery ==
  type = "DC" /\ InSession =>
    /\ eng.soc = Clamp(Initial + eng.wh - eng.startWh, 0, Full)
    /\ gap <= Interval => eng.wh - eng.startWh <= Full - Initial

MeterInv == TypeOK /\ Bookkeeping /\ Clock /\ Billing /\ Highest /\ Battery

-----------------------------------------------------------------------------
(* Arithmetic                                                              *)

\* What is rounded down is not more, and rounding keeps the order.
LEMMA Division ==
  ASSUME NEW g \in Nat \ {0}
  PROVE  /\ \A a \in Nat : (a \div g) \in Nat /\ (a \div g) * g <= a /\ (a * g) \div g = a
         /\ \A a, b \in Nat : a <= b => (a \div g) <= (b \div g)
BY SMT

\* Multiplication keeps the order, and only a larger factor gives more.
LEMMA Product ==
  /\ \A a, b, c \in Nat : a <= b => a * c <= b * c
  /\ \A a, b \in Nat, c \in Nat \ {0} : a * c <= b * c => a <= b
BY SMT

\* The taper never allows more than the limit...
LEMMA TaperBelowLimit ==
  ASSUME NEW l \in Nat, NEW r \in Nat, NEW k \in Nat \ {0}, r <= k
  PROVE  (l * r) \div k \in Nat /\ (l * r) \div k <= l
<1> DEFINE q == (l * r) \div k
<1>1. l * r \in Nat /\ q \in Nat /\ q * k <= l * r
  BY Division
<1>2. l * r <= l * k
  BY Product
<1>3. q * k <= l * k
  BY <1>1, <1>2
<1> QED
  BY <1>1, <1>3, Product

\* ... nor, for as long as the limit alone would fit between the knee and the
\* full battery, more than is missing.
LEMMA TaperFits ==
  ASSUME NEW l \in Nat, NEW r \in Nat, NEW k \in Nat \ {0}, NEW dt \in Nat, l * dt <= k
  PROVE  ((l * r) \div k) * dt <= r
<1> DEFINE q == (l * r) \div k
<1>1. l * r \in Nat /\ q \in Nat /\ q * k <= l * r
  BY Division
<1>2. (q * k) * dt <= (l * r) * dt
  BY <1>1, Product
<1>3. (l * dt) * r <= k * r
  BY Product
<1>4. (q * dt) * k = (q * k) * dt /\ (l * r) * dt = (l * dt) * r /\ k * r = r * k
  BY <1>1
<1>5. q * dt \in Nat /\ (q * dt) * k <= r * k
  BY <1>1, <1>2, <1>3, <1>4
<1> QED
  BY <1>5, Product

\* The knee is below the full battery.
LEMMA KneeBelowFull == Knee \in Nat /\ Knee < Full
BY EngineAssumption DEF Knee

-----------------------------------------------------------------------------
(* One sample                                                              *)

Engines == [wh : Nat, startWh : Nat, soc : 0 .. Full,
            lastAt : Times \cup {NeverSampled}, limit : 0 .. Ceiling]

\* What limits and clamps return.
LEMMA ClampWithin ==
  ASSUME NEW v \in Int, NEW hi \in Nat
  PROVE  Clamp(v, 0, hi) \in 0 .. hi
BY DEF Clamp

\* Power is within the configured ceiling and, in a DC engine that is sampled in
\* time, adds no more than is missing in the battery.
LEMMA PowerBounded ==
  ASSUME NEW e \in Engines
  PROVE  /\ Power(e) \in 0 .. Ceiling
         /\ \A dt \in 0 .. Interval :
              type = "DC" => Power(e) * dt \in Nat /\ Power(e) * dt <= Full - e.soc
<1> USE EngineAssumption
<1>1. e.limit \in 0 .. Ceiling /\ e.soc \in 0 .. Full
  BY DEF Engines
<1>2. Knee \in Nat /\ Knee < Full
  BY KneeBelowFull
<1> SUFFICES ASSUME NEW dt \in 0 .. Interval
             PROVE  /\ Power(e) \in 0 .. Ceiling
                    /\ type = "DC" => Power(e) * dt \in Nat /\ Power(e) * dt <= Full - e.soc
  <2>1. 0 \in 0 .. Interval
    OBVIOUS
  <2> QED
    BY <2>1
<1>3. e.limit * dt \in Nat /\ e.limit * dt <= Full - Knee
  <2>1. e.limit * dt <= Ceiling * dt
    BY <1>1, Product
  <2>2. dt * Ceiling <= Interval * Ceiling
    BY Product
  <2>3. dt * Ceiling = Ceiling * dt /\ Interval * Ceiling = Ceiling * Interval
    OBVIOUS
  <2>4. e.limit * dt \in Nat /\ Ceiling * dt \in Nat /\ Ceiling * Interval \in Nat
    BY <1>1
  <2> QED
    BY <1>2, <2>1, <2>2, <2>3, <2>4
<1>4. CASE type = "AC" \/ e.soc < Knee
  BY <1>1, <1>2, <1>3, <1>4 DEF Power
<1>5. CASE ~(type = "AC" \/ e.soc < Knee) /\ e.soc >= Full
  <2>1. Power(e) = 0
    BY <1>5 DEF Power
  <2> QED
    BY <1>1, <2>1
<1>6. CASE ~(type = "AC" \/ e.soc < Knee) /\ ~(e.soc >= Full)
  <2> DEFINE r == Full - e.soc  k == Full - Knee
  <2>1. Power(e) = (e.limit * r) \div k
    BY <1>6 DEF Power
  <2>2. e.limit \in Nat /\ r \in Nat /\ k \in Nat \ {0} /\ r <= k /\ e.limit * dt <= k
        /\ dt \in Nat
    BY <1>1, <1>2, <1>3, <1>6
  <2> HIDE DEF r, k
  <2>3. (e.limit * r) \div k \in Nat /\ (e.limit * r) \div k <= e.limit
    BY <2>2, TaperBelowLimit
  <2>4. ((e.limit * r) \div k) * dt <= r
    BY <2>2, TaperFits
  <2>5. Power(e) \in 0 .. Ceiling /\ Power(e) * dt <= r
    BY <1>1, <2>1, <2>3, <2>4
  <2> QED
    BY <2>5 DEF r
<1> QED
  BY <1>4, <1>5, <1>6

\* A sample of a running session only adds energy, within what the ceiling
\* allows since the start, and keeps the battery's books.
LEMMA SampleStep ==
  ASSUME MeterInv, InSession, TakeSample, now' = now, type' = type, start' = start,
         phase' \in {"charging", "finishing"}
  PROVE  /\ eng' \in Engines /\ gap' \in Nat
         /\ eng'.lastAt = now /\ eng'.startWh = eng.startWh
         /\ eng.wh <= eng'.wh /\ Reading(eng.wh) <= Reading(eng'.wh)
         /\ eng'.wh - eng'.startWh <= Ceiling * (now - start.at)
         /\ Battery'
<1> USE EngineAssumption
<1> DEFINE dt == now - eng.lastAt
           wh == eng.wh + Power(eng) * dt
           soc == IF type = "DC" THEN Clamp(Initial + wh - eng.startWh, 0, Full) ELSE eng.soc
<1>1. /\ eng \in Engines /\ eng.wh \in Nat /\ eng.startWh \in Nat /\ eng.soc \in 0 .. Full
      /\ eng.lastAt \in Times \cup {NeverSampled} /\ start.at \in Nat /\ now \in Times /\ gap \in Nat
  BY DEF MeterInv, TypeOK, Engines, Times
<1>2. start.at <= eng.lastAt /\ eng.lastAt <= now /\ dt \in Nat /\ eng.lastAt \in Nat /\ now \in Nat
  BY <1>1 DEF MeterInv, Clock, InSession, Times, NeverSampled
<1>3. Power(eng) \in 0 .. Ceiling /\ Power(eng) * dt \in Nat /\ Power(eng) * dt <= Ceiling * dt
  <2>1. Power(eng) \in 0 .. Ceiling
    BY <1>1, PowerBounded
  <2> QED
    BY <1>2, <2>1, Product
<1>4. eng' = [eng EXCEPT !.wh = wh, !.lastAt = now, !.soc = soc]
  BY DEF TakeSample, Sample
<1>5. wh \in Nat /\ eng.wh <= wh /\ soc \in 0 .. Full
  <2>1. wh \in Nat /\ eng.wh <= wh
    BY <1>1, <1>3
  <2>2. Initial + wh - eng.startWh \in Int /\ Full \in Nat
    BY <1>1, <2>1
  <2> HIDE DEF wh
  <2>3. Clamp(Initial + wh - eng.startWh, 0, Full) \in 0 .. Full
    BY <2>2, ClampWithin
  <2> QED
    BY <1>1, <2>1, <2>3
<1>6. /\ eng'.wh = wh /\ eng'.startWh = eng.startWh /\ eng'.lastAt = now /\ eng'.soc = soc
      /\ eng' \in Engines
  BY <1>1, <1>4, <1>5 DEF Engines
<1>7. gap' \in Nat /\ gap <= gap' /\ dt <= gap'
  BY <1>1, <1>2 DEF TakeSample
<1>8. Reading(eng.wh) <= Reading(eng'.wh)
  BY <1>1, <1>5, <1>6, Division DEF Reading
<1>9. eng'.wh - eng'.startWh <= Ceiling * (now - start.at)
  <2>1. eng.wh - eng.startWh <= Ceiling * (eng.lastAt - start.at)
    BY DEF MeterInv, Billing
  <2>2. Ceiling * (now - start.at) = Ceiling * (eng.lastAt - start.at) + Ceiling * dt
    BY <1>1, <1>2
  <2>3. Ceiling * (eng.lastAt - start.at) \in Int /\ Ceiling * dt \in Int
    BY <1>1, <1>2
  <2> QED
    BY <1>1, <1>3, <1>6, <2>1, <2>2, <2>3
<1>10. Battery'
  <2> SUFFICES ASSUME type = "DC"
               PROVE  /\ eng'.soc = Clamp(Initial + eng'.wh - eng'.startWh, 0, Full)
                      /\ gap' <= Interval => eng'.wh - eng'.startWh <= Full - Initial
    BY DEF Battery
  <2>1. eng'.soc = Clamp(Initial + eng'.wh - eng'.startWh, 0, Full)
    BY <1>6
  <2>2. ASSUME gap' <= Interval PROVE eng'.wh - eng'.startWh <= Full - Initial
    <3>1. gap <= Interval /\ dt \in 0 .. Interval
      BY <1>1, <1>2, <1>7, <2>2
    <3>2. Power(eng) * dt <= Full - eng.soc
      BY <1>1, <3>1, PowerBounded
    <3>3. /\ eng.soc = Clamp(Initial + eng.wh - eng.startWh, 0, Full)
          /\ eng.wh - eng.startWh <= Full - Initial /\ eng.startWh <= eng.wh
      BY <3>1 DEF MeterInv, Battery, Billing
    <3>4. eng.soc = Initial + eng.wh - eng.startWh
      BY <1>1, <3>3 DEF Clamp
    <3> QED
      BY <1>1, <1>3, <1>6, <3>2, <3>3, <3>4
  <2> QED
    BY <2>1, <2>2
<1> QED
  BY <1>6, <1>7, <1>8, <1>9, <1>10, <1>5

-----------------------------------------------------------------------------
(* The invariant is inductive                                              *)

\* Before anything happened nothing is billed.
LEMMA MeterInit == Init => MeterInv
<1> SUFFICES ASSUME Init PROVE MeterInv
  OBVIOUS
<1> USE EngineAssumption
<1>1. 0 \in Times /\ 0 \in 0 .. Full /\ Ceiling \in 0 .. Ceiling
  BY DEF Times
<1>2. TypeOK
  BY <1>1 DEF Init, TypeOK, Faults, NoRecord, Nothing
<1>3. Bookkeeping /\ Clock /\ Billing /\ Battery
  BY DEF Init, Bookkeeping, Clock, Billing, Battery, InSession
<1>4. Highest
  <2>1. Reading(0) = 0
    BY Division DEF Reading
  <2> QED
    BY <2>1 DEF Init, Highest
<1> QED
  BY <1>2, <1>3, <1>4 DEF MeterInv

\* A CALL with a reading keeps what is known of the highest one, if the register
\* holds that reading.
LEMMA SendStep ==
  ASSUME NEW kind \in {"start", "values", "stop", "recovery"}, NEW wh \in Nat, NEW at, NEW values,
         top \in Nat, Send(kind, wh, at, values)
  PROVE  /\ out'.kind = kind /\ out'.wh = wh /\ out'.at = at /\ out'.values = values
         /\ top' \in Nat /\ top <= top' /\ wh <= top'
         /\ \A r \in Nat : top <= r /\ wh <= r => top' <= r
BY DEF Send

\* A reading that is recorded in the present is a record.
LEMMA RecordTypes ==
  ASSUME NEW wh \in Nat, NEW at \in Times
  PROVE  /\ [wh |-> wh, at |-> at] \in [wh : Nat, at : Times]
         /\ [wh |-> wh, at |-> at] # NoRecord
<1>1. at # MaxTime + 1
  BY EngineAssumption DEF Times
<1>2. [wh |-> wh, at |-> at].at = at /\ NoRecord.at = MaxTime + 1
  BY DEF NoRecord
<1> QED
  BY <1>1, <1>2

\* A start reads the register and leaves it.
LEMMA StartTransactionStep == MeterInv /\ StartTransaction => MeterInv'
<1> SUFFICES ASSUME MeterInv, StartTransaction PROVE MeterInv'
  OBVIOUS
<1> USE EngineAssumption
<1>1. Reading(eng.wh) \in Nat /\ now \in Times /\ top \in Nat
  BY Division DEF MeterInv, TypeOK, Reading
<1>2. /\ out'.kind = "start" /\ top' \in Nat
      /\ top <= Reading(eng.wh) => top' <= Reading(eng.wh)
  BY <1>1, SendStep DEF StartTransaction
<1>3. start' = [wh |-> Reading(eng.wh), at |-> now] /\ start' \in [wh : Nat, at : Times]
  BY <1>1 DEF StartTransaction
<1>4. TypeOK'
  BY <1>2, <1>3 DEF MeterInv, TypeOK, StartTransaction, session
<1>5. Bookkeeping' /\ Clock' /\ Billing' /\ Battery'
  BY <1>1, <1>3 DEF MeterInv, StartTransaction, Bookkeeping, Clock, Billing, Battery, InSession, Times
<1>6. Highest'
  BY <1>2, <1>3 DEF MeterInv, StartTransaction, Highest, Reading
<1> QED
  BY <1>4, <1>5, <1>6 DEF MeterInv

\* An accepted start continues from the reading it carried, at the time it carried.
LEMMA StartAcceptedStep == MeterInv /\ StartAccepted => MeterInv'
<1> SUFFICES ASSUME MeterInv, StartAccepted PROVE MeterInv'
  OBVIOUS
<1> USE EngineAssumption
<1>1. /\ eng \in Engines /\ start.wh \in Nat /\ start.at \in Times /\ start \in [wh : Nat, at : Times]
      /\ now \in Times /\ start.at <= now
  BY DEF MeterInv, TypeOK, Engines, Clock
<1>2. phase = "starting" /\ top <= start.wh
  BY DEF MeterInv, Bookkeeping, Highest, StartAccepted
<1>3. start.wh * Grain \in Nat /\ Reading(start.wh * Grain) = start.wh
  <2>1. (start.wh * Grain) \div Grain = start.wh
    BY <1>1, Division
  <2> QED
    BY <1>1, <2>1 DEF Reading
<1> DEFINE soc == IF type = "DC" THEN Initial ELSE 0
<1>4. eng' = [eng EXCEPT !.wh = start.wh * Grain, !.startWh = start.wh * Grain,
                         !.lastAt = start.at, !.soc = soc]
  BY DEF StartAccepted, EngineStart
<1>5. soc \in 0 .. Full
  OBVIOUS
<1>6. /\ eng' \in Engines /\ eng'.wh = start.wh * Grain /\ eng'.startWh = start.wh * Grain
      /\ eng'.lastAt = start.at /\ eng'.soc = soc
  BY <1>1, <1>3, <1>4, <1>5 DEF Engines
<1>7. record' = start /\ start \in [wh : Nat, at : Times] /\ record' # NoRecord
  BY <1>1 DEF StartAccepted, NoRecord, Times
<1>8. TypeOK'
  BY <1>1, <1>6, <1>7 DEF MeterInv, TypeOK, StartAccepted, SendNothing, Nothing, Engines
<1>9. Bookkeeping' /\ Clock'
  BY <1>1, <1>6, <1>7 DEF StartAccepted, Bookkeeping, Clock, InSession, Times
<1>10. Billing'
  <2>1. Ceiling * (start.at - start.at) = 0 /\ (start.wh - start.wh) * Grain = 0
    BY <1>1 DEF Times
  <2> QED
    BY <1>1, <1>3, <1>6, <1>7, <2>1 DEF StartAccepted, Billing, Reading, Times
<1>11. Highest'
  BY <1>2, <1>3, <1>6 DEF StartAccepted, SendNothing, Highest, Reading
<1>12. Battery'
  <2>1. type = "DC" => soc = Clamp(Initial + start.wh * Grain - start.wh * Grain, 0, Full)
    BY <1>3 DEF Clamp
  <2> QED
    BY <1>3, <1>6, <2>1 DEF StartAccepted, Battery
<1> QED
  BY <1>8, <1>9, <1>10, <1>11, <1>12 DEF MeterInv

\* MeterValues move the register and the record together, sent or not.
LEMMA SendMeterValuesStep == MeterInv /\ SendMeterValues => MeterInv'
<1> SUFFICES ASSUME MeterInv, SendMeterValues PROVE MeterInv'
  OBVIOUS
<1> USE EngineAssumption
<1>1. /\ InSession /\ phase' = phase /\ InSession' /\ now' = now /\ type' = type /\ start' = start
      /\ TakeSample
  BY DEF SendMeterValues, InSession, session
<1>2. /\ eng' \in Engines /\ gap' \in Nat
      /\ eng'.lastAt = now /\ eng'.startWh = eng.startWh
      /\ eng.wh <= eng'.wh /\ Reading(eng.wh) <= Reading(eng'.wh)
      /\ eng'.wh - eng'.startWh <= Ceiling * (now - start.at)
      /\ Battery'
  BY <1>1, SampleStep DEF InSession
<1>3. /\ eng \in Engines /\ now \in Times /\ top \in Nat /\ eng.wh \in Nat /\ eng'.wh \in Nat
      /\ start.wh \in Nat /\ start.at \in Times
  BY <1>2 DEF MeterInv, TypeOK, Engines
<1> DEFINE r == Reading(eng'.wh)
<1>4. r \in Nat /\ r * Grain <= eng'.wh /\ Reading(eng.wh) \in Nat
  BY <1>3, Division DEF Reading
<1>5. record' = [wh |-> r, at |-> now] /\ metered' = r
  BY DEF SendMeterValues, UpdateMeter
<1> HIDE DEF r
<1>6. record' \in [wh : Nat, at : Times] /\ record' # NoRecord
  BY <1>3, <1>4, <1>5, RecordTypes
<1>7. top' \in Nat /\ top' <= r /\ out'.kind \in {"none", "values"}
  <2>1. top <= r
    BY <1>2, <1>3, <1>4 DEF MeterInv, Highest, r
  <2>2. CASE fault = "dead_silent"
    BY <1>3, <2>1, <2>2 DEF SendMeterValues, SendNothing, Nothing
  <2>3. CASE fault # "dead_silent"
    <3>1. Send("values", r, now, ApplyFault(Samples(eng'), fault))
      BY <2>3 DEF SendMeterValues, r
    <3> QED
      BY <1>3, <1>4, <2>1, <3>1 DEF Send
  <2> QED
    BY <2>2, <2>3
<1>8. TypeOK'
  BY <1>2, <1>4, <1>5, <1>6, <1>7 DEF MeterInv, TypeOK, SendMeterValues, session, Engines
<1>9. Bookkeeping' /\ Clock'
  <2>1. start.at <= now
    BY DEF MeterInv, Clock
  <2> QED
    BY <1>1, <1>2, <1>3, <1>6, <2>1
       DEF MeterInv, SendMeterValues, session, Bookkeeping, Clock, Times
<1>10. Billing'
  <2>1. /\ eng.startWh = start.wh * Grain /\ eng.startWh <= eng.wh
        /\ start.wh <= record.wh /\ record.wh <= Reading(eng.wh)
    BY <1>1 DEF MeterInv, Billing
  <2>2. record.wh \in Nat
    BY <1>1 DEF MeterInv, Bookkeeping, TypeOK
  <2>3. start.wh <= r
    BY <1>2, <1>3, <1>4, <2>1, <2>2 DEF r
  <2>4. (r - start.wh) * Grain = r * Grain - start.wh * Grain
    BY <1>3, <1>4
  <2>5. (r - start.wh) * Grain <= Ceiling * (now - start.at)
    <3>1. /\ r * Grain \in Nat /\ start.wh * Grain \in Nat /\ (r - start.wh) * Grain \in Int
          /\ Ceiling * (now - start.at) \in Int
      BY <1>3, <1>4 DEF Times
    <3> QED
      BY <1>2, <1>3, <1>4, <2>1, <2>4, <3>1
  <2>6. record'.wh = r /\ record'.at = now /\ eng'.startWh <= eng'.wh
    BY <1>2, <1>3, <1>5, <2>1
  <2>7. r = Reading(eng'.wh) /\ r <= r
    BY <1>4 DEF r
  <2> QED
    BY <1>1, <1>2, <1>5, <2>1, <2>3, <2>5, <2>6, <2>7 DEF Billing, Reading
<1>11. Highest'
  BY <1>1, <1>7 DEF InSession, Highest, r
<1> QED
  BY <1>2, <1>8, <1>9, <1>10, <1>11 DEF MeterInv

\* A stop moves the register and leaves the record behind.
LEMMA StopTransactionStep == MeterInv /\ StopTransaction => MeterInv'
<1> SUFFICES ASSUME MeterInv, StopTransaction PROVE MeterInv'
  OBVIOUS
<1> USE EngineAssumption
<1>1. /\ InSession /\ phase' = "finishing" /\ InSession' /\ now' = now /\ type' = type
      /\ start' = start /\ record' = record /\ metered' = metered /\ TakeSample
      /\ fault' = fault /\ link' = link
  BY DEF StopTransaction, InSession
<1>2. /\ eng' \in Engines /\ gap' \in Nat
      /\ eng'.lastAt = now /\ eng'.startWh = eng.startWh
      /\ eng.wh <= eng'.wh /\ Reading(eng.wh) <= Reading(eng'.wh)
      /\ eng'.wh - eng'.startWh <= Ceiling * (now - start.at)
      /\ Battery'
  BY <1>1, SampleStep DEF InSession
<1>3. /\ eng \in Engines /\ now \in Times /\ top \in Nat /\ eng.wh \in Nat /\ eng'.wh \in Nat
      /\ start.wh \in Nat /\ start.at \in Times /\ eng.startWh \in Nat
  BY <1>2 DEF MeterInv, TypeOK, Engines
<1> DEFINE r == Reading(eng'.wh)
<1>4. r \in Nat /\ Reading(eng.wh) \in Nat
  BY <1>3, Division DEF Reading
<1> HIDE DEF r
<1>5. top' \in Nat /\ top' <= r /\ out'.kind \in {"none", "stop"} /\ waiting' \subseteq waiting \cup {"stop"}
  <2>1. top <= r
    BY <1>2, <1>3, <1>4 DEF MeterInv, Highest, r
  <2>2. CASE link = "down"
    BY <1>3, <2>1, <2>2 DEF StopTransaction, SendNothing, Nothing
  <2>3. CASE link # "down"
    <3>1. Send("stop", r, now, <<>>) /\ waiting' = waiting \cup {"stop"}
      BY <2>3 DEF StopTransaction, r
    <3> QED
      BY <1>3, <1>4, <2>1, <3>1, SendStep
  <2> QED
    BY <2>2, <2>3
<1>6. TypeOK'
  BY <1>1, <1>2, <1>5 DEF MeterInv, TypeOK, Engines
<1>7. Bookkeeping' /\ Clock'
  <2>1. start.at <= now
    BY DEF MeterInv, Clock
  <2>2. waiting' \subseteq {"stop", "recovery"}
    BY <1>1, <1>5 DEF MeterInv, Bookkeeping, InSession
  <2> QED
    BY <1>1, <1>2, <1>3, <2>1, <2>2 DEF MeterInv, Bookkeeping, Clock, InSession, Times
<1>8. Billing'
  <2>1. record.wh \in Nat
    BY <1>1 DEF MeterInv, Bookkeeping, TypeOK
  <2>2. /\ eng.startWh = start.wh * Grain /\ eng.startWh <= eng.wh
        /\ (record.wh - start.wh) * Grain <= Ceiling * (record.at - start.at)
        /\ start.wh <= record.wh /\ record.wh <= Reading(eng.wh) /\ record.wh = metered
    BY <1>1 DEF MeterInv, Billing
  <2>3. record.wh <= r /\ eng'.startWh <= eng'.wh
    BY <1>2, <1>3, <1>4, <2>1, <2>2 DEF r
  <2> QED
    BY <1>1, <1>2, <2>2, <2>3 DEF Billing, r
<1>9. Highest'
  BY <1>1, <1>5 DEF Highest, r
<1> QED
  BY <1>2, <1>6, <1>7, <1>8, <1>9 DEF MeterInv

\* Steps that send nothing and leave the meter alone: answers that are denials
\* or errors, the link that goes and comes, a fault that is armed.
LEMMA QuietStep ==
  ASSUME MeterInv,
         StartDenied \/ StopError \/ Outage \/ Redial \/ SetMeterFault
  PROVE  MeterInv'
<1> USE EngineAssumption
<1>1. /\ now' = now /\ type' = type /\ eng' = eng /\ start' = start /\ record' = record
      /\ gap' = gap /\ metered' = metered /\ top' = top /\ out' = Nothing
  BY DEF StartDenied, StopError, Outage, Redial, SetMeterFault, SendNothing, session
<1>2. waiting' \subseteq waiting /\ link' \in {"down", "booting", link}
  BY DEF StartDenied, StopError, Outage, Redial, SetMeterFault, session
<1>3. phase' = phase \/ (phase = "starting" /\ phase' = "idle" /\ waiting' = {})
  BY DEF StartDenied, StopError, Outage, Redial, SetMeterFault, session, MeterInv, Bookkeeping
<1>4. fault' \in Faults
  <2>1. CASE SetMeterFault
    BY <2>1 DEF SetMeterFault, Armed, Faults, MeterInv, TypeOK
  <2>2. CASE ~SetMeterFault
    BY <2>2 DEF StartDenied, StopError, Outage, Redial, MeterInv, TypeOK
  <2> QED
    BY <2>1, <2>2
<1>5. TypeOK'
  BY <1>1, <1>2, <1>3, <1>4 DEF MeterInv, TypeOK, Nothing
<1>6. Bookkeeping'
  BY <1>1, <1>2, <1>3 DEF MeterInv, Bookkeeping, InSession
<1>7. Clock' /\ Billing' /\ Battery'
  BY <1>1, <1>3 DEF MeterInv, Clock, Billing, Battery, InSession, Reading
<1>8. Highest'
  BY <1>1, <1>3 DEF MeterInv, Highest, Reading
<1> QED
  BY <1>5, <1>6, <1>7, <1>8 DEF MeterInv

\* A confirmed stop ends the session and its record.
LEMMA StopConfirmedStep == MeterInv /\ StopConfirmed => MeterInv'
<1> SUFFICES ASSUME MeterInv, StopConfirmed PROVE MeterInv'
  OBVIOUS
<1>1. /\ now' = now /\ type' = type /\ eng' = eng /\ start' = start /\ record' = NoRecord
      /\ gap' = gap /\ metered' = metered /\ top' = top /\ out' = Nothing /\ fault' = fault
      /\ link' = link /\ phase' = "idle" /\ waiting' \subseteq waiting
  BY DEF StopConfirmed, SendNothing
<1>2. phase # "starting" /\ waiting \subseteq {"stop", "recovery"}
  BY DEF MeterInv, Bookkeeping, StopConfirmed
<1>3. TypeOK'
  BY <1>1 DEF MeterInv, TypeOK, Nothing
<1>4. Bookkeeping' /\ Clock' /\ Billing' /\ Battery' /\ Highest'
  BY <1>1, <1>2 DEF MeterInv, Bookkeeping, Clock, Billing, Battery, Highest, InSession, Reading
<1> QED
  BY <1>3, <1>4 DEF MeterInv

\* A recovery stop carries the reading of the record, which the register has passed.
LEMMA RecoverStep == MeterInv /\ Recover => MeterInv'
<1> SUFFICES ASSUME MeterInv, Recover PROVE MeterInv'
  OBVIOUS
<1> USE EngineAssumption
<1>1. /\ now' = now /\ type' = type /\ eng' = eng /\ start' = start /\ record' = record
      /\ gap' = gap /\ metered' = metered /\ fault' = fault /\ phase' = phase /\ link' = "online"
  BY DEF Recover
<1>2. Reading(eng.wh) \in Nat /\ top \in Nat /\ top <= Reading(eng.wh)
  BY Division DEF MeterInv, TypeOK, Highest, Reading
<1>3. /\ top' \in Nat /\ top' <= Reading(eng.wh) /\ out'.kind \in {"none", "recovery"}
      /\ waiting' \subseteq waiting \cup {"recovery"}
      /\ waiting' = waiting \/ record # NoRecord
  <2>1. CASE record = NoRecord
    BY <1>2, <2>1 DEF Recover, SendNothing, Nothing
  <2>2. CASE record # NoRecord
    <3>1. record.wh \in Nat /\ record.wh <= Reading(eng.wh)
      BY <2>2 DEF MeterInv, TypeOK, Bookkeeping, Billing
    <3>2. Send("recovery", record.wh, record.at, <<>>) /\ waiting' = waiting \cup {"recovery"}
      BY <2>2 DEF Recover
    <3> QED
      BY <1>2, <2>2, <3>1, <3>2, SendStep
  <2> QED
    BY <2>1, <2>2
<1>4. TypeOK'
  BY <1>1, <1>3 DEF MeterInv, TypeOK
<1>5. Bookkeeping'
  BY <1>1, <1>3 DEF MeterInv, Bookkeeping, InSession
<1>6. Clock' /\ Billing' /\ Battery'
  BY <1>1 DEF MeterInv, Clock, Billing, Battery, InSession, Reading
<1>7. Highest'
  BY <1>1, <1>3 DEF MeterInv, Highest, Reading
<1> QED
  BY <1>4, <1>5, <1>6, <1>7 DEF MeterInv

\* A power limit changes no reading.
LEMMA SetPowerStep == MeterInv /\ SetPower => MeterInv'
<1> SUFFICES ASSUME MeterInv, SetPower PROVE MeterInv'
  OBVIOUS
<1> USE EngineAssumption
<1>1. /\ now' = now /\ type' = type /\ start' = start /\ record' = record
      /\ gap' = gap /\ metered' = metered /\ fault' = fault /\ phase' = phase /\ link' = link
      /\ waiting' = waiting /\ top' = top /\ out' = Nothing
  BY DEF SetPower, SendNothing, session
<1>2. PICK w \in Powers : eng' = [eng EXCEPT !.limit = Limit(w)]
  BY DEF SetPower
<1>3. Limit(w) \in 0 .. Ceiling
  BY ClampWithin, OperatorAssumption DEF Limit
<1>4. /\ eng' \in Engines /\ eng'.wh = eng.wh /\ eng'.startWh = eng.startWh
      /\ eng'.soc = eng.soc /\ eng'.lastAt = eng.lastAt
  BY <1>2, <1>3 DEF MeterInv, TypeOK, Engines
<1>5. TypeOK'
  BY <1>1, <1>4 DEF MeterInv, TypeOK, Engines, Nothing
<1>6. Bookkeeping' /\ Clock'
  BY <1>1, <1>4 DEF MeterInv, Bookkeeping, Clock, InSession
<1>7. Billing' /\ Battery' /\ Highest'
  BY <1>1, <1>4 DEF MeterInv, Billing, Battery, Highest, InSession, Reading
<1> QED
  BY <1>5, <1>6, <1>7 DEF MeterInv

\* Time alone changes no reading.
LEMMA PassStep == MeterInv /\ Pass => MeterInv'
<1> SUFFICES ASSUME MeterInv, Pass PROVE MeterInv'
  OBVIOUS
<1> USE EngineAssumption
<1>1. /\ type' = type /\ eng' = eng /\ start' = start /\ record' = record
      /\ gap' = gap /\ metered' = metered /\ fault' = fault /\ phase' = phase /\ link' = link
      /\ waiting' = waiting /\ top' = top /\ out' = Nothing
  BY DEF Pass, SendNothing, session
<1>2. now' \in Times /\ now' = now + 1 /\ now \in Nat
  BY DEF MeterInv, TypeOK, Pass, Times
<1>3. TypeOK'
  BY <1>1, <1>2 DEF MeterInv, TypeOK, Nothing
<1>4. Clock'
  <2>1. start.at \in Nat /\ eng.lastAt \in Nat
    BY DEF MeterInv, TypeOK, Times, NeverSampled
  <2> QED
    BY <1>1, <1>2, <2>1 DEF MeterInv, Clock, InSession
<1>5. Bookkeeping' /\ Billing' /\ Battery' /\ Highest'
  BY <1>1 DEF MeterInv, Bookkeeping, Billing, Battery, Highest, InSession, Reading
<1> QED
  BY <1>3, <1>4, <1>5 DEF MeterInv

\* Every step keeps the invariant.
LEMMA MeterStep == MeterInv /\ [Next]_vars => MeterInv'
<1> SUFFICES ASSUME MeterInv, [Next]_vars PROVE MeterInv'
  OBVIOUS
<1>1. CASE StartTransaction BY <1>1, StartTransactionStep
<1>2. CASE StartAccepted BY <1>2, StartAcceptedStep
<1>3. CASE SendMeterValues BY <1>3, SendMeterValuesStep
<1>4. CASE StopTransaction BY <1>4, StopTransactionStep
<1>5. CASE StopConfirmed BY <1>5, StopConfirmedStep
<1>6. CASE Recover BY <1>6, RecoverStep
<1>7. CASE SetPower BY <1>7, SetPowerStep
<1>8. CASE Pass BY <1>8, PassStep
<1>9. CASE StartDenied \/ StopError \/ Outage \/ Redial \/ SetMeterFault BY <1>9, QuietStep
<1>10. CASE UNCHANGED vars
  BY <1>10 DEF vars, session, history, MeterInv, TypeOK, Bookkeeping, Clock, Billing, Highest,
               Battery, InSession, Reading
<1> QED
  BY <1>1, <1>2, <1>3, <1>4, <1>5, <1>6, <1>7, <1>8, <1>9, <1>10 DEF Next

\* The invariant holds in every reachable state.
LEMMA MeterInvariant == Spec => []MeterInv
BY MeterInit, MeterStep, PTL DEF Spec

\* Every reachable state is typed: whatever the operator asks for, a fault is a
\* known one and a limit within the configured power.
THEOREM MeterTypeCorrect == Spec => []TypeOK
<1>1. MeterInv => TypeOK
  BY DEF MeterInv
<1> QED
  BY <1>1, MeterInvariant, PTL

\* Sampled in time, no DC session overfills the battery.
THEOREM BatteryNeverOverfilled == Spec => []NeverOverfilled
<1>1. MeterInv => NeverOverfilled
  BY DEF MeterInv, Battery, InSession, NeverOverfilled
<1> QED
  BY <1>1, MeterInvariant, PTL

-----------------------------------------------------------------------------
(* What is sent                                                            *)

\* The CALL of a step, and where its reading comes from.
LEMMA WhatIsSent ==
  ASSUME MeterInv, Next
  PROVE  \/ /\ out'.kind \in {"none", "start"}
            /\ out'.kind = "start" => out'.wh = Reading(eng.wh)
            /\ out'.values = <<>>
         \/ /\ SendMeterValues /\ out'.kind = "values" /\ out'.wh = Reading(eng'.wh)
            /\ out'.values = ApplyFault(Samples(eng'), fault') /\ type' = type
         \/ /\ StopTransaction /\ out'.kind = "stop" /\ out'.wh = Reading(eng'.wh)
            /\ out'.at = now /\ out'.values = <<>>
         \/ /\ Recover /\ record # NoRecord /\ out'.kind = "recovery" /\ out'.wh = record.wh
            /\ out'.at = record.at /\ out'.values = <<>>
<1>1. CASE StartTransaction
  BY <1>1 DEF StartTransaction, Send
<1>2. CASE SendMeterValues
  BY <1>2 DEF SendMeterValues, Send, SendNothing, Nothing
<1>3. CASE StopTransaction
  BY <1>3 DEF StopTransaction, Send, SendNothing, Nothing
<1>4. CASE Recover
  BY <1>4 DEF Recover, Send, SendNothing, Nothing
<1>5. CASE out' = Nothing
  BY <1>5 DEF Nothing
<1>6. StartTransaction \/ SendMeterValues \/ StopTransaction \/ Recover \/ out' = Nothing
  BY DEF Next, StartAccepted, StartDenied, StopConfirmed, StopError, Outage, Redial, SetPower,
         SetMeterFault, Pass, SendNothing
<1> QED
  BY <1>1, <1>2, <1>3, <1>4, <1>5, <1>6

\* The register a session has sampled.
LEMMA SampledRegister ==
  ASSUME MeterInv, SendMeterValues \/ StopTransaction
  PROVE  /\ InSession /\ start' = start /\ eng'.wh \in Nat /\ Reading(eng.wh) <= Reading(eng'.wh)
         /\ Reading(eng.wh) \in Nat /\ Reading(eng'.wh) \in Nat
         /\ eng'.wh - eng'.startWh <= Ceiling * (now - start.at) /\ eng'.startWh = eng.startWh
<1>1. /\ InSession /\ TakeSample /\ now' = now /\ type' = type /\ start' = start
      /\ phase' \in {"charging", "finishing"}
  BY DEF SendMeterValues, StopTransaction, InSession, session
<1>2. /\ eng' \in Engines /\ Reading(eng.wh) <= Reading(eng'.wh) /\ eng'.startWh = eng.startWh
      /\ eng'.wh - eng'.startWh <= Ceiling * (now - start.at)
  BY <1>1, SampleStep
<1>3. eng.wh \in Nat /\ eng'.wh \in Nat
  BY <1>2 DEF MeterInv, TypeOK, Engines
<1> QED
  BY <1>1, <1>2, <1>3, Division, EngineAssumption DEF Reading

\* The CMS is never asked to bill more than the configured power could have
\* delivered between the start and the stop.
THEOREM BilledIsDeliverable == Spec => []BilledWithinCeiling
<1> USE EngineAssumption
<1>1. Init => BilledWithinCeiling
  BY DEF Init, BilledWithinCeiling, Nothing
<1>2. ASSUME MeterInv, BilledWithinCeiling, [Next]_vars PROVE BilledWithinCeiling'
  <2>1. CASE UNCHANGED vars
    BY <1>2, <2>1 DEF vars, BilledWithinCeiling
  <2>2. CASE Next /\ out'.kind = "stop"
    <3>1. /\ StopTransaction /\ out'.wh = Reading(eng'.wh) /\ out'.at = now
      BY <1>2, <2>2, WhatIsSent
    <3>2. /\ InSession /\ start' = start /\ eng'.wh \in Nat /\ Reading(eng'.wh) \in Nat
          /\ eng'.wh - eng'.startWh <= Ceiling * (now - start.at) /\ eng'.startWh = eng.startWh
      BY <1>2, <3>1, SampledRegister
    <3>3. eng.startWh = start.wh * Grain /\ start.wh \in Nat /\ start.at \in Nat /\ now \in Nat
      BY <1>2, <3>2 DEF MeterInv, TypeOK, Billing, Times
    <3> DEFINE r == Reading(eng'.wh)
    <3>4. r * Grain <= eng'.wh
      BY <3>2, Division DEF Reading
    <3>5. r \in Nat
      BY <3>2
    <3> HIDE DEF r
    <3>6. (r - start.wh) * Grain = r * Grain - start.wh * Grain
      BY <3>3, <3>5
    <3>7. r * Grain \in Nat /\ start.wh * Grain \in Nat /\ Ceiling * (now - start.at) \in Int
      BY <3>3, <3>5
    <3>8. (r - start.wh) * Grain <= Ceiling * (now - start.at)
      BY <3>2, <3>3, <3>4, <3>6, <3>7
    <3> QED
      BY <3>1, <3>2, <3>8 DEF BilledWithinCeiling, r
  <2>3. CASE Next /\ out'.kind = "recovery"
    <3>1. Recover /\ record # NoRecord /\ out'.wh = record.wh /\ out'.at = record.at
      BY <1>2, <2>3, WhatIsSent
    <3>2. start' = start /\ InSession
      BY <1>2, <3>1 DEF Recover, MeterInv, Bookkeeping
    <3> QED
      BY <1>2, <3>1, <3>2 DEF MeterInv, Billing, BilledWithinCeiling
  <2>4. CASE out'.kind \notin {"stop", "recovery"}
    BY <2>4 DEF BilledWithinCeiling
  <2> QED
    BY <1>2, <2>1, <2>2, <2>3, <2>4
<1>3. Init /\ []MeterInv /\ [][Next]_vars => []BilledWithinCeiling
  BY <1>1, <1>2, PTL
<1> QED
  BY <1>3, MeterInvariant, PTL DEF Spec

\* The register never runs back in the eyes of the CMS: over sessions, outages
\* and denied starts, no start, reading or stop is below one sent before.
THEOREM ReadingsGoForward == Spec => ReadingsNeverBack
<1> DEFINE Forward == out'.kind \in {"start", "values", "stop"} => out'.wh >= top
<1>1. MeterInv /\ [Next]_vars => [Forward]_vars
  <2> SUFFICES ASSUME MeterInv, Next PROVE Forward
    OBVIOUS
  <2>1. top \in Nat /\ top <= Reading(eng.wh) /\ eng.wh \in Nat
    BY DEF MeterInv, TypeOK, Highest
  <2>2. CASE out'.kind = "start"
    BY <2>1, <2>2, WhatIsSent
  <2>3. CASE out'.kind \in {"values", "stop"}
    <3>1. (SendMeterValues \/ StopTransaction) /\ out'.wh = Reading(eng'.wh)
      BY <2>3, WhatIsSent
    <3>2. /\ Reading(eng.wh) <= Reading(eng'.wh) /\ Reading(eng.wh) \in Nat
          /\ Reading(eng'.wh) \in Nat
      BY <3>1, SampledRegister
    <3> QED
      BY <2>1, <3>1, <3>2
  <2> QED
    BY <2>2, <2>3
<1> QED
  BY <1>1, MeterInvariant, PTL DEF Spec, ReadingsNeverBack

\* A fault changes no energy and no state of charge that is reported, and
\* nothing of what an outage bills.
THEOREM FaultsHideOnly == Spec => []FaultsOnlyHide
<1>1. Init => FaultsOnlyHide
  BY DEF Init, FaultsOnlyHide, Nothing
<1>2. ASSUME MeterInv, FaultsOnlyHide, [Next]_vars PROVE FaultsOnlyHide'
  <2>1. CASE UNCHANGED vars
    BY <1>2, <2>1 DEF vars, history, FaultsOnlyHide, Reading
  <2>2. CASE Next /\ out'.kind = "values"
    <3> DEFINE mv == Samples(eng')
    <3>1. out'.values = ApplyFault(mv, fault')
      BY <1>2, <2>2, WhatIsSent
    <3>2. \A k \in DOMAIN mv :
            mv[k] = IF k[1] = "Energy" THEN Reading(eng'.wh)
                    ELSE IF k[1] = "SoC" THEN eng'.soc ELSE "measured"
      BY DEF Samples
    <3> HIDE DEF mv
    <3>3. \A k \in DOMAIN out'.values :
            \/ k \in DOMAIN mv /\ out'.values[k] = mv[k]
            \/ /\ k \in DOMAIN mv /\ fault' = "dead_zero"
               /\ k[1] \in {"Voltage", "Current", "Power"}
      BY <3>1 DEF ApplyFault, Drop, Zero, Restrict
    <3> QED
      BY <2>2, <3>2, <3>3 DEF FaultsOnlyHide
  <2>3. CASE Next /\ out'.kind = "recovery"
    <3>1. Recover /\ record # NoRecord /\ out'.wh = record.wh /\ out'.values = <<>>
      BY <1>2, <2>3, WhatIsSent
    <3>2. metered' = metered /\ start' = start /\ InSession
      BY <1>2, <3>1 DEF Recover, MeterInv, Bookkeeping
    <3>3. record.wh = metered /\ start.wh <= record.wh /\ record.wh \in Nat /\ start.wh \in Nat
      BY <1>2, <3>1, <3>2 DEF MeterInv, Billing, TypeOK
    <3> QED
      BY <3>1, <3>2, <3>3 DEF FaultsOnlyHide
  <2>4. CASE Next /\ out'.kind \notin {"values", "recovery"}
    <3>1. out'.values = <<>>
      BY <1>2, <2>4, WhatIsSent
    <3> QED
      BY <2>4, <3>1 DEF FaultsOnlyHide
  <2> QED
    BY <1>2, <2>1, <2>2, <2>3, <2>4
<1>3. Init /\ []MeterInv /\ [][Next]_vars => []FaultsOnlyHide
  BY <1>1, <1>2, PTL
<1> QED
  BY <1>3, MeterInvariant, PTL DEF Spec
=============================================================================
