---------------------------- MODULE WorkerProofs ----------------------------
(***************************************************************************)
(* Theorems about the worker process, for any configurations, any number   *)
(* of concurrent requests and any of the faults.                           *)
(***************************************************************************)
EXTENDS Worker, TLAPS

\* A process that does not serve yet owns nothing.
Fresh ==
  proc \in {"down", "starting"} =>
    started = 0 /\ current = 0 /\ cfg = "none" /\ live = {} /\ job = Resting

\* What charger.json has to say in the end.
Owed == IF proc = "serving" THEN cfg ELSE due

\* Without an excuse at most one request is between its locked half and the
\* file, it is about to write what is owed, and otherwise the file says it.
Kept ==
  ~excused =>
    /\ \A h \in Handlers : Busy(h) => job[h].cfg = Owed
    /\ \A g, h \in Handlers : Busy(g) /\ Busy(h) => g = h
    /\ (\A h \in Handlers : ~Busy(h)) => file = Owed

WorkerInv == TypeOK /\ OneCharger /\ Fresh /\ Kept

-----------------------------------------------------------------------------

\* What a handler has still to do, and that it then rests.
LEMMA Jobs ==
  /\ Nothing \in Job /\ Resting \in [Handlers -> Job]
  /\ \A c \in Configs : [do |-> "write", cfg |-> c] \in Job /\ [do |-> "write", cfg |-> c] # Nothing
  /\ [do |-> "remove", cfg |-> "none"] \in Job /\ [do |-> "remove", cfg |-> "none"] # Nothing
BY DEF Nothing, Resting, Job

\* No charger at all is a typed number of chargers.
LEMMA NoCharger ==
  /\ 0 \in 0 .. MaxCharger
  /\ \A n \in 0 .. MaxCharger : 0 \in 0 .. n /\ {} \in SUBSET (1 .. n)
BY WorkerAssumption

\* A worker that was never started owns nothing and owes nothing.
LEMMA WorkerInit == Init => WorkerInv
<1> SUFFICES ASSUME Init PROVE WorkerInv
  OBVIOUS
<1>1. TypeOK
  BY Jobs, NoCharger DEF Init, TypeOK
<1>2. OneCharger /\ Fresh /\ Kept
  BY DEF Init, OneCharger, Fresh, Kept, Owed, Busy, Resting
<1> QED
  BY <1>1, <1>2 DEF WorkerInv

\* The end of a process excuses what was cut off and leaves nothing behind.
LEMMA DiesStep ==
  ASSUME WorkerInv, Dies, file' = file, panicked' \in BOOLEAN, proc # "down"
  PROVE  WorkerInv'
<1>1. /\ proc' = "down" /\ store' = "none" /\ started' = 0 /\ current' = 0 /\ cfg' = "none"
      /\ live' = {} /\ job' = Resting
      /\ excused' = (excused \/ \E h \in Handlers : Busy(h))
      /\ due' = IF proc = "serving" THEN cfg ELSE due
  BY DEF Dies
<1>2. TypeOK'
  <2>1. excused' \in BOOLEAN /\ due' \in Configs \cup {"none"} /\ file' \in Configs \cup {"none", "torn"}
    BY <1>1 DEF WorkerInv, TypeOK
  <2> QED
    BY <1>1, <2>1, Jobs, NoCharger DEF TypeOK
<1>3. OneCharger' /\ Fresh'
  BY <1>1 DEF OneCharger, Fresh
<1>4. Kept'
  BY <1>1 DEF WorkerInv, Kept, Owed, Busy, Resting
<1> QED
  BY <1>2, <1>3, <1>4 DEF WorkerInv

\* Starting a charger, in place of the one that is owned.
LEMMA LaunchStep ==
  ASSUME WorkerInv, NEW c \in Configs, Launch(c), started < MaxCharger
  PROVE  /\ started' \in 0 .. MaxCharger /\ current' \in 0 .. started' /\ current' # 0
         /\ cfg' = c /\ cfg' # "none"
         /\ live' \in SUBSET (1 .. started') /\ live' \subseteq {current'}
<1>1. started \in Nat /\ started' = started + 1 /\ current' = started' /\ live \subseteq 1 .. started
  <2>1. started \in 0 .. MaxCharger /\ live \in SUBSET (1 .. started)
    BY DEF WorkerInv, TypeOK
  <2> QED
    BY <2>1 DEF Launch
<1>2. live' \subseteq {started'}
  BY <1>1 DEF WorkerInv, OneCharger, Launch
<1> QED
  BY <1>1, <1>2, WorkerAssumption DEF Launch

\* A request that begins: alone it has the word, with others it is excused.
LEMMA BeginStep ==
  ASSUME WorkerInv, NEW h \in Handlers, NEW do \in {"write", "remove"}, NEW c,
         [do |-> do, cfg |-> c] \in Job, [do |-> do, cfg |-> c] # Nothing,
         proc \in {"serving", "closed"}, proc' = proc, ~Busy(h), Begin(h, do, c), cfg' = c
  PROVE  job' \in [Handlers -> Job] /\ excused' \in BOOLEAN /\ Kept'
<1>1. /\ job \in [Handlers -> Job] /\ job' = [job EXCEPT ![h] = [do |-> do, cfg |-> c]]
      /\ excused' = (proc = "closed" \/ \E g \in Handlers \ {h} : Busy(g))
  BY DEF WorkerInv, TypeOK, Begin
<1>2. ASSUME ~excused' PROVE proc = "serving" /\ \A g \in Handlers \ {h} : ~Busy(g)
  BY <1>1, <1>2
<1>3. /\ \A g \in Handlers \ {h} : job'[g] = job[g]
      /\ job'[h] = [do |-> do, cfg |-> c]
  BY <1>1
<1> QED
  BY <1>1, <1>2, <1>3 DEF Kept, Owed, Busy

\* The half of a request that holds the lock.
LEMMA RequestStep ==
  ASSUME WorkerInv, NEW h \in Handlers,
         (\E c \in Configs : Configure(h, c)) \/ Disconnect(h)
  PROVE  WorkerInv'
<1>1. CASE \E c \in Configs : Configure(h, c)
  <2>1. PICK c \in Configs : Configure(h, c)
    BY <1>1
  <2>2. /\ started' \in 0 .. MaxCharger /\ current' \in 0 .. started' /\ current' # 0
        /\ cfg' = c /\ cfg' # "none"
        /\ live' \in SUBSET (1 .. started') /\ live' \subseteq {current'}
    BY <2>1, LaunchStep DEF Configure
  <2>3. job' \in [Handlers -> Job] /\ excused' \in BOOLEAN /\ Kept'
    BY <2>1, <2>2, Jobs, BeginStep DEF Configure
  <2>4. proc' = proc /\ proc \in {"serving", "closed"}
    BY <2>1 DEF Configure
  <2>5. TypeOK'
    BY <2>1, <2>2, <2>3 DEF Configure, WorkerInv, TypeOK
  <2> QED
    BY <2>2, <2>3, <2>4, <2>5 DEF WorkerInv, OneCharger, Fresh
<1>2. CASE Disconnect(h)
  <2>1. /\ current' = 0 /\ cfg' = "none" /\ live' = {} /\ started' = started
        /\ proc' = proc /\ proc \in {"serving", "closed"}
    BY <1>2 DEF Disconnect, Stop, WorkerInv, OneCharger
  <2>2. job' \in [Handlers -> Job] /\ excused' \in BOOLEAN /\ Kept'
    BY <1>2, <2>1, Jobs, BeginStep DEF Disconnect
  <2>3. TypeOK'
    <3>1. started \in 0 .. MaxCharger
      BY DEF WorkerInv, TypeOK
    <3> QED
      BY <1>2, <2>1, <2>2, <3>1, NoCharger DEF Disconnect, WorkerInv, TypeOK
  <2> QED
    BY <2>1, <2>2, <2>3 DEF WorkerInv, OneCharger, Fresh
<1> QED
  BY <1>1, <1>2

\* The half of a request that holds no lock.
LEMMA FileStep ==
  ASSUME WorkerInv, NEW h \in Handlers,
         Truncate(h) \/ WriteConfig(h) \/ RemoveConfig(h)
  PROVE  WorkerInv'
<1>1. /\ proc' = proc /\ store' = store /\ started' = started /\ current' = current
      /\ cfg' = cfg /\ live' = live /\ due' = due /\ panicked' = panicked
  BY DEF Truncate, WriteConfig, RemoveConfig
<1>2. job \in [Handlers -> Job] /\ job[h] \in Job /\ excused \in BOOLEAN
  BY DEF WorkerInv, TypeOK
<1>3. Busy(h) /\ proc \notin {"down", "starting"}
  <2>1. job[h].do # "nothing"
    BY DEF Truncate, WriteConfig, RemoveConfig
  <2> QED
    BY <2>1 DEF Busy, Nothing, WorkerInv, Fresh, Resting
<1>4. OneCharger' /\ Fresh'
  BY <1>1, <1>3 DEF WorkerInv, OneCharger, Fresh
<1>5. CASE Truncate(h)
  <2>1. /\ job' = [job EXCEPT ![h].do = "finish"] /\ job[h].do = "write" /\ file' = "torn"
        /\ excused' = excused
    BY <1>5 DEF Truncate
  <2>2. job[h].cfg \in Configs /\ job'[h] = [do |-> "finish", cfg |-> job[h].cfg]
    BY <1>2, <2>1 DEF Job
  <2>3. job' \in [Handlers -> Job]
    BY <1>2, <2>1, <2>2 DEF Job
  <2>4. TypeOK'
    BY <1>1, <2>1, <2>3 DEF WorkerInv, TypeOK
  <2>5. Kept'
    <3>1. job'[h] # Nothing /\ \A g \in Handlers \ {h} : job'[g] = job[g]
      BY <1>2, <2>1, <2>2 DEF Nothing
    <3> QED
      BY <1>1, <1>3, <2>1, <2>2, <3>1 DEF WorkerInv, Kept, Owed, Busy
  <2> QED
    BY <1>4, <2>4, <2>5 DEF WorkerInv
<1>6. CASE WriteConfig(h) \/ RemoveConfig(h)
  <2>1. job' = [job EXCEPT ![h] = Nothing]
    BY <1>6 DEF WriteConfig, RemoveConfig, Finish
  <2>2. \/ excused' = TRUE /\ file' = file
        \/ excused' = excused /\ file' = job[h].cfg
    BY <1>2, <1>6 DEF WriteConfig, RemoveConfig, Job
  <2>3. job' \in [Handlers -> Job] /\ job[h].cfg \in Configs \cup {"none"}
    BY <1>2, <2>1, Jobs DEF Job
  <2>4. TypeOK'
    BY <1>1, <1>2, <2>2, <2>3 DEF WorkerInv, TypeOK
  <2>5. Kept'
    <3>1. job'[h] = Nothing /\ \A g \in Handlers \ {h} : job'[g] = job[g]
      BY <1>2, <2>1
    <3> QED
      BY <1>1, <1>3, <2>2, <3>1 DEF WorkerInv, Kept, Owed, Busy
  <2> QED
    BY <1>4, <2>4, <2>5 DEF WorkerInv
<1> QED
  BY <1>5, <1>6

\* The new process runs what the file says, which is what was owed.
LEMMA RestoreStep ==
  ASSUME WorkerInv, Restore
  PROVE  WorkerInv' /\ (~excused => cfg' = due)
<1>1. /\ proc = "starting" /\ proc' = "serving" /\ store' = store /\ file' = file /\ job' = job
      /\ excused' = excused /\ due' = due /\ panicked' = panicked
  BY DEF Restore
<1>2. started = 0 /\ current = 0 /\ cfg = "none" /\ live = {} /\ \A h \in Handlers : ~Busy(h)
  BY <1>1 DEF WorkerInv, Fresh, Busy, Resting
<1>3. ~excused => file = due /\ file # "torn"
  BY <1>1, <1>2, WorkerAssumption DEF WorkerInv, Kept, Owed, TypeOK
<1>4. /\ started' \in 0 .. MaxCharger /\ current' \in 0 .. started'
      /\ cfg' \in Configs \cup {"none"} /\ (cfg' = "none" <=> current' = 0)
      /\ live' \in SUBSET (1 .. started') /\ live' \subseteq {current'}
  <2>1. CASE file \in Configs /\ Launch(file)
    BY <1>2, <2>1, LaunchStep, WorkerAssumption
  <2>2. CASE file \notin Configs /\ UNCHANGED <<started, current, cfg, live>>
    BY <1>2, <2>2, WorkerAssumption
  <2> QED
    BY <2>1, <2>2 DEF Restore
<1>5. ~excused => cfg' = file
  BY <1>2, <1>3 DEF Restore, Launch, WorkerInv, TypeOK
<1>6. TypeOK'
  BY <1>1, <1>4 DEF WorkerInv, TypeOK
<1>7. Kept'
  BY <1>1, <1>2, <1>5 DEF Kept, Owed, Busy
<1> QED
  BY <1>1, <1>3, <1>4, <1>5, <1>6, <1>7 DEF WorkerInv, OneCharger, Fresh

\* The server gives up its charger, which is what is owed from then on.
LEMMA CloseStep == WorkerInv /\ Close => WorkerInv'
<1> SUFFICES ASSUME WorkerInv, Close PROVE WorkerInv'
  OBVIOUS
<1>1. /\ proc = "serving" /\ proc' = "closed" /\ due' = cfg /\ current' = 0 /\ cfg' = "none"
      /\ live' = {} /\ store' = store /\ started' = started /\ file' = file /\ job' = job
      /\ excused' = excused /\ panicked' = panicked
  BY DEF Close, Stop, WorkerInv, OneCharger
<1>2. TypeOK'
  <2>1. started \in 0 .. MaxCharger
    BY DEF WorkerInv, TypeOK
  <2> QED
    BY <1>1, <2>1, NoCharger DEF WorkerInv, TypeOK
<1> QED
  BY <1>1, <1>2 DEF WorkerInv, OneCharger, Fresh, Kept, Owed, Busy

\* Every step preserves the invariant.
LEMMA WorkerStep == WorkerInv /\ [Next]_vars => WorkerInv'
<1> SUFFICES ASSUME WorkerInv, [Next]_vars PROVE WorkerInv'
  OBVIOUS
<1>1. CASE OpenStore
  BY <1>1 DEF OpenStore, WorkerInv, TypeOK, OneCharger, Fresh, Kept, Owed, Busy
<1>2. CASE Restore BY <1>2, RestoreStep
<1>3. CASE Crash \/ Exit \/ BootAccepted
  <2>1. proc # "down"
    BY <1>3 DEF Crash, Exit, BootAccepted, WorkerInv, Fresh
  <2>2. Dies /\ file' = file /\ panicked' \in BOOLEAN
    BY <1>3 DEF Crash, Exit, BootAccepted, WorkerInv, TypeOK
  <2> QED
    BY <2>1, <2>2, DiesStep
<1>4. CASE Close BY <1>4, CloseStep
<1>5. CASE \E h \in Handlers : (\E c \in Configs : Configure(h, c)) \/ Disconnect(h)
  BY <1>5, RequestStep
<1>6. CASE \E h \in Handlers : Truncate(h) \/ WriteConfig(h) \/ RemoveConfig(h)
  BY <1>6, FileStep
<1>7. CASE UNCHANGED vars
  BY <1>7 DEF vars, WorkerInv, TypeOK, OneCharger, Fresh, Kept, Owed, Busy
<1> QED
  BY <1>1, <1>2, <1>3, <1>4, <1>5, <1>6, <1>7 DEF Next

\* It holds in every reachable state.
LEMMA WorkerInvariant == Spec => []WorkerInv
BY WorkerInit, WorkerStep, PTL DEF Spec

-----------------------------------------------------------------------------

\* Every reachable state is typed, and a configuration is shown exactly while
\* there is a charger.
THEOREM WorkerTypeCorrect == Spec => []TypeOK
<1>1. WorkerInv => TypeOK
  BY DEF WorkerInv
<1> QED
  BY <1>1, WorkerInvariant, PTL

\* The server owns every charger it has not cancelled.
THEOREM OnlyOneCharger == Spec => []OneCharger
<1>1. WorkerInv => OneCharger
  BY DEF WorkerInv
<1> QED
  BY <1>1, WorkerInvariant, PTL

\* Between requests the file says what runs, but for the named excuses.
THEOREM SavedConfigurationRuns == Spec => []SavedIsRunning
<1>1. WorkerInv => SavedIsRunning
  BY DEF WorkerInv, Kept, Owed, SavedIsRunning, AtRest
<1> QED
  BY <1>1, WorkerInvariant, PTL

\* A new process runs what the last one ran, but for the named excuses.
THEOREM RestartRestoresCharger == Spec => RestartRestores
<1>1. WorkerInv /\ [Next]_vars => [Restore /\ ~excused => cfg' = due]_vars
  BY RestoreStep
<1> QED
  BY <1>1, WorkerInvariant, PTL DEF Spec, RestartRestores
=============================================================================
