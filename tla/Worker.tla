------------------------------- MODULE Worker -------------------------------
(***************************************************************************)
(* The worker process (cmd/worker/main.go) and its server's ownership of   *)
(* the charger (internal/api/server.go, persist.go): concurrent requests   *)
(* configure and disconnect the one charger under s.mu and then, outside   *)
(* it, save or remove the configuration in charger.json, from which the    *)
(* next process relaunches the charger.  The process may be killed between *)
(* any two steps, also while it rewrites the file, and may be told to stop.*)
(*                                                                         *)
(* A charger is known by its number in the life of the process.            *)
(***************************************************************************)
EXTENDS Naturals, FiniteSets

CONSTANTS
  Configs,    \* configurations a request may ask for
  Handlers,   \* requests served at the same time
  Faults,     \* of "crash", "write", "mkdir": what may go wrong
  MaxCharger  \* bound: chargers one process starts

ASSUME WorkerAssumption ==
  /\ "none" \notin Configs /\ "torn" \notin Configs
  /\ Faults \subseteq {"crash", "write", "mkdir"} /\ MaxCharger \in Nat \ {0}

VARIABLES
  proc,     \* "down", "starting", "serving" or "closed"
  store,    \* what main holds after NewFileStore: "none", "file" or "nil pointer"
  started,  \* chargers started by this process
  current,  \* s.current: the number of the charger, 0 if none
  cfg,      \* s.currentCfg, "none" if nil
  live,     \* chargers whose context has not been cancelled
  file,     \* charger.json: a configuration, "none" if there is no file, or "torn"
  job,      \* per handler: what it has still to do
  excused,  \* requests overlapped or were cut off, or a write failed, since
            \* the last request that was alone began
  due,      \* the configuration that ran when the last process ended or closed
  panicked  \* a process has died of a nil store

vars == <<proc, store, started, current, cfg, live, file, job, excused, due, panicked>>

\* A handler that holds no lock: it is done, or about to write, half-way
\* through writing, or about to remove the file.
Job == [do : {"nothing", "remove"}, cfg : {"none"}] \cup [do : {"write", "finish"}, cfg : Configs]
Nothing == [do |-> "nothing", cfg |-> "none"]
Resting == [h \in Handlers |-> Nothing]
Busy(h) == job[h] # Nothing

Init ==
  /\ proc = "down" /\ store = "none" /\ started = 0 /\ current = 0 /\ cfg = "none" /\ live = {}
  /\ file = "none" /\ job = Resting /\ excused = FALSE /\ due = "none" /\ panicked = FALSE

-----------------------------------------------------------------------------
(* main                                                                    *)

\* NewFileStore; when its directory cannot be made, main goes on with a nil
\* *fileStore.
OpenStore ==
  /\ proc = "down" /\ proc' = "starting"
  /\ \/ store' = "file"
     \/ "mkdir" \in Faults /\ store' = "nil pointer"
  /\ UNCHANGED <<started, current, cfg, live, file, job, excused, due, panicked>>

\* startCharger, all of it under s.mu: the old charger is cancelled.  The mutant
\* replaces it without.
LaunchBeside(c) ==
  /\ started' = started + 1 /\ current' = started' /\ cfg' = c
  /\ live' = live \cup {started'}
Launch(c) ==
  /\ started' = started + 1 /\ current' = started' /\ cfg' = c
  /\ live' = (live \ {current}) \cup {started'}

\* RestorePersistedCharger, before serving: a file that is torn is ignored.
Restore ==
  /\ proc = "starting" /\ proc' = "serving"
  /\ \/ file \in Configs /\ Launch(file)
     \/ file \notin Configs /\ UNCHANGED <<started, current, cfg, live>>
  /\ UNCHANGED <<store, file, job, excused, due, panicked>>

-----------------------------------------------------------------------------
(* Requests                                                                *)

\* The locked half of a request is done, and the file is still to follow.
Begin(h, do, c) ==
  /\ job' = [job EXCEPT ![h] = [do |-> do, cfg |-> c]]
  /\ excused' = (proc = "closed" \/ \E g \in Handlers \ {h} : Busy(g))

\* handleConfigure up to the end of startCharger, also after Close.
Configure(h, c) ==
  /\ proc \in {"serving", "closed"} /\ ~Busy(h) /\ started < MaxCharger
  /\ Launch(c) /\ Begin(h, "write", c)
  /\ UNCHANGED <<proc, store, file, due, panicked>>

\* handleDisconnect up to Unlock.
Stop == current' = 0 /\ cfg' = "none" /\ live' = live \ {current}

Disconnect(h) ==
  /\ proc \in {"serving", "closed"} /\ ~Busy(h)
  /\ Stop /\ Begin(h, "remove", "none")
  /\ UNCHANGED <<proc, store, started, file, due, panicked>>

Finish(h) == job' = [job EXCEPT ![h] = Nothing]

\* persistConfig: os.WriteFile truncates, then writes; a failure is only logged.
Truncate(h) ==
  /\ job[h].do = "write" /\ job' = [job EXCEPT ![h].do = "finish"]
  /\ file' = "torn"
  /\ UNCHANGED <<proc, store, started, current, cfg, live, excused, due, panicked>>

WriteConfig(h) ==
  /\ job[h].do = "finish" /\ Finish(h)
  /\ \/ file' = job[h].cfg /\ UNCHANGED excused
     \/ "write" \in Faults /\ excused' = TRUE /\ UNCHANGED file
  /\ UNCHANGED <<proc, store, started, current, cfg, live, due, panicked>>

\* clearPersistedConfig.  The mutant keeps the file.
KeepConfig(h) ==
  /\ job[h].do = "remove" /\ Finish(h)
  /\ UNCHANGED <<proc, store, started, current, cfg, live, file, excused, due, panicked>>
RemoveConfig(h) ==
  /\ job[h].do = "remove" /\ Finish(h)
  /\ \/ file' = "none" /\ UNCHANGED excused
     \/ "write" \in Faults /\ excused' = TRUE /\ UNCHANGED file
  /\ UNCHANGED <<proc, store, started, current, cfg, live, due, panicked>>

-----------------------------------------------------------------------------
(* The end of a process                                                    *)

\* A process that had been told to stop had stopped its charger before.
Dies ==
  /\ proc' = "down" /\ store' = "none"
  /\ started' = 0 /\ current' = 0 /\ cfg' = "none" /\ live' = {}
  /\ job' = Resting
  /\ excused' = (excused \/ \E h \in Handlers : Busy(h))
  /\ due' = IF proc = "serving" THEN cfg ELSE due

Crash == /\ "crash" \in Faults /\ proc \in {"starting", "serving"}
         /\ Dies /\ UNCHANGED <<file, panicked>>

\* Server.Close on a signal; the file stays.  The mutant removes it.
CloseAndClear ==
  /\ proc = "serving" /\ proc' = "closed" /\ due' = cfg
  /\ Stop /\ file' = "none"
  /\ UNCHANGED <<store, started, job, excused, panicked>>
Close ==
  /\ proc = "serving" /\ proc' = "closed" /\ due' = cfg
  /\ Stop
  /\ UNCHANGED <<store, started, file, job, excused, panicked>>

Exit == proc = "closed" /\ Dies /\ UNCHANGED <<file, panicked>>

\* A charger's first accepted boot looks for interrupted sessions: c.store is
\* not nil, the pointer in it is.
BootAccepted ==
  /\ live # {} /\ store = "nil pointer"
  /\ Dies /\ panicked' = TRUE /\ UNCHANGED file

-----------------------------------------------------------------------------

Next ==
  \/ OpenStore \/ Restore \/ Crash \/ Close \/ Exit \/ BootAccepted
  \/ \E h \in Handlers :
       \/ \E c \in Configs : Configure(h, c)
       \/ Disconnect(h) \/ Truncate(h) \/ WriteConfig(h) \/ RemoveConfig(h)

Spec == Init /\ [][Next]_vars

-----------------------------------------------------------------------------
(* Properties                                                              *)

\* Every variable keeps its type; s.current and s.currentCfg are set together,
\* so GET /api/config and GET /api/state always agree.
TypeOK ==
  /\ proc \in {"down", "starting", "serving", "closed"}
  /\ store \in {"none", "file", "nil pointer"}
  /\ started \in 0 .. MaxCharger /\ current \in 0 .. started
  /\ cfg \in Configs \cup {"none"} /\ (cfg = "none" <=> current = 0)
  /\ live \in SUBSET (1 .. started)
  /\ file \in Configs \cup {"none", "torn"} /\ due \in Configs \cup {"none"}
  /\ job \in [Handlers -> Job]
  /\ excused \in BOOLEAN /\ panicked \in BOOLEAN

\* server.go:41: the server owns at most one charger.  However requests
\* interleave, a charger that is not cancelled is the one it owns.
OneCharger == live \subseteq {current}

AtRest == proc = "serving" /\ \A h \in Handlers : ~Busy(h)

\* Between requests the file says what runs, unless requests overlapped, one was
\* cut off by the end of a process, or a write failed.
SavedIsRunning == AtRest /\ ~excused => file = cfg

\* persist.go:12-16: a process that ended, crashed or told to stop, comes back
\* with the charger it ran, and with none if it was disconnected.
RestartRestores == [][Restore /\ ~excused => cfg' = due]_vars

\* main.go:40: without a session store the worker continues without persistence.
ContinuesWithoutStore == ~panicked
=============================================================================
