---------------------------- MODULE SessionStore ----------------------------
(***************************************************************************)
(* The session store (internal/session/store.go): a map of open sessions   *)
(* in memory and one JSON file that every mutation rewrites as a whole,    *)
(* through a temporary file that is written, synced, closed and renamed    *)
(* over it.  The actors of successive chargers share one store.  Between   *)
(* any two of those system calls the process may die or the machine may    *)
(* lose power, and any of them may fail.                                   *)
(*                                                                         *)
(* The file system (external) is modelled as far as atomicWrite relies on  *)
(* it: "disk" is what a process reads at the path, "media" what the path   *)
(* holds after a power loss.  A rename changes disk at once; it reaches    *)
(* the media some time later, because the directory is not synced.         *)
(***************************************************************************)
EXTENDS Naturals, FiniteSets

CONSTANTS
  Keys,      \* (CPID, connector) pairs
  Txs,       \* transaction ids
  Readings,  \* meter readings
  Callers,   \* goroutines that use the store
  Faults     \* of "flush", "crash", "power", "read": what may go wrong

ASSUME StoreAssumption ==
  /\ Txs \subseteq Nat \ {0} /\ Readings \subseteq Nat
  /\ Faults \subseteq {"flush", "crash", "power", "read"}

\* An open session: its transaction and its last reading.
NoSession == [tx |-> 0, wh |-> 0]
Session == [tx : Txs, wh : Readings]
Sessions == [Keys -> Session \cup {NoSession}]
Empty == [k \in Keys |-> NoSession]

\* The JSON file is a list of records, which name their keys.
Rec == [key : Keys, s : Session]
Encode(m) == {[key |-> k, s |-> m[k]] : k \in {l \in Keys : m[l] # NoSession}}
Decode(recs) ==
  [k \in Keys |-> IF \E r \in recs : r.key = k
                  THEN (CHOOSE r \in recs : r.key = k).s ELSE NoSession]

File == [state : {"absent", "corrupt"}, recs : {{}}] \cup [state : {"good"}, recs : SUBSET Rec]
Absent == [state |-> "absent", recs |-> {}]
Corrupt == [state |-> "corrupt", recs |-> {}]
Good(recs) == [state |-> "good", recs |-> recs]

VARIABLES
  up,     \* a worker process is running
  mem,    \* fs.sessions
  pc,     \* per caller: "idle", or the system call of atomicWrite that is next
  job,    \* per caller: the one change it was asked for
  buf,    \* per caller: the marshalled records
  tmp,    \* per caller: its temporary file
  disk,   \* the file at fs.path
  durable,\* the data of that file has been synced
  media,  \* the file a power loss would leave
  told    \* per key: the sessions the callers may find after a restart

callVars == <<pc, job, buf, tmp>>
fileVars == <<disk, durable, media>>
vars == <<up, mem, callVars, fileVars, told>>

Stages == {"idle", "create", "write", "sync", "close", "rename"}
Idle == [a \in Callers |-> "idle"]
NoFile == [a \in Callers |-> "none"]
Nothing == [a \in Callers |-> {}]

\* No process yet, and a file that is missing or damaged.
Init ==
  /\ up = FALSE /\ mem = Empty
  /\ pc = Idle /\ job = Nothing /\ buf = Nothing /\ tmp = NoFile
  /\ disk \in {Absent, Corrupt} /\ durable = TRUE /\ media = disk
  /\ told = [k \in Keys |-> {NoSession}]

-----------------------------------------------------------------------------

\* A missing or corrupt file starts empty; so does one that cannot be read, and
\* then every session may be gone with the next write.
NewFileStore ==
  /\ ~up /\ up' = TRUE
  /\ \/ mem' = Decode(disk.recs) /\ UNCHANGED told
     \/ /\ "read" \in Faults /\ mem' = Empty
        /\ told' = [k \in Keys |-> told[k] \cup {NoSession}]
  /\ UNCHANGED <<callVars, fileVars>>

\* fs.mu is free.  The mutant lets go of it before the file is written.
CanLockWhileFlushing(a) == up /\ pc[a] = "idle"
CanLock(a) == up /\ \A b \in Callers : pc[b] = "idle"

\* One mutation in memory, and the records that are to be flushed for it.
Mutate(a, k, s) ==
  /\ mem' = [mem EXCEPT ![k] = s]
  /\ pc' = [pc EXCEPT ![a] = "create"]
  /\ job' = [job EXCEPT ![a] = {[key |-> k, s |-> s]}]
  /\ buf' = [buf EXCEPT ![a] = Encode(mem')]
  /\ told' = [told EXCEPT ![k] = @ \cup {s}]
  /\ UNCHANGED <<up, tmp, fileVars>>

Put(a, k, s) == CanLock(a) /\ Mutate(a, k, s)

\* A reading for a session that is not open returns nil at once.  The mutant
\* does not look.
UpdateAlways(a, k, wh) == CanLock(a) /\ Mutate(a, k, [mem[k] EXCEPT !.wh = wh])
UpdateMeter(a, k, wh) ==
  CanLock(a) /\ mem[k] # NoSession /\ Mutate(a, k, [mem[k] EXCEPT !.wh = wh])

Delete(a, k) == CanLock(a) /\ mem[k] # NoSession /\ Mutate(a, k, NoSession)

\* A system call of atomicWrite succeeds.
Step(a, from, to, file) ==
  /\ pc[a] = from /\ pc' = [pc EXCEPT ![a] = to]
  /\ tmp' = [tmp EXCEPT ![a] = file]
  /\ UNCHANGED <<up, mem, job, buf, fileVars, told>>

CreateTemp(a) == Step(a, "create", "write", "empty")
Write(a) == Step(a, "write", "sync", "written")
\* The mutant does not sync.
NoSync(a) == Step(a, "sync", "close", tmp[a])
Sync(a) == Step(a, "sync", "close", "synced")
Close(a) == Step(a, "close", "rename", tmp[a])

\* The call returns: the deferred Remove, the deferred Unlock.
Return(a) ==
  /\ pc' = [pc EXCEPT ![a] = "idle"] /\ tmp' = [tmp EXCEPT ![a] = "none"]
  /\ job' = [job EXCEPT ![a] = {}] /\ buf' = [buf EXCEPT ![a] = {}]

\* Rename, and return nil: the caller may count on what it asked for.
Rename(a) ==
  /\ pc[a] = "rename"
  /\ disk' = Good(buf[a])
  /\ durable' = (tmp[a] = "synced")
  /\ told' = [k \in Keys |-> LET asked == {r \in job[a] : r.key = k}
                            IN  IF asked = {} THEN told[k] ELSE {r.s : r \in asked}]
  /\ Return(a)
  /\ UNCHANGED <<up, mem, media>>

\* A system call fails: the error is returned, memory keeps the mutation.  The
\* mutant returns without unlocking.
FailLocked(a) ==
  /\ "flush" \in Faults /\ pc[a] \in Stages \ {"idle"}
  /\ tmp' = [tmp EXCEPT ![a] = "none"] /\ pc' = [pc EXCEPT ![a] = "returned"]
  /\ UNCHANGED <<up, mem, job, buf, fileVars, told>>
Fail(a) ==
  /\ "flush" \in Faults /\ pc[a] \in Stages \ {"idle"}
  /\ Return(a)
  /\ UNCHANGED <<up, mem, fileVars, told>>

-----------------------------------------------------------------------------
(* The environment                                                         *)

Dies == /\ up' = FALSE /\ mem' = Empty
        /\ pc' = Idle /\ job' = Nothing /\ buf' = Nothing /\ tmp' = NoFile

Crash == /\ "crash" \in Faults /\ up
         /\ Dies /\ UNCHANGED <<fileVars, told>>

\* What was promised since the last write-back may be gone with the rename.
PowerLoss ==
  /\ "power" \in Faults /\ Dies
  /\ disk' = media /\ durable' = TRUE
  /\ told' = [k \in Keys |-> {Decode(disk'.recs)[k]}]
  /\ UNCHANGED media

\* The directory reaches the media, whether the data of the file did or not.
WriteBack ==
  /\ media' \in IF durable THEN {disk} ELSE {disk, Corrupt}
  /\ UNCHANGED <<up, mem, callVars, disk, durable, told>>

-----------------------------------------------------------------------------

Flush(a) == CreateTemp(a) \/ Write(a) \/ Sync(a) \/ Close(a) \/ Rename(a)

Request(a) ==
  \E k \in Keys :
    \/ \E s \in Session : Put(a, k, s)
    \/ \E wh \in Readings : UpdateMeter(a, k, wh)
    \/ Delete(a, k)

Next == \/ NewFileStore \/ Crash \/ PowerLoss \/ WriteBack
        \/ \E a \in Callers : Request(a) \/ Flush(a) \/ Fail(a)

\* A goroutine in a system call is eventually scheduled and the call returns.
Spec == Init /\ [][Next]_vars
FairSpec == Spec /\ \A a \in Callers : WF_vars(Flush(a))

-----------------------------------------------------------------------------
(* Properties                                                              *)

\* Every variable keeps its type: memory and file only ever hold sessions.
TypeOK ==
  /\ up \in BOOLEAN /\ mem \in Sessions
  /\ pc \in [Callers -> Stages]
  /\ job \in [Callers -> SUBSET [key : Keys, s : Session \cup {NoSession}]]
  /\ buf \in [Callers -> SUBSET Rec]
  /\ tmp \in [Callers -> {"none", "empty", "written", "synced"}]
  /\ disk \in File /\ durable \in BOOLEAN /\ media \in File
  /\ told \in [Keys -> SUBSET (Session \cup {NoSession})]

\* store.go:163-167: atomicWrite is crash-safe.  Once a file has been written,
\* neither a reader nor a machine that lost power ever finds half of one, and a
\* damaged file that is overwritten does not come back once written through.
NeverTorn ==
  [][disk' = Corrupt \/ media' = Corrupt => disk = Corrupt \/ media = Corrupt]_vars

\* A caller that was told nil finds its session, or its deletion, after any
\* crash of the process (unless a start could not read the file); one that got
\* an error, or no answer yet, finds the session as it was before or after its
\* call.  Callers do not lose each other's changes.
AckedSurvives == \A k \in Keys : Decode(disk.recs)[k] \in told[k]

\* A reading that arrives after its session was closed, from a tick or from the
\* actor of an earlier charger, does not open it again.
OnlyPutOpens ==
  [][\A k \in Keys : mem[k] = NoSession /\ mem'[k] # NoSession =>
       NewFileStore \/ \E a \in Callers, s \in Session : Put(a, k, s)]_vars

\* store.go:44-55: whatever fails, the store is the map its callers take it for,
\* and Charger with them: one change at a time, saved as a whole or not at all
\* before the next one begins, and what is read back is what was saved last, or
\* before that a power loss, unless it cannot be read.
Saved == Decode(disk.recs)
Map == INSTANCE DurableMap WITH
  Values <- Session, NoValue <- NoSession,
  known <- IF up THEN mem ELSE Saved, saved <- Saved, settled <- Decode(media.recs),
  busy <- \E a \in Callers : pc[a] # "idle"
ImplementsMap == Map!Spec

\* Every call returns and leaves the mutex free, failing or not.
LockReleased == \A a \in Callers : pc[a] # "idle" ~> pc[a] = "idle"
=============================================================================
