------------------------- MODULE SessionStoreProofs -------------------------
(***************************************************************************)
(* Proofs about the session store, for any number of keys, sessions and    *)
(* callers and any faults.  The argument: the mutex admits one caller, so  *)
(* what it has marshalled is what memory holds until it lets go, and what  *)
(* memory holds is always among what the callers were told.                *)
(***************************************************************************)
EXTENDS SessionStore, TLAPS

Busy(a) == pc[a] # "idle"

\* The callers hold the mutex one at a time, with memory and file in step.
Mutex == \A a, b \in Callers : Busy(a) /\ Busy(b) => a = b
Marshalled ==
  \A a \in Callers : Busy(a) =>
    up /\ buf[a] = Encode(mem) /\ \A r \in job[a] : mem[r.key] = r.s

\* A file is renamed into place only when its data is synced.
SyncedFirst == durable /\ \A a \in Callers : pc[a] \in {"close", "rename"} => tmp[a] = "synced"

MemoryTold == up => \A k \in Keys : mem[k] \in told[k]

StoreInv == TypeOK /\ Mutex /\ Marshalled /\ SyncedFirst /\ MemoryTold /\ AckedSurvives

-----------------------------------------------------------------------------

\* What is marshalled is a set of records, and unmarshalling gives the map back.
LEMMA DecodeEncode ==
  ASSUME NEW m \in Sessions
  PROVE  Encode(m) \in SUBSET Rec /\ Decode(Encode(m)) = m
<1>1. Encode(m) \in SUBSET Rec
  <2>1. \A k \in Keys : m[k] # NoSession => m[k] \in Session
    BY DEF Sessions
  <2>2. QED BY <2>1 DEF Encode, Rec
<1>2. ASSUME NEW k \in Keys PROVE Decode(Encode(m))[k] = m[k]
  <2>1. CASE m[k] = NoSession
    <3>1. ~ \E r \in Encode(m) : r.key = k
      BY <2>1 DEF Encode
    <3>2. QED BY <3>1, <2>1 DEF Decode
  <2>2. CASE m[k] # NoSession
    <3>1. [key |-> k, s |-> m[k]] \in Encode(m)
      BY <2>2 DEF Encode
    <3>2. \A r \in Encode(m) : r.key = k => r.s = m[k]
      BY DEF Encode
    <3>3. \E r \in Encode(m) : r.key = k
      BY <3>1
    <3>4. QED BY <3>2, <3>3 DEF Decode
  <2>3. QED BY <2>1, <2>2
<1>3. QED
  BY <1>1, <1>2 DEF Sessions, Decode

\* What is read from any file is a map of sessions.
LEMMA DecodeType ==
  ASSUME NEW recs \in SUBSET Rec
  PROVE  Decode(recs) \in Sessions
<1>1. ASSUME NEW k \in Keys PROVE Decode(recs)[k] \in Session \cup {NoSession}
  <2>1. CASE \E r \in recs : r.key = k
    <3>1. (CHOOSE r \in recs : r.key = k) \in Rec
      BY <2>1
    <3>2. QED BY <2>1, <3>1 DEF Decode, Rec
  <2>2. CASE ~ \E r \in recs : r.key = k
    BY <2>2 DEF Decode
  <2>3. QED BY <2>1, <2>2
<1>2. QED BY <1>1 DEF Decode, Sessions

\* Nothing is in any file before the first one is written.
LEMMA NothingDecoded == Decode({}) = Empty
BY DEF Decode, Empty

\* A worker that was never started has nothing under way.
LEMMA StoreInit == Init => StoreInv
<1> SUFFICES ASSUME Init PROVE StoreInv
  OBVIOUS
<1>1. TypeOK
  <2>1. disk \in File /\ media \in File /\ durable \in BOOLEAN
    BY DEF Init, File, Absent, Corrupt
  <2>2. told \in [Keys -> SUBSET (Session \cup {NoSession})] /\ mem \in Sessions
    BY DEF Init, Sessions, Empty
  <2>3. QED BY <2>1, <2>2 DEF Init, TypeOK, Idle, Nothing, NoFile, Stages
<1>2. Mutex /\ Marshalled /\ SyncedFirst /\ MemoryTold
  BY DEF Init, Mutex, Marshalled, SyncedFirst, MemoryTold, Busy, Idle
<1>3. AckedSurvives
  BY NothingDecoded DEF Init, AckedSurvives, Absent, Corrupt, Empty
<1>4. QED BY <1>1, <1>2, <1>3 DEF StoreInv

\* A mutation in memory: the caller now holds the mutex, has marshalled what
\* memory holds, and may find what it asked for.
LEMMA MutateKeepsInv ==
  ASSUME StoreInv, NEW a \in Callers, NEW k \in Keys, NEW s \in Session \cup {NoSession},
         CanLock(a), Mutate(a, k, s)
  PROVE  StoreInv'
<1> USE DEF Mutate, CanLock
<1>1. mem' \in Sessions /\ mem' = [mem EXCEPT ![k] = s]
  BY DEF StoreInv, TypeOK, Sessions
<1>2. Encode(mem') \in SUBSET Rec
  BY <1>1, DecodeEncode
<1>3. TypeOK'
  <2>1. job' \in [Callers -> SUBSET [key : Keys, s : Session \cup {NoSession}]]
        /\ buf' \in [Callers -> SUBSET Rec] /\ pc' \in [Callers -> Stages]
    BY <1>2 DEF StoreInv, TypeOK, Stages, Encode
  <2>2. told' \in [Keys -> SUBSET (Session \cup {NoSession})]
    BY DEF StoreInv, TypeOK
  <2>3. QED BY <1>1, <2>1, <2>2 DEF StoreInv, TypeOK, fileVars
<1>4. Mutex'
  BY DEF StoreInv, TypeOK, Mutex, Busy
<1>5. Marshalled'
  <2> SUFFICES ASSUME NEW b \in Callers, pc'[b] # "idle"
               PROVE  up' /\ buf'[b] = Encode(mem') /\ \A r \in job'[b] : mem'[r.key] = r.s
    BY DEF Marshalled, Busy, Encode
  <2>1. b = a
    BY DEF StoreInv, TypeOK
  <2>2. buf'[a] = Encode(mem') /\ job'[a] = {[key |-> k, s |-> s]} /\ up'
    BY DEF StoreInv, TypeOK
  <2>3. QED BY <2>1, <2>2, <1>1 DEF StoreInv, TypeOK, Sessions
<1>6. SyncedFirst'
  BY DEF StoreInv, TypeOK, SyncedFirst, fileVars
<1>7. MemoryTold'
  BY <1>1 DEF StoreInv, TypeOK, MemoryTold, Sessions
<1>8. AckedSurvives'
  BY DEF StoreInv, TypeOK, AckedSurvives, fileVars, Decode
<1>9. QED BY <1>3, <1>4, <1>5, <1>6, <1>7, <1>8 DEF StoreInv

\* The system calls of atomicWrite keep memory and file; each finds the
\* temporary file in the state the previous one left.
LEMMA StepKeepsInv ==
  ASSUME StoreInv, NEW a \in Callers, CreateTemp(a) \/ Write(a) \/ Sync(a) \/ Close(a)
  PROVE  StoreInv'
<1> USE DEF CreateTemp, Write, Sync, Close, Step
<1>1. TypeOK'
  BY DEF StoreInv, TypeOK, Stages, fileVars
<1>2. Mutex'
  BY DEF StoreInv, TypeOK, Mutex, Busy, Stages
<1>3. Marshalled'
  <2> SUFFICES ASSUME NEW b \in Callers, pc'[b] # "idle"
               PROVE  up' /\ buf'[b] = Encode(mem)' /\ \A r \in job'[b] : mem'[r.key] = r.s
    BY DEF Marshalled, Busy
  <2>1. pc[b] # "idle" /\ mem' = mem
    BY DEF StoreInv, TypeOK
  <2>2. QED BY <2>1 DEF StoreInv, Marshalled, Busy, Encode
<1>4. SyncedFirst'
  BY DEF StoreInv, TypeOK, SyncedFirst, fileVars
<1>5. MemoryTold' /\ AckedSurvives'
  BY DEF StoreInv, MemoryTold, AckedSurvives, Decode, fileVars
<1>6. QED BY <1>1, <1>2, <1>3, <1>4, <1>5 DEF StoreInv

\* Returning, with nil or an error, lets go of the mutex and of nothing else.
LEMMA ReturnKeepsInv ==
  ASSUME StoreInv, NEW a \in Callers, Return(a), UNCHANGED <<up, mem>>
  PROVE  /\ Mutex' /\ Marshalled'
         /\ \A b \in Callers : pc'[b] \in {"close", "rename"} => tmp'[b] = "synced"
         /\ pc' \in [Callers -> Stages]
         /\ job' \in [Callers -> SUBSET [key : Keys, s : Session \cup {NoSession}]]
         /\ buf' \in [Callers -> SUBSET Rec]
         /\ tmp' \in [Callers -> {"none", "empty", "written", "synced"}]
<1> USE DEF Return
<1>1. \A b \in Callers : pc'[b] # "idle" => b # a /\ pc[b] # "idle" /\ pc'[b] = pc[b]
  BY DEF StoreInv, TypeOK
<1>2. \A b \in Callers : b # a => buf'[b] = buf[b] /\ job'[b] = job[b] /\ tmp'[b] = tmp[b]
  BY DEF StoreInv, TypeOK
<1>3. Mutex'
  BY <1>1 DEF StoreInv, Mutex, Busy
<1>4. Marshalled'
  BY <1>1, <1>2 DEF StoreInv, Marshalled, Busy, Encode
<1>5. \A b \in Callers : pc'[b] \in {"close", "rename"} => tmp'[b] = "synced"
  BY <1>1, <1>2 DEF StoreInv, SyncedFirst
<1>6. QED BY <1>3, <1>4, <1>5 DEF StoreInv, TypeOK, Stages

\* The rename puts on disk what memory holds, which is what its caller asked
\* for and, for every other key, what the others were told.
LEMMA RenameKeepsInv ==
  ASSUME StoreInv, NEW a \in Callers, Rename(a)
  PROVE  StoreInv'
<1> USE DEF Rename
<1>1. buf[a] = Encode(mem) /\ up /\ \A r \in job[a] : mem[r.key] = r.s
  BY DEF StoreInv, Marshalled, Busy
<1>2. buf[a] \in SUBSET Rec /\ mem \in Sessions /\ Decode(buf[a]) = mem
  BY <1>1, DecodeEncode DEF StoreInv, TypeOK
<1>3. disk' = Good(buf[a]) /\ disk' \in File /\ Decode(disk'.recs) = mem
  BY <1>2 DEF Good, File
<1>4. \A k \in Keys : mem[k] \in told[k]
  BY <1>1 DEF StoreInv, MemoryTold
<1>5. ASSUME NEW k \in Keys
      PROVE  mem[k] \in told'[k] /\ told'[k] \in SUBSET (Session \cup {NoSession})
  <2> DEFINE asked == {r \in job[a] : r.key = k}
  <2>1. \A r \in asked : r.s = mem[k]
    BY <1>1
  <2>2. CASE asked = {}
    BY <2>2, <1>4 DEF StoreInv, TypeOK
  <2>3. CASE asked # {}
    <3>1. told'[k] = {r.s : r \in asked}
      BY <2>3
    <3>2. \A r \in asked : r.s \in Session \cup {NoSession}
      BY DEF StoreInv, TypeOK
    <3>3. QED BY <3>1, <3>2, <2>1, <2>3
  <2>4. QED BY <2>2, <2>3
<1>6. told' \in [Keys -> SUBSET (Session \cup {NoSession})]
  BY <1>5
<1>7. durable' = TRUE
  BY DEF StoreInv, SyncedFirst
<1>8. TypeOK' /\ Mutex' /\ Marshalled' /\ SyncedFirst'
  BY <1>3, <1>6, <1>7, ReturnKeepsInv DEF StoreInv, TypeOK, SyncedFirst
<1>9. MemoryTold' /\ AckedSurvives'
  BY <1>3, <1>5 DEF MemoryTold, AckedSurvives
<1>10. QED BY <1>8, <1>9 DEF StoreInv

\* A failed call leaves memory ahead of the file, and both among what was told.
LEMMA FailKeepsInv ==
  ASSUME StoreInv, NEW a \in Callers, Fail(a)
  PROVE  StoreInv'
<1>1. TypeOK' /\ Mutex' /\ Marshalled' /\ SyncedFirst'
  BY ReturnKeepsInv DEF Fail, StoreInv, TypeOK, SyncedFirst, fileVars
<1>2. MemoryTold' /\ AckedSurvives'
  BY DEF Fail, StoreInv, MemoryTold, AckedSurvives, Decode, fileVars
<1>3. QED BY <1>1, <1>2 DEF StoreInv

\* A process that starts reads a map of sessions that were told.
LEMMA NewFileStoreKeepsInv ==
  ASSUME StoreInv, NewFileStore
  PROVE  StoreInv'
<1> USE DEF NewFileStore
<1>1. disk.recs \in SUBSET Rec
  BY DEF StoreInv, TypeOK, File
<1>2. mem' \in Sessions /\ Empty \in Sessions
  BY <1>1, DecodeType DEF Empty, Sessions
<1>3. told' \in [Keys -> SUBSET (Session \cup {NoSession})]
      /\ \A k \in Keys : told[k] \subseteq told'[k] /\ mem'[k] \in told'[k]
  BY DEF StoreInv, TypeOK, AckedSurvives, Empty
<1>4. \A a \in Callers : pc[a] = "idle"
  BY DEF StoreInv, Marshalled, Busy
<1>5. TypeOK' /\ Mutex' /\ Marshalled' /\ SyncedFirst'
  BY <1>2, <1>3, <1>4 DEF StoreInv, TypeOK, Mutex, Marshalled, SyncedFirst, Busy, callVars, fileVars
<1>6. MemoryTold' /\ AckedSurvives'
  BY <1>3 DEF StoreInv, MemoryTold, AckedSurvives, Decode, fileVars
<1>7. QED BY <1>5, <1>6 DEF StoreInv

\* A process that dies takes its memory and its calls with it; a power loss
\* also takes the renames that were not written back.
LEMMA DiesKeepsInv ==
  ASSUME StoreInv, Crash \/ PowerLoss
  PROVE  StoreInv'
<1> USE DEF Crash, PowerLoss, Dies
<1>1. Mutex' /\ Marshalled' /\ MemoryTold'
  BY DEF Mutex, Marshalled, MemoryTold, Busy, Idle
<1>2. SyncedFirst'
  BY DEF StoreInv, SyncedFirst, Idle, fileVars
<1>3. media.recs \in SUBSET Rec
  BY DEF StoreInv, TypeOK, File
<1>4. Decode(media.recs) \in Sessions
  BY <1>3, DecodeType
<1>5. told' \in [Keys -> SUBSET (Session \cup {NoSession})] /\ AckedSurvives'
  BY <1>4 DEF StoreInv, TypeOK, AckedSurvives, Decode, Sessions, fileVars
<1>6. TypeOK'
  <2>1. disk' \in File /\ durable' \in BOOLEAN /\ media' \in File
    BY DEF StoreInv, TypeOK, fileVars
  <2>2. up' \in BOOLEAN /\ mem' \in Sessions
    BY DEF Empty, Sessions
  <2>3. QED BY <1>5, <2>1, <2>2 DEF TypeOK, Idle, Nothing, NoFile, Stages
<1>7. QED BY <1>1, <1>2, <1>5, <1>6 DEF StoreInv

\* What the directory writes back is whole, because its data was synced.
LEMMA WriteBackKeepsInv ==
  ASSUME StoreInv, WriteBack
  PROVE  StoreInv' /\ media' = disk
<1> USE DEF WriteBack
<1>1. media' = disk
  BY DEF StoreInv, SyncedFirst
<1>2. TypeOK' /\ Mutex' /\ Marshalled' /\ SyncedFirst'
  BY <1>1 DEF StoreInv, TypeOK, Mutex, Marshalled, SyncedFirst, Busy, Encode, callVars
<1>3. MemoryTold' /\ AckedSurvives'
  BY DEF StoreInv, MemoryTold, AckedSurvives, Decode
<1>4. QED BY <1>1, <1>2, <1>3 DEF StoreInv

\* The store's invariant is inductive.
LEMMA StoreStep == StoreInv /\ [Next]_vars => StoreInv'
<1> SUFFICES ASSUME StoreInv, [Next]_vars PROVE StoreInv'
  OBVIOUS
<1>1. CASE NewFileStore
  BY <1>1, NewFileStoreKeepsInv
<1>2. CASE Crash \/ PowerLoss
  BY <1>2, DiesKeepsInv
<1>3. CASE WriteBack
  BY <1>3, WriteBackKeepsInv
<1>4. ASSUME NEW a \in Callers, Request(a) PROVE StoreInv'
  <2>1. ASSUME NEW k \in Keys, NEW s \in Session, Put(a, k, s) PROVE StoreInv'
    BY <2>1, MutateKeepsInv DEF Put
  <2>2. ASSUME NEW k \in Keys, NEW wh \in Readings, UpdateMeter(a, k, wh) PROVE StoreInv'
    <3>1. mem[k] \in Session
      BY <2>2 DEF UpdateMeter, StoreInv, TypeOK, Sessions
    <3>2. [mem[k] EXCEPT !.wh = wh] \in Session
      BY <3>1 DEF Session
    <3>3. QED BY <2>2, <3>2, MutateKeepsInv DEF UpdateMeter
  <2>3. ASSUME NEW k \in Keys, Delete(a, k) PROVE StoreInv'
    BY <2>3, MutateKeepsInv DEF Delete
  <2>4. QED BY <1>4, <2>1, <2>2, <2>3 DEF Request
<1>5. ASSUME NEW a \in Callers, Flush(a) PROVE StoreInv'
  BY <1>5, StepKeepsInv, RenameKeepsInv DEF Flush
<1>6. ASSUME NEW a \in Callers, Fail(a) PROVE StoreInv'
  BY <1>6, FailKeepsInv
<1>7. CASE UNCHANGED vars
  BY <1>7 DEF vars, callVars, fileVars, StoreInv, TypeOK, Mutex, Marshalled, SyncedFirst,
              MemoryTold, AckedSurvives, Busy, Encode, Decode
<1>8. QED BY <1>1, <1>2, <1>3, <1>4, <1>5, <1>6, <1>7 DEF Next

\* store.go:107-189: memory and file only ever hold sessions, whatever fails.
THEOREM StoreTypeCorrect == Spec => []TypeOK
<1>1. StoreInv => TypeOK
  BY DEF StoreInv
<1>2. QED BY <1>1, StoreInit, StoreStep, PTL DEF Spec

\* store.go:107-137: what a caller was told is saved is in the file, whatever
\* other callers do meanwhile and wherever the process dies.
THEOREM AckedSurvivesCrash == Spec => []AckedSurvives
<1>1. StoreInv => AckedSurvives
  BY DEF StoreInv
<1>2. QED BY <1>1, StoreInit, StoreStep, PTL DEF Spec

\* store.go:163-167: no crash and no power loss leaves half a file.
THEOREM FileNeverTorn == Spec => NeverTorn
<1>1. ASSUME StoreInv, [Next]_vars, disk' = Corrupt \/ media' = Corrupt
      PROVE  disk = Corrupt \/ media = Corrupt
  <2>1. CASE WriteBack
    BY <2>1, <1>1, WriteBackKeepsInv DEF WriteBack
  <2>2. ASSUME NEW a \in Callers, Rename(a)
        PROVE  disk = Corrupt \/ media = Corrupt
    BY <2>2, <1>1 DEF Rename, Good, Corrupt
  <2>3. CASE Crash \/ PowerLoss
    BY <2>3, <1>1 DEF Crash, PowerLoss, fileVars
  <2>4. CASE UNCHANGED fileVars
    BY <2>4, <1>1 DEF fileVars
  <2>5. CASE NewFileStore
    BY <2>5, <2>4 DEF NewFileStore
  <2>6. ASSUME NEW a \in Callers, Request(a) \/ Fail(a) PROVE UNCHANGED fileVars
    BY <2>6 DEF Request, Put, UpdateMeter, Delete, Mutate, Fail
  <2>7. ASSUME NEW a \in Callers, CreateTemp(a) \/ Write(a) \/ Sync(a) \/ Close(a)
        PROVE  UNCHANGED fileVars
    BY <2>7 DEF CreateTemp, Write, Sync, Close, Step
  <2>8. CASE UNCHANGED vars
    BY <2>8, <2>4 DEF vars
  <2>9. QED BY <1>1, <2>1, <2>2, <2>3, <2>4, <2>5, <2>6, <2>7, <2>8 DEF Next, Flush
<1>2. QED BY <1>1, StoreInit, StoreStep, PTL DEF Spec, NeverTorn

\* store.go:107-137: only Put opens a session in a running process: a reading
\* that comes after the deletion, whoever sends it, does not.
THEOREM OnlyPutOpensSessions == Spec => OnlyPutOpens
<1> DEFINE Opened(k) == NewFileStore \/ \E a \in Callers, s \in Session : Put(a, k, s)
<1>1. ASSUME StoreInv, [Next]_vars, NEW k \in Keys, mem[k] = NoSession, mem'[k] # NoSession
      PROVE  Opened(k)
  <2>1. CASE Crash \/ PowerLoss
    BY <2>1, <1>1 DEF Crash, PowerLoss, Dies, Empty
  <2>2. CASE UNCHANGED mem
    BY <2>2, <1>1
  <2>3. CASE WriteBack \/ UNCHANGED vars
    BY <2>3, <2>2 DEF WriteBack, vars
  <2>4. ASSUME NEW a \in Callers, Flush(a) \/ Fail(a) PROVE UNCHANGED mem
    BY <2>4 DEF Flush, CreateTemp, Write, Sync, Close, Step, Rename, Fail
  <2>5. ASSUME NEW a \in Callers, Request(a) PROVE Opened(k)
    <3>1. ASSUME NEW l \in Keys, NEW s \in Session \cup {NoSession}, Mutate(a, l, s)
          PROVE  k = l /\ s # NoSession
      BY <3>1, <1>1 DEF Mutate, StoreInv, TypeOK, Sessions
    <3>2. ASSUME NEW l \in Keys, NEW s \in Session, Put(a, l, s) PROVE Opened(k)
      <4>1. k = l
        BY <3>1, <3>2 DEF Put
      <4>2. QED BY <3>2, <4>1
    <3>3. ASSUME NEW l \in Keys, NEW wh \in Readings, UpdateMeter(a, l, wh) PROVE FALSE
      <4>1. mem[l] # NoSession /\ mem[l] \in Session
        BY <3>3, <1>1 DEF UpdateMeter, StoreInv, TypeOK, Sessions
      <4>2. [mem[l] EXCEPT !.wh = wh] \in Session
        BY <4>1 DEF Session
      <4>3. k = l
        BY <3>1, <3>3, <4>2 DEF UpdateMeter
      <4>4. QED BY <4>1, <4>3, <1>1
    <3>4. ASSUME NEW l \in Keys, Delete(a, l) PROVE FALSE
      BY <3>1, <3>4 DEF Delete
    <3>5. QED BY <2>5, <3>2, <3>3, <3>4 DEF Request
  <2>6. QED BY <1>1, <2>1, <2>2, <2>3, <2>4, <2>5 DEF Next
<1>2. ASSUME StoreInv, [Next]_vars
      PROVE  [\A k \in Keys : mem[k] = NoSession /\ mem'[k] # NoSession =>
                NewFileStore \/ \E a \in Callers, s \in Session : Put(a, k, s)]_vars
  BY <1>1, <1>2
<1>3. QED BY <1>2, StoreInit, StoreStep, PTL DEF Spec, OnlyPutOpens

-----------------------------------------------------------------------------
(* The store as a durable map.                                             *)

\* What each step of the store is to a caller that sees only the map.
LEMMA MapStep ==
  ASSUME StoreInv, [Next]_vars
  PROVE  [Map!Next]_(Map!vars)
<1> DEFINE Known == IF up THEN mem ELSE Saved
           Settled == Decode(media.recs)
           Held == \E a \in Callers : pc[a] # "idle"
<1> USE DEF Map!vars
<1>1. CASE UNCHANGED <<up, mem, pc, disk, media>>
  BY <1>1 DEF Saved, Decode
<1>2. CASE NewFileStore
  <2>1. UNCHANGED <<disk, media, pc>> /\ ~up /\ up' /\ ~Held
    BY <1>2 DEF NewFileStore, callVars, fileVars, StoreInv, Marshalled, Busy
  <2>2. UNCHANGED <<Saved, Settled, Held>>
    BY <2>1 DEF Saved, Decode
  <2>3. CASE mem' = Saved
    BY <2>1, <2>2, <2>3
  <2>4. CASE mem' = Empty
    <3>1. Map!Unreadable
      BY <2>1, <2>2, <2>4 DEF Map!Unreadable, Map!Nothing, Empty
    <3> QED
      BY <3>1 DEF Map!Next
  <2> QED
    BY <1>2, <2>3, <2>4 DEF NewFileStore, Saved
<1>3. CASE Crash \/ PowerLoss
  <2>1. ~up' /\ ~Held' /\ UNCHANGED media
    BY <1>3 DEF Crash, PowerLoss, Dies, Idle, fileVars
  <2>2. CASE Crash
    <3>1. UNCHANGED disk
      BY <2>2 DEF Crash, fileVars
    <3>2. Map!Crash
      BY <2>1, <3>1 DEF Map!Crash, Saved, Decode
    <3> QED
      BY <3>2 DEF Map!Next
  <2>3. CASE PowerLoss
    <3>1. disk' = media
      BY <2>3 DEF PowerLoss
    <3>2. Map!PowerLoss
      BY <2>1, <3>1 DEF Map!PowerLoss, Saved, Decode
    <3> QED
      BY <3>2 DEF Map!Next
  <2> QED
    BY <1>3, <2>2, <2>3
<1>4. ASSUME NEW a \in Callers, NEW k \in Keys, NEW s \in Session \cup {NoSession},
             CanLock(a), Mutate(a, k, s)
      PROVE  Map!Next
  <2>1. /\ ~Held /\ UNCHANGED <<Saved, Settled>> /\ up /\ up'
        /\ mem' = [mem EXCEPT ![k] = s]
    BY <1>4 DEF CanLock, Mutate, Saved, Decode, fileVars
  <2>2. Held'
    BY <1>4 DEF Mutate, StoreInv, TypeOK
  <2>3. Map!Begin(k, s)
    BY <2>1, <2>2 DEF Map!Begin
  <2> QED
    BY <2>3 DEF Map!Next
<1>5. ASSUME NEW a \in Callers, Request(a) PROVE Map!Next
  <2>1. ASSUME NEW k \in Keys, NEW s \in Session, Put(a, k, s) PROVE Map!Next
    BY <1>4, <2>1 DEF Put
  <2>2. ASSUME NEW k \in Keys, NEW wh \in Readings, UpdateMeter(a, k, wh) PROVE Map!Next
    <3>1. mem[k] \in Session
      BY <2>2 DEF UpdateMeter, StoreInv, TypeOK, Sessions
    <3>2. [mem[k] EXCEPT !.wh = wh] \in Session
      BY <3>1 DEF Session
    <3> QED
      BY <1>4, <2>2, <3>2 DEF UpdateMeter
  <2>3. ASSUME NEW k \in Keys, Delete(a, k) PROVE Map!Next
    BY <1>4, <2>3 DEF Delete
  <2> QED
    BY <1>5, <2>1, <2>2, <2>3 DEF Request
<1>6. ASSUME NEW a \in Callers, CreateTemp(a) \/ Write(a) \/ Sync(a) \/ Close(a)
      PROVE  UNCHANGED <<Known, Saved, Settled, Held>>
  <2>1. UNCHANGED <<up, mem, Saved, Settled>> /\ Held /\ Held'
    BY <1>6 DEF CreateTemp, Write, Sync, Close, Step, Saved, Decode, fileVars, StoreInv, TypeOK
  <2> QED
    BY <2>1
<1>7. ASSUME NEW a \in Callers, Return(a), pc[a] # "idle"
      PROVE  Held /\ ~Held'
  <2>1. \A b \in Callers : pc'[b] = "idle"
    BY <1>7 DEF Return, StoreInv, TypeOK, Mutex, Busy
  <2> QED
    BY <1>7, <2>1
<1>8. ASSUME NEW a \in Callers, Rename(a) PROVE Map!Next
  <2>1. up /\ buf[a] = Encode(mem) /\ Held /\ ~Held'
    BY <1>7, <1>8 DEF Rename, StoreInv, Marshalled, Busy
  <2>2. Saved' = mem /\ UNCHANGED Settled
    BY <1>8, <2>1, DecodeEncode DEF Rename, Saved, Good, StoreInv, TypeOK, Decode
  <2>3. Map!Save
    BY <1>8, <2>1, <2>2 DEF Rename, Map!Save
  <2> QED
    BY <2>3 DEF Map!Next
<1>9. ASSUME NEW a \in Callers, Fail(a) PROVE Map!Next
  <2>1. UNCHANGED <<up, mem, Saved, Settled>> /\ Held /\ ~Held'
    BY <1>7, <1>9 DEF Fail, Stages, Saved, Decode, fileVars
  <2>2. Map!GiveUp
    BY <2>1 DEF Map!GiveUp
  <2> QED
    BY <2>2 DEF Map!Next
<1>10. CASE WriteBack
  <2>1. UNCHANGED <<up, mem, pc, disk>> /\ media' = disk
    BY <1>10, WriteBackKeepsInv DEF WriteBack, callVars
  <2>2. Map!Settle
    BY <2>1 DEF Map!Settle, Saved, Decode
  <2> QED
    BY <2>2 DEF Map!Next
<1>11. CASE UNCHANGED vars
  BY <1>1, <1>11 DEF vars, callVars, fileVars
<1> QED
  BY <1>2, <1>3, <1>5, <1>6, <1>8, <1>9, <1>10, <1>11 DEF Next, Flush

\* store.go:44-189: in spite of crashes, power losses, failing calls and files
\* that cannot be read, the mutex, the memory, the temporary file and the rename
\* make a durable map: what Charger takes its store for.
THEOREM StoreIsDurableMap == Spec => ImplementsMap
<1>1. Init => Map!Init
  BY NothingDecoded
  DEF Init, Map!Init, Map!Nothing, Saved, Absent, Corrupt, Empty, Idle
<1>2. QED BY <1>1, StoreInit, StoreStep, MapStep, PTL DEF Spec, ImplementsMap, Map!Spec
=============================================================================
