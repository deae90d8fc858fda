--------------------------- MODULE SberJazzProofs ---------------------------
(***************************************************************************)
(* The connector of the meetings platform: LivePull for any number of      *)
(* chunks, pullers and bounds, which queues a chunk once unless Redis      *)
(* fails while its key is marked; and ConnectorSession for any admins,     *)
(* jobs and bounds, whose operations on a meeting overlap only if one of   *)
(* them was slower than the lock.                                          *)
(***************************************************************************)
EXTENDS ConnectorSession, LivePull, FiniteSetTheorems, TLAPS

-----------------------------------------------------------------------------
(* The live pull. *)

\* A request of the live pull for a chunk that has an id.
ById == {r \in [chunk : Chunks, seq : Int,
     key : {<<c>> : c \in Chunks}] : r.key = <<r.chunk>>}

PullTypes ==
  /\ at \in [Handlers -> {"idle", "fetch", "save", "next", "mark", "store", "enqueue"}
                            \cup Outcomes]
  /\ request \in [Handlers -> ById \cup {Nothing}]
  /\ \A h \in Handlers : at[h] \in {"mark", "store", "enqueue"} => request[h] \in ById
  /\ queued \in [Chunks -> Nat]
  /\ outages \in Nat
  /\ counter \in Nat
  /\ spoken \in {0} \cup Chunks
  /\ cursor \in Nat
  /\ {loaded, next} \subseteq [Handlers -> Nat]
  /\ batch \in [Handlers -> Seq(ById)]

\* Handlers on their way to give chunk c a task.
Passing(c) == {h \in Handlers : at[h] \in {"store", "enqueue"} /\ request[h].chunk = c}

\* QueuedOnce is not inductive: what was let pass and has not queued yet counts too.
\* The mark of the chunk's key lets one pass, and each outage one more.
LetPass(c) == queued[c] + Cardinality(Passing(c))
Allowed(c) == outages + IF <<c>> \in keys THEN 1 ELSE 0

PassInv ==
  \A c \in Chunks : IsFiniteSet(Passing(c)) /\ LetPass(c) <= Allowed(c)

PullInv == PullTypes /\ PassInv

LEMMA AllowedIs ==
  ASSUME PullTypes, NEW c \in Chunks
  PROVE  /\ Allowed(c) \in Nat /\ Allowed(c) <= outages + 1
         /\ Allowed(c) = IF <<c>> \in keys THEN outages + 1 ELSE outages
  <1>1. outages \in Nat
    BY DEF PullTypes
  <1> QED BY <1>1 DEF Allowed

-----------------------------------------------------------------------------

\* A step of one handler that lets nothing pass: chunks keep their count, whether
\* the handler goes on, gives up, or gives its chunk the task.
LEMMA NoPass ==
  ASSUME PullInv, PullTypes', NEW h \in Handlers,
         \A g \in Handlers \ {h} : at'[g] = at[g] /\ request'[g] = request[g],
         at'[h] \in {"store", "enqueue"} =>
           at[h] \in {"store", "enqueue"} /\ request'[h] = request[h] /\ queued' = queued,
         \/ queued' = queued
         \/ /\ at[h] = "enqueue"
            /\ queued' = [queued EXCEPT ![request[h].chunk] = @ + 1],
         keys \subseteq keys', outages' >= outages
  PROVE  PullInv'
  <1> SUFFICES ASSUME NEW c \in Chunks
               PROVE  (IsFiniteSet(Passing(c)) /\ LetPass(c) <= Allowed(c))'
    BY DEF PullInv, PassInv
  <1>0. /\ IsFiniteSet(Passing(c)) /\ Cardinality(Passing(c)) \in Nat
        /\ LetPass(c) <= Allowed(c)
        /\ outages \in Nat /\ outages' \in Nat /\ queued[c] \in Nat /\ queued'[c] \in Nat
    BY FS_CardinalityType DEF PullInv, PassInv, PullTypes
  <1>1. Allowed(c) <= Allowed(c)' /\ Allowed(c) \in Nat /\ Allowed(c)' \in Nat
    BY <1>0 DEF Allowed
  <1>2. CASE queued' = queued
    <2>1. Passing(c)' \subseteq Passing(c)
      BY DEF Passing
    <2>2. IsFiniteSet(Passing(c)') /\ Cardinality(Passing(c)') <= Cardinality(Passing(c))
          /\ Cardinality(Passing(c)') \in Nat
      BY <1>0, <2>1, FS_Subset, FS_CardinalityType
    <2> QED BY <1>0, <1>1, <1>2, <2>2 DEF LetPass
  <1>3. CASE queued' # queued
    <2>1. at[h] = "enqueue" /\ at'[h] \notin {"store", "enqueue"}
      BY <1>3
    <2>2. Passing(c)' = Passing(c) \ {h}
      BY <2>1 DEF Passing
    <2>3. /\ IsFiniteSet(Passing(c)')
          /\ Cardinality(Passing(c)') =
               IF h \in Passing(c) THEN Cardinality(Passing(c)) - 1 ELSE Cardinality(Passing(c))
          /\ Cardinality(Passing(c)') \in Nat
      BY <1>0, <2>2, FS_RemoveElement, FS_CardinalityType
    <2>4. queued'[c] = IF h \in Passing(c) THEN queued[c] + 1 ELSE queued[c]
      <3>1. h \in Passing(c) <=> request[h].chunk = c
        BY <2>1 DEF Passing
      <3>2. request[h].chunk \in Chunks /\ queued \in [Chunks -> Nat]
        BY <2>1 DEF PullInv, PullTypes, ById
      <3> QED BY <1>3, <3>1, <3>2
    <2> QED BY <1>0, <1>1, <2>3, <2>4 DEF LetPass
  <1> QED BY <1>2, <1>3

\* The key is looked up: whoever finds none is let pass, and none but he.
LEMMA MarkKeeps ==
  ASSUME PullInv, NEW h \in Handlers, Mark(h) \/ MarkLocally(h), UNCHANGED pullVars
  PROVE  PullInv'
  <1>1. /\ at[h] = "mark" /\ UNCHANGED <<request, blobs, queued, faults, pullVars>>
        /\ keys \subseteq keys'
        /\ outages' \in {outages, outages + 1}
    BY DEF Mark, MarkLocally, limits
  <1>2. PICK c \in Chunks :
          request[h].chunk = c /\ request[h].key = <<c>> /\ request[h] \in ById
    BY <1>1 DEF PullInv, PullTypes, ById
  <1>3. PICK point \in {"duplicate", "store"} : at' = [at EXCEPT ![h] = point]
    BY DEF Mark, MarkLocally, Goto
  <1>4. at'[h] = point /\ \A g \in Handlers : g # h => at'[g] = at[g]
    BY <1>3 DEF PullInv, PullTypes
  <1>5. PullTypes'
    BY <1>1, <1>2, <1>3, <1>4 DEF PullInv, PullTypes, pullVars, Outcomes
  <1>6. CASE point = "duplicate"
    <2>1. outages' >= outages
      BY <1>1 DEF PullInv, PullTypes
    <2> QED BY <1>1, <1>4, <1>5, <1>6, <2>1, NoPass
  <1>7. CASE point = "store"
    <2>0. outages \in Nat /\ outages' \in Nat /\ outages' >= outages
      BY <1>1 DEF PullInv, PullTypes
    <2>1. ASSUME NEW d \in Chunks
          PROVE  /\ <<d>> \in keys => Allowed(d) = outages + 1
                 /\ <<d>> \notin keys => Allowed(d) = outages + 0
                 /\ <<d>> \in keys' => Allowed(d)' = outages' + 1
                 /\ <<d>> \notin keys' => Allowed(d)' = outages' + 0
      BY DEF Allowed
    <2>2. PICK before \in Nat, after \in Nat :
            before = outages /\ after = outages' /\ after >= before
      BY <2>0
    <2>3. ASSUME NEW d \in Chunks
          PROVE  \/ Allowed(d) = before + 1 /\ Allowed(d)' = after + 1
                 \/ Allowed(d) = before /\ Allowed(d)' = after + 1
                 \/ Allowed(d) = before /\ Allowed(d)' = after
      <3>0. before + 0 = before /\ after + 0 = after
        OBVIOUS
      <3>1. CASE <<d>> \in keys
        <4>1. <<d>> \in keys'
          BY <1>1, <3>1
        <4> QED BY <2>1, <2>2, <3>1, <4>1
      <3>2. CASE <<d>> \notin keys /\ <<d>> \in keys'
        BY <2>1, <2>2, <3>0, <3>2
      <3>3. CASE <<d>> \notin keys /\ <<d>> \notin keys'
        BY <2>1, <2>2, <3>0, <3>3
      <3> QED BY <3>1, <3>2, <3>3
    <2>4. Allowed(c)' >= Allowed(c) + 1
      <3>1. CASE Mark(h)
        <4>1. <<c>> \in keys' /\ outages' = outages
          BY <1>2, <3>1 DEF Mark, limits
        <4>2. at'[h] = "store"
          BY <1>4, <1>7
        <4>3. at' = [at EXCEPT ![h] = IF <<c>> \in keys THEN "duplicate" ELSE "store"]
          BY <1>2, <3>1 DEF Mark, Goto
        <4>4. <<c>> \notin keys
          BY <4>2, <4>3 DEF PullInv, PullTypes
        <4> QED BY <2>0, <2>1, <4>1, <4>4
      <3>2. CASE MarkLocally(h)
        <4>1. after = before + 1
          BY <2>2, <3>2 DEF MarkLocally
        <4> QED BY <2>3, <4>1
      <3> QED BY <3>1, <3>2
    <2>5. \A d \in Chunks : /\ Allowed(d)' >= Allowed(d)
                            /\ Allowed(d) \in Nat /\ Allowed(d)' \in Nat
      BY <2>2, <2>3
    <2>6. Passing(c)' = Passing(c) \cup {h} /\ h \notin Passing(c)
      BY <1>1, <1>2, <1>4, <1>7 DEF Passing
    <2>7. \A d \in Chunks : d # c => Passing(d)' = Passing(d)
      BY <1>1, <1>2, <1>4, <1>7 DEF Passing
    <2>8. \A d \in Chunks : /\ IsFiniteSet(Passing(d)) /\ Cardinality(Passing(d)) \in Nat
                            /\ LetPass(d) <= Allowed(d) /\ queued[d] \in Nat /\ queued'[d] = queued[d]
      BY <1>1, FS_CardinalityType DEF PullInv, PassInv, PullTypes
    <2>9. IsFiniteSet(Passing(c)') /\ Cardinality(Passing(c)') = Cardinality(Passing(c)) + 1
      <3>1. IsFiniteSet(Passing(c))
        BY <1>2, <2>8
      <3> QED BY <2>6, <3>1, FS_AddElement
    <2>10. PassInv'
      <3> SUFFICES ASSUME NEW d \in Chunks
                   PROVE  (IsFiniteSet(Passing(d)) /\ LetPass(d) <= Allowed(d))'
        BY DEF PassInv
      <3>1. CASE d = c
        BY <2>4, <2>5, <2>8, <2>9, <3>1 DEF LetPass
      <3>2. CASE d # c
        BY <2>5, <2>7, <2>8, <3>2 DEF LetPass
      <3> QED BY <3>1, <3>2
    <2> QED BY <1>5, <2>10 DEF PullInv
  <1> QED BY <1>3, <1>6, <1>7

\* Storing, queueing and failing.
LEMMA AdvanceKeeps ==
  ASSUME PullInv, NEW h \in Handlers, Advance(h), UNCHANGED pullVars
  PROVE  PullInv'
  <1> USE DEF Goto, pullVars, limits
  <1>1. CASE Mark(h) \/ MarkLocally(h)
    BY <1>1, MarkKeeps
  <1>2. CASE Store(h)
    <2>1. /\ at[h] = "store" /\ at' = [at EXCEPT ![h] = "enqueue"]
          /\ UNCHANGED <<request, keys, queued, limits, pullVars>>
      BY <1>2, PullAssumption DEF Store
    <2>2. PullTypes' /\ outages \in Nat
      BY <2>1 DEF PullInv, PullTypes, Outcomes
    <2>3. at'[h] = "enqueue" /\ \A g \in Handlers : g # h => at'[g] = at[g]
      BY <2>1 DEF PullInv, PullTypes
    <2> QED BY <2>1, <2>2, <2>3, NoPass
  <1>3. CASE Enqueue(h) \/ Fails(h)
    <2>1. PICK point \in {"accepted", "failed"} : at' = [at EXCEPT ![h] = point]
      BY <1>3 DEF Enqueue, Fails
    <2>2. /\ at[h] \in {"store", "enqueue"}
          /\ UNCHANGED <<request, keys, outages, pullVars>>
          /\ \/ queued' = queued
             \/ /\ at[h] = "enqueue"
                /\ queued' = [queued EXCEPT ![request[h].chunk] = @ + 1]
      BY <1>3 DEF Enqueue, Fails
    <2>0. queued' \in [Chunks -> Nat]
      BY <2>2 DEF PullInv, PullTypes, ById
    <2>3. PullTypes' /\ outages \in Nat
      BY <2>0, <2>1, <2>2 DEF PullInv, PullTypes, Outcomes
    <2>4. at'[h] = point /\ \A g \in Handlers : g # h => at'[g] = at[g]
      BY <2>1 DEF PullInv, PullTypes
    <2> QED BY <2>1, <2>2, <2>3, <2>4, NoPass
  <1> QED BY <1>1, <1>2, <1>3 DEF Advance

\* The chunks of a batch, each asked for under its id.
LEMMA FetchedById ==
  ASSUME Named = Chunks, PullTypes, NEW p \in Handlers, NEW last,
         last = Least(spoken, loaded[p] + BatchLimit)
  PROVE  /\ [i \in 1 .. last - loaded[p] |-> Parsed(loaded[p], loaded[p] + i)] \in Seq(ById)
         /\ counter + Unnumbered(loaded[p], last) \in Int
         /\ last \in Nat
  <1> DEFINE from == loaded[p]
  <1>1. from \in Nat /\ counter \in Nat /\ BatchLimit \in Nat
    BY PullAssumption DEF PullTypes
  <1>2. Cardinality(Chunks) \in Nat /\ Chunks = 1..Cardinality(Chunks)
    BY PullAssumption, FS_CardinalityType
  <1>3. spoken \in Nat /\ spoken <= Cardinality(Chunks)
    BY <1>2 DEF PullTypes
  <1>4. last \in Nat /\ last <= spoken
    BY <1>1, <1>3 DEF Least
  <1>5. ASSUME NEW upto \in Int PROVE Unnumbered(from, upto) \in Nat
    <2>1. IsFiniteSet(from + 1 .. upto)
      BY <1>1, FS_Interval
    <2>2. (from + 1 .. upto) \ Numbered \in SUBSET (from + 1 .. upto)
      OBVIOUS
    <2>3. IsFiniteSet((from + 1 .. upto) \ Numbered)
      BY <2>1, <2>2, FS_Subset
    <2> QED BY <2>3, FS_CardinalityType DEF Unnumbered
  <1>6. ASSUME NEW i \in 1 .. last - from PROVE Parsed(from, from + i) \in ById
    <2>1. from + i \in Chunks
      BY <1>1, <1>2, <1>3, <1>4
    <2>2. Unnumbered(from, from + i) \in Nat
      BY <1>1, <1>5
    <2> QED BY <1>1, <1>2, <2>1, <2>2 DEF Parsed, ById
  <1>7. last - from \in Int
    BY <1>1, <1>4
  <1>8. [i \in 1 .. last - from |-> Parsed(from, from + i)] \in Seq(ById)
    <2>1. PICK n \in Nat : 1 .. last - from = 1 .. n
      <3>1. CASE last - from \in Nat
        BY <3>1
      <3>2. CASE last - from \notin Nat
        <4>1. 1 .. last - from = 1 .. 0
          BY <1>7, <3>2
        <4> QED BY <4>1
      <3> QED BY <3>1, <3>2
    <2> HIDE DEF from
    <2>2. \A i \in 1..n : Parsed(from, from + i) \in ById
      BY <1>6, <2>1
    <2>3. [i \in 1 .. n |-> Parsed(from, from + i)] \in Seq(ById)
      BY <2>2
    <2> QED BY <2>1, <2>3
  <1> QED BY <1>1, <1>4, <1>5, <1>8

\* The steps of a pull around the ingest of its chunks.
LEMMA AroundKeeps ==
  ASSUME Named = Chunks, PullInv, NEW p \in Handlers,
         Load(p) \/ Fetch(p) \/ SaveCursor(p) \/ NextChunk(p) \/ Abort(p) \/ Crash(p)
  PROVE  PullInv'
  <1> USE DEF Goto, limits
  <1>0. PullTypes
    BY DEF PullInv
  <1>1. /\ UNCHANGED <<keys, queued, outages>>
        /\ \E point \in {"idle", "fetch", "save", "next",
             "mark"} : at' = [at EXCEPT ![p] = point]
        /\ \A g \in Handlers : g # p => request'[g] = request[g]
    BY <1>0 DEF Load, Fetch, SaveCursor, NextChunk, Abort, Crash, Ingest, PullTypes
  <1>2. PullTypes'
    <2>1. CASE Load(p)
      BY <1>0, <2>1 DEF Load, PullTypes, Outcomes
    <2>2. CASE Fetch(p)
      <3> DEFINE last == Least(spoken, loaded[p] + BatchLimit)
      <3>1. CASE UNCHANGED <<batch, counter, next>>
        BY <1>0, <2>2, <3>1 DEF Fetch, PullTypes, Outcomes
      <3>2. CASE ~UNCHANGED <<batch, counter, next>>
        <4>1. /\ batch' = [batch EXCEPT ![p] =
                   [i \in 1 .. last - loaded[p] |-> Parsed(loaded[p], loaded[p] + i)]]
              /\ counter' \in Seqs
              /\ next' = [next EXCEPT ![p] = last]
          BY <2>2, <3>2 DEF Fetch
        <4> HIDE DEF last
        <4>2. last \in Nat /\ batch' \in [Handlers -> Seq(ById)]
          BY <1>0, <4>1, FetchedById DEF PullTypes, last
        <4>3. next' \in [Handlers -> Nat] /\ counter' \in Nat
          BY <1>0, <4>1, <4>2, LimitsAssumption DEF PullTypes
        <4> QED BY <1>0, <1>1, <2>2, <4>2, <4>3 DEF Fetch, PullTypes, Outcomes
      <3> QED BY <3>1, <3>2
    <2>3. CASE SaveCursor(p)
      BY <1>0, <2>3 DEF SaveCursor, PullTypes, Outcomes
    <2>4. CASE NextChunk(p)
      <3>1. CASE batch[p] = <<>>
        BY <1>0, <2>4, <3>1 DEF NextChunk, PullTypes, Outcomes
      <3>2. CASE batch[p] # <<>>
        <4>1. Head(batch[p]) \in ById /\ Tail(batch[p]) \in Seq(ById)
          BY <1>0, <3>2 DEF PullTypes
        <4> QED BY <1>0, <2>4, <3>2, <4>1 DEF NextChunk, Ingest, PullTypes, Outcomes
      <3> QED BY <3>1, <3>2
    <2>5. CASE Abort(p) \/ Crash(p)
      <3>1. <<>> \in Seq(ById)
        OBVIOUS
      <3> QED BY <1>0, <2>5, <3>1 DEF Abort, Crash, PullTypes, Outcomes
    <2> QED BY <2>1, <2>2, <2>3, <2>4, <2>5
  <1>3. /\ at'[p] \notin {"store", "enqueue"}
        /\ \A g \in Handlers : g # p => at'[g] = at[g]
    BY <1>0, <1>1 DEF PullTypes
  <1> QED BY <1>1, <1>2, <1>3, NoPass DEF PullInv, PullTypes

LEMMA PullStep ==
  ASSUME Named = Chunks
  PROVE  PullInv /\ [Next]_vars => PullInv'
  <1> SUFFICES ASSUME PullInv, [Next]_vars PROVE PullInv'
    OBVIOUS
  <1>1. CASE Speak
    BY <1>1 DEF Speak, ingestVars, limits, PullInv, PullTypes, PassInv, LetPass, Allowed,
         Passing
  <1>2. ASSUME NEW p \in Handlers, Advance(p), UNCHANGED pullVars PROVE PullInv'
    BY <1>2, AdvanceKeeps
  <1>3. ASSUME NEW p \in Handlers,
               Load(p) \/ Fetch(p) \/ SaveCursor(p) \/ NextChunk(p) \/ Abort(p) \/ Crash(p)
        PROVE  PullInv'
    BY <1>3, AroundKeeps
  <1>4. CASE UNCHANGED vars
    BY <1>4 DEF vars, ingestVars, limits, pullVars, PullInv, PullTypes, PassInv, LetPass,
         Allowed, Passing
  <1> QED BY <1>1, <1>2, <1>3, <1>4 DEF Next, Pull

\* Chunks that come with an id are transcribed once and, for every failure of
\* Redis while a key is marked, once more at the most: however many pull at the same
\* time, whatever cursors they load and overwrite, whoever fails or crashes
\* (check_and_set, pull_sberjazz_live_chunks).
THEOREM ChunksQueuedOnce ==
  ASSUME Named = Chunks
  PROVE  Spec => []QueuedOnce
  <1>1. Init => PullInv
    <2> SUFFICES ASSUME Init PROVE PullInv
      OBVIOUS
    <2>1. PullTypes
      BY DEF Init, IngestInit, PullTypes
    <2>2. \A c \in Chunks : Passing(c) = {} /\ queued[c] = 0 /\ outages = 0
      BY DEF Init, IngestInit, Passing
    <2>3. PassInv
      BY <2>2, FS_EmptySet DEF PassInv, LetPass, Allowed
    <2> QED BY <2>1, <2>3 DEF PullInv
  <1>2. PullInv => QueuedOnce
    <2> SUFFICES ASSUME PullInv, NEW c \in Chunks PROVE queued[c] <= 1 + outages
      BY DEF QueuedOnce
    <2>1. Cardinality(Passing(c)) \in Nat /\ queued[c] \in Nat /\ outages \in Nat
      BY FS_CardinalityType DEF PullInv, PassInv, PullTypes
    <2>2. LetPass(c) <= Allowed(c) /\ Allowed(c) \in Nat /\ Allowed(c) <= outages + 1
      BY AllowedIs DEF PullInv, PassInv
    <2> QED BY <2>1, <2>2 DEF LetPass
  <1>3. PullInv /\ [Next]_vars => PullInv'
    BY PullStep
  <1> QED BY <1>1, <1>2, <1>3, PTL DEF Spec

-----------------------------------------------------------------------------
(* The session's lock. *)

Points == {"idle"} \cup Running \cup Inside

\* OneAtATime is not inductive: whoever is inside an operation has the lock,
\* which is what keeps the next one out.
LockInv ==
  /\ lock \in Callers \cup {NoOne}
  /\ pc \in [Callers -> Points]
  /\ slow \in Nat
  /\ slow = 0 => \A c \in Callers : pc[c] \in Inside => lock = c

\* A step of one caller that takes no lock and enters no operation.
LEMMA MoveKeeps ==
  ASSUME LockInv, NEW c \in Callers, NEW p \in Points,
         pc' = [pc EXCEPT ![c] = p], p \in Inside => pc[c] \in Inside,
         lock' = lock, slow' = slow
  PROVE  LockInv'
  BY DEF LockInv

\* The end of an operation that deletes the lock, or finds it is not its own.
LEMMA ExitKeeps ==
  ASSUME LockInv, NEW c \in Callers, pc[c] \in Inside, Exit(c),
         lock' \in {lock, NoOne}, slow' = slow
  PROVE  LockInv'
  <1>1. PICK p \in {"listen", "idle"} : pc' = [pc EXCEPT ![c] = p]
    BY DEF Exit, GoOn
  <1>2. p \in Points \ Inside
    BY <1>1 DEF Points, Running, Inside
  <1>3. \A d \in Callers : d # c => pc'[d] = pc[d]
    BY <1>1 DEF LockInv
  <1>4. pc'[c] \notin Inside /\ pc' \in [Callers -> Points]
    BY <1>1, <1>2 DEF LockInv
  <1>5. slow = 0 => \A d \in Callers : d # c => pc[d] \notin Inside
    BY DEF LockInv
  <1> QED
    BY <1>3, <1>4, <1>5 DEF LockInv

\* The start of an operation: the lock was free, so nobody was inside.
LEMMA EnterKeeps ==
  ASSUME LockInv, NEW c \in Callers, slow' = slow,
         NEW o \in {"join", "leave"} \cup Reconnects, Enter(c, o)
  PROVE  LockInv'
  <1>1. lock = NoOne /\ lock' = c
    BY DEF Enter, Start
  <1>2. PICK p \in Inside : pc' = [pc EXCEPT ![c] = p]
    BY DEF Enter, Start, GoOn, Inside, Reconnects
  <1>3. slow = 0 => \A d \in Callers : pc[d] \notin Inside
    BY <1>1, CallersAssumption DEF LockInv
  <1>4. pc' \in [Callers -> Points] /\ \A d \in Callers : d # c => pc'[d] = pc[d]
    BY <1>2 DEF LockInv, Points
  <1> QED
    BY <1>1, <1>3, <1>4 DEF LockInv

-----------------------------------------------------------------------------

LEMMA OperateKeeps ==
  ASSUME LockInv, NEW c \in Callers, Operate(c)
  PROVE  LockInv'
  <1> USE DEF bounds, GoOn
  <1>1. CASE Choose(c)
    <2>1. PICK p \in {"leave", "join"} : pc' = [pc EXCEPT ![c] = p]
      BY <1>1 DEF Choose
    <2> QED
      BY <1>1, <2>1, MoveKeeps DEF Choose, Points, Inside
  <1>2. CASE BeforeLeave(c)
    <2>1. PICK p \in {"leaving", "join", "release"} : pc' = [pc EXCEPT ![c] = p]
      BY <1>2 DEF BeforeLeave, AfterLeave
    <2> QED
      BY <1>2, <2>1, MoveKeeps DEF BeforeLeave, Points, Inside
  <1>3. CASE LeaveCall(c)
    <2>1. PICK p \in {"left", "stay"} : pc' = [pc EXCEPT ![c] = p]
      BY <1>3 DEF LeaveCall
    <2> QED
      BY <1>3, <2>1, MoveKeeps DEF LeaveCall, Points, Inside
  <1>4. CASE SaveLeft(c)
    <2>1. PICK p \in {"join", "release"} : pc' = [pc EXCEPT ![c] = p]
      BY <1>4 DEF SaveLeft, AfterLeave
    <2> QED
      BY <1>4, <2>1, MoveKeeps DEF SaveLeft, Points, Inside
  <1>5. CASE SaveStay(c)
    <2>1. PICK p \in {"rejoin", "release"} : pc' = [pc EXCEPT ![c] = p]
      BY <1>5 DEF SaveStay, AfterLeave
    <2> QED
      BY <1>5, <2>1, MoveKeeps DEF SaveStay, Points, Inside
  <1>6. CASE BeforeJoin(c)
    <2>1. PICK p \in {"joining", "release"} : pc' = [pc EXCEPT ![c] = p]
      BY <1>6 DEF BeforeJoin
    <2> QED
      BY <1>6, <2>1, MoveKeeps DEF BeforeJoin, Points, Inside
  <1>7. CASE JoinCall(c)
    <2>1. PICK p \in {"joined", "apart"} : pc' = [pc EXCEPT ![c] = p]
      BY <1>7 DEF JoinCall
    <2> QED
      BY <1>7, <2>1, MoveKeeps DEF JoinCall, Points, Inside
  <1>8. CASE SaveJoined(c) \/ SaveApart(c)
    BY <1>8, MoveKeeps DEF SaveJoined, SaveApart, Points, Inside
  <1>9. CASE Release(c)
    <2>1. CASE lock = c
      BY <1>9, <2>1, MoveKeeps DEF Release, Points, Inside
    <2>2. CASE lock # c
      BY <1>9, <2>2, ExitKeeps DEF Release, Inside
    <2> QED
      BY <2>1, <2>2
  <1>10. CASE Delete(c)
    BY <1>10, ExitKeeps DEF Delete, Inside
  <1> QED
    BY <1>1, <1>2, <1>3, <1>4, <1>5, <1>6, <1>7, <1>8, <1>9, <1>10 DEF Operate

LEMMA RunJobKeeps ==
  ASSUME LockInv, NEW c \in Jobs, RunJob(c)
  PROVE  LockInv'
  <1> USE DEF bounds
  <1>0. c \in Callers
    BY DEF Callers
  <1>1. CASE Reconnect(c)
    <2>1. slow' = slow
      BY <1>1 DEF Reconnect
    <2>2. CASE Enter(c, "reconcile") \/ Enter(c, "recover")
      BY <1>0, <2>1, <2>2, EnterKeeps DEF Reconnects
    <2>3. CASE ~(Enter(c, "reconcile") \/ Enter(c, "recover"))
      <3>1. PICK p \in {"listen", "idle"} : pc' = [pc EXCEPT ![c] = p]
        BY <1>1, <2>3 DEF Reconnect, GoOn
      <3> QED
        BY <1>0, <1>1, <2>1, <2>3, <3>1, MoveKeeps DEF Reconnect, Points, Running, Inside
    <2> QED
      BY <2>2, <2>3
  <1>2. CASE Heal(c) \/ Begin(c) \/ Look(c) \/ Listen(c) \/ PullAudio(c) \/ Touch(c)
    <2>1. lock' = lock /\ slow' = slow
      BY <1>2 DEF Heal, Begin, Look, Listen, PullAudio, Touch
    <2>2. PICK p \in {"idle"} \cup Running : pc' = [pc EXCEPT ![c] = p]
      BY <1>2 DEF Heal, Begin, Look, Listen, PullAudio, Touch, GoOn, Running
    <2> QED
      BY <1>0, <2>1, <2>2, MoveKeeps DEF Points, Running, Inside
  <1> QED
    BY <1>1, <1>2 DEF RunJob

LEMMA LockStep == LockInv /\ [SessionNext]_sessionVars => LockInv'
  <1> SUFFICES ASSUME LockInv, [SessionNext]_sessionVars PROVE LockInv'
    OBVIOUS
  <1>1. ASSUME NEW c \in Admins, Request(c) PROVE LockInv'
    <2>1. PICK o \in {"join", "leave", "reconnect"} : Enter(c, o)
      BY <1>1 DEF Request
    <2> QED
      BY <1>1, <2>1, EnterKeeps DEF Request, Callers, Reconnects
  <1>2. ASSUME NEW c \in Jobs, RunJob(c) PROVE LockInv'
    BY <1>2, RunJobKeeps
  <1>3. ASSUME NEW c \in Callers, Operate(c) PROVE LockInv'
    BY <1>3, OperateKeeps
  <1>4. ASSUME NEW c \in Callers, Die(c) PROVE LockInv'
    BY <1>4, MoveKeeps DEF Die, GoOn, Points, Running, Inside
  <1>5. CASE ExpireOrphan
    BY <1>5, CallersAssumption DEF LockInv, ExpireOrphan, progress, bounds
  <1>6. CASE OutlastLock
    BY <1>6 DEF LockInv, OutlastLock, progress
  <1>7. CASE Cool \/ ResetBreaker \/ GrowOld \/ Drop \/ UNCHANGED sessionVars
    BY <1>7 DEF LockInv, Cool, ResetBreaker, GrowOld, Drop, progress, bounds, sessionVars
  <1> QED
    BY <1>1, <1>2, <1>3, <1>4, <1>5, <1>6, <1>7 DEF SessionNext

-----------------------------------------------------------------------------

\* Operations on one meeting never overlap, however many admins and jobs there
\* are and whoever crashes where, while none is slower than the lock
\* (_meeting_operation_lock).
THEOREM OperationsExclude == SessionSpec => []OneAtATime
  <1>1. SessionInit => LockInv
    BY DEF SessionInit, LockInv, Points, Inside
  <1>2. LockInv => OneAtATime
    <2> SUFFICES ASSUME LockInv, slow = 0
                 PROVE  Cardinality({c \in Callers : pc[c] \in Inside}) <= 1
      BY DEF OneAtATime
    <2> DEFINE S == {c \in Callers : pc[c] \in Inside}
    <2>1. S = {} \/ S = {lock}
      BY DEF LockInv
    <2>2. Cardinality({}) = 0 /\ Cardinality({lock}) = 1
      BY FS_EmptySet, FS_Singleton
    <2>3. Cardinality(S) <= 1
      <3> HIDE DEF S
      <3> QED
        BY <2>1, <2>2
    <2> QED
      BY <2>3
  <1> QED
    BY <1>1, <1>2, LockStep, PTL DEF SessionSpec
=============================================================================
