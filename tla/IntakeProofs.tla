---------------------------- MODULE IntakeProofs ----------------------------
(***************************************************************************)
(* How audio comes in.  QuickRecord for any number of jobs: stop always    *)
(* reaches the one job that has not finished, and, unless the sound device *)
(* may block longer than the job waits for its recorder, one recorder      *)
(* captures at a time and no job merges segments still being written.      *)
(* ChunkUpload for every set of handlers and chunks and every number of    *)
(* repetitions, lost answers, outages and faults: an accepted chunk is     *)
(* stored unless a step failed; clients have to use a number and a key of  *)
(* its own for each chunk.                                                 *)
(***************************************************************************)
EXTENDS QuickRecord, ChunkUpload, TLAPS

-----------------------------------------------------------------------------
(* Recording by a link. *)

\* Where the thread of a job is tells how far its status has come.
StatusFollowsThread ==
  \A j \in Jobs : /\ pc[j] = "none" <=> status[j] = "none"
                  /\ pc[j] \in {"clear", "gone"} <=> status[j] \in Finished

\* A job moves its file only into a meeting it has saved.
SavedBeforeMoved == \A j \in Jobs : pc[j] = "move" => j \in listed

ManagerInv == QuickTypeOK /\ StatusFollowsThread /\ SavedBeforeMoved /\ StopReachesIt

\* A recorder captures only while its job waits for it.
RecorderIsAwaited ==
  /\ \A j \in Jobs : Alive(j) => pc[j] \in {"wait", "join"}
  /\ \A j \in Jobs : pieces[j] = "open" => Alive(j)
  /\ torn = {}

LEMMA ManagerInit == QuickInit => ManagerInv
  BY QuickAssumption DEF QuickInit, ManagerInv, QuickTypeOK, StatusFollowsThread,
       SavedBeforeMoved,
     StopReachesIt, Unfinished, Finished

LEMMA ManagerStep == ManagerInv /\ [QuickNext]_quickVars => ManagerInv'
  <1> SUFFICES ASSUME ManagerInv, [QuickNext]_quickVars
               PROVE  ManagerInv'
    OBVIOUS
  <1> USE QuickAssumption DEF ManagerInv, QuickTypeOK, StatusFollowsThread,
       SavedBeforeMoved, StopReachesIt, Unfinished, Finished, manager, files, Alive
  <1>1. CASE Stop
    BY <1>1 DEF Stop
  <1>2. CASE UNCHANGED quickVars
    BY <1>2 DEF quickVars
  <1>3. ASSUME NEW j \in Jobs, Start(j)
         PROVE  ManagerInv'
    BY <1>3 DEF Start, Free
  <1>4. ASSUME NEW j \in Jobs, Begin(j)
         PROVE  ManagerInv'
    BY <1>4 DEF Begin
  <1>5. ASSUME NEW j \in Jobs, Open(j)
         PROVE  ManagerInv'
    BY <1>5 DEF Open
  <1>6. ASSUME NEW j \in Jobs, Notice(j) \/ TimeOut(j)
         PROVE  ManagerInv'
    BY <1>6 DEF Notice, TimeOut, Halt
  <1>7. ASSUME NEW j \in Jobs, Join(j)
         PROVE  ManagerInv'
    BY <1>7 DEF Join, Finish
  <1>8. ASSUME NEW j \in Jobs, Merge(j)
         PROVE  ManagerInv'
    BY <1>8 DEF Merge, Finish
  <1>9. ASSUME NEW j \in Jobs, List(j)
         PROVE  ManagerInv'
    BY <1>9 DEF List
  <1>10. ASSUME NEW j \in Jobs, Move(j)
         PROVE  ManagerInv'
    BY <1>10 DEF Move, Imports, Import
  <1>11. ASSUME NEW j \in Jobs, Upload(j)
         PROVE  ManagerInv'
    BY <1>11 DEF Upload
  <1>12. ASSUME NEW j \in Jobs, Complete(j)
         PROVE  ManagerInv'
    BY <1>12 DEF Complete, Finish
  <1>13. ASSUME NEW j \in Jobs, Raise(j)
         PROVE  ManagerInv'
    BY <1>13 DEF Raise, Finish
  <1>14. ASSUME NEW j \in Jobs, Clear(j)
         PROVE  ManagerInv'
    BY <1>14 DEF Clear
  <1>15. ASSUME NEW j \in Jobs, Capture(j)
         PROVE  ManagerInv'
    BY <1>15 DEF Capture
  <1>16. ASSUME NEW j \in Jobs, End(j) \/ Break(j)
         PROVE  ManagerInv'
    BY <1>16 DEF End, Break, Exit
  <1> QED
    BY <1>1, <1>2, <1>3, <1>4, <1>5, <1>6, <1>7, <1>8, <1>9, <1>10, <1>11, <1>12, <1>13,
         <1>14, <1>15, <1>16 DEF QuickNext, Thread, Capturing

LEMMA RecorderStep ==
  ~DeviceCanHang /\ ManagerInv /\ RecorderIsAwaited /\ [QuickNext]_quickVars => RecorderIsAwaited'
  <1> SUFFICES ASSUME ~DeviceCanHang, ManagerInv, RecorderIsAwaited, [QuickNext]_quickVars
               PROVE  RecorderIsAwaited'
    OBVIOUS
  <1> USE QuickAssumption DEF RecorderIsAwaited, Alive, manager, files, ManagerInv,
       QuickTypeOK
  <1>1. CASE Stop
    BY <1>1 DEF Stop
  <1>2. CASE UNCHANGED quickVars
    BY <1>2 DEF quickVars
  <1>3. ASSUME NEW j \in Jobs, Start(j)
         PROVE  RecorderIsAwaited'
    <2>1. pc[j] = "none"
      BY <1>3 DEF Start, StatusFollowsThread
    <2> QED
      BY <1>3, <2>1 DEF Start, Free
  <1>4. ASSUME NEW j \in Jobs, Begin(j)
         PROVE  RecorderIsAwaited'
    BY <1>4 DEF Begin
  <1>5. ASSUME NEW j \in Jobs, Open(j)
         PROVE  RecorderIsAwaited'
    BY <1>5 DEF Open
  <1>6. ASSUME NEW j \in Jobs, Notice(j) \/ TimeOut(j)
         PROVE  RecorderIsAwaited'
    BY <1>6 DEF Notice, TimeOut, Halt
  <1>7. ASSUME NEW j \in Jobs, Join(j)
         PROVE  RecorderIsAwaited'
    BY <1>7 DEF Join, Finish
  <1>8. ASSUME NEW j \in Jobs, Merge(j)
         PROVE  RecorderIsAwaited'
    BY <1>8 DEF Merge, Finish
  <1>9. ASSUME NEW j \in Jobs, List(j)
         PROVE  RecorderIsAwaited'
    BY <1>9 DEF List
  <1>10. ASSUME NEW j \in Jobs, Move(j)
         PROVE  RecorderIsAwaited'
    BY <1>10 DEF Move, Imports, Import
  <1>11. ASSUME NEW j \in Jobs, Upload(j)
         PROVE  RecorderIsAwaited'
    BY <1>11 DEF Upload
  <1>12. ASSUME NEW j \in Jobs, Complete(j)
         PROVE  RecorderIsAwaited'
    BY <1>12 DEF Complete, Finish
  <1>13. ASSUME NEW j \in Jobs, Raise(j)
         PROVE  RecorderIsAwaited'
    BY <1>13 DEF Raise, Finish
  <1>14. ASSUME NEW j \in Jobs, Clear(j)
         PROVE  RecorderIsAwaited'
    BY <1>14 DEF Clear
  <1>15. ASSUME NEW j \in Jobs, Capture(j)
         PROVE  RecorderIsAwaited'
    BY <1>15 DEF Capture
  <1>16. ASSUME NEW j \in Jobs, End(j) \/ Break(j)
         PROVE  RecorderIsAwaited'
    BY <1>16 DEF End, Break, Exit
  <1> QED
    BY <1>1, <1>2, <1>3, <1>4, <1>5, <1>6, <1>7, <1>8, <1>9, <1>10, <1>11, <1>12, <1>13,
         <1>14, <1>15, <1>16 DEF QuickNext, Thread, Capturing

-----------------------------------------------------------------------------

THEOREM ManagerCorrect == QuickSpec => []ManagerInv
  <1> QED BY ManagerInit, ManagerStep, PTL DEF QuickSpec

\* The variables of the manager, the threads and the files keep their types.
THEOREM TypeCorrect == QuickSpec => []QuickTypeOK
  <1>1. ManagerInv => QuickTypeOK
    BY DEF ManagerInv
  <1> QED BY <1>1, ManagerCorrect, PTL

\* An unfinished job is the active one (QuickRecordManager.start, stop,
\* _run_job): stop reaches it and no other job is started beside it.
THEOREM StopReaches == QuickSpec => []StopReachesIt
  <1>1. ManagerInv => StopReachesIt
    BY DEF ManagerInv
  <1> QED BY <1>1, ManagerCorrect, PTL

\* With a device that returns within the time a job waits for its recorder,
\* at most one recorder captures (QuickRecordManager.start).
THEOREM RecordersExclude ==
  ASSUME ~DeviceCanHang
  PROVE  QuickSpec => []OneRecorder
  <1>1. QuickInit => RecorderIsAwaited
    BY DEF QuickInit, RecorderIsAwaited, Alive
  <1>2. ManagerInv /\ RecorderIsAwaited => OneRecorder
    BY DEF ManagerInv, StatusFollowsThread, StopReachesIt, RecorderIsAwaited, OneRecorder,
         Unfinished,
       Finished, QuickTypeOK
  <1>3. ManagerInv /\ RecorderIsAwaited /\ [QuickNext]_quickVars => RecorderIsAwaited'
    BY RecorderStep
  <1> QED BY <1>1, <1>2, <1>3, ManagerCorrect, PTL DEF QuickSpec

\* With such a device a completed job merged only closed segments
\* (run_quick_record).
THEOREM CompletedWhole ==
  ASSUME ~DeviceCanHang
  PROVE  QuickSpec => []CompletedIsWhole
  <1>1. QuickInit => RecorderIsAwaited
    BY DEF QuickInit, RecorderIsAwaited, Alive
  <1>2. RecorderIsAwaited => CompletedIsWhole
    BY DEF RecorderIsAwaited, CompletedIsWhole
  <1>3. ManagerInv /\ RecorderIsAwaited /\ [QuickNext]_quickVars => RecorderIsAwaited'
    BY RecorderStep
  <1> QED BY <1>1, <1>2, <1>3, ManagerCorrect, PTL DEF QuickSpec

-----------------------------------------------------------------------------
(* Chunks sent by clients. *)

\* What the clients keep to.
OwnNumbersAndKeys ==
  \A c, d \in Chunks : c # d => SeqOf[c] # SeqOf[d] /\ KeyOf[c] # KeyOf[d]

-----------------------------------------------------------------------------
(* The inductive invariant.                                                *)

RequestOf(c) == [chunk |-> c, seq |-> SeqOf[c], key |-> KeyOf[c]]

Types ==
  /\ at \in [Handlers -> {"idle", "mark", "store"} \cup Outcomes]
  /\ blobs \in [Seqs -> Chunks \cup {Nothing}]
  /\ cache \in [Handlers -> SUBSET Keys]
  /\ request \in [Handlers -> Requests \cup {Nothing}]
  /\ faults \in Nat
  /\ client \in [Chunks -> {"sending", "waiting", "told"}]
  /\ awaited \in [Chunks -> Handlers \cup {Nothing}]
  /\ \A h \in Handlers : at[h] # "idle" => \E c \in Chunks : request[h] = RequestOf(c)

\* No chunk is ever stored under the number of another.
OwnPlace == \A s \in Seqs : \A c \in Chunks : blobs[s] = c => s = SeqOf[c]

\* A handler that a client waits for works on that client's chunk.
Served ==
  \A c \in Chunks : \A h \in Handlers :
    Awaits(c, h) => at[h] # "idle" /\ request[h].chunk = c

BeingStored(c) == \E h \in Handlers : at[h] = "store" /\ request[h].chunk = c

Safe(c) == Stored(c) \/ BeingStored(c)

Marked(c) == KeyOf[c] \in keys \/ \E h \in Handlers : KeyOf[c] \in cache[h]

\* Unless something failed, a marked key, an answer and a client that was told
\* each stand for a chunk that is safe.
MeansSafe ==
  /\ \A c \in Chunks : Marked(c) => Safe(c)
  /\ \A h \in Handlers : at[h] \in {"accepted", "duplicate"} => Safe(request[h].chunk)
  /\ \A c \in Chunks : client[c] = "told" => Safe(c)

UploadInv == Types /\ OwnPlace /\ Served /\ (faults = 0 => MeansSafe)

\* What a request asks for.
LEMMA RequestFields ==
  ASSUME Types, NEW h \in Handlers, at[h] # "idle"
  PROVE  \E c \in Chunks : /\ request[h] = RequestOf(c)
                           /\ request[h].chunk = c
                           /\ request[h].seq = SeqOf[c] /\ SeqOf[c] \in Seqs
                           /\ request[h].key = KeyOf[c] /\ KeyOf[c] \in Keys
  <1>1. PICK c \in Chunks : request[h] = RequestOf(c)
    BY DEF Types
  <1>2. SeqOf[c] \in Seqs /\ KeyOf[c] \in Keys
    BY UploadAssumption
  <1> QED BY <1>1, <1>2 DEF RequestOf

-----------------------------------------------------------------------------
(* The steps of an ingest.                                                 *)

\* Marking a key, in Redis or in memory, and what is found there.
LEMMA MarkStep ==
  ASSUME OwnNumbersAndKeys, UploadInv, NEW h \in Handlers,
         Mark(h) \/ MarkLocally(h), UNCHANGED clientVars
  PROVE  UploadInv'
  <1>1. at[h] = "mark" /\ UNCHANGED <<request, blobs, faults, clientVars>>
    BY DEF Mark, MarkLocally, limits
  <1>2. PICK c \in Chunks :
          request[h] = RequestOf(c) /\ request[h].chunk = c
          /\ request[h].key = KeyOf[c] /\ KeyOf[c] \in Keys
    BY <1>1, RequestFields DEF UploadInv
  <1>3. PICK point \in {"duplicate", "store"} :
          /\ at' = [at EXCEPT ![h] = point]
          /\ point = "duplicate" => Marked(c)
    BY <1>2 DEF Mark, MarkLocally, Goto, Marked
  <1>4. /\ at'[h] = point
        /\ \A g \in Handlers : g # h => at'[g] = at[g]
    BY <1>3 DEF UploadInv, Types
  <1>5. /\ keys' \subseteq keys \cup {KeyOf[c]}
        /\ cache' \in [Handlers -> SUBSET Keys]
        /\ \A g \in Handlers : cache'[g] \subseteq cache[g] \cup {KeyOf[c]}
    BY <1>2 DEF Mark, MarkLocally, UploadInv, Types
  <1>6. Types'
    BY <1>1, <1>2, <1>3, <1>4, <1>5 DEF UploadInv, Types, Outcomes, RequestOf, clientVars
  <1>7. OwnPlace' /\ Served'
    BY <1>1, <1>4 DEF UploadInv, OwnPlace, Served, Awaits, clientVars
  <1>8. ASSUME faults' = 0 PROVE MeansSafe'
    <2>1. MeansSafe
      BY <1>1, <1>8 DEF UploadInv
    <2>2. \A d \in Chunks : Safe(d) => Safe(d)'
      BY <1>1, <1>4 DEF Safe, Stored, BeingStored
    <2>3. Safe(c)'
      BY <1>1, <1>2, <1>3, <1>4, <2>1, <2>2 DEF MeansSafe, Safe, BeingStored
    <2>4. \A d \in Chunks : Marked(d)' => Marked(d) \/ d = c
      BY <1>5 DEF Marked, OwnNumbersAndKeys
    <2>5. \A d \in Chunks : Marked(d)' => Safe(d)'
      BY <2>1, <2>2, <2>3, <2>4 DEF MeansSafe
    <2>6. ASSUME NEW g \in Handlers, at'[g] \in {"accepted", "duplicate"}
          PROVE  Safe(request[g].chunk)'
      <3>1. PICK d \in Chunks : request[g].chunk = d
        BY <1>1, <1>4, <2>6, RequestFields DEF UploadInv
      <3>2. Safe(d)'
        BY <1>2, <1>4, <2>1, <2>2, <2>3, <2>6, <3>1 DEF MeansSafe
      <3> QED BY <1>1, <3>1, <3>2
    <2>7. \A d \in Chunks : client'[d] = "told" => Safe(d)'
      BY <1>1, <2>1, <2>2 DEF MeansSafe, clientVars
    <2> QED BY <2>5, <2>6, <2>7 DEF MeansSafe
  <1> QED BY <1>6, <1>7, <1>8 DEF UploadInv

LEMMA StoreStep ==
  ASSUME OwnNumbersAndKeys, UploadInv, NEW h \in Handlers, Store(h),
         UNCHANGED clientVars
  PROVE  UploadInv'
  <1>1. /\ at[h] = "store" /\ at' = [at EXCEPT ![h] = "accepted"]
        /\ UNCHANGED <<request, keys, cache, faults, clientVars>>
    BY UploadAssumption DEF Store, Goto, limits
  <1>2. PICK c \in Chunks :
          request[h] = RequestOf(c) /\ request[h].chunk = c
          /\ request[h].seq = SeqOf[c] /\ SeqOf[c] \in Seqs
    BY <1>1, RequestFields DEF UploadInv
  <1>3. /\ blobs' = [blobs EXCEPT ![SeqOf[c]] = c]
        /\ blobs \in [Seqs -> Chunks \cup {Nothing}]
    BY <1>2 DEF Store, UploadInv, Types
  <1>4. /\ blobs'[SeqOf[c]] = c
        /\ \A s \in Seqs : s # SeqOf[c] => blobs'[s] = blobs[s]
    BY <1>2, <1>3
  <1>5. /\ at'[h] = "accepted"
        /\ \A g \in Handlers : g # h => at'[g] = at[g]
    BY <1>1 DEF UploadInv, Types
  <1>6. Types'
    BY <1>1, <1>2, <1>3, <1>5 DEF UploadInv, Types, Outcomes, RequestOf, clientVars
  <1>7. OwnPlace'
    BY <1>2, <1>4 DEF UploadInv, OwnPlace
  <1>8. Served'
    BY <1>1, <1>5 DEF UploadInv, Served, Awaits, clientVars
  <1>9. ASSUME faults' = 0 PROVE MeansSafe'
    <2>1. MeansSafe
      BY <1>1, <1>9 DEF UploadInv
    <2>2. Safe(c)'
      BY <1>2, <1>4 DEF Safe, Stored
    <2>3. ASSUME NEW d \in Chunks, Safe(d), d # c PROVE Safe(d)'
      <3>1. CASE Stored(d)
        <4>1. PICK s \in Seqs : blobs[s] = d
          BY <3>1 DEF Stored
        <4>2. s # SeqOf[c]
          BY <2>3, <4>1 DEF UploadInv, OwnPlace, OwnNumbersAndKeys
        <4> QED BY <1>4, <4>1, <4>2 DEF Safe, Stored
      <3>2. CASE BeingStored(d)
        BY <1>1, <1>2, <1>5, <2>3, <3>2 DEF Safe, BeingStored
      <3> QED BY <2>3, <3>1, <3>2 DEF Safe
    <2>4. \A d \in Chunks : Safe(d) => Safe(d)'
      BY <2>2, <2>3
    <2>5. \A d \in Chunks : (Marked(d)' => Safe(d)') /\ (client'[d] = "told" => Safe(d)')
      BY <1>1, <2>1, <2>4 DEF MeansSafe, Marked, clientVars
    <2>6. ASSUME NEW g \in Handlers, at'[g] \in {"accepted", "duplicate"}
          PROVE  Safe(request[g].chunk)'
      <3>1. PICK d \in Chunks : request[g].chunk = d
        BY <1>1, <1>5, <2>6, RequestFields DEF UploadInv
      <3>2. Safe(d)'
        BY <1>2, <1>5, <2>1, <2>2, <2>4, <2>6, <3>1 DEF MeansSafe
      <3> QED BY <1>1, <3>1, <3>2
    <2> QED BY <2>5, <2>6 DEF MeansSafe
  <1> QED BY <1>6, <1>7, <1>8, <1>9 DEF UploadInv

-----------------------------------------------------------------------------
(* The other steps.                                                        *)

\* A step that stores nothing and marks nothing, sends handler h to another
\* point and tells clients only what h found out.
LEMMA TalkStep ==
  ASSUME UploadInv, Types', Served', NEW h \in Handlers,
         faults' >= faults,
         UNCHANGED <<blobs, keys>>,
         \A g \in Handlers : cache'[g] \subseteq cache[g],
         \A g \in Handlers : g # h => at'[g] = at[g] /\ request'[g] = request[g],
         faults' = 0 => at[h] # "store" /\ at'[h] \in {"idle", "mark", "failed"},
         \A c \in Chunks : client'[c] = "told" =>
           \/ client[c] = "told"
           \/ at[h] \in {"accepted", "duplicate"} /\ request[h].chunk = c
  PROVE  UploadInv'
  <1>1. OwnPlace'
    BY DEF UploadInv, OwnPlace
  <1>2. ASSUME faults' = 0 PROVE MeansSafe'
    <2>1. MeansSafe
      BY <1>2 DEF UploadInv, Types
    <2>2. \A c \in Chunks : Safe(c) => Safe(c)'
      BY <1>2 DEF Safe, Stored, BeingStored
    <2>3. \A c \in Chunks : Marked(c)' => Marked(c)
      BY DEF Marked
    <2>4. ASSUME NEW g \in Handlers, at'[g] \in {"accepted", "duplicate"}
          PROVE  Safe(request[g].chunk)'
      <3>1. g # h
        BY <1>2, <2>4
      <3>2. PICK d \in Chunks : request[g].chunk = d
        BY <2>4, <3>1, RequestFields DEF UploadInv
      <3>3. Safe(d)'
        BY <2>1, <2>2, <2>4, <3>1, <3>2 DEF MeansSafe
      <3> QED BY <3>1, <3>2, <3>3
    <2> QED BY <2>1, <2>2, <2>3, <2>4 DEF MeansSafe
  <1> QED BY <1>1, <1>2 DEF UploadInv

LEMMA UploadStep == OwnNumbersAndKeys /\ UploadInv /\ [Next]_vars => UploadInv'
  <1> SUFFICES ASSUME OwnNumbersAndKeys, UploadInv, [Next]_vars PROVE UploadInv'
    OBVIOUS
  <1>0. /\ Types /\ Served /\ faults \in Nat
        /\ at \in [Handlers -> {"idle", "mark", "store"} \cup Outcomes]
        /\ client \in [Chunks -> {"sending", "waiting", "told"}]
    BY DEF UploadInv, Types
  <1>1. ASSUME NEW h \in Handlers, Advance(h), UNCHANGED clientVars PROVE UploadInv'
    <2>1. CASE Mark(h) \/ MarkLocally(h)
      BY <1>1, <2>1, MarkStep
    <2>2. CASE Store(h)
      BY <1>1, <2>2, StoreStep
    <2>3. ~Enqueue(h)
      BY <1>0 DEF Enqueue, Outcomes
    <2>4. CASE Fails(h)
      <3>1. /\ at[h] = "store" /\ at' = [at EXCEPT ![h] = "failed"]
            /\ faults' = faults + 1
            /\ UNCHANGED <<request, keys, cache, blobs, clientVars>>
        BY <1>0, <1>1, <2>4 DEF Fails, Fault, Goto, Outcomes
      <3>2. Types'
        BY <1>0, <3>1 DEF Types, Outcomes, clientVars, RequestOf
      <3>3. Served'
        BY <1>0, <3>1 DEF Served, Awaits, clientVars
      <3> QED BY <1>0, <3>1, <3>2, <3>3, TalkStep DEF clientVars
    <2> QED BY <1>1, <2>1, <2>2, <2>3, <2>4 DEF Advance
  <1>2. ASSUME NEW h \in Handlers, Answer(h) PROVE UploadInv'
    <2>1. /\ at[h] \in Outcomes /\ at' = [at EXCEPT ![h] = "idle"]
          /\ client' = [c \in Chunks |->
                         IF ~Awaits(c, h) THEN client[c]
                         ELSE IF at[h] = "failed" THEN "sending" ELSE "told"]
          /\ UNCHANGED <<request, keys, cache, blobs, faults, awaited>>
      BY <1>2 DEF Answer, Goto, limits
    <2>2. Types'
      BY <1>0, <2>1 DEF Types, RequestOf
    <2>3. Served'
      BY <1>0, <2>1 DEF Served, Awaits
    <2>4. \A c \in Chunks : client'[c] = "told" =>
            \/ client[c] = "told"
            \/ at[h] \in {"accepted", "duplicate"} /\ request[h].chunk = c
      BY <1>0, <2>1 DEF Served, Outcomes
    <2>5. at[h] # "store" /\ at'[h] = "idle"
      BY <1>0, <2>1 DEF Outcomes
    <2> QED BY <1>0, <2>1, <2>2, <2>3, <2>4, <2>5, TalkStep
  <1>3. ASSUME NEW h \in Handlers, Crash(h) PROVE UploadInv'
    <2>1. /\ faults' = faults + 1 /\ at' = [at EXCEPT ![h] = "idle"]
          /\ cache' = [cache EXCEPT ![h] = {}]
          /\ client' = [c \in Chunks |-> IF Awaits(c, h) THEN "sending" ELSE client[c]]
          /\ UNCHANGED <<request, keys, blobs, awaited>>
      BY <1>3 DEF Crash, Goto, Fault
    <2>2. Types'
      BY <1>0, <2>1 DEF Types, RequestOf
    <2>3. Served'
      BY <1>0, <2>1 DEF Served, Awaits
    <2> QED BY <1>0, <2>1, <2>2, <2>3, TalkStep DEF Types
  <1>4. ASSUME NEW h \in Handlers, NEW c \in Chunks, Send(c, h) PROVE UploadInv'
    <2>1. /\ client[c] = "sending" /\ at[h] = "idle"
          /\ request' = [request EXCEPT ![h] = RequestOf(c)]
          /\ at' = [at EXCEPT ![h] = "mark"]
          /\ client' = [client EXCEPT ![c] = "waiting"]
          /\ awaited' = [awaited EXCEPT ![c] = h]
          /\ UNCHANGED <<keys, cache, blobs, faults>>
      BY <1>4 DEF Send, Ingest, Goto, RequestOf, limits
    <2>2. RequestOf(c) \in Requests
      BY UploadAssumption DEF RequestOf, Requests
    <2>3. /\ request'[h] = RequestOf(c)
          /\ \A g \in Handlers : g # h => at'[g] = at[g] /\ request'[g] = request[g]
          /\ at'[h] = "mark"
          /\ request' \in [Handlers -> Requests \cup {Nothing}]
      BY <1>0, <2>1, <2>2 DEF Types
    <2>4. \A g \in Handlers : at'[g] # "idle" => \E d \in Chunks : request'[g] = RequestOf(d)
      BY <1>0, <2>3 DEF Types
    <2>5. Types'
      BY <1>0, <2>1, <2>3, <2>4 DEF Types, RequestOf
    <2>6. Served'
      <3>1. request'[h].chunk = c
        BY <2>3 DEF RequestOf
      <3>2. \A d \in Chunks, g \in Handlers :
              Awaits(d, g)' => (d = c /\ g = h) \/ (Awaits(d, g) /\ d # c)
        <4>1. awaited'[c] = h /\ \A d \in Chunks : d # c => awaited'[d] = awaited[d] /\ client'[d] = client[d]
          BY <1>0, <2>1 DEF Types
        <4> QED BY <4>1 DEF Awaits
      <3>3. \A d \in Chunks, g \in Handlers : Awaits(d, g) => g # h
        BY <1>0, <2>1 DEF Served
      <3> QED BY <1>0, <2>3, <3>1, <3>2, <3>3 DEF Served
    <2>7. \A d \in Chunks : client'[d] = "told" => client[d] = "told"
      BY <1>0, <2>1
    <2> QED BY <1>0, <2>1, <2>3, <2>5, <2>6, <2>7, TalkStep
  <1>5. ASSUME NEW c \in Chunks, GiveUp(c) PROVE UploadInv'
    <2>1. /\ client' = [client EXCEPT ![c] = "sending"]
          /\ UNCHANGED <<ingestVars, awaited>>
      BY <1>5 DEF GiveUp
    <2>2. Types' /\ Served'
      BY <1>0, <2>1 DEF Types, Served, Awaits, ingestVars, limits, RequestOf
    <2>3. OwnPlace' /\ \A d \in Chunks : client'[d] = "told" => client[d] = "told"
      BY <1>0, <2>1 DEF UploadInv, OwnPlace, ingestVars, limits
    <2>4. MeansSafe => MeansSafe'
      BY <2>1, <2>3 DEF MeansSafe, Marked, Safe, Stored, BeingStored, ingestVars, limits
    <2> QED BY <2>1, <2>2, <2>3, <2>4 DEF UploadInv, ingestVars, limits
  <1>6. CASE UNCHANGED vars
    BY <1>6 DEF vars, ingestVars, clientVars, limits, UploadInv, Types, OwnPlace,
                Served, Awaits, MeansSafe, Marked, Safe, Stored, BeingStored
  <1> QED BY <1>1, <1>2, <1>3, <1>4, <1>5, <1>6 DEF Next, Serve

\* If clients use a number and a key of its own for each chunk, then whatever
\* they repeat, whatever answers are lost and whether or not Redis is there, a
\* chunk reported accepted is stored or just being stored, as long as no step
\* failed: two handlers that meet in one key, or a handler that falls back to
\* the keys of its own memory, cannot both take the other for the one that
\* stores.
THEOREM AcceptedStored ==
  ASSUME OwnNumbersAndKeys
  PROVE  Spec => []AcceptedIsStoredUnlessFault
  <1>1. Init => UploadInv
    <2> SUFFICES ASSUME Init PROVE UploadInv
      OBVIOUS
    <2>1. Types
      BY DEF Init, IngestInit, Types
    <2>2. OwnPlace /\ Served
      BY NothingAssumption DEF Init, IngestInit, OwnPlace, Served, Awaits
    <2>3. MeansSafe
      BY DEF Init, IngestInit, MeansSafe, Marked
    <2> QED BY <2>1, <2>2, <2>3 DEF UploadInv
  <1>2. UploadInv => AcceptedIsStoredUnlessFault
    BY DEF UploadInv, MeansSafe, Safe, BeingStored, AcceptedIsStoredUnlessFault,
           AcceptedIsStored
  <1>3. UploadInv /\ [Next]_vars => UploadInv'
    BY UploadStep
  <1> QED BY <1>1, <1>2, <1>3, PTL DEF Spec
=============================================================================
