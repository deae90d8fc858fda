------------------------------ MODULE LivePull ------------------------------
(***************************************************************************)
(* Pulling the live audio of a meeting from the platform                   *)
(* (services/sberjazz_service.py): the cursor is loaded from Redis, a      *)
(* batch is fetched from there, the platform's next cursor is saved, and   *)
(* the chunks are ingested one by one.  The reconciliation worker pulls    *)
(* again and again, the admin API on request: nothing keeps them apart.    *)
(*                                                                         *)
(* The platform is outside: it keeps the chunks in order and answers with  *)
(* those after the cursor and with the position of the last one.  A chunk  *)
(* may come without an id or without a number, which the service then      *)
(* makes up.                                                               *)
(***************************************************************************)
EXTENDS ChunkIngest, Sequences

CONSTANTS Named,       \* chunks that come with an id
          Numbered,    \* chunks that come with a number
          BatchLimit   \* sberjazz_live_pull_batch_limit

ASSUME PullAssumption ==
  /\ Transcribes
  /\ IsFiniteSet(Chunks) /\ Chunks = 1..Cardinality(Chunks)
  /\ Named \subseteq Chunks /\ Numbered \subseteq Chunks
  /\ BatchLimit \in Nat \ {0}
  /\ \A c \in Chunks : 0..c \subseteq Seqs
  /\ Keys = {<<c>> : c \in Named} \cup ({0} \cup Chunks) \X (1..BatchLimit)

VARIABLES spoken,   \* chunks the platform has so far
          cursor,   \* saved cursor, 0 if none
          counter,  \* live_seq
          loaded,   \* the cursor each puller loaded, and the next one
          next,
          batch     \* chunks each puller has yet to ingest

pullVars == <<spoken, cursor, counter, loaded, next, batch>>
vars == <<ingestVars, pullVars>>

TypeOK ==
  /\ IngestTypeOK
  /\ at \in [Handlers -> {"idle", "fetch", "save", "next",
                          "mark", "store", "enqueue"} \cup Outcomes]
  /\ {spoken, cursor} \subseteq {0} \cup Chunks
  /\ counter \in Seqs
  /\ {loaded, next} \subseteq [Handlers -> {0} \cup Chunks]
  /\ \A p \in Handlers : batch[p] \in Seq(Requests)

Init ==
  /\ IngestInit
  /\ spoken = 0
  /\ cursor = 0
  /\ counter = 0
  /\ loaded = [p \in Handlers |-> 0]
  /\ next = loaded
  /\ batch = [p \in Handlers |-> <<>>]

-----------------------------------------------------------------------------
Speak ==
  /\ spoken + 1 \in Chunks
  /\ spoken' = spoken + 1
  /\ UNCHANGED <<ingestVars, cursor, counter, loaded, next, batch>>

Load(p) ==
  /\ at[p] = "idle"
  /\ loaded' = [loaded EXCEPT ![p] = cursor]
  /\ Goto(p, "fetch")
  /\ UNCHANGED <<request, keys, cache, blobs, queued, limits, spoken, cursor,
                 counter, next, batch>>

Least(a, b) == IF a < b THEN a ELSE b

\* Chunks among from + 1 .. upto that take a number from the counter.
Unnumbered(from, upto) == Cardinality((from + 1 .. upto) \ Numbered)

\* The platform numbers its chunks from 0; an id that is missing is made of
\* the cursor the batch was fetched from and the place in the batch.
Parsed(from, c) ==
  [chunk |-> c,
   seq   |-> IF c \in Numbered THEN c - 1 ELSE counter + Unnumbered(from, c),
   key   |-> IF c \in Named THEN <<c>> ELSE <<from, c - from>>]

\* Fetching and parsing: a failure changes nothing.  The numbers in Seqs bound
\* the counter.
Fetch(p) ==
  /\ at[p] = "fetch"
  /\ \/ LET last == Least(spoken, loaded[p] + BatchLimit) IN
        /\ batch' = [batch EXCEPT ![p] =
             [i \in 1 .. last - loaded[p] |-> Parsed(loaded[p], loaded[p] + i)]]
        /\ counter' = counter + Unnumbered(loaded[p], last)
        /\ counter' \in Seqs
        /\ next' = [next EXCEPT ![p] = last]
        /\ Goto(p, "save")
        /\ UNCHANGED faults
     \/ /\ Fault
        /\ Goto(p, "idle")
        /\ UNCHANGED <<batch, counter, next>>
  /\ UNCHANGED <<request, keys, cache, blobs, queued, outages, spoken, cursor,
                 loaded>>

\* Mutant: the cursor is moved past a chunk that was not fetched.
SaveTooFar(p) ==
  /\ at[p] = "save"
  /\ cursor' = IF next[p] + 1 \in Chunks THEN next[p] + 1 ELSE next[p]
  /\ Goto(p, "next")
  /\ UNCHANGED <<request, keys, cache, blobs, queued, limits, spoken, counter,
                 loaded, next, batch>>

\* The next cursor is saved before any chunk is ingested.
SaveCursor(p) ==
  /\ at[p] = "save"
  /\ cursor' = IF next[p] = 0 THEN cursor ELSE next[p]
  /\ Goto(p, "next")
  /\ UNCHANGED <<request, keys, cache, blobs, queued, limits, spoken, counter,
                 loaded, next, batch>>

NextChunk(p) ==
  /\ at[p] \in {"next", "accepted", "duplicate"}
  /\ IF batch[p] = <<>>
       THEN Goto(p, "idle") /\ UNCHANGED <<request, batch>>
       ELSE /\ Ingest(p, Head(batch[p]))
            /\ batch' = [batch EXCEPT ![p] = Tail(@)]
  /\ UNCHANGED <<keys, cache, blobs, queued, limits, spoken, cursor, counter,
                 loaded, next>>

\* An exception ends the pull; the rest of the batch is dropped.
Abort(p) ==
  /\ at[p] = "failed"
  /\ Goto(p, "idle")
  /\ batch' = [batch EXCEPT ![p] = <<>>]
  /\ UNCHANGED <<request, keys, cache, blobs, queued, limits, spoken, cursor,
                 counter, loaded, next>>

Crash(p) ==
  /\ at[p] # "idle"
  /\ Fault
  /\ Goto(p, "idle")
  /\ batch' = [batch EXCEPT ![p] = <<>>]
  /\ cache' = [cache EXCEPT ![p] = {}]
  /\ UNCHANGED <<request, keys, blobs, queued, outages, spoken, cursor, counter,
                 loaded, next>>

Pull(p) ==
  \/ Load(p) \/ Fetch(p) \/ SaveCursor(p) \/ NextChunk(p) \/ Abort(p)
  \/ Advance(p) /\ UNCHANGED pullVars

Next == Speak \/ \E p \in Handlers : Pull(p) \/ Crash(p)

Spec == Init /\ [][Next]_vars

\* The worker that pulls is restarted when it dies and pulls again.
FairSpec == Spec /\ \A p \in Handlers : WF_vars(Pull(p))

-----------------------------------------------------------------------------
\* While nobody pulls, every chunk before the cursor has a task: the cursor
\* is never asked for those again.
NothingSkipped ==
  (\A p \in Handlers : at[p] = "idle")
    => \A c \in Chunks : c <= cursor => queued[c] > 0

\* A chunk is transcribed once, however often it is fetched and whoever
\* pulls, unless Redis fails while its key is marked.
QueuedOnce == \A c \in Chunks : queued[c] <= 1 + outages

\* The audio a task refers to is stored, under a number that no other chunk
\* takes over.
TaskHasAudio == \A c \in Chunks : queued[c] > 0 => Stored(c)

\* The same as long as no step failed and nobody crashed; in particular two
\* pullers that fetch the same chunks and move the cursor back and forth skip
\* nothing.
NothingSkippedUnlessFault == faults = 0 => NothingSkipped

\* Whatever is spoken is transcribed in the end, if no step fails.
QueuedUnlessFault ==
  [](faults = 0) => \A c \in Chunks : spoken >= c ~> queued[c] > 0
=============================================================================
