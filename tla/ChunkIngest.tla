---------------------------- MODULE ChunkIngest ----------------------------
(***************************************************************************)
(* One audio chunk on its way into the service                             *)
(* (services/chunk_ingest_service.py), the part that the HTTP upload, the  *)
(* WebSocket and the connector's live pull share: its idempotency key is   *)
(* marked (queue/idempotency.py), its audio stored (storage/blob.py), its  *)
(* task queued (queue/dispatcher.py), in this order and with nothing taken *)
(* back when a later step fails.                                           *)
(*                                                                         *)
(* One meeting.  Each handler is a process of its own, with its own local  *)
(* cache of keys; the time-out of keys, 24 hours, is left out.             *)
(***************************************************************************)
EXTENDS Naturals, FiniteSets

CONSTANTS Handlers,     \* threads that ingest
          Chunks,       \* pieces of audio
          Seqs,         \* numbers chunks are stored under
          Keys,         \* idempotency keys
          Nothing,
          Transcribes,  \* ~skip_transcription
          MaxOutages,   \* bound on Redis failing in check_and_set
          MaxFaults     \* bound on other failures and crashes

ASSUME NothingAssumption == Nothing \notin Chunks
ASSUME SwitchAssumption == Transcribes \in BOOLEAN
ASSUME LimitsAssumption ==
  MaxOutages \in Nat /\ MaxFaults \in Nat /\ Seqs \subseteq Nat

VARIABLES at,       \* where each handler stands
          request,  \* what it ingests
          keys,     \* keys marked in Redis
          cache,    \* keys each process marked in memory
          blobs,    \* the audio stored under each number
          queued,   \* how many tasks each chunk was given
          outages, faults

limits == <<outages, faults>>
ingestVars == <<at, request, keys, cache, blobs, queued, limits>>

Requests == [chunk : Chunks, seq : Seqs, key : Keys]

Outcomes == {"accepted", "duplicate", "failed"}

IngestTypeOK ==
  /\ \A h \in Handlers : at[h] \in {"mark", "store", "enqueue"} \cup Outcomes
                           => request[h] \in Requests
  /\ keys \subseteq Keys
  /\ cache \in [Handlers -> SUBSET Keys]
  /\ blobs \in [Seqs -> Chunks \cup {Nothing}]
  /\ queued \in [Chunks -> Nat]
  /\ outages \in 0..MaxOutages
  /\ faults \in 0..MaxFaults

IngestInit ==
  /\ at = [h \in Handlers |-> "idle"]
  /\ request = [h \in Handlers |-> Nothing]
  /\ keys = {}
  /\ cache = [h \in Handlers |-> {}]
  /\ blobs = [s \in Seqs |-> Nothing]
  /\ queued = [c \in Chunks |-> 0]
  /\ outages = 0
  /\ faults = 0

Fault == faults < MaxFaults /\ faults' = faults + 1

Goto(h, point) == at' = [at EXCEPT ![h] = point]

Ingest(h, r) == request' = [request EXCEPT ![h] = r] /\ Goto(h, "mark")

Stored(c) == \E s \in Seqs : blobs[s] = c

-----------------------------------------------------------------------------
\* Mutant: the key is looked up and not marked.
MarkForgotten(h) ==
  /\ at[h] = "mark"
  /\ Goto(h, IF request[h].key \in keys THEN "duplicate" ELSE "store")
  /\ UNCHANGED <<request, keys, cache, blobs, queued, limits>>

\* A key already marked ends the request: it was accepted before.
Mark(h) ==
  /\ at[h] = "mark"
  /\ Goto(h, IF request[h].key \in keys THEN "duplicate" ELSE "store")
  /\ keys' = keys \cup {request[h].key}
  /\ UNCHANGED <<request, cache, blobs, queued, limits>>

\* When Redis fails, whether or not it marked the key, memory decides.
MarkLocally(h) ==
  /\ at[h] = "mark"
  /\ outages < MaxOutages
  /\ outages' = outages + 1
  /\ Goto(h, IF request[h].key \in cache[h] THEN "duplicate" ELSE "store")
  /\ keys' \in {keys, keys \cup {request[h].key}}
  /\ cache' = [cache EXCEPT ![h] = @ \cup {request[h].key}]
  /\ UNCHANGED <<request, blobs, queued, faults>>

\* Mutant: the number is not part of the blob's name.
StoreUnnumbered(h) ==
  /\ at[h] = "store"
  /\ blobs' = [blobs EXCEPT ![0] = request[h].chunk]
  /\ Goto(h, IF Transcribes THEN "enqueue" ELSE "accepted")
  /\ UNCHANGED <<request, keys, cache, queued, limits>>

\* The audio replaces what was stored under its number.
Store(h) ==
  /\ at[h] = "store"
  /\ blobs' = [blobs EXCEPT ![request[h].seq] = request[h].chunk]
  /\ Goto(h, IF Transcribes THEN "enqueue" ELSE "accepted")
  /\ UNCHANGED <<request, keys, cache, queued, limits>>

Enqueue(h) ==
  /\ at[h] = "enqueue"
  /\ queued' = [queued EXCEPT ![request[h].chunk] = @ + 1]
  /\ Goto(h, "accepted")
  /\ UNCHANGED <<request, keys, cache, blobs, limits>>

\* An exception of the blob store, or of Redis before or after it queued.
Fails(h) ==
  /\ at[h] \in {"store", "enqueue"}
  /\ Fault
  /\ queued' \in {queued} \cup
       (IF at[h] = "enqueue"
          THEN {[queued EXCEPT ![request[h].chunk] = @ + 1]} ELSE {})
  /\ Goto(h, "failed")
  /\ UNCHANGED <<request, keys, cache, blobs, outages>>

Advance(h) == Mark(h) \/ MarkLocally(h) \/ Store(h) \/ Enqueue(h) \/ Fails(h)
=============================================================================
