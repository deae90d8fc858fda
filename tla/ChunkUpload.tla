---------------------------- MODULE ChunkUpload ----------------------------
(***************************************************************************)
(* Clients that upload chunks over HTTP (api_gateway/routers/realtime.py)  *)
(* or the WebSocket (api_gateway/ws.py) and repeat, under the same key, a  *)
(* request that failed or was not answered.  A chunk uploaded this way is  *)
(* only stored; it is transcribed after the meeting.                       *)
(*                                                                         *)
(* The client is outside the service: it sends a chunk again until it is   *)
(* told that it was accepted, which is what the answers let it do.         *)
(***************************************************************************)
EXTENDS ChunkIngest

CONSTANTS MaxTries,     \* bound on the requests for one chunk
          MaxLost,      \* bound on answers that never come
          SeqOf, KeyOf  \* number and key each chunk is uploaded under

ASSUME UploadAssumption ==
  /\ ~Transcribes
  /\ MaxTries \in Nat /\ MaxLost \in Nat
  /\ SeqOf \in [Chunks -> Seqs] /\ KeyOf \in [Chunks -> Keys]

VARIABLES client,   \* what the client of each chunk is doing
          awaited,  \* the handler it waits for
          tries,    \* requests made for it
          lost

clientVars == <<client, awaited, tries, lost>>
vars == <<ingestVars, clientVars>>

TypeOK ==
  /\ IngestTypeOK
  /\ at \in [Handlers -> {"idle", "mark", "store"} \cup Outcomes]
  /\ client \in [Chunks -> {"sending", "waiting", "told"}]
  /\ \A c \in Chunks : client[c] = "waiting" => awaited[c] \in Handlers
  /\ tries \in [Chunks -> 0..MaxTries]
  /\ lost \in 0..MaxLost

Init ==
  /\ IngestInit
  /\ client = [c \in Chunks |-> "sending"]
  /\ awaited = [c \in Chunks |-> Nothing]
  /\ tries = [c \in Chunks |-> 0]
  /\ lost = 0

-----------------------------------------------------------------------------
Send(c, h) ==
  /\ client[c] = "sending"
  /\ tries[c] < MaxTries
  /\ at[h] = "idle"
  /\ Ingest(h, [chunk |-> c, seq |-> SeqOf[c], key |-> KeyOf[c]])
  /\ client' = [client EXCEPT ![c] = "waiting"]
  /\ awaited' = [awaited EXCEPT ![c] = h]
  /\ tries' = [tries EXCEPT ![c] = @ + 1]
  /\ UNCHANGED <<keys, cache, blobs, queued, limits, lost>>

Awaits(c, h) == client[c] = "waiting" /\ awaited[c] = h

\* Mutant: a duplicate is answered like a failure.
AnswerConflict(h) ==
  /\ at[h] \in Outcomes
  /\ client' = [c \in Chunks |->
                  IF ~Awaits(c, h) THEN client[c]
                  ELSE IF at[h] = "accepted" THEN "told" ELSE "sending"]
  /\ Goto(h, "idle")
  /\ UNCHANGED <<request, keys, cache, blobs, queued, limits, awaited, tries,
                 lost>>

\* The answers 200 and ws.ack, for duplicates too, or 503 and storage_error.
Answer(h) ==
  /\ at[h] \in Outcomes
  /\ client' = [c \in Chunks |->
                  IF ~Awaits(c, h) THEN client[c]
                  ELSE IF at[h] = "failed" THEN "sending" ELSE "told"]
  /\ Goto(h, "idle")
  /\ UNCHANGED <<request, keys, cache, blobs, queued, limits, awaited, tries,
                 lost>>

\* The connection is lost, the handler works on.
GiveUp(c) ==
  /\ client[c] = "waiting"
  /\ lost < MaxLost
  /\ lost' = lost + 1
  /\ client' = [client EXCEPT ![c] = "sending"]
  /\ UNCHANGED <<ingestVars, awaited, tries>>

Crash(h) ==
  /\ Fault
  /\ at[h] # "idle" \/ cache[h] # {}
  /\ Goto(h, "idle")
  /\ cache' = [cache EXCEPT ![h] = {}]
  /\ client' = [c \in Chunks |-> IF Awaits(c, h) THEN "sending" ELSE client[c]]
  /\ UNCHANGED <<request, keys, blobs, queued, outages, awaited, tries, lost>>

Serve(h) == (Advance(h) /\ UNCHANGED clientVars) \/ Answer(h)

Next ==
  \/ \E h \in Handlers : Serve(h) \/ Crash(h) \/ \E c \in Chunks : Send(c, h)
  \/ \E c \in Chunks : GiveUp(c)

Spec == Init /\ [][Next]_vars

\* Handlers run and clients send again.
Fairness ==
  /\ \A h \in Handlers : WF_vars(Serve(h))
  /\ \A c \in Chunks : WF_vars(\E h \in Handlers : Send(c, h))

FairSpec == Spec /\ Fairness

-----------------------------------------------------------------------------
\* A chunk whose client was told that it is accepted is stored, or is being
\* stored by a handler that got the same request before.
AcceptedIsStored ==
  \A c \in Chunks :
    client[c] = "told" =>
      \/ Stored(c)
      \/ \E h \in Handlers : at[h] = "store" /\ request[h].chunk = c

\* The same as long as no step failed and nobody crashed, however often a
\* request is repeated and whether or not Redis is there.
AcceptedIsStoredUnlessFault == faults = 0 => AcceptedIsStored

\* Every client is told in the end, whatever its earlier requests came to.
EventuallyTold == \A c \in Chunks : <>(client[c] = "told")
=============================================================================
