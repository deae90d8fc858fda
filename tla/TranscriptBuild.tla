---------------------------- MODULE TranscriptBuild ----------------------------
(***************************************************************************)
(* The transcript of a meeting, built on demand (routers/artifacts.py,     *)
(* services/local_pipeline.py, services/audio_artifact_service.py).        *)
(*                                                                         *)
(* The live audio leaves a row per chunk; a client also uploads the whole  *)
(* recording and finishes the meeting, in any order.  A request for the    *)
(* texts runs in a thread of its own: under the meeting's lock it makes    *)
(* the rows ready, from the recording if there is one, and then, without   *)
(* the lock, turns the rows into files.                                    *)
(*                                                                         *)
(* The meeting consists of the utterances 0 .. N - 1.  Chunk c of the live *)
(* audio carries utterance c; a recording, or a part of it, carries the    *)
(* first n, and is represented by n.  A text is a sequence of utterances;  *)
(* wording, speakers and times are left out.  The recogniser repeats what  *)
(* is in the audio or fails.                                               *)
(***************************************************************************)
EXTENDS Naturals, FiniteSets, SequencesExt, FiniteSetsExt

CONSTANTS Builds,      \* requests for the texts
          N,           \* utterances
          Streamed,    \* chunks that reach the server live
          Recorded,    \* whether the recording is uploaded as well
          FirstPlays,  \* whether chunk 0 on its own converts to an mp3
          MaxFailures, \* bound: failures of the recogniser, ffmpeg, the LLM
          MaxAsks,     \* bound: requests made
          NoRow, NoFile

Utterances == 0 .. N - 1
AllSaid == [i \in 1..N |-> i - 1]
First(n) == SubSeq(AllSaid, 1, n)

Seqs == 0..N
Tellings == UNION {[1..n -> Utterances] : n \in 0 .. 2 * N}

ASSUME BuildAssumption ==
  /\ N \in Nat \ {0}
  /\ Streamed \subseteq 0 .. N - 1
  /\ {Recorded, FirstPlays} \subseteq BOOLEAN
  /\ {MaxFailures, MaxAsks} \subseteq Nat
  /\ NoRow \notin Tellings /\ NoFile \notin Tellings

VARIABLES finished,  \* Meeting.finished_at is set
          closing,   \* finish has yet to make the mp3
          got,       \* chunks whose audio is stored and transcribed
          rows,      \* TranscriptSegment by seq: NoRow or a text
          source,    \* uploaded recording: how much of it is on disk
          mp3,       \* meeting_audio.mp3, 0 if missing
          results,   \* raw.txt and clean.txt
          cache,     \* clean_llm.txt and clean_llm.meta.json
          holder,    \* the request in _meeting_transcript_lock, if any
          build,     \* the requests
          used       \* what is used of the bounds; whether a chunk was late, a tail
                     \* was taken of a part of the recording, or one request used
                     \* the cache while another filled it

inputs == <<finished, closing, got, source>>
buildVars == <<inputs, rows, mp3, results, cache, holder, build, used>>

Concat(rs) == FlattenSeq([i \in 1 .. N + 1 |->
                            IF rs[i - 1] = NoRow THEN <<>> ELSE rs[i - 1]])
Present(rs) == {s \in Seqs : rs[s] # NoRow}
Said(rs) == ToSet(Concat(rs))

\* Mutant: the signature is the number of rows.
CountOnly(rs) == <<Cardinality(Present(rs))>>

\* _segment_signature
Signature(rs) == <<Cardinality(Present(rs)),
                   IF Present(rs) = {} THEN 0 ELSE 1 + Max(Present(rs)),
                   Len(Concat(rs))>>

NoSignature == <<>>

Steps == {"idle", "clear", "wait", "listen", "commit", "retell", "recover",
          "read", "tidy", "meta", "row", "clean", "answered"}

BuildTypeOK ==
  /\ {finished, closing} \subseteq BOOLEAN
  /\ got \subseteq Streamed
  /\ rows \in [Seqs -> {NoRow} \cup Tellings]
  /\ {source, mp3} \subseteq 0..N
  /\ \A f \in {"raw", "clean"} : results[f] \in {NoFile} \cup Tellings
  /\ cache.text \in {NoFile} \cup Tellings
  /\ holder \subseteq Builds
  /\ \A r \in Builds : build[r].at \in Steps /\ build[r].said \in Tellings
  /\ used.faults <= MaxFailures /\ used.asks <= MaxAsks

NoRequest == [at |-> "idle", full |-> FALSE, had |-> FALSE, heard |-> 0,
              said |-> <<>>, sig |-> NoSignature, clean |-> <<>>]

BuildInit ==
  /\ finished = FALSE
  /\ closing = FALSE
  /\ got = {}
  /\ rows = [s \in Seqs |-> NoRow]
  /\ source = 0
  /\ mp3 = 0
  /\ results = [raw |-> NoFile, clean |-> NoFile]
  /\ cache = [text |-> NoFile, sig |-> NoSignature]
  /\ holder = {}
  /\ build = [r \in Builds |-> NoRequest]
  /\ used = [faults |-> 0, asks |-> 0, late |-> FALSE, early |-> FALSE, mixed |-> FALSE]

-----------------------------------------------------------------------------
(* The live audio, the upload and the end of the meeting. *)

\* A worker, or the request that brought the chunk, transcribes it: the row is
\* written whether or not the meeting has finished.  Nothing heard: the worker
\* stores an empty row, the request none.
LiveChunk(c) ==
  /\ c \in Streamed \ got
  /\ got' = got \cup {c}
  /\ \E words \in {<<>>, <<c>>} :
       \/ rows' = [rows EXCEPT ![c] = words]
       \/ words = <<>> /\ UNCHANGED rows
  /\ used' = [used EXCEPT !.late = @ \/ finished]
  /\ UNCHANGED <<finished, closing, source, mp3, results, cache, holder, build>>

\* The file grows while it is written.
Upload ==
  /\ Recorded /\ source < N
  /\ source' \in {n \in 1..N : n > source /\ (source > 0 => n = N)}
  /\ UNCHANGED <<finished, closing, got, rows, mp3, results, cache, holder, build, used>>

MayFail == used.faults < MaxFailures
CountFault == used' = [used EXCEPT !.faults = @ + 1]

\* What meeting_audio.mp3 is after materialize_meeting_audio_mp3: the file
\* there was, or the recording as far as it is on disk, or chunk 0.
Materialized ==
  IF mp3 # 0 THEN mp3
  ELSE IF source # 0 THEN source
  ELSE IF FirstPlays /\ 0 \in got THEN 1 ELSE 0

Materialize ==
  \/ mp3' = Materialized /\ UNCHANGED used
  \/ mp3 = 0 /\ MayFail /\ CountFault /\ UNCHANGED mp3

\* The upload makes the mp3 before it answers, once the file is complete.
UploadDone ==
  /\ Recorded /\ source = N /\ mp3 = 0
  /\ Materialize
  /\ UNCHANGED <<inputs, rows, results, cache, holder, build>>

Finish ==
  /\ ~finished
  /\ finished' = TRUE
  /\ closing' = TRUE
  /\ UNCHANGED <<got, source, rows, mp3, results, cache, holder, build, used>>

FinishDone ==
  /\ closing
  /\ closing' = FALSE
  /\ Materialize
  /\ UNCHANGED <<finished, got, source, rows, results, cache, holder, build>>

-----------------------------------------------------------------------------
(* Builds. *)

GoesTo(r, at) == build' = [build EXCEPT ![r].at = at]
Release(r, at) ==
  /\ build' = [build EXCEPT ![r].at = at, ![r].heard = 0, ![r].had = FALSE]
  /\ holder' = {}

AskTexts(r) ==
  /\ build[r].at \in {"idle", "answered"}
  /\ used.asks < MaxAsks
  /\ used' = [used EXCEPT !.asks = @ + 1]
  /\ \E force \in BOOLEAN :
       build' = [build EXCEPT ![r] = [NoRequest EXCEPT
                 !.at = IF force THEN "clear" ELSE "wait"]]
  /\ UNCHANGED <<inputs, rows, mp3, results, cache, holder>>

\* _clear_transcript_cache_artifacts: the lock is not held.
Clear(r) ==
  /\ build[r].at = "clear"
  /\ results' = [results EXCEPT !.raw = NoFile, !.clean = NoFile]
  /\ cache' = [text |-> NoFile, sig |-> NoSignature]
  /\ GoesTo(r, "wait")
  /\ UNCHANGED <<inputs, rows, mp3, holder, used>>

HasText == Said(rows) # {}
NoText == finished /\ results.raw \in {NoFile, <<>>}

\* Mutant: rows of the live audio do.
NeedsNothing == FALSE

NeedsFinalPass == finished /\ results.raw \in {NoFile, <<>>}

\* For the properties: what the request must answer is the whole recording.
Due == NoText /\ (mp3 = N \/ (mp3 = 0 /\ source = N))

\* The rows are ready as they are, or there is nothing to make them of yet.
LookReady(r) ==
  /\ build[r].at = "wait" /\ holder = {}
  /\ IF HasText THEN ~NeedsFinalPass ELSE ~finished
  /\ build' = [build EXCEPT ![r].at = "read", ![r].full = Due]
  /\ UNCHANGED <<inputs, rows, mp3, results, cache, holder, used>>

\* The recording is used if there is one.
LookFinal(r) ==
  /\ build[r].at = "wait" /\ holder = {}
  /\ finished /\ (HasText => NeedsFinalPass)
  /\ holder' = {r}
  /\ build' = [build EXCEPT ![r].at = "listen",
                        ![r].had = HasText, ![r].full = Due]
  /\ UNCHANGED <<inputs, rows, mp3, results, cache, used>>

\* final_pass_from_backup_audio, up to the recogniser's answer.  When the mp3
\* cannot be made the uploaded file itself is read; without any text the
\* rows that were there at Look stay, and if there were none, chunks are tried.
Heard(r, n) ==
  build' = [build EXCEPT ![r].at = "commit", ![r].heard = n] /\ UNCHANGED holder

NotHeard(r) ==
  IF build[r].had THEN Release(r, "read")
                ELSE GoesTo(r, "retell") /\ UNCHANGED holder

Listen(r) ==
  /\ build[r].at = "listen"
  /\ \/ /\ mp3' = Materialized
        /\ IF mp3' = 0 THEN NotHeard(r) ELSE Heard(r, mp3')
        /\ UNCHANGED used
     \/ /\ MayFail /\ CountFault
        /\ mp3' \in {mp3, Materialized}
        /\ NotHeard(r) \/ (mp3' = 0 /\ source > 0 /\ Heard(r, source))
  /\ UNCHANGED <<inputs, rows, results, cache>>

\* A row per sentence, or one for everything, in place of all there were.
Sentences(n) ==
  {[s \in Seqs |-> IF s < n THEN <<s>> ELSE NoRow],
   [s \in Seqs |-> IF s = 0 THEN First(n) ELSE NoRow]}

CommitFinal(r) ==
  /\ build[r].at = "commit"
  /\ rows' \in Sentences(build[r].heard)
  /\ Release(r, "read")
  /\ UNCHANGED <<inputs, mp3, results, cache, used>>

\* retranscribe_meeting_high_quality: the rows whose chunk is stored are heard
\* again; one the recogniser makes nothing of stays as it is.
Retell(r) ==
  /\ build[r].at = "retell"
  /\ \E heard \in SUBSET (Present(rows) \cap got) :
       rows' = [s \in Seqs |-> IF s \in heard THEN <<s>> ELSE rows[s]]
  /\ GoesTo(r, "recover")
  /\ UNCHANGED <<inputs, mp3, results, cache, holder, used>>

\* _extract_missing_tail: what the recording has after the text of the rows.  Where
\* the one does not continue the other it is all of the recording or nothing: that
\* depends on their lengths and on how many words they share, and is nothing if one
\* says all that the other says.
Ends(existing, backup) ==
  {i \in 0 .. Len(backup) : IsSuffix(existing, SubSeq(backup, 1, i))}
Overlaps(existing, backup) ==
  {k \in 1 .. Len(backup) : IsSuffix(SubSeq(backup, 1, k), existing)}
Alike(existing, backup) ==
  \/ ToSet(existing) \subseteq ToSet(backup)
  \/ ToSet(backup) \subseteq ToSet(existing)

MissingTails(existing, backup) ==
  LET known == IF Ends(existing, backup) # {} THEN Ends(existing, backup)
                                              ELSE Overlaps(existing, backup)
  IN IF existing = <<>> THEN {backup}
     ELSE IF known # {} THEN {SubSeq(backup, Max(known) + 1, Len(backup))}
     ELSE {<<>>} \cup {b \in {backup} : ~Alike(existing, b)}

NextSeq == IF Present(rows) = {} THEN 0 ELSE Max(Present(rows)) + 1

\* Mutant: the whole recording is taken for the tail.
RecoverAll(r) ==
  /\ build[r].at = "recover"
  /\ LET n == IF mp3 # 0 THEN mp3 ELSE source IN
     rows' = IF n = 0 THEN rows ELSE [rows EXCEPT ![NextSeq] = First(n)]
  /\ Release(r, "read")
  /\ UNCHANGED <<inputs, mp3, results, cache, used>>

\* recover_transcript_from_backup_audio
Recover(r) ==
  /\ build[r].at = "recover"
  /\ LET n == IF mp3 # 0 THEN mp3 ELSE source IN
     \/ \E tail \in MissingTails(Concat(rows), First(n)) :
          /\ rows' = IF tail = <<>> THEN rows ELSE [rows EXCEPT ![NextSeq] = tail]
          /\ used' = [used EXCEPT !.early = @ \/ (tail # <<>> /\ n < N)]
     \/ /\ n > 0 /\ MayFail /\ CountFault
        /\ UNCHANGED rows
  /\ Release(r, "read")
  /\ UNCHANGED <<inputs, mp3, results, cache>>

-----------------------------------------------------------------------------
(* From the rows to the files: no lock is held. *)

ReadRows(r) ==
  /\ build[r].at = "read"
  /\ build' = [build EXCEPT ![r].at = "tidy",
                        ![r].said = Concat(rows), ![r].sig = Signature(rows)]
  /\ UNCHANGED <<inputs, rows, mp3, results, cache, holder, used>>

\* _maybe_cleanup_clean_transcript_with_cache: the cached text is used if its
\* signature is that of the rows read.
TextCached(r) == cache.sig = build[r].sig /\ cache.text # NoFile

Tidy(r) ==
  /\ build[r].at = "tidy"
  /\ \/ /\ build[r].said = <<>> \/ TextCached(r)
        /\ build' = [build EXCEPT ![r].at = "row", ![r].sig = NoSignature,
              ![r].clean = IF build[r].said = <<>> THEN <<>> ELSE cache.text]
        /\ UNCHANGED cache
     \/ /\ build[r].said # <<>> /\ ~TextCached(r)
        /\ build' = [build EXCEPT ![r].at = "meta", ![r].clean = build[r].said]
        /\ cache' = [cache EXCEPT !.text = build[r].said]
  /\ used' = [used EXCEPT
       !.mixed = @ \/ \E q \in Builds : build[q].at = "meta"]
  /\ UNCHANGED <<inputs, rows, mp3, results, holder>>

WriteMeta(r) ==
  /\ build[r].at = "meta"
  /\ cache' = [cache EXCEPT !.sig = build[r].sig]
  /\ build' = [build EXCEPT ![r].at = "row", ![r].sig = NoSignature]
  /\ UNCHANGED <<inputs, rows, mp3, results, holder, used>>

\* The session commits Meeting.raw_transcript, and the file gets the same text.
WriteRaw(r) ==
  /\ build[r].at = "row"
  /\ results' = [results EXCEPT !.raw = build[r].said]
  /\ GoesTo(r, "clean")
  /\ UNCHANGED <<inputs, rows, mp3, cache, holder, used>>

\* normalized.txt and clean.txt; the answer goes out.
WriteClean(r) ==
  /\ build[r].at = "clean"
  /\ results' = [results EXCEPT !.clean = build[r].clean]
  /\ GoesTo(r, "answered")
  /\ UNCHANGED <<inputs, rows, mp3, cache, holder, used>>

BuildStep(r) ==
  \/ Clear(r) \/ LookReady(r) \/ LookFinal(r) \/ Listen(r) \/ CommitFinal(r)
  \/ Retell(r) \/ Recover(r) \/ ReadRows(r) \/ Tidy(r) \/ WriteMeta(r)
  \/ WriteRaw(r) \/ WriteClean(r)

BuildNext ==
  \/ \E c \in Streamed : LiveChunk(c)
  \/ Upload \/ UploadDone \/ Finish \/ FinishDone
  \/ \E r \in Builds : AskTexts(r) \/ BuildStep(r)

BuildSpec == BuildInit /\ [][BuildNext]_buildVars

\* A thread that has started runs on, and one that waits for the lock gets it
\* when others have it again and again; nobody has to upload, finish or ask.
FairBuildSpec ==
  /\ BuildSpec
  /\ \A r \in Builds :
       SF_buildVars(LookReady(r) \/ LookFinal(r)) /\ WF_buildVars(BuildStep(r))

-----------------------------------------------------------------------------
(* Properties. *)

NoDuplicates(words) == Cardinality(ToSet(words)) = Len(words)

\* Nothing is said twice: rows of the live audio, of single chunks heard again,
\* of the recording's tail and of the final pass never overlap, unless a chunk
\* is transcribed after the end and its row lands among the final pass's, or the
\* tail was taken of a part of the recording, which may repeat what was heard.
SaidOnce == used.late \/ used.early \/ NoDuplicates(Concat(rows))

\* A request that looked after the end, found no text file and had the whole
\* recording, answers with all that was said, in order, whatever the live audio
\* left and whatever other requests and rebuilds do meanwhile; unless the
\* recogniser failed or a chunk was late.
WholeAnswer ==
  \A r \in Builds :
    build[r].at = "answered" /\ build[r].full /\ used.faults = 0 /\ ~used.late
      => build[r].said = AllSaid

\* With the whole recording as the meeting's mp3, nothing that is in the rows
\* is lost again, unless a step failed or a chunk was late.
NothingForgotten ==
  [][mp3 = N /\ used'.faults = 0 /\ ~used'.late
       => Said(rows) \subseteq Said(rows')]_buildVars

\* The clean text of an answer says what its raw text says: a cached one is not
\* taken for other rows, also across rebuilds; unless one uses the cache
\* while another fills it, or a chunk was late or a tail early, whose row can give
\* other rows the same signature.
CleanIsRaw ==
  \A r \in Builds :
    build[r].at = "answered" /\ ~used.late /\ ~used.early /\ ~used.mixed
      => build[r].clean = build[r].said

\* A request that was made is answered: no path keeps the lock.
EventuallyAnswered ==
  \A r \in Builds : build[r].at = "wait" ~> build[r].at = "answered"

\* final_pass_from_backup_audio calls itself a full pass over the recording
\* (its docstring): what it puts in place of the rows says all that they said.
FinalPassIsFull ==
  [][\A r \in Builds : CommitFinal(r) => Said(rows) \subseteq Said(rows')]_buildVars
=============================================================================
