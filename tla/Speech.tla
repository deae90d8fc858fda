-------------------------------- MODULE Speech --------------------------------
(***************************************************************************)
(* What is done to the words of a transcript: who speaks is inferred from  *)
(* what is said (processing/speaker_rules.py), the language model cleans   *)
(* lines chunk by chunk (processing/enhancer.py), and the share of wrong   *)
(* words is counted (processing/wer.py).  Pure functions.                  *)
(*                                                                         *)
(* A segment is its number and what the patterns find in it: somebody      *)
(* introducing himself, the host's phrase, a name called, and a word: of   *)
(* standing in for somebody, of absence or of going on.                    *)
(***************************************************************************)
EXTENDS Integers, FiniteSets, SequencesExt, FiniteSetsExt

CONSTANT Nobody

-----------------------------------------------------------------------------
(* infer_speakers *)

Silent == [speaker |-> Nobody, to |-> Nobody, proxy |-> Nobody, by |-> "none"]
NoCall == [name |-> Nobody, until |-> 0]

Host(st, x) == IF x.intro # Nobody THEN x.intro ELSE st.host

\* A name the host calls, other than his own, is expected to answer.
Called(host, x) ==
  IF host # Nobody /\ x.call \notin {Nobody, host} THEN x.call ELSE Nobody

Pending(st, x, window) ==
  LET name == Called(Host(st, x), x) IN
  IF name = Nobody THEN st.call ELSE [name |-> name, until |-> x.no + Max({1, window})]

\* Who speaks by introducing himself, leading the meeting or calling somebody.
Known(host, x) ==
  IF x.intro # Nobody \/ (host # Nobody /\ x.leads) \/ Called(host, x) # Nobody
    THEN host ELSE Nobody

InTime(x, call) == x.no <= call.until

Answered(speaker, proxy, by) == [speaker |-> speaker, proxy |-> proxy, by |-> by]

\* The call that is left when a segment has been heard.
Left(call, answer) == IF answer.by = "none" THEN call ELSE NoCall

\* What the segment says to the call: somebody stands in, or it is dropped, or
\* the one called answers in time.
Reply(x, host, call) ==
  LET known == Known(host, x) IN
  CASE call = NoCall -> Answered(known, Nobody, "none")
    [] call # NoCall /\ x.word = "proxy" -> Answered(<<"proxy_for", call.name>>, call.name, "proxy")
    [] call # NoCall /\ x.word \in {"absent", "skip"} ->
         Answered(IF host # Nobody THEN host ELSE known,
                  IF x.word = "absent" THEN call.name ELSE Nobody, "dropped")
    [] OTHER -> IF InTime(x, call) /\ known = Nobody
                THEN Answered(call.name, Nobody, "answer")
                ELSE Answered(known, Nobody, "none")

\* A segment without text decides nothing.
Hear(st, x, window) ==
  IF x.empty THEN [st EXCEPT !.out = Append(@, Silent)]
  ELSE LET host == Host(st, x)
           call == Pending(st, x, window)
           reply == Reply(x, host, call) IN
       [host |-> host, call |-> Left(call, reply),
        out |-> Append(st.out, [speaker |-> reply.speaker, to |-> Called(host, x),
                                proxy |-> reply.proxy, by |-> reply.by])]

InferSpeakers(segments, window) ==
  FoldLeft(LAMBDA st, x : Hear(st, x, window),
           [host |-> Nobody, call |-> NoCall, out |-> <<>>], segments).out

-----------------------------------------------------------------------------
(* The language model cleans the transcript. *)

\* A line is [id, width, by]; a fold over the lines: chunks and the width of the
\* last one.
Pack(lines, limit) ==
  FoldLeft(LAMBDA acc, line :
      IF acc.chunks # <<>> /\ acc.width + line.width + 1 <= limit
        THEN [chunks |-> [acc.chunks EXCEPT ![Len(acc.chunks)] = Append(@, line)],
              width |-> acc.width + line.width + 1]
        ELSE [chunks |-> Append(acc.chunks, <<line>>), width |-> line.width],
    [chunks |-> <<>>, width |-> 0], lines).chunks

\* _split_text_for_llm; the least limit, 600, is a parameter.
Split(lines, limit, least) == Pack(lines, Max({least, limit}))

By(chunk, who) == [i \in DOMAIN chunk |-> [chunk[i] EXCEPT !.by = who]]

\* A chunk is the model's if it answers (line by line, as it is told to), and
\* stays as it is if it fails or answers nothing.
CleanedChunk(chunk, answer) ==
  IF answer = "ok" THEN By(chunk, "model") ELSE chunk

\* cleanup_transcript_with_llm: answers by chunk, none if the model is off.
Cleaned(lines, limit, least, answers) ==
  IF answers = <<>> THEN lines
  ELSE LET chunks == Split(lines, limit, least) IN
       FlattenSeq([i \in DOMAIN chunks |-> CleanedChunk(chunks[i], answers[i])])

-----------------------------------------------------------------------------
(* word_error_rate *)

Cheapest(left, above, diagonal, same) ==
  Min({above + 1, left + 1, diagonal + IF same THEN 0 ELSE 1})

\* A row of the table from the row above it; entry j + 1 is for j words.
NextRow(prev, word, hyp) ==
  FoldLeft(LAMBDA row, j :
      Append(row, Cheapest(row[j], prev[j + 1], prev[j], word = hyp[j])),
    <<prev[1] + 1>>, [j \in DOMAIN hyp |-> j])

\* _levenshtein_distance
Distance(ref, hyp) ==
  LET last == FoldLeft(LAMBDA row, word : NextRow(row, word, hyp),
                       [j \in 1 .. Len(hyp) + 1 |-> j - 1], ref) IN
  last[Len(hyp) + 1]

\* As numerator and denominator.
WordErrorRate(ref, hyp) ==
  CASE ref # <<>> -> <<Distance(ref, hyp), Len(ref)>>
    [] ref = <<>> -> <<IF hyp = <<>> THEN 0 ELSE 1, 1>>

-----------------------------------------------------------------------------
(* Properties. *)

\* Somebody is taken for the speaker because he was called only once for each
\* call, after it and in time, and nobody stands in for one who was not called.
OneReply(segments, window) ==
  LET out == InferSpeakers(segments, window)
      Open(i) == {j \in 1..i : out[j].to # Nobody /\
                    \A k \in j .. i - 1 : out[k].by = "none"} IN
  \A i \in DOMAIN out : out[i].by # "none" =>
    \E j \in Open(i) :
      /\ \A k \in j + 1 .. i : out[k].to = Nobody
      /\ out[i].by = "proxy" => out[i].proxy = out[j].to
      /\ out[i].by = "answer" =>
           /\ out[i].speaker = out[j].to /\ j < i
           /\ segments[i].no - segments[j].no <= Max({1, window})

\* Cleaning keeps every line in its order, however the lines fall into chunks
\* and whichever of them fail; a chunk is not longer than the limit unless it is
\* a single line.
NoLineLost(lines, limit, least, answers) ==
  LET chunks == Split(lines, limit, least)
      cleaned == Cleaned(lines, limit, least, answers)
      Width(c) == FoldLeft(LAMBDA n, l : n + l.width, Len(c) - 1, c) IN
  /\ [i \in DOMAIN cleaned |-> cleaned[i].id] = [i \in DOMAIN lines |-> lines[i].id]
  /\ \A i \in DOMAIN chunks :
       chunks[i] # <<>> /\ (Len(chunks[i]) = 1 \/ Width(chunks[i]) <= Max({least, limit}))

\* The distance is the least number of words changed, left out or put in: the
\* best of all ways to match words of the one to words of the other in order.
LeastEdits(ref, hyp) ==
  LET ways == {m \in SUBSET ((DOMAIN ref) \X (DOMAIN hyp)) :
        \A p, q \in m : p = q \/ (p[1] < q[1] /\ p[2] < q[2]) \/ (q[1] < p[1] /\ q[2] < p[2])}
      Cost(m) == Len(ref) + Len(hyp) - 2 * Cardinality(m)
                   + Cardinality({p \in m : ref[p[1]] # hyp[p[2]]}) IN
  Distance(ref, hyp) = Min({Cost(m) : m \in ways})
=============================================================================
