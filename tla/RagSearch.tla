------------------------------ MODULE RagSearch ------------------------------
(***************************************************************************)
(* The computations behind a query of the transcripts                      *)
(* (routers/artifacts.py): lines become chunks, texts become vectors with  *)
(* two caches in between, chunks are scored, sorted and sorted again, and  *)
(* the order is measured.  Texts are represented by what is looked at:     *)
(* the width of a line, a token, a key; scores are percentages.            *)
(***************************************************************************)
EXTENDS Integers, FiniteSets, Sequences, SequencesExt, FiniteSetsExt, Functions

Least(a, b) == IF a < b THEN a ELSE b

Most(a, b) == IF a > b THEN a ELSE b

-----------------------------------------------------------------------------
(* Chunks of lines: at most maxLines of them and maxChars characters, except *)
(* that a first line always fits.                                            *)

\* Mutant: the overlap makes chunks start later.
StepOver(maxLines, overlap) == Most(1, maxLines + overlap)

Step(maxLines, overlap) == Most(1, maxLines - overlap)

\* Characters of lines i to j, with the newlines between them.
Width(widths, i, j) == FoldLeft(+, 0, SubSeq(widths, i, j)) + (j - i)

ChunkEnd(widths, i, maxLines, maxChars) ==
  Max({j \in i..Len(widths) :
         j - i < maxLines /\ (j = i \/ Width(widths, i, j) <= maxChars)})

\* Speakers of lines i to j, in the order they are heard first.
Speakers(speakers, i, j) ==
  FoldLeft(LAMBDA out, k : IF speakers[k] = "" \/ speakers[k] \in ToSet(out)
                           THEN out ELSE Append(out, speakers[k]),
           <<>>, [k \in 1..(j - i + 1) |-> i + k - 1])

\* _rag_chunk_line_items
Chunks(widths, speakers, maxLines, overlap, maxChars) ==
  LET step == Step(maxLines, overlap)
      first(n) == 1 + (n - 1) * step
      last(n) == ChunkEnd(widths, first(n), maxLines, maxChars)
  IN  [n \in 1..((Len(widths) + step - 1) \div step) |->
         [first |-> first(n), last |-> last(n),
          speakers |-> Speakers(speakers, first(n), last(n))]]

-----------------------------------------------------------------------------
(* Vectors.  A text is its cache key; the vector a provider makes of it is   *)
(* the key itself, which tells vectors of different texts apart.             *)

\* Keys that are not in memory, each once, in the order of the texts.
Missing(mem, texts) ==
  FoldLeft(LAMBDA out, t : IF t \in ToSet(mem) \cup ToSet(out)
                           THEN out ELSE Append(out, t), <<>>, texts)

\* The memory keeps the newest `limit` keys; nothing is kept when it is off.
Remember(mem, keys, limit) ==
  LET all == mem \o SelectSeq(keys, LAMBDA k : k \notin ToSet(mem))
  IN  IF limit <= 0 THEN mem
      ELSE SubSeq(all, Most(1, Len(all) - limit + 1), Len(all))

\* What the provider returns, batch by batch.
Batched(texts, size) ==
  LET batches == (Len(texts) + size - 1) \div size IN
  FlattenSeq([b \in 1..batches |->
                SubSeq(texts, (b - 1) * size + 1, Least(b * size, Len(texts)))])

\* Memory as it was found, then disk, then what was computed.
VectorOf(t, before, after, onDisk, asked, vectors) ==
  IF t \in ToSet(before) \/ t \in onDisk THEN t
  ELSE vectors[CHOOSE n \in DOMAIN asked : asked[n] = t]

\* _rag_embed_texts
EmbedTexts(mem, disk, texts, limit, size) ==
  LET missing == Missing(mem, texts)
      onDisk  == SelectSeq(missing, LAMBDA k : k \in disk)
      asked   == SelectSeq(missing, LAMBDA k : k \notin disk)
      vectors == Batched(asked, size)
      warm    == Remember(mem, onDisk, limit)
      after   == Remember(warm, asked, limit)
  IN  [rows  |-> [i \in DOMAIN texts |->
                    VectorOf(texts[i], mem, after, ToSet(onDisk), asked, vectors)],
       asked |-> asked, mem |-> after, disk |-> disk \cup ToSet(asked)]

-----------------------------------------------------------------------------
(* Scores of one chunk. *)

\* How many of the terms are met in their order.
OrderedMatch(tokens, terms) ==
  FoldLeft(LAMBDA n, t : IF n < Len(terms) /\ t = terms[n + 1] THEN n + 1 ELSE n,
           0, tokens)

\* The window loses tokens on its left until it lacks one of the terms; the last
\* window that had all is the shortest.
Narrow(w, tokens, needed, right) ==
  LET has(left) == needed \cap {tokens[i] : i \in left..right}
      left == Min({right + 1} \cup {l \in w.left..right : has(l) # needed})
  IN  IF w.have # needed \/ w.left > right THEN w
      ELSE [left |-> left, have |-> has(left), best |-> Least(w.best, right - left + 2)]

\* _rag_min_cover_span_ratio: the shortest run of tokens that has all terms, or
\* `none` if there is none.
CoverSpan(tokens, terms, none) ==
  FoldLeft(LAMBDA w, right :
             LET needed == ToSet(terms)
                 have == w.have \cup (needed \cap {tokens[right]})
             IN  Narrow([w EXCEPT !.have = have], tokens, needed, right),
           [left |-> 1, have |-> {}, best |-> none],
           [i \in DOMAIN tokens |-> i]).best

-----------------------------------------------------------------------------
(* The order of chunks.  A row is a chunk with its scores.                   *)

\* Rows by decreasing score; equal ones stay as they were, as list.sort does.
ByScore(rows, Score(_)) ==
  LET place(i) == Cardinality({j \in DOMAIN rows :
                    \/ Score(rows[j]) > Score(rows[i])
                    \/ Score(rows[j]) = Score(rows[i]) /\ j <= i})
  IN  [p \in DOMAIN rows |-> rows[CHOOSE i \in DOMAIN rows : place(i) = p]]

\* _rag_hybrid_weights, with the settings' defaults.
Weights(vectors) == IF vectors THEN [kw |-> 60, vec |-> 40] ELSE [kw |-> 100, vec |-> 0]

\* Scores are taken relative to the highest; both may be zero.
Relative(score, highest) == IF highest > 0 THEN (100 * score) \div highest ELSE 0
Highest(rows, Score(_)) == Max({0} \cup {Score(rows[i]) : i \in DOMAIN rows})

BaseScore(row, highKw, highSem) ==
  LET weights == Weights(highSem > 0)
  IN  weights.kw * Relative(row.kw, highKw) + weights.vec * Relative(row.sem, highSem)
        + (IF row.phrase THEN 300 ELSE 0) + Least(200, 2 * row.sem)

\* _rag_apply_reranker: alpha is 35 %, coverage, phrase and vectors count 65:25:10.
Reranked(rows, topN, highKw, highSem) ==
  LET n == Least(topN, Len(rows))
      again(row) == 65 * BaseScore(row, highKw, highSem)
                    + 35 * (65 * row.cover + (IF row.phrase THEN 2500 ELSE 0)
                            + 10 * Relative(row.sem, highSem))
  IN  IF n <= 1 THEN rows
      ELSE ByScore(SubSeq(rows, 1, n), again) \o SubSeq(rows, n + 1, Len(rows))

\* The ranking in _rag_rank_hits: a chunk with neither kind of score is left out.
Ranked(chunks, topN) ==
  LET found == SelectSeq(chunks, LAMBDA c : c.kw > 0 \/ c.sem > 0)
      highKw == Highest(found, LAMBDA c : c.kw)
      highSem == Highest(found, LAMBDA c : c.sem)
  IN  Reranked(ByScore(found, LAMBDA c : BaseScore(c, highKw, highSem)),
               topN, highKw, highSem)

Hits(ranked, topK) == SubSeq(ranked, 1, Least(Len(ranked), Most(1, Least(topK, 50))))

-----------------------------------------------------------------------------
(* How good the order is. *)

\* _rag_relevance_grade
Grade(row) == IF row.cover >= 95 THEN 3 ELSE IF row.cover >= 60 THEN 2
              ELSE IF row.cover >= 35 THEN 1 ELSE 0

\* 1000 / log2(place + 1), rounded.
Discount == <<1000, 631, 500, 431, 387>>
Gain(grades) ==
  FoldLeft(LAMBDA sum, i : sum + (2 ^ grades[i] - 1) * Discount[i],
           0, [i \in DOMAIN grades |-> i])

Ideal(grades, k) == SubSeq(ByScore(grades, LAMBDA g : g), 1, k)

\* _rag_compute_retrieval_metrics: fractions, each as numerator and denominator.
Metrics(rows, topK) ==
  LET grades == [i \in DOMAIN rows |-> Grade(rows[i])]
      relevant == {i \in DOMAIN rows : grades[i] > 0}
      k == Most(1, Least(topK, Len(rows)))
  IN  IF relevant = {} THEN [recall |-> <<0, 1>>, mrr |-> <<0, 1>>, ndcg |-> <<0, 1>>]
      ELSE [recall |-> <<Cardinality({i \in relevant : i <= k}), Cardinality(relevant)>>,
            mrr    |-> <<1, Min(relevant)>>,
            ndcg   |-> <<Gain(SubSeq(grades, 1, k)), Gain(Ideal(grades, k))>>]
=============================================================================
