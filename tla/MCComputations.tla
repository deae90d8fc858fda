----------------------------- MODULE MCComputations -----------------------------
(***************************************************************************)
(* The pure functions of the program on all inputs of a small set: a state *)
(* is one input, tagged with the computation it is for, and each property  *)
(* says of one computation what its result means.                          *)
(***************************************************************************)
EXTENDS Access, Integers, Sequences

CONSTANTS Absent, Blank, Unknown, Nobody, Unset

Search == INSTANCE RagSearch
Reporting == INSTANCE Reports WITH Absent <- Absent
Table  == INSTANCE Tables WITH Absent <- Absent, Blank <- Blank, Unknown <- Unknown
Speech == INSTANCE Speech WITH Nobody <- Nobody
Alert  == INSTANCE AlertRelay WITH NoUrl <- Unset
Model  == INSTANCE Providers WITH Unset <- Unset

VARIABLE input

\* Sequences over a set, up to a length.
UpTo(S, n) == UNION {[1..k -> S] : k \in 0..n}

-----------------------------------------------------------------------------
(* Inputs of the search: widths of lines, keys of texts, tokens, rows. *)

Words == {"a", "b", "c"}
TermLists == {<<"a">>, <<"a", "b">>, <<"b", "a", "c">>}

Rows == [kw : {0, 5}, sem : {0, 40}, phrase : {FALSE}, cover : {0, 50, 100}]
          \cup [kw : {3}, sem : {0}, phrase : {TRUE}, cover : {100}]

SearchInputs ==
  \/ \E w \in UpTo({1, 4}, 4) : input = [of |-> "lines", widths |-> w]
  \/ \E texts \in UpTo(Words, 3) : input = [of |-> "texts", texts |-> texts]
  \/ \E tokens \in UpTo(Words, 5) : input = [of |-> "tokens", tokens |-> tokens]
  \/ \E a, b, c \in Rows : input = [of |-> "rows", rows |-> <<a, b, c>>]

-----------------------------------------------------------------------------
(* Inputs of the reports: at and around the limits of the transcript's quality, *)
(* scores and confidences in and out of range.                                  *)

Transcripts == [chars : {179, 180, 900}, lines : {3, 14}, turns : {1, 6}]

Items == [dim : {"technical_depth", "ownership"}, score : {Absent, 0, 9}]
           \cup [dim : {"charm"}, score : {3}]

Answers == [status : {"yes", "maybe"}, words : {{}, {"hire"}, {"lean no"}},
            confidence : {Absent, 20, 150}, scorecard : UpTo(Items, 2)]

Interview(comparable, overall, status, created, interviewer, loads) ==
  [report |-> [comparable |-> comparable, overall |-> overall, confidence |-> 40,
               status |-> status],
   created |-> created, interviewer |-> interviewer, vacancy |-> "v", loads |-> loads]

Interviews ==
  {Interview(x[1], x[2], x[3], created, who, TRUE) :
     x \in {<<TRUE, 250, "yes">>, <<TRUE, 400, "no">>, <<FALSE, 400, "insufficient_data">>},
     created \in {5, 10}, who \in {"ann", "bob"}}
  \cup {Interview(TRUE, 300, "yes", 5, "ann", FALSE)}

Filters == [from : {Absent, 1, 2}, to : {Absent, 1, 2}, vacancy : {Absent},
            interviewer : {Absent, "ann"}, ratio : {0, 60}, interviews : {1, 2}]

ReportInputs ==
  \/ \E t \in Transcripts, level \in Reporting!Levels, data \in Answers \cup {Absent} :
       input = [of |-> "report", t |-> t, level |-> level, data |-> data]
  \/ \E meetings \in UpTo(Interviews, 3) : input = [of |-> "meetings", meetings |-> meetings]

-----------------------------------------------------------------------------
(* Inputs of the tables: rows with people and dates that are and are not in the *)
(* transcript.                                                                  *)

TableRows == [topic : {Blank, "topic"}, decision : {Blank, "agreed"}, action : {Blank},
              owner : {{}, {"ann"}, {"zed"}}, due : {Blank, "monday", "friday"},
              risk : {Blank}, status : {Blank, "done"}]

Columns == {<<"decision", "owner">>, <<"due", "owner", "salary">>, <<"decision", "due">>}

Unit(kinds, text, speaker) == [kinds |-> kinds, text |-> text, speaker |-> speaker]

Sources == [speakers : {{}, {"ann"}}, dates : {{}, {"monday"}},
            units : {<<>>, <<Unit({"decision"}, "u1", {"ann"}), Unit({"action"}, "u2", {"zed"})>>}]

Lines == [speaker : {"ann"}, text : {"x", "y"}, chars : {10, 38, 48}]

TableInputs ==
  \/ \E rows \in UpTo(TableRows \cup {Absent}, 2), columns \in Columns, t \in Sources :
       input = [of |-> "table", rows |-> rows, columns |-> columns, t |-> t]
  \/ \E lines \in UpTo(Lines, 3), answer \in {Absent, <<>>, <<[text |-> "z"]>>} :
       input = [of |-> "structured", lines |-> lines, answer |-> answer]

-----------------------------------------------------------------------------
(* Inputs of the speech rules: what a segment may say, numbers with and without *)
(* gaps; lines as long as, shorter and longer than a chunk; words.              *)

Heard(empty, intro, leads, call, word) ==
  [empty |-> empty, intro |-> intro, leads |-> leads, call |-> call, word |-> word]

Said == {Heard(FALSE, Nobody, FALSE, Nobody, "none"), Heard(TRUE, Nobody, FALSE, Nobody, "none"),
         Heard(FALSE, "host", FALSE, Nobody, "none"), Heard(FALSE, Nobody, TRUE, Nobody, "none"),
         Heard(FALSE, Nobody, FALSE, "ann", "none"), Heard(FALSE, Nobody, FALSE, "bob", "none"),
         Heard(FALSE, Nobody, FALSE, Nobody, "proxy"), Heard(FALSE, Nobody, FALSE, Nobody, "absent"),
         Heard(FALSE, Nobody, FALSE, "ann", "skip")}

Numbered(said, gap) ==
  [i \in DOMAIN said |-> [no |-> gap * i, empty |-> said[i].empty, intro |-> said[i].intro,
                          leads |-> said[i].leads, call |-> said[i].call, word |-> said[i].word]]

SpeechInputs ==
  \/ \E said \in UpTo(Said, 4), gap \in {1, 2}, window \in {1, 2} :
       input = [of |-> "speech", segments |-> Numbered(said, gap), window |-> window]
  \/ \E widths \in UpTo({1, 3, 6}, 4), limit \in {1, 6, 9},
        answers \in [1..4 -> {"ok", "fails"}] \cup {<<>>} :
       input = [of |-> "cleanup", limit |-> limit, answers |-> answers,
                lines |-> [i \in DOMAIN widths |-> [id |-> i, width |-> widths[i], by |-> "recogniser"]]]
  \/ \E ref, hyp \in UpTo({"a", "b"}, 3) : input = [of |-> "words", ref |-> ref, hyp |-> hyp]

-----------------------------------------------------------------------------
(* Inputs of the calls to other services: addresses and what they answer; old *)
(* and new settings, set and not.                                             *)

AlertInputs ==
  \E target, shadow \in {"url1", "url2", Unset}, retries \in 0..2, tell \in BOOLEAN,
     seen \in [{"url1", "url2"} -> [1..3 -> Alert!Outcomes]] :
    /\ \A k \in 1..3 : target # "url2" /\ shadow # "url2" => seen["url2"][k] = "ok"
    /\ input = [of |-> "alert", target |-> target, shadow |-> shadow, retries |-> retries,
                tell |-> tell, seen |-> seen]

SettingInputs ==
  \E llm \in {Unset, "mock", "openai", "anthropic", "something"},
     base, oldBase, key, oldKey, model, embeddingBase, embeddingKey \in {Unset, "set"},
     embedding \in {Unset, "gemini", "something"}, rag \in {Unset, "hashing", "gemini"} :
    input = [of |-> "settings",
             s |-> [llm |-> llm, base |-> base, oldBase |-> oldBase, key |-> key,
                    oldKey |-> oldKey, model |-> model, embedding |-> embedding,
                    rag |-> rag, embeddingBase |-> embeddingBase,
                    embeddingKey |-> embeddingKey]]

-----------------------------------------------------------------------------
(* Inputs of the access rules.  Two sets of settings: those that matter for *)
(* tenants and those that matter for starting in production.                    *)

Plain == [prod |-> TRUE, mode |-> "jwt", apiKeys |-> {}, serviceKeys |-> {},
          issuer |-> FALSE, jwks |-> FALSE, secret |-> TRUE, keyFallback |-> FALSE,
          marks |-> {"claim"}, permissionClaim |-> TRUE, tenancy |-> TRUE,
          tenantClaim |-> TRUE, requireJwt |-> TRUE, failFast |-> TRUE,
          provider |-> "other", base |-> "https", requireHttps |-> TRUE,
          baseToken |-> TRUE, sharedFs |-> TRUE, requireShared |-> TRUE,
          corsWildcard |-> FALSE, probe |-> TRUE, probeFails |-> TRUE]

Modes == {"none", "api_key", "jwt", "unknown"}

TenantInputs ==
  \E prod, fallback \in BOOLEAN, mode \in Modes, keys, serviceKeys \in SUBSET Keys,
     marks \in SUBSET Marks, creator \in Calls, given \in Tenants \cup {None} :
    input = [of |-> "tenants", creator |-> creator, given |-> given,
             s |-> [Plain EXCEPT !.prod = prod, !.keyFallback = fallback, !.mode = mode,
                       !.apiKeys = keys, !.serviceKeys = serviceKeys, !.marks = marks]]

StartInputs ==
  \E mode \in Modes, keys, serviceKeys \in SUBSET Keys,
     issuer, secret, fallback, tenancy, permissions, healthy \in BOOLEAN,
     provider \in {"other", "sberjazz"}, base \in {"http", "https"} :
    input = [of |-> "start", healthy |-> healthy,
             s |-> [Plain EXCEPT !.mode = mode, !.apiKeys = keys, !.serviceKeys = serviceKeys,
                       !.issuer = issuer, !.secret = secret, !.keyFallback = fallback,
                       !.tenancy = tenancy, !.permissionClaim = permissions,
                       !.provider = provider, !.base = base]]

-----------------------------------------------------------------------------

InputInit ==
  \/ SearchInputs \/ ReportInputs \/ TableInputs \/ SpeechInputs
  \/ AlertInputs \/ SettingInputs \/ TenantInputs \/ StartInputs

InputNext == UNCHANGED input

InputSpec == InputInit /\ [][InputNext]_input

-----------------------------------------------------------------------------
(* Properties. *)

\* Every line of a transcript is in a chunk, as long as the lines up to the next
\* chunk fit into one; and every text gets its own vector, though the memory may
\* hold fewer than the texts of a call, with none computed twice.
SearchFindsAll ==
  /\ input.of = "lines" =>
       LET w == input.widths IN
       \A lines \in 1..3, overlap \in 0..3, chars \in {1, 5, 9} :
         LET step == Search!Step(lines, overlap)
             chunks == Search!Chunks(w, [i \in DOMAIN w |-> ""], lines, overlap, chars) IN
         (\A i \in DOMAIN w : LET j == Search!Least(Len(w), i + step - 1) IN
                              i < j => Search!Width(w, i, j) <= chars)
           => \A i \in DOMAIN w : \E n \in DOMAIN chunks : chunks[n].first <= i /\ i <= chunks[n].last
  /\ input.of = "texts" =>
       \A limit \in 0..2, size \in 1..2, disk \in SUBSET Words :
         \A mem \in {s \in UpTo(Words, limit) : Search!IsInjective(s)} :
           LET r == Search!EmbedTexts(mem, disk, input.texts, limit, size) IN
           /\ r.rows = input.texts /\ Search!IsInjective(r.asked)
           /\ Search!ToSet(r.asked) \cap (Search!ToSet(mem) \cup disk) = {}
           /\ Len(r.mem) <= limit /\ Search!IsInjective(r.mem)

\* The two measures of how a chunk's tokens match the terms are what they are
\* called: the shortest run with all terms, and the most terms in order.
MatchesAreBest ==
  input.of = "tokens" => \A terms \in TermLists :
    LET tokens == input.tokens
        Covers(i, j) == Search!ToSet(terms) \subseteq {tokens[x] : x \in i..j}
        spans == {n \in 1..Len(tokens) :
                    \E i \in DOMAIN tokens : i + n - 1 <= Len(tokens) /\ Covers(i, i + n - 1)}
        InOrder(k) == \E f \in [1..k -> DOMAIN tokens] :
                        /\ \A x \in 1..k : tokens[f[x]] = terms[x]
                        /\ \A x \in 1 .. k - 1 : f[x] < f[x + 1] IN
    /\ Search!CoverSpan(tokens, terms, 99) = Search!Min({99} \cup spans)
    /\ Search!OrderedMatch(tokens, terms) = Search!Max({k \in 0..Len(terms) : InOrder(k)})

\* Recall is whole exactly when every relevant chunk is a hit, the gain is whole
\* exactly when no chunk below the hits is more relevant, and no measure is more
\* than whole.
MeasuresMeanIt ==
  input.of = "rows" => \A topN \in {1, 3}, topK \in 1..3 :
    LET ranked == Search!Ranked(input.rows, topN)
        grades == [i \in DOMAIN ranked |-> Search!Grade(ranked[i])]
        hits == DOMAIN Search!Hits(ranked, topK)
        x == Search!Metrics(ranked, topK)
        best == \A i \in hits, j \in DOMAIN ranked : i < j => grades[i] >= grades[j] IN
    (\E i \in DOMAIN ranked : grades[i] > 0) =>
      /\ \A v \in {x.recall, x.mrr, x.ndcg} : v[1] <= v[2]
      /\ (x.recall[1] = x.recall[2]) <=> (\A i \in DOMAIN ranked : grades[i] > 0 => i \in hits)
      /\ (x.ndcg[1] = x.ndcg[2]) <=> best

\* The search finds every line, and ranks and measures what it finds.
SearchHolds == SearchFindsAll /\ MatchesAreBest /\ MeasuresMeanIt

\* A report is sound whatever the model answers (Reports!Sound), and meetings and
\* interviewers are compared by their reports fairly (FairOrder, FairRows).
ReportsAreFair ==
  /\ input.of = "report" => Reporting!Sound(Reporting!BuildReport(input.t, input.level, input.data))
  /\ input.of = "meetings" =>
       /\ Reporting!FairOrder(input.meetings)
       /\ \A f \in Filters : Reporting!FairRows(input.meetings, f)

\* What is made of a transcript is true to it: no table has an owner or a date
\* the model invented, and a structured file has a row for each line when the
\* model gives none (Tables); a speaker is inferred from a call only once and in
\* time, cleaning loses no line, and the word error rate counts the fewest edits
\* (Speech).
TrueToTranscript ==
  /\ input.of = "table" => Table!NothingInvented(input.rows, input.columns, input.t)
  /\ input.of = "structured" => Table!RowsForLines(input.lines, input.answer)
  /\ input.of = "speech" => Speech!OneReply(input.segments, input.window)
  /\ input.of = "cleanup" => Speech!NoLineLost(input.lines, input.limit, 4, input.answers)
  /\ input.of = "words" => Speech!LeastEdits(input.ref, input.hyp)

\* What is computed of the meetings and their transcripts is fair and true.
ComputedIsTrue == ReportsAreFair /\ TrueToTranscript

\* An alert reaches every address that takes it within the retries, once
\* (AlertRelay!Delivered); embeddings have an address when their provider is
\* taken from the language model's settings (Providers!TakenHasAddress).
OthersAreReached ==
  /\ input.of = "alert" =>
       Alert!Delivered(input.target, input.shadow, input.seen, input.retries, input.tell)
  /\ input.of = "settings" => Model!TakenHasAddress(input.s)

\* A meeting is used with tokens of its tenant only (Access!SameTenant).
TenantsApart ==
  input.of = "tenants" =>
    \A other \in Calls : SameTenant(input.s, input.creator, input.given, other)

\* A service that starts in production asks for tokens (Access!TokensOnly).
ReadyMeansToken ==
  input.of = "start" => \A call \in Calls, required \in SUBSET Scopes :
    TokensOnly(input.s, input.healthy, call, required)

\* The two rules of access: tenants are apart, and what starts in production asks
\* for tokens.
AccessHolds == TenantsApart /\ ReadyMeansToken
=============================================================================
