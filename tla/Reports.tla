-------------------------------- MODULE Reports --------------------------------
(***************************************************************************)
(* The report on an interview (processing/analytics.py) and the comparison *)
(* of reports by meeting and by interviewer (routers/artifacts.py).  Pure  *)
(* functions of the transcript's size, the language model's answer and     *)
(* what is known of the meeting.                                           *)
(*                                                                         *)
(* Scores and confidences are hundredths, a share is two numbers.  What    *)
(* the model recommends is represented by the words the code looks for     *)
(* that occur in it; texts and their lengths are left out.                 *)
(***************************************************************************)
EXTENDS Integers, FiniteSets, SequencesExt, FiniteSetsExt

CONSTANT Absent  \* in place of a value that is missing or of the wrong type

Dimensions == {"technical_depth", "problem_solving", "communication", "ownership"}
Levels == {"junior", "middle", "senior"}
Statuses == {"strong_yes", "yes", "lean_yes", "lean_no", "no", "insufficient_data"}

\* LEVEL_WEIGHT_PROFILES, in hundredths
Weight(level, dim) ==
  CASE dim = "technical_depth" -> [junior |-> 25, middle |-> 30, senior |-> 35][level]
    [] dim = "problem_solving" -> [junior |-> 30, middle |-> 30, senior |-> 25][level]
    [] dim = "communication" -> [junior |-> 25, middle |-> 20, senior |-> 15][level]
    [] dim = "ownership" -> [junior |-> 20, middle |-> 20, senior |-> 25][level]

Between(low, x, high) == Max({low, Min({high, x})})

ClampScore(v, default) == Between(1, IF v = Absent THEN default ELSE v, 5)
ClampConfidence(v, default) == Between(0, IF v = Absent THEN default ELSE v, 100)

-----------------------------------------------------------------------------
(* The quality of the transcript: [chars, lines, turns]. *)

Quality(t) ==
  CASE t.chars < 180 \/ t.lines < 4 \/ t.turns < 2 -> "low"
    [] t.chars >= 900 /\ t.lines >= 14 /\ t.turns >= 6 -> "high"
    [] OTHER -> "medium"

Comparable(t) == Quality(t) # "low" /\ t.turns >= 4

-----------------------------------------------------------------------------
(* Scores and the decision. *)

\* _normalize_scorecard: the last item on a dimension counts, others are
\* dropped; a score that is no number leaves the one there was.
Scorecard(items) ==
  FoldLeft(LAMBDA card, item :
             IF item.dim \in Dimensions
               THEN [card EXCEPT ![item.dim] = ClampScore(item.score, @)] ELSE card,
           [dim \in Dimensions |-> 3], items)

\* _weighted_overall_score
Overall(level, card) ==
  Between(100, MapThenSumSet(LAMBDA d : Weight(level, d) * card[d], Dimensions), 500)

\* _decision_from_recommendation: the words are looked for in this order, and
\* "no hire" has "hire" in it.
FromRecommendation(words, quality) ==
  LET Says(these) == words \cap these # {} IN
  IF quality = "low" THEN "insufficient_data"
  ELSE IF Says({"strong yes", "hire"}) THEN "yes"
  ELSE IF Says({"lean yes"}) THEN "lean_yes"
  ELSE IF Says({"lean no"}) THEN "lean_no"
  ELSE IF Says({"reject", "no hire"}) THEN "no"
  ELSE "lean_no"

Status(told, words, quality) ==
  CASE quality = "low" -> "insufficient_data"
    [] quality # "low" /\ told \in Statuses -> told
    [] OTHER -> FromRecommendation(words, quality)

-----------------------------------------------------------------------------
(* The report. *)

Assembled(t, level, status, confidence, card) ==
  [quality |-> Quality(t), comparable |-> Comparable(t), status |-> status,
   confidence |-> confidence, card |-> card, overall |-> Overall(level, card)]

\* _default_report
DefaultReport(t, level) ==
  LET low == Quality(t) = "low" IN
  Assembled(t, level, FromRecommendation({}, Quality(t)), IF low THEN 28 ELSE 42,
            [dim \in Dimensions |-> IF low THEN 2 ELSE 3])

\* _normalize_llm_report
NormalizedReport(t, level, data) ==
  LET low == Quality(t) = "low"
      told == ClampConfidence(data.confidence, IF low THEN 30 ELSE 62) IN
  Assembled(t, level, Status(data.status, data.words, Quality(t)),
            IF low THEN Min({told, 35}) ELSE told, Scorecard(data.scorecard))

\* build_report: no model, a failure or an answer of another type (Absent) is
\* the same.
BuildReport(t, level, data) ==
  IF data = Absent THEN DefaultReport(t, level) ELSE NormalizedReport(t, level, data)

-----------------------------------------------------------------------------
(* Meetings compared. *)

\* _comparison_sort_key
CompareKey(m) ==
  <<IF m.report.comparable THEN 1 ELSE 0, m.report.overall, m.report.confidence, m.created>>

Before(a, b) ==
  \E i \in DOMAIN a : a[i] > b[i] /\ \A j \in 1 .. i - 1 : a[j] = b[j]

\* A stable sort, largest key first.
Insert(s, x, Key(_)) ==
  LET n == Cardinality({i \in DOMAIN s : ~Before(Key(x), Key(s[i]))}) IN
  InsertAt(s, n + 1, x)

SortedBy(s, Key(_)) == FoldLeft(LAMBDA out, x : Insert(out, x, Key), <<>>, s)

\* _build_compare_response: meetings whose report cannot be had are left out.
CompareMeetings(meetings) ==
  SortedBy(SelectSeq(meetings, LAMBDA m : m.loads), CompareKey)

-----------------------------------------------------------------------------
(* Interviewers compared. *)

\* A meeting's time is its day and half of the day: 4 * day + 1 or + 2.
Day(time) == time \div 4

\* _parse_optional_date: where a day begins, and where it ends.
Begin(day) == 4 * day

End(day) == 4 * day + 3

\* The two times are exchanged if they are the wrong way round.
InPeriod(time, from, to) ==
  IF from # Absent /\ to # Absent
    THEN LET ends == {Begin(from), End(to)} IN Min(ends) <= time /\ time <= Max(ends)
    ELSE /\ from # Absent => Begin(from) <= time
         /\ to # Absent => time <= End(to)

\* _matches_optional_filter: a name is found in itself only.
Matches(value, expected) == expected = Absent \/ value = expected

Selected(meetings, f) ==
  SelectSeq(meetings, LAMBDA m :
    /\ InPeriod(m.created, f.from, f.to) /\ m.loads
    /\ Matches(m.vacancy, f.vacancy) /\ Matches(m.interviewer, f.interviewer))

\* Meetings that can be compared count, if there are any.
Scored(items) ==
  LET good == SelectSeq(items, LAMBDA m : m.report.comparable) IN
  IF good = <<>> THEN items ELSE good

\* The mean of the values above zero, as sum and number.
Average(values) ==
  LET positive == SelectSeq(values, LAMBDA v : v > 0) IN
  <<FoldLeft(+, 0, positive), Len(positive)>>

Row(name, items) ==
  LET scored == Scored(items) IN
  [interviewer |-> name, total |-> Len(items),
   comparable |-> Len(SelectSeq(items, LAMBDA m : m.report.comparable)),
   score |-> Average([i \in DOMAIN scored |-> scored[i].report.overall]),
   confidence |-> Average([i \in DOMAIN scored |-> scored[i].report.confidence]),
   decisions |-> [st \in {items[i].report.status : i \in DOMAIN items} |->
     Cardinality({i \in DOMAIN items : items[i].report.status = st})]]

\* _build_compare_interviewers_response, before the rows are sorted
CompareInterviewers(meetings, f) ==
  LET chosen == Selected(meetings, f)
      Of(name) == SelectSeq(chosen, LAMBDA m : m.interviewer = name)
      rows == {Row(name, Of(name)) : name \in {chosen[i].interviewer : i \in DOMAIN chosen}} IN
  {r \in rows : 100 * r.comparable >= f.ratio * r.total /\ r.total >= f.interviews}

-----------------------------------------------------------------------------
(* Properties. *)

\* Whatever the model answers, a report has a score of 1 to 5 in every
\* dimension, its overall score lies between the least and the greatest of
\* them, and a poor transcript is neither decided on nor compared.
Sound(r) ==
  LET scores == {r.card[d] : d \in Dimensions} IN
  /\ DOMAIN r.card = Dimensions /\ scores \subseteq 1..5
  /\ 100 * Min(scores) <= r.overall /\ r.overall <= 100 * Max(scores)
  /\ r.status \in Statuses /\ r.confidence \in 0..100
  /\ r.quality = "low" =>
       r.status = "insufficient_data" /\ r.confidence <= 35 /\ ~r.comparable

\* Comparing meetings loses none that has a report, and one on a poor transcript
\* never comes before one that can be compared.
FairOrder(meetings) ==
  LET ranked == CompareMeetings(meetings) IN
  /\ \A m \in ToSet(meetings) :
       Cardinality({i \in DOMAIN ranked : ranked[i] = m})
         = IF m.loads THEN Cardinality({i \in DOMAIN meetings : meetings[i] = m}) ELSE 0
  /\ \A i, j \in DOMAIN ranked : i < j /\ ranked[j].report.comparable
                                   => ranked[i].report.comparable

\* Every chosen meeting is in the row of one interviewer and under one decision,
\* unless its row is filtered out; an interviewer's average is never better or
\* worse than all the meetings of his that can be compared; and a period has all
\* of its days, the last one included.
FairRows(meetings, f) ==
  LET rows == CompareInterviewers(meetings, f)
      chosen == ToSet(Selected(meetings, f)) IN
  /\ f.ratio = 0 /\ f.interviews = 1 =>
       MapThenSumSet(LAMBDA r : r.total, rows) = Len(Selected(meetings, f))
  /\ \A r \in rows :
       LET own == {m \in chosen : m.interviewer = r.interviewer}
           best == {m \in own : m.report.comparable}
           scores == {m.report.overall : m \in IF best = {} THEN own ELSE best} IN
       /\ r.total = MapThenSumSet(LAMBDA st : r.decisions[st], DOMAIN r.decisions)
       /\ Min(scores) * r.score[2] <= r.score[1]
       /\ r.score[1] <= Max(scores) * r.score[2]
  /\ f.from # Absent /\ f.to # Absent /\ f.from <= f.to =>
       chosen = {m \in ToSet(meetings) :
                   /\ m.loads /\ Day(m.created) \in f.from .. f.to
                   /\ Matches(m.vacancy, f.vacancy) /\ Matches(m.interviewer, f.interviewer)}
=============================================================================
