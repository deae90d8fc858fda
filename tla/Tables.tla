-------------------------------- MODULE Tables --------------------------------
(***************************************************************************)
(* Tables made of a transcript: the table a user asks the language model   *)
(* for (routers/artifacts.py) and the structured rows of a meeting         *)
(* (processing/structured.py).  Pure functions of the model's answer and   *)
(* the transcript.                                                         *)
(*                                                                         *)
(* A text is a value, Blank if it is empty.  Of a transcript matter the    *)
(* speakers named in it, the dates that occur in it and, where the model   *)
(* gives nothing, what is extracted from it: topics, decisions, actions    *)
(* and risks.  An owner is the set of people it names.                     *)
(***************************************************************************)
EXTENDS Naturals, FiniteSets, SequencesExt, FiniteSetsExt

CONSTANTS Blank, Unknown, Absent

Fields == {"topic", "decision", "action", "owner", "due", "risk", "status"}
BlankRow == [topic |-> Blank, decision |-> Blank, action |-> Blank, owner |-> {},
             due |-> Blank, risk |-> Blank, status |-> Blank]

At(s, i) == IF i \in DOMAIN s THEN s[i] ELSE Blank
First(a, b) == IF a # Blank THEN a ELSE b

-----------------------------------------------------------------------------
(* Rows *)

\* _canonical_rows_from_meeting_fallback: lists of different lengths side by
\* side; [text, owner] for decisions and actions.
FallbackRow(e, i) ==
  LET decision == At(e.decisions, i)
      action == At(e.actions, i)
      what == IF decision = Blank THEN Blank ELSE decision.text
      task == IF action = Blank THEN Blank ELSE action.text
      owner(x) == IF x = Blank THEN {} ELSE x.owner IN
  [topic |-> First(At(e.topics, i), First(what, First(task, At(e.risks, i)))),
   decision |-> what, action |-> task,
   owner |-> IF owner(action) # {} THEN owner(action) ELSE owner(decision),
   due |-> Blank, risk |-> At(e.risks, i), status |-> "open"]

FallbackRows(e) ==
  LET n == Max({1, Len(e.topics), Len(e.decisions), Len(e.actions), Min({12, Len(e.risks)})}) IN
  [i \in 1 .. Min({n, 30}) |-> FallbackRow(e, i)]

\* _extract_meeting_fallback, the lists it makes: [kinds, text, speaker] of each
\* unit; without a topic the decisions serve, or the first units.
Extracted(units) ==
  LET Of(kind) == SelectSeq(units, LAMBDA u : kind \in u.kinds)
      Once(us) == FoldLeft(LAMBDA out, u :
         IF \E i \in DOMAIN out : out[i].text = u.text THEN out ELSE Append(out, u), <<>>, us)
      Texts(us) == [i \in DOMAIN us |-> us[i].text]
      Owned(us) == [i \in DOMAIN us |-> [text |-> us[i].text, owner |-> us[i].speaker]]
      Head5(s, n) == SubSeq(s, 1, Min({n, Len(s)}))
      decisions == Once(Of("decision"))
      topics == Head5(Texts(Once(Of("topic"))), 10) IN
  [topics |-> IF topics # <<>> THEN topics
              ELSE IF decisions # <<>> THEN Head5(Texts(decisions), 3)
              ELSE Head5(Texts(units), 5),
   decisions |-> Head5(Owned(decisions), 10),
   actions |-> Head5(Owned(Once(Of("action"))), 20),
   risks |-> Head5(Texts(Once(Of("risk"))), 12)]

\* _normalize_llm_table_payload: rows of the model that are not blank, or else
\* those of the transcript.  Absent is a row that is no object.
CanonicalRows(rows, units) ==
  LET given == SelectSeq(rows, LAMBDA r : r # Absent /\ r # BlankRow) IN
  IF given # <<>> THEN given ELSE FallbackRows(Extracted(units))

-----------------------------------------------------------------------------
(* Columns *)

\* _owner_matches_speakers, and nobody is an owner where no speaker has a name.
Owner(row, t) == IF row.owner \cap t.speakers # {} THEN row.owner ELSE {Unknown}

\* Mutant: a date the model gives is taken over.
DueAsTold(row, t) == First(row.due, Unknown)

\* _value_explicit_in_transcript
Due(row, t) == IF row.due \in t.dates THEN row.due ELSE Unknown

\* _map_canonical_rows_to_columns, the values of a row
Known(row, t) ==
  [row EXCEPT !.owner = Owner(row, t), !.due = Due(row, t),
              !.risk = First(@, Unknown),
              !.status = IF @ = Blank \/ @ \in {"open", "draft"} THEN "open" ELSE @]

\* A column that is none of the seven is empty, also when the model filled it.
Cells(row, columns) ==
  [c \in ToSet(columns) |-> IF c \in Fields THEN row[c] ELSE Blank]

IsBlank(cells) == \A c \in DOMAIN cells : cells[c] = Blank

Key(row) == <<row.topic, row.decision, row.action, row.owner>>

\* The keys seen and the rows so far.
Mapped(rows, columns, t) ==
  FoldLeft(LAMBDA acc, raw :
      LET row == Known(raw, t)
          cells == Cells(row, columns) IN
      IF IsBlank(cells) \/ Key(row) \in acc.seen THEN acc
      ELSE [seen |-> acc.seen \cup {Key(row)}, out |-> Append(acc.out, cells)],
    [seen |-> {}, out |-> <<>>], rows).out

\* _normalize_llm_table_payload
Table(rows, columns, t) ==
  LET mapped == Mapped(CanonicalRows(rows, t.units), columns, t) IN
  IF mapped = <<>>
    THEN <<Cells(Known(BlankRow, t), columns)>>
    ELSE SubSeq(mapped, 1, Min({40, Len(mapped)}))

-----------------------------------------------------------------------------
(* Structured rows: a transcript is a sequence of [speaker, text, chars], its *)
(* lines, or the sentences of its only line.                                 *)

MinChars == 48
MinLines == 2

\* _transcript_insufficient_reason
Insufficient(lines) ==
  Len(lines) < MinLines \/ FoldLeft(LAMBDA n, l : n + l.chars, 0, lines) < MinChars

\* _build_fallback_rows
LineRows(lines) ==
  [i \in DOMAIN lines |-> [seq |-> i, speaker |-> lines[i].speaker, text |-> lines[i].text]]

\* build_structured_rows: the model is off, cannot be had or fails (Absent), or
\* gives rows, which count if there are any.
StructuredRows(lines, answer) ==
  IF answer = Absent \/ answer = <<>> THEN LineRows(lines) ELSE answer

\* A transcript that is too short gives a row that says so.
Structured(lines, answer) ==
  IF Insufficient(lines)
    THEN [status |-> "insufficient_data", rows |-> <<[text |-> "insufficient_data"]>>]
    ELSE [status |-> "ok", rows |-> StructuredRows(lines, answer)]

-----------------------------------------------------------------------------
(* Properties. *)

\* A table has a row; no owner is in it that is not among the speakers and no
\* date that was not said, whatever the model invents; and what the model gave
\* is there once, if a column shows it.
NothingInvented(rows, columns, t) ==
  LET table == Table(rows, columns, t)
      given == SelectSeq(rows, LAMBDA r : r # Absent /\ r # BlankRow) IN
  /\ table # <<>>
  /\ \A i \in DOMAIN table :
       /\ "owner" \in ToSet(columns) =>
            table[i]["owner"] = {Unknown} \/ table[i]["owner"] \cap t.speakers # {}
       /\ "due" \in ToSet(columns) => table[i]["due"] \in t.dates \cup {Unknown}
  /\ \A i \in DOMAIN given : "decision" \in ToSet(columns) /\ given[i].decision # Blank
       => \E j \in DOMAIN table : table[j]["decision"] = given[i].decision

\* The structured file of a transcript has a row in any case, and without rows
\* of the model one for each line, in order.
RowsForLines(lines, answer) ==
  LET s == Structured(lines, answer) IN
  /\ s.rows # <<>>
  /\ s.status = "ok" /\ (answer = Absent \/ answer = <<>>) =>
       [i \in DOMAIN s.rows |-> s.rows[i].text] = [i \in DOMAIN lines |-> lines[i].text]
=============================================================================
