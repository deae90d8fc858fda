----------------------------- MODULE TextProofs -----------------------------
(***************************************************************************)
(* The texts of a meeting (TranscriptBuild) and the index made of them     *)
(* (RagIndex), each for any constants.                                     *)
(*                                                                         *)
(* TranscriptBuild: nothing is said twice, a request that was due the      *)
(* whole recording answers with it, and a cleaned text is that of the      *)
(* answer it goes with, for any number of utterances and requests.         *)
(*                                                                         *)
(* RagIndex: the manager never loses an unfinished job, no query answers   *)
(* from an index older than itself, and vectors of two providers are       *)
(* compared only after a failure or a change of the provider.              *)
(***************************************************************************)
EXTENDS RagIndex, TranscriptBuild, SequenceTheorems, FiniteSetTheorems,
        WellFoundedInduction, TLAPS

(* The texts of a meeting. *)

\* Induction over a set of numbers.
LEMMA Climb ==
  ASSUME NEW n \in Nat, NEW S, 1 \in S, \A k \in 1 .. n - 1 : k \in S => k + 1 \in S
  PROVE  1..n \subseteq S
  <1> DEFINE T == (1..n) \ S
             Less == OpToRel(<, Nat)
  <1> SUFFICES ASSUME T # {} PROVE FALSE
    OBVIOUS
  <1>1. T \subseteq Nat
    OBVIOUS
  <1>2. IsWellFoundedOn(Less, Nat)
    BY NatLessThanWellFounded
  <1> HIDE DEF T, Less
  <1>3. PICK x \in T : \A y \in T : ~ (<<y, x>> \in Less)
    BY <1>1, <1>2, WFMin
  <1>4. \A y \in T : ~(y < x)
    BY <1>1, <1>3 DEF Less, OpToRel
  <1>5. x \in 1..n /\ x \notin S /\ x # 1
    BY DEF T
  <1>6. x - 1 \in 1 .. n - 1 /\ x - 1 < x
    BY <1>5
  <1>7. x - 1 \in S
    BY <1>4, <1>6 DEF T
  <1> QED BY <1>5, <1>6, <1>7

-----------------------------------------------------------------------------
(* Concatenation of rows.  Joins: f[i] is what the first i sequences give. *)

Joins(f, ss) ==
  /\ DOMAIN f = DOMAIN ss
  /\ f[1] = ss[1]
  /\ \A i \in DOMAIN ss : i > 1 => f[i] = f[i - 1] \o ss[i]

LEMMA JoinsUnique ==
  ASSUME NEW n \in Nat \ {0}, NEW ss, DOMAIN ss = 1..n, NEW f, NEW g, Joins(f, ss), Joins(g, ss)
  PROVE  \A i \in 1..n : f[i] = g[i]
  <1> DEFINE S == {i \in 1..n : f[i] = g[i]}
  <1>1. 1 \in S
    BY DEF Joins
  <1>2. ASSUME NEW k \in 1 .. n - 1, k \in S PROVE k + 1 \in S
    <2>1. k + 1 \in 1..n /\ k + 1 > 1 /\ (k + 1) - 1 = k
      OBVIOUS
    <2>2. f[k + 1] = f[k] \o ss[k + 1] /\ g[k + 1] = g[k] \o ss[k + 1]
      BY <2>1 DEF Joins
    <2> QED BY <1>2, <2>1, <2>2
  <1> HIDE DEF S
  <1>3. 1..n \subseteq S
    BY <1>1, <1>2, Climb
  <1> QED BY <1>3 DEF S

UpTo(f, ss, k) ==
  /\ f[1] = ss[1]
  /\ \A i \in 2..k : f[i] = f[i - 1] \o ss[i]

LEMMA JoinsExist ==
  ASSUME NEW U, NEW n \in Nat \ {0}, NEW ss \in [1..n -> Seq(U)]
  PROVE  \E f \in [1..n -> Seq(U)] : Joins(f, ss)
  <1> DEFINE S == {k \in 1..n : \E f \in [1..k -> Seq(U)] : UpTo(f, ss, k)}
  <1>1. 1 \in S
    <2> DEFINE g == [i \in 1..1 |-> ss[1]]
    <2>1. ss[1] \in Seq(U) /\ 1 \in 1..n
      OBVIOUS
    <2>2. g \in [1..1 -> Seq(U)] /\ g[1] = ss[1]
      BY <2>1
    <2> HIDE DEF g
    <2>3. UpTo(g, ss, 1)
      BY <2>2 DEF UpTo
    <2> QED BY <2>1, <2>2, <2>3
  <1>2. ASSUME NEW k \in 1 .. n - 1, k \in S PROVE k + 1 \in S
    <2>1. PICK f \in [1..k -> Seq(U)] : UpTo(f, ss, k)
      BY <1>2
    <2> DEFINE g == [i \in 1 .. k + 1 |-> IF i = k + 1 THEN f[k] \o ss[k + 1] ELSE f[i]]
    <2>2. f[k] \o ss[k + 1] \in Seq(U)
      <3>1. f[k] \in Seq(U) /\ ss[k + 1] \in Seq(U)
        OBVIOUS
      <3> QED BY <3>1
    <2>3. g \in [1 .. k + 1 -> Seq(U)]
      BY <2>2
    <2>4. \A i \in 1..k : g[i] = f[i]
      OBVIOUS
    <2>5. g[k + 1] = f[k] \o ss[k + 1]
      OBVIOUS
    <2> HIDE DEF g
    <2>6. g[1] = ss[1]
      BY <2>1, <2>4 DEF UpTo
    <2>7. ASSUME NEW i \in 2 .. k + 1 PROVE g[i] = g[i - 1] \o ss[i]
      <3>1. CASE i = k + 1
        <4>1. i - 1 = k /\ k \in 1..k
          BY <3>1
        <4> QED BY <3>1, <4>1, <2>4, <2>5
      <3>2. CASE i \in 2..k
        <4>1. i \in 1..k /\ i - 1 \in 1..k
          BY <3>2
        <4> QED BY <3>2, <4>1, <2>1, <2>4 DEF UpTo
      <3>3. i = k + 1 \/ i \in 2..k
        OBVIOUS
      <3> QED BY <3>1, <3>2, <3>3
    <2>8. UpTo(g, ss, k + 1)
      BY <2>6, <2>7 DEF UpTo
    <2>9. k + 1 \in 1..n
      OBVIOUS
    <2> QED BY <2>3, <2>8, <2>9
  <1>3. n \in S
    <2>1. S \subseteq 1..n
      OBVIOUS
    <2> HIDE DEF S
    <2>2. 1..n \subseteq S
      BY <1>1, <1>2, Climb
    <2> QED BY <2>2
  <1>4. PICK f \in [1..n -> Seq(U)] : UpTo(f, ss, n)
    BY <1>3
  <1>5. DOMAIN f = 1..n /\ DOMAIN ss = 1..n
    OBVIOUS
  <1>6. \A i \in 1..n : i > 1 => i \in 2..n
    OBVIOUS
  <1> QED BY <1>4, <1>5, <1>6 DEF Joins, UpTo

LEMMA Flattened ==
  ASSUME NEW U, NEW n \in Nat \ {0}, NEW ss \in [1..n -> Seq(U)], NEW f, f \in [1..n -> Seq(U)],
         Joins(f, ss)
  PROVE  FlattenSeq(ss) = f[n]
  <1>1. Len(ss) = n /\ DOMAIN ss = 1..n
    <2>1. ss \in Seq(Seq(U))
      OBVIOUS
    <2> QED BY <2>1
  <1> DEFINE Eq(h) == h = [i \in 1..n |-> IF i = 1 THEN ss[i] ELSE h[i - 1] \o ss[i]]
             h == CHOOSE x : Eq(x)
  <1>2. Eq(f)
    <2>1. \A i \in 1..n : f[i] = IF i = 1 THEN ss[i] ELSE f[i - 1] \o ss[i]
      BY <1>1 DEF Joins
    <2> QED BY <2>1
  <1>3. Eq(h)
    BY <1>2
  <1>4. FlattenSeq(ss) = h[n]
    BY <1>1 DEF FlattenSeq
  <1> HIDE DEF h
  <1>5. Joins(h, ss)
    <2>1. DOMAIN h = 1..n /\ 1 \in 1..n
      BY <1>3
    <2>2. \A i \in 1..n : h[i] = IF i = 1 THEN ss[i] ELSE h[i - 1] \o ss[i]
      BY <1>3
    <2>3. h[1] = ss[1]
      BY <2>1, <2>2
    <2>4. \A i \in 1..n : i > 1 => h[i] = h[i - 1] \o ss[i]
      <3> TAKE i \in 1..n
      <3>1. i > 1 => i # 1
        OBVIOUS
      <3> QED BY <2>2, <3>1
    <2> HIDE DEF Eq
    <2> QED BY <1>1, <2>1, <2>3, <2>4 DEF Joins
  <1> QED BY <1>1, <1>4, <1>5, JoinsUnique

-----------------------------------------------------------------------------
(* What rows say. *)

Row == {NoRow} \cup Tellings
Sayings == Seq(Utterances)

Cells(rs) == [i \in 1 .. N + 1 |-> IF rs[i - 1] = NoRow THEN <<>> ELSE rs[i - 1]]

LEMMA NFacts ==
  /\ N \in Nat \ {0} /\ N + 1 \in Nat \ {0}
  /\ NoRow \notin Tellings /\ NoFile \notin Tellings
  /\ \A t \in Tellings : t \in Sayings
  /\ <<>> \in Tellings /\ <<>> \in Sayings /\ NoRow # <<>> /\ NoFile # <<>>
  /\ \A s \in Utterances : s \in Nat /\ <<s>> \in Tellings /\ <<s>> \in Sayings /\ NoRow # <<s>>
  <1>1. N \in Nat \ {0} /\ N + 1 \in Nat \ {0} /\ NoRow \notin Tellings /\ NoFile \notin Tellings
    BY BuildAssumption
  <1>2. \A t \in Tellings : t \in Sayings
    BY DEF Tellings, Sayings
  <1>3. <<>> \in Tellings
    <2>1. <<>> \in [1..0 -> Utterances] /\ 0 \in 0 .. 2 * N
      BY <1>1
    <2> QED BY <2>1 DEF Tellings
  <1>4. \A s \in Utterances : s \in Nat /\ <<s>> \in Tellings
    <2> TAKE s \in Utterances
    <2>1. <<s>> \in [1..1 -> Utterances] /\ 1 \in 0 .. 2 * N
      BY <1>1
    <2> QED BY <1>1, <2>1 DEF Tellings, Utterances
  <1> QED BY <1>1, <1>2, <1>3, <1>4

LEMMA CellsType ==
  ASSUME NEW rs \in [Seqs -> Row]
  PROVE  Cells(rs) \in [1 .. N + 1 -> Sayings]
  <1> SUFFICES ASSUME NEW i \in 1 .. N + 1
               PROVE  (IF rs[i - 1] = NoRow THEN <<>> ELSE rs[i - 1]) \in Sayings
    BY DEF Cells
  <1>1. i - 1 \in Seqs
    BY NFacts DEF Seqs
  <1> QED BY <1>1, NFacts DEF Row

LEMMA ConcatJoins ==
  ASSUME NEW rs \in [Seqs -> Row], NEW f, f \in [1 .. N + 1 -> Sayings], Joins(f, Cells(rs))
  PROVE  Concat(rs) = f[N + 1]
  <1>1. Concat(rs) = FlattenSeq(Cells(rs))
    BY DEF Concat, Cells
  <1>2. Cells(rs) \in [1 .. N + 1 -> Seq(Utterances)] /\ f \in [1 .. N + 1 -> Seq(Utterances)]
    BY CellsType DEF Sayings
  <1>3. N + 1 \in Nat \ {0}
    BY NFacts
  <1> QED BY <1>1, <1>2, <1>3, Flattened

LEMMA JoinsOfRows ==
  ASSUME NEW rs \in [Seqs -> Row]
  PROVE  \E f \in [1 .. N + 1 -> Sayings] :
           /\ Joins(f, Cells(rs)) /\ Concat(rs) = f[N + 1]
           /\ f[1] = Cells(rs)[1]
           /\ \A k \in 1..N : f[k + 1] = f[k] \o Cells(rs)[k + 1]
  <1>1. Cells(rs) \in [1 .. N + 1 -> Seq(Utterances)] /\ N + 1 \in Nat \ {0}
    BY CellsType, NFacts DEF Sayings
  <1>2. PICK f \in [1 .. N + 1 -> Seq(Utterances)] : Joins(f, Cells(rs))
    BY <1>1, JoinsExist
  <1>3. f \in [1 .. N + 1 -> Sayings]
    BY DEF Sayings
  <1>4. Concat(rs) = f[N + 1]
    BY <1>2, <1>3, ConcatJoins
  <1>5. \A k \in 1..N : f[k + 1] = f[k] \o Cells(rs)[k + 1]
    <2> TAKE k \in 1..N
    <2>1. k + 1 \in 1 .. N + 1 /\ k + 1 > 1 /\ (k + 1) - 1 = k
      BY NFacts
    <2>2. k + 1 \in DOMAIN Cells(rs)
      BY <1>1, <2>1
    <2> QED BY <1>2, <2>1, <2>2 DEF Joins
  <1> QED BY <1>2, <1>3, <1>4, <1>5 DEF Joins

LEMMA ConcatType ==
  ASSUME NEW rs \in [Seqs -> Row]
  PROVE  Concat(rs) \in Sayings
  <1>1. PICK f \in [1 .. N + 1 -> Sayings] : Concat(rs) = f[N + 1]
    BY JoinsOfRows
  <1> QED BY <1>1, NFacts

Increasing(t) == \A i, j \in 1 .. Len(t) : i < j => t[i] < t[j]

LEMMA SetOfText ==
  ASSUME NEW t \in Sayings
  PROVE  /\ ToSet(t) = {t[i] : i \in 1 .. Len(t)} /\ ToSet(t) \subseteq Utterances
         /\ Len(t) \in Nat /\ \A i \in 1 .. Len(t) : t[i] \in Utterances /\ t[i] \in Nat
         /\ t = <<>> <=> ToSet(t) = {}
  <1>1. DOMAIN t = 1 .. Len(t) /\ Len(t) \in Nat /\ \A i \in 1 .. Len(t) : t[i] \in Utterances
    BY DEF Sayings
  <1>2. ToSet(t) = {t[i] : i \in 1 .. Len(t)}
    BY <1>1 DEF ToSet
  <1>3. t = <<>> <=> ToSet(t) = {}
    <2>1. t = <<>> => ToSet(t) = {}
      BY <1>2
    <2>2. t # <<>> => 1 \in 1 .. Len(t)
      BY <1>1 DEF Sayings
    <2> QED BY <1>2, <2>1, <2>2
  <1> QED BY <1>1, <1>2, <1>3, NFacts

LEMMA Extended ==
  ASSUME NEW t \in Sayings, NEW u \in Utterances, Increasing(t), \A x \in ToSet(t) : x < u
  PROVE  /\ t \o <<u>> \in Sayings /\ Increasing(t \o <<u>>)
         /\ ToSet(t \o <<u>>) = ToSet(t) \cup {u}
  <1> DEFINE e == t \o <<u>>
  <1>1. e \in Sayings /\ Len(e) = Len(t) + 1 /\ Len(t) \in Nat
    BY DEF Sayings
  <1>2. \A i \in 1 .. Len(t) : e[i] = t[i] /\ t[i] < u
    BY SetOfText DEF Sayings
  <1>3. e[Len(t) + 1] = u
    BY DEF Sayings
  <1> HIDE DEF e
  <1>4. Increasing(e)
    <2> SUFFICES ASSUME NEW i \in 1 .. Len(t) + 1, NEW j \in 1 .. Len(t) + 1, i < j
                 PROVE  e[i] < e[j]
      BY <1>1 DEF Increasing
    <2>1. i \in 1 .. Len(t)
      BY <1>1
    <2>2. CASE j = Len(t) + 1
      BY <1>2, <1>3, <2>1, <2>2
    <2>3. CASE j \in 1 .. Len(t)
      BY <1>2, <2>1, <2>3 DEF Increasing
    <2> QED BY <1>1, <2>2, <2>3
  <1>5. ToSet(e) = ToSet(t) \cup {u}
    <2>1. ToSet(e) = {e[i] : i \in 1 .. Len(t) + 1}
      BY <1>1, SetOfText
    <2>2. 1 .. Len(t) + 1 = 1 .. Len(t) \cup {Len(t) + 1}
      BY <1>1
    <2>3. \A x : x \in ToSet(e) <=> x \in ToSet(t) \/ x = u
      BY <1>2, <1>3, <2>1, <2>2, SetOfText
    <2> QED BY <2>3
  <1> QED BY <1>1, <1>4, <1>5 DEF e

RequestTypes ==
  [at : Steps, full : BOOLEAN, had : BOOLEAN, heard : 0..N, said : Sayings,
   sig : {NoSignature} \cup (Nat \X Nat \X Nat), clean : Sayings]

BuildTypes ==
  /\ finished \in BOOLEAN
  /\ got \subseteq Streamed
  /\ rows \in [Seqs -> Row]
  /\ {source, mp3} \subseteq 0..N
  /\ DOMAIN results = {"raw", "clean"}
  /\ cache \in [text : {NoFile} \cup Sayings,
                sig : {NoSignature} \cup (Nat \X Nat \X Nat)]
  /\ build \in [Builds -> RequestTypes]
  /\ used \in [faults : Nat, asks : Nat, late : BOOLEAN, early : BOOLEAN, mixed : BOOLEAN]

\* Who makes the rows ready holds the lock, and the meeting has finished.
Locked == {"listen", "commit", "retell", "recover"}

LockInv ==
  \A r \in Builds : build[r].at \in Locked => finished /\ holder = {r}

\* The whole recording is there, as the mp3 or to be made into it.
Complete == mp3 = N \/ (mp3 = 0 /\ source = N)

\* Rows of single chunks.
LiveRows(rs) ==
  /\ rs[N] = NoRow
  /\ \A s \in Utterances : rs[s] \in {NoRow, <<>>, <<s>>}

\* Rows that end in the tail of the whole recording: they say all from a on.
Rest(a) == SubSeq(AllSaid, a + 1, N)
SaysRest(rs) == \E a \in Utterances : Concat(rs) = Rest(a)

\* What a final pass over the first n leaves.
FinalRows(rs, n) == rs \in Sentences(n)

HearsAll == Complete /\ \A r \in Builds : build[r].at = "commit" => build[r].heard = N

\* The texts that are remembered with the signature of the rows they were made of:
\* by requests that tidy them and, while none fills it, by the cache.
Filling == \E r \in Builds : build[r].at = "meta"
Holding(r) == build[r].at \in {"tidy", "meta"} /\ build[r].said # <<>>
CacheHolds == ~used.mixed /\ ~Filling /\ cache.text # NoFile /\ cache.sig # NoSignature

Pairs ==
  {<<build[r].sig, build[r].said>> : r \in {q \in Builds : Holding(q)}}
    \cup (IF CacheHolds THEN {<<cache.sig, cache.text>>} ELSE {})

MadeOf(rs) == <<Signature(rs), Concat(rs)>>

\* MadeOf of these rows, or of fewer.
Below(p, rs) ==
  \/ p = MadeOf(rs)
  \/ p[1][1] \in Nat /\ p[1][1] < Cardinality(Present(rs)) /\ Concat(rs) # <<>>

Early(ps, rs) == \A p \in ps : Below(p, rs)

\* Is not taken for what a final pass over the first n leaves.
SafeFor(p, n) ==
  p[1] \in {<<n, n, n>>, <<1, 1, n>>} => p[2] = First(n)

\* The rows are those of the live audio, perhaps with the tail of the recording, and
\* what is remembered was made of them on their way; or they are a final pass's.
RowsAre(rs, ps, all) ==
  \/ Early(ps, rs) /\ (LiveRows(rs) \/ (SaysRest(rs) /\ all))
  \/ \E n \in 1..N : FinalRows(rs, n) /\ \A p \in ps : SafeFor(p, n)

\* A request that makes the rows ready.
AtWork(b, rs, ps) ==
  /\ b.at = "listen" /\ ~b.had => Concat(rs) = <<>>
  /\ b.at = "commit" => b.heard # 0
  /\ b.at = "retell" => Concat(rs) = <<>>
  /\ b.at = "recover" => LiveRows(rs) /\ Early(ps, rs)

RowsInv ==
  /\ ~finished => /\ LiveRows(rows) /\ Early(Pairs, rows)
                  /\ \A s \in Seqs : rows[s] # NoRow => s \in got
  /\ RowsAre(rows, Pairs, HearsAll)
  /\ \A r \in Builds : AtWork(build[r], rows, Pairs)

PairsAre(ps, all) ==
  /\ \A p \in ps, n \in 1..N : SafeFor(p, n) \/ (n < N /\ all)
  /\ \A p, q \in ps : p[1] = q[1] => p[2] = q[2]

PairsInv == PairsAre(Pairs, HearsAll)

CacheInv ==
  /\ cache.text # <<>>
  /\ \A r \in Builds :
      /\ build[r].at = "tidy" => build[r].sig # NoSignature
      /\ build[r].at = "meta" =>
           /\ build[r].said # <<>> /\ build[r].sig # NoSignature
           /\ ~used.mixed => /\ cache.text \in {NoFile, build[r].said}
                             /\ \A q \in Builds : build[q].at = "meta" => q = r
      /\ build[r].at \in {"meta", "row", "clean", "answered"} /\ ~used.mixed
           /\ ~used.late /\ ~used.early => build[r].clean = build[r].said

\* A request that owes the whole recording.
Owes(r) ==
  /\ build[r].at \in Locked \cup {"read", "tidy", "meta", "row", "clean", "answered"}
  /\ finished
  /\ build[r].at = "listen" => Complete
  /\ build[r].at = "commit" => build[r].heard = N
  /\ build[r].at \notin {"retell", "recover"}
  /\ build[r].at = "read" =>
       /\ mp3 = N /\ FinalRows(rows, N)
       /\ \A q \in Builds : /\ build[q].at = "listen" => build[q].had
                            /\ build[q].at \notin {"retell", "recover"}
  /\ build[r].at \in {"tidy", "meta", "row", "clean", "answered"} => build[r].said = AllSaid

WholeInv ==
  used.faults = 0 /\ ~used.late =>
    \A r \in Builds : /\ build[r].at = "commit" => build[r].heard = mp3 /\ mp3 # 0
                      /\ build[r].full => Owes(r)

TextInv ==
  /\ BuildTypes /\ LockInv /\ WholeInv
  /\ ~used.late /\ ~used.early => RowsInv /\ PairsInv
  /\ CacheInv

-----------------------------------------------------------------------------
(* The texts of the three kinds of rows. *)

HeardOf(rs) == {s \in Utterances : rs[s] = <<s>>}

\* Rows of single chunks say what was heard, in order.
LEMMA LiveText ==
  ASSUME NEW rs \in [Seqs -> Row], LiveRows(rs)
  PROVE  Concat(rs) \in Sayings /\ Increasing(Concat(rs)) /\ ToSet(Concat(rs)) = HeardOf(rs)
  <1>1. PICK f \in [1 .. N + 1 -> Sayings] :
           /\ Joins(f, Cells(rs)) /\ Concat(rs) = f[N + 1]
           /\ f[1] = Cells(rs)[1]
           /\ \A k \in 1..N : f[k + 1] = f[k] \o Cells(rs)[k + 1]
    BY JoinsOfRows
  <1> DEFINE Lower(k) == {s \in HeardOf(rs) : s < k}
             S == {k \in 1 .. N + 1 : Increasing(f[k]) /\ ToSet(f[k]) = Lower(k)}
  <1>2. ASSUME NEW k \in 0..N
        PROVE  /\ Cells(rs)[k + 1] = IF k \in HeardOf(rs) THEN <<k>> ELSE <<>>
               /\ Lower(k + 1) = IF k \in HeardOf(rs) THEN Lower(k) \cup {k} ELSE Lower(k)
    <2>1. Cells(rs)[k + 1] = IF rs[k] = NoRow THEN <<>> ELSE rs[k]
      <3>1. k + 1 \in 1 .. N + 1 /\ (k + 1) - 1 = k
        BY NFacts
      <3> QED BY <3>1 DEF Cells
    <2>2. \A s \in HeardOf(rs) : s \in Nat /\ s < N
      BY NFacts DEF HeardOf, Utterances
    <2>3. \A s \in HeardOf(rs) : s < k + 1 <=> s < k \/ s = k
      BY <2>2
    <2>4. CASE k = N
      <3>1. N \notin HeardOf(rs)
        BY <2>2, NFacts
      <3> QED BY <2>1, <2>3, <2>4, <3>1 DEF LiveRows
    <2>5. CASE k \in Utterances
      <3>1. rs[k] \in {NoRow, <<>>, <<k>>} /\ NoRow # <<k>> /\ <<>> # <<k>>
        BY <2>5, NFacts DEF LiveRows
      <3>2. k \in HeardOf(rs) <=> rs[k] = <<k>>
        BY <2>5 DEF HeardOf
      <3> QED BY <2>1, <2>3, <3>1, <3>2
    <2>6. k = N \/ k \in Utterances
      BY NFacts DEF Utterances
    <2> QED BY <2>4, <2>5, <2>6
  <1>3. Lower(0) = {} /\ Lower(0 + 1) = Lower(1)
    <2>1. \A s \in HeardOf(rs) : s \in Nat
      BY NFacts DEF HeardOf
    <2>2. \A s \in HeardOf(rs) : ~(s < 0) /\ (s < 0 + 1 <=> s < 1)
      BY <2>1
    <2> QED BY <2>2
  <1>4. Increasing(<<>>) /\ ToSet(<<>>) = {}
    BY NFacts, SetOfText DEF Increasing
  <1>5. 1 \in S
    <2>1. f[1] = IF 0 \in HeardOf(rs) THEN <<0>> ELSE <<>>
      <3>1. 0 \in 0..N /\ 0 + 1 = 1
        BY NFacts
      <3> QED BY <1>1, <1>2, <3>1
    <2>2. CASE 0 \in HeardOf(rs)
      <3>1. 0 \in Utterances /\ <<>> \o <<0>> = <<0>>
        BY <2>2 DEF HeardOf
      <3>2. Increasing(<<0>>) /\ ToSet(<<0>>) = {} \cup {0}
        BY <1>4, <3>1, NFacts, Extended
      <3>3. Lower(1) = {} \cup {0}
        <4> HIDE DEF Lower
        <4>1. 0 \in 0..N
          BY NFacts
        <4>2. Lower(0 + 1) = Lower(0) \cup {0}
          BY <1>2, <2>2, <4>1
        <4> QED BY <1>3, <4>2
      <3> QED BY <2>1, <2>2, <3>2, <3>3, NFacts
    <2>3. CASE 0 \notin HeardOf(rs)
      <3>1. Lower(1) = {}
        <4> HIDE DEF Lower
        <4>1. 0 \in 0..N
          BY NFacts
        <4>2. Lower(0 + 1) = Lower(0)
          BY <1>2, <2>3, <4>1
        <4> QED BY <1>3, <4>2
      <3> QED BY <2>1, <2>3, <3>1, <1>4, NFacts
    <2> QED BY <2>2, <2>3
  <1>6. ASSUME NEW k \in 1 .. (N + 1) - 1, k \in S PROVE k + 1 \in S
    <2>1. k \in 0..N /\ k \in 1..N /\ k + 1 \in 1 .. N + 1 /\ k \in 1 .. N + 1
      BY NFacts
    <2>2. f[k] \in Sayings /\ Increasing(f[k]) /\ ToSet(f[k]) = Lower(k)
      BY <1>6, <2>1
    <2>3. f[k + 1] = f[k] \o (IF k \in HeardOf(rs) THEN <<k>> ELSE <<>>)
      BY <1>1, <1>2, <2>1
    <2>4. CASE k \in HeardOf(rs)
      <3>1. k \in Utterances /\ \A x \in Lower(k) : x < k
        BY <2>4 DEF HeardOf
      <3>2. Increasing(f[k + 1]) /\ ToSet(f[k + 1]) = Lower(k) \cup {k}
        BY <2>2, <2>3, <2>4, <3>1, Extended
      <3>3. Lower(k + 1) = Lower(k) \cup {k}
        BY <1>2, <2>1, <2>4
      <3> HIDE DEF Lower
      <3> QED BY <2>1, <3>2, <3>3
    <2>5. CASE k \notin HeardOf(rs)
      <3>1. f[k + 1] = f[k]
        BY <2>2, <2>3, <2>5 DEF Sayings
      <3>2. Lower(k + 1) = Lower(k)
        BY <1>2, <2>1, <2>5
      <3> HIDE DEF Lower
      <3> QED BY <2>1, <2>2, <3>1, <3>2
    <2> QED BY <2>4, <2>5
  <1>7. N + 1 \in S
    <2> HIDE DEF S
    <2>1. 1 .. N + 1 \subseteq S
      BY <1>5, <1>6, NFacts, Climb
    <2> QED BY <2>1, NFacts
  <1>8. Lower(N + 1) = HeardOf(rs)
    BY NFacts DEF HeardOf, Utterances
  <1>9. Increasing(f[N + 1]) /\ ToSet(f[N + 1]) = Lower(N + 1)
    BY <1>7
  <1> HIDE DEF Lower, S
  <1> QED BY <1>1, <1>8, <1>9, ConcatType

\* A row after all others adds its text.
LEMMA Appended ==
  ASSUME NEW rs \in [Seqs -> Row], NEW q \in Seqs, NEW t \in Tellings,
         \A s \in Seqs : s >= q => rs[s] = NoRow
  PROVE  /\ [rs EXCEPT ![q] = t] \in [Seqs -> Row]
         /\ Concat([rs EXCEPT ![q] = t]) = Concat(rs) \o t
  <1> DEFINE rt == [rs EXCEPT ![q] = t]
  <1>1. rt \in [Seqs -> Row]
    BY DEF Row
  <1>2. \A s \in Seqs : rt[s] = IF s = q THEN t ELSE rs[s]
    OBVIOUS
  <1> HIDE DEF rt
  <1>3. PICK f \in [1 .. N + 1 -> Sayings] :
           /\ Joins(f, Cells(rs)) /\ Concat(rs) = f[N + 1]
           /\ f[1] = Cells(rs)[1]
           /\ \A k \in 1..N : f[k + 1] = f[k] \o Cells(rs)[k + 1]
    BY JoinsOfRows
  <1>4. PICK g \in [1 .. N + 1 -> Sayings] :
           /\ Joins(g, Cells(rt)) /\ Concat(rt) = g[N + 1]
           /\ g[1] = Cells(rt)[1]
           /\ \A k \in 1..N : g[k + 1] = g[k] \o Cells(rt)[k + 1]
    BY <1>1, JoinsOfRows
  <1>5. q \in Nat /\ q <= N /\ t \in Sayings /\ t # NoRow
    BY NFacts DEF Seqs
  <1>6. ASSUME NEW k \in 0..N
        PROVE  /\ k < q => Cells(rt)[k + 1] = Cells(rs)[k + 1]
               /\ k = q => Cells(rt)[k + 1] = t /\ Cells(rs)[k + 1] = <<>>
               /\ k > q => Cells(rt)[k + 1] = <<>> /\ Cells(rs)[k + 1] = <<>>
    <2>1. k + 1 \in 1 .. N + 1 /\ (k + 1) - 1 = k /\ k \in Seqs
      BY NFacts DEF Seqs
    <2>2. Cells(rt)[k + 1] = (IF rt[k] = NoRow THEN <<>> ELSE rt[k])
          /\ Cells(rs)[k + 1] = (IF rs[k] = NoRow THEN <<>> ELSE rs[k])
      BY <2>1 DEF Cells
    <2> QED BY <1>2, <1>5, <2>1, <2>2
  <1> DEFINE Fits(k) == IF k <= q THEN g[k] = f[k] ELSE g[k] = f[k] \o t
             S == {k \in 1 .. N + 1 : Fits(k)}
  <1>7. 1 \in S
    <2>1. 0 \in 0..N /\ 0 + 1 = 1 /\ 1 \in 1 .. N + 1
      BY NFacts
    <2>2. CASE q = 0
      <3>1. g[1] = t /\ f[1] = <<>>
        BY <1>3, <1>4, <1>6, <2>1, <2>2
      <3>2. <<>> \o t = t
        BY <1>5 DEF Sayings
      <3> QED BY <2>1, <2>2, <3>1, <3>2
    <2>3. CASE q > 0
      BY <1>3, <1>4, <1>5, <1>6, <2>1, <2>3
    <2> QED BY <1>5, <2>2, <2>3
  <1>8. ASSUME NEW k \in 1 .. (N + 1) - 1, k \in S PROVE k + 1 \in S
    <2>1. k \in 0..N /\ k \in 1..N /\ k + 1 \in 1 .. N + 1 /\ k \in 1 .. N + 1
      BY NFacts
    <2>2. f[k] \in Sayings /\ g[k] \in Sayings
      BY <2>1
    <2>3. f[k + 1] = f[k] \o Cells(rs)[k + 1] /\ g[k + 1] = g[k] \o Cells(rt)[k + 1]
      BY <1>3, <1>4, <2>1
    <2>4. f[k] \o <<>> = f[k] /\ g[k] \o <<>> = g[k]
      BY <2>2 DEF Sayings
    <2>5. Fits(k)
      BY <1>8
    <2>6. CASE k < q
      <3>1. k <= q /\ k + 1 <= q
        BY <1>5, <2>6
      <3>2. g[k + 1] = f[k + 1]
        BY <1>6, <2>1, <2>3, <2>5, <2>6, <3>1
      <3> QED BY <2>1, <3>1, <3>2
    <2>7. CASE k = q
      <3>1. ~(k + 1 <= q) /\ k <= q
        BY <1>5, <2>7
      <3>2. g[k + 1] = f[k + 1] \o t
        BY <1>6, <2>1, <2>3, <2>4, <2>5, <2>7, <3>1
      <3> QED BY <2>1, <3>1, <3>2
    <2>8. CASE k > q
      <3>1. ~(k + 1 <= q) /\ ~(k <= q)
        BY <1>5, <2>8
      <3>2. g[k + 1] = f[k + 1] \o t
        BY <1>6, <2>1, <2>3, <2>4, <2>5, <2>8, <3>1
      <3> QED BY <2>1, <3>1, <3>2
    <2> HIDE DEF S
    <2> QED BY <1>5, <2>1, <2>6, <2>7, <2>8
  <1>9. N + 1 \in S
    <2> HIDE DEF S
    <2>1. 1 .. N + 1 \subseteq S
      BY <1>7, <1>8, NFacts, Climb
    <2> QED BY <2>1, NFacts
  <1>10. g[N + 1] = f[N + 1] \o t
    <2>1. ~(N + 1 <= q)
      BY <1>5, NFacts
    <2> QED BY <1>9, <2>1
  <1> QED BY <1>1, <1>3, <1>4, <1>10 DEF rt

\* A set of row numbers has a greatest.
LEMMA Greatest ==
  ASSUME NEW n \in Nat, NEW T \in SUBSET (0..n), T # {}
  PROVE  Max(T) \in T /\ \A y \in T : y <= Max(T)
  <1> DEFINE Has(U) == \E x \in U : \A y \in U : x >= y
             S == {k \in 1 .. n + 1 : \A U \in SUBSET (0 .. k - 1) : U # {} => Has(U)}
  <1>1. 1 \in S
    <2>1. 0 .. 1 - 1 = {0}
      OBVIOUS
    <2>2. ASSUME NEW U \in SUBSET {0}, U # {} PROVE Has(U)
      <3>1. 0 \in U /\ \A y \in U : y = 0
        BY <2>2
      <3>2. \A y \in U : 0 >= y
        BY <3>1
      <3> QED BY <3>1, <3>2
    <2>3. 1 \in 1 .. n + 1
      OBVIOUS
    <2> HIDE DEF Has
    <2> QED BY <2>1, <2>2, <2>3
  <1>2. ASSUME NEW k \in 1 .. (n + 1) - 1, k \in S PROVE k + 1 \in S
    <2>1. ASSUME NEW U \in SUBSET (0 .. (k + 1) - 1), U # {} PROVE Has(U)
      <3>1. CASE k \in U
        BY <3>1
      <3>2. CASE k \notin U
        <4>1. U \in SUBSET (0 .. k - 1)
          BY <3>2
        <4> QED BY <1>2, <2>1, <4>1
      <3> QED BY <3>1, <3>2
    <2> HIDE DEF Has
    <2> QED BY <2>1
  <1> HIDE DEF S
  <1>3. n + 1 \in S
    <2>1. 1 .. n + 1 \subseteq S
      BY <1>1, <1>2, Climb
    <2> QED BY <2>1
  <1>4. Has(T)
    <2>1. (n + 1) - 1 = n
      OBVIOUS
    <2> QED BY <1>3, <2>1 DEF S
  <1>5. Max(T) \in T /\ \A y \in T : Max(T) >= y
    BY <1>4 DEF Max
  <1> QED BY <1>5

\* A text that says nothing twice is as long as the set of what it says.
LEMMA Distinct ==
  ASSUME NEW t \in Sayings, \A i, j \in 1 .. Len(t) : i < j => t[i] # t[j]
  PROVE  /\ IsFiniteSet(ToSet(t)) /\ Cardinality(ToSet(t)) = Len(t)
         /\ NoDuplicates(t)
  <1>1. Len(t) \in Nat /\ ToSet(t) = {t[i] : i \in 1 .. Len(t)}
    BY SetOfText
  <1> DEFINE f == [i \in 1 .. Len(t) |-> t[i]]
  <1>2. f \in Bijection(1 .. Len(t), ToSet(t))
    <2>1. f \in [1 .. Len(t) -> ToSet(t)]
      BY <1>1
    <2>2. \A i, j \in 1 .. Len(t) : f[i] = f[j] => i = j
      BY <1>1
    <2>3. \A x \in ToSet(t) : \E i \in 1 .. Len(t) : f[i] = x
      BY <1>1
    <2> HIDE DEF f
    <2> QED BY <2>1, <2>2, <2>3 DEF Bijection, Injection, Surjection, IsInjective
  <1>3. IsFiniteSet(1 .. Len(t)) /\ Cardinality(1 .. Len(t)) = Len(t)
    <2>1. IsFiniteSet(1 .. Len(t))
          /\ Cardinality(1 .. Len(t)) = IF 1 > Len(t) THEN 0 ELSE Len(t) - 1 + 1
      BY <1>1, FS_Interval
    <2> QED BY <1>1, <2>1
  <1> HIDE DEF f
  <1>4. IsFiniteSet(ToSet(t)) /\ Cardinality(ToSet(t)) = Len(t)
    BY <1>2, <1>3, FS_Bijection DEF ExistsBijection
  <1> QED BY <1>4 DEF NoDuplicates

LEMMA InOrder ==
  ASSUME NEW t \in Sayings, Increasing(t)
  PROVE  /\ IsFiniteSet(ToSet(t)) /\ Cardinality(ToSet(t)) = Len(t)
         /\ NoDuplicates(t)
  <1>1. \A i, j \in 1 .. Len(t) : i < j => t[i] # t[j]
    BY SetOfText DEF Increasing
  <1> QED BY <1>1, Distinct

LEMMA FirstAndRest ==
  /\ \A n \in 0..N : /\ First(n) \in Tellings /\ Len(First(n)) = n
                     /\ \A i \in 1..n : First(n)[i] = i - 1
  /\ \A a \in Utterances : /\ Rest(a) \in Tellings /\ Len(Rest(a)) = N - a
                           /\ \A i \in 1 .. N - a : Rest(a)[i] = a + i - 1
  /\ First(N) = AllSaid
  <1>1. AllSaid \in Seq(Utterances) /\ Len(AllSaid) = N
    BY NFacts DEF AllSaid, Utterances
  <1>2. ASSUME NEW n \in 0..N
        PROVE  /\ First(n) \in Tellings /\ Len(First(n)) = n
               /\ \A i \in 1..n : First(n)[i] = i - 1
    <2>1. First(n) = [i \in 1..n |-> AllSaid[i]]
      BY <1>1, NFacts DEF First
    <2>2. \A i \in 1..n : AllSaid[i] = i - 1 /\ AllSaid[i] \in Utterances
      BY NFacts DEF AllSaid, Utterances
    <2>3. First(n) \in [1..n -> Utterances]
      BY <2>1, <2>2
    <2>4. n \in 0 .. 2 * N
      BY NFacts
    <2> QED BY <2>1, <2>2, <2>3, <2>4 DEF Tellings
  <1>3. ASSUME NEW a \in Utterances
        PROVE  /\ Rest(a) \in Tellings /\ Len(Rest(a)) = N - a
               /\ \A i \in 1 .. N - a : Rest(a)[i] = a + i - 1
    <2>0. a \in Nat /\ a < N
      BY NFacts DEF Utterances
    <2>1. Rest(a) = [i \in 1 .. N - a |-> AllSaid[a + i]]
      <3>1. Rest(a) = [i \in 1 .. (N - (a + 1) + 1) |-> AllSaid[(a + 1) + i - 1]]
        BY <1>1, <2>0, NFacts DEF Rest
      <3> QED BY <2>0, <3>1, NFacts
    <2>2. \A i \in 1 .. N - a : AllSaid[a + i] = a + i - 1 /\ AllSaid[a + i] \in Utterances
      BY <2>0, NFacts DEF AllSaid, Utterances
    <2>3. Rest(a) \in [1 .. N - a -> Utterances]
      BY <2>1, <2>2
    <2>4. N - a \in 0 .. 2 * N
      BY <2>0, NFacts
    <2> QED BY <2>1, <2>2, <2>3, <2>4 DEF Tellings
  <1>4. First(N) = AllSaid
    BY <1>1, NFacts DEF First
  <1> QED BY <1>2, <1>3, <1>4

\* In order and without a gap from the beginning: the first n utterances.
LEMMA NoGap ==
  ASSUME NEW t \in Sayings, NEW n \in 1..N, Increasing(t), ToSet(t) = 0 .. n - 1
  PROVE  t = First(n)
  <1>1. Len(t) = n
    <2>1. IsFiniteSet(0 .. n - 1) /\ Cardinality(0 .. n - 1) = n
      <3>1. Cardinality(0 .. n - 1) = IF 0 > n - 1 THEN 0 ELSE (n - 1) - 0 + 1
        BY FS_Interval
      <3> QED BY <3>1, FS_Interval
    <2> QED BY <2>1, InOrder
  <1>2. \A i \in 1..n : t[i] \in Nat /\ t[i] \in 0 .. n - 1
    BY <1>1, SetOfText
  <1>3. \A x \in 0 .. n - 1 : \E i \in 1..n : t[i] = x
    BY <1>1, SetOfText
  <1> DEFINE S == {k \in 1..n : t[k] = k - 1}
  <1>4. 1 \in S
    <2>1. PICK i \in 1..n : t[i] = 0
      BY <1>3
    <2>2. i = 1 \/ t[1] < t[i]
      BY <1>1 DEF Increasing
    <2> QED BY <1>2, <2>1, <2>2
  <1>5. ASSUME NEW k \in 1 .. n - 1, k \in S PROVE k + 1 \in S
    <2>1. PICK i \in 1..n : t[i] = k
      BY <1>3
    <2>2. t[k] = k - 1 /\ t[k] < t[k + 1]
      BY <1>1, <1>5 DEF Increasing
    <2>3. ~(i <= k)
      <3>1. i <= k => i = k \/ t[i] < t[k]
        BY <1>1 DEF Increasing
      <3> QED BY <2>1, <2>2, <3>1
    <2>4. i = k + 1 \/ t[k + 1] < t[i]
      BY <1>1, <2>3 DEF Increasing
    <2> QED BY <1>2, <2>1, <2>2, <2>4
  <1>6. \A i \in 1..n : t[i] = i - 1
    <2> HIDE DEF S
    <2>1. 1..n \subseteq S
      BY <1>4, <1>5, Climb
    <2> QED BY <2>1 DEF S
  <1>7. First(n) \in Sayings /\ Len(First(n)) = n /\ \A i \in 1..n : First(n)[i] = i - 1
    BY FirstAndRest, NFacts
  <1> QED BY <1>1, <1>6, <1>7, SeqEqual DEF Sayings

LEMMA SignatureFacts ==
  ASSUME NEW rs \in [Seqs -> Row]
  PROVE  /\ IsFiniteSet(Present(rs)) /\ Cardinality(Present(rs)) \in Nat
         /\ Signature(rs) \in Nat \X Nat \X Nat /\ Signature(rs) # NoSignature
         /\ Signature(rs)[1] = Cardinality(Present(rs))
         /\ Signature(rs)[3] = Len(Concat(rs))
         /\ \A s \in Present(rs) : s < Signature(rs)[2]
  <1>1. Present(rs) \in SUBSET (0..N)
    BY DEF Present, Seqs
  <1>2. IsFiniteSet(0..N)
    <2>1. 0 \in Int /\ N \in Int
      BY NFacts
    <2> QED BY <2>1, FS_Interval
  <1>3. IsFiniteSet(Present(rs)) /\ Cardinality(Present(rs)) \in Nat
    BY <1>1, <1>2, FS_Subset, FS_CardinalityType
  <1>4. Len(Concat(rs)) \in Nat
    BY ConcatType, SetOfText
  <1> DEFINE last == IF Present(rs) = {} THEN 0 ELSE 1 + Max(Present(rs))
  <1>5. last \in Nat /\ \A s \in Present(rs) : s < last
    <2>1. CASE Present(rs) = {}
      BY <2>1
    <2>2. CASE Present(rs) # {}
      <3>1. Max(Present(rs)) \in Present(rs) /\ \A s \in Present(rs) : s <= Max(Present(rs))
        BY <1>1, <2>2, NFacts, Greatest
      <3>2. \A s \in Present(rs) : s \in Nat
        BY <1>1
      <3> HIDE DEF last
      <3>3. last = 1 + Max(Present(rs))
        BY <2>2 DEF last
      <3> QED BY <3>1, <3>2, <3>3
    <2> QED BY <2>1, <2>2
  <1> HIDE DEF last
  <1>6. Signature(rs) = <<Cardinality(Present(rs)), last, Len(Concat(rs))>>
    BY DEF Signature, last
  <1> QED BY <1>3, <1>4, <1>5, <1>6 DEF NoSignature

\* What a final pass over the first n leaves says the first n.
LEMMA FinalText ==
  ASSUME NEW n \in 1..N, NEW rs, FinalRows(rs, n)
  PROVE  /\ rs \in [Seqs -> Row] /\ Concat(rs) = First(n) /\ First(n) # <<>>
         /\ Signature(rs)[3] = n
  <1>1. n \in Nat /\ n <= N /\ n \in 0..N
    BY NFacts
  <1>2. First(n) \in Sayings /\ First(n) \in Tellings /\ Len(First(n)) = n /\ First(n) # <<>>
    <2>1. First(n) \in Tellings /\ Len(First(n)) = n
      BY <1>1, FirstAndRest
    <2>2. Len(<<>>) = 0 /\ n # 0
      BY <1>1
    <2> QED BY <2>1, <2>2, NFacts
  <1>3. rs \in [Seqs -> Row] /\ Concat(rs) = First(n)
    <2>1. CASE rs = [s \in Seqs |-> IF s < n THEN <<s>> ELSE NoRow]
      <3>1. \A s \in Seqs : s < n => s \in Utterances
        BY <1>1, NFacts DEF Seqs, Utterances
      <3>2. rs \in [Seqs -> Row]
        BY <2>1, <3>1, NFacts DEF Row
      <3>3. LiveRows(rs) /\ HeardOf(rs) = 0 .. n - 1
        <4>1. N \in Seqs /\ ~(N < n) /\ \A s \in Utterances : s \in Seqs
          BY <1>1, NFacts DEF Seqs, Utterances
        <4>2. LiveRows(rs)
          BY <2>1, <4>1 DEF LiveRows
        <4>3. \A s \in Utterances : rs[s] = <<s>> <=> s < n
          BY <2>1, <4>1, NFacts
        <4>4. \A s : s \in 0 .. n - 1 <=> s \in Utterances /\ s < n
          BY <1>1, NFacts DEF Utterances
        <4> QED BY <4>2, <4>3, <4>4 DEF HeardOf
      <3>4. Concat(rs) \in Sayings /\ Increasing(Concat(rs)) /\ ToSet(Concat(rs)) = 0 .. n - 1
        BY <3>2, <3>3, LiveText
      <3> QED BY <3>2, <3>4, NoGap
    <2>2. CASE rs = [s \in Seqs |-> IF s = 0 THEN First(n) ELSE NoRow]
      <3> DEFINE none == [s \in Seqs |-> NoRow]
      <3>1. none \in [Seqs -> Row] /\ \A s \in Seqs : none[s] = NoRow
        BY DEF Row
      <3>2. 0 \in Seqs /\ N \in Seqs /\ \A s \in Utterances : s \in Seqs
        BY NFacts DEF Seqs, Utterances
      <3>3. rs = [none EXCEPT ![0] = First(n)]
        BY <2>2, <3>2
      <3> HIDE DEF none
      <3>4. LiveRows(none) /\ HeardOf(none) = {}
        BY <3>1, <3>2, NFacts DEF LiveRows, HeardOf
      <3>5. Concat(none) = <<>>
        BY <3>1, <3>4, LiveText, SetOfText
      <3>6. rs \in [Seqs -> Row] /\ Concat(rs) = Concat(none) \o First(n)
        BY <1>2, <3>1, <3>2, <3>3, Appended
      <3>7. <<>> \o First(n) = First(n)
        BY <1>2 DEF Sayings
      <3> QED BY <3>5, <3>6, <3>7
    <2> QED BY <2>1, <2>2 DEF FinalRows, Sentences
  <1> QED BY <1>2, <1>3, SignatureFacts

\* Rows of single chunks with the signature of a final pass say what it says.
LEMMA LiveLikeFinal ==
  ASSUME NEW rs \in [Seqs -> Row], LiveRows(rs), NEW n \in 1..N,
         Signature(rs) \in {<<n, n, n>>, <<1, 1, n>>}
  PROVE  Concat(rs) = First(n)
  <1>1. Concat(rs) \in Sayings /\ Increasing(Concat(rs)) /\ ToSet(Concat(rs)) = HeardOf(rs)
    BY LiveText
  <1>2. Cardinality(HeardOf(rs)) = n
    <2>1. Signature(rs)[3] = n
      OBVIOUS
    <2>2. Len(Concat(rs)) = n
      BY <2>1, SignatureFacts
    <2> QED BY <1>1, <2>2, InOrder
  <1>3. HeardOf(rs) \subseteq Present(rs)
    <2>1. \A s \in Utterances : s \in Seqs
      BY NFacts DEF Seqs, Utterances
    <2> QED BY <2>1, NFacts DEF HeardOf, Present
  <1>4. n \in Nat /\ n >= 1
    OBVIOUS
  <1> DEFINE m == Signature(rs)[2]
  <1>5. m \in {n, 1} /\ m \in Nat /\ m <= n
    BY <1>4
  <1>6. HeardOf(rs) \subseteq 0 .. m - 1
    <2>1. \A s \in Present(rs) : s < m
      BY SignatureFacts
    <2>2. \A s \in Present(rs) : s \in Nat
      BY DEF Present, Seqs
    <2> HIDE DEF m
    <2> QED BY <1>3, <1>5, <2>1, <2>2
  <1> HIDE DEF m
  <1>7. IsFiniteSet(0 .. m - 1) /\ Cardinality(0 .. m - 1) = m
    <2>1. Cardinality(0 .. m - 1) = IF 0 > m - 1 THEN 0 ELSE (m - 1) - 0 + 1
      BY <1>5, FS_Interval
    <2>2. m >= 1
      BY <1>4, <1>5
    <2> QED BY <1>5, <2>1, <2>2, FS_Interval
  <1>8. n <= m /\ (n = m => HeardOf(rs) = 0 .. m - 1)
    BY <1>2, <1>6, <1>7, FS_Subset
  <1>9. m = n /\ HeardOf(rs) = 0 .. n - 1
    BY <1>4, <1>5, <1>8
  <1> QED BY <1>1, <1>9, NoGap

LEMMA SuffixOf ==
  ASSUME NEW s \in Sayings, NEW t \in Sayings, IsSuffix(s, t)
  PROVE  /\ Len(s) <= Len(t)
         /\ \A j \in 1 .. Len(s) : s[j] = t[Len(t) - Len(s) + j]
  <1>1. Len(s) \in Nat /\ Len(t) \in Nat
    BY SetOfText
  <1>2. Reverse(s) \in Sayings /\ Len(Reverse(s)) = Len(s)
        /\ \A i \in 1 .. Len(s) : Reverse(s)[i] = s[Len(s) - i + 1]
    BY <1>1 DEF Reverse, Sayings
  <1>3. Reverse(t) \in Sayings /\ Len(Reverse(t)) = Len(t)
        /\ \A i \in 1 .. Len(t) : Reverse(t)[i] = t[Len(t) - i + 1]
    BY <1>1 DEF Reverse, Sayings
  <1>4. Len(s) <= Len(t)
        /\ SubSeq(Reverse(s), 1, Len(s)) = SubSeq(Reverse(t), 1, Len(s))
    BY <1>2, <1>3 DEF IsSuffix, IsPrefix
  <1>5. \A i \in 1 .. Len(s) : Reverse(s)[i] = Reverse(t)[i]
    <2>1. \A i \in 1 .. Len(s) : SubSeq(Reverse(s), 1, Len(s))[i] = Reverse(s)[i]
      BY <1>1, <1>2 DEF Sayings
    <2>2. \A i \in 1 .. Len(s) : SubSeq(Reverse(t), 1, Len(s))[i] = Reverse(t)[i]
      BY <1>1, <1>3, <1>4 DEF Sayings
    <2> QED BY <1>4, <2>1, <2>2
  <1>6. ASSUME NEW j \in 1 .. Len(s) PROVE s[j] = t[Len(t) - Len(s) + j]
    <2> DEFINE i == Len(s) - j + 1
    <2>1. i \in 1 .. Len(s) /\ i \in 1 .. Len(t) /\ Len(s) - i + 1 = j
          /\ Len(t) - i + 1 = Len(t) - Len(s) + j
      BY <1>1, <1>4
    <2> HIDE DEF i
    <2>2. Reverse(s)[i] = s[j] /\ Reverse(t)[i] = t[Len(t) - Len(s) + j]
      BY <1>2, <1>3, <2>1
    <2> QED BY <1>5, <2>1, <2>2
  <1> QED BY <1>4, <1>6

\* The tail that the whole recording adds to rows of single chunks makes them say
\* all from some utterance on.
LEMMA TailText ==
  ASSUME NEW t \in Sayings, Increasing(t), NEW tail \in MissingTails(t, First(N)), tail # <<>>
  PROVE  tail \in Tellings /\ \E a \in Utterances : t \o tail = Rest(a)
  <1> DEFINE b == First(N)
             ends == Ends(t, b)
             laps == Overlaps(t, b)
             known == IF ends # {} THEN ends ELSE laps
  <1>0. /\ b \in Tellings /\ b \in Sayings /\ Len(b) = N /\ \A i \in 1..N : b[i] = i - 1
        /\ N \in Nat /\ N >= 1 /\ Len(t) \in Nat
    <2>1. N \in 0..N
      BY NFacts
    <2> QED BY <2>1, FirstAndRest, NFacts, SetOfText, SMTT(30)
  <1> HIDE DEF b
  <1>1. \/ t = <<>> /\ tail = b
        \/ t # <<>> /\ known # {} /\ tail = SubSeq(b, Max(known) + 1, Len(b))
        \/ t # <<>> /\ known = {} /\ tail = b /\ ~Alike(t, b)
    BY DEF MissingTails, b
  <1>2. CASE t = <<>> /\ tail = b
    <2>1. t \o tail = b
      BY <1>0, <1>2 DEF Sayings
    <2>2. 0 \in Utterances /\ Rest(0) = AllSaid /\ b = AllSaid
      <3>1. 0 \in Utterances
        BY <1>0 DEF Utterances
      <3>2. AllSaid \in Seq(Utterances) /\ Len(AllSaid) = N
        BY <1>0 DEF AllSaid, Utterances
      <3>3. Rest(0) = SubSeq(AllSaid, 1, N)
        BY DEF Rest
      <3> QED BY <3>1, <3>2, <3>3 DEF First, b, Rest
    <2> QED BY <1>0, <1>2, <2>1, <2>2
  <1>3. CASE t # <<>> /\ known # {} /\ tail = SubSeq(b, Max(known) + 1, Len(b))
    <2>1. Len(t) >= 1
      BY <1>0, <1>3 DEF Sayings
    <2>2. ASSUME NEW i \in ends
          PROVE  /\ i \in 0..N /\ Len(t) <= i
                 /\ \A j \in 1 .. Len(t) : t[j] = i - Len(t) + j - 1
      <3>1. i \in 0..N /\ IsSuffix(t, SubSeq(b, 1, i))
        BY <1>0 DEF Ends
      <3>2. SubSeq(b, 1, i) \in Sayings /\ Len(SubSeq(b, 1, i)) = i
            /\ \A j \in 1..i : SubSeq(b, 1, i)[j] = b[j]
        BY <1>0, <3>1 DEF Sayings
      <3>3. Len(t) <= i /\ \A j \in 1 .. Len(t) : t[j] = SubSeq(b, 1, i)[i - Len(t) + j]
        BY <3>1, <3>2, SuffixOf
      <3>4. \A j \in 1 .. Len(t) : i - Len(t) + j \in 1..i /\ i - Len(t) + j \in 1..N
        BY <1>0, <3>1, <3>3
      <3>5. ASSUME NEW j \in 1 .. Len(t) PROVE t[j] = i - Len(t) + j - 1
        <4> DEFINE k == i - Len(t) + j
        <4>1. k \in 1..i /\ k \in 1..N
          BY <3>4
        <4>2. t[j] = SubSeq(b, 1, i)[k]
          BY <3>3
        <4> HIDE DEF k
        <4>3. t[j] = k - 1
          BY <1>0, <3>2, <4>1, <4>2
        <4> QED BY <1>0, <3>1, <4>3 DEF k
      <3> QED BY <3>1, <3>3, <3>5
    <2>3. ends # {}
      <3> SUFFICES ASSUME NEW k \in laps PROVE k \in ends
        BY <1>3
      <3>1. k \in 1..N /\ IsSuffix(SubSeq(b, 1, k), t)
        BY <1>0 DEF Overlaps
      <3>2. SubSeq(b, 1, k) \in Sayings /\ Len(SubSeq(b, 1, k)) = k
            /\ \A j \in 1..k : SubSeq(b, 1, k)[j] = b[j]
        BY <1>0, <3>1 DEF Sayings
      <3>3. k <= Len(t) /\ \A j \in 1..k : b[j] = t[Len(t) - k + j]
        <4> DEFINE p == SubSeq(b, 1, k)
        <4>1. p \in Sayings /\ Len(p) = k /\ IsSuffix(p, t) /\ \A j \in 1..k : p[j] = b[j]
          BY <3>1, <3>2
        <4> HIDE DEF p
        <4>2. Len(p) <= Len(t) /\ \A j \in 1 .. Len(p) : p[j] = t[Len(t) - Len(p) + j]
          BY <4>1, SuffixOf
        <4> QED BY <4>1, <4>2
      <3>4. k = Len(t)
        <4> SUFFICES ASSUME k < Len(t) PROVE FALSE
          BY <1>0, <3>1, <3>3
        <4>1. t[Len(t) - k + 1] = 0
          BY <1>0, <3>1, <3>3
        <4>2. Len(t) - k + 1 \in 1 .. Len(t) /\ 1 \in 1 .. Len(t) /\ 1 < Len(t) - k + 1
          BY <1>0, <3>1
        <4>3. t[1] < t[Len(t) - k + 1]
          BY <4>2 DEF Increasing
        <4>4. t[1] \in Nat
          BY <4>2, SetOfText
        <4> QED BY <4>1, <4>3, <4>4
      <3>5. t = SubSeq(b, 1, k)
        <4>1. \A j \in 1..k : t[j] = b[j]
          BY <1>0, <3>1, <3>3, <3>4
        <4> QED BY <3>2, <3>4, <4>1, SeqEqual DEF Sayings
      <3>6. IsSuffix(t, SubSeq(b, 1, k))
        BY <3>1, <3>5
      <3> QED BY <1>0, <3>1, <3>6 DEF Ends
    <2>4. Max(ends) \in ends
      <3>1. ends \in SUBSET (0..N)
        BY <1>0 DEF Ends
      <3> HIDE DEF ends
      <3> QED BY <1>0, <2>3, <3>1, Greatest
    <2> DEFINE i == Max(ends)
               a == i - Len(t)
    <2>5. tail = SubSeq(b, i + 1, N)
      BY <1>0, <1>3, <2>3
    <2>6. i \in 0..N /\ Len(t) <= i /\ \A j \in 1 .. Len(t) : t[j] = i - Len(t) + j - 1
      BY <2>2, <2>4
    <2> HIDE DEF i, ends
    <2>7. tail = [j \in 1 .. N - i |-> b[i + j]]
      <3>1. tail = [j \in 1 .. (N - (i + 1) + 1) |-> b[(i + 1) + j - 1]]
        BY <1>0, <2>5, <2>6 DEF Sayings
      <3> QED BY <1>0, <2>6, <3>1
    <2>8. \A j \in 1 .. N - i : b[i + j] = i + j - 1 /\ b[i + j] \in Utterances
      BY <1>0, <2>6 DEF Utterances
    <2>9. tail \in [1 .. N - i -> Utterances] /\ N - i \in 0 .. 2 * N
      <3>1. N - i \in 0 .. 2 * N
        BY <1>0, <2>6
      <3>2. [j \in 1 .. N - i |-> b[i + j]] \in [1 .. N - i -> Utterances]
        BY <2>8
      <3> QED BY <2>7, <3>1, <3>2
    <2>10. tail \in Tellings /\ tail \in Sayings /\ Len(tail) = N - i
      <3>1. tail \in Tellings
        BY <2>9 DEF Tellings
      <3>2. Len(tail) = N - i
        BY <2>9
      <3> QED BY <3>1, <3>2, NFacts
    <2>11. N - i # 0
      <3>1. N - i = 0 => tail = <<>>
        BY <2>10 DEF Sayings
      <3> QED BY <3>1
    <2>12. a \in Utterances
      BY <1>0, <2>6, <2>11, <2>1 DEF Utterances
    <2>13. t \o tail = Rest(a)
      <3> DEFINE e == t \o tail
      <3>1. e \in Sayings /\ Len(e) = Len(t) + (N - i)
        BY <1>0, <2>10 DEF Sayings
      <3>2. \A j \in 1 .. Len(t) : e[j] = t[j]
        BY <2>10 DEF Sayings
      <3>3. \A j \in 1 .. N - i : e[Len(t) + j] = tail[j]
        BY <2>10 DEF Sayings
      <3> HIDE DEF e
      <3>4. ASSUME NEW j \in 1 .. N - a PROVE e[j] = a + j - 1
        <4>1. CASE j <= Len(t)
          BY <1>0, <2>6, <3>2, <4>1
        <4>2. CASE j > Len(t)
          <5>1. j - Len(t) \in 1 .. N - i
            BY <1>0, <2>6, <4>2
          <5>2. e[Len(t) + (j - Len(t))] = tail[j - Len(t)]
            BY <3>3, <5>1
          <5>3. tail[j - Len(t)] = i + (j - Len(t)) - 1
            BY <2>7, <2>8, <5>1
          <5> QED BY <1>0, <2>6, <5>2, <5>3
        <4> QED BY <1>0, <2>6, <4>1, <4>2
      <3>5. Len(e) = N - a
        BY <1>0, <2>6, <3>1
      <3>6. Rest(a) \in Sayings /\ Len(Rest(a)) = N - a /\ \A j \in 1 .. N - a : Rest(a)[j] = a + j - 1
        BY <2>12, FirstAndRest, NFacts
      <3> HIDE DEF a
      <3>7. e = Rest(a)
        BY <3>1, <3>4, <3>5, <3>6, SeqEqual DEF Sayings
      <3> QED BY <3>7 DEF e
    <2> QED BY <2>10, <2>12, <2>13
  <1>4. CASE t # <<>> /\ known = {} /\ tail = b /\ ~Alike(t, b)
    <2>1. ToSet(t) \subseteq Utterances
      BY SetOfText
    <2>2. Utterances \subseteq ToSet(b)
      <3> SUFFICES ASSUME NEW u \in Utterances PROVE u \in ToSet(b)
        OBVIOUS
      <3>1. u + 1 \in 1..N /\ b[u + 1] = u
        BY <1>0 DEF Utterances
      <3> QED BY <1>0, <3>1, SetOfText
    <2> QED BY <1>4, <2>1, <2>2 DEF Alike
  <1> QED BY <1>1, <1>2, <1>3, <1>4

-----------------------------------------------------------------------------
(* Types. *)

LEMMA TailType ==
  ASSUME NEW t \in Sayings, NEW n \in 0..N, NEW tail \in MissingTails(t, First(n))
  PROVE  tail \in Tellings
  <1> DEFINE b == First(n)
             known == IF Ends(t, b) # {} THEN Ends(t, b) ELSE Overlaps(t, b)
  <1>1. b \in Tellings /\ b \in Sayings /\ Len(b) = n /\ n \in Nat /\ N \in Nat
    BY FirstAndRest, NFacts
  <1> HIDE DEF b
  <1>2. \/ tail = b \/ tail = <<>>
        \/ known # {} /\ tail = SubSeq(b, Max(known) + 1, Len(b))
    BY DEF MissingTails, b
  <1>3. CASE known # {} /\ tail = SubSeq(b, Max(known) + 1, Len(b))
    <2>1. known \in SUBSET (0..n)
      BY <1>1 DEF Ends, Overlaps
    <2> DEFINE i == Max(known)
    <2>2. i \in 0..n
      <3> HIDE DEF known
      <3> QED BY <1>1, <1>3, <2>1, Greatest
    <2> HIDE DEF i
    <2>3. tail = [j \in 1 .. n - i |-> b[i + j]]
      <3>1. tail = SubSeq(b, i + 1, n)
        BY <1>1, <1>3 DEF i
      <3>2. tail = [j \in 1 .. (n - (i + 1) + 1) |-> b[(i + 1) + j - 1]]
        BY <1>1, <2>2, <3>1 DEF Sayings
      <3> QED BY <1>1, <2>2, <3>2
    <2>4. \A j \in 1 .. n - i : b[i + j] \in Utterances
      BY <1>1, <2>2, SetOfText
    <2>5. n - i \in 0 .. 2 * N
      BY <1>1, <2>2
    <2>6. [j \in 1 .. n - i |-> b[i + j]] \in [1 .. n - i -> Utterances]
      BY <2>4
    <2> QED BY <2>3, <2>5, <2>6 DEF Tellings
  <1> QED BY <1>1, <1>2, <1>3, NFacts

LEMMA FinalType ==
  ASSUME NEW n \in 0..N, NEW rs \in Sentences(n)
  PROVE  rs \in [Seqs -> Row]
  <1>1. First(n) \in Tellings
    BY FirstAndRest
  <1>2. \A s \in Seqs : s < n => s \in Utterances
    BY NFacts DEF Seqs, Utterances
  <1> QED BY <1>1, <1>2, NFacts DEF Sentences, Row

LEMMA MaterializedType ==
  ASSUME BuildTypes
  PROVE  Materialized \in 0..N
  BY NFacts DEF BuildTypes, Materialized

LEMMA InitTypes == BuildInit => TextInv
  <1> SUFFICES ASSUME BuildInit PROVE TextInv
    OBVIOUS
  <1>1. NoRequest \in RequestTypes /\ NoRequest.at = "idle"
    BY NFacts DEF NoRequest, RequestTypes, Steps, NoSignature
  <1>2. \A r \in Builds : build[r] = NoRequest
    BY DEF BuildInit
  <1>3. BuildTypes
    <2>1. rows \in [Seqs -> Row]
      BY DEF BuildInit, Row
    <2>2. cache \in [text : {NoFile} \cup Sayings, sig : {NoSignature} \cup (Nat \X Nat \X Nat)]
      BY DEF BuildInit
    <2>3. build \in [Builds -> RequestTypes]
      BY <1>1 DEF BuildInit
    <2>4. used \in [faults : Nat, asks : Nat, late : BOOLEAN, early : BOOLEAN, mixed : BOOLEAN]
      BY DEF BuildInit
    <2>5. {source, mp3} \subseteq 0..N
      BY NFacts DEF BuildInit
    <2> QED BY <2>1, <2>2, <2>3, <2>4, <2>5 DEF BuildTypes, BuildInit
  <1>4. LockInv
    BY <1>1, <1>2 DEF LockInv, Locked
  <1>5. WholeInv
    BY <1>1, <1>2 DEF WholeInv, NoRequest
  <1>6. Pairs = {}
    BY <1>1, <1>2 DEF Pairs, Holding, CacheHolds, BuildInit
  <1>7. LiveRows(rows)
    BY NFacts DEF LiveRows, BuildInit, Seqs, Utterances
  <1>8. RowsInv
    <2>1. \A s \in Seqs : rows[s] = NoRow
      BY DEF BuildInit
    <2> QED BY <1>1, <1>2, <1>6, <1>7, <2>1 DEF RowsInv, Early, RowsAre, AtWork
  <1>9. PairsInv
    BY <1>6 DEF PairsInv, PairsAre
  <1>10. CacheInv
    BY <1>1, <1>2, NFacts DEF CacheInv, BuildInit
  <1> QED BY <1>3, <1>4, <1>5, <1>8, <1>9, <1>10 DEF TextInv

\* A step that changes one request at most.
LEMMA OneRequest ==
  ASSUME BuildTypes, NEW r \in Builds, NEW b \in RequestTypes, build' = [build EXCEPT ![r] = b]
  PROVE  /\ build' \in [Builds -> RequestTypes] /\ build'[r] = b
         /\ \A q \in Builds : q # r => build'[q] = build[q]
  BY DEF BuildTypes

\* The parts of a request.
LEMMA RequestParts ==
  ASSUME BuildTypes, NEW r \in Builds
  PROVE  /\ build[r] \in RequestTypes /\ build[r].at \in Steps /\ build[r].full \in BOOLEAN
         /\ build[r].had \in BOOLEAN /\ build[r].heard \in 0..N /\ build[r].said \in Sayings
         /\ build[r].sig \in {NoSignature} \cup (Nat \X Nat \X Nat) /\ build[r].clean \in Sayings
  BY DEF BuildTypes, RequestTypes

LEMMA GotoTypes ==
  ASSUME BuildTypes, NEW r \in Builds, NEW at \in Steps, GoesTo(r, at)
  PROVE  /\ build' \in [Builds -> RequestTypes]
         /\ build'[r] = [build[r] EXCEPT !.at = at]
         /\ \A q \in Builds : q # r => build'[q] = build[q]
  <1>1. [build[r] EXCEPT !.at = at] \in RequestTypes
    BY RequestParts DEF RequestTypes
  <1>2. build' = [build EXCEPT ![r] = [build[r] EXCEPT !.at = at]]
    BY DEF GoesTo
  <1> QED BY <1>1, <1>2, OneRequest

LEMMA ReleaseTypes ==
  ASSUME BuildTypes, NEW r \in Builds, NEW at \in Steps, Release(r, at)
  PROVE  /\ build' \in [Builds -> RequestTypes]
         /\ build'[r] = [build[r] EXCEPT !.at = at, !.heard = 0, !.had = FALSE]
         /\ \A q \in Builds : q # r => build'[q] = build[q]
         /\ holder' = {}
  <1>1. [build[r] EXCEPT !.at = at, !.heard = 0, !.had = FALSE] \in RequestTypes
    <2>1. 0 \in 0..N
      BY NFacts
    <2> QED BY <2>1, RequestParts DEF RequestTypes
  <1>2. build' = [build EXCEPT ![r] = [build[r] EXCEPT !.at = at, !.heard = 0, !.had = FALSE]]
    BY DEF Release, BuildTypes
  <1> QED BY <1>1, <1>2, OneRequest DEF Release

LEMMA UsedTypes ==
  ASSUME BuildTypes,
         \/ UNCHANGED used
         \/ CountFault
         \/ used' = [used EXCEPT !.late = @ \/ finished]
         \/ used' = [used EXCEPT !.asks = @ + 1]
         \/ \E b \in BOOLEAN : used' = [used EXCEPT !.early = b]
         \/ \E b \in BOOLEAN : used' = [used EXCEPT !.mixed = b]
  PROVE  used' \in [faults : Nat, asks : Nat, late : BOOLEAN, early : BOOLEAN, mixed : BOOLEAN]
  BY DEF BuildTypes, CountFault

LEMMA TypesOfInputs ==
  ASSUME BuildTypes, \/ \E c \in Streamed : LiveChunk(c)
                     \/ Upload \/ UploadDone \/ Finish \/ FinishDone
  PROVE  BuildTypes'
  <1>1. ASSUME NEW c \in Streamed, LiveChunk(c) PROVE BuildTypes'
    <2>1. c \in Utterances
      BY BuildAssumption DEF Utterances
    <2>2. PICK words \in {<<>>, <<c>>} : rows' = [rows EXCEPT ![c] = words] \/ UNCHANGED rows
      BY <1>1 DEF LiveChunk
    <2>3. words \in Row
      BY <2>1, NFacts DEF Row
    <2>4. rows' \in [Seqs -> Row]
      BY <2>2, <2>3 DEF BuildTypes
    <2>5. used' \in [faults : Nat, asks : Nat, late : BOOLEAN, early : BOOLEAN, mixed : BOOLEAN]
      BY <1>1, UsedTypes DEF LiveChunk
    <2> QED BY <1>1, <2>4, <2>5 DEF BuildTypes, LiveChunk
  <1>2. ASSUME Upload PROVE BuildTypes'
    BY <1>2, NFacts DEF BuildTypes, Upload
  <1>3. ASSUME Materialize PROVE mp3' \in 0..N /\ used' \in
          [faults : Nat, asks : Nat, late : BOOLEAN, early : BOOLEAN, mixed : BOOLEAN]
    BY <1>3, MaterializedType, UsedTypes DEF BuildTypes, Materialize
  <1>4. ASSUME UploadDone PROVE BuildTypes'
    BY <1>3, <1>4 DEF BuildTypes, UploadDone, inputs
  <1>5. ASSUME Finish PROVE BuildTypes'
    BY <1>5 DEF BuildTypes, Finish
  <1>6. ASSUME FinishDone PROVE BuildTypes'
    BY <1>3, <1>6 DEF BuildTypes, FinishDone
  <1> QED BY <1>1, <1>2, <1>4, <1>5, <1>6

LEMMA TypesOfRows ==
  ASSUME BuildTypes, NEW r \in Builds,
         \/ Listen(r) \/ CommitFinal(r) \/ Retell(r) \/ Recover(r)
  PROVE  BuildTypes'
  <1>0. {"read", "commit", "retell", "recover"} \subseteq Steps
    BY DEF Steps
  <1>1. CASE Listen(r)
    <2>1. mp3' \in 0..N
      BY <1>1, MaterializedType DEF Listen, BuildTypes
    <2>2. used' \in [faults : Nat, asks : Nat, late : BOOLEAN, early : BOOLEAN, mixed : BOOLEAN]
      BY <1>1, UsedTypes DEF Listen
    <2>3. \/ Release(r, "read") \/ GoesTo(r, "retell") \/ \E n \in 0..N : Heard(r, n)
      BY <1>1, <2>1 DEF Listen, NotHeard, BuildTypes
    <2>4. ASSUME NEW n \in 0..N, Heard(r, n) PROVE build' \in [Builds -> RequestTypes]
      <3>1. [build[r] EXCEPT !.at = "commit", !.heard = n] \in RequestTypes
        BY RequestParts, <1>0 DEF RequestTypes
      <3>2. build' = [build EXCEPT ![r] = [build[r] EXCEPT !.at = "commit", !.heard = n]]
        BY <2>4 DEF Heard, BuildTypes
      <3> QED BY <3>1, <3>2, OneRequest
    <2>5. build' \in [Builds -> RequestTypes]
      BY <1>0, <2>3, <2>4, GotoTypes, ReleaseTypes
    <2> QED BY <1>1, <2>1, <2>2, <2>5 DEF Listen, BuildTypes, inputs
  <1>2. CASE CommitFinal(r)
    <2>1. rows' \in [Seqs -> Row]
      BY <1>2, RequestParts, FinalType DEF CommitFinal
    <2>2. build' \in [Builds -> RequestTypes]
      BY <1>0, <1>2, ReleaseTypes DEF CommitFinal
    <2> QED BY <1>2, <2>1, <2>2 DEF CommitFinal, BuildTypes, inputs
  <1>3. CASE Retell(r)
    <2>1. PICK heard \in SUBSET (Present(rows) \cap got) :
            rows' = [s \in Seqs |-> IF s \in heard THEN <<s>> ELSE rows[s]]
      BY <1>3 DEF Retell
    <2>2. \A s \in heard : <<s>> \in Row
      BY BuildAssumption, NFacts DEF BuildTypes, Utterances, Row
    <2>3. rows' \in [Seqs -> Row]
      BY <2>1, <2>2 DEF BuildTypes
    <2>4. build' \in [Builds -> RequestTypes]
      BY <1>0, <1>3, GotoTypes DEF Retell
    <2> QED BY <1>3, <2>3, <2>4 DEF Retell, BuildTypes, inputs
  <1>4. CASE Recover(r)
    <2> DEFINE n == IF mp3 # 0 THEN mp3 ELSE source
    <2>1. n \in 0..N
      BY DEF BuildTypes
    <2>2. \/ \E tail \in MissingTails(Concat(rows), First(n)) :
               /\ rows' = IF tail = <<>> THEN rows ELSE [rows EXCEPT ![NextSeq] = tail]
               /\ used' = [used EXCEPT !.early = @ \/ (tail # <<>> /\ n < N)]
          \/ UNCHANGED rows /\ CountFault
      BY <1>4 DEF Recover
    <2> HIDE DEF n
    <2>3. ASSUME NEW tail \in MissingTails(Concat(rows), First(n))
          PROVE  /\ tail \in Row
                 /\ (used.early \/ (tail # <<>> /\ n < N)) \in BOOLEAN
      <3>1. Concat(rows) \in Sayings
        BY ConcatType DEF BuildTypes
      <3> QED BY <2>1, <3>1, TailType DEF Row, BuildTypes
    <2>4. rows' \in [Seqs -> Row]
      BY <2>2, <2>3 DEF BuildTypes
    <2>5. \/ CountFault \/ \E b \in BOOLEAN : used' = [used EXCEPT !.early = b]
      BY <2>2, <2>3
    <2>6. used' \in [faults : Nat, asks : Nat, late : BOOLEAN, early : BOOLEAN, mixed : BOOLEAN]
      BY <2>5, UsedTypes
    <2>7. build' \in [Builds -> RequestTypes]
      BY <1>0, <1>4, ReleaseTypes DEF Recover
    <2> QED BY <1>4, <2>4, <2>6, <2>7 DEF Recover, BuildTypes, inputs
  <1> QED BY <1>1, <1>2, <1>3, <1>4

LEMMA TypesOfTexts ==
  ASSUME BuildTypes, NEW r \in Builds,
         \/ AskTexts(r) \/ Clear(r) \/ LookReady(r) \/ LookFinal(r)
         \/ ReadRows(r) \/ Tidy(r) \/ WriteMeta(r) \/ WriteRaw(r) \/ WriteClean(r)
  PROVE  BuildTypes'
  <1>0. Steps = {"idle", "clear", "wait", "listen", "commit", "retell", "recover",
                 "read", "tidy", "meta", "row", "clean", "answered"}
    BY DEF Steps
  <1>1. CASE AskTexts(r)
    <2>1. PICK at \in {"clear", "wait"} :
            build' = [build EXCEPT ![r] = [NoRequest EXCEPT !.at = at]]
      BY <1>1 DEF AskTexts
    <2>2. [NoRequest EXCEPT !.at = at] \in RequestTypes
      <3>1. 0 \in 0..N /\ <<>> \in Sayings
        BY NFacts
      <3> QED BY <1>0, <3>1 DEF NoRequest, NoSignature, RequestTypes
    <2>3. build' \in [Builds -> RequestTypes]
      BY <2>1, <2>2, OneRequest
    <2>4. used' \in [faults : Nat, asks : Nat, late : BOOLEAN, early : BOOLEAN, mixed : BOOLEAN]
      BY <1>1, UsedTypes DEF AskTexts
    <2> QED BY <1>1, <2>3, <2>4 DEF AskTexts, BuildTypes, inputs
  <1>2. CASE Clear(r)
    <2>1. build' \in [Builds -> RequestTypes]
      BY <1>0, <1>2, GotoTypes DEF Clear
    <2>2. cache' \in [text : {NoFile} \cup Sayings, sig : {NoSignature} \cup (Nat \X Nat \X Nat)]
      BY <1>2 DEF Clear
    <2>3. DOMAIN results' = {"raw", "clean"}
      BY <1>2 DEF Clear, BuildTypes
    <2> QED BY <1>2, <2>1, <2>2, <2>3 DEF Clear, BuildTypes, inputs
  <1>3. CASE LookReady(r) \/ LookFinal(r)
    <2>1. Due \in BOOLEAN /\ HasText \in BOOLEAN
      BY DEF Due, HasText, NoText
    <2>2. \/ build' = [build EXCEPT ![r] = [build[r] EXCEPT !.at = "read", !.full = Due]]
          \/ build' = [build EXCEPT ![r] =
                         [build[r] EXCEPT !.at = "listen", !.had = HasText, !.full = Due]]
      BY <1>3 DEF LookReady, LookFinal, BuildTypes
    <2>3. /\ [build[r] EXCEPT !.at = "read", !.full = Due] \in RequestTypes
          /\ [build[r] EXCEPT !.at = "listen", !.had = HasText, !.full = Due] \in RequestTypes
      BY <1>0, <2>1, RequestParts DEF RequestTypes
    <2>4. build' \in [Builds -> RequestTypes]
      BY <2>2, <2>3, OneRequest
    <2> QED BY <1>3, <2>4 DEF LookReady, LookFinal, BuildTypes, inputs
  <1>4. CASE ReadRows(r)
    <2>1. Concat(rows) \in Sayings /\ Signature(rows) \in Nat \X Nat \X Nat
      BY ConcatType, SignatureFacts DEF BuildTypes
    <2> DEFINE b == [build[r] EXCEPT !.at = "tidy", !.said = Concat(rows), !.sig = Signature(rows)]
    <2>2. build' = [build EXCEPT ![r] = b]
      BY <1>4 DEF ReadRows, BuildTypes
    <2>3. b \in RequestTypes
      BY <1>0, <2>1, RequestParts DEF RequestTypes
    <2> HIDE DEF b
    <2>4. build' \in [Builds -> RequestTypes]
      BY <2>2, <2>3, OneRequest
    <2> QED BY <1>4, <2>4 DEF ReadRows, BuildTypes, inputs
  <1>5. CASE Tidy(r)
    <2>1. used' \in [faults : Nat, asks : Nat, late : BOOLEAN, early : BOOLEAN, mixed : BOOLEAN]
      <3>1. (used.mixed \/ \E q \in Builds : build[q].at = "meta") \in BOOLEAN
        BY DEF BuildTypes
      <3> QED BY <1>5, <3>1, UsedTypes DEF Tidy
    <2>2. build' \in [Builds -> RequestTypes] /\ cache' \in
            [text : {NoFile} \cup Sayings, sig : {NoSignature} \cup (Nat \X Nat \X Nat)]
      <3>1. CASE /\ build[r].said = <<>> \/ TextCached(r)
                 /\ build' = [build EXCEPT ![r].at = "row", ![r].sig = NoSignature,
                      ![r].clean = IF build[r].said = <<>> THEN <<>> ELSE cache.text]
                 /\ UNCHANGED cache
        <4> DEFINE t == IF build[r].said = <<>> THEN <<>> ELSE cache.text
                   b == [build[r] EXCEPT !.at = "row", !.sig = NoSignature, !.clean = t]
        <4>1. t \in Sayings
          BY <3>1, NFacts DEF TextCached, BuildTypes
        <4>2. build' = [build EXCEPT ![r] = b]
          BY <3>1 DEF BuildTypes
        <4> HIDE DEF t
        <4>3. b \in RequestTypes
          BY <1>0, <4>1, RequestParts DEF RequestTypes
        <4> HIDE DEF b
        <4> QED BY <3>1, <4>2, <4>3, OneRequest DEF BuildTypes
      <3>2. CASE /\ build' = [build EXCEPT ![r].at = "meta", ![r].clean = build[r].said]
                 /\ cache' = [cache EXCEPT !.text = build[r].said]
        <4> DEFINE b == [build[r] EXCEPT !.at = "meta", !.clean = build[r].said]
        <4>1. build' = [build EXCEPT ![r] = b]
          BY <3>2 DEF BuildTypes
        <4>2. b \in RequestTypes
          BY <1>0, RequestParts DEF RequestTypes
        <4> HIDE DEF b
        <4>3. cache' \in [text : {NoFile} \cup Sayings, sig : {NoSignature} \cup (Nat \X Nat \X Nat)]
          BY <3>2, RequestParts DEF BuildTypes
        <4> QED BY <4>1, <4>2, <4>3, OneRequest
      <3> QED BY <1>5, <3>1, <3>2 DEF Tidy
    <2> QED BY <1>5, <2>1, <2>2 DEF Tidy, BuildTypes, inputs
  <1>6. CASE WriteMeta(r)
    <2> DEFINE b == [build[r] EXCEPT !.at = "row", !.sig = NoSignature]
    <2>1. build' = [build EXCEPT ![r] = b]
      BY <1>6 DEF WriteMeta, BuildTypes
    <2>2. b \in RequestTypes
      BY <1>0, RequestParts DEF RequestTypes
    <2> HIDE DEF b
    <2>3. cache' \in [text : {NoFile} \cup Sayings, sig : {NoSignature} \cup (Nat \X Nat \X Nat)]
      BY <1>6, RequestParts DEF WriteMeta, BuildTypes
    <2>4. build' \in [Builds -> RequestTypes]
      BY <2>1, <2>2, OneRequest
    <2> QED BY <1>6, <2>3, <2>4 DEF WriteMeta, BuildTypes, inputs
  <1>7. CASE WriteRaw(r)
    <2>1. build' \in [Builds -> RequestTypes]
      BY <1>0, <1>7, GotoTypes DEF WriteRaw
    <2>2. DOMAIN results' = {"raw", "clean"}
      BY <1>7 DEF WriteRaw, BuildTypes
    <2> QED BY <1>7, <2>1, <2>2 DEF WriteRaw, BuildTypes, inputs
  <1>8. CASE WriteClean(r)
    <2>1. build' \in [Builds -> RequestTypes]
      BY <1>0, <1>8, GotoTypes DEF WriteClean
    <2>2. DOMAIN results' = {"raw", "clean"}
      BY <1>8 DEF WriteClean, BuildTypes
    <2> QED BY <1>8, <2>1, <2>2 DEF WriteClean, BuildTypes, inputs
  <1> QED BY <1>1, <1>2, <1>3, <1>4, <1>5, <1>6, <1>7, <1>8

-----------------------------------------------------------------------------
(* What each step does to the request that takes it. *)

Others(r) == \A q \in Builds : q # r => build'[q] = build[q]

LEMMA AskMoves ==
  ASSUME BuildTypes, NEW r \in Builds, AskTexts(r)
  PROVE  /\ Others(r) /\ build[r].at \in {"idle", "answered"}
         /\ build'[r].at \in {"clear", "wait"} /\ build'[r].full = FALSE
  <1>1. PICK at \in {"clear", "wait"} :
          build' = [build EXCEPT ![r] = [NoRequest EXCEPT !.at = at]]
    BY DEF AskTexts
  <1> QED BY <1>1 DEF AskTexts, BuildTypes, Others, NoRequest

LEMMA ClearMoves ==
  ASSUME BuildTypes, NEW r \in Builds, Clear(r)
  PROVE  /\ Others(r) /\ build[r].at = "clear"
         /\ build'[r] = [build[r] EXCEPT !.at = "wait"]
  BY GotoTypes DEF Clear, Others, Steps

LEMMA ReadyMoves ==
  ASSUME BuildTypes, NEW r \in Builds, LookReady(r)
  PROVE  /\ Others(r) /\ build[r].at = "wait"
         /\ build'[r] = [build[r] EXCEPT !.at = "read", !.full = Due]
  BY DEF LookReady, BuildTypes, Others

LEMMA FinalMoves ==
  ASSUME BuildTypes, NEW r \in Builds, LookFinal(r)
  PROVE  /\ Others(r) /\ build[r].at = "wait"
         /\ build'[r] = [build[r] EXCEPT !.at = "listen", !.had = HasText, !.full = Due]
  BY DEF LookFinal, BuildTypes, Others

LEMMA HeardMoves ==
  ASSUME BuildTypes, NEW r \in Builds, NEW n, Heard(r, n)
  PROVE  /\ Others(r) /\ holder' = holder
         /\ build'[r] = [build[r] EXCEPT !.at = "commit", !.heard = n]
  BY DEF Heard, BuildTypes, Others

LEMMA NotHeardMoves ==
  ASSUME BuildTypes, NEW r \in Builds, NotHeard(r)
  PROVE  /\ Others(r)
         /\ \/ /\ build[r].had /\ holder' = {}
               /\ build'[r] = [build[r] EXCEPT !.at = "read", !.heard = 0, !.had = FALSE]
            \/ /\ ~build[r].had /\ holder' = holder
               /\ build'[r] = [build[r] EXCEPT !.at = "retell"]
  BY GotoTypes, ReleaseTypes DEF NotHeard, Others, Steps

LEMMA ListenMoves ==
  ASSUME BuildTypes, NEW r \in Builds, Listen(r)
  PROVE  /\ build[r].at = "listen" /\ mp3' \in {mp3, Materialized}
         /\ \/ mp3' = Materialized /\ mp3' # 0 /\ Heard(r, mp3')
            \/ used.faults # used'.faults /\ mp3' = 0 /\ source > 0 /\ Heard(r, source)
            \/ NotHeard(r) /\ (used.faults # used'.faults \/ (mp3' = Materialized /\ mp3' = 0))
  BY DEF Listen, CountFault, BuildTypes

LEMMA CommitMoves ==
  ASSUME BuildTypes, NEW r \in Builds, CommitFinal(r)
  PROVE  /\ Others(r) /\ build[r].at = "commit" /\ holder' = {}
         /\ build'[r] = [build[r] EXCEPT !.at = "read", !.heard = 0, !.had = FALSE]
         /\ FinalRows(rows', build[r].heard)
  BY ReleaseTypes DEF CommitFinal, Others, Steps, FinalRows

LEMMA RetellMoves ==
  ASSUME BuildTypes, NEW r \in Builds, Retell(r)
  PROVE  /\ Others(r) /\ build[r].at = "retell"
         /\ build'[r] = [build[r] EXCEPT !.at = "recover"]
  BY GotoTypes DEF Retell, Others, Steps

LEMMA RecoverMoves ==
  ASSUME BuildTypes, NEW r \in Builds, Recover(r)
  PROVE  /\ Others(r) /\ build[r].at = "recover" /\ holder' = {}
         /\ build'[r] = [build[r] EXCEPT !.at = "read", !.heard = 0, !.had = FALSE]
  BY ReleaseTypes DEF Recover, Others, Steps

LEMMA ReadMoves ==
  ASSUME BuildTypes, NEW r \in Builds, ReadRows(r)
  PROVE  /\ Others(r) /\ build[r].at = "read"
         /\ build'[r] = [build[r] EXCEPT !.at = "tidy", !.said = Concat(rows),
                                         !.sig = Signature(rows)]
  BY DEF ReadRows, BuildTypes, Others

LEMMA TidyMoves ==
  ASSUME BuildTypes, NEW r \in Builds, Tidy(r)
  PROVE  /\ Others(r) /\ build[r].at = "tidy"
         /\ \/ /\ cache' = cache /\ (build[r].said = <<>> \/ TextCached(r))
               /\ build'[r] = [build[r] EXCEPT !.at = "row", !.sig = NoSignature,
                    !.clean = IF build[r].said = <<>> THEN <<>> ELSE cache.text]
            \/ /\ build[r].said # <<>> /\ ~TextCached(r)
               /\ cache' = [cache EXCEPT !.text = build[r].said]
               /\ build'[r] = [build[r] EXCEPT !.at = "meta", !.clean = build[r].said]
         /\ used'.mixed = (used.mixed \/ \E q \in Builds : build[q].at = "meta")
         /\ used'.faults = used.faults /\ used'.late = used.late /\ used'.early = used.early
  <1>1. /\ used'.mixed = (used.mixed \/ \E q \in Builds : build[q].at = "meta")
        /\ used'.faults = used.faults /\ used'.late = used.late /\ used'.early = used.early
    BY DEF Tidy, BuildTypes
  <1>2. build[r].at = "tidy"
    BY DEF Tidy
  <1>3. \/ /\ cache' = cache /\ (build[r].said = <<>> \/ TextCached(r))
           /\ build' = [build EXCEPT ![r].at = "row", ![r].sig = NoSignature,
                   ![r].clean = IF build[r].said = <<>> THEN <<>> ELSE cache.text]
        \/ /\ build[r].said # <<>> /\ ~TextCached(r)
           /\ cache' = [cache EXCEPT !.text = build[r].said]
           /\ build' = [build EXCEPT ![r].at = "meta", ![r].clean = build[r].said]
    BY DEF Tidy
  <1> QED BY <1>1, <1>2, <1>3 DEF BuildTypes, Others

LEMMA MetaMoves ==
  ASSUME BuildTypes, NEW r \in Builds, WriteMeta(r)
  PROVE  /\ Others(r) /\ build[r].at = "meta"
         /\ build'[r] = [build[r] EXCEPT !.at = "row", !.sig = NoSignature]
         /\ cache' = [cache EXCEPT !.sig = build[r].sig]
  BY DEF WriteMeta, BuildTypes, Others

LEMMA RawMoves ==
  ASSUME BuildTypes, NEW r \in Builds, WriteRaw(r)
  PROVE  /\ Others(r) /\ build[r].at = "row"
         /\ build'[r] = [build[r] EXCEPT !.at = "clean"]
  BY GotoTypes DEF WriteRaw, Others, Steps

LEMMA CleanMoves ==
  ASSUME BuildTypes, NEW r \in Builds, WriteClean(r)
  PROVE  /\ Others(r) /\ build[r].at = "clean"
         /\ build'[r] = [build[r] EXCEPT !.at = "answered"]
  BY GotoTypes DEF WriteClean, Others, Steps

\* Who has the meeting's lock is alone with it, and the meeting has finished.
LEMMA LockKept ==
  ASSUME BuildTypes, LockInv, BuildNext
  PROVE  LockInv'
  <1>1. ASSUME build' = build, holder' = holder, finished => finished' PROVE LockInv'
    BY <1>1 DEF LockInv
  <1>2. ASSUME NEW r \in Builds, Others(r), holder' = holder, finished' = finished,
               build'[r].at \in Locked => build[r].at \in Locked
        PROVE  LockInv'
    BY <1>2 DEF LockInv, Others
  <1>3. ASSUME NEW r \in Builds, Others(r), holder' = {}, build[r].at \in Locked,
               build'[r].at \notin Locked
        PROVE  LockInv'
    <2>1. \A q \in Builds : q # r => build[q].at \notin Locked
      BY <1>3 DEF LockInv
    <2> QED BY <1>3, <2>1 DEF LockInv, Others
  <1>4. CASE \E c \in Streamed : LiveChunk(c)
    BY <1>1, <1>4 DEF LiveChunk
  <1>5. CASE Upload \/ UploadDone \/ Finish \/ FinishDone
    BY <1>1, <1>5 DEF Upload, UploadDone, Finish, FinishDone, inputs
  <1>6. ASSUME NEW r \in Builds, AskTexts(r) \/ BuildStep(r) PROVE LockInv'
    <2>1. CASE AskTexts(r)
      BY <1>2, <2>1, AskMoves DEF AskTexts, Locked, inputs
    <2>2. CASE Clear(r)
      BY <1>2, <2>2, ClearMoves, RequestParts DEF Clear, Locked, inputs, RequestTypes
    <2>3. CASE LookReady(r)
      <3>1. build'[r].at = "read"
        BY <2>3, ReadyMoves, RequestParts DEF RequestTypes
      <3>2. holder' = holder /\ finished' = finished
        BY <2>3 DEF LookReady, inputs
      <3> QED BY <1>2, <2>3, <3>1, <3>2, ReadyMoves DEF Locked
    <2>4. CASE LookFinal(r)
      <3>1. \A q \in Builds : build[q].at \notin Locked
        BY <2>4 DEF LookFinal, LockInv
      <3>2. finished' /\ holder' = {r}
        BY <2>4 DEF LookFinal, inputs
      <3> QED BY <2>4, <3>1, <3>2, FinalMoves DEF LockInv, Others
    <2>5. CASE Listen(r)
      <3>1. build[r].at \in Locked /\ finished' = finished
        BY <2>5 DEF Listen, Locked, inputs
      <3>2. ASSUME NEW n, Heard(r, n) PROVE LockInv'
        BY <1>2, <3>1, <3>2, HeardMoves
      <3>3. ASSUME NotHeard(r) PROVE LockInv'
        <4>1. CASE holder' = holder
          BY <1>2, <3>1, <3>3, <4>1, NotHeardMoves
        <4>2. CASE holder' = {} /\ build'[r] = [build[r] EXCEPT !.at = "read", !.heard = 0, !.had = FALSE]
          BY <1>3, <3>1, <3>3, <4>2, NotHeardMoves, RequestParts DEF Locked, RequestTypes
        <4> QED BY <3>3, <4>1, <4>2, NotHeardMoves
      <3> QED BY <2>5, <3>2, <3>3, ListenMoves
    <2>6. CASE CommitFinal(r)
      BY <1>3, <2>6, CommitMoves, RequestParts DEF Locked, RequestTypes
    <2>7. CASE Retell(r)
      BY <1>2, <2>7, RetellMoves DEF Retell, Locked, inputs
    <2>8. CASE Recover(r)
      BY <1>3, <2>8, RecoverMoves, RequestParts DEF Locked, RequestTypes
    <2>9. CASE ReadRows(r)
      <3>1. build'[r].at = "tidy"
        BY <2>9, ReadMoves, RequestParts DEF RequestTypes
      <3>2. holder' = holder /\ finished' = finished
        BY <2>9 DEF ReadRows, inputs
      <3> QED BY <1>2, <2>9, <3>1, <3>2, ReadMoves DEF Locked
    <2>10. CASE Tidy(r)
      <3>1. build'[r].at \in {"row", "meta"}
        BY <2>10, TidyMoves, RequestParts DEF RequestTypes
      <3> QED BY <1>2, <2>10, <3>1, TidyMoves DEF Tidy, Locked, inputs
    <2>11. CASE WriteMeta(r)
      <3>1. build'[r].at = "row"
        BY <2>11, MetaMoves, RequestParts DEF RequestTypes
      <3>2. holder' = holder /\ finished' = finished
        BY <2>11 DEF WriteMeta, inputs
      <3> QED BY <1>2, <2>11, <3>1, <3>2, MetaMoves DEF Locked
    <2>12. CASE WriteRaw(r)
      BY <1>2, <2>12, RawMoves, RequestParts DEF WriteRaw, Locked, inputs, RequestTypes
    <2>13. CASE WriteClean(r)
      BY <1>2, <2>13, CleanMoves, RequestParts DEF WriteClean, Locked, inputs, RequestTypes
    <2> QED BY <1>6, <2>1, <2>2, <2>3, <2>4, <2>5, <2>6, <2>7, <2>8, <2>9, <2>10, <2>11,
               <2>12, <2>13 DEF BuildStep
  <1> QED BY <1>4, <1>5, <1>6 DEF BuildNext

LEMMA TypesKept ==
  ASSUME BuildTypes, BuildNext
  PROVE  BuildTypes'
  <1>1. CASE \E c \in Streamed : LiveChunk(c)
    BY <1>1, TypesOfInputs
  <1>2. CASE Upload \/ UploadDone \/ Finish \/ FinishDone
    BY <1>2, TypesOfInputs
  <1>3. ASSUME NEW r \in Builds, AskTexts(r) \/ BuildStep(r) PROVE BuildTypes'
    BY <1>3, TypesOfRows, TypesOfTexts DEF BuildStep
  <1> QED BY <1>1, <1>2, <1>3 DEF BuildNext

-----------------------------------------------------------------------------
(* The parts of a request that a step leaves. *)

SameWords(r) ==
  /\ build'[r].said = build[r].said /\ build'[r].sig = build[r].sig
  /\ build'[r].clean = build[r].clean
SameLook(r) == build'[r].full = build[r].full /\ build'[r].had = build[r].had
SameRequests == \A q \in Builds : build'[q] = build[q]

LEMMA Moved ==
  ASSUME BuildTypes, NEW r \in Builds, NEW at \in Steps,
         build'[r] = [build[r] EXCEPT !.at = at]
  PROVE  build'[r].at = at /\ SameWords(r) /\ SameLook(r) /\ build'[r].heard = build[r].heard
  BY RequestParts DEF RequestTypes, SameWords, SameLook

LEMMA Released ==
  ASSUME BuildTypes, NEW r \in Builds,
         build'[r] = [build[r] EXCEPT !.at = "read", !.heard = 0, !.had = FALSE]
  PROVE  build'[r].at = "read" /\ SameWords(r) /\ build'[r].full = build[r].full
  BY RequestParts DEF RequestTypes, SameWords

LEMMA Looked ==
  ASSUME BuildTypes, NEW r \in Builds
  PROVE  /\ LookReady(r) => /\ build'[r].at = "read" /\ SameWords(r)
                            /\ build'[r].full = Due /\ build'[r].had = build[r].had
         /\ LookFinal(r) => /\ build'[r].at = "listen" /\ SameWords(r)
                            /\ build'[r].full = Due /\ build'[r].had = HasText
  <1>1. ASSUME LookReady(r)
        PROVE  /\ build'[r].at = "read" /\ SameWords(r)
               /\ build'[r].full = Due /\ build'[r].had = build[r].had
    <2>1. build'[r] = [build[r] EXCEPT !.at = "read", !.full = Due]
      BY <1>1, ReadyMoves
    <2> QED BY <2>1, RequestParts DEF RequestTypes, SameWords
  <1>2. ASSUME LookFinal(r)
        PROVE  /\ build'[r].at = "listen" /\ SameWords(r)
               /\ build'[r].full = Due /\ build'[r].had = HasText
    <2>1. build'[r] = [build[r] EXCEPT !.at = "listen", !.had = HasText, !.full = Due]
      BY <1>2, FinalMoves
    <2> QED BY <2>1, RequestParts DEF RequestTypes, SameWords
  <1> QED BY <1>1, <1>2

LEMMA HeardIt ==
  ASSUME BuildTypes, NEW r \in Builds, NEW n, Heard(r, n)
  PROVE  /\ Others(r) /\ holder' = holder /\ build'[r].at = "commit" /\ SameWords(r)
         /\ SameLook(r) /\ build'[r].heard = n
  <1>1. build'[r] = [build[r] EXCEPT !.at = "commit", !.heard = n] /\ Others(r)
        /\ holder' = holder
    BY HeardMoves
  <1> QED BY <1>1, RequestParts DEF RequestTypes, SameWords, SameLook

LEMMA HeardNothing ==
  ASSUME BuildTypes, NEW r \in Builds, NotHeard(r)
  PROVE  /\ Others(r) /\ SameWords(r) /\ build'[r].full = build[r].full
         /\ \/ build[r].had /\ build'[r].at = "read"
            \/ ~build[r].had /\ build'[r].at = "retell"
  <1>1. CASE build[r].had /\ build'[r] = [build[r] EXCEPT !.at = "read", !.heard = 0, !.had = FALSE]
    BY <1>1, NotHeardMoves, Released
  <1>2. CASE ~build[r].had /\ build'[r] = [build[r] EXCEPT !.at = "retell"]
    <2>1. "retell" \in Steps
      BY DEF Steps
    <2> QED BY <1>2, <2>1, NotHeardMoves, Moved DEF SameLook
  <1> QED BY <1>1, <1>2, NotHeardMoves

LEMMA Worked ==
  ASSUME BuildTypes, NEW r \in Builds
  PROVE  /\ AskTexts(r) => build'[r].at \in {"clear", "wait"} /\ build'[r].full = FALSE
         /\ Clear(r) => build'[r].at = "wait" /\ SameWords(r) /\ SameLook(r)
         /\ CommitFinal(r) => /\ build'[r].at = "read" /\ SameWords(r)
                              /\ build'[r].full = build[r].full
         /\ Retell(r) => build'[r].at = "recover" /\ SameWords(r) /\ SameLook(r)
         /\ Recover(r) => /\ build'[r].at = "read" /\ SameWords(r)
                          /\ build'[r].full = build[r].full
         /\ ReadRows(r) => /\ build'[r].at = "tidy" /\ SameLook(r)
                           /\ build'[r].said = Concat(rows) /\ build'[r].sig = Signature(rows)
         /\ WriteMeta(r) => /\ build'[r].at = "row" /\ SameLook(r)
                            /\ build'[r].said = build[r].said /\ build'[r].clean = build[r].clean
         /\ WriteRaw(r) => build'[r].at = "clean" /\ SameWords(r) /\ SameLook(r)
         /\ WriteClean(r) => build'[r].at = "answered" /\ SameWords(r) /\ SameLook(r)
  <1>0. {"wait", "recover", "clean", "answered"} \subseteq Steps
    BY DEF Steps
  <1>1. AskTexts(r) => build'[r].at \in {"clear", "wait"} /\ build'[r].full = FALSE
    BY AskMoves
  <1>2. Clear(r) => build'[r].at = "wait" /\ SameWords(r) /\ SameLook(r)
    BY <1>0, ClearMoves, Moved
  <1>3. CommitFinal(r) => build'[r].at = "read" /\ SameWords(r) /\ build'[r].full = build[r].full
    BY CommitMoves, Released
  <1>4. Retell(r) => build'[r].at = "recover" /\ SameWords(r) /\ SameLook(r)
    BY <1>0, RetellMoves, Moved
  <1>5. Recover(r) => build'[r].at = "read" /\ SameWords(r) /\ build'[r].full = build[r].full
    BY RecoverMoves, Released
  <1>6. ASSUME ReadRows(r)
        PROVE  /\ build'[r].at = "tidy" /\ SameLook(r)
               /\ build'[r].said = Concat(rows) /\ build'[r].sig = Signature(rows)
    <2>1. build'[r] = [build[r] EXCEPT !.at = "tidy", !.said = Concat(rows), !.sig = Signature(rows)]
      BY <1>6, ReadMoves
    <2> QED BY <2>1, RequestParts DEF RequestTypes, SameLook
  <1>7. ASSUME WriteMeta(r)
        PROVE  /\ build'[r].at = "row" /\ SameLook(r)
               /\ build'[r].said = build[r].said /\ build'[r].clean = build[r].clean
    <2>1. build'[r] = [build[r] EXCEPT !.at = "row", !.sig = NoSignature]
      BY <1>7, MetaMoves
    <2> QED BY <2>1, RequestParts DEF RequestTypes, SameLook
  <1>8. WriteRaw(r) => build'[r].at = "clean" /\ SameWords(r) /\ SameLook(r)
    BY <1>0, RawMoves, Moved
  <1>9. WriteClean(r) => build'[r].at = "answered" /\ SameWords(r) /\ SameLook(r)
    BY <1>0, CleanMoves, Moved
  <1> QED BY <1>1, <1>2, <1>3, <1>4, <1>5, <1>6, <1>7, <1>8, <1>9

LEMMA Tidied ==
  ASSUME BuildTypes, NEW r \in Builds, Tidy(r)
  PROVE  /\ Others(r) /\ build[r].at = "tidy" /\ SameLook(r) /\ build'[r].said = build[r].said
         /\ \/ /\ cache' = cache /\ build'[r].at = "row"
               /\ \/ build[r].said = <<>> /\ build'[r].clean = <<>>
                  \/ build[r].said # <<>> /\ TextCached(r) /\ build'[r].clean = cache.text
            \/ /\ build[r].said # <<>> /\ build'[r].at = "meta"
               /\ build'[r].sig = build[r].sig /\ build'[r].clean = build[r].said
               /\ cache'.text = build[r].said /\ cache'.sig = cache.sig
         /\ used'.mixed = (used.mixed \/ \E q \in Builds : build[q].at = "meta")
         /\ used'.faults = used.faults /\ used'.late = used.late /\ used'.early = used.early
  <1>1. CASE /\ cache' = cache /\ (build[r].said = <<>> \/ TextCached(r))
             /\ build'[r] = [build[r] EXCEPT !.at = "row", !.sig = NoSignature,
                  !.clean = IF build[r].said = <<>> THEN <<>> ELSE cache.text]
    <2> DEFINE t == IF build[r].said = <<>> THEN <<>> ELSE cache.text
    <2>1. build'[r] = [build[r] EXCEPT !.at = "row", !.sig = NoSignature, !.clean = t]
      BY <1>1
    <2> HIDE DEF t
    <2>2. build'[r].at = "row" /\ build'[r].clean = t /\ build'[r].said = build[r].said /\ SameLook(r)
      BY <2>1, RequestParts DEF RequestTypes, SameLook
    <2> QED BY <1>1, <2>2, TidyMoves DEF t
  <1>2. CASE /\ build[r].said # <<>> /\ ~TextCached(r)
             /\ cache' = [cache EXCEPT !.text = build[r].said]
             /\ build'[r] = [build[r] EXCEPT !.at = "meta", !.clean = build[r].said]
    <2>1. cache'.text = build[r].said /\ cache'.sig = cache.sig
      BY <1>2 DEF BuildTypes
    <2>2. build'[r].at = "meta" /\ build'[r].clean = build[r].said /\ build'[r].said = build[r].said
          /\ build'[r].sig = build[r].sig /\ SameLook(r)
      BY <1>2, RequestParts DEF RequestTypes, SameLook
    <2> QED BY <1>2, <2>1, <2>2, TidyMoves
  <1> QED BY <1>1, <1>2, TidyMoves

-----------------------------------------------------------------------------
(* What only grows. *)

Flags ==
  /\ used.late => used'.late
  /\ used.early => used'.early
  /\ used.mixed => used'.mixed
  /\ used'.faults = 0 => used.faults = 0

SameMix == used'.mixed = used.mixed

LEMMA FlagsGrow ==
  ASSUME BuildTypes
  PROVE  /\ \A c \in Streamed : LiveChunk(c) =>
              Flags /\ SameMix /\ used'.early = used.early /\ (used'.late <=> used.late \/ finished)
         /\ Upload \/ UploadDone \/ Finish \/ FinishDone => Flags /\ SameMix
         /\ \A r \in Builds : AskTexts(r) \/ BuildStep(r) => Flags
         /\ \A r \in Builds : AskTexts(r) \/ BuildStep(r) => Tidy(r) \/ SameMix
  <1>1. ASSUME UNCHANGED used \/ CountFault PROVE Flags /\ SameMix
    BY <1>1 DEF Flags, SameMix, CountFault, BuildTypes
  <1>2. ASSUME NEW c \in Streamed, LiveChunk(c)
        PROVE  Flags /\ SameMix /\ used'.early = used.early /\ (used'.late <=> used.late \/ finished)
    BY <1>2 DEF LiveChunk, Flags, SameMix, BuildTypes
  <1>3. Upload \/ UploadDone \/ Finish \/ FinishDone => Flags /\ SameMix
    BY <1>1 DEF Upload, UploadDone, Finish, FinishDone, Materialize
  <1>4. ASSUME NEW r \in Builds, AskTexts(r) \/ BuildStep(r) PROVE Flags /\ (Tidy(r) \/ SameMix)
    <2>1. CASE AskTexts(r)
      BY <2>1 DEF AskTexts, Flags, SameMix, BuildTypes
    <2>2. CASE Listen(r)
      BY <1>1, <2>2 DEF Listen
    <2>3. CASE Recover(r)
      <3> DEFINE n == IF mp3 # 0 THEN mp3 ELSE source
      <3>1. \/ \E b : used' = [used EXCEPT !.early = @ \/ b]
            \/ CountFault
        BY <2>3 DEF Recover
      <3> QED BY <1>1, <3>1 DEF Flags, SameMix, BuildTypes
    <2>4. CASE Tidy(r)
      BY <2>4, TidyMoves DEF Flags
    <2>5. CASE Clear(r) \/ LookReady(r) \/ LookFinal(r) \/ CommitFinal(r) \/ Retell(r)
               \/ ReadRows(r) \/ WriteMeta(r) \/ WriteRaw(r) \/ WriteClean(r)
      BY <1>1, <2>5 DEF Clear, LookReady, LookFinal, CommitFinal, Retell, ReadRows,
           WriteMeta,
                       WriteRaw, WriteClean
    <2> QED BY <1>4, <2>1, <2>2, <2>3, <2>4, <2>5 DEF BuildStep
  <1> QED BY <1>2, <1>3, <1>4

LEMMA CacheKept ==
  ASSUME BuildTypes, CacheInv, ~used.late /\ ~used.early => PairsInv, BuildNext
  PROVE  CacheInv'
  <1>1. ASSUME SameRequests, cache' = cache, Flags PROVE CacheInv'
    BY <1>1 DEF CacheInv, SameRequests, Flags
  <1>2. ASSUME NEW r \in Builds, Others(r), cache' = cache, Flags,
               build'[r].at \notin {"tidy", "meta"},
               build'[r].at \in {"row", "clean", "answered"} =>
                 build[r].at \in {"meta", "row", "clean", "answered"} /\ SameWords(r)
        PROVE  CacheInv'
    BY <1>2 DEF CacheInv, Others, SameWords, Flags
  <1>3. CASE \E c \in Streamed : LiveChunk(c)
    BY <1>1, <1>3, FlagsGrow DEF LiveChunk, SameRequests
  <1>4. CASE Upload \/ UploadDone \/ Finish \/ FinishDone
    BY <1>1, <1>4, FlagsGrow DEF Upload, UploadDone, Finish, FinishDone, inputs,
         SameRequests
  <1>5. ASSUME NEW r \in Builds, AskTexts(r) \/ BuildStep(r) PROVE CacheInv'
    <2>0. Flags
      BY <1>5, FlagsGrow
    <2>1. CASE AskTexts(r)
      <3>1. cache' = cache
        BY <2>1 DEF AskTexts
      <3> QED BY <1>2, <2>0, <2>1, <3>1, AskMoves
    <2>2. CASE Clear(r)
      <3>1. cache'.text = NoFile /\ NoFile # <<>>
        BY <2>2, NFacts DEF Clear
      <3>2. Others(r) /\ build'[r].at = "wait"
        BY <2>2, ClearMoves, Worked
      <3> QED BY <2>0, <3>1, <3>2 DEF CacheInv, Others, Flags
    <2>3. CASE LookReady(r) \/ LookFinal(r)
      <3>1. cache' = cache
        BY <2>3 DEF LookReady, LookFinal
      <3>2. Others(r)
        BY <2>3, ReadyMoves, FinalMoves
      <3> QED BY <1>2, <2>0, <2>3, <3>1, <3>2, Looked
    <2>4. CASE Listen(r)
      <3>1. cache' = cache
        BY <2>4 DEF Listen
      <3>2. ASSUME NEW n, Heard(r, n) PROVE CacheInv'
        BY <1>2, <2>0, <3>1, <3>2, HeardIt
      <3>3. ASSUME NotHeard(r) PROVE CacheInv'
        BY <1>2, <2>0, <3>1, <3>3, HeardNothing
      <3> QED BY <2>4, <3>2, <3>3, ListenMoves
    <2>5. CASE CommitFinal(r) \/ Retell(r) \/ Recover(r)
      <3>1. cache' = cache
        BY <2>5 DEF CommitFinal, Retell, Recover
      <3>2. Others(r)
        BY <2>5, CommitMoves, RetellMoves, RecoverMoves
      <3> QED BY <1>2, <2>0, <2>5, <3>1, <3>2, Worked
    <2>6. CASE ReadRows(r)
      <3>1. cache' = cache
        BY <2>6 DEF ReadRows
      <3>0. Signature(rows) # NoSignature
        BY SignatureFacts DEF BuildTypes
      <3>2. Others(r) /\ build'[r].at = "tidy" /\ build'[r].sig # NoSignature
        BY <2>6, <3>0, ReadMoves, Worked
      <3> QED BY <2>0, <3>1, <3>2 DEF CacheInv, Others, Flags
    <2>7. CASE Tidy(r)
      <3>0. /\ Others(r) /\ build[r].at = "tidy" /\ build'[r].said = build[r].said
            /\ build[r].sig # NoSignature
            /\ used'.mixed = (used.mixed \/ \E q \in Builds : build[q].at = "meta")
            /\ used'.late = used.late /\ used'.early = used.early
        BY <2>7, Tidied DEF CacheInv
      <3>1. CASE /\ cache' = cache /\ build'[r].at = "row"
                 /\ \/ build[r].said = <<>> /\ build'[r].clean = <<>>
                    \/ build[r].said # <<>> /\ TextCached(r) /\ build'[r].clean = cache.text
        <4>1. ASSUME ~used'.mixed, ~used'.late, ~used'.early
              PROVE  build'[r].clean = build'[r].said
          <5>1. CASE build[r].said = <<>>
            BY <3>0, <3>1, <5>1
          <5>2. CASE build[r].said # <<>> /\ TextCached(r) /\ build'[r].clean = cache.text
            <6>1. CacheHolds
              BY <3>0, <4>1, <5>2 DEF CacheHolds, Filling, TextCached
            <6>2. <<cache.sig, cache.text>> \in Pairs /\ <<build[r].sig, build[r].said>> \in Pairs
              BY <3>0, <5>2, <6>1 DEF Pairs, Holding
            <6>3. PairsInv
              BY <3>0, <4>1
            <6>4. cache.text = build[r].said
              BY <5>2, <6>2, <6>3 DEF PairsInv, PairsAre, TextCached
            <6> QED BY <3>0, <5>2, <6>4
          <5> QED BY <3>1, <5>1, <5>2
        <4> QED BY <2>0, <3>0, <3>1, <4>1 DEF CacheInv, Others, Flags
      <3>2. CASE /\ build[r].said # <<>> /\ build'[r].at = "meta"
                 /\ build'[r].sig = build[r].sig /\ build'[r].clean = build[r].said
                 /\ cache'.text = build[r].said /\ cache'.sig = cache.sig
        <4>1. cache'.text # <<>>
          BY <3>2
        <4>2. ASSUME NEW q \in Builds, q # r, build'[q].at = "meta" PROVE used'.mixed
          BY <3>0, <4>2 DEF Others
        <4> QED BY <2>0, <3>0, <3>2, <4>1, <4>2 DEF CacheInv, Others, Flags
      <3> QED BY <2>7, <3>1, <3>2, Tidied
    <2>8. CASE WriteMeta(r)
      <3>1. cache'.text = cache.text
        BY <2>8, MetaMoves DEF BuildTypes
      <3>2. Others(r) /\ build[r].at = "meta" /\ build'[r].at = "row"
            /\ build'[r].said = build[r].said /\ build'[r].clean = build[r].clean
        BY <2>8, MetaMoves, Worked
      <3> QED BY <2>0, <3>1, <3>2 DEF CacheInv, Others, Flags
    <2>9. CASE WriteRaw(r) \/ WriteClean(r)
      <3>1. cache' = cache
        BY <2>9 DEF WriteRaw, WriteClean
      <3>2. Others(r) /\ build[r].at \in {"row", "clean"}
        BY <2>9, RawMoves, CleanMoves
      <3> QED BY <1>2, <2>0, <2>9, <3>1, <3>2, Worked
    <2> QED BY <1>5, <2>1, <2>2, <2>3, <2>4, <2>5, <2>6, <2>7, <2>8, <2>9 DEF BuildStep
  <1> QED BY <1>3, <1>4, <1>5 DEF BuildNext

-----------------------------------------------------------------------------
(* What is remembered: only reading the rows adds to it. *)

LEMMA InPairs ==
  \A p : p \in Pairs <=> \/ \E q \in Builds : Holding(q) /\ p = <<build[q].sig, build[q].said>>
                         \/ CacheHolds /\ p = <<cache.sig, cache.text>>
  BY DEF Pairs

LEMMA PairsSpeak ==
  ASSUME CacheInv, NEW p \in Pairs
  PROVE  p[2] # <<>>
  BY InPairs DEF Holding, CacheInv

LEMMA PairsKept ==
  ASSUME BuildTypes, CacheInv
  PROVE  /\ \A c \in Streamed : LiveChunk(c) => Pairs' \subseteq Pairs
         /\ Upload \/ UploadDone \/ Finish \/ FinishDone => Pairs' \subseteq Pairs
         /\ \A r \in Builds : AskTexts(r) \/ BuildStep(r) =>
              IF ReadRows(r) THEN Pairs' \subseteq Pairs \cup {MadeOf(rows)}
                             ELSE Pairs' \subseteq Pairs
  <1>0. \A p : p \in Pairs' <=>
           \/ \E q \in Builds : Holding(q)' /\ p = <<build'[q].sig, build'[q].said>>
           \/ CacheHolds' /\ p = <<cache'.sig, cache'.text>>
    BY DEF Pairs
  <1>1. ASSUME SameRequests, cache' = cache, Flags PROVE Pairs' \subseteq Pairs
    BY <1>0, <1>1, InPairs DEF SameRequests, Flags, Holding, CacheHolds, Filling
  <1>2. ASSUME NEW r \in Builds, Others(r), cache' = cache, Flags,
               build'[r].at \notin {"tidy", "meta"}, build[r].at # "meta"
        PROVE  Pairs' \subseteq Pairs
    <2>1. \A q \in Builds : Holding(q)' => Holding(q) /\ build'[q] = build[q]
      BY <1>2 DEF Holding, Others
    <2>2. CacheHolds' => CacheHolds
      BY <1>2 DEF CacheHolds, Filling, Others, Flags
    <2> QED BY <1>0, <1>2, <2>1, <2>2, InPairs
  <1>3. ASSUME NEW c \in Streamed, LiveChunk(c) PROVE Pairs' \subseteq Pairs
    BY <1>1, <1>3, FlagsGrow DEF LiveChunk, SameRequests
  <1>4. CASE Upload \/ UploadDone \/ Finish \/ FinishDone
    BY <1>1, <1>4, FlagsGrow DEF Upload, UploadDone, Finish, FinishDone, inputs,
         SameRequests
  <1>5. ASSUME NEW r \in Builds, AskTexts(r) \/ BuildStep(r)
        PROVE  IF ReadRows(r) THEN Pairs' \subseteq Pairs \cup {MadeOf(rows)}
                              ELSE Pairs' \subseteq Pairs
    <2>0. Flags
      BY <1>5, FlagsGrow
    <2>1. CASE AskTexts(r)
      <3>1. cache' = cache /\ ~ReadRows(r)
        BY <2>1 DEF AskTexts, ReadRows
      <3> QED BY <1>2, <2>0, <2>1, <3>1, AskMoves
    <2>2. CASE Clear(r)
      <3>1. cache'.text = NoFile /\ ~ReadRows(r)
        BY <2>2 DEF Clear, ReadRows
      <3>2. Others(r) /\ build'[r].at = "wait"
        BY <2>2, ClearMoves, Worked
      <3>3. \A q \in Builds : Holding(q)' => Holding(q) /\ build'[q] = build[q]
        BY <3>2 DEF Holding, Others
      <3>4. ~CacheHolds'
        BY <3>1 DEF CacheHolds
      <3> QED BY <1>0, <3>1, <3>3, <3>4, InPairs
    <2>3. CASE LookReady(r) \/ LookFinal(r)
      <3>1. cache' = cache /\ ~ReadRows(r)
        BY <2>3 DEF LookReady, LookFinal, ReadRows
      <3>2. Others(r) /\ build[r].at = "wait"
        BY <2>3, ReadyMoves, FinalMoves
      <3> QED BY <1>2, <2>0, <2>3, <3>1, <3>2, Looked
    <2>4. CASE Listen(r)
      <3>1. cache' = cache /\ ~ReadRows(r) /\ build[r].at = "listen"
        BY <2>4 DEF Listen, ReadRows
      <3>2. ASSUME NEW n, Heard(r, n) PROVE Pairs' \subseteq Pairs
        BY <1>2, <2>0, <3>1, <3>2, HeardIt
      <3>3. ASSUME NotHeard(r) PROVE Pairs' \subseteq Pairs
        BY <1>2, <2>0, <3>1, <3>3, HeardNothing
      <3> QED BY <2>4, <3>1, <3>2, <3>3, ListenMoves
    <2>5. CASE CommitFinal(r) \/ Retell(r) \/ Recover(r)
      <3>1. cache' = cache /\ ~ReadRows(r) /\ build[r].at # "meta"
        BY <2>5 DEF CommitFinal, Retell, Recover, ReadRows
      <3>2. Others(r)
        BY <2>5, CommitMoves, RetellMoves, RecoverMoves
      <3> QED BY <1>2, <2>0, <2>5, <3>1, <3>2, Worked
    <2>6. CASE ReadRows(r)
      <3>1. cache' = cache /\ build[r].at = "read"
        BY <2>6 DEF ReadRows
      <3>2. /\ Others(r) /\ build'[r].at = "tidy"
            /\ <<build'[r].sig, build'[r].said>> = MadeOf(rows)
        BY <2>6, ReadMoves, Worked DEF MadeOf
      <3>3. \A q \in Builds : Holding(q)' /\ q # r => Holding(q) /\ build'[q] = build[q]
        BY <3>2 DEF Holding, Others
      <3>4. CacheHolds' => CacheHolds
        BY <2>0, <3>1, <3>2 DEF CacheHolds, Filling, Others, Flags
      <3> QED BY <1>0, <2>6, <3>1, <3>2, <3>3, <3>4, InPairs
    <2>7. CASE Tidy(r)
      <3>0. /\ Others(r) /\ build[r].at = "tidy" /\ build'[r].said = build[r].said /\ ~ReadRows(r)
            /\ used'.mixed = (used.mixed \/ \E q \in Builds : build[q].at = "meta")
        BY <2>7, Tidied DEF ReadRows
      <3>1. CASE cache' = cache /\ build'[r].at = "row"
        BY <1>2, <2>0, <3>0, <3>1
      <3>2. CASE build[r].said # <<>> /\ build'[r].at = "meta" /\ build'[r].sig = build[r].sig
        <4>1. Holding(r) /\ \A q \in Builds : Holding(q)' =>
                Holding(q) /\ build'[q].sig = build[q].sig /\ build'[q].said = build[q].said
          BY <3>0, <3>2 DEF Holding, Others
        <4>2. ~CacheHolds'
          BY <3>2 DEF CacheHolds, Filling
        <4> QED BY <1>0, <3>0, <4>1, <4>2, InPairs
      <3> QED BY <2>7, <3>1, <3>2, Tidied
    <2>8. CASE WriteMeta(r)
      <3>0. cache' = [cache EXCEPT !.sig = build[r].sig]
        BY <2>8, MetaMoves
      <3>1. cache'.text = cache.text /\ cache'.sig = build[r].sig
        BY <3>0 DEF BuildTypes
      <3>5. ~ReadRows(r)
        BY <2>8 DEF WriteMeta, ReadRows
      <3>2. Others(r) /\ build[r].at = "meta" /\ build'[r].at = "row"
        BY <2>8, MetaMoves, Worked
      <3>3. \A q \in Builds : Holding(q)' => Holding(q) /\ build'[q] = build[q]
        BY <3>2 DEF Holding, Others
      <3>4. ASSUME CacheHolds'
            PROVE  Holding(r) /\ <<cache'.sig, cache'.text>> = <<build[r].sig, build[r].said>>
        <4>1. ~used.mixed /\ cache.text # NoFile
          BY <2>0, <3>1, <3>4 DEF CacheHolds, Flags
        <4> QED BY <3>1, <3>2, <4>1 DEF CacheInv, Holding
      <3> QED BY <1>0, <3>1, <3>3, <3>4, <3>5, InPairs
    <2>9. CASE WriteRaw(r) \/ WriteClean(r)
      <3>1. cache' = cache /\ ~ReadRows(r)
        BY <2>9 DEF WriteRaw, WriteClean, ReadRows
      <3>2. Others(r) /\ build[r].at \in {"row", "clean"}
        BY <2>9, RawMoves, CleanMoves
      <3> QED BY <1>2, <2>0, <2>9, <3>1, <3>2, Worked
    <2> QED BY <1>5, <2>1, <2>2, <2>3, <2>4, <2>5, <2>6, <2>7, <2>8, <2>9 DEF BuildStep
  <1> QED BY <1>3, <1>4, <1>5

\* The whole recording stays there, and who heard all of it still has.
LEMMA CompleteKept ==
  ASSUME BuildTypes, BuildNext
  PROVE  /\ Complete => Complete'
         /\ mp3 # 0 => mp3' = mp3
         /\ source <= source'
  <1>1. ASSUME mp3' \in {mp3, Materialized}, source' = source
        PROVE  (Complete => Complete') /\ (mp3 # 0 => mp3' = mp3) /\ source <= source'
    BY <1>1, NFacts DEF Complete, Materialized, BuildTypes
  <1>2. ASSUME Materialize PROVE mp3' \in {mp3, Materialized}
    BY <1>2 DEF Materialize
  <1>3. CASE \E c \in Streamed : LiveChunk(c)
    BY <1>1, <1>3 DEF LiveChunk
  <1>4. CASE Upload
    <2>1. mp3' = mp3 /\ source \in 0..N /\ source < N /\ source' \in 1..N /\ source' > source
      BY <1>4 DEF Upload, BuildTypes
    <2>2. source # N /\ source <= source'
      BY <2>1, NFacts
    <2> QED BY <2>1, <2>2, NFacts DEF Complete
  <1>5. CASE UploadDone \/ Finish \/ FinishDone
    BY <1>1, <1>2, <1>5 DEF UploadDone, Finish, FinishDone, inputs
  <1>6. ASSUME NEW r \in Builds, AskTexts(r) \/ BuildStep(r)
        PROVE  mp3' \in {mp3, Materialized} /\ source' = source
    <2>1. CASE Listen(r)
      BY <2>1 DEF Listen, inputs
    <2>2. CASE AskTexts(r) \/ Clear(r) \/ LookReady(r) \/ LookFinal(r) \/ CommitFinal(r) \/ Retell(r)
               \/ Recover(r) \/ ReadRows(r) \/ Tidy(r) \/ WriteMeta(r) \/ WriteRaw(r) \/ WriteClean(r)
      BY <2>2 DEF AskTexts, Clear, LookReady, LookFinal, CommitFinal, Retell, Recover,
           ReadRows,
                  Tidy, WriteMeta, WriteRaw, WriteClean, inputs
    <2> QED BY <1>6, <2>1, <2>2 DEF BuildStep
  <1> QED BY <1>1, <1>3, <1>4, <1>5, <1>6 DEF BuildNext

LEMMA HearsKept ==
  ASSUME BuildTypes, BuildNext, HearsAll
  PROVE  HearsAll'
  <1>0. Complete /\ Complete'
    BY CompleteKept DEF HearsAll
  <1>1. ASSUME SameRequests PROVE HearsAll'
    BY <1>0, <1>1 DEF HearsAll, SameRequests
  <1>2. ASSUME NEW r \in Builds, Others(r), build'[r].at = "commit" => build'[r].heard = N
        PROVE  HearsAll'
    BY <1>0, <1>2 DEF HearsAll, Others
  <1>3. CASE (\E c \in Streamed : LiveChunk(c)) \/ Upload \/ UploadDone \/ Finish \/ FinishDone
    BY <1>1, <1>3 DEF LiveChunk, Upload, UploadDone, Finish, FinishDone, SameRequests
  <1>4. ASSUME NEW r \in Builds, AskTexts(r) \/ BuildStep(r) PROVE HearsAll'
    <2>1. CASE Listen(r)
      <3>1. ASSUME mp3' = Materialized, mp3' # 0, Heard(r, mp3') PROVE HearsAll'
        <4>1. mp3' = N
          BY <1>0, <3>1, NFacts DEF Complete, Materialized
        <4> QED BY <1>2, <3>1, <4>1, HeardIt
      <3>2. ASSUME mp3' = 0, mp3' \in {mp3, Materialized}, Heard(r, source) PROVE HearsAll'
        <4>1. mp3 = 0 /\ source = N
          BY <1>0, <3>2, NFacts DEF Complete, Materialized
        <4> QED BY <1>2, <3>2, <4>1, HeardIt
      <3>3. ASSUME NotHeard(r) PROVE HearsAll'
        <4>1. build'[r].at # "commit"
          BY <3>3, HeardNothing
        <4> QED BY <1>2, <3>3, <4>1, HeardNothing
      <3> QED BY <2>1, <3>1, <3>2, <3>3, ListenMoves
    <2>2. CASE AskTexts(r) \/ Clear(r) \/ CommitFinal(r) \/ Retell(r) \/ Recover(r) \/ ReadRows(r)
               \/ WriteMeta(r) \/ WriteRaw(r) \/ WriteClean(r)
      <3>1. Others(r)
        BY <2>2, AskMoves, ClearMoves, CommitMoves, RetellMoves, RecoverMoves, ReadMoves,
             MetaMoves,
           RawMoves, CleanMoves
      <3>2. build'[r].at # "commit"
        BY <2>2, Worked
      <3> QED BY <1>2, <3>1, <3>2
    <2>3. CASE LookReady(r) \/ LookFinal(r)
      BY <1>2, <2>3, ReadyMoves, FinalMoves, Looked
    <2>4. CASE Tidy(r)
      BY <1>2, <2>4, Tidied
    <2> QED BY <1>4, <2>1, <2>2, <2>3, <2>4 DEF BuildStep
  <1> QED BY <1>3, <1>4 DEF BuildNext

-----------------------------------------------------------------------------
(* Rows and what is remembered of them. *)

LEMMA FewerPairs ==
  ASSUME NEW rs, NEW ps, NEW qs \in SUBSET ps, NEW all \in BOOLEAN, NEW any \in BOOLEAN,
         RowsAre(rs, ps, all), PairsAre(ps, all), all => any
  PROVE  RowsAre(rs, qs, any) /\ PairsAre(qs, any)
  BY DEF RowsAre, PairsAre, Early

LEMMA FinalSignature ==
  ASSUME NEW n \in 1..N, NEW rs, FinalRows(rs, n)
  PROVE  Signature(rs) \in {<<n, n, n>>, <<1, 1, n>>}
  <1>0. n \in Nat /\ n <= N /\ N \in Nat /\ n >= 1
    BY NFacts
  <1>1. rs \in [Seqs -> Row] /\ Len(Concat(rs)) = n
    <2>1. n \in 0..N
      BY <1>0
    <2> QED BY <2>1, FinalText, FirstAndRest
  <1>2. First(n) # NoRow /\ \A s \in Seqs : s < n => <<s>> # NoRow
    <2>1. n \in 0..N /\ \A s \in Seqs : s < n => s \in Utterances
      BY <1>0 DEF Seqs, Utterances
    <2> QED BY <2>1, FirstAndRest, NFacts
  <1>3. CASE rs = [s \in Seqs |-> IF s < n THEN <<s>> ELSE NoRow]
    <2>1. Present(rs) = 0 .. n - 1
      <3>1. \A s \in Seqs : s \in Nat /\ (rs[s] # NoRow <=> s < n)
        BY <1>2, <1>3 DEF Seqs
      <3>2. \A s : s \in 0 .. n - 1 <=> s \in Seqs /\ s < n
        BY <1>0 DEF Seqs
      <3> QED BY <3>1, <3>2 DEF Present
    <2>2. Cardinality(0 .. n - 1) = n
      <3>1. Cardinality(0 .. n - 1) = IF 0 > n - 1 THEN 0 ELSE (n - 1) - 0 + 1
        BY <1>0, FS_Interval
      <3> QED BY <1>0, <3>1
    <2>3. 0 .. n - 1 # {} /\ Max(0 .. n - 1) = n - 1
      <3>1. n - 1 \in 0 .. n - 1 /\ 0 .. n - 1 \in SUBSET (0..N)
        BY <1>0
      <3>2. Max(0 .. n - 1) \in 0 .. n - 1 /\ n - 1 <= Max(0 .. n - 1)
        BY <1>0, <3>1, Greatest
      <3> QED BY <1>0, <3>1, <3>2
    <2>4. Signature(rs) = <<n, 1 + (n - 1), n>>
      BY <1>1, <2>1, <2>2, <2>3 DEF Signature
    <2> QED BY <1>0, <2>4
  <1>4. CASE rs = [s \in Seqs |-> IF s = 0 THEN First(n) ELSE NoRow]
    <2>1. Present(rs) = {0}
      <3>1. 0 \in Seqs
        BY <1>0 DEF Seqs
      <3> QED BY <1>2, <1>4, <3>1 DEF Present
    <2>2. Cardinality({0}) = 1
      BY FS_Singleton
    <2>3. Max({0}) = 0
      <3>1. {0} \in SUBSET (0..N)
        BY <1>0
      <3>2. Max({0}) \in {0}
        BY <1>0, <3>1, Greatest
      <3> QED BY <3>2
    <2> QED BY <1>1, <2>1, <2>2, <2>3 DEF Signature
  <1> QED BY <1>3, <1>4 DEF FinalRows, Sentences

LEMMA Spoken ==
  /\ \A n \in 1..N : First(n) # <<>>
  /\ \A a \in Utterances : /\ Rest(a) # <<>> /\ Rest(a) \in Sayings
                           /\ Len(Rest(a)) = N => Rest(a) = First(N)
  <1>1. ASSUME NEW n \in 1..N PROVE First(n) # <<>>
    <2>1. n \in 0..N /\ n # 0 /\ Len(<<>>) = 0
      BY NFacts
    <2> QED BY <2>1, FirstAndRest
  <1>2. ASSUME NEW a \in Utterances
        PROVE  Rest(a) # <<>> /\ Rest(a) \in Sayings /\ (Len(Rest(a)) = N => Rest(a) = First(N))
    <2>1. Rest(a) \in Tellings /\ Len(Rest(a)) = N - a
          /\ \A i \in 1 .. N - a : Rest(a)[i] = a + i - 1
      BY FirstAndRest
    <2>2. N - a # 0 /\ Len(<<>>) = 0 /\ a \in Nat /\ N \in Nat
      BY NFacts DEF Utterances
    <2>3. First(N) \in Tellings /\ Len(First(N)) = N /\ \A i \in 1..N : First(N)[i] = i - 1
      <3>1. N \in 0..N
        BY NFacts
      <3> QED BY <3>1, FirstAndRest
    <2>4. Rest(a) \in Sayings /\ First(N) \in Sayings
      BY <2>1, <2>3, NFacts
    <2>5. ASSUME Len(Rest(a)) = N PROVE Rest(a) = First(N)
      <3>1. a = 0
        BY <2>1, <2>2, <2>5
      <3>2. \A i \in 1..N : Rest(a)[i] = First(N)[i]
        BY <2>1, <2>2, <2>3, <3>1
      <3> QED BY <2>3, <2>4, <2>5, <3>2, SeqEqual DEF Sayings
    <2> QED BY <2>1, <2>2, <2>4, <2>5
  <1> QED BY <1>1, <1>2

\* Whoever reads the rows can remember their text by their signature.
LEMMA OnePairMore ==
  ASSUME NEW rs \in [Seqs -> Row], NEW ps, NEW all \in BOOLEAN,
         RowsAre(rs, ps, all), PairsAre(ps, all)
  PROVE  RowsAre(rs, ps \cup {MadeOf(rs)}, all) /\ PairsAre(ps \cup {MadeOf(rs)}, all)
  <1> DEFINE made == MadeOf(rs)
             both == ps \cup {made}
  <1>1. made[1] = Signature(rs) /\ made[2] = Concat(rs)
    BY DEF MadeOf
  <1>2. Below(made, rs)
    BY DEF Below
  <1>3. CASE Early(ps, rs) /\ (LiveRows(rs) \/ (SaysRest(rs) /\ all))
    <2>1. Early(both, rs)
      BY <1>2, <1>3 DEF Early
    <2>2. ASSUME NEW m \in 1..N PROVE SafeFor(made, m) \/ (m < N /\ all)
      <3>1. CASE LiveRows(rs)
        BY <1>1, <3>1, LiveLikeFinal DEF SafeFor
      <3>2. CASE SaysRest(rs) /\ all
        <4>1. PICK a \in Utterances : Concat(rs) = Rest(a)
          BY <3>2 DEF SaysRest
        <4>2. ASSUME Signature(rs) \in {<<m, m, m>>, <<1, 1, m>>}, m = N
              PROVE  Concat(rs) = First(m)
          <5>1. Signature(rs)[3] = N
            BY <4>2
          <5>2. Len(Concat(rs)) = N
            BY <5>1, SignatureFacts
          <5> QED BY <4>1, <4>2, <5>2, Spoken
        <4>3. m < N \/ m = N
          BY NFacts
        <4> QED BY <1>1, <3>2, <4>2, <4>3 DEF SafeFor
      <3> QED BY <1>3, <3>1, <3>2
    <2>3. ASSUME NEW p \in ps, p[1] = made[1] PROVE p[2] = made[2]
      <3>1. CASE p = made
        BY <3>1
      <3>2. CASE p[1][1] \in Nat /\ p[1][1] < Cardinality(Present(rs))
        <4>1. Signature(rs)[1] = Cardinality(Present(rs)) /\ Cardinality(Present(rs)) \in Nat
          BY SignatureFacts
        <4> QED BY <1>1, <2>3, <3>2, <4>1
      <3> QED BY <1>3, <3>1, <3>2 DEF Early, Below
    <2> HIDE DEF made
    <2>4. PairsAre(both, all)
      BY <2>2, <2>3 DEF PairsAre
    <2> QED BY <1>3, <2>1, <2>4 DEF RowsAre, made
  <1>4. ASSUME NEW n \in 1..N, FinalRows(rs, n), \A p \in ps : SafeFor(p, n)
        PROVE  RowsAre(rs, both, all) /\ PairsAre(both, all)
    <2>1. Concat(rs) = First(n) /\ Signature(rs) \in {<<n, n, n>>, <<1, 1, n>>}
      BY <1>4, FinalText, FinalSignature
    <2>2. SafeFor(made, n)
      BY <1>1, <2>1 DEF SafeFor
    <2>3. ASSUME NEW m \in 1..N PROVE SafeFor(made, m)
      <3>1. Signature(rs)[3] = n
        BY <2>1
      <3>2. Signature(rs) \in {<<m, m, m>>, <<1, 1, m>>} => m = n
        BY <3>1
      <3> QED BY <1>1, <2>1, <3>2 DEF SafeFor
    <2>4. ASSUME NEW p \in ps, p[1] = made[1] PROVE p[2] = made[2]
      BY <1>1, <1>4, <2>1, <2>4 DEF SafeFor
    <2> HIDE DEF made
    <2>5. RowsAre(rs, both, all)
      BY <1>4, <2>2 DEF RowsAre
    <2>6. PairsAre(both, all)
      BY <2>3, <2>4 DEF PairsAre
    <2> QED BY <2>5, <2>6
  <1> QED BY <1>3, <1>4 DEF RowsAre

\* One row more.
LEMMA OneRowMore ==
  ASSUME NEW rs \in [Seqs -> Row], NEW q \in Seqs, rs[q] = NoRow, NEW t \in Tellings
  PROVE  /\ [rs EXCEPT ![q] = t] \in [Seqs -> Row]
         /\ Cardinality(Present(rs)) \in Nat
         /\ Cardinality(Present([rs EXCEPT ![q] = t])) = Cardinality(Present(rs)) + 1
  <1> DEFINE rt == [rs EXCEPT ![q] = t]
  <1>1. rt \in [Seqs -> Row]
    BY DEF Row
  <1>2. Present(rt) = Present(rs) \cup {q} /\ q \notin Present(rs)
    BY NFacts DEF Present
  <1>3. IsFiniteSet(Present(rs)) /\ Cardinality(Present(rs)) \in Nat
    BY SignatureFacts
  <1> HIDE DEF rt
  <1>4. Cardinality(Present(rt)) = Cardinality(Present(rs)) + 1
    BY <1>2, <1>3, FS_AddElement
  <1> QED BY <1>1, <1>3, <1>4 DEF rt

LEMMA StillBelow ==
  ASSUME NEW rs, NEW rt, NEW ps, Early(ps, rs), \A p \in ps : p[2] # <<>>,
         Cardinality(Present(rs)) \in Nat,
         Cardinality(Present(rt)) = Cardinality(Present(rs)) + 1,
         Concat(rs) # <<>> => Concat(rt) # <<>>
  PROVE  Early(ps, rt)
  <1> SUFFICES ASSUME NEW p \in ps PROVE Below(p, rt)
    BY DEF Early
  <1>1. p[2] # <<>> /\ Below(p, rs)
    BY DEF Early
  <1>2. CASE p = MadeOf(rs)
    <2>1. p[1][1] = Cardinality(Present(rs)) /\ Concat(rs) # <<>>
      BY <1>1, <1>2 DEF MadeOf, Signature
    <2> QED BY <2>1 DEF Below
  <1>3. CASE p[1][1] \in Nat /\ p[1][1] < Cardinality(Present(rs)) /\ Concat(rs) # <<>>
    BY <1>3 DEF Below
  <1> QED BY <1>1, <1>2, <1>3 DEF Below

LEMMA LiveRowMore ==
  ASSUME NEW rs \in [Seqs -> Row], LiveRows(rs), NEW c \in Utterances, rs[c] = NoRow,
         NEW t \in {<<>>, <<c>>}
  PROVE  /\ LiveRows([rs EXCEPT ![c] = t])
         /\ Concat(rs) # <<>> => Concat([rs EXCEPT ![c] = t]) # <<>>
  <1> DEFINE rt == [rs EXCEPT ![c] = t]
  <1>1. c \in Seqs /\ N \in Seqs /\ c # N /\ t \in Tellings
    BY NFacts DEF Seqs, Utterances
  <1>2. rt \in [Seqs -> Row] /\ rt[c] = t /\ \A s \in Seqs : s # c => rt[s] = rs[s]
    BY <1>1 DEF Row
  <1>3. \A s \in Utterances : s \in Seqs
    BY NFacts DEF Utterances, Seqs
  <1> HIDE DEF rt
  <1>4. LiveRows(rt)
    BY <1>1, <1>2, <1>3 DEF LiveRows
  <1>5. HeardOf(rs) \subseteq HeardOf(rt)
    BY <1>2, <1>3, NFacts DEF HeardOf
  <1>6. Concat(rs) # <<>> => Concat(rt) # <<>>
    BY <1>2, <1>4, <1>5, LiveText, SetOfText
  <1> QED BY <1>4, <1>6 DEF rt

LEMMA TailRow ==
  ASSUME NEW rs \in [Seqs -> Row], LiveRows(rs),
         NEW tail \in MissingTails(Concat(rs), First(N)), tail # <<>>,
         NEW q, q = IF Present(rs) = {} THEN 0 ELSE Max(Present(rs)) + 1
  PROVE  /\ q \in Seqs /\ rs[q] = NoRow /\ tail \in Tellings
         /\ SaysRest([rs EXCEPT ![q] = tail]) /\ Concat([rs EXCEPT ![q] = tail]) # <<>>
  <1>1. Concat(rs) \in Sayings /\ Increasing(Concat(rs))
    BY LiveText
  <1>2. tail \in Tellings /\ \E a \in Utterances : Concat(rs) \o tail = Rest(a)
    BY <1>1, TailText
  <1>3. Present(rs) \in SUBSET (0 .. N - 1) /\ N - 1 \in Nat
    BY NFacts DEF Present, Seqs, LiveRows
  <1>4. q \in 0..N /\ \A s \in Present(rs) : s < q
    <2>1. CASE Present(rs) = {}
      BY <2>1, NFacts
    <2>2. CASE Present(rs) # {}
      <3>1. Max(Present(rs)) \in Present(rs) /\ \A s \in Present(rs) : s <= Max(Present(rs))
        BY <1>3, <2>2, Greatest
      <3> QED BY <1>3, <2>2, <3>1, NFacts
    <2> QED BY <2>1, <2>2
  <1>5. q \in Seqs /\ \A s \in Seqs : s >= q => rs[s] = NoRow
    <2> SUFFICES ASSUME NEW s \in Seqs, s >= q, rs[s] # NoRow PROVE FALSE
      BY <1>4 DEF Seqs
    <2>1. s \in Present(rs) /\ s \in Nat
      BY DEF Present, Seqs
    <2> QED BY <1>4, <2>1
  <1>6. Concat([rs EXCEPT ![q] = tail]) = Concat(rs) \o tail
    BY <1>2, <1>5, Appended
  <1>7. rs[q] = NoRow
    BY <1>4, <1>5
  <1> QED BY <1>2, <1>5, <1>6, <1>7, Spoken DEF SaysRest

LEMMA RowsKept ==
  ASSUME BuildTypes, LockInv, CacheInv, RowsInv, PairsInv, BuildNext, ~used'.late, ~used'.early
  PROVE  RowsInv' /\ PairsInv'
  <1>0. /\ HearsAll => HearsAll'
        /\ HearsAll \in BOOLEAN /\ HearsAll' \in BOOLEAN
        /\ rows \in [Seqs -> Row] /\ \A p \in Pairs : p[2] # <<>>
    BY HearsKept, PairsSpeak DEF HearsAll, Complete, BuildTypes
  <1>1. ASSUME RowsAre(rows', Pairs, HearsAll'), Pairs' \subseteq Pairs,
               ~finished' => /\ LiveRows(rows') /\ Early(Pairs, rows')
                             /\ \A s \in Seqs : rows'[s] # NoRow => s \in got',
               \A q \in Builds : AtWork(build'[q], rows', Pairs)
        PROVE  RowsInv' /\ PairsInv'
    <2>1. PairsAre(Pairs, HearsAll')
      <3>1. RowsAre(rows, Pairs, HearsAll) /\ PairsAre(Pairs, HearsAll)
        BY DEF RowsInv, PairsInv
      <3> QED BY <1>0, <3>1, FewerPairs
    <2>2. RowsAre(rows', Pairs', HearsAll') /\ PairsAre(Pairs', HearsAll')
      BY <1>0, <1>1, <2>1, FewerPairs
    <2>3. \A rs : Early(Pairs, rs) => Early(Pairs', rs)
      BY <1>1 DEF Early
    <2>4. \A q \in Builds : AtWork(build'[q], rows', Pairs')
      BY <1>1, <2>3 DEF AtWork
    <2> QED BY <1>1, <2>2, <2>3, <2>4 DEF RowsInv, PairsInv
  <1>2. RowsAre(rows, Pairs, HearsAll')
    BY <1>0, FewerPairs DEF RowsInv, PairsInv
  \* The rows stay.
  <1>3. ASSUME rows' = rows, Pairs' \subseteq Pairs, finished => finished', got' = got,
               \A q \in Builds : AtWork(build'[q], rows, Pairs)
        PROVE  RowsInv' /\ PairsInv'
    BY <1>1, <1>2, <1>3 DEF RowsInv
  <1>4. ASSUME rows' = rows, Pairs' \subseteq Pairs, finished => finished', got' = got,
               NEW r \in Builds, Others(r), AtWork(build'[r], rows, Pairs)
        PROVE  RowsInv' /\ PairsInv'
    <2>1. \A q \in Builds : AtWork(build'[q], rows, Pairs)
      BY <1>4 DEF RowsInv, Others
    <2> QED BY <1>3, <1>4, <2>1
  <1>5. \A b, rs, ps : b.at \notin Locked => AtWork(b, rs, ps)
    BY DEF AtWork, Locked
  \* The one that makes them ready changes them.
  <1>6. ASSUME NEW r \in Builds, Others(r), build[r].at \in Locked, Pairs' \subseteq Pairs,
               finished' = finished,
               RowsAre(rows', Pairs, HearsAll'), AtWork(build'[r], rows', Pairs)
        PROVE  RowsInv' /\ PairsInv'
    <2>1. finished /\ \A q \in Builds : q # r => build[q].at \notin Locked
      BY <1>6 DEF LockInv
    <2>2. \A q \in Builds : AtWork(build'[q], rows', Pairs)
      BY <1>5, <1>6, <2>1 DEF Others
    <2> QED BY <1>1, <1>6, <2>1, <2>2
  <1>7. ASSUME NEW c \in Streamed, LiveChunk(c) PROVE RowsInv' /\ PairsInv'
    <2>1. ~finished /\ Pairs' \subseteq Pairs /\ got' = got \cup {c} /\ c \notin got
      BY <1>7, FlagsGrow, PairsKept DEF LiveChunk
    <2>2. c \in Utterances /\ c \in Seqs
      BY BuildAssumption DEF Utterances, Seqs
    <2>3. LiveRows(rows) /\ Early(Pairs, rows) /\ (\A s \in Seqs : rows[s] # NoRow => s \in got)
          /\ rows[c] = NoRow
      BY <2>1, <2>2 DEF RowsInv
    <2>4. PICK t \in {<<>>, <<c>>} : rows' = [rows EXCEPT ![c] = t] \/ rows' = rows
      BY <1>7 DEF LiveChunk
    <2>5. t \in Tellings
      BY <2>2, NFacts
    <2>6. LiveRows(rows') /\ Early(Pairs, rows') /\ \A s \in Seqs : rows'[s] # NoRow => s \in got'
      <3>1. CASE rows' = rows
        BY <2>1, <2>3, <3>1
      <3>2. CASE rows' = [rows EXCEPT ![c] = t]
        <4>1. LiveRows(rows') /\ (Concat(rows) # <<>> => Concat(rows') # <<>>)
          BY <1>0, <2>2, <2>3, <3>2, LiveRowMore
        <4>2. Cardinality(Present(rows)) \in Nat
              /\ Cardinality(Present(rows')) = Cardinality(Present(rows)) + 1
          BY <1>0, <2>2, <2>3, <2>5, <3>2, OneRowMore
        <4>3. Early(Pairs, rows')
          BY <1>0, <2>3, <4>1, <4>2, StillBelow
        <4>4. \A s \in Seqs : rows'[s] # NoRow => s \in got'
          BY <1>0, <2>1, <2>3, <3>2
        <4> QED BY <4>1, <4>3, <4>4
      <3> QED BY <2>4, <3>1, <3>2
    <2>7. \A q \in Builds : build'[q].at \notin Locked
      BY <1>7, <2>1 DEF LockInv, LiveChunk
    <2> QED BY <1>1, <1>5, <2>1, <2>6, <2>7 DEF RowsAre
  <1>8. CASE Upload \/ UploadDone \/ Finish \/ FinishDone
    <2>1. Pairs' \subseteq Pairs
      BY <1>8, PairsKept
    <2>2. rows' = rows /\ build' = build /\ got' = got /\ (finished => finished')
      BY <1>8 DEF Upload, UploadDone, Finish, FinishDone, inputs
    <2> QED BY <1>3, <2>1, <2>2 DEF RowsInv
  <1>9. ASSUME NEW r \in Builds, CommitFinal(r) PROVE RowsInv' /\ PairsInv'
    <2>1. build[r].at = "commit" /\ FinalRows(rows', build[r].heard) /\ Others(r)
      BY <1>9, CommitMoves
    <2>2. Pairs' \subseteq Pairs
      BY <1>9, PairsKept DEF BuildStep, CommitFinal, ReadRows
    <2> DEFINE n == build[r].heard
    <2>3. n \in 1..N
      <3>1. build[r].heard \in 0..N
        BY RequestParts
      <3>2. build[r].heard # 0
        BY <2>1 DEF RowsInv, AtWork
      <3> QED BY <3>1, <3>2
    <2>4. \A p \in Pairs : SafeFor(p, n)
      <3> SUFFICES ASSUME NEW p \in Pairs PROVE SafeFor(p, n)
        OBVIOUS
      <3>1. HearsAll => n = N
        BY <2>1 DEF HearsAll
      <3>2. SafeFor(p, n) \/ (n < N /\ HearsAll)
        BY <2>3 DEF PairsInv, PairsAre
      <3> QED BY <3>1, <3>2, NFacts
    <2>5. RowsAre(rows', Pairs, HearsAll')
      BY <2>1, <2>3, <2>4 DEF RowsAre
    <2>6. build'[r].at \notin Locked /\ finished' = finished /\ build[r].at \in Locked
      BY <1>9, <2>1, Worked DEF Locked, CommitFinal, inputs
    <2> QED BY <1>5, <1>6, <2>1, <2>2, <2>5, <2>6
  <1>10. ASSUME NEW r \in Builds, Retell(r) PROVE RowsInv' /\ PairsInv'
    <2>1. build[r].at = "retell" /\ Others(r) /\ build'[r].at = "recover"
      BY <1>10, RetellMoves, Worked
    <2>2. Pairs' \subseteq Pairs
      BY <1>10, PairsKept DEF BuildStep, Retell, ReadRows
    <2>3. Concat(rows) = <<>>
      BY <2>1 DEF RowsInv, AtWork
    <2>4. LiveRows(rows) /\ Early(Pairs, rows)
      <3>1. ~SaysRest(rows)
        BY <2>3, Spoken DEF SaysRest
      <3>2. \A n \in 1..N : ~FinalRows(rows, n)
        BY <2>3, FinalText
      <3> QED BY <3>1, <3>2 DEF RowsInv, RowsAre
    <2>5. Pairs = {}
      <3> SUFFICES ASSUME NEW p \in Pairs PROVE FALSE
        OBVIOUS
      <3>1. p = MadeOf(rows) /\ p[2] # <<>>
        BY <1>0, <2>3, <2>4 DEF Early, Below
      <3> QED BY <2>3, <3>1 DEF MadeOf
    <2>6. LiveRows(rows')
      <3>1. PICK heard \in SUBSET (Present(rows) \cap got) :
              rows' = [s \in Seqs |-> IF s \in heard THEN <<s>> ELSE rows[s]]
        BY <1>10 DEF Retell
      <3>2. N \in Seqs /\ N \notin heard /\ \A s \in Utterances : s \in Seqs
        BY <2>4, NFacts DEF LiveRows, Present, Seqs, Utterances
      <3> QED BY <2>4, <3>1, <3>2 DEF LiveRows
    <2>7. Early(Pairs, rows') /\ AtWork(build'[r], rows', Pairs)
      BY <2>1, <2>5, <2>6 DEF Early, AtWork
    <2>8. RowsAre(rows', Pairs, HearsAll') /\ finished' = finished /\ build[r].at \in Locked
      BY <1>10, <2>1, <2>6, <2>7 DEF RowsAre, Retell, inputs, Locked
    <2> QED BY <1>6, <2>1, <2>2, <2>7, <2>8
  <1>11. ASSUME NEW r \in Builds, Recover(r) PROVE RowsInv' /\ PairsInv'
    <2>1. build[r].at = "recover" /\ Others(r) /\ build'[r].at = "read" /\ build[r].at \in Locked
      BY <1>11, RecoverMoves, Worked DEF Locked
    <2>2. Pairs' \subseteq Pairs /\ finished' = finished /\ got' = got
      BY <1>11, PairsKept DEF BuildStep, Recover, ReadRows, inputs
    <2>3. LiveRows(rows) /\ Early(Pairs, rows)
      BY <2>1 DEF RowsInv, AtWork
    <2>4. AtWork(build'[r], rows', Pairs)
      BY <1>5, <2>1 DEF Locked
    <2> DEFINE n == IF mp3 # 0 THEN mp3 ELSE source
    <2>5. \/ \E tail \in MissingTails(Concat(rows), First(n)) :
               /\ rows' = IF tail = <<>> THEN rows ELSE [rows EXCEPT ![NextSeq] = tail]
               /\ used' = [used EXCEPT !.early = @ \/ (tail # <<>> /\ n < N)]
          \/ rows' = rows
      BY <1>11 DEF Recover
    <2>6. n \in 0..N
      BY DEF BuildTypes
    <2>7. CASE rows' = rows
      BY <1>6, <1>2, <2>1, <2>2, <2>4, <2>7
    <2>8. ASSUME NEW tail \in MissingTails(Concat(rows), First(n)), tail # <<>>,
                 rows' = [rows EXCEPT ![NextSeq] = tail],
                 used' = [used EXCEPT !.early = @ \/ (tail # <<>> /\ n < N)]
          PROVE  RowsInv' /\ PairsInv'
      <3>1. n = N
        <4>1. ~(n < N)
          BY <2>8 DEF BuildTypes
        <4> QED BY <2>6, <4>1, NFacts
      <3>2. /\ NextSeq \in Seqs /\ rows[NextSeq] = NoRow /\ tail \in Tellings
            /\ SaysRest(rows') /\ Concat(rows') # <<>>
        BY <1>0, <2>3, <2>8, <3>1, TailRow DEF NextSeq
      <3>3. Cardinality(Present(rows)) \in Nat
            /\ Cardinality(Present(rows')) = Cardinality(Present(rows)) + 1
        BY <1>0, <2>8, <3>2, OneRowMore
      <3>4. Early(Pairs, rows')
        BY <1>0, <2>3, <3>2, <3>3, StillBelow
      <3>5. Complete
        BY <3>1 DEF Complete
      <3>6. HearsAll
        <4>1. \A q \in Builds : build[q].at \in Locked => q = r
          BY <2>1 DEF LockInv
        <4>2. \A q \in Builds : build[q].at # "commit"
          BY <2>1, <4>1 DEF Locked
        <4> QED BY <3>5, <4>2 DEF HearsAll
      <3>7. RowsAre(rows', Pairs, HearsAll')
        BY <1>0, <3>2, <3>4, <3>6 DEF RowsAre
      <3> QED BY <1>6, <2>1, <2>2, <2>4, <3>7
    <2> HIDE DEF n
    <2> QED BY <2>5, <2>7, <2>8
  <1>12. ASSUME NEW r \in Builds, ReadRows(r) PROVE RowsInv' /\ PairsInv'
    <2>1. Pairs' \subseteq Pairs \cup {MadeOf(rows)} /\ Others(r) /\ build'[r].at = "tidy"
      BY <1>12, PairsKept, ReadMoves, Worked DEF BuildStep
    <2>2. rows' = rows /\ finished' = finished /\ got' = got
      BY <1>12 DEF ReadRows, inputs
    <2> DEFINE both == Pairs \cup {MadeOf(rows)}
    <2>3. RowsAre(rows, both, HearsAll') /\ PairsAre(both, HearsAll')
      <3>1. PairsAre(Pairs, HearsAll')
        BY <1>0, FewerPairs DEF RowsInv, PairsInv
      <3> QED BY <1>0, <1>2, <3>1, OnePairMore
    <2>4. RowsAre(rows', Pairs', HearsAll') /\ PairsAre(Pairs', HearsAll')
      <3> HIDE DEF both
      <3>1. Pairs' \in SUBSET both
        BY <2>1 DEF both
      <3> QED BY <1>0, <2>2, <2>3, <3>1, FewerPairs
    <2>5. Early(Pairs, rows) => Early(Pairs', rows')
      BY <2>1, <2>2 DEF Early, Below
    <2>6. \A q \in Builds : AtWork(build'[q], rows', Pairs')
      <3>1. AtWork(build'[r], rows', Pairs')
        BY <1>5, <2>1 DEF Locked
      <3>2. ASSUME NEW q \in Builds, q # r PROVE AtWork(build'[q], rows', Pairs')
        BY <2>1, <2>2, <2>5, <3>2 DEF AtWork, Others, RowsInv
      <3> QED BY <3>1, <3>2
    <2> QED BY <2>2, <2>4, <2>5, <2>6 DEF RowsInv, PairsInv
  <1>13. ASSUME NEW r \in Builds, Listen(r) PROVE RowsInv' /\ PairsInv'
    <2>1. Pairs' \subseteq Pairs /\ rows' = rows /\ finished' = finished /\ got' = got
          /\ build[r].at = "listen"
      BY <1>13, PairsKept DEF BuildStep, Listen, ReadRows, inputs
    <2>2. ASSUME NEW n, Heard(r, n), n # 0 PROVE RowsInv' /\ PairsInv'
      <3>1. Others(r) /\ AtWork(build'[r], rows, Pairs)
        BY <2>2, HeardIt DEF AtWork
      <3> QED BY <1>4, <2>1, <3>1
    <2>3. ASSUME NotHeard(r) PROVE RowsInv' /\ PairsInv'
      <3>1. Others(r) /\ \/ build'[r].at = "read"
                         \/ ~build[r].had /\ build'[r].at = "retell"
        BY <2>3, HeardNothing
      <3>2. ~build[r].had => Concat(rows) = <<>>
        BY <2>1 DEF RowsInv, AtWork
      <3>3. AtWork(build'[r], rows, Pairs)
        BY <3>1, <3>2 DEF AtWork
      <3> QED BY <1>4, <2>1, <3>1, <3>3
    <2>4. source > 0 => source # 0
      BY NFacts DEF BuildTypes
    <2> QED BY <1>13, <2>2, <2>3, <2>4, ListenMoves
  <1>14. ASSUME NEW r \in Builds, LookFinal(r) PROVE RowsInv' /\ PairsInv'
    <2>1. Pairs' \subseteq Pairs /\ rows' = rows /\ finished' = finished /\ got' = got
      BY <1>14, PairsKept DEF BuildStep, LookFinal, ReadRows, inputs
    <2>2. Others(r) /\ build'[r].at = "listen" /\ build'[r].had = HasText
      BY <1>14, FinalMoves, Looked
    <2>3. ~HasText => Concat(rows) = <<>>
      BY <1>0, ConcatType, SetOfText DEF HasText, Said
    <2>4. AtWork(build'[r], rows, Pairs)
      BY <2>2, <2>3 DEF AtWork
    <2> QED BY <1>4, <2>1, <2>2, <2>4
  <1>15. ASSUME NEW r \in Builds,
                \/ AskTexts(r) \/ Clear(r) \/ LookReady(r) \/ Tidy(r) \/ WriteMeta(r) \/ WriteRaw(r)
                \/ WriteClean(r)
         PROVE  RowsInv' /\ PairsInv'
    <2>1. rows' = rows /\ finished' = finished /\ got' = got /\ ~ReadRows(r)
      BY <1>15 DEF AskTexts, Clear, LookReady, Tidy, WriteMeta, WriteRaw, WriteClean,
           ReadRows, inputs
    <2>2. Pairs' \subseteq Pairs
      BY <1>15, <2>1, PairsKept DEF BuildStep
    <2>3. Others(r)
      BY <1>15, AskMoves, ClearMoves, ReadyMoves, TidyMoves, MetaMoves, RawMoves, CleanMoves
    <2>4. build'[r].at \notin Locked
      BY <1>15, Worked, Looked, Tidied DEF Locked
    <2> QED BY <1>4, <1>5, <2>1, <2>2, <2>3, <2>4
  <1> QED BY <1>7, <1>8, <1>9, <1>10, <1>11, <1>12, <1>13, <1>14, <1>15 DEF BuildNext,
       BuildStep

-----------------------------------------------------------------------------
(* What the requests owe. *)

LEMMA WholeKept ==
  ASSUME BuildTypes, LockInv, WholeInv, BuildNext
  PROVE  WholeInv'
  <1> SUFFICES ASSUME used'.faults = 0, ~used'.late, NEW q \in Builds
               PROVE  /\ build'[q].at = "commit" => build'[q].heard = mp3' /\ mp3' # 0
                      /\ build'[q].full => Owes(q)'
    BY DEF WholeInv
  <1>0. /\ Complete => Complete'
        /\ mp3 # 0 => mp3' = mp3
        /\ N # 0
    BY CompleteKept, NFacts
  <1>a. ASSUME Flags
        PROVE  \A p \in Builds : /\ build[p].at = "commit" => build[p].heard = mp3 /\ mp3 # 0
                                 /\ build[p].full => Owes(p)
    BY <1>a DEF Flags, WholeInv
  \* One that does not move.
  <1>1. ASSUME Flags, build'[q] = build[q], finished => finished',
               build[q].full /\ build[q].at = "read" =>
                 /\ FinalRows(rows', N)
                 /\ \A p \in Builds : /\ build'[p].at = "listen" => build'[p].had
                                      /\ build'[p].at \notin {"retell", "recover"}
        PROVE  /\ build'[q].at = "commit" => build'[q].heard = mp3' /\ mp3' # 0
               /\ build'[q].full => Owes(q)'
    BY <1>0, <1>1, <1>a DEF Owes, FinalRows
  <1>2. ASSUME Flags, SameRequests, finished => finished', rows' = rows
        PROVE  /\ build'[q].at = "commit" => build'[q].heard = mp3' /\ mp3' # 0
               /\ build'[q].full => Owes(q)'
    <2>1. build[q].full /\ build[q].at = "read" =>
            /\ FinalRows(rows', N)
            /\ \A p \in Builds : /\ build'[p].at = "listen" => build'[p].had
                                 /\ build'[p].at \notin {"retell", "recover"}
      BY <1>2, <1>a DEF SameRequests, Owes
    <2> QED BY <1>1, <1>2, <2>1 DEF SameRequests
  <1>3. ASSUME NEW r \in Builds, r # q, Flags, Others(r), finished => finished',
               build[q].full /\ build[q].at = "read" =>
                 /\ FinalRows(rows', N)
                 /\ build'[r].at = "listen" => build'[r].had
                 /\ build'[r].at \notin {"retell", "recover"}
        PROVE  /\ build'[q].at = "commit" => build'[q].heard = mp3' /\ mp3' # 0
               /\ build'[q].full => Owes(q)'
    <2>1. build[q].full /\ build[q].at = "read" =>
            /\ FinalRows(rows', N)
            /\ \A p \in Builds : /\ build'[p].at = "listen" => build'[p].had
                                 /\ build'[p].at \notin {"retell", "recover"}
      BY <1>3, <1>a DEF Others, Owes
    <2> QED BY <1>1, <1>3, <2>1 DEF Others
  <1>4. ASSUME NEW c \in Streamed, LiveChunk(c)
        PROVE  /\ build'[q].at = "commit" => build'[q].heard = mp3' /\ mp3' # 0
               /\ build'[q].full => Owes(q)'
    <2>1. Flags /\ ~finished /\ build' = build
      BY <1>4, FlagsGrow DEF LiveChunk
    <2>2. build[q].at # "commit" /\ ~build[q].full
      BY <1>a, <2>1 DEF LockInv, Locked, Owes
    <2> QED BY <2>1, <2>2
  <1>5. CASE Upload \/ UploadDone \/ Finish \/ FinishDone
    <2>1. Flags
      BY <1>5, FlagsGrow
    <2>2. SameRequests /\ rows' = rows /\ (finished => finished')
      BY <1>5 DEF Upload, UploadDone, Finish, FinishDone, SameRequests, inputs
    <2> QED BY <1>2, <2>1, <2>2
  <1>6. ASSUME NEW r \in Builds, AskTexts(r) \/ BuildStep(r)
        PROVE  /\ build'[q].at = "commit" => build'[q].heard = mp3' /\ mp3' # 0
               /\ build'[q].full => Owes(q)'
    <2>0. Flags
      BY <1>6, FlagsGrow
    <2>a. \A p \in Builds : /\ build[p].at = "commit" => build[p].heard = mp3 /\ mp3 # 0
                            /\ build[p].full => Owes(p)
      BY <1>a, <2>0
    <2>1. CASE AskTexts(r)
      <3>1. Others(r) /\ build'[r].at \in {"clear", "wait"} /\ build'[r].full = FALSE
            /\ rows' = rows /\ finished' = finished
        BY <2>1, AskMoves DEF AskTexts, inputs
      <3>2. CASE q = r
        BY <3>1, <3>2
      <3>3. CASE q # r
        BY <1>3, <2>0, <2>a, <3>1, <3>3 DEF Owes
      <3> QED BY <3>2, <3>3
    <2>2. CASE Clear(r)
      <3>1. Others(r) /\ build[r].at = "clear" /\ build'[r].at = "wait" /\ SameLook(r)
            /\ rows' = rows /\ finished' = finished
        BY <2>2, ClearMoves, Worked DEF Clear, inputs
      <3>2. CASE q = r
        BY <2>a, <3>1, <3>2 DEF Owes, SameLook, Locked
      <3>3. CASE q # r
        BY <1>3, <2>0, <2>a, <3>1, <3>3 DEF Owes
      <3> QED BY <3>2, <3>3
    <2>3. CASE LookReady(r)
      <3>1. Others(r) /\ build'[r].at = "read" /\ build'[r].full = Due
            /\ rows' = rows /\ finished' = finished
        BY <2>3, ReadyMoves, Looked DEF LookReady, inputs
      <3>2. ~Due
        BY <2>3 DEF LookReady, Due, NoText, NeedsFinalPass
      <3>3. CASE q = r
        BY <3>1, <3>2, <3>3
      <3>4. CASE q # r
        BY <1>3, <2>0, <2>a, <3>1, <3>4 DEF Owes
      <3> QED BY <3>3, <3>4
    <2>4. CASE LookFinal(r)
      <3>1. Others(r) /\ build'[r].at = "listen" /\ build'[r].full = Due /\ build'[r].had = HasText
            /\ rows' = rows /\ finished' = finished /\ finished /\ mp3' = mp3 /\ source' = source
        BY <2>4, FinalMoves, Looked DEF LookFinal, inputs
      <3>2. CASE q = r
        <4>1. build'[r].full => Complete'
          BY <3>1 DEF Due, Complete
        <4> QED BY <3>1, <3>2, <4>1 DEF Owes, Locked
      <3>3. CASE q # r
        <4>1. FinalRows(rows, N) => HasText
          <5>1. N \in 1..N
            BY NFacts
          <5>2. First(N) # <<>> /\ First(N) \in Sayings
            <6>1. N \in 0..N
              BY NFacts
            <6> QED BY <5>1, <6>1, Spoken, FirstAndRest, NFacts
          <5> QED BY <5>1, <5>2, FinalText, SetOfText DEF HasText, Said
        <4> QED BY <1>3, <2>0, <2>a, <3>1, <3>3, <4>1 DEF Owes
      <3> QED BY <3>2, <3>3
    <2>5. CASE Listen(r)
      <3>0. /\ build[r].at = "listen" /\ rows' = rows /\ finished' = finished /\ finished
            /\ used'.faults = used.faults /\ mp3' = Materialized
        BY <2>0, <2>5 DEF Listen, inputs, Flags, LockInv, Locked, CountFault, BuildTypes
      <3>1. Complete => mp3' = N
        BY <1>0, <3>0 DEF Complete, Materialized
      <3>2. \/ mp3' # 0 /\ Heard(r, mp3')
            \/ mp3' = 0 /\ NotHeard(r)
        BY <3>0, <2>5, ListenMoves
      <3>3. CASE mp3' # 0 /\ Heard(r, mp3')
        <4>1. Others(r) /\ build'[r].at = "commit" /\ SameLook(r) /\ build'[r].heard = mp3'
          BY <3>3, HeardIt
        <4>2. CASE q = r
          BY <2>a, <3>0, <3>1, <3>3, <4>1, <4>2 DEF Owes, SameLook, Locked
        <4>3. CASE q # r
          BY <1>3, <2>0, <2>a, <3>0, <4>1, <4>3 DEF Owes
        <4> QED BY <4>2, <4>3
      <3>4. CASE mp3' = 0 /\ NotHeard(r)
        <4>1. /\ Others(r) /\ build'[r].full = build[r].full
              /\ \/ build[r].had /\ build'[r].at = "read"
                 \/ ~build[r].had /\ build'[r].at = "retell"
          BY <3>4, HeardNothing
        <4>2. ~Complete
          BY <1>0, <3>1, <3>4
        <4>3. CASE q = r
          BY <2>a, <3>0, <4>1, <4>2, <4>3 DEF Owes
        <4>4. CASE q # r
          <5>1. build[q].full /\ build[q].at = "read" => build[r].had
            BY <2>a, <3>0 DEF Owes
          <5> QED BY <1>3, <2>0, <2>a, <3>0, <4>1, <4>4, <5>1 DEF Owes
        <4> QED BY <4>3, <4>4
      <3> QED BY <3>2, <3>3, <3>4
    <2>6. CASE CommitFinal(r)
      <3>1. /\ Others(r) /\ build[r].at = "commit" /\ FinalRows(rows', build[r].heard)
            /\ build'[r].at = "read" /\ build'[r].full = build[r].full
            /\ finished' = finished /\ finished /\ mp3' = mp3
        BY <2>6, CommitMoves, Worked DEF CommitFinal, inputs, LockInv, Locked
      <3>2. CASE q = r
        <4>1. \A p \in Builds : p # r => build'[p].at \notin Locked
          BY <3>1 DEF LockInv, Others, Locked
        <4>2. \A p \in Builds : /\ build'[p].at = "listen" => build'[p].had
                                /\ build'[p].at \notin {"retell", "recover"}
          BY <3>1, <4>1 DEF Locked
        <4>3. build[r].full => mp3 = N /\ FinalRows(rows', N)
          BY <2>a, <3>1 DEF Owes
        <4> QED BY <3>1, <3>2, <4>2, <4>3 DEF Owes, Locked, FinalRows
      <3>3. CASE q # r
        <4>1. build[q].full /\ build[q].at = "read" => FinalRows(rows', N)
          BY <2>a, <3>1 DEF Owes
        <4> QED BY <1>3, <2>0, <3>1, <3>3, <4>1
      <3> QED BY <3>2, <3>3
    <2>7. CASE Retell(r) \/ Recover(r)
      <3>1. /\ Others(r) /\ build[r].at \in {"retell", "recover"}
            /\ build'[r].at \in {"recover", "read"} /\ build'[r].full = build[r].full
            /\ finished' = finished
        BY <2>7, RetellMoves, RecoverMoves, Worked DEF Retell, Recover, inputs, SameLook
      <3>2. CASE q = r
        BY <2>a, <3>1, <3>2 DEF Owes
      <3>3. CASE q # r
        BY <1>3, <2>0, <2>a, <3>1, <3>3 DEF Owes
      <3> QED BY <3>2, <3>3
    <2>8. CASE ReadRows(r)
      <3>1. /\ Others(r) /\ build[r].at = "read" /\ build'[r].at = "tidy" /\ SameLook(r)
            /\ build'[r].said = Concat(rows) /\ rows' = rows /\ finished' = finished
        BY <2>8, ReadMoves, Worked DEF ReadRows, inputs
      <3>2. CASE q = r
        <4>1. build[r].full => FinalRows(rows, N) /\ finished
          BY <2>a, <3>1 DEF Owes
        <4>2. FinalRows(rows, N) => Concat(rows) = AllSaid
          <5>1. N \in 1..N
            BY NFacts
          <5> QED BY <5>1, FinalText, FirstAndRest
        <4> QED BY <3>1, <3>2, <4>1, <4>2 DEF Owes, SameLook, Locked
      <3>3. CASE q # r
        BY <1>3, <2>0, <2>a, <3>1, <3>3 DEF Owes
      <3> QED BY <3>2, <3>3
    <2>9. CASE Tidy(r) \/ WriteMeta(r) \/ WriteRaw(r) \/ WriteClean(r)
      <3>1. /\ Others(r) /\ build[r].at \in {"tidy", "meta", "row", "clean"}
            /\ build'[r].at \in {"meta", "row", "clean", "answered"}
        BY <2>9, Tidied, MetaMoves, RawMoves, CleanMoves, Worked
      <3>2. SameLook(r) /\ build'[r].said = build[r].said
        BY <2>9, Tidied, Worked DEF SameWords
      <3>3. rows' = rows /\ finished' = finished
        BY <2>9 DEF Tidy, WriteMeta, WriteRaw, WriteClean, inputs
      <3>4. CASE q = r
        BY <2>a, <3>1, <3>2, <3>3, <3>4 DEF Owes, SameLook, Locked
      <3>5. CASE q # r
        BY <1>3, <2>0, <2>a, <3>1, <3>3, <3>5 DEF Owes
      <3> QED BY <3>4, <3>5
    <2> QED BY <1>6, <2>1, <2>2, <2>3, <2>4, <2>5, <2>6, <2>7, <2>8, <2>9 DEF BuildStep
  <1> QED BY <1>4, <1>5, <1>6 DEF BuildNext

-----------------------------------------------------------------------------
(* The properties of the texts. *)

LEMMA TextStep == TextInv /\ [BuildNext]_buildVars => TextInv'
  <1> SUFFICES ASSUME TextInv, [BuildNext]_buildVars PROVE TextInv'
    OBVIOUS
  <1>1. CASE BuildNext
    <2>1. BuildTypes' /\ LockInv' /\ WholeInv'
      BY <1>1, TypesKept, LockKept, WholeKept DEF TextInv
    <2>2. CacheInv'
      BY <1>1, CacheKept DEF TextInv
    <2>3. (used.late => used'.late) /\ (used.early => used'.early)
      BY <1>1, FlagsGrow DEF TextInv, Flags, BuildNext
    <2>4. ~used'.late /\ ~used'.early => RowsInv' /\ PairsInv'
      BY <1>1, <2>3, RowsKept DEF TextInv
    <2> QED BY <2>1, <2>2, <2>4 DEF TextInv
  <1>2. CASE UNCHANGED buildVars
    <2>1. BuildTypes'
      BY <1>2 DEF TextInv, BuildTypes, buildVars, inputs
    <2>2. LockInv' /\ WholeInv' /\ CacheInv'
      BY <1>2 DEF TextInv, buildVars, inputs, LockInv, WholeInv, CacheInv, Owes, Complete
    <2>3. Pairs' = Pairs /\ HearsAll' = HearsAll
      BY <1>2 DEF buildVars, inputs, Pairs, Holding, CacheHolds, Filling, HearsAll, Complete
    <2>4. ~used'.late /\ ~used'.early => RowsInv' /\ PairsInv'
      BY <1>2, <2>3 DEF TextInv, buildVars, inputs, RowsInv, PairsInv
    <2> QED BY <2>1, <2>2, <2>4 DEF TextInv
  <1> QED BY <1>1, <1>2

LEMMA TextAlways == BuildSpec => []TextInv
  BY InitTypes, TextStep, PTL DEF BuildSpec

\* Nothing is said twice in the rows of a meeting, whatever the live audio, single
\* chunks heard again, the recording's tail and final passes leave in them.
THEOREM NothingIsSaidTwice == BuildSpec => []SaidOnce
  <1>1. TextInv => SaidOnce
    <2> SUFFICES ASSUME TextInv, ~used.late, ~used.early PROVE NoDuplicates(Concat(rows))
      BY DEF SaidOnce
    <2>1. RowsAre(rows, Pairs, HearsAll) /\ rows \in [Seqs -> Row]
      BY DEF TextInv, RowsInv, BuildTypes
    <2>2. CASE LiveRows(rows)
      BY <2>1, <2>2, LiveText, InOrder
    <2>3. ASSUME NEW a \in Utterances, Concat(rows) = Rest(a) PROVE NoDuplicates(Concat(rows))
      <3>1. Rest(a) \in Sayings /\ Len(Rest(a)) = N - a
            /\ \A i \in 1 .. N - a : Rest(a)[i] = a + i - 1
        BY FirstAndRest, NFacts
      <3>2. a \in Nat /\ N \in Nat
        BY NFacts DEF Utterances
      <3>3. \A i, j \in 1 .. Len(Rest(a)) : i < j => Rest(a)[i] # Rest(a)[j]
        BY <3>1, <3>2
      <3> QED BY <2>3, <3>1, <3>3, Distinct
    <2>4. ASSUME NEW n \in 1..N, FinalRows(rows, n) PROVE NoDuplicates(Concat(rows))
      <3>1. n \in 0..N /\ Concat(rows) = First(n)
        BY <2>4, FinalText, NFacts
      <3>2. First(n) \in Sayings /\ Len(First(n)) = n /\ \A i \in 1..n : First(n)[i] = i - 1
        BY <3>1, FirstAndRest, NFacts
      <3>3. \A i, j \in 1 .. Len(First(n)) : i < j => First(n)[i] # First(n)[j]
        BY <3>2
      <3> QED BY <3>1, <3>2, <3>3, Distinct
    <2> QED BY <2>1, <2>2, <2>3, <2>4 DEF RowsAre, SaysRest
  <1> QED BY <1>1, TextAlways, PTL

\* A request that looked when the whole recording was there and no text yet answers
\* with all that was said: what it found at the look holds under the lock, and after
\* it no other request has reason to put other rows in place of the final pass's.
THEOREM AnswersAreWhole == BuildSpec => []WholeAnswer
  <1>1. TextInv => WholeAnswer
    BY DEF TextInv, WholeInv, WholeAnswer, Owes
  <1> QED BY <1>1, TextAlways, PTL

\* The cleaned text that goes with an answer was made of the answer's own text: the
\* signature in the cache is never that of other rows.
THEOREM CleanTextsAreRaw == BuildSpec => []CleanIsRaw
  <1>1. TextInv => CleanIsRaw
    BY DEF TextInv, CacheInv, CleanIsRaw
  <1> QED BY <1>1, TextAlways, PTL

-----------------------------------------------------------------------------
(* The index of the texts.  Types first. *)

Points == {"idle", "next", "embed", "close", "answered", "leave"}
Vecs == Providers \cup {"hashing_local", "none"}
Made == [sha : Nat, vec : Vecs]
Answers == [m : Meetings, ix : Made]

\* What a worker does; a job only counts what it got.
Work(G) == [at : Points, todo : Seq(Meetings), auto : BOOLEAN, force : BOOLEAN,
            made : Made, got : Seq(G), since : [Meetings -> Nat],
            clean : BOOLEAN, space : Vecs]
Got(w) == IF w \in Queries THEN Answers ELSE {"ok"}

Types ==
  /\ text \in [Meetings -> Nat]
  /\ index \in [Meetings -> Made \cup {NoIndex, Torn}]
  /\ provider \in Providers
  /\ DOMAIN work = Workers /\ work = [w \in Workers |-> work[w]]
  /\ \A w \in Workers :
       /\ work[w] \in Work(Got(w))
       /\ work[w].at \in {"embed", "close"} => work[w].todo # <<>>

-----------------------------------------------------------------------------
(* Types.  A step of a worker leaves the others' work alone. *)

LEMMA NoWorkTyped == \A G : NoWork \in Work(G)
  BY DEF NoWork, Work, Points, Made, Vecs

\* One worker's work is replaced by work of the same type.
LEMMA ReplaceKeeps ==
  ASSUME Types, NEW w \in Workers, NEW r \in Work(Got(w)),
         r.at \in {"embed", "close"} => r.todo # <<>>,
         work' = [work EXCEPT ![w] = r],
         text' = text, provider' = provider,
         index' \in [Meetings -> Made \cup {NoIndex, Torn}]
  PROVE  Types'
  <1>1. DOMAIN work' = Workers /\ work' = [v \in Workers |-> work'[v]]
    BY DEF Types
  <1>2. \A v \in Workers : work'[v] = IF v = w THEN r ELSE work[v]
    BY DEF Types
  <1>3. \A v \in Workers : /\ work'[v] \in Work(Got(v))
                           /\ work'[v].at \in {"embed", "close"} => work'[v].todo # <<>>
    BY <1>2 DEF Types
  <1> QED
    BY <1>1, <1>3 DEF Types, Got

\* What a worker's work is after it used the index `ix`, or failed.
Used(w, ix) ==
  [work[w] EXCEPT !.at = "next", !.todo = Tail(@), !.made = NoWork.made,
                  !.got = IF w \in Queries
                            THEN Append(@, [m |-> Current(w), ix |-> ix]) ELSE <<"ok">>]
Skipped(w) ==
  [work[w] EXCEPT !.at = "next", !.todo = Tail(@), !.made = NoWork.made]

LEMMA UseReplaces ==
  ASSUME Types, NEW w \in Workers, work[w].todo # <<>>, NEW ix \in Made
  PROVE  /\ Use(w, ix) = [work EXCEPT ![w] = Used(w, ix)]
         /\ Used(w, ix) \in Work(Got(w)) /\ Used(w, ix).at = "next"
         /\ Used(w, ix).auto = work[w].auto /\ Used(w, ix).since = work[w].since
         /\ Used(w, ix).clean = work[w].clean /\ Used(w, ix).space = work[w].space
         /\ w \in Queries => Used(w, ix).got = Append(work[w].got, [m |-> Current(w),
              ix |-> ix])
         /\ Current(w) \in Meetings
  <1>1. work[w] \in Work(Got(w)) /\ work[w].todo \in Seq(Meetings)
    BY DEF Types, Work
  <1>2. Current(w) \in Meetings /\ Tail(work[w].todo) \in Seq(Meetings)
    BY <1>1, HeadTailProperties DEF Current
  <1>3. NoWork.made \in Made
    BY DEF NoWork, Made, Vecs
  <1>4. w \in Queries => Append(work[w].got, [m |-> Current(w), ix |-> ix]) \in Seq(Got(w))
    <2>1. w \in Queries => [m |-> Current(w), ix |-> ix] \in Got(w)
      BY <1>2 DEF Got, Answers
    <2>2. work[w].got \in Seq(Got(w))
      BY <1>1 DEF Work
    <2> QED
      BY <2>1, <2>2, AppendProperties
  <1>5. w \notin Queries => <<"ok">> \in Seq(Got(w))
    BY DEF Got
  <1>6. Use(w, ix) = [work EXCEPT ![w] = Used(w, ix)]
    BY <1>1 DEF Use, Used, Types
  <1> QED
    BY <1>1, <1>2, <1>3, <1>4, <1>5, <1>6 DEF Used, Work, Points

LEMMA SkipReplaces ==
  ASSUME Types, NEW w \in Workers, work[w].todo # <<>>
  PROVE  /\ Failed(w) = [work EXCEPT ![w] = Skipped(w)]
         /\ Skipped(w) \in Work(Got(w)) /\ Skipped(w).at = "next"
         /\ Skipped(w).auto = work[w].auto /\ Skipped(w).since = work[w].since
         /\ Skipped(w).clean = work[w].clean /\ Skipped(w).got = work[w].got
  <1>1. work[w] \in Work(Got(w)) /\ work[w].todo \in Seq(Meetings)
    BY DEF Types, Work
  <1>2. Tail(work[w].todo) \in Seq(Meetings)
    BY <1>1, HeadTailProperties
  <1>3. NoWork.made \in Made
    BY DEF NoWork, Made, Vecs
  <1>4. Failed(w) = [work EXCEPT ![w] = Skipped(w)]
    BY <1>1 DEF Failed, Skipped, Types
  <1> QED
    BY <1>1, <1>2, <1>3, <1>4 DEF Skipped, Work, Points
-----------------------------------------------------------------------------
(* Queries: what a query has is as new as the query and of one provider. *)

Trusts(r, t, p) ==
  /\ \A m \in Meetings : r.since[m] <= t[m]
  /\ r.at = "idle" => r.got = <<>>
  /\ r.at \in {"embed", "close"} => r.auto /\ r.made.sha >= r.since[Head(r.todo)]
  /\ r.auto => \A i \in DOMAIN r.got : r.got[i].ix.sha >= r.since[r.got[i].m]
  /\ r.auto /\ r.clean =>
       /\ \A i \in DOMAIN r.got : r.got[i].ix.vec = p
       /\ r.at \in {"embed", "close"} => r.made.vec = p
       /\ r.at = "answered" => r.got = <<>> \/ r.space = p

QueryInv == Types /\ \A q \in Queries : Trusts(work[q], text, provider)

LEMMA NoWorkTrusts ==
  ASSUME Types PROVE Trusts(NoWork, text, provider)
  BY DEF Types, Trusts, NoWork

\* One worker's step, of which only its own work is to be looked at.
LEMMA ReplaceTrusts ==
  ASSUME QueryInv, NEW w \in Workers, NEW r \in Work(Got(w)),
         r.at \in {"embed", "close"} => r.todo # <<>>,
         w \in Queries => Trusts(r, text, provider),
         work' = [work EXCEPT ![w] = r],
         text' = text, provider' = provider,
         index' \in [Meetings -> Made \cup {NoIndex, Torn}]
  PROVE  QueryInv'
  <1>1. Types'
    BY ReplaceKeeps DEF QueryInv
  <1>2. \A v \in Workers : work'[v] = IF v = w THEN r ELSE work[v]
    BY DEF QueryInv, Types
  <1>3. \A q \in Queries : Trusts(work'[q], text, provider)
    BY <1>2 DEF QueryInv, Workers
  <1> QED
    BY <1>1, <1>3 DEF QueryInv

\* An index that is as new as the query and of the provider may be used.
LEMMA UseTrusts ==
  ASSUME QueryInv, NEW w \in Workers, NEW ix \in Made,
         work[w].todo # <<>>, work[w].at # "idle",
         work[w].auto => ix.sha >= work[w].since[Current(w)],
         work[w].auto /\ work[w].clean => ix.vec = provider,
         work' = Use(w, ix), text' = text, provider' = provider,
         index' \in [Meetings -> Made \cup {NoIndex, Torn}]
  PROVE  QueryInv'
  <1>0. Types
    BY DEF QueryInv
  <1> DEFINE r == Used(w, ix)
  <1>1. /\ work' = [work EXCEPT ![w] = r]
        /\ r \in Work(Got(w)) /\ r.at = "next"
        /\ r.auto = work[w].auto /\ r.since = work[w].since /\ r.clean = work[w].clean
        /\ w \in Queries => r.got = Append(work[w].got, [m |-> Current(w), ix |-> ix])
    BY <1>0, UseReplaces
  <1>2. ASSUME w \in Queries PROVE Trusts(r, text, provider)
    <2> DEFINE a == [m |-> Current(w), ix |-> ix]
    <2>1. Trusts(work[w], text, provider)
      BY <1>2 DEF QueryInv
    <2>2. work[w].got \in Seq(Answers)
      BY <1>0, <1>2 DEF Types, Work, Got
    <2>3. a \in Answers
      BY <1>0, UseReplaces DEF Answers
    <2>4. \A i \in DOMAIN r.got : r.got[i] = a \/
         (i \in DOMAIN work[w].got /\ r.got[i] = work[w].got[i])
      <3> HIDE DEF a, r
      <3>1. r.got = Append(work[w].got, a)
        BY <1>1, <1>2 DEF a
      <3> QED
        BY <3>1, <2>2, <2>3, AppendProperties
    <2>5. a.m = Current(w) /\ a.ix = ix
      OBVIOUS
    <2> HIDE DEF a, r
    <2>6. r.auto => \A i \in DOMAIN r.got : r.got[i].ix.sha >= r.since[r.got[i].m]
      BY <1>1, <2>1, <2>4, <2>5 DEF Trusts
    <2>7. r.auto /\ r.clean => \A i \in DOMAIN r.got : r.got[i].ix.vec = provider
      BY <1>1, <2>1, <2>4, <2>5 DEF Trusts
    <2> QED
      BY <1>1, <2>1, <2>6, <2>7 DEF Trusts
  <1> HIDE DEF r
  <1> QED
    BY <1>1, <1>2, ReplaceTrusts

LEMMA FailTrusts ==
  ASSUME QueryInv, NEW w \in Workers, work[w].todo # <<>>, work[w].at # "idle",
         work[w].at # "answered",
         work' = Failed(w), text' = text, provider' = provider, index' = index
  PROVE  QueryInv'
  <1>0. Types
    BY DEF QueryInv
  <1> DEFINE r == Skipped(w)
  <1>1. /\ work' = [work EXCEPT ![w] = r]
        /\ r \in Work(Got(w)) /\ r.at = "next"
        /\ r.auto = work[w].auto /\ r.since = work[w].since
        /\ r.clean = work[w].clean /\ r.got = work[w].got
    BY <1>0, SkipReplaces
  <1>2. index' \in [Meetings -> Made \cup {NoIndex, Torn}]
    BY <1>0 DEF Types
  <1> HIDE DEF r
  <1>3. w \in Queries => Trusts(r, text, provider)
    BY <1>1 DEF QueryInv, Trusts
  <1> QED
    BY <1>1, <1>2, <1>3, ReplaceTrusts

LEMMA EnsureTrusts ==
  ASSUME QueryInv, NEW w \in Workers, Ensure(w)
  PROVE  QueryInv'
  <1> DEFINE m == Current(w)
  <1>0. /\ Types
        /\ work[w] \in Work(Got(w))
        /\ w \in Queries => Trusts(work[w], text, provider)
    BY DEF QueryInv, Types
  <1>1. work[w].todo # <<>> /\ work[w].at \in {"next", "embed", "close"}
    BY <1>0 DEF Ensure, LookOnly, Look, Embed, Close, Types
  <1>2. m \in Meetings /\ m = Head(work[w].todo)
    BY <1>0, <1>1, HeadTailProperties DEF Work, Current
  <1>3. index[m] \in Made \cup {NoIndex, Torn} /\ text[m] \in Nat
    BY <1>0, <1>2 DEF Types
  <1>4. text' = text /\ provider' = provider
    BY DEF Ensure, LookOnly, Look, Embed, Close, files
  <1>5. index' \in [Meetings -> Made \cup {NoIndex, Torn}]
    <2>1. CASE index' = index
      BY <2>1, <1>0 DEF Types
    <2>2. CASE \E ix \in Made \cup {NoIndex, Torn} : index' = [index EXCEPT ![m] = ix]
      BY <2>2, <1>0 DEF Types
    <2>3. work[w].made \in Made
      BY <1>0 DEF Work
    <2> QED
      BY <2>1, <2>2, <2>3 DEF Ensure, LookOnly, Look, Embed, Close, Open, files
  <1> HIDE DEF m
  <1>6. CASE LookOnly(w)
    <2>1. CASE index[m] \in {NoIndex, Torn}
      BY <1>1, <1>4, <1>6, <2>1, FailTrusts DEF LookOnly, m, files
    <2>2. CASE index[m] \notin {NoIndex, Torn}
      BY <1>1, <1>3, <1>4, <1>5, <1>6, <2>2, UseTrusts DEF LookOnly, m
    <2> QED
      BY <2>1, <2>2
  <1>7. CASE Look(w)
    <2>1. CASE work' = Failed(w)
      BY <1>1, <1>4, <1>7, <2>1, FailTrusts DEF Look, files
    <2>2. CASE Good(index[m], text[m]) /\ work' = Use(w, index[m])
      <3>1. index[m] \in Made /\ index[m].sha = text[m] /\ index[m].vec = provider
        BY <1>3, <2>2 DEF Good, Compatible
      <3>2. CASE w \in Queries
        <4>1. text[m] >= work[w].since[m]
          BY <1>0, <1>2, <1>3, <3>2 DEF Trusts, Types, Work
        <4> QED
          BY <1>1, <1>4, <1>5, <2>2, <3>1, <4>1, UseTrusts DEF m
      <3>3. CASE w \notin Queries
        <4>1. Use(w, index[m]) = [work EXCEPT ![w] = Used(w, index[m])]
              /\ Used(w, index[m]) \in Work(Got(w)) /\ Used(w, index[m]).at = "next"
          BY <1>0, <1>1, <3>1, UseReplaces
        <4> QED
          BY <1>4, <1>5, <2>2, <3>3, <4>1, ReplaceTrusts
      <3> QED
        BY <3>2, <3>3
    <2>3. CASE work' = [work EXCEPT ![w].at = "embed",
                                    ![w].made = [sha |-> text[m], vec |-> provider]]
      <3> DEFINE r == [work[w] EXCEPT !.at = "embed", !.made = [sha |-> text[m],
           vec |-> provider]]
      <3>1. work' = [work EXCEPT ![w] = r]
        BY <2>3, <1>0 DEF Types
      <3>2. [sha |-> text[m], vec |-> provider] \in Made
        BY <1>0, <1>3 DEF Made, Vecs, Types
      <3>3. /\ r \in Work(Got(w)) /\ r.at = "embed" /\ r.todo = work[w].todo
            /\ r.auto = work[w].auto /\ r.since = work[w].since /\ r.clean = work[w].clean
            /\ r.got = work[w].got /\ r.made = [sha |-> text[m], vec |-> provider]
        BY <1>0, <3>2 DEF Work, Points
      <3>4. work[w].auto
        BY <1>7 DEF Look
      <3> HIDE DEF r
      <3>5. ASSUME w \in Queries PROVE Trusts(r, text, provider)
        <4>1. text[m] >= work[w].since[m]
          BY <1>0, <1>2, <1>3, <3>5 DEF Trusts, Types, Work
        <4> QED
          BY <1>0, <1>2, <3>3, <3>4, <3>5, <4>1 DEF Trusts
      <3> QED
        BY <1>1, <1>4, <1>5, <3>1, <3>3, <3>5, ReplaceTrusts
    <2> QED
      BY <1>7, <2>1, <2>2, <2>3 DEF Look, m
  <1>8. CASE Embed(w)
    <2>1. CASE Goto(w, "close")
      <3> DEFINE r == [work[w] EXCEPT !.at = "close"]
      <3>1. work' = [work EXCEPT ![w] = r]
        BY <2>1, <1>0 DEF Types, Goto
      <3>2. /\ r \in Work(Got(w)) /\ r.at = "close" /\ r.todo = work[w].todo
            /\ r.auto = work[w].auto /\ r.since = work[w].since /\ r.clean = work[w].clean
            /\ r.got = work[w].got /\ r.made = work[w].made
        BY <1>0 DEF Work, Points
      <3>3. work[w].at = "embed"
        BY <1>8 DEF Embed
      <3> HIDE DEF r
      <3>4. w \in Queries => Trusts(r, text, provider)
        BY <1>0, <3>2, <3>3 DEF Trusts
      <3> QED
        BY <1>1, <1>4, <1>5, <3>1, <3>2, <3>4, ReplaceTrusts
    <2>2. CASE work' = [work EXCEPT ![w].at = "close", ![w].clean = FALSE,
                                    ![w].made.vec = "hashing_local"]
      <3> DEFINE r == [work[w] EXCEPT !.at = "close", !.clean = FALSE,
                                      !.made = [@ EXCEPT !.vec = "hashing_local"]]
      <3>1. work' = [work EXCEPT ![w] = r]
        BY <2>2, <1>0 DEF Types
      <3>2. /\ [work[w].made EXCEPT !.vec = "hashing_local"] \in Made
            /\ [work[w].made EXCEPT !.vec = "hashing_local"].sha = work[w].made.sha
        BY <1>0 DEF Work, Made, Vecs
      <3>3. /\ r \in Work(Got(w)) /\ r.at = "close" /\ r.todo = work[w].todo
            /\ r.auto = work[w].auto /\ r.since = work[w].since /\ r.clean = FALSE
            /\ r.got = work[w].got /\ r.made.sha = work[w].made.sha
        BY <1>0, <3>2 DEF Work, Points
      <3>4. work[w].at = "embed"
        BY <1>8 DEF Embed
      <3> HIDE DEF r
      <3>5. w \in Queries => Trusts(r, text, provider)
        BY <1>0, <3>3, <3>4 DEF Trusts
      <3> QED
        BY <1>1, <1>4, <1>5, <3>1, <3>3, <3>5, ReplaceTrusts
    <2>3. CASE work' = Failed(w) /\ UNCHANGED index
      BY <1>1, <1>4, <2>3, FailTrusts
    <2> QED
      BY <1>8, <2>1, <2>2, <2>3 DEF Embed
  <1>9. CASE Close(w)
    <2>1. work[w].made \in Made /\ work[w].at = "close" /\ work' = Use(w, work[w].made)
      BY <1>0, <1>9 DEF Work, Close
    <2>2. CASE w \in Queries
      <3>1. /\ work[w].made.sha >= work[w].since[m]
            /\ work[w].auto /\ work[w].clean => work[w].made.vec = provider
        BY <1>0, <1>2, <2>1, <2>2 DEF Trusts
      <3> QED
        BY <1>1, <1>4, <1>5, <2>1, <3>1, UseTrusts DEF m
    <2>3. CASE w \notin Queries
      <3>1. /\ Use(w, work[w].made) = [work EXCEPT ![w] = Used(w, work[w].made)]
            /\ Used(w, work[w].made) \in Work(Got(w)) /\ Used(w, work[w].made).at = "next"
        BY <1>0, <1>1, <2>1, UseReplaces
      <3> QED
        BY <1>4, <1>5, <2>1, <2>3, <3>1, ReplaceTrusts
    <2> QED
      BY <2>2, <2>3
  <1> QED
    BY <1>6, <1>7, <1>8, <1>9 DEF Ensure

LEMMA AskTrusts ==
  ASSUME QueryInv, NEW q \in Queries, Ask(q)
  PROVE  QueryInv'
  <1>0. Types /\ q \in Workers
    BY DEF QueryInv, Workers
  <1>1. PICK list \in QueryLists, auto \in BOOLEAN, force \in BOOLEAN :
          work' = [work EXCEPT ![q] = [NoWork EXCEPT !.at = "next", !.todo = list,
                                         !.auto = auto, !.force = force, !.since = text]]
    BY DEF Ask
  <1> DEFINE r == [NoWork EXCEPT !.at = "next", !.todo = list, !.auto = auto,
                                 !.force = force, !.since = text]
  <1>2. list \in Seq(Meetings) /\ text \in [Meetings -> Nat]
    BY <1>0, RagAssumption DEF Types
  <1>3. /\ r \in Work(Got(q)) /\ r.at = "next" /\ r.got = <<>> /\ r.since = text
    BY <1>2, NoWorkTyped DEF NoWork, Work, Points
  <1>4. work' = [work EXCEPT ![q] = r]
    BY <1>1
  <1> HIDE DEF r
  <1>5. Trusts(r, text, provider)
    BY <1>2, <1>3 DEF Trusts
  <1>6. text' = text /\ provider' = provider /\ index' \in [Meetings -> Made \cup {NoIndex, Torn}]
    BY <1>0 DEF Ask, files, Types
  <1> QED
    BY <1>0, <1>3, <1>4, <1>5, <1>6, ReplaceTrusts

LEMMA RankTrusts ==
  ASSUME QueryInv, NEW q \in Queries, Rank(q)
  PROVE  QueryInv'
  <1>0. /\ Types /\ q \in Workers
        /\ work[q] \in Work(Got(q)) /\ Got(q) = Answers
        /\ Trusts(work[q], text, provider)
    BY DEF QueryInv, Workers, Types, Got
  <1>1. /\ text' = text /\ provider' = provider
        /\ index' \in [Meetings -> Made \cup {NoIndex, Torn}]
    BY <1>0 DEF Rank, files, Types
  <1>2. CASE work[q].got = <<>>
    <2> DEFINE r == [work[q] EXCEPT !.at = "answered"]
    <2>1. work' = [work EXCEPT ![q] = r]
      BY <1>0, <1>2 DEF Rank, Goto, Types
    <2>2. /\ r \in Work(Got(q)) /\ r.at = "answered" /\ r.since = work[q].since
          /\ r.got = <<>>
      BY <1>0, <1>2 DEF Work, Points
    <2> HIDE DEF r
    <2>3. Trusts(r, text, provider)
      BY <1>0, <2>2 DEF Trusts
    <2> QED
      BY <1>0, <1>1, <2>1, <2>2, <2>3, ReplaceTrusts
  <1>3. CASE work[q].got # <<>>
    <2> DEFINE p == Head(work[q].got).ix.vec
    <2>0. work[q].got \in Seq(Answers) /\ 1 \in DOMAIN work[q].got /\ Head(work[q].got) = work[q].got[1]
      BY <1>0, <1>3 DEF Work
    <2>1. p \in Vecs /\ p = work[q].got[1].ix.vec
      <3>1. work[q].got[1] \in Answers
        BY <2>0
      <3> QED
        BY <2>0, <3>1 DEF Answers, Made
    <2>2. PICK clean \in {work[q].clean, FALSE}, space \in Vecs :
            /\ work' = [work EXCEPT ![q].at = "answered", ![q].clean = clean,
                 ![q].space = space]
            /\ clean => space = p
      <3>1. CASE work' = [work EXCEPT ![q].at = "answered", ![q].space = p]
        <4>1. work' = [work EXCEPT ![q].at = "answered", ![q].clean = work[q].clean,
             ![q].space = p]
          BY <1>0, <3>1 DEF Types, Work
        <4> QED
          BY <2>1, <4>1
      <3>2. CASE work' = [work EXCEPT ![q].at = "answered", ![q].clean = FALSE,
                   ![q].space = IF p = "gemini" THEN "hashing_local" ELSE "none"]
        BY <3>2 DEF Vecs
      <3> QED
        BY <1>3, <3>1, <3>2 DEF Rank
    <2> DEFINE r == [work[q] EXCEPT !.at = "answered", !.clean = clean, !.space = space]
    <2>3. work' = [work EXCEPT ![q] = r]
      BY <1>0, <2>2 DEF Types
    <2>4. /\ r \in Work(Got(q)) /\ r.at = "answered" /\ r.since = work[q].since
          /\ r.got = work[q].got /\ r.auto = work[q].auto /\ r.clean = clean /\ r.space = space
      BY <1>0 DEF Work, Points
    <2>5. work[q].auto /\ clean => space = provider
      BY <1>0, <2>0, <2>1, <2>2 DEF Trusts
    <2> HIDE DEF r, p
    <2>6. Trusts(r, text, provider)
      BY <1>0, <1>3, <2>2, <2>4, <2>5 DEF Trusts, Rank, Ready
    <2> QED
      BY <1>0, <1>1, <2>3, <2>4, <2>6, ReplaceTrusts
  <1> QED
    BY <1>2, <1>3

LEMMA JobTrusts ==
  ASSUME QueryInv, NEW j \in Jobs, Start(j) \/ Take(j) \/ Done(j) \/ Leave(j)
  PROVE  QueryInv'
  <1>0. Types /\ j \in Workers /\ j \notin Queries
    BY WorkersAssumption DEF QueryInv, Workers
  <1>1. PICK r \in Work(Got(j)) :
          /\ work' = [work EXCEPT ![j] = r] /\ r.at \in {"idle", "next", "leave"}
    <2>1. CASE Start(j)
      <3>1. PICK list \in JobLists, force \in BOOLEAN :
              work' = [work EXCEPT ![j] = [NoWork EXCEPT !.todo = list, !.force = force]]
        BY <2>1 DEF Start
      <3>2. list \in Seq(Meetings)
        BY RagAssumption
      <3>3. [NoWork EXCEPT !.todo = list, !.force = force] \in Work(Got(j))
        BY <3>2, NoWorkTyped DEF Work
      <3>4. [NoWork EXCEPT !.todo = list, !.force = force].at = "idle"
        BY DEF NoWork
      <3> QED
        BY <3>1, <3>3, <3>4
    <2>2. CASE Done(j)
      <3>1. /\ [NoWork EXCEPT !.at = "leave"] \in Work(Got(j))
            /\ [NoWork EXCEPT !.at = "leave"].at = "leave"
        BY NoWorkTyped DEF NoWork, Work, Points
      <3> QED
        BY <2>2, <3>1 DEF Done
    <2>3. CASE Take(j) \/ Leave(j)
      <3>1. PICK point \in {"next", "idle"} : work' = [work EXCEPT ![j].at = point]
        BY <2>3 DEF Take, Leave, Goto
      <3>2. /\ work' = [work EXCEPT ![j] = [work[j] EXCEPT !.at = point]]
            /\ [work[j] EXCEPT !.at = point] \in Work(Got(j))
            /\ [work[j] EXCEPT !.at = point].at = point
        BY <1>0, <3>1 DEF Types, Work, Points
      <3> QED
        BY <3>2
    <2> QED
      BY <2>1, <2>2, <2>3
  <1>2. /\ text' = text /\ provider' = provider
        /\ index' \in [Meetings -> Made \cup {NoIndex, Torn}]
    BY <1>0 DEF Start, Take, Done, Leave, files, Types
  <1> QED
    BY <1>0, <1>1, <1>2, ReplaceTrusts

LEMMA QueryStep == QueryInv /\ [Next]_vars => QueryInv'
  <1> SUFFICES ASSUME QueryInv, [Next]_vars PROVE QueryInv'
    OBVIOUS
  <1>0. /\ Types
        /\ \A w \in Workers : work[w] \in Work(Got(w))
        /\ \A q \in Queries : q \in Workers /\ Trusts(work[q], text, provider)
    BY DEF QueryInv, Types, Workers
  <1>1. ASSUME NEW m \in Meetings, WriteText(m) PROVE QueryInv'
    <2>1. text' \in [Meetings -> Nat] /\ \A x \in Meetings : text'[x] >= text[x]
      BY <1>0, <1>1 DEF WriteText, Types
    <2>2. UNCHANGED <<index, provider, work>>
      BY <1>1 DEF WriteText
    <2>3. \A q \in Queries : \A x \in Meetings : work[q].since[x] <= text'[x]
      <3> SUFFICES ASSUME NEW q \in Queries, NEW x \in Meetings
                   PROVE  work[q].since[x] <= text'[x]
        OBVIOUS
      <3>1. work[q].since[x] \in Nat /\ text[x] \in Nat /\ text'[x] \in Nat
        BY <1>0, <2>1 DEF Work, Types
      <3>2. work[q].since[x] <= text[x]
        BY <1>0 DEF Trusts
      <3> QED
        BY <2>1, <3>1, <3>2
    <2>4. Types'
      BY <1>0, <2>1, <2>2 DEF Types, Got
    <2>5. \A q \in Queries : Trusts(work[q], text', provider)
      BY <1>0, <2>3 DEF Trusts
    <2> QED
      BY <2>2, <2>4, <2>5 DEF QueryInv
  <1>2. CASE Switch
    <2>1. UNCHANGED <<text, index>> /\ provider' \in Providers
      BY <1>2 DEF Switch, files
    <2>2. \A w \in Workers :
            work'[w] = IF work[w].at = "idle" THEN work[w] ELSE [work[w] EXCEPT !.clean = FALSE]
      BY <1>2 DEF Switch
    <2>3. \A w \in Workers :
            /\ work'[w] \in Work(Got(w)) /\ work'[w].at = work[w].at /\ work'[w].todo = work[w].todo
            /\ work'[w].since = work[w].since /\ work'[w].got = work[w].got
            /\ work'[w].made = work[w].made /\ work'[w].auto = work[w].auto
            /\ work[w].at = "idle" \/ ~work'[w].clean
      BY <1>0, <2>2, ZenonT(60) DEF Work
    <2>4. Types'
      <3>1. DOMAIN work' = Workers /\ work' = [w \in Workers |-> work'[w]]
        BY <1>2 DEF Switch
      <3> QED
        BY <1>0, <2>1, <2>3, <3>1 DEF Types, Got
    <2>5. \A q \in Queries : Trusts(work'[q], text, provider')
      BY <1>0, <2>3 DEF Trusts
    <2> QED
      BY <2>1, <2>4, <2>5 DEF QueryInv
  <1>3. CASE Restart
    <2>1. UNCHANGED <<text, index, provider>> /\ work' = [w \in Workers |-> NoWork]
      BY <1>3 DEF Restart, files
    <2>2. NoWork.at = "idle"
      BY DEF NoWork
    <2>3. Types'
      BY <1>0, <2>1, <2>2, NoWorkTyped DEF Types, Got
    <2> QED
      BY <1>0, <2>1, <2>3, NoWorkTrusts DEF QueryInv
  <1>4. ASSUME NEW q \in Queries, Ask(q) \/ Query(q) PROVE QueryInv'
    BY <1>0, <1>4, AskTrusts, RankTrusts, EnsureTrusts DEF Query
  <1>5. ASSUME NEW j \in Jobs, Start(j) \/ Job(j) PROVE QueryInv'
    BY <1>5, JobTrusts, EnsureTrusts DEF Job, Workers
  <1>6. CASE UNCHANGED vars
    BY <1>0, <1>6 DEF QueryInv, Types, Got, vars, files
  <1> QED
    BY <1>1, <1>2, <1>3, <1>4, <1>5, <1>6 DEF Next

LEMMA QueryInit == Init => QueryInv
  <1> SUFFICES ASSUME Init PROVE QueryInv
    OBVIOUS
  <1>1. NoWork.at = "idle"
    BY DEF NoWork
  <1>2. Types
    BY <1>1, NoWorkTyped DEF Init, Types, Got
  <1> QED
    BY <1>2, NoWorkTrusts DEF Init, QueryInv, Workers

LEMMA QueryAlways == Spec => []QueryInv
  BY QueryInit, QueryStep, PTL DEF Spec

\* A query that sees to its indexes itself never answers from a text older than
\* those there were when it was asked (_ensure_rag_index, _rag_query).
THEOREM AnswersAreFresh == Spec => []FreshAnswer
  <1>1. QueryInv => FreshAnswer
    BY DEF QueryInv, Trusts, FreshAnswer
  <1> QED
    BY <1>1, QueryAlways, PTL

\* Such a query compares vectors of one provider only, unless the provider fails
\* or is changed while it runs.
THEOREM SpacesAreOne == Spec => []OneSpaceUnlessFault
  <1>1. QueryInv => OneSpaceUnlessFault
    BY DEF QueryInv, Trusts, OneSpaceUnlessFault
  <1> QED
    BY <1>1, QueryAlways, PTL

-----------------------------------------------------------------------------
(* Jobs: a thread that is about to leave has finished its job. *)

Live == {"queued", "running"}

JobInv ==
  /\ UnfinishedIsActive
  /\ status \in [Jobs -> {"none", "gone"} \cup Live \cup Finished]
  /\ \A j \in Jobs : work[j].at = "leave" => status[j] \in Finished

LEMMA TrimmedKeepsActive ==
  ASSUME NEW known, NEW act \in known
  PROVE  act \in Trimmed(known, act)
  BY DEF Trimmed, Removable

LEMMA JobStep == QueryInv /\ JobInv /\ [Next]_vars => JobInv'
  <1> SUFFICES ASSUME QueryInv, JobInv, [Next]_vars PROVE JobInv'
    OBVIOUS
  <1> USE DEF Live
  <1>0. /\ Types /\ status \in [Jobs -> {"none", "gone"} \cup Live \cup Finished]
        /\ \A w \in Workers : work[w] \in Work(Got(w))
        /\ Jobs \subseteq Workers
    BY DEF QueryInv, JobInv, Types, Workers
  <1>1. ASSUME UNCHANGED manager,
               \A j \in Jobs : work'[j].at = "leave" => work[j].at = "leave"
        PROVE  JobInv'
    BY <1>1 DEF JobInv, UnfinishedIsActive, manager
  <1>2. ASSUME NEW w \in Workers, Ensure(w) PROVE JobInv'
    <2>1. work[w].todo # <<>> /\ UNCHANGED manager
      BY <1>0, <1>2 DEF Ensure, LookOnly, Look, Embed, Close, Types
    <2>2. \A v \in Workers : v # w => work'[v] = work[v]
      BY <1>0, <1>2 DEF Ensure, LookOnly, Look, Embed, Close, Use, Failed, Goto, Types
    <2>3. work'[w].at \in {"next", "embed", "close"}
      BY <1>0, <1>2 DEF Ensure, LookOnly, Look, Embed, Close, Use, Failed, Goto, Types, Work
    <2> QED
      BY <1>0, <1>1, <2>1, <2>2, <2>3
  <1>3. ASSUME NEW q \in Queries, Ask(q) \/ Rank(q) PROVE JobInv'
    <2>1. \A j \in Jobs : work'[j] = work[j]
      BY <1>0, <1>3, WorkersAssumption DEF Ask, Rank, Goto, Types
    <2> QED
      BY <1>1, <1>3, <2>1 DEF Ask, Rank
  <1>4. ASSUME NEW j \in Jobs, Start(j) PROVE JobInv'
    <2>1. \A i \in Jobs : status[i] \notin Live
      BY <1>4 DEF Start, JobInv, UnfinishedIsActive
    <2>2. /\ active' = j /\ j \in kept'
          /\ status' = [status EXCEPT ![j] = "queued"]
      BY <1>4, TrimmedKeepsActive DEF Start
    <2>3. \A i \in Jobs : i # j => work'[i] = work[i]
      BY <1>0, <1>4 DEF Start, Types
    <2>4. work'[j].at = "idle"
      BY <1>0, <1>4 DEF Start, Types, NoWork
    <2> QED
      BY <1>0, <2>1, <2>2, <2>3, <2>4 DEF JobInv, UnfinishedIsActive
  <1>5. ASSUME NEW j \in Jobs, Take(j) \/ Done(j) PROVE JobInv'
    <2>1. PICK st \in {"running"} \cup Finished :
            /\ status' = [status EXCEPT ![j] = st] /\ UNCHANGED <<kept, active>>
            /\ work'[j].at = "leave" => st \in Finished
            /\ st = "running" => status[j] \in Live
      BY <1>0, <1>5 DEF Take, Done, Types, Work, NoWork, Finished
    <2>2. \A i \in Jobs : i # j => work'[i] = work[i]
      BY <1>0, <1>5 DEF Take, Done, Types
    <2> QED
      BY <1>0, <2>1, <2>2 DEF JobInv, UnfinishedIsActive, Finished
  <1>6. ASSUME NEW j \in Jobs, Leave(j) PROVE JobInv'
    <2>1. status[j] \in Finished
      BY <1>6 DEF Leave, JobInv
    <2>2. \A i \in Jobs : status[i] \in Live => active' = i /\ i \in kept'
      <3> SUFFICES ASSUME NEW i \in Jobs,
           status[i] \in Live PROVE active' = i /\ i \in kept'
        OBVIOUS
      <3>1. active = i /\ i \in kept /\ i # j
        BY <2>1 DEF JobInv, UnfinishedIsActive, Finished
      <3> QED
        BY <1>6, <3>1, TrimmedKeepsActive DEF Leave
    <2>3. \A i \in Jobs : work'[i].at = "leave" => work[i].at = "leave"
      BY <1>0, <1>6 DEF Leave, Goto, Types
    <2>4. status' = status
      BY <1>6 DEF Leave
    <2> QED
      BY <2>2, <2>3, <2>4 DEF JobInv, UnfinishedIsActive
  <1>7. CASE Restart
    <2>1. \A j \in Jobs : status'[j] \in {"none", "gone"} \cup Finished
      BY <1>0, <1>7 DEF Restart
    <2>2. \A j \in Jobs : work'[j].at = "idle"
      BY <1>0, <1>7 DEF Restart, NoWork
    <2>3. status' \in [Jobs -> {"none", "gone"} \cup Live \cup Finished]
      BY <1>7, <2>1 DEF Restart
    <2> QED
      BY <2>1, <2>2, <2>3 DEF JobInv, UnfinishedIsActive, Finished
  <1>8. CASE (\E m \in Meetings : WriteText(m)) \/ UNCHANGED vars
    BY <1>1, <1>8 DEF WriteText, vars, manager
  <1>9. CASE Switch
    <2>1. \A j \in Jobs : work'[j].at = work[j].at
      BY <1>0, <1>9 DEF Switch, Work
    <2> QED
      BY <1>1, <1>9, <2>1 DEF Switch
  <1> QED
    BY <1>0, <1>2, <1>3, <1>4, <1>5, <1>6, <1>7, <1>8, <1>9 DEF Next, Query, Job, Workers

\* The manager never loses an unfinished job and never has two, whenever threads
\* of earlier jobs leave (RAGIndexJobManager).
THEOREM JobsAreKept == Spec => []UnfinishedIsActive
  <1>1. Init => JobInv
    BY DEF Init, JobInv, UnfinishedIsActive, NoWork, Workers
  <1>2. JobInv => UnfinishedIsActive
    BY DEF JobInv
  <1> QED
    BY <1>1, <1>2, JobStep, QueryAlways, PTL DEF Spec
=============================================================================
