------------------------------- MODULE RagIndex -------------------------------
(***************************************************************************)
(* The search index of the transcripts (routers/artifacts.py): a file per  *)
(* meeting, made of a transcript file and of vectors from a provider.  A   *)
(* query sees to the index of each of its meetings and then ranks; a job   *)
(* does the same for a list of meetings in a thread of its own, one job at *)
(* a time.  Nothing keeps a job and queries apart: they read and write the *)
(* same files.                                                             *)
(*                                                                         *)
(* A transcript file is represented by its version, 0 if there is none, an *)
(* index by the version it was made of and the provider of its vectors.    *)
(***************************************************************************)
EXTENDS Naturals, FiniteSets, SequencesExt, FiniteSetsExt

CONSTANTS Meetings, Queries,
          QueryLists,   \* lists of meetings that queries ask for
          JobLists,     \* lists of meetings that jobs are started for
          MaxJobs,      \* bound: jobs started
          MaxKept,      \* max_jobs: finished jobs beyond it are forgotten
          Providers,    \* rag_embedding_provider, one at a time
          MaxTexts,     \* bound: transcript files written
          MaxFaults,    \* bound: calls of the provider that fail
          MaxChanges,   \* bound: changes of the provider, and restarts
          NoIndex, Torn

Remote == {"openai_compat", "gemini"}

ASSUME RagAssumption ==
  /\ QueryLists \cup JobLists \subseteq Seq(Meetings)
  /\ Providers \subseteq Remote \cup {"hashing_local"}
  /\ MaxKept \in Nat \ {0}
  /\ {MaxJobs, MaxTexts, MaxFaults, MaxChanges} \subseteq Nat

Jobs == 1..MaxJobs
Workers == Queries \cup Jobs

ASSUME WorkersAssumption == Queries \cap Jobs = {}

VARIABLES text,      \* transcript file of each meeting
          index,     \* index file of each meeting
          provider,  \* the provider set now
          work,      \* what queries and jobs' threads do
          status,    \* status of each job, "none" before it starts
          kept,      \* jobs the manager knows
          active, latest,  \* _active_job_id and _latest_job_id, 0 if None
          limits

files == <<text, index>>
manager == <<status, kept, active, latest>>
vars == <<files, provider, work, manager, limits>>

Finished == {"completed", "failed"}

NoWork == [at |-> "idle", todo |-> <<>>, auto |-> TRUE, force |-> FALSE,
           made |-> [sha |-> 0, vec |-> "none"], got |-> <<>>,
           since |-> [m \in Meetings |-> 0], clean |-> TRUE, space |-> "none"]

TypeOK ==
  /\ text \in [Meetings -> 0..MaxTexts]
  /\ \A m \in Meetings :
       index[m] \in {NoIndex, Torn}
                      \cup [sha : 1..MaxTexts, vec : Providers \cup {"hashing_local"}]
  /\ provider \in Providers
  /\ \A w \in Workers :
       work[w].at \in {"idle", "next", "embed", "close", "answered", "leave"}
  /\ status \in [Jobs -> {"none", "queued", "running", "gone"} \cup Finished]
  /\ kept \subseteq Jobs /\ {active, latest} \subseteq {0} \cup Jobs

Init ==
  /\ text = [m \in Meetings |-> 0]
  /\ index = [m \in Meetings |-> NoIndex]
  /\ provider \in Providers
  /\ work = [w \in Workers |-> NoWork]
  /\ status = [j \in Jobs |-> "none"]
  /\ kept = {} /\ active = 0 /\ latest = 0
  /\ limits = [faults |-> 0, changes |-> 0]

-----------------------------------------------------------------------------
(* Around the index. *)

\* A transcript is built, or built again with another text.
WriteText(m) ==
  /\ SumSet({text[x] : x \in Meetings}) < MaxTexts
  /\ text' = [text EXCEPT ![m] = @ + 1]
  /\ UNCHANGED <<index, provider, work, manager, limits>>

Change == limits.changes < MaxChanges

\* The administrator sets another provider.
Switch ==
  /\ Change
  /\ limits' = [limits EXCEPT !.changes = @ + 1]
  /\ provider' \in Providers \ {provider}
  /\ work' = [w \in Workers |-> IF work[w].at = "idle" THEN work[w]
                                 ELSE [work[w] EXCEPT !.clean = FALSE]]
  /\ UNCHANGED <<files, manager>>

\* The API starts anew: jobs and requests are gone, the files stay.
Restart ==
  /\ Change
  /\ limits' = [limits EXCEPT !.changes = @ + 1]
  /\ work' = [w \in Workers |-> NoWork]
  /\ status' = [j \in Jobs |-> IF status[j] \in {"queued", "running"}
                                THEN "gone" ELSE status[j]]
  /\ kept' = {} /\ active' = 0 /\ latest' = 0
  /\ UNCHANGED <<files, provider>>

-----------------------------------------------------------------------------
(* The index of one meeting: _ensure_rag_index, step by step. *)

Goto(w, at) == work' = [work EXCEPT ![w].at = at]
Current(w) == Head(work[w].todo)

\* What is done with a meeting: its index is used, or the meeting has failed.
Use(w, ix) ==
  [work EXCEPT ![w].at = "next", ![w].todo = Tail(@), ![w].made = NoWork.made,
               ![w].got = IF w \in Queries
                             THEN Append(@, [m |-> Current(w), ix |-> ix])
                             ELSE <<"ok">>]
Failed(w) ==
  [work EXCEPT ![w].at = "next", ![w].todo = Tail(@), ![w].made = NoWork.made]

\* Mutant: an index is good for any provider.
CompatibleAny(ix) == TRUE

\* _rag_index_has_compatible_vector_config
Compatible(ix) == ix.vec = provider

\* Mutant: an index that is there is good, whatever it was made of.
GoodUnread(ix, sha) == ix \notin {NoIndex, Torn} /\ Compatible(ix)

Good(ix, sha) == ix \notin {NoIndex, Torn} /\ ix.sha = sha /\ Compatible(ix)

\* auto_index is off: the file is used as it is.
LookOnly(w) ==
  /\ work[w].at = "next" /\ work[w].todo # <<>> /\ ~work[w].auto
  /\ work' = IF index[Current(w)] \in {NoIndex, Torn}
             THEN Failed(w) ELSE Use(w, index[Current(w)])
  /\ UNCHANGED <<files, provider, manager, limits>>

\* A missing transcript is a failure, and so is a half-written index, unless it
\* is to be rebuilt anyhow.
Look(w) ==
  /\ work[w].at = "next" /\ work[w].todo # <<>> /\ work[w].auto
  /\ LET m == Current(w) IN
     \/ /\ text[m] = 0 \/ (index[m] = Torn /\ ~work[w].force)
        /\ work' = Failed(w)
     \/ /\ text[m] # 0 /\ ~work[w].force /\ Good(index[m], text[m])
        /\ work' = Use(w, index[m])
     \/ /\ text[m] # 0
        /\ work[w].force \/ (index[m] # Torn /\ ~Good(index[m], text[m]))
        /\ work' = [work EXCEPT ![w].at = "embed",
                                ![w].made = [sha |-> text[m], vec |-> provider]]
  /\ UNCHANGED <<files, provider, manager, limits>>

Fails(p) == p \in Remote /\ limits.faults < MaxFaults
Fault == limits' = [limits EXCEPT !.faults = @ + 1]

\* The file is truncated, and then filled.
Open(w) == index' = [index EXCEPT ![Current(w)] = Torn]

\* When an OpenAI-compatible provider fails, vectors are hashed on the spot and
\* the index says so; when Gemini fails, the meeting does.
Embed(w) ==
  /\ work[w].at = "embed"
  /\ LET p == work[w].made.vec IN
     \/ Open(w) /\ Goto(w, "close") /\ UNCHANGED limits
     \/ /\ p = "openai_compat" /\ Fails(p) /\ Fault
        /\ Open(w)
        /\ work' = [work EXCEPT ![w].at = "close", ![w].clean = FALSE,
                                ![w].made.vec = "hashing_local"]
     \/ /\ p = "gemini" /\ Fails(p) /\ Fault
        /\ work' = Failed(w)
        /\ UNCHANGED index
  /\ UNCHANGED <<text, provider, manager>>

Close(w) ==
  /\ work[w].at = "close"
  /\ index' = [index EXCEPT ![Current(w)] = work[w].made]
  /\ work' = Use(w, work[w].made)
  /\ UNCHANGED <<text, provider, manager, limits>>

Ensure(w) == LookOnly(w) \/ Look(w) \/ Embed(w) \/ Close(w)

-----------------------------------------------------------------------------
(* Queries. *)

Ask(q) ==
  /\ work[q].at = "idle"
  /\ \E list \in QueryLists, auto \in BOOLEAN, force \in BOOLEAN :
       /\ force => auto
       /\ work' = [work EXCEPT ![q] =
            [NoWork EXCEPT !.at = "next", !.todo = list, !.auto = auto,
                           !.force = force, !.since = text]]
  /\ UNCHANGED <<files, provider, manager, limits>>

Ready(w) == work[w].at = "next" /\ work[w].todo = <<>>

\* The question is embedded with the provider of the first index; stored vectors
\* are compared with it as they are.  When the provider fails, its OpenAI kind
\* leaves the vectors out and Gemini's is replaced by hashing.
Rank(q) ==
  /\ Ready(q)
  /\ \/ /\ work[q].got = <<>>
        /\ Goto(q, "answered")
        /\ UNCHANGED limits
     \/ /\ work[q].got # <<>>
        /\ LET p == Head(work[q].got).ix.vec IN
           \/ /\ work' = [work EXCEPT ![q].at = "answered", ![q].space = p]
              /\ UNCHANGED limits
           \/ /\ Fails(p) /\ Fault
              /\ work' = [work EXCEPT ![q].at = "answered", ![q].clean = FALSE,
                   ![q].space = IF p = "gemini" THEN "hashing_local" ELSE "none"]
  /\ UNCHANGED <<files, provider, manager>>

-----------------------------------------------------------------------------
(* Jobs. *)

\* The oldest finished jobs beyond MaxKept go, never the active one.
Removable(known, act) == {j \in known \ {act} : status[j] \in Finished}
Excess(known) == IF Cardinality(known) > MaxKept
                 THEN Cardinality(known) - MaxKept ELSE 0
Trimmed(known, act) ==
  LET old == Removable(known, act) IN
  known \ {j \in old : Cardinality({i \in old : i <= j}) <= Excess(known)}

\* Mutant: what is left of a finished job's thread clears the active job.
LeaveAny(j) ==
  /\ work[j].at = "leave"
  /\ Goto(j, "idle")
  /\ active' = 0
  /\ kept' = Trimmed(kept, active')
  /\ latest' = IF latest \in kept' THEN latest ELSE 0
  /\ UNCHANGED <<files, provider, status, limits>>

\* RAGIndexJobManager.start: while the active job is unfinished, its own status
\* is the answer and nothing is started.
Start(j) ==
  /\ status[j] = "none" /\ \A i \in Jobs : i < j => status[i] # "none"
  /\ ~(active \in kept /\ status[active] \in {"queued", "running"})
  /\ status' = [status EXCEPT ![j] = "queued"]
  /\ \E list \in JobLists, force \in BOOLEAN :
       /\ list # <<>>
       /\ work' = [work EXCEPT ![j] = [NoWork EXCEPT !.todo = list, !.force = force]]
  /\ active' = j
  /\ latest' = j
  /\ kept' = Trimmed(kept \cup {j}, j)
  /\ UNCHANGED <<files, provider, limits>>

Take(j) ==
  /\ status[j] = "queued"
  /\ status' = [status EXCEPT ![j] = "running"]
  /\ work' = [work EXCEPT ![j].at = "next"]
  /\ UNCHANGED <<files, provider, kept, active, latest, limits>>

\* A job fails when all of its meetings did.
Done(j) ==
  /\ Ready(j)
  /\ status' = [status EXCEPT ![j] =
       IF work[j].got = <<>> THEN "failed" ELSE "completed"]
  /\ work' = [work EXCEPT ![j] = [NoWork EXCEPT !.at = "leave"]]
  /\ UNCHANGED <<files, provider, kept, active, latest, limits>>

\* The finally of _run_job: another job may have started since.
Leave(j) ==
  /\ work[j].at = "leave"
  /\ Goto(j, "idle")
  /\ active' = IF active = j THEN 0 ELSE active
  /\ kept' = Trimmed(kept, active')
  /\ latest' = IF latest \in kept' THEN latest ELSE 0
  /\ UNCHANGED <<files, provider, status, limits>>

Query(q) == Ensure(q) \/ Rank(q)
Job(j) == Take(j) \/ Ensure(j) \/ Done(j) \/ Leave(j)

Next ==
  \/ \E m \in Meetings : WriteText(m)
  \/ Switch \/ Restart
  \/ \E q \in Queries : Ask(q) \/ Query(q)
  \/ \E j \in Jobs : Start(j) \/ Job(j)

Spec == Init /\ [][Next]_vars

-----------------------------------------------------------------------------
(* Properties. *)

\* The vectors a query compares come from one provider: an index kept from
\* before a change of the provider, or from an outage, is made again first.
\* That holds for a query that sees to its indexes itself, unless the provider
\* fails or is changed while it runs.
OneSpaceUnlessFault ==
  \A q \in Queries : LET w == work[q] IN
    w.at = "answered" /\ w.auto /\ w.clean
      => \A i \in DOMAIN w.got : w.got[i].ix.vec = w.space

\* Nothing older than the transcripts there were when it was asked is in the
\* answer of such a query, whatever jobs and queries write at the same time.
FreshAnswer ==
  \A w \in Queries :
    work[w].auto => \A i \in DOMAIN work[w].got :
      work[w].got[i].ix.sha >= work[w].since[work[w].got[i].m]

\* An unfinished job is the active one and is known by its id: there is never a
\* second, a start finds it, and its status can be asked for, also when the
\* thread of an earlier job is about to leave.
UnfinishedIsActive ==
  \A j \in Jobs : status[j] \in {"queued", "running"} => active = j /\ j \in kept

\* Stored vectors are never compared with a question hashed in place of the
\* provider that made them, as the comment in _rag_rank_hits says.
OneSpace ==
  \A q \in Queries : LET w == work[q] IN
    w.at = "answered" /\ w.space # "none"
      => \A i \in DOMAIN w.got : w.got[i].ix.vec = w.space
=============================================================================
