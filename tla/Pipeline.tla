------------------------------ MODULE Pipeline ------------------------------
(***************************************************************************)
(* The five stages of the recorder's task pipeline composed: the audio     *)
(* chunks of one meeting go through speech-to-text, enhancement,           *)
(* analytics, delivery and retention (apps/worker_*/main.py).              *)
(*                                                                         *)
(* Each stage's stream keeps the promise of AtLeastOnce, which TaskStream  *)
(* implements; a task is named by the chunk whose chain it belongs to.     *)
(* A handler loads rows, computes, has an effect outside the database      *)
(* (files, mail), commits, and enqueues the next stage: the steps of two   *)
(* workers interleave between those points.                                *)
(***************************************************************************)
EXTENDS Naturals

CONSTANTS Chunks,     \* audio chunks of the meeting
          Workers,    \* worker processes of all stages
          StageOf,    \* the stage each worker serves
          MaxFaults   \* bound on failures, crashes and claims of running tasks

Stages == {"stt", "enhancer", "analytics", "delivery", "retention"}

ASSUME StageOfAssumption == StageOf \in [Workers -> Stages]
ASSUME MaxFaultsAssumption == MaxFaults \in Nat

VARIABLES accepted,    \* chunks enqueued for speech-to-text
          queue,       \* entries each stage owes an acknowledgement for
          issued,      \* how many entries of each task each stage ever had
          handed,      \* tasks each stage has handed to the next
          dead,        \* tasks in each stage's dead-letter stream
          job,         \* what each worker is doing
          segments,    \* TranscriptSegment rows: text of each chunk
          transcript,  \* Meeting.raw_transcript and enhanced_transcript
          status,      \* Meeting.status, "none" while there is no row
          files,       \* raw.txt and clean.txt in the records directory
          mailed,      \* the report mailed last
          mailFailed,  \* send_report returned a failure
          faults

streamVars == <<accepted, queue, issued, handed, dead>>
tableVars == <<segments, transcript, status>>
outsideVars == <<files, mailed, mailFailed>>
vars == <<streamVars, job, tableVars, outsideVars, faults>>

\* A chunk's text: missing, as recognised, or enhanced.
Texts == [Chunks -> {"none", "raw", "enhanced"}]
NoText == [c \in Chunks |-> "none"]
Statuses == {"none", "processing", "done"}

Successor == [s \in Stages \ {"retention"} |->
                CASE s = "stt" -> "enhancer"
                  [] s = "enhancer" -> "analytics"
                  [] s = "analytics" -> "delivery"
                  [] s = "delivery" -> "retention"]

\* What a handler's transaction has loaded.
View == [segments : Texts, transcript : Texts, status : Statuses]
NoView == [segments |-> NoText, transcript |-> NoText, status |-> "none"]

\* A stream entry: its task, and which of the task's entries it is.
Entry == Chunks \X Nat

Points == {"loaded", "sent", "committed"}
Job == [pc : Points, entry : Entry, view : View]
Idle == [pc |-> "idle"]

TypeOK ==
  /\ accepted \subseteq Chunks
  /\ queue \in [Stages -> SUBSET Entry]
  /\ issued \in [Stages -> [Chunks -> Nat]]
  /\ handed \in [Stages -> SUBSET Chunks]
  /\ dead \in [Stages -> SUBSET Chunks]
  /\ job \in [Workers -> Job \cup {Idle}]
  /\ segments \in Texts
  /\ transcript \in Texts
  /\ status \in Statuses
  /\ files \in Texts
  /\ mailed \in Texts
  /\ mailFailed \in BOOLEAN
  /\ faults \in 0..MaxFaults

Init ==
  /\ accepted = {}
  /\ queue = [s \in Stages |-> {}]
  /\ issued = [s \in Stages |-> [c \in Chunks |-> 0]]
  /\ handed = [s \in Stages |-> {}]
  /\ dead = [s \in Stages |-> {}]
  /\ job = [w \in Workers |-> Idle]
  /\ segments = NoText
  /\ transcript = NoText
  /\ status = "none"
  /\ files = NoText
  /\ mailed = NoText
  /\ mailFailed = FALSE
  /\ faults = 0

Fault == faults < MaxFaults /\ faults' = faults + 1

-----------------------------------------------------------------------------
(* The streams.                                                            *)

\* Stage s gets a new entry of task c and loses the entries of gone.
Replace(s, c, gone) ==
  /\ queue' = [queue EXCEPT ![s] = (@ \ gone) \cup {<<c, issued[s][c] + 1>>}]
  /\ issued' = [issued EXCEPT ![s][c] = @ + 1]

\* enqueue_stt for a chunk of the live connector.
Accept(c) ==
  /\ c \notin accepted
  /\ accepted' = accepted \cup {c}
  /\ Replace("stt", c, {})
  /\ UNCHANGED <<handed, dead, job, tableVars, outsideVars, faults>>

Working(s) == {w \in Workers : StageOf[w] = s /\ job[w] # Idle}

Task(w) == job[w].entry[1]

Live(s) == {e[1] : e \in queue[s]} \cup {Task(w) : w \in Working(s)}

-----------------------------------------------------------------------------
(* A worker takes an entry and loads what its handler works on.  Taking an *)
(* entry another worker still works on is a claim after a time-out.        *)

Loaded(s) ==
  CASE s = "enhancer"  -> [NoView EXCEPT !.segments = segments]
    [] s = "analytics" -> [segments |-> segments, transcript |-> transcript,
                           status |-> status]
    [] s = "delivery"  -> [NoView EXCEPT !.transcript = transcript,
                                         !.status = status]
    [] OTHER           -> NoView

Take(w) ==
  LET s == StageOf[w] IN
  /\ job[w] = Idle
  /\ \E e \in queue[s] :
       /\ IF \E v \in Working(s) : job[v].entry = e THEN Fault
                                                    ELSE UNCHANGED faults
       /\ job' = [job EXCEPT ![w] =
                    [pc |-> "loaded", entry |-> e, view |-> Loaded(s)]]
  /\ UNCHANGED <<streamVars, tableVars, outsideVars>>

At(w, s, point) == StageOf[w] = s /\ job[w].pc = point

Goto(w, point) == job' = [job EXCEPT ![w].pc = point]

-----------------------------------------------------------------------------
(* The handlers.                                                           *)

\* Ensure the meeting, force its status, upsert the segment.
CommitSTT(w) ==
  /\ At(w, "stt", "loaded")
  /\ segments' = [segments EXCEPT ![Task(w)] = "raw"]
  /\ status' = "processing"
  /\ Goto(w, "committed")
  /\ UNCHANGED <<streamVars, transcript, outsideVars, faults>>

\* Only the rows whose text changed under enhancement are written.
CommitEnhancer(w) ==
  /\ At(w, "enhancer", "loaded")
  /\ segments' = [c \in Chunks |->
                    IF job[w].view.segments[c] = "raw" THEN "enhanced"
                                                       ELSE segments[c]]
  /\ Goto(w, "committed")
  /\ UNCHANGED <<streamVars, transcript, status, outsideVars, faults>>

WriteFiles(w) ==
  /\ At(w, "analytics", "loaded")
  /\ files' = job[w].view.segments
  /\ Goto(w, "sent")
  /\ UNCHANGED <<streamVars, tableVars, mailed, mailFailed, faults>>

\* A column the handler leaves as it loaded it is not written.
Store(new, old, current) == IF new = old THEN current ELSE new

\* Mutant of CommitAnalytics: only the chunk of the task is stored.
CommitOwnChunk(w) ==
  LET view == job[w].view IN
  /\ At(w, "analytics", "sent")
  /\ transcript' = [NoText EXCEPT ![Task(w)] = view.segments[Task(w)]]
  /\ status' = Store("processing", view.status, status)
  /\ Goto(w, "committed")
  /\ UNCHANGED <<streamVars, segments, outsideVars, faults>>

CommitAnalytics(w) ==
  LET view == job[w].view IN
  /\ At(w, "analytics", "sent")
  /\ transcript' = Store(view.segments, view.transcript, transcript)
  /\ status' = Store("processing", view.status, status)
  /\ Goto(w, "committed")
  /\ UNCHANGED <<streamVars, segments, outsideVars, faults>>

\* The handler does not look at the result of send_report.
Mail(w) ==
  /\ At(w, "delivery", "loaded")
  /\ \/ mailed' = job[w].view.transcript /\ UNCHANGED <<mailFailed, faults>>
     \/ mailFailed' = TRUE /\ Fault /\ UNCHANGED mailed
  /\ Goto(w, "sent")
  /\ UNCHANGED <<streamVars, tableVars, files>>

CommitDelivery(w) ==
  /\ At(w, "delivery", "sent")
  /\ status' = Store("done", job[w].view.status, status)
  /\ Goto(w, "committed")
  /\ UNCHANGED <<streamVars, segments, transcript, outsideVars, faults>>

\* apply_retention leaves a meeting younger than the retention period alone.
CommitRetention(w) ==
  /\ At(w, "retention", "loaded")
  /\ Goto(w, "committed")
  /\ UNCHANGED <<streamVars, tableVars, outsideVars, faults>>

-----------------------------------------------------------------------------
(* The end of a run of the loop.                                           *)

\* Enqueue the stages of next, then acknowledge unless that is lost.
Finish(w, next) ==
  LET s == StageOf[w] IN
  /\ job[w].pc = "committed"
  /\ handed' = [handed EXCEPT ![s] = @ \cup {Task(w)}]
  /\ issued' = [z \in Stages |->
                  IF z \in next THEN [issued[z] EXCEPT ![Task(w)] = @ + 1]
                                ELSE issued[z]]
  /\ \E gone \in {{job[w].entry}, {}} :
       /\ queue' = [z \in Stages |->
                      CASE z \in next -> queue[z] \cup {<<Task(w), issued'[z][Task(w)]>>}
                        [] z = s      -> queue[z] \ gone
                        [] OTHER      -> queue[z]]
       /\ IF gone = {} THEN Fault ELSE UNCHANGED faults
  /\ job' = [job EXCEPT ![w] = Idle]
  /\ UNCHANGED <<accepted, dead, tableVars, outsideVars>>

After(s) == IF s = "retention" THEN {} ELSE {Successor[s]}

\* Mutant of Forward: enhancement goes on only where it changed something.
ForwardChanges(w) ==
  Finish(w, IF StageOf[w] = "enhancer" /\ \A c \in Chunks : job[w].view.segments[c] # "raw"
              THEN {} ELSE After(StageOf[w]))

Forward(w) == Finish(w, After(StageOf[w]))

\* The process died, or requeueing failed: the entry stays and is claimed.
Crash(w) ==
  /\ job[w] # Idle
  /\ Fault
  /\ job' = [job EXCEPT ![w] = Idle]
  /\ UNCHANGED <<streamVars, tableVars, outsideVars>>

\* Mutant of Retry: the entry is acknowledged and nothing is put back.
RetryForgets(w) ==
  /\ job[w] # Idle
  /\ Fault
  /\ queue' = [queue EXCEPT ![StageOf[w]] = @ \ {job[w].entry}]
  /\ job' = [job EXCEPT ![w] = Idle]
  /\ UNCHANGED <<accepted, issued, handed, dead, tableVars, outsideVars>>

\* The handler raised, wherever it was, and the task goes back as a new entry.
Retry(w) ==
  /\ job[w] # Idle
  /\ Fault
  /\ Replace(StageOf[w], Task(w), {job[w].entry})
  /\ job' = [job EXCEPT ![w] = Idle]
  /\ UNCHANGED <<accepted, handed, dead, tableVars, outsideVars>>

\* It raised and the task has no attempts left.
Bury(w) ==
  LET s == StageOf[w] IN
  /\ job[w] # Idle
  /\ Fault
  /\ dead' = [dead EXCEPT ![s] = @ \cup {Task(w)}]
  /\ queue' = [queue EXCEPT ![s] = @ \ {job[w].entry}]
  /\ job' = [job EXCEPT ![w] = Idle]
  /\ UNCHANGED <<accepted, issued, handed, tableVars, outsideVars>>

Step(w) ==
  \/ Take(w)
  \/ CommitSTT(w) \/ CommitEnhancer(w)
  \/ WriteFiles(w) \/ CommitAnalytics(w)
  \/ Mail(w) \/ CommitDelivery(w)
  \/ CommitRetention(w)
  \/ Forward(w)

Finished == /\ accepted = Chunks
            /\ \A s \in Stages : Live(s) = {}

Next ==
  \/ \E c \in Chunks : Accept(c)
  \/ \E w \in Workers : Step(w) \/ Crash(w) \/ Retry(w) \/ Bury(w)
  \/ Finished /\ UNCHANGED vars

Spec == Init /\ [][Next]_vars

\* Workers keep looping and their handlers end; chunks need not arrive.
Fairness == \A w \in Workers : WF_vars(Step(w))

FairSpec == Spec /\ Fairness

-----------------------------------------------------------------------------
(* Properties.                                                             *)

Quiet == \A s \in Stages : Live(s) = {}

NothingDead == \A s \in Stages : dead[s] = {}

\* Once the pipeline is quiet and nothing was dead-lettered, every accepted
\* chunk is in the stored transcript, enhanced; the files in the records
\* directory say the same as the database; the meeting is done; and the last
\* report mailed is the final transcript, unless the mail server refused one.
QuietMeansComplete ==
  Quiet /\ NothingDead /\ accepted # {} =>
    /\ transcript = [c \in Chunks |-> IF c \in accepted THEN "enhanced" ELSE "none"]
    /\ segments = transcript
    /\ files = transcript
    /\ status = "done"
    /\ ~mailFailed => mailed = transcript

\* A chunk whose text the stored transcript has once held never disappears
\* from it.
TranscriptNeverLoses ==
  [][\A c \in Chunks : transcript[c] # "none" => transcript'[c] # "none"]_vars

\* A chunk is in the transcript or still on its way to it: a stage before
\* delivery has a live task for it or has buried one.
OnItsWay ==
  \A c \in accepted :
    \/ transcript[c] # "none"
    \/ \E s \in {"stt", "enhancer", "analytics"} : c \in Live(s) \cup dead[s]

\* Every accepted chunk is eventually in a transcript that has been offered
\* to the mail server, or one of its tasks is in a dead-letter stream.
EventuallyReported ==
  \A c \in Chunks :
    c \in accepted ~> \/ mailed[c] = "enhanced" \/ mailFailed
                      \/ \E s \in Stages : c \in dead[s]

\* Every stage keeps the promise of the stream below it, fed by the stage
\* before it.
Before(s) == {p \in DOMAIN Successor : Successor[p] = s}
Stage(s) == INSTANCE AtLeastOnce WITH
  Tasks <- Chunks,
  offered <- accepted \cap (IF s = "stt" THEN accepted
                            ELSE UNION {handed[p] : p \in Before(s)}),
  live <- Live(s),
  executed <- handed[s],
  dead <- dead[s]

StagesKeepPromise ==
  /\ \A s \in Stages : Stage(s)!Init
  /\ [][\A s \in Stages : [Stage(s)!Next]_(Stage(s)!vars)]_vars

\* A dead-lettered task ends the pipeline with an error: state_machine.py says
\* of its transitions that "failed" is where a failed stage leads.
DeadMeansFailed == Quiet /\ ~NothingDead => status = "failed"

\* The retention task of a delivered meeting says "delivered_or_skipped".
DoneMeansDelivered == status = "done" => ~mailFailed
=============================================================================
