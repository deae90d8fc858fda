---------------------------- MODULE PipelineProofs ----------------------------
(***************************************************************************)
(* Pipeline for any chunks, workers and number of faults: every stage      *)
(* keeps the promise of AtLeastOnce, an accepted chunk stays on its way to *)
(* the transcript, the transcript loses no chunk where one worker writes   *)
(* it, and a pipeline that has come to rest is complete.                   *)
(***************************************************************************)
EXTENDS Pipeline, TLAPS

-----------------------------------------------------------------------------
(* Stages, and what a worker that is busy works on.                        *)

LEMMA StageOrder ==
  /\ Successor["stt"] = "enhancer" /\ Successor["enhancer"] = "analytics"
  /\ Successor["analytics"] = "delivery" /\ Successor["delivery"] = "retention"
  /\ DOMAIN Successor = Stages \ {"retention"}
  BY DEF Successor, Stages

LEMMA LoadedViews ==
  /\ Loaded("enhancer") = [NoView EXCEPT !.segments = segments]
  /\ Loaded("analytics") = [segments |-> segments, transcript |-> transcript, status |-> status]
  /\ Loaded("delivery") = [NoView EXCEPT !.transcript = transcript, !.status = status]
  /\ \A s \in {"stt", "retention"} : Loaded(s) = NoView
  <1>1. Loaded("enhancer") = [NoView EXCEPT !.segments = segments]
    BY Zenon DEF Loaded
  <1>2. Loaded("analytics") = [segments |-> segments, transcript |-> transcript, status |-> status]
    BY Zenon DEF Loaded
  <1>3. Loaded("delivery") = [NoView EXCEPT !.transcript = transcript, !.status = status]
    BY Zenon DEF Loaded
  <1>4. ASSUME NEW s, s \notin {"enhancer", "analytics", "delivery"}
        PROVE  Loaded(s) = NoView
    BY <1>4, Zenon DEF Loaded
  <1> QED
    BY <1>1, <1>2, <1>3, <1>4

LEMMA LoadedTyped ==
  ASSUME TypeOK, NEW s \in Stages
  PROVE  Loaded(s) \in View
  <1>1. NoView \in View
    BY DEF View, NoView, NoText, Texts, Statuses
  <1> QED
    <2>1. \A x \in Texts : [NoView EXCEPT !.segments = x] \in View
      BY <1>1 DEF View
    <2>2. \A x \in Texts, z \in Statuses :
            [NoView EXCEPT !.transcript = x, !.status = z] \in View
      BY <1>1 DEF View
    <2>a. segments \in Texts /\ transcript \in Texts /\ status \in Statuses
      BY DEF TypeOK
    <2>3. CASE s = "enhancer"
      BY <2>1, <2>3, LoadedViews DEF TypeOK
    <2>4. CASE s = "analytics"
      BY <2>a, <2>4, LoadedViews DEF View
    <2>5. CASE s = "delivery"
      BY <2>2, <2>a, <2>5, LoadedViews
    <2>6. CASE s \in {"stt", "retention"}
      BY <1>1, <2>6, LoadedViews
    <2> QED BY <2>3, <2>4, <2>5, <2>6 DEF Stages

LEMMA BusyWorker ==
  ASSUME TypeOK, NEW w \in Workers, job[w] # Idle
  PROVE  /\ job[w] \in Job
         /\ job[w].entry \in Entry
         /\ Task(w) \in Chunks
         /\ StageOf[w] \in Stages
  <1>1. job[w] \in Job
    BY DEF TypeOK
  <1> QED
    BY <1>1, StageOfAssumption DEF Job, Entry, Task

LEMMA AtPoint ==
  ASSUME NEW w \in Workers, job[w].pc \in Points
  PROVE  job[w] # Idle
  BY DEF Idle, Points

-----------------------------------------------------------------------------
(* What the steps of the streams come to.                                  *)

\* An entry of task t that stage s has not had before.
NewEntry(s, t) == <<t, issued[s][t] + 1>>

LEMMA ReplaceEffect ==
  ASSUME TypeOK, NEW s \in Stages, NEW t \in Chunks, NEW gone, Replace(s, t, gone)
  PROVE  /\ queue' \in [Stages -> SUBSET Entry]
         /\ issued' \in [Stages -> [Chunks -> Nat]]
         /\ queue'[s] = (queue[s] \ gone) \cup {NewEntry(s, t)}
         /\ issued'[s] = [issued[s] EXCEPT ![t] = @ + 1]
         /\ \A z \in Stages \ {s} : queue'[z] = queue[z] /\ issued'[z] = issued[z]
  BY DEF Replace, TypeOK, Entry, NewEntry

LEMMA ForwardEffect ==
  ASSUME TypeOK, NEW w \in Workers, Forward(w)
  PROVE  /\ job[w].pc = "committed" /\ job[w] # Idle
         /\ job' = [job EXCEPT ![w] = Idle]
         /\ handed' = [handed EXCEPT ![StageOf[w]] = @ \cup {Task(w)}]
         /\ queue' \in [Stages -> SUBSET Entry]
         /\ issued' \in [Stages -> [Chunks -> Nat]]
         /\ queue'[StageOf[w]] \in {queue[StageOf[w]], queue[StageOf[w]] \ {job[w].entry}}
         /\ \A z \in Stages \ {StageOf[w]} :
              queue'[z] = IF StageOf[w] # "retention" /\ z = Successor[StageOf[w]]
                          THEN queue[z] \cup {NewEntry(z, Task(w))} ELSE queue[z]
         /\ \A z \in Stages \ {StageOf[w]} :
              issued'[z] = IF StageOf[w] # "retention" /\ z = Successor[StageOf[w]]
                           THEN [issued[z] EXCEPT ![Task(w)] = @ + 1] ELSE issued[z]
         /\ issued'[StageOf[w]] = issued[StageOf[w]]
         /\ faults' \in {faults, faults + 1} /\ faults' \in 0..MaxFaults
         /\ UNCHANGED <<accepted, dead, tableVars, outsideVars>>
  <1> DEFINE s == StageOf[w]
             t == Task(w)
             next == After(s)
  <1>1. /\ job[w] # Idle /\ s \in Stages /\ t \in Chunks /\ job[w].entry \in Entry
        /\ job[w].pc = "committed"
    <2>1. job[w].pc = "committed"
      BY DEF Forward, Finish
    <2> QED BY <2>1, AtPoint, BusyWorker DEF Points
  <1>2. next = IF s = "retention" THEN {} ELSE {Successor[s]}
    BY DEF After
  <1>3. s \notin next
    BY <1>1, <1>2, StageOrder DEF Stages
  <1>4. issued' = [z \in Stages |->
          IF z \in next THEN [issued[z] EXCEPT ![t] = @ + 1] ELSE issued[z]]
    BY DEF Forward, Finish
  <1>5. PICK gone \in {{job[w].entry}, {}} :
          /\ queue' = [z \in Stages |->
                CASE z \in next -> queue[z] \cup {<<t, issued'[z][t]>>}
                  [] z = s      -> queue[z] \ gone
                  [] OTHER      -> queue[z]]
          /\ IF gone = {} THEN Fault ELSE UNCHANGED faults
    BY DEF Forward, Finish
  <1>6. ASSUME NEW z \in next, z \in Stages
        PROVE  /\ issued'[z] = [issued[z] EXCEPT ![t] = @ + 1]
               /\ queue'[z] = queue[z] \cup {NewEntry(z, t)}
    <2>1. issued'[z] = [issued[z] EXCEPT ![t] = @ + 1]
      BY <1>4, <1>6
    <2>2. issued'[z][t] = issued[z][t] + 1
      BY <2>1, <1>1, <1>6 DEF TypeOK
    <2>3. queue'[z] = queue[z] \cup {<<t, issued'[z][t]>>}
      BY <1>3, <1>5, <1>6, Zenon
    <2> QED BY <2>1, <2>2, <2>3 DEF NewEntry
  <1>7. queue'[s] = queue[s] \ gone
    BY <1>5, <1>3, <1>1, Zenon
  <1>8. ASSUME NEW z \in Stages \ {s}, z \notin next
        PROVE  queue'[z] = queue[z] /\ issued'[z] = issued[z]
    <2>1. queue'[z] = queue[z]
      BY <1>5, <1>8, Zenon
    <2> QED BY <2>1, <1>4, <1>8
  <1>9. \A z \in Stages : NewEntry(z, t) \in Entry
    BY <1>1 DEF NewEntry, Entry, TypeOK
  <1>10. \A z \in Stages : queue[z] \in SUBSET Entry
    BY DEF TypeOK
  <1>11. queue' \in [Stages -> SUBSET Entry]
    <2> DEFINE Q(z) == CASE z \in next -> queue[z] \cup {<<t, issued'[z][t]>>}
                         [] z = s      -> queue[z] \ gone
                         [] OTHER      -> queue[z]
    <2>1. queue' = [z \in Stages |-> Q(z)]
      BY <1>5
    <2> HIDE DEF Q
    <2>2. ASSUME NEW z \in Stages
          PROVE  queue'[z] \in SUBSET Entry
      <3> HIDE DEF next
      <3>1. CASE z \in next
        BY <3>1, <1>6, <1>9, <1>10
      <3>2. CASE z = s
        BY <3>2, <1>7, <1>10
      <3>3. CASE z \notin next /\ z # s
        BY <3>3, <1>8, <1>10
      <3> QED BY <3>1, <3>2, <3>3
    <2> QED BY <2>1, <2>2
  <1>12. issued' \in [Stages -> [Chunks -> Nat]]
    BY <1>1, <1>4 DEF TypeOK
  <1>13. faults' \in {faults, faults + 1} /\ faults' \in 0..MaxFaults
    BY <1>5, MaxFaultsAssumption DEF Fault, TypeOK
  <1>14. queue'[s] \in {queue[s], queue[s] \ {job[w].entry}}
    BY <1>7
  <1>15. /\ job' = [job EXCEPT ![w] = Idle]
         /\ handed' = [handed EXCEPT ![s] = @ \cup {t}]
         /\ UNCHANGED <<accepted, dead, tableVars, outsideVars>>
    BY DEF Forward, Finish
  <1>16. issued'[s] = issued[s]
    BY <1>4, <1>3, <1>1
  <1> HIDE DEF next
  <1>17. \A z \in Stages \ {s} :
           /\ queue'[z] = IF s # "retention" /\ z = Successor[s]
                          THEN queue[z] \cup {NewEntry(z, t)} ELSE queue[z]
           /\ issued'[z] = IF s # "retention" /\ z = Successor[s]
                           THEN [issued[z] EXCEPT ![t] = @ + 1] ELSE issued[z]
    BY <1>2, <1>6, <1>8
  <1> QED
    BY <1>1, <1>11, <1>12, <1>13, <1>14, <1>15, <1>16, <1>17

\* The steps in which a worker's handler goes on to its next point.
Handles(w) ==
  \/ CommitSTT(w) \/ CommitEnhancer(w) \/ WriteFiles(w) \/ CommitAnalytics(w)
  \/ Mail(w) \/ CommitDelivery(w) \/ CommitRetention(w)

LEMMA HandlesEffect ==
  ASSUME TypeOK, NEW w \in Workers, Handles(w)
  PROVE  /\ job[w] # Idle /\ job[w].pc \in {"loaded", "sent"}
         /\ \E p \in {"sent", "committed"} : job' = [job EXCEPT ![w].pc = p]
         /\ job'[w] # Idle
         /\ job'[w].entry = job[w].entry /\ job'[w].view = job[w].view
         /\ \A v \in Workers \ {w} : job'[v] = job[v]
         /\ job' \in [Workers -> Job \cup {Idle}]
         /\ faults' \in {faults, faults + 1} /\ faults' \in 0..MaxFaults
         /\ UNCHANGED streamVars
  <1>1. job[w].pc \in {"loaded", "sent"}
    BY DEF Handles, At, CommitSTT, CommitEnhancer, WriteFiles, CommitAnalytics, Mail,
           CommitDelivery, CommitRetention
  <1>2. job[w] # Idle
    BY <1>1, AtPoint DEF Points
  <1>3. PICK p \in {"sent", "committed"} : job' = [job EXCEPT ![w].pc = p]
    BY DEF Handles, Goto, CommitSTT, CommitEnhancer, WriteFiles, CommitAnalytics, Mail,
           CommitDelivery, CommitRetention
  <1>4. job[w] \in Job
    BY <1>2, BusyWorker
  <1>5. /\ job'[w] = [job[w] EXCEPT !.pc = p]
        /\ \A v \in Workers \ {w} : job'[v] = job[v]
    BY <1>3 DEF TypeOK
  <1>6. job'[w] \in Job /\ job'[w].entry = job[w].entry /\ job'[w].view = job[w].view
    BY <1>4, <1>5 DEF Job, Points
  <1>7. job' \in [Workers -> Job \cup {Idle}]
    BY <1>3, <1>6 DEF TypeOK
  <1>8. job'[w] # Idle
    BY <1>6 DEF Job, Points, Idle
  <1>9. faults' \in {faults, faults + 1} /\ faults' \in 0..MaxFaults
    BY MaxFaultsAssumption DEF Handles, CommitSTT, CommitEnhancer, WriteFiles, CommitAnalytics,
       Mail, CommitDelivery, CommitRetention, Fault, TypeOK
  <1>10. UNCHANGED streamVars
    BY DEF Handles, CommitSTT, CommitEnhancer, WriteFiles, CommitAnalytics, Mail,
           CommitDelivery, CommitRetention, streamVars
  <1> QED
    BY <1>1, <1>2, <1>3, <1>5, <1>6, <1>7, <1>8, <1>9, <1>10

LEMMA TakeEffect ==
  ASSUME TypeOK, NEW w \in Workers, Take(w)
  PROVE  \E e \in queue[StageOf[w]] :
           /\ job[w] = Idle
           /\ job' = [job EXCEPT ![w] = [pc |-> "loaded", entry |-> e, view |-> Loaded(StageOf[w])]]
           /\ job' \in [Workers -> Job \cup {Idle}]
           /\ job'[w] # Idle
           /\ faults' \in {faults, faults + 1} /\ faults' \in 0..MaxFaults
           /\ UNCHANGED <<streamVars, tableVars, outsideVars>>
  <1> DEFINE new(e) == [pc |-> "loaded", entry |-> e, view |-> Loaded(StageOf[w])]
  <1>a. PICK e \in queue[StageOf[w]] :
          /\ Fault \/ UNCHANGED faults
          /\ job' = [job EXCEPT ![w] = new(e)]
    BY Zenon DEF Take
  <1>b. faults' \in {faults, faults + 1} /\ faults' \in 0..MaxFaults
    BY <1>a, MaxFaultsAssumption DEF Fault, TypeOK
  <1>1. /\ faults' \in {faults, faults + 1} /\ faults' \in 0..MaxFaults
        /\ job' = [job EXCEPT ![w] = new(e)]
    BY <1>a, <1>b
  <1>2. StageOf[w] \in Stages
    BY StageOfAssumption
  <1>3. e \in Entry
    BY <1>2 DEF TypeOK
  <1>4. new(e) \in Job
    BY <1>2, <1>3, LoadedTyped DEF Job, Points
  <1>5. job' \in [Workers -> Job \cup {Idle}] /\ job'[w] = new(e)
    BY <1>1, <1>4 DEF TypeOK
  <1>6. job'[w] # Idle
    BY <1>5, <1>4 DEF Job, Points, Idle
  <1> QED
    BY <1>1, <1>5, <1>6 DEF Take

\* A step of Next is one of these.
LEMMA StepCases ==
  ASSUME [Next]_vars
  PROVE  \/ \E c \in Chunks : Accept(c)
         \/ \E w \in Workers : Take(w) \/ Handles(w) \/ Forward(w) \/ Crash(w) \/ Retry(w) \/ Bury(w)
         \/ UNCHANGED vars
  BY DEF Next, Step, Handles

LEMMA TypeStep == TypeOK /\ [Next]_vars => TypeOK'
  <1> SUFFICES ASSUME TypeOK, [Next]_vars
               PROVE  TypeOK'
    OBVIOUS
  <1> USE StageOfAssumption, MaxFaultsAssumption
  <1>1. ASSUME NEW c \in Chunks, Accept(c)
        PROVE  TypeOK'
    <2>1. Replace("stt", c, {}) /\ "stt" \in Stages
      BY <1>1 DEF Accept, Stages
    <2> QED BY <1>1, <2>1, ReplaceEffect DEF Accept, TypeOK, tableVars, outsideVars
  <1>2. ASSUME NEW w \in Workers, Take(w)
        PROVE  TypeOK'
    BY <1>2, TakeEffect DEF TypeOK, streamVars, tableVars, outsideVars
  <1>3. ASSUME NEW w \in Workers, Handles(w)
        PROVE  TypeOK'
    <2>1. /\ job[w] # Idle
          /\ job' \in [Workers -> Job \cup {Idle}]
          /\ faults' \in 0..MaxFaults
          /\ UNCHANGED streamVars
      BY <1>3, HandlesEffect
    <2>2. job[w].view \in View /\ Task(w) \in Chunks
      BY <2>1, BusyWorker DEF Job
    <2>3. /\ job[w].view.segments \in Texts /\ job[w].view.transcript \in Texts
          /\ job[w].view.status \in Statuses
      BY <2>2 DEF View
    <2>4. /\ segments' \in Texts /\ transcript' \in Texts /\ status' \in Statuses
          /\ files' \in Texts /\ mailed' \in Texts /\ mailFailed' \in BOOLEAN
      <3>1. CASE CommitSTT(w)
        BY <3>1, <2>2 DEF CommitSTT, TypeOK, Texts, Statuses, outsideVars
      <3>2. CASE CommitEnhancer(w)
        BY <3>2, <2>3 DEF CommitEnhancer, TypeOK, Texts, outsideVars
      <3>3. CASE WriteFiles(w)
        BY <3>3, <2>3 DEF WriteFiles, TypeOK, tableVars
      <3>4. CASE CommitAnalytics(w)
        BY <3>4, <2>3 DEF CommitAnalytics, TypeOK, outsideVars, Store, Statuses
      <3>5. CASE Mail(w)
        BY <3>5, <2>3 DEF Mail, TypeOK, tableVars
      <3>6. CASE CommitDelivery(w)
        BY <3>6, <2>3 DEF CommitDelivery, TypeOK, outsideVars, Store, Statuses
      <3>7. CASE CommitRetention(w)
        BY <3>7 DEF CommitRetention, TypeOK, outsideVars, tableVars
      <3> QED BY <1>3, <3>1, <3>2, <3>3, <3>4, <3>5, <3>6, <3>7 DEF Handles
    <2> QED BY <2>1, <2>4 DEF TypeOK, streamVars
  <1>4. ASSUME NEW w \in Workers, Forward(w)
        PROVE  TypeOK'
    <2>1. job[w] # Idle /\ Task(w) \in Chunks
      BY <1>4, ForwardEffect, BusyWorker
    <2>2. handed' \in [Stages -> SUBSET Chunks]
      <3>1. handed' = [handed EXCEPT ![StageOf[w]] = @ \cup {Task(w)}]
        BY <1>4, ForwardEffect
      <3> QED BY <2>1, <3>1 DEF TypeOK
    <2>3. job' \in [Workers -> Job \cup {Idle}]
      BY <1>4, ForwardEffect DEF TypeOK
    <2> QED BY <1>4, <2>2, <2>3, ForwardEffect DEF TypeOK, tableVars, outsideVars
  <1>5. ASSUME NEW w \in Workers, Crash(w)
        PROVE  TypeOK'
    BY <1>5 DEF Crash, Fault, TypeOK, streamVars, tableVars, outsideVars
  <1>6. ASSUME NEW w \in Workers, Retry(w)
        PROVE  TypeOK'
    <2>1. Task(w) \in Chunks /\ StageOf[w] \in Stages
      BY <1>6, BusyWorker DEF Retry
    <2>2. queue' \in [Stages -> SUBSET Entry] /\ issued' \in [Stages -> [Chunks -> Nat]]
      BY <1>6, <2>1, ReplaceEffect DEF Retry
    <2> QED BY <1>6, <2>2 DEF Retry, Fault, TypeOK, tableVars, outsideVars
  <1>7. ASSUME NEW w \in Workers, Bury(w)
        PROVE  TypeOK'
    <2>1. Task(w) \in Chunks /\ StageOf[w] \in Stages
      BY <1>7, BusyWorker DEF Bury
    <2> QED BY <1>7, <2>1 DEF Bury, Fault, TypeOK, tableVars, outsideVars
  <1>8. CASE UNCHANGED vars
    BY <1>8 DEF TypeOK, vars, streamVars, tableVars, outsideVars
  <1> QED
    BY <1>1, <1>2, <1>3, <1>4, <1>5, <1>6, <1>7, <1>8, StepCases

LEMMA InitTyped == Init => TypeOK
  <1> SUFFICES ASSUME Init PROVE TypeOK
    OBVIOUS
  <1>1. NoText \in Texts
    BY DEF NoText, Texts
  <1>2. /\ job \in [Workers -> Job \cup {Idle}]
        /\ queue \in [Stages -> SUBSET Entry]
        /\ issued \in [Stages -> [Chunks -> Nat]]
        /\ handed \in [Stages -> SUBSET Chunks] /\ dead \in [Stages -> SUBSET Chunks]
    BY DEF Init
  <1>3. /\ segments \in Texts /\ transcript \in Texts /\ files \in Texts /\ mailed \in Texts
        /\ status \in Statuses /\ mailFailed \in BOOLEAN /\ accepted \subseteq Chunks
    BY <1>1 DEF Init, Statuses
  <1>4. faults \in 0..MaxFaults
    BY MaxFaultsAssumption DEF Init
  <1> QED BY <1>2, <1>3, <1>4 DEF TypeOK

\* The streams, the workers and the rows keep their types.
THEOREM TypeCorrect == Spec => []TypeOK
  BY InitTyped, TypeStep, PTL DEF Spec

-----------------------------------------------------------------------------
(* Every stage keeps the promise of the stream.                            *)

\* What the stage before has handed to s.
Offered(s) ==
  accepted \cap (IF s = "stt" THEN accepted ELSE UNION {handed[p] : p \in Before(s)})

Queued(s) == {e[1] : e \in queue[s]}

\* Stages work on and hand on what they were offered.
OnlyOffered ==
  \A s \in Stages :
    /\ Queued(s) \subseteq Offered(s) /\ handed[s] \subseteq Offered(s)
    /\ \A w \in Working(s) : Task(w) \in Offered(s)

\* What a stage was offered is in its stream until the stage has handed it on
\* or buried it.  A worker may lose sight of an entry that another one has put
\* back: the entry in its place is what keeps the task.
NothingDropped ==
  \A s \in Stages : Offered(s) \subseteq Queued(s) \cup handed[s] \cup dead[s]

StreamInv == TypeOK /\ OnlyOffered /\ NothingDropped

LEMMA OfferedTo ==
  /\ Offered("stt") = accepted
  /\ \A p \in Stages \ {"retention"} :
       /\ Offered(Successor[p]) = accepted \cap handed[p]
       /\ Successor[p] \in Stages \ {"stt", p}
  /\ \A s \in Stages \ {"stt"} : \E p \in Stages \ {"retention"} : s = Successor[p]
  <1>1. ASSUME NEW p \in Stages \ {"retention"}
        PROVE  Before(Successor[p]) = {p} /\ Successor[p] \in Stages \ {"stt", p}
    BY StageOrder DEF Before, Stages
  <1>2. \A s \in Stages \ {"stt"} : \E p \in Stages \ {"retention"} : s = Successor[p]
    BY StageOrder DEF Stages
  <1> QED BY <1>1, <1>2 DEF Offered

LEMMA OfferedSame ==
  ASSUME UNCHANGED <<accepted, handed>>
  PROVE  \A s : Offered(s)' = Offered(s)
  BY DEF Offered

LEMMA OfferedByAccept ==
  ASSUME StreamInv, NEW c \in Chunks, Accept(c), NEW s \in Stages
  PROVE  Offered(s)' = IF s = "stt" THEN Offered(s) \cup {c} ELSE Offered(s)
  <1>1. accepted' = accepted \cup {c} /\ handed' = handed /\ c \notin accepted
    BY DEF Accept
  <1>2. CASE s = "stt"
    BY <1>1, <1>2 DEF Offered
  <1>3. CASE s # "stt"
    <2>1. PICK p \in Stages \ {"retention"} : s = Successor[p]
      BY <1>3, OfferedTo
    <2>2. c \notin handed[p]
      BY <1>1 DEF StreamInv, OnlyOffered, Offered
    <2>3. UNION {handed[q] : q \in Before(s)} = handed[p]
      BY <2>1, StageOrder DEF Before, Stages
    <2> QED BY <1>1, <1>3, <2>2, <2>3 DEF Offered
  <1> QED BY <1>2, <1>3

LEMMA OfferedByForward ==
  ASSUME StreamInv, NEW w \in Workers, Forward(w), NEW s \in Stages
  PROVE  Offered(s)' = IF StageOf[w] # "retention" /\ s = Successor[StageOf[w]]
                       THEN Offered(s) \cup {Task(w)} ELSE Offered(s)
  <1>1. /\ accepted' = accepted /\ StageOf[w] \in Stages
        /\ handed' = [handed EXCEPT ![StageOf[w]] = @ \cup {Task(w)}]
        /\ handed \in [Stages -> SUBSET Chunks]
    BY ForwardEffect, StageOfAssumption DEF StreamInv, TypeOK
  <1>2. Task(w) \in accepted
    <2>1. w \in Working(StageOf[w])
      BY ForwardEffect DEF StreamInv, Working
    <2> QED BY <1>1, <2>1 DEF StreamInv, OnlyOffered, Offered
  <1>3. CASE s = "stt"
    <2>1. StageOf[w] # "retention" => s # Successor[StageOf[w]]
      BY <1>1, <1>3, OfferedTo
    <2> QED BY <1>1, <1>3, <2>1 DEF Offered
  <1>4. CASE s # "stt"
    <2>1. PICK p \in Stages \ {"retention"} : s = Successor[p]
      BY <1>4, OfferedTo
    <2>2. UNION {handed[q] : q \in Before(s)} = handed[p] /\ UNION {handed'[q] : q \in Before(s)} = handed'[p]
      BY <2>1, StageOrder DEF Before, Stages
    <2>3. Offered(s) = accepted \cap handed[p] /\ Offered(s)' = accepted \cap handed'[p]
      BY <1>1, <1>4, <2>2 DEF Offered
    <2>4. CASE p = StageOf[w]
      BY <1>1, <1>2, <2>1, <2>3, <2>4
    <2>5. CASE p # StageOf[w]
      <3>1. ~(StageOf[w] # "retention" /\ s = Successor[StageOf[w]])
        BY <1>1, <2>1, <2>5, StageOrder DEF Stages
      <3> QED BY <1>1, <2>3, <2>5, <3>1
    <2> QED BY <2>4, <2>5
  <1> QED BY <1>3, <1>4

LEMMA QueuedGrows ==
  ASSUME NEW s, NEW t, queue'[s] = queue[s] \cup {NewEntry(s, t)}
  PROVE  Queued(s)' = Queued(s) \cup {t}
  <1>1. NewEntry(s, t)[1] = t
    BY DEF NewEntry
  <1> HIDE DEF NewEntry
  <1>2. \A x : x \in Queued(s)' <=> \E e \in queue[s] \cup {NewEntry(s, t)} : x = e[1]
    BY DEF Queued
  <1>3. \A x : x \in Queued(s) <=> \E e \in queue[s] : x = e[1]
    BY DEF Queued
  <1> QED BY <1>1, <1>2, <1>3

LEMMA QueuedReplaced ==
  ASSUME NEW s, NEW e, queue'[s] = (queue[s] \ {e}) \cup {NewEntry(s, e[1])}
  PROVE  Queued(s)' = Queued(s) \cup {e[1]}
  <1> DEFINE n == NewEntry(s, e[1])
  <1>1. n[1] = e[1]
    BY DEF NewEntry
  <1> HIDE DEF n
  <1>2. \A x : x \in Queued(s)' <=> \E d \in (queue[s] \ {e}) \cup {n} : x = d[1]
    BY DEF Queued, n
  <1>3. \A x : x \in Queued(s) <=> \E d \in queue[s] : x = d[1]
    BY DEF Queued
  <1> QED BY <1>1, <1>2, <1>3

\* Only a worker's own steps change what it works on.
LEMMA WorkersLeft ==
  ASSUME TypeOK, NEW w \in Workers, job' = [job EXCEPT ![w] = Idle], NEW s \in Stages
  PROVE  /\ Working(s)' = Working(s) \ {w}
         /\ \A v \in Working(s)' : Task(v)' = Task(v) /\ job'[v] = job[v]
  <1>1. job'[w] = Idle /\ \A v \in Workers \ {w} : job'[v] = job[v]
    BY DEF TypeOK
  <1>2. Working(s)' = Working(s) \ {w}
    BY <1>1 DEF Working
  <1> QED BY <1>1, <1>2 DEF Working, Task

LEMMA WorkersTook ==
  ASSUME TypeOK, NEW w \in Workers, Take(w), NEW s \in Stages
  PROVE  \E e \in queue[StageOf[w]] :
           /\ Working(s)' = IF s = StageOf[w] THEN Working(s) \cup {w} ELSE Working(s)
           /\ w \notin Working(s)
           /\ Task(w)' = e[1] /\ job'[w].entry = e
           /\ \A v \in Working(s) : Task(v)' = Task(v) /\ job'[v] = job[v]
  <1>1. PICK e \in queue[StageOf[w]] :
           /\ job[w] = Idle /\ job'[w] # Idle
           /\ job' = [job EXCEPT ![w] = [pc |-> "loaded", entry |-> e, view |-> Loaded(StageOf[w])]]
    BY TakeEffect
  <1>2. job'[w].entry = e /\ \A v \in Workers \ {w} : job'[v] = job[v]
    BY <1>1 DEF TypeOK
  <1>3. Working(s)' = IF s = StageOf[w] THEN Working(s) \cup {w} ELSE Working(s)
    BY <1>1, <1>2 DEF Working
  <1> QED BY <1>1, <1>2, <1>3 DEF Working, Task

LEMMA WorkersSame ==
  ASSUME TypeOK, NEW w \in Workers, Handles(w), NEW s \in Stages
  PROVE  Working(s)' = Working(s) /\ \A v \in Workers : Task(v)' = Task(v)
  BY HandlesEffect DEF Working, Task

LEMMA StreamStep == StreamInv /\ [Next]_vars => StreamInv'
  <1> SUFFICES ASSUME StreamInv, [Next]_vars
               PROVE  OnlyOffered' /\ NothingDropped'
    BY TypeStep DEF StreamInv
  <1> SUFFICES ASSUME NEW s \in Stages
               PROVE  /\ Queued(s)' \subseteq Offered(s)' /\ handed'[s] \subseteq Offered(s)'
                      /\ \A v \in Working(s)' : Task(v)' \in Offered(s)'
                      /\ Offered(s)' \subseteq Queued(s)' \cup handed'[s] \cup dead'[s]
    BY DEF OnlyOffered, NothingDropped
  <1>0. /\ TypeOK
        /\ Queued(s) \subseteq Offered(s) /\ handed[s] \subseteq Offered(s)
        /\ \A v \in Working(s) : Task(v) \in Offered(s)
        /\ Offered(s) \subseteq Queued(s) \cup handed[s] \cup dead[s]
    BY DEF StreamInv, OnlyOffered, NothingDropped
  <1>1. ASSUME NEW c \in Chunks, Accept(c)
        PROVE  /\ Queued(s)' \subseteq Offered(s)' /\ handed'[s] \subseteq Offered(s)'
               /\ \A v \in Working(s)' : Task(v)' \in Offered(s)'
               /\ Offered(s)' \subseteq Queued(s)' \cup handed'[s] \cup dead'[s]
    <2>1. /\ accepted' = accepted \cup {c} /\ UNCHANGED <<handed, dead, job>>
          /\ Replace("stt", c, {})
      BY <1>1 DEF Accept
    <2>2. Queued(s)' = IF s = "stt" THEN Queued(s) \cup {c} ELSE Queued(s)
      <3>1. "stt" \in Stages
        BY DEF Stages
      <3>2. CASE s = "stt"
        <4>1. queue'[s] = (queue[s] \ {}) \cup {NewEntry(s, c)}
          BY <2>1, <3>1, <3>2, <1>0, ReplaceEffect
        <4> QED BY <3>2, <4>1, QueuedGrows
      <3>3. CASE s # "stt"
        <4>1. queue'[s] = queue[s]
          BY <2>1, <3>1, <3>3, <1>0, ReplaceEffect
        <4> QED BY <3>3, <4>1 DEF Queued
      <3> QED BY <3>2, <3>3
    <2>3. Offered(s)' = IF s = "stt" THEN Offered(s) \cup {c} ELSE Offered(s)
      BY <1>1, OfferedByAccept
    <2>4. Working(s)' = Working(s) /\ \A v : Task(v)' = Task(v)
      BY <2>1 DEF Working, Task
    <2> QED BY <1>0, <2>1, <2>2, <2>3, <2>4
  <1>2. ASSUME NEW w \in Workers, Take(w)
        PROVE  /\ Queued(s)' \subseteq Offered(s)' /\ handed'[s] \subseteq Offered(s)'
               /\ \A v \in Working(s)' : Task(v)' \in Offered(s)'
               /\ Offered(s)' \subseteq Queued(s)' \cup handed'[s] \cup dead'[s]
    <2>1. UNCHANGED streamVars
      BY <1>2 DEF Take
    <2>2. Queued(s)' = Queued(s) /\ Offered(s)' = Offered(s)
      BY <2>1, OfferedSame DEF streamVars, Queued
    <2>3. \A v \in Working(s)' : Task(v)' \in Offered(s)
      BY <1>0, <1>2, WorkersTook DEF Queued
    <2> QED BY <1>0, <2>1, <2>2, <2>3 DEF streamVars
  <1>3. ASSUME NEW w \in Workers, Handles(w)
        PROVE  /\ Queued(s)' \subseteq Offered(s)' /\ handed'[s] \subseteq Offered(s)'
               /\ \A v \in Working(s)' : Task(v)' \in Offered(s)'
               /\ Offered(s)' \subseteq Queued(s)' \cup handed'[s] \cup dead'[s]
    <2>1. UNCHANGED streamVars
      BY <1>0, <1>3, HandlesEffect
    <2>2. Queued(s)' = Queued(s) /\ Offered(s)' = Offered(s)
      BY <2>1, OfferedSame DEF streamVars, Queued
    <2>3. \A v \in Working(s)' : Task(v)' \in Offered(s)
      BY <1>0, <1>3, WorkersSame DEF Working
    <2> QED BY <1>0, <2>1, <2>2, <2>3 DEF streamVars
  <1>4. ASSUME NEW w \in Workers, Forward(w)
        PROVE  /\ Queued(s)' \subseteq Offered(s)' /\ handed'[s] \subseteq Offered(s)'
               /\ \A v \in Working(s)' : Task(v)' \in Offered(s)'
               /\ Offered(s)' \subseteq Queued(s)' \cup handed'[s] \cup dead'[s]
    <2> DEFINE t == Task(w)
               into == StageOf[w] # "retention" /\ s = Successor[StageOf[w]]
    <2>1. /\ UNCHANGED <<accepted, dead>> /\ StageOf[w] \in Stages
          /\ handed' = [handed EXCEPT ![StageOf[w]] = @ \cup {t}]
          /\ handed \in [Stages -> SUBSET Chunks]
          /\ job[w] # Idle /\ job' = [job EXCEPT ![w] = Idle]
      BY <1>0, <1>4, ForwardEffect, StageOfAssumption DEF TypeOK
    <2>2. Offered(s)' = IF into THEN Offered(s) \cup {t} ELSE Offered(s)
      BY <1>4, OfferedByForward
    <2>3. /\ into => s # StageOf[w]
          /\ into => queue'[s] = queue[s] \cup {NewEntry(s, t)}
          /\ ~into /\ s # StageOf[w] => queue'[s] = queue[s]
          /\ s = StageOf[w] => queue'[s] \in {queue[s], queue[s] \ {job[w].entry}}
      <3>1. StageOf[w] # "retention" => Successor[StageOf[w]] # StageOf[w]
        BY <2>1, OfferedTo
      <3>2. /\ queue'[StageOf[w]] \in {queue[StageOf[w]], queue[StageOf[w]] \ {job[w].entry}}
            /\ \A z \in Stages \ {StageOf[w]} :
                 queue'[z] = IF StageOf[w] # "retention" /\ z = Successor[StageOf[w]]
                             THEN queue[z] \cup {NewEntry(z, Task(w))} ELSE queue[z]
        BY <1>0, <1>4, ForwardEffect
      <3> QED BY <3>1, <3>2
    <2>4. \A v \in Working(s)' : Task(v)' \in Offered(s)
      BY <1>0, <2>1, WorkersLeft, ZenonT(60)
    <2>5. t \in Offered(StageOf[w]) /\ Offered(StageOf[w]) \subseteq accepted
      BY <2>1 DEF StreamInv, OnlyOffered, Working, Offered
    <2>6. handed'[s] = IF s = StageOf[w] THEN handed[s] \cup {t} ELSE handed[s]
      BY <2>1
    <2>7. CASE into
      <3>1. Queued(s)' = Queued(s) \cup {t}
        BY <2>3, <2>7, QueuedGrows
      <3> HIDE DEF into
      <3> QED BY <1>0, <2>1, <2>2, <2>4, <2>5, <2>6, <2>7, <3>1
    <2>8. CASE s = StageOf[w]
      <3>1. Queued(s)' \subseteq Queued(s) /\ Queued(s) \subseteq Queued(s)' \cup {t}
        BY <2>3, <2>8 DEF Queued, Task
      <3>2. ~into
        BY <2>3, <2>8
      <3> HIDE DEF into
      <3> QED BY <1>0, <2>1, <2>2, <2>4, <2>5, <2>6, <2>8, <3>1, <3>2
    <2>9. CASE ~into /\ s # StageOf[w]
      <3>1. Queued(s)' = Queued(s)
        BY <2>3, <2>9 DEF Queued
      <3> HIDE DEF into
      <3> QED BY <1>0, <2>1, <2>2, <2>4, <2>6, <2>9, <3>1
    <2> HIDE DEF into
    <2> QED BY <2>7, <2>8, <2>9
  <1>5. ASSUME NEW w \in Workers, Crash(w)
        PROVE  /\ Queued(s)' \subseteq Offered(s)' /\ handed'[s] \subseteq Offered(s)'
               /\ \A v \in Working(s)' : Task(v)' \in Offered(s)'
               /\ Offered(s)' \subseteq Queued(s)' \cup handed'[s] \cup dead'[s]
    <2>1. UNCHANGED streamVars /\ job' = [job EXCEPT ![w] = Idle]
      BY <1>5 DEF Crash
    <2>2. Queued(s)' = Queued(s) /\ Offered(s)' = Offered(s)
      BY <2>1, OfferedSame DEF streamVars, Queued
    <2>3. \A v \in Working(s)' : Task(v)' \in Offered(s)
      BY <1>0, <2>1, WorkersLeft
    <2> QED BY <1>0, <2>1, <2>2, <2>3 DEF streamVars
  <1>6. ASSUME NEW w \in Workers, Retry(w)
        PROVE  /\ Queued(s)' \subseteq Offered(s)' /\ handed'[s] \subseteq Offered(s)'
               /\ \A v \in Working(s)' : Task(v)' \in Offered(s)'
               /\ Offered(s)' \subseteq Queued(s)' \cup handed'[s] \cup dead'[s]
    <2>1. /\ UNCHANGED <<accepted, handed, dead>> /\ job' = [job EXCEPT ![w] = Idle]
          /\ Replace(StageOf[w], Task(w), {job[w].entry})
          /\ StageOf[w] \in Stages /\ Task(w) \in Chunks /\ job[w] # Idle
      BY <1>0, <1>6, BusyWorker DEF Retry
    <2>2. Offered(s)' = Offered(s)
      BY <2>1, OfferedSame
    <2>3. \A v \in Working(s)' : Task(v)' \in Offered(s)
      BY <1>0, <2>1, WorkersLeft
    <2>4. CASE s = StageOf[w]
      <3>1. queue'[s] = (queue[s] \ {job[w].entry}) \cup {NewEntry(s, Task(w))}
        BY <1>0, <2>1, <2>4, ReplaceEffect
      <3>2. Queued(s)' = Queued(s) \cup {Task(w)}
        BY <3>1, QueuedReplaced DEF Task
      <3>3. Task(w) \in Offered(s)
        BY <1>0, <2>1, <2>4 DEF Working
      <3> QED BY <1>0, <2>1, <2>2, <2>3, <3>2, <3>3
    <2>5. CASE s # StageOf[w]
      <3>1. queue'[s] = queue[s]
        BY <1>0, <2>1, <2>5, ReplaceEffect
      <3>2. Queued(s)' = Queued(s)
        BY <3>1 DEF Queued
      <3> QED BY <1>0, <2>1, <2>2, <2>3, <3>2
    <2> QED BY <2>4, <2>5
  <1>7. ASSUME NEW w \in Workers, Bury(w)
        PROVE  /\ Queued(s)' \subseteq Offered(s)' /\ handed'[s] \subseteq Offered(s)'
               /\ \A v \in Working(s)' : Task(v)' \in Offered(s)'
               /\ Offered(s)' \subseteq Queued(s)' \cup handed'[s] \cup dead'[s]
    <2>1. /\ UNCHANGED <<accepted, handed>> /\ job' = [job EXCEPT ![w] = Idle]
          /\ queue'[s] = IF s = StageOf[w] THEN queue[s] \ {job[w].entry} ELSE queue[s]
          /\ dead'[s] = IF s = StageOf[w] THEN dead[s] \cup {Task(w)} ELSE dead[s]
      BY <1>0, <1>7 DEF Bury, TypeOK
    <2>2. Offered(s)' = Offered(s)
      BY <2>1, OfferedSame
    <2>3. \A v \in Working(s)' : Task(v)' \in Offered(s)
      BY <1>0, <2>1, WorkersLeft
    <2>4. /\ Queued(s)' \subseteq Queued(s)
          /\ Queued(s) \subseteq Queued(s)' \cup (IF s = StageOf[w] THEN {Task(w)} ELSE {})
      BY <2>1 DEF Queued, Task
    <2> QED BY <1>0, <2>1, <2>2, <2>3, <2>4
  <1>8. CASE UNCHANGED vars
    <2>1. UNCHANGED <<streamVars, job>>
      BY <1>8 DEF vars
    <2>2. /\ Queued(s)' = Queued(s) /\ Offered(s)' = Offered(s) /\ Working(s)' = Working(s)
          /\ \A v : Task(v)' = Task(v)
      BY <2>1, OfferedSame DEF streamVars, Queued, Working, Task
    <2> QED BY <1>0, <2>1, <2>2 DEF streamVars
  <1> QED
    BY <1>1, <1>2, <1>3, <1>4, <1>5, <1>6, <1>7, <1>8, StepCases

THEOREM StreamCorrect == Spec => []StreamInv
  <1>1. Init => TypeOK
    BY InitTyped
  <1>2. Init => OnlyOffered /\ NothingDropped
    BY StageOfAssumption DEF Init, OnlyOffered, NothingDropped, Queued, Offered, Working, Idle
  <1> QED BY <1>1, <1>2, StreamStep, PTL DEF Spec, StreamInv

-----------------------------------------------------------------------------
(* The steps of the pipeline as steps of the promise, stage by stage.      *)

LEMMA PromiseSame ==
  ASSUME NEW s \in Stages, Offered(s)' = Offered(s), Live(s)' = Live(s),
         handed'[s] = handed[s], dead'[s] = dead[s]
  PROVE  [Stage(s)!Next]_(Stage(s)!vars)
  BY DEF Stage!vars, Offered

LEMMA PromiseOffer ==
  ASSUME NEW s \in Stages, NEW t \in Chunks, Offered(s)' = Offered(s) \cup {t},
         Live(s)' = Live(s) \cup {t}, handed'[s] = handed[s], dead'[s] = dead[s]
  PROVE  [Stage(s)!Next]_(Stage(s)!vars)
  <1>1. Stage(s)!Offer(t)
    BY DEF Stage!Offer, Offered
  <1> QED BY <1>1 DEF Stage!Next

LEMMA PromiseExecute ==
  ASSUME NEW s \in Stages, NEW t \in Chunks, t \in Live(s), Offered(s)' = Offered(s),
         Live(s)' \in {Live(s), Live(s) \ {t}},
         handed'[s] = handed[s] \cup {t}, dead'[s] = dead[s]
  PROVE  [Stage(s)!Next]_(Stage(s)!vars)
  <1>1. Stage(s)!Execute(t)
    BY DEF Stage!Execute, Offered
  <1> QED BY <1>1 DEF Stage!Next

LEMMA PromiseBury ==
  ASSUME NEW s \in Stages, NEW t \in Chunks, t \in Live(s), Offered(s)' = Offered(s),
         Live(s)' \in {Live(s), Live(s) \ {t}},
         handed'[s] = handed[s], dead'[s] = dead[s] \cup {t}
  PROVE  [Stage(s)!Next]_(Stage(s)!vars)
  <1>1. Stage(s)!Bury(t)
    BY DEF Stage!Bury, Offered
  <1> QED BY <1>1 DEF Stage!Next

LEMMA PromiseRetire ==
  ASSUME NEW s \in Stages, NEW t \in Chunks, t \in Live(s), t \in handed[s] \cup dead[s],
         Offered(s)' = Offered(s), Live(s)' = Live(s) \ {t},
         handed'[s] = handed[s], dead'[s] = dead[s]
  PROVE  [Stage(s)!Next]_(Stage(s)!vars)
  <1>1. Stage(s)!Retire(t)
    BY DEF Stage!Retire, Stage!Settled, Offered
  <1> QED BY <1>1 DEF Stage!Next

\* What a stage has live when a worker of it stops working on task t.
LEMMA LiveAfter ==
  ASSUME StreamInv, NEW w \in Workers, job[w] # Idle, job' = [job EXCEPT ![w] = Idle],
         NEW s \in Stages,
         Queued(s)' \subseteq Queued(s),
         Queued(s) \subseteq Queued(s)' \cup (IF s = StageOf[w] THEN {Task(w)} ELSE {})
  PROVE  /\ s = StageOf[w] => Task(w) \in Live(s) /\ Live(s)' \in {Live(s), Live(s) \ {Task(w)}}
         /\ s # StageOf[w] => Live(s)' = Live(s)
  <1>1. /\ Working(s)' = Working(s) \ {w}
        /\ \A v \in Working(s)' : Task(v)' = Task(v)
    BY WorkersLeft DEF StreamInv
  <1>2. Live(s) = Queued(s) \cup {Task(v) : v \in Working(s)}
    BY DEF Live, Queued
  <1>3. Live(s)' = Queued(s)' \cup {Task(v) : v \in Working(s) \ {w}}
    <2>1. Live(s)' = Queued(s)' \cup {Task(v)' : v \in Working(s)'}
      BY DEF Live, Queued
    <2>2. {Task(v)' : v \in Working(s)'} = {Task(v) : v \in Working(s) \ {w}}
      BY <1>1
    <2> QED BY <2>1, <2>2
  <1>4. CASE s = StageOf[w]
    <2>1. w \in Working(s)
      BY <1>4 DEF Working
    <2> QED BY <1>2, <1>3, <1>4, <2>1
  <1>5. CASE s # StageOf[w]
    <2>1. w \notin Working(s)
      BY <1>5 DEF Working
    <2> QED BY <1>2, <1>3, <1>5, <2>1
  <1> QED BY <1>4, <1>5

LEMMA PromiseStep ==
  ASSUME StreamInv, [Next]_vars, NEW s \in Stages
  PROVE  [Stage(s)!Next]_(Stage(s)!vars)
  <1>0. TypeOK
    BY DEF StreamInv
  <1>1. ASSUME NEW c \in Chunks, Accept(c)
        PROVE  [Stage(s)!Next]_(Stage(s)!vars)
    <2>1. UNCHANGED <<handed, dead, job>> /\ Replace("stt", c, {}) /\ "stt" \in Stages
      BY <1>1 DEF Accept, Stages
    <2>2. Offered(s)' = IF s = "stt" THEN Offered(s) \cup {c} ELSE Offered(s)
      BY <1>1, OfferedByAccept
    <2>3. Live(s)' = Queued(s)' \cup {Task(v) : v \in Working(s)}
      BY <2>1 DEF Live, Queued, Working, Task
    <2>4. CASE s = "stt"
      <3>1. queue'[s] = (queue[s] \ {}) \cup {NewEntry(s, c)}
        BY <1>0, <2>1, <2>4, ReplaceEffect
      <3>2. Queued(s)' = Queued(s) \cup {c}
        BY <3>1, QueuedGrows
      <3>3. Live(s)' = Live(s) \cup {c}
        BY <2>3, <3>2 DEF Live, Queued
      <3> QED BY <2>1, <2>2, <2>4, <3>3, PromiseOffer
    <2>5. CASE s # "stt"
      <3>1. queue'[s] = queue[s]
        BY <1>0, <2>1, <2>5, ReplaceEffect
      <3>2. Live(s)' = Live(s)
        BY <2>3, <3>1 DEF Live, Queued
      <3> QED BY <2>1, <2>2, <2>5, <3>2, PromiseSame
    <2> QED BY <2>4, <2>5
  <1>2. ASSUME NEW w \in Workers, Take(w)
        PROVE  [Stage(s)!Next]_(Stage(s)!vars)
    <2>1. UNCHANGED <<accepted, queue, handed, dead>>
      BY <1>2 DEF Take, streamVars
    <2>2. PICK e \in queue[StageOf[w]] :
            /\ Working(s)' = IF s = StageOf[w] THEN Working(s) \cup {w} ELSE Working(s)
            /\ w \notin Working(s) /\ Task(w)' = e[1]
            /\ \A v \in Working(s) : Task(v)' = Task(v)
      BY <1>0, <1>2, WorkersTook
    <2>3. Queued(s)' = Queued(s) /\ (s = StageOf[w] => e[1] \in Queued(s))
      BY <2>1, <2>2 DEF Queued
    <2>4. Live(s)' = Queued(s) \cup {Task(v)' : v \in Working(s)'}
      BY <2>3 DEF Live, Queued
    <2>5. Live(s) = Queued(s) \cup {Task(v) : v \in Working(s)}
      BY DEF Live, Queued
    <2>6. Live(s)' = Live(s)
      BY <2>2, <2>3, <2>4, <2>5
    <2> QED BY <2>1, <2>6, OfferedSame, PromiseSame
  <1>3. ASSUME NEW w \in Workers, Handles(w)
        PROVE  [Stage(s)!Next]_(Stage(s)!vars)
    <2>1. UNCHANGED <<accepted, queue, handed, dead>>
      BY <1>0, <1>3, HandlesEffect DEF streamVars
    <2>2. Live(s)' = Live(s)
      BY <1>0, <1>3, <2>1, WorkersSame DEF Live, Working
    <2> QED BY <2>1, <2>2, OfferedSame, PromiseSame
  <1>4. ASSUME NEW w \in Workers, Forward(w)
        PROVE  [Stage(s)!Next]_(Stage(s)!vars)
    <2> DEFINE t == Task(w)
               into == StageOf[w] # "retention" /\ s = Successor[StageOf[w]]
    <2>1. /\ StageOf[w] \in Stages /\ job[w] # Idle /\ job' = [job EXCEPT ![w] = Idle]
          /\ handed' = [handed EXCEPT ![StageOf[w]] = @ \cup {t}]
          /\ handed \in [Stages -> SUBSET Chunks] /\ dead' = dead /\ t \in Chunks
      BY <1>0, <1>4, ForwardEffect, BusyWorker, StageOfAssumption DEF TypeOK
    <2>2. Offered(s)' = IF into THEN Offered(s) \cup {t} ELSE Offered(s)
      BY <1>4, OfferedByForward
    <2>3. StageOf[w] # "retention" => Successor[StageOf[w]] # StageOf[w]
      BY <2>1, OfferedTo
    <2>4. /\ queue'[StageOf[w]] \in {queue[StageOf[w]], queue[StageOf[w]] \ {job[w].entry}}
          /\ \A z \in Stages \ {StageOf[w]} :
               queue'[z] = IF StageOf[w] # "retention" /\ z = Successor[StageOf[w]]
                           THEN queue[z] \cup {NewEntry(z, Task(w))} ELSE queue[z]
      BY <1>0, <1>4, ForwardEffect
    <2>5. CASE into
      <3>1. queue'[s] = queue[s] \cup {NewEntry(s, t)} /\ s # StageOf[w]
        BY <2>3, <2>4, <2>5
      <3>2. Queued(s)' = Queued(s) \cup {t}
        BY <3>1, QueuedGrows
      <3>3. Working(s)' = Working(s) /\ \A v \in Working(s) : Task(v)' = Task(v)
        <4>1. w \notin Working(s)
          BY <3>1 DEF Working
        <4>2. Working(s)' = Working(s) \ {w} /\ \A v \in Working(s)' : Task(v)' = Task(v)
          BY <1>0, <2>1, WorkersLeft
        <4> HIDE DEF into, t
        <4>3. Working(s)' = Working(s)
          BY <4>1, <4>2
        <4> QED BY <4>2, <4>3
      <3>4. Live(s)' = Live(s) \cup {t}
        <4>1. Live(s)' = Queued(s)' \cup {Task(v)' : v \in Working(s)'}
          BY DEF Live, Queued
        <4>2. Live(s) = Queued(s) \cup {Task(v) : v \in Working(s)}
          BY DEF Live, Queued
        <4> QED BY <3>2, <3>3, <4>1, <4>2
      <3>5. handed'[s] = handed[s]
        BY <2>1, <3>1
      <3> QED BY <2>1, <2>2, <2>5, <3>4, <3>5, PromiseOffer
    <2>6. CASE s = StageOf[w]
      <3>1. Queued(s)' \subseteq Queued(s) /\ Queued(s) \subseteq Queued(s)' \cup {t}
        BY <2>4, <2>6 DEF Queued, Task
      <3>2. t \in Live(s) /\ Live(s)' \in {Live(s), Live(s) \ {t}}
        BY <2>1, <2>6, <3>1, LiveAfter
      <3>3. handed'[s] = handed[s] \cup {t} /\ Offered(s)' = Offered(s)
        BY <2>1, <2>2, <2>3, <2>6
      <3> QED BY <2>1, <3>2, <3>3, PromiseExecute
    <2>7. CASE ~into /\ s # StageOf[w]
      <3>1. queue'[s] = queue[s]
        BY <2>4, <2>7
      <3>2. Queued(s)' = Queued(s)
        BY <3>1 DEF Queued
      <3>3. Live(s)' = Live(s)
        BY <2>1, <2>7, <3>2, LiveAfter
      <3>4. handed'[s] = handed[s]
        BY <2>1, <2>7
      <3> QED BY <2>1, <2>2, <2>7, <3>3, <3>4, PromiseSame
    <2> QED BY <2>5, <2>6, <2>7
  <1>5. ASSUME NEW w \in Workers, Crash(w)
        PROVE  [Stage(s)!Next]_(Stage(s)!vars)
    <2>1. /\ UNCHANGED <<accepted, queue, handed, dead>>
          /\ job[w] # Idle /\ job' = [job EXCEPT ![w] = Idle]
      BY <1>5 DEF Crash, streamVars
    <2>2. Queued(s)' = Queued(s) /\ Offered(s)' = Offered(s)
      BY <2>1, OfferedSame DEF Queued
    <2>3. CASE Live(s)' = Live(s)
      BY <2>1, <2>2, <2>3, PromiseSame
    <2>4. CASE Live(s)' # Live(s)
      <3>1. /\ s = StageOf[w] /\ Task(w) \in Live(s) /\ Live(s)' = Live(s) \ {Task(w)}
        BY <2>1, <2>2, <2>4, LiveAfter
      <3>2. Task(w) \notin Queued(s)
        <4>1. Task(w) \in Live(s)' <=> FALSE
          BY <3>1
        <4> QED BY <2>2, <4>1 DEF Live, Queued
      <3>3. Task(w) \in Offered(s) /\ Task(w) \in Chunks
        BY <1>0, <2>1, <3>1, BusyWorker DEF StreamInv, OnlyOffered, Working
      <3>4. Task(w) \in handed[s] \cup dead[s]
        BY <3>2, <3>3 DEF StreamInv, NothingDropped
      <3> QED BY <2>1, <2>2, <3>1, <3>3, <3>4, PromiseRetire
    <2> QED BY <2>3, <2>4
  <1>6. ASSUME NEW w \in Workers, Retry(w)
        PROVE  [Stage(s)!Next]_(Stage(s)!vars)
    <2>1. /\ UNCHANGED <<accepted, handed, dead>> /\ job' = [job EXCEPT ![w] = Idle]
          /\ Replace(StageOf[w], Task(w), {job[w].entry})
          /\ StageOf[w] \in Stages /\ Task(w) \in Chunks /\ job[w] # Idle
      BY <1>0, <1>6, BusyWorker DEF Retry
    <2>2. Offered(s)' = Offered(s)
      BY <2>1, OfferedSame
    <2>3. Live(s)' = Live(s)
      <3>1. /\ Working(s)' = Working(s) \ {w}
            /\ \A v \in Working(s)' : Task(v)' = Task(v)
        BY <1>0, <2>1, WorkersLeft
      <3>2. Live(s) = Queued(s) \cup {Task(v) : v \in Working(s)}
        BY DEF Live, Queued
      <3>3. Live(s)' = Queued(s)' \cup {Task(v)' : v \in Working(s)'}
        BY DEF Live, Queued
      <3>4. CASE s = StageOf[w]
        <4>1. queue'[s] = (queue[s] \ {job[w].entry}) \cup {NewEntry(s, Task(w))}
          BY <1>0, <2>1, <3>4, ReplaceEffect
        <4>2. Queued(s)' = Queued(s) \cup {Task(w)}
          BY <4>1, QueuedReplaced DEF Task
        <4>3. w \in Working(s)
          BY <2>1, <3>4 DEF Working
        <4> QED BY <3>1, <3>2, <3>3, <4>2, <4>3
      <3>5. CASE s # StageOf[w]
        <4>1. queue'[s] = queue[s]
          BY <1>0, <2>1, <3>5, ReplaceEffect
        <4>2. Queued(s)' = Queued(s) /\ w \notin Working(s)
          BY <3>5, <4>1 DEF Queued, Working
        <4> QED BY <3>1, <3>2, <3>3, <4>2
      <3> QED BY <3>4, <3>5
    <2> QED BY <2>1, <2>2, <2>3, PromiseSame
  <1>7. ASSUME NEW w \in Workers, Bury(w)
        PROVE  [Stage(s)!Next]_(Stage(s)!vars)
    <2>1. /\ UNCHANGED <<accepted, handed>> /\ job' = [job EXCEPT ![w] = Idle]
          /\ job[w] # Idle /\ Task(w) \in Chunks
          /\ queue'[s] = IF s = StageOf[w] THEN queue[s] \ {job[w].entry} ELSE queue[s]
          /\ dead'[s] = IF s = StageOf[w] THEN dead[s] \cup {Task(w)} ELSE dead[s]
      BY <1>0, <1>7, BusyWorker DEF Bury, TypeOK
    <2>2. /\ Queued(s)' \subseteq Queued(s)
          /\ Queued(s) \subseteq Queued(s)' \cup (IF s = StageOf[w] THEN {Task(w)} ELSE {})
      BY <2>1 DEF Queued, Task
    <2>3. /\ s = StageOf[w] => Task(w) \in Live(s) /\ Live(s)' \in {Live(s), Live(s) \ {Task(w)}}
          /\ s # StageOf[w] => Live(s)' = Live(s)
      BY <2>1, <2>2, LiveAfter
    <2>4. CASE s = StageOf[w]
      BY <2>1, <2>3, <2>4, OfferedSame, PromiseBury
    <2>5. CASE s # StageOf[w]
      BY <2>1, <2>3, <2>5, OfferedSame, PromiseSame
    <2> QED BY <2>4, <2>5
  <1>8. CASE UNCHANGED vars
    <2>1. UNCHANGED <<accepted, queue, handed, dead, job>>
      BY <1>8 DEF vars, streamVars
    <2>2. Live(s)' = Live(s)
      BY <2>1 DEF Live, Working, Task
    <2> QED BY <2>1, <2>2, OfferedSame, PromiseSame
  <1> QED
    BY <1>1, <1>2, <1>3, <1>4, <1>5, <1>6, <1>7, <1>8, StepCases

\* Whatever the stages of the pipeline do together, each of them keeps to what
\* AtLeastOnce promises the stage before it (queue/streams.py, apps/worker_*):
\* it works on what it was handed, and drops nothing it has not settled.
THEOREM PipelineImplementsPromises == Spec => StagesKeepPromise
  <1>1. StreamInv /\ [Next]_vars => \A s \in Stages : [Stage(s)!Next]_(Stage(s)!vars)
    BY PromiseStep
  <1>2. Init => \A s \in Stages : Stage(s)!Init
    <2> SUFFICES ASSUME Init, NEW s \in Stages
                 PROVE  Stage(s)!Init
      OBVIOUS
    <2>1. Live(s) = {}
      BY DEF Init, Live, Working, Idle
    <2> QED BY <2>1 DEF Init, Stage!Init
  <1>3. (\A s \in Stages : [Stage(s)!Next]_(Stage(s)!vars))
          => [\A s \in Stages : [Stage(s)!Next]_(Stage(s)!vars)]_vars
    OBVIOUS
  <1> QED BY <1>1, <1>2, <1>3, StreamCorrect, PTL DEF Spec, StagesKeepPromise

-----------------------------------------------------------------------------
(* What the rows hold, where one worker rebuilds the transcript.           *)

\* A meeting's transcript is rebuilt by one worker.
OneRebuilds ==
  \A v, w \in Workers : StageOf[v] = "analytics" /\ StageOf[w] = "analytics" => v = w

\* Worker w is about to store the transcript it has built.
Rebuilding(w) == StageOf[w] = "analytics" /\ job[w].pc \in {"loaded", "sent"}

\* The transcript tells nothing the segments do not, nor does the worker who
\* rebuilds it; and that worker knows of all the transcript tells.
NothingForgotten ==
  /\ \A c \in Chunks : transcript[c] # "none" => segments[c] # "none"
  /\ \A w \in Workers : Rebuilding(w) =>
       /\ job[w].view.transcript = transcript
       /\ \A c \in Chunks :
            /\ job[w].view.segments[c] # "none" => segments[c] # "none"
            /\ transcript[c] # "none" => job[w].view.segments[c] # "none"

\* A chunk is recognised before it is handed to the enhancer, the worker who
\* rebuilds the transcript for a chunk has seen its text, and the chunk is in
\* the transcript before it is handed to delivery.
HandedIsStored ==
  /\ \A c \in handed["stt"] : segments[c] # "none"
  /\ \A c \in handed["analytics"] : transcript[c] # "none"
  /\ \A w \in Workers :
       /\ At(w, "stt", "committed") => segments[Task(w)] # "none"
       /\ Rebuilding(w) => job[w].view.segments[Task(w)] # "none"
       /\ At(w, "analytics", "committed") => transcript[Task(w)] # "none"

RowsInv == StreamInv /\ NothingForgotten /\ HandedIsStored

\* What the handlers do to the rows.
LEMMA RowsEffect ==
  ASSUME TypeOK, NEW w \in Workers, Handles(w)
  PROVE  /\ \A c \in Chunks : segments[c] # "none" => segments'[c] # "none"
         /\ \/ transcript' = transcript
            \/ At(w, "analytics", "sent") /\ transcript' = job[w].view.segments
  <1>1. job[w].view \in View /\ Task(w) \in Chunks
    BY HandlesEffect, BusyWorker DEF Job
  <1>2. CASE CommitSTT(w)
    BY <1>1, <1>2 DEF CommitSTT, TypeOK, Texts
  <1>3. CASE CommitEnhancer(w)
    BY <1>3 DEF CommitEnhancer
  <1>4. CASE CommitAnalytics(w)
    BY <1>4 DEF CommitAnalytics, Store
  <1>5. CASE WriteFiles(w) \/ Mail(w) \/ CommitDelivery(w) \/ CommitRetention(w)
    BY <1>5 DEF WriteFiles, Mail, CommitDelivery, CommitRetention, tableVars
  <1> QED BY <1>2, <1>3, <1>4, <1>5 DEF Handles

\* What a task handed on by enhancement went through before.
LEMMA HandedBefore ==
  ASSUME StreamInv, NEW c \in Chunks
  PROVE  /\ c \in Queued("analytics") \/ c \in handed["analytics"] => c \in handed["enhancer"]
         /\ c \in handed["enhancer"] => c \in handed["stt"]
  <1>1. /\ Offered("analytics") = accepted \cap handed["enhancer"]
        /\ Offered("enhancer") = accepted \cap handed["stt"]
    BY OfferedTo, StageOrder DEF Stages
  <1> QED BY <1>1 DEF StreamInv, OnlyOffered, Stages

\* Steps that leave the rows alone and in which a worker at most stops.
LEMMA RowsSame ==
  ASSUME RowsInv, UNCHANGED tableVars,
         \A v \in Workers : job'[v] = job[v] \/ job'[v] = Idle,
         \A c \in handed'["stt"] : segments[c] # "none",
         \A c \in handed'["analytics"] : transcript[c] # "none"
  PROVE  NothingForgotten' /\ HandedIsStored'
  <1>1. \A v \in Workers : /\ Rebuilding(v)' => Rebuilding(v) /\ job'[v] = job[v]
                           /\ \A s, p : p \in Points /\ At(v, s, p)' => At(v, s, p) /\ job'[v] = job[v]
    BY DEF Rebuilding, At, Idle, Points
  <1>2. UNCHANGED <<segments, transcript>>
    BY DEF tableVars
  <1>3. NothingForgotten'
    BY <1>1, <1>2 DEF RowsInv, NothingForgotten
  <1>4. HandedIsStored'
    BY <1>1, <1>2 DEF RowsInv, HandedIsStored, Task, Points
  <1> QED BY <1>3, <1>4

LEMMA RowsStep ==
  ASSUME OneRebuilds
  PROVE  RowsInv /\ [Next]_vars => RowsInv'
  <1> SUFFICES ASSUME RowsInv, [Next]_vars
               PROVE  NothingForgotten' /\ HandedIsStored'
    BY StreamStep DEF RowsInv
  <1>0. /\ StreamInv /\ TypeOK
        /\ "stt" \in Stages /\ "analytics" \in Stages
    BY DEF RowsInv, StreamInv, Stages
  <1>a. /\ \A c \in handed["stt"] : segments[c] # "none"
        /\ \A c \in handed["analytics"] : transcript[c] # "none"
    BY DEF RowsInv, HandedIsStored
  <1>1. ASSUME NEW c \in Chunks, Accept(c)
        PROVE  NothingForgotten' /\ HandedIsStored'
    BY <1>1, <1>a, RowsSame DEF Accept
  <1>2. ASSUME NEW w \in Workers, Take(w)
        PROVE  NothingForgotten' /\ HandedIsStored'
    <2>1. PICK e \in queue[StageOf[w]] :
            /\ job' = [job EXCEPT ![w] = [pc |-> "loaded", entry |-> e, view |-> Loaded(StageOf[w])]]
            /\ UNCHANGED <<streamVars, tableVars, outsideVars>>
      BY <1>0, <1>2, TakeEffect
    <2>2. UNCHANGED <<segments, transcript, handed>>
      BY <2>1 DEF streamVars, tableVars
    <2>3. /\ job'[w].pc = "loaded" /\ job'[w].entry = e /\ job'[w].view = Loaded(StageOf[w])
          /\ \A v \in Workers \ {w} : job'[v] = job[v]
      BY <1>0, <2>1 DEF TypeOK
    <2>4. Rebuilding(w)' => /\ job'[w].view.segments = segments
                            /\ job'[w].view.transcript = transcript
                            /\ segments[e[1]] # "none"
      <3> SUFFICES ASSUME StageOf[w] = "analytics"
                   PROVE  /\ Loaded("analytics").segments = segments
                          /\ Loaded("analytics").transcript = transcript
                          /\ segments[e[1]] # "none"
        BY <2>3 DEF Rebuilding
      <3>1. Loaded("analytics").segments = segments /\ Loaded("analytics").transcript = transcript
        BY LoadedViews
      <3>2. e[1] \in Queued("analytics") /\ e[1] \in Chunks
        BY <1>0 DEF Queued, TypeOK, Entry
      <3> QED BY <1>0, <1>a, <3>1, <3>2, HandedBefore
    <2>5. NothingForgotten'
      <3>1. \A v \in Workers \ {w} : Rebuilding(v)' => Rebuilding(v)
        BY <2>3 DEF Rebuilding
      <3> QED BY <2>2, <2>3, <2>4, <3>1 DEF RowsInv, NothingForgotten
    <2>6. HandedIsStored'
      <3>1. \A v \in Workers \ {w} :
              /\ Rebuilding(v)' => Rebuilding(v)
              /\ \A s, p : At(v, s, p)' => At(v, s, p)
              /\ Task(v)' = Task(v)
        BY <2>3 DEF Rebuilding, At, Task
      <3>2. /\ ~At(w, "stt", "committed")' /\ ~At(w, "analytics", "committed")'
            /\ Task(w)' = e[1]
        BY <2>3 DEF At, Task
      <3> QED BY <2>2, <2>3, <2>4, <3>1, <3>2 DEF RowsInv, HandedIsStored
    <2> QED BY <2>5, <2>6
  <1>3. ASSUME NEW w \in Workers, Handles(w)
        PROVE  NothingForgotten' /\ HandedIsStored'
    <2>1. /\ job'[w].entry = job[w].entry /\ job'[w].view = job[w].view
          /\ \A v \in Workers \ {w} : job'[v] = job[v]
          /\ job[w].pc \in {"loaded", "sent"}
          /\ \A v \in Workers : Task(v)' = Task(v) /\ job'[v].view = job[v].view
      BY <1>0, <1>3, HandlesEffect DEF Task
    <2>2. /\ \A c \in Chunks : segments[c] # "none" => segments'[c] # "none"
          /\ transcript' = transcript \/ (At(w, "analytics", "sent") /\ transcript' = job[w].view.segments)
      BY <1>0, <1>3, RowsEffect
    <2>3. handed' = handed /\ handed["stt"] \subseteq Chunks /\ handed["analytics"] \subseteq Chunks
      BY <1>0, <1>3, HandlesEffect DEF streamVars, TypeOK
    <2>4. \A v \in Workers : Rebuilding(v)' => Rebuilding(v)
      BY <2>1 DEF Rebuilding
    <2>5. transcript' # transcript => Rebuilding(w) /\ ~Rebuilding(w)'
      <3> SUFFICES ASSUME transcript' # transcript
                   PROVE  Rebuilding(w) /\ ~Rebuilding(w)'
        OBVIOUS
      <3>1. CommitAnalytics(w)
        BY <1>3 DEF Handles, CommitSTT, CommitEnhancer, WriteFiles, Mail, CommitDelivery,
                    CommitRetention, tableVars
      <3>2. job'[w].pc = "committed" /\ At(w, "analytics", "sent")
        BY <1>0, <3>1 DEF CommitAnalytics, Goto, TypeOK, At, Job, Idle
      <3> QED BY <3>2 DEF Rebuilding, At
    <2>6. \A c \in Chunks : transcript[c] # "none" => transcript'[c] # "none"
      BY <2>2, <2>5 DEF RowsInv, NothingForgotten
    <2>7. NothingForgotten'
      <3>1. CASE transcript' = transcript
        BY <2>1, <2>2, <2>4, <3>1 DEF RowsInv, NothingForgotten
      <3>2. CASE transcript' # transcript
        <4>1. /\ Rebuilding(w) /\ ~Rebuilding(w)' /\ transcript' = job[w].view.segments
              /\ StageOf[w] = "analytics"
          BY <2>2, <2>5, <3>2 DEF Rebuilding
        <4>2. \A v \in Workers : ~Rebuilding(v)'
          BY <4>1 DEF OneRebuilds, Rebuilding
        <4> QED BY <2>2, <4>1, <4>2 DEF RowsInv, NothingForgotten
      <3> QED BY <3>1, <3>2
    <2>8. At(w, "stt", "committed")' => segments'[Task(w)] # "none"
      <3> SUFFICES ASSUME At(w, "stt", "committed")'
                   PROVE  segments'[Task(w)] # "none"
        OBVIOUS
      <3>1. CommitSTT(w)
        BY <1>3 DEF Handles, At, CommitEnhancer, WriteFiles, CommitAnalytics, Mail,
                    CommitDelivery, CommitRetention
      <3>2. Task(w) \in Chunks
        BY <1>0, <1>3, HandlesEffect, BusyWorker
      <3> QED BY <1>0, <3>1, <3>2 DEF CommitSTT, TypeOK, Texts
    <2>9. At(w, "analytics", "committed")' => transcript'[Task(w)] # "none"
      <3> SUFFICES ASSUME At(w, "analytics", "committed")'
                   PROVE  transcript'[Task(w)] # "none"
        OBVIOUS
      <3>1. ~WriteFiles(w)
        <4> SUFFICES ASSUME WriteFiles(w) PROVE FALSE
          OBVIOUS
        <4>1. job'[w].pc = "sent"
          BY <1>0 DEF WriteFiles, Goto, TypeOK, At, Job, Idle
        <4> QED BY <4>1 DEF At
      <3>2. CommitAnalytics(w)
        BY <1>3, <3>1 DEF Handles, At, CommitSTT, CommitEnhancer, Mail,
                    CommitDelivery, CommitRetention
      <3>3. Rebuilding(w) /\ Task(w) \in Chunks
        BY <1>0, <1>3, <3>2, HandlesEffect, BusyWorker DEF CommitAnalytics, At, Rebuilding
      <3>4. job[w].view.segments[Task(w)] # "none"
        BY <3>3 DEF RowsInv, HandedIsStored
      <3>5. \/ transcript' = job[w].view.segments
            \/ transcript' = transcript /\ job[w].view.segments = transcript
        BY <3>2, <3>3 DEF CommitAnalytics, Store, RowsInv, NothingForgotten
      <3> QED BY <3>4, <3>5
    <2>10. HandedIsStored'
      <3>1. \A v \in Workers \ {w} : \A s, p : At(v, s, p)' => At(v, s, p)
        BY <2>1 DEF At
      <3>2. \A v \in Workers \ {w} : At(v, "stt", "committed")' => segments'[Task(v)] # "none"
        <4> SUFFICES ASSUME NEW v \in Workers \ {w}, At(v, "stt", "committed")
                     PROVE  segments'[Task(v)] # "none"
          BY <3>1
        <4>1. Task(v) \in Chunks /\ segments[Task(v)] # "none"
          BY <1>0, AtPoint, BusyWorker DEF RowsInv, HandedIsStored, At, Points
        <4> QED BY <2>2, <4>1
      <3>3. \A v \in Workers \ {w} : At(v, "analytics", "committed")' => transcript'[Task(v)] # "none"
        <4> SUFFICES ASSUME NEW v \in Workers \ {w}, At(v, "analytics", "committed")
                     PROVE  transcript'[Task(v)] # "none"
          BY <3>1
        <4>1. Task(v) \in Chunks /\ transcript[Task(v)] # "none"
          BY <1>0, AtPoint, BusyWorker DEF RowsInv, HandedIsStored, At, Points
        <4> QED BY <2>6, <4>1
      <3>4. \A v \in Workers : Rebuilding(v)' => job'[v].view.segments[Task(v)] # "none"
        BY <2>1, <2>4 DEF RowsInv, HandedIsStored
      <3>5. /\ \A c \in handed'["stt"] : segments'[c] # "none"
            /\ \A c \in handed'["analytics"] : transcript'[c] # "none"
        BY <1>a, <2>2, <2>3, <2>6
      <3> QED BY <2>1, <2>8, <2>9, <3>2, <3>3, <3>4, <3>5 DEF HandedIsStored
    <2> QED BY <2>7, <2>10
  <1>4. ASSUME NEW w \in Workers, Forward(w)
        PROVE  NothingForgotten' /\ HandedIsStored'
    <2>1. /\ job[w].pc = "committed" /\ job' = [job EXCEPT ![w] = Idle]
          /\ handed' = [handed EXCEPT ![StageOf[w]] = @ \cup {Task(w)}]
          /\ UNCHANGED tableVars
      BY <1>0, <1>4, ForwardEffect
    <2>2. \A v \in Workers : job'[v] = job[v] \/ job'[v] = Idle
      BY <1>0, <2>1 DEF TypeOK
    <2>3. \A s \in Stages : handed'[s] = IF s = StageOf[w] THEN handed[s] \cup {Task(w)} ELSE handed[s]
      BY <1>0, <2>1, StageOfAssumption DEF TypeOK
    <2>4. /\ StageOf[w] = "stt" => segments[Task(w)] # "none"
          /\ StageOf[w] = "analytics" => transcript[Task(w)] # "none"
      BY <2>1 DEF RowsInv, HandedIsStored, At
    <2>5. /\ \A c \in handed'["stt"] : segments[c] # "none"
          /\ \A c \in handed'["analytics"] : transcript[c] # "none"
      BY <1>0, <1>a, <2>3, <2>4
    <2> QED BY <2>1, <2>2, <2>5, RowsSame
  <1>5. ASSUME NEW w \in Workers, Crash(w) \/ Retry(w) \/ Bury(w)
        PROVE  NothingForgotten' /\ HandedIsStored'
    <2>1. job' = [job EXCEPT ![w] = Idle] /\ UNCHANGED tableVars /\ handed' = handed
      BY <1>5 DEF Crash, Retry, Bury, streamVars
    <2>2. \A v \in Workers : job'[v] = job[v] \/ job'[v] = Idle
      BY <1>0, <2>1 DEF TypeOK
    <2> QED BY <1>a, <2>1, <2>2, RowsSame
  <1>6. CASE UNCHANGED vars
    BY <1>6, <1>a, RowsSame DEF vars, streamVars
  <1> QED
    BY <1>1, <1>2, <1>3, <1>4, <1>5, <1>6, StepCases

LEMMA RowsCorrect ==
  ASSUME OneRebuilds
  PROVE  Spec => []RowsInv
  <1>1. Init => StreamInv
    BY InitTyped, StageOfAssumption
       DEF Init, StreamInv, OnlyOffered, NothingDropped, Queued, Offered, Working, Idle
  <1>2. Init => NothingForgotten /\ HandedIsStored
    BY DEF Init, NothingForgotten, HandedIsStored, Rebuilding, At, Idle, NoText, Stages
  <1> QED BY <1>1, <1>2, RowsStep, PTL DEF Spec, RowsInv

\* Where one analytics worker rebuilds the transcript (apps/worker_analytics),
\* no text leaves it again, whatever crashes, claims and retries do.
THEOREM TranscriptKeepsAll ==
  ASSUME OneRebuilds
  PROVE  Spec => TranscriptNeverLoses
  <1>1. RowsInv /\ [Next]_vars
          => [\A c \in Chunks : transcript[c] # "none" => transcript'[c] # "none"]_vars
    <2> SUFFICES ASSUME RowsInv, [Next]_vars, NEW c \in Chunks, transcript[c] # "none"
                 PROVE  transcript'[c] # "none"
      OBVIOUS
    <2>0. TypeOK
      BY DEF RowsInv, StreamInv
    <2>1. ASSUME NEW w \in Workers, Handles(w)
          PROVE  transcript'[c] # "none"
      BY <2>0, <2>1, RowsEffect DEF RowsInv, NothingForgotten, Rebuilding, At
    <2>2. ASSUME ~\E w \in Workers : Handles(w)
          PROVE  transcript' = transcript
      <3>1. ASSUME NEW w \in Workers, Forward(w)
            PROVE  UNCHANGED tableVars
        BY <2>0, <3>1, ForwardEffect
      <3>2. UNCHANGED tableVars
        BY <2>2, <3>1, StepCases DEF Accept, Take, Crash, Retry, Bury, vars
      <3> QED BY <3>2 DEF tableVars
    <2> QED BY <2>1, <2>2
  <1> QED BY <1>1, RowsCorrect, PTL DEF Spec, TranscriptNeverLoses

\* There, too, an accepted chunk is in the transcript or a stage before
\* delivery has a task for it or has buried one, in every state.
THEOREM ChunksOnTheirWay ==
  ASSUME OneRebuilds
  PROVE  Spec => []OnItsWay
  <1>1. RowsInv => OnItsWay
    <2> SUFFICES ASSUME RowsInv, NEW c \in accepted
                 PROVE  \/ transcript[c] # "none"
                        \/ \E s \in {"stt", "enhancer", "analytics"} : c \in Queued(s) \cup dead[s]
      BY DEF OnItsWay, Live, Queued
    <2>1. \A s \in Stages : c \in Offered(s) => c \in Queued(s) \cup handed[s] \cup dead[s]
      BY DEF RowsInv, StreamInv, NothingDropped
    <2>2. /\ c \in Offered("stt")
          /\ c \in handed["stt"] => c \in Offered("enhancer")
          /\ c \in handed["enhancer"] => c \in Offered("analytics")
      BY OfferedTo, StageOrder DEF Stages
    <2>3. c \in handed["analytics"] => transcript[c] # "none"
      BY DEF RowsInv, HandedIsStored
    <2> QED BY <2>1, <2>2, <2>3 DEF Stages
  <1> QED BY <1>1, RowsCorrect, PTL

-----------------------------------------------------------------------------
(* Entries and workers.                                                    *)

\* One worker for every stage but the enhancer, which may have more.
OneOfEach ==
  \A v, w \in Workers :
    StageOf[v] = StageOf[w] /\ StageOf[v] \in {"stt", "analytics", "delivery"} => v = w

\* Whose entry nobody else claims still has it in the stream.
EntryHeld ==
  \A w \in Workers :
    job[w] # Idle /\ StageOf[w] \in {"stt", "analytics", "delivery"}
      => job[w].entry \in queue[StageOf[w]]

\* Entries are numbered from one: the next one is new to everybody.
EntriesIssued ==
  \A s \in Stages :
    /\ \A e \in queue[s] : e[2] <= issued[s][e[1]]
    /\ \A w \in Working(s) : job[w].entry[2] <= issued[s][Task(w)]

\* Texts are those of accepted chunks, and what a worker has seen is stored.
TextsAccepted ==
  \A c \in Chunks :
    /\ segments[c] # "none" => c \in accepted
    /\ \A w \in Workers :
         job[w] # Idle /\ job[w].view.segments[c] # "none" => segments[c] # "none"

LEMMA EntryLeaves ==
  ASSUME TypeOK, [Next]_vars, NEW s \in Stages, NEW e \in queue[s], e \notin queue'[s]
  PROVE  \E w \in Workers : /\ StageOf[w] = s /\ job[w] # Idle /\ job[w].entry = e
                            /\ Forward(w) \/ Retry(w) \/ Bury(w)
  <1>1. ASSUME NEW c \in Chunks, Accept(c)
        PROVE  FALSE
    <2>1. Replace("stt", c, {}) /\ "stt" \in Stages
      BY <1>1 DEF Accept, Stages
    <2>2. /\ queue'["stt"] = (queue["stt"] \ {}) \cup {NewEntry("stt", c)}
          /\ \A z \in Stages \ {"stt"} : queue'[z] = queue[z]
      BY <2>1, ReplaceEffect
    <2> QED BY <2>2
  <1>2. ASSUME NEW w \in Workers, Take(w) \/ Crash(w) \/ Handles(w)
        PROVE  FALSE
    <2>1. UNCHANGED streamVars
      BY <1>2, HandlesEffect DEF Take, Crash
    <2> QED BY <2>1 DEF streamVars
  <1>3. ASSUME NEW w \in Workers, Forward(w)
        PROVE  StageOf[w] = s /\ job[w] # Idle /\ job[w].entry = e
    <2>1. StageOf[w] \in Stages
      BY StageOfAssumption
    <2>2. /\ queue'[StageOf[w]] \in {queue[StageOf[w]], queue[StageOf[w]] \ {job[w].entry}}
          /\ \A z \in Stages \ {StageOf[w]} :
               queue'[z] = IF StageOf[w] # "retention" /\ z = Successor[StageOf[w]]
                           THEN queue[z] \cup {NewEntry(z, Task(w))} ELSE queue[z]
          /\ job[w] # Idle
      BY <1>3, ForwardEffect
    <2> QED BY <2>1, <2>2
  <1>4. ASSUME NEW w \in Workers, Retry(w)
        PROVE  StageOf[w] = s /\ job[w] # Idle /\ job[w].entry = e
    <2>1. Replace(StageOf[w], Task(w), {job[w].entry}) /\ StageOf[w] \in Stages
          /\ Task(w) \in Chunks /\ job[w] # Idle
      BY <1>4, BusyWorker DEF Retry
    <2>2. /\ queue'[StageOf[w]] = (queue[StageOf[w]] \ {job[w].entry}) \cup {NewEntry(StageOf[w], Task(w))}
          /\ \A z \in Stages \ {StageOf[w]} : queue'[z] = queue[z]
      BY <2>1, ReplaceEffect
    <2> QED BY <2>1, <2>2
  <1>5. ASSUME NEW w \in Workers, Bury(w)
        PROVE  StageOf[w] = s /\ job[w] # Idle /\ job[w].entry = e
    BY <1>5 DEF Bury, TypeOK
  <1>6. CASE UNCHANGED vars
    BY <1>6 DEF vars, streamVars
  <1> QED BY <1>1, <1>2, <1>3, <1>4, <1>5, <1>6, StepCases

LEMMA QueueStep ==
  ASSUME TypeOK, [Next]_vars, NEW s \in Stages
  PROVE  \/ queue'[s] \subseteq queue[s] /\ issued'[s] = issued[s]
         \/ \E t \in Chunks : /\ queue'[s] \subseteq queue[s] \cup {NewEntry(s, t)}
                              /\ issued'[s] = [issued[s] EXCEPT ![t] = @ + 1]
  <1>1. ASSUME NEW z \in Stages, NEW t \in Chunks, NEW gone, Replace(z, t, gone)
        PROVE  \/ queue'[s] \subseteq queue[s] /\ issued'[s] = issued[s]
               \/ /\ queue'[s] \subseteq queue[s] \cup {NewEntry(s, t)}
                  /\ issued'[s] = [issued[s] EXCEPT ![t] = @ + 1]
    <2>1. CASE s = z
      BY <1>1, <2>1, ReplaceEffect
    <2>2. CASE s # z
      BY <1>1, <2>2, ReplaceEffect
    <2> QED BY <2>1, <2>2
  <1>2. ASSUME NEW c \in Chunks, Accept(c)
        PROVE  Replace("stt", c, {}) /\ "stt" \in Stages
    BY <1>2 DEF Accept, Stages
  <1>3. ASSUME NEW w \in Workers, Retry(w)
        PROVE  /\ Replace(StageOf[w], Task(w), {job[w].entry})
               /\ StageOf[w] \in Stages /\ Task(w) \in Chunks
    BY <1>3, BusyWorker DEF Retry
  <1>4. ASSUME NEW w \in Workers, Take(w) \/ Crash(w) \/ Handles(w)
        PROVE  queue'[s] = queue[s] /\ issued'[s] = issued[s]
    <2>1. UNCHANGED streamVars
      BY <1>4, HandlesEffect DEF Take, Crash
    <2> QED BY <2>1 DEF streamVars
  <1>5. ASSUME NEW w \in Workers, Forward(w)
        PROVE  \/ queue'[s] \subseteq queue[s] /\ issued'[s] = issued[s]
               \/ /\ queue'[s] = queue[s] \cup {NewEntry(s, Task(w))}
                  /\ issued'[s] = [issued[s] EXCEPT ![Task(w)] = @ + 1]
    <2>1. CASE s = StageOf[w]
      BY <1>5, <2>1, ForwardEffect
    <2>2. CASE s # StageOf[w] /\ StageOf[w] # "retention" /\ s = Successor[StageOf[w]]
      BY <1>5, <2>2, ForwardEffect
    <2>3. CASE s # StageOf[w] /\ ~(StageOf[w] # "retention" /\ s = Successor[StageOf[w]])
      BY <1>5, <2>3, ForwardEffect
    <2> QED BY <2>1, <2>2, <2>3
  <1>6. ASSUME NEW w \in Workers, Forward(w)
        PROVE  Task(w) \in Chunks
    BY <1>6, ForwardEffect, BusyWorker
  <1>7. ASSUME NEW w \in Workers, Bury(w)
        PROVE  queue'[s] \subseteq queue[s] /\ issued'[s] = issued[s]
    BY <1>7 DEF Bury, TypeOK
  <1>8. CASE UNCHANGED vars
    BY <1>8 DEF vars, streamVars
  <1> QED BY <1>1, <1>2, <1>3, <1>4, <1>5, <1>6, <1>7, <1>8, StepCases

\* A worker goes on with its entry, has just taken one, or has stopped.
LEMMA JobStep ==
  ASSUME TypeOK, [Next]_vars, NEW v \in Workers, job'[v] # Idle
  PROVE  \/ /\ job[v] # Idle /\ job'[v].entry = job[v].entry /\ job'[v].view = job[v].view
            /\ Handles(v) \/ job'[v] = job[v]
         \/ /\ Take(v) /\ job'[v].entry \in queue[StageOf[v]]
            /\ job'[v].view = Loaded(StageOf[v]) /\ job'[v].pc = "loaded"
  <1>1. ASSUME NEW w \in Workers, Take(w)
        PROVE  \/ /\ v = w /\ job'[w].entry \in queue[StageOf[w]]
                  /\ job'[w].view = Loaded(StageOf[w]) /\ job'[w].pc = "loaded"
               \/ job'[v] = job[v]
    <2>1. PICK e \in queue[StageOf[w]] :
            job' = [job EXCEPT ![w] = [pc |-> "loaded", entry |-> e, view |-> Loaded(StageOf[w])]]
      BY <1>1, TakeEffect
    <2> QED BY <2>1 DEF TypeOK
  <1>2. ASSUME NEW w \in Workers, Handles(w)
        PROVE  \/ /\ job[v] # Idle /\ job'[v].entry = job[v].entry /\ job'[v].view = job[v].view
                  /\ v = w
               \/ job'[v] = job[v]
    BY <1>2, HandlesEffect
  <1>3. ASSUME NEW w \in Workers, Forward(w) \/ Crash(w) \/ Retry(w) \/ Bury(w)
        PROVE  job'[v] = job[v] \/ job'[v] = Idle
    <2>1. job' = [job EXCEPT ![w] = Idle]
      BY <1>3, ForwardEffect DEF Crash, Retry, Bury
    <2> QED BY <2>1 DEF TypeOK
  <1>4. ASSUME (\E c \in Chunks : Accept(c)) \/ UNCHANGED vars
        PROVE  job'[v] = job[v]
    BY <1>4 DEF Accept, vars
  <1> QED BY <1>1, <1>2, <1>3, <1>4, StepCases

LEMMA EntriesStep ==
  ASSUME OneOfEach
  PROVE  TypeOK /\ EntryHeld /\ EntriesIssued /\ [Next]_vars => EntryHeld' /\ EntriesIssued'
  <1> SUFFICES ASSUME TypeOK, EntryHeld, EntriesIssued, [Next]_vars
               PROVE  EntryHeld' /\ EntriesIssued'
    OBVIOUS
  <1>0. TypeOK'
    BY TypeStep
  <1>1. ASSUME NEW w \in Workers, job'[w] # Idle, StageOf[w] \in {"stt", "analytics", "delivery"}
        PROVE  job'[w].entry \in queue'[StageOf[w]]
    <2>1. job'[w].entry \in queue[StageOf[w]]
      BY <1>1, JobStep DEF EntryHeld
    <2>2. SUFFICES ASSUME job'[w].entry \notin queue'[StageOf[w]]
                   PROVE  FALSE
      OBVIOUS
    <2>3. StageOf[w] \in Stages
      BY StageOfAssumption
    <2>4. PICK v \in Workers : /\ StageOf[v] = StageOf[w]
                               /\ Forward(v) \/ Retry(v) \/ Bury(v)
      BY <2>1, <2>2, <2>3, EntryLeaves
    <2>5. v = w
      BY <1>1, <2>4 DEF OneOfEach
    <2>6. job' = [job EXCEPT ![v] = Idle]
      BY <2>4, ForwardEffect DEF Retry, Bury
    <2> QED BY <1>1, <2>5, <2>6 DEF TypeOK
  <1>2. ASSUME NEW s \in Stages
        PROVE  /\ \A e \in queue'[s] : e[2] <= issued'[s][e[1]]
               /\ \A w \in Working(s)' : job'[w].entry[2] <= issued'[s][Task(w)']
    <2>1. /\ \A e \in queue[s] : e \in Entry /\ e[1] \in Chunks /\ e[2] \in Nat
          /\ issued[s] \in [Chunks -> Nat]
          /\ \A e \in queue[s] : e[2] <= issued[s][e[1]]
      BY DEF TypeOK, Entry, EntriesIssued
    <2>2. \A c \in Chunks : issued'[s][c] \in Nat /\ issued[s][c] <= issued'[s][c]
      <3>1. issued'[s] = issued[s] \/ \E t \in Chunks : issued'[s] = [issued[s] EXCEPT ![t] = @ + 1]
        BY QueueStep
      <3>2. ASSUME NEW t \in Chunks, issued'[s] = [issued[s] EXCEPT ![t] = @ + 1], NEW c \in Chunks
            PROVE  issued'[s][c] = IF c = t THEN issued[s][c] + 1 ELSE issued[s][c]
        BY <2>1, <3>2
      <3>3. \A n \in Nat : n + 1 \in Nat /\ n <= n + 1 /\ n <= n
        OBVIOUS
      <3>4. \A c \in Chunks : issued[s][c] \in Nat
        BY <2>1
      <3> QED BY <3>1, <3>2, <3>3, <3>4, ZenonT(60)
    <2>3. \A e \in queue'[s] : e[2] <= issued'[s][e[1]]
      <3>1. CASE queue'[s] \subseteq queue[s] /\ issued'[s] = issued[s]
        BY <2>1, <3>1
      <3>2. ASSUME NEW t \in Chunks,
                   queue'[s] \subseteq queue[s] \cup {NewEntry(s, t)},
                   issued'[s] = [issued[s] EXCEPT ![t] = @ + 1]
            PROVE  \A e \in queue'[s] : e[2] <= issued'[s][e[1]]
        <4>1. NewEntry(s, t)[1] = t /\ NewEntry(s, t)[2] = issued[s][t] + 1
          BY DEF NewEntry
        <4>2. issued'[s][t] = issued[s][t] + 1 /\ issued'[s][t] \in Nat
          BY <2>1, <3>2
        <4>3. \A e \in queue[s] : e[2] <= issued'[s][e[1]]
          BY <2>1, <2>2
        <4> HIDE DEF NewEntry
        <4> QED BY <3>2, <4>1, <4>2, <4>3
      <3> QED BY <3>1, <3>2, QueueStep
    <2>4. ASSUME NEW w \in Working(s)'
          PROVE  job'[w].entry[2] <= issued'[s][Task(w)']
      <3>1. w \in Workers /\ StageOf[w] = s /\ job'[w] # Idle
        BY DEF Working
      <3>2. \/ job[w] # Idle /\ job'[w].entry = job[w].entry
            \/ job'[w].entry \in queue[s]
        BY <3>1, JobStep
      <3>3. job'[w].entry[2] <= issued[s][job'[w].entry[1]]
        BY <2>1, <3>1, <3>2 DEF EntriesIssued, Working, Task
      <3>4. job'[w].entry \in Entry
        <4>1. job'[w] \in Job
          BY <1>0, <3>1 DEF TypeOK
        <4> QED BY <4>1 DEF Job
      <3>5. job'[w].entry[1] \in Chunks /\ job'[w].entry[2] \in Nat
        BY <3>4 DEF Entry
      <3> QED BY <2>1, <2>2, <3>3, <3>5 DEF Task
    <2> QED BY <2>3, <2>4
  <1> QED BY <1>1, <1>2 DEF EntryHeld, EntriesIssued

\* Nobody works on an entry that has just come.
LEMMA EntryIsNew ==
  ASSUME TypeOK, EntriesIssued, [Next]_vars, NEW s \in Stages,
         NEW e \in queue'[s], e \notin queue[s], NEW w \in Working(s)'
  PROVE  job'[w].entry # e
  <1>1. PICK t \in Chunks : e = NewEntry(s, t)
    BY QueueStep
  <1>2. w \in Workers /\ StageOf[w] = s /\ job'[w] # Idle
    BY DEF Working
  <1>3. job'[w].entry \in queue[s] \/ (job[w] # Idle /\ job'[w].entry = job[w].entry)
    BY <1>2, JobStep
  <1>4. CASE job'[w].entry \in queue[s]
    BY <1>4
  <1>5. CASE job[w] # Idle /\ job'[w].entry = job[w].entry
    <2>1. job[w].entry[2] <= issued[s][job[w].entry[1]]
      BY <1>2, <1>5 DEF EntriesIssued, Working, Task
    <2>2. e[1] = t /\ e[2] = issued[s][t] + 1 /\ issued[s][t] \in Nat
      BY <1>1 DEF NewEntry, TypeOK
    <2> QED BY <1>5, <2>1, <2>2
  <1> QED BY <1>3, <1>4, <1>5

\* Recognition and enhancement alone write the segments.
LEMMA SegmentsStep ==
  ASSUME TypeOK, [Next]_vars
  PROVE  segments' = segments \/ \E w \in Workers : CommitSTT(w) \/ CommitEnhancer(w)
  <1>1. ASSUME NEW w \in Workers, Forward(w)
        PROVE  segments' = segments
    BY <1>1, ForwardEffect DEF tableVars
  <1> QED BY <1>1, StepCases DEF Accept, Take, Crash, Retry, Bury, vars, tableVars, Handles,
        WriteFiles, CommitAnalytics, Mail, CommitDelivery, CommitRetention

LEMMA TextsStep ==
  StreamInv /\ TextsAccepted /\ [Next]_vars => TextsAccepted'
  <1> SUFFICES ASSUME StreamInv, TextsAccepted, [Next]_vars, NEW c \in Chunks
               PROVE  /\ segments'[c] # "none" => c \in accepted'
                      /\ \A w \in Workers :
                           job'[w] # Idle /\ job'[w].view.segments[c] # "none" => segments'[c] # "none"
    BY DEF TextsAccepted
  <1>0. TypeOK
    BY DEF StreamInv
  <1>1. accepted \subseteq accepted'
    <2>1. ASSUME NEW w \in Workers, Handles(w) \/ Forward(w)
          PROVE  accepted' = accepted
      BY <1>0, <2>1, HandlesEffect, ForwardEffect DEF streamVars
    <2> QED BY <2>1, StepCases DEF Accept, Take, Crash, Retry, Bury, vars, streamVars
  <1>2. \/ segments' = segments
        \/ \E w \in Workers : CommitSTT(w) \/ CommitEnhancer(w)
    BY <1>0, SegmentsStep
  <1>3. segments[c] # "none" => segments'[c] # "none"
    <2>1. ASSUME NEW w \in Workers, CommitSTT(w) \/ CommitEnhancer(w)
          PROVE  segments[c] # "none" => segments'[c] # "none"
      BY <1>0, <2>1, RowsEffect DEF Handles
    <2> QED BY <1>2, <2>1
  <1>4. segments'[c] # "none" => c \in accepted'
    <2>1. ASSUME NEW w \in Workers, CommitSTT(w), segments'[c] # segments[c]
          PROVE  c \in accepted
      <3>1. c = Task(w)
        BY <1>0, <2>1 DEF CommitSTT, TypeOK, Texts
      <3>2. w \in Working("stt")
        BY <2>1, AtPoint DEF CommitSTT, At, Points, Working
      <3> QED BY <3>1, <3>2 DEF StreamInv, OnlyOffered, Offered, Stages
    <2>2. ASSUME NEW w \in Workers, CommitEnhancer(w), segments'[c] # segments[c]
          PROVE  c \in accepted
      <3>1. job[w] # Idle /\ job[w].view.segments[c] = "raw"
        BY <2>2, AtPoint DEF CommitEnhancer, At, Points
      <3> QED BY <3>1 DEF TextsAccepted
    <2> QED BY <1>1, <1>2, <2>1, <2>2 DEF TextsAccepted
  <1>5. ASSUME NEW w \in Workers, job'[w] # Idle, job'[w].view.segments[c] # "none"
        PROVE  segments'[c] # "none"
    <2>1. CASE job[w] # Idle /\ job'[w].view = job[w].view
      BY <1>3, <1>5, <2>1 DEF TextsAccepted
    <2>2. CASE job'[w].view = Loaded(StageOf[w])
      <3>1. Loaded(StageOf[w]).segments \in {segments, NoText}
        <4>1. StageOf[w] \in Stages
          BY StageOfAssumption
        <4>2. NoView.segments = NoText
          BY DEF NoView
        <4>3. /\ [NoView EXCEPT !.segments = segments].segments = segments
              /\ [NoView EXCEPT !.transcript = transcript, !.status = status].segments = NoText
          BY DEF NoView
        <4>4. StageOf[w] = "analytics" => Loaded(StageOf[w]).segments = segments
          BY LoadedViews
        <4>5. StageOf[w] \in {"enhancer", "delivery", "stt", "retention"}
                => Loaded(StageOf[w]).segments \in {segments, NoText}
          BY <4>2, <4>3, LoadedViews
        <4> QED BY <4>1, <4>4, <4>5 DEF Stages
      <3>2. NoText[c] = "none"
        BY DEF NoText
      <3> QED BY <1>3, <1>5, <2>2, <3>1, <3>2
    <2> QED BY <1>5, <2>1, <2>2, <1>0, JobStep
  <1> QED BY <1>4, <1>5

-----------------------------------------------------------------------------
(* A pipeline that has come to rest is complete.                           *)

\* Entry e is going to have the recognised text of chunk c enhanced.
ToEnhance(e, c) ==
  /\ e[1] = c
  /\ \A w \in Working("enhancer") :
       job[w].entry = e => job[w].pc = "loaded" /\ job[w].view.segments[c] = "raw"

RawIsDue ==
  NothingDead =>
    \A c \in Chunks : segments[c] = "raw" =>
      c \in Queued("stt") \/ \E e \in queue["enhancer"] : ToEnhance(e, c)

\* Entries that no worker of the stage works on.
Unattended(s) == \E e \in queue[s] : \A w \in Working(s) : job[w].entry # e

Delivering(w) == StageOf[w] = "delivery" /\ job[w].pc \in {"loaded", "sent"}

NothingBefore(s) ==
  CASE s = "analytics" -> queue["stt"] = {} /\ queue["enhancer"] = {}
    [] s = "delivery"  -> queue["stt"] = {} /\ queue["enhancer"] = {} /\ queue["analytics"] = {}

\* With nothing before analytics or waiting there, the transcript is that of
\* the segments, or the worker who is about to store it has seen them all.
CaughtUp ==
  NothingDead /\ NothingBefore("analytics") /\ ~Unattended("analytics") =>
    /\ \A w \in Workers : Rebuilding(w) => job[w].view.segments = segments
    /\ (\A w \in Workers : ~Rebuilding(w)) => transcript = segments

\* With nothing waiting for analytics the files are what is or will be stored.
FilesFollow ==
  NothingDead /\ ~Unattended("analytics") =>
    /\ \A w \in Workers : At(w, "analytics", "sent") => files = job[w].view.segments
    /\ (\A w \in Workers : ~Rebuilding(w)) => files = transcript

\* With nothing before delivery or waiting there, the transcript is mailed and
\* the meeting done, or a worker who has loaded both is about to.
Delivered ==
  NothingDead /\ NothingBefore("delivery") /\ ~Unattended("delivery") =>
    /\ \A w \in Workers : Delivering(w) =>
         job[w].view.status = status /\ job[w].view.transcript = transcript
    /\ ~mailFailed => \A w \in Workers : At(w, "delivery", "sent") => mailed = transcript
    /\ (\A w \in Workers : ~Delivering(w)) =>
         /\ accepted # {} => status = "done"
         /\ ~mailFailed => mailed = transcript

RestInv ==
  /\ RowsInv /\ EntryHeld /\ EntriesIssued /\ TextsAccepted
  /\ RawIsDue /\ CaughtUp /\ FilesFollow /\ Delivered

\* What a task that leaves a stage leaves behind, if nothing is buried.
LEMMA EntryIsFollowed ==
  ASSUME TypeOK, EntriesIssued, [Next]_vars, NothingDead', NEW s \in Stages,
         NEW e \in queue[s], e \notin queue'[s]
  PROVE  \E w \in Workers : /\ StageOf[w] = s /\ job[w] # Idle /\ job[w].entry = e
            /\ \/ /\ Forward(w) /\ job[w].pc = "committed"
                  /\ s # "retention" =>
                       NewEntry(Successor[s], e[1]) \in queue'[Successor[s]] \ queue[Successor[s]]
               \/ Retry(w) /\ NewEntry(s, e[1]) \in queue'[s] \ queue[s]
  <1>1. PICK w \in Workers : /\ StageOf[w] = s /\ job[w] # Idle /\ job[w].entry = e
                             /\ Forward(w) \/ Retry(w) \/ Bury(w)
    BY EntryLeaves
  <1>2. Task(w) = e[1] /\ e[1] \in Chunks
    BY <1>1, BusyWorker DEF Task
  <1>3. \A z \in Stages : NewEntry(z, e[1]) \notin queue[z]
    <2> SUFFICES ASSUME NEW z \in Stages, NewEntry(z, e[1]) \in queue[z]
                 PROVE  FALSE
      OBVIOUS
    <2>1. NewEntry(z, e[1])[1] = e[1] /\ NewEntry(z, e[1])[2] = issued[z][e[1]] + 1
      BY DEF NewEntry
    <2>2. issued[z][e[1]] \in Nat /\ NewEntry(z, e[1])[2] <= issued[z][NewEntry(z, e[1])[1]]
      BY <1>2 DEF EntriesIssued, TypeOK
    <2> QED BY <2>1, <2>2
  <1>4. CASE Forward(w)
    <2>1. s # "retention" => Successor[s] \in Stages \ {s}
      BY OfferedTo
    <2>a. /\ job[w].pc = "committed"
          /\ \A z \in Stages \ {StageOf[w]} :
               queue'[z] = IF StageOf[w] # "retention" /\ z = Successor[StageOf[w]]
                           THEN queue[z] \cup {NewEntry(z, Task(w))} ELSE queue[z]
      BY <1>4, ForwardEffect
    <2>2. /\ job[w].pc = "committed"
          /\ \A z \in Stages \ {s} :
               queue'[z] = IF s # "retention" /\ z = Successor[s]
                           THEN queue[z] \cup {NewEntry(z, e[1])} ELSE queue[z]
      BY <1>1, <1>2, <2>a, Zenon
    <2> QED BY <1>1, <1>3, <1>4, <2>1, <2>2
  <1>5. CASE Retry(w)
    <2>1. Replace(s, e[1], {e})
      BY <1>1, <1>2, <1>5 DEF Retry
    <2>2. queue'[s] = (queue[s] \ {e}) \cup {NewEntry(s, e[1])}
      BY <1>2, <2>1, ReplaceEffect
    <2> QED BY <1>1, <1>3, <1>5, <2>2
  <1>6. ~Bury(w)
    BY <1>1, StageOfAssumption, ZenonT(60) DEF Bury, NothingDead, TypeOK
  <1> QED BY <1>1, <1>4, <1>5, <1>6

LEMMA NothingWasDead ==
  ASSUME TypeOK, [Next]_vars, NothingDead'
  PROVE  NothingDead
  <1>1. ASSUME NEW w \in Workers, Handles(w) \/ Forward(w)
        PROVE  dead' = dead
    BY <1>1, HandlesEffect, ForwardEffect DEF streamVars
  <1>2. ASSUME NEW w \in Workers, Bury(w)
        PROVE  FALSE
    BY <1>2, BusyWorker DEF Bury, NothingDead, TypeOK
  <1>3. dead' = dead
    BY <1>1, <1>2, StepCases DEF Accept, Take, Crash, Retry, vars, streamVars
  <1> QED BY <1>3 DEF NothingDead

LEMMA RawStep ==
  ASSUME TypeOK, EntryHeld, EntriesIssued, RawIsDue, [Next]_vars
  PROVE  RawIsDue'
  <1> SUFFICES ASSUME NothingDead', NEW c \in Chunks, segments'[c] = "raw"
               PROVE  c \in Queued("stt")' \/ \E e \in queue'["enhancer"] : ToEnhance(e, c)'
    BY DEF RawIsDue
  <1>0. "stt" \in Stages /\ "enhancer" \in Stages /\ Successor["stt"] = "enhancer"
    BY StageOrder DEF Stages
  <1>1. ASSUME NEW e \in queue'["enhancer"], e \notin queue["enhancer"], e[1] = c
        PROVE  ToEnhance(e, c)'
    BY <1>0, <1>1, EntryIsNew DEF ToEnhance
  <1>2. NewEntry("enhancer", c)[1] = c /\ NewEntry("stt", c)[1] = c
    BY DEF NewEntry
  <1> HIDE DEF NewEntry
  <1>3. CASE segments[c] # "raw"
    <2>1. PICK w \in Workers : CommitSTT(w) \/ CommitEnhancer(w)
      BY <1>3, SegmentsStep
    <2>2. CommitSTT(w)
      BY <1>3, <2>1 DEF CommitEnhancer
    <2>3. Task(w) = c /\ queue' = queue
      BY <1>3, <2>2 DEF CommitSTT, TypeOK, Texts, streamVars
    <2>4. job[w].entry \in queue["stt"]
      BY <2>2, AtPoint DEF CommitSTT, At, Points, EntryHeld
    <2> QED BY <2>3, <2>4 DEF Queued, Task
  <1>4. CASE segments[c] = "raw" /\ c \in Queued("stt")
    <2>1. PICK e \in queue["stt"] : e[1] = c
      BY <1>4 DEF Queued
    <2>2. CASE e \in queue'["stt"]
      BY <2>1, <2>2 DEF Queued
    <2>3. CASE e \notin queue'["stt"]
      <3>1. \/ NewEntry("enhancer", c) \in queue'["enhancer"] \ queue["enhancer"]
            \/ NewEntry("stt", c) \in queue'["stt"]
        BY <1>0, <2>1, <2>3, EntryIsFollowed
      <3> QED BY <1>1, <1>2, <3>1 DEF Queued
    <2> QED BY <2>2, <2>3
  <1>5. ASSUME segments[c] = "raw", NEW e \in queue["enhancer"], ToEnhance(e, c)
        PROVE  \E d \in queue'["enhancer"] : ToEnhance(d, c)'
    <2>1. CASE e \notin queue'["enhancer"]
      <3>1. PICK w \in Workers :
              /\ StageOf[w] = "enhancer" /\ job[w] # Idle /\ job[w].entry = e
              /\ \/ job[w].pc = "committed"
                 \/ NewEntry("enhancer", e[1]) \in queue'["enhancer"] \ queue["enhancer"]
        BY <1>0, <2>1, EntryIsFollowed
      <3>2. job[w].pc = "loaded" /\ e[1] = c
        BY <1>5, <3>1 DEF ToEnhance, Working
      <3> QED BY <1>1, <1>2, <3>1, <3>2
    <2>2. CASE e \in queue'["enhancer"]
      <3>1. ASSUME NEW v \in Working("enhancer")', job'[v].entry = e
            PROVE  job'[v].pc = "loaded" /\ job'[v].view.segments[c] = "raw"
        <4>1. v \in Workers /\ StageOf[v] = "enhancer" /\ job'[v] # Idle
          BY DEF Working
        <4>2. CASE Take(v) /\ job'[v].view = Loaded("enhancer") /\ job'[v].pc = "loaded"
          <5>1. Loaded("enhancer").segments = segments
            BY LoadedViews DEF NoView
          <5> QED BY <1>5, <4>2, <5>1
        <4>3. CASE /\ job[v] # Idle /\ job'[v].entry = job[v].entry /\ job'[v].view = job[v].view
                   /\ Handles(v) \/ job'[v] = job[v]
          <5>1. job[v].pc = "loaded" /\ job[v].view.segments[c] = "raw"
            BY <1>5, <3>1, <4>1, <4>3 DEF ToEnhance, Working
          <5>2. ~CommitEnhancer(v)
            BY <5>1 DEF CommitEnhancer
          <5>3. ~Handles(v)
            BY <4>1, <5>2 DEF Handles, At, CommitSTT, WriteFiles, CommitAnalytics, Mail,
                              CommitDelivery, CommitRetention
          <5> QED BY <4>3, <5>1, <5>3
        <4> QED BY <4>1, <4>2, <4>3, JobStep
      <3> QED BY <1>5, <2>2, <3>1 DEF ToEnhance
    <2> QED BY <2>1, <2>2
  <1> QED BY <1>3, <1>4, <1>5, NothingWasDead DEF RawIsDue

\* What is new to a stage is not attended to.
LEMMA NewIsUnattended ==
  ASSUME TypeOK, EntriesIssued, [Next]_vars, NEW s \in Stages,
         NEW e \in queue'[s], e \notin queue[s]
  PROVE  Unattended(s)'
  BY EntryIsNew DEF Unattended

\* A stage that has emptied has left something to the next one.
LEMMA StageEmptied ==
  ASSUME TypeOK, EntriesIssued, [Next]_vars, NothingDead',
         NEW s \in Stages \ {"retention"}, queue'[s] = {}, ~Unattended(Successor[s])'
  PROVE  queue[s] = {}
  <1> SUFFICES ASSUME NEW e \in queue[s]
               PROVE  FALSE
    OBVIOUS
  <1>1. \/ NewEntry(Successor[s], e[1]) \in queue'[Successor[s]] \ queue[Successor[s]]
        \/ NewEntry(s, e[1]) \in queue'[s]
    BY EntryIsFollowed
  <1>2. Successor[s] \in Stages
    BY OfferedTo
  <1> QED BY <1>1, <1>2, NewIsUnattended

LEMMA NothingWasBefore ==
  ASSUME TypeOK, EntriesIssued, [Next]_vars, NothingDead',
         NEW s \in {"analytics", "delivery"}, NothingBefore(s)', ~Unattended(s)'
  PROVE  NothingBefore(s)
  <1>1. \A z \in Stages : queue'[z] = {} => ~Unattended(z)'
    BY DEF Unattended
  <1>2. /\ "stt" \in Stages \ {"retention"} /\ "enhancer" \in Stages \ {"retention"}
        /\ "analytics" \in Stages \ {"retention"}
    BY DEF Stages
  <1>3. CASE s = "analytics"
    <2>1. queue'["stt"] = {} /\ queue'["enhancer"] = {}
      BY <1>3 DEF NothingBefore
    <2>2. queue["enhancer"] = {}
      BY <1>2, <1>3, <2>1, StageEmptied, StageOrder
    <2>3. queue["stt"] = {}
      BY <1>1, <1>2, <2>1, StageEmptied, StageOrder
    <2> QED BY <1>3, <2>2, <2>3 DEF NothingBefore
  <1>4. CASE s = "delivery"
    <2>1. queue'["stt"] = {} /\ queue'["enhancer"] = {} /\ queue'["analytics"] = {}
      BY <1>4 DEF NothingBefore
    <2>2. queue["analytics"] = {}
      BY <1>2, <1>4, <2>1, StageEmptied, StageOrder
    <2>3. queue["enhancer"] = {}
      BY <1>1, <1>2, <2>1, StageEmptied, StageOrder
    <2>4. queue["stt"] = {}
      BY <1>1, <1>2, <2>1, StageEmptied, StageOrder
    <2> QED BY <1>4, <2>2, <2>3, <2>4 DEF NothingBefore
  <1> QED BY <1>3, <1>4

\* How a step leaves nothing waiting for a stage that has one worker: the
\* worker takes what waits, or goes on with what it has, or others move.
LEMMA AttendedStep ==
  ASSUME OneOfEach, TypeOK, EntryHeld, EntriesIssued, [Next]_vars, NothingDead',
         NEW s \in {"analytics", "delivery"}, ~Unattended(s)'
  PROVE  \/ /\ ~Unattended(s)
            /\ \A v \in Workers : StageOf[v] = s => job'[v] = job[v]
         \/ \E w \in Workers : /\ StageOf[w] = s
                               /\ Take(w) \/ (~Unattended(s) /\ (Handles(w) \/ Forward(w)))
  <1>0. s \in Stages
    BY DEF Stages
  <1>1. CASE Unattended(s)
    <2>1. PICK e \in queue[s] : \A w \in Working(s) : job[w].entry # e
      BY <1>1 DEF Unattended
    <2>2. e \in queue'[s]
      BY <1>0, <2>1, EntryLeaves DEF Working
    <2>3. PICK w \in Working(s)' : job'[w].entry = e
      BY <2>2 DEF Unattended
    <2>4. w \in Workers /\ StageOf[w] = s /\ job'[w] # Idle
      BY <2>3 DEF Working
    <2>5. Take(w)
      BY <2>1, <2>3, <2>4, JobStep DEF Working
    <2> QED BY <2>4, <2>5
  <1>2. CASE ~Unattended(s)
    <2>1. ASSUME NEW w \in Workers, StageOf[w] = s, Crash(w)
          PROVE  FALSE
      <3>1. job[w].entry \in queue[s] /\ job' = [job EXCEPT ![w] = Idle] /\ queue' = queue
        BY <2>1 DEF Crash, EntryHeld, streamVars
      <3>2. \A v \in Workers : StageOf[v] = s => v = w
        BY <2>1 DEF OneOfEach
      <3>3. Working(s)' = {}
        BY <3>1, <3>2 DEF Working, TypeOK
      <3> QED BY <3>1, <3>3 DEF Unattended
    <2>2. ASSUME NEW w \in Workers, StageOf[w] = s, Retry(w)
          PROVE  FALSE
      <3>1. job[w].entry \in queue[s] /\ job' = [job EXCEPT ![w] = Idle]
            /\ Replace(s, Task(w), {job[w].entry}) /\ Task(w) \in Chunks
        BY <2>2, BusyWorker DEF Retry, EntryHeld
      <3>2. \A v \in Workers : StageOf[v] = s => v = w
        BY <2>2 DEF OneOfEach
      <3>3. Working(s)' = {}
        BY <3>1, <3>2 DEF Working, TypeOK
      <3>4. queue'[s] # {}
        BY <1>0, <3>1, ReplaceEffect
      <3> QED BY <3>3, <3>4 DEF Unattended
    <2>3. ASSUME NEW w \in Workers, Bury(w)
          PROVE  FALSE
      BY <2>3, BusyWorker DEF Bury, NothingDead, TypeOK
    <2>4. ASSUME NEW w \in Workers, StageOf[w] # s,
                 Take(w) \/ Handles(w) \/ Forward(w) \/ Crash(w) \/ Retry(w),
                 NEW v \in Workers, StageOf[v] = s
          PROVE  job'[v] = job[v]
      <3>1. v # w
        BY <2>4
      <3>2. CASE Take(w)
        <4>1. \E e : job' = [job EXCEPT ![w] = [pc |-> "loaded", entry |-> e, view |-> Loaded(StageOf[w])]]
          BY <3>2, TakeEffect
        <4> QED BY <3>1, <4>1 DEF TypeOK
      <3>3. CASE Handles(w)
        BY <3>1, <3>3, HandlesEffect
      <3>4. CASE Forward(w) \/ Crash(w) \/ Retry(w)
        <4>1. job' = [job EXCEPT ![w] = Idle]
          BY <3>4, ForwardEffect DEF Crash, Retry
        <4> QED BY <3>1, <4>1 DEF TypeOK
      <3> QED BY <2>4, <3>2, <3>3, <3>4
    <2>5. CASE (\E c \in Chunks : Accept(c)) \/ UNCHANGED vars
      BY <1>2, <2>5 DEF Accept, vars
    <2>6. ASSUME NEW w \in Workers,
                 Take(w) \/ Handles(w) \/ Forward(w) \/ Crash(w) \/ Retry(w) \/ Bury(w)
          PROVE  \/ \A v \in Workers : StageOf[v] = s => job'[v] = job[v]
                 \/ StageOf[w] = s /\ (Take(w) \/ Handles(w) \/ Forward(w))
      BY <2>1, <2>2, <2>3, <2>4, <2>6
    <2> QED BY <1>2, <2>5, <2>6, StepCases
  <1> QED BY <1>1, <1>2

\* Which steps write what a stage with one worker is about.
LEMMA WritersStep ==
  ASSUME TypeOK, [Next]_vars
  PROVE  /\ transcript' = transcript \/ \E w \in Workers : CommitAnalytics(w)
         /\ files' = files \/ \E w \in Workers : WriteFiles(w)
         /\ (mailed' = mailed /\ mailFailed' = mailFailed) \/ \E w \in Workers : Mail(w)
         /\ status' = status \/ \E w \in Workers : CommitSTT(w) \/ CommitAnalytics(w) \/ CommitDelivery(w)
  <1>1. ASSUME NEW w \in Workers, Forward(w)
        PROVE  UNCHANGED <<tableVars, outsideVars>>
    BY <1>1, ForwardEffect
  <1>2. ASSUME NEW w \in Workers, Take(w) \/ Crash(w) \/ Retry(w) \/ Bury(w)
        PROVE  UNCHANGED <<tableVars, outsideVars>>
    BY <1>2 DEF Take, Crash, Retry, Bury
  <1>3. ASSUME (\E c \in Chunks : Accept(c)) \/ UNCHANGED vars
        PROVE  UNCHANGED <<tableVars, outsideVars>>
    BY <1>3 DEF Accept, vars
  <1>4. ASSUME UNCHANGED <<tableVars, outsideVars>>
        PROVE  UNCHANGED <<transcript, files, mailed, mailFailed, status>>
    BY <1>4 DEF tableVars, outsideVars
  <1>5. ASSUME NEW w \in Workers, Handles(w)
        PROVE  /\ transcript' = transcript \/ CommitAnalytics(w)
               /\ files' = files \/ WriteFiles(w)
               /\ (mailed' = mailed /\ mailFailed' = mailFailed) \/ Mail(w)
               /\ status' = status \/ CommitSTT(w) \/ CommitAnalytics(w) \/ CommitDelivery(w)
    BY <1>5 DEF Handles, CommitSTT, CommitEnhancer, WriteFiles, CommitAnalytics, Mail,
          CommitDelivery, CommitRetention, tableVars, outsideVars
  <1> QED BY <1>1, <1>2, <1>3, <1>4, <1>5, StepCases

\* A worker that gets to its next point is not where it was.
LEMMA PointReached ==
  ASSUME TypeOK, NEW w \in Workers
  PROVE  /\ WriteFiles(w) => job'[w].pc = "sent" /\ job[w].pc = "loaded"
         /\ Mail(w) => job'[w].pc = "sent" /\ job[w].pc = "loaded"
         /\ CommitAnalytics(w) => job'[w].pc = "committed" /\ job[w].pc = "sent"
         /\ CommitDelivery(w) => job'[w].pc = "committed" /\ job[w].pc = "sent"
  <1>1. ASSUME job[w].pc \in Points, NEW p \in Points, Goto(w, p)
        PROVE  job'[w].pc = p
    <2>1. job[w] \in Job
      BY <1>1, AtPoint DEF TypeOK
    <2>2. job'[w] = [job[w] EXCEPT !.pc = p]
      BY <1>1 DEF Goto, TypeOK
    <2> QED BY <2>1, <2>2 DEF Job
  <1> QED
    BY <1>1 DEF WriteFiles, Mail, CommitAnalytics, CommitDelivery, At, Points

\* A worker at work in the stages before keeps its entry there.
LEMMA NobodyBefore ==
  ASSUME EntryHeld, NEW w \in Workers
  PROVE  /\ NothingBefore("analytics") => ~CommitSTT(w)
         /\ NothingBefore("delivery") => ~CommitSTT(w) /\ ~CommitAnalytics(w)
  BY AtPoint DEF EntryHeld, NothingBefore, CommitSTT, CommitAnalytics, At, Points

\* The segments rest when nothing is left to recognise or to enhance.
LEMMA SegmentsRest ==
  ASSUME RestInv, [Next]_vars, NothingDead', NothingBefore("analytics")
  PROVE  segments' = segments
  <1>1. TypeOK /\ segments \in Texts /\ EntryHeld
    BY DEF RestInv, RowsInv, StreamInv, TypeOK
  <1>2. queue["stt"] = {} /\ queue["enhancer"] = {}
    BY DEF NothingBefore
  <1>3. \A c \in Chunks : segments[c] # "raw"
    BY <1>1, <1>2, NothingWasDead DEF RestInv, RawIsDue, Queued
  <1>4. ASSUME NEW w \in Workers, CommitEnhancer(w)
        PROVE  segments' = segments
    <2>1. job[w] # Idle
      BY <1>4, AtPoint DEF CommitEnhancer, At, Points
    <2>2. \A c \in Chunks : job[w].view.segments[c] = "raw" => segments[c] = "enhanced"
      BY <1>1, <1>3, <2>1 DEF RestInv, TextsAccepted, Texts
    <2>3. segments' = [c \in Chunks |-> IF job[w].view.segments[c] = "raw" THEN "enhanced"
                                                                       ELSE segments[c]]
      BY <1>4 DEF CommitEnhancer
    <2>4. segments' = [c \in Chunks |-> segments[c]]
      BY <2>2, <2>3
    <2> QED BY <1>1, <2>4 DEF Texts
  <1> QED BY <1>1, <1>4, SegmentsStep, NobodyBefore

LEMMA CaughtUpStep ==
  ASSUME OneOfEach, RestInv, [Next]_vars
  PROVE  CaughtUp'
  <1> SUFFICES ASSUME NothingDead', NothingBefore("analytics")', ~Unattended("analytics")'
               PROVE  /\ \A w \in Workers : Rebuilding(w)' => job'[w].view.segments = segments'
                      /\ (\A w \in Workers : ~Rebuilding(w)') => transcript' = segments'
    BY DEF CaughtUp
  <1>0. TypeOK /\ EntryHeld /\ EntriesIssued
    BY DEF RestInv, RowsInv, StreamInv
  <1>1. NothingDead /\ NothingBefore("analytics")
    BY <1>0, NothingWasDead, NothingWasBefore
  <1>2. segments' = segments
    BY <1>1, SegmentsRest
  <1>3. ~Unattended("analytics") =>
          /\ \A w \in Workers : Rebuilding(w) => job[w].view.segments = segments
          /\ (\A w \in Workers : ~Rebuilding(w)) => transcript = segments
    BY <1>1 DEF RestInv, CaughtUp
  <1>4. ASSUME ~Unattended("analytics"),
               \A v \in Workers : StageOf[v] = "analytics" => job'[v] = job[v]
        PROVE  /\ \A w \in Workers : Rebuilding(w)' => job'[w].view.segments = segments'
               /\ (\A w \in Workers : ~Rebuilding(w)') => transcript' = segments'
    <2>1. ASSUME NEW w \in Workers, CommitAnalytics(w)
          PROVE  FALSE
      BY <1>0, <1>4, <2>1, PointReached DEF CommitAnalytics, At
    <2>2. transcript' = transcript
      BY <1>0, <2>1, WritersStep
    <2>3. \A w \in Workers : Rebuilding(w)' <=> Rebuilding(w)
      BY <1>4 DEF Rebuilding
    <2>4. \A w \in Workers : Rebuilding(w) => job'[w] = job[w]
      BY <1>4 DEF Rebuilding
    <2> QED BY <1>2, <1>3, <1>4, <2>2, <2>3, <2>4
  <1>5. ASSUME NEW w \in Workers, StageOf[w] = "analytics",
               Take(w) \/ (~Unattended("analytics") /\ (Handles(w) \/ Forward(w)))
        PROVE  /\ \A v \in Workers : Rebuilding(v)' => job'[v].view.segments = segments'
               /\ (\A v \in Workers : ~Rebuilding(v)') => transcript' = segments'
    <2>1. \A v \in Workers : Rebuilding(v) \/ Rebuilding(v)' => v = w
      BY <1>5 DEF Rebuilding, OneOfEach
    <2>2. CASE Take(w)
      <3>1. PICK e \in queue["analytics"] :
              job' = [job EXCEPT ![w] = [pc |-> "loaded", entry |-> e, view |-> Loaded("analytics")]]
        BY <1>0, <1>5, <2>2, TakeEffect
      <3>2. job'[w].view = Loaded("analytics") /\ job'[w].pc = "loaded"
        BY <1>0, <3>1 DEF TypeOK
      <3>3. Loaded("analytics").segments = segments
        BY LoadedViews
      <3>4. Rebuilding(w)'
        BY <1>5, <3>2 DEF Rebuilding
      <3> QED BY <1>2, <2>1, <3>2, <3>3, <3>4
    <2>3. CASE ~Unattended("analytics") /\ Handles(w)
      <3>1. WriteFiles(w) \/ CommitAnalytics(w)
        BY <1>5, <2>3 DEF Handles, At, CommitSTT, CommitEnhancer, Mail, CommitDelivery,
                          CommitRetention
      <3>2. job'[w].view = job[w].view
        BY <1>0, <2>3, HandlesEffect
      <3>3. Rebuilding(w)
        BY <1>0, <1>5, <3>1, PointReached DEF Rebuilding
      <3>4. job[w].view.segments = segments
        BY <1>3, <2>3, <3>3
      <3>5. CASE WriteFiles(w)
        <4>1. Rebuilding(w)'
          BY <1>0, <1>5, <3>5, PointReached DEF Rebuilding
        <4> QED BY <1>2, <2>1, <3>2, <3>4, <4>1
      <3>6. CASE CommitAnalytics(w)
        <4>1. ~Rebuilding(w)'
          BY <1>0, <3>6, PointReached DEF Rebuilding
        <4>2. job[w].view.transcript = transcript
          BY <3>3 DEF RestInv, RowsInv, NothingForgotten
        <4>3. transcript' = job[w].view.segments
          BY <3>6, <4>2 DEF CommitAnalytics, Store
        <4> QED BY <1>2, <2>1, <3>4, <4>1, <4>3
      <3> QED BY <3>1, <3>5, <3>6
    <2>4. CASE ~Unattended("analytics") /\ Forward(w)
      <3>1. job[w].pc = "committed" /\ job'[w] = Idle /\ UNCHANGED tableVars
        BY <1>0, <2>4, ForwardEffect DEF TypeOK
      <3>2. ~Rebuilding(w) /\ ~Rebuilding(w)'
        BY <3>1 DEF Rebuilding, Idle
      <3>3. transcript' = segments
        BY <1>3, <2>1, <2>4, <3>1, <3>2 DEF tableVars
      <3> QED BY <1>2, <2>1, <3>2, <3>3
    <2> QED BY <1>5, <2>2, <2>3, <2>4
  <1> QED BY <1>0, <1>4, <1>5, AttendedStep

LEMMA FilesStep ==
  ASSUME OneOfEach, RestInv, [Next]_vars
  PROVE  FilesFollow'
  <1> SUFFICES ASSUME NothingDead', ~Unattended("analytics")'
               PROVE  /\ \A w \in Workers : At(w, "analytics", "sent")' => files' = job'[w].view.segments
                      /\ (\A w \in Workers : ~Rebuilding(w)') => files' = transcript'
    BY DEF FilesFollow
  <1>0. TypeOK /\ EntryHeld /\ EntriesIssued
    BY DEF RestInv, RowsInv, StreamInv
  <1>1. ~Unattended("analytics") =>
          /\ \A w \in Workers : At(w, "analytics", "sent") => files = job[w].view.segments
          /\ (\A w \in Workers : ~Rebuilding(w)) => files = transcript
    BY <1>0, NothingWasDead DEF RestInv, FilesFollow
  <1>2. ASSUME ~Unattended("analytics"),
               \A v \in Workers : StageOf[v] = "analytics" => job'[v] = job[v]
        PROVE  /\ \A w \in Workers : At(w, "analytics", "sent")' => files' = job'[w].view.segments
               /\ (\A w \in Workers : ~Rebuilding(w)') => files' = transcript'
    <2>1. ASSUME NEW w \in Workers, CommitAnalytics(w) \/ WriteFiles(w)
          PROVE  FALSE
      BY <1>0, <1>2, <2>1, PointReached DEF CommitAnalytics, WriteFiles, At
    <2>2. transcript' = transcript /\ files' = files
      BY <1>0, <2>1, WritersStep
    <2>3. \A w \in Workers : /\ Rebuilding(w)' <=> Rebuilding(w)
                             /\ At(w, "analytics", "sent")' => At(w, "analytics", "sent") /\ job'[w] = job[w]
      BY <1>2 DEF Rebuilding, At
    <2> QED BY <1>1, <1>2, <2>2, <2>3
  <1>3. ASSUME NEW w \in Workers, StageOf[w] = "analytics",
               Take(w) \/ (~Unattended("analytics") /\ (Handles(w) \/ Forward(w)))
        PROVE  /\ \A v \in Workers : At(v, "analytics", "sent")' => files' = job'[v].view.segments
               /\ (\A v \in Workers : ~Rebuilding(v)') => files' = transcript'
    <2>1. \A v \in Workers : Rebuilding(v) \/ At(v, "analytics", "sent")' => v = w
      BY <1>3 DEF Rebuilding, OneOfEach, At
    <2>2. CASE Take(w)
      <3>1. PICK e \in queue["analytics"] :
              job' = [job EXCEPT ![w] = [pc |-> "loaded", entry |-> e, view |-> Loaded("analytics")]]
        BY <1>0, <1>3, <2>2, TakeEffect
      <3>2. job'[w].pc = "loaded"
        BY <1>0, <3>1 DEF TypeOK
      <3>3. Rebuilding(w)' /\ ~At(w, "analytics", "sent")'
        BY <1>3, <3>2 DEF Rebuilding, At
      <3> QED BY <2>1, <3>3
    <2>3. CASE ~Unattended("analytics") /\ WriteFiles(w)
      <3>1. job'[w].pc = "sent" /\ files' = job[w].view.segments
        BY <1>0, <2>3, PointReached DEF WriteFiles
      <3>2. Rebuilding(w)' /\ job'[w].view = job[w].view
        BY <1>0, <1>3, <2>3, <3>1, HandlesEffect DEF Rebuilding, Handles
      <3> QED BY <2>1, <3>1, <3>2
    <2>4. CASE ~Unattended("analytics") /\ CommitAnalytics(w)
      <3>1. job'[w].pc = "committed" /\ At(w, "analytics", "sent") /\ Rebuilding(w)
        BY <1>0, <2>4, PointReached DEF CommitAnalytics, Rebuilding, At
      <3>2. job[w].view.transcript = transcript
        BY <3>1 DEF RestInv, RowsInv, NothingForgotten
      <3>3. transcript' = job[w].view.segments /\ files' = files
        BY <2>4, <3>2 DEF CommitAnalytics, Store, outsideVars
      <3>4. ~At(w, "analytics", "sent")'
        BY <3>1 DEF At
      <3> QED BY <1>1, <2>1, <2>4, <3>1, <3>3, <3>4
    <2>5. CASE ~Unattended("analytics") /\ Forward(w)
      <3>1. job[w].pc = "committed" /\ job'[w] = Idle /\ UNCHANGED <<tableVars, outsideVars>>
        BY <1>0, <2>5, ForwardEffect DEF TypeOK
      <3>2. ~Rebuilding(w) /\ ~At(w, "analytics", "sent")'
        BY <3>1 DEF Rebuilding, At, Idle
      <3>3. files' = transcript'
        BY <1>1, <2>1, <2>5, <3>1, <3>2 DEF tableVars, outsideVars
      <3> QED BY <2>1, <3>2, <3>3
    <2>6. Handles(w) => WriteFiles(w) \/ CommitAnalytics(w)
      BY <1>3 DEF Handles, At, CommitSTT, CommitEnhancer, Mail, CommitDelivery, CommitRetention
    <2> QED BY <1>3, <2>2, <2>3, <2>4, <2>5, <2>6
  <1> QED BY <1>0, <1>2, <1>3, AttendedStep

LEMMA DeliveredStep ==
  ASSUME OneOfEach, RestInv, [Next]_vars
  PROVE  Delivered'
  <1> SUFFICES ASSUME NothingDead', NothingBefore("delivery")', ~Unattended("delivery")'
               PROVE  /\ \A v \in Workers : Delivering(v)' =>
                           job'[v].view.status = status' /\ job'[v].view.transcript = transcript'
                      /\ ~mailFailed' => \A v \in Workers : At(v, "delivery", "sent")' => mailed' = transcript'
                      /\ (\A v \in Workers : ~Delivering(v)') =>
                           /\ accepted' # {} => status' = "done"
                           /\ ~mailFailed' => mailed' = transcript'
    BY DEF Delivered
  <1>0. TypeOK /\ EntryHeld /\ EntriesIssued
    BY DEF RestInv, RowsInv, StreamInv
  <1>1. NothingDead /\ NothingBefore("delivery")
    BY <1>0, NothingWasDead, NothingWasBefore
  <1>2. /\ transcript' = transcript
        /\ status' = status \/ \E w \in Workers : CommitDelivery(w)
    BY <1>0, <1>1, WritersStep, NobodyBefore
  <1>3. accepted' = accepted
    <2>1. ASSUME NEW c \in Chunks, Accept(c)
          PROVE  FALSE
      <3>1. Replace("stt", c, {}) /\ "stt" \in Stages
        BY <2>1 DEF Accept, Stages
      <3>2. queue'["stt"] # {}
        BY <1>0, <3>1, ReplaceEffect
      <3> QED BY <3>2 DEF NothingBefore
    <2>2. ASSUME NEW w \in Workers, Handles(w) \/ Forward(w)
          PROVE  accepted' = accepted
      BY <1>0, <2>2, HandlesEffect, ForwardEffect DEF streamVars
    <2> QED BY <2>1, <2>2, StepCases DEF Take, Crash, Retry, Bury, vars, streamVars
  <1>4. ~Unattended("delivery") =>
          /\ \A v \in Workers : Delivering(v) =>
               job[v].view.status = status /\ job[v].view.transcript = transcript
          /\ ~mailFailed => \A v \in Workers : At(v, "delivery", "sent") => mailed = transcript
          /\ (\A v \in Workers : ~Delivering(v)) =>
               /\ accepted # {} => status = "done"
               /\ ~mailFailed => mailed = transcript
    BY <1>1 DEF RestInv, Delivered
  <1>5. ASSUME ~Unattended("delivery"),
               \A v \in Workers : StageOf[v] = "delivery" => job'[v] = job[v]
        PROVE  /\ \A v \in Workers : Delivering(v)' =>
                    job'[v].view.status = status' /\ job'[v].view.transcript = transcript'
               /\ ~mailFailed' => \A v \in Workers : At(v, "delivery", "sent")' => mailed' = transcript'
               /\ (\A v \in Workers : ~Delivering(v)') =>
                    /\ accepted' # {} => status' = "done"
                    /\ ~mailFailed' => mailed' = transcript'
    <2>1. ASSUME NEW w \in Workers, CommitDelivery(w) \/ Mail(w)
          PROVE  FALSE
      BY <1>0, <1>5, <2>1, PointReached DEF CommitDelivery, Mail, At
    <2>2. status' = status /\ mailed' = mailed /\ mailFailed' = mailFailed
      BY <1>0, <1>2, <2>1, WritersStep
    <2>3. \A v \in Workers : /\ Delivering(v)' <=> Delivering(v)
                             /\ Delivering(v) => job'[v] = job[v]
                             /\ At(v, "delivery", "sent")' => At(v, "delivery", "sent")
      BY <1>5 DEF Delivering, At
    <2> QED BY <1>2, <1>3, <1>4, <1>5, <2>2, <2>3
  <1>6. ASSUME NEW w \in Workers, StageOf[w] = "delivery",
               Take(w) \/ (~Unattended("delivery") /\ (Handles(w) \/ Forward(w)))
        PROVE  /\ \A v \in Workers : Delivering(v)' =>
                    job'[v].view.status = status' /\ job'[v].view.transcript = transcript'
               /\ ~mailFailed' => \A v \in Workers : At(v, "delivery", "sent")' => mailed' = transcript'
               /\ (\A v \in Workers : ~Delivering(v)') =>
                    /\ accepted' # {} => status' = "done"
                    /\ ~mailFailed' => mailed' = transcript'
    <2>1. \A v \in Workers : Delivering(v) \/ Delivering(v)' \/ At(v, "delivery", "sent")' => v = w
      BY <1>6 DEF Delivering, OneOfEach, At
    <2>2. CASE Take(w)
      <3>1. PICK e \in queue["delivery"] :
              /\ job' = [job EXCEPT ![w] = [pc |-> "loaded", entry |-> e, view |-> Loaded("delivery")]]
              /\ UNCHANGED tableVars
        BY <1>0, <1>6, <2>2, TakeEffect
      <3>2. job'[w].pc = "loaded" /\ job'[w].view = Loaded("delivery")
        BY <1>0, <3>1 DEF TypeOK
      <3>3. Delivering(w)' /\ ~At(w, "delivery", "sent")'
        BY <1>6, <3>2 DEF Delivering, At
      <3>4. Loaded("delivery").status = status /\ Loaded("delivery").transcript = transcript
        BY LoadedViews DEF NoView
      <3> QED BY <2>1, <3>1, <3>2, <3>3, <3>4 DEF tableVars
    <2>3. CASE ~Unattended("delivery") /\ Mail(w)
      <3>1. /\ job'[w].pc = "sent" /\ Delivering(w) /\ job'[w].view = job[w].view
            /\ UNCHANGED tableVars
        BY <1>0, <1>6, <2>3, PointReached, HandlesEffect DEF Delivering, Handles, Mail
      <3>2. Delivering(w)'
        BY <1>6, <3>1 DEF Delivering
      <3>3. job[w].view.status = status /\ job[w].view.transcript = transcript
        BY <1>4, <2>3, <3>1
      <3>4. ~mailFailed' => mailed' = job[w].view.transcript
        BY <2>3 DEF Mail
      <3> QED BY <2>1, <3>1, <3>2, <3>3, <3>4 DEF tableVars
    <2>4. CASE ~Unattended("delivery") /\ CommitDelivery(w)
      <3>1. /\ job'[w].pc = "committed" /\ Delivering(w) /\ At(w, "delivery", "sent")
            /\ UNCHANGED outsideVars
        BY <1>0, <2>4, PointReached DEF Delivering, CommitDelivery, At
      <3>2. ~Delivering(w)' /\ ~At(w, "delivery", "sent")'
        BY <3>1 DEF Delivering, At
      <3>3. job[w].view.status = status
        BY <1>4, <2>4, <3>1
      <3>4. status' = "done"
        BY <2>4, <3>3 DEF CommitDelivery, Store
      <3>5. ~mailFailed' => mailed' = transcript'
        BY <1>2, <1>4, <2>4, <3>1 DEF outsideVars
      <3> QED BY <2>1, <3>2, <3>4, <3>5
    <2>5. CASE ~Unattended("delivery") /\ Forward(w)
      <3>1. job[w].pc = "committed" /\ job'[w] = Idle /\ UNCHANGED <<tableVars, outsideVars>>
        BY <1>0, <2>5, ForwardEffect DEF TypeOK
      <3>2. ~Delivering(w) /\ ~Delivering(w)' /\ ~At(w, "delivery", "sent")'
        BY <3>1 DEF Delivering, At, Idle
      <3>3. UNCHANGED <<status, transcript, mailed, mailFailed>>
        BY <3>1 DEF tableVars, outsideVars
      <3> QED BY <1>3, <1>4, <2>1, <2>5, <3>2, <3>3
    <2>6. Handles(w) => Mail(w) \/ CommitDelivery(w)
      BY <1>6 DEF Handles, At, CommitSTT, CommitEnhancer, WriteFiles, CommitAnalytics,
                  CommitRetention
    <2> QED BY <1>6, <2>2, <2>3, <2>4, <2>5, <2>6
  <1> QED BY <1>0, <1>5, <1>6, AttendedStep

\* A meeting's pipeline at rest with nothing buried is complete (apps/worker_*):
\* all accepted chunks are in the transcript, enhanced, the files and the last
\* mail say the same and the meeting is done.  Any number of enhancers may run.
THEOREM RestIsComplete ==
  ASSUME OneOfEach
  PROVE  Spec => []QuietMeansComplete
  <1>0. OneRebuilds
    BY DEF OneOfEach, OneRebuilds
  <1>1. Init => EntryHeld /\ EntriesIssued /\ TextsAccepted /\ RawIsDue
    BY StageOfAssumption DEF Init, EntryHeld, EntriesIssued, TextsAccepted, RawIsDue, Working,
       Idle, NoText
  <1>2. Init => CaughtUp /\ FilesFollow /\ Delivered
    BY DEF Init, CaughtUp, FilesFollow, Delivered, Rebuilding, Delivering, At, Idle
  <1>3. RestInv /\ [Next]_vars /\ RowsInv' => RestInv'
    <2> SUFFICES ASSUME RestInv, [Next]_vars, RowsInv'
                 PROVE  RestInv'
      OBVIOUS
    <2>0. TypeOK /\ StreamInv /\ EntryHeld /\ EntriesIssued /\ TextsAccepted /\ RawIsDue
      BY DEF RestInv, RowsInv, StreamInv
    <2>1. EntryHeld' /\ EntriesIssued' /\ TextsAccepted' /\ RawIsDue'
      BY <2>0, EntriesStep, TextsStep, RawStep
    <2> QED BY <2>1, CaughtUpStep, FilesStep, DeliveredStep DEF RestInv
  <1>4. RestInv => QuietMeansComplete
    <2> SUFFICES ASSUME RestInv, Quiet, NothingDead, accepted # {}
                 PROVE  /\ transcript = [c \in Chunks |-> IF c \in accepted THEN "enhanced" ELSE "none"]
                        /\ segments = transcript /\ files = transcript /\ status = "done"
                        /\ ~mailFailed => mailed = transcript
      BY DEF QuietMeansComplete
    <2>1. \A s \in Stages : queue[s] = {} /\ Working(s) = {}
      BY DEF Quiet, Live
    <2>2. /\ NothingBefore("analytics") /\ NothingBefore("delivery")
          /\ ~Unattended("analytics") /\ ~Unattended("delivery")
      BY <2>1 DEF NothingBefore, Unattended, Stages
    <2>3. \A w \in Workers : job[w] = Idle
      BY <2>1, StageOfAssumption DEF Working
    <2>4. \A w \in Workers : ~Rebuilding(w) /\ ~Delivering(w)
      BY <2>3 DEF Rebuilding, Delivering, Idle
    <2>5. transcript = segments /\ files = transcript
      BY <2>2, <2>4 DEF RestInv, CaughtUp, FilesFollow
    <2>6. status = "done" /\ (~mailFailed => mailed = transcript)
      BY <2>2, <2>4 DEF RestInv, Delivered
    <2>7. ASSUME NEW c \in Chunks
          PROVE  segments[c] = IF c \in accepted THEN "enhanced" ELSE "none"
      <3>1. segments[c] \in {"none", "raw", "enhanced"}
        BY DEF RestInv, RowsInv, StreamInv, TypeOK, Texts
      <3>2. segments[c] # "raw"
        BY <2>1 DEF RestInv, RawIsDue, Queued, Stages
      <3>3. c \in accepted => segments[c] # "none"
        <4>1. c \in accepted => c \in Queued("stt") \cup handed["stt"] \cup dead["stt"]
          BY OfferedTo DEF RestInv, RowsInv, StreamInv, NothingDropped, Stages
        <4> QED BY <2>1, <4>1 DEF RestInv, RowsInv, HandedIsStored, NothingDead, Queued, Stages
      <3>4. segments[c] # "none" => c \in accepted
        BY DEF RestInv, TextsAccepted
      <3> QED BY <3>1, <3>2, <3>3, <3>4
    <2>8. segments = [c \in Chunks |-> IF c \in accepted THEN "enhanced" ELSE "none"]
      <3>1. segments = [c \in Chunks |-> segments[c]]
        BY DEF RestInv, RowsInv, StreamInv, TypeOK, Texts
      <3> QED BY <2>7, <3>1
    <2> QED BY <2>5, <2>6, <2>8
  <1> QED BY <1>0, <1>1, <1>2, <1>3, <1>4, RowsCorrect, PTL DEF Spec, RestInv
=============================================================================
