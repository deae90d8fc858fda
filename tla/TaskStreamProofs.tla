-------------------------- MODULE TaskStreamProofs --------------------------
(***************************************************************************)
(* TaskStream for every set of tasks and workers, every number of attempts *)
(* and of faults: type correctness, no enqueued task is lost, a task is    *)
(* dead-lettered only after its retries, the stream implements the promise *)
(* of AtLeastOnce, and duplicates of a task come from faults only.         *)
(***************************************************************************)
EXTENDS TaskStream, SequenceTheorems, FiniteSetTheorems, TLAPS

-----------------------------------------------------------------------------
(* Appending an entry leaves the old positions alone.                      *)

LEMMA AppendEntry ==
  ASSUME log \in Seq(Entry), NEW e \in Entry, log' = Append(log, e)
  PROVE  /\ log' \in Seq(Entry)
         /\ Len(log) \in Nat
         /\ Len(log') = Len(log) + 1
         /\ \A i \in 1..Len(log) : log'[i] = log[i]
         /\ log'[Len(log) + 1] = e
  BY AppendProperties

\* What a worker that holds an entry may rely on.
LEMMA HeldEntry ==
  ASSUME TypeOK, NEW c \in Consumers, pc[c] \in Holding
  PROVE  /\ entry[c] \in Positions
         /\ entry[c] <= delivered
         /\ log[entry[c]] \in Entry
         /\ Task(c) \in offered
         /\ Task(c) \in Tasks
  <1>1. /\ entry[c] \in 1..delivered
        /\ delivered \in 0..Len(log)
        /\ Len(log) \in Nat
    BY DEF TypeOK
  <1>2. entry[c] \in Positions
    BY <1>1 DEF Positions
  <1>3. log[entry[c]] \in Entry
    BY <1>2, ElementOfSeq DEF TypeOK, Positions
  <1> QED
    BY <1>1, <1>2, <1>3 DEF TypeOK, Task, TaskOf

\* Letting go of an entry takes at most that entry out of Held.
LEMMA HeldAfterRelease ==
  ASSUME TypeOK, NEW c \in Consumers, pc[c] \in Holding, Release(c)
  PROVE  Held' \subseteq Held /\ Held \subseteq Held' \cup {entry[c]}
  <1>1. /\ pc' = [pc EXCEPT ![c] = "poll"]
        /\ entry' = [entry EXCEPT ![c] = 0]
        /\ pc \in [Consumers -> Points] /\ entry \in [Consumers -> 0..delivered]
    BY DEF Release, Goto, TypeOK
  <1>2. \A d \in Consumers : d # c => pc'[d] = pc[d] /\ entry'[d] = entry[d]
    BY <1>1
  <1>3. pc'[c] \notin Holding
    BY <1>1 DEF Holding
  <1> QED BY <1>2, <1>3 DEF Held

-----------------------------------------------------------------------------
(* Type correctness.                                                       *)

\* requeue_with_backoff appends a well-formed entry or none.
LEMMA PutBackTyped ==
  ASSUME TypeOK, NEW c \in Consumers, pc[c] \in Holding, PutBack(c)
  PROVE  /\ log' \in Seq(Entry)
         /\ Len(log) \in Nat
         /\ Len(log') \in Nat
         /\ Len(log) <= Len(log')
         /\ \A i \in 1..Len(log') : log'[i].task \in offered
         /\ burials' \in [Tasks -> Nat]
         /\ \A i \in Positions : log'[i] = log[i]
  <1>1. Task(c) \in offered /\ Task(c) \in Tasks /\ log[entry[c]] \in Entry
    BY HeldEntry
  <1>2. Attempts(c) \in Nat
    BY <1>1, MaxAttemptsAssumption DEF Attempts, Entry
  <1>3. log \in Seq(Entry) /\ Len(log) \in Nat /\ burials \in [Tasks -> Nat]
    BY DEF TypeOK
  <1>4. \A i \in 1..Len(log) : log[i].task \in offered
    BY DEF TypeOK, Positions, TaskOf
  <1>5. CASE Attempts(c) > MaxAttempts
    <2>1. log' = log /\ burials' = [burials EXCEPT ![Task(c)] = @ + 1]
      BY <1>5 DEF PutBack, PutBackBy, Count
    <2> QED BY <2>1, <1>1, <1>3, <1>4 DEF Positions
  <1>6. CASE ~(Attempts(c) > MaxAttempts)
    <2> DEFINE e == [task |-> Task(c), attempts |-> Attempts(c)]
    <2>1. e \in Entry
      BY <1>1, <1>2, <1>6, MaxAttemptsAssumption DEF Entry
    <2>2. log' = Append(log, e) /\ burials' = burials
      BY <1>6 DEF PutBack, PutBackBy
    <2>3. e.task \in offered
      BY <1>1
    <2> HIDE DEF e
    <2>4. /\ log' \in Seq(Entry)
          /\ Len(log') = Len(log) + 1
          /\ \A i \in 1..Len(log) : log'[i] = log[i]
          /\ log'[Len(log) + 1] = e
      BY <2>1, <2>2, <1>3, AppendEntry
    <2> QED BY <2>2, <2>3, <2>4, <1>3, <1>4 DEF Positions
  <1> QED BY <1>5, <1>6

LEMMA TypeStep == TypeOK /\ [Next]_vars => TypeOK'
  <1> SUFFICES ASSUME TypeOK, [Next]_vars PROVE TypeOK'
    OBVIOUS
  <1> USE DEF TypeOK, Positions, TaskOf
  <1>1. ASSUME NEW t \in Tasks, Offer(t) PROVE TypeOK'
    <2> DEFINE e == [task |-> t, attempts |-> 0]
    <2>1. e \in Entry /\ e.task = t
      BY MaxAttemptsAssumption DEF Entry
    <2>2. log' = Append(log, e)
      BY <1>1 DEF Offer
    <2> HIDE DEF e
    <2>3. /\ log' \in Seq(Entry)
          /\ Len(log) \in Nat
          /\ Len(log') = Len(log) + 1
          /\ \A i \in 1..Len(log) : log'[i] = log[i]
          /\ log'[Len(log) + 1] = e
      BY <2>1, <2>2, AppendEntry
    <2>4. \A i \in 1..Len(log') : log'[i].task \in offered'
      BY <2>1, <2>3, <1>1 DEF Offer
    <2> QED BY <1>1, <2>3, <2>4 DEF Offer, workerVars
  <1>2. ASSUME NEW i \in pel, GoStale(i) PROVE TypeOK'
    BY <1>2 DEF GoStale, workerVars, outcomeVars
  <1>3. ASSUME NEW i \in pel, OutlastClaim(i) PROVE TypeOK'
    BY <1>3, MaxFaultsAssumption DEF OutlastClaim, Fault, workerVars, outcomeVars
  <1>4. ASSUME NEW c \in Consumers, ClaimStale(c) PROVE TypeOK'
    BY <1>4 DEF ClaimStale, Hold, Goto, outcomeVars, Points, Holding
  <1>5. ASSUME NEW c \in Consumers, NothingStale(c) PROVE TypeOK'
    BY <1>5 DEF NothingStale, Goto, queueVars, outcomeVars, Points, Holding
  <1>6. ASSUME NEW c \in Consumers, ReadNew(c) PROVE TypeOK'
    BY <1>6 DEF ReadNew, Hold, Goto, outcomeVars, Points, Holding
  <1>7. ASSUME NEW c \in Consumers, NothingNew(c) PROVE TypeOK'
    BY <1>7 DEF NothingNew, Goto, queueVars, outcomeVars, Points, Holding
  <1>8. ASSUME NEW c \in Consumers, Handled(c) PROVE TypeOK'
    BY <1>8 DEF Handled, Goto, queueVars, outcomeVars, Points, Holding
  <1>9. ASSUME NEW c \in Consumers, Raised(c) PROVE TypeOK'
    <2>1. Task(c) \in Tasks
      BY <1>9, HeldEntry DEF Raised, Holding
    <2>2. pc[c] \in Holding /\ UNCHANGED <<queueVars, entry, offered, burials>>
      BY <1>9 DEF Raised, Holding
    <2>3. pc' \in [Consumers -> Points] /\ \A d \in Consumers : pc'[d] \in Holding <=> pc[d] \in Holding
      BY <1>9, <2>2 DEF Raised, Goto, Points, Holding
    <2>4. /\ forwards' \in [Tasks -> Nat]
          /\ failures' \in [Tasks -> Nat]
          /\ faults' \in 0..MaxFaults
      BY <1>9, <2>1 DEF Raised, Count, Fault
    <2> QED BY <2>2, <2>3, <2>4 DEF queueVars
  <1>10. ASSUME NEW c \in Consumers, Forward(c) PROVE TypeOK'
    <2>1. Task(c) \in Tasks
      BY <1>10, HeldEntry DEF Forward, Holding
    <2>2. pc[c] \in Holding /\ UNCHANGED <<queueVars, entry, offered, burials>>
      BY <1>10 DEF Forward, Holding
    <2>3. pc' \in [Consumers -> Points] /\ \A d \in Consumers : pc'[d] \in Holding <=> pc[d] \in Holding
      BY <1>10, <2>2 DEF Forward, Goto, Points, Holding
    <2>4. /\ forwards' \in [Tasks -> Nat]
          /\ failures' \in [Tasks -> Nat]
          /\ faults' \in 0..MaxFaults
      BY <1>10, <2>1 DEF Forward, Count, Fault
    <2> QED BY <2>2, <2>3, <2>4 DEF queueVars
  <1>11. ASSUME NEW c \in Consumers, ForwardReplyLost(c) PROVE TypeOK'
    <2>1. Task(c) \in Tasks
      BY <1>11, HeldEntry DEF ForwardReplyLost, Holding
    <2>2. pc[c] \in Holding /\ UNCHANGED <<queueVars, entry, offered, burials>>
      BY <1>11 DEF ForwardReplyLost, Holding
    <2>3. pc' \in [Consumers -> Points] /\ \A d \in Consumers : pc'[d] \in Holding <=> pc[d] \in Holding
      BY <1>11, <2>2 DEF ForwardReplyLost, Goto, Points, Holding
    <2>4. /\ forwards' \in [Tasks -> Nat]
          /\ failures' \in [Tasks -> Nat]
          /\ faults' \in 0..MaxFaults
      BY <1>11, <2>1, MaxFaultsAssumption DEF ForwardReplyLost, Count, Fault
    <2> QED BY <2>2, <2>3, <2>4 DEF queueVars
  <1>12. ASSUME NEW c \in Consumers, Requeue(c) PROVE TypeOK'
    <2>1. PutBack(c) /\ pc[c] \in Holding
      BY <1>12 DEF Requeue, Holding
    <2> QED BY <1>12, <2>1, PutBackTyped DEF Requeue, Goto, Points, Holding
  <1>13. ASSUME NEW c \in Consumers, RequeueFailed(c) PROVE TypeOK'
    BY <1>13, MaxFaultsAssumption
       DEF RequeueFailed, Fault, Release, Goto, queueVars, outcomeVars, Points, Holding
  <1>14. ASSUME NEW c \in Consumers, RequeueReplyLost(c) PROVE TypeOK'
    <2>1. PutBack(c) /\ pc[c] \in Holding
      BY <1>14 DEF RequeueReplyLost, Holding
    <2> QED BY <1>14, <2>1, PutBackTyped, MaxFaultsAssumption
            DEF RequeueReplyLost, Fault, Release, Goto, Points, Holding
  <1>15. ASSUME NEW c \in Consumers, Ack(c) PROVE TypeOK'
    <2>1. /\ pel' \subseteq 1..delivered
          /\ stale' \subseteq pel'
      BY <1>15 DEF Ack
    <2>2. /\ entry' = [entry EXCEPT ![c] = 0]
          /\ pc' = [pc EXCEPT ![c] = "poll"]
          /\ UNCHANGED <<log, delivered, outcomeVars, faults>>
      BY <1>15 DEF Ack, Release, Goto
    <2>3. /\ pc' \in [Consumers -> Points]
          /\ entry' \in [Consumers -> 0..delivered]
          /\ \A d \in Consumers : pc'[d] \in Holding <=> entry'[d] # 0
      BY <2>2 DEF Points, Holding
    <2> QED BY <2>1, <2>2, <2>3 DEF outcomeVars
  <1>16. ASSUME NEW c \in Consumers, AckFailed(c) PROVE TypeOK'
    BY <1>16, MaxFaultsAssumption
       DEF AckFailed, Fault, Release, Goto, queueVars, outcomeVars, Points, Holding
  <1>17. ASSUME NEW c \in Consumers, Crash(c) PROVE TypeOK'
    BY <1>17, MaxFaultsAssumption
       DEF Crash, Fault, Release, Goto, queueVars, outcomeVars, Points, Holding
  <1>18. CASE UNCHANGED vars
    BY <1>18 DEF vars, queueVars, workerVars, outcomeVars
  <1> QED
    BY <1>1, <1>2, <1>3, <1>4, <1>5, <1>6, <1>7, <1>8, <1>9, <1>10, <1>11,
       <1>12, <1>13, <1>14, <1>15, <1>16, <1>17, <1>18
       DEF Next, Step, FaultyStep

\* The stream, its consumer group and the worker loops keep their types:
\* the group never points past the stream, pending entries were delivered,
\* and a worker holds an entry exactly while its loop body runs.
THEOREM TypeCorrect == Spec => []TypeOK
  <1>1. Init => TypeOK
    BY MaxFaultsAssumption
       DEF Init, TypeOK, Positions, Points, Holding
  <1> QED BY <1>1, TypeStep, PTL DEF Spec

-----------------------------------------------------------------------------
(* No task is lost.                                                        *)

NoLossInv == TypeOK /\ NoTaskLost /\ AckIsSafe

\* A step that acknowledges nothing keeps whatever was safe.
LEMMA SafetyKept ==
  ASSUME TypeOK, TypeOK',
         Len(log) <= Len(log'),
         \A i \in Positions : log'[i] = log[i],
         \A i \in Outstanding : i > delivered' \/ i \in pel',
         \A t \in Tasks : forwards'[t] >= forwards[t] /\ burials'[t] >= burials[t],
         NEW t \in Tasks, NEW k \in Nat, SafeFrom(t, k)
  PROVE  SafeFrom(t, k)'
  <1>0. /\ Len(log) \in Nat
        /\ Len(log') \in Nat
        /\ forwards \in [Tasks -> Nat] /\ forwards' \in [Tasks -> Nat]
        /\ burials \in [Tasks -> Nat] /\ burials' \in [Tasks -> Nat]
    BY DEF TypeOK
  <1>1. CASE t \in Settled
    <2>1. t \in Settled'
      BY <1>0, <1>1 DEF Settled
    <2> QED BY <2>1 DEF SafeFrom
  <1>2. CASE \E i \in Outstanding : i > k /\ TaskOf(i) = t
    <2>1. PICK i \in Outstanding : i > k /\ TaskOf(i) = t
      BY <1>2
    <2>2. i \in Outstanding'
      BY <2>1, <1>0 DEF Outstanding, Positions
    <2>3. TaskOf(i)' = t
      BY <2>1 DEF Outstanding, TaskOf
    <2> QED BY <2>1, <2>2, <2>3 DEF SafeFrom
  <1> QED BY <1>1, <1>2 DEF SafeFrom

\* What PutBack leaves behind is safe beyond the entry it came from.
LEMMA PutBackIsSafe ==
  ASSUME TypeOK, TypeOK', NEW c \in Consumers, pc[c] \in Holding, PutBack(c),
         delivered' = delivered, forwards' = forwards,
         NEW t \in Tasks, NEW k \in Nat, t = Task(c), k = entry[c]
  PROVE  SafeFrom(t, k)'
  <1>1. /\ k \in 1..Len(log)
        /\ k <= delivered
        /\ log[k] \in Entry
        /\ Len(log) \in Nat
        /\ delivered \in 0..Len(log)
    <2>1. entry[c] \in Positions /\ entry[c] <= delivered /\ log[entry[c]] \in Entry
      BY HeldEntry
    <2>2. Len(log) \in Nat /\ delivered \in 0..Len(log)
      BY DEF TypeOK
    <2> QED BY <2>1, <2>2 DEF Positions
  <1>2. Attempts(c) \in Nat
    BY <1>1, MaxAttemptsAssumption DEF Attempts, Entry
  <1>3. CASE Attempts(c) > MaxAttempts
    <2>1. log' = log /\ burials' = [burials EXCEPT ![t] = @ + 1]
      BY <1>3 DEF PutBack, PutBackBy, Count
    <2>2. burials'[t] > 0
      BY <2>1, <1>1 DEF TypeOK
    <2> QED BY <2>2, <1>1 DEF SafeFrom, Settled
  <1>4. CASE ~(Attempts(c) > MaxAttempts)
    <2> DEFINE e == [task |-> t, attempts |-> Attempts(c)]
    <2>1. log' = Append(log, e)
      BY <1>4 DEF PutBack, PutBackBy
    <2>2. e \in Entry /\ e.task = t
      BY <1>1, <1>2, <1>4, MaxAttemptsAssumption DEF Entry
    <2> HIDE DEF e
    <2>3. Len(log') = Len(log) + 1 /\ log'[Len(log) + 1] = e
      BY <2>1, <2>2, AppendEntry DEF TypeOK
    <2>4. Len(log) + 1 \in Outstanding'
      BY <2>3, <1>1 DEF Outstanding, Positions
    <2>5. PICK n \in Nat : n = Len(log) + 1
      BY <1>1
    <2>6. n \in Outstanding' /\ TaskOf(n)' = t
      BY <2>2, <2>3, <2>4, <2>5 DEF TaskOf
    <2>7. n > k
      BY <2>5, <1>1
    <2> QED BY <2>6, <2>7 DEF SafeFrom
  <1> QED BY <1>3, <1>4

\* Acknowledging an entry keeps whatever was safe, since what it may take
\* away is safe in a younger entry.
LEMMA SafetyKeptByAck ==
  ASSUME NoLossInv, TypeOK', NEW c \in Consumers, Ack(c),
         NEW t \in Tasks, NEW k \in Nat, SafeFrom(t, k)
  PROVE  SafeFrom(t, k)'
  <1>1. /\ pc[c] = "ack"
        /\ pel' = pel \ {entry[c]}
        /\ UNCHANGED <<log, delivered, forwards, burials>>
    BY DEF Ack, outcomeVars
  <1>2. Settled' = Settled
    BY <1>1 DEF Settled
  <1>3. CASE t \in Settled
    BY <1>2, <1>3 DEF SafeFrom
  <1>4. CASE t \notin Settled
    <2>1. PICK i \in Outstanding : i > k /\ TaskOf(i) = t
      BY <1>4 DEF SafeFrom
    <2>2. \E j \in Outstanding : j > k /\ TaskOf(j) = t /\ j # entry[c]
      <3>1. CASE i # entry[c]
        BY <2>1, <3>1
      <3>2. CASE i = entry[c]
        <4>1. Task(c) = t /\ SafeFrom(Task(c), entry[c])
          BY <2>1, <3>2, <1>1 DEF Task, NoLossInv, AckIsSafe
        <4>2. PICK j \in Outstanding : j > entry[c] /\ TaskOf(j) = t
          BY <4>1, <1>4 DEF SafeFrom
        <4>3. i \in Nat /\ j \in Nat
          BY <2>1, <4>2 DEF Outstanding, Positions
        <4> QED BY <2>1, <3>2, <4>2, <4>3
      <3> QED BY <3>1, <3>2
    <2>3. PICK j \in Outstanding : j > k /\ TaskOf(j) = t /\ j # entry[c]
      BY <2>2
    <2>4. j \in Outstanding' /\ TaskOf(j)' = t
      BY <2>3, <1>1 DEF Outstanding, Positions, TaskOf
    <2> QED BY <2>3, <2>4 DEF SafeFrom
  <1> QED BY <1>3, <1>4

\* Every task and every acknowledgement in preparation that was safe still is,
\* and the acknowledgements in preparation that are new are safe.
LEMMA NoLossFrom ==
  ASSUME NoLossInv, TypeOK',
         \A t \in Tasks, k \in Nat : SafeFrom(t, k) => SafeFrom(t, k)',
         offered' = offered,
         \A i \in Positions : log'[i] = log[i],
         \A d \in Consumers : pc'[d] = "ack" =>
           \/ pc[d] = "ack" /\ entry'[d] = entry[d]
           \/ SafeFrom(Task(d), entry[d])'
  PROVE  NoLossInv'
  <1>1. NoTaskLost'
    <2> SUFFICES ASSUME NEW t \in offered PROVE SafeFrom(t, 0)'
      BY DEF NoTaskLost
    <2> QED BY DEF NoLossInv, NoTaskLost, TypeOK
  <1>2. AckIsSafe'
    <2> SUFFICES ASSUME NEW d \in Consumers, pc'[d] = "ack"
                 PROVE  SafeFrom(Task(d), entry[d])'
      BY DEF AckIsSafe
    <2>1. CASE pc[d] = "ack" /\ entry'[d] = entry[d]
      <3>1. entry[d] \in Positions /\ Task(d) \in Tasks
        BY <2>1, HeldEntry DEF NoLossInv, Holding
      <3>2. Task(d)' = Task(d)
        BY <2>1, <3>1 DEF Task, TaskOf
      <3>3. SafeFrom(Task(d), entry[d])
        BY <2>1 DEF NoLossInv, AckIsSafe
      <3> DEFINE t == Task(d)
                 k == entry[d]
      <3>4. \A u \in Tasks, n \in Nat : u = t /\ n = k => SafeFrom(u, n)'
        BY <3>3
      <3> QED BY <3>1, <3>2, <3>4, <2>1 DEF SafeFrom, Positions
    <2> QED BY <2>1
  <1> QED BY <1>1, <1>2 DEF NoLossInv
LEMMA NoLossStep == NoLossInv /\ TypeOK' /\ [Next]_vars => NoLossInv'
  <1> SUFFICES ASSUME NoLossInv, TypeOK', [Next]_vars PROVE NoLossInv'
    OBVIOUS
  <1>0. /\ TypeOK
        /\ Len(log) \in Nat /\ delivered \in 0..Len(log)
        /\ pel \subseteq 1..delivered
        /\ forwards \in [Tasks -> Nat] /\ burials \in [Tasks -> Nat]
    BY DEF NoLossInv, TypeOK
  <1>1. ASSUME UNCHANGED <<log, delivered, pel, offered, forwards, burials>>,
               \A d \in Consumers : pc'[d] = "ack" => pc[d] = "ack" /\ entry'[d] = entry[d]
        PROVE  NoLossInv'
    <2>1. \A t \in Tasks, k \in Nat : SafeFrom(t, k) => SafeFrom(t, k)'
      BY <1>0, <1>1, SafetyKept DEF Outstanding
    <2> QED BY <2>1, <1>1, NoLossFrom
  <1>2. ASSUME NEW u \in Tasks, Offer(u) PROVE NoLossInv'
    <2> DEFINE e == [task |-> u, attempts |-> 0]
    <2>1. log' = Append(log, e) /\ UNCHANGED <<delivered, pel, pc, entry, forwards, burials>>
      BY <1>2 DEF Offer, workerVars
    <2>2. e \in Entry /\ e.task = u
      BY MaxAttemptsAssumption DEF Entry
    <2> HIDE DEF e
    <2>3. /\ Len(log') = Len(log) + 1
          /\ \A i \in Positions : log'[i] = log[i]
          /\ log'[Len(log) + 1] = e
      BY <2>1, <2>2, AppendEntry DEF NoLossInv, TypeOK, Positions
    <2>4. \A t \in Tasks, k \in Nat : SafeFrom(t, k) => SafeFrom(t, k)'
      <3>1. \A i \in Outstanding : i > delivered' \/ i \in pel'
        BY <2>1 DEF Outstanding
      <3>2. \A t \in Tasks : forwards'[t] >= forwards[t] /\ burials'[t] >= burials[t]
        BY <1>0, <2>1
      <3>3. Len(log) <= Len(log')
        BY <1>0, <2>3
      <3> QED BY <1>0, <2>3, <3>1, <3>2, <3>3, SafetyKept
    <2>5. NoTaskLost'
      <3> SUFFICES ASSUME NEW t \in offered' PROVE SafeFrom(t, 0)'
        BY DEF NoTaskLost
      <3>1. CASE t \in offered
        BY <3>1, <2>4 DEF NoLossInv, NoTaskLost, TypeOK
      <3>2. CASE t = u
        <4>1. PICK n \in Nat : n = Len(log) + 1
          BY <1>0
        <4>2. n \in Outstanding' /\ TaskOf(n)' = u
          BY <4>1, <2>1, <2>2, <2>3, <1>0 DEF Outstanding, Positions, TaskOf
        <4>3. n > 0
          BY <4>1, <1>0
        <4> QED BY <3>2, <4>2, <4>3 DEF SafeFrom
      <3> QED BY <3>1, <3>2, <1>2 DEF Offer
    <2>6. AckIsSafe'
      <3> SUFFICES ASSUME NEW d \in Consumers, pc'[d] = "ack"
                   PROVE  SafeFrom(Task(d), entry[d])'
        BY DEF AckIsSafe
      <3>1. pc[d] = "ack" /\ entry'[d] = entry[d]
        BY <2>1
      <3>2. entry[d] \in Positions /\ Task(d) \in Tasks
        BY <1>0, <3>1, HeldEntry DEF Holding
      <3>3. PICK t \in Tasks, k \in Nat : t = Task(d) /\ k = entry[d]
        BY <3>2, <1>0 DEF Positions
      <3>4. SafeFrom(t, k)'
        BY <3>1, <3>3, <2>4 DEF NoLossInv, AckIsSafe
      <3>5. Task(d)' = t /\ entry'[d] = k
        BY <3>1, <3>2, <3>3, <2>3 DEF Task, TaskOf
      <3> QED BY <3>4, <3>5 DEF SafeFrom
    <2> QED BY <2>5, <2>6 DEF NoLossInv
  <1>3. ASSUME NEW i \in pel, GoStale(i) \/ OutlastClaim(i) PROVE NoLossInv'
    BY <1>1, <1>3 DEF GoStale, OutlastClaim, workerVars, outcomeVars
  <1>4. ASSUME NEW c \in Consumers, ClaimStale(c) \/ NothingStale(c) \/ NothingNew(c)
        PROVE  NoLossInv'
    BY <1>1, <1>4, <1>0 DEF ClaimStale, NothingStale, NothingNew, Hold, Goto,
                       queueVars, outcomeVars, TypeOK
  <1>5. ASSUME NEW c \in Consumers, ReadNew(c) PROVE NoLossInv'
    <2>1. /\ delivered < Len(log)
          /\ delivered' = delivered + 1
          /\ pel' = pel \cup {delivered + 1}
          /\ pc' = [pc EXCEPT ![c] = "work"]
          /\ entry' = [entry EXCEPT ![c] = delivered + 1]
          /\ UNCHANGED <<log, offered, forwards, burials>>
      BY <1>5 DEF ReadNew, Hold, Goto, outcomeVars
    <2>2. \A i \in Outstanding : i > delivered' \/ i \in pel'
      BY <2>1, <1>0 DEF Outstanding, Positions
    <2>3. \A t \in Tasks, k \in Nat : SafeFrom(t, k) => SafeFrom(t, k)'
      BY <1>0, <2>1, <2>2, SafetyKept
    <2>4. \A d \in Consumers : pc'[d] = "ack" => pc[d] = "ack" /\ entry'[d] = entry[d]
      BY <2>1, <1>0 DEF TypeOK
    <2> QED BY <2>1, <2>3, <2>4, NoLossFrom
  <1>6. ASSUME NEW c \in Consumers, Handled(c) \/ Raised(c) PROVE NoLossInv'
    BY <1>1, <1>6, <1>0 DEF Handled, Raised, Goto, queueVars, outcomeVars, TypeOK
  <1>7. ASSUME NEW c \in Consumers, Forward(c) \/ ForwardReplyLost(c)
        PROVE  NoLossInv'
    <2>1. PICK u \in Tasks : u = Task(c)
      BY <1>0, <1>7, HeldEntry DEF Forward, ForwardReplyLost, Holding
    <2>2. /\ forwards' = [forwards EXCEPT ![u] = @ + 1]
          /\ UNCHANGED <<log, delivered, pel, entry, offered, burials>>
          /\ \A d \in Consumers : d # c => pc'[d] = pc[d]
      BY <1>7, <2>1, <1>0
         DEF Forward, ForwardReplyLost, Count, Goto, queueVars, TypeOK
    <2>3. \A t \in Tasks, k \in Nat : SafeFrom(t, k) => SafeFrom(t, k)'
      BY <1>0, <2>2, SafetyKept DEF Outstanding
    <2>4. u \in Settled' /\ Task(c)' = u
      BY <2>1, <2>2, <1>0 DEF Settled, Task, TaskOf
    <2>5. SafeFrom(Task(c), entry[c])'
      BY <2>4 DEF SafeFrom
    <2> QED BY <2>2, <2>3, <2>5, NoLossFrom
  <1>8. ASSUME NEW c \in Consumers, Requeue(c) \/ RequeueReplyLost(c)
        PROVE  NoLossInv'
    <2>1. /\ pc[c] \in Holding
          /\ PutBack(c)
          /\ UNCHANGED <<delivered, pel, offered, forwards>>
          /\ \A d \in Consumers : d # c => pc'[d] = pc[d] /\ entry'[d] = entry[d]
          /\ pc'[c] = "ack" => entry'[c] = entry[c]
      BY <1>8, <1>0 DEF Requeue, RequeueReplyLost, Release, Goto, Holding, TypeOK
    <2>2. /\ Len(log) <= Len(log')
          /\ \A i \in Positions : log'[i] = log[i]
      BY <2>1, <1>0, PutBackTyped
    <2>3. \A t \in Tasks : burials'[t] >= burials[t]
      <3>1. burials \in [Tasks -> Nat]
        BY <1>0 DEF TypeOK
      <3>2. burials' \in {burials, [burials EXCEPT ![Task(c)] = @ + 1]}
        BY <2>1 DEF PutBack, PutBackBy, Count
      <3> QED
        BY <3>1, <3>2
    <2>4. \A t \in Tasks, k \in Nat : SafeFrom(t, k) => SafeFrom(t, k)'
      BY <1>0, <2>1, <2>2, <2>3, SafetyKept DEF Outstanding
    <2>5. pc'[c] = "ack" => SafeFrom(Task(c), entry[c])'
      <3> SUFFICES ASSUME pc'[c] = "ack" PROVE SafeFrom(Task(c), entry[c])'
        OBVIOUS
      <3>1. entry[c] \in Positions /\ Task(c) \in Tasks
        BY <1>0, <2>1, HeldEntry
      <3>2. PICK t \in Tasks, k \in Nat : t = Task(c) /\ k = entry[c]
        BY <3>1, <1>0 DEF Positions
      <3>3. SafeFrom(t, k)'
        BY <1>0, <2>1, <3>2, PutBackIsSafe
      <3>4. Task(c)' = t /\ entry'[c] = k
        BY <2>1, <2>2, <3>1, <3>2 DEF Task, TaskOf
      <3> QED BY <3>3, <3>4 DEF SafeFrom
    <2> QED BY <2>1, <2>2, <2>4, <2>5, NoLossFrom
  <1>9. ASSUME NEW c \in Consumers, Ack(c) PROVE NoLossInv'
    <2>1. \A t \in Tasks, k \in Nat : SafeFrom(t, k) => SafeFrom(t, k)'
      BY <1>9, SafetyKeptByAck
    <2>2. /\ UNCHANGED <<log, offered>>
          /\ \A d \in Consumers : pc'[d] = "ack" => pc[d] = "ack" /\ entry'[d] = entry[d]
      BY <1>9, <1>0 DEF Ack, Release, Goto, outcomeVars, TypeOK
    <2> QED BY <2>1, <2>2, NoLossFrom
  <1>10. ASSUME NEW c \in Consumers, RequeueFailed(c) \/ AckFailed(c) \/ Crash(c)
         PROVE  NoLossInv'
    BY <1>1, <1>10, <1>0 DEF RequeueFailed, AckFailed, Crash, Release, Goto,
                        queueVars, outcomeVars, TypeOK
  <1>11. CASE UNCHANGED vars
    BY <1>1, <1>11 DEF vars, queueVars, workerVars, outcomeVars
  <1> QED
    BY <1>2, <1>3, <1>4, <1>5, <1>6, <1>7, <1>8, <1>9, <1>10, <1>11
       DEF Next, Step, FaultyStep

\* Whatever crashes, lost replies and slow handlers do, an enqueued task is in
\* the stream for the group to take, was handed to the next stage, or is in
\* the dead-letter stream.  The invariant that carries the proof is that a
\* worker about to acknowledge an entry leaves its task settled or in an entry
\* younger than the one it acknowledges; younger, so that two workers cannot
\* each count on the entry the other is about to remove.
THEOREM NothingIsLost == Spec => [](NoTaskLost /\ AckIsSafe)
  <1>1. Init => NoLossInv
    <2>1. Init => TypeOK
      BY MaxFaultsAssumption DEF Init, TypeOK, Positions, Points, Holding
    <2> QED BY <2>1 DEF Init, NoLossInv, NoTaskLost, AckIsSafe
  <1>2. NoLossInv /\ [Next]_vars => NoLossInv'
    BY TypeStep, NoLossStep DEF NoLossInv
  <1>3. NoLossInv => NoTaskLost /\ AckIsSafe
    BY DEF NoLossInv
  <1> QED BY <1>1, <1>2, <1>3, PTL DEF Spec
-----------------------------------------------------------------------------
(* The dead-letter stream only takes tasks that used up their retries.     *)

\* The attempts written in an entry are backed by failures of its task, and a
\* worker about to put an entry back has seen one more.
AttemptsBacked ==
  /\ \A i \in Positions : log[i].attempts <= failures[TaskOf(i)]
  /\ \A c \in Consumers :
       pc[c] = "retry" => log[entry[c]].attempts < failures[Task(c)]

RetryInv == TypeOK /\ AttemptsBacked /\ DeadOnlyAfterRetries

\* The entries keep their backing when no entry is added.
LEMMA BackingKept ==
  ASSUME RetryInv, TypeOK', log' = log, burials' = burials,
         \A t \in Tasks : failures'[t] >= failures[t],
         \A d \in Consumers : pc'[d] = "retry" =>
           \/ pc[d] = "retry" /\ entry'[d] = entry[d]
           \/ /\ pc[d] \in Holding /\ entry'[d] = entry[d]
              /\ failures'[Task(d)] > failures[Task(d)]
  PROVE  RetryInv'
  <1>0. /\ \A i \in Positions : log[i] \in Entry /\ TaskOf(i) \in Tasks
        /\ failures \in [Tasks -> Nat] /\ failures' \in [Tasks -> Nat]
        /\ burials \in [Tasks -> Nat]
    BY ElementOfSeq DEF RetryInv, TypeOK, Positions
  <1>1. \A i \in Positions' : (log[i].attempts <= failures[TaskOf(i)])'
    <2> SUFFICES ASSUME NEW i \in Positions
                 PROVE  log[i].attempts <= failures'[TaskOf(i)]
      BY DEF Positions, TaskOf
    <2>1. log[i].attempts \in Nat
      BY <1>0 DEF Entry
    <2> QED BY <1>0, <2>1 DEF RetryInv, AttemptsBacked
  <1>2. \A d \in Consumers : pc'[d] = "retry" => (log[entry[d]].attempts < failures[Task(d)])'
    <2> SUFFICES ASSUME NEW d \in Consumers, pc'[d] = "retry"
                 PROVE  log[entry[d]].attempts < failures'[Task(d)]
      BY DEF Task, TaskOf
    <2>1. pc[d] \in Holding
      BY DEF Holding
    <2>2. entry[d] \in Positions /\ log[entry[d]].attempts \in Nat /\ Task(d) \in Tasks
      BY <2>1, <1>0, HeldEntry DEF RetryInv, Entry
    <2>3. log[entry[d]].attempts <= failures[Task(d)]
      BY <2>2 DEF RetryInv, AttemptsBacked, Task
    <2> QED BY <1>0, <2>2, <2>3 DEF RetryInv, AttemptsBacked
  <1>3. DeadOnlyAfterRetries'
    BY <1>0, MaxAttemptsAssumption DEF RetryInv, DeadOnlyAfterRetries
  <1> QED BY <1>1, <1>2, <1>3 DEF RetryInv, AttemptsBacked

\* They keep it, too, when an entry is added that has its backing.
LEMMA BackingKeptByAppend ==
  ASSUME RetryInv, TypeOK', NEW e \in Entry, log' = Append(log, e),
         e.attempts <= failures[e.task],
         burials' = burials, failures' = failures,
         \A d \in Consumers : pc'[d] = "retry" => pc[d] = "retry" /\ entry'[d] = entry[d]
  PROVE  RetryInv'
  <1>1. /\ Len(log) \in Nat
        /\ Len(log') = Len(log) + 1
        /\ \A i \in Positions : log'[i] = log[i]
        /\ log'[Len(log) + 1] = e
    BY AppendEntry DEF RetryInv, TypeOK, Positions
  <1>2. \A i \in Positions' : log'[i].attempts <= failures[log'[i].task]
    BY <1>1 DEF RetryInv, AttemptsBacked, Positions, TaskOf
  <1>3. \A d \in Consumers : pc'[d] = "retry" => (log[entry[d]].attempts < failures[Task(d)])'
    <2> SUFFICES ASSUME NEW d \in Consumers, pc'[d] = "retry"
                 PROVE  (log[entry[d]].attempts < failures[Task(d)])'
      OBVIOUS
    <2>1. pc[d] = "retry" /\ entry'[d] = entry[d]
      OBVIOUS
    <2>2. entry[d] \in Positions
      BY <2>1, HeldEntry DEF RetryInv, Holding
    <2> QED BY <1>1, <2>1, <2>2 DEF RetryInv, AttemptsBacked, Task, TaskOf
  <1> QED BY <1>2, <1>3 DEF RetryInv, AttemptsBacked, DeadOnlyAfterRetries, TaskOf

LEMMA RetryStep == RetryInv /\ TypeOK' /\ [Next]_vars => RetryInv'
  <1> SUFFICES ASSUME RetryInv, TypeOK', [Next]_vars PROVE RetryInv'
    OBVIOUS
  <1>0. /\ TypeOK
        /\ failures \in [Tasks -> Nat] /\ burials \in [Tasks -> Nat]
        /\ pc \in [Consumers -> Points]
    BY DEF RetryInv, TypeOK
  <1>1. ASSUME UNCHANGED <<log, failures, burials>>,
               \A d \in Consumers : pc'[d] = "retry" => pc[d] = "retry" /\ entry'[d] = entry[d]
        PROVE  RetryInv'
    BY <1>0, <1>1, BackingKept
  <1>2. ASSUME NEW t \in Tasks, Offer(t) PROVE RetryInv'
    <2> DEFINE e == [task |-> t, attempts |-> 0]
    <2>1. e \in Entry /\ e.attempts <= failures[e.task]
      BY <1>0, MaxAttemptsAssumption DEF Entry
    <2>2. /\ log' = Append(log, e)
          /\ UNCHANGED <<pc, entry, failures, burials>>
      BY <1>2 DEF Offer, workerVars
    <2> HIDE DEF e
    <2> QED BY <2>1, <2>2, BackingKeptByAppend
  <1>3. ASSUME NEW i \in pel, GoStale(i) \/ OutlastClaim(i) PROVE RetryInv'
    BY <1>1, <1>3 DEF GoStale, OutlastClaim, workerVars, outcomeVars
  <1>4. ASSUME NEW c \in Consumers,
               \/ ClaimStale(c) \/ NothingStale(c) \/ NothingNew(c)
               \/ ReadNew(c) \/ Handled(c)
        PROVE  RetryInv'
    BY <1>0, <1>1, <1>4 DEF ClaimStale, NothingStale, NothingNew, ReadNew, Handled,
                       Hold, Goto, queueVars, outcomeVars, TypeOK
  <1>5. ASSUME NEW c \in Consumers, Forward(c) PROVE RetryInv'
    BY <1>0, <1>1, <1>5 DEF Forward, Goto, queueVars
  <1>6. ASSUME NEW c \in Consumers, Raised(c) \/ ForwardReplyLost(c)
        PROVE  RetryInv'
    <2>1. PICK u \in Tasks : u = Task(c)
      BY <1>0, <1>6, HeldEntry DEF Raised, ForwardReplyLost, Holding
    <2>2. /\ failures' = [failures EXCEPT ![u] = @ + 1]
          /\ UNCHANGED <<log, entry, burials>>
          /\ pc[c] \in Holding
          /\ \A d \in Consumers : d # c => pc'[d] = pc[d]
      BY <1>6, <2>1, <1>0
         DEF Raised, ForwardReplyLost, Count, Goto, queueVars, Holding
    <2>3. \A t \in Tasks : failures'[t] >= failures[t]
      BY <1>0, <2>2
    <2>4. failures'[Task(c)] > failures[Task(c)]
      BY <1>0, <2>1, <2>2
    <2> QED BY <2>2, <2>3, <2>4, BackingKept
  <1>7. ASSUME NEW c \in Consumers, Requeue(c) \/ RequeueReplyLost(c)
        PROVE  RetryInv'
    <2>1. /\ pc[c] = "retry"
          /\ PutBack(c)
          /\ failures' = failures
          /\ \A d \in Consumers : pc'[d] = "retry" => pc[d] = "retry" /\ entry'[d] = entry[d]
      BY <1>7, <1>0 DEF Requeue, RequeueReplyLost, Release, Goto, TypeOK
    <2>2. /\ Task(c) \in Tasks
          /\ log[entry[c]].attempts \in Nat
      BY <1>0, <2>1, HeldEntry DEF Holding, Entry
    <2>3. /\ Attempts(c) \in Nat \ {0}
          /\ Attempts(c) <= failures[Task(c)]
      BY <1>0, <2>1, <2>2 DEF RetryInv, AttemptsBacked, Attempts
    <2>4. CASE Attempts(c) > MaxAttempts
      <3>1. log' = log /\ burials' = [burials EXCEPT ![Task(c)] = @ + 1]
        BY <2>1, <2>4 DEF PutBack, PutBackBy, Count
      <3>2. failures[Task(c)] > MaxAttempts
        BY <1>0, <2>2, <2>3, <2>4, MaxAttemptsAssumption
      <3>3. DeadOnlyAfterRetries'
        BY <1>0, <2>1, <3>1, <3>2 DEF RetryInv, DeadOnlyAfterRetries
      <3>4. AttemptsBacked'
        BY <2>1, <3>1 DEF RetryInv, AttemptsBacked, Positions, Task, TaskOf
      <3> QED BY <3>3, <3>4 DEF RetryInv
    <2>5. CASE ~(Attempts(c) > MaxAttempts)
      <3> DEFINE e == [task |-> Task(c), attempts |-> Attempts(c)]
      <3>1. log' = Append(log, e) /\ burials' = burials
        BY <2>1, <2>5 DEF PutBack, PutBackBy
      <3>2. e \in Entry /\ e.attempts <= failures[e.task]
        BY <2>2, <2>3, <2>5, MaxAttemptsAssumption DEF Entry
      <3> HIDE DEF e
      <3> QED BY <2>1, <3>1, <3>2, BackingKeptByAppend
    <2> QED BY <2>4, <2>5
  <1>8. ASSUME NEW c \in Consumers,
               Ack(c) \/ RequeueFailed(c) \/ AckFailed(c) \/ Crash(c)
        PROVE  RetryInv'
    BY <1>0, <1>1, <1>8 DEF Ack, RequeueFailed, AckFailed, Crash, Release, Goto,
                       queueVars, outcomeVars, TypeOK
  <1>9. CASE UNCHANGED vars
    BY <1>1, <1>9 DEF vars, queueVars, workerVars, outcomeVars
  <1> QED
    BY <1>2, <1>3, <1>4, <1>5, <1>6, <1>7, <1>8, <1>9
       DEF Next, Step, FaultyStep

\* However many duplicates of a task are in flight, it reaches the dead-letter
\* stream only after its handler raised more than max_attempts times.
THEOREM BurialNeedsRetries == Spec => []DeadOnlyAfterRetries
  <1>1. Init => RetryInv
    <2>1. Init => TypeOK
      BY MaxFaultsAssumption DEF Init, TypeOK, Positions, Points, Holding
    <2> QED BY <2>1 DEF Init, RetryInv, AttemptsBacked, DeadOnlyAfterRetries, Positions
  <1>2. RetryInv /\ [Next]_vars => RetryInv'
    BY TypeStep, RetryStep DEF RetryInv
  <1>3. RetryInv => DeadOnlyAfterRetries
    BY DEF RetryInv
  <1> QED BY <1>1, <1>2, <1>3, PTL DEF Spec

-----------------------------------------------------------------------------
(* The stream, its group and the worker loops implement AtLeastOnce: every *)
(* step of TaskStream is a step of the promise, or leaves it as it is.     *)

\* What is settled in TaskStream is settled in the promise.
LEMMA SettledIsSettled == Settled = Forwarded \cup Buried
  BY DEF Settled, Forwarded, Buried

\* What the promise calls live was offered.
LEMMA LiveTyped ==
  ASSUME TypeOK
  PROVE  Live \subseteq Tasks /\ Held \subseteq Positions
  <1>1. Held \subseteq Positions
    BY HeldEntry DEF Held
  <1>2. \A i \in Positions : TaskOf(i) \in Tasks
    BY DEF TypeOK
  <1> QED BY <1>1, <1>2 DEF Live, Outstanding

\* Letting go of an entry, acknowledged or not, without settling its task
\* changes at most whether that task is live, and only if it is settled.
LEMMA ReleaseRetires ==
  ASSUME NoLossInv, NoLossInv', NEW c \in Consumers, pc[c] \in Holding,
         Release(c), UNCHANGED <<log, delivered, outcomeVars>>,
         pel' \in {pel, pel \ {entry[c]}}
  PROVE  [Promise!Next]_(Promise!vars)
  <1>0. TypeOK /\ TypeOK'
    BY DEF NoLossInv
  <1>a. PICK k \in Positions, t \in offered :
          k = entry[c] /\ k \in Held /\ t = TaskOf(k) /\ t \in Tasks
    BY <1>0, HeldEntry DEF Held, Task
  <1>1. k \in Positions /\ k \in Held /\ t \in offered /\ t \in Tasks
    BY <1>a
  <1>2. /\ Outstanding' \subseteq Outstanding
        /\ Outstanding \subseteq Outstanding' \cup {k}
    BY <1>a DEF Outstanding, Positions
  <1>3. Held' \subseteq Held /\ Held \subseteq Held' \cup {k}
    BY <1>0, <1>a, HeldAfterRelease
  <1>4. UNCHANGED <<offered, Forwarded, Buried>> /\ Settled' = Settled
    BY DEF outcomeVars, Forwarded, Buried, Settled
  <1>5. \A i : TaskOf(i)' = TaskOf(i)
    BY DEF TaskOf
  <1>6. t \in Live /\ Live' \subseteq Live /\ Live \subseteq Live' \cup {t}
    BY <1>a, <1>2, <1>3, <1>5 DEF Live
  <1>7. CASE t \in Live'
    BY <1>4, <1>6, <1>7 DEF Promise!vars
  <1>8. CASE t \notin Live'
    <2>1. t \notin {TaskOf(i) : i \in Outstanding'}
      BY <1>5, <1>8 DEF Live
    <2>2. SafeFrom(t, 0)'
      BY <1>1, <1>4 DEF NoLossInv, NoTaskLost, outcomeVars
    <2>3. t \in Settled
      BY <1>4, <1>5, <2>1, <2>2 DEF SafeFrom
    <2>4. Promise!Retire(t)
      BY <1>4, <1>6, <1>8, <2>3, SettledIsSettled
         DEF Promise!Retire, Promise!Settled
    <2> QED BY <1>1, <2>4 DEF Promise!Next
  <1> QED BY <1>7, <1>8

\* requeue_with_backoff leaves the promise as it is, or buries a live task.
LEMMA PutBackBuries ==
  ASSUME NoLossInv, NoLossInv', NEW c \in Consumers, pc[c] \in Holding,
         PutBack(c), UNCHANGED <<delivered, pel, offered, forwards>>,
         Held' \subseteq Held, Held \subseteq Held' \cup {entry[c]}
  PROVE  [Promise!Next]_(Promise!vars)
  <1>0. TypeOK /\ TypeOK' /\ Len(log) \in Nat /\ delivered \in 0..Len(log)
    BY DEF NoLossInv, TypeOK
  <1>1. PICK k \in Positions, t \in Tasks :
          k = entry[c] /\ k \in Held /\ t = TaskOf(k) /\ Task(c) = t
    BY <1>0, HeldEntry DEF Held, Task
  <1>2. UNCHANGED <<offered, Forwarded>>
    BY DEF Forwarded
  <1>3. t \in Live
    BY <1>1 DEF Live
  <1>4. CASE Attempts(c) > MaxAttempts
    <2>1. log' = log /\ burials' = [burials EXCEPT ![t] = @ + 1]
      BY <1>1, <1>4 DEF PutBack, PutBackBy, Count
    <2>2. Buried' = Buried \cup {t}
      BY <1>0, <1>1, <2>1 DEF Buried, TypeOK
    <2>3. Outstanding' = Outstanding /\ \A i : TaskOf(i)' = TaskOf(i)
      BY <2>1 DEF Outstanding, Positions, TaskOf
    <2>4. Live' \in {Live, Live \ {t}}
      <3>1. Live' \subseteq Live /\ Live \subseteq Live' \cup {t}
        BY <1>1, <2>3 DEF Live
      <3> QED BY <1>3, <3>1
    <2>5. Promise!Bury(t)
      BY <1>2, <1>3, <2>2, <2>4 DEF Promise!Bury
    <2> QED BY <1>1, <2>5 DEF Promise!Next
  <1>5. CASE ~(Attempts(c) > MaxAttempts)
    <2> DEFINE e == [task |-> t, attempts |-> Attempts(c)]
    <2>0. PICK n \in Nat : n = Len(log) + 1
      BY <1>0
    <2>1. log' = Append(log, e) /\ burials' = burials
      BY <1>1, <1>5 DEF PutBack, PutBackBy
    <2>2. log[k] \in Entry
      BY <1>0, <1>1, HeldEntry
    <2>3. e \in Entry /\ e.task = t
      BY <1>1, <1>5, <2>2, MaxAttemptsAssumption DEF Entry, Attempts
    <2> HIDE DEF e
    <2>4. /\ Len(log') = n
          /\ \A i \in 1..Len(log) : log'[i] = log[i]
          /\ log'[n] = e
      BY <1>0, <2>0, <2>1, <2>3, AppendEntry DEF TypeOK
    <2>5. Outstanding' = Outstanding \cup {n}
      <3>1. Positions' = Positions \cup {n} /\ n > delivered'
        BY <1>0, <2>0, <2>4 DEF Positions
      <3>2. n \notin Positions
        BY <1>0, <2>0 DEF Positions
      <3> QED BY <3>1, <3>2 DEF Outstanding
    <2>6. /\ \A i \in Positions : TaskOf(i)' = TaskOf(i)
          /\ TaskOf(n)' = t
      BY <2>3, <2>4 DEF Positions, TaskOf
    <2>7. Outstanding \subseteq Positions /\ Held \subseteq Positions
      BY <1>0, LiveTyped DEF Outstanding
    <2>8. Live' = Live
      <3>1. Live' \subseteq Live
        BY <1>3, <2>5, <2>6, <2>7 DEF Live
      <3>2. \A i \in Outstanding \cup Held : i \in Outstanding' \cup Held' \/ i = k
        BY <1>1, <2>5
      <3>3. \A i \in Outstanding \cup Held : TaskOf(i) \in Live'
        BY <1>1, <2>5, <2>6, <2>7, <3>2 DEF Live
      <3> QED BY <3>1, <3>3 DEF Live
    <2> QED BY <1>2, <2>1, <2>8 DEF Promise!vars, Buried
  <1> QED BY <1>4, <1>5

-----------------------------------------------------------------------------
LEMMA PromiseStep ==
  NoLossInv /\ NoLossInv' /\ [Next]_vars => [Promise!Next]_(Promise!vars)
  <1> SUFFICES ASSUME NoLossInv, NoLossInv', [Next]_vars
               PROVE  [Promise!Next]_(Promise!vars)
    OBVIOUS
  <1>0. TypeOK /\ Len(log) \in Nat /\ delivered \in 0..Len(log) /\ stale \subseteq pel
    BY DEF NoLossInv, TypeOK
  <1>1. ASSUME log' = log, UNCHANGED <<offered, forwards, burials>>,
               Outstanding' \cup Held' = Outstanding \cup Held
        PROVE  [Promise!Next]_(Promise!vars)
    BY <1>1 DEF Promise!vars, Live, Forwarded, Buried, TaskOf
  <1>2. ASSUME NEW t \in Tasks, Offer(t) PROVE [Promise!Next]_(Promise!vars)
    <2> DEFINE e == [task |-> t, attempts |-> 0]
    <2>0. PICK n \in Nat : n = Len(log) + 1
      BY <1>0
    <2>1. e \in Entry /\ e.task = t
      BY MaxAttemptsAssumption DEF Entry
    <2>2. /\ log' = Append(log, e)
          /\ offered' = offered \cup {t}
          /\ UNCHANGED <<delivered, pel, workerVars, forwards, burials>>
      BY <1>2 DEF Offer
    <2> HIDE DEF e
    <2>3. /\ Len(log') = n
          /\ \A i \in 1..Len(log) : log'[i] = log[i]
          /\ log'[n] = e
      BY <1>0, <2>0, <2>1, <2>2, AppendEntry DEF TypeOK
    <2>4. Outstanding' = Outstanding \cup {n} /\ Held' = Held
      BY <1>0, <2>0, <2>2, <2>3 DEF Outstanding, Positions, Held, workerVars, TypeOK
    <2>5. Outstanding \subseteq Positions /\ Held \subseteq Positions
      BY <1>0, LiveTyped DEF Outstanding
    <2>6. \A i \in Positions : TaskOf(i)' = TaskOf(i)
      BY <2>3 DEF Positions, TaskOf
    <2>7. TaskOf(n)' = t
      BY <2>1, <2>3 DEF TaskOf
    <2>8. Live' = Live \cup {t}
      BY <2>4, <2>5, <2>6, <2>7 DEF Live
    <2>9. Promise!Offer(t)
      BY <2>2, <2>8 DEF Promise!Offer, Forwarded, Buried
    <2> QED BY <2>9 DEF Promise!Next
  <1>3. ASSUME NEW i \in pel, GoStale(i) \/ OutlastClaim(i)
        PROVE  [Promise!Next]_(Promise!vars)
    BY <1>1, <1>3 DEF GoStale, OutlastClaim, workerVars, outcomeVars,
                      Outstanding, Positions, Held
  <1>4. ASSUME NEW c \in Consumers, NothingStale(c) \/ NothingNew(c) \/ Handled(c) \/ Raised(c)
        PROVE  [Promise!Next]_(Promise!vars)
    <2>1. /\ UNCHANGED <<log, delivered, pel, entry, offered, forwards, burials>>
          /\ \E point \in Points : pc' = [pc EXCEPT ![c] = point]
                /\ (point \in Holding <=> pc[c] \in Holding)
      BY <1>4 DEF NothingStale, NothingNew, Handled, Raised, Goto, queueVars,
                  outcomeVars, Points, Holding
    <2>2. Held' = Held
      BY <1>0, <2>1 DEF Held, TypeOK
    <2> QED BY <1>1, <2>1, <2>2 DEF Outstanding, Positions
  <1>5. ASSUME NEW c \in Consumers, ClaimStale(c) \/ ReadNew(c)
        PROVE  [Promise!Next]_(Promise!vars)
    <2>1. PICK k \in Positions :
            /\ k \in Outstanding
            /\ entry' = [entry EXCEPT ![c] = k]
            /\ pc' = [pc EXCEPT ![c] = "work"]
            /\ Outstanding' = Outstanding
      <3>1. CASE ClaimStale(c)
        <4>1. PICK k \in stale : Hold(c, k)
          BY <3>1 DEF ClaimStale
        <4>2. UNCHANGED <<log, delivered, pel>>
          BY <3>1 DEF ClaimStale
        <4>3. k \in Positions /\ k \in Outstanding
          BY <1>0, <4>1 DEF Outstanding, Positions, TypeOK
        <4> QED
          BY <4>1, <4>2, <4>3 DEF Hold, Goto, Outstanding, Positions
      <3>2. CASE ReadNew(c)
        <4> DEFINE k == delivered + 1
        <4>1. /\ delivered < Len(log) /\ delivered' = k
              /\ pel' = pel \cup {k} /\ log' = log /\ Hold(c, k)
          BY <3>2 DEF ReadNew
        <4>2. k \in Positions /\ k \in Outstanding
          BY <1>0, <4>1 DEF Outstanding, Positions
        <4>3. \A i \in Positions : i > delivered <=> i > delivered' \/ i = k
          BY <1>0, <4>1 DEF Positions
        <4>4. Outstanding' = Outstanding
          BY <1>0, <4>1, <4>2, <4>3 DEF Outstanding, Positions
        <4> QED
          BY <4>1, <4>2, <4>4 DEF Hold, Goto
      <3> QED BY <1>5, <3>1, <3>2
    <2>2. pc[c] \notin Holding
      BY <1>5 DEF ClaimStale, ReadNew, Holding
    <2>3. Held' = Held \cup {k}
      <3>1. \A d \in Consumers : d # c => pc'[d] = pc[d] /\ entry'[d] = entry[d]
        BY <1>0, <2>1 DEF TypeOK
      <3>2. pc'[c] \in Holding /\ entry'[c] = k
        BY <1>0, <2>1 DEF TypeOK, Holding
      <3> QED BY <2>2, <3>1, <3>2 DEF Held
    <2> QED BY <1>1, <1>5, <2>1, <2>3 DEF ClaimStale, ReadNew, outcomeVars
  <1>6. ASSUME NEW c \in Consumers, Forward(c) \/ ForwardReplyLost(c)
        PROVE  [Promise!Next]_(Promise!vars)
    <2>1. PICK t \in Tasks : t = Task(c)
      BY <1>0, <1>6, HeldEntry DEF Forward, ForwardReplyLost, Holding
    <2>2. /\ forwards' = [forwards EXCEPT ![t] = @ + 1]
          /\ UNCHANGED <<log, delivered, pel, entry, offered, burials>>
          /\ \E point \in Holding : pc' = [pc EXCEPT ![c] = point]
          /\ pc[c] \in Holding
      BY <1>6, <2>1 DEF Forward, ForwardReplyLost, Count, Goto, queueVars, Holding
    <2>3. Held' = Held /\ Outstanding' = Outstanding
      BY <1>0, <2>2 DEF Held, Outstanding, Positions, TypeOK
    <2>4. Live' = Live /\ t \in Live
      BY <2>1, <2>2, <2>3 DEF Live, TaskOf, Task, Held
    <2>5. Forwarded' = Forwarded \cup {t}
      BY <1>0, <2>2 DEF Forwarded, TypeOK
    <2>6. Promise!Execute(t)
      BY <2>2, <2>4, <2>5 DEF Promise!Execute, Buried
    <2> QED BY <2>6 DEF Promise!Next
  <1>7. ASSUME NEW c \in Consumers, Requeue(c) PROVE [Promise!Next]_(Promise!vars)
    <2>1. /\ pc[c] \in Holding /\ pc' = [pc EXCEPT ![c] = "ack"]
          /\ PutBack(c)
          /\ UNCHANGED <<delivered, pel, entry, offered, forwards>>
      BY <1>7 DEF Requeue, Goto, Holding
    <2>2. Held' = Held
      BY <1>0, <2>1 DEF Held, TypeOK, Holding
    <2> QED BY <2>1, <2>2, PutBackBuries
  <1>8. ASSUME NEW c \in Consumers, RequeueReplyLost(c)
        PROVE  [Promise!Next]_(Promise!vars)
    <2>1. /\ pc[c] \in Holding /\ Release(c)
          /\ PutBack(c)
          /\ UNCHANGED <<delivered, pel, offered, forwards>>
      BY <1>8 DEF RequeueReplyLost, Holding
    <2> QED BY <1>0, <2>1, HeldAfterRelease, PutBackBuries
  <1>9. ASSUME NEW c \in Consumers,
               Ack(c) \/ RequeueFailed(c) \/ AckFailed(c) \/ Crash(c)
        PROVE  [Promise!Next]_(Promise!vars)
    <2>1. /\ pc[c] \in Holding /\ Release(c)
          /\ UNCHANGED <<log, delivered, outcomeVars>>
          /\ pel' \in {pel, pel \ {entry[c]}}
      BY <1>9 DEF Ack, RequeueFailed, AckFailed, Crash, queueVars, Holding
    <2> QED BY <2>1, ReleaseRetires
  <1>10. CASE UNCHANGED vars
    BY <1>1, <1>10 DEF vars, queueVars, workerVars, outcomeVars, Outstanding,
                       Positions, Held
  <1> QED
    BY <1>2, <1>3, <1>4, <1>5, <1>6, <1>7, <1>8, <1>9, <1>10
       DEF Next, Step, FaultyStep

\* A stage's stream, group and workers promise what AtLeastOnce says, for any
\* number of tasks, workers, attempts and faults: a task that was offered is
\* executed or dead-lettered before its last copy goes.  The fairness of the
\* promise, that a live task is settled in the end, is checked by TLC only.
THEOREM ImplementsPromise == Spec => KeepsPromise
  <1>1. Init => Promise!Init
    BY DEF Init, Promise!Init, Live, Forwarded, Buried, Outstanding,
           Positions, Held, Holding
  <1>2. Init => NoLossInv
    <2>1. Init => TypeOK
      BY MaxFaultsAssumption DEF Init, TypeOK, Positions, Points, Holding
    <2> QED BY <2>1 DEF Init, NoLossInv, NoTaskLost, AckIsSafe
  <1>3. NoLossInv /\ [Next]_vars => NoLossInv'
    BY TypeStep, NoLossStep DEF NoLossInv
  <1> QED BY <1>1, <1>2, <1>3, PromiseStep, PTL DEF Spec, KeepsPromise, Promise!Spec

-----------------------------------------------------------------------------
(* Duplicates of a task come from faults only, one per fault: what a task  *)
(* was handed on and dead-lettered, together with the copies that may      *)
(* still lead to that, is never more than one and the faults so far.       *)
(* The copies of a task.                                                   *)

\* Entries some worker will still take: not delivered yet, stale, or pending
\* with nobody at work on them.
Waiting(t) == {i \in Positions :
  /\ TaskOf(i) = t
  /\ i > delivered \/ i \in stale \/ i \in pel \ Held}

\* Workers that will hand the task on, bury it or put it back.
AtWork(t) == {c \in Consumers : pc[c] \in Holding \ {"ack"} /\ Task(c) = t}

Copies(t) == Cardinality(Waiting(t)) + Cardinality(AtWork(t))

Outcomes(t) == forwards[t] + burials[t]

CopiesBounded ==
  \A t \in Tasks :
    /\ IsFiniteSet(AtWork(t))
    /\ Outcomes(t) + Copies(t) <= 1 + faults

\* A task that was not offered has no copy and no outcome.
UnofferedUntouched == \A t \in Tasks \ offered : Outcomes(t) = 0

DuplicatesInv == TypeOK /\ CopiesBounded /\ UnofferedUntouched

LEMMA WaitingFinite ==
  ASSUME TypeOK, NEW t \in Tasks
  PROVE  IsFiniteSet(Waiting(t)) /\ Cardinality(Waiting(t)) \in Nat
  <1>1. Len(log) \in Nat
    BY DEF TypeOK
  <1>2. IsFiniteSet(1..Len(log))
    BY <1>1, FS_Interval
  <1> QED BY <1>2, FS_Subset, FS_CardinalityType DEF Waiting, Positions

-----------------------------------------------------------------------------
(* A set that loses, keeps or gains an element.                            *)

LEMMA SetKept ==
  ASSUME NEW S, IsFiniteSet(S), NEW T \in SUBSET S
  PROVE  /\ IsFiniteSet(T)
         /\ Cardinality(S) \in Nat /\ Cardinality(T) \in Nat
         /\ Cardinality(T) <= Cardinality(S)
  BY FS_Subset, FS_CardinalityType

LEMMA SetGrows ==
  ASSUME NEW S, IsFiniteSet(S), NEW x, NEW T \in SUBSET (S \cup {x})
  PROVE  /\ IsFiniteSet(T)
         /\ Cardinality(S) \in Nat /\ Cardinality(T) \in Nat
         /\ Cardinality(T) <= Cardinality(S) + 1
  <1>1. /\ IsFiniteSet(S \cup {x})
        /\ Cardinality(S \cup {x}) <= Cardinality(S) + 1
        /\ Cardinality(S) \in Nat
    BY FS_AddElement, FS_CardinalityType
  <1>2. IsFiniteSet(T) /\ Cardinality(T) <= Cardinality(S \cup {x})
    BY <1>1, FS_Subset
  <1>3. Cardinality(T) \in Nat /\ Cardinality(S \cup {x}) \in Nat
    BY <1>1, <1>2, FS_CardinalityType
  <1> QED BY <1>1, <1>2, <1>3

LEMMA SetShrinks ==
  ASSUME NEW S, IsFiniteSet(S), NEW x \in S, NEW T \in SUBSET (S \ {x})
  PROVE  /\ IsFiniteSet(T)
         /\ Cardinality(S) \in Nat /\ Cardinality(T) \in Nat
         /\ Cardinality(T) + 1 <= Cardinality(S)
  <1>1. /\ IsFiniteSet(S \ {x})
        /\ Cardinality(S \ {x}) = Cardinality(S) - 1
        /\ Cardinality(S) \in Nat
    BY FS_RemoveElement, FS_CardinalityType
  <1>2. IsFiniteSet(T) /\ Cardinality(T) <= Cardinality(S \ {x})
    BY <1>1, FS_Subset
  <1>3. Cardinality(T) \in Nat
    BY <1>2, FS_CardinalityType
  <1> QED BY <1>1, <1>2, <1>3

-----------------------------------------------------------------------------
(* The steps.                                                              *)

\* The balance of task t: what a step must not raise.
Balance(t) == Outcomes(t) + Copies(t) - faults

BalanceKept(t) == IsFiniteSet(AtWork(t)') /\ Balance(t)' <= Balance(t)

\* The numbers of a balance.
LEMMA Numbers ==
  ASSUME TypeOK, NEW t \in Tasks, IsFiniteSet(AtWork(t))
  PROVE  /\ IsFiniteSet(Waiting(t))
         /\ forwards[t] \in Nat /\ burials[t] \in Nat /\ faults \in Nat
         /\ Cardinality(Waiting(t)) \in Nat
         /\ Cardinality(AtWork(t)) \in Nat
  BY WaitingFinite, FS_CardinalityType, MaxFaultsAssumption DEF TypeOK

LEMMA BoundKept ==
  ASSUME DuplicatesInv, TypeOK', offered \subseteq offered',
         \A t \in Tasks : BalanceKept(t),
         \A t \in Tasks \ offered : Outcomes(t)' = Outcomes(t)
  PROVE  DuplicatesInv'
  <1>1. CopiesBounded'
    <2> SUFFICES ASSUME NEW t \in Tasks
                 PROVE  /\ IsFiniteSet(AtWork(t))'
                        /\ Outcomes(t)' + Copies(t)' <= 1 + faults'
      BY DEF CopiesBounded
    <2>1. /\ IsFiniteSet(AtWork(t)) /\ IsFiniteSet(AtWork(t)')
          /\ Outcomes(t) + Copies(t) <= 1 + faults
          /\ Balance(t)' <= Balance(t)
      BY DEF DuplicatesInv, CopiesBounded, BalanceKept
    <2>2. /\ forwards[t] \in Nat /\ burials[t] \in Nat /\ faults \in Nat
          /\ Cardinality(Waiting(t)) \in Nat
          /\ Cardinality(AtWork(t)) \in Nat
      BY <2>1, Numbers DEF DuplicatesInv
    <2>3. (/\ forwards[t] \in Nat /\ burials[t] \in Nat /\ faults \in Nat
           /\ Cardinality(Waiting(t)) \in Nat
           /\ Cardinality(AtWork(t)) \in Nat)'
      <3>1. (TypeOK /\ IsFiniteSet(AtWork(t)) => IsFiniteSet(Waiting(t))
               /\ Cardinality(Waiting(t)) \in Nat
               /\ Cardinality(AtWork(t)) \in Nat)'
        BY Numbers, PTL
      <3>2. (forwards[t] \in Nat /\ burials[t] \in Nat /\ faults \in Nat)'
        BY MaxFaultsAssumption DEF TypeOK
      <3> QED BY <2>1, <3>1, <3>2
    <2> QED BY <2>1, <2>2, <2>3 DEF Balance, Outcomes, Copies
  <1>2. UnofferedUntouched'
    BY DEF DuplicatesInv, UnofferedUntouched
  <1> QED BY <1>1, <1>2 DEF DuplicatesInv

\* A step that adds no copy and no outcome.
LEMMA NothingAdded ==
  ASSUME TypeOK, TypeOK', NEW t \in Tasks, IsFiniteSet(AtWork(t)),
         Waiting(t)' \subseteq Waiting(t), AtWork(t)' \subseteq AtWork(t),
         Outcomes(t)' = Outcomes(t), faults' >= faults
  PROVE  BalanceKept(t)
  <1>1. faults' \in Nat
    BY MaxFaultsAssumption DEF TypeOK
  <1>2. /\ IsFiniteSet(AtWork(t)')
        /\ Cardinality(AtWork(t)') \in Nat
        /\ Cardinality(AtWork(t)') <= Cardinality(AtWork(t))
    BY SetKept
  <1>3. /\ Cardinality(Waiting(t)') \in Nat
        /\ Cardinality(Waiting(t)') <= Cardinality(Waiting(t))
    BY Numbers, SetKept
  <1> QED BY <1>1, <1>2, <1>3, Numbers DEF BalanceKept, Balance, Copies, Outcomes

\* A fault that makes one entry wait again.
LEMMA FaultAddsEntry ==
  ASSUME TypeOK, TypeOK', NEW t \in Tasks, IsFiniteSet(AtWork(t)), NEW k,
         Waiting(t)' \subseteq Waiting(t) \cup {k}, AtWork(t)' \subseteq AtWork(t),
         Outcomes(t)' = Outcomes(t), faults' = faults + 1
  PROVE  BalanceKept(t)
  <1>2. /\ IsFiniteSet(AtWork(t)')
        /\ Cardinality(AtWork(t)') \in Nat
        /\ Cardinality(AtWork(t)') <= Cardinality(AtWork(t))
    BY SetKept
  <1>3. /\ Cardinality(Waiting(t)') \in Nat
        /\ Cardinality(Waiting(t)') <= Cardinality(Waiting(t)) + 1
    BY Numbers, SetGrows
  <1> QED BY <1>2, <1>3, Numbers DEF BalanceKept, Balance, Copies, Outcomes

\* A worker takes an entry.
LEMMA EntryTaken ==
  ASSUME TypeOK, TypeOK', NEW c \in Consumers, NEW k \in Positions,
         k \in Waiting(TaskOf(k)), pc[c] \notin Holding, Hold(c, k),
         log' = log, delivered' >= delivered, delivered' \in Nat,
         k \notin stale', k <= delivered',
         stale' \subseteq stale, pel' \subseteq pel \cup {k},
         UNCHANGED <<forwards, burials, faults>>,
         NEW t \in Tasks, IsFiniteSet(AtWork(t))
  PROVE  BalanceKept(t)
  <1>1. /\ entry' = [entry EXCEPT ![c] = k] /\ pc' = [pc EXCEPT ![c] = "work"]
        /\ pc \in [Consumers -> Points] /\ entry \in [Consumers -> 0..delivered]
        /\ delivered \in Nat
    BY DEF Hold, Goto, TypeOK
  <1>2. \A d \in Consumers : d # c => pc'[d] = pc[d] /\ entry'[d] = entry[d]
    BY <1>1
  <1>3. pc'[c] = "work" /\ entry'[c] = k
    BY <1>1
  <1>4. Held' = Held \cup {k}
    BY <1>2, <1>3 DEF Held, Holding
  <1>5. Waiting(t)' \subseteq Waiting(t) \ {k}
    BY <1>1, <1>4 DEF Waiting, Positions, TaskOf
  <1>6. \A d \in Consumers : d # c => Task(d)' = Task(d)
    BY <1>2 DEF Task, TaskOf
  <1>7. Task(c)' = TaskOf(k)
    BY <1>3 DEF Task, TaskOf
  <1>8. UNCHANGED Outcomes(t)
    BY DEF Outcomes
  <1>9. CASE t = TaskOf(k)
    <2>1. AtWork(t)' \subseteq AtWork(t) \cup {c}
      BY <1>2, <1>6 DEF AtWork
    <2>2. /\ IsFiniteSet(AtWork(t)')
          /\ Cardinality(AtWork(t)') \in Nat
          /\ Cardinality(AtWork(t)') <= Cardinality(AtWork(t)) + 1
      BY <2>1, SetGrows
    <2>3. /\ Cardinality(Waiting(t)') \in Nat
          /\ Cardinality(Waiting(t)') + 1 <= Cardinality(Waiting(t))
      BY <1>5, <1>9, Numbers, SetShrinks
    <2> QED BY <1>8, <2>2, <2>3, Numbers DEF BalanceKept, Balance, Copies, Outcomes
  <1>10. CASE t # TaskOf(k)
    <2>1. AtWork(t)' \subseteq AtWork(t)
      BY <1>2, <1>6, <1>7, <1>10 DEF AtWork
    <2>2. faults' >= faults
      BY MaxFaultsAssumption DEF TypeOK
    <2> QED BY <1>5, <1>8, <2>1, <2>2, NothingAdded
  <1> QED BY <1>9, <1>10

\* A worker hands its task on; if it does not learn of it, that is a fault.
LEMMA ForwardBalanced ==
  ASSUME TypeOK, TypeOK', NEW c \in Consumers, Forward(c) \/ ForwardReplyLost(c),
         NEW t \in Tasks, IsFiniteSet(AtWork(t))
  PROVE  BalanceKept(t)
  <1>1. PICK s \in Tasks : s = Task(c)
    BY HeldEntry DEF Forward, ForwardReplyLost, Holding
  <1>2. /\ forwards' = [forwards EXCEPT ![s] = @ + 1]
        /\ forwards \in [Tasks -> Nat]
        /\ UNCHANGED <<log, delivered, pel, stale, entry, burials>>
        /\ pc[c] = "forward"
        /\ pc \in [Consumers -> Points]
    BY <1>1 DEF Forward, ForwardReplyLost, Count, queueVars, TypeOK
  <1>3. PICK point \in {"ack", "retry"} :
          /\ pc' = [pc EXCEPT ![c] = point]
          /\ point = "ack" => faults' = faults
          /\ point = "retry" => faults' = faults + 1
    BY DEF Forward, ForwardReplyLost, Goto, Fault
  <1>4. Held' = Held /\ \A d \in Consumers : Task(d)' = Task(d)
    BY <1>2, <1>3 DEF Held, Holding, Task, TaskOf
  <1>5. Waiting(t)' \subseteq Waiting(t)
    BY <1>2, <1>4 DEF Waiting, Positions, TaskOf
  <1>6. AtWork(t)' \subseteq AtWork(t)
    BY <1>2, <1>3, <1>4 DEF AtWork, Holding
  <1>7. /\ IsFiniteSet(AtWork(t)')
        /\ Cardinality(AtWork(t)') \in Nat
        /\ Cardinality(AtWork(t)') <= Cardinality(AtWork(t))
    BY <1>6, SetKept
  <1>8. /\ Cardinality(Waiting(t)') \in Nat
        /\ Cardinality(Waiting(t)') <= Cardinality(Waiting(t))
    BY <1>5, Numbers, SetKept
  <1>9. CASE t # s
    <2>1. Outcomes(t)' = Outcomes(t)
      BY <1>2, <1>9 DEF Outcomes
    <2>2. faults' >= faults
      BY <1>3, MaxFaultsAssumption DEF TypeOK
    <2> QED BY <1>5, <1>6, <2>1, <2>2, NothingAdded
  <1>10. CASE t = s /\ point = "retry"
    BY <1>2, <1>3, <1>7, <1>8, <1>10, Numbers
       DEF BalanceKept, Balance, Copies, Outcomes
  <1>11. CASE t = s /\ point = "ack"
    <2>1. c \in AtWork(t) /\ AtWork(t)' \subseteq AtWork(t) \ {c}
      BY <1>1, <1>2, <1>3, <1>6, <1>11 DEF AtWork, Holding
    <2>2. Cardinality(AtWork(t)') + 1 <= Cardinality(AtWork(t))
      BY <2>1, SetShrinks
    <2> QED BY <1>2, <1>3, <1>7, <1>8, <1>11, <2>2, Numbers
            DEF BalanceKept, Balance, Copies, Outcomes
  <1> QED BY <1>9, <1>10, <1>11

\* A worker puts its task back or buries it; if it does not learn of it, that
\* is a fault.
LEMMA PutBackBalanced ==
  ASSUME TypeOK, TypeOK', NEW c \in Consumers, pc[c] = "retry", PutBack(c),
         pc'[c] \in {"ack", "poll"},
         \A d \in Consumers : d # c => pc'[d] = pc[d] /\ entry'[d] = entry[d],
         UNCHANGED <<delivered, pel, stale, forwards>>,
         Held' \subseteq Held,
         \/ Held' = Held /\ faults' = faults
         \/ Held \subseteq Held' \cup {entry[c]} /\ faults' = faults + 1,
         NEW t \in Tasks, IsFiniteSet(AtWork(t))
  PROVE  BalanceKept(t)
  <1>1. PICK k \in Positions, s \in Tasks : k = entry[c] /\ s = Task(c)
    BY HeldEntry DEF Holding
  <1>2. /\ \A i \in Positions : log'[i] = log[i]
        /\ Len(log) \in Nat /\ burials \in [Tasks -> Nat]
        /\ forwards \in [Tasks -> Nat]
    BY PutBackTyped DEF Holding, TypeOK
  <1>3. faults \in Nat /\ faults' >= faults
    BY MaxFaultsAssumption DEF TypeOK
  <1>4. \A d \in Consumers : d # c /\ pc[d] \in Holding => Task(d)' = Task(d)
    <2> SUFFICES ASSUME NEW d \in Consumers, d # c, pc[d] \in Holding
                 PROVE  Task(d)' = Task(d)
      OBVIOUS
    <2>1. entry[d] \in Positions
      BY HeldEntry
    <2> QED BY <1>2, <2>1 DEF Task, TaskOf
  <1>5. AtWork(t)' \subseteq AtWork(t) \ {c}
    BY <1>4 DEF AtWork, Holding
  <1>6. t = s => c \in AtWork(t)
    BY <1>1 DEF AtWork, Holding
  <1>7. /\ IsFiniteSet(AtWork(t)')
        /\ Cardinality(AtWork(t)') \in Nat
        /\ t = s => Cardinality(AtWork(t)') + 1 <= Cardinality(AtWork(t))
    <2>1. IsFiniteSet(AtWork(t)') /\ Cardinality(AtWork(t)') \in Nat
      BY <1>5, SetKept
    <2> QED BY <1>5, <1>6, <2>1, SetShrinks
  <1>8. PICK added : /\ added \subseteq {Len(log) + 1}
                     /\ Positions' = Positions \cup added
                     /\ \A i \in added : log'[i].task = s
                     /\ added = {} => burials' = [burials EXCEPT ![s] = @ + 1]
                     /\ added # {} => burials' = burials
    <2>1. CASE Attempts(c) > MaxAttempts
      <3>1. log' = log /\ burials' = [burials EXCEPT ![s] = @ + 1]
        BY <1>1, <2>1 DEF PutBack, PutBackBy, Count
      <3> QED BY <3>1 DEF Positions
    <2>2. CASE ~(Attempts(c) > MaxAttempts)
      <3> DEFINE e == [task |-> s, attempts |-> Attempts(c)]
      <3>1. log' = Append(log, e) /\ burials' = burials
        BY <1>1, <2>2 DEF PutBack, PutBackBy
      <3>2. log[k] \in Entry
        BY <1>1, HeldEntry DEF Holding
      <3>3. e \in Entry /\ e.task = s
        BY <1>1, <2>2, <3>2, MaxAttemptsAssumption DEF Entry, Attempts
      <3> HIDE DEF e
      <3>4. Len(log') = Len(log) + 1 /\ log'[Len(log) + 1] = e
        BY <3>1, <3>3, AppendEntry DEF TypeOK
      <3> DEFINE one == {Len(log) + 1}
      <3>5. Positions' = Positions \cup one
        BY <1>2, <3>4 DEF Positions
      <3>6. one \subseteq {Len(log) + 1} /\ one # {}
        OBVIOUS
      <3>7. \A i \in one : log'[i].task = s
        BY <3>3, <3>4
      <3> HIDE DEF one
      <3> QED BY <3>1, <3>5, <3>6, <3>7
    <2> QED BY <2>1, <2>2
  <1>9. \A i \in Positions : TaskOf(i)' = TaskOf(i)
    BY <1>2 DEF TaskOf
  <1>10. Waiting(t)' \ added \subseteq Waiting(t) \cup (Held \ Held')
    BY <1>8, <1>9 DEF Waiting
  <1>11. CASE t # s
    <2>1. added \cap Waiting(t)' = {}
      BY <1>8, <1>11 DEF Waiting, TaskOf
    <2>2. k \notin Waiting(t)'
      BY <1>1, <1>9, <1>11 DEF Waiting, Task
    <2>3. Waiting(t)' \subseteq Waiting(t)
      BY <1>1, <1>10, <2>1, <2>2
    <2>4. Outcomes(t)' = Outcomes(t)
      BY <1>2, <1>8, <1>11 DEF Outcomes
    <2> QED BY <1>3, <1>5, <2>3, <2>4, NothingAdded
  <1>12. CASE t = s
    <2> DEFINE old == Waiting(t)' \ added
    <2>1. /\ IsFiniteSet(old) /\ Cardinality(old) \in Nat
          /\ Cardinality(old) <= Cardinality(Waiting(t)) + (faults' - faults)
      <3>1. CASE Held' = Held /\ faults' = faults
        BY <1>3, <1>10, <3>1, Numbers, SetKept
      <3>2. CASE Held \subseteq Held' \cup {k} /\ faults' = faults + 1
        <4>1. old \subseteq Waiting(t) \cup {k}
          BY <1>10, <3>2
        <4> HIDE DEF old
        <4>2. /\ IsFiniteSet(old) /\ Cardinality(old) \in Nat
              /\ Cardinality(Waiting(t)) \in Nat
              /\ Cardinality(old) <= Cardinality(Waiting(t)) + 1
          BY <4>1, Numbers, SetGrows
        <4> QED BY <1>3, <3>2, <4>2
      <3> QED BY <1>1, <3>1, <3>2
    <2>2. /\ Cardinality(Waiting(t)') \in Nat
          /\ Cardinality(Waiting(t)') <= Cardinality(old) + 1
          /\ added = {} => Cardinality(Waiting(t)') = Cardinality(old)
      <3>1. Waiting(t)' \subseteq old \cup {Len(log) + 1}
        BY <1>8
      <3>2. added = {} => Waiting(t)' = old
        OBVIOUS
      <3> HIDE DEF old
      <3> QED BY <2>1, <3>1, <3>2, SetGrows
    <2>3. Outcomes(t)' = IF added = {} THEN Outcomes(t) + 1 ELSE Outcomes(t)
      BY <1>2, <1>8, <1>12 DEF Outcomes
    <2> HIDE DEF old
    <2>4. Outcomes(t) \in Nat
      BY <1>2 DEF Outcomes
    <2>5. faults' \in Nat
      BY MaxFaultsAssumption DEF TypeOK
    <2> QED BY <1>3, <1>7, <1>12, <2>1, <2>2, <2>3, <2>4, <2>5, Numbers
            DEF BalanceKept, Balance, Copies
  <1> QED BY <1>11, <1>12

\* A worker lets go of its entry.
LEMMA ReleaseBalanced ==
  ASSUME TypeOK, TypeOK', NEW c \in Consumers, pc[c] \in Holding, Release(c),
         UNCHANGED <<log, delivered, forwards, burials>>,
         \/ /\ UNCHANGED <<pel, stale>>
            /\ faults' = faults + 1
         \/ /\ pc[c] = "ack" /\ faults' = faults
            /\ pel' = pel \ {entry[c]} /\ stale' = stale \ {entry[c]},
         NEW t \in Tasks, IsFiniteSet(AtWork(t))
  PROVE  BalanceKept(t)
  <1>1. PICK k \in Positions : k = entry[c] /\ k <= delivered
    BY HeldEntry
  <1>2. Held' \subseteq Held /\ Held \subseteq Held' \cup {k}
    BY <1>1, HeldAfterRelease
  <1>3. AtWork(t)' \subseteq AtWork(t)
    <2>1. /\ pc' = [pc EXCEPT ![c] = "poll"] /\ entry' = [entry EXCEPT ![c] = 0]
          /\ pc \in [Consumers -> Points] /\ entry \in [Consumers -> 0..delivered]
      BY DEF Release, Goto, TypeOK
    <2>2. \A d \in Consumers : d # c => pc'[d] = pc[d] /\ Task(d)' = Task(d)
      BY <2>1 DEF Task, TaskOf
    <2>3. pc'[c] = "poll"
      BY <2>1
    <2> QED BY <2>2, <2>3 DEF AtWork, Holding
  <1>4. Outcomes(t)' = Outcomes(t)
    BY DEF Outcomes
  <1>5. CASE UNCHANGED <<pel, stale>> /\ faults' = faults + 1
    <2>1. Waiting(t)' \subseteq Waiting(t) \cup {k}
      BY <1>2, <1>5 DEF Waiting, Positions, TaskOf
    <2> QED BY <1>3, <1>4, <1>5, <2>1, FaultAddsEntry
  <1>6. CASE /\ pc[c] = "ack" /\ faults' = faults
             /\ pel' = pel \ {k} /\ stale' = stale \ {k}
    <2>1. Waiting(t)' \subseteq Waiting(t)
      BY <1>2, <1>6 DEF Waiting, Positions, TaskOf
    <2>2. faults' >= faults
      BY <1>6, MaxFaultsAssumption DEF TypeOK
    <2> QED BY <1>3, <1>4, <2>1, <2>2, NothingAdded
  <1> QED BY <1>1, <1>5, <1>6

-----------------------------------------------------------------------------
LEMMA DuplicatesStep == DuplicatesInv /\ TypeOK' /\ [Next]_vars => DuplicatesInv'
  <1> SUFFICES ASSUME DuplicatesInv, TypeOK', [Next]_vars PROVE DuplicatesInv'
    OBVIOUS
  <1>0. /\ TypeOK
        /\ \A t \in Tasks : IsFiniteSet(AtWork(t))
        /\ pc \in [Consumers -> Points]
        /\ faults \in Nat /\ Len(log) \in Nat /\ delivered \in 0..Len(log)
        /\ stale \subseteq pel /\ pel \subseteq 1..delivered
        /\ forwards \in [Tasks -> Nat] /\ burials \in [Tasks -> Nat]
    BY MaxFaultsAssumption DEF DuplicatesInv, CopiesBounded, TypeOK
  <1>1. ASSUME UNCHANGED <<offered, forwards, burials>>,
               \A t \in Tasks : BalanceKept(t)
        PROVE  DuplicatesInv'
    BY <1>1, BoundKept DEF Outcomes
  <1>2. ASSUME NEW c \in Consumers, UNCHANGED offered,
               \A t \in Tasks : t # Task(c) => UNCHANGED <<forwards[t], burials[t]>>,
               pc[c] \in Holding,
               \A t \in Tasks : BalanceKept(t)
        PROVE  DuplicatesInv'
    <2>1. Task(c) \in offered
      BY <1>0, <1>2, HeldEntry
    <2> QED BY <1>2, <2>1, BoundKept DEF Outcomes
  <1>3. ASSUME NEW s \in Tasks, Offer(s) PROVE DuplicatesInv'
    <2> DEFINE e == [task |-> s, attempts |-> 0]
    <2>0. PICK n \in Nat : n = Len(log) + 1
      BY <1>0
    <2>1. e \in Entry /\ e.task = s
      BY MaxAttemptsAssumption DEF Entry
    <2>2. /\ log' = Append(log, e)
          /\ s \notin offered /\ offered' = offered \cup {s}
          /\ UNCHANGED <<delivered, pel, stale, pc, entry, forwards, burials, faults>>
      BY <1>3 DEF Offer, workerVars
    <2> HIDE DEF e
    <2>3. /\ Len(log') = n
          /\ \A i \in 1..Len(log) : log'[i] = log[i]
          /\ log'[n] = e
      BY <1>0, <2>0, <2>1, <2>2, AppendEntry DEF TypeOK
    <2>4. Positions' = Positions \cup {n} /\ Held' = Held
      BY <1>0, <2>0, <2>2, <2>3 DEF Positions, Held
    <2>5. /\ \A i \in Positions : TaskOf(i)' = TaskOf(i)
          /\ TaskOf(n)' = s
      BY <2>1, <2>3 DEF Positions, TaskOf
    <2>6. \A t \in Tasks : AtWork(t)' = AtWork(t)
      <3>1. \A c \in Consumers : pc[c] \in Holding => Task(c)' = Task(c)
        BY <1>0, <2>2, <2>5, HeldEntry DEF Task, TaskOf
      <3> QED BY <2>2, <3>1 DEF AtWork
    <2>7. Waiting(s) = {} /\ AtWork(s) = {}
      <3>1. \A i \in Positions : TaskOf(i) # s
        BY <1>0, <2>2 DEF TypeOK
      <3>2. \A c \in Consumers : pc[c] \in Holding => Task(c) # s
        BY <1>0, <2>2, HeldEntry
      <3> QED BY <3>1, <3>2 DEF Waiting, AtWork
    <2>8. UNCHANGED <<forwards, burials, faults>>
      BY <2>2
    <2>9. CopiesBounded'
      <3> SUFFICES ASSUME NEW t \in Tasks
                   PROVE  /\ IsFiniteSet(AtWork(t))'
                          /\ Outcomes(t)' + Copies(t)' <= 1 + faults'
        BY DEF CopiesBounded
      <3>1. IsFiniteSet(AtWork(t)')
        BY <1>0, <2>6
      <3>2. CASE t = s
        <4>1. Waiting(t)' \subseteq {} \cup {n}
          BY <2>4, <2>5, <2>7, <2>2, <3>2 DEF Waiting
        <4>2. /\ Cardinality(Waiting(t)') \in Nat
              /\ Cardinality(Waiting(t)') <= 0 + 1
          BY <4>1, SetGrows, FS_EmptySet
        <4>3. Cardinality(AtWork(t)') = 0
          BY <2>6, <2>7, <3>2, FS_EmptySet
        <4>4. Outcomes(t)' = 0
          BY <2>2, <3>2 DEF Outcomes, DuplicatesInv, UnofferedUntouched
        <4>5. faults' \in Nat
          BY <1>0, <2>2
        <4> QED BY <3>1, <4>2, <4>3, <4>4, <4>5 DEF Copies
      <3>3. CASE t # s
        <4>1. Waiting(t)' = Waiting(t)
          BY <1>0, <2>0, <2>2, <2>4, <2>5, <3>3 DEF Waiting, Positions
        <4> QED BY <2>6, <2>8, <3>1, <4>1
                DEF Outcomes, Copies, DuplicatesInv, CopiesBounded
      <3> QED BY <3>2, <3>3
    <2>10. UnofferedUntouched'
      BY <2>2 DEF DuplicatesInv, UnofferedUntouched, Outcomes
    <2> QED BY <2>9, <2>10 DEF DuplicatesInv
  <1>4. ASSUME NEW i \in pel, GoStale(i) PROVE DuplicatesInv'
    <2>1. \A t \in Tasks : Waiting(t)' \subseteq Waiting(t) /\ AtWork(t)' = AtWork(t)
      BY <1>4 DEF GoStale, workerVars, Waiting, AtWork, Positions, TaskOf, Held, Task
    <2>2. UNCHANGED <<offered, forwards, burials, faults>> /\ faults' >= faults
      BY <1>0, <1>4 DEF GoStale, outcomeVars
    <2>3. \A t \in Tasks : BalanceKept(t)
      BY <1>0, <2>1, <2>2, NothingAdded DEF Outcomes
    <2> QED BY <1>1, <2>2, <2>3
  <1>5. ASSUME NEW i \in pel, OutlastClaim(i) PROVE DuplicatesInv'
    <2>1. \A t \in Tasks : Waiting(t)' \subseteq Waiting(t) \cup {i} /\ AtWork(t)' = AtWork(t)
      BY <1>5 DEF OutlastClaim, workerVars, Waiting, AtWork, Positions, TaskOf, Held, Task
    <2>2. UNCHANGED <<offered, forwards, burials>> /\ faults' = faults + 1
      BY <1>5 DEF OutlastClaim, outcomeVars, Fault
    <2>3. \A t \in Tasks : BalanceKept(t)
      BY <1>0, <2>1, <2>2, FaultAddsEntry DEF Outcomes
    <2> QED BY <1>1, <2>2, <2>3
  <1>6. ASSUME NEW c \in Consumers, NothingStale(c) \/ NothingNew(c) \/ Handled(c) \/ Raised(c)
        PROVE  DuplicatesInv'
    <2>1. /\ UNCHANGED <<log, delivered, pel, stale, entry, offered, forwards, burials, faults>>
          /\ \E point \in Points : pc' = [pc EXCEPT ![c] = point]
                /\ (point \in Holding \ {"ack"} <=> pc[c] \in Holding \ {"ack"})
                /\ (point \in Holding <=> pc[c] \in Holding)
      BY <1>6 DEF NothingStale, NothingNew, Handled, Raised, Goto, queueVars,
                  outcomeVars, Points, Holding
    <2>2. Held' = Held
      BY <1>0, <2>1 DEF Held
    <2>3. \A t \in Tasks : Waiting(t)' \subseteq Waiting(t)
      BY <2>1, <2>2 DEF Waiting, Positions, TaskOf
    <2>4. \A t \in Tasks : AtWork(t)' \subseteq AtWork(t)
      BY <1>0, <2>1 DEF AtWork, Task, TaskOf
    <2>5. faults' >= faults
      BY <1>0, <2>1
    <2>6. \A t \in Tasks : BalanceKept(t)
      BY <1>0, <2>1, <2>3, <2>4, <2>5, NothingAdded DEF Outcomes
    <2> QED BY <1>1, <2>1, <2>6
  <1>7. ASSUME NEW c \in Consumers, ClaimStale(c) \/ ReadNew(c) PROVE DuplicatesInv'
    <2>1. /\ pc[c] \notin Holding
          /\ UNCHANGED <<log, offered, forwards, burials, faults>>
      BY <1>7 DEF ClaimStale, ReadNew, outcomeVars, Holding
    <2>2. PICK k \in Positions :
            /\ k \in Waiting(TaskOf(k))
            /\ Hold(c, k)
            /\ delivered' >= delivered /\ delivered' \in Nat
            /\ k \notin stale' /\ k <= delivered'
            /\ stale' \subseteq stale /\ pel' \subseteq pel \cup {k}
      <3>1. CASE ClaimStale(c)
        <4>1. PICK k \in stale : Hold(c, k) /\ stale' = stale \ {k}
          BY <3>1 DEF ClaimStale
        <4>2. k \in Positions /\ k <= delivered /\ k \in Waiting(TaskOf(k))
          BY <1>0, <4>1 DEF Positions, Waiting
        <4>3. UNCHANGED <<delivered, pel>>
          BY <3>1 DEF ClaimStale
        <4> QED BY <1>0, <4>1, <4>2, <4>3
      <3>2. CASE ReadNew(c)
        <4>1. PICK k \in Nat : k = delivered + 1
          BY <1>0
        <4>2. /\ delivered < Len(log) /\ delivered' = k
              /\ pel' = pel \cup {k} /\ stale' = stale /\ Hold(c, k)
          BY <3>2, <4>1 DEF ReadNew
        <4>3. k \in Positions /\ k > delivered /\ k \in Waiting(TaskOf(k))
          BY <1>0, <4>1, <4>2 DEF Positions, Waiting
        <4>4. k \notin stale
          BY <1>0, <4>1
        <4> QED BY <1>0, <4>1, <4>2, <4>3, <4>4
      <3> QED BY <1>7, <3>1, <3>2
    <2>3. \A t \in Tasks : BalanceKept(t)
      BY <1>0, <2>1, <2>2, EntryTaken
    <2> QED BY <1>1, <2>1, <2>3
  <1>8. ASSUME NEW c \in Consumers, Forward(c) \/ ForwardReplyLost(c)
        PROVE  DuplicatesInv'
    <2>1. /\ pc[c] \in Holding /\ UNCHANGED <<offered, burials>>
          /\ forwards' = [forwards EXCEPT ![Task(c)] = @ + 1]
      BY <1>8 DEF Forward, ForwardReplyLost, Count, Holding
    <2>2. \A t \in Tasks : BalanceKept(t)
      BY <1>0, <1>8, ForwardBalanced
    <2> QED BY <1>0, <1>2, <2>1, <2>2
  <1>9. ASSUME NEW c \in Consumers, Requeue(c) \/ RequeueReplyLost(c)
        PROVE  DuplicatesInv'
    <2>1. /\ pc[c] = "retry" /\ pc[c] \in Holding /\ PutBack(c)
          /\ UNCHANGED <<delivered, pel, stale, offered, forwards>>
          /\ burials' \in {burials, [burials EXCEPT ![Task(c)] = @ + 1]}
      BY <1>9 DEF Requeue, RequeueReplyLost, Holding, PutBack, PutBackBy, Count
    <2>2. /\ pc'[c] \in {"ack", "poll"}
          /\ \A d \in Consumers : d # c => pc'[d] = pc[d] /\ entry'[d] = entry[d]
      BY <1>0, <1>9 DEF Requeue, RequeueReplyLost, Release, Goto, TypeOK
    <2>3. /\ Held' \subseteq Held
          /\ \/ Held' = Held /\ faults' = faults
             \/ Held \subseteq Held' \cup {entry[c]} /\ faults' = faults + 1
      <3>1. CASE Requeue(c)
        <4>1. pc' = [pc EXCEPT ![c] = "ack"] /\ UNCHANGED <<entry, faults>>
          BY <3>1 DEF Requeue, Goto
        <4>2. Held' = Held
          BY <1>0, <2>1, <4>1 DEF Held, Holding
        <4> QED BY <4>1, <4>2
      <3>2. CASE RequeueReplyLost(c)
        BY <1>0, <2>1, <3>2, HeldAfterRelease DEF RequeueReplyLost, Fault
      <3> QED BY <1>9, <3>1, <3>2
    <2>4. \A t \in Tasks : BalanceKept(t)
      BY <1>0, <2>1, <2>2, <2>3, PutBackBalanced
    <2> QED BY <1>0, <1>2, <2>1, <2>4
  <1>10. ASSUME NEW c \in Consumers,
                Ack(c) \/ RequeueFailed(c) \/ AckFailed(c) \/ Crash(c)
         PROVE  DuplicatesInv'
    <2>1. /\ pc[c] \in Holding /\ Release(c)
          /\ UNCHANGED <<log, delivered, offered, forwards, burials>>
          /\ \/ UNCHANGED <<pel, stale>> /\ faults' = faults + 1
             \/ /\ pc[c] = "ack" /\ faults' = faults
                /\ pel' = pel \ {entry[c]} /\ stale' = stale \ {entry[c]}
      BY <1>10 DEF Ack, RequeueFailed, AckFailed, Crash, Fault, queueVars,
                   outcomeVars, Holding
    <2>2. \A t \in Tasks : BalanceKept(t)
      BY <1>0, <2>1, ReleaseBalanced
    <2> QED BY <1>1, <2>1, <2>2
  <1>11. CASE UNCHANGED vars
    BY <1>11 DEF vars, queueVars, workerVars, outcomeVars, DuplicatesInv,
                 CopiesBounded, UnofferedUntouched, Outcomes, Copies, Waiting,
                 AtWork, Positions, TaskOf, Task, Held
  <1> QED
    BY <1>3, <1>4, <1>5, <1>6, <1>7, <1>8, <1>9, <1>10, <1>11
       DEF Next, Step, FaultyStep

\* For any tasks, workers, retries and faults, a task is handed on or
\* dead-lettered at most once more than there were faults: every duplicate of
\* a transcript is the trace of a crash, a lost reply or a handler slower than
\* the claim time-out.  The invariant counts the copies that wait in the
\* stream and the workers that are about to act on one.
THEOREM DuplicatesComeFromFaults == Spec => []DuplicatesNeedFaults
  <1>1. Init => DuplicatesInv
    <2>1. Init => TypeOK
      BY MaxFaultsAssumption DEF Init, TypeOK, Positions, Points, Holding
    <2>2. ASSUME Init, NEW t \in Tasks
          PROVE  Waiting(t) = {} /\ AtWork(t) = {} /\ Outcomes(t) = 0 /\ faults = 0
      BY <2>2 DEF Init, Waiting, AtWork, Outcomes, Positions, Holding
    <2> QED BY <2>1, <2>2, FS_EmptySet
            DEF DuplicatesInv, CopiesBounded, UnofferedUntouched, Copies
  <1>2. DuplicatesInv /\ [Next]_vars => DuplicatesInv'
    BY TypeStep, DuplicatesStep DEF DuplicatesInv
  <1>3. DuplicatesInv => DuplicatesNeedFaults
    <2> SUFFICES ASSUME DuplicatesInv, NEW t \in Tasks
                 PROVE  forwards[t] + burials[t] <= 1 + faults
      BY DEF DuplicatesNeedFaults
    <2>1. Outcomes(t) + Copies(t) <= 1 + faults /\ IsFiniteSet(AtWork(t))
      BY DEF DuplicatesInv, CopiesBounded
    <2> QED BY <2>1, Numbers DEF DuplicatesInv, Outcomes, Copies
  <1> QED BY <1>1, <1>2, <1>3, PTL DEF Spec
=============================================================================
