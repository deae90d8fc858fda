----------------------------- MODULE TaskStream -----------------------------
(***************************************************************************)
(* One Redis stream of the task pipeline (q:stt ... q:retention), its      *)
(* consumer group and the worker processes that serve it:                  *)
(*   queue/streams.py   XADD, XAUTOCLAIM, XREADGROUP and XACK              *)
(*   queue/retry.py     requeue with an attempt count, or dead-letter      *)
(*   apps/worker_*      the loop that wraps every stage's handler          *)
(*                                                                         *)
(* A stream entry is its position in the log.  The group remembers the     *)
(* last entry it handed out and the entries handed out but not             *)
(* acknowledged.  What a handler does to the database is modelled in       *)
(* Pipeline; here it either commits or raises.                             *)
(*                                                                         *)
(* Faults (a crash, a reply lost on its way back from Redis, a handler     *)
(* slower than the claim time-out) are bounded by MaxFaults.               *)
(***************************************************************************)
EXTENDS Naturals, Sequences

CONSTANTS Tasks,        \* the tasks the producer may enqueue
          Consumers,    \* worker processes in the consumer group
          MaxAttempts,  \* max_attempts of requeue_with_backoff
          MaxFaults     \* bound on the faults of one behaviour

ASSUME MaxAttemptsAssumption == MaxAttempts \in Nat
ASSUME MaxFaultsAssumption == MaxFaults \in Nat

VARIABLES log,         \* the stream: its entries, oldest first
          delivered,   \* position of the last entry handed to the group
          pel,         \* pending entries list: handed out, not acknowledged
          stale,       \* entries of pel idle for min_idle_claim_ms
          pc,          \* where each worker's loop stands
          entry,       \* the entry each worker holds, 0 if none
          offered,     \* tasks the producer has enqueued
          forwards,    \* how often each task was handed to the next stage
          burials,     \* how often each task was sent to <queue>:dlq
          failures,    \* how often handling each task raised
          faults       \* faults so far

queueVars == <<log, delivered, pel, stale>>
workerVars == <<pc, entry>>
outcomeVars == <<offered, forwards, burials, failures>>
vars == <<queueVars, workerVars, outcomeVars, faults>>

Entry == [task : Tasks, attempts : 0..MaxAttempts]

\* Points of run_loop: about to claim, about to read new, in the handler's
\* transaction, about to enqueue the next stage, in requeue_with_backoff,
\* about to acknowledge.
Holding == {"work", "forward", "retry", "ack"}
Points == {"poll", "read"} \cup Holding

Positions == 1..Len(log)

\* Entries the group still owes an acknowledgement for.
Outstanding == {i \in Positions : i > delivered \/ i \in pel}

TaskOf(i) == log[i].task

Settled == {t \in Tasks : forwards[t] > 0 \/ burials[t] > 0}

TypeOK ==
  /\ log \in Seq(Entry)
  /\ delivered \in 0..Len(log)
  /\ pel \subseteq 1..delivered
  /\ stale \subseteq pel
  /\ pc \in [Consumers -> Points]
  /\ entry \in [Consumers -> 0..delivered]
  /\ \A c \in Consumers : pc[c] \in Holding <=> entry[c] # 0
  /\ offered \subseteq Tasks
  /\ \A i \in Positions : TaskOf(i) \in offered
  /\ forwards \in [Tasks -> Nat]
  /\ burials \in [Tasks -> Nat]
  /\ failures \in [Tasks -> Nat]
  /\ faults \in 0..MaxFaults

Init ==
  /\ log = <<>>
  /\ delivered = 0
  /\ pel = {}
  /\ stale = {}
  /\ pc = [c \in Consumers |-> "poll"]
  /\ entry = [c \in Consumers |-> 0]
  /\ offered = {}
  /\ forwards = [t \in Tasks |-> 0]
  /\ burials = [t \in Tasks |-> 0]
  /\ failures = [t \in Tasks |-> 0]
  /\ faults = 0

-----------------------------------------------------------------------------
(* The producer and the clock.                                             *)

\* enqueue_stt and its siblings: a fresh payload, which carries no attempts.
Offer(t) ==
  /\ t \notin offered
  /\ offered' = offered \cup {t}
  /\ log' = Append(log, [task |-> t, attempts |-> 0])
  /\ UNCHANGED <<delivered, pel, stale, workerVars, forwards, burials,
                 failures, faults>>

Held == {entry[c] : c \in {d \in Consumers : pc[d] \in Holding}}

Fault == faults < MaxFaults /\ faults' = faults + 1

\* A pending entry nobody works on reaches the idle time of XAUTOCLAIM.
GoStale(i) ==
  /\ i \in (pel \ stale) \ Held
  /\ stale' = stale \cup {i}
  /\ UNCHANGED <<log, delivered, pel, workerVars, outcomeVars, faults>>

\* So does an entry whose worker is slower than that: nothing renews it.
OutlastClaim(i) ==
  /\ i \in (pel \ stale) \cap Held
  /\ Fault
  /\ stale' = stale \cup {i}
  /\ UNCHANGED <<log, delivered, pel, workerVars, outcomeVars>>

-----------------------------------------------------------------------------
(* read_task: stale pending entries first, then new ones.                  *)

Goto(c, point) == pc' = [pc EXCEPT ![c] = point]

Hold(c, i) == /\ entry' = [entry EXCEPT ![c] = i]
              /\ Goto(c, "work")

Release(c) == /\ entry' = [entry EXCEPT ![c] = 0]
              /\ Goto(c, "poll")

\* XAUTOCLAIM from 0-0 with COUNT 1 takes the oldest stale entry.
ClaimStale(c) ==
  /\ pc[c] = "poll"
  /\ \E i \in stale :
       /\ \A j \in stale : i <= j
       /\ stale' = stale \ {i}
       /\ Hold(c, i)
  /\ UNCHANGED <<log, delivered, pel, outcomeVars, faults>>

NothingStale(c) ==
  /\ pc[c] = "poll"
  /\ stale = {}
  /\ Goto(c, "read")
  /\ UNCHANGED <<queueVars, entry, outcomeVars, faults>>

ReadNew(c) ==
  /\ pc[c] = "read"
  /\ delivered < Len(log)
  /\ delivered' = delivered + 1
  /\ pel' = pel \cup {delivered + 1}
  /\ Hold(c, delivered + 1)
  /\ UNCHANGED <<log, stale, outcomeVars, faults>>

NothingNew(c) ==
  /\ pc[c] = "read"
  /\ delivered = Len(log)
  /\ Goto(c, "poll")
  /\ UNCHANGED <<queueVars, entry, outcomeVars, faults>>

-----------------------------------------------------------------------------
(* The body of run_loop.                                                   *)

Task(c) == TaskOf(entry[c])

Count(f, c) == [f EXCEPT ![Task(c)] = @ + 1]

\* The handler's transaction commits.
Handled(c) ==
  /\ pc[c] = "work"
  /\ Goto(c, "forward")
  /\ UNCHANGED <<queueVars, entry, outcomeVars, faults>>

\* Mutant of Raised: the entry is acknowledged instead of put back.
RaisedAndAcked(c) ==
  /\ pc[c] \in {"work", "forward"}
  /\ Goto(c, "ack")
  /\ failures' = Count(failures, c)
  /\ UNCHANGED <<queueVars, entry, offered, forwards, burials, faults>>

\* The handler, or the call that enqueues the next stage, raises.
Raised(c) ==
  /\ pc[c] \in {"work", "forward"}
  /\ Goto(c, "retry")
  /\ failures' = Count(failures, c)
  /\ UNCHANGED <<queueVars, entry, offered, forwards, burials, faults>>

Forward(c) ==
  /\ pc[c] = "forward"
  /\ forwards' = Count(forwards, c)
  /\ Goto(c, "ack")
  /\ UNCHANGED <<queueVars, entry, offered, burials, failures, faults>>

\* The next stage's XADD took effect but its reply was lost.
ForwardReplyLost(c) ==
  /\ pc[c] = "forward"
  /\ Fault
  /\ forwards' = Count(forwards, c)
  /\ failures' = Count(failures, c)
  /\ Goto(c, "retry")
  /\ UNCHANGED <<queueVars, entry, offered, burials>>

\* requeue_with_backoff: the payload's attempts is one more than the entry's.
Attempts(c) == log[entry[c]].attempts + 1

PutBackBy(c, last) ==
  IF last
    THEN burials' = Count(burials, c) /\ log' = log
    ELSE /\ log' = Append(log, [task |-> Task(c), attempts |-> Attempts(c)])
         /\ burials' = burials

\* Mutant of PutBack: one attempt too few.
PutBackTooFew(c) == PutBackBy(c, Attempts(c) >= MaxAttempts)

PutBack(c) == PutBackBy(c, Attempts(c) > MaxAttempts)

\* Mutant of Requeue: should_ack is not set after a retry.
RequeueUnacked(c) ==
  /\ pc[c] = "retry"
  /\ PutBack(c)
  /\ Release(c)
  /\ UNCHANGED <<delivered, pel, stale, offered, forwards, failures, faults>>

Requeue(c) ==
  /\ pc[c] = "retry"
  /\ PutBack(c)
  /\ Goto(c, "ack")
  /\ UNCHANGED <<delivered, pel, stale, entry, offered, forwards, failures,
                 faults>>

\* requeue_with_backoff raised: the entry is not acknowledged.
RequeueFailed(c) ==
  /\ pc[c] = "retry"
  /\ Fault
  /\ Release(c)
  /\ UNCHANGED <<queueVars, outcomeVars>>

RequeueReplyLost(c) ==
  /\ pc[c] = "retry"
  /\ Fault
  /\ PutBack(c)
  /\ Release(c)
  /\ UNCHANGED <<delivered, pel, stale, offered, forwards, failures>>

\* XACK removes the entry whoever holds it by now.
Ack(c) ==
  /\ pc[c] = "ack"
  /\ pel' = pel \ {entry[c]}
  /\ stale' = stale \ {entry[c]}
  /\ Release(c)
  /\ UNCHANGED <<log, delivered, outcomeVars, faults>>

\* An exception of ack_task is suppressed.
AckFailed(c) ==
  /\ pc[c] = "ack"
  /\ Fault
  /\ Release(c)
  /\ UNCHANGED <<queueVars, outcomeVars>>

\* Mutant of Crash: entries are acknowledged when read (NOACK).
CrashForgets(c) ==
  /\ pc[c] \in Holding
  /\ Fault
  /\ pel' = pel \ {entry[c]}
  /\ stale' = stale \ {entry[c]}
  /\ Release(c)
  /\ UNCHANGED <<log, delivered, outcomeVars>>

\* The process dies and is started again: all it knew is gone.
Crash(c) ==
  /\ pc[c] \in Holding
  /\ Fault
  /\ Release(c)
  /\ UNCHANGED <<queueVars, outcomeVars>>

-----------------------------------------------------------------------------
Step(c) ==
  \/ ClaimStale(c) \/ NothingStale(c) \/ ReadNew(c) \/ NothingNew(c)
  \/ Handled(c) \/ Raised(c) \/ Forward(c) \/ Requeue(c) \/ Ack(c)

FaultyStep(c) ==
  \/ ForwardReplyLost(c) \/ RequeueFailed(c) \/ RequeueReplyLost(c)
  \/ AckFailed(c) \/ Crash(c)

Next ==
  \/ \E t \in Tasks : Offer(t)
  \/ \E i \in pel : GoStale(i) \/ OutlastClaim(i)
  \/ \E c \in Consumers : Step(c) \/ FaultyStep(c)

Spec == Init /\ [][Next]_vars

\* A worker that is up keeps looping, its handler and its Redis calls return,
\* and time passes for an entry nobody works on.
Fairness ==
  /\ \A c \in Consumers : WF_vars(Step(c))
  /\ WF_vars(\E i \in pel : GoStale(i))

FairSpec == Spec /\ Fairness

-----------------------------------------------------------------------------
(* Properties.                                                             *)

\* Task t is settled, or the group will still take an entry of it that is
\* younger than entry k.
SafeFrom(t, k) ==
  t \in Settled \/ \E i \in Outstanding : i > k /\ TaskOf(i) = t

\* Whatever crashes, replies lost or slow handlers do, a task that was
\* enqueued is still in the stream for the group to take, or was handed to
\* the next stage, or is in the dead-letter stream.
NoTaskLost == \A t \in offered : SafeFrom(t, 0)

\* A worker that is about to acknowledge an entry leaves its task settled or
\* in a younger entry, even when others have claimed the same entry, put it
\* back and acknowledged it meanwhile: should_ack is only set after the next
\* stage's or the retry's XADD.
AckIsSafe ==
  \A c \in Consumers : pc[c] = "ack" => SafeFrom(Task(c), entry[c])

\* A task is handed on or dead-lettered once, plus at most once more for
\* every fault: duplicates come from faults only, one per fault.
DuplicatesNeedFaults ==
  \A t \in Tasks : forwards[t] + burials[t] <= 1 + faults

\* A task is dead-lettered only after the handler raised on it max_attempts
\* times and once more, whatever duplicates of it were in flight.
DeadOnlyAfterRetries ==
  \A t \in Tasks : burials[t] > 0 => failures[t] > MaxAttempts

\* Every entry is eventually acknowledged: nothing is reprocessed for ever.
EventuallyDrained == <>[](Outstanding = {})

\* Tasks some copy of which the group or a worker still holds.
Live == {TaskOf(i) : i \in Outstanding \cup Held}

Forwarded == {t \in Tasks : forwards[t] > 0}

Buried == {t \in Tasks : burials[t] > 0}

\* The stream, its group and its workers keep the promise of AtLeastOnce.
Promise == INSTANCE AtLeastOnce WITH
  live <- Live,
  executed <- Forwarded,
  dead <- Buried

KeepsPromise == Promise!Spec

KeepsFairPromise == Promise!FairSpec
=============================================================================
