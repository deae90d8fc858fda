---------------------------- MODULE AtLeastOnce ----------------------------
(***************************************************************************)
(* What one stage of the task pipeline promises to the stage before it: a  *)
(* task that was offered is executed at least once, or is dead-lettered,   *)
(* and it is never dropped before one of the two has happened.  A task may *)
(* be executed more than once.                                             *)
(***************************************************************************)

CONSTANT Tasks

VARIABLES offered,    \* tasks the producer has enqueued
          live,       \* tasks some copy of which may still be executed
          executed,   \* tasks handed on to the next stage
          dead        \* tasks moved to the dead-letter stream

vars == <<offered, live, executed, dead>>

TypeOK == /\ offered \subseteq Tasks
          /\ live \subseteq offered
          /\ executed \subseteq offered
          /\ dead \subseteq offered

Settled == executed \cup dead

Init == /\ offered = {}
        /\ live = {}
        /\ executed = {}
        /\ dead = {}

\* Offering a task again is allowed: the stage before may execute it twice.
Offer(t) == /\ offered' = offered \cup {t}
            /\ live' = live \cup {t}
            /\ UNCHANGED <<executed, dead>>

\* The copy that settles the task may be the last one, or not.
Execute(t) == /\ t \in live
              /\ executed' = executed \cup {t}
              /\ live' \in {live, live \ {t}}
              /\ UNCHANGED <<offered, dead>>

Bury(t) == /\ t \in live
           /\ dead' = dead \cup {t}
           /\ live' \in {live, live \ {t}}
           /\ UNCHANGED <<offered, executed>>

\* The last copy of a task goes only once the task is settled.
Retire(t) == /\ t \in live
             /\ t \in Settled
             /\ live' = live \ {t}
             /\ UNCHANGED <<offered, executed, dead>>

Next == \E t \in Tasks : Offer(t) \/ Execute(t) \/ Bury(t) \/ Retire(t)

Fairness == \A t \in Tasks : WF_vars((Execute(t) \/ Bury(t)) /\ t \notin Settled)

Spec == Init /\ [][Next]_vars

FairSpec == Spec /\ Fairness
=============================================================================
