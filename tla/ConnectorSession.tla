-------------------------- MODULE ConnectorSession --------------------------
(***************************************************************************)
(* The bot of the SberJazz connector in one meeting                        *)
(* (services/sberjazz_service.py): joining, leaving and reconnecting under *)
(* a Redis lock with a time-out, the session record, the circuit breaker,  *)
(* and the reconciliation job, which reconnects sessions not heard of for  *)
(* a while and pulls the live audio of the others                          *)
(* (jobs/reconciliation_job.py).                                           *)
(*                                                                         *)
(* The platform is outside: it lets the bot in and out, may lose it, may   *)
(* fail a call before or after the call took effect.  Retries inside one   *)
(* operation are part of its call.  How many pulls in a row failed is left *)
(* open: a failed pull may be the one that asks for a reconnect.           *)
(***************************************************************************)
EXTENDS Naturals, FiniteSets

CONSTANTS Admins,       \* threads serving the admin API
          Jobs,         \* threads running the reconciliation job
          NoOne,
          PullsLive,     \* sberjazz_live_pull_enabled
          Threshold,    \* sberjazz_cb_failure_threshold
          MaxRequests,  \* bound on admin requests
          MaxSlow,      \* bound on operations that outlast the lock
          MaxDrops,     \* bound on bots the platform loses
          MaxMishaps     \* bound on failed calls and crashes

Callers == Admins \cup Jobs

ASSUME CallersAssumption == Admins \cap Jobs = {} /\ NoOne \notin Callers
ASSUME PullsLiveAssumption == PullsLive \in BOOLEAN
ASSUME BoundsAssumption ==
  /\ Threshold \in Nat \ {0}
  /\ MaxRequests \in Nat /\ MaxSlow \in Nat
  /\ MaxDrops \in Nat /\ MaxMishaps \in Nat

VARIABLES lock,       \* holder of the meeting's operation lock
          pc,         \* where each caller stands
          op,         \* the operation each caller is in
          session,    \* SberJazzSessionState, with its age
          breaker,    \* SberJazzCircuitBreakerState
          attending,  \* the bot really is in the meeting
          goal,       \* what the last admin operation achieved
          unsure,     \* a call or the platform failed since one succeeded
          requests, slow, drops, mishaps

progress == <<pc, op>>
ghosts == <<goal, unsure>>
bounds == <<requests, slow, drops, mishaps>>
sessionVars == <<lock, progress, session, breaker, attending, ghosts, bounds>>

\* Points of an operation: reconnect looks at the session; before, in and
\* after the platform's leave and join (rejoin: the join of a reconnect whose
\* leave failed); then get and delete of the lock.
Inside == {"choose", "leave", "leaving", "left", "stay", "join", "rejoin",
           "joining", "joined", "apart", "release", "delete"}

\* Points of a run of the job: it lists the sessions, reconnects a stale one,
\* lists them again and pulls the audio of the connected ones.
Running == {"look", "stale", "listen", "pull", "touch", "flaky"}

\* Reconnecting on an admin's request, for staleness, for failed pulls.
Reconnects == {"reconnect", "reconcile", "recover"}
Operations == {"none", "join", "leave"} \cup Reconnects

\* An open breaker has cooled when its cool-down is over.
Closed == [state |-> "closed", failures |-> 0]

\* Fresh enough to join without a call, or old enough to be reconciled.
Ages == {"fresh", "recent", "stale"}

Stale(s) == s.connected /\ s.age = "stale"

Connected == [connected |-> TRUE, age |-> "fresh"]
Disconnected == [connected |-> FALSE, age |-> "fresh"]

SessionTypeOK ==
  /\ lock \in Callers \cup {NoOne}
  /\ pc \in [Callers -> {"idle"} \cup Running \cup Inside]
  /\ op \in [Callers -> Operations]
  /\ \A c \in Callers : pc[c] \in Inside <=> op[c] # "none"
  /\ session \in [connected : BOOLEAN, age : Ages]
  /\ breaker \in [state : {"closed", "open", "cooled", "half_open"},
                  failures : 0..Threshold]
  /\ breaker.state # "closed" <=> breaker.failures = Threshold
  /\ attending \in BOOLEAN
  /\ goal \in {"none", "in", "out"}
  /\ unsure \in BOOLEAN
  /\ requests \in 0..MaxRequests
  /\ slow \in 0..MaxSlow
  /\ drops \in 0..MaxDrops
  /\ mishaps \in 0..MaxMishaps

SessionInit ==
  /\ lock = NoOne
  /\ pc = [c \in Callers |-> "idle"]
  /\ op = [c \in Callers |-> "none"]
  /\ session = Disconnected
  /\ breaker = Closed
  /\ attending = FALSE
  /\ goal = "none"
  /\ unsure = FALSE
  /\ requests = 0
  /\ slow = 0
  /\ drops = 0
  /\ mishaps = 0

Mishap == mishaps < MaxMishaps /\ mishaps' = mishaps + 1

GoOn(c, point) == pc' = [pc EXCEPT ![c] = point]

-----------------------------------------------------------------------------
(* The operation lock.                                                     *)

Start(c, o) ==
  /\ lock' = c
  /\ op' = [op EXCEPT ![c] = o]
  /\ GoOn(c, IF o \in Reconnects THEN "choose" ELSE o)

\* Mutant: SET without NX.
EnterAnyway(c, o) == Start(c, o)

\* SET NX, and the first step of the operation.
Enter(c, o) == lock = NoOne /\ Start(c, o)

Exit(c) ==
  /\ op' = [op EXCEPT ![c] = "none"]
  /\ GoOn(c, IF op[c] = "reconcile" THEN "listen" ELSE "idle")

\* The lock is released by whoever's token it holds; read first, ...
Release(c) ==
  /\ pc[c] = "release"
  /\ IF lock = c THEN GoOn(c, "delete") /\ UNCHANGED op ELSE Exit(c)
  /\ UNCHANGED <<lock, session, breaker, attending, ghosts, bounds>>

\* ... deleted next, whoever holds it by now.
Delete(c) ==
  /\ pc[c] = "delete"
  /\ lock' = NoOne
  /\ Exit(c)
  /\ UNCHANGED <<session, breaker, attending, ghosts, bounds>>

\* Mutant: the lock has no time-out.
ExpireNever == FALSE /\ UNCHANGED sessionVars

\* The time-out frees a lock whose holder died ...
ExpireOrphan ==
  /\ lock # NoOne
  /\ pc[lock] \notin Inside
  /\ lock' = NoOne
  /\ UNCHANGED <<progress, session, breaker, attending, ghosts, bounds>>

\* ... and one whose holder is slower than it: nothing renews it.
OutlastLock ==
  /\ lock # NoOne
  /\ pc[lock] \in Inside
  /\ slow < MaxSlow
  /\ slow' = slow + 1
  /\ lock' = NoOne
  /\ UNCHANGED <<progress, session, breaker, attending, ghosts, requests,
                 drops, mishaps>>

-----------------------------------------------------------------------------
(* The circuit breaker.                                                    *)

Success == breaker' = Closed

\* The count of an open breaker is not looked at.
Failure ==
  breaker' =
    IF breaker.state = "half_open" \/ breaker.failures + 1 >= Threshold
      THEN [state |-> "open", failures |-> Threshold]
      ELSE [state |-> "closed", failures |-> breaker.failures + 1]

\* _before_connector_call lets the call pass ...
Passes ==
  /\ breaker.state # "open"
  /\ breaker' = IF breaker.state = "cooled"
                  THEN [breaker EXCEPT !.state = "half_open"] ELSE breaker

\* ... or raises.
Blocks == breaker.state = "open" /\ UNCHANGED breaker

Cool ==
  /\ breaker.state = "open"
  /\ breaker' = [breaker EXCEPT !.state = "cooled"]
  /\ UNCHANGED <<lock, progress, session, attending, ghosts, bounds>>

\* The admin API's reset.
ResetBreaker ==
  /\ breaker # Closed
  /\ Success
  /\ UNCHANGED <<lock, progress, session, attending, ghosts, bounds>>

-----------------------------------------------------------------------------
(* Operations: join, leave and reconnect.                                  *)

\* A request that finds the lock taken is refused and changes nothing.
Request(c) ==
  /\ pc[c] = "idle"
  /\ requests < MaxRequests
  /\ requests' = requests + 1
  /\ \E o \in {"join", "leave", "reconnect"} : Enter(c, o)
  /\ UNCHANGED <<session, breaker, attending, ghosts, slow, drops, mishaps>>

Choose(c) ==
  /\ pc[c] = "choose"
  /\ GoOn(c, IF session.connected THEN "leave" ELSE "join")
  /\ UNCHANGED <<lock, op, session, breaker, attending, ghosts, bounds>>

\* Where an operation goes when its leave is over.
AfterLeave(c, join) == GoOn(c, IF op[c] \in Reconnects THEN join ELSE "release")

BeforeLeave(c) ==
  /\ pc[c] = "leave"
  /\ \/ Passes /\ GoOn(c, "leaving")
     \/ Blocks /\ AfterLeave(c, "join")
  /\ UNCHANGED <<lock, op, session, attending, ghosts, bounds>>

\* The platform may refuse to let out a bot that is not in.
LeaveCall(c) ==
  /\ pc[c] = "leaving"
  /\ \/ /\ attending' = FALSE
        /\ unsure' = FALSE
        /\ GoOn(c, "left")
        /\ UNCHANGED mishaps
     \/ /\ attending' \in {attending, FALSE}
        /\ GoOn(c, "stay")
        /\ unsure' = TRUE
        /\ IF attending THEN Mishap ELSE UNCHANGED mishaps
  /\ UNCHANGED <<lock, op, session, breaker, goal, requests, slow, drops>>

SaveLeft(c) ==
  /\ pc[c] = "left"
  /\ session' = Disconnected
  /\ Success
  /\ goal' = IF op[c] = "leave" THEN "out" ELSE goal
  /\ AfterLeave(c, "join")
  /\ UNCHANGED <<lock, op, attending, unsure, bounds>>

\* A failed leave leaves the session connected, and fresh.
SaveStay(c) ==
  /\ pc[c] = "stay"
  /\ session' = Connected
  /\ Failure
  /\ AfterLeave(c, "rejoin")
  /\ UNCHANGED <<lock, op, attending, ghosts, bounds>>

\* Mutant: reconnect does not force its join.
SkipsUnforced(c) == session.connected /\ session.age = "fresh"

\* A join of a session known to be fresh makes no call.
Skips(c) == op[c] = "join" /\ session.connected /\ session.age = "fresh"

BeforeJoin(c) ==
  /\ pc[c] \in {"join", "rejoin"}
  /\ \/ Passes /\ ~Skips(c) /\ GoOn(c, "joining") /\ UNCHANGED <<session, goal>>
     \/ /\ Passes /\ Skips(c)
        /\ session' = Connected
        /\ goal' = "in"
        /\ GoOn(c, "release")
     \/ Blocks /\ GoOn(c, "release") /\ UNCHANGED <<session, goal>>
  /\ UNCHANGED <<lock, op, attending, unsure, bounds>>

JoinCall(c) ==
  /\ pc[c] = "joining"
  /\ \/ /\ attending' = TRUE
        /\ unsure' = FALSE
        /\ GoOn(c, "joined")
        /\ UNCHANGED mishaps
     \/ /\ Mishap
        /\ attending' \in {attending, TRUE}
        /\ GoOn(c, "apart")
        /\ unsure' = TRUE
  /\ UNCHANGED <<lock, op, session, breaker, goal, requests, slow, drops>>

SaveJoined(c) ==
  /\ pc[c] = "joined"
  /\ session' = Connected
  /\ Success
  /\ goal' = IF c \in Admins THEN "in" ELSE goal
  /\ GoOn(c, "release")
  /\ UNCHANGED <<lock, op, attending, unsure, bounds>>

SaveApart(c) ==
  /\ pc[c] = "apart"
  /\ session' = Disconnected
  /\ Failure
  /\ GoOn(c, "release")
  /\ UNCHANGED <<lock, op, attending, ghosts, bounds>>

-----------------------------------------------------------------------------
(* The reconciliation job.                                                 *)

\* A run first looks at the breaker.  One that is open is reset if it is not
\* too young for that and the platform's health check succeeds, ...
Heal(c) ==
  /\ pc[c] = "idle"
  /\ breaker.state \in {"open", "cooled"}
  /\ Success
  /\ GoOn(c, "look")
  /\ UNCHANGED <<lock, op, session, attending, ghosts, bounds>>

\* ... any other is left alone.
Begin(c) ==
  /\ pc[c] = "idle"
  /\ IF breaker.state = "cooled" THEN Mishap ELSE UNCHANGED mishaps
  /\ GoOn(c, "look")
  /\ UNCHANGED <<lock, op, session, breaker, attending, ghosts, requests, slow,
                 drops>>

\* Sessions are listed once; they are worked on later, as they were listed.
Look(c) ==
  /\ pc[c] = "look"
  /\ GoOn(c, IF Stale(session) THEN "stale" ELSE "listen")
  /\ UNCHANGED <<lock, op, session, breaker, attending, ghosts, bounds>>

Listen(c) ==
  /\ pc[c] = "listen"
  /\ GoOn(c, IF session.connected /\ PullsLive THEN "pull" ELSE "idle")
  /\ UNCHANGED <<lock, op, session, breaker, attending, ghosts, bounds>>

\* A busy lock makes the job give up until its next run.
Reconnect(c) ==
  /\ \/ pc[c] = "stale" /\ Enter(c, "reconcile")
     \/ pc[c] = "flaky" /\ Enter(c, "recover")
     \/ /\ pc[c] \in {"stale", "flaky"}
        /\ lock # NoOne
        /\ GoOn(c, IF pc[c] = "stale" THEN "listen" ELSE "idle")
        /\ UNCHANGED <<lock, op>>
  /\ UNCHANGED <<session, breaker, attending, ghosts, bounds>>

\* Live audio comes only while the bot is in; without it a pull may fail.
PullAudio(c) ==
  /\ pc[c] = "pull"
  /\ \/ attending /\ GoOn(c, "touch") /\ UNCHANGED mishaps
     \/ GoOn(c, "idle") /\ UNCHANGED mishaps
     \/ /\ IF attending THEN Mishap ELSE UNCHANGED mishaps
        /\ GoOn(c, "flaky")
  /\ UNCHANGED <<lock, op, session, breaker, attending, ghosts, requests,
                 slow, drops>>

\* _touch_connected_state, without the lock.
Touch(c) ==
  /\ pc[c] = "touch"
  /\ session' = Connected
  /\ GoOn(c, "idle")
  /\ UNCHANGED <<lock, op, breaker, attending, ghosts, bounds>>

-----------------------------------------------------------------------------
(* Time, the platform and crashes.                                         *)

GrowOld ==
  /\ session.age # "stale"
  /\ session' = [session EXCEPT
                   !.age = IF @ = "fresh" THEN "recent" ELSE "stale"]
  /\ UNCHANGED <<lock, progress, breaker, attending, ghosts, bounds>>

\* The platform loses the bot and tells nobody.
Drop ==
  /\ attending
  /\ drops < MaxDrops
  /\ drops' = drops + 1
  /\ attending' = FALSE
  /\ unsure' = TRUE
  /\ UNCHANGED <<lock, progress, session, breaker, goal, requests, slow, mishaps>>

Die(c) ==
  /\ pc[c] # "idle"
  /\ Mishap
  /\ op' = [op EXCEPT ![c] = "none"]
  /\ GoOn(c, "idle")
  /\ unsure' = (unsure \/ pc[c] \in Inside)
  /\ UNCHANGED <<lock, session, breaker, attending, goal, requests, slow, drops>>

Operate(c) ==
  \/ Choose(c) \/ BeforeLeave(c) \/ LeaveCall(c) \/ SaveLeft(c) \/ SaveStay(c)
  \/ BeforeJoin(c) \/ JoinCall(c) \/ SaveJoined(c) \/ SaveApart(c)
  \/ Release(c) \/ Delete(c)

RunJob(c) ==
  \/ Heal(c) \/ Begin(c) \/ Look(c) \/ Reconnect(c)
  \/ Listen(c) \/ PullAudio(c) \/ Touch(c)

SessionNext ==
  \/ \E c \in Admins : Request(c)
  \/ \E c \in Jobs : RunJob(c)
  \/ \E c \in Callers : Operate(c) \/ Die(c)
  \/ ExpireOrphan \/ OutlastLock
  \/ Cool \/ ResetBreaker \/ GrowOld \/ Drop

SessionSpec == SessionInit /\ [][SessionNext]_sessionVars

\* Threads run, the job is run again and again, and time passes.  The job runs
\* every minute, so not every run of it finds the breaker opened less than
\* half a minute ago.
SessionFairness ==
  /\ \A c \in Callers : WF_sessionVars(Operate(c))
  /\ \A c \in Jobs : WF_sessionVars(RunJob(c)) /\ SF_sessionVars(Heal(c))
  /\ WF_sessionVars(ExpireOrphan) /\ WF_sessionVars(Cool) /\ WF_sessionVars(GrowOld)

FairSessionSpec == SessionSpec /\ SessionFairness

-----------------------------------------------------------------------------
(* Properties.                                                             *)

\* Two operations on one meeting never overlap, whoever crashes where, unless
\* one was slower than the lock.
OneAtATime == slow = 0 => Cardinality({c \in Callers : pc[c] \in Inside}) <= 1

\* While nobody is working on the meeting, the session record says whether
\* the bot is in it, unless a call failed or the bot was lost since the last
\* successful call.
TracksPlatform ==
  (\A c \in Callers : pc[c] = "idle") /\ ~unsure
    => session.connected = attending

\* The bot enters a meeting that an admin took it out of only because an
\* admin asked for it: reconciliation is for sessions still wanted.
LeftStaysLeft ==
  [][~attending /\ attending' /\ goal = "out"
       => \E c \in Admins : pc[c] = "joining"]_sessionVars

\* A session that looks connected but was not heard of for too long does not
\* stay so: reconciliation gets to it, in spite of locks left by crashes.
StaleIsHandled == Stale(session) ~> ~Stale(session)

\* A bot that an admin brought in and the platform lost is brought back,
\* unless an admin takes it out.
EventuallyBack ==
  goal = "in" /\ ~attending ~> attending \/ goal = "out"

\* The same if no call fails and no process dies, also with live pulls and an
\* operation slower than the lock.
BackUnlessFault == [](mishaps = 0) => EventuallyBack
=============================================================================
