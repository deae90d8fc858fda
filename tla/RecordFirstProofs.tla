--------------------------- MODULE RecordFirstProofs ---------------------------
(***************************************************************************)
(* RecordFirst for any tabs, meetings, stops on their way, claims and      *)
(* faults, of users who wait until a click has had its effect: what was    *)
(* recorded is saved or on its way unless something was lost, and a tab    *)
(* that takes itself to record does, for the meeting it shows.             *)
(***************************************************************************)
EXTENDS RecordFirst, TLAPS

Stops == [at : {"idle", "recorder", "upload", "finish", "saving"}, meeting : Ids,
          audio : Meetings \cup {None}, finish : BOOLEAN, caught : BOOLEAN]

LEMMA NoneIsId ==
  /\ None \in Ids /\ Imported \in Ids /\ Meetings \subseteq Ids
  /\ NoFlow \in Stops /\ NoFlow.at = "idle" /\ NoFlow.meeting = None
  /\ Unlocked \in [owner : Tabs \cup {None}, meeting : Ids]
  BY DEF Ids, NoFlow, Stops, Unlocked

\* How a stop goes on.
LEMMA AfterCases ==
  ASSUME NEW r \in Stops
  PROVE  /\ After(r) \in {"idle", "upload", "finish", "saving"}
         /\ After(r) = "upload" <=> Uploads(r)
         /\ After(r) = "finish" => r.finish
  <1>0. Uploads(r) => r.at # "finish"
    BY DEF Uploads
  <1>1. CASE Uploads(r)
    <2>1. After(r) = "upload"
      BY <1>0, <1>1, Zenon DEF After
    <2> QED BY <1>1, <2>1
  <1>2. CASE ~Uploads(r) /\ r.at \in {"recorder", "upload"} /\ r.meeting # None /\ r.finish
    <2>0. r.at # "finish"
      BY <1>2
    <2>1. After(r) = "finish"
      BY <1>2, <2>0, Zenon DEF After
    <2> QED BY <1>2, <2>1
  <1>3. CASE r.at = "finish"
    <2>0. ~(r.at \in {"recorder", "upload"})
      BY <1>3
    <2>1. After(r) = "saving"
      BY <1>0, <1>3, <2>0, Zenon DEF After
    <2> QED BY <1>0, <1>3, <2>1
  <1>4. CASE /\ ~Uploads(r) /\ r.at # "finish"
             /\ ~(r.at \in {"recorder", "upload"} /\ r.meeting # None /\ r.finish)
    <2>1. After(r) = "idle"
      BY <1>4, Zenon DEF After
    <2> QED BY <1>4, <2>1
  <1> QED BY <1>1, <1>2, <1>3, <1>4

--------------------------------------------------------------------------------
(* What a stop does to a tab.                                               *)

\* The flows and the meeting of tab t, when its stop f goes on as to.
LEMMA GoOnEffect ==
  ASSUME TypeOK, NEW t \in Tabs, NEW f \in Flows, NEW r \in Stops,
         NEW to \in {"idle", "upload", "finish", "saving"}, NEW m \in Ids,
         GoOn(t, f, r, to, m)
  PROVE  /\ flow' \in [Tabs -> [Flows -> Stops]]
         /\ meeting' \in [Tabs -> Ids]
         /\ stoppable' \in {stoppable, stoppable \ {t}}
         /\ stream' = IF r.at = "recorder" THEN stream \ {t} ELSE stream
         /\ r.at = "recorder" => stoppable' = stoppable \ {t}
         /\ \A u \in Tabs \ {t} : flow'[u] = flow[u] /\ meeting'[u] = meeting[u]
         /\ \A g \in Flows \ {f} : flow'[t][g] = flow[t][g]
         /\ to = "idle" => flow'[t][f] = NoFlow
         /\ flow'[t][f].at = to
         /\ to # "idle" => flow'[t][f].meeting = r.meeting /\ flow'[t][f].audio = r.audio
         /\ meeting'[t] = IF to = "idle" THEN None ELSE m
  <1> DEFINE new == IF to = "idle" THEN NoFlow ELSE [r EXCEPT !.at = to]
  <1>1. new \in Stops
    BY NoneIsId DEF Stops
  <1>2. flow \in [Tabs -> [Flows -> Stops]] /\ meeting \in [Tabs -> Ids]
    BY DEF TypeOK, Stops
  <1>3. flow' = [flow EXCEPT ![t][f] = new]
    BY DEF GoOn
  <1> HIDE DEF new
  <1>4. /\ flow' \in [Tabs -> [Flows -> Stops]]
        /\ \A u \in Tabs \ {t} : flow'[u] = flow[u]
        /\ \A g \in Flows \ {f} : flow'[t][g] = flow[t][g]
        /\ flow'[t][f] = new
    BY <1>1, <1>2, <1>3
  <1>5. meeting' = [meeting EXCEPT ![t] = IF to = "idle" THEN None ELSE m]
    BY DEF GoOn
  <1>6. /\ meeting' \in [Tabs -> Ids]
        /\ \A u \in Tabs \ {t} : meeting'[u] = meeting[u]
        /\ meeting'[t] = IF to = "idle" THEN None ELSE m
    BY <1>2, <1>5, NoneIsId
  <1>7. /\ to = "idle" => new = NoFlow
        /\ new.at = to
        /\ to # "idle" => new.meeting = r.meeting /\ new.audio = r.audio
    BY NoneIsId DEF new, Stops
  <1> QED BY <1>4, <1>6, <1>7 DEF GoOn

LEMMA BeginStopEffect ==
  ASSUME TypeOK, NEW t \in Tabs, NEW f \in Flows, NEW m \in Ids, NEW forced \in BOOLEAN,
         BeginStop(t, f, m, forced)
  PROVE  /\ flow' \in [Tabs -> [Flows -> Stops]]
         /\ meeting' \in [Tabs -> Ids]
         /\ flow[t][f].at = "idle"
         /\ beating' = beating \ {t} /\ counting' = counting \ {t} /\ stopper' = stopper \ {t}
         /\ recorder' = [recorder EXCEPT ![t] = None]
         /\ stoppable' \in {stoppable, stoppable \ {t}}
         /\ stream' \in {stream, stream \ {t}}
         /\ recorder[t] = None => stream' = stream \ {t} /\ stoppable' = stoppable \ {t}
         /\ recorder[t] # None => stream' = stream /\ stoppable' = stoppable
         /\ \A u \in Tabs \ {t} : flow'[u] = flow[u] /\ meeting'[u] = meeting[u]
         /\ \A g \in Flows \ {f} : flow'[t][g] = flow[t][g]
         /\ flow'[t][f].meeting \in {None, m}
         /\ flow'[t][f].at = "recorder" <=> recorder[t] # None
         /\ flow'[t][f].at # "upload"
         /\ flow'[t][f].at = "idle" => flow'[t][f] = NoFlow
         /\ flow'[t][f].at = "recorder" => flow'[t][f].meeting = m /\ flow'[t][f].audio = recorder[t]
         /\ meeting'[t] \in {None, m}
  <1> DEFINE r == [at |-> "recorder", meeting |-> m, audio |-> recorder[t],
                   finish |-> Finishes(t, forced), caught |-> forced]
  <1>1. recorder[t] \in Meetings \cup {None} /\ Finishes(t, forced) \in BOOLEAN
    BY DEF TypeOK, Finishes
  <1>2. r \in Stops
    BY <1>1 DEF Stops
  <1>3. flow \in [Tabs -> [Flows -> Stops]] /\ meeting \in [Tabs -> Ids]
    BY DEF TypeOK, Stops
  <1>4. /\ beating' = beating \ {t} /\ counting' = counting \ {t} /\ stopper' = stopper \ {t}
        /\ recorder' = [recorder EXCEPT ![t] = None]
        /\ flow[t][f].at = "idle"
    BY DEF BeginStop, Hush, Unused, Idle
  <1>5. CASE recorder[t] # None
    <2>1. /\ flow' = [flow EXCEPT ![t][f] = r] /\ meeting' = [meeting EXCEPT ![t] = m]
          /\ UNCHANGED <<stoppable, stream>>
      BY <1>5 DEF BeginStop
    <2>2. r.at = "recorder" /\ r.meeting = m /\ r.audio = recorder[t]
      OBVIOUS
    <2> HIDE DEF r
    <2>3. /\ flow' \in [Tabs -> [Flows -> Stops]] /\ meeting' \in [Tabs -> Ids]
          /\ \A u \in Tabs \ {t} : flow'[u] = flow[u] /\ meeting'[u] = meeting[u]
          /\ \A g \in Flows \ {f} : flow'[t][g] = flow[t][g]
          /\ flow'[t][f] = r /\ meeting'[t] = m
      BY <1>2, <1>3, <2>1
    <2> QED BY <1>4, <1>5, <2>1, <2>2, <2>3
  <1>6. CASE recorder[t] = None
    <2>1. GoOn(t, f, r, After(r), m)
      BY <1>6 DEF BeginStop
    <2>2. r.at = "recorder" /\ r.meeting = m /\ r.audio = None
      BY <1>6
    <2> HIDE DEF r
    <2>3. After(r) \in {"idle", "upload", "finish", "saving"} /\ After(r) # "upload"
      BY <1>2, <2>2, AfterCases DEF Uploads
    <2> DEFINE to == After(r)
    <2>a. to \in {"idle", "upload", "finish", "saving"} /\ GoOn(t, f, r, to, m)
      BY <2>1, <2>3
    <2> HIDE DEF to
    <2>4. /\ flow' \in [Tabs -> [Flows -> Stops]] /\ meeting' \in [Tabs -> Ids]
          /\ stoppable' = stoppable \ {t} /\ stream' = stream \ {t}
          /\ \A u \in Tabs \ {t} : flow'[u] = flow[u] /\ meeting'[u] = meeting[u]
          /\ \A g \in Flows \ {f} : flow'[t][g] = flow[t][g]
          /\ flow'[t][f].at = to
          /\ to = "idle" => flow'[t][f] = NoFlow
          /\ to # "idle" => flow'[t][f].meeting = r.meeting /\ flow'[t][f].audio = r.audio
          /\ meeting'[t] = IF to = "idle" THEN None ELSE m
      BY <1>2, <2>2, <2>a, GoOnEffect
    <2>5. flow'[t][f].meeting \in {None, m}
      BY <2>2, <2>4, NoneIsId
    <2>6. to # "upload" /\ to # "recorder"
      BY <2>a, <2>3 DEF to
    <2> QED BY <1>4, <1>6, <2>4, <2>5, <2>6
  <1> QED BY <1>5, <1>6
--------------------------------------------------------------------------------
(* What holds of users who wait.                                            *)

Resting(t) == \A f \in Flows : flow[t][f].at = "idle"

\* A tab with a stream can be stopped, and no stop of it is past its recorder.
StreamIsStoppable(t) ==
  t \in stream => /\ t \in stoppable
                  /\ \A f \in Flows : flow[t][f].at \in {"idle", "recorder"}

\* A tab that takes itself to record has a recorder, for the meeting it
\* shows, and neither a start nor a stop is on its way in it.
RecorderIsRight(t) ==
  /\ t \in stopper <=> recorder[t] # None
  /\ t \in stopper => /\ t \in stream /\ start[t] = "idle" /\ Resting(t)
                      /\ meeting[t] = recorder[t]

\* A claim and an import wait until the tab is quiet, and so does a start.
OneAtATime(t) ==
  /\ claim[t] # Hidden => start[t] = "idle" /\ t \notin stoppable /\ Resting(t) /\ claims > 0
  /\ start[t] \in {"importing", "imported"} => t \notin stoppable /\ Resting(t)
  /\ start[t] = "opening" => t \in stoppable /\ Resting(t)

\* What a stop knows of the recording it ends.
FlowIsRight(t, f) ==
  /\ flow[t][f].at = "idle" => flow[t][f] = NoFlow
  /\ flow[t][f].at = "recorder" => start[t] = "idle"
  /\ flow[t][f].at \in {"recorder", "upload"} =>
       flow[t][f].audio # None /\ flow[t][f].meeting = flow[t][f].audio

\* The meeting that a start was told is new: nothing else in the tab has it.
AnswerIsNew(t) ==
  start[t] = "created" => /\ answer[t] \in 1..made /\ meeting[t] # answer[t]
                          /\ \A f \in Flows : flow[t][f].meeting # answer[t]
                          /\ claims = 0 => answer[t] \in open

StaysOpen(t) == claims = 0 /\ t \in stopper => meeting[t] \in open

TabInv(t) ==
  /\ StreamIsStoppable(t) /\ RecorderIsRight(t) /\ OneAtATime(t)
  /\ \A f \in Flows : FlowIsRight(t, f)
  /\ AnswerIsNew(t) /\ StaysOpen(t)

\* A meeting belongs to the tab that started it, and to no other.
Has(t, m) ==
  \/ meeting[t] = m
  \/ start[t] = "created" /\ answer[t] = m
  \/ \E f \in Flows : flow[t][f].meeting = m

OwnersDiffer ==
  \A t \in Tabs, m \in Meetings :
    Has(t, m) => m \in 1..made /\ \A u \in Tabs : Has(u, m) => u = t

RInv == TypeOK /\ (\A t \in Tabs : TabInv(t)) /\ OwnersDiffer /\ StopSaves

--------------------------------------------------------------------------------
(* What one tab may do to the others.                                       *)

LockParts ==
  /\ lock \in [owner : Tabs \cup {None}, meeting : Ids]
  /\ conflict \in [Tabs -> Ids \cup {Hidden}]
  /\ claim \in [Tabs -> Ids \cup {Hidden}]

TabParts ==
  /\ beating \subseteq Tabs /\ stoppable \subseteq Tabs /\ stream \subseteq Tabs
  /\ stopper \subseteq Tabs /\ counting \subseteq Tabs
  /\ meeting \in [Tabs -> Ids]
  /\ recorder \in [Tabs -> Meetings \cup {None}]
  /\ answer \in [Tabs -> Meetings \cup {None}]
  /\ start \in [Tabs -> {"idle", "opening", "counting", "posting", "checked",
                         "created", "refused", "importing", "imported"}]

FlowParts == flow \in [Tabs -> [Flows -> Stops]]

ServerParts ==
  /\ made \in 0..MaxMeetings
  /\ open \subseteq 1..made /\ saved \subseteq 1..made /\ recorded \subseteq 1..made
  /\ claims \in 0..MaxClaims
  /\ faults \in 0..MaxFaults

Parts == LockParts /\ TabParts /\ FlowParts /\ ServerParts

LEMMA TypeParts == (TypeOK <=> Parts) /\ (TypeOK' <=> Parts')
  BY DEF TypeOK, Parts, LockParts, TabParts, FlowParts, ServerParts, Stops

LEMMA IssuedIsMeeting ==
  Parts => 1..made \subseteq Meetings
  BY RecordAssumption DEF Parts, LockParts, TabParts, FlowParts, ServerParts, Meetings

Same(u) ==
  /\ u \in stoppable' <=> u \in stoppable
  /\ u \in stream' <=> u \in stream
  /\ u \in stopper' <=> u \in stopper
  /\ meeting'[u] = meeting[u] /\ recorder'[u] = recorder[u] /\ answer'[u] = answer[u]
  /\ claim'[u] = claim[u] /\ start'[u] = start[u] /\ flow'[u] = flow[u]

\* A step of tab t leaves the others alone, finishes only a meeting of its own
\* unless there was a claim, takes only new meetings, and loses no recording.
TabStep(t) ==
  /\ TypeOK' /\ TabInv(t)'
  /\ \A u \in Tabs \ {t} : Same(u)
  /\ made <= made' /\ claims <= claims' /\ faults <= faults' /\ saved \subseteq saved'
  /\ \A m \in open \ open' : claims' = 0 => Has(t, m)
  /\ \A m \in Meetings : Has(t, m)' => Has(t, m) \/ (made < m /\ m <= made')
  /\ \A m \in recorded' : \/ faults' # 0 \/ m \in saved' \/ Carries(t, m)'
                          \/ m \in recorded /\ ~Carries(t, m)

LEMMA OthersKeep ==
  ASSUME RInv, NEW t \in Tabs, TabStep(t), NEW u \in Tabs \ {t}
  PROVE  TabInv(u)' /\ (\A m : Has(u, m)' <=> Has(u, m))
                    /\ (\A m : Carries(u, m)' <=> Carries(u, m))
  <1>1. Same(u) /\ TabInv(u) /\ Parts /\ Parts'
    BY TypeParts DEF RInv, TabStep
  <1>2. \A m : Has(u, m)' <=> Has(u, m)
    BY <1>1 DEF Same, Has
  <1>3. \A m : Carries(u, m)' <=> Carries(u, m)
    BY <1>1 DEF Same, Carries
  <1>4. claims \in Nat /\ claims' \in Nat /\ made \in Nat /\ made' \in Nat
        /\ claims <= claims' /\ made <= made'
    BY <1>1, RecordAssumption DEF Parts, LockParts, TabParts, FlowParts, ServerParts, TabStep
  <1>5. StreamIsStoppable(u)' /\ RecorderIsRight(u)' /\ OneAtATime(u)'
    BY <1>1, <1>4 DEF TabInv, Same, StreamIsStoppable, RecorderIsRight, OneAtATime, Resting
  <1>6. \A f \in Flows : FlowIsRight(u, f)'
    BY <1>1 DEF TabInv, Same, FlowIsRight
  <1>7. ASSUME NEW m \in Meetings, Has(u, m), m \in open, claims' = 0
        PROVE  m \in open'
    BY <1>7 DEF TabStep, RInv, OwnersDiffer
  <1>8. AnswerIsNew(u)'
    <2> SUFFICES ASSUME start[u] = "created"
                 PROVE  AnswerIsNew(u)'
      BY <1>1 DEF AnswerIsNew, Same
    <2>1. AnswerIsNew(u) /\ Has(u, answer[u]) /\ answer[u] \in 1..made
      BY <1>1 DEF TabInv, AnswerIsNew, Has
    <2>2. answer[u] \in Meetings
      BY <1>1, <2>1, IssuedIsMeeting
    <2>3. claims' = 0 => answer[u] \in open'
      BY <1>4, <1>7, <2>1, <2>2 DEF AnswerIsNew
    <2>4. answer[u] \in 1..made'
      BY <1>4, <2>1
    <2> QED BY <1>1, <2>1, <2>3, <2>4 DEF AnswerIsNew, Same
  <1>9. StaysOpen(u)'
    <2> SUFFICES ASSUME claims' = 0, u \in stopper
                 PROVE  meeting[u] \in open'
      BY <1>1 DEF StaysOpen, Same
    <2>1. meeting[u] \in open /\ Has(u, meeting[u])
      BY <1>1, <1>4 DEF TabInv, StaysOpen, Has
    <2>2. meeting[u] \in Meetings
      BY <1>1, <2>1, IssuedIsMeeting DEF Parts, LockParts, TabParts, FlowParts, ServerParts
    <2> QED BY <1>7, <2>1, <2>2
  <1> QED BY <1>2, <1>3, <1>5, <1>6, <1>8, <1>9 DEF TabInv

LEMMA TabStepIsSafe ==
  ASSUME RInv, NEW t \in Tabs, TabStep(t)
  PROVE  RInv'
  <1>1. \A u \in Tabs : TabInv(u)'
    BY OthersKeep DEF TabStep
  <1>2. Parts /\ Parts'
    BY TypeParts DEF RInv, TabStep
  <1>3. made \in Nat /\ made' \in Nat /\ made <= made'
    BY <1>2, RecordAssumption DEF Parts, LockParts, TabParts, FlowParts, ServerParts, TabStep
  <1>4. OwnersDiffer'
    <2> SUFFICES ASSUME NEW u \in Tabs, NEW v \in Tabs, NEW m \in Meetings, Has(u, m)', Has(v, m)'
                 PROVE  m \in 1..made' /\ u = v
      BY DEF OwnersDiffer
    <2>1. \A w \in Tabs : Has(w, m)' => Has(w, m) \/ (w = t /\ made < m /\ m <= made')
      BY OthersKeep DEF TabStep
    <2>2. \A w \in Tabs : Has(w, m) => m \in 1..made /\ \A x \in Tabs : Has(x, m) => x = w
      BY DEF RInv, OwnersDiffer
    <2>3. m \in Nat /\ m >= 1
      BY DEF Meetings
    <2> QED BY <1>3, <2>1, <2>2, <2>3
  <1>5. StopSaves'
    <2> SUFFICES ASSUME faults' = 0, NEW m \in recorded', m \notin saved',
                        \A u \in Tabs : ~Carries(u, m)'
                 PROVE  FALSE
      BY DEF StopSaves
    <2>1. m \in recorded /\ ~Carries(t, m)
      BY DEF TabStep
    <2>2. m \notin saved /\ faults = 0
      BY <1>2, RecordAssumption DEF TabStep, Parts, LockParts, TabParts, FlowParts, ServerParts
    <2>3. PICK u \in Tabs : Carries(u, m)
      BY <2>1, <2>2 DEF RInv, StopSaves
    <2>4. u # t
      BY <2>1, <2>3
    <2> QED BY <2>3, <2>4, OthersKeep
  <1> QED BY <1>1, <1>4, <1>5 DEF RInv, TabStep

--------------------------------------------------------------------------------
(* Starts, imports and claims.                                              *)

LEMMA StartClickKeeps ==
  ASSUME RInv, NEW t \in Tabs, StartClick(t), Haste = {}
  PROVE  TabStep(t)
  <1>1. Parts /\ TabInv(t) /\ OwnersDiffer
    BY TypeParts DEF RInv
  <1>2. Parts'
    <2>0. 1..made \subseteq Meetings
      BY <1>1, IssuedIsMeeting
    <2>1. LockParts'
      BY <1>1, <2>0, NoneIsId DEF Parts, LockParts, TabParts, ServerParts, StartClick,
         Quiet, Idle, LockedOut, InTheWay, Own, page, server, TabInv, RecorderIsRight,
         StreamIsStoppable
    <2>2. TabParts'
      BY <1>1, <2>0, NoneIsId DEF Parts, LockParts, TabParts, ServerParts, Meetings,
         StartClick, Quiet, Idle, LockedOut, InTheWay, Own, page, server, TabInv,
         RecorderIsRight, StreamIsStoppable
    <2>3. FlowParts'
      BY <1>1, NoneIsId DEF Parts, FlowParts, StartClick, Quiet, Idle, LockedOut, InTheWay,
         Own, page, server, TabInv, RecorderIsRight, StreamIsStoppable
    <2>4. ServerParts'
      BY <1>1, RecordAssumption DEF Parts, ServerParts, StartClick, Quiet, Idle, LockedOut,
         InTheWay, Own, page, server, TabInv, RecorderIsRight, StreamIsStoppable
    <2> QED BY <2>1, <2>2, <2>3, <2>4 DEF Parts
  <1>3. \A u \in Tabs \ {t} : Same(u)
    BY <1>1 DEF Same, Parts, LockParts, TabParts, FlowParts, ServerParts, StartClick,
       Quiet, Idle, LockedOut, InTheWay, Own, page, server, TabInv, RecorderIsRight,
       StreamIsStoppable
  <1>4. TabInv(t)'
    <2>1. StreamIsStoppable(t)' /\ RecorderIsRight(t)'
      BY <1>1, NoneIsId DEF TabInv, StreamIsStoppable, RecorderIsRight, OneAtATime,
         FlowIsRight, AnswerIsNew, StaysOpen, Resting, Parts, LockParts, TabParts,
         FlowParts, ServerParts, StartClick, Quiet, Idle, LockedOut, InTheWay, Own, page,
         server
    <2>2. OneAtATime(t)'
      BY <1>1, NoneIsId DEF TabInv, StreamIsStoppable, RecorderIsRight, OneAtATime,
         FlowIsRight, AnswerIsNew, StaysOpen, Resting, Parts, LockParts, TabParts,
         FlowParts, ServerParts, StartClick, Quiet, Idle, LockedOut, InTheWay, Own, page,
         server
    <2>3. \A f \in Flows : FlowIsRight(t, f)'
      BY <1>1, NoneIsId DEF TabInv, StreamIsStoppable, RecorderIsRight, OneAtATime,
         FlowIsRight, AnswerIsNew, StaysOpen, Resting, Parts, LockParts, TabParts,
         FlowParts, ServerParts, StartClick, Quiet, Idle, LockedOut, InTheWay, Own, page,
         server
    <2>4. AnswerIsNew(t)' /\ StaysOpen(t)'
      BY <1>1, NoneIsId DEF TabInv, StreamIsStoppable, RecorderIsRight, OneAtATime,
         FlowIsRight, AnswerIsNew, StaysOpen, Resting, Parts, LockParts, TabParts,
         FlowParts, ServerParts, StartClick, Quiet, Idle, LockedOut, InTheWay, Own, page,
         server
    <2> QED BY <2>1, <2>2, <2>3, <2>4 DEF TabInv
  <1>5. /\ made <= made' /\ claims <= claims' /\ faults <= faults' /\ saved \subseteq saved'
        /\ \A m \in open \ open' : claims' = 0 => Has(t, m)
    BY <1>1, RecordAssumption DEF Parts, LockParts, TabParts, FlowParts, ServerParts,
       StartClick, Quiet, Idle, LockedOut, InTheWay, Own, page, server, TabInv,
       RecorderIsRight, StreamIsStoppable
  <1>6. \A m \in Meetings : Has(t, m)' => Has(t, m) \/ (made < m /\ m <= made')
    BY <1>1, NoneIsId, RecordAssumption DEF Has, Parts, LockParts, TabParts, FlowParts,
       ServerParts, StartClick, Quiet, Idle, LockedOut, InTheWay, Own, page, server,
       TabInv, RecorderIsRight, StreamIsStoppable
  <1>7. \A m \in recorded' : faults' # 0 \/ (m \in recorded /\ (Carries(t, m) => Carries(t, m)'))
    BY <1>1, IssuedIsMeeting, RecordAssumption DEF Carries, TabInv, RecorderIsRight,
       StreamIsStoppable, Parts, LockParts, TabParts, FlowParts, ServerParts, StartClick,
       Quiet, Idle, LockedOut, InTheWay, Own, page, server
  <1> QED BY <1>2, <1>3, <1>4, <1>5, <1>6, <1>7, TypeParts DEF TabStep

LEMMA OpenedKeeps ==
  ASSUME RInv, NEW t \in Tabs, Opened(t)
  PROVE  TabStep(t)
  <1>1. Parts /\ TabInv(t) /\ OwnersDiffer
    BY TypeParts DEF RInv
  <1>2. Parts'
    <2>0. 1..made \subseteq Meetings
      BY <1>1, IssuedIsMeeting
    <2>1. LockParts'
      BY <1>1, <2>0, NoneIsId DEF Parts, LockParts, TabParts, ServerParts, Opened,
         Released, ClearedBy, Unlocked, page, server
    <2>2. TabParts'
      BY <1>1, <2>0, NoneIsId DEF Parts, LockParts, TabParts, ServerParts, Meetings,
         Opened, Released, ClearedBy, Unlocked, page, server
    <2>3. FlowParts'
      BY <1>1, NoneIsId DEF Parts, FlowParts, Opened, Released, ClearedBy, Unlocked, page, server
    <2>4. ServerParts'
      BY <1>1, RecordAssumption DEF Parts, ServerParts, Opened, Released, ClearedBy,
         Unlocked, page, server
    <2> QED BY <2>1, <2>2, <2>3, <2>4 DEF Parts
  <1>3. \A u \in Tabs \ {t} : Same(u)
    BY <1>1 DEF Same, Parts, LockParts, TabParts, FlowParts, ServerParts, Opened, Released,
       ClearedBy, Unlocked, page, server
  <1>4. TabInv(t)'
    <2>1. StreamIsStoppable(t)' /\ RecorderIsRight(t)'
      BY <1>1, NoneIsId DEF TabInv, StreamIsStoppable, RecorderIsRight, OneAtATime,
         FlowIsRight, AnswerIsNew, StaysOpen, Resting, Parts, LockParts, TabParts,
         FlowParts, ServerParts, Opened, Released, ClearedBy, Unlocked, page, server
    <2>2. OneAtATime(t)'
      BY <1>1, NoneIsId DEF TabInv, StreamIsStoppable, RecorderIsRight, OneAtATime,
         FlowIsRight, AnswerIsNew, StaysOpen, Resting, Parts, LockParts, TabParts,
         FlowParts, ServerParts, Opened, Released, ClearedBy, Unlocked, page, server
    <2>3. \A f \in Flows : FlowIsRight(t, f)'
      BY <1>1, NoneIsId DEF TabInv, StreamIsStoppable, RecorderIsRight, OneAtATime,
         FlowIsRight, AnswerIsNew, StaysOpen, Resting, Parts, LockParts, TabParts,
         FlowParts, ServerParts, Opened, Released, ClearedBy, Unlocked, page, server
    <2>4. AnswerIsNew(t)' /\ StaysOpen(t)'
      BY <1>1, NoneIsId DEF TabInv, StreamIsStoppable, RecorderIsRight, OneAtATime,
         FlowIsRight, AnswerIsNew, StaysOpen, Resting, Parts, LockParts, TabParts,
         FlowParts, ServerParts, Opened, Released, ClearedBy, Unlocked, page, server
    <2> QED BY <2>1, <2>2, <2>3, <2>4 DEF TabInv
  <1>5. /\ made <= made' /\ claims <= claims' /\ faults <= faults' /\ saved \subseteq saved'
        /\ \A m \in open \ open' : claims' = 0 => Has(t, m)
    BY <1>1, RecordAssumption DEF Parts, LockParts, TabParts, FlowParts, ServerParts,
       Opened, Released, ClearedBy, Unlocked, page, server
  <1>6. \A m \in Meetings : Has(t, m)' => Has(t, m) \/ (made < m /\ m <= made')
    BY <1>1, NoneIsId, RecordAssumption DEF Has, Parts, LockParts, TabParts, FlowParts,
       ServerParts, Opened, Released, ClearedBy, Unlocked, page, server
  <1>7. \A m \in recorded' : faults' # 0 \/ (m \in recorded /\ (Carries(t, m) => Carries(t, m)'))
    BY <1>1, IssuedIsMeeting, RecordAssumption DEF Carries, TabInv, RecorderIsRight,
       StreamIsStoppable, Parts, LockParts, TabParts, FlowParts, ServerParts, Opened,
       Released, ClearedBy, Unlocked, page, server
  <1> QED BY <1>2, <1>3, <1>4, <1>5, <1>6, <1>7, TypeParts DEF TabStep

LEMMA CountedDownKeeps ==
  ASSUME RInv, NEW t \in Tabs, CountedDown(t)
  PROVE  TabStep(t)
  <1>1. Parts /\ TabInv(t) /\ OwnersDiffer
    BY TypeParts DEF RInv
  <1>2. Parts'
    <2>0. 1..made \subseteq Meetings
      BY <1>1, IssuedIsMeeting
    <2>1. LockParts'
      BY <1>1, <2>0, NoneIsId DEF Parts, LockParts, TabParts, ServerParts, CountedDown,
         Released, ClearedBy, Unlocked, page, server
    <2>2. TabParts'
      BY <1>1, <2>0, NoneIsId DEF Parts, LockParts, TabParts, ServerParts, Meetings,
         CountedDown, Released, ClearedBy, Unlocked, page, server
    <2>3. FlowParts'
      BY <1>1, NoneIsId DEF Parts, FlowParts, CountedDown, Released, ClearedBy, Unlocked,
         page, server
    <2>4. ServerParts'
      BY <1>1, RecordAssumption DEF Parts, ServerParts, CountedDown, Released, ClearedBy,
         Unlocked, page, server
    <2> QED BY <2>1, <2>2, <2>3, <2>4 DEF Parts
  <1>3. \A u \in Tabs \ {t} : Same(u)
    BY <1>1 DEF Same, Parts, LockParts, TabParts, FlowParts, ServerParts, CountedDown,
       Released, ClearedBy, Unlocked, page, server
  <1>4. TabInv(t)'
    <2>1. StreamIsStoppable(t)' /\ RecorderIsRight(t)'
      BY <1>1, NoneIsId DEF TabInv, StreamIsStoppable, RecorderIsRight, OneAtATime,
         FlowIsRight, AnswerIsNew, StaysOpen, Resting, Parts, LockParts, TabParts,
         FlowParts, ServerParts, CountedDown, Released, ClearedBy, Unlocked, page, server
    <2>2. OneAtATime(t)'
      BY <1>1, NoneIsId DEF TabInv, StreamIsStoppable, RecorderIsRight, OneAtATime,
         FlowIsRight, AnswerIsNew, StaysOpen, Resting, Parts, LockParts, TabParts,
         FlowParts, ServerParts, CountedDown, Released, ClearedBy, Unlocked, page, server
    <2>3. \A f \in Flows : FlowIsRight(t, f)'
      BY <1>1, NoneIsId DEF TabInv, StreamIsStoppable, RecorderIsRight, OneAtATime,
         FlowIsRight, AnswerIsNew, StaysOpen, Resting, Parts, LockParts, TabParts,
         FlowParts, ServerParts, CountedDown, Released, ClearedBy, Unlocked, page, server
    <2>4. AnswerIsNew(t)' /\ StaysOpen(t)'
      BY <1>1, NoneIsId DEF TabInv, StreamIsStoppable, RecorderIsRight, OneAtATime,
         FlowIsRight, AnswerIsNew, StaysOpen, Resting, Parts, LockParts, TabParts,
         FlowParts, ServerParts, CountedDown, Released, ClearedBy, Unlocked, page, server
    <2> QED BY <2>1, <2>2, <2>3, <2>4 DEF TabInv
  <1>5. /\ made <= made' /\ claims <= claims' /\ faults <= faults' /\ saved \subseteq saved'
        /\ \A m \in open \ open' : claims' = 0 => Has(t, m)
    BY <1>1, RecordAssumption DEF Parts, LockParts, TabParts, FlowParts, ServerParts,
       CountedDown, Released, ClearedBy, Unlocked, page, server
  <1>6. \A m \in Meetings : Has(t, m)' => Has(t, m) \/ (made < m /\ m <= made')
    BY <1>1, NoneIsId, RecordAssumption DEF Has, Parts, LockParts, TabParts, FlowParts,
       ServerParts, CountedDown, Released, ClearedBy, Unlocked, page, server
  <1>7. \A m \in recorded' : faults' # 0 \/ (m \in recorded /\ (Carries(t, m) => Carries(t, m)'))
    BY <1>1, IssuedIsMeeting, RecordAssumption DEF Carries, TabInv, RecorderIsRight,
       StreamIsStoppable, Parts, LockParts, TabParts, FlowParts, ServerParts, CountedDown,
       Released, ClearedBy, Unlocked, page, server
  <1> QED BY <1>2, <1>3, <1>4, <1>5, <1>6, <1>7, TypeParts DEF TabStep

LEMMA CheckKeeps ==
  ASSUME RInv, NEW t \in Tabs, Check(t)
  PROVE  TabStep(t)
  <1>1. Parts /\ TabInv(t) /\ OwnersDiffer
    BY TypeParts DEF RInv
  <1>2. Parts'
    <2>0. 1..made \subseteq Meetings
      BY <1>1, IssuedIsMeeting
    <2>1. LockParts'
      BY <1>1, <2>0, NoneIsId DEF Parts, LockParts, TabParts, ServerParts, Check, asked, page
    <2>2. TabParts'
      BY <1>1, <2>0, NoneIsId DEF Parts, LockParts, TabParts, ServerParts, Meetings, Check,
         asked, page
    <2>3. FlowParts'
      BY <1>1, NoneIsId DEF Parts, FlowParts, Check, asked, page
    <2>4. ServerParts'
      BY <1>1, RecordAssumption DEF Parts, ServerParts, Check, asked, page
    <2> QED BY <2>1, <2>2, <2>3, <2>4 DEF Parts
  <1>3. \A u \in Tabs \ {t} : Same(u)
    BY <1>1 DEF Same, Parts, LockParts, TabParts, FlowParts, ServerParts, Check, asked, page
  <1>4. TabInv(t)'
    <2>1. StreamIsStoppable(t)' /\ RecorderIsRight(t)'
      BY <1>1, NoneIsId DEF TabInv, StreamIsStoppable, RecorderIsRight, OneAtATime,
         FlowIsRight, AnswerIsNew, StaysOpen, Resting, Parts, LockParts, TabParts,
         FlowParts, ServerParts, Check, asked, page
    <2>2. OneAtATime(t)'
      BY <1>1, NoneIsId DEF TabInv, StreamIsStoppable, RecorderIsRight, OneAtATime,
         FlowIsRight, AnswerIsNew, StaysOpen, Resting, Parts, LockParts, TabParts,
         FlowParts, ServerParts, Check, asked, page
    <2>3. \A f \in Flows : FlowIsRight(t, f)'
      BY <1>1, NoneIsId DEF TabInv, StreamIsStoppable, RecorderIsRight, OneAtATime,
         FlowIsRight, AnswerIsNew, StaysOpen, Resting, Parts, LockParts, TabParts,
         FlowParts, ServerParts, Check, asked, page
    <2>4. AnswerIsNew(t)' /\ StaysOpen(t)'
      BY <1>1, NoneIsId DEF TabInv, StreamIsStoppable, RecorderIsRight, OneAtATime,
         FlowIsRight, AnswerIsNew, StaysOpen, Resting, Parts, LockParts, TabParts,
         FlowParts, ServerParts, Check, asked, page
    <2> QED BY <2>1, <2>2, <2>3, <2>4 DEF TabInv
  <1>5. /\ made <= made' /\ claims <= claims' /\ faults <= faults' /\ saved \subseteq saved'
        /\ \A m \in open \ open' : claims' = 0 => Has(t, m)
    BY <1>1, RecordAssumption DEF Parts, LockParts, TabParts, FlowParts, ServerParts,
       Check, asked, page
  <1>6. \A m \in Meetings : Has(t, m)' => Has(t, m) \/ (made < m /\ m <= made')
    BY <1>1, NoneIsId, RecordAssumption DEF Has, Parts, LockParts, TabParts, FlowParts,
       ServerParts, Check, asked, page
  <1>7. \A m \in recorded' : faults' # 0 \/ (m \in recorded /\ (Carries(t, m) => Carries(t, m)'))
    BY <1>1, IssuedIsMeeting, RecordAssumption DEF Carries, TabInv, RecorderIsRight,
       StreamIsStoppable, Parts, LockParts, TabParts, FlowParts, ServerParts, Check, asked,
       page
  <1> QED BY <1>2, <1>3, <1>4, <1>5, <1>6, <1>7, TypeParts DEF TabStep

LEMMA CreateKeeps ==
  ASSUME RInv, NEW t \in Tabs, Create(t)
  PROVE  TabStep(t)
  <1>1. Parts /\ TabInv(t) /\ OwnersDiffer
    BY TypeParts DEF RInv
  <1>2. Parts'
    <2>0. 1..made \subseteq Meetings
      BY <1>1, IssuedIsMeeting
    <2>1. LockParts'
      BY <1>1, <2>0, NoneIsId DEF Parts, LockParts, TabParts, ServerParts, Create, asked, page
    <2>2. TabParts'
      <3>1. made + 1 \in Meetings
        BY <1>1, RecordAssumption DEF Create, Meetings, Parts, ServerParts
      <3> QED BY <1>1, <3>1 DEF Create, asked, page, Parts, TabParts
    <2>3. FlowParts'
      BY <1>1, NoneIsId DEF Parts, FlowParts, Create, asked, page
    <2>4. ServerParts'
      BY <1>1, RecordAssumption DEF Parts, ServerParts, Create, asked, page
    <2> QED BY <2>1, <2>2, <2>3, <2>4 DEF Parts
  <1>3. \A u \in Tabs \ {t} : Same(u)
    BY <1>1 DEF Same, Parts, LockParts, TabParts, FlowParts, ServerParts, Create, asked, page
  <1>4. TabInv(t)'
    <2>1. StreamIsStoppable(t)' /\ RecorderIsRight(t)'
      BY <1>1, NoneIsId DEF TabInv, StreamIsStoppable, RecorderIsRight, OneAtATime,
         FlowIsRight, AnswerIsNew, StaysOpen, Resting, Parts, LockParts, TabParts,
         FlowParts, ServerParts, Create, asked, page
    <2>2. OneAtATime(t)'
      BY <1>1, NoneIsId DEF TabInv, StreamIsStoppable, RecorderIsRight, OneAtATime,
         FlowIsRight, AnswerIsNew, StaysOpen, Resting, Parts, LockParts, TabParts,
         FlowParts, ServerParts, Create, asked, page
    <2>3. \A f \in Flows : FlowIsRight(t, f)'
      BY <1>1, NoneIsId DEF TabInv, StreamIsStoppable, RecorderIsRight, OneAtATime,
         FlowIsRight, AnswerIsNew, StaysOpen, Resting, Parts, LockParts, TabParts,
         FlowParts, ServerParts, Create, asked, page
    <2>4. AnswerIsNew(t)'
      <3>1. made + 1 \in Meetings /\ made + 1 \notin 1..made /\ made + 1 \in 1..(made + 1)
        BY <1>1, RecordAssumption DEF Create, Meetings, Parts, ServerParts
      <3>2. ~Has(t, made + 1)
        BY <1>1, <3>1 DEF OwnersDiffer
      <3>3. answer'[t] = made + 1 /\ made' = made + 1 /\ made + 1 \in open'
        BY <1>1 DEF Create, Parts, TabParts
      <3>4. meeting' = meeting /\ flow' = flow
        BY DEF Create, asked, page
      <3> QED BY <3>1, <3>2, <3>3, <3>4 DEF AnswerIsNew, Has
    <2>5. StaysOpen(t)'
      BY <1>1 DEF TabInv, StaysOpen, Create, asked, page
    <2> QED BY <2>1, <2>2, <2>3, <2>4, <2>5 DEF TabInv
  <1>5. /\ made <= made' /\ claims <= claims' /\ faults <= faults' /\ saved \subseteq saved'
        /\ \A m \in open \ open' : claims' = 0 => Has(t, m)
    BY <1>1, RecordAssumption DEF Parts, LockParts, TabParts, FlowParts, ServerParts,
       Create, asked, page
  <1>6. \A m \in Meetings : Has(t, m)' => Has(t, m) \/ (made < m /\ m <= made')
    BY <1>1, NoneIsId, RecordAssumption DEF Has, Parts, LockParts, TabParts, FlowParts,
       ServerParts, Create, asked, page
  <1>7. \A m \in recorded' : faults' # 0 \/ (m \in recorded /\ (Carries(t, m) => Carries(t, m)'))
    BY <1>1, IssuedIsMeeting, RecordAssumption DEF Carries, TabInv, RecorderIsRight,
       StreamIsStoppable, Parts, LockParts, TabParts, FlowParts, ServerParts, Create,
       asked, page
  <1> QED BY <1>2, <1>3, <1>4, <1>5, <1>6, <1>7, TypeParts DEF TabStep

LEMMA LoseRequestKeeps ==
  ASSUME RInv, NEW t \in Tabs, LoseRequest(t)
  PROVE  TabStep(t)
  <1>1. Parts /\ TabInv(t) /\ OwnersDiffer
    BY TypeParts DEF RInv
  <1>2. Parts'
    <2>0. 1..made \subseteq Meetings
      BY <1>1, IssuedIsMeeting
    <2>1. LockParts'
      BY <1>1, <2>0, NoneIsId DEF Parts, LockParts, TabParts, ServerParts, LoseRequest,
         Fault, asked, page
    <2>2. TabParts'
      BY <1>1, <2>0, NoneIsId DEF Parts, LockParts, TabParts, ServerParts, Meetings,
         LoseRequest, Fault, asked, page
    <2>3. FlowParts'
      BY <1>1, NoneIsId DEF Parts, FlowParts, LoseRequest, Fault, asked, page
    <2>4. ServerParts'
      BY <1>1, RecordAssumption DEF Parts, ServerParts, LoseRequest, Fault, asked, page
    <2> QED BY <2>1, <2>2, <2>3, <2>4 DEF Parts
  <1>3. \A u \in Tabs \ {t} : Same(u)
    BY <1>1 DEF Same, Parts, LockParts, TabParts, FlowParts, ServerParts, LoseRequest,
       Fault, asked, page
  <1>4. TabInv(t)'
    <2>1. StreamIsStoppable(t)' /\ RecorderIsRight(t)'
      BY <1>1, NoneIsId DEF TabInv, StreamIsStoppable, RecorderIsRight, OneAtATime,
         FlowIsRight, AnswerIsNew, StaysOpen, Resting, Parts, LockParts, TabParts,
         FlowParts, ServerParts, LoseRequest, Fault, asked, page
    <2>2. OneAtATime(t)'
      BY <1>1, NoneIsId DEF TabInv, StreamIsStoppable, RecorderIsRight, OneAtATime,
         FlowIsRight, AnswerIsNew, StaysOpen, Resting, Parts, LockParts, TabParts,
         FlowParts, ServerParts, LoseRequest, Fault, asked, page
    <2>3. \A f \in Flows : FlowIsRight(t, f)'
      BY <1>1, NoneIsId DEF TabInv, StreamIsStoppable, RecorderIsRight, OneAtATime,
         FlowIsRight, AnswerIsNew, StaysOpen, Resting, Parts, LockParts, TabParts,
         FlowParts, ServerParts, LoseRequest, Fault, asked, page
    <2>4. AnswerIsNew(t)' /\ StaysOpen(t)'
      BY <1>1, NoneIsId DEF TabInv, StreamIsStoppable, RecorderIsRight, OneAtATime,
         FlowIsRight, AnswerIsNew, StaysOpen, Resting, Parts, LockParts, TabParts,
         FlowParts, ServerParts, LoseRequest, Fault, asked, page
    <2> QED BY <2>1, <2>2, <2>3, <2>4 DEF TabInv
  <1>5. /\ made <= made' /\ claims <= claims' /\ faults <= faults' /\ saved \subseteq saved'
        /\ \A m \in open \ open' : claims' = 0 => Has(t, m)
    BY <1>1, RecordAssumption DEF Parts, LockParts, TabParts, FlowParts, ServerParts,
       LoseRequest, Fault, asked, page
  <1>6. \A m \in Meetings : Has(t, m)' => Has(t, m) \/ (made < m /\ m <= made')
    BY <1>1, NoneIsId, RecordAssumption DEF Has, Parts, LockParts, TabParts, FlowParts,
       ServerParts, LoseRequest, Fault, asked, page
  <1>7. \A m \in recorded' : faults' # 0 \/ (m \in recorded /\ (Carries(t, m) => Carries(t, m)'))
    BY <1>1, IssuedIsMeeting, RecordAssumption DEF Carries, TabInv, RecorderIsRight,
       StreamIsStoppable, Parts, LockParts, TabParts, FlowParts, ServerParts, LoseRequest,
       Fault, asked, page
  <1> QED BY <1>2, <1>3, <1>4, <1>5, <1>6, <1>7, TypeParts DEF TabStep

LEMMA ImportClickKeeps ==
  ASSUME RInv, NEW t \in Tabs, ImportClick(t), Haste = {}
  PROVE  TabStep(t)
  <1>1. Parts /\ TabInv(t) /\ OwnersDiffer
    BY TypeParts DEF RInv
  <1>2. Parts'
    <2>0. 1..made \subseteq Meetings
      BY <1>1, IssuedIsMeeting
    <2>1. LockParts'
      BY <1>1, <2>0, NoneIsId DEF Parts, LockParts, TabParts, ServerParts, ImportClick,
         Quiet, Idle, server
    <2>2. TabParts'
      BY <1>1, <2>0, NoneIsId DEF Parts, LockParts, TabParts, ServerParts, Meetings,
         ImportClick, Quiet, Idle, server
    <2>3. FlowParts'
      BY <1>1, NoneIsId DEF Parts, FlowParts, ImportClick, Quiet, Idle, server
    <2>4. ServerParts'
      BY <1>1, RecordAssumption DEF Parts, ServerParts, ImportClick, Quiet, Idle, server
    <2> QED BY <2>1, <2>2, <2>3, <2>4 DEF Parts
  <1>3. \A u \in Tabs \ {t} : Same(u)
    BY <1>1 DEF Same, Parts, LockParts, TabParts, FlowParts, ServerParts, ImportClick,
       Quiet, Idle, server
  <1>4. TabInv(t)'
    <2>1. StreamIsStoppable(t)' /\ RecorderIsRight(t)'
      BY <1>1, NoneIsId DEF TabInv, StreamIsStoppable, RecorderIsRight, OneAtATime,
         FlowIsRight, AnswerIsNew, StaysOpen, Resting, Parts, LockParts, TabParts,
         FlowParts, ServerParts, ImportClick, Quiet, Idle, server
    <2>2. OneAtATime(t)'
      BY <1>1, NoneIsId DEF TabInv, StreamIsStoppable, RecorderIsRight, OneAtATime,
         FlowIsRight, AnswerIsNew, StaysOpen, Resting, Parts, LockParts, TabParts,
         FlowParts, ServerParts, ImportClick, Quiet, Idle, server
    <2>3. \A f \in Flows : FlowIsRight(t, f)'
      BY <1>1, NoneIsId DEF TabInv, StreamIsStoppable, RecorderIsRight, OneAtATime,
         FlowIsRight, AnswerIsNew, StaysOpen, Resting, Parts, LockParts, TabParts,
         FlowParts, ServerParts, ImportClick, Quiet, Idle, server
    <2>4. AnswerIsNew(t)' /\ StaysOpen(t)'
      BY <1>1, NoneIsId DEF TabInv, StreamIsStoppable, RecorderIsRight, OneAtATime,
         FlowIsRight, AnswerIsNew, StaysOpen, Resting, Parts, LockParts, TabParts,
         FlowParts, ServerParts, ImportClick, Quiet, Idle, server
    <2> QED BY <2>1, <2>2, <2>3, <2>4 DEF TabInv
  <1>5. /\ made <= made' /\ claims <= claims' /\ faults <= faults' /\ saved \subseteq saved'
        /\ \A m \in open \ open' : claims' = 0 => Has(t, m)
    BY <1>1, RecordAssumption DEF Parts, LockParts, TabParts, FlowParts, ServerParts,
       ImportClick, Quiet, Idle, server
  <1>6. \A m \in Meetings : Has(t, m)' => Has(t, m) \/ (made < m /\ m <= made')
    BY <1>1, NoneIsId, RecordAssumption DEF Has, Parts, LockParts, TabParts, FlowParts,
       ServerParts, ImportClick, Quiet, Idle, server
  <1>7. \A m \in recorded' : faults' # 0 \/ (m \in recorded /\ (Carries(t, m) => Carries(t, m)'))
    BY <1>1, IssuedIsMeeting, RecordAssumption DEF Carries, TabInv, RecorderIsRight,
       StreamIsStoppable, Parts, LockParts, TabParts, FlowParts, ServerParts, ImportClick,
       Quiet, Idle, server
  <1> QED BY <1>2, <1>3, <1>4, <1>5, <1>6, <1>7, TypeParts DEF TabStep

LEMMA ImportKeeps ==
  ASSUME RInv, NEW t \in Tabs, Import(t)
  PROVE  TabStep(t)
  <1>1. Parts /\ TabInv(t) /\ OwnersDiffer
    BY TypeParts DEF RInv
  <1>2. Parts'
    <2>0. 1..made \subseteq Meetings
      BY <1>1, IssuedIsMeeting
    <2>1. LockParts'
      BY <1>1, <2>0, NoneIsId DEF Parts, LockParts, TabParts, ServerParts, Import, server, Ids
    <2>2. TabParts'
      BY <1>1, <2>0, NoneIsId DEF Parts, LockParts, TabParts, ServerParts, Meetings,
         Import, server, Ids
    <2>3. FlowParts'
      BY <1>1, NoneIsId DEF Parts, FlowParts, Import, server, Ids
    <2>4. ServerParts'
      BY <1>1, RecordAssumption DEF Parts, ServerParts, Import, server, Ids
    <2> QED BY <2>1, <2>2, <2>3, <2>4 DEF Parts
  <1>3. \A u \in Tabs \ {t} : Same(u)
    BY <1>1 DEF Same, Parts, LockParts, TabParts, FlowParts, ServerParts, Import, server, Ids
  <1>4. TabInv(t)'
    <2>1. StreamIsStoppable(t)' /\ RecorderIsRight(t)'
      BY <1>1, NoneIsId DEF TabInv, StreamIsStoppable, RecorderIsRight, OneAtATime,
         FlowIsRight, AnswerIsNew, StaysOpen, Resting, Parts, LockParts, TabParts,
         FlowParts, ServerParts, Import, server, Ids
    <2>2. OneAtATime(t)'
      BY <1>1, NoneIsId DEF TabInv, StreamIsStoppable, RecorderIsRight, OneAtATime,
         FlowIsRight, AnswerIsNew, StaysOpen, Resting, Parts, LockParts, TabParts,
         FlowParts, ServerParts, Import, server, Ids
    <2>3. \A f \in Flows : FlowIsRight(t, f)'
      BY <1>1, NoneIsId DEF TabInv, StreamIsStoppable, RecorderIsRight, OneAtATime,
         FlowIsRight, AnswerIsNew, StaysOpen, Resting, Parts, LockParts, TabParts,
         FlowParts, ServerParts, Import, server, Ids
    <2>4. AnswerIsNew(t)' /\ StaysOpen(t)'
      BY <1>1, NoneIsId DEF TabInv, StreamIsStoppable, RecorderIsRight, OneAtATime,
         FlowIsRight, AnswerIsNew, StaysOpen, Resting, Parts, LockParts, TabParts,
         FlowParts, ServerParts, Import, server, Ids
    <2> QED BY <2>1, <2>2, <2>3, <2>4 DEF TabInv
  <1>5. /\ made <= made' /\ claims <= claims' /\ faults <= faults' /\ saved \subseteq saved'
        /\ \A m \in open \ open' : claims' = 0 => Has(t, m)
    BY <1>1, RecordAssumption DEF Parts, LockParts, TabParts, FlowParts, ServerParts,
       Import, server, Ids
  <1>6. \A m \in Meetings : Has(t, m)' => Has(t, m) \/ (made < m /\ m <= made')
    BY <1>1, NoneIsId, RecordAssumption DEF Has, Parts, LockParts, TabParts, FlowParts,
       ServerParts, Import, server, Ids
  <1>7. \A m \in recorded' : faults' # 0 \/ (m \in recorded /\ (Carries(t, m) => Carries(t, m)'))
    BY <1>1, IssuedIsMeeting, RecordAssumption DEF Carries, TabInv, RecorderIsRight,
       StreamIsStoppable, Parts, LockParts, TabParts, FlowParts, ServerParts, Import,
       server, Ids
  <1> QED BY <1>2, <1>3, <1>4, <1>5, <1>6, <1>7, TypeParts DEF TabStep

LEMMA EndImportKeeps ==
  ASSUME RInv, NEW t \in Tabs, EndImport(t)
  PROVE  TabStep(t)
  <1>1. Parts /\ TabInv(t) /\ OwnersDiffer
    BY TypeParts DEF RInv
  <1>2. Parts'
    <2>0. 1..made \subseteq Meetings
      BY <1>1, IssuedIsMeeting
    <2>1. LockParts'
      BY <1>1, <2>0, NoneIsId DEF Parts, LockParts, TabParts, ServerParts, EndImport, server
    <2>2. TabParts'
      BY <1>1, <2>0, NoneIsId DEF Parts, LockParts, TabParts, ServerParts, Meetings,
         EndImport, server
    <2>3. FlowParts'
      BY <1>1, NoneIsId DEF Parts, FlowParts, EndImport, server
    <2>4. ServerParts'
      BY <1>1, RecordAssumption DEF Parts, ServerParts, EndImport, server
    <2> QED BY <2>1, <2>2, <2>3, <2>4 DEF Parts
  <1>3. \A u \in Tabs \ {t} : Same(u)
    BY <1>1 DEF Same, Parts, LockParts, TabParts, FlowParts, ServerParts, EndImport, server
  <1>4. TabInv(t)'
    <2>1. StreamIsStoppable(t)' /\ RecorderIsRight(t)'
      BY <1>1, NoneIsId DEF TabInv, StreamIsStoppable, RecorderIsRight, OneAtATime,
         FlowIsRight, AnswerIsNew, StaysOpen, Resting, Parts, LockParts, TabParts,
         FlowParts, ServerParts, EndImport, server
    <2>2. OneAtATime(t)'
      BY <1>1, NoneIsId DEF TabInv, StreamIsStoppable, RecorderIsRight, OneAtATime,
         FlowIsRight, AnswerIsNew, StaysOpen, Resting, Parts, LockParts, TabParts,
         FlowParts, ServerParts, EndImport, server
    <2>3. \A f \in Flows : FlowIsRight(t, f)'
      BY <1>1, NoneIsId DEF TabInv, StreamIsStoppable, RecorderIsRight, OneAtATime,
         FlowIsRight, AnswerIsNew, StaysOpen, Resting, Parts, LockParts, TabParts,
         FlowParts, ServerParts, EndImport, server
    <2>4. AnswerIsNew(t)' /\ StaysOpen(t)'
      BY <1>1, NoneIsId DEF TabInv, StreamIsStoppable, RecorderIsRight, OneAtATime,
         FlowIsRight, AnswerIsNew, StaysOpen, Resting, Parts, LockParts, TabParts,
         FlowParts, ServerParts, EndImport, server
    <2> QED BY <2>1, <2>2, <2>3, <2>4 DEF TabInv
  <1>5. /\ made <= made' /\ claims <= claims' /\ faults <= faults' /\ saved \subseteq saved'
        /\ \A m \in open \ open' : claims' = 0 => Has(t, m)
    BY <1>1, RecordAssumption DEF Parts, LockParts, TabParts, FlowParts, ServerParts,
       EndImport, server
  <1>6. \A m \in Meetings : Has(t, m)' => Has(t, m) \/ (made < m /\ m <= made')
    BY <1>1, NoneIsId, RecordAssumption DEF Has, Parts, LockParts, TabParts, FlowParts,
       ServerParts, EndImport, server
  <1>7. \A m \in recorded' : faults' # 0 \/ (m \in recorded /\ (Carries(t, m) => Carries(t, m)'))
    BY <1>1, IssuedIsMeeting, RecordAssumption DEF Carries, TabInv, RecorderIsRight,
       StreamIsStoppable, Parts, LockParts, TabParts, FlowParts, ServerParts, EndImport,
       server
  <1> QED BY <1>2, <1>3, <1>4, <1>5, <1>6, <1>7, TypeParts DEF TabStep

LEMMA ClaimClickKeeps ==
  ASSUME RInv, NEW t \in Tabs, ClaimClick(t), Haste = {}
  PROVE  TabStep(t)
  <1>1. Parts /\ TabInv(t) /\ OwnersDiffer
    BY TypeParts DEF RInv
  <1>2. Parts'
    <2>0. 1..made \subseteq Meetings
      BY <1>1, IssuedIsMeeting
    <2>1. LockParts'
      BY <1>1, <2>0, NoneIsId DEF Parts, LockParts, TabParts, ServerParts, ClaimClick,
         Quiet, Idle, Known, Unlocked, page, server
    <2>2. TabParts'
      BY <1>1, <2>0, NoneIsId DEF Parts, LockParts, TabParts, ServerParts, Meetings,
         ClaimClick, Quiet, Idle, Known, Unlocked, page, server
    <2>3. FlowParts'
      BY <1>1, NoneIsId DEF Parts, FlowParts, ClaimClick, Quiet, Idle, Known, Unlocked, page, server
    <2>4. ServerParts'
      BY <1>1, RecordAssumption DEF Parts, ServerParts, ClaimClick, Quiet, Idle, Known,
         Unlocked, page, server
    <2> QED BY <2>1, <2>2, <2>3, <2>4 DEF Parts
  <1>3. \A u \in Tabs \ {t} : Same(u)
    BY <1>1 DEF Same, Parts, LockParts, TabParts, FlowParts, ServerParts, ClaimClick,
       Quiet, Idle, Known, Unlocked, page, server
  <1>4. TabInv(t)'
    <2>1. StreamIsStoppable(t)' /\ RecorderIsRight(t)'
      BY <1>1, NoneIsId DEF TabInv, StreamIsStoppable, RecorderIsRight, OneAtATime,
         FlowIsRight, AnswerIsNew, StaysOpen, Resting, Parts, LockParts, TabParts,
         FlowParts, ServerParts, ClaimClick, Quiet, Idle, Known, Unlocked, page, server
    <2>2. OneAtATime(t)'
      BY <1>1, NoneIsId DEF TabInv, StreamIsStoppable, RecorderIsRight, OneAtATime,
         FlowIsRight, AnswerIsNew, StaysOpen, Resting, Parts, LockParts, TabParts,
         FlowParts, ServerParts, ClaimClick, Quiet, Idle, Known, Unlocked, page, server
    <2>3. \A f \in Flows : FlowIsRight(t, f)'
      BY <1>1, NoneIsId DEF TabInv, StreamIsStoppable, RecorderIsRight, OneAtATime,
         FlowIsRight, AnswerIsNew, StaysOpen, Resting, Parts, LockParts, TabParts,
         FlowParts, ServerParts, ClaimClick, Quiet, Idle, Known, Unlocked, page, server
    <2>4. AnswerIsNew(t)' /\ StaysOpen(t)'
      BY <1>1, NoneIsId DEF TabInv, StreamIsStoppable, RecorderIsRight, OneAtATime,
         FlowIsRight, AnswerIsNew, StaysOpen, Resting, Parts, LockParts, TabParts,
         FlowParts, ServerParts, ClaimClick, Quiet, Idle, Known, Unlocked, page, server
    <2> QED BY <2>1, <2>2, <2>3, <2>4 DEF TabInv
  <1>5. /\ made <= made' /\ claims <= claims' /\ faults <= faults' /\ saved \subseteq saved'
        /\ \A m \in open \ open' : claims' = 0 => Has(t, m)
    BY <1>1, RecordAssumption DEF Parts, LockParts, TabParts, FlowParts, ServerParts,
       ClaimClick, Quiet, Idle, Known, Unlocked, page, server
  <1>6. \A m \in Meetings : Has(t, m)' => Has(t, m) \/ (made < m /\ m <= made')
    BY <1>1, NoneIsId, RecordAssumption DEF Has, Parts, LockParts, TabParts, FlowParts,
       ServerParts, ClaimClick, Quiet, Idle, Known, Unlocked, page, server
  <1>7. \A m \in recorded' : faults' # 0 \/ (m \in recorded /\ (Carries(t, m) => Carries(t, m)'))
    BY <1>1, IssuedIsMeeting, RecordAssumption DEF Carries, TabInv, RecorderIsRight,
       StreamIsStoppable, Parts, LockParts, TabParts, FlowParts, ServerParts, ClaimClick,
       Quiet, Idle, Known, Unlocked, page, server
  <1> QED BY <1>2, <1>3, <1>4, <1>5, <1>6, <1>7, TypeParts DEF TabStep

LEMMA ClaimKeeps ==
  ASSUME RInv, NEW t \in Tabs, Claim(t)
  PROVE  TabStep(t)
  <1>1. Parts /\ TabInv(t) /\ OwnersDiffer
    BY TypeParts DEF RInv
  <1>2. Parts'
    <2>0. 1..made \subseteq Meetings
      BY <1>1, IssuedIsMeeting
    <2>1. LockParts'
      BY <1>1, <2>0, NoneIsId DEF Parts, LockParts, TabParts, ServerParts, Claim, Fault
    <2>2. TabParts'
      BY <1>1, <2>0, NoneIsId DEF Parts, LockParts, TabParts, ServerParts, Meetings, Claim, Fault
    <2>3. FlowParts'
      BY <1>1, NoneIsId DEF Parts, FlowParts, Claim, Fault
    <2>4. ServerParts'
      <3>1. open' \subseteq open
        BY DEF Claim
      <3>2. faults' \in 0..MaxFaults
        BY <1>1, RecordAssumption DEF Claim, Fault, Parts, ServerParts
      <3> QED BY <1>1, <3>1, <3>2 DEF Claim, Parts, ServerParts
    <2> QED BY <2>1, <2>2, <2>3, <2>4 DEF Parts
  <1>3. \A u \in Tabs \ {t} : Same(u)
    BY <1>1 DEF Same, Parts, LockParts, TabParts, FlowParts, ServerParts, Claim, Fault
  <1>4. TabInv(t)'
    <2>1. StreamIsStoppable(t)' /\ RecorderIsRight(t)'
      BY <1>1, NoneIsId DEF TabInv, StreamIsStoppable, RecorderIsRight, OneAtATime,
         FlowIsRight, AnswerIsNew, StaysOpen, Resting, Parts, LockParts, TabParts,
         FlowParts, ServerParts, Claim, Fault
    <2>2. OneAtATime(t)'
      BY <1>1, NoneIsId DEF TabInv, StreamIsStoppable, RecorderIsRight, OneAtATime,
         FlowIsRight, AnswerIsNew, StaysOpen, Resting, Parts, LockParts, TabParts,
         FlowParts, ServerParts, Claim, Fault
    <2>3. \A f \in Flows : FlowIsRight(t, f)'
      BY <1>1, NoneIsId DEF TabInv, StreamIsStoppable, RecorderIsRight, OneAtATime,
         FlowIsRight, AnswerIsNew, StaysOpen, Resting, Parts, LockParts, TabParts,
         FlowParts, ServerParts, Claim, Fault
    <2>4. AnswerIsNew(t)' /\ StaysOpen(t)'
      BY <1>1, NoneIsId DEF TabInv, StreamIsStoppable, RecorderIsRight, OneAtATime,
         FlowIsRight, AnswerIsNew, StaysOpen, Resting, Parts, LockParts, TabParts,
         FlowParts, ServerParts, Claim, Fault
    <2> QED BY <2>1, <2>2, <2>3, <2>4 DEF TabInv
  <1>5. /\ made <= made' /\ claims <= claims' /\ faults <= faults' /\ saved \subseteq saved'
        /\ \A m \in open \ open' : claims' = 0 => Has(t, m)
    <2>1. claims' = claims /\ claims > 0 /\ claims \in Nat
      BY <1>1, RecordAssumption DEF TabInv, OneAtATime, Claim, Parts, ServerParts
    <2>2. /\ made' = made /\ made \in Nat /\ saved' = saved
          /\ faults \in Nat /\ faults' \in {faults, faults + 1}
      BY <1>1, RecordAssumption DEF Claim, Fault, Parts, ServerParts
    <2> QED BY <2>1, <2>2
  <1>6. \A m \in Meetings : Has(t, m)' => Has(t, m) \/ (made < m /\ m <= made')
    BY <1>1, NoneIsId, RecordAssumption DEF Has, Parts, LockParts, TabParts, FlowParts,
       ServerParts, Claim, Fault
  <1>7. \A m \in recorded' : faults' # 0 \/ (m \in recorded /\ (Carries(t, m) => Carries(t, m)'))
    BY <1>1, IssuedIsMeeting, RecordAssumption DEF Carries, TabInv, RecorderIsRight,
       StreamIsStoppable, Parts, LockParts, TabParts, FlowParts, ServerParts, Claim, Fault
  <1> QED BY <1>2, <1>3, <1>4, <1>5, <1>6, <1>7, TypeParts DEF TabStep

LEMMA UnloadKeeps ==
  ASSUME RInv, NEW t \in Tabs, Unload(t)
  PROVE  TabStep(t)
  <1>1. Parts /\ TabInv(t) /\ OwnersDiffer
    BY TypeParts DEF RInv
  <1>2. Parts'
    <2>0. 1..made \subseteq Meetings
      BY <1>1, IssuedIsMeeting
    <2>1. LockParts'
      BY <1>1, <2>0, NoneIsId DEF Parts, LockParts, TabParts, ServerParts, Unload, Fault,
         ClearedBy, Unlocked, server
    <2>2. TabParts'
      BY <1>1, <2>0, NoneIsId DEF Parts, LockParts, TabParts, ServerParts, Meetings,
         Unload, Fault, ClearedBy, Unlocked, server
    <2>3. FlowParts'
      BY <1>1, NoneIsId DEF Parts, FlowParts, Unload, Fault, ClearedBy, Unlocked, server
    <2>4. ServerParts'
      BY <1>1, RecordAssumption DEF Parts, ServerParts, Unload, Fault, ClearedBy, Unlocked, server
    <2> QED BY <2>1, <2>2, <2>3, <2>4 DEF Parts
  <1>3. \A u \in Tabs \ {t} : Same(u)
    BY <1>1 DEF Same, Parts, LockParts, TabParts, FlowParts, ServerParts, Unload, Fault,
       ClearedBy, Unlocked, server
  <1>4. TabInv(t)'
    <2>1. StreamIsStoppable(t)' /\ RecorderIsRight(t)'
      BY <1>1, NoneIsId DEF TabInv, StreamIsStoppable, RecorderIsRight, OneAtATime,
         FlowIsRight, AnswerIsNew, StaysOpen, Resting, Parts, LockParts, TabParts,
         FlowParts, ServerParts, Unload, Fault, ClearedBy, Unlocked, server
    <2>2. OneAtATime(t)'
      BY <1>1, NoneIsId DEF TabInv, StreamIsStoppable, RecorderIsRight, OneAtATime,
         FlowIsRight, AnswerIsNew, StaysOpen, Resting, Parts, LockParts, TabParts,
         FlowParts, ServerParts, Unload, Fault, ClearedBy, Unlocked, server
    <2>3. \A f \in Flows : FlowIsRight(t, f)'
      BY <1>1, NoneIsId DEF TabInv, StreamIsStoppable, RecorderIsRight, OneAtATime,
         FlowIsRight, AnswerIsNew, StaysOpen, Resting, Parts, LockParts, TabParts,
         FlowParts, ServerParts, Unload, Fault, ClearedBy, Unlocked, server
    <2>4. AnswerIsNew(t)' /\ StaysOpen(t)'
      BY <1>1, NoneIsId DEF TabInv, StreamIsStoppable, RecorderIsRight, OneAtATime,
         FlowIsRight, AnswerIsNew, StaysOpen, Resting, Parts, LockParts, TabParts,
         FlowParts, ServerParts, Unload, Fault, ClearedBy, Unlocked, server
    <2> QED BY <2>1, <2>2, <2>3, <2>4 DEF TabInv
  <1>5. /\ made <= made' /\ claims <= claims' /\ faults <= faults' /\ saved \subseteq saved'
        /\ \A m \in open \ open' : claims' = 0 => Has(t, m)
    BY <1>1, RecordAssumption DEF Parts, LockParts, TabParts, FlowParts, ServerParts,
       Unload, Fault, ClearedBy, Unlocked, server
  <1>6. \A m \in Meetings : Has(t, m)' => Has(t, m) \/ (made < m /\ m <= made')
    BY <1>1, NoneIsId, RecordAssumption DEF Has, Parts, LockParts, TabParts, FlowParts,
       ServerParts, Unload, Fault, ClearedBy, Unlocked, server
  <1>7. \A m \in recorded' : faults' # 0 \/ (m \in recorded /\ (Carries(t, m) => Carries(t, m)'))
    BY <1>1, IssuedIsMeeting, RecordAssumption DEF Carries, TabInv, RecorderIsRight,
       StreamIsStoppable, Parts, LockParts, TabParts, FlowParts, ServerParts, Unload,
       Fault, ClearedBy, Unlocked, server
  <1> QED BY <1>2, <1>3, <1>4, <1>5, <1>6, <1>7, TypeParts DEF TabStep

--------------------------------------------------------------------------------
(* Stops.                                                                   *)

\* A stop begins: of a click, of a refused start, or of a start that finds
\* its stream gone.
LEMMA StopBegins ==
  ASSUME RInv, NEW t \in Tabs, NEW f \in Flows, NEW m \in Ids, NEW forced \in BOOLEAN,
         BeginStop(t, f, m, forced), LockParts',
         UNCHANGED <<claim, server, recorded, claims, faults>>,
         \/ /\ t \in stoppable /\ start[t] # "opening" /\ m = meeting[t]
            /\ UNCHANGED <<start, answer>>
         \/ /\ start[t] \in {"refused", "created"}
            /\ start' = [start EXCEPT ![t] = "idle"] /\ answer' = [answer EXCEPT ![t] = None]
            /\ m = meeting[t] \/ (start[t] = "created" /\ m = answer[t])
  PROVE  TabStep(t)
  <1>1. Parts /\ TabInv(t)
    BY TypeParts DEF RInv
  <1>2. /\ flow' \in [Tabs -> [Flows -> Stops]] /\ meeting' \in [Tabs -> Ids]
        /\ flow[t][f].at = "idle"
        /\ beating' = beating \ {t} /\ counting' = counting \ {t} /\ stopper' = stopper \ {t}
        /\ recorder' = [recorder EXCEPT ![t] = None]
        /\ stoppable' \in {stoppable, stoppable \ {t}} /\ stream' \in {stream, stream \ {t}}
        /\ recorder[t] = None => stream' = stream \ {t}
        /\ recorder[t] # None => stream' = stream /\ stoppable' = stoppable
        /\ \A u \in Tabs \ {t} : flow'[u] = flow[u] /\ meeting'[u] = meeting[u]
        /\ \A g \in Flows \ {f} : flow'[t][g] = flow[t][g]
        /\ meeting'[t] \in {None, m}
    BY BeginStopEffect DEF RInv
  <1>3. /\ flow'[t][f].meeting \in {None, m}
        /\ flow'[t][f].at = "recorder" <=> recorder[t] # None
        /\ flow'[t][f].at # "upload"
        /\ flow'[t][f].at = "idle" => flow'[t][f] = NoFlow
        /\ flow'[t][f].at = "recorder" =>
             flow'[t][f].meeting = m /\ flow'[t][f].audio = recorder[t]
    BY BeginStopEffect DEF RInv
  <1>4. /\ start'[t] \in {start[t], "idle"} /\ start'[t] # "opening"
        /\ start'[t] = "created" =>
             start[t] = "created" /\ answer'[t] = answer[t] /\ m = meeting[t]
        /\ start[t] = "idle" => start'[t] = "idle" /\ m = meeting[t]
        /\ m = meeting[t] \/ (start[t] = "created" /\ m = answer[t])
        /\ start'[t] \notin {"importing", "imported"} /\ claim[t] = Hidden
    BY <1>1 DEF Parts, TabParts, TabInv, OneAtATime
  <1>5. TabParts' /\ \A u \in Tabs \ {t} : start'[u] = start[u] /\ answer'[u] = answer[u]
    BY <1>1, <1>2 DEF Parts, TabParts
  <1>6. FlowParts' /\ ServerParts'
    BY <1>1, <1>2 DEF Parts, FlowParts, ServerParts, server
  <1>7. \A u \in Tabs \ {t} : Same(u)
    BY <1>1, <1>2, <1>5 DEF Same, Parts, TabParts
  <1>8. recorder'[t] = None /\ claim' = claim /\ t \notin stopper'
    BY <1>1, <1>2 DEF Parts, TabParts
  <1>9. TabInv(t)'
    <2>1. StreamIsStoppable(t)' /\ RecorderIsRight(t)'
      BY <1>1, <1>2, <1>3, <1>8 DEF TabInv, StreamIsStoppable, RecorderIsRight
    <2>2. OneAtATime(t)'
      BY <1>4, <1>8 DEF OneAtATime
    <2>3. \A g \in Flows : FlowIsRight(t, g)'
      BY <1>1, <1>2, <1>3, <1>4 DEF TabInv, FlowIsRight, RecorderIsRight
    <2>4. AnswerIsNew(t)'
      <3> SUFFICES ASSUME start'[t] = "created"
                   PROVE  AnswerIsNew(t)'
        BY DEF AnswerIsNew
      <3>1. AnswerIsNew(t) /\ answer[t] \in Meetings /\ answer[t] # None
        BY <1>1, <1>4, IssuedIsMeeting, RecordAssumption DEF TabInv, AnswerIsNew
      <3> QED BY <1>2, <1>3, <1>4, <3>1 DEF AnswerIsNew, server
    <2>5. StaysOpen(t)'
      BY <1>8 DEF StaysOpen
    <2> QED BY <2>1, <2>2, <2>3, <2>4, <2>5 DEF TabInv
  <1>10. \A k \in Meetings : Has(t, k)' => Has(t, k)
    <2> SUFFICES ASSUME NEW k \in Meetings, Has(t, k)'
                 PROVE  Has(t, k)
      OBVIOUS
    <2>1. k # None /\ (k = m => Has(t, k))
      BY <1>4, RecordAssumption DEF Has
    <2>2. CASE \E g \in Flows : flow'[t][g].meeting = k
      BY <1>2, <1>3, <2>1, <2>2 DEF Has
    <2>3. CASE meeting'[t] = k \/ (start'[t] = "created" /\ answer'[t] = k)
      BY <1>2, <1>4, <2>1, <2>3 DEF Has
    <2> QED BY <2>2, <2>3 DEF Has
  <1>11. \A k \in recorded : Carries(t, k) => Carries(t, k)'
    BY <1>1, <1>2, <1>3, IssuedIsMeeting, RecordAssumption DEF Carries, Parts, ServerParts
  <1>12. /\ made' = made /\ claims' = claims /\ faults' = faults /\ saved' = saved
         /\ open' = open /\ recorded' = recorded
         /\ made \in Nat /\ claims \in Nat /\ faults \in Nat
    BY <1>1, RecordAssumption DEF server, Parts, ServerParts
  <1>13. TypeOK'
    BY <1>5, <1>6, TypeParts DEF Parts
  <1> QED BY <1>7, <1>9, <1>10, <1>11, <1>12, <1>13 DEF TabStep

\* A stop goes on after what it awaited.
LEMMA StopGoesOn ==
  ASSUME RInv, NEW t \in Tabs, NEW f \in Flows, flow[t][f].at # "idle",
         NEW to \in {"idle", "upload", "finish", "saving"}, NEW m \in {meeting[t], None},
         GoOn(t, f, flow[t][f], to, m), UNCHANGED rest, ServerParts',
         to = "upload" => Uploads(flow[t][f]),
         Uploads(flow[t][f]) => to = "upload",
         saved \subseteq saved', faults <= faults',
         open' \in {open, open \ {flow[t][f].meeting}},
         flow[t][f].at = "upload" => faults' # 0 \/ flow[t][f].meeting \in saved'
  PROVE  TabStep(t)
  <1>1. Parts /\ TabInv(t) /\ flow[t][f] \in Stops
    BY TypeParts DEF RInv, Parts, FlowParts
  <1>2. m \in Ids
    BY <1>1, NoneIsId DEF Parts, TabParts
  <1>3. /\ flow' \in [Tabs -> [Flows -> Stops]] /\ meeting' \in [Tabs -> Ids]
        /\ stoppable' \in {stoppable, stoppable \ {t}}
        /\ flow[t][f].at = "recorder" => stream' = stream \ {t}
        /\ flow[t][f].at # "recorder" => stream' = stream
        /\ \A u \in Tabs \ {t} : flow'[u] = flow[u] /\ meeting'[u] = meeting[u]
        /\ \A g \in Flows \ {f} : flow'[t][g] = flow[t][g]
        /\ to = "idle" => flow'[t][f] = NoFlow
        /\ flow'[t][f].at = to
        /\ to # "idle" => /\ flow'[t][f].meeting = flow[t][f].meeting
                          /\ flow'[t][f].audio = flow[t][f].audio
        /\ meeting'[t] \in {None, meeting[t]}
    BY <1>1, <1>2, GoOnEffect DEF RInv
  <1>4. /\ recorder' = recorder /\ claim' = claim /\ start' = start /\ answer' = answer
        /\ stopper' = stopper /\ beating' = beating /\ counting' = counting
        /\ lock' = lock /\ conflict' = conflict
        /\ made' = made /\ recorded' = recorded /\ claims' = claims
    BY DEF rest
  <1>5. /\ t \notin stopper /\ recorder[t] = None /\ claim[t] = Hidden
        /\ start[t] \notin {"importing", "imported", "opening"}
        /\ FlowIsRight(t, f)
    BY <1>1 DEF TabInv, RecorderIsRight, OneAtATime, Resting
  <1>6. flow'[t][f].meeting \in {None, flow[t][f].meeting}
    BY <1>3, NoneIsId
  <1>7. Uploads(flow[t][f]) <=> flow[t][f].at = "recorder"
    BY <1>5 DEF Uploads, FlowIsRight
  <1>8. TypeOK'
    <2>1. LockParts' /\ TabParts' /\ FlowParts'
      BY <1>1, <1>3, <1>4 DEF Parts, LockParts, TabParts, FlowParts
    <2> QED BY <2>1, TypeParts DEF Parts
  <1>9. \A u \in Tabs \ {t} : Same(u)
    BY <1>1, <1>3, <1>4 DEF Same, Parts, TabParts
  <1>10. TabInv(t)'
    <2>1. StreamIsStoppable(t)'
      BY <1>1, <1>3 DEF TabInv, StreamIsStoppable
    <2>2. RecorderIsRight(t)' /\ OneAtATime(t)' /\ StaysOpen(t)'
      BY <1>4, <1>5 DEF RecorderIsRight, OneAtATime, StaysOpen
    <2>3. \A g \in Flows : FlowIsRight(t, g)'
      BY <1>1, <1>3, <1>4, <1>5, <1>7 DEF TabInv, FlowIsRight
    <2>4. AnswerIsNew(t)'
      <3> SUFFICES ASSUME start[t] = "created"
                   PROVE  AnswerIsNew(t)'
        BY <1>4 DEF AnswerIsNew
      <3>1. AnswerIsNew(t) /\ answer[t] \in Meetings /\ answer[t] # None
        BY <1>1, IssuedIsMeeting, RecordAssumption DEF TabInv, AnswerIsNew
      <3> QED BY <1>3, <1>4, <1>6, <3>1 DEF AnswerIsNew
    <2> QED BY <2>1, <2>2, <2>3, <2>4 DEF TabInv
  <1>11. \A k \in Meetings : Has(t, k)' => Has(t, k)
    BY <1>3, <1>4, <1>6, RecordAssumption DEF Has
  <1>12. \A k \in recorded : faults' # 0 \/ k \in saved' \/ (Carries(t, k) => Carries(t, k)')
    BY <1>3, <1>4, <1>5, <1>7 DEF Carries, FlowIsRight
  <1>13. \A k \in open \ open' : Has(t, k)
    BY DEF Has
  <1>14. made \in Nat /\ claims \in Nat
    BY <1>1, RecordAssumption DEF Parts, ServerParts
  <1> QED BY <1>4, <1>8, <1>9, <1>10, <1>11, <1>12, <1>13, <1>14 DEF TabStep

LEMMA StopClickKeeps ==
  ASSUME RInv, Haste = {}, NEW t \in Tabs, NEW f \in Flows, StopClick(t, f)
  PROVE  TabStep(t)
  <1>1. meeting[t] \in Ids /\ FALSE \in BOOLEAN /\ Parts
    BY TypeParts DEF RInv, Parts, TabParts
  <1>2. LockParts'
    BY <1>1, NoneIsId DEF StopClick, ClearedBy, Parts, LockParts
  <1>3. /\ BeginStop(t, f, meeting[t], FALSE) /\ t \in stoppable /\ start[t] # "opening"
        /\ UNCHANGED <<claim, server, recorded, claims, faults, start, answer>>
    BY DEF StopClick
  <1> QED BY <1>1, <1>2, <1>3, StopBegins

LEMMA RefusedKeeps ==
  ASSUME RInv, NEW t \in Tabs, NEW f \in Flows, Refused(t, f)
  PROVE  TabStep(t)
  <1>1. meeting[t] \in Ids /\ TRUE \in BOOLEAN /\ Parts /\ answer[t] \in Ids
    BY TypeParts, NoneIsId DEF RInv, Parts, TabParts
  <1>2. LockParts'
    BY <1>1, NoneIsId DEF Refused, Answered, Shown, ClearedBy, Parts, LockParts
  <1>3. /\ BeginStop(t, f, meeting[t], TRUE) /\ start[t] = "refused"
        /\ start' = [start EXCEPT ![t] = "idle"] /\ answer' = [answer EXCEPT ![t] = None]
        /\ UNCHANGED <<claim, server, recorded, claims, faults>>
    BY DEF Refused, Answered
  <1> QED BY <1>1, <1>2, <1>3, StopBegins

LEMMA CreatedKeeps ==
  ASSUME RInv, NEW t \in Tabs, NEW f \in Flows, Created(t, f)
  PROVE  TabStep(t)
  <1>1. TRUE \in BOOLEAN /\ Parts /\ TabInv(t) /\ answer[t] \in Ids
    BY TypeParts, NoneIsId DEF RInv, Parts, TabParts
  <1>2. LockParts'
    <2>1. /\ lock' \in {Own(t, answer[t]), Unlocked} /\ claim' = claim
          /\ conflict' \in {conflict, [conflict EXCEPT ![t] = Hidden]}
      BY DEF Created, Answered
    <2>2. Own(t, answer[t]) \in [owner : Tabs \cup {None}, meeting : Ids]
      BY <1>1 DEF Own
    <2> QED BY <1>1, <2>1, <2>2, NoneIsId DEF Parts, LockParts
  <1>3. /\ start[t] = "created"
        /\ start' = [start EXCEPT ![t] = "idle"] /\ answer' = [answer EXCEPT ![t] = None]
        /\ UNCHANGED <<claim, server, claims, faults>>
    BY DEF Created, Answered
  <1>4. CASE t \notin stream
    <2>1. BeginStop(t, f, answer[t], TRUE) /\ UNCHANGED recorded
      BY <1>4 DEF Created, HasStream
    <2> QED BY <1>1, <1>2, <1>3, <2>1, StopBegins
  <1>5. CASE t \in stream
    <2>1. /\ meeting' = [meeting EXCEPT ![t] = answer[t]]
          /\ stopper' = stopper \cup {t}
          /\ recorder' = [recorder EXCEPT ![t] = answer[t]]
          /\ recorded' = recorded \cup {answer[t]}
          /\ UNCHANGED <<beating, stoppable, stream, counting, conflict, flow>>
      BY <1>5 DEF Created, HasStream
    <2>2. /\ made' = made /\ open' = open /\ saved' = saved /\ claims' = claims
          /\ faults' = faults /\ claim' = claim
          /\ made \in Nat /\ claims \in Nat /\ faults \in Nat
      BY <1>1, <1>3, RecordAssumption DEF server, Parts, ServerParts
    <2>3. AnswerIsNew(t) /\ answer[t] \in 1..made /\ answer[t] \in Meetings /\ answer[t] # None
      BY <1>1, <1>3, IssuedIsMeeting, RecordAssumption DEF TabInv, AnswerIsNew
    <2>4. Resting(t) /\ t \in stoppable /\ recorder[t] = None /\ claim[t] = Hidden
      BY <1>1, <1>3, <1>5
      DEF TabInv, StreamIsStoppable, RecorderIsRight, OneAtATime, FlowIsRight, Resting
    <2>5. TypeOK'
      <3>1. TabParts' /\ FlowParts' /\ ServerParts'
        BY <1>1, <1>3, <2>1, <2>2, <2>3 DEF Parts, TabParts, FlowParts, ServerParts
      <3> QED BY <1>2, <3>1, TypeParts DEF Parts
    <2>6. \A u \in Tabs \ {t} : Same(u)
      BY <1>1, <1>3, <2>1, <2>2 DEF Same, Parts, TabParts
    <2>7. /\ meeting'[t] = answer[t] /\ recorder'[t] = answer[t] /\ start'[t] = "idle"
          /\ t \in stopper' /\ flow'[t] = flow[t]
      BY <1>1, <1>3, <2>1 DEF Parts, TabParts
    <2>8. TabInv(t)'
      <3>1. StreamIsStoppable(t)' /\ RecorderIsRight(t)' /\ OneAtATime(t)'
        BY <1>5, <2>1, <2>2, <2>3, <2>4, <2>7
        DEF StreamIsStoppable, RecorderIsRight, OneAtATime, Resting
      <3>2. \A g \in Flows : FlowIsRight(t, g)'
        BY <1>1, <2>7 DEF TabInv, FlowIsRight
      <3>3. AnswerIsNew(t)' /\ StaysOpen(t)'
        BY <1>3, <2>2, <2>3, <2>7 DEF AnswerIsNew, StaysOpen
      <3> QED BY <3>1, <3>2, <3>3 DEF TabInv
    <2>9. \A k \in Meetings : Has(t, k)' => Has(t, k)
      BY <1>3, <2>7 DEF Has
    <2>10. \A k \in recorded' : Carries(t, k)' \/ (k \in recorded /\ ~Carries(t, k))
      <3>1. \A k \in recorded : k # None
        BY <1>1, IssuedIsMeeting, RecordAssumption DEF Parts, ServerParts
      <3> QED BY <2>1, <2>4, <2>7, <3>1 DEF Carries, Resting
    <2> QED BY <2>1, <2>2, <2>5, <2>6, <2>8, <2>9, <2>10 DEF TabStep
  <1> QED BY <1>4, <1>5

LEMMA RecorderStopsKeeps ==
  ASSUME RInv, NEW t \in Tabs, NEW f \in Flows, RecorderStops(t, f)
  PROVE  TabStep(t)
  <1>1. Parts /\ TabInv(t) /\ flow[t][f] \in Stops /\ flow[t][f].at = "recorder"
    BY TypeParts DEF RInv, Parts, FlowParts, RecorderStops, Waits
  <1> DEFINE to == After(flow[t][f])
  <1>2. /\ to \in {"idle", "upload", "finish", "saving"}
        /\ to = "upload" <=> Uploads(flow[t][f])
    BY <1>1, AfterCases
  <1>3. GoOn(t, f, flow[t][f], to, meeting[t]) /\ UNCHANGED rest
    BY DEF RecorderStops, Continue
  <1>4. ServerParts' /\ saved \subseteq saved' /\ faults <= faults' /\ open' = open
    BY <1>1, RecordAssumption DEF RecorderStops, rest, Parts, ServerParts
  <1> HIDE DEF to
  <1> QED BY <1>1, <1>2, <1>3, <1>4, StopGoesOn

LEMMA SaveMp3Keeps ==
  ASSUME RInv, NEW t \in Tabs, NEW f \in Flows, SaveMp3(t, f)
  PROVE  TabStep(t)
  <1>1. Parts /\ TabInv(t) /\ flow[t][f] \in Stops /\ flow[t][f].at = "saving"
    BY TypeParts DEF RInv, Parts, FlowParts, SaveMp3, Waits
  <1> DEFINE to == After(flow[t][f])
  <1>2. /\ to \in {"idle", "upload", "finish", "saving"}
        /\ to = "upload" <=> Uploads(flow[t][f])
    BY <1>1, AfterCases
  <1>3. GoOn(t, f, flow[t][f], to, meeting[t]) /\ UNCHANGED rest
    BY DEF SaveMp3, Continue
  <1>4. ServerParts' /\ saved \subseteq saved' /\ faults <= faults' /\ open' = open
    BY <1>1, RecordAssumption DEF SaveMp3, rest, Parts, ServerParts
  <1> HIDE DEF to
  <1> QED BY <1>1, <1>2, <1>3, <1>4, StopGoesOn

LEMMA UploadKeeps ==
  ASSUME RInv, NEW t \in Tabs, NEW f \in Flows, Upload(t, f)
  PROVE  TabStep(t)
  <1>1. Parts /\ TabInv(t) /\ flow[t][f] \in Stops /\ flow[t][f].at = "upload"
    BY TypeParts DEF RInv, Parts, FlowParts, Upload, Waits
  <1> DEFINE to == After(flow[t][f])
  <1>2. /\ to \in {"idle", "upload", "finish", "saving"}
        /\ to = "upload" <=> Uploads(flow[t][f])
    BY <1>1, AfterCases
  <1>3. GoOn(t, f, flow[t][f], to, meeting[t]) /\ UNCHANGED rest
    BY DEF Upload, Continue
  <1> HIDE DEF to
  <1>4. flow[t][f].meeting \in 1..made
    <2>1. flow[t][f].meeting \in Meetings
      BY <1>1 DEF TabInv, FlowIsRight, Stops
    <2> QED BY <2>1 DEF Has, RInv, OwnersDiffer
  <1>5. faults' \in 0..MaxFaults /\ faults <= faults' /\ saved \subseteq saved'
        /\ saved' \subseteq saved \cup {flow[t][f].meeting} /\ open' = open
        /\ (faults' # 0 \/ flow[t][f].meeting \in saved')
    BY <1>1, RecordAssumption DEF Upload, Fault, Parts, ServerParts
  <1>6. ServerParts'
    BY <1>1, <1>3, <1>4, <1>5 DEF rest, Parts, ServerParts
  <1> QED BY <1>1, <1>2, <1>3, <1>5, <1>6, StopGoesOn

LEMMA FinishKeeps ==
  ASSUME RInv, NEW t \in Tabs, NEW f \in Flows, Finish(t, f)
  PROVE  TabStep(t)
  <1>1. Parts /\ flow[t][f] \in Stops /\ flow[t][f].at = "finish"
    BY TypeParts DEF RInv, Parts, FlowParts, Finish, Waits
  <1>2. ~Uploads(flow[t][f])
    BY <1>1 DEF Uploads
  <1>3. /\ UNCHANGED rest /\ saved' = saved
        /\ open' \in {open, open \ {flow[t][f].meeting}}
        /\ faults' \in 0..MaxFaults /\ faults <= faults'
    BY <1>1, RecordAssumption DEF Finish, Fault, Parts, ServerParts
  <1>4. ServerParts'
    BY <1>1, <1>3 DEF rest, Parts, ServerParts
  <1>5. CASE Continue(t, f)
    <2> DEFINE to == After(flow[t][f])
    <2>1. /\ to \in {"idle", "upload", "finish", "saving"}
          /\ to = "upload" <=> Uploads(flow[t][f])
      BY <1>1, AfterCases
    <2>2. GoOn(t, f, flow[t][f], to, meeting[t])
      BY <1>5 DEF Continue
    <2> HIDE DEF to
    <2> QED BY <1>1, <1>3, <1>4, <2>1, <2>2, StopGoesOn
  <1>6. CASE GoOn(t, f, flow[t][f], "idle", None)
    BY <1>1, <1>2, <1>3, <1>4, <1>6, StopGoesOn
  <1> QED BY <1>5, <1>6 DEF Finish

--------------------------------------------------------------------------------
\* The heartbeat, the storage event and the end of a lock nobody renews.
LEMMA LockStepKeeps ==
  ASSUME RInv, LockParts',
         UNCHANGED <<page, claim, start, answer, flow, server, recorded, claims, faults>>
  PROVE  RInv'
  <1>1. Parts'
    BY TypeParts DEF RInv, Parts, TabParts, FlowParts, ServerParts, page, server
  <1>2. \A t \in Tabs : TabInv(t)'
    BY DEF RInv, TabInv, StreamIsStoppable, RecorderIsRight, OneAtATime, FlowIsRight,
           AnswerIsNew, StaysOpen, Resting, page, server
  <1>3. OwnersDiffer' /\ StopSaves'
    BY DEF RInv, OwnersDiffer, Has, StopSaves, Carries, page, server
  <1> QED BY <1>1, <1>2, <1>3, TypeParts DEF RInv

LEMMA RInvInit == Init => RInv
  <1> SUFFICES ASSUME Init
               PROVE  RInv
    OBVIOUS
  <1>1. Parts
    BY NoneIsId, RecordAssumption
    DEF Init, Parts, LockParts, TabParts, FlowParts, ServerParts
  <1>2. \A t \in Tabs, f \in Flows : flow[t][f] = NoFlow
    BY DEF Init
  <1>3. \A t \in Tabs : TabInv(t)
    BY <1>2, NoneIsId
    DEF Init, TabInv, StreamIsStoppable, RecorderIsRight, OneAtATime, FlowIsRight,
        AnswerIsNew, StaysOpen, Resting
  <1>4. \A t \in Tabs, m \in Meetings : ~Has(t, m)
    BY <1>2, NoneIsId, RecordAssumption DEF Init, Has
  <1> QED BY <1>1, <1>3, <1>4, TypeParts DEF RInv, OwnersDiffer, StopSaves, Init

LEMMA RInvStep ==
  ASSUME Haste = {}, RInv, [Next]_vars
  PROVE  RInv'
  <1>1. Parts
    BY TypeParts DEF RInv
  <1>2. CASE UNCHANGED vars
    <2>1. LockParts'
      BY <1>1, <1>2 DEF vars, Parts, LockParts
    <2> QED BY <1>2, <2>1, LockStepKeeps DEF vars
  <1>3. CASE Expire
    <2>1. LockParts'
      BY <1>1, <1>3, NoneIsId DEF Expire, Parts, LockParts
    <2> QED BY <1>3, <2>1, LockStepKeeps DEF Expire
  <1>4. ASSUME NEW t \in Tabs, Beat(t)
        PROVE  RInv'
    <2>1. LockParts'
      BY <1>1, <1>4 DEF Beat, Own, Parts, LockParts, TabParts
    <2> QED BY <1>4, <2>1, LockStepKeeps DEF Beat
  <1>5. ASSUME NEW t \in Tabs, NoticeLock(t)
        PROVE  RInv'
    <2>1. LockParts'
      BY <1>1, <1>5 DEF NoticeLock, Shown, Parts, LockParts
    <2> QED BY <1>5, <2>1, LockStepKeeps DEF NoticeLock
  <1>6. ASSUME NEW t \in Tabs, User(t)
        PROVE  TabStep(t)
    BY <1>6, StartClickKeeps, OpenedKeeps, ImportClickKeeps, ClaimClickKeeps, StopClickKeeps
    DEF User
  <1>7. ASSUME NEW t \in Tabs, Starting(t)
        PROVE  TabStep(t)
    BY <1>7, CheckKeeps, CreateKeeps, RefusedKeeps, CreatedKeeps DEF Starting
  <1>8. ASSUME NEW t \in Tabs,
               \/ CountedDown(t) \/ Claim(t) \/ Import(t) \/ EndImport(t)
               \/ LoseRequest(t) \/ Unload(t)
        PROVE  TabStep(t)
    BY <1>8, CountedDownKeeps, ClaimKeeps, ImportKeeps, EndImportKeeps, LoseRequestKeeps,
       UnloadKeeps
  <1>9. ASSUME NEW t \in Tabs, NEW f \in Flows, Stopping(t, f)
        PROVE  TabStep(t)
    BY <1>9, RecorderStopsKeeps, UploadKeeps, FinishKeeps, SaveMp3Keeps DEF Stopping
  <1> QED BY <1>2, <1>3, <1>4, <1>5, <1>6, <1>7, <1>8, <1>9, TabStepIsSafe DEF Next

--------------------------------------------------------------------------------
\* Of users who wait until a click has had its effect, whatever the tabs, the
\* order of callbacks and requests, claims and imports: what a recorder was
\* started for is on the server or in the hands of a tab that will upload it,
\* unless a request or a page was lost (stopRecording, startRecording).
THEOREM StopSavesWhatWasRecorded ==
  ASSUME Haste = {}
  PROVE  Spec => []StopSaves
  <1>1. Init => RInv
    BY RInvInit
  <1>2. RInv /\ [Next]_vars => RInv'
    BY RInvStep
  <1>3. RInv => StopSaves
    BY DEF RInv
  <1> QED BY <1>1, <1>2, <1>3, PTL DEF Spec

\* Of the same users: a tab that takes itself to record does record, for the
\* meeting it shows, can be stopped, and nobody but a claim has finished its
\* meeting (startRecording, stopRecording, start_meeting).
THEOREM EachTabRecordsItsMeeting ==
  ASSUME Haste = {}
  PROVE  Spec => []RecordsItsMeeting
  <1>1. Init => RInv
    BY RInvInit
  <1>2. RInv /\ [Next]_vars => RInv'
    BY RInvStep
  <1>3. RInv => RecordsItsMeeting
    BY TypeParts
    DEF RInv, Parts, TabParts, TabInv, StreamIsStoppable, RecorderIsRight, StaysOpen,
        RecordsItsMeeting
  <1> QED BY <1>1, <1>2, <1>3, PTL DEF Spec

\* Of the same users: every variable keeps its type, so that only meetings the
\* server has made are uploaded, finished or recorded.
THEOREM RecordTypeCorrect ==
  ASSUME Haste = {}
  PROVE  Spec => []TypeOK
  <1>1. Init => RInv
    BY RInvInit
  <1>2. RInv /\ [Next]_vars => RInv'
    BY RInvStep
  <1>3. RInv => TypeOK
    BY DEF RInv
  <1> QED BY <1>1, <1>2, <1>3, PTL DEF Spec
================================================================================
