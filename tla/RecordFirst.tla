------------------------------ MODULE RecordFirst ------------------------------
(***************************************************************************)
(* Recording in the browser (apps/api_gateway/ui/app.js, "record-first"):  *)
(* tabs share a capture lock in localStorage, start a meeting on the       *)
(* server, record it with a backup recorder, and on Stop upload the audio  *)
(* and finish the meeting (routers/meetings.py, artifacts.py, realtime.py).*)
(*                                                                         *)
(* A tab runs one callback at a time, and an action is the code between    *)
(* two awaits.  What a start or a stop does after an await it does with    *)
(* the state it finds then, and several of them may be on their way.       *)
(***************************************************************************)
EXTENDS Naturals

CONSTANTS
  Tabs,
  None,         \* no tab, no meeting
  Importers,    \* bound: the tabs in which files are imported
  Imported,     \* the meetings made for imported files, which never matter
  Hidden,       \* the button that claims the capture is not shown
  MaxMeetings,  \* bound: meetings the server creates
  Flows,        \* bound: stops that may be on their way in one tab
  MaxClaims,    \* bound: claims of the capture
  MaxFaults,    \* bound: lost requests and pages closed
  Haste         \* the buttons clicked before the last click had its effect

Meetings == 1..MaxMeetings
Ids == Meetings \cup {None, Imported}

ASSUME RecordAssumption ==
  /\ MaxMeetings \in Nat /\ MaxClaims \in Nat /\ MaxFaults \in Nat
  /\ None \notin Tabs /\ None \notin Meetings /\ Imported \notin Meetings
  /\ Importers \subseteq Tabs /\ None # Imported /\ Hidden \notin Ids
  /\ Haste \subseteq {"start", "stop", "claim", "import"}

VARIABLES
  lock,       \* the capture lock: who owns it and for which meeting
  beating,    \* the tabs whose heartbeat writes the lock
  stoppable,  \* the tabs whose Stop button is enabled; in the others Start is
  stream,     \* the tabs that hold a media stream
  stopper,    \* the tabs with a captureStopper: they take themselves to record
  counting,   \* isCountingDown
  meeting,    \* state.meetingId of each tab
  recorder,   \* the meeting the running backup recorder was started for
  conflict,   \* what each tab shows of a conflict: the meeting, if it knows
  claim,      \* the meeting each tab is claiming
  start,      \* how far the start of a tab has come
  answer,     \* the meeting in the answer to it
  flow,       \* the stops on their way
  made,       \* number of meetings created
  open,       \* meetings that are not finished
  recorded,   \* meetings a recorder was started for
  saved,      \* meetings whose audio has reached the server
  claims, faults

page == <<beating, stoppable, stream, stopper, counting, meeting, recorder>>
server == <<made, open, saved>>
vars == <<lock, page, conflict, claim, start, answer, flow, server, recorded,
          claims, faults>>

Unlocked == [owner |-> None, meeting |-> None]
NoFlow == [at |-> "idle", meeting |-> None, audio |-> None, finish |-> FALSE,
           caught |-> FALSE]

TypeOK ==
  /\ lock \in [owner : Tabs \cup {None}, meeting : Ids]
  /\ \A some \in {beating, stoppable, stream, stopper, counting} : some \subseteq Tabs
  /\ meeting \in [Tabs -> Ids]
  /\ {recorder, answer} \subseteq [Tabs -> Meetings \cup {None}]
  /\ conflict \in [Tabs -> Ids \cup {Hidden}]
  /\ claim \in [Tabs -> Ids \cup {Hidden}]
  /\ start \in [Tabs -> {"idle", "opening", "counting", "posting", "checked",
                         "created", "refused", "importing", "imported"}]
  /\ flow \in [Tabs -> [Flows -> [at : {"idle", "recorder", "upload", "finish", "saving"},
                                  meeting : Ids,
                                  audio : Meetings \cup {None},
                                  finish : BOOLEAN, caught : BOOLEAN]]]
  /\ made \in 0..MaxMeetings
  /\ {open, saved, recorded} \subseteq SUBSET (1..made)
  /\ claims \in 0..MaxClaims
  /\ faults \in 0..MaxFaults

Init ==
  /\ lock = Unlocked
  /\ beating = {} /\ stoppable = {} /\ stream = {} /\ stopper = {} /\ counting = {}
  /\ meeting = [t \in Tabs |-> None]
  /\ recorder = meeting /\ answer = meeting
  /\ conflict = [t \in Tabs |-> Hidden]
  /\ claim = conflict
  /\ start = [t \in Tabs |-> "idle"]
  /\ flow = [t \in Tabs |-> [f \in Flows |-> NoFlow]]
  /\ made = 0 /\ open = {} /\ saved = {} /\ recorded = {}
  /\ claims = 0 /\ faults = 0

Idle(t, f) == flow[t][f].at = "idle"
Unused(t, f) == Idle(t, f) /\ f = CHOOSE g \in Flows : Idle(t, g)
Quiet(t) == /\ start[t] = "idle" /\ t \notin stoppable /\ claim[t] = Hidden
            /\ \A f \in Flows : Idle(t, f)
Fault == faults < MaxFaults /\ faults' = faults + 1
Own(t, m) == [owner |-> t, meeting |-> m]
ClearedBy(t) == IF lock.owner = t THEN Unlocked ELSE lock

--------------------------------------------------------------------------------
(* The lock.                                                                *)

(* The heartbeat writes the lock whoever owns it.                           *)
Beat(t) ==
  /\ t \in beating
  /\ lock' = Own(t, meeting[t])
  /\ UNCHANGED <<page, conflict, claim, start, answer, flow, server, recorded, claims, faults>>

(* A lock that no heartbeat renews is void after 20 seconds.                *)
Expire ==
  /\ lock.owner # None
  /\ lock.owner \notin beating
  /\ lock' = Unlocked
  /\ UNCHANGED <<page, conflict, claim, start, answer, flow, server, recorded, claims, faults>>

LockedOut(t) == lock.owner \notin {t, None}

Shown(t, m) == [conflict EXCEPT ![t] = IF m = None /\ @ # Hidden THEN @ ELSE m]

(* The storage event: a tab that records learns that another took the lock. *)
NoticeLock(t) ==
  /\ LockedOut(t)
  /\ t \in counting \cup stopper \cup stoppable \/ meeting[t] # None
  /\ conflict' = Shown(t, lock.meeting)
  /\ UNCHANGED <<lock, page, claim, start, answer, flow, server, recorded, claims, faults>>

--------------------------------------------------------------------------------
(* stopRecording.                                                           *)

(* Bug: the audio is not uploaded when the meeting is finished anyway.      *)
AfterSkippingUpload(r) ==
  CASE r.at = "recorder" /\ r.meeting # None /\ r.audio # None /\ ~r.finish -> "upload"
    [] r.at \in {"recorder", "upload"} /\ r.meeting # None /\ r.finish -> "finish"
    [] r.at = "finish" -> "saving"
    [] OTHER -> "idle"

(* A stop that has both a meeting and its sound uploads it first.           *)
Uploads(r) == r.at = "recorder" /\ r.meeting # None /\ r.audio # None

(* Bug: the meeting is left unfinished after an upload.                     *)
AfterUploadOnly(r) ==
  CASE Uploads(r) -> "upload"
    [] ~Uploads(r) /\ r.at = "recorder" /\ r.meeting # None /\ r.finish -> "finish"
    [] r.at = "finish" -> "saving"
    [] OTHER -> "idle"

(* Where a stop goes on after what it awaited.                              *)
After(r) ==
  CASE Uploads(r) -> "upload"
    [] ~Uploads(r) /\ r.at \in {"recorder", "upload"} /\ r.meeting # None /\ r.finish -> "finish"
    [] r.at = "finish" -> "saving"
    [] OTHER -> "idle"

(* The end of a stop forgets the meeting the tab has by then, which may be  *)
(* another one; when a failed start made the stop, the Start button is      *)
(* enabled once more.                                                       *)
GoOn(t, f, r, to, m) ==
  /\ flow' = [flow EXCEPT ![t][f] = IF to = "idle" THEN NoFlow ELSE [r EXCEPT !.at = to]]
  /\ meeting' = [meeting EXCEPT ![t] = IF to = "idle" THEN None ELSE m]
  /\ stoppable' = IF r.at = "recorder" \/ (to = "idle" /\ r.caught)
                    THEN stoppable \ {t}
                    ELSE stoppable
  /\ stream' = IF r.at = "recorder" THEN stream \ {t} ELSE stream

Finishes(t, forced) == forced \/ t \in stopper \cup counting

Hush(t) ==
  /\ beating' = beating \ {t}
  /\ counting' = counting \ {t}
  /\ recorder' = [recorder EXCEPT ![t] = None]
  /\ stopper' = stopper \ {t}

(* Up to the end of the recorder, which is only awaited if there is one.    *)
BeginStop(t, f, m, forced) ==
  LET r == [at |-> "recorder", meeting |-> m, audio |-> recorder[t],
            finish |-> Finishes(t, forced), caught |-> forced]
  IN /\ Unused(t, f)
     /\ Hush(t)
     /\ IF recorder[t] # None
          THEN /\ flow' = [flow EXCEPT ![t][f] = r]
               /\ meeting' = [meeting EXCEPT ![t] = m]
               /\ UNCHANGED <<stoppable, stream>>
          ELSE GoOn(t, f, r, After(r), m)

StopClick(t, f) ==
  /\ t \in stoppable
  /\ start[t] = "opening" => "stop" \in Haste
  /\ lock' = ClearedBy(t)
  /\ BeginStop(t, f, meeting[t], FALSE)
  /\ UNCHANGED <<conflict, claim, start, answer, server, recorded, claims, faults>>

Waits(t, f, what) == flow[t][f].at = what

Continue(t, f) == GoOn(t, f, flow[t][f], After(flow[t][f]), meeting[t])

rest == <<lock, beating, stopper, counting, recorder, conflict, claim, start, answer,
          made, recorded, claims>>

RecorderStops(t, f) ==
  /\ Waits(t, f, "recorder")
  /\ Continue(t, f)
  /\ UNCHANGED <<rest, open, saved, faults>>

(* A failed upload leaves a hint, and the stop goes on.                     *)
Upload(t, f) ==
  /\ Waits(t, f, "upload")
  /\ \/ saved' = saved \cup {flow[t][f].meeting} /\ UNCHANGED faults
     \/ Fault /\ saved' \in {saved, saved \cup {flow[t][f].meeting}}
  /\ Continue(t, f)
  /\ UNCHANGED <<rest, open>>

(* finish_meeting closes the meeting before it makes the MP3.               *)
Finish(t, f) ==
  /\ Waits(t, f, "finish")
  /\ \/ /\ open' = open \ {flow[t][f].meeting}
        /\ Continue(t, f)
        /\ UNCHANGED faults
     \/ /\ Fault
        /\ open' \in {open, open \ {flow[t][f].meeting}}
        /\ GoOn(t, f, flow[t][f], "idle", None)
  /\ UNCHANGED <<rest, saved>>

(* The answer to finish, the list of records, and saving the MP3.           *)
SaveMp3(t, f) ==
  /\ Waits(t, f, "saving")
  /\ Continue(t, f)
  /\ UNCHANGED <<rest, open, saved, faults>>

--------------------------------------------------------------------------------
(* startRecording.                                                          *)

Released(t) ==
  /\ stream' = stream \ {t}
  /\ beating' = beating \ {t}
  /\ lock' = ClearedBy(t)
  /\ stoppable' = stoppable \ {t}

InTheWay == lock.meeting

(* Bound: one start at a time in a tab.                                     *)
StartClick(t) ==
  /\ start[t] = "idle"
  /\ t \notin stoppable
  /\ "start" \in Haste \/ Quiet(t)
  /\ IF LockedOut(t)
       THEN /\ conflict' = [conflict EXCEPT ![t] = InTheWay]
            /\ UNCHANGED <<lock, page, start>>
       ELSE /\ conflict' = [conflict EXCEPT ![t] = Hidden]
            /\ lock' = Own(t, None)
            /\ beating' = beating \cup {t}
            /\ stoppable' = stoppable \cup {t}
            /\ recorder' = [recorder EXCEPT ![t] = None]
            /\ stream' = stream \ {t}
            /\ start' = [start EXCEPT ![t] = "opening"]
            /\ UNCHANGED <<stopper, counting, meeting>>
  /\ UNCHANGED <<claim, answer, flow, server, recorded, claims, faults>>

(* The device is opened, or cannot be; a Stop in the meantime goes unseen.  *)
Opened(t) ==
  /\ start[t] = "opening"
  /\ \/ /\ stream' = stream \cup {t}
        /\ counting' = counting \cup {t}
        /\ start' = [start EXCEPT ![t] = "counting"]
        /\ UNCHANGED <<lock, beating, stoppable, conflict>>
     \/ /\ Released(t)
        /\ start' = [start EXCEPT ![t] = "idle"]
        /\ conflict' = [conflict EXCEPT ![t] = Hidden]
        /\ UNCHANGED counting
  /\ UNCHANGED <<stopper, meeting, recorder, claim, answer, flow, server, recorded,
                 claims, faults>>

CountedDown(t) ==
  /\ start[t] = "counting"
  /\ IF t \in counting
       THEN /\ counting' = counting \ {t}
            /\ start' = [start EXCEPT ![t] = "posting"]
            /\ UNCHANGED <<lock, beating, stoppable, stream>>
       ELSE /\ Released(t)
            /\ start' = [start EXCEPT ![t] = "idle"]
            /\ UNCHANGED counting
  /\ UNCHANGED <<stopper, meeting, recorder, conflict, claim, answer, flow, server,
                 recorded, claims, faults>>

asked == <<lock, page, conflict, claim, flow, recorded, saved, claims>>

(* start_meeting looks for an unfinished recording, and saves the new one   *)
(* in a later step: two requests may both find nothing.                     *)
Check(t) ==
  /\ start[t] = "posting"
  /\ IF open = {}
       THEN start' = [start EXCEPT ![t] = "checked"] /\ UNCHANGED answer
       ELSE \E m \in open : /\ start' = [start EXCEPT ![t] = "refused"]
                            /\ answer' = [answer EXCEPT ![t] = m]
  /\ UNCHANGED <<asked, made, open, faults>>

Create(t) ==
  /\ start[t] = "checked"
  /\ made < MaxMeetings
  /\ made' = made + 1
  /\ open' = open \cup {made'}
  /\ answer' = [answer EXCEPT ![t] = made']
  /\ start' = [start EXCEPT ![t] = "created"]
  /\ UNCHANGED <<asked, faults>>

LoseRequest(t) ==
  /\ start[t] \in {"posting", "created"}
  /\ Fault
  /\ start' = [start EXCEPT ![t] = "refused"]
  /\ answer' = [answer EXCEPT ![t] = None]
  /\ UNCHANGED <<asked, made, open>>

Answered(t) ==
  /\ start' = [start EXCEPT ![t] = "idle"]
  /\ answer' = [answer EXCEPT ![t] = None]
  /\ UNCHANGED <<claim, server, claims, faults>>

(* A refused start stops what the tab has, and finishes its meeting.        *)
Refused(t, f) ==
  /\ start[t] = "refused"
  /\ conflict' = IF answer[t] = None THEN [conflict EXCEPT ![t] = Hidden]
                                     ELSE Shown(t, answer[t])
  /\ lock' = ClearedBy(t)
  /\ BeginStop(t, f, meeting[t], TRUE)
  /\ Answered(t)
  /\ UNCHANGED recorded

(* Bug: nobody looks whether the stream is still there.                     *)
AnyStream(t) == TRUE

HasStream(t) == t \in stream

(* The stream is gone if Stop was clicked since the countdown.              *)
Created(t, f) ==
  /\ start[t] = "created"
  /\ IF HasStream(t)
       THEN /\ lock' = Own(t, answer[t])
            /\ meeting' = [meeting EXCEPT ![t] = answer[t]]
            /\ stopper' = stopper \cup {t}
            /\ recorder' = [recorder EXCEPT ![t] = answer[t]]
            /\ recorded' = recorded \cup {answer[t]}
            /\ UNCHANGED <<beating, stoppable, stream, counting, conflict, flow>>
       ELSE /\ lock' = Unlocked
            /\ conflict' = [conflict EXCEPT ![t] = Hidden]
            /\ BeginStop(t, f, answer[t], TRUE)
            /\ UNCHANGED recorded
  /\ Answered(t)

--------------------------------------------------------------------------------
(* An MP3 is imported: the reset of the session drops a running recorder,   *)
(* and meetingId keeps the imported meeting.  Bound: no start meanwhile.    *)
ImportClick(t) ==
  /\ t \in Importers
  /\ start[t] = "idle"
  /\ "import" \in Haste \/ Quiet(t)
  /\ start' = [start EXCEPT ![t] = "importing"]
  /\ recorder' = [recorder EXCEPT ![t] = None]
  /\ stoppable' = stoppable \ {t}
  /\ UNCHANGED <<lock, beating, stream, stopper, counting, meeting, conflict, claim,
                 answer, flow, server, recorded, claims, faults>>

Import(t) ==
  /\ start[t] = "importing"
  /\ \/ /\ meeting' = [meeting EXCEPT ![t] = Imported]
        /\ start' = [start EXCEPT ![t] = "imported"]
        /\ UNCHANGED stoppable
     \/ /\ start' = [start EXCEPT ![t] = "idle"]
        /\ stoppable' = stoppable \ {t}
        /\ UNCHANGED meeting
  /\ UNCHANGED <<lock, beating, stream, stopper, counting, recorder, conflict, claim,
                 answer, flow, server, recorded, claims, faults>>

EndImport(t) ==
  /\ start[t] = "imported"
  /\ start' = [start EXCEPT ![t] = "idle"]
  /\ stoppable' = stoppable \ {t}
  /\ UNCHANGED <<lock, beating, stream, stopper, counting, meeting, recorder, conflict,
                 claim, answer, flow, server, recorded, claims, faults>>

--------------------------------------------------------------------------------
(* The capture is claimed by another tab; a page is closed or loaded again. *)

Known(t) == IF conflict[t] # None THEN conflict[t] ELSE lock.meeting

(* Without a known meeting the server is asked for an unfinished one.       *)
ClaimClick(t) ==
  /\ conflict[t] # Hidden
  /\ claim[t] = Hidden
  /\ "claim" \in Haste \/ Quiet(t)
  /\ claims < MaxClaims
  /\ claims' = claims + 1
  /\ lock' = Unlocked
  /\ IF Known(t) # None \/ open = {}
       THEN claim' = [claim EXCEPT ![t] = Known(t)]
       ELSE \E m \in open : claim' = [claim EXCEPT ![t] = m]
  /\ UNCHANGED <<page, conflict, start, answer, flow, server, recorded, faults>>

Claim(t) ==
  /\ claim[t] # Hidden
  /\ claim' = [claim EXCEPT ![t] = Hidden]
  /\ \/ /\ open' = open \ {claim[t]}
        /\ conflict' = [conflict EXCEPT ![t] = Hidden]
        /\ stoppable' = stoppable \ {t}
        /\ UNCHANGED faults
     \/ /\ Fault
        /\ open' \in {open, open \ {claim[t]}}
        /\ UNCHANGED <<conflict, stoppable>>
  /\ UNCHANGED <<lock, beating, stream, stopper, counting, meeting, recorder, start,
                 answer, flow, made, saved, recorded, claims>>

(* emergencyReleaseOnUnload clears the lock and no more, and a page that is *)
(* killed does not even do that; the new page knows nothing.  A request     *)
(* that the server has begun to answer goes on there.                       *)
Unload(t) ==
  /\ Fault
  /\ lock' \in {lock, ClearedBy(t)}
  /\ beating' = beating \ {t}
  /\ stoppable' = stoppable \ {t}
  /\ stream' = stream \ {t}
  /\ stopper' = stopper \ {t}
  /\ counting' = counting \ {t}
  /\ meeting' = [meeting EXCEPT ![t] = None]
  /\ recorder' = [recorder EXCEPT ![t] = None]
  /\ conflict' = [conflict EXCEPT ![t] = Hidden]
  /\ claim' = [claim EXCEPT ![t] = Hidden]
  /\ flow' = [flow EXCEPT ![t] = [f \in Flows |-> NoFlow]]
  /\ start[t] # "checked"
  /\ start' = [start EXCEPT ![t] = "idle"]
  /\ answer' = [answer EXCEPT ![t] = None]
  /\ UNCHANGED <<server, recorded, claims>>

--------------------------------------------------------------------------------
Stopping(t, f) == RecorderStops(t, f) \/ Upload(t, f) \/ Finish(t, f) \/ SaveMp3(t, f)

Starting(t) ==
  \/ Check(t) \/ Create(t)
  \/ \E f \in Flows : Refused(t, f) \/ Created(t, f)

User(t) == StartClick(t) \/ Opened(t) \/ ImportClick(t) \/ ClaimClick(t) \/ \E f \in Flows : StopClick(t, f)

Next ==
  \/ Expire
  \/ \E t \in Tabs :
       \/ User(t) \/ Starting(t) \/ CountedDown(t) \/ Claim(t)
       \/ Import(t) \/ EndImport(t) \/ Beat(t) \/ NoticeLock(t) \/ LoseRequest(t) \/ Unload(t)
       \/ \E f \in Flows : Stopping(t, f)

Spec == Init /\ [][Next]_vars

(* Callbacks run and requests are answered; the user owes nothing.          *)
Fairness == \A t \in Tabs : /\ WF_vars(Starting(t))
                            /\ \A f \in Flows : WF_vars(Stopping(t, f))

FairSpec == Spec /\ Fairness

--------------------------------------------------------------------------------
Carries(t, m) == recorder[t] = m \/ \E f \in Flows : /\ flow[t][f].audio = m
                                                    /\ flow[t][f].at \in {"recorder", "upload"}

(* "After Stop the audio is saved": what was recorded for a meeting is on   *)
(* the server, or on its way there, unless a request or a page was lost     *)
(* (docs/user_guide.md; stopRecording, startRecording, resetSessionState).  *)
StopSaves ==
  faults = 0 => \A m \in recorded : m \in saved \/ \E t \in Tabs : Carries(t, m)

(* A tab that takes itself to record does record, for the meeting it shows, *)
(* and nobody has finished that meeting unless the capture was claimed      *)
(* (startRecording, stopRecording).                                         *)
RecordsItsMeeting ==
  \A t \in stopper :
    /\ meeting[t] # None /\ recorder[t] = meeting[t]
    /\ claims = 0 => meeting[t] \in open
    /\ t \in stoppable

(* Two tabs record at the same time only after a claim (start_meeting, the  *)
(* capture lock).  Not so: a start whose answer comes after Stop overwrites *)
(* and drops the lock another tab holds, and two requests may pass the      *)
(* check together.                                                          *)
OneTabRecords ==
  claims = 0 => \A t, u \in stopper : t = u

(* An unfinished meeting, which keeps everybody from starting another, has  *)
(* somebody who will finish it, unless a request or a page was lost         *)
(* (start_meeting, stopRecording).                                          *)
Answers(t, m) == \/ meeting[t] = m
                 \/ start[t] = "created" /\ answer[t] = m
                 \/ \E f \in Flows : flow[t][f].meeting = m /\ flow[t][f].finish
OpenHasOwner == faults = 0 => \A m \in open : \E t \in Tabs : Answers(t, m)

(* A claim moves the capture: the tab it was taken from no longer records.  *)
(* Not so: that tab is not told, and its heartbeat takes the lock back.     *)
ClaimMovesCapture ==
  \A t \in Tabs : (t \in stopper /\ meeting[t] # None) => meeting[t] \in open

(* A stop that has the sound of a meeting still knows that meeting, and so  *)
(* uploads it: "after Stop the audio is saved".                             *)
StopUploads ==
  \A t \in Tabs, f \in Flows : flow[t][f].audio \in {None, flow[t][f].meeting}

(* No meeting stays unfinished, and in the way of the next one, without     *)
(* being recorded, unless a request or a page is lost (startRecording,      *)
(* stopRecording, finish_meeting).                                          *)
NeverAbandoned ==
  [](faults = 0) =>
    \A m \in Meetings :
      m \in open ~> m \notin open \/ \E t \in stopper : meeting[t] = m

================================================================================
