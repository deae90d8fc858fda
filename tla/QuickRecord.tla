------------------------------ MODULE QuickRecord ------------------------------
(***************************************************************************)
(* Recording a meeting by its link (interview_analytics_agent/            *)
(* quick_record.py): a manager that runs one job at a time, the thread of  *)
(* every job (_run_job, run_quick_record) and the thread that captures     *)
(* sound for it (SegmentedLoopbackRecorder.record).  A job waits for its   *)
(* stop event, stops its recorder, merges the segments, and puts the file  *)
(* into the local results or uploads it to an agent.                       *)
(*                                                                         *)
(* What is left out: progress numbers, the local transcription (the router *)
(* forces it off), and a restart of the process, which forgets every job.  *)
(***************************************************************************)

CONSTANTS
  Jobs,            \* the jobs ever started; each is started at most once
  None,            \* no job
  DeviceCanHang,   \* may a read of the sound device outlast the 20 s of join
  ImportCanFail    \* may the import into the local results raise

ASSUME QuickAssumption == /\ None \notin Jobs
                          /\ DeviceCanHang \in BOOLEAN
                          /\ ImportCanFail \in BOOLEAN

VARIABLES
  status,     \* job.status, "none" before start
  active,     \* _active_job_id
  stop,       \* the jobs whose stop_event is set
  pc,         \* the next step of the thread of the job
  recorder,   \* the thread that captures sound for the job
  halt,       \* the recorders that were told to stop
  pieces,     \* the segment files: none yet, open, or closed
  torn,       \* the jobs that merged segments which were still open
  audio,      \* where the merged file is
  listed,     \* the jobs that have a meeting in the local results
  imported,   \* the jobs that name that meeting (local_meeting_id)
  path,       \* result.mp3_path
  uploads     \* the jobs with upload_to_agent

manager == <<status, active, stop>>
files == <<torn, audio, listed, imported, path>>
quickVars == <<manager, pc, recorder, halt, pieces, files, uploads>>

Unfinished == {"queued", "running", "stopping"}
Finished == {"completed", "failed"}
Alive(j) == recorder[j] \in {"starting", "capturing"}

QuickTypeOK ==
  /\ status \in [Jobs -> {"none"} \cup Unfinished \cup Finished]
  /\ active \in Jobs \cup {None}
  /\ stop \subseteq Jobs
  /\ pc \in [Jobs -> {"none", "begin", "open", "wait", "join", "merge", "list",
                      "move", "upload", "mail", "clear", "gone"}]
  /\ recorder \in [Jobs -> {"none", "starting", "capturing", "ended", "broken"}]
  /\ halt \subseteq Jobs
  /\ pieces \in [Jobs -> {"none", "open", "closed"}]
  /\ torn \subseteq Jobs
  /\ audio \in [Jobs -> {"none", "output", "both", "results"}]
  /\ listed \subseteq Jobs
  /\ imported \subseteq listed
  /\ path \in [Jobs -> {"none", "output", "results"}]
  /\ uploads \subseteq Jobs

QuickInit ==
  /\ status = [j \in Jobs |-> "none"]
  /\ active = None
  /\ stop = {}
  /\ pc = [j \in Jobs |-> "none"]
  /\ recorder = [j \in Jobs |-> "none"]
  /\ halt = {}
  /\ pieces = [j \in Jobs |-> "none"]
  /\ torn = {}
  /\ audio = [j \in Jobs |-> "none"]
  /\ listed = {}
  /\ imported = {}
  /\ path = [j \in Jobs |-> "none"]
  /\ uploads = {}

--------------------------------------------------------------------------------
(* The manager, each operation under its lock.                              *)

(* Bug: a job that was told to stop no longer keeps others out.             *)
FreeWhenStopping == active # None => status[active] \notin {"queued", "running"}

Free == active # None => status[active] \notin Unfinished

Start(j) ==
  /\ status[j] = "none"
  /\ Free
  /\ status' = [status EXCEPT ![j] = "queued"]
  /\ active' = j
  /\ pc' = [pc EXCEPT ![j] = "begin"]
  /\ uploads' \in {uploads, uploads \cup {j}}
  /\ UNCHANGED <<stop, recorder, halt, pieces, files>>

Stop ==
  /\ active # None
  /\ status[active] \in {"queued", "running"}
  /\ status' = [status EXCEPT ![active] = "stopping"]
  /\ stop' = stop \cup {active}
  /\ UNCHANGED <<active, pc, recorder, halt, pieces, files, uploads>>

(* Bug: the thread makes its stop event itself.                             *)
BeginAgain(j) ==
  /\ pc[j] = "begin"
  /\ status' = [status EXCEPT ![j] = "running"]
  /\ pc' = [pc EXCEPT ![j] = "open"]
  /\ stop' = stop \ {j}
  /\ UNCHANGED <<active, recorder, halt, pieces, files, uploads>>

(* The first step of the thread: a stop that came while the job was queued  *)
(* loses its status here, and keeps its event.                              *)
Begin(j) ==
  /\ pc[j] = "begin"
  /\ status' = [status EXCEPT ![j] = "running"]
  /\ pc' = [pc EXCEPT ![j] = "open"]
  /\ UNCHANGED <<active, stop, recorder, halt, pieces, files, uploads>>

Finish(j, result) ==
  /\ status' = [status EXCEPT ![j] = result]
  /\ pc' = [pc EXCEPT ![j] = "clear"]
  /\ UNCHANGED <<active, stop>>

(* Bug: the thread forgets whichever job is active now.                     *)
ClearAnyway(j) ==
  /\ pc[j] = "clear"
  /\ active' = None
  /\ pc' = [pc EXCEPT ![j] = "gone"]
  /\ UNCHANGED <<status, stop, recorder, halt, pieces, files, uploads>>

(* The finally of the thread: the lock was given up since Finish, and       *)
(* another job may have been started in between.                            *)
Clear(j) ==
  /\ pc[j] = "clear"
  /\ active' = IF active = j THEN None ELSE active
  /\ pc' = [pc EXCEPT ![j] = "gone"]
  /\ UNCHANGED <<status, stop, recorder, halt, pieces, files, uploads>>

--------------------------------------------------------------------------------
(* The recorder.                                                            *)

Open(j) ==
  /\ pc[j] = "open"
  /\ recorder' = [recorder EXCEPT ![j] = "starting"]
  /\ pc' = [pc EXCEPT ![j] = "wait"]
  /\ UNCHANGED <<manager, halt, pieces, files, uploads>>

Capture(j) ==
  /\ recorder[j] = "starting"
  /\ j \notin halt
  /\ recorder' = [recorder EXCEPT ![j] = "capturing"]
  /\ pieces' = [pieces EXCEPT ![j] = "open"]
  /\ UNCHANGED <<manager, pc, halt, files, uploads>>

Exit(j, how) ==
  /\ Alive(j)
  /\ recorder' = [recorder EXCEPT ![j] = how]
  /\ pieces' = [pieces EXCEPT ![j] = IF @ = "open" THEN "closed" ELSE @]
  /\ UNCHANGED <<manager, pc, halt, files, uploads>>

End(j) == j \in halt /\ Exit(j, "ended")

Break(j) == Exit(j, "broken")

--------------------------------------------------------------------------------
(* run_quick_record.                                                        *)

Halt(j) ==
  /\ pc[j] = "wait"
  /\ halt' = halt \cup {j}
  /\ pc' = [pc EXCEPT ![j] = "join"]
  /\ UNCHANGED <<manager, recorder, pieces, files, uploads>>

Notice(j) == (j \in stop \/ recorder[j] = "broken") /\ Halt(j)

TimeOut(j) == Halt(j)

Useless(j) == recorder[j] = "broken" \/ pieces[j] = "none"

(* Bug: the recorder is told to stop and not waited for.                    *)
JoinAtOnce(j) ==
  /\ pc[j] = "join"
  /\ IF Useless(j)
       THEN Finish(j, "failed")
       ELSE pc' = [pc EXCEPT ![j] = "merge"] /\ UNCHANGED manager
  /\ UNCHANGED <<recorder, halt, pieces, files, uploads>>

Join(j) ==
  /\ pc[j] = "join"
  /\ Alive(j) => DeviceCanHang
  /\ IF Useless(j)
       THEN Finish(j, "failed")
       ELSE pc' = [pc EXCEPT ![j] = "merge"] /\ UNCHANGED manager
  /\ UNCHANGED <<recorder, halt, pieces, files, uploads>>

(* Merging and converting; a recording without sound raises after both.     *)
Merge(j) ==
  /\ pc[j] = "merge"
  /\ audio' = [audio EXCEPT ![j] = "output"]
  /\ path' = [path EXCEPT ![j] = "output"]
  /\ torn' = IF pieces[j] = "open" THEN torn \cup {j} ELSE torn
  /\ \/ pc' = [pc EXCEPT ![j] = IF j \in uploads THEN "upload" ELSE "list"]
        /\ UNCHANGED manager
     \/ Finish(j, "failed")
  /\ UNCHANGED <<recorder, halt, pieces, listed, imported, uploads>>

(* _import_quick_mp3_to_local_results saves the meeting first.              *)
List(j) ==
  /\ pc[j] = "list"
  /\ \/ listed' = listed \cup {j} /\ pc' = [pc EXCEPT ![j] = "move"]
     \/ ImportCanFail /\ pc' = [pc EXCEPT ![j] = "mail"] /\ UNCHANGED listed
  /\ UNCHANGED <<manager, recorder, halt, pieces, torn, audio, imported, path, uploads>>

Import(where, named, shown) == [audio |-> where, named |-> named, path |-> shown]

(* The ways the second half of the import can go: the file is moved; it is  *)
(* copied because it cannot be moved; it is moved and no canonical copy is  *)
(* made; nothing is stored; something raises after the file was moved.      *)
Imports ==
  {Import("results", TRUE, "results")} \cup
  IF ImportCanFail
    THEN {Import("both", TRUE, "results"), Import("results", TRUE, "output"),
          Import("output", FALSE, "output"), Import("results", FALSE, "output")}
    ELSE {}

Move(j) ==
  /\ pc[j] = "move"
  /\ \E done \in Imports :
       /\ audio' = [audio EXCEPT ![j] = done.audio]
       /\ imported' = IF done.named THEN imported \cup {j} ELSE imported
       /\ path' = [path EXCEPT ![j] = done.path]
  /\ pc' = [pc EXCEPT ![j] = "mail"]
  /\ UNCHANGED <<manager, recorder, halt, pieces, torn, listed, uploads>>

Upload(j) ==
  /\ pc[j] = "upload"
  /\ pc' = [pc EXCEPT ![j] = "mail"]
  /\ UNCHANGED <<manager, recorder, halt, pieces, files, uploads>>

Complete(j) ==
  /\ pc[j] = "mail"
  /\ Finish(j, "completed")
  /\ UNCHANGED <<recorder, halt, pieces, files, uploads>>

(* Any other exception: a bad link, a device, ffmpeg, the agent, a mail     *)
(* whose attachment is no longer where path says.                           *)
Raise(j) ==
  /\ pc[j] \in {"open", "merge", "upload", "mail"}
  /\ Finish(j, "failed")
  /\ UNCHANGED <<recorder, halt, pieces, files, uploads>>

--------------------------------------------------------------------------------
Thread(j) == \/ Begin(j) \/ Open(j) \/ Notice(j) \/ Join(j) \/ Merge(j) \/ List(j)
             \/ Move(j) \/ Upload(j) \/ Complete(j) \/ Raise(j) \/ Clear(j)

Capturing(j) == Capture(j) \/ End(j)

QuickNext ==
  Stop \/ \E j \in Jobs : Start(j) \/ Thread(j) \/ TimeOut(j) \/ Capturing(j) \/ Break(j)

QuickSpec == QuickInit /\ [][QuickNext]_quickVars

(* The operating system runs both threads of a job; nothing promises that a *)
(* job reaches its time limit.                                              *)
QuickFairness == \A j \in Jobs : WF_quickVars(Thread(j)) /\ WF_quickVars(Capturing(j))

FairQuickSpec == QuickSpec /\ QuickFairness

--------------------------------------------------------------------------------
(* A job that has not finished is the active one, so that stop always       *)
(* reaches it, and no second job is started beside it                       *)
(* (QuickRecordManager.start, stop, _run_job).                              *)
StopReachesIt == \A j \in Jobs : status[j] \in Unfinished => active = j

(* Two recorders never capture at the same time: "quick record already      *)
(* running" (QuickRecordManager.start).                                     *)
OneRecorder == \A i, j \in Jobs : Alive(i) /\ Alive(j) => i = j

(* A completed job was merged from closed segments, so that its file holds  *)
(* all that was captured (run_quick_record).                                *)
CompletedIsWhole == \A j \in Jobs : status[j] = "completed" => j \notin torn

(* However the import goes, the audio of a job that captured some is still  *)
(* in one of the two directories when the job is over                       *)
(* (_import_quick_mp3_to_local_results).                                    *)
CompletedIsKept ==
  \A j \in Jobs : /\ status[j] = "completed" => audio[j] # "none"
                  /\ j \in imported => audio[j] \in {"both", "results"}
                  /\ path[j] = "results" => j \in imported

(* A completed recording that is not uploaded appears in the results        *)
(* without a manual import, as the comment in run_quick_record says.        *)
ResultsShowIt ==
  \A j \in Jobs : status[j] = "completed" /\ j \notin uploads => j \in imported

(* A job that was told to stop finishes and frees the manager, its time     *)
(* limit or not, also when the stop came before its thread had begun.       *)
EventuallyStopped ==
  \A j \in Jobs : j \in stop ~> status[j] \in Finished /\ active # j

================================================================================
