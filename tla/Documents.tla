------------------------------ MODULE Documents ------------------------------
(***************************************************************************)
(* The files kept beside the transcripts (storage/records.py and           *)
(* routers/artifacts.py): the list of meetings, each with an index and a   *)
(* name in meeting_meta.json, and, for one meeting, its report and the     *)
(* artifacts made of its transcript by templates or a language model.      *)
(*                                                                         *)
(* Requests run in threads of one process.  A file is written in two steps:*)
(* opening empties it, then the text is put in; nothing but the counter of *)
(* indexes has a lock.  What a document says is the version of the         *)
(* transcript it was made from and, for the model's, who asked for it.     *)
(***************************************************************************)
EXTENDS Naturals, FiniteSets, Sequences, FiniteSetsExt

CONSTANTS Requests, Meetings,
          Names,        \* names users give
          Kinds,        \* kinds of artifacts made
          Versions,     \* bound: rebuilds of the transcript
          MaxAsked,     \* bound: requests, one for a document counts twice
          MaxCrashes,   \* bound: restarts of the process
          Counter, ReportFile, ReportText,  \* the other files, by name
          Missing, Torn

Ids == Kinds \X (1..Versions)
Parts == {"json", "txt", "meta"}
Reports == {ReportFile, ReportText}
Files == Meetings \cup {Counter} \cup Reports \cup (Ids \X Parts)

\* What is in the file of an entry, and in that of a report or an artifact.
Entries == [index : Nat \ {0}, name : Names \cup {"default"}]
Texts == [of : 1..Versions, by : Requests \cup {Missing}]

\* Files are told apart by their names, and no text is that of no file.
ASSUME DocumentsAssumption ==
  /\ {MaxAsked, MaxCrashes} \subseteq Nat /\ Versions \in Nat \ {0}
  /\ Kinds \subseteq {"analysis", "table", "brief", "custom"}
  /\ "default" \notin Names
  /\ Counter \notin Meetings \cup Reports \cup Ids \cup (Ids \X Parts)
  /\ Reports \cap (Meetings \cup Ids \cup (Ids \X Parts)) = {}
  /\ ReportFile # ReportText
  /\ Meetings \cap (Ids \cup (Ids \X Parts)) = {}
  /\ {Missing, Torn} \cap (Nat \cup Entries \cup Texts \cup Files \cup Ids \cup {"ok"}) = {}
  /\ Missing # Torn

VARIABLES disk,    \* [Files -> what is in the file]
          version, \* of the transcript
          lock,    \* who holds _COUNTER_LOCK
          req, limits,
          named,   \* for the properties: the last name a rename has answered
          spoiled  \* for the properties: what two wrote at once, or a crash cut

vars == <<disk, version, lock, req, limits, named, spoiled>>

Idle == [at |-> "idle", op |-> "none", about |-> Missing, name |-> "default",
         force |-> FALSE, over |-> FALSE, of |-> 0, max |-> 0, todo |-> {},
         writes |-> <<>>]

Whole(f) == disk[f] \notin {Missing, Torn}

TypeOK ==
  /\ DOMAIN disk = Files
  /\ Whole(Counter) => disk[Counter] \in Nat \ {0}
  /\ \A m \in Meetings : Whole(m) =>
       disk[m] \in Entries
  /\ version \in 1..Versions
  /\ lock \subseteq Requests /\ Cardinality(lock) <= 1
  /\ \A r \in Requests : req[r].at \in
       {"idle", "look", "lock", "scan", "cached", "make", "open", "fill"}

Init ==
  /\ disk = [f \in Files |-> Missing]
  /\ version = 1
  /\ lock = {}
  /\ req = [r \in Requests |-> Idle]
  /\ limits = [asked |-> 0, crashes |-> 0]
  /\ named = [m \in Meetings |-> "default"]
  /\ spoiled = {}

Answer(r) == req' = [req EXCEPT ![r] = Idle]
Write(r, writes) == req' = [req EXCEPT ![r].at = "open", ![r].writes = writes]

\* Requests that have something to write for x.
Writers(x) == {r \in Requests :
  /\ req[r].about = x
  /\ req[r].op = "rename" \/ req[r].at \in {"lock", "scan", "make", "open", "fill"}}

-----------------------------------------------------------------------------
(* Requests come in; the transcript is read, or the meeting looked up. *)

Ask(r, new) ==
  /\ req[r].at = "idle"
  /\ limits' = [limits EXCEPT !.asked = @ + IF new.about \in Meetings THEN 1 ELSE 2]
  /\ limits'.asked <= MaxAsked
  /\ req' = [req EXCEPT ![r] = new]
  /\ spoiled' = IF new.op = "rename" /\ Writers(new.about) # {}
                THEN spoiled \cup {new.about} ELSE spoiled
  /\ UNCHANGED <<disk, version, lock, named>>

\* Creating, listing, finishing and exporting a meeting make sure of its entry.
AskShow(r) ==
  \E m \in Meetings : Ask(r, [Idle EXCEPT !.at = "look", !.op = "show", !.about = m])

AskRename(r) ==
  \E m \in Meetings, n \in Names :
    Ask(r, [Idle EXCEPT !.at = "look", !.op = "rename", !.about = m, !.name = n])

AskReport(r) ==
  Ask(r, [Idle EXCEPT !.at = "make", !.op = "report", !.about = ReportFile,
                      !.of = version])

\* The artifact's id is a hash of the request and of the text it is made from.
AskArtifact(r) ==
  \E k \in Kinds, force \in BOOLEAN :
    Ask(r, [Idle EXCEPT !.at = "cached", !.op = "artifact", !.force = force,
                        !.about = <<k, version>>, !.of = version])

\* The text of a report is made when it is downloaded, if it is missing.
AskDownload(r) ==
  Ask(r, [Idle EXCEPT !.at = "make", !.op = "download", !.about = ReportFile])

\* See TranscriptBuild.
Rebuild ==
  /\ version < Versions
  /\ version' = version + 1
  /\ UNCHANGED <<disk, lock, req, limits, named, spoiled>>

-----------------------------------------------------------------------------
(* The list of meetings. *)

Entry(index, name) == [index |-> index, name |-> name]

\* Mutant: the name is not looked at.
DefaultOnly(m) == disk[m] \notin {Missing, Torn} /\ disk[m].name = "default"

\* What cannot be read is not there.
Found(m) == Whole(m)

\* ensure_meeting_metadata, update_meeting_display_name
Look(r) ==
  /\ req[r].at = "look"
  /\ LET m == req[r].about IN
     \/ /\ Found(m)
        /\ IF req[r].op = "rename"
             THEN Write(r, <<<<m, Entry(disk[m].index, req[r].name)>>>>)
             ELSE Answer(r)
        /\ UNCHANGED spoiled
     \/ /\ ~Found(m)
        /\ req' = [req EXCEPT ![r].at = "lock"]
        /\ spoiled' = IF Writers(m) \subseteq {r} THEN spoiled ELSE spoiled \cup {m}
  /\ UNCHANGED <<disk, version, lock, limits, named>>

\* The counter, the new entry under a default name, and the name asked for.
Allocated(r, last) ==
  LET m == req[r].about IN
  <<<<Counter, last + 1>>, <<m, Entry(last + 1, "default")>>>> \o
  IF req[r].op = "rename" THEN <<<<m, Entry(last + 1, req[r].name)>>>> ELSE <<>>

\* Mutant: the counter is read without the lock.
NoLock(r) == TRUE

Free(r) == lock = {}

\* _next_record_index: entries are looked through when there is no counter.
TakeCounter(r) ==
  /\ req[r].at = "lock" /\ Free(r)
  /\ lock' = {r}
  /\ IF Whole(Counter)
       THEN Write(r, Allocated(r, disk[Counter]))
       ELSE req' = [req EXCEPT ![r].at = "scan", ![r].todo = Meetings]
  /\ UNCHANGED <<disk, version, limits, named, spoiled>>

\* r has f to write next, or is writing it.
Writes(r, f) == req[r].at \in {"open", "fill"} /\ Head(req[r].writes)[1] = f

\* _scan_last_record_index, an entry at a time: one half written is passed over.
Scan(r) ==
  /\ req[r].at = "scan"
  /\ \/ \E m \in req[r].todo :
          /\ req' = [req EXCEPT ![r].todo = @ \ {m},
               ![r].max = IF Whole(m) THEN Max({@, disk[m].index}) ELSE @]
          /\ spoiled' = IF ~Whole(m) /\ \E o \in Requests : Writes(o, m)
                        THEN spoiled \cup {Counter} ELSE spoiled
     \/ /\ req[r].todo = {}
        /\ Write(r, Allocated(r, req[r].max))
        /\ UNCHANGED spoiled
  /\ UNCHANGED <<disk, version, lock, limits, named>>

-----------------------------------------------------------------------------
(* Reports and artifacts. *)

\* _generate_llm_artifact: made already?  A meta.json that cannot be read is
\* an error, and stays one.
Cached(r) ==
  /\ req[r].at = "cached"
  /\ LET meta == <<req[r].about, "meta">> IN
     \/ /\ ~req[r].force /\ disk[meta] # Missing
        /\ Answer(r)
        /\ UNCHANGED spoiled
     \/ /\ req[r].force \/ disk[meta] = Missing
        /\ req' = [req EXCEPT ![r].at = "make", ![r].over = Whole(meta)]
        /\ spoiled' = IF Writers(req[r].about) = {} THEN spoiled
                      ELSE spoiled \cup {req[r].about}
  /\ UNCHANGED <<disk, version, lock, limits, named>>

\* Mutant: the entry of the artifact goes first.
MetaFirst(id, says) ==
  <<<<<<id, "meta">>, "ok">>, <<<<id, "json">>, says>>, <<<<id, "txt">>, says>>>>

Plan(id, says) ==
  <<<<<<id, "json">>, says>>, <<<<id, "txt">>, says>>, <<<<id, "meta">>, "ok">>>>

Says(v, by) == [of |-> v, by |-> by]
Report(v) == <<<<ReportFile, Says(v, Missing)>>, <<ReportText, Says(v, Missing)>>>>

\* generate_report; download_artifact
MakeReport(r) ==
  /\ req[r].at = "make"
  /\ \/ /\ req[r].op = "report"
        /\ Write(r, Report(req[r].of))
     \/ /\ req[r].op = "download"
        /\ IF disk[ReportText] = Missing /\ Whole(ReportFile)
             THEN Write(r, <<<<ReportText, disk[ReportFile]>>>>)
             ELSE Answer(r)
  /\ UNCHANGED <<disk, version, lock, limits, named, spoiled>>

\* By template from the transcript, or by the language model; when that fails,
\* from the report, which is made if there is none.  The table of a report reads
\* the report if there is one.
Make(r) ==
  /\ req[r].at = "make" /\ req[r].op = "artifact"
  /\ LET id == req[r].about
         plan == Plan(id, Says(req[r].of, IF id[1] = "custom" THEN r ELSE Missing)) IN
     /\ id[1] # "brief"
     /\ \/ ~(id[1] = "table" /\ disk[ReportFile] = Torn) /\ Write(r, plan)
        \/ id[1] = "custom" /\ disk[ReportFile] = Missing /\ Write(r, Report(version) \o plan)
        \/ /\ \/ id[1] = "table" /\ disk[ReportFile] = Torn
              \/ id[1] = "custom"  \* no model, or nothing asked of it
           /\ Answer(r)
  /\ UNCHANGED <<disk, version, lock, limits, named, spoiled>>

\* _load_or_build_report: the brief is made of the report there is, or of one
\* made now of the transcript there is now.
MakeBrief(r) ==
  /\ req[r].at = "make" /\ req[r].op = "artifact"
  /\ LET id == req[r].about
         report == disk[ReportFile] IN
     /\ id[1] = "brief"
     /\ \/ report = Torn /\ Answer(r)
        \/ report \notin {Missing, Torn} /\ Write(r, Plan(id, report))
        \/ report = Missing
             /\ Write(r, Report(version) \o Plan(id, Says(version, Missing)))
  /\ UNCHANGED <<disk, version, lock, limits, named, spoiled>>

-----------------------------------------------------------------------------
(* Writing. *)

Open(r) ==
  /\ req[r].at = "open"
  /\ disk' = [disk EXCEPT ![Head(req[r].writes)[1]] = Torn]
  /\ req' = [req EXCEPT ![r].at = "fill"]
  /\ UNCHANGED <<version, lock, limits, named, spoiled>>

\* When another has filled the file since it was opened, a shorter text leaves
\* the end of the longer one.
Fill(r) ==
  /\ req[r].at = "fill"
  /\ LET f == Head(req[r].writes)[1]
         text == Head(req[r].writes)[2]
         rest == Tail(req[r].writes) IN
     /\ \E new \in {text} \cup IF Whole(f) THEN {Torn} ELSE {} :
          disk' = [disk EXCEPT ![f] = new]
     /\ lock' = IF f = Counter THEN {} ELSE lock
     /\ IF rest = <<>> THEN Answer(r) ELSE Write(r, rest)
     /\ named' = IF rest = <<>> /\ req[r].op = "rename"
                 THEN [named EXCEPT ![f] = req[r].name] ELSE named
  /\ UNCHANGED <<version, limits, spoiled>>

\* The process ends and is started again.
Crash ==
  /\ limits.crashes < MaxCrashes
  /\ limits' = [limits EXCEPT !.crashes = @ + 1]
  /\ req' = [r \in Requests |-> Idle]
  /\ lock' = {}
  /\ spoiled' = spoiled \cup
       {req[r].about : r \in {o \in Requests :
          req[o].at \in {"open", "fill"} /\ (req[o].op = "rename" \/ req[o].over)}}
  /\ UNCHANGED <<disk, version, named>>

Asks(r) ==
  AskShow(r) \/ AskRename(r) \/ AskReport(r) \/ AskArtifact(r) \/ AskDownload(r)

Serve(r) ==
  \/ Look(r) \/ TakeCounter(r) \/ Scan(r) \/ Cached(r)
  \/ MakeReport(r) \/ Make(r) \/ MakeBrief(r) \/ Open(r) \/ Fill(r)

Next == Rebuild \/ Crash \/ \E r \in Requests : Asks(r) \/ Serve(r)

Spec == Init /\ [][Next]_vars

-----------------------------------------------------------------------------
(* Properties. *)

\* No two meetings have the same index, whatever is written at the same time
\* and wherever a crash cuts a file short; unless the entries are counted anew,
\* after a crash, when one is half written that a request has still to write.
IndexesDiffer ==
  Counter \notin spoiled =>
    \A m, n \in Meetings : Whole(m) /\ Whole(n) /\ m # n
                             => disk[m].index # disk[n].index

\* A meeting keeps the name it was given last, however often it is listed;
\* unless two requests that write its entry meet (one that lists it writes it
\* if it finds it missing or half written), or a rename is cut short.
NameIsKept ==
  \A m \in Meetings :
    named[m] \in Names /\ m \notin spoiled /\ Writers(m) = {}
      => Whole(m) /\ disk[m].name = named[m]

\* An artifact that is served, that is one with a meta.json, is whole, its files
\* say the same, and it is made of the transcript its id stands for (a brief is
\* made of any report); a crash that cuts its making short leaves none.  Unless
\* two make it at once, or it is made again when it is there already.
ArtifactIsWhole ==
  \A id \in Ids :
    Whole(<<id, "meta">>) /\ id \notin spoiled /\ Writers(id) = {} =>
      /\ Whole(<<id, "json">>)
      /\ disk[<<id, "txt">>] = disk[<<id, "json">>]
      /\ id[1] # "brief" => disk[<<id, "json">>].of = id[2]
=============================================================================
