------------------------------- MODULE Desktop -------------------------------
(***************************************************************************)
(* The desktop program: a launcher (apps/launcher/main.py) with a web page *)
(* of its own starts and stops the agent, a process that serves the API    *)
(* (apps/local_agent/main.py).  Requests to the launcher run in threads    *)
(* that share its globals; settings are kept in a file that both processes *)
(* rewrite key by key (runtime_overrides.json); the agent holds a speech   *)
(* recogniser made from its settings (services/local_pipeline.py).         *)
(*                                                                         *)
(* Three settings stand for all of them: "llm", the language model or that *)
(* of the vectors, "stt", the recogniser and its model, and "cred", its    *)
(* credentials.  A value is a number, 0 the default.                       *)
(***************************************************************************)
EXTENDS Naturals, FiniteSets, Sequences

CONSTANTS Requests,      \* threads that serve requests
          MaxAsked,      \* bound: requests made, each starts one agent at most
          MaxLaunchers,  \* bound: launchers started, one after another
          MaxFaults,     \* bound: timeouts and crashes
          Ports, Values, Torn

ASSUME DesktopAssumption ==
  /\ {MaxAsked, MaxLaunchers, MaxFaults} \subseteq Nat
  /\ Ports \subseteq Nat \ {0} /\ Cardinality(Ports) >= MaxAsked
  /\ Values \subseteq Nat \ {0}

Keys == {"llm", "stt", "cred"}
Settings == [Keys -> {0} \cup Values]
Defaults == [k \in Keys |-> 0]
Agents == 1..MaxAsked

ASSUME TornAssumption == Torn \notin Settings

VARIABLES launcher,  \* APP_PROCESS and APP_URL, 0 if None, and whether it runs
          agents,
          file,      \* runtime_overrides.json, Torn while it is half written
          req,       \* what the requests do
          limits,
          seen       \* for the properties: what was set, and what coincided

vars == <<launcher, agents, file, req, limits, seen>>

Idle == [at |-> "idle", kind |-> "none", agent |-> 0, url |-> 0, todo |-> <<>>,
         val |-> Defaults, payload |-> Defaults]

NoAgent == [at |-> "none", port |-> 0, parent |-> 0, set |-> Defaults,
            built |-> <<>>, mixed |-> FALSE]

TypeOK ==
  /\ launcher \in [alive : BOOLEAN, no : 0..MaxLaunchers,
                   proc : {0} \cup Agents, closing : BOOLEAN, url : {0} \cup Ports]
  /\ \A a \in Agents :
       /\ agents[a].at \in {"none", "born", "bound", "up", "term", "dead"}
       /\ agents[a].set \in Settings /\ agents[a].port \in {0} \cup Ports
  /\ file \in Settings \cup {Torn}

Init ==
  /\ launcher = [alive |-> TRUE, no |-> 1, proc |-> 0, url |-> 0, closing |-> FALSE]
  /\ agents = [a \in Agents |-> NoAgent]
  /\ file = Defaults
  /\ req = [r \in Requests |-> Idle]
  /\ limits = [asked |-> 0, faults |-> 0]
  /\ seen = [want |-> Defaults, spoiled |-> FALSE, overlap |-> FALSE]

Alive(a) == a # 0 /\ agents[a].at \in {"born", "bound", "up", "term"}
Serves(port) == \E a \in Agents : agents[a].at \in {"up", "term"} /\ agents[a].port = port
FreePorts == {p \in Ports : ~Serves(p)}

OnLauncher == {"start", "stop", "quit", "save", "pull"}
Supervising(r) == req[r].at # "idle" /\ req[r].kind \in {"start", "stop", "quit"}
Writing(r) == req[r].at # "idle" /\ req[r].kind \in {"save", "pull", "model", "update"}
Updating(a) == \E r \in Requests : Writing(r) /\ req[r].kind = "update" /\ req[r].agent = a
Building(a) == \E r \in Requests : req[r].at = "install" /\ req[r].agent = a

Goto(r, at) == req' = [req EXCEPT ![r].at = at]
End(r) == req' = [req EXCEPT ![r] = Idle]
Fault ==
  /\ limits.faults < MaxFaults
  /\ limits' = [limits EXCEPT !.faults = @ + 1]

-----------------------------------------------------------------------------
(* Requests come in. *)

Ask(r) ==
  /\ req[r].at = "idle" /\ limits.asked < MaxAsked
  /\ limits' = [limits EXCEPT !.asked = @ + 1]

\* /api/start and /api/open, /api/stop, /api/shutdown and signals; the launcher
\* is shut down once only.
AskLauncher(r) ==
  /\ launcher.alive
  /\ \E kind \in {"start", "stop", "quit"} :
       /\ Ask(r)
       /\ kind = "quit" => ~launcher.closing
       /\ launcher' = [launcher EXCEPT !.closing = @ \/ kind = "quit"]
       /\ req' = [req EXCEPT ![r] =
            [Idle EXCEPT !.kind = kind, !.at = IF kind = "start" THEN "look" ELSE "stop"]]
       /\ seen' = [seen EXCEPT !.overlap = @ \/ \E o \in Requests : Supervising(o)]
  /\ UNCHANGED <<agents, file>>

\* _current_provider_config: defaults when the file cannot be read.
Loaded == IF file = Torn THEN Defaults ELSE file

\* A thread is going to rewrite the file, with settings `val` for the keys `todo`.
Begin(r, kind, a, todo, val) ==
  /\ Ask(r)
  /\ req' = [req EXCEPT ![r] = [Idle EXCEPT !.kind = kind, !.at = "read",
                                 !.agent = a, !.todo = todo, !.val = val]]
  /\ seen' = [seen EXCEPT !.spoiled = @ \/ \E o \in Requests : Writing(o)]
  /\ UNCHANGED <<launcher, file>>

\* POST /api/config of the launcher: what the request leaves out is taken from
\* the file, and then everything is written.
AskSave(r) ==
  /\ launcher.alive
  /\ \E v \in Values :
       Begin(r, "save", 0, <<"llm", "stt", "cred">>, [Loaded EXCEPT !["stt"] = v])
  /\ UNCHANGED agents

\* A model has been downloaded by the launcher.
AskPull(r) ==
  /\ launcher.alive
  /\ \E v \in Values : Begin(r, "pull", 0, <<"llm">>, [Defaults EXCEPT !["llm"] = v])
  /\ UNCHANGED agents

\* POST /llm/config and /llm/model of the agent, and those of the embeddings.
AskModel(r) ==
  \E a \in Agents, v \in Values :
    /\ agents[a].at = "up"
    /\ Begin(r, "model", a, <<"llm">>, [Defaults EXCEPT !["llm"] = v])
    /\ UNCHANGED agents

\* POST /stt/config of the agent: the recogniser is reset between the settings
\* of _apply_stt_config_to_runtime and those of _apply_stt_provider_settings.
AskUpdate(r) ==
  \E a \in Agents, v \in Values :
    /\ agents[a].at = "up"
    /\ Begin(r, "update", a, <<"stt", "reset", "cred">>,
             [Defaults EXCEPT !["stt"] = v, !["cred"] = v])
    /\ agents' = [agents EXCEPT ![a].mixed = @ \/ Building(a)]

-----------------------------------------------------------------------------
(* Settings: one read and one write of the file for each key. *)

\* Mutant: a key is stored without what the file holds besides.
PayloadAlone(r, key) == [Defaults EXCEPT ![key] = req[r].val[key]]

Payload(r, key) == [file EXCEPT ![key] = req[r].val[key]]

\* A file that cannot be read is left as it is, without an error.
Read(r) ==
  /\ req[r].at = "read" /\ req[r].todo # <<>> /\ Head(req[r].todo) # "reset"
  /\ LET key == Head(req[r].todo) IN
     /\ agents' = IF req[r].agent # 0
                  THEN [agents EXCEPT ![req[r].agent].set[key] = req[r].val[key]]
                  ELSE agents
     /\ IF file = Torn
        THEN req' = [req EXCEPT ![r].todo = Tail(@)]
        ELSE req' = [req EXCEPT ![r].at = "open", ![r].payload = Payload(r, key)]
  /\ UNCHANGED <<launcher, file, limits, seen>>

Open(r) ==
  /\ req[r].at = "open"
  /\ file' = Torn
  /\ Goto(r, "fill")
  /\ UNCHANGED <<launcher, agents, limits, seen>>

Fill(r) ==
  /\ req[r].at = "fill"
  /\ file' = req[r].payload
  /\ req' = [req EXCEPT ![r].at = "read", ![r].todo = Tail(@)]
  /\ UNCHANGED <<launcher, agents, limits, seen>>

\* Mutant: the recogniser stays.
NoReset(a) == agents

\* reset_stt_provider_runtime
Reset(a) == [agents EXCEPT ![a].built = <<>>]

ResetStt(r) ==
  /\ req[r].at = "read" /\ req[r].todo # <<>> /\ Head(req[r].todo) = "reset"
  /\ agents' = Reset(req[r].agent)
  /\ req' = [req EXCEPT ![r].todo = Tail(@)]
  /\ UNCHANGED <<launcher, file, limits, seen>>

Saved(r) ==
  LET stored == CASE req[r].kind \in {"pull", "model"} -> {"llm"}
                  [] req[r].kind = "update" -> {"stt", "cred"}
                  [] OTHER -> Keys
  IN
  /\ req[r].at = "read" /\ req[r].todo = <<>>
  /\ seen' = [seen EXCEPT !.want =
       [k \in Keys |-> IF k \in stored THEN req[r].val[k] ELSE @[k]]]
  /\ End(r)
  /\ UNCHANGED <<launcher, agents, file, limits>>

Save(r) == Read(r) \/ Open(r) \/ Fill(r) \/ ResetStt(r) \/ Saved(r)

-----------------------------------------------------------------------------
(* The recogniser: _get_stt_provider, for a transcription or a warm-up. *)

Build(r) ==
  \E a \in Agents :
    /\ agents[a].at = "up" /\ agents[a].built = <<>> /\ Ask(r)
    /\ req' = [req EXCEPT ![r] = [Idle EXCEPT !.kind = "play", !.at = "install",
                 !.agent = a, !.val = [agents[a].set EXCEPT !["llm"] = 0]]]
    /\ agents' = [agents EXCEPT ![a].mixed = @ \/ Updating(a)]
    /\ UNCHANGED <<launcher, file, seen>>

Install(r) ==
  /\ req[r].at = "install"
  /\ agents' = [agents EXCEPT ![req[r].agent].built = <<req[r].val>>]
  /\ End(r)
  /\ UNCHANGED <<launcher, file, limits, seen>>

-----------------------------------------------------------------------------
(* _start_app and _stop_app. *)

\* A running agent is used again if it answers within six seconds.
Look(r) ==
  /\ req[r].at = "look"
  /\ IF Alive(launcher.proc) /\ launcher.url # 0
     THEN req' = [req EXCEPT ![r].at = "again", ![r].url = launcher.url]
     ELSE Goto(r, "prepare")
  /\ UNCHANGED <<launcher, agents, file, limits, seen>>

\* _wait_app_ready, the agent of APP_PROCESS having ended or not.
Answers(r) == Serves(req[r].url) /\ (launcher.proc # 0 => Alive(launcher.proc))
Fails(r) == launcher.proc # 0 /\ ~Alive(launcher.proc)

\* Waiting ends after a time, whether the agent is slow or does not answer there.
Slow(r) == IF Serves(req[r].url) THEN Fault ELSE UNCHANGED limits

\* Mutant: the agent that does not answer is left alone.
AgainKeeps(r) ==
  /\ req[r].at = "again"
  /\ \/ Answers(r) /\ End(r) /\ UNCHANGED limits
     \/ Fails(r) /\ Goto(r, "prepare") /\ UNCHANGED limits
     \/ Slow(r) /\ Goto(r, "prepare")
  /\ UNCHANGED <<launcher, agents, file, seen>>

Again(r) ==
  /\ req[r].at = "again"
  /\ \/ Answers(r) /\ End(r) /\ UNCHANGED limits
     \/ Fails(r) /\ Goto(r, "stop") /\ UNCHANGED limits
     \/ Slow(r) /\ Goto(r, "stop")
  /\ UNCHANGED <<launcher, agents, file, seen>>

\* The first port that is free for now; the agent will look for itself.
Prepare(r) ==
  /\ req[r].at = "prepare"
  /\ \E p \in FreePorts : /\ \A q \in FreePorts : p <= q
                           /\ launcher' = [launcher EXCEPT !.url = p]
  /\ req' = [req EXCEPT ![r].at = "spawn", ![r].val = Loaded]
  /\ UNCHANGED <<agents, file, limits, seen>>

Spawn(r) ==
  /\ req[r].at = "spawn"
  /\ \E a \in Agents :
       /\ agents[a].at = "none" /\ \A b \in Agents : b < a => agents[b].at # "none"
       /\ launcher' = [launcher EXCEPT !.proc = a]
       /\ agents' = [agents EXCEPT ![a] = [NoAgent EXCEPT !.at = "born",
                       !.port = launcher.url, !.parent = launcher.no, !.set = req[r].val]]
  /\ req' = [req EXCEPT ![r].at = "wait", ![r].url = launcher.url]
  /\ UNCHANGED <<file, limits, seen>>

Wait(r) ==
  /\ req[r].at = "wait"
  /\ \/ (req[r].url = 0 \/ Answers(r) \/ Fails(r)) /\ UNCHANGED limits
     \/ req[r].url # 0 /\ Slow(r)
  /\ End(r)
  /\ UNCHANGED <<launcher, agents, file, seen>>

\* The agent is asked to end.
Stop(r) ==
  /\ req[r].at = "stop"
  /\ IF Alive(launcher.proc)
     THEN /\ agents' = [agents EXCEPT ![launcher.proc].at = "term"]
          /\ Goto(r, "stopping")
     ELSE UNCHANGED agents /\ Goto(r, "stopped")
  /\ UNCHANGED <<launcher, file, limits, seen>>

\* A process that ends takes its threads along, in the middle of a file too.
Gone(mine(_)) == req' = [r \in Requests |-> IF mine(r) THEN Idle ELSE req[r]]
Spoils(mine(_)) ==
  seen' = [seen EXCEPT !.spoiled = @ \/ \E r \in Requests : mine(r) /\ Writing(r)]

\* It has ended, or is killed after five seconds.  APP_PROCESS is read anew each
\* time: where another thread has cleared it, the request ends with an exception.
Stopping(r) ==
  /\ req[r].at = "stopping"
  /\ LET a == launcher.proc
         mine(o) == req[o].agent = a
     IN  \/ a = 0 /\ End(r) /\ UNCHANGED <<agents, seen>>
         \/ a # 0 /\ ~Alive(a) /\ Goto(r, "stopped") /\ UNCHANGED <<agents, seen>>
         \/ /\ Alive(a)
            /\ agents' = [agents EXCEPT ![a].at = "dead"]
            /\ req' = [o \in Requests |->
                 IF o = r THEN [req[r] EXCEPT !.at = "stopped"]
                 ELSE IF mine(o) THEN Idle ELSE req[o]]
            /\ Spoils(mine)
  /\ UNCHANGED <<launcher, file, limits>>

Stopped(r) ==
  /\ req[r].at = "stopped" /\ req[r].kind # "quit"
  /\ launcher' = [launcher EXCEPT !.proc = 0, !.url = 0]
  /\ IF req[r].kind = "start" THEN Goto(r, "prepare") ELSE End(r)
  /\ UNCHANGED <<agents, file, limits, seen>>

OfLauncher(r) == req[r].kind \in OnLauncher

\* _shutdown_launcher
Quit(r) ==
  /\ req[r].at = "stopped" /\ req[r].kind = "quit"
  /\ launcher' = [launcher EXCEPT !.proc = 0, !.url = 0, !.alive = FALSE]
  /\ Gone(OfLauncher) /\ Spoils(OfLauncher)
  /\ UNCHANGED <<agents, file, limits>>

Supervise(r) ==
  Look(r) \/ Again(r) \/ Prepare(r) \/ Spawn(r) \/ Wait(r)
    \/ Stop(r) \/ Stopping(r) \/ Stopped(r) \/ Quit(r)

\* The launcher is killed, or dies.
Die ==
  /\ launcher.alive /\ Fault
  /\ launcher' = [launcher EXCEPT !.proc = 0, !.url = 0, !.alive = FALSE]
  /\ Gone(OfLauncher) /\ Spoils(OfLauncher)
  /\ UNCHANGED <<agents, file>>

\* The program is started again; a launcher that still ran has been ended first,
\* by a signal or the hard way (_claim_single_launcher_instance).
Launch ==
  /\ ~launcher.alive /\ launcher.no < MaxLaunchers
  /\ launcher' = [alive |-> TRUE, no |-> launcher.no + 1, proc |-> 0, url |-> 0,
                  closing |-> FALSE]
  /\ UNCHANGED <<agents, file, req, limits, seen>>

-----------------------------------------------------------------------------
(* The agent. *)

Ends(a) ==
  LET mine(r) == req[r].agent = a IN
  /\ agents' = [agents EXCEPT ![a].at = "dead"]
  /\ Gone(mine) /\ Spoils(mine)
  /\ UNCHANGED <<launcher, file>>

\* Its port is the launcher's if that is still free, else another; settings of
\* the file, if it can be read, go before those of the environment.
PickPort(a) ==
  /\ agents[a].at = "born"
  /\ \E p \in FreePorts :
       /\ agents[a].port \in FreePorts => p = agents[a].port
       /\ agents' = [agents EXCEPT ![a].at = "bound", ![a].port = p,
                                   ![a].set = IF file = Torn THEN @ ELSE file]
  /\ UNCHANGED <<launcher, file, req, limits, seen>>

\* Another process may have taken the port by now: then the agent ends.
Serve(a) ==
  /\ agents[a].at = "bound"
  /\ IF Serves(agents[a].port) THEN Ends(a) /\ UNCHANGED limits
     ELSE /\ agents' = [agents EXCEPT ![a].at = "up"]
          /\ UNCHANGED <<launcher, file, req, limits, seen>>

Exit(a) == agents[a].at = "term" /\ Ends(a) /\ UNCHANGED limits
Crash(a) == Alive(a) /\ Fault /\ Ends(a)

\* Mutant: an agent that is starting is not looked after.
OrphanUp(a) == agents[a].at = "term" /\ ~launcher.alive

\* _start_parent_watchdog: its launcher is not there any more.
Orphan(a) ==
  /\ agents[a].at \in {"bound", "up", "term"}
  /\ ~(launcher.alive /\ launcher.no = agents[a].parent)

Watch(a) == Orphan(a) /\ Ends(a) /\ UNCHANGED limits

Agent(a) == PickPort(a) \/ Serve(a) \/ Exit(a) \/ Watch(a)

Next ==
  \/ \E r \in Requests :
       \/ AskLauncher(r) \/ AskSave(r) \/ AskPull(r) \/ AskModel(r) \/ AskUpdate(r) \/ Build(r)
       \/ Save(r) \/ Install(r) \/ Supervise(r)
  \/ \E a \in Agents : Agent(a) \/ Crash(a)
  \/ Die \/ Launch

Spec == Init /\ [][Next]_vars

\* Requests and processes that can go on do; nobody has to ask, to launch the
\* program or to crash.
Fairness ==
  /\ \A r \in Requests : WF_vars(Save(r) \/ Install(r) \/ Supervise(r))
  /\ \A a \in Agents : WF_vars(Agent(a))

FairSpec == Spec /\ Fairness
-----------------------------------------------------------------------------
(* Properties. *)

\* Of the agents a launcher has started, none runs on but the one it knows, after
\* any timeouts, crashes and restarts: unless two requests to start or stop it
\* overlapped, for which _start_app has no lock.
OneAgentUnlessOverlap ==
  launcher.alive /\ ~seen.overlap =>
    \A a \in Agents :
      agents[a].parent = launcher.no /\ agents[a].at \in {"born", "bound", "up"}
        => a = launcher.proc

\* What was saved last is what the file holds, key by key, in whichever process
\* it was saved: unless two processes or threads saved at the same time, or one
\* ended in the middle.
SavedIsKept ==
  ~seen.spoiled /\ (\A r \in Requests : ~Writing(r)) => file = seen.want

\* Once new settings have been stored, no transcription is made with a recogniser
\* made of older ones: unless one was being made while they were stored, which
\* reset_stt_provider_runtime does not see.
NewSettingsAreUsed ==
  \A a \in Agents :
    agents[a].at = "up" /\ ~agents[a].mixed /\ ~Updating(a)
      => agents[a].built \in {<<>>, <<[agents[a].set EXCEPT !["llm"] = 0]>>}

\* Every request ends, also when the agent has taken another port than the one
\* it is waited for at, or another thread has stopped it.
RequestsEnd == \A r \in Requests : req[r].at # "idle" ~> req[r].at = "idle"

\* An agent whose launcher is gone, killed or shut down, ends too, and so does one
\* that the launcher started while it was shutting down.
GoneWithLauncher ==
  \A a \in Agents :
    Alive(a) /\ ~(launcher.alive /\ launcher.no = agents[a].parent) ~> ~Alive(a)
=============================================================================
