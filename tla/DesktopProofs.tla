---------------------------- MODULE DesktopProofs ----------------------------
(***************************************************************************)
(* Desktop for any number of requests, agents, launchers and faults: a     *)
(* launcher has at most one agent running, settings are kept as they were  *)
(* saved last, and a recogniser made of old settings is not used after new *)
(* ones are stored; each but for the coincidences the property names.      *)
(***************************************************************************)
EXTENDS Desktop, TLAPS

-----------------------------------------------------------------------------
(* The types, and where a request is. *)

Points == {"idle", "read", "open", "fill", "install", "look", "again", "prepare",
           "spawn", "wait", "stop", "stopping", "stopped"}

\* What a request still has to store, at any of its steps.
Todos == {<<"llm", "stt", "cred">>, <<"stt", "cred">>, <<"cred">>, <<>>, <<"llm">>,
          <<"stt", "reset", "cred">>, <<"reset", "cred">>}

Left(todo) == {todo[i] : i \in DOMAIN todo}

\* What a request of each kind stores or does.
Stores(kind) ==
  CASE kind \in {"pull", "model"} -> {"llm"}
    [] kind = "update" -> {"stt", "reset", "cred"}
    [] OTHER -> Keys

Writers == {"save", "pull", "model", "update"}

AgentRecords ==
  [at : {"none", "born", "bound", "up", "term", "dead"}, port : {0} \cup Ports,
   parent : Nat, set : Settings, built : {<<>>} \cup {<<s>> : s \in Settings},
   mixed : BOOLEAN]

RequestRecords ==
  [at : Points, kind : OnLauncher \cup {"none", "model", "update", "play"},
   agent : {0} \cup Agents, url : {0} \cup Ports, todo : Todos, val : Settings,
   payload : Settings]

Launchers ==
  [alive : BOOLEAN, no : Nat, proc : {0} \cup Agents, closing : BOOLEAN,
       url : {0} \cup Ports]

Remarks == [want : Settings, spoiled : BOOLEAN, overlap : BOOLEAN]

TypesInv ==
  /\ launcher \in Launchers
  /\ agents \in [Agents -> AgentRecords]
  /\ file \in Settings \cup {Torn}
  /\ req \in [Requests -> RequestRecords]
  /\ seen \in Remarks

\* Where a request is tells what it does.
Coherent(x) ==
  /\ x.at = "idle" <=> x.kind = "none"
  /\ x.at \in {"read", "open", "fill"} <=> x.kind \in Writers
  /\ x.at = "install" <=> x.kind = "play"
  /\ x.at \in {"look", "again", "prepare", "spawn", "wait"} => x.kind = "start"
  /\ x.agent = 0 <=> x.kind \in OnLauncher \cup {"none"}
  /\ x.at \in {"open", "fill"} => x.todo # <<>> /\ Head(x.todo) # "reset"
  /\ Left(x.todo) \subseteq Stores(x.kind)

\* A request ends with the process it is made to.
PlaceInv ==
  \A r \in Requests :
    /\ Coherent(req[r])
    /\ req[r].agent # 0 => agents[req[r].agent].at \in {"up", "term"}
    /\ req[r].kind \in OnLauncher => launcher.alive

LEMMA TodoFacts ==
  /\ {<<"llm", "stt", "cred">>, <<"stt", "reset", "cred">>, <<"llm">>, <<>>} \subseteq Todos
  /\ Left(<<"llm", "stt", "cred">>) = Keys /\ Left(<<"llm">>) = {"llm"}
  /\ Left(<<"stt", "reset", "cred">>) = {"stt", "reset", "cred"}
  /\ \A t \in Todos :
       /\ t = <<>> <=> Left(t) = {}
       /\ Left(t) \subseteq Keys \cup {"reset"}
       /\ t # <<>> => /\ Tail(t) \in Todos
                      /\ Head(t) \in Left(t)
                      /\ Left(Tail(t)) = Left(t) \ {Head(t)}
  <1>1. /\ Left(<<"llm", "stt", "cred">>) = Keys /\ Left(<<"llm">>) = {"llm"}
        /\ Left(<<"stt", "reset", "cred">>) = {"stt", "reset", "cred"}
    BY DEF Left, Keys
  <1>2. ASSUME NEW t \in Todos
        PROVE  /\ t = <<>> <=> Left(t) = {}
               /\ Left(t) \subseteq Keys \cup {"reset"}
               /\ t # <<>> => /\ Tail(t) \in Todos
                              /\ Head(t) \in Left(t)
                              /\ Left(Tail(t)) = Left(t) \ {Head(t)}
    <2>1. CASE t = <<"llm", "stt", "cred">>
      BY <2>1 DEF Todos, Left, Keys
    <2>2. CASE t = <<"stt", "cred">>
      BY <2>2 DEF Todos, Left, Keys
    <2>3. CASE t = <<"cred">>
      BY <2>3 DEF Todos, Left, Keys
    <2>4. CASE t = <<>>
      BY <2>4 DEF Todos, Left, Keys
    <2>5. CASE t = <<"llm">>
      BY <2>5 DEF Todos, Left, Keys
    <2>6. CASE t = <<"stt", "reset", "cred">>
      BY <2>6 DEF Todos, Left, Keys
    <2>7. CASE t = <<"reset", "cred">>
      BY <2>7 DEF Todos, Left, Keys
    <2> QED BY <2>1, <2>2, <2>3, <2>4, <2>5, <2>6, <2>7 DEF Todos
  <1> QED BY <1>1, <1>2 DEF Todos

LEMMA SettingsFacts ==
  /\ Defaults \in Settings /\ Torn \notin Settings /\ Settings = [Keys -> {0} \cup Values]
  /\ \A s \in Settings, k \in Keys, v \in {0} \cup Values : [s EXCEPT ![k] = v] \in Settings
  /\ \A s \in Settings, k \in Keys : s[k] \in {0} \cup Values
  BY TornAssumption DEF Settings, Defaults

LEMMA TypesInit == Init => TypesInv
  BY SettingsFacts, TodoFacts, DesktopAssumption DEF Init, TypesInv, Idle, NoAgent,
       Points, OnLauncher,
     AgentRecords, RequestRecords, Launchers, Remarks

LEMMA IdleTypes == Idle \in RequestRecords /\ NoAgent \in AgentRecords
  BY SettingsFacts, TodoFacts, DesktopAssumption DEF Idle, NoAgent, Points, OnLauncher,
     AgentRecords, RequestRecords

\* A new request.
LEMMA NewRequest ==
  ASSUME NEW kind \in OnLauncher \cup {"none", "model", "update", "play"},
       NEW at \in Points,
         NEW a \in {0} \cup Agents, NEW todo \in Todos, NEW val \in Settings
  PROVE  /\ [Idle EXCEPT !.kind = kind, !.at = at] \in RequestRecords
         /\ [Idle EXCEPT !.kind = kind, !.at = at, !.agent = a, !.todo = todo, !.val = val]
              \in RequestRecords
         /\ [Idle EXCEPT !.kind = kind, !.at = at, !.agent = a,
              !.val = val] \in RequestRecords
  BY IdleTypes DEF RequestRecords

LEMMA AgentChanges ==
  ASSUME NEW x \in AgentRecords, NEW b \in BOOLEAN, NEW s \in Settings,
         NEW p \in {0} \cup Ports, NEW at \in {"none", "born", "bound", "up", "term",
              "dead"}
  PROVE  /\ [x EXCEPT !.at = at] \in AgentRecords
         /\ [x EXCEPT !.built = <<>>] \in AgentRecords
         /\ [x EXCEPT !.built = <<s>>] \in AgentRecords
         /\ [x EXCEPT !.mixed = b] \in AgentRecords
         /\ [x EXCEPT !.at = at, !.port = p, !.set = s] \in AgentRecords
  BY DEF AgentRecords

LEMMA RequestChanges ==
  ASSUME NEW x \in RequestRecords, NEW at \in Points, NEW todo \in Todos, NEW s \in Settings
  PROVE  /\ [x EXCEPT !.at = at] \in RequestRecords
         /\ [x EXCEPT !.todo = todo] \in RequestRecords
         /\ [x EXCEPT !.at = at, !.todo = todo] \in RequestRecords
         /\ [x EXCEPT !.at = at, !.payload = s] \in RequestRecords
  BY DEF RequestRecords

LEMMA LauncherTypes ==
  ASSUME TypesInv, [Next]_vars
  PROVE  launcher' \in Launchers /\ seen' \in Remarks
  <1> USE DEF TypesInv, Launchers, Remarks
  <1>1. ASSUME NEW r \in Requests, AskLauncher(r)
        PROVE  launcher' \in Launchers /\ seen' \in Remarks
    BY <1>1 DEF AskLauncher
  <1>2. ASSUME NEW r \in Requests, AskSave(r) \/ AskPull(r) \/ AskModel(r) \/ AskUpdate(r)
        PROVE  launcher' \in Launchers /\ seen' \in Remarks
    BY <1>2 DEF AskSave, AskPull, AskModel, AskUpdate, Begin
  <1>3. ASSUME NEW r \in Requests, Saved(r)
        PROVE  launcher' \in Launchers /\ seen' \in Remarks
    <2>1. req[r].val \in Settings
      BY DEF RequestRecords
    <2> DEFINE stored == CASE req[r].kind \in {"pull", "model"} -> {"llm"}
                           [] req[r].kind = "update" -> {"stt", "cred"}
                           [] OTHER -> Keys
    <2>2. seen' = [seen EXCEPT !.want = [k \in Keys |-> IF k \in stored THEN req[r].val[k] ELSE @[k]]]
          /\ launcher' = launcher
      BY <1>3 DEF Saved
    <2>3. [k \in Keys |-> IF k \in stored THEN req[r].val[k] ELSE seen.want[k]] \in Settings
      <3> HIDE DEF stored
      <3> QED BY <2>1, SettingsFacts
    <2> QED BY <2>2, <2>3
  <1>4. ASSUME NEW r \in Requests,
               \/ Read(r) \/ Open(r) \/ Fill(r) \/ ResetStt(r) \/ Build(r) \/ Install(r)
                 \/ Look(r) \/ Again(r) \/ Wait(r) \/ Stop(r)
        PROVE  launcher' \in Launchers /\ seen' \in Remarks
    BY <1>4 DEF Read, Open, Fill, ResetStt, Build, Install, Look, Again, Wait, Stop
  <1>5. ASSUME NEW r \in Requests, Prepare(r) \/ Spawn(r)
        PROVE  launcher' \in Launchers /\ seen' \in Remarks
    BY <1>5 DEF Prepare, Spawn, FreePorts
  <1>6. ASSUME NEW r \in Requests, Stopping(r)
        PROVE  launcher' \in Launchers /\ seen' \in Remarks
    BY <1>6 DEF Stopping, Spoils
  <1>7. ASSUME NEW r \in Requests, Stopped(r)
        PROVE  launcher' \in Launchers /\ seen' \in Remarks
    BY <1>7 DEF Stopped
  <1>8. ASSUME NEW r \in Requests, Quit(r)
        PROVE  launcher' \in Launchers /\ seen' \in Remarks
    BY <1>8 DEF Quit, Spoils
  <1>9. CASE Die
    BY <1>9 DEF Die, Spoils
  <1>10. CASE Launch
    BY <1>10 DEF Launch
  <1>11. ASSUME NEW a \in Agents, Agent(a) \/ Crash(a)
         PROVE  launcher' \in Launchers /\ seen' \in Remarks
    BY <1>11 DEF Agent, PickPort, Serve, Exit, Watch, Crash, Ends, Spoils
  <1>12. CASE UNCHANGED vars
    BY <1>12 DEF vars
  <1> QED BY <1>1, <1>2, <1>3, <1>4, <1>5, <1>6, <1>7, <1>8, <1>9, <1>10, <1>11, <1>12
          DEF Next, Save, Supervise

LEMMA FileTypes ==
  ASSUME TypesInv, [Next]_vars
  PROVE  file' \in Settings \cup {Torn}
  <1>1. ASSUME NEW r \in Requests, Fill(r) PROVE file' \in Settings
    BY <1>1 DEF Fill, TypesInv, RequestRecords
  <1>2. ASSUME NEW r \in Requests, Open(r) PROVE file' = Torn
    BY <1>2 DEF Open
  <1>3. ASSUME NEW r \in Requests,
               \/ AskLauncher(r) \/ AskSave(r) \/ AskPull(r) \/ AskModel(r)
               \/ AskUpdate(r) \/ Build(r)
               \/ Read(r) \/ ResetStt(r) \/ Saved(r) \/ Install(r)
        PROVE  file' = file
    BY <1>3 DEF AskLauncher, AskSave, AskPull, AskModel, AskUpdate, Begin, Build, Read,
         ResetStt, Saved, Install
  <1>4. ASSUME NEW r \in Requests, Supervise(r) PROVE file' = file
    BY <1>4 DEF Supervise, Look, Again, Prepare, Spawn, Wait, Stop, Stopping, Stopped, Quit
  <1>5. ASSUME NEW a \in Agents, Agent(a) \/ Crash(a) PROVE file' = file
    BY <1>5 DEF Agent, PickPort, Serve, Exit, Watch, Crash, Ends
  <1>6. CASE Die \/ Launch \/ UNCHANGED vars
    BY <1>6 DEF Die, Launch, vars, TypesInv
  <1> QED BY <1>1, <1>2, <1>3, <1>4, <1>5, <1>6 DEF Next, Save, TypesInv

LEMMA AgentTypes ==
  ASSUME TypesInv, [Next]_vars
  PROVE  agents' \in [Agents -> AgentRecords]
  <1>1. ASSUME NEW r \in Requests, Read(r) PROVE agents' \in [Agents -> AgentRecords]
    <2> DEFINE key == Head(req[r].todo)
    <2>1. key \in Keys /\ req[r].val \in Settings
      BY <1>1, TodoFacts DEF Read, TypesInv, RequestRecords, Todos, Left, Keys
    <2>2. req[r].val[key] \in {0} \cup Values
      BY <2>1, SettingsFacts
    <2>3. \/ agents' = agents
          \/ /\ req[r].agent \in Agents
             /\ agents' = [agents EXCEPT ![req[r].agent].set[key] = req[r].val[key]]
      BY <1>1 DEF Read, TypesInv, RequestRecords
    <2> HIDE DEF key
    <2>4. ASSUME NEW a \in Agents PROVE [agents[a].set EXCEPT ![key] = req[r].val[key]] \in Settings
      BY <2>1, <2>2, SettingsFacts DEF TypesInv, AgentRecords
    <2> QED BY <2>3, <2>4, ZenonT(60) DEF TypesInv, AgentRecords
  <1>2. ASSUME NEW r \in Requests, ResetStt(r) \/ AskUpdate(r)
        PROVE  agents' \in [Agents -> AgentRecords]
    <2>1. CASE ResetStt(r)
      BY <2>1, AgentChanges, SettingsFacts DEF ResetStt, Reset, TypesInv
    <2>2. CASE AskUpdate(r)
      <3>1. PICK a \in Agents : agents' = [agents EXCEPT ![a].mixed = @ \/ Building(a)]
        BY <2>2 DEF AskUpdate
      <3>2. agents' = [agents EXCEPT ![a].mixed = agents[a].mixed \/ Building(a)]
        BY <3>1
      <3>3. PICK b \in BOOLEAN : b = (agents[a].mixed \/ Building(a))
        OBVIOUS
      <3> QED BY <3>2, <3>3, AgentChanges, SettingsFacts DEF TypesInv
    <2> QED BY <1>2, <2>1, <2>2
  <1>3. ASSUME NEW r \in Requests, Install(r) PROVE agents' \in [Agents -> AgentRecords]
    BY <1>3, ZenonT(60) DEF Install, TypesInv, AgentRecords, RequestRecords
  <1>4. ASSUME NEW r \in Requests, Build(r) PROVE agents' \in [Agents -> AgentRecords]
    <2>1. PICK a \in Agents : agents' = [agents EXCEPT ![a].mixed = @ \/ Updating(a)]
      BY <1>4 DEF Build
    <2>2. PICK b \in BOOLEAN : b = (agents[a].mixed \/ Updating(a))
      OBVIOUS
    <2> QED BY <2>1, <2>2, AgentChanges, SettingsFacts DEF TypesInv
  <1>5. ASSUME NEW r \in Requests, Spawn(r) PROVE agents' \in [Agents -> AgentRecords]
    <2>1. PICK a \in Agents :
            agents' = [agents EXCEPT ![a] = [NoAgent EXCEPT !.at = "born",
                       !.port = launcher.url, !.parent = launcher.no, !.set = req[r].val]]
      BY <1>5 DEF Spawn
    <2>2. [NoAgent EXCEPT !.at = "born", !.port = launcher.url, !.parent = launcher.no,
              !.set = req[r].val] \in AgentRecords
      BY IdleTypes DEF TypesInv, AgentRecords, RequestRecords, Launchers
    <2> QED BY <2>1, <2>2 DEF TypesInv
  <1>6. ASSUME NEW r \in Requests, Stop(r) \/ Stopping(r)
        PROVE  agents' \in [Agents -> AgentRecords]
    <2>1. \/ agents' = agents
          \/ /\ launcher.proc \in Agents
             /\ \E at \in {"term",
                  "dead"} : agents' = [agents EXCEPT ![launcher.proc].at = at]
      BY <1>6 DEF Stop, Stopping, Alive, TypesInv, Launchers
    <2>2. ASSUME NEW at \in {"term", "dead"}, launcher.proc \in Agents,
                 agents' = [agents EXCEPT ![launcher.proc].at = at]
          PROVE  agents' \in [Agents -> AgentRecords]
      <3>1. [agents[launcher.proc] EXCEPT !.at = at] \in AgentRecords
        BY <2>2, AgentChanges, SettingsFacts DEF TypesInv
      <3> QED BY <2>2, <3>1 DEF TypesInv
    <2> QED BY <2>1, <2>2 DEF TypesInv
  <1>7. ASSUME NEW a \in Agents, PickPort(a) PROVE agents' \in [Agents -> AgentRecords]
    <2>1. PICK p \in Ports :
            agents' = [agents EXCEPT ![a].at = "bound", ![a].port = p,
                                     ![a].set = IF file = Torn THEN @ ELSE file]
      BY <1>7 DEF PickPort, FreePorts
    <2>2. (IF file = Torn THEN agents[a].set ELSE file) \in Settings
      BY DEF TypesInv, AgentRecords
    <2>3. [agents[a] EXCEPT !.at = "bound", !.port = p,
              !.set = IF file = Torn THEN agents[a].set ELSE file] \in AgentRecords
      BY <2>2, AgentChanges DEF TypesInv
    <2>4. agents' = [agents EXCEPT ![a] = [agents[a] EXCEPT !.at = "bound", !.port = p,
              !.set = IF file = Torn THEN agents[a].set ELSE file]]
      BY <2>1
    <2> QED BY <2>3, <2>4 DEF TypesInv
  <1>8. ASSUME NEW a \in Agents, Serve(a) \/ Exit(a) \/ Watch(a) \/ Crash(a)
        PROVE  agents' \in [Agents -> AgentRecords]
    <2>1. PICK at \in {"up", "dead"} : agents' = [agents EXCEPT ![a].at = at]
      <3>1. ASSUME Ends(a) PROVE agents' = [agents EXCEPT ![a].at = "dead"]
        BY <3>1 DEF Ends
      <3> QED BY <1>8, <3>1 DEF Serve, Exit, Watch, Crash
    <2>2. [agents[a] EXCEPT !.at = at] \in AgentRecords
      BY DEF TypesInv, AgentRecords
    <2> QED BY <2>1, <2>2 DEF TypesInv
  <1>9. ASSUME NEW r \in Requests,
               \/ AskLauncher(r) \/ AskSave(r) \/ AskPull(r) \/ AskModel(r)
               \/ Open(r) \/ Fill(r)
               \/ Saved(r) \/ Look(r) \/ Again(r) \/ Prepare(r) \/ Wait(r)
               \/ Stopped(r) \/ Quit(r)
        PROVE  agents' = agents
    BY <1>9 DEF AskLauncher, AskSave, AskPull, AskModel, Begin, Open, Fill, Saved, Look,
         Again,
       Prepare, Wait, Stopped, Quit
  <1>10. CASE Die \/ Launch \/ UNCHANGED vars
    BY <1>10 DEF Die, Launch, vars, TypesInv
  <1> QED BY <1>1, <1>2, <1>3, <1>4, <1>5, <1>6, <1>7, <1>8, <1>9, <1>10
          DEF Next, Save, Supervise, Agent, TypesInv

LEMMA RequestTypes ==
  ASSUME TypesInv, PlaceInv, [Next]_vars
  PROVE  req' \in [Requests -> RequestRecords]
  <1>1. ASSUME NEW r \in Requests,
       AskLauncher(r) PROVE req' \in [Requests -> RequestRecords]
    <2>1. PICK kind \in {"start", "stop", "quit"} :
            req' = [req EXCEPT ![r] =
              [Idle EXCEPT !.kind = kind, !.at = IF kind = "start" THEN "look" ELSE "stop"]]
      BY <1>1 DEF AskLauncher
    <2>2. PICK at \in Points : at = IF kind = "start" THEN "look" ELSE "stop"
      BY DEF Points
    <2>3. kind \in OnLauncher
      BY DEF OnLauncher
    <2>4. [Idle EXCEPT !.kind = kind, !.at = at] \in RequestRecords
      BY <2>3, NewRequest, TodoFacts, SettingsFacts
    <2> QED BY <2>1, <2>2, <2>4 DEF TypesInv
  <1>2. ASSUME NEW r \in Requests, NEW kind \in {"save", "pull", "model", "update"},
               NEW a \in {0} \cup Agents, NEW todo \in Todos, NEW val \in Settings,
               Begin(r, kind, a, todo, val)
        PROVE  req' \in [Requests -> RequestRecords]
    BY <1>2, NewRequest DEF Begin, Points, OnLauncher, TypesInv
  <1>3. ASSUME NEW r \in Requests, AskSave(r) \/ AskPull(r) \/ AskModel(r) \/ AskUpdate(r)
        PROVE  req' \in [Requests -> RequestRecords]
    <2>1. \E kind \in {"save", "pull", "model", "update"}, a \in {0} \cup Agents,
             todo \in Todos, val \in Settings : Begin(r, kind, a, todo, val)
      <3>1. CASE AskSave(r)
        BY <3>1, SettingsFacts, TodoFacts DEF AskSave, Loaded, TypesInv, Keys
      <3>2. CASE AskPull(r)
        BY <3>2, SettingsFacts, TodoFacts DEF AskPull, Keys
      <3>3. CASE AskModel(r)
        BY <3>3, SettingsFacts, TodoFacts DEF AskModel, Keys
      <3>4. CASE AskUpdate(r)
        BY <3>4, SettingsFacts, TodoFacts DEF AskUpdate, Keys
      <3> QED BY <1>3, <3>1, <3>2, <3>3, <3>4
    <2> QED BY <1>2, <2>1
  <1>4. ASSUME NEW r \in Requests, Build(r) PROVE req' \in [Requests -> RequestRecords]
    <2>1. PICK a \in Agents :
            req' = [req EXCEPT ![r] = [Idle EXCEPT !.kind = "play", !.at = "install",
                 !.agent = a, !.val = [agents[a].set EXCEPT !["llm"] = 0]]]
      BY <1>4 DEF Build
    <2>2. [agents[a].set EXCEPT !["llm"] = 0] \in Settings
      BY SettingsFacts DEF TypesInv, AgentRecords, Keys
    <2>3. [Idle EXCEPT !.kind = "play", !.at = "install", !.agent = a,
             !.val = [agents[a].set EXCEPT !["llm"] = 0]] \in RequestRecords
      BY <2>2, NewRequest, TodoFacts DEF Points
    <2> QED BY <2>1, <2>3 DEF TypesInv
  <1>5. ASSUME NEW r \in Requests, Read(r) PROVE req' \in [Requests -> RequestRecords]
    <2>0. /\ req[r] \in RequestRecords /\ req[r].todo \in Todos /\ req[r].val \in Settings
          /\ req[r].todo # <<>> /\ Head(req[r].todo) # "reset"
      BY <1>5 DEF Read, TypesInv, RequestRecords
    <2>1. Tail(req[r].todo) \in Todos /\ Head(req[r].todo) \in Keys
      BY <2>0, TodoFacts
    <2>2. CASE file = Torn
      BY <1>5, <2>1, <2>2 DEF Read, TypesInv, RequestRecords
    <2>3. CASE file # Torn
      <3>1. Payload(r, Head(req[r].todo)) \in Settings
        BY <2>0, <2>1, <2>3, SettingsFacts DEF Payload, TypesInv
      <3>2. req' = [req EXCEPT ![r].at = "open", ![r].payload = Payload(r,
           Head(req[r].todo))]
        BY <1>5, <2>3 DEF Read
      <3>3. [req[r] EXCEPT !.at = "open", !.payload = Payload(r, Head(req[r].todo))]
              \in RequestRecords
        BY <2>0, <3>1, RequestChanges DEF Points
      <3> QED BY <3>2, <3>3 DEF TypesInv
    <2> QED BY <2>2, <2>3
  <1>6. ASSUME NEW r \in Requests, Fill(r) \/ ResetStt(r)
        PROVE  req' \in [Requests -> RequestRecords]
    <2>1. req[r].todo # <<>> => Tail(req[r].todo) \in Todos
      BY TodoFacts DEF TypesInv, RequestRecords
    <2>2. CASE ResetStt(r)
      BY <2>1, <2>2, RequestChanges, SettingsFacts DEF ResetStt, TypesInv, Points
    <2>3. CASE Fill(r)
      <3>1. PICK at \in Points : at = "read"
        BY DEF Points
      <3>2. [req[r] EXCEPT !.at = "read", !.todo = Tail(@)] \in RequestRecords
        BY <2>1, <2>3, <3>1, RequestChanges, SettingsFacts DEF Fill, PlaceInv, Coherent,
             TypesInv
      <3> QED BY <2>3, <3>2 DEF Fill, TypesInv
    <2> QED BY <1>6, <2>2, <2>3
  <1>7. ASSUME NEW r \in Requests,
               \/ Open(r) \/ Saved(r) \/ Install(r) \/ Look(r) \/ Again(r) \/ Wait(r)
        PROVE  req' \in [Requests -> RequestRecords]
    BY <1>7, IdleTypes DEF Open, Saved, Install, Look, Again, Wait, Goto, End, TypesInv,
       RequestRecords, Points, Launchers
  <1>8. ASSUME NEW r \in Requests, Prepare(r) \/ Spawn(r)
        PROVE  req' \in [Requests -> RequestRecords]
    <2>1. Loaded \in Settings
      BY SettingsFacts DEF Loaded, TypesInv
    <2> QED BY <1>8, <2>1 DEF Prepare, Spawn, TypesInv, RequestRecords, Points, Launchers
  <1>9. ASSUME NEW r \in Requests, Stop(r) \/ Stopping(r) \/ Stopped(r)
        PROVE  req' \in [Requests -> RequestRecords]
    BY <1>9, IdleTypes DEF Stop, Stopping, Stopped, Goto, End, TypesInv, RequestRecords,
         Points
  <1>10. ASSUME NEW r \in Requests, Quit(r) PROVE req' \in [Requests -> RequestRecords]
    BY <1>10, IdleTypes DEF Quit, Gone, OfLauncher, TypesInv
  <1>11. CASE Die
    BY <1>11, IdleTypes DEF Die, Gone, OfLauncher, TypesInv
  <1>12. ASSUME NEW a \in Agents, Agent(a) \/ Crash(a)
        PROVE  req' \in [Requests -> RequestRecords]
    BY <1>12, IdleTypes DEF Agent, PickPort, Serve, Exit, Watch, Crash, Ends, Gone, TypesInv
  <1>13. CASE Launch \/ UNCHANGED vars
    BY <1>13 DEF Launch, vars, TypesInv
  <1> QED BY <1>1, <1>3, <1>4, <1>5, <1>6, <1>7, <1>8, <1>9, <1>10, <1>11, <1>12, <1>13
          DEF Next, Save, Supervise

LEMMA TypesKept == TypesInv /\ PlaceInv /\ [Next]_vars => TypesInv'
  BY LauncherTypes, FileTypes, AgentTypes, RequestTypes DEF TypesInv

-----------------------------------------------------------------------------

LEMMA IdleCoherent == Coherent(Idle)
  BY TodoFacts DEF Coherent, Idle, Writers, OnLauncher, Stores

\* A step of one request.
LEMMA PlaceMoves ==
  ASSUME TypesInv, PlaceInv, NEW r \in Requests, NEW x, req' = [req EXCEPT ![r] = x],
         Coherent(x), x.agent \in {0} \cup Agents,
         x.agent # 0 => agents'[x.agent].at \in {"up", "term"},
         x.kind \in OnLauncher => launcher.alive, launcher'.alive = launcher.alive,
         \A a \in Agents : agents[a].at \in {"up", "term"} => agents'[a].at \in {"up",
              "term"}
  PROVE  PlaceInv'
  <1> SUFFICES ASSUME NEW o \in Requests
               PROVE  (/\ Coherent(req[o])
                       /\ req[o].agent # 0 => agents[req[o].agent].at \in {"up", "term"}
                       /\ req[o].kind \in OnLauncher => launcher.alive)'
    BY DEF PlaceInv
  <1>1. CASE o = r
    <2>1. req'[o] = x
      BY <1>1 DEF TypesInv
    <2> QED BY <2>1 DEF Coherent
  <1>2. CASE o # r
    <2>1. req'[o] = req[o] /\ req[o].agent \in {0} \cup Agents
      BY <1>2 DEF TypesInv, RequestRecords
    <2> QED BY <2>1 DEF PlaceInv, Coherent
  <1> QED BY <1>1, <1>2

\* A process ends and takes its threads along.
LEMMA PlaceGone ==
  ASSUME TypesInv, PlaceInv,
         \A r \in Requests :
           \/ req'[r] = Idle
           \/ /\ req'[r] = req[r]
              /\ req[r].agent # 0 => agents'[req[r].agent].at = agents[req[r].agent].at
              /\ req[r].kind \in OnLauncher => launcher'.alive
  PROVE  PlaceInv'
  <1> SUFFICES ASSUME NEW o \in Requests
               PROVE  (/\ Coherent(req[o])
                       /\ req[o].agent # 0 => agents[req[o].agent].at \in {"up", "term"}
                       /\ req[o].kind \in OnLauncher => launcher.alive)'
    BY DEF PlaceInv
  <1>1. CASE req'[o] = Idle
    <2>1. Coherent(Idle) /\ Idle.agent = 0 /\ Idle.kind \notin OnLauncher
      BY IdleCoherent DEF Idle, OnLauncher
    <2> QED BY <1>1, <2>1 DEF Coherent
  <1>2. CASE req'[o] # Idle
    BY <1>2 DEF PlaceInv, Coherent
  <1> QED BY <1>1, <1>2

LEMMA PlaceAsks ==
  ASSUME TypesInv, PlaceInv, NEW r \in Requests,
         \/ AskLauncher(r) \/ AskSave(r) \/ AskPull(r)
         \/ AskModel(r) \/ AskUpdate(r) \/ Build(r)
  PROVE  PlaceInv'
  <1>0. /\ launcher'.alive = launcher.alive
        /\ \A a \in Agents : agents[a].at \in {"up", "term"} => agents'[a].at \in {"up",
             "term"}
    <2>1. launcher'.alive = launcher.alive
      BY DEF TypesInv, Launchers, AskLauncher, AskSave, AskPull, AskModel, AskUpdate,
           Build, Begin
    <2>2. CASE agents' = agents
      BY <2>1, <2>2
    <2>3. CASE \E a \in Agents, b \in BOOLEAN : agents' = [agents EXCEPT ![a].mixed = b]
      BY <2>1, <2>3 DEF TypesInv, AgentRecords
    <2>4. CASE Build(r)
      <3>1. PICK a \in Agents : agents' = [agents EXCEPT ![a].mixed = @ \/ Updating(a)]
        BY <2>4 DEF Build
      <3> QED BY <2>3, <3>1
    <2>5. CASE AskUpdate(r)
      <3>1. PICK a \in Agents : agents' = [agents EXCEPT ![a].mixed = @ \/ Building(a)]
        BY <2>5 DEF AskUpdate
      <3> QED BY <2>3, <3>1
    <2> QED BY <2>2, <2>4, <2>5 DEF AskLauncher, AskSave, AskPull, AskModel
  <1>1. CASE AskLauncher(r)
    <2>1. PICK kind \in {"start", "stop", "quit"}, at \in {"look", "stop"} :
            /\ launcher.alive
            /\ at = "look" <=> kind = "start"
            /\ req' = [req EXCEPT ![r] = [Idle EXCEPT !.kind = kind, !.at = at]]
      BY <1>1 DEF AskLauncher
    <2> DEFINE x == [Idle EXCEPT !.kind = kind, !.at = at]
    <2>2. x.kind = kind /\ x.at = at /\ x.agent = 0 /\ x.todo = <<>>
      BY DEF Idle
    <2> HIDE DEF x
    <2>3. Coherent(x)
      BY <2>1, <2>2, TodoFacts DEF Coherent, Writers, OnLauncher, Stores
    <2> QED BY <1>0, <2>1, <2>2, <2>3, PlaceMoves DEF x
  <1>2. ASSUME NEW kind \in Writers, NEW a \in {0} \cup Agents,
               NEW todo \in Todos, NEW val \in Settings, Begin(r, kind, a, todo, val),
               a = 0 <=> kind \in OnLauncher, Left(todo) \subseteq Stores(kind),
               a # 0 => agents[a].at = "up", a = 0 => launcher.alive
        PROVE  PlaceInv'
    <2>1. PICK x : x = [Idle EXCEPT !.kind = kind, !.at = "read", !.agent = a,
                                    !.todo = todo, !.val = val]
      OBVIOUS
    <2>2. req' = [req EXCEPT ![r] = x]
      BY <1>2, <2>1 DEF Begin
    <2>3. Coherent(x) /\ x.agent = a /\ x.kind = kind
      BY <1>2, <2>1 DEF Coherent, Idle, Writers, OnLauncher
    <2> QED BY <1>0, <1>2, <2>2, <2>3, PlaceMoves
  <1>3. CASE AskSave(r)
    <2>1. PICK v \in Values : Begin(r, "save", 0, <<"llm", "stt", "cred">>,
         [Loaded EXCEPT !["stt"] = v])
      BY <1>3 DEF AskSave
    <2>2. [Loaded EXCEPT !["stt"] = v] \in Settings
      BY SettingsFacts DEF Loaded, TypesInv, Keys
    <2> QED BY <1>2, <1>3, <2>1, <2>2, TodoFacts DEF AskSave, Writers, OnLauncher, Stores
  <1>4. CASE AskPull(r)
    <2>1. PICK v \in Values : Begin(r, "pull", 0, <<"llm">>, [Defaults EXCEPT !["llm"] = v])
      BY <1>4 DEF AskPull
    <2>2. [Defaults EXCEPT !["llm"] = v] \in Settings
      BY SettingsFacts DEF Keys
    <2> QED BY <1>2, <1>4, <2>1, <2>2, TodoFacts DEF AskPull, Writers, OnLauncher, Stores
  <1>5. CASE AskModel(r)
    <2>1. PICK a \in Agents, v \in Values :
            agents[a].at = "up" /\ Begin(r, "model", a, <<"llm">>,
                 [Defaults EXCEPT !["llm"] = v])
      BY <1>5 DEF AskModel
    <2>2. [Defaults EXCEPT !["llm"] = v] \in Settings /\ a # 0
      BY SettingsFacts, DesktopAssumption DEF Keys, Agents
    <2> QED BY <1>2, <2>1, <2>2, TodoFacts DEF Writers, OnLauncher, Stores
  <1>6. CASE AskUpdate(r)
    <2>1. PICK a \in Agents, v \in Values :
            /\ agents[a].at = "up"
            /\ Begin(r, "update", a, <<"stt", "reset", "cred">>,
                     [Defaults EXCEPT !["stt"] = v, !["cred"] = v])
      BY <1>6 DEF AskUpdate
    <2>2. [Defaults EXCEPT !["stt"] = v, !["cred"] = v] \in Settings /\ a # 0
      BY SettingsFacts, DesktopAssumption DEF Keys, Agents
    <2> QED BY <1>2, <2>1, <2>2, TodoFacts DEF Writers, OnLauncher, Stores
  <1>7. CASE Build(r)
    <2>1. PICK a \in Agents :
            /\ agents[a].at = "up"
            /\ req' = [req EXCEPT ![r] = [Idle EXCEPT !.kind = "play", !.at = "install",
                 !.agent = a, !.val = [agents[a].set EXCEPT !["llm"] = 0]]]
      BY <1>7 DEF Build
    <2> DEFINE x == [Idle EXCEPT !.kind = "play", !.at = "install",
                 !.agent = a, !.val = [agents[a].set EXCEPT !["llm"] = 0]]
    <2>2. x.agent = a /\ x.kind = "play" /\ x.at = "install" /\ x.todo = <<>> /\ a # 0
      BY DesktopAssumption DEF Idle, Agents
    <2> HIDE DEF x
    <2>3. Coherent(x) /\ x.kind \notin OnLauncher
      BY <2>2, TodoFacts DEF Coherent, Writers, OnLauncher, Stores
    <2> QED BY <1>0, <2>1, <2>2, <2>3, PlaceMoves DEF x
  <1> QED BY <1>1, <1>3, <1>4, <1>5, <1>6, <1>7

LEMMA PlaceSaves ==
  ASSUME TypesInv, PlaceInv, NEW r \in Requests, Save(r) \/ Install(r)
  PROVE  PlaceInv'
  <1>0. launcher'.alive = launcher.alive
        /\ \A a \in Agents : agents'[a].at = agents[a].at
    BY DEF TypesInv, AgentRecords, Save, Read, Open, Fill, ResetStt, Reset, Saved, Install
  <1>1. /\ req[r] \in RequestRecords /\ Coherent(req[r]) /\ req[r].todo \in Todos
        /\ req[r].agent \in {0} \cup Agents
        /\ req[r].agent # 0 => agents[req[r].agent].at \in {"up", "term"}
        /\ req[r].kind \in OnLauncher => launcher.alive
    BY DEF TypesInv, PlaceInv, RequestRecords
  <1>2. CASE Saved(r) \/ Install(r)
    <2>1. Idle.agent = 0 /\ Idle.kind \notin OnLauncher
      BY DEF Idle, OnLauncher
    <2> QED BY <1>0, <1>2, <2>1, IdleCoherent, PlaceMoves DEF Saved, Install, End
  <1>3. CASE ~(Saved(r) \/ Install(r))
    <2>1. PICK x : /\ req' = [req EXCEPT ![r] = x]
                   /\ x.agent = req[r].agent /\ x.kind = req[r].kind
                   /\ x.at \in {"read", "open", "fill"} /\ req[r].at \in {"read", "open",
                        "fill"}
                   /\ \/ x.todo = req[r].todo
                      \/ x.at = "read" /\ req[r].todo # <<>> /\ x.todo = Tail(req[r].todo)
                   /\ x.at \in {"open", "fill"} => x.todo # <<>> /\ Head(x.todo) # "reset"
      <3>1. CASE Read(r) /\ file = Torn
        <4> WITNESS [req[r] EXCEPT !.todo = Tail(@)]
        <4> QED BY <1>1, <3>1 DEF Read, RequestRecords, TypesInv
      <3>2. CASE Read(r) /\ file # Torn
        <4> WITNESS [req[r] EXCEPT !.at = "open", !.payload = Payload(r, Head(req[r].todo))]
        <4> QED BY <1>1, <3>2 DEF Read, RequestRecords, TypesInv
      <3>3. CASE Open(r)
        <4> WITNESS [req[r] EXCEPT !.at = "fill"]
        <4> QED BY <1>1, <3>3 DEF Open, Goto, Coherent, RequestRecords, TypesInv
      <3>4. CASE Fill(r)
        <4> WITNESS [req[r] EXCEPT !.at = "read", !.todo = Tail(@)]
        <4> QED BY <1>1, <3>4 DEF Fill, Coherent, RequestRecords, TypesInv
      <3>5. CASE ResetStt(r)
        <4> WITNESS [req[r] EXCEPT !.todo = Tail(@)]
        <4> QED BY <1>1, <3>5 DEF ResetStt, RequestRecords, TypesInv
      <3> QED BY <1>3, <3>1, <3>2, <3>3, <3>4, <3>5 DEF Save
    <2>2. Left(x.todo) \subseteq Left(req[r].todo)
      BY <1>1, <2>1, TodoFacts
    <2>3. Coherent(x)
      BY <1>1, <2>1, <2>2 DEF Coherent, Writers
    <2> QED BY <1>0, <1>1, <2>1, <2>3, PlaceMoves
  <1> QED BY <1>2, <1>3

LEMMA PlaceSupervises ==
  ASSUME TypesInv, PlaceInv, NEW r \in Requests, Supervise(r)
  PROVE  PlaceInv'
  <1>0. /\ req[r] \in RequestRecords /\ Coherent(req[r])
        /\ req[r].agent \in {0} \cup Agents
        /\ req[r].agent # 0 => agents[req[r].agent].at \in {"up", "term"}
        /\ req[r].kind \in OnLauncher => launcher.alive
    BY DEF TypesInv, PlaceInv, RequestRecords
  <1>1. CASE ~Stopping(r) /\ ~Quit(r)
    <2>1. launcher'.alive = launcher.alive
      BY <1>1 DEF Supervise, Look, Again, Prepare, Spawn, Wait, Stop, Stopped, TypesInv,
           Launchers
    <2>2. \A a \in Agents : agents[a].at \in {"up", "term"} => agents'[a].at \in {"up",
         "term"}
      <3>1. CASE Stop(r)
        BY <3>1 DEF Stop, TypesInv, AgentRecords
      <3>2. CASE Spawn(r)
        BY <3>2 DEF Spawn, TypesInv, AgentRecords
      <3>3. CASE agents' = agents
        BY <3>3
      <3> QED BY <1>1, <3>1, <3>2, <3>3 DEF Supervise, Look, Again, Prepare, Wait, Stopped
    <2>3. CASE req' = [req EXCEPT ![r] = Idle]
      <3>1. Idle.agent = 0 /\ Idle.kind \notin OnLauncher
        BY DEF Idle, OnLauncher
      <3> QED BY <2>1, <2>2, <2>3, <3>1, IdleCoherent, PlaceMoves
    <2>4. CASE req' # [req EXCEPT ![r] = Idle]
      <3>1. PICK x : /\ req' = [req EXCEPT ![r] = x]
                     /\ x.kind = req[r].kind /\ x.agent = req[r].agent /\ x.todo = req[r].todo
                     /\ x.at \in {"again", "prepare", "spawn", "wait", "stop", "stopping",
                          "stopped"}
                     /\ req[r].at \in {"look", "again", "prepare", "spawn", "wait",
                          "stop", "stopping", "stopped"}
                     /\ x.at \in {"again", "prepare", "spawn",
                          "wait"} => req[r].kind = "start"
        <4>1. CASE Look(r) \/ Again(r) \/ Wait(r) \/ Stop(r) \/ Stopped(r)
          <5>1. PICK at \in {"again", "prepare", "stop", "stopping", "stopped"},
                     url \in {0} \cup Ports :
                  /\ req' = [req EXCEPT ![r].at = at, ![r].url = url]
                  /\ at \in {"again", "prepare"} => req[r].kind = "start"
                  /\ req[r].at \in {"look", "again", "stop", "stopped"}
            <6>1. \A at : [req EXCEPT ![r].at = at] = [req EXCEPT ![r].at = at,
                 ![r].url = req[r].url]
              BY <1>0 DEF RequestRecords, TypesInv
            <6>2. req[r].url \in {0} \cup Ports /\ launcher.url \in {0} \cup Ports
              BY <1>0 DEF RequestRecords, TypesInv, Launchers
            <6> QED BY <1>0, <2>4, <4>1, <6>1, <6>2 DEF Look, Again, Wait, Stop, Stopped,
                 Goto, End, Coherent
          <5> WITNESS [req[r] EXCEPT !.at = at, !.url = url]
          <5> QED BY <1>0, <5>1 DEF RequestRecords, TypesInv
        <4>2. CASE Prepare(r)
          <5> WITNESS [req[r] EXCEPT !.at = "spawn", !.val = Loaded]
          <5> QED BY <1>0, <4>2 DEF Prepare, Coherent, RequestRecords, TypesInv
        <4>3. CASE Spawn(r)
          <5> WITNESS [req[r] EXCEPT !.at = "wait", !.url = launcher.url]
          <5> QED BY <1>0, <4>3 DEF Spawn, Coherent, RequestRecords, TypesInv
        <4> QED BY <1>1, <4>1, <4>2, <4>3 DEF Supervise
      <3>2. Coherent(x)
        BY <1>0, <3>1 DEF Coherent, Writers, OnLauncher
      <3> QED BY <1>0, <2>1, <2>2, <3>1, <3>2, PlaceMoves
    <2> QED BY <2>3, <2>4
  <1>2. CASE Stopping(r)
    <2>0. req[r].kind \in {"start", "stop", "quit"} /\ req[r].agent = 0 /\ launcher.alive
          /\ launcher' = launcher
      BY <1>0, <1>2 DEF Stopping, Coherent, Writers, OnLauncher, RequestRecords
    <2>1. CASE Alive(launcher.proc) /\ agents' # agents
      <3>1. /\ agents' = [agents EXCEPT ![launcher.proc].at = "dead"]
            /\ req' = [o \in Requests |->
                 IF o = r THEN [req[r] EXCEPT !.at = "stopped"]
                 ELSE IF req[o].agent = launcher.proc THEN Idle ELSE req[o]]
        BY <1>2, <2>1 DEF Stopping
      <3> SUFFICES ASSUME NEW o \in Requests
                   PROVE  (/\ Coherent(req[o])
                           /\ req[o].agent # 0 => agents[req[o].agent].at \in {"up", "term"}
                           /\ req[o].kind \in OnLauncher => launcher.alive)'
        BY DEF PlaceInv
      <3>2. CASE o = r
        <4>1. req'[o].at = "stopped" /\ req'[o].kind = req[r].kind /\ req'[o].agent = 0
              /\ req'[o].todo = req[r].todo
          BY <1>0, <2>0, <3>1, <3>2 DEF RequestRecords
        <4> QED BY <1>0, <2>0, <4>1 DEF Coherent, Writers, OnLauncher
      <3>3. CASE o # r /\ req[o].agent = launcher.proc
        <4>1. Coherent(Idle) /\ Idle.agent = 0 /\ Idle.kind \notin OnLauncher
          BY IdleCoherent DEF Idle, OnLauncher
        <4> QED BY <3>1, <3>3, <4>1 DEF Coherent
      <3>4. CASE o # r /\ req[o].agent # launcher.proc
        <4>1. req'[o] = req[o] /\ req[o].agent \in {0} \cup Agents
          BY <3>1, <3>4 DEF TypesInv, RequestRecords
        <4>2. req[o].agent # 0 => agents'[req[o].agent].at = agents[req[o].agent].at
          BY <3>1, <3>4, <4>1 DEF TypesInv
        <4> QED BY <2>0, <4>1, <4>2 DEF PlaceInv, Coherent
      <3> QED BY <3>2, <3>3, <3>4
    <2>2. CASE ~(Alive(launcher.proc) /\ agents' # agents)
      <3>1. /\ agents' = agents
            /\ req' = [req EXCEPT ![r] = Idle] \/ req' = [req EXCEPT ![r].at = "stopped"]
        <4>1. ~(Alive(launcher.proc) /\ agents' = [agents EXCEPT ![launcher.proc].at = "dead"])
          BY <2>2 DEF Alive, TypesInv, AgentRecords, Launchers
        <4> QED BY <1>2, <4>1 DEF Stopping, Goto, End
      <3>2. CASE req' = [req EXCEPT ![r] = Idle]
        <4>1. Idle.agent = 0 /\ Idle.kind \notin OnLauncher
          BY DEF Idle, OnLauncher
        <4> QED BY <2>0, <3>1, <3>2, <4>1, IdleCoherent, PlaceMoves
      <3>3. CASE req' = [req EXCEPT ![r].at = "stopped"]
        <4> DEFINE x == [req[r] EXCEPT !.at = "stopped"]
        <4>1. /\ req' = [req EXCEPT ![r] = x]
              /\ x.kind = req[r].kind /\ x.agent = 0 /\ x.todo = req[r].todo /\ x.at = "stopped"
          BY <1>0, <2>0, <3>3 DEF TypesInv, RequestRecords
        <4> HIDE DEF x
        <4>2. Coherent(x)
          BY <1>0, <2>0, <4>1 DEF Coherent, Writers, OnLauncher
        <4> QED BY <2>0, <3>1, <4>1, <4>2, PlaceMoves
      <3> QED BY <3>1, <3>2, <3>3
    <2> QED BY <2>1, <2>2
  <1>3. CASE Quit(r)
    BY <1>3, PlaceGone DEF Quit, Gone, OfLauncher
  <1> QED BY <1>1, <1>2, <1>3

LEMMA PlaceKept == TypesInv /\ PlaceInv /\ [Next]_vars => PlaceInv'
  <1> SUFFICES ASSUME TypesInv, PlaceInv, [Next]_vars PROVE PlaceInv'
    OBVIOUS
  <1>1. ASSUME NEW a \in Agents, Ends(a) PROVE PlaceInv'
    <2>1. ASSUME NEW r \in Requests, req'[r] # Idle
          PROVE  /\ req'[r] = req[r]
                 /\ req[r].agent # 0 => agents'[req[r].agent].at = agents[req[r].agent].at
                 /\ req[r].kind \in OnLauncher => launcher'.alive
      <3>1. req'[r] = req[r] /\ req[r].agent # a /\ launcher' = launcher
            /\ agents' = [agents EXCEPT ![a].at = "dead"]
        BY <1>1, <2>1 DEF Ends, Gone
      <3> QED BY <3>1 DEF TypesInv, PlaceInv, RequestRecords
    <2> QED BY <2>1, PlaceGone
  <1>2. ASSUME NEW a \in Agents, Agent(a) \/ Crash(a) PROVE PlaceInv'
    <2>1. CASE ~Ends(a)
      <3>1. /\ launcher' = launcher /\ req' = req
            /\ \A b \in Agents : agents[b].at \in {"up",
                 "term"} => agents'[b].at \in {"up", "term"}
        BY <1>2, <2>1 DEF Agent, PickPort, Serve, Exit, Watch, Crash, TypesInv, AgentRecords
      <3> QED BY <3>1 DEF PlaceInv, Coherent, TypesInv, RequestRecords
    <2> QED BY <1>1, <2>1
  <1>3. CASE Die
    BY <1>3, PlaceGone DEF Die, Gone, OfLauncher
  <1>4. CASE Launch
    BY <1>4 DEF Launch, PlaceInv, Coherent
  <1>5. CASE UNCHANGED vars
    BY <1>5 DEF vars, PlaceInv, Coherent
  <1> QED BY <1>2, <1>3, <1>4, <1>5, PlaceAsks, PlaceSaves, PlaceSupervises DEF Next

-----------------------------------------------------------------------------
(* One agent. *)

Runs(a) == agents[a].parent = launcher.no /\ agents[a].at \in {"born", "bound", "up"}

\* While the launcher is between two agents, none runs; a port it knows of tells
\* the agent it knows from none.
OneKnown ==
  /\ launcher.proc # 0 => launcher.url # 0
  /\ \A r, o \in Requests : Supervising(r) /\ Supervising(o) => r = o
  /\ \A a \in Agents : Runs(a) => a = launcher.proc
  /\ \A r \in Requests :
       /\ req[r].at \in {"prepare", "spawn", "stopping",
            "stopped"} => \A a \in Agents : ~Runs(a)
       /\ req[r].at = "spawn" => launcher.url # 0

OneInv ==
  /\ \A a \in Agents : agents[a].parent <= launcher.no
  /\ launcher.alive /\ ~seen.overlap => OneKnown

LEMMA WhoSupervises ==
  ASSUME TypesInv, PlaceInv, NEW r \in Requests
  PROVE  Supervising(r) <=> req[r].at \in {"look", "again", "prepare", "spawn", "wait",
                                          "stop", "stopping", "stopped"}
  BY DEF TypesInv, PlaceInv, Coherent, Supervising, RequestRecords, Points, Writers,
       OnLauncher

\* A step by which no agent starts and the launcher does not supervise any.
LEMMA OneStays ==
  ASSUME TypesInv, PlaceInv, OneInv, TypesInv', PlaceInv', launcher'.no = launcher.no,
         launcher'.alive =>
           launcher.alive /\ launcher'.proc = launcher.proc /\ launcher'.url = launcher.url,
         seen.overlap => seen'.overlap,
         \A a \in Agents :
           /\ agents'[a].parent = agents[a].parent
           /\ agents'[a].at \in {"born", "bound", "up"} => agents[a].at \in {"born",
                "bound", "up"},
         \A r \in Requests :
           \/ req'[r].at = req[r].at /\ req'[r].kind = req[r].kind
           \/ req'[r].at \in {"idle", "read", "open", "fill", "install"}
  PROVE  OneInv'
  <1>1. \A a \in Agents : Runs(a)' => Runs(a)
    BY DEF Runs
  <1>2. \A r \in Requests : Supervising(r)' => Supervising(r) /\ req'[r].at = req[r].at
    <2> TAKE r \in Requests
    <2>1. CASE req'[r].at \in {"idle", "read", "open", "fill", "install"}
      BY <2>1 DEF Supervising, PlaceInv, Coherent, Writers
    <2>2. CASE req'[r].at = req[r].at /\ req'[r].kind = req[r].kind
      BY <2>2 DEF Supervising
    <2> QED BY <2>1, <2>2
  <1>3. SUFFICES ASSUME launcher'.alive, ~seen'.overlap PROVE OneKnown'
    BY DEF OneInv
  <1>4. OneKnown
    BY <1>3 DEF OneInv
  <1>5. \A r \in Requests : req'[r].at \in {"prepare", "spawn", "stopping", "stopped"} =>
                             req'[r].at = req[r].at
    OBVIOUS
  <1> QED BY <1>1, <1>2, <1>3, <1>4, <1>5 DEF OneKnown

LEMMA OneAsks ==
  ASSUME TypesInv, PlaceInv, OneInv, TypesInv', PlaceInv', NEW r \in Requests,
         \/ AskLauncher(r) \/ AskSave(r) \/ AskPull(r)
         \/ AskModel(r) \/ AskUpdate(r) \/ Build(r)
  PROVE  OneInv'
  <1>1. CASE AskLauncher(r)
    <2>1. PICK kind \in {"start", "stop", "quit"}, at \in {"look", "stop"} :
            /\ launcher' = [launcher EXCEPT !.closing = @ \/ kind = "quit"]
            /\ req' = [req EXCEPT ![r] = [Idle EXCEPT !.kind = kind, !.at = at]]
            /\ seen' = [seen EXCEPT !.overlap = @ \/ \E o \in Requests : Supervising(o)]
            /\ agents' = agents
      BY <1>1 DEF AskLauncher
    <2>2. launcher'.no = launcher.no /\ launcher'.alive = launcher.alive
          /\ launcher'.proc = launcher.proc /\ launcher'.url = launcher.url
      BY <2>1 DEF TypesInv, Launchers
    <2>3. req'[r].at = at /\ \A o \in Requests : o # r => req'[o] = req[o]
      BY <2>1 DEF TypesInv, Idle
    <2>4. SUFFICES ASSUME launcher'.alive, ~seen'.overlap PROVE OneKnown'
      BY <2>1, <2>2 DEF OneInv
    <2>5. ~seen.overlap /\ \A o \in Requests : ~Supervising(o)
      BY <2>1, <2>4 DEF TypesInv, Remarks
    <2>6. OneKnown
      BY <2>2, <2>4, <2>5 DEF OneInv
    <2>7. \A o \in Requests : Supervising(o)' => o = r
      BY <2>3, <2>5 DEF Supervising
    <2>8. \A a \in Agents : Runs(a)' <=> Runs(a)
      BY <2>1, <2>2 DEF Runs
    <2> QED BY <2>2, <2>3, <2>6, <2>7, <2>8 DEF OneKnown
  <1>2. CASE ~AskLauncher(r)
    <2>1. launcher' = launcher /\ seen'.overlap = seen.overlap
      BY <1>2 DEF AskSave, AskPull, AskModel, AskUpdate, Build, Begin, TypesInv, Remarks
    <2>2. req'[r].at \in {"read", "install"}
      <3>1. CASE Build(r)
        <4>1. PICK a \in Agents :
                req' = [req EXCEPT ![r] = [Idle EXCEPT !.kind = "play", !.at = "install",
                   !.agent = a, !.val = [agents[a].set EXCEPT !["llm"] = 0]]]
          BY <3>1 DEF Build
        <4>2. PICK val : val = [agents[a].set EXCEPT !["llm"] = 0]
          OBVIOUS
        <4> QED BY <4>1, <4>2 DEF Idle, TypesInv
      <3>2. ASSUME NEW kind, NEW a, NEW todo, NEW val, Begin(r, kind, a, todo, val)
            PROVE  req'[r].at = "read"
        BY <3>2 DEF Begin, Idle, TypesInv
      <3> QED BY <1>2, <3>1, <3>2 DEF AskSave, AskPull, AskModel, AskUpdate
    <2>3. \A o \in Requests : o # r => req'[o] = req[o]
      BY <1>2 DEF AskSave, AskPull, AskModel, AskUpdate, Build, Begin, TypesInv
    <2>4. \A a \in Agents : agents'[a].at = agents[a].at /\ agents'[a].parent = agents[a].parent
      <3>1. CASE agents' = agents
        BY <3>1
      <3>2. CASE \E a \in Agents : \E b : agents' = [agents EXCEPT ![a].mixed = b]
        BY <3>2 DEF TypesInv, AgentRecords
      <3>3. CASE Build(r)
        <4>1. PICK a \in Agents : agents' = [agents EXCEPT ![a].mixed = @ \/ Updating(a)]
          BY <3>3 DEF Build
        <4> QED BY <3>2, <4>1
      <3>4. CASE AskUpdate(r)
        <4>1. PICK a \in Agents : agents' = [agents EXCEPT ![a].mixed = @ \/ Building(a)]
          BY <3>4 DEF AskUpdate
        <4> QED BY <3>2, <4>1
      <3> QED BY <1>2, <3>1, <3>3, <3>4 DEF AskSave, AskPull, AskModel
    <2> QED BY <2>1, <2>2, <2>3, <2>4, OneStays
  <1> QED BY <1>1, <1>2

LEMMA OneSaves ==
  ASSUME TypesInv, PlaceInv, OneInv, TypesInv', PlaceInv', NEW r \in Requests,
       Save(r) \/ Install(r)
  PROVE  OneInv'
  <1>1. launcher' = launcher /\ seen'.overlap = seen.overlap
    BY DEF Save, Read, Open, Fill, ResetStt, Saved, Install, TypesInv, Remarks
  <1>2. \A a \in Agents : agents'[a].at = agents[a].at /\ agents'[a].parent = agents[a].parent
    BY DEF Save, Read, Open, Fill, ResetStt, Reset, Saved, Install, TypesInv, AgentRecords
  <1>3. \A o \in Requests : o # r => req'[o] = req[o]
    BY DEF Save, Read, Open, Fill, ResetStt, Saved, Install, Goto, End, TypesInv
  <1>4. req'[r].at \in {"idle", "read", "open", "fill", "install"}
    <2>1. CASE Saved(r) \/ Install(r)
      BY <2>1 DEF Saved, Install, End, Idle, TypesInv
    <2>2. CASE Read(r) \/ Open(r) \/ Fill(r) \/ ResetStt(r)
      BY <2>2 DEF Read, Open, Fill, ResetStt, Goto, TypesInv, RequestRecords
    <2> QED BY <2>1, <2>2 DEF Save
  <1> QED BY <1>1, <1>2, <1>3, <1>4, OneStays

\* The launcher's own steps, while only one request is about the agent.
LEMMA OneSupervises ==
  ASSUME TypesInv, PlaceInv, OneInv, TypesInv', PlaceInv', NEW r \in Requests, Supervise(r)
  PROVE  OneInv'
  <1>0. /\ req[r] \in RequestRecords /\ Supervising(r)
        /\ launcher \in Launchers /\ launcher' \in Launchers
        /\ \A a \in Agents : agents[a] \in AgentRecords
    <2>1. req[r].at \in {"look", "again", "prepare", "spawn", "wait", "stop", "stopping",
         "stopped"}
      BY DEF Supervise, Look, Again, Prepare, Spawn, Wait, Stop, Stopping, Stopped, Quit
    <2> QED BY <2>1, WhoSupervises DEF TypesInv
  <1>1. CASE Quit(r)
    <2>1. launcher'.no = launcher.no /\ launcher'.alive = FALSE /\ agents' = agents
      BY <1>1 DEF Quit, TypesInv, Launchers
    <2> QED BY <2>1 DEF OneInv
  <1>2. CASE Spawn(r)
    <2>1. PICK a \in Agents :
            /\ launcher' = [launcher EXCEPT !.proc = a]
            /\ agents' = [agents EXCEPT ![a] = [NoAgent EXCEPT !.at = "born",
                       !.port = launcher.url, !.parent = launcher.no, !.set = req[r].val]]
      BY <1>2 DEF Spawn
    <2>2. /\ launcher'.no = launcher.no /\ launcher'.alive = launcher.alive
          /\ launcher'.proc = a /\ launcher'.url = launcher.url
      BY <2>1 DEF TypesInv, Launchers
    <2>3. /\ agents'[a].parent = launcher.no /\ agents'[a].at = "born"
          /\ \A b \in Agents : b # a => agents'[b] = agents[b]
      BY <2>1 DEF NoAgent, TypesInv
    <2>4. /\ req[r].at = "spawn" /\ req'[r].at = "wait" /\ req'[r].kind = req[r].kind
          /\ \A o \in Requests : o # r => req'[o] = req[o]
          /\ seen' = seen
      BY <1>2 DEF Spawn, TypesInv, RequestRecords
    <2>5. \A b \in Agents : agents'[b].parent <= launcher'.no
      <3>1. launcher.no <= launcher.no
        BY DEF TypesInv, Launchers
      <3> QED BY <2>2, <2>3, <3>1 DEF OneInv
    <2>6. SUFFICES ASSUME launcher'.alive, ~seen'.overlap PROVE OneKnown'
      BY <2>5 DEF OneInv
    <2>7. OneKnown
      BY <2>2, <2>4, <2>6 DEF OneInv
    <2>8. \A o \in Requests : Supervising(o)' => o = r
      BY <1>0, <2>4, <2>7 DEF OneKnown, Supervising
    <2>9. \A b \in Agents : Runs(b)' => b = a
      BY <2>2, <2>3, <2>4, <2>7 DEF OneKnown, Runs
    <2>10. \A o \in Requests : req'[o].at \in {"prepare", "spawn", "stopping",
         "stopped"} => o = r
      BY <2>8 DEF Supervising, PlaceInv, Coherent, Writers, TypesInv, RequestRecords,
           OnLauncher
    <2> QED BY <2>2, <2>4, <2>7, <2>8, <2>9, <2>10 DEF OneKnown
  <1>3. CASE ~Quit(r) /\ ~Spawn(r)
    <2>1. /\ launcher'.no = launcher.no /\ launcher'.alive = launcher.alive
          /\ seen'.overlap = seen.overlap
      BY <1>3 DEF Supervise, Look, Again, Prepare, Wait, Stop, Stopping, Stopped, Spoils,
                  TypesInv, Launchers, Remarks
    <2>2. \A a \in Agents :
            /\ agents'[a].parent = agents[a].parent
            /\ agents'[a].at \in {"born", "bound", "up"} => agents'[a].at = agents[a].at
      BY <1>3 DEF Supervise, Look, Again, Prepare, Wait, Stop, Stopping, Stopped,
           TypesInv, AgentRecords
    <2>3. \A a \in Agents : Runs(a)' => Runs(a)
      BY <2>1, <2>2 DEF Runs
    <2>4. SUFFICES ASSUME launcher'.alive, ~seen'.overlap PROVE OneKnown'
      BY <2>1, <2>2 DEF OneInv
    <2>5. OneKnown
      BY <2>1, <2>4 DEF OneInv
    <2>6. \A o \in Requests : Supervising(o)' => o = r
      <3>1. \A o \in Requests : o # r => req'[o] \in {req[o], Idle}
        BY <1>3 DEF Supervise, Look, Again, Prepare, Wait, Stop, Stopping, Stopped, Goto,
             End, TypesInv
      <3>2. Idle.at = "idle"
        BY DEF Idle
      <3> QED BY <1>0, <2>5, <3>1, <3>2 DEF OneKnown, Supervising
    <2>7. \A o \in Requests : req'[o].at \in {"prepare", "spawn", "stopping",
         "stopped"} => o = r
      BY <2>6 DEF Supervising, PlaceInv, Coherent, Writers, TypesInv, RequestRecords,
           OnLauncher
    <2>8. launcher'.proc # 0 => launcher'.url # 0
      <3>1. CASE Prepare(r)
        <4>1. req[r].at = "prepare" /\ launcher'.url \in Ports /\ 0 \notin Ports
          BY <3>1, DesktopAssumption DEF Prepare, FreePorts, TypesInv, Launchers
        <4> QED BY <4>1
      <3>2. CASE Stopped(r)
        BY <3>2 DEF Stopped, TypesInv, Launchers
      <3>3. CASE ~Prepare(r) /\ ~Stopped(r)
        BY <1>3, <2>5, <3>3 DEF OneKnown, Supervise, Look, Again, Wait, Stop, Stopping
      <3> QED BY <3>1, <3>2, <3>3
    <2>9. req'[r].at = "spawn" => launcher'.url # 0
      <3>1. CASE Prepare(r)
        <4>1. launcher'.url \in Ports /\ 0 \notin Ports
          BY <3>1, DesktopAssumption DEF Prepare, FreePorts, TypesInv, Launchers
        <4> QED BY <4>1
      <3>2. CASE ~Prepare(r)
        BY <1>0, <1>3, <3>2 DEF Supervise, Look, Again, Wait, Stop, Stopping, Stopped,
             Goto, End,
           Idle, TypesInv, RequestRecords
      <3> QED BY <3>1, <3>2
    <2>10. req'[r].at \in {"prepare", "spawn", "stopping",
         "stopped"} => \A a \in Agents : ~Runs(a)'
      <3>1. CASE req[r].at \in {"prepare", "spawn", "stopping", "stopped"}
        BY <2>3, <2>5, <3>1 DEF OneKnown
      <3>2. CASE Look(r)
        <4>1. \A a \in Agents : Runs(a) => Alive(launcher.proc) /\ launcher.url # 0
          BY <2>5, DesktopAssumption DEF OneKnown, Runs, Alive, Agents
        <4> QED BY <2>3, <3>2, <4>1 DEF Look, Goto, TypesInv, RequestRecords
      <3>3. CASE Again(r) \/ Wait(r)
        BY <1>0, <3>3 DEF Again, Wait, Goto, End, Idle, TypesInv, RequestRecords
      <3>4. CASE Stop(r)
        <4>1. CASE Alive(launcher.proc)
          <5>1. agents' = [agents EXCEPT ![launcher.proc].at = "term"] /\ launcher' = launcher
            BY <3>4, <4>1 DEF Stop
          <5> QED BY <1>0, <2>3, <2>5, <5>1 DEF OneKnown, Runs, TypesInv, AgentRecords
        <4>2. CASE ~Alive(launcher.proc)
          <5>1. \A a \in Agents : ~Runs(a)
            BY <2>5, <4>2, DesktopAssumption DEF OneKnown, Runs, Alive, Agents
          <5> QED BY <2>3, <5>1
        <4> QED BY <4>1, <4>2
      <3> QED BY <1>3, <3>1, <3>2, <3>3, <3>4 DEF Supervise, Prepare, Stopping, Stopped
    <2>11. \A a \in Agents : Runs(a)' => a = launcher'.proc
      <3>1. CASE Stopped(r)
        <4>1. \A a \in Agents : ~Runs(a)
          BY <2>5, <3>1 DEF OneKnown, Stopped
        <4> QED BY <2>3, <4>1
      <3>2. CASE ~Stopped(r)
        <4>1. launcher'.proc = launcher.proc
          BY <1>3, <3>2 DEF Supervise, Look, Again, Prepare, Wait, Stop, Stopping,
               TypesInv, Launchers
        <4> QED BY <2>3, <2>5, <4>1 DEF OneKnown
      <3> QED BY <3>1, <3>2
    <2> QED BY <2>6, <2>7, <2>8, <2>9, <2>10, <2>11 DEF OneKnown
  <1> QED BY <1>1, <1>2, <1>3

LEMMA OneKept == TypesInv /\ PlaceInv /\ OneInv /\ [Next]_vars => OneInv'
  <1> SUFFICES ASSUME TypesInv, PlaceInv, OneInv, [Next]_vars PROVE OneInv'
    OBVIOUS
  <1>0. TypesInv' /\ PlaceInv'
    BY TypesKept, PlaceKept
  <1>1. ASSUME NEW a \in Agents, Agent(a) \/ Crash(a) PROVE OneInv'
    <2>1. launcher' = launcher /\ (seen.overlap => seen'.overlap)
      BY <1>1 DEF Agent, PickPort, Serve, Exit, Watch, Crash, Ends, Spoils, TypesInv,
           Remarks
    <2>2. \A b \in Agents :
            /\ agents'[b].parent = agents[b].parent
            /\ agents'[b].at \in {"born", "bound", "up"} => agents[b].at \in {"born",
                 "bound", "up"}
      <3>1. CASE PickPort(a)
        BY <3>1 DEF PickPort, TypesInv, AgentRecords
      <3>2. CASE \E at \in {"up", "dead"} : agents' = [agents EXCEPT ![a].at = at]
                                             /\ (at = "up" => agents[a].at = "bound")
        BY <3>2 DEF TypesInv, AgentRecords
      <3> QED BY <1>1, <3>1, <3>2 DEF Agent, Serve, Exit, Watch, Crash, Ends
    <2>3. \A r \in Requests : req'[r] \in {req[r], Idle}
      BY <1>1 DEF Agent, PickPort, Serve, Exit, Watch, Crash, Ends, Gone
    <2>4. Idle.at = "idle"
      BY DEF Idle
    <2> QED BY <1>0, <2>1, <2>2, <2>3, <2>4, OneStays
  <1>2. CASE Die
    <2>1. launcher'.no = launcher.no /\ launcher'.alive = FALSE /\ agents' = agents
      BY <1>2 DEF Die, TypesInv, Launchers
    <2> QED BY <2>1 DEF OneInv
  <1>3. CASE Launch
    <2>1. /\ launcher'.no = launcher.no + 1 /\ launcher'.proc = 0 /\ launcher.no \in Nat
          /\ agents' = agents /\ req' = req /\ ~launcher.alive
      BY <1>3 DEF Launch, TypesInv, Launchers
    <2>2. \A a \in Agents : agents[a].parent \in Nat /\ agents[a].parent <= launcher.no
      BY DEF OneInv, TypesInv, AgentRecords
    <2>3. \A a \in Agents : agents'[a].parent <= launcher'.no /\ ~Runs(a)'
      BY <2>1, <2>2 DEF Runs
    <2>4. \A r \in Requests : ~Supervising(r)
      BY <2>1 DEF PlaceInv, Supervising, OnLauncher
    <2>5. \A r \in Requests : ~Supervising(r)' /\ req'[r].at # "spawn"
      BY <2>1, <2>4, WhoSupervises DEF Supervising
    <2> QED BY <2>1, <2>3, <2>5 DEF OneInv, OneKnown
  <1>4. CASE UNCHANGED vars
    BY <1>4 DEF vars, OneInv, OneKnown, Runs, Supervising
  <1> QED BY <1>0, <1>1, <1>2, <1>3, <1>4, OneAsks, OneSaves, OneSupervises DEF Next


-----------------------------------------------------------------------------
(* The file. *)

\* The settings a request of each kind stores.
Stored(kind) == Stores(kind) \ {"reset"}

\* What the file holds when request r has stored all its settings but those of `rest`.
With(r, rest) ==
  [k \in Keys |-> IF k \in Stored(req[r].kind) \ rest THEN req[r].val[k] ELSE seen.want[k]]

\* While nobody writes to it the file holds what was saved; while one request does,
\* it holds what was saved before and those of its settings that are already stored.
FileKnown ==
  /\ \A r, o \in Requests : Writing(r) /\ Writing(o) => r = o
  /\ (\A r \in Requests : ~Writing(r)) => file = seen.want
  /\ \A r \in Requests : Writing(r) =>
       /\ req[r].at # "fill" => file = With(r, Left(req[r].todo))
       /\ req[r].at = "fill" => file = Torn
       /\ req[r].at \in {"open", "fill"} => req[r].payload = With(r,
            Left(Tail(req[r].todo)))

FileInv == ~seen.spoiled => FileKnown

LEMMA WhoWrites ==
  ASSUME TypesInv, PlaceInv, NEW r \in Requests
  PROVE  Writing(r) <=> req[r].at \in {"read", "open", "fill"}
  BY DEF TypesInv, PlaceInv, Coherent, Writing, Writers

LEMMA WithTypes ==
  ASSUME TypesInv, NEW r \in Requests, NEW rest
  PROVE  With(r, rest) \in Settings
  <1>1. req[r].val \in Settings /\ seen.want \in Settings
    BY DEF TypesInv, RequestRecords, Remarks
  <1> QED BY <1>1, SettingsFacts DEF With

\* A step that neither writes nor lets a request begin or go on writing.
LEMMA FileStays ==
  ASSUME TypesInv, PlaceInv, FileInv, TypesInv', PlaceInv', file' = file,
         seen'.want = seen.want, seen.spoiled => seen'.spoiled,
         \A r \in Requests :
           \/ req'[r] = req[r]
           \/ req'[r].at \notin {"read", "open", "fill"} /\ (Writing(r) => seen'.spoiled)
  PROVE  FileInv'
  <1> SUFFICES ASSUME ~seen'.spoiled PROVE FileKnown'
    BY DEF FileInv
  <1>1. FileKnown
    BY DEF FileInv
  <1>2. \A r \in Requests : Writing(r)' => req'[r].at \in {"read", "open", "fill"}
    BY DEF Writing, PlaceInv, Coherent, Writers
  <1>3. \A r \in Requests : Writing(r)' => Writing(r) /\ req'[r] = req[r]
    BY <1>2 DEF Writing
  <1>4. \A r \in Requests : Writing(r) => Writing(r)'
    BY DEF Writing
  <1>5. \A r \in Requests : Writing(r)' =>
           \A rest : With(r, rest)' = With(r, rest)
    BY <1>3 DEF With
  <1> QED BY <1>1, <1>3, <1>4, <1>5 DEF FileKnown

LEMMA FileBegun ==
  ASSUME TypesInv, PlaceInv, FileInv, TypesInv', PlaceInv', NEW r \in Requests,
       NEW kind \in Writers,
         NEW a, NEW todo, NEW val, Begin(r, kind, a, todo, val),
              Stored(kind) \subseteq Left(todo)
  PROVE  FileInv'
  <1> SUFFICES ASSUME ~seen'.spoiled PROVE FileKnown'
    BY DEF FileInv
  <1>1. /\ ~seen.spoiled /\ seen'.want = seen.want /\ file' = file
        /\ \A o \in Requests : ~Writing(o)
    BY DEF Begin, TypesInv, Remarks
  <1>2. file = seen.want
    BY <1>1 DEF FileInv, FileKnown
  <1>3. /\ req'[r].at = "read" /\ req'[r].todo = todo /\ req'[r].kind = kind
        /\ \A o \in Requests : o # r => req'[o] = req[o]
    BY DEF Begin, TypesInv, Idle
  <1>4. \A o \in Requests : Writing(o)' => o = r
    BY <1>1, <1>3 DEF Writing
  <1>5. Writing(r)'
    BY <1>3 DEF Writing, Writers
  <1>6. With(r, Left(req[r].todo))' = file
    BY <1>1, <1>2, <1>3, SettingsFacts DEF With, TypesInv, Remarks
  <1> QED BY <1>1, <1>3, <1>4, <1>5, <1>6 DEF FileKnown

\* A step of the only request that writes.
LEMMA FileGoesOn ==
  ASSUME TypesInv, PlaceInv, FileInv, TypesInv', PlaceInv', NEW r \in Requests, Writing(r),
         Read(r) \/ Open(r) \/ Fill(r) \/ ResetStt(r) \/ Saved(r)
  PROVE  FileInv'
  <1>0. seen'.spoiled = seen.spoiled
    BY DEF Read, Open, Fill, ResetStt, Saved, TypesInv, Remarks
  <1> SUFFICES ASSUME ~seen.spoiled, FileKnown PROVE FileKnown'
    BY <1>0 DEF FileInv
  <1>1. /\ req[r] \in RequestRecords /\ Coherent(req[r]) /\ req[r].todo \in Todos
        /\ req[r].val \in Settings /\ seen.want \in Settings
        /\ \A o \in Requests : Writing(o) => o = r
    BY DEF TypesInv, RequestRecords, PlaceInv, FileKnown, Remarks
  <1>2. \A o \in Requests : o # r => req'[o] = req[o]
    BY DEF Read, Open, Fill, ResetStt, Saved, Goto, End, TypesInv
  <1>3. \A o \in Requests : Writing(o)' => o = r
    BY <1>1, <1>2 DEF Writing
  <1>4. CASE Saved(r)
    <2>1. req'[r] = Idle
      BY <1>4 DEF Saved, End, TypesInv
    <2>2. \A o \in Requests : ~Writing(o)'
      BY <1>3, <2>1 DEF Writing, Idle
    <2>3. file' = With(r, {})
      BY <1>4, TodoFacts DEF Saved, FileKnown
    <2>4. seen'.want = With(r, {})
      BY <1>1, <1>4 DEF Saved, With, Stored, Stores, Keys, TypesInv, Remarks
    <2> QED BY <2>2, <2>3, <2>4 DEF FileKnown
  <1>5. ASSUME Read(r) \/ Open(r) \/ Fill(r) \/ ResetStt(r)
        PROVE  /\ seen' = seen /\ req'[r].val = req[r].val /\ req'[r].kind = req[r].kind
               /\ \A rest : With(r, rest)' = With(r, rest)
    <2>1. seen' = seen /\ req'[r].val = req[r].val /\ req'[r].kind = req[r].kind
      BY <1>5 DEF Read, Open, Fill, ResetStt, Goto, TypesInv, RequestRecords
    <2> QED BY <2>1 DEF With
  <1>6. CASE Read(r)
    <2> DEFINE key == Head(req[r].todo)
    <2>1. file = With(r, Left(req[r].todo)) /\ file # Torn
      BY <1>6, WithTypes, SettingsFacts DEF Read, FileKnown
    <2>2. /\ req'[r].at = "open" /\ req'[r].todo = req[r].todo
          /\ req'[r].payload = Payload(r, key) /\ file' = file
      BY <1>6, <2>1 DEF Read, TypesInv, RequestRecords
    <2>3. key \in Stored(req[r].kind) /\ Left(Tail(req[r].todo)) = Left(req[r].todo) \ {key}
      BY <1>1, <1>6, TodoFacts DEF Read, Coherent, Stored
    <2>4. key \in Keys
      BY <2>3 DEF Stored, Stores, Keys
    <2>5. Payload(r, key) = With(r, Left(Tail(req[r].todo)))
      <3> HIDE DEF key
      <3> QED BY <2>1, <2>3, <2>4 DEF Payload, With
    <2> QED BY <1>3, <1>5, <1>6, <2>1, <2>2, <2>5 DEF FileKnown, Writing
  <1>7. CASE Open(r)
    <2>1. /\ req'[r].at = "fill" /\ req'[r].todo = req[r].todo
          /\ req'[r].payload = req[r].payload /\ file' = Torn
      BY <1>7 DEF Open, Goto, TypesInv, RequestRecords
    <2> QED BY <1>3, <1>5, <1>7, <2>1 DEF FileKnown, Writing, Open
  <1>8. CASE Fill(r)
    <2>1. /\ req'[r].at = "read" /\ req'[r].todo = Tail(req[r].todo) /\ file' = req[r].payload
      BY <1>8 DEF Fill, TypesInv, RequestRecords
    <2>2. req[r].payload = With(r, Left(Tail(req[r].todo)))
      BY <1>8 DEF FileKnown, Fill
    <2> QED BY <1>3, <1>5, <1>8, <2>1, <2>2 DEF FileKnown, Writing
  <1>9. CASE ResetStt(r)
    <2>1. /\ req'[r].at = "read" /\ req'[r].todo = Tail(req[r].todo) /\ file' = file
          /\ req[r].at = "read"
      BY <1>9 DEF ResetStt, TypesInv, RequestRecords
    <2>2. Left(Tail(req[r].todo)) = Left(req[r].todo) \ {"reset"}
      BY <1>1, <1>9, TodoFacts DEF ResetStt
    <2>3. With(r, Left(Tail(req[r].todo))) = With(r, Left(req[r].todo))
      BY <2>2 DEF With, Stored
    <2>4. file = With(r, Left(req[r].todo))
      BY <2>1 DEF FileKnown
    <2> QED BY <1>3, <1>5, <1>9, <2>1, <2>3, <2>4 DEF FileKnown, Writing
  <1> QED BY <1>4, <1>6, <1>7, <1>8, <1>9


LEMMA FileKept == TypesInv /\ PlaceInv /\ FileInv /\ [Next]_vars => FileInv'
  <1> SUFFICES ASSUME TypesInv, PlaceInv, FileInv, [Next]_vars PROVE FileInv'
    OBVIOUS
  <1>0. /\ TypesInv' /\ PlaceInv'
        /\ Idle.at = "idle"
        /\ \A r \in Requests :
             req[r].at \notin {"read", "open", "fill"} => ~Writing(r)
    BY TypesKept, PlaceKept, WhoWrites DEF Idle
  <1>1. ASSUME NEW r \in Requests, AskLauncher(r) \/ Build(r) PROVE FileInv'
    <2>1. file' = file /\ seen'.want = seen.want /\ seen'.spoiled = seen.spoiled
      BY <1>1 DEF AskLauncher, Build, TypesInv, Remarks
    <2>2. req[r].at = "idle" /\ \A o \in Requests : o # r => req'[o] = req[o]
      BY <1>1 DEF AskLauncher, Build, Ask, TypesInv
    <2>3. req'[r].at \in {"look", "stop", "install"}
      <3>1. CASE Build(r)
        <4>1. PICK a \in Agents :
                req' = [req EXCEPT ![r] = [Idle EXCEPT !.kind = "play", !.at = "install",
                   !.agent = a, !.val = [agents[a].set EXCEPT !["llm"] = 0]]]
          BY <3>1 DEF Build
        <4>2. PICK val : val = [agents[a].set EXCEPT !["llm"] = 0]
          OBVIOUS
        <4> QED BY <4>1, <4>2 DEF Idle, TypesInv
      <3>2. CASE AskLauncher(r)
        BY <3>2 DEF AskLauncher, Idle, TypesInv
      <3> QED BY <1>1, <3>1, <3>2
    <2> QED BY <1>0, <2>1, <2>2, <2>3, FileStays
  <1>2. ASSUME NEW r \in Requests, AskSave(r) \/ AskPull(r) \/ AskModel(r) \/ AskUpdate(r)
        PROVE  FileInv'
    <2>1. \E kind \in Writers : \E a, todo, val :
            Begin(r, kind, a, todo, val) /\ Stored(kind) \subseteq Left(todo)
      <3>1. CASE AskSave(r)
        BY <3>1, TodoFacts DEF AskSave, Writers, Stored, Stores, Keys
      <3>2. CASE AskPull(r)
        BY <3>2, TodoFacts DEF AskPull, Writers, Stored, Stores
      <3>3. CASE AskModel(r)
        BY <3>3, TodoFacts DEF AskModel, Writers, Stored, Stores
      <3>4. CASE AskUpdate(r)
        BY <3>4, TodoFacts DEF AskUpdate, Writers, Stored, Stores
      <3> QED BY <1>2, <3>1, <3>2, <3>3, <3>4
    <2> QED BY <1>0, <2>1, FileBegun
  <1>3. ASSUME NEW r \in Requests, Save(r) PROVE FileInv'
    <2>1. req[r].at \in {"read", "open", "fill"}
      BY <1>3 DEF Save, Read, Open, Fill, ResetStt, Saved
    <2> QED BY <1>0, <1>3, <2>1, WhoWrites, FileGoesOn DEF Save
  <1>4. ASSUME NEW r \in Requests, Install(r) PROVE FileInv'
    <2>1. /\ req[r].at = "install" /\ req'[r] = Idle /\ file' = file /\ seen' = seen
          /\ \A o \in Requests : o # r => req'[o] = req[o]
      BY <1>4 DEF Install, End, TypesInv
    <2> QED BY <1>0, <2>1, FileStays
  <1>5. ASSUME NEW r \in Requests, Supervise(r) PROVE FileInv'
    <2>1. req[r].at \in {"look", "again", "prepare", "spawn", "wait", "stop", "stopping",
         "stopped"}
          /\ file' = file
      BY <1>5 DEF Supervise, Look, Again, Prepare, Spawn, Wait, Stop, Stopping, Stopped,
           Quit
    <2>2. seen'.want = seen.want /\ (seen.spoiled => seen'.spoiled)
      BY <1>5 DEF Supervise, Look, Again, Prepare, Spawn, Wait, Stop, Stopping, Stopped,
           Quit,
         Spoils, TypesInv, Remarks
    <2>3. CASE Quit(r)
      <3>1. \A o \in Requests : \/ req'[o] = req[o]
                                \/ req'[o] = Idle /\ (Writing(o) => seen'.spoiled)
        BY <2>3 DEF Quit, Gone, Spoils, TypesInv, Remarks
      <3> QED BY <1>0, <2>1, <2>2, <3>1, FileStays
    <2>4. CASE Stopping(r)
      <3>1. \A o \in Requests : o # r =>
              \/ req'[o] = req[o]
              \/ req'[o] = Idle /\ (Writing(o) => seen'.spoiled)
        BY <2>4 DEF Stopping, Goto, End, Spoils, TypesInv, Remarks
      <3>2. req'[r].at \in {"idle", "stopped"}
        BY <1>0, <2>4 DEF Stopping, Goto, End, TypesInv, RequestRecords
      <3> QED BY <1>0, <2>1, <2>2, <3>1, <3>2, FileStays
    <2>5. CASE ~Quit(r) /\ ~Stopping(r)
      <3>1. \A o \in Requests : o # r => req'[o] = req[o]
        BY <1>5, <2>5 DEF Supervise, Look, Again, Prepare, Spawn, Wait, Stop, Stopped,
             Goto, End, TypesInv
      <3>2. req'[r].at \in {"idle", "again", "prepare", "spawn", "wait", "stop",
           "stopping", "stopped"}
        BY <1>0, <1>5, <2>5 DEF Supervise, Look, Again, Prepare, Spawn, Wait, Stop,
             Stopped, Goto, End,
           TypesInv, RequestRecords
      <3> QED BY <1>0, <2>1, <2>2, <3>1, <3>2, FileStays
    <2> QED BY <2>3, <2>4, <2>5
  <1>6. ASSUME NEW a \in Agents, Agent(a) \/ Crash(a) PROVE FileInv'
    <2>1. /\ file' = file /\ seen'.want = seen.want /\ (seen.spoiled => seen'.spoiled)
          /\ \A o \in Requests : \/ req'[o] = req[o]
                                 \/ req'[o] = Idle /\ (Writing(o) => seen'.spoiled)
      BY <1>6 DEF Agent, PickPort, Serve, Exit, Watch, Crash, Ends, Gone, Spoils,
           TypesInv, Remarks
    <2> QED BY <1>0, <2>1, FileStays
  <1>7. CASE Die
    <2>1. /\ file' = file /\ seen'.want = seen.want /\ (seen.spoiled => seen'.spoiled)
          /\ \A o \in Requests : \/ req'[o] = req[o]
                                 \/ req'[o] = Idle /\ (Writing(o) => seen'.spoiled)
      BY <1>7 DEF Die, Gone, Spoils, TypesInv, Remarks
    <2> QED BY <1>0, <2>1, FileStays
  <1>8. CASE Launch \/ UNCHANGED vars
    <2>1. file' = file /\ seen' = seen /\ req' = req
      BY <1>8 DEF Launch, vars
    <2> QED BY <1>0, <2>1, FileStays
  <1> QED BY <1>1, <1>2, <1>3, <1>4, <1>5, <1>6, <1>7, <1>8 DEF Next

-----------------------------------------------------------------------------
(* The recogniser. *)

\* One that is made of the agent's settings of now.
Fresh(a) == [agents[a].set EXCEPT !["llm"] = 0]

\* An agent holds none before it serves.  From then on, unless it was made while
\* settings were stored: it is not made while settings are stored, it is of the
\* settings of now, also one being made, and none is left after the reset.
BuiltOf(a) ==
  /\ agents[a].at \in {"none", "born", "bound"} => agents[a].built = <<>>
  /\ agents[a].at \in {"up", "term"} /\ ~agents[a].mixed =>
       /\ ~(Building(a) /\ Updating(a))
       /\ ~Updating(a) => agents[a].built \in {<<>>, <<Fresh(a)>>}
       /\ \A r \in Requests : req[r].agent = a =>
            /\ req[r].at = "install" => req[r].val = Fresh(a)
            /\ req[r].kind = "update" /\ "reset" \notin Left(req[r].todo) =>
                 agents[a].built = <<>>

BuiltInv == \A a \in Agents : BuiltOf(a)

LEMMA WhoUpdates ==
  ASSUME PlaceInv, NEW a
  PROVE  Updating(a) <=> \E r \in Requests : req[r].kind = "update" /\ req[r].agent = a
  BY DEF PlaceInv, Coherent, Updating, Writing, Writers

\* A step that leaves an agent's recogniser alone.
LEMMA BuiltStays ==
  ASSUME PlaceInv, PlaceInv', NEW a \in Agents, BuiltOf(a),
         agents'[a].built = agents[a].built, agents[a].mixed => agents'[a].mixed,
         Fresh(a)' = Fresh(a) \/ Updating(a),
         agents'[a].at \in {"none", "born", "bound"} => agents[a].at \in {"none", "born",
              "bound"},
         agents'[a].at \in {"up", "term"} => agents[a].at \in {"up", "term"},
         \A r \in Requests :
           \/ /\ req'[r].agent = req[r].agent /\ req'[r].kind = req[r].kind
              /\ req'[r].val = req[r].val
              /\ "reset" \in Left(req[r].todo) => "reset" \in Left(req'[r].todo)
           \/ req[r].kind \notin {"update", "play"} /\ req'[r].kind \notin {"update",
                "play"}
           \/ req[r].agent # a /\ req'[r].agent # a
  PROVE  BuiltOf(a)'
  <1>1. Updating(a)' <=> Updating(a)
    <2>1. Updating(a)' <=> \E r \in Requests : req'[r].kind = "update" /\ req'[r].agent = a
      BY DEF PlaceInv, Coherent, Updating, Writing, Writers
    <2> QED BY <2>1, WhoUpdates
  <1>2. \A r \in Requests : req'[r].at = "install" /\ req'[r].agent = a =>
          req[r].at = "install" /\ req[r].agent = a /\ req'[r].val = req[r].val
    BY DEF PlaceInv, Coherent
  <1>3. Building(a)' => Building(a)
    BY <1>2 DEF Building
  <1>4. \A r \in Requests :
          req'[r].kind = "update" /\ req'[r].agent = a /\ "reset" \notin Left(req'[r].todo) =>
            req[r].kind = "update" /\ req[r].agent = a /\ "reset" \notin Left(req[r].todo)
    OBVIOUS
  <1>5. CASE agents'[a].at \in {"up", "term"} /\ ~agents'[a].mixed
    <2>1. Building(a) => ~Updating(a)
      BY <1>5 DEF BuiltOf
    <2>2. \A r \in Requests : req'[r].at = "install" /\ req'[r].agent = a =>
             req'[r].val = Fresh(a)'
      BY <1>2, <1>5, <2>1 DEF BuiltOf, Building
    <2>3. ~Updating(a)' => agents'[a].built \in {<<>>, <<Fresh(a)>>}'
      BY <1>1, <1>5 DEF BuiltOf
    <2>4. \A r \in Requests :
            req'[r].kind = "update" /\ req'[r].agent = a /\ "reset" \notin Left(req'[r].todo) =>
              agents'[a].built = <<>>
      BY <1>4, <1>5 DEF BuiltOf
    <2> QED BY <1>1, <1>3, <1>5, <2>1, <2>2, <2>3, <2>4 DEF BuiltOf
  <1>6. CASE ~(agents'[a].at \in {"up", "term"} /\ ~agents'[a].mixed)
    BY <1>6 DEF BuiltOf
  <1> QED BY <1>5, <1>6

\* An agent that no request is made to has none.
LEMMA BuiltNone ==
  ASSUME NEW a \in Agents, agents'[a].built = <<>>, \A r \in Requests : req'[r].agent # a
  PROVE  BuiltOf(a)'
  BY DEF BuiltOf, Building, Updating

\* An agent that has ended.
LEMMA BuiltDead ==
  ASSUME NEW a \in Agents, agents'[a].at = "dead"
  PROVE  BuiltOf(a)'
  BY DEF BuiltOf


LEMMA BuiltAsks ==
  ASSUME TypesInv, PlaceInv, BuiltInv, TypesInv', PlaceInv', NEW r \in Requests,
       NEW a \in Agents,
         \/ AskLauncher(r) \/ AskSave(r) \/ AskPull(r)
         \/ AskModel(r) \/ AskUpdate(r) \/ Build(r)
  PROVE  BuiltOf(a)'
  <1>0. BuiltOf(a) /\ agents[a] \in AgentRecords
    BY DEF BuiltInv, TypesInv
  <1>1. ASSUME NEW kind, kind \notin {"update", "play"}, req'[r].kind = kind,
               \A o \in Requests : o # r => req'[o] = req[o],
               req[r].at = "idle", agents' = agents
        PROVE  BuiltOf(a)'
    <2>1. req[r].kind = "none"
      BY <1>1 DEF PlaceInv, Coherent
    <2> QED BY <1>0, <1>1, <2>1, BuiltStays DEF Fresh
  <1>2. CASE AskLauncher(r)
    <2>1. PICK kind \in {"start", "stop", "quit"}, at \in {"look", "stop"} :
            req' = [req EXCEPT ![r] = [Idle EXCEPT !.kind = kind, !.at = at]]
      BY <1>2 DEF AskLauncher
    <2>2. req'[r].kind = kind /\ \A o \in Requests : o # r => req'[o] = req[o]
      BY <2>1 DEF TypesInv, Idle
    <2> QED BY <1>1, <1>2, <2>2 DEF AskLauncher, Ask
  <1>3. ASSUME NEW kind, NEW b, NEW todo, NEW val, Begin(r, kind, b, todo, val)
        PROVE  /\ req[r].at = "idle" /\ req'[r].kind = kind /\ req'[r].agent = b
               /\ req'[r].todo = todo /\ req'[r].at = "read"
               /\ \A o \in Requests : o # r => req'[o] = req[o]
    BY <1>3 DEF Begin, Ask, TypesInv, Idle
  <1>4. CASE AskSave(r) \/ AskPull(r) \/ AskModel(r)
    <2>1. \E kind \in {"save", "pull", "model"} : \E b, todo, val : Begin(r, kind, b,
         todo, val)
      BY <1>4 DEF AskSave, AskPull, AskModel
    <2> QED BY <1>1, <1>3, <1>4, <2>1 DEF AskSave, AskPull, AskModel
  <1>5. CASE AskUpdate(r)
    <2>1. PICK b \in Agents, v \in Values :
            /\ agents[b].at = "up"
            /\ Begin(r, "update", b, <<"stt", "reset", "cred">>,
                     [Defaults EXCEPT !["stt"] = v, !["cred"] = v])
            /\ agents' = [agents EXCEPT ![b].mixed = @ \/ Building(b)]
      BY <1>5 DEF AskUpdate
    <2>2. /\ req[r].at = "idle" /\ req'[r].kind = "update" /\ req'[r].agent = b
          /\ "reset" \in Left(req'[r].todo) /\ req'[r].at = "read"
          /\ \A o \in Requests : o # r => req'[o] = req[o]
      BY <1>3, <2>1, TodoFacts
    <2>3. req[r].kind = "none" /\ req[r].agent = 0 /\ 0 \notin Agents
      BY <2>2, DesktopAssumption DEF PlaceInv, Coherent, Agents
    <2>4. CASE a # b
      <3>1. agents'[a] = agents[a]
        BY <2>1, <2>4 DEF TypesInv
      <3> QED BY <1>0, <2>2, <2>3, <2>4, <3>1, BuiltStays DEF Fresh
    <2>5. CASE a = b
      <3>1. PICK m \in BOOLEAN : m = (agents[b].mixed \/ Building(b))
        OBVIOUS
      <3>2. agents' = [agents EXCEPT ![b].mixed = m]
        BY <2>1, <3>1
      <3>3. agents'[b] = [agents[b] EXCEPT !.mixed = m]
        BY <3>2 DEF TypesInv
      <3>4. /\ agents'[b].at = "up" /\ agents'[b].built = agents[b].built
            /\ agents'[b].set = agents[b].set /\ agents'[b].mixed = m
        BY <1>0, <2>1, <2>5, <3>3 DEF AgentRecords
      <3>5. SUFFICES ASSUME ~m PROVE BuiltOf(b)'
        BY <2>5, <3>4 DEF BuiltOf
      <3>6. ~agents[b].mixed /\ ~Building(b)
        BY <3>1, <3>5
      <3>7. \A o \in Requests : ~(req'[o].at = "install" /\ req'[o].agent = b)
        BY <2>2, <3>6 DEF Building
      <3>8. Updating(b)'
        BY <2>2 DEF Updating, Writing
      <3>9. \A o \in Requests : req'[o].agent = b /\ req'[o].kind = "update"
              /\ "reset" \notin Left(req'[o].todo) => agents'[b].built = <<>>
        BY <1>0, <2>1, <2>2, <2>5, <3>4, <3>6 DEF BuiltOf
      <3> QED BY <3>4, <3>7, <3>8, <3>9 DEF BuiltOf, Building
    <2> QED BY <2>4, <2>5
  <1>6. CASE Build(r)
    <2>1. PICK b \in Agents :
            /\ agents[b].at = "up" /\ agents[b].built = <<>> /\ req[r].at = "idle"
            /\ req' = [req EXCEPT ![r] = [Idle EXCEPT !.kind = "play", !.at = "install",
                 !.agent = b, !.val = [agents[b].set EXCEPT !["llm"] = 0]]]
            /\ agents' = [agents EXCEPT ![b].mixed = @ \/ Updating(b)]
      BY <1>6 DEF Build, Ask
    <2>2. /\ req'[r].kind = "play" /\ req'[r].agent = b /\ req'[r].val = Fresh(b)
          /\ \A o \in Requests : o # r => req'[o] = req[o]
      BY <2>1 DEF TypesInv, Idle, Fresh
    <2>3. req[r].kind = "none" /\ req[r].agent = 0 /\ 0 \notin Agents
      BY <2>1, DesktopAssumption DEF PlaceInv, Coherent, Agents
    <2>4. CASE a # b
      <3>1. agents'[a] = agents[a]
        BY <2>1, <2>4 DEF TypesInv
      <3> QED BY <1>0, <2>2, <2>3, <2>4, <3>1, BuiltStays DEF Fresh
    <2>5. CASE a = b
      <3>1. PICK m \in BOOLEAN : m = (agents[b].mixed \/ Updating(b))
        OBVIOUS
      <3>2. agents' = [agents EXCEPT ![b].mixed = m]
        BY <2>1, <3>1
      <3>3. agents'[b] = [agents[b] EXCEPT !.mixed = m]
        BY <3>2 DEF TypesInv
      <3>4. /\ agents'[b].at = "up" /\ agents'[b].built = <<>>
            /\ agents'[b].set = agents[b].set /\ agents'[b].mixed = m
        BY <1>0, <2>1, <2>5, <3>3 DEF AgentRecords
      <3>5. SUFFICES ASSUME ~m PROVE BuiltOf(b)'
        BY <2>5, <3>4 DEF BuiltOf
      <3>6. ~agents[b].mixed /\ ~Updating(b)
        BY <3>1, <3>5
      <3>7. Updating(b)' => Updating(b)
        BY <2>2 DEF Updating, Writing
      <3>8. Fresh(b)' = Fresh(b)
        BY <3>4 DEF Fresh
      <3>9. \A o \in Requests : req'[o].agent = b /\ req'[o].at = "install" => req'[o].val = Fresh(b)
        BY <1>0, <2>1, <2>2, <2>5, <3>6 DEF BuiltOf
      <3> QED BY <3>4, <3>6, <3>7, <3>8, <3>9 DEF BuiltOf
    <2> QED BY <2>4, <2>5
  <1> QED BY <1>2, <1>4, <1>5, <1>6

LEMMA BuiltSaves ==
  ASSUME TypesInv, PlaceInv, BuiltInv, TypesInv', PlaceInv', NEW r \in Requests,
       NEW a \in Agents,
         Save(r) \/ Install(r)
  PROVE  BuiltOf(a)'
  <1>0. /\ BuiltOf(a) /\ agents[a] \in AgentRecords
        /\ req[r] \in RequestRecords /\ Coherent(req[r]) /\ req[r].todo \in Todos
        /\ req[r].agent \in {0} \cup Agents /\ req[r].val \in Settings
        /\ req[r].agent = a => agents[a].at \in {"up", "term"}
        /\ Idle.kind = "none" /\ Idle.agent = 0 /\ Idle.at = "idle" /\ a # 0
    BY DesktopAssumption DEF BuiltInv, TypesInv, RequestRecords, PlaceInv, Idle, Agents
  <1>1. \A o \in Requests : o # r => req'[o] = req[o]
    BY DEF Save, Read, Open, Fill, ResetStt, Saved, Install, Goto, End, TypesInv
  <1>2. CASE Read(r)
    <2> DEFINE key == Head(req[r].todo)
    <2>1. /\ req'[r].agent = req[r].agent /\ req'[r].kind = req[r].kind
          /\ req'[r].val = req[r].val /\ req'[r].todo \in {req[r].todo, Tail(req[r].todo)}
      BY <1>0, <1>2 DEF Read, TypesInv, RequestRecords
    <2>2. "reset" \in Left(req[r].todo) => "reset" \in Left(req'[r].todo)
      BY <1>0, <1>2, <2>1, TodoFacts DEF Read
    <2>3. CASE agents'[a] = agents[a]
      BY <1>0, <1>1, <2>1, <2>2, <2>3, BuiltStays DEF Fresh
    <2>4. CASE agents'[a] # agents[a]
      <3>1. /\ req[r].agent = a /\ req[r].at = "read" /\ req[r].todo # <<>> /\ key # "reset"
            /\ agents' = [agents EXCEPT ![a].set[key] = req[r].val[key]]
        BY <1>0, <1>2, <2>4 DEF Read, TypesInv
      <3> HIDE DEF key
      <3>2. PICK s : s = [agents[a].set EXCEPT ![key] = req[r].val[key]]
        OBVIOUS
      <3>3. agents'[a] = [agents[a] EXCEPT !.set = s]
        BY <3>1, <3>2 DEF TypesInv, AgentRecords
      <3>4. /\ agents'[a].at = agents[a].at /\ agents'[a].built = agents[a].built
            /\ agents'[a].mixed = agents[a].mixed /\ agents'[a].set = s
        BY <1>0, <3>3 DEF AgentRecords
      <3>5. req[r].kind \in {"update", "model"}
        BY <1>0, <3>1 DEF Coherent, Writers, OnLauncher
      <3>6. CASE req[r].kind = "update"
        <4>1. Updating(a)
          BY <3>1, <3>6, WhoUpdates
        <4> QED BY <1>0, <1>1, <2>1, <2>2, <3>4, <4>1, BuiltStays
      <3>7. CASE req[r].kind = "model"
        <4>1. key = "llm"
          BY <1>0, <3>1, <3>7, TodoFacts DEF Coherent, Stores, key
        <4>2. Fresh(a)' = Fresh(a)
          BY <1>0, <3>2, <3>4, <4>1, SettingsFacts DEF Fresh, AgentRecords
        <4> QED BY <1>0, <1>1, <2>1, <2>2, <3>4, <4>2, BuiltStays
      <3> QED BY <3>5, <3>6, <3>7
    <2> QED BY <2>3, <2>4
  <1>3. CASE Open(r) \/ Fill(r)
    <2>1. /\ req'[r].agent = req[r].agent /\ req'[r].kind = req[r].kind
          /\ req'[r].val = req[r].val /\ req'[r].todo \in {req[r].todo, Tail(req[r].todo)}
          /\ agents' = agents /\ req[r].at \in {"open", "fill"}
      BY <1>0, <1>3 DEF Open, Fill, Goto, TypesInv, RequestRecords
    <2>2. "reset" \in Left(req[r].todo) => "reset" \in Left(req'[r].todo)
      BY <1>0, <2>1, TodoFacts DEF Coherent
    <2> QED BY <1>0, <1>1, <2>1, <2>2, BuiltStays DEF Fresh
  <1>4. CASE ResetStt(r)
    <2>1. /\ agents' = [agents EXCEPT ![req[r].agent].built = <<>>]
          /\ req'[r].agent = req[r].agent /\ req'[r].kind = req[r].kind
          /\ req'[r].val = req[r].val /\ req'[r].at = req[r].at /\ req[r].at = "read"
      BY <1>0, <1>4 DEF ResetStt, Reset, TypesInv, RequestRecords
    <2>2. CASE req[r].agent # a
      <3>1. agents'[a] = agents[a]
        BY <2>1, <2>2 DEF TypesInv
      <3> QED BY <1>0, <1>1, <2>1, <2>2, <3>1, BuiltStays DEF Fresh
    <2>3. CASE req[r].agent = a
      <3>1. /\ agents'[a].at = agents[a].at /\ agents'[a].built = <<>>
            /\ agents'[a].mixed = agents[a].mixed /\ agents'[a].set = agents[a].set
        BY <1>0, <2>1, <2>3 DEF TypesInv, AgentRecords
      <3>2. Fresh(a)' = Fresh(a)
        BY <3>1 DEF Fresh
      <3>3. (Building(a)' <=> Building(a)) /\ (Updating(a)' <=> Updating(a))
        BY <1>1, <2>1 DEF Building, Updating, Writing
      <3>4. \A o \in Requests : req'[o].agent = a /\ req'[o].at = "install" =>
              req[o].agent = a /\ req[o].at = "install" /\ req'[o].val = req[o].val
        BY <1>1, <2>1
      <3> QED BY <1>0, <3>1, <3>2, <3>3, <3>4 DEF BuiltOf
    <2> QED BY <2>2, <2>3
  <1>5. CASE Saved(r)
    <2>1. /\ agents' = agents /\ req'[r] = Idle /\ req[r].at = "read" /\ req[r].todo = <<>>
      BY <1>5 DEF Saved, End, TypesInv
    <2>2. CASE req[r].agent # a \/ req[r].kind # "update"
      <3>1. req[r].kind # "play"
        BY <1>0, <2>1 DEF Coherent
      <3> QED BY <1>0, <1>1, <2>1, <2>2, <3>1, BuiltStays DEF Fresh
    <2>3. CASE req[r].agent = a /\ req[r].kind = "update"
      <3>1. Updating(a) /\ "reset" \notin Left(req[r].todo)
        BY <2>1, <2>3, WhoUpdates, TodoFacts
      <3>2. CASE agents[a].mixed
        BY <1>0, <2>1, <3>2 DEF BuiltOf
      <3>3. CASE ~agents[a].mixed
        <4>1. agents[a].built = <<>> /\ ~Building(a)
          BY <1>0, <2>3, <3>1, <3>3 DEF BuiltOf
        <4>2. \A o \in Requests : ~(req'[o].agent = a /\ req'[o].at = "install")
          BY <1>0, <1>1, <2>1, <4>1 DEF Building
        <4> QED BY <2>1, <4>1, <4>2 DEF BuiltOf, Building
      <3> QED BY <3>2, <3>3
    <2> QED BY <2>2, <2>3
  <1>6. CASE Install(r)
    <2>1. /\ agents' = [agents EXCEPT ![req[r].agent].built = <<req[r].val>>]
          /\ req'[r] = Idle /\ req[r].at = "install"
      BY <1>6 DEF Install, End, TypesInv
    <2>2. CASE req[r].agent # a
      <3>1. agents'[a] = agents[a]
        BY <2>1, <2>2 DEF TypesInv
      <3> QED BY <1>0, <1>1, <2>1, <2>2, <3>1, BuiltStays DEF Fresh
    <2>3. CASE req[r].agent = a
      <3>1. /\ agents'[a].at = agents[a].at /\ agents'[a].built = <<req[r].val>>
            /\ agents'[a].mixed = agents[a].mixed /\ agents'[a].set = agents[a].set
        BY <1>0, <2>1, <2>3 DEF TypesInv, AgentRecords
      <3>2. CASE agents[a].mixed
        BY <1>0, <2>3, <3>1, <3>2 DEF BuiltOf
      <3>3. CASE ~agents[a].mixed
        <4>0. req[r].agent = a /\ agents[a].at \in {"up", "term"}
          BY <1>0, <2>3
        <4>1. Building(a) /\ ~Updating(a) /\ req[r].val = Fresh(a)
          BY <1>0, <2>1, <2>3, <3>3 DEF BuiltOf, Building
        <4>5. agents'[a].at \notin {"none", "born", "bound"}
          BY <4>0, <3>1
        <4>2. ~Updating(a)' /\ Fresh(a)' = Fresh(a)
          BY <1>0, <1>1, <2>1, <3>1, <4>1 DEF Updating, Writing, Fresh
        <4>3. \A o \in Requests : req'[o].agent = a /\ req'[o].at = "install" =>
                req'[o].val = Fresh(a)
          <5>1. \A o \in Requests : req[o].agent = a /\ req[o].at = "install" =>
                  req[o].val = Fresh(a)
            BY <1>0, <3>3, <4>0 DEF BuiltOf
          <5> QED BY <1>0, <1>1, <2>1, <5>1
        <4>4. \A o \in Requests : ~(req'[o].agent = a /\ req'[o].kind = "update")
          BY <4>2 DEF PlaceInv, Coherent, Updating, Writing, Writers
        <4> QED BY <3>1, <4>1, <4>2, <4>3, <4>4, <4>5 DEF BuiltOf
      <3> QED BY <3>2, <3>3
    <2> QED BY <2>2, <2>3
  <1> QED BY <1>2, <1>3, <1>4, <1>5, <1>6 DEF Save


LEMMA BuiltSupervises ==
  ASSUME TypesInv, PlaceInv, BuiltInv, TypesInv', PlaceInv', NEW r \in Requests,
       NEW a \in Agents,
         Supervise(r)
  PROVE  BuiltOf(a)'
  <1>0. /\ BuiltOf(a) /\ agents[a] \in AgentRecords
        /\ req[r] \in RequestRecords /\ req[r].kind \in {"start", "stop", "quit"}
        /\ Idle.kind = "none" /\ Idle.agent = 0 /\ a # 0
    <2>1. req[r].at \in {"look", "again", "prepare", "spawn", "wait", "stop", "stopping",
         "stopped"}
      BY DEF Supervise, Look, Again, Prepare, Spawn, Wait, Stop, Stopping, Stopped, Quit
    <2>2. Supervising(r)
      BY <2>1, WhoSupervises
    <2> QED BY <2>2, DesktopAssumption DEF BuiltInv, TypesInv, Supervising, Idle, Agents
  <1>1. CASE Spawn(r)
    <2>1. PICK b \in Agents :
            /\ agents[b].at = "none"
            /\ agents' = [agents EXCEPT ![b] = [NoAgent EXCEPT !.at = "born",
                       !.port = launcher.url, !.parent = launcher.no, !.set = req[r].val]]
      BY <1>1 DEF Spawn
    <2>2. /\ req'[r].agent = req[r].agent /\ req'[r].kind = req[r].kind
          /\ \A o \in Requests : o # r => req'[o] = req[o]
      BY <1>0, <1>1 DEF Spawn, TypesInv, RequestRecords
    <2>3. CASE a = b
      <3>1. agents'[a].built = <<>> /\ agents'[a].at = "born"
        BY <2>1, <2>3 DEF TypesInv, NoAgent
      <3>2. \A o \in Requests : req'[o].agent # a
        BY <1>0, <3>1 DEF PlaceInv
      <3> QED BY <3>1, <3>2, BuiltNone
    <2>4. CASE a # b
      <3>1. agents'[a] = agents[a]
        BY <2>1, <2>4 DEF TypesInv
      <3> QED BY <1>0, <2>2, <3>1, BuiltStays DEF Fresh
    <2> QED BY <2>3, <2>4
  <1>2. CASE ~Spawn(r)
    <2>1. \/ agents'[a] = agents[a]
          \/ agents'[a].at = "dead"
          \/ /\ agents[a].at \in {"born", "bound", "up", "term"}
             /\ agents'[a] = [agents[a] EXCEPT !.at = "term"]
      BY <1>2 DEF Supervise, Look, Again, Prepare, Wait, Stop, Stopping, Stopped, Quit,
           Alive,
         TypesInv, AgentRecords
    <2>2. \A o \in Requests :
            \/ req'[o] = req[o]
            \/ /\ req[o].kind \notin {"update", "play"} /\ req'[o].kind \notin {"update",
                 "play"}
               /\ req'[o].agent = 0
            \/ req[o].agent = launcher.proc /\ req'[o] = Idle /\ agents'[launcher.proc].at = "dead"
      <3>1. CASE Stopping(r)
        <4>1. \A o \in Requests : o # r =>
                \/ req'[o] = req[o]
                \/ req[o].agent = launcher.proc /\ req'[o] = Idle /\ agents'[launcher.proc].at = "dead"
          BY <3>1 DEF Stopping, Goto, End, Alive, TypesInv, AgentRecords, Launchers
        <4>2. req'[r].kind \in {"none", "start", "stop", "quit"}
          BY <1>0, <3>1 DEF Stopping, Goto, End, TypesInv, RequestRecords
        <4>3. req'[r].agent = 0
          BY <4>2 DEF PlaceInv, Coherent, OnLauncher
        <4> QED BY <1>0, <4>1, <4>2, <4>3
      <3>2. CASE Quit(r)
        BY <1>0, <3>2 DEF Quit, Gone, OfLauncher, OnLauncher
      <3>3. CASE ~Stopping(r) /\ ~Quit(r)
        <4>1. \A o \in Requests : o # r => req'[o] = req[o]
          BY <1>2, <3>3 DEF Supervise, Look, Again, Prepare, Wait, Stop, Stopped, Goto,
               End, TypesInv
        <4>2. req'[r].kind \in {"none", "start", "stop", "quit"}
          BY <1>0, <1>2, <3>3 DEF Supervise, Look, Again, Prepare, Wait, Stop, Stopped,
               Goto, End,
             TypesInv, RequestRecords
        <4>3. req'[r].agent = 0
          BY <4>2 DEF PlaceInv, Coherent, OnLauncher
        <4> QED BY <1>0, <4>1, <4>2, <4>3
      <3> QED BY <3>1, <3>2, <3>3
    <2>3. CASE agents'[a].at = "dead"
      BY <2>3, BuiltDead
    <2>4. CASE agents'[a].at # "dead"
      <3>1. \A o \in Requests :
              \/ req'[o] = req[o]
              \/ req[o].kind \notin {"update", "play"} /\ req'[o].kind \notin {"update",
                   "play"}
              \/ req[o].agent # a /\ req'[o].agent # a
        BY <1>0, <2>2, <2>4
      <3>2. CASE agents'[a] = agents[a]
        BY <1>0, <3>1, <3>2, BuiltStays DEF Fresh
      <3>3. CASE /\ agents[a].at \in {"born", "bound", "up", "term"}
                 /\ agents'[a] = [agents[a] EXCEPT !.at = "term"]
        <4>1. /\ agents'[a].at = "term" /\ agents'[a].built = agents[a].built
              /\ agents'[a].mixed = agents[a].mixed /\ agents'[a].set = agents[a].set
          BY <1>0, <3>3 DEF AgentRecords
        <4>2. CASE agents[a].at \in {"born", "bound"}
          <5>1. agents'[a].built = <<>>
            BY <1>0, <4>1, <4>2 DEF BuiltOf
          <5>2. \A o \in Requests : req'[o].agent # a
            <6>1. \A o \in Requests : req[o].agent # a
              BY <1>0, <4>2 DEF PlaceInv
            <6>2. \A o \in Requests : req'[o].agent \in {0, req[o].agent}
              BY <1>0, <2>2
            <6> QED BY <1>0, <6>1, <6>2
          <5> QED BY <5>1, <5>2, BuiltNone
        <4>3. CASE agents[a].at \in {"up", "term"}
          BY <1>0, <3>1, <4>1, <4>3, BuiltStays DEF Fresh
        <4> QED BY <3>3, <4>2, <4>3
      <3> QED BY <2>1, <2>4, <3>2, <3>3
    <2> QED BY <2>3, <2>4
  <1> QED BY <1>1, <1>2

LEMMA BuiltKept == TypesInv /\ PlaceInv /\ BuiltInv /\ [Next]_vars => BuiltInv'
  <1> SUFFICES ASSUME TypesInv, PlaceInv, BuiltInv, [Next]_vars,
       NEW a \in Agents PROVE BuiltOf(a)'
    BY DEF BuiltInv
  <1>0. /\ TypesInv' /\ PlaceInv' /\ BuiltOf(a) /\ agents[a] \in AgentRecords
        /\ Idle.kind = "none" /\ Idle.agent = 0 /\ a # 0
    BY TypesKept, PlaceKept, DesktopAssumption DEF BuiltInv, TypesInv, Idle, Agents
  <1>1. ASSUME NEW b \in Agents, Ends(b) PROVE BuiltOf(a)'
    <2>1. CASE a = b
      <3>1. agents'[a].at = "dead"
        BY <1>1, <2>1 DEF Ends, TypesInv, AgentRecords
      <3> QED BY <3>1, BuiltDead
    <2>2. CASE a # b
      <3>1. /\ agents'[a] = agents[a]
            /\ \A o \in Requests : req'[o] = req[o] \/ (req[o].agent = b /\ req'[o] = Idle)
        BY <1>1, <2>2 DEF Ends, Gone, TypesInv
      <3> QED BY <1>0, <2>2, <3>1, BuiltStays DEF Fresh
    <2> QED BY <2>1, <2>2
  <1>2. ASSUME NEW b \in Agents, Agent(b) \/ Crash(b) PROVE BuiltOf(a)'
    <2>1. CASE ~Ends(b)
      <3>1. /\ req' = req /\ agents[b].at \in {"born", "bound"}
            /\ \A c \in Agents : c # b => agents'[c] = agents[c]
            /\ agents'[b].built = agents[b].built
        BY <1>2, <2>1, ZenonT(60) DEF Agent, PickPort, Serve, Exit, Watch, Crash,
            TypesInv, AgentRecords
      <3>2. CASE a = b
        <4>1. agents'[a].built = <<>>
          BY <1>0, <3>1, <3>2 DEF BuiltOf
        <4>2. \A o \in Requests : req'[o].agent # a
          BY <1>0, <3>1, <3>2 DEF PlaceInv
        <4> QED BY <4>1, <4>2, BuiltNone
      <3>3. CASE a # b
        BY <1>0, <3>1, <3>3, BuiltStays DEF Fresh
      <3> QED BY <3>2, <3>3
    <2> QED BY <1>1, <2>1
  <1>3. CASE Die
    <2>1. /\ agents' = agents
          /\ \A o \in Requests :
               \/ req'[o] = req[o]
               \/ req[o].kind \notin {"update", "play"} /\ req'[o].kind \notin {"update",
                    "play"}
      BY <1>0, <1>3 DEF Die, Gone, OfLauncher, OnLauncher
    <2> QED BY <1>0, <2>1, BuiltStays DEF Fresh
  <1>4. CASE Launch \/ UNCHANGED vars
    <2>1. agents' = agents /\ req' = req
      BY <1>4 DEF Launch, vars
    <2> QED BY <1>0, <2>1, BuiltStays DEF Fresh
  <1> QED BY <1>0, <1>2, <1>3, <1>4, BuiltAsks, BuiltSaves, BuiltSupervises DEF Next


-----------------------------------------------------------------------------

DesktopInv == TypesInv /\ PlaceInv /\ OneInv /\ FileInv /\ BuiltInv

LEMMA DesktopInit == Init => DesktopInv
  <1> SUFFICES ASSUME Init PROVE DesktopInv
    OBVIOUS
  <1>1. TypesInv
    BY TypesInit
  <1>2. /\ \A r \in Requests : req[r] = Idle
        /\ \A a \in Agents : agents[a] = NoAgent
        /\ launcher.alive /\ launcher.proc = 0 /\ launcher.no = 1
        /\ file = Defaults /\ seen.want = Defaults
    BY DEF Init
  <1>3. /\ Idle.at = "idle" /\ Idle.agent = 0 /\ Idle.kind = "none"
        /\ NoAgent.at = "none" /\ NoAgent.parent = 0 /\ NoAgent.built = <<>>
    BY DEF Idle, NoAgent
  <1>4. PlaceInv
    BY <1>2, <1>3, IdleCoherent DEF PlaceInv, OnLauncher
  <1>5. OneInv
    BY <1>2, <1>3 DEF OneInv, OneKnown, Runs, Supervising
  <1>6. FileInv
    BY <1>2, <1>3 DEF FileInv, FileKnown, Writing
  <1>7. BuiltInv
    BY <1>2, <1>3 DEF BuiltInv, BuiltOf
  <1> QED BY <1>1, <1>4, <1>5, <1>6, <1>7 DEF DesktopInv

LEMMA DesktopHolds == Spec => []DesktopInv
  <1>1. DesktopInv /\ [Next]_vars => DesktopInv'
    BY TypesKept, PlaceKept, OneKept, FileKept, BuiltKept DEF DesktopInv
  <1> QED BY <1>1, DesktopInit, PTL DEF Spec

\* Of the agents a launcher has started at most one runs, the one it knows, after
\* any timeouts, crashes and restarts, while no two requests to start or stop it
\* overlapped (_start_app, _stop_app).
THEOREM OneAgentRuns == Spec => []OneAgentUnlessOverlap
  <1>1. DesktopInv => OneAgentUnlessOverlap
    BY DEF DesktopInv, OneInv, OneKnown, Runs, OneAgentUnlessOverlap
  <1> QED BY <1>1, DesktopHolds, PTL

\* The file holds every setting as it was saved last, by the launcher or by an agent,
\* unless two saved at once or one ended in the middle (set_override).
THEOREM SettingsAreKept == Spec => []SavedIsKept
  <1>1. DesktopInv => SavedIsKept
    BY DEF DesktopInv, FileInv, FileKnown, SavedIsKept
  <1> QED BY <1>1, DesktopHolds, PTL

\* What is transcribed after settings have been stored is transcribed with a
\* recogniser made of them, unless one was being made meanwhile
\* (reset_stt_provider_runtime, _get_stt_provider).
THEOREM NewSettingsReach == Spec => []NewSettingsAreUsed
  <1>1. DesktopInv => NewSettingsAreUsed
    BY DEF DesktopInv, BuiltInv, BuiltOf, Fresh, NewSettingsAreUsed
  <1> QED BY <1>1, DesktopHolds, PTL
==============================================================================
