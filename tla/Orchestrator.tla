---------------------------- MODULE Orchestrator ----------------------------
(***************************************************************************)
(* OrchestratorHandler: one job is one turn. The job fetches its tools,    *)
(* builds the sub-agents, checks the model's vision, and runs a graph of a *)
(* router and the agent it picks, which streams an answer (SubAgent and    *)
(* GemSubAgent), loops over tool calls (ToolEnabledSubAgent) or over code  *)
(* it runs (CodeActSubAgent). The result is saved, and the clients of the  *)
(* agents are closed whatever happened. Jobs of one thread share the       *)
(* folder their scripts write to.                                          *)
(*                                                                         *)
(* An exception of any kind takes the job to "fail"; a cancellation (the   *)
(* job's time is over, the worker stops) only runs the finally blocks. The *)
(* tokens that the calls of the router and of the looping agents send on   *)
(* are not kept, nor are prompts, checkpoints and spans.                   *)
(***************************************************************************)
EXTENDS Outputs, CopilotClient, FiniteSets

CONSTANTS
  Folder, React, CodeAct,  \* agents of AGENT_DIR, by the kind they declare
  Gems,                    \* gems of the users
  RecursionLimit,          \* recursion_limit of the tool agents
  MaxIterations            \* max_iterations of the code agents

Agents == Folder \cup React \cup CodeAct
None == "none"

ASSUME OrchestratorAssumption ==
  /\ RecursionLimit \in Nat \ {0}
  /\ MaxIterations \in Nat \ {0}
  /\ None \notin Agents \cup Gems
  /\ React \cap CodeAct = {}

VARIABLES
  pc,         \* where the handler of a job is
  turn,       \* what the handler and the agent's run keep
  stream,     \* the stream of a SubAgent's answer
  client,     \* the clients of the job's ChatCopilot objects
  toolEvent,  \* jobs with a tool event in Redis
  saved,      \* the result in Redis
  torn        \* history: jobs cancelled inside a close

turnVars == <<pc, turn, stream, client, toolEvent, saved, torn>>
vars == <<turnVars, outputVars>>

Results == {"answer", "error"}  \* whatever the graph returned is an answer
\* The agent's own object and the one bind_tools makes of it are two.
Llms == {"vision", "router", "agent", "bound"}
Working == {"react", "other", "python", "exec", "codeact", "summary"}
Turns == [
  tools : {None, "startup", "own"},     \* which MCP tools the job has
  registry : SUBSET (Agents \cup Gems), \* its agents; once one is chosen, the others hold nothing
  agent : Agents \cup Gems \cup {None},
  python : BOOLEAN,                     \* whether execute_python is among the agent's tools
  steps : Nat]                          \* super-steps of the mini graph, or iterations
NoTurn == [tools |-> None, registry |-> {}, agent |-> None, python |-> FALSE, steps |-> 0]
Stages == Working \cup {"idle", "tools", "agents", "vision", "viewed", "route", "run", "stream",
                        "save", "fail", "close", "ended"}

TypeOK ==
  /\ OutputsTypeOK
  /\ pc \in [Jobs -> Stages]
  /\ turn \in [Jobs -> Turns]
  /\ \A j \in Jobs :
       turn[j].steps < (IF turn[j].agent \in CodeAct THEN MaxIterations ELSE RecursionLimit)
  /\ stream \in [Jobs -> Streams]
  /\ client \in [Jobs -> [Llms -> ClientStates]]
  /\ toolEvent \in SUBSET {j \in Jobs : pc[j] \in Working}
  /\ saved \in [Jobs -> Results \cup {None}]
  /\ torn \in SUBSET Jobs

Init ==
  /\ OutputsInit
  /\ pc = [j \in Jobs |-> "idle"]
  /\ turn = [j \in Jobs |-> NoTurn]
  /\ stream = [j \in Jobs |-> NoStream]
  /\ client = [j \in Jobs |-> [l \in Llms |-> "none"]]
  /\ toolEvent = {}
  /\ saved = [j \in Jobs |-> None]
  /\ torn = {}

-----------------------------------------------------------------------------
Goes(j, stage) == pc' = [pc EXCEPT ![j] = stage]
Becomes(j, l, c) == client' = [client EXCEPT ![j][l] = c]

\* Mutant: the tool event is cleared behind the graph, not in a finally.
LeaveMutant(j, stage) ==
  /\ Goes(j, stage)
  /\ turn' = [turn EXCEPT ![j] = NoTurn]
  /\ toolEvent' = IF stage = "save" THEN toolEvent \ {j} ELSE toolEvent

\* Control leaves the graph, whose finally clears the tool event. What the turn kept is
\* not read any more.
Leave(j, stage) ==
  /\ Goes(j, stage)
  /\ turn' = [turn EXCEPT ![j] = NoTurn]
  /\ toolEvent' = toolEvent \ {j}

-----------------------------------------------------------------------------
(* The handler up to the graph *)

Begin(j) ==
  /\ pc[j] = "idle"
  /\ Goes(j, "tools")
  /\ UNCHANGED <<turn, stream, client, toolEvent, saved, torn, outputVars>>

\* What the worker's start-up found: nothing when the MCP server was not there.
StartupTools == {None, "startup"}

\* The tools of an own MCP client, or those of the start-up when that fails; then the
\* agents, of which any may fail to load.
GetTools(j) ==
  /\ pc[j] = "tools"
  /\ Goes(j, "agents")
  /\ \E t \in StartupTools \cup {"own"}, loaded \in SUBSET Agents :
       turn' = [turn EXCEPT ![j].tools = t, ![j].registry = loaded]
  /\ UNCHANGED <<stream, client, toolEvent, saved, torn, outputVars>>

\* No filter keeps all; a gem that was found is an agent, and part of the filter.
Filtered(loaded, gems, asked) ==
  IF asked \cup gems = {} THEN loaded ELSE (loaded \cup gems) \cap (asked \cup gems)

\* asked comes from the request, or from APP.md when the request names no agent.
SelectAgents(j) ==
  /\ pc[j] = "agents"
  /\ turn[j].registry # {}
  /\ \E gems \in SUBSET Gems, asked \in SUBSET Agents :
       LET chosen == Filtered(turn[j].registry, gems, asked) IN
       /\ chosen # {}
       /\ turn' = [turn EXCEPT ![j].registry = chosen]
  /\ Goes(j, "vision")
  /\ UNCHANGED <<stream, client, toolEvent, saved, torn, outputVars>>

\* _prepare_new_attachments asks for the model's vision only when there are attachments.
CheckVision(j) ==
  /\ pc[j] = "vision"
  /\ Goes(j, "viewed")
  /\ \/ UNCHANGED client
     \/ \E e \in ListModels(client[j]["vision"]) : Becomes(j, "vision", e.client)
  /\ UNCHANGED <<turn, stream, toolEvent, saved, torn, outputVars>>

CloseVision(j) ==
  /\ pc[j] = "viewed"
  /\ Goes(j, "route")
  /\ Becomes(j, "vision", Close(client[j]["vision"]))
  /\ UNCHANGED <<turn, stream, toolEvent, saved, torn, outputVars>>

-----------------------------------------------------------------------------
(* The router *)

\* The registry makes a plain SubAgent of an agent that declares no tool, or none of those
\* there are.
FirstStages(j, a) ==
  {"run"} \cup
  (IF turn[j].tools = None THEN {}
   ELSE (IF a \in React THEN {"react"} ELSE {}) \cup (IF a \in CodeAct THEN {"codeact"} ELSE {}))

\* The agent has its tools from the registry; a SubAgent uses none.
Start(j, a) ==
  \E stage \in FirstStages(j, a) :
    /\ Goes(j, stage)
    /\ \E python \in BOOLEAN :
         /\ python => stage # "run"
         /\ turn' = [turn EXCEPT ![j] =
              [tools |-> IF stage = "run" THEN None ELSE @.tools, registry |-> {a}, agent |-> a,
               python |-> python, steps |-> 0]]
    /\ UNCHANGED toolEvent

\* Exactly one agent has a keyword of the input, or there is one agent only.
RouteAlone(j) ==
  /\ pc[j] = "route"
  /\ \E a \in turn[j].registry : Start(j, a)
  /\ UNCHANGED <<stream, client, saved, torn, outputVars>>

\* The router's model names an agent, or anything else, which means the fallback.
RouteByModel(j) ==
  /\ pc[j] = "route"
  /\ Cardinality(turn[j].registry) > 1
  /\ \E e \in Generate(client[j]["router"]) :
       /\ Becomes(j, "router", e.client)
       /\ \/ e.ok /\ \E a \in turn[j].registry : Start(j, a)
          \/ e.ok /\ Leave(j, "save")
          \/ ~e.ok /\ Leave(j, "fail")
  /\ UNCHANGED <<stream, saved, torn, outputVars>>

-----------------------------------------------------------------------------
(* SubAgent.run *)

OpenStream(j) ==
  /\ pc[j] = "run"
  /\ \E e \in Generate(client[j]["agent"]) :
       /\ Becomes(j, "agent", e.client)
       /\ IF e.ok THEN Goes(j, "stream") /\ UNCHANGED <<turn, toolEvent>> ELSE Leave(j, "fail")
  /\ UNCHANGED <<stream, saved, torn, outputVars>>

SdkReports(j) ==
  /\ pc[j] = "stream"
  /\ ~stream[j].idle
  /\ \/ stream[j].deltas < MaxDeltas /\ stream' = [stream EXCEPT ![j] = OnDelta(@)]
     \/ ~stream[j].whole /\ stream' = [stream EXCEPT ![j] = OnMessage(@)]
     \/ stream' = [stream EXCEPT ![j] = OnIdle(@)]
  /\ UNCHANGED <<pc, turn, client, toolEvent, saved, torn, outputVars>>

\* A chunk goes to the notifier.
SendToken(j) ==
  /\ pc[j] = "stream"
  /\ stream[j].queue \notin {<<>>, <<End>>}
  /\ stream' = [stream EXCEPT ![j] = Yield(@)]
  /\ UNCHANGED <<pc, turn, client, toolEvent, saved, torn, outputVars>>

EndStream(j) ==
  /\ pc[j] = "stream"
  /\ stream[j].queue = <<End>>
  /\ Leave(j, "save")
  /\ UNCHANGED <<stream, client, saved, torn, outputVars>>

\* No chunk for 120 s, or the session cannot be disconnected.
BreakStream(j) ==
  /\ pc[j] = "stream"
  /\ stream[j].queue \in {<<>>, <<End>>}
  /\ Becomes(j, "agent", "none")
  /\ Leave(j, "fail")
  /\ UNCHANGED <<stream, saved, torn, outputVars>>

-----------------------------------------------------------------------------
(* ToolEnabledSubAgent.run *)

\* agent_node: the tool of the first answer, else execute_python for the code in it, else
\* what a second answer that is asked for code says; "none" when the answer is final. Code
\* counts only while the messages hold neither an answer nor a tool call.
AgentNode(first, second, offered, fresh) ==
  LET call == ParseToolCall(first, offered)
      again == ParseToolCall(second, offered)
  IN CASE call # {"none"} -> call
       [] call = {"none"} /\ ~(offered /\ fresh) -> {"none"}
       [] OTHER -> IF HasCode(first) THEN {"python"}
                   ELSE IF again # {"none"} THEN again
                   ELSE IF HasCode(second) THEN {"python"} ELSE {"none"}

\* The context of the job may hold earlier answers.
AgentCalls(j) ==
  UNION {AgentNode(first, second, turn[j].python, fresh) :
           first \in Answers, second \in Answers, fresh \in {FALSE, turn[j].steps = 0}}

\* Mutant: the super-steps are not counted.
NextStepMutant(j, stage) ==
  /\ Goes(j, stage)
  /\ toolEvent' = IF stage = "react" THEN toolEvent ELSE toolEvent \cup {j}
  /\ UNCHANGED turn

\* One super-step is over and the graph goes to another node, with a tool event before a
\* tool. At the limit the last answer of the initial messages is returned, or a fixed text.
NextStep(j, stage) ==
  IF turn[j].steps + 1 < RecursionLimit
    THEN /\ Goes(j, stage)
         /\ turn' = [turn EXCEPT ![j].steps = @ + 1]
         /\ toolEvent' = IF stage = "react" THEN toolEvent ELSE toolEvent \cup {j}
    ELSE Leave(j, "save")

ReactAgent(j) ==
  /\ pc[j] = "react"
  /\ \E e \in Generate(client[j]["bound"]) :
       /\ Becomes(j, "bound", e.client)
       /\ \/ ~e.ok /\ Leave(j, "fail")
          \/ e.ok /\ \E call \in AgentCalls(j) \ {"none"} : NextStep(j, call)
          \/ e.ok /\ "none" \in AgentCalls(j) /\ Leave(j, "save")
  /\ UNCHANGED <<stream, saved, torn, outputVars>>

\* A tool other than execute_python, or a name no tool has, which is answered too.
OtherTool(j) ==
  /\ pc[j] = "other"
  /\ NextStep(j, "react")
  /\ UNCHANGED <<stream, client, saved, torn, outputVars>>

-----------------------------------------------------------------------------
(* CodeActSubAgent.run *)

\* An answer without code: the first one is asked again, a later one is the result.
NoCode(j) ==
  IF turn[j].steps = 0 /\ MaxIterations > 1
    THEN turn' = [turn EXCEPT ![j].steps = 1] /\ UNCHANGED <<pc, toolEvent>>
    ELSE Leave(j, "save")

CodeActCall(j) ==
  /\ pc[j] = "codeact"
  /\ \E e \in Generate(client[j]["agent"]), code \in {HasCode(answer) : answer \in Answers} :
       /\ Becomes(j, "agent", e.client)
       /\ CASE ~e.ok -> Leave(j, "fail")
            [] e.ok /\ ~turn[j].python -> Leave(j, "save")
            [] e.ok /\ turn[j].python /\ ~code -> NoCode(j)
            [] e.ok /\ turn[j].python /\ code ->
                 Goes(j, "python") /\ toolEvent' = toolEvent \cup {j} /\ UNCHANGED turn
  /\ UNCHANGED <<stream, saved, torn, outputVars>>

Summarize(j) ==
  /\ pc[j] = "summary"
  /\ \E e \in Generate(client[j]["agent"]) :
       /\ Becomes(j, "agent", e.client)
       /\ IF e.ok THEN Leave(j, "save") ELSE Leave(j, "fail")
  /\ UNCHANGED <<stream, saved, torn, outputVars>>

-----------------------------------------------------------------------------
(* execute_python, called by either agent *)

\* Without the headers of an own MCP client the script runs in /tmp and reports nothing.
InFolder(j) == turn[j].tools = "own"

BeginScript(j) ==
  /\ pc[j] = "python"
  /\ Goes(j, "exec")
  /\ IF InFolder(j) THEN BeginCall(j) ELSE UNCHANGED outputVars
  /\ UNCHANGED <<turn, stream, client, toolEvent, saved, torn>>

\* A code agent has a failed script corrected while it has an iteration left.
AfterScript(j, ok) ==
  IF turn[j].agent \in React THEN NextStep(j, "react")
  ELSE /\ IF ~ok /\ turn[j].steps < MaxIterations - 1
            THEN Goes(j, "codeact") /\ turn' = [turn EXCEPT ![j].steps = @ + 1]
            ELSE Goes(j, "summary") /\ UNCHANGED turn
       /\ UNCHANGED toolEvent

EndScript(j) ==
  /\ pc[j] = "exec"
  /\ IF InFolder(j) THEN EndCall(j) ELSE UNCHANGED outputVars
  /\ \E ok \in BOOLEAN : AfterScript(j, ok)
  /\ UNCHANGED <<stream, client, saved, torn>>

\* The connection to the MCP server breaks: a code agent takes it for a failed script, and
\* a tool node raises it.
BreakScript(j) ==
  /\ pc[j] = "exec"
  /\ IF InFolder(j) THEN LoseCall(j) ELSE UNCHANGED outputVars
  /\ IF turn[j].agent \in React THEN Leave(j, "fail") ELSE AfterScript(j, FALSE)
  /\ UNCHANGED <<stream, client, saved, torn>>

\* The call of a cancelled job goes on in the MCP server, or is dropped there.
EndOrphan(j) ==
  /\ pc[j] # "exec"
  /\ EndCall(j) \/ LoseCall(j)
  /\ UNCHANGED turnVars

-----------------------------------------------------------------------------
(* The handler after the graph *)

\* An exception of the database, of Redis, of the checkpointer or of a tool; or no agent is
\* left after loading or filtering.
Raise(j) ==
  /\ pc[j] \in {"agents", "viewed", "route", "stream", "react", "other", "codeact", "summary"}
  /\ Leave(j, "fail")
  /\ IF pc[j] = "viewed" THEN Becomes(j, "vision", Close(client[j]["vision"])) ELSE UNCHANGED client
  /\ UNCHANGED <<stream, saved, torn, outputVars>>

\* The result is saved and announced; an exception of either goes to "fail".
Save(j) ==
  /\ pc[j] = "save"
  /\ stream' = [stream EXCEPT ![j] = NoStream]
  /\ \/ saved' = [saved EXCEPT ![j] = "answer"] /\ \E to \in {"close", "fail"} : Goes(j, to)
     \/ UNCHANGED saved /\ Goes(j, "fail")
  /\ UNCHANGED <<turn, client, toolEvent, torn, outputVars>>

\* "Error: ...", which may fail as well.
SaveError(j) ==
  /\ pc[j] = "fail"
  /\ Goes(j, "close")
  /\ stream' = [stream EXCEPT ![j] = NoStream]
  /\ saved' \in {saved, [saved EXCEPT ![j] = "error"]}
  /\ UNCHANGED <<turn, client, toolEvent, torn, outputVars>>

\* Mutant: the agents are closed behind a saved answer only.
CloseAgentsMutant(j) ==
  /\ pc[j] = "close"
  /\ Goes(j, "ended")
  /\ IF saved[j] = "answer" THEN Becomes(j, "agent", Close(client[j]["agent"])) ELSE UNCHANGED client
  /\ UNCHANGED <<turn, stream, toolEvent, saved, torn, outputVars>>

\* The finally: registry.close closes the object of every agent, not the one with tools.
CloseAgents(j) ==
  /\ pc[j] = "close"
  /\ Goes(j, "ended")
  /\ Becomes(j, "agent", Close(client[j]["agent"]))
  /\ UNCHANGED <<turn, stream, toolEvent, saved, torn, outputVars>>

\* Cancelled while the tools are fetched: there is nothing to clean up yet.
CutEarly(j) ==
  /\ pc[j] = "tools"
  /\ Goes(j, "ended")
  /\ UNCHANGED <<turn, stream, client, toolEvent, saved, torn, outputVars>>

\* The object whose call a cancellation meets.
InUse(j) ==
  CASE pc[j] = "route" -> "router"
    [] pc[j] = "react" -> "bound"
    [] OTHER -> "agent"

\* Cancelled in the middle of the turn, in a call of a model or elsewhere. The vision object
\* is closed by a finally of its own.
Cut(j) ==
  /\ pc[j] \in {"agents", "vision", "route", "run", "stream", "save", "fail"} \cup Working
  /\ Leave(j, "close")
  /\ IF pc[j] \in {"route", "run", "stream", "react", "codeact", "summary"}
       THEN \E c \in Cancelled(client[j][InUse(j)]) : Becomes(j, InUse(j), c)
       ELSE UNCHANGED client
  /\ stream' = [stream EXCEPT ![j] = NoStream]
  /\ UNCHANGED <<saved, torn, outputVars>>

\* Cancelled inside a close, which leaves the client of that object.
CutClosing(j) ==
  /\ \/ pc[j] = "viewed" /\ Leave(j, "close")
     \/ pc[j] = "close" /\ Leave(j, "ended")
  /\ torn' = torn \cup {j}
  /\ UNCHANGED <<stream, client, saved, outputVars>>

-----------------------------------------------------------------------------
\* What the handler does, its models and tools included.
Step(j) ==
  \/ GetTools(j) \/ SelectAgents(j) \/ CheckVision(j) \/ CloseVision(j)
  \/ RouteAlone(j) \/ RouteByModel(j)
  \/ OpenStream(j) \/ SdkReports(j) \/ SendToken(j) \/ EndStream(j) \/ BreakStream(j)
  \/ ReactAgent(j) \/ OtherTool(j) \/ CodeActCall(j) \/ Summarize(j)
  \/ BeginScript(j) \/ EndScript(j) \/ BreakScript(j)
  \/ Raise(j) \/ Save(j) \/ SaveError(j) \/ CloseAgents(j)

Next ==
  \E j \in Jobs :
    \/ Begin(j) \/ Step(j) \/ EndOrphan(j)
    \/ CutEarly(j) \/ Cut(j) \/ CutClosing(j)
    \/ \E e \in Entries : Write(j, e) /\ UNCHANGED turnVars

Spec == Init /\ [][Next]_vars

\* Every wait of the handler has a timeout: 120 s for a chunk, send_timeout for an answer,
\* 60 s for a script.
FairSpec == Spec /\ \A j \in Jobs : WF_vars(Step(j))

-----------------------------------------------------------------------------
(* Properties *)

\* A turn leaves no Copilot client of the vision check or of an agent's own object behind,
\* on any path, unless the cancellation met the closing (orchestrator_handler.py:262-269,
\* 337-343). The router's client and that of a tool agent are never stopped.
AgentClientsStopped ==
  \A j \in Jobs \ torn :
    pc[j] = "ended" => client[j]["vision"] = "none" /\ client[j]["agent"] = "none"

\* An answer that was streamed to its end reached the notifier once: all its deltas in
\* order, or the whole message or the apology when there was none (copilot.py:284-337).
StreamTellsOnce == \A j \in Jobs : pc[j] = "save" /\ stream[j].idle => ToldOnce(stream[j])

\* A turn ends, whatever its models and tools answer (tool_agent.py:347-363,
\* codeact_agent.py:205-293).
TurnEnds == \A j \in Jobs : pc[j] = "tools" ~> pc[j] = "ended"
=============================================================================
