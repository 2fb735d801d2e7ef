---------------------------- MODULE DebateThread ----------------------------
(***************************************************************************)
(* One thread of the debate screen: DebateChatPanel sends a topic or an    *)
(* extension, DebateHandler casts the participants and runs the graph that *)
(* build_debate_graph makes, one node after another, and each node's       *)
(* message goes to the thread's checkpoint and to the event stream.        *)
(*                                                                         *)
(* LangGraph's checkpointer is external: a run reads the newest checkpoint *)
(* when it starts, appends to the copy it holds, and saves that copy after *)
(* every node, so of two runs the one that saves last decides the history. *)
(* The job queue is that of JobPipeline, cut down to what a run can see: a *)
(* run may be cut and delivered again, also when it has saved its result   *)
(* and is only closing its clients, or end with nothing saved.             *)
(***************************************************************************)
EXTENDS Integers, Sequences, FiniteSets, SequencesExt, Functions

CONSTANTS
  Agents,      \* the participants named in the request, a sequence
  Gems,        \* the gems invited, their names
  StartTurns,  \* max_turns of the configuration panel
  Extensions,  \* bound: the numbers of turns the user asks for in an extension
  TurnCap,     \* the handler's limit on max_turns, 20 in the code
  CastLimits,  \* the fewest and the most participants of a graph, 2 and 10
  MaxPosts,    \* bound: requests of the thread
  MaxTries,    \* deliveries of one job
  MaxRunning,  \* bound: runs of the thread under way at once
  MaxRuns      \* bound: deliveries of the thread's jobs, one fewer where two runs overlap

\* A name stands for its participant's node, agent_<name>, so none is the aggregator's.
ASSUME DebateAssumption ==
  /\ Agents \in Seq(Range(Agents))
  /\ "aggregator" \notin Range(Agents) \cup Gems
  /\ IsFiniteSet(Gems)
  /\ Gems \cap Range(Agents) = {}
  /\ StartTurns \in Nat \ {0}
  /\ Extensions \in SUBSET (Nat \ {0})
  /\ TurnCap \in Nat \ {0}
  /\ CastLimits \in Nat \X Nat
  /\ CastLimits[1] > 0
  /\ MaxPosts \in Nat
  /\ MaxTries \in Nat \ {0}
  /\ MaxRunning \in Nat \ {0}
  /\ MaxRuns \in Nat \ {0}

Jobs == 1 .. MaxPosts
Names == Range(Agents) \cup Gems

VARIABLES
  \* DebateChatPanel and its useChat
  pattern,             \* of the configuration the panel was opened with
  isThinking,
  awaited,             \* jobs whose result can still reach the panel
  awaitingExtension,
  debateEnded,
  currentTurn,
  dynamicMaxTurns,
  dynamicCurrentTurn,  \* undefined is 0, as the server takes it
  \* the jobs
  posted,              \* requests made so far
  request,             \* max_turns, current_turn and the text of a request
  phase,
  tries,
  \* one run of the handler
  cast,                \* participants, gems merged in
  turn, idx,           \* the graph's counters
  view,                \* the run's copy of messages
  turns,               \* all_turns
  \* PostgreSQL and Redis
  thread,              \* messages of the newest checkpoint
  stream,              \* the job's list of turns
  result,              \* what is stored, and of the run that stored it its cast's size and try
  \* history
  asked,               \* what an extension asked for: the turn it goes on from, and how many
  overlapped           \* two runs were under way at once

panelVars == <<pattern, isThinking, awaited, awaitingExtension, debateEnded, currentTurn,
               dynamicMaxTurns, dynamicCurrentTurn>>
postVars == <<posted, request, asked>>
runVars == <<cast, turn, idx, view, turns>>
vars == <<pattern, isThinking, awaited, awaitingExtension, debateEnded, currentTurn,
          dynamicMaxTurns, dynamicCurrentTurn, posted, request, asked, phase, tries,
          cast, turn, idx, view, turns, thread, stream, result, overlapped>>

-----------------------------------------------------------------------------
(* Types. A message is who said it and the job it was said in. *)

Speakers == Names \cup {"aggregator"}
Spoken == [job : Jobs, by : Speakers]
Messages == [job : Jobs, by : Speakers \cup {"user"}]
NotAsked == [from |-> 0, more |-> 0]
NoResult == [kind |-> "none", turns |-> <<>>, final |-> 0, size |-> 0, try |-> 0]
ErrorResult == [NoResult EXCEPT !.kind = "error"]

TypeOK ==
  /\ pattern \in {"debate", "panel", "chain"}
  /\ isThinking \in BOOLEAN
  /\ awaited \in SUBSET Jobs
  /\ awaitingExtension \in BOOLEAN
  /\ debateEnded \in BOOLEAN
  /\ currentTurn \in Nat
  /\ dynamicMaxTurns \in Nat
  /\ dynamicCurrentTurn \in Nat
  /\ posted \in 0 .. MaxPosts
  /\ request \in [Jobs -> [max : Nat, cur : Nat]]
  /\ asked \in [Jobs -> [from : Nat, more : Nat]]
  /\ phase \in [Jobs -> {"none", "queued", "running", "closing", "settled"}]
  /\ tries \in [Jobs -> 0 .. MaxTries]
  /\ cast \in [Jobs -> Seq(Names)]
  /\ turn \in [Jobs -> Nat]
  /\ idx \in [Jobs -> Nat]
  /\ view \in [Jobs -> Seq(Messages)]
  /\ turns \in [Jobs -> Seq(Spoken)]
  /\ thread \in Seq(Messages)
  /\ stream \in [Jobs -> Seq(Spoken)]
  /\ result \in [Jobs -> [kind : {"none", "error", "debate"}, turns : Seq(Spoken), final : Nat,
                          size : Nat, try : Nat]]
  /\ overlapped \in BOOLEAN

Init ==
  /\ pattern \in {"debate", "panel", "chain"}
  /\ isThinking = FALSE
  /\ awaited = {}
  /\ awaitingExtension = FALSE
  /\ debateEnded = FALSE
  /\ currentTurn = 0
  /\ dynamicMaxTurns = StartTurns
  /\ dynamicCurrentTurn = 0
  /\ posted = 0
  /\ request = [j \in Jobs |-> [max |-> 0, cur |-> 0]]
  /\ asked = [j \in Jobs |-> NotAsked]
  /\ phase = [j \in Jobs |-> "none"]
  /\ tries = [j \in Jobs |-> 0]
  /\ cast = [j \in Jobs |-> <<>>]
  /\ turn = [j \in Jobs |-> 0]
  /\ idx = [j \in Jobs |-> 0]
  /\ view = [j \in Jobs |-> <<>>]
  /\ turns = [j \in Jobs |-> <<>>]
  /\ thread = <<>>
  /\ stream = [j \in Jobs |-> <<>>]
  /\ result = [j \in Jobs |-> NoResult]
  /\ overlapped = FALSE

-----------------------------------------------------------------------------
(* DebateChatPanel *)

\* sendMessage posts the turn numbers of the render it belongs to.
Post(want) ==
  LET j == posted + 1
  IN  /\ posted < MaxPosts
      /\ posted' = j
      /\ request' = [request EXCEPT ![j] = [max |-> dynamicMaxTurns,
                                            cur |-> dynamicCurrentTurn]]
      /\ asked' = [asked EXCEPT ![j] = want]
      /\ phase' = [phase EXCEPT ![j] = "queued"]
      /\ awaited' = awaited \cup {j}
      /\ isThinking' = TRUE

\* The input is enabled: a new topic.
SendTopic ==
  /\ ~ isThinking
  /\ ~ awaitingExtension
  /\ ~ debateEnded
  /\ Post(NotAsked)
  /\ UNCHANGED <<pattern, awaitingExtension, debateEnded, currentTurn, dynamicMaxTurns,
                 dynamicCurrentTurn, tries, runVars, thread, stream, result, overlapped>>

\* handleExtend sets the new numbers and sends at once, before a render has seen
\* them; sendMessage ignores the call while another job is awaited.
Extend ==
  /\ awaitingExtension
  /\ \E more \in Extensions :
       /\ \/ ~ isThinking /\ Post([from |-> currentTurn, more |-> more])
          \/ isThinking /\ UNCHANGED <<postVars, phase, awaited, isThinking>>
       /\ dynamicMaxTurns' = currentTurn + more
  /\ dynamicCurrentTurn' = currentTurn
  /\ awaitingExtension' = FALSE
  /\ UNCHANGED <<pattern, debateEnded, currentTurn, tries, runVars, thread, stream, result,
                 overlapped>>

End ==
  /\ awaitingExtension
  /\ awaitingExtension' = FALSE
  /\ debateEnded' = TRUE
  /\ UNCHANGED <<pattern, isThinking, awaited, currentTurn, dynamicMaxTurns, dynamicCurrentTurn,
                 postVars, phase, tries, runVars, thread, stream, result, overlapped>>

\* A request for the result that is on its way is not stopped.
Cancel ==
  /\ isThinking
  /\ isThinking' = FALSE
  /\ awaited' \in {awaited, {}}
  /\ UNCHANGED <<pattern, awaitingExtension, debateEnded, currentTurn, dynamicMaxTurns,
                 dynamicCurrentTurn, postVars, phase, tries, runVars, thread, stream,
                 result, overlapped>>

\* A debate result sets the turn and offers an extension; an error text does not.
ReceiveResult(j) ==
  /\ j \in awaited
  /\ result[j].kind # "none"
  /\ awaited' = awaited \ {j}
  /\ isThinking' = FALSE
  /\ IF result[j].kind = "debate"
     THEN currentTurn' = result[j].final /\ awaitingExtension' = TRUE
     ELSE UNCHANGED <<currentTurn, awaitingExtension>>
  /\ UNCHANGED <<pattern, debateEnded, dynamicMaxTurns, dynamicCurrentTurn, postVars, phase,
                 tries, runVars, thread, stream, result, overlapped>>

-----------------------------------------------------------------------------
(* DebateHandler *)

\* The gems found, in the order the database returns them; none if the query fails.
Casts == {Agents \o found : found \in SetToAllKPermutations(Gems)}

Playable(players) == Len(players) \in CastLimits[1] .. CastLimits[2]

Running == {j \in Jobs : phase[j] = "running"}

Overlaps == overlapped \/ Running # {}

Deliveries == FoldFunction(+, 0, tries)

MayRun ==
  /\ Cardinality(Running) < MaxRunning
  /\ Deliveries + (IF Overlaps THEN 1 ELSE 0) < MaxRuns

\* Mutant: a run that resumes begins with the first participant again.
StartFromFirstMutant(j, players) ==
  LET opening == IF request[j].cur = 0 THEN << [job |-> j, by |-> "user"] >> ELSE <<>>
  IN  /\ phase[j] = "queued"
      /\ tries[j] < MaxTries
      /\ Playable(players)
      /\ MayRun
      /\ phase' = [phase EXCEPT ![j] = "running"]
      /\ tries' = [tries EXCEPT ![j] = @ + 1]
      /\ cast' = [cast EXCEPT ![j] = players]
      /\ turn' = [turn EXCEPT ![j] = request[j].cur]
      /\ idx' = [idx EXCEPT ![j] = 0]
      /\ view' = [view EXCEPT ![j] = thread \o opening]
      /\ turns' = [turns EXCEPT ![j] = <<>>]
      /\ thread' = thread \o opening
      /\ overlapped' = Overlaps
      /\ UNCHANGED <<panelVars, postVars, stream, result>>

\* Mutant: a run does not read the thread it goes on with.
StartAfreshMutant(j, players) ==
  LET opening == IF request[j].cur = 0 THEN << [job |-> j, by |-> "user"] >> ELSE <<>>
  IN  /\ phase[j] = "queued"
      /\ tries[j] < MaxTries
      /\ Playable(players)
      /\ MayRun
      /\ phase' = [phase EXCEPT ![j] = "running"]
      /\ tries' = [tries EXCEPT ![j] = @ + 1]
      /\ cast' = [cast EXCEPT ![j] = players]
      /\ turn' = [turn EXCEPT ![j] = request[j].cur]
      /\ idx' = [idx EXCEPT ![j] = request[j].cur]
      /\ view' = [view EXCEPT ![j] = opening]
      /\ turns' = [turns EXCEPT ![j] = <<>>]
      /\ thread' = opening
      /\ overlapped' = Overlaps
      /\ UNCHANGED <<panelVars, postVars, stream, result>>

\* A run that resumes adds no message of the user.
Start(j, players) ==
  LET opening == IF request[j].cur = 0 THEN << [job |-> j, by |-> "user"] >> ELSE <<>>
  IN  /\ phase[j] = "queued"
      /\ tries[j] < MaxTries
      /\ Playable(players)
      /\ MayRun
      /\ phase' = [phase EXCEPT ![j] = "running"]
      /\ tries' = [tries EXCEPT ![j] = @ + 1]
      /\ cast' = [cast EXCEPT ![j] = players]
      /\ turn' = [turn EXCEPT ![j] = request[j].cur]
      /\ idx' = [idx EXCEPT ![j] = request[j].cur]
      /\ view' = [view EXCEPT ![j] = thread \o opening]
      /\ turns' = [turns EXCEPT ![j] = <<>>]
      /\ thread' = thread \o opening
      /\ overlapped' = Overlaps
      /\ UNCHANGED <<panelVars, postVars, stream, result>>

\* What the run held in memory is gone with it.
Leave(j, next) ==
  /\ phase' = [phase EXCEPT ![j] = next]
  /\ turn' = [turn EXCEPT ![j] = 0]
  /\ idx' = [idx EXCEPT ![j] = 0]
  /\ view' = [view EXCEPT ![j] = <<>>]
  /\ turns' = [turns EXCEPT ![j] = <<>>]
  /\ UNCHANGED <<panelVars, postVars, cast, thread, stream, overlapped>>

\* Stored in place of what an earlier delivery stored; the clients are still to be closed.
SaveResult(j, res) ==
  /\ result' = [result EXCEPT ![j] = res]
  /\ Leave(j, "closing")

\* Too few or too many participants, or one that is not found.
Reject(j) ==
  /\ phase[j] = "queued"
  /\ tries[j] < MaxTries
  /\ Deliveries < MaxRuns
  /\ tries' = [tries EXCEPT ![j] = @ + 1]
  /\ SaveResult(j, ErrorResult)

\* Mutant: the summary is not pushed to the stream.
UtterMutant(j, by) ==
  LET said == [job |-> j, by |-> by]
  IN  /\ view' = [view EXCEPT ![j] = Append(@, said)]
      /\ thread' = Append(view[j], said)
      /\ turns' = [turns EXCEPT ![j] = Append(@, said)]
      /\ stream' = IF by = "aggregator" THEN stream
                    ELSE [stream EXCEPT ![j] = Append(@, said)]

\* What the nodes have in common: the message is appended to the run's copy, the
\* copy is saved, and the handler collects the message and pushes it.
Utter(j, by) ==
  LET said == [job |-> j, by |-> by]
  IN  /\ view' = [view EXCEPT ![j] = Append(@, said)]
      /\ thread' = Append(view[j], said)
      /\ turns' = [turns EXCEPT ![j] = Append(@, said)]
      /\ stream' = [stream EXCEPT ![j] = Append(@, said)]

\* The handler's cap on what was asked for.
MaxTurns(j) == IF request[j].max < TurnCap THEN request[j].max ELSE TurnCap

\* should_continue, of a graph with so many participants
TurnsOf(j, size) == IF pattern = "panel" THEN MaxTurns(j) * size ELSE MaxTurns(j)
TotalTurns(j) == TurnsOf(j, Len(cast[j]))

\* Mutant: one turn too many.
AllSpokenMutant(j) ==
  IF pattern = "chain" THEN Len(turns[j]) >= Len(cast[j])
  ELSE turns[j] # <<>> /\ turn[j] > TotalTurns(j)

\* The edges: a chain is a line of its agents, and the dispatcher runs once before it is
\* asked whether to go on.
AllSpoken(j) ==
  IF pattern = "chain" THEN Len(turns[j]) >= Len(cast[j])
  ELSE turns[j] # <<>> /\ turn[j] >= TotalTurns(j)

Aggregated(j) == turns[j] # <<>> /\ Last(turns[j]).by = "aggregator"

Dispatch(j) ==
  /\ phase[j] = "running"
  /\ pattern # "chain"
  /\ ~ AllSpoken(j)
  /\ Utter(j, cast[j][(idx[j] % Len(cast[j])) + 1])
  /\ idx' = [idx EXCEPT ![j] = (@ + 1) % Len(cast[j])]
  /\ turn' = [turn EXCEPT ![j] = @ + 1]
  /\ UNCHANGED <<panelVars, postVars, phase, tries, cast, result, overlapped>>

ChainLink(j) ==
  /\ phase[j] = "running"
  /\ pattern = "chain"
  /\ ~ AllSpoken(j)
  /\ Utter(j, cast[j][Len(turns[j]) + 1])
  /\ UNCHANGED <<panelVars, postVars, phase, tries, cast, turn, idx, result, overlapped>>

\* Mutant: the summary is stored as a message of the user.
AggregateMutant(j) ==
  /\ phase[j] = "running"
  /\ AllSpoken(j)
  /\ ~ Aggregated(j)
  /\ Utter(j, "user")
  /\ UNCHANGED <<panelVars, postVars, phase, tries, cast, turn, idx, result, overlapped>>

Aggregate(j) ==
  /\ phase[j] = "running"
  /\ AllSpoken(j)
  /\ ~ Aggregated(j)
  /\ Utter(j, "aggregator")
  /\ UNCHANGED <<panelVars, postVars, phase, tries, cast, turn, idx, result, overlapped>>

SaveDebate(j) ==
  /\ phase[j] = "running"
  /\ Aggregated(j)
  /\ SaveResult(j, [kind |-> "debate", turns |-> turns[j], final |-> turn[j],
                    size |-> Len(cast[j]), try |-> tries[j]])
  /\ UNCHANGED tries

\* A participant, the aggregator or a database call raises.
Fail(j) ==
  /\ phase[j] = "running"
  /\ SaveResult(j, ErrorResult)
  /\ UNCHANGED tries

-----------------------------------------------------------------------------
(* The queue *)

\* The worker dies: the job is delivered again, the checkpoint and what was stored stay.
Interrupt(j) ==
  /\ phase[j] \in {"running", "closing"}
  /\ Leave(j, "queued")
  /\ UNCHANGED <<tries, result>>

\* job_timeout, or too many deliveries: no result of this delivery.
EndUnsaved(j) ==
  /\ phase[j] = "running" \/ (phase[j] = "queued" /\ tries[j] = MaxTries)
  /\ Leave(j, "settled")
  /\ UNCHANGED <<tries, result>>

\* The finally block is over, or raises, and arq records the job as finished.
Finish(j) ==
  /\ phase[j] = "closing"
  /\ Leave(j, "settled")
  /\ UNCHANGED <<tries, result>>

-----------------------------------------------------------------------------
Next ==
  \/ SendTopic \/ Extend \/ End \/ Cancel
  \/ \E j \in Jobs :
       \/ \E players \in Casts : Start(j, players)
       \/ Dispatch(j) \/ ChainLink(j) \/ Aggregate(j) \/ SaveDebate(j)
       \/ Reject(j) \/ Fail(j) \/ Interrupt(j) \/ EndUnsaved(j) \/ Finish(j)
       \/ ReceiveResult(j)

Spec == Init /\ [][Next]_vars

-----------------------------------------------------------------------------
(* Properties *)

\* Whoever speaks, it is the turn of that participant: the k-th speech of a run is
\* by the participant k places after the turn it resumes at, and in a chain by the
\* k-th participant, each once.
RotationKept ==
  \A j \in Jobs : \A k \in DOMAIN turns[j] :
    turns[j][k].by # "aggregator" =>
      turns[j][k].by = IF pattern = "chain" THEN cast[j][k]
                       ELSE cast[j][((request[j].cur + k - 1) % Len(cast[j])) + 1]

\* A debate that finished has the length that was asked for and one summary, last:
\* max_turns speeches (a panel: by each participant) less those it resumes after,
\* and at least one; a chain has one speech of each participant.
FinishedAtLength ==
  \A j \in Jobs : result[j].kind = "debate" =>
    LET spoken == Len(result[j].turns) - 1
        left == TurnsOf(j, result[j].size) - request[j].cur
    IN  /\ spoken = IF pattern = "chain" THEN result[j].size
                     ELSE IF left > 1 THEN left ELSE 1
        /\ \A k \in DOMAIN result[j].turns :
             result[j].turns[k].by = "aggregator" <=> k = spoken + 1

\* s stands together somewhere in t.
Within(s, t) ==
  \E at \in 0 .. Len(t) - Len(s) : SubSeq(t, at + 1, at + Len(s)) = s

\* The turns a result lists stand together in the stream; they are its last ones as long
\* as the job was not delivered again since they were stored, and all of it if the job
\* was delivered once: only what another delivery says comes before or behind them.
ResultInStream ==
  \A j \in Jobs : result[j].kind = "debate" =>
    /\ Within(result[j].turns, stream[j])
    /\ result[j].try = tries[j] => IsSuffix(result[j].turns, stream[j])
    /\ tries[j] = 1 => result[j].turns = stream[j]

\* While no two runs overlap, the thread's history holds every finished debate
\* whole, whatever was interrupted, failed, repeated or sent after it.
HistoryKeepsDebates ==
  ~ overlapped =>
    \A j \in Jobs : result[j].kind = "debate" => Within(result[j].turns, thread)

\* Claimed by ADR 0011: an extension is posted with the turns it adds, and goes on
\* from the turn the debate had reached.
ExtensionIsPosted ==
  \A j \in Jobs : asked[j] # NotAsked =>
    request[j] = [max |-> asked[j].from + asked[j].more, cur |-> asked[j].from]
=============================================================================
