------------------------- MODULE Orchestrator_proofs -------------------------
(***************************************************************************)
(* For any number of jobs, agents and files: what the scripts of a thread  *)
(* write is reported, a turn stops the Copilot clients it answers for, an  *)
(* answer is told once, and every stage is one of the agent's kind. Each   *)
(* is proved from an invariant that a step of one job changes for that job *)
(* only. The first needs the types of Outputs, which tell that a call's    *)
(* new files are in the folder and not in its snapshot; the second the     *)
(* stages at which there can be a client at all; the third what one stream *)
(* tells, and that a turn leaves a stream that is idle only when its queue *)
(* is empty; the types the agent of a turn, whose kind bounds its steps.   *)
(*                                                                         *)
(* Of one stream (CopilotClient): the chunks already told, followed by     *)
(* those in the queue, are the deltas in order while the session works;    *)
(* once it is idle they are the whole answer and the end mark. The handler *)
(* of an event appends to both, and a chunk that is told only moves from   *)
(* one to the other.                                                       *)
(***************************************************************************)
EXTENDS Orchestrator, SequenceTheorems, TLAPS

-----------------------------------------------------------------------------
(* One stream *)

Items == {"delta", "whole", "sorry", "end"} \X Nat
AnyStream == [deltas : Nat, whole : BOOLEAN, idle : BOOLEAN, queue : Seq(Items), told : Seq(Items)]

Deltas(n) == [k \in 1 .. n |-> Delta(k)]

\* all is what an answer of n deltas tells.
IsAnswer(all, n) == IF n > 0 THEN all = Deltas(n) ELSE all \in {<<Whole>>, <<Sorry>>}

Flows(s) ==
  /\ s \in AnyStream
  /\ ~s.idle => s.told \o s.queue = Deltas(s.deltas)
  /\ s.idle => \E all \in Seq(Items) : IsAnswer(all, s.deltas) /\ s.told \o s.queue = all \o <<End>>

-----------------------------------------------------------------------------
\* The chunks are items, and so are lists of them.
LEMMA ItemTypes ==
  /\ Whole \in Items /\ Sorry \in Items /\ End \in Items
  /\ <<>> \in Seq(Items)
  /\ <<Whole>> \in Seq(Items) /\ <<Sorry>> \in Seq(Items) /\ <<End>> \in Seq(Items)
  /\ \A n \in Nat : Delta(n) \in Items /\ Deltas(n) \in Seq(Items) /\ Len(Deltas(n)) = n
<1>1. Whole \in Items /\ Sorry \in Items /\ End \in Items
  BY DEF Whole, Sorry, End, Items
<1>2. \A n \in Nat : Delta(n) \in Items
  BY DEF Delta, Items
<1>3. \A n \in Nat : Deltas(n) \in Seq(Items) /\ Len(Deltas(n)) = n
  BY <1>2 DEF Deltas
<1> QED
  BY <1>1, <1>2, <1>3

\* One more delta goes to the end.
LEMMA DeltasAppend ==
  ASSUME NEW n \in Nat
  PROVE  Append(Deltas(n), Delta(n + 1)) = Deltas(n + 1)
<1> DEFINE longer == Append(Deltas(n), Delta(n + 1))
<1>1. /\ longer \in Seq(Items) /\ Len(longer) = n + 1
      /\ \A k \in 1 .. n : longer[k] = Deltas(n)[k]
      /\ longer[n + 1] = Delta(n + 1)
  <2>1. Deltas(n) \in Seq(Items) /\ Delta(n + 1) \in Items /\ Len(Deltas(n)) = n
    BY ItemTypes
  <2> QED
    BY <2>1, AppendProperties
<1>2. Deltas(n + 1) \in Seq(Items) /\ Len(Deltas(n + 1)) = n + 1
  BY ItemTypes
<1>3. \A k \in 1 .. n + 1 : longer[k] = Deltas(n + 1)[k]
  BY <1>1 DEF Deltas
<1> QED
  BY <1>1, <1>2, <1>3, SeqEqual

\* What goes to the end of the second of two lists goes to the end of both.
LEMMA ConcatAppend ==
  ASSUME NEW t \in Seq(Items), NEW q \in Seq(Items), NEW x \in Items
  PROVE  t \o Append(q, x) = Append(t \o q, x)
<1>1. <<x>> \in Seq(Items) /\ t \o q \in Seq(Items)
  OBVIOUS
<1>2. t \o (q \o <<x>>) = (t \o q) \o <<x>>
  BY <1>1, ConcatAssociative
<1> QED
  BY <1>1, <1>2, AppendIsConcat

\* The bracketing of four lists.
LEMMA ConcatFour ==
  \A t, q, l, e \in Seq(Items) : t \o ((q \o l) \o e) = ((t \o q) \o l) \o e
<1> TAKE t, q, l, e \in Seq(Items)
<1>1. q \o l \in Seq(Items)
  BY ConcatProperties
<1>2. t \o ((q \o l) \o e) = (t \o (q \o l)) \o e
  BY <1>1, ConcatAssociative
<1>3. t \o (q \o l) = (t \o q) \o l
  BY ConcatAssociative
<1> QED
  BY <1>2, <1>3

\* A chunk that moves from the queue to what was told changes neither the chunks nor their order.
LEMMA ConcatMove ==
  ASSUME NEW t \in Seq(Items), NEW q \in Seq(Items), q # <<>>
  PROVE  Append(t, Head(q)) \o Tail(q) = t \o q
<1>1. Head(q) \in Items /\ Tail(q) \in Seq(Items) /\ <<Head(q)>> \in Seq(Items)
  BY HeadTailProperties
<1>2. q = <<Head(q)>> \o Tail(q)
  <2>1. Len(q) \in Nat \ {0} /\ Len(Tail(q)) = Len(q) - 1
    BY EmptySeq, HeadTailProperties
  <2>2. /\ <<Head(q)>> \o Tail(q) \in Seq(Items)
        /\ Len(<<Head(q)>> \o Tail(q)) = Len(q)
    BY <1>1, <2>1
  <2>3. \A i \in 1 .. Len(q) : q[i] = (<<Head(q)>> \o Tail(q))[i]
    BY <1>1, <2>1
  <2> QED
    BY <2>2, <2>3, SeqEqual
<1>3. Append(t, Head(q)) \o Tail(q) = (t \o <<Head(q)>>) \o Tail(q)
  BY <1>1, AppendIsConcat
<1>4. (t \o <<Head(q)>>) \o Tail(q) = t \o (<<Head(q)>> \o Tail(q))
  BY <1>1, ConcatAssociative
<1> QED
  BY <1>2, <1>3, <1>4

-----------------------------------------------------------------------------
\* Before the first event nothing is told.
LEMMA NoStreamFlows == Flows(NoStream)
<1>1. NoStream \in AnyStream
  BY ItemTypes DEF NoStream, AnyStream
<1>2. <<>> \o <<>> = <<>>
  BY ItemTypes, ConcatEmptySeq
<1>3. Deltas(0) = <<>>
  BY DEF Deltas
<1> QED
  BY <1>1, <1>2, <1>3 DEF Flows, NoStream

\* A delta is the last one so far.
LEMMA OnDeltaFlows ==
  ASSUME NEW s, Flows(s), ~s.idle
  PROVE  Flows(OnDelta(s)) /\ ~OnDelta(s).idle
<1> DEFINE d == Delta(s.deltas + 1)
<1>1. s \in AnyStream /\ s.deltas \in Nat /\ s.told \in Seq(Items) /\ s.queue \in Seq(Items)
  BY DEF Flows, AnyStream
<1>2. d \in Items /\ Append(s.queue, d) \in Seq(Items)
  BY <1>1, ItemTypes
<1>3. /\ OnDelta(s).deltas = s.deltas + 1 /\ OnDelta(s).queue = Append(s.queue, d)
      /\ OnDelta(s).told = s.told /\ OnDelta(s).idle = s.idle
  BY <1>1 DEF OnDelta, AnyStream
<1>4. s.told \o Append(s.queue, d) = Deltas(s.deltas + 1)
  BY <1>1, <1>2, ConcatAppend, DeltasAppend DEF Flows
<1>5. OnDelta(s) \in AnyStream
  <2> DEFINE n == s.deltas + 1
             q == Append(s.queue, d)
  <2>1. n \in Nat /\ q \in Seq(Items) /\ OnDelta(s) = [s EXCEPT !.deltas = n, !.queue = q]
    BY <1>1, <1>2 DEF OnDelta
  <2> HIDE DEF n, q
  <2>2. [s EXCEPT !.deltas = n, !.queue = q] \in AnyStream
    BY <1>1, <2>1 DEF AnyStream
  <2> QED
    BY <2>1, <2>2, Zenon
<1> QED
  BY <1>3, <1>4, <1>5 DEF Flows

\* The whole message is only kept.
LEMMA OnMessageFlows ==
  ASSUME NEW s, Flows(s), ~s.idle
  PROVE  Flows(OnMessage(s)) /\ ~OnMessage(s).idle
<1>1. s \in AnyStream
  BY DEF Flows
<1>2. /\ OnMessage(s).deltas = s.deltas /\ OnMessage(s).queue = s.queue
      /\ OnMessage(s).told = s.told /\ OnMessage(s).idle = s.idle
  BY <1>1 DEF OnMessage, AnyStream
<1>3. OnMessage(s) \in AnyStream
  BY <1>1 DEF OnMessage, AnyStream
<1> QED
  BY <1>2, <1>3 DEF Flows

\* At the idle event the answer is complete: the deltas there were, or one chunk in their place.
LEMMA OnIdleFlows ==
  ASSUME NEW s, Flows(s), ~s.idle
  PROVE  Flows(OnIdle(s)) /\ OnIdle(s).idle
<1> DEFINE last == IF s.deltas > 0 THEN <<>> ELSE IF s.whole THEN <<Whole>> ELSE <<Sorry>>
           all == Deltas(s.deltas) \o last
<1>1. s \in AnyStream /\ s.deltas \in Nat /\ s.told \in Seq(Items) /\ s.queue \in Seq(Items)
  BY DEF Flows, AnyStream
<1>2. /\ last \in Seq(Items) /\ <<End>> \in Seq(Items) /\ Deltas(s.deltas) \in Seq(Items)
      /\ s.queue \o last \in Seq(Items) /\ (s.queue \o last) \o <<End>> \in Seq(Items)
      /\ all \in Seq(Items)
  BY <1>1, ItemTypes, ConcatProperties
<1>3. /\ OnIdle(s).deltas = s.deltas /\ OnIdle(s).queue = (s.queue \o last) \o <<End>>
      /\ OnIdle(s).told = s.told /\ OnIdle(s).idle = TRUE
  BY <1>1 DEF OnIdle, AnyStream
<1>4. s.told \o ((s.queue \o last) \o <<End>>) = all \o <<End>>
  <2>1. s.told \o s.queue = Deltas(s.deltas)
    BY DEF Flows
  <2>2. last \in Seq(Items) /\ <<End>> \in Seq(Items)
    BY <1>2
  <2>3. \A l, e \in Seq(Items) : s.told \o ((s.queue \o l) \o e) = ((s.told \o s.queue) \o l) \o e
    BY <1>1, ConcatFour, Zenon
  <2> HIDE DEF last
  <2> QED
    BY <2>1, <2>2, <2>3, Zenon
<1>5. IsAnswer(all, s.deltas)
  <2>1. CASE s.deltas > 0
    BY <1>2, <2>1, ConcatEmptySeq DEF IsAnswer
  <2>2. CASE ~(s.deltas > 0)
    <3>1. Deltas(s.deltas) = <<>>
      BY <1>1, <2>2 DEF Deltas
    <3>2. all = last
      BY <1>2, <3>1, ConcatEmptySeq
    <3> QED
      BY <2>2, <3>2 DEF IsAnswer
  <2> QED
    BY <2>1, <2>2
<1>6. OnIdle(s) \in AnyStream
  BY <1>1, <1>2 DEF OnIdle, AnyStream
<1> QED
  BY <1>2, <1>3, <1>4, <1>5, <1>6 DEF Flows

\* A chunk is told: it only moves.
LEMMA YieldFlows ==
  ASSUME NEW s, Flows(s), s.queue # <<>>
  PROVE  Flows(Yield(s)) /\ Yield(s).idle = s.idle
<1>1. s \in AnyStream /\ s.told \in Seq(Items) /\ s.queue \in Seq(Items)
  BY DEF Flows, AnyStream
<1>2. /\ Yield(s).deltas = s.deltas /\ Yield(s).queue = Tail(s.queue)
      /\ Yield(s).told = Append(s.told, Head(s.queue)) /\ Yield(s).idle = s.idle
  BY <1>1 DEF Yield, AnyStream
<1>3. Append(s.told, Head(s.queue)) \o Tail(s.queue) = s.told \o s.queue
  BY <1>1, ConcatMove
<1>4. Tail(s.queue) \in Seq(Items) /\ Append(s.told, Head(s.queue)) \in Seq(Items)
  BY <1>1, HeadTailProperties, AppendProperties
<1>5. Yield(s) \in AnyStream
  BY <1>1, <1>4 DEF Yield, AnyStream
<1> QED
  BY <1>2, <1>3, <1>5 DEF Flows

\* When only the end mark is left, the answer was told, and told once.
LEMMA EndedIsTold ==
  ASSUME NEW s, Flows(s), s.idle, s.queue = <<End>>
  PROVE  ToldOnce(s)
<1>1. PICK all \in Seq(Items) : IsAnswer(all, s.deltas) /\ s.told \o <<End>> = all \o <<End>>
  BY DEF Flows
<1>2. s.told \in Seq(Items) /\ <<End>> \in Seq(Items)
  BY ItemTypes DEF Flows, AnyStream
<1>3. s.told = all
  BY <1>1, <1>2, ConcatSimplifications
<1> QED
  BY <1>1, <1>3 DEF IsAnswer, ToldOnce, Deltas

-----------------------------------------------------------------------------
(* The invariants *)

FilesInv == OutputsTypeOK /\ NewFilesReported

ClientsType ==
  /\ pc \in [Jobs -> Stages]
  /\ client \in [Jobs -> [Llms -> ClientStates]]

\* A vision object has its client while the model is looked at, an agent's object never
\* before the agents are there nor behind the turn.
StoppedFor(j) ==
  j \notin torn =>
    /\ client[j]["vision"] # "none" => pc[j] = "viewed"
    /\ client[j]["agent"] # "none" => pc[j] \notin {"idle", "tools", "ended"}

ClientsInv == ClientsType /\ \A j \in Jobs : StoppedFor(j)

\* A stream ends in the turn that reads it, which then saves or fails.
StreamOf(j) ==
  /\ Flows(stream[j])
  /\ stream[j].deltas <= MaxDeltas
  /\ stream[j].idle => stream[j].queue # <<>>
  /\ stream[j].idle => pc[j] \in {"stream", "save", "fail"}
  /\ pc[j] = "save" /\ stream[j].idle => stream[j].queue = <<End>>

StreamsInv ==
  /\ pc \in [Jobs -> Stages]
  /\ stream \in [Jobs -> AnyStream]
  /\ \A j \in Jobs : StreamOf(j)

\* An agent reaches only the stages of its kind, and its steps are counted up to the limit
\* of its kind.
TurnOf(j) ==
  /\ turn[j].steps < (IF turn[j].agent \in CodeAct THEN MaxIterations ELSE RecursionLimit)
  /\ pc[j] \in {"react", "other"} => turn[j].agent \in React
  /\ pc[j] \in {"codeact", "summary"} => turn[j].agent \in CodeAct
  /\ pc[j] \in {"python", "exec"} => turn[j].agent \in React \cup CodeAct

TurnsInv ==
  /\ pc \in [Jobs -> Stages]
  /\ turn \in [Jobs -> Turns]
  /\ \A j \in Jobs : TurnOf(j)
  /\ toolEvent \in SUBSET {j \in Jobs : pc[j] \in Working}

ResultsInv == saved \in [Jobs -> Results \cup {None}] /\ torn \in SUBSET Jobs

-----------------------------------------------------------------------------
(* The files *)

\* At the start there is no file and no call.
LEMMA FilesInitially == OutputsInit => FilesInv
BY DEF OutputsInit, FilesInv, OutputsTypeOK, NewFilesReported, Entries

\* A call takes its snapshot of the folder as it is.
LEMMA BeginCallKeeps ==
  ASSUME FilesInv, NEW j \in Jobs, BeginCall(j)
  PROVE  FilesInv'
<1> USE DEF FilesInv
<1>1. \A p \in made : p[1] # j
  BY DEF BeginCall, NewFilesReported
<1>2. OutputsTypeOK'
  BY <1>1 DEF BeginCall, OutputsTypeOK, Entries
<1>3. NewFilesReported'
  BY DEF BeginCall, NewFilesReported
<1> QED
  BY <1>2, <1>3

\* A file that is written is in the folder, and the call that wrote it runs.
LEMMA WriteKeeps ==
  ASSUME FilesInv, NEW j \in Jobs, NEW e \in Entries, Write(j, e)
  PROVE  FilesInv'
<1> USE DEF FilesInv
<1>1. \A p \in made' : p \in made \/ (p = <<j, e>> /\ e \notin before[j])
  BY DEF Write
<1>2. OutputsTypeOK'
  <2>1. \A p \in made' : p[1] \in Jobs /\ p[2] \in folder' \ before'[p[1]]
    BY <1>1 DEF Write, OutputsTypeOK
  <2> QED
    BY <2>1 DEF Write, OutputsTypeOK, Entries
<1>3. NewFilesReported'
  BY <1>1 DEF Write, NewFilesReported
<1> QED
  BY <1>2, <1>3

\* The call that ends finds each new file that is still there plain, and reports it under its
\* new name, or stamped, and reports it as it is.
LEMMA EndCallKeeps ==
  ASSUME FilesInv, NEW j \in Jobs, EndCall(j)
  PROVE  FilesInv'
<1> USE DEF FilesInv
<1> DEFINE new == folder \ before[j]
           plain == {e \in new : ~Prefixed(e)}
           renamed(now) == {<<now, e[2]>> : e \in plain}
<1>1. PICK now \in Stamps : RenameNewOutputs(j, now)
  BY DEF EndCall
<1>2. /\ folder' = (folder \ plain) \cup renamed(now)
      /\ reported' = reported \cup renamed(now) \cup (new \ plain)
      /\ made' = {p \in made : p[2] \notin plain \cup reported'}
      /\ calls' = calls \ {j}
      /\ before' = [before EXCEPT ![j] = {}]
  BY <1>1 DEF EndCall, RenameNewOutputs
<1> HIDE DEF new, plain, renamed
<1>3. new \subseteq Entries /\ plain \subseteq new /\ \A e \in new \ plain : e[1] # 0
  BY DEF new, plain, OutputsTypeOK, Prefixed
<1>4. renamed(now) \subseteq Stamps \X Names
  BY <1>3 DEF renamed, Entries
<1>5. new \ plain \subseteq Stamps \X Names
  BY <1>3 DEF Entries
<1>6. OutputsTypeOK'
  <2>1. folder' \in SUBSET Entries /\ reported' \in SUBSET (Stamps \X Names)
    BY <1>2, <1>4, <1>5 DEF OutputsTypeOK, Entries
  <2>2. before' \in [Jobs -> SUBSET Entries] /\ \A d \in Jobs : before'[d] \subseteq before[d]
    BY <1>2 DEF OutputsTypeOK
  <2>3. \A p \in made' : p[1] \in Jobs /\ p[2] \in folder' \ before'[p[1]]
    BY <1>2, <2>2 DEF OutputsTypeOK
  <2> QED
    BY <1>2, <2>1, <2>2, <2>3 DEF OutputsTypeOK
<1>7. NewFilesReported'
  <2>1. \A p \in made : p[1] = j => p[2] \in new
    BY DEF new, OutputsTypeOK
  <2>2. \A p \in made' : p[1] # j
    BY <1>2, <2>1
  <2> QED
    BY <1>2, <2>2 DEF NewFilesReported
<1> QED
  BY <1>6, <1>7

\* What a dropped call wrote is not waited for.
LEMMA LoseCallKeeps ==
  ASSUME FilesInv, NEW j \in Jobs, LoseCall(j)
  PROVE  FilesInv'
BY DEF FilesInv, LoseCall, OutputsTypeOK, NewFilesReported, Entries

\* The handler touches the files through the operations of the tool only.
LEMMA FilesInvariance == FilesInv /\ [Next]_vars => FilesInv'
<1> SUFFICES ASSUME FilesInv, [Next]_vars PROVE FilesInv'
  OBVIOUS
<1>1. CASE UNCHANGED outputVars
  BY <1>1 DEF outputVars, FilesInv, OutputsTypeOK, NewFilesReported, Entries
<1>2. CASE UNCHANGED vars
  BY <1>1, <1>2 DEF vars
<1>3. ASSUME NEW j \in Jobs, BeginCall(j) \/ EndCall(j) \/ LoseCall(j) PROVE FilesInv'
  BY <1>3, BeginCallKeeps, EndCallKeeps, LoseCallKeeps
<1>4. ASSUME NEW j \in Jobs, NEW e \in Entries, Write(j, e) PROVE FilesInv'
  BY <1>4, WriteKeeps
<1>5. ASSUME NEW j \in Jobs, Step(j) PROVE FilesInv'
  BY <1>1, <1>3, <1>5
  DEF Step, GetTools, SelectAgents, CheckVision, CloseVision, RouteAlone, RouteByModel, OpenStream,
      SdkReports, SendToken, EndStream, BreakStream, ReactAgent, OtherTool, CodeActCall, Summarize,
      BeginScript, EndScript, BreakScript, Raise, Save, SaveError, CloseAgents
<1>6. ASSUME NEW j \in Jobs,
             Begin(j) \/ EndOrphan(j) \/ CutEarly(j) \/ Cut(j) \/ CutClosing(j) PROVE FilesInv'
  BY <1>1, <1>3, <1>6 DEF Begin, EndOrphan, CutEarly, Cut, CutClosing
<1> QED
  BY <1>2, <1>4, <1>5, <1>6 DEF Next

-----------------------------------------------------------------------------
(* The clients *)

\* What a call of an object leaves is a state of a client.
LEMMA CallTypes ==
  ASSUME NEW c \in ClientStates
  PROVE  /\ \A e \in Generate(c) : e.client \in ClientStates
         /\ \A e \in ListModels(c) : e.client \in ClientStates
         /\ Cancelled(c) \subseteq ClientStates
         /\ Close(c) \in ClientStates
<1>1. \A e \in EnsureClient(c) : e.client \in ClientStates
  BY DEF EnsureClient, ClientStates
<1>2. \A e \in Generate(c) : e.client \in ClientStates
  BY <1>1 DEF Generate, ClientStates
<1>3. \A e \in ListModels(c) : e.client \in ClientStates
  BY <1>1 DEF ListModels
<1>4. Cancelled(c) \subseteq ClientStates
  BY <1>1 DEF Cancelled
<1>5. Close(c) \in ClientStates
  BY DEF Close, ClientStates
<1> QED
  BY <1>2, <1>3, <1>4, <1>5

\* What a step of one job may do to its stage and to one of its objects.
Moves(j, stages) == pc' = pc \/ \E stage \in stages : Goes(j, stage)
Calls(j, l) == client' = client \/ \E c \in ClientStates : Becomes(j, l, c)

\* A step of one job keeps the invariant when it keeps it for that job.
LEMMA StepOfOne ==
  ASSUME ClientsInv, NEW j \in Jobs, NEW l \in Llms, Moves(j, Stages), Calls(j, l),
         torn' = torn \/ torn' = torn \cup {j}, StoppedFor(j)'
  PROVE  ClientsInv'
<1> USE DEF ClientsInv
<1>1. pc' \in [Jobs -> Stages] /\ \A d \in Jobs \ {j} : pc'[d] = pc[d]
  BY DEF ClientsType, Moves, Goes
<1>2. client' \in [Jobs -> [Llms -> ClientStates]] /\ \A d \in Jobs \ {j} : client'[d] = client[d]
  BY DEF ClientsType, Calls, Becomes
<1>3. \A d \in Jobs : StoppedFor(d)'
  BY <1>1, <1>2 DEF StoppedFor
<1> QED
  BY <1>1, <1>2, <1>3 DEF ClientsType

\* Between the agents and their closing, a call of an object other than the vision one, and
\* any step that calls none, changes nothing that the invariant speaks of.
LEMMA TurnStep ==
  ASSUME ClientsInv, NEW j \in Jobs, NEW l \in Llms \ {"vision"},
         pc[j] \notin {"idle", "tools", "viewed", "ended"},
         Moves(j, Stages \ {"idle", "tools", "ended"}), Calls(j, l), torn' = torn
  PROVE  ClientsInv'
<1> USE DEF ClientsInv
<1>1. pc'[j] \notin {"idle", "tools", "ended"}
  BY DEF ClientsType, Moves, Goes
<1>2. client'[j]["vision"] = client[j]["vision"]
  BY DEF ClientsType, Calls, Becomes, Llms
<1>3. StoppedFor(j)'
  BY <1>1, <1>2 DEF StoppedFor
<1>4. Moves(j, Stages)
  BY DEF Moves
<1> QED
  BY <1>3, <1>4, StepOfOne

\* No object has a client yet.
LEMMA ClientsInitially == Init => ClientsInv
BY DEF Init, ClientsInv, ClientsType, StoppedFor, Stages, ClientStates, Llms

\* The steps before the agents and those around a close.
LEMMA EdgeSteps ==
  ASSUME ClientsInv, NEW j \in Jobs,
         \/ Begin(j) \/ GetTools(j) \/ CheckVision(j) \/ CloseVision(j)
         \/ CloseAgents(j) \/ CutEarly(j) \/ CutClosing(j)
         \/ Raise(j) /\ pc[j] = "viewed"
  PROVE  ClientsInv'
<1> USE DEF ClientsInv
<1>1. client[j] \in [Llms -> ClientStates] /\ {"vision", "agent", "bound"} \subseteq Llms
  BY DEF ClientsType, Llms
<1>2. CASE Begin(j) \/ GetTools(j) \/ CutEarly(j)
  <2>1. /\ pc[j] \in {"idle", "tools"} /\ Moves(j, Stages) /\ client' = client /\ torn' = torn
    BY <1>2 DEF Begin, GetTools, CutEarly, Moves, Stages
  <2>2. StoppedFor(j)'
    BY <2>1 DEF StoppedFor
  <2> QED
    BY <1>1, <2>1, <2>2, StepOfOne DEF Calls
<1>3. CASE CheckVision(j)
  <2>1. /\ pc[j] = "vision" /\ Goes(j, "viewed") /\ torn' = torn
        /\ Calls(j, "vision")
    BY <1>1, <1>3, CallTypes DEF CheckVision, Calls
  <2>2. pc'[j] = "viewed" /\ Moves(j, Stages)
    BY <2>1 DEF ClientsType, Moves, Goes, Stages
  <2>3. StoppedFor(j)'
    BY <2>2 DEF StoppedFor
  <2> QED
    BY <1>1, <2>1, <2>2, <2>3, StepOfOne
<1>4. CASE CloseVision(j) \/ (Raise(j) /\ pc[j] = "viewed")
  <2>1. /\ Becomes(j, "vision", "none") /\ torn' = torn
        /\ Moves(j, {"route", "fail"}) /\ pc[j] = "viewed"
    BY <1>4 DEF CloseVision, Raise, Leave, Close, Moves
  <2>2. pc'[j] \notin {"idle", "tools", "ended"} /\ client'[j]["vision"] = "none"
    BY <1>1, <2>1 DEF ClientsType, Moves, Goes, Becomes
  <2>3. StoppedFor(j)'
    BY <2>2 DEF StoppedFor
  <2>4. Moves(j, Stages) /\ Calls(j, "vision")
    BY <2>1 DEF Moves, Calls, Stages, Working, ClientStates
  <2> QED
    BY <1>1, <2>1, <2>3, <2>4, StepOfOne
<1>5. CASE CloseAgents(j)
  <2>1. /\ pc[j] = "close" /\ Goes(j, "ended") /\ Becomes(j, "agent", "none") /\ torn' = torn
    BY <1>5 DEF CloseAgents, Close
  <2>2. client'[j]["agent"] = "none" /\ client'[j]["vision"] = client[j]["vision"]
    BY <1>1, <2>1 DEF ClientsType, Becomes
  <2>3. StoppedFor(j)'
    BY <2>1, <2>2 DEF StoppedFor
  <2>4. Moves(j, Stages) /\ Calls(j, "agent")
    BY <2>1 DEF Moves, Calls, Stages, ClientStates
  <2> QED
    BY <1>1, <2>1, <2>3, <2>4, StepOfOne
<1>6. CASE CutClosing(j)
  <2>1. Moves(j, Stages) /\ client' = client /\ torn' = torn \cup {j}
    BY <1>6 DEF CutClosing, Leave, Moves, Stages
  <2>2. StoppedFor(j)'
    BY <2>1 DEF StoppedFor
  <2> QED
    BY <1>1, <2>1, <2>2, StepOfOne DEF Calls
<1> QED
  BY <1>2, <1>3, <1>4, <1>5, <1>6

\* The steps of the turn that call no model.
LEMMA QuietSteps ==
  ASSUME ClientsInv, NEW j \in Jobs,
         \/ SelectAgents(j) \/ RouteAlone(j) \/ SdkReports(j) \/ SendToken(j) \/ EndStream(j)
         \/ OtherTool(j) \/ BeginScript(j) \/ EndScript(j) \/ BreakScript(j)
         \/ Save(j) \/ SaveError(j)
         \/ Raise(j) /\ pc[j] # "viewed"
  PROVE  ClientsInv'
<1>1. client' = client /\ torn' = torn /\ pc[j] \notin {"idle", "tools", "viewed", "ended"}
  BY DEF SelectAgents, RouteAlone, SdkReports, SendToken, EndStream, OtherTool, BeginScript,
         EndScript, BreakScript, Save, SaveError, Raise
<1>2. Moves(j, Stages \ {"idle", "tools", "ended"})
  <2>1. CASE SelectAgents(j) \/ SdkReports(j) \/ SendToken(j) \/ EndStream(j) \/ BeginScript(j)
             \/ Save(j) \/ SaveError(j) \/ Raise(j)
    BY <2>1 DEF SelectAgents, SdkReports, SendToken, EndStream, BeginScript, Save, SaveError,
                Raise, Leave, Moves, Stages, Working
  <2>2. CASE RouteAlone(j)
    BY <2>2 DEF RouteAlone, Start, FirstStages, Moves, Stages, Working
  <2>3. CASE OtherTool(j) \/ EndScript(j) \/ BreakScript(j)
    BY <2>3 DEF OtherTool, EndScript, BreakScript, AfterScript, NextStep, Leave, Moves, Stages,
                Working
  <2> QED
    BY <2>1, <2>2, <2>3
<1> QED
  BY <1>1, <1>2, TurnStep DEF Calls, Llms

\* A call of the router or of an agent, which may be cut.
LEMMA ModelSteps ==
  ASSUME ClientsInv, NEW j \in Jobs,
         \/ RouteByModel(j) \/ OpenStream(j) \/ BreakStream(j) \/ ReactAgent(j)
         \/ CodeActCall(j) \/ Summarize(j) \/ Cut(j)
  PROVE  ClientsInv'
<1> DEFINE Inside == Stages \ {"idle", "tools", "ended"}
<1>1. /\ torn' = torn /\ pc[j] \notin {"idle", "tools", "viewed", "ended"}
      /\ {"router", "agent", "bound"} \subseteq Llms \ {"vision"}
      /\ \A l \in Llms : client[j][l] \in ClientStates
  BY DEF RouteByModel, OpenStream, BreakStream, ReactAgent, CodeActCall, Summarize, Cut, Working,
         Llms, ClientsInv, ClientsType
<1>2. CASE RouteByModel(j)
  <2>1. Moves(j, Inside)
    BY <1>2 DEF RouteByModel, Start, FirstStages, Leave, Moves, Stages, Working
  <2>2. Calls(j, "router")
    BY <1>1, <1>2, CallTypes DEF RouteByModel, Calls
  <2> QED
    BY <1>1, <2>1, <2>2, TurnStep
<1>3. CASE ReactAgent(j)
  <2>1. Moves(j, Inside)
    <3>1. AgentCalls(j) \ {"none"} \subseteq {"other", "python"}
      BY DEF AgentCalls, AgentNode, ParseToolCall, HasCode, Answers
    <3> QED
      BY <1>3, <3>1 DEF ReactAgent, NextStep, Leave, Moves, Stages, Working
  <2>2. Calls(j, "bound")
    BY <1>1, <1>3, CallTypes DEF ReactAgent, Calls
  <2> QED
    BY <1>1, <2>1, <2>2, TurnStep
<1>4. CASE OpenStream(j) \/ BreakStream(j) \/ CodeActCall(j) \/ Summarize(j)
  <2>1. Moves(j, Inside)
    BY <1>4 DEF OpenStream, BreakStream, CodeActCall, Summarize, NoCode, Leave, Moves, Stages,
                Working
  <2>2. Calls(j, "agent")
    BY <1>1, <1>4, CallTypes
    DEF OpenStream, BreakStream, CodeActCall, Summarize, Calls, ClientStates
  <2> QED
    BY <1>1, <2>1, <2>2, TurnStep
<1>5. CASE Cut(j)
  <2>1. Moves(j, Inside)
    BY <1>5 DEF Cut, Leave, Moves, Stages
  <2>2. InUse(j) \in Llms \ {"vision"}
    BY DEF InUse, Llms
  <2>3. Calls(j, InUse(j))
    BY <1>1, <1>5, <2>2, CallTypes DEF Cut, Calls
  <2> QED
    BY <1>1, <2>1, <2>2, <2>3, TurnStep
<1> QED
  BY <1>2, <1>3, <1>4, <1>5

\* Every step keeps the invariant of the clients.
LEMMA ClientsInvariance == ClientsInv /\ [Next]_vars => ClientsInv'
<1> SUFFICES ASSUME ClientsInv, [Next]_vars PROVE ClientsInv'
  OBVIOUS
<1>1. CASE UNCHANGED turnVars
  BY <1>1 DEF turnVars, ClientsInv, ClientsType, StoppedFor
<1>2. CASE UNCHANGED vars
  BY <1>1, <1>2 DEF vars
<1>3. ASSUME NEW j \in Jobs, Begin(j) \/ CutEarly(j) \/ CutClosing(j) PROVE ClientsInv'
  BY <1>3, EdgeSteps
<1>4. ASSUME NEW j \in Jobs, Cut(j) PROVE ClientsInv'
  BY <1>4, ModelSteps
<1>5. ASSUME NEW j \in Jobs, Step(j) PROVE ClientsInv'
  <2>1. CASE Raise(j)
    BY <2>1, EdgeSteps, QuietSteps
  <2>2. CASE GetTools(j) \/ CheckVision(j) \/ CloseVision(j) \/ CloseAgents(j)
    BY <2>2, EdgeSteps
  <2>3. CASE \/ SelectAgents(j) \/ RouteAlone(j) \/ SdkReports(j) \/ SendToken(j) \/ EndStream(j)
             \/ OtherTool(j) \/ BeginScript(j) \/ EndScript(j) \/ BreakScript(j)
             \/ Save(j) \/ SaveError(j)
    BY <2>3, QuietSteps
  <2>4. CASE \/ RouteByModel(j) \/ OpenStream(j) \/ BreakStream(j) \/ ReactAgent(j)
             \/ CodeActCall(j) \/ Summarize(j)
    BY <2>4, ModelSteps
  <2> QED
    BY <1>5, <2>1, <2>2, <2>3, <2>4 DEF Step
<1>6. ASSUME NEW j \in Jobs, EndOrphan(j) PROVE ClientsInv'
  BY <1>1, <1>6 DEF EndOrphan
<1> QED
  BY <1>1, <1>2, <1>3, <1>4, <1>5, <1>6 DEF Next

-----------------------------------------------------------------------------
(* The streams *)

\* The deltas are counted up to their bound.
LEMMA DeltasWithin ==
  ASSUME NEW s \in AnyStream, s.deltas <= MaxDeltas
  PROVE  /\ s.deltas < MaxDeltas => OnDelta(s).deltas <= MaxDeltas
         /\ OnMessage(s).deltas <= MaxDeltas
         /\ OnIdle(s).deltas <= MaxDeltas
         /\ Yield(s).deltas <= MaxDeltas
<1>1. /\ OnDelta(s).deltas = s.deltas + 1 /\ OnMessage(s).deltas = s.deltas
      /\ OnIdle(s).deltas = s.deltas /\ Yield(s).deltas = s.deltas
  BY DEF OnDelta, OnMessage, OnIdle, Yield, AnyStream
<1> QED
  BY <1>1, CopilotAssumption DEF AnyStream

\* The elements of two lists behind each other.
LEMMA ConcatParts ==
  ASSUME NEW S, NEW t \in Seq(S), NEW q \in Seq(S)
  PROVE  /\ Len(t \o q) = Len(t) + Len(q)
         /\ \A i \in 1 .. Len(t) : (t \o q)[i] = t[i]
         /\ \A i \in 1 .. Len(q) : (t \o q)[Len(t) + i] = q[i]
<1>1. Len(t) \in Nat /\ Len(q) \in Nat
  BY LenProperties
<1>2. /\ Len(t \o q) = Len(t) + Len(q)
      /\ \A i \in 1 .. Len(t) + Len(q) :
           (t \o q)[i] = IF i <= Len(t) THEN t[i] ELSE q[i - Len(t)]
  BY ConcatProperties
<1>3. \A i \in 1 .. Len(t) : i \in 1 .. Len(t) + Len(q) /\ i <= Len(t)
  BY <1>1
<1>4. \A i \in 1 .. Len(q) : /\ Len(t) + i \in 1 .. Len(t) + Len(q)
                             /\ ~(Len(t) + i <= Len(t)) /\ Len(t) + i - Len(t) = i
  BY <1>1
<1> QED
  BY <1>2, <1>3, <1>4

\* One more element at the end of a list.
LEMMA OneBehind ==
  ASSUME NEW S, NEW t \in Seq(S), NEW q \in Seq(S), Len(q) = 1
  PROVE  /\ Len(t \o q) = Len(t) + 1
         /\ (t \o q)[Len(t) + 1] = q[1]
<1>1. Len(t) \in Nat
  BY LenProperties
<1>2. /\ Len(t \o q) = Len(t) + Len(q)
      /\ \A i \in 1 .. Len(t) + Len(q) :
           (t \o q)[i] = IF i <= Len(t) THEN t[i] ELSE q[i - Len(t)]
  BY ConcatProperties
<1>3. Len(t) + 1 \in 1 .. Len(t) + Len(q) /\ ~(Len(t) + 1 <= Len(t)) /\ Len(t) + 1 - Len(t) = 1
  BY <1>1
<1> QED
  BY <1>2, <1>3

\* Once the session is idle there is an end mark in the queue, which is not told: what is
\* told is taken from before it.
LEMMA EndRemains ==
  /\ \A s \in AnyStream : OnIdle(s).queue # <<>>
  /\ \A s : Flows(s) /\ s.idle /\ s.queue \notin {<<>>, <<End>>} => Yield(s).queue # <<>>
<1>1. ASSUME NEW s \in AnyStream PROVE OnIdle(s).queue # <<>>
  <2> DEFINE last == IF s.deltas > 0 THEN <<>> ELSE IF s.whole THEN <<Whole>> ELSE <<Sorry>>
  <2>1. OnIdle(s).queue = (s.queue \o last) \o <<End>>
    BY DEF OnIdle, AnyStream
  <2>2. s.queue \o last \in Seq(Items)
    BY ItemTypes, ConcatProperties DEF AnyStream
  <2> HIDE DEF last
  <2>3. Len((s.queue \o last) \o <<End>>) = Len(s.queue \o last) + 1
    BY <2>2, ItemTypes
  <2> QED
    BY <2>1, <2>2, <2>3
<1>2. ASSUME NEW s, Flows(s), s.idle, s.queue \notin {<<>>, <<End>>} PROVE Yield(s).queue # <<>>
  <2>1. s.told \in Seq(Items) /\ s.queue \in Seq(Items) /\ Yield(s).queue = Tail(s.queue)
    BY <1>2 DEF Flows, AnyStream, Yield
  <2>2. PICK all \in Seq(Items) : s.told \o s.queue = all \o <<End>>
    BY <1>2 DEF Flows
  <2>3. Len(s.queue) # 1
    <3>1. SUFFICES ASSUME Len(s.queue) = 1 PROVE FALSE
      OBVIOUS
    <3>2. /\ Len(s.told \o s.queue) = Len(s.told) + 1
          /\ (s.told \o s.queue)[Len(s.told) + 1] = s.queue[1]
      BY <2>1, <3>1, OneBehind
    <3>3. /\ Len(all \o <<End>>) = Len(all) + 1
          /\ (all \o <<End>>)[Len(all) + 1] = End
      <4>1. <<End>> \in Seq(Items) /\ Len(<<End>>) = 1 /\ <<End>>[1] = End
        BY ItemTypes
      <4> HIDE DEF End
      <4> QED
        BY <4>1, OneBehind
    <3>4. Len(all) = Len(s.told)
      <4>1. Len(all) \in Nat /\ Len(s.told) \in Nat
        BY <2>1, LenProperties
      <4> QED
        BY <2>2, <3>2, <3>3, <4>1
    <3>5. s.queue[1] = End
      BY <2>2, <3>2, <3>3, <3>4
    <3>6. s.queue = <<End>>
      BY <2>1, <3>1, <3>5
    <3> QED
      BY <1>2, <3>6
  <2>4. Len(s.queue) \in Nat \ {0, 1}
    BY <1>2, <2>1, <2>3, EmptySeq
  <2>5. Len(Tail(s.queue)) = Len(s.queue) - 1
    BY <1>2, <2>1, HeadTailProperties
  <2>6. Len(Tail(s.queue)) # 0
    BY <2>4, <2>5
  <2>7. Len(<<>>) = 0
    OBVIOUS
  <2>8. Tail(s.queue) # <<>>
    BY <2>6, <2>7, Zenon
  <2> QED
    BY <2>1, <2>8
<1> QED
  BY <1>1, <1>2

\* A step of one job keeps the invariant when it keeps it for that job.
LEMMA StreamOfOne ==
  ASSUME StreamsInv, NEW j \in Jobs, NEW s \in AnyStream, Moves(j, Stages),
         stream' = [stream EXCEPT ![j] = s], StreamOf(j)'
  PROVE  StreamsInv'
<1> USE DEF StreamsInv
<1>1. pc' \in [Jobs -> Stages] /\ \A d \in Jobs \ {j} : pc'[d] = pc[d]
  BY DEF Moves, Goes
<1>2. stream' \in [Jobs -> AnyStream] /\ \A d \in Jobs \ {j} : stream'[d] = stream[d]
  OBVIOUS
<1>3. \A d \in Jobs : StreamOf(d)'
  BY <1>1, <1>2 DEF StreamOf
<1> QED
  BY <1>1, <1>2, <1>3

\* A step that is neither of the stream nor of what follows it.
LEMMA StillStep ==
  ASSUME StreamsInv, NEW j \in Jobs, pc[j] \notin {"stream", "save", "fail"}, Moves(j, Stages),
         stream' = stream
  PROVE  StreamsInv'
<1> USE DEF StreamsInv
<1>1. StreamOf(j)'
  BY DEF StreamOf
<1>2. stream' = [stream EXCEPT ![j] = stream[j]] /\ stream[j] \in AnyStream
  OBVIOUS
<1> QED
  BY <1>1, <1>2, StreamOfOne

\* Nothing is streamed yet.
LEMMA StreamsInitially == Init => StreamsInv
<1>1. NoStream \in AnyStream /\ ~NoStream.idle /\ NoStream.deltas <= MaxDeltas
  BY NoStreamFlows, CopilotAssumption DEF Flows, NoStream
<1> QED
  BY <1>1, NoStreamFlows DEF Init, StreamsInv, StreamOf, Stages

\* The steps before and behind the stream.
LEMMA StillSteps ==
  ASSUME StreamsInv, NEW j \in Jobs,
         \/ Begin(j) \/ GetTools(j) \/ SelectAgents(j) \/ CheckVision(j) \/ CloseVision(j)
         \/ RouteAlone(j) \/ RouteByModel(j) \/ OpenStream(j) \/ ReactAgent(j) \/ OtherTool(j)
         \/ CodeActCall(j) \/ Summarize(j) \/ BeginScript(j) \/ EndScript(j) \/ BreakScript(j)
         \/ CloseAgents(j) \/ CutEarly(j) \/ CutClosing(j)
         \/ Raise(j) /\ pc[j] # "stream"
  PROVE  StreamsInv'
<1>1. pc[j] \notin {"stream", "save", "fail"} /\ stream' = stream
  BY DEF Begin, GetTools, SelectAgents, CheckVision, CloseVision, RouteAlone, RouteByModel,
         OpenStream, ReactAgent, OtherTool, CodeActCall, Summarize, BeginScript, EndScript,
         BreakScript, CloseAgents, CutEarly, CutClosing, Raise
<1>2. Moves(j, Stages)
  <2>1. CASE \/ Begin(j) \/ GetTools(j) \/ SelectAgents(j) \/ CheckVision(j) \/ CloseVision(j)
             \/ OpenStream(j) \/ CodeActCall(j) \/ Summarize(j) \/ BeginScript(j)
             \/ CloseAgents(j) \/ CutEarly(j) \/ CutClosing(j) \/ Raise(j)
    BY <2>1 DEF Begin, GetTools, SelectAgents, CheckVision, CloseVision, OpenStream, CodeActCall,
                NoCode, Summarize, BeginScript, CloseAgents, CutEarly, CutClosing, Raise, Leave,
                Moves, Stages, Working
  <2>2. CASE RouteAlone(j) \/ RouteByModel(j)
    BY <2>2 DEF RouteAlone, RouteByModel, Start, FirstStages, Leave, Moves, Stages, Working
  <2>3. CASE OtherTool(j) \/ EndScript(j) \/ BreakScript(j)
    BY <2>3 DEF OtherTool, EndScript, BreakScript, AfterScript, NextStep, Leave, Moves, Stages,
                Working
  <2>4. CASE ReactAgent(j)
    <3>1. AgentCalls(j) \ {"none"} \subseteq {"other", "python"}
      BY DEF AgentCalls, AgentNode, ParseToolCall, HasCode, Answers
    <3> QED
      BY <2>4, <3>1 DEF ReactAgent, NextStep, Leave, Moves, Stages, Working
  <2> QED
    BY <2>1, <2>2, <2>3, <2>4
<1> QED
  BY <1>1, <1>2, StillStep

\* The events of the session and the chunks that are told.
LEMMA StreamSteps ==
  ASSUME StreamsInv, NEW j \in Jobs, SdkReports(j) \/ SendToken(j)
  PROVE  StreamsInv'
<1> USE DEF StreamsInv
<1>1. Flows(stream[j]) /\ pc[j] = "stream" /\ pc' = pc /\ Moves(j, Stages)
  BY DEF StreamOf, SdkReports, SendToken, Moves
<1>2. PICK s : /\ stream' = [stream EXCEPT ![j] = s] /\ Flows(s)
               /\ s.deltas <= MaxDeltas /\ (s.idle => s.queue # <<>>)
  <2>1. CASE SdkReports(j)
    <3>1. stream[j] \in AnyStream /\ stream[j].deltas <= MaxDeltas /\ ~stream[j].idle
      BY <2>1 DEF StreamOf, SdkReports
    <3>2. CASE stream[j].deltas < MaxDeltas /\ stream' = [stream EXCEPT ![j] = OnDelta(@)]
      BY <1>1, <3>1, <3>2, OnDeltaFlows, DeltasWithin
    <3>3. CASE stream' = [stream EXCEPT ![j] = OnMessage(@)]
      BY <1>1, <3>1, <3>3, OnMessageFlows, DeltasWithin
    <3>4. CASE stream' = [stream EXCEPT ![j] = OnIdle(@)]
      BY <1>1, <3>1, <3>4, OnIdleFlows, DeltasWithin, EndRemains
    <3> QED
      BY <2>1, <3>2, <3>3, <3>4 DEF SdkReports
  <2>2. CASE SendToken(j)
    <3>1. /\ stream' = [stream EXCEPT ![j] = Yield(@)] /\ stream[j] \in AnyStream
          /\ stream[j].queue \notin {<<>>, <<End>>} /\ stream[j].deltas <= MaxDeltas
      BY <2>2 DEF StreamOf, SendToken
    <3> QED
      BY <1>1, <3>1, YieldFlows, DeltasWithin, EndRemains
  <2> QED
    BY <2>1, <2>2
<1>3. s \in AnyStream /\ stream'[j] = s
  BY <1>2 DEF Flows
<1>4. StreamOf(j)'
  BY <1>1, <1>2, <1>3 DEF StreamOf
<1> QED
  BY <1>1, <1>2, <1>3, <1>4, StreamOfOne

\* The stream is left when it is read to its end, or broken.
LEMMA LeaveStream ==
  ASSUME StreamsInv, NEW j \in Jobs,
         \/ EndStream(j)
         \/ BreakStream(j)
         \/ Raise(j) /\ pc[j] = "stream"
  PROVE  StreamsInv'
<1> USE DEF StreamsInv
<1>1. stream' = stream /\ stream' = [stream EXCEPT ![j] = stream[j]] /\ stream[j] \in AnyStream
  BY DEF EndStream, BreakStream, Raise
<1>2. Moves(j, Stages)
  BY DEF EndStream, BreakStream, Raise, Leave, Moves, Stages
<1>3. pc'[j] = "fail" \/ (pc'[j] = "save" /\ stream[j].queue = <<End>>)
  BY DEF EndStream, BreakStream, Raise, Leave, Goes
<1>4. StreamOf(j)'
  BY <1>1, <1>3 DEF StreamOf
<1> QED
  BY <1>1, <1>2, <1>4, StreamOfOne

\* What was streamed is forgotten with the result, or with a cancelled turn.
LEMMA ForgetStream ==
  ASSUME StreamsInv, NEW j \in Jobs, Save(j) \/ SaveError(j) \/ Cut(j)
  PROVE  StreamsInv'
<1> USE DEF StreamsInv
<1>1. stream' = [stream EXCEPT ![j] = NoStream] /\ Moves(j, Stages)
  BY DEF Save, SaveError, Cut, Leave, Moves, Stages
<1>2. NoStream \in AnyStream /\ ~NoStream.idle /\ NoStream.deltas <= MaxDeltas
  BY NoStreamFlows, CopilotAssumption DEF Flows, NoStream
<1>3. stream'[j] = NoStream
  BY <1>1
<1>4. StreamOf(j)'
  BY <1>2, <1>3, NoStreamFlows DEF StreamOf
<1> QED
  BY <1>1, <1>2, <1>4, StreamOfOne

\* Every step keeps the invariant of the streams.
LEMMA StreamsInvariance == StreamsInv /\ [Next]_vars => StreamsInv'
<1> SUFFICES ASSUME StreamsInv, [Next]_vars PROVE StreamsInv'
  OBVIOUS
<1>1. CASE UNCHANGED turnVars
  BY <1>1 DEF turnVars, StreamsInv, StreamOf
<1>2. CASE UNCHANGED vars
  BY <1>1, <1>2 DEF vars
<1>3. ASSUME NEW j \in Jobs, Begin(j) \/ CutEarly(j) \/ CutClosing(j) PROVE StreamsInv'
  BY <1>3, StillSteps
<1>4. ASSUME NEW j \in Jobs, Cut(j) PROVE StreamsInv'
  BY <1>4, ForgetStream
<1>5. ASSUME NEW j \in Jobs, Step(j) PROVE StreamsInv'
  <2>1. CASE \/ GetTools(j) \/ SelectAgents(j) \/ CheckVision(j) \/ CloseVision(j)
             \/ RouteAlone(j) \/ RouteByModel(j) \/ OpenStream(j) \/ ReactAgent(j) \/ OtherTool(j)
             \/ CodeActCall(j) \/ Summarize(j) \/ BeginScript(j) \/ EndScript(j) \/ BreakScript(j)
             \/ CloseAgents(j)
    BY <2>1, StillSteps
  <2>2. CASE SdkReports(j) \/ SendToken(j)
    BY <2>2, StreamSteps
  <2>3. CASE EndStream(j) \/ BreakStream(j)
    BY <2>3, LeaveStream
  <2>4. CASE Save(j) \/ SaveError(j)
    BY <2>4, ForgetStream
  <2>5. CASE Raise(j)
    BY <2>5, StillSteps, LeaveStream
  <2> QED
    BY <1>5, <2>1, <2>2, <2>3, <2>4, <2>5 DEF Step
<1>6. ASSUME NEW j \in Jobs, EndOrphan(j) PROVE StreamsInv'
  BY <1>1, <1>6 DEF EndOrphan
<1> QED
  BY <1>1, <1>2, <1>3, <1>4, <1>5, <1>6 DEF Next

-----------------------------------------------------------------------------
(* The turn *)

\* A step of one job keeps the invariant when it keeps it for that job.
LEMMA TurnOfOne ==
  ASSUME TurnsInv, NEW j \in Jobs, NEW t \in Turns, turn' = [turn EXCEPT ![j] = t],
         NEW stage \in Stages, pc' = [pc EXCEPT ![j] = stage], TurnOf(j)',
         toolEvent' \subseteq toolEvent \cup {j}, j \in toolEvent' => stage \in Working
  PROVE  TurnsInv'
<1> USE DEF TurnsInv
<1>1. /\ pc' \in [Jobs -> Stages] /\ pc'[j] = stage
      /\ \A d \in Jobs \ {j} : pc'[d] = pc[d]
  OBVIOUS
<1>2. turn' \in [Jobs -> Turns] /\ \A d \in Jobs \ {j} : turn'[d] = turn[d]
  OBVIOUS
<1>3. \A d \in Jobs : TurnOf(d)'
  BY <1>1, <1>2 DEF TurnOf
<1>4. toolEvent' \in SUBSET {d \in Jobs : pc'[d] \in Working}
  BY <1>1
<1> QED
  BY <1>1, <1>2, <1>3, <1>4

\* The turn stays as it is.
LEMMA TurnKept ==
  ASSUME TurnsInv, NEW j \in Jobs, turn' = turn,
         NEW stage \in Stages, pc' = [pc EXCEPT ![j] = stage], TurnOf(j)',
         toolEvent' \subseteq toolEvent \cup {j}, j \in toolEvent' => stage \in Working
  PROVE  TurnsInv'
<1>1. turn[j] \in Turns /\ turn' = [turn EXCEPT ![j] = turn[j]]
  BY DEF TurnsInv
<1> QED
  BY <1>1, TurnOfOne

\* Nothing of a turn that is left stays.
LEMMA TurnLeft ==
  ASSUME TurnsInv, NEW j \in Jobs, NEW stage \in Stages \ Working, Leave(j, stage)
  PROVE  TurnsInv'
<1>1. NoTurn \in Turns /\ NoTurn.steps = 0 /\ NoTurn.agent = None
  BY DEF NoTurn, Turns
<1>2. turn'[j] = NoTurn /\ pc'[j] = stage
  BY DEF Leave, Goes, TurnsInv
<1>3. turn'[j].steps = 0
  BY <1>1, <1>2
<1>4. TurnOf(j)'
  BY <1>2, <1>3, OrchestratorAssumption DEF TurnOf, Working
<1> QED
  BY <1>1, <1>4, TurnOfOne DEF Leave, Goes

\* A super-step more, below the limit, or the end of the turn.
LEMMA TurnStepped ==
  ASSUME TurnsInv, NEW j \in Jobs, turn[j].agent \in React,
         NEW stage \in {"react", "other", "python"}, NextStep(j, stage)
  PROVE  TurnsInv'
<1>1. CASE turn[j].steps + 1 < RecursionLimit
  <2> DEFINE n == turn[j].steps + 1
             t == [turn[j] EXCEPT !.steps = n]
  <2>1. turn[j] \in Turns /\ turn[j].steps \in Nat
    BY DEF TurnsInv, Turns
  <2>2. n \in Nat /\ n < RecursionLimit
    BY <1>1, <2>1
  <2> HIDE DEF n
  <2>3. t \in Turns /\ t.agent = turn[j].agent /\ t.steps = n
    BY <2>1, <2>2 DEF Turns
  <2>4. /\ pc' = [pc EXCEPT ![j] = stage] /\ turn' = [turn EXCEPT ![j] = t]
        /\ toolEvent' \subseteq toolEvent \cup {j}
    BY <1>1 DEF NextStep, Goes, n
  <2> HIDE DEF t
  <2>5. turn'[j] = t /\ pc'[j] = stage
    BY <2>4 DEF TurnsInv
  <2>6. turn[j].agent \notin CodeAct
    BY OrchestratorAssumption
  <2>7. TurnOf(j)'
    BY <2>2, <2>3, <2>5, <2>6 DEF TurnOf
  <2> QED
    BY <2>3, <2>4, <2>7, TurnOfOne DEF Stages, Working
<1>2. CASE ~(turn[j].steps + 1 < RecursionLimit)
  <2>1. Leave(j, "save") /\ "save" \in Stages \ Working
    BY <1>2 DEF NextStep, Stages, Working
  <2> QED
    BY <2>1, TurnLeft
<1> QED
  BY <1>1, <1>2

\* An agent of the registry starts with no step done, at a stage of its kind.
LEMMA TurnStarted ==
  ASSUME TurnsInv, NEW j \in Jobs, pc[j] = "route", NEW a \in turn[j].registry, Start(j, a)
  PROVE  TurnsInv'
<1>1. turn[j] \in Turns /\ a \in Agents \cup Gems /\ turn[j].tools \in {None, "startup", "own"}
  BY DEF TurnsInv, Turns
<1>2. PICK stage \in FirstStages(j, a), python \in BOOLEAN :
        /\ Goes(j, stage) /\ toolEvent' = toolEvent
        /\ turn' = [turn EXCEPT ![j] =
              [tools |-> IF stage = "run" THEN None ELSE @.tools, registry |-> {a}, agent |-> a,
               python |-> python, steps |-> 0]]
  BY DEF Start
<1> DEFINE tools == IF stage = "run" THEN None ELSE turn[j].tools
           t == [tools |-> tools, registry |-> {a}, agent |-> a, python |-> python, steps |-> 0]
<1>3. tools \in {None, "startup", "own"}
  BY <1>1
<1>4. turn' = [turn EXCEPT ![j] = t]
  BY <1>2
<1> HIDE DEF tools
<1>5. t \in Turns /\ t.agent = a /\ t.steps = 0
  BY <1>1, <1>3 DEF Turns
<1> HIDE DEF t
<1>6. /\ stage \in {"run", "react", "codeact"}
      /\ stage = "react" => a \in React
      /\ stage = "codeact" => a \in CodeAct
  BY DEF FirstStages
<1>7. turn'[j] = t /\ pc'[j] = stage
  BY <1>2, <1>4 DEF TurnsInv, Goes
<1>8. TurnOf(j)'
  BY <1>5, <1>6, <1>7, OrchestratorAssumption DEF TurnOf
<1>9. j \notin toolEvent
  BY DEF TurnsInv, Working
<1> QED
  BY <1>2, <1>4, <1>5, <1>6, <1>8, <1>9, TurnOfOne DEF Goes, Stages, Working

\* No turn has begun.
LEMMA TurnsInitially == Init => TurnsInv
<1>1. NoTurn \in Turns /\ NoTurn.steps = 0 /\ NoTurn.agent = None
  BY DEF NoTurn, Turns
<1>2. "idle" \in Stages \ Working
  BY DEF Stages, Working
<1> SUFFICES ASSUME Init PROVE TurnsInv
  OBVIOUS
<1>3. \A j \in Jobs : turn[j].steps = 0 /\ pc[j] = "idle"
  BY <1>1 DEF Init
<1>4. \A j \in Jobs : TurnOf(j)
  <2>1. 0 < MaxIterations /\ 0 < RecursionLimit
    BY OrchestratorAssumption
  <2> QED
    BY <1>3, <2>1 DEF TurnOf
<1> QED
  BY <1>1, <1>2, <1>4 DEF Init, TurnsInv

\* The steps before an agent runs, and those behind the graph.
LEMMA TurnEdges ==
  ASSUME TurnsInv, NEW j \in Jobs,
         \/ Begin(j) \/ GetTools(j) \/ SelectAgents(j) \/ CheckVision(j) \/ CloseVision(j)
         \/ Save(j) \/ SaveError(j) \/ CloseAgents(j) \/ CutEarly(j)
  PROVE  TurnsInv'
<1>1. PICK stage \in Stages \ Working : Goes(j, stage)
  BY DEF Begin, GetTools, SelectAgents, CheckVision, CloseVision, Save, SaveError, CloseAgents,
         CutEarly, Stages, Working
<1>2. pc[j] \notin Working /\ toolEvent' = toolEvent
  BY DEF Begin, GetTools, SelectAgents, CheckVision, CloseVision, Save, SaveError, CloseAgents,
         CutEarly, Working
<1>3. j \notin toolEvent /\ pc'[j] = stage /\ turn[j] \in Turns
  BY <1>1, <1>2 DEF TurnsInv, Goes
<1>4. PICK t \in Turns : /\ turn' = [turn EXCEPT ![j] = t]
                         /\ t.agent = turn[j].agent /\ t.steps = turn[j].steps
  <2>1. CASE GetTools(j)
    <3>1. PICK u \in StartupTools \cup {"own"}, loaded \in SUBSET Agents :
            turn' = [turn EXCEPT ![j].tools = u, ![j].registry = loaded]
      BY <2>1 DEF GetTools
    <3> DEFINE t == [[turn[j] EXCEPT !.tools = u] EXCEPT !.registry = loaded]
    <3>2. turn' = [turn EXCEPT ![j] = t]
      BY <1>3, <3>1 DEF TurnsInv
    <3>3. t \in Turns /\ t.agent = turn[j].agent /\ t.steps = turn[j].steps
      BY <1>3 DEF Turns, StartupTools
    <3> QED
      BY <3>2, <3>3
  <2>2. CASE SelectAgents(j)
    <3>1. PICK gems \in SUBSET Gems, asked \in SUBSET Agents :
            turn' = [turn EXCEPT ![j].registry = Filtered(turn[j].registry, gems, asked)]
      BY <2>2 DEF SelectAgents
    <3> DEFINE chosen == Filtered(turn[j].registry, gems, asked)
    <3>2. chosen \in SUBSET (Agents \cup Gems)
      BY <1>3 DEF Filtered, Turns
    <3> HIDE DEF chosen
    <3> DEFINE t == [turn[j] EXCEPT !.registry = chosen]
    <3>3. turn' = [turn EXCEPT ![j] = t]
      BY <3>1 DEF chosen
    <3>4. t \in Turns /\ t.agent = turn[j].agent /\ t.steps = turn[j].steps
      BY <1>3, <3>2 DEF Turns
    <3> QED
      BY <3>3, <3>4
  <2>3. CASE ~GetTools(j) /\ ~SelectAgents(j)
    <3>1. turn' = turn
      BY <2>3 DEF Begin, CheckVision, CloseVision, Save, SaveError, CloseAgents, CutEarly
    <3>2. turn' = [turn EXCEPT ![j] = turn[j]]
      BY <3>1 DEF TurnsInv
    <3> QED
      BY <1>3, <3>2
  <2> QED
    BY <2>1, <2>2, <2>3
<1>5. turn'[j] = t
  BY <1>4 DEF TurnsInv
<1>6. TurnOf(j)'
  BY <1>3, <1>4, <1>5 DEF TurnsInv, TurnOf, Working
<1> QED
  BY <1>1, <1>2, <1>3, <1>4, <1>6, TurnOfOne DEF Goes

\* The steps that leave the graph, whatever they met.
LEMMA TurnExits ==
  ASSUME TurnsInv, NEW j \in Jobs,
         \/ EndStream(j) \/ BreakStream(j) \/ Summarize(j) \/ Raise(j) \/ Cut(j) \/ CutClosing(j)
  PROVE  TurnsInv'
<1>1. PICK stage \in {"save", "fail", "close", "ended"} : Leave(j, stage)
  BY DEF EndStream, BreakStream, Summarize, Raise, Cut, CutClosing
<1>2. stage \in Stages \ Working
  BY DEF Stages, Working
<1> QED
  BY <1>1, <1>2, TurnLeft

\* The steps of the router and of the stream.
LEMMA TurnRoutes ==
  ASSUME TurnsInv, NEW j \in Jobs,
         \/ RouteAlone(j) \/ RouteByModel(j) \/ OpenStream(j) \/ SdkReports(j) \/ SendToken(j)
  PROVE  TurnsInv'
<1>1. CASE RouteAlone(j)
  BY <1>1, TurnStarted DEF RouteAlone
<1>2. ASSUME NEW stage \in {"save", "fail"}, Leave(j, stage) PROVE TurnsInv'
  BY <1>2, TurnLeft DEF Stages, Working
<1>3. CASE RouteByModel(j)
  BY <1>2, <1>3, TurnStarted DEF RouteByModel
<1>4. CASE OpenStream(j)
  <2>1. pc[j] = "run" /\ (Leave(j, "fail") \/ (Goes(j, "stream") /\ UNCHANGED <<turn, toolEvent>>))
    BY <1>4 DEF OpenStream
  <2>2. CASE Goes(j, "stream") /\ UNCHANGED <<turn, toolEvent>>
    <3>1. pc'[j] = "stream" /\ j \notin toolEvent
      BY <2>1, <2>2 DEF Goes, TurnsInv, Working
    <3>2. TurnOf(j)'
      BY <2>2, <3>1 DEF TurnsInv, TurnOf
    <3> QED
      BY <2>2, <3>1, <3>2, TurnKept DEF Goes, Stages
  <2> QED
    BY <1>2, <2>1, <2>2
<1>5. CASE SdkReports(j) \/ SendToken(j)
  BY <1>5 DEF SdkReports, SendToken, TurnsInv, TurnOf
<1> QED
  BY <1>1, <1>3, <1>4, <1>5

\* The steps of an agent that loops over its tools or its code.
LEMMA TurnLoops ==
  ASSUME TurnsInv, NEW j \in Jobs,
         \/ ReactAgent(j) \/ OtherTool(j) \/ CodeActCall(j)
         \/ BeginScript(j) \/ EndScript(j) \/ BreakScript(j)
  PROVE  TurnsInv'
<1>1. ASSUME NEW stage \in {"save", "fail"}, Leave(j, stage) PROVE TurnsInv'
  BY <1>1, TurnLeft DEF Stages, Working
<1>2. CASE ReactAgent(j)
  <2>1. AgentCalls(j) \ {"none"} \subseteq {"other", "python"}
    BY DEF AgentCalls, AgentNode, ParseToolCall, HasCode, Answers
  <2>2. turn[j].agent \in React
    BY <1>2 DEF ReactAgent, TurnsInv, TurnOf
  <2> QED
    BY <1>1, <1>2, <2>1, <2>2, TurnStepped DEF ReactAgent
<1>3. CASE OtherTool(j)
  BY <1>3, TurnStepped DEF OtherTool, TurnsInv, TurnOf
<1>4. ASSUME NEW stage \in {"codeact", "python", "summary", "exec"}, Goes(j, stage),
             turn[j].agent \in React => stage = "exec",
             pc[j] \in {"codeact", "python", "exec"},
             UNCHANGED turn, toolEvent' \subseteq toolEvent \cup {j}
      PROVE  TurnsInv'
  <2>1. pc'[j] = stage
    BY <1>4 DEF Goes, TurnsInv
  <2>2. TurnOf(j)'
    BY <1>4, <2>1 DEF TurnsInv, TurnOf
  <2> QED
    BY <1>4, <2>2, TurnKept DEF Goes, Stages, Working
\* A code agent goes on with one iteration more.
<1>5. ASSUME turn[j].agent \in CodeAct, turn[j].steps + 1 < MaxIterations,
             turn' = [turn EXCEPT ![j].steps = @ + 1],
             NEW stage \in {"codeact"}, pc' = [pc EXCEPT ![j] = stage], UNCHANGED toolEvent
      PROVE  TurnsInv'
  <2> DEFINE n == turn[j].steps + 1
             t == [turn[j] EXCEPT !.steps = n]
  <2>1. turn[j] \in Turns /\ n \in Nat /\ turn' = [turn EXCEPT ![j] = t]
    BY <1>5 DEF TurnsInv, Turns
  <2>2. n < MaxIterations
    BY <1>5
  <2> HIDE DEF n
  <2>3. t \in Turns /\ t.agent = turn[j].agent /\ t.steps = n
    BY <2>1 DEF Turns
  <2> HIDE DEF t
  <2>4. turn'[j] = t /\ pc'[j] = "codeact"
    BY <1>5, <2>1 DEF TurnsInv
  <2>5. TurnOf(j)'
    BY <1>5, <2>2, <2>3, <2>4 DEF TurnOf
  <2> QED
    BY <1>5, <2>1, <2>3, <2>5, TurnOfOne DEF Stages, Working
<1>6. CASE CodeActCall(j)
  <2>1. turn[j].agent \in CodeAct /\ turn[j].agent \notin React /\ pc[j] = "codeact"
    BY <1>6, OrchestratorAssumption DEF CodeActCall, TurnsInv, TurnOf
  <2>2. \/ Leave(j, "fail") \/ Leave(j, "save") \/ NoCode(j)
        \/ Goes(j, "python") /\ toolEvent' = toolEvent \cup {j} /\ UNCHANGED turn
    BY <1>6 DEF CodeActCall
  <2>3. CASE NoCode(j)
    <3>1. CASE turn[j].steps = 0 /\ MaxIterations > 1
      <4> DEFINE t == [turn[j] EXCEPT !.steps = 1]
      <4>1. turn[j] \in Turns /\ turn' = [turn EXCEPT ![j] = t]
        BY <2>3, <3>1 DEF NoCode, TurnsInv
      <4>2. t \in Turns /\ t.agent = turn[j].agent /\ t.steps = 1
        BY <4>1 DEF Turns
      <4> HIDE DEF t
      <4>3. turn'[j] = t /\ UNCHANGED <<pc, toolEvent>>
        BY <2>3, <3>1, <4>1 DEF NoCode, TurnsInv
      <4>4. 1 < MaxIterations
        BY <3>1, OrchestratorAssumption
      <4>5. TurnOf(j)'
        BY <2>1, <4>2, <4>3, <4>4 DEF TurnOf
      <4>6. pc' = [pc EXCEPT ![j] = "codeact"]
        BY <2>1, <4>3 DEF TurnsInv
      <4> QED
        BY <4>1, <4>2, <4>3, <4>5, <4>6, TurnOfOne DEF Stages, Working
    <3> QED
      BY <1>1, <2>3, <3>1 DEF NoCode
  <2> QED
    BY <1>1, <1>4, <2>1, <2>2, <2>3
<1>7. CASE BeginScript(j)
  BY <1>4, <1>7 DEF BeginScript
<1>8. ASSUME NEW ok \in BOOLEAN, AfterScript(j, ok), pc[j] = "exec" PROVE TurnsInv'
  <2>1. CASE turn[j].agent \in React
    BY <1>8, <2>1, TurnStepped DEF AfterScript
  <2>2. CASE turn[j].agent \notin React
    <3>1. turn[j].agent \in CodeAct /\ turn[j].steps \in Nat
      BY <1>8, <2>2 DEF TurnsInv, TurnOf, Turns
    <3>2. CASE Goes(j, "summary") /\ UNCHANGED turn /\ UNCHANGED toolEvent
      BY <1>4, <1>8, <2>2, <3>2
    <3>3. CASE /\ turn[j].steps < MaxIterations - 1 /\ Goes(j, "codeact")
               /\ turn' = [turn EXCEPT ![j].steps = @ + 1] /\ UNCHANGED toolEvent
      <4>1. turn[j].steps + 1 < MaxIterations
        BY <3>1, <3>3, OrchestratorAssumption
      <4> QED
        BY <1>5, <3>1, <3>3, <4>1 DEF Goes
    <3> QED
      BY <1>8, <2>2, <3>2, <3>3 DEF AfterScript
  <2> QED
    BY <2>1, <2>2
<1>9. CASE EndScript(j)
  BY <1>8, <1>9 DEF EndScript
<1>10. CASE BreakScript(j)
  BY <1>1, <1>8, <1>10 DEF BreakScript
<1> QED
  BY <1>2, <1>3, <1>6, <1>7, <1>9, <1>10

\* Every step keeps the invariant of the turns.
LEMMA TurnsInvariance == TurnsInv /\ [Next]_vars => TurnsInv'
<1> SUFFICES ASSUME TurnsInv, [Next]_vars PROVE TurnsInv'
  OBVIOUS
<1>1. CASE UNCHANGED turnVars
  BY <1>1 DEF turnVars, TurnsInv, TurnOf
<1>2. CASE UNCHANGED vars
  BY <1>1, <1>2 DEF vars
<1>3. ASSUME NEW j \in Jobs, Begin(j) \/ CutEarly(j) PROVE TurnsInv'
  BY <1>3, TurnEdges
<1>4. ASSUME NEW j \in Jobs, Cut(j) \/ CutClosing(j) PROVE TurnsInv'
  BY <1>4, TurnExits
<1>5. ASSUME NEW j \in Jobs, Step(j) PROVE TurnsInv'
  <2>1. CASE \/ GetTools(j) \/ SelectAgents(j) \/ CheckVision(j) \/ CloseVision(j)
             \/ Save(j) \/ SaveError(j) \/ CloseAgents(j)
    BY <2>1, TurnEdges
  <2>2. CASE RouteAlone(j) \/ RouteByModel(j) \/ OpenStream(j) \/ SdkReports(j) \/ SendToken(j)
    BY <2>2, TurnRoutes
  <2>3. CASE EndStream(j) \/ BreakStream(j) \/ Summarize(j) \/ Raise(j)
    BY <2>3, TurnExits
  <2>4. CASE \/ ReactAgent(j) \/ OtherTool(j) \/ CodeActCall(j)
             \/ BeginScript(j) \/ EndScript(j) \/ BreakScript(j)
    BY <2>4, TurnLoops
  <2> QED
    BY <1>5, <2>1, <2>2, <2>3, <2>4 DEF Step
<1>6. ASSUME NEW j \in Jobs, EndOrphan(j) PROVE TurnsInv'
  BY <1>1, <1>6 DEF EndOrphan
<1> QED
  BY <1>1, <1>2, <1>3, <1>4, <1>5, <1>6 DEF Next

\* What is saved is a result.
LEMMA ResultsInvariance == ResultsInv /\ [Next]_vars => ResultsInv'
<1> SUFFICES ASSUME ResultsInv, [Next]_vars PROVE ResultsInv'
  OBVIOUS
<1>1. CASE UNCHANGED <<saved, torn>>
  BY <1>1 DEF ResultsInv
<1>2. ASSUME NEW j \in Jobs, Save(j) \/ SaveError(j) \/ CutClosing(j) PROVE ResultsInv'
  BY <1>2 DEF ResultsInv, Save, SaveError, CutClosing, Results
<1>3. ASSUME NEW j \in Jobs, Begin(j) \/ EndOrphan(j) \/ CutEarly(j) \/ Cut(j) PROVE ResultsInv'
  BY <1>1, <1>3 DEF Begin, EndOrphan, CutEarly, Cut, turnVars
<1>4. ASSUME NEW j \in Jobs, Step(j), ~Save(j), ~SaveError(j) PROVE ResultsInv'
  BY <1>1, <1>4
  DEF Step, GetTools, SelectAgents, CheckVision, CloseVision, RouteAlone, RouteByModel, OpenStream,
      SdkReports, SendToken, EndStream, BreakStream, ReactAgent, OtherTool, CodeActCall, Summarize,
      BeginScript, EndScript, BreakScript, Raise, CloseAgents
<1> QED
  BY <1>1, <1>2, <1>3, <1>4 DEF Next, turnVars, vars

\* Of two lists that make up a third, each has its elements from the third.
LEMMA PartsOfAll ==
  ASSUME NEW S, NEW t \in Seq(S), NEW q \in Seq(S), NEW l \in Seq(S), t \o q = l
  PROVE  /\ Len(l) = Len(t) + Len(q)
         /\ \A i \in 1 .. Len(t) : i \in 1 .. Len(l) /\ t[i] = l[i]
         /\ \A i \in 1 .. Len(q) : Len(t) + i \in 1 .. Len(l) /\ q[i] = l[Len(t) + i]
<1>1. Len(t) \in Nat /\ Len(q) \in Nat
  BY LenProperties
<1>2. /\ Len(l) = Len(t) + Len(q)
      /\ \A i \in 1 .. Len(t) : l[i] = t[i]
      /\ \A i \in 1 .. Len(q) : l[Len(t) + i] = q[i]
  BY ConcatParts
<1> QED
  BY <1>1, <1>2

\* Before the end mark there are chunks only.
LEMMA BeforeEnd ==
  ASSUME NEW t \in Seq(Items), NEW q \in Seq(Items), NEW all \in Seq(Items), q # <<>>,
         t \o q = all \o <<End>>, \A i \in 1 .. Len(all) : all[i] \in Chunks
  PROVE  /\ \A i \in 1 .. Len(t) : t[i] \in Chunks
         /\ \A i \in 1 .. Len(q) : q[i] \in Chunks \cup {End}
<1> DEFINE l == all \o <<End>>
<1>1. <<End>> \in Seq(Items) /\ Len(<<End>>) = 1 /\ <<End>>[1] = End
  BY ItemTypes
<1>2. l \in Seq(Items) /\ Len(all) \in Nat /\ Len(t) \in Nat /\ Len(q) \in Nat \ {0}
  BY <1>1, ConcatProperties, LenProperties, EmptySeq
<1>3. Len(l) = Len(all) + 1 /\ l[Len(all) + 1] = End
  BY <1>1, OneBehind
<1>4. \A i \in 1 .. Len(all) : l[i] = all[i]
  BY <1>1, ConcatParts
<1> HIDE DEF l
<1>5. /\ Len(l) = Len(t) + Len(q)
      /\ \A i \in 1 .. Len(t) : i \in 1 .. Len(l) /\ t[i] = l[i]
      /\ \A i \in 1 .. Len(q) : Len(t) + i \in 1 .. Len(l) /\ q[i] = l[Len(t) + i]
  BY <1>2, PartsOfAll DEF l
<1>6. \A i \in 1 .. Len(l) : i \in 1 .. Len(all) \/ i = Len(all) + 1
  BY <1>2, <1>3
<1>7. \A i \in 1 .. Len(l) : l[i] \in Chunks \cup {End}
  BY <1>3, <1>4, <1>6
<1>8. \A i \in 1 .. Len(t) : i \in 1 .. Len(all)
  BY <1>2, <1>3, <1>5
<1> QED
  BY <1>4, <1>5, <1>7, <1>8

\* A stream of which every chunk is accounted for holds nothing but chunks: what is told
\* never contains the end mark.
LEMMA FlowTypes ==
  ASSUME NEW s, Flows(s), s.deltas <= MaxDeltas, s.idle => s.queue # <<>>
  PROVE  s \in Streams
<1>1. s \in AnyStream /\ s.deltas \in Nat /\ s.told \in Seq(Items) /\ s.queue \in Seq(Items)
  BY DEF Flows, AnyStream
<1>2. \A k \in 1 .. s.deltas : Delta(k) \in Chunks
  BY <1>1, CopilotAssumption DEF Chunks
<1>3. /\ Deltas(s.deltas) \in Seq(Items) /\ Len(Deltas(s.deltas)) = s.deltas
      /\ \A i \in 1 .. s.deltas : Deltas(s.deltas)[i] \in Chunks
  BY <1>1, <1>2, ItemTypes DEF Deltas
<1>4. /\ \A i \in 1 .. Len(s.told) : s.told[i] \in Chunks
      /\ \A i \in 1 .. Len(s.queue) : s.queue[i] \in Chunks \cup {End}
  <2>1. CASE ~s.idle
    <3>1. s.told \o s.queue = Deltas(s.deltas)
      BY <2>1 DEF Flows
    <3> DEFINE l == Deltas(s.deltas)
    <3>2. l \in Seq(Items) /\ \A i \in 1 .. Len(l) : l[i] \in Chunks
      BY <1>3
    <3> HIDE DEF l
    <3>3. /\ \A i \in 1 .. Len(s.told) : i \in 1 .. Len(l) /\ s.told[i] = l[i]
          /\ \A i \in 1 .. Len(s.queue) : /\ Len(s.told) + i \in 1 .. Len(l)
                                          /\ s.queue[i] = l[Len(s.told) + i]
      <4>1. \A t, q \in Seq(Items) : t \o q = l =>
              /\ \A i \in 1 .. Len(t) : i \in 1 .. Len(l) /\ t[i] = l[i]
              /\ \A i \in 1 .. Len(q) : Len(t) + i \in 1 .. Len(l) /\ q[i] = l[Len(t) + i]
        BY <3>2, PartsOfAll
      <4> QED
        BY <1>1, <3>1, <4>1, Zenon DEF l
    <3> QED
      BY <3>2, <3>3
  <2>2. CASE s.idle
    <3>1. PICK all \in Seq(Items) : IsAnswer(all, s.deltas) /\ s.told \o s.queue = all \o <<End>>
      BY <2>2 DEF Flows
    <3>2. \A i \in 1 .. Len(all) : all[i] \in Chunks
      <4>1. CASE s.deltas > 0
        BY <1>3, <3>1, <4>1 DEF IsAnswer
      <4>2. CASE ~(s.deltas > 0)
        BY <3>1, <4>2 DEF IsAnswer, Chunks
      <4> QED
        BY <4>1, <4>2
    <3>3. \A t, q \in Seq(Items) : q # <<>> /\ t \o q = all \o <<End>> =>
            /\ \A i \in 1 .. Len(t) : t[i] \in Chunks
            /\ \A i \in 1 .. Len(q) : q[i] \in Chunks \cup {End}
      BY <3>2, BeforeEnd
    <3> QED
      BY <1>1, <2>2, <3>1, <3>3, Zenon
  <2> QED
    BY <2>1, <2>2
<1>5. s.told \in Seq(Chunks) /\ s.queue \in Seq(Chunks \cup {End})
  BY <1>1, <1>4
<1>6. s.deltas \in 0 .. MaxDeltas
  BY <1>1, CopilotAssumption
<1> QED
  BY <1>1, <1>5, <1>6 DEF Streams, AnyStream

-----------------------------------------------------------------------------
(* The theorems *)

\* A new file of a call is reported before that call is over, whatever other calls of the
\* thread rename meanwhile (execute_python.py:101-134, 305-317).
THEOREM FilesReported == Spec => []NewFilesReported
<1>1. Init => FilesInv
  BY FilesInitially DEF Init
<1>2. FilesInv => NewFilesReported
  BY DEF FilesInv
<1> QED
  BY <1>1, <1>2, FilesInvariance, PTL DEF Spec

\* No Copilot client of the vision check or of an agent's own object outlives a turn, unless
\* the cancellation met the closing (orchestrator_handler.py:262-269, 337-343).
THEOREM ClientsStopped == Spec => []AgentClientsStopped
<1>1. ClientsInv => AgentClientsStopped
  BY DEF ClientsInv, StoppedFor, AgentClientsStopped
<1> QED
  BY <1>1, ClientsInitially, ClientsInvariance, PTL DEF Spec

\* An answer that was streamed to its end reached the notifier once, whatever the number of
\* its deltas and the order of the events and the reading (copilot.py:284-337).
THEOREM StreamsTellOnce == Spec => []StreamTellsOnce
<1>1. StreamsInv => StreamTellsOnce
  BY EndedIsTold DEF StreamsInv, StreamOf, StreamTellsOnce
<1> QED
  BY <1>1, StreamsInitially, StreamsInvariance, PTL DEF Spec

\* Every variable keeps its type: an agent stays within its limit of super-steps or
\* iterations, a tool event is there only while tools may run, and what is told of a
\* stream is never its end mark (agent_registry.py, tool_agent.py, codeact_agent.py).
THEOREM TypeSafety == Spec => []TypeOK
<1> DEFINE Inv == FilesInv /\ ClientsInv /\ StreamsInv /\ TurnsInv /\ ResultsInv
<1>1. Init => Inv
  <2>1. Init => ResultsInv
    BY DEF Init, ResultsInv
  <2> QED
    BY <2>1, FilesInitially, ClientsInitially, StreamsInitially, TurnsInitially DEF Init
<1>2. Inv /\ [Next]_vars => Inv'
  BY FilesInvariance, ClientsInvariance, StreamsInvariance, TurnsInvariance, ResultsInvariance
<1>3. Inv => TypeOK
  <2> SUFFICES ASSUME Inv PROVE TypeOK
    OBVIOUS
  <2>1. \A j \in Jobs : stream[j] \in Streams
    BY FlowTypes DEF StreamsInv, StreamOf
  <2>2. stream \in [Jobs -> Streams]
    BY <2>1 DEF StreamsInv
  <2>3. OutputsTypeOK /\ client \in [Jobs -> [Llms -> ClientStates]]
    BY DEF FilesInv, ClientsInv, ClientsType
  <2>4. \A j \in Jobs :
          turn[j].steps < (IF turn[j].agent \in CodeAct THEN MaxIterations ELSE RecursionLimit)
    BY DEF TurnsInv, TurnOf
  <2> QED
    BY <2>2, <2>3, <2>4 DEF TypeOK, TurnsInv, ResultsInv
<1> HIDE DEF Inv
<1> QED
  BY <1>1, <1>2, <1>3, PTL DEF Spec
=============================================================================
