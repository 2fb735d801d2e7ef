---------------------------- MODULE CopilotClient ----------------------------
(***************************************************************************)
(* One ChatCopilot object: the Copilot client it starts on its first call  *)
(* and keeps, the stream of one answer, and how the answer of a model with *)
(* tools bound is read. The SDK is external: it reports deltas, then       *)
(* perhaps the whole message, then that the session is idle. Stopping a    *)
(* client does not fail.                                                   *)
(***************************************************************************)
EXTENDS Naturals, Sequences

CONSTANT MaxDeltas  \* bound: deltas of one answer

ASSUME CopilotAssumption == MaxDeltas \in Nat

-----------------------------------------------------------------------------
(* The client *)

\* None yet, started, or assigned by a start that then failed.
ClientStates == {"none", "running", "unstarted"}

\* _ensure_client: the token may be refused, and the client is assigned before it starts.
EnsureClient(c) ==
  IF c # "none" THEN {[client |-> c, ok |-> TRUE]}
  ELSE {[client |-> "running", ok |-> TRUE],
        [client |-> "none", ok |-> FALSE],
        [client |-> "unstarted", ok |-> FALSE]}

\* _agenerate: a call that fails once there is a client stops and drops it.
Generate(c) ==
  LET ready == EnsureClient(c) IN
  {e \in ready : ~e.ok} \cup
  (IF \E e \in ready : e.ok
     THEN {[client |-> "running", ok |-> TRUE], [client |-> "none", ok |-> FALSE]}
     ELSE {})

\* list_models, which drops no client; is_vision_model takes every failure for a "no".
ListModels(c) ==
  {e \in EnsureClient(c) : ~e.ok}
    \cup {[client |-> e.client, ok |-> b] : e \in {e \in EnsureClient(c) : e.ok}, b \in BOOLEAN}

\* A cancelled call keeps its client, which may just have been assigned or started.
Cancelled(c) == {c} \cup {e.client : e \in EnsureClient(c)}

\* close
Close(c) == "none"

-----------------------------------------------------------------------------
(* The stream of one answer: _astream *)

Delta(k) == <<"delta", k>>
Whole == <<"whole", 0>>  \* the content of ASSISTANT_MESSAGE
Sorry == <<"sorry", 0>>  \* "no answer, please log in again"
End == <<"end", 0>>      \* the None of the queue
Chunks == {Delta(k) : k \in 1 .. MaxDeltas} \cup {Whole, Sorry}

Streams == [deltas : 0 .. MaxDeltas, whole : BOOLEAN, idle : BOOLEAN,
            queue : Seq(Chunks \cup {End}), told : Seq(Chunks)]
NoStream == [deltas |-> 0, whole |-> FALSE, idle |-> FALSE, queue |-> <<>>, told |-> <<>>]

\* The session's event handler, called by the SDK's thread.
OnDelta(s) == [s EXCEPT !.deltas = @ + 1, !.queue = Append(@, Delta(s.deltas + 1))]

OnMessage(s) == [s EXCEPT !.whole = TRUE]

\* Mutant: the whole message is queued behind the deltas too.
OnIdleMutant(s) ==
  LET last == IF s.whole THEN <<Whole>> ELSE IF s.deltas = 0 THEN <<Sorry>> ELSE <<>>
  IN [s EXCEPT !.idle = TRUE, !.queue = (@ \o last) \o <<End>>]

OnIdle(s) ==
  LET last == IF s.deltas > 0 THEN <<>> ELSE IF s.whole THEN <<Whole>> ELSE <<Sorry>>
  IN [s EXCEPT !.idle = TRUE, !.queue = (@ \o last) \o <<End>>]

\* The next chunk is yielded, and LangGraph hands it to the notifier.
Yield(s) == [s EXCEPT !.queue = Tail(@), !.told = Append(@, Head(s.queue))]

\* The caller was told every delta in order, or exactly one chunk when there was none.
ToldOnce(s) ==
  IF s.deltas > 0 THEN s.told = [k \in 1 .. s.deltas |-> Delta(k)] ELSE s.told \in {<<Whole>>, <<Sorry>>}

-----------------------------------------------------------------------------
(* What a model answers *)

\* A JSON tool call (alone, fenced or within text), a ```python block, a plain block that
\* looks like Python, other text, or the empty text.
Answers == {"json", "python", "block", "text", "empty"}

\* _try_parse_tool_call: JSON may name any tool, a ```python block is for execute_python.
\* "none" when there is no call.
ParseToolCall(answer, python) ==
  CASE answer = "json" -> {"other"} \cup (IF python THEN {"python"} ELSE {})
    [] answer = "python" /\ python -> {"python"}
    [] OTHER -> {"none"}

\* _extract_python_code and _extract_code
HasCode(answer) == answer \in {"python", "block"}
=============================================================================
