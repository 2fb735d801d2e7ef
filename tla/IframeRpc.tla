------------------------------ MODULE IframeRpc ------------------------------
(***************************************************************************)
(* A page of a canvas app runs in an iframe and calls the server through   *)
(* its parent window: iframe-rpc.js keeps the calls a page waits for, the  *)
(* bridge of the parent posts each of them as a job, follows the job's     *)
(* stream, fetches the result and posts the reply back to the iframe's     *)
(* window, and a worker runs the job. The page may be replaced meanwhile:  *)
(* the window then holds another document, with no call pending.           *)
(*                                                                         *)
(* A request is one of five classes: a QUERY that db_query accepts or      *)
(* refuses, an AI prompt whose model resolves or does not, and any other   *)
(* method. A value is "rows", "text" or "error".                           *)
(***************************************************************************)
EXTENDS Naturals, FiniteSets

CONSTANTS
  Calls,     \* calls the pages make
  MaxPages,  \* bound: pages shown in the iframe, one after the other
  MaxCuts    \* bound: runs of a job interrupted by a stopping worker

ASSUME IframeAssumption ==
  /\ MaxPages \in Nat \ {0}
  /\ MaxCuts \in Nat
  /\ IsFiniteSet(Calls)

VARIABLES
  \* the iframe
  page,      \* which page the iframe shows
  pageOf,    \* the page that made a call, 0 before it is made
  idOf,      \* the id of its message
  request,   \* its class
  pending,   \* calls of the shown page that wait, the map of iframe-rpc.js
  timers,    \* calls whose timer runs
  outcome,   \* what a call's promise was settled with, and whose reply that was
  \* the parent window
  bridge,    \* where handleIframeMessage is for a call
  reply,     \* what it posted to the iframe
  inFlight,  \* replies not yet delivered
  \* the server
  job,       \* the job of a call
  client,    \* jobs with a running Copilot client
  result,    \* the saved result
  \* history
  saved,     \* results ever saved
  cuts

iframeVars == <<page, pageOf, idOf, request, pending, timers, outcome>>
bridgeVars == <<bridge, reply, inFlight>>
jobVars == <<job, client, result, saved, cuts>>
vars == <<iframeVars, bridgeVars, jobVars>>

Requests == {"select", "refused", "prompt", "badmodel", "unknown"}
Values == {"rows", "text", "error"}
Made == {c \in Calls : pageOf[c] # 0}

TypeOK ==
  /\ page \in 1 .. MaxPages
  /\ pageOf \in [Calls -> 0 .. MaxPages]
  /\ idOf \in [Calls -> 0 .. Cardinality(Calls)]
  /\ request \in [Calls -> Requests]
  /\ pending \in SUBSET Made /\ timers \in SUBSET pending
  /\ outcome \in [Calls -> [of : Calls, value : Values \cup {"none", "timeout"}]]
  /\ bridge \in [Calls -> {"none", "posting", "waiting", "fetching", "stuck", "replied"}]
  /\ reply \in [Calls -> Values \cup {"none"}]
  /\ inFlight \in SUBSET {c \in Calls : reply[c] # "none"}
  /\ job \in [Calls -> {"none", "queued", "running", "done", "lost"}]
  /\ client \in SUBSET {c \in Calls : job[c] = "running"}
  /\ result \in [Calls -> Values \cup {"none"}]
  /\ saved \in [Calls -> SUBSET Values]
  /\ cuts \in 0 .. MaxCuts

Init ==
  /\ page = 1
  /\ pageOf = [c \in Calls |-> 0]
  /\ idOf = [c \in Calls |-> 0]
  /\ request = [c \in Calls |-> "unknown"]
  /\ pending = {} /\ timers = {}
  /\ outcome = [c \in Calls |-> [of |-> c, value |-> "none"]]
  /\ bridge = [c \in Calls |-> "none"]
  /\ reply = [c \in Calls |-> "none"]
  /\ inFlight = {}
  /\ job = [c \in Calls |-> "none"]
  /\ client = {}
  /\ result = [c \in Calls |-> "none"]
  /\ saved = [c \in Calls |-> {}]
  /\ cuts = 0

-----------------------------------------------------------------------------
(* The page: iframe-rpc.js *)

\* Mutant: each page counts its own calls.
FreshIdMutant == 1 + Cardinality({c \in Made : pageOf[c] = page})

\* crypto.randomUUID: an id no page has used.
FreshId == 1 + Cardinality(Made)

\* ai, query and call all end in _call, which posts the message to the parent.
Call(c, r) ==
  /\ c \notin Made
  /\ pageOf' = [pageOf EXCEPT ![c] = page]
  /\ idOf' = [idOf EXCEPT ![c] = FreshId]
  /\ request' = [request EXCEPT ![c] = r]
  /\ pending' = pending \cup {c}
  /\ timers' = timers \cup {c}
  /\ bridge' = [bridge EXCEPT ![c] = "posting"]
  /\ UNCHANGED <<page, outcome, reply, inFlight, jobVars>>

\* The call's own timer: 30 s for query, 60 s for the others, or what the page gave.
CallTimeout(c) ==
  /\ c \in timers
  /\ pending' = pending \ {c}
  /\ timers' = timers \ {c}
  /\ outcome' = [outcome EXCEPT ![c] = [of |-> c, value |-> "timeout"]]
  /\ UNCHANGED <<page, pageOf, idOf, request, bridgeVars, jobVars>>

\* Mutant: the timer of a settled call is not cleared.
ReceiveMutant(c) ==
  LET entry == {d \in pending : idOf[d] = idOf[c]} IN
  /\ c \in inFlight
  /\ inFlight' = inFlight \ {c}
  /\ pending' = pending \ entry
  /\ outcome' = [d \in Calls |-> IF d \in entry THEN [of |-> c, value |-> reply[c]]
                                                ELSE outcome[d]]
  /\ UNCHANGED <<page, pageOf, idOf, request, timers, bridge, reply, jobVars>>

\* The reply to call c reaches whatever page the window shows now.
Receive(c) ==
  LET entry == {d \in pending : idOf[d] = idOf[c]} IN
  /\ c \in inFlight
  /\ inFlight' = inFlight \ {c}
  /\ timers' = timers \ entry
  /\ pending' = pending \ entry
  /\ outcome' = [d \in Calls |-> IF d \in entry THEN [of |-> c, value |-> reply[c]]
                                                ELSE outcome[d]]
  /\ UNCHANGED <<page, pageOf, idOf, request, bridge, reply, jobVars>>

\* The canvas pane gives the iframe another page; the old one and its timers are gone.
ShowAnotherPage ==
  /\ page < MaxPages
  /\ page' = page + 1
  /\ pending' = {} /\ timers' = {}
  /\ UNCHANGED <<pageOf, idOf, request, outcome, bridgeVars, jobVars>>

-----------------------------------------------------------------------------
(* The parent window: parent-bridge.js *)

Reply(c, value) ==
  /\ bridge' = [bridge EXCEPT ![c] = "replied"]
  /\ reply' = [reply EXCEPT ![c] = value]
  /\ inFlight' = inFlight \cup {c}

\* The request was refused, could not be queued, or its answer was lost after it was.
PostFails(c) ==
  /\ bridge[c] = "posting"
  /\ job' \in {job, [job EXCEPT ![c] = "queued"]}
  /\ Reply(c, "error")
  /\ UNCHANGED <<iframeVars, client, result, saved, cuts>>

Posted(c) ==
  /\ bridge[c] = "posting"
  /\ job' = [job EXCEPT ![c] = "queued"]
  /\ bridge' = [bridge EXCEPT ![c] = "waiting"]
  /\ UNCHANGED <<iframeVars, reply, inFlight, client, result, saved, cuts>>

\* The stream breaks, or the bridge's 60 s are over.
StopsWaiting(c) ==
  /\ bridge[c] = "waiting"
  /\ Reply(c, "error")
  /\ UNCHANGED <<iframeVars, jobVars>>

\* The stream says "done": the timer is cleared, then the result is fetched.
StreamDone(c) ==
  /\ bridge[c] = "waiting"
  /\ result[c] # "none"
  /\ bridge' = [bridge EXCEPT ![c] = "fetching"]
  /\ UNCHANGED <<iframeVars, reply, inFlight, jobVars>>

\* The result, or "No result" when the answer to the request has none (a 401, say).
Fetched(c) ==
  /\ bridge[c] = "fetching"
  /\ \E value \in {result[c], "error"} : Reply(c, value)
  /\ UNCHANGED <<iframeVars, jobVars>>

\* The fetch throws inside the message handler, which ignores it: nobody replies.
FetchThrows(c) ==
  /\ bridge[c] = "fetching"
  /\ bridge' = [bridge EXCEPT ![c] = "stuck"]
  /\ UNCHANGED <<iframeVars, reply, inFlight, jobVars>>

-----------------------------------------------------------------------------
(* The worker: IframeRpcHandler *)

\* is_select_only
IsSelectOnly(r) == r = "select"

\* db_query: rows of one SELECT of a known pool, an error for everything else.
DbQuery(r) == IF IsSelectOnly(r) THEN {"rows", "error"} ELSE {"error"}

\* _handle_query: no such tool, a failed call and a malformed reply are errors too.
QueryResult(r) == {"error"} \cup DbQuery(r)

\* resolve_model
ModelResolves(r) == r = "prompt"

\* _handle_ai: a model that does not resolve never reaches the provider.
AiResult(r) == {"error"} \cup (IF ModelResolves(r) THEN {"text"} ELSE {})

ResultOf(r) ==
  CASE r \in {"select", "refused"} -> QueryResult(r)
    [] r \in {"prompt", "badmodel"} -> AiResult(r)
    [] r = "unknown" -> {"error"}

\* A worker takes the job. Only a prompt starts a Copilot client.
BeginJob(c) ==
  /\ job[c] = "queued"
  /\ job' = [job EXCEPT ![c] = "running"]
  /\ client' = IF ModelResolves(request[c]) THEN client \cup {c} ELSE client
  /\ UNCHANGED <<iframeVars, bridgeVars, result, saved, cuts>>

\* The client is closed in a finally; then the result is saved. When that fails an
\* error is saved instead.
SaveResult(c, value) ==
  /\ job[c] = "running"
  /\ value \in ResultOf(request[c])
  /\ job' = [job EXCEPT ![c] = "done"]
  /\ client' = client \ {c}
  /\ result' = [result EXCEPT ![c] = value]
  /\ saved' = [saved EXCEPT ![c] = @ \cup {value}]
  /\ UNCHANGED <<iframeVars, bridgeVars, cuts>>

\* The worker stops and arq queues the job again, perhaps after the result was saved.
Interrupt(c) ==
  /\ job[c] \in {"running", "done"}
  /\ cuts < MaxCuts
  /\ cuts' = cuts + 1
  /\ job' = [job EXCEPT ![c] = "queued"]
  /\ client' = client \ {c}
  /\ UNCHANGED <<iframeVars, bridgeVars, result, saved>>

\* arq gives up: the job's time is over, or neither result could be saved.
EndUnsaved(c) ==
  /\ job[c] = "running"
  /\ job' = [job EXCEPT ![c] = "lost"]
  /\ client' = client \ {c}
  /\ UNCHANGED <<iframeVars, bridgeVars, result, saved, cuts>>

-----------------------------------------------------------------------------
Next ==
  \/ \E c \in Calls :
       \/ \E r \in Requests : Call(c, r)
       \/ CallTimeout(c) \/ Receive(c)
       \/ PostFails(c) \/ Posted(c) \/ StopsWaiting(c)
       \/ StreamDone(c) \/ Fetched(c) \/ FetchThrows(c)
       \/ BeginJob(c) \/ Interrupt(c) \/ EndUnsaved(c)
       \/ \E value \in Values : SaveResult(c, value)
  \/ ShowAnotherPage

Spec == Init /\ [][Next]_vars

-----------------------------------------------------------------------------
(* Properties *)

\* What a page's call is answered with is what a worker saved for that very call, or an
\* error or a timeout: never the reply to a call of the page shown before
\* (iframe-rpc.js:27-42).
AnswerIsForItsCall ==
  \A c \in Calls :
    /\ outcome[c].of = c
    /\ outcome[c].value \in {"none", "timeout", "error"} \cup saved[c]
=============================================================================
