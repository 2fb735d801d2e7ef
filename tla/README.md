# Verification of copilot-langgraph-server

TLA+ models, TLC runs and TLAPS proofs kept beside the code. Paths are relative to the
repository's root; a definition's comment and `PROJECT.json`'s map name the lines it models.

## 1. The system

A chat web application in front of GitHub Copilot models.

    browser ──POST /api/chat──▶ API process ──enqueue──▶ arq/Redis ──deliver──▶ worker
       ▲                          │  ▲                                            │
       │                          │  └── polls lists and key ◀── Redis ◀── pushes, saves
       └── SSE / polling ◀────────┘                                               │
                                PostgreSQL: threads, gems, canvas apps, checkpoints ◀┘

| Component | Where | State | Operations | Talks to |
|---|---|---|---|---|
| Chat API | `app/api/routes/chat.py`, `jobs.py` | none of its own; rows in `threads` | post, stream, poll; list, create, rename, delete threads; read messages | PostgreSQL, arq, Redis |
| Queue and worker | `app/jobs/worker.py`, arq | queue, deliveries, slots | deliver, retry, time out, dispatch by `task_type` | handlers |
| Job store, notifier | `app/jobs/job_store.py`, `notifier.py` | `job:{id}`, `:tokens`, `:turns`, one hour each | push, save, read from an index | Redis |
| LangGraph handler | `app/jobs/handlers/langgraph_handler.py`, `app/graph/` | checkpoints of the thread | gem lookup, run graph, stream, save, upsert canvas app | PostgreSQL, provider |
| Debate handler and graph | `app/jobs/handlers/debate_handler.py`, `app/orchestrator/debate_graph.py` | turn counters, checkpoints | cast, speak in turn, aggregate | PostgreSQL, sub-agents |
| Orchestrator | `app/orchestrator/`, `orchestrator_handler.py` | route history, tool messages | route, ReAct loop, CodeAct loop | MCP tools, provider |
| Copilot provider | `app/providers/copilot.py` | one client | start, send, stream, reset | Copilot SDK |
| Authentication | `app/api/routes/auth.py`, `app/auth/`, `useAuth.ts` | device flows, revocation list, cookie | start, poll, log out, check | GitHub |
| Canvas apps and gems | `app/api/routes/canvas.py`, `hosted_apps.py`, `gems.py`, `useCanvas.ts`, `CanvasChatApp.tsx` | rows, deployed files; the pane and its editor | upload, edit, upsert, deploy, host | PostgreSQL, file system |
| Iframe bridge | `static/js/`, `app/api/routes/iframe_rpc.py`, `iframe_rpc_handler.py` | pending calls and timers of a page | call, post, follow, fetch, reply | queue, provider, `db_query` |
| Attachments and outputs | `app/api/routes/attachments.py`, `mcp_server/tools/` | thread folders | upload, scan, run code, rename outputs | file system |
| Chat hook | `frontend/src/hooks/useChat.ts`, `useAttachments.ts` | messages, spinner, one stream ref, one timer ref, staged files | send, hear, fetch, poll, cancel, answer a question | Chat API |
| Debate screen | `frontend/src/components/DebateChatApp.tsx` | turn numbers, extension banner | topic, extend, end, cancel | chat hook |
| Thread list | `frontend/src/hooks/useThreads.ts` | active thread, its messages | switch, create, delete | Chat API |

What is hard here: the reader and the writer of one answer are in different processes and meet
only in Redis; arq delivers a job again when its worker dies and cancels it after five minutes;
every `await` of the browser's hook is a point where the user, the stream or a timer may get in
between; history lives in checkpoints that a run reads once and overwrites. What makes the parts
correct:

- *pipeline*: the browser is sent every token once and in order, "done" only after the last one;
  a result is the last word of its attempt; slots are given back; every job settles.
- *browser*: no debate turn twice, none missing, answers do not mix, a spinner can end.
- *debate*: participants speak in rotation, as often as was asked for, and the history keeps what
  was said.
- *authentication*: a page that looks signed in has a session behind it; an approved code signs
  in; polling for a flow that is over stops.
- *thread history*: a reload shows every question with its answer; a deleted thread leaves nothing.
- *thread list*: the thread of the URL, the active one, the messages and the pane agree once
  nothing is awaited.
- *orchestrator*: a turn ends, whatever its models and tools answer.
- *provider*: the clients of a turn are stopped on every path; an answer is streamed once.
- *canvas apps*: a deploy publishes what the app holds; a post carries the page of its thread.
- *outputs*: a file that a tool call makes is reported before the call is over.
- *bridge*: every call is answered or times out, once, with its own answer.

`PROJECT.json` lists the hazards at their lines; one without a property says why.

## 2. Modules

| Module | Models | Key abstraction |
|---|---|---|
| `SealedLog` | abstract: a log that is sealed, and a reader that ends after taking all of it | no Redis reads |
| `JobPipeline` | POST, arq, handlers, job store and SSE generator | a token is the number of the attempt that pushed it |
| `ChatClient` | the `useChat` hook, and the wait for a new thread before it, against a server that behaves as `JobPipeline` promises | a message is its job, kind, run and turn |
| `DebateThread` | debate panel, handler, graph and checkpointed history of one thread | a message is its job and speaker |
| `AuthSession` | `useAuth`, the auth routes and GitHub's device flow | a session is its number |
| `ThreadHistory` | row, checkpoint, folder and app of one thread under runs and a deletion | a message is its job and kind |
| `CanvasApp` | table `canvas_apps`, uploads, edits, the worker's upsert, the deploy in three steps | a page is its app and one of a few texts |
| `CanvasScreen` | one tab of the canvas screen with `useThreads` and `useCanvas`, over `CanvasApp` | messages are the thread they were loaded for |
| `IframeRpc` | a canvas page, the bridge of the parent window, the job and its handler | a request is its class, an answer its kind |
| `CopilotClient` | operators: the client of one `ChatCopilot`, one streamed answer, tool-call parsing | an answer of the model is its shape |
| `Outputs` | `execute_python` and the folder of a thread | a file is a stamp and a name |
| `Orchestrator` | one job per turn, over `CopilotClient` and `Outputs` | prompts, messages and spans are left out |
| `*_proofs` | the theorems about `JobPipeline`, `ChatClient`, `DebateThread`, `AuthSession`, `ThreadHistory`, `CanvasScreen`, `IframeRpc` and `Orchestrator`, one module each | |
| `MC*` | the instances TLC checks | |

`CanvasScreen` composes a browser tab, a second tab, the API process and the worker over one table;
`Orchestrator` composes handler, agents, provider and MCP server; `JobPipeline` composes API, queue,
worker, Redis and the stream. `ChatClient` takes from the pipeline what `JobPipeline` shows.

**JobPipeline.** `post`, `rows` are the API process and PostgreSQL; `phase`, `worker`, `tries`
are arq; `tokens`, `turns`, `result` are the Redis keys; `spc` and the four variables after it are
the generator of one stream. `UpsertRow`, `Enqueue`, `RefusePost` are `send_message` cut at its
commit; each of the generator's Redis calls is an action (`SendTurns`, `SendTokens`,
`CheckResult`, `FlushAndSendDone`), because the worker may write between any two. `SaveResult` is
`set job:{id}`; the token list's length at that moment is kept in the history variable `sealed`.
`EndUnsaved` is the attempt arq cancels: `CancelledError` is no `Exception`, so the handlers'
`except` does not save anything. The handlers are modelled up to what the store sees of them.

**ChatClient.** A job is one call of `sendMessage`; `pc` is where its closure waits. `esRef` and
`timerRef` are the two refs all closures share, `timers` the intervals that are really running:
a poll clears the timer the ref holds *by now*. The server delivers a job `tries` times; each run of
a debate pushes its turns behind those of the runs before it into the list (`turnsOut`) that an open
stream goes on reading, and `answer` says which run stored the result, so that `FetchDone` can cut
that result by the count of turns of all runs, as `useChat.ts:320` does. `Send` tests `isThinking` of
the current render; without a thread the closure first waits in "creating" for `createNewThread`, and
`ThreadCreated` empties the transcript and goes on without another test, whatever was sent meanwhile.
Where the turns of a debate stand is a set of
places (`TurnsShown`), not a filtered sequence, so that the property can be proved.

**DebateThread.** The panel's React state, the request it posts, and a run per job: `view` is the
copy of the history the run holds, `thread` the newest checkpoint. The panel posts the numbers of
the render its callback belongs to, which is why `Extend` posts the old ones. `SaveResult` stores a
result and leaves the job "closing": until `Finish` the handler closes its clients and arq has not
recorded the job, so `Interrupt` can have it delivered again with its result in place. The stored
record keeps, as history, how many took part and which delivery stored it (`size`, `try`).

**AuthSession.** The browser's state (`authState`, `flowData`, `timers`, `pollRef`), the API
process's memory (`deviceFlows`, `blocklist`) and GitHub's view of each device code (`grant`). A
poll's request is followed through its two awaits: `Lookup` in the flows, GitHub's answer
(`Pending`, `SlowDown`, `TakeToken`, `EndFlow`, and `BreakFlow` for an answer that is not
understood, which ends the flow whatever its code is worth), `CreateSession` with the cookie, and
the hook's reaction (`Hear...`). `pollRef` is one ref for all flows, so two calls of `startFlow` can
orphan an interval. `logout` looks for `app.state.redis_client`, which nothing sets, so the
revocation list is the process's memory and `Restart` empties it together with the flows.

**ThreadHistory.** `row` is the row of `threads`, `checkpoint` the newest LangGraph checkpoint,
`files` the folder, `app` whether `canvas_apps` has a row for the thread. A run loads the checkpoint
once (`BeginGraph`), keeps its own copy in `view` and writes that copy back with each step. Between
`Save` and `Finish` its result is stored but the job is not over: it may still be delivered again
(`Cut`). `DeleteRow`, `DeleteCheckpoints` and `DeleteFolder` are the three parts of `delete_thread`;
the second and the third may fail silently, the third in part. `DeleteAttachment` takes a file back
at any time, `Listed` says by which of the three filters `list_threads` still names the thread.
`Shown` is what `get_thread_messages` returns: which branch serves a thread depends on the `app_id`
its screen posted (`Screen`).

**CanvasApp, CanvasScreen.** `apps`, `html`, `thread`, `deployed` are the columns of the table,
`file` what a deploy wrote, `deploy` a deploy request between its SELECT, its `write_text` and its
UPDATE. On the screen `url`, `active`, `shown`, `canvas`, `current` are the URL's thread,
`activeThreadId`, `messages`, `canvasApp` and `currentHtml`; nothing but the effects keeps them
together. React runs the effects whose dependencies changed after a render and before the next
event, so every other action waits for `Settled`; `navigate` is a transition, so the URL changes in
a later render than the state (`nav`, `Navigated`). Loads, saves and deploys in flight are
variables, and their replies (`MessagesArrive`, `LoadArrives`, `SaveArrives`, `DeployEnds`, `Hear`)
are applied whatever thread is active by then, as in the code.

**IframeRpc.** `pending`, `timers` are the map of `iframe-rpc.js`; `bridge` is where
`handleIframeMessage` is for a call; `job`, `result` are the queue and Redis. The canvas pane may give
the iframe another page (`ShowAnotherPage`): the window is the same, so replies to the old page's
calls reach the new one. `crypto.randomUUID` is modelled as a number no page has used.

**Orchestrator, CopilotClient, Outputs.** `pc` is where `_handle_inner` is, from the tools through
agents, vision check, router and agent to `save` or `fail` and the `finally`. `client` has the
Copilot client of each `ChatCopilot` of the job: the vision check's, the router's, the agent's, and
the one `bind_tools` makes, which is another object with another client. `Generate`, `ListModels`
and `Cancelled` say which clients a call can leave behind. `ReactAgent` and `OtherTool` are the two
nodes of the ReAct graph, one super-step each; `CodeActCall`, the script and `Summarize` one
iteration of CodeAct. `Cut`, `CutEarly`, `CutClosing` are the cancellation arq makes: only `finally`
blocks run then. A script's call runs in the MCP server, and goes on there (`EndOrphan`) when its job
was cancelled. `folder` and `before` are the directory and the snapshot of a call.

## 3. Runs

| Run | Shows | Bounds |
|---|---|---|
| `job_pipeline` | the six safety properties and the refinement of `SealedLog` | two jobs on one slot, two deliveries, two tokens per attempt |
| `job_liveness` | every job settles; a polling stream finds its result | two jobs of other task types, one stream |
| `chat_client` | transcript, spinner and delivery properties of the browser | two sends, one of them a debate of two turns that may be delivered twice, with or without a thread at first, one poll at a time |
| `chat_spinner` | **violated**: after a failed fetch the spinner stays and nothing listens | the same |
| `debate` | rotation, length, history, and what a cut run leaves in the stream | three requests in at most three deliveries, two runs at once, two deliveries of a job; two participants, limit of two turns |
| `debate_extension` | **violated**: the extension carries the numbers of the previous render | three requests |
| `auth_session` | who is signed in, that an approval signs in, that polling stops | two flows, two polls in flight, two intervals, one trouble (restart, lost, slowed or oddly answered poll) |
| `history` | what a reload shows, that history only grows, what a deletion leaves | two jobs, one file, one crash; jobs are symmetric |
| `canvas_screen` | what the screen shows, what a post embeds, what a deploy publishes | two threads, two apps, two texts, three acts of users |
| `iframe_rpc` | whose answer a call gets | two calls, two pages, one interrupted run |
| `tool_turn` | turns end, clients are stopped, answers are streamed once, files are reported | two turns in one folder, a tool agent, a code agent and a gem, three super-steps, two iterations, two deltas |
| `history_reload` | **violated**: a canvas thread with an app is reloaded as raw text | the same, on the canvas screen |

*Why the bounds are enough.* Two tokens per attempt put one before and one between any two reads
of the generator; two deliveries give a second attempt behind the first one's leftovers; two jobs
on one slot make `Load` matter, and one of them has the unknown task type. In the browser two
sends are what the shared refs and one late thread can confuse, and a second delivery of the
debate is what puts turns twice into its stream; the other send is delivered once, because what it
stores a second time is an answer like the first. Three debate requests are a topic, an extension with
the stale numbers and one with numbers a turn old, which is what makes a resumed run; two
participants and a cap of two make a panel wrap round; three deliveries are three requests, or two
with a redelivery. Two flows are what the one `pollRef` can
confuse, two polls what one interval can have in flight when its server is slow, and one trouble
is all a single coincidence needs. In a thread's history two runs overlap, follow each other or
surround a deletion; the crash makes one of them run again. On the canvas screen two threads are
what a late reply can confuse, and three acts a switch, a save or deploy, and a switch back. One
super-step beyond a tool call reaches the limit of a loop, and one name and one stamp make two
scripts collide. `MaxPolls`, `MaxShown`, `MaxPosts`, `MaxRunning`, `MaxRuns`, `MaxActs`, `MaxText`,
`MaxPages`, `MaxDeltas`, `MaxTroubles` and `MaxCuts` are bounds of the model only; `RecursionLimit` and
`MaxIterations` are the code's (25 and 3 by default).

*Deadlock* is not checked: a system in which every job has settled really stops.

*Fairness.* `JobPipeline`: arq polls in the order of enqueueing, so a job that is queued whenever a
slot frees up is picked (strong fairness of `Pick`); an attempt ends because `job_timeout` ends it;
the generator's loop never blocks for ever. `ChatClient`: a closure's next await ends, with an
answer or an exception, and an interval keeps firing (weak fairness of `Proceed` and `PollTick`); a
poll repeated for ever does not always fail (strong fairness of `PollDone`). `Orchestrator`: a
handler goes on, because every wait of it has a timeout. `AuthSession`: intervals keep firing and
requests that are not lost are answered. No fairness is assumed of users, of answers, or of
failures.

The properties say where the code falls short: `StreamIsPrefix` excludes lists that expire under an
open stream, `TurnsOnceInOrder` excludes a broken stream (the polling fallback shows all turns
again), and its second half, that no turn is missing, a transcript emptied by a late thread and a
result put behind turns of another run; `DoneShowsWholeDebate` excludes the same two;
`TranscriptUnmixed` excludes, by `emptied`, a new thread that arrived while a message was under way;
`AnswerArrives` excludes a second job that polls (its answer clears the shared timer),
`ThinkingHasSource` excludes the failed fetch, `HistoryKeepsDebates` excludes overlapping runs (the
last checkpoint wins). `AnswersAreShown` and `HistoryOnlyGrows` exclude, by `disturbed`, runs that
overlapped another run or a deletion, and the first also a run that was delivered twice;
`DeletedLeavesNothing` excludes, by `leftovers`, a deletion that failed in part or met a post, a run
or an upload; `ApprovalSignsIn` and `PollingStops` exclude coincidences recorded in `mishaps`, the
first also an answer of GitHub that was not understood. `SettledShowsUrl` excludes, by `late`, that
the last reply applied was of a thread no longer active; `EmbedsOwnPage` excludes, by `blank`, that
an empty page was opened; `DeployPublishes` is about deploys that met no edit and no other deploy;
`AgentClientsStopped` excludes a cancellation inside a `close`, and speaks of the two objects the
handler closes. Each exclusion is a behaviour the model has.

## 4. Proofs

Every type invariant, every safety invariant and every action property of the passing runs is a
theorem, `Spec => []P` or `Spec => [][A]_vars`, for all values of the constants that the module's
named assumption admits; `PROJECT.json` lists the theorems. None of the properties is inductive but
some of the types; each module of proofs begins with `IInv`, the conjunction of named parts that is,
which TLC checked on the run's instance first. Below it one lemma per action or part shows that
`IInv` is kept, one more puts them together, and the theorems read their property off
(`Orchestrator_proofs` has one invariant for each property instead).

**What is assumed** of the constants: bounds and limits are numbers, positive where zero would mean
that nothing runs; placeholders (`NoWorker`, `NoFlow`, `None`) are not values of the sets they stand
beside; jobs, calls, flows, requests and gems are finitely many where something is counted. Beyond
that: `Agents` of `DebateThread` is a sequence and no participant's node is the aggregator's (nodes
are named `agent_<name>`), each job of `ChatClient` has a positive number of deliveries,
`CastLimits` lets nobody debate without a participant, and an agent of `Orchestrator` declares one
kind (`React` and `CodeAct` are disjoint). The instances that TLC checks satisfy all of it.

**`JobPipeline_proofs`** (six properties, and that `JobPipeline` implements `SealedLog`). `IInv` adds
that an executing attempt has a number above that of any saved result (`AttemptInv`, for
`ResultSealsAttempt`); that the generator's indexes are the lengths of what it has sent, and the mark
of the last save lies within the list (`StreamInv`, for the refinement and `DoneDeliversTokens`); that
a slot is held exactly while an attempt executes (`SlotInv`), from which `LoadInv` follows because
only `Pick` adds to a load; that an enqueued job's row was committed, or its thread deleted since
(`RowInv`, for the gem lookup).

**`ChatClient_proofs`** (types, `TurnsOnceInOrder`, `TranscriptUnmixed`, `ThinkingHasSource`,
`DoneShowsWholeDebate`). The list a stream reads is in the order its turns were spoken, has no gap in
a run, and has every turn of a stored result (`ListInv`): each run pushes behind those before it. The
closure of a job keeps a count of the turns it heard, never ahead of the list (`HeardInv`), and as long
as it waits the transcript shows exactly those, in order (`TurnsInv`); the result it fetches adds turns
behind as many as were heard, which come later than all of them, and complete them if all were of its
run. Both need that only jobs whose stream broke poll (`PollInv`, `BrokenInv`), because a poll shows all
turns again. `LastInv` says that without a cancellation, a broken stream or a late thread only the job
of the last message can still add one: that is why messages do not mix. `SourceInv` names the places
of a closure from which the spinner can still end.

**`DebateThread_proofs`** (types, `RotationKept`, `FinishedAtLength`, `ResultInStream`,
`HistoryKeepsDebates`). The graph keeps two counters and the properties speak of what was said, so
`CountInv` relates them: the turn counter is what was asked for plus what was said, the index agrees
with it modulo the cast, and after the summary nothing is said. `StreamInv` says that what a run
has said ends its stream, and is all of it at a first delivery; `HistoryInv` that of runs that never
overlapped the one under way holds the newest checkpoint, which its turns end. `PhaseInv` keeps a job
that does not run from having any of this, and says that a run that comes after a stored result has a
later try than the one that stored it: what it says goes behind those turns and parts them from
nothing. A finished debate stays whole because each later run appends to a
history that has it.

**`AuthSession_proofs`** (types, `SignedInHasSession`). The cookie and the page change in different
steps, so the reply between them must carry a session that is still good when it is heard.
`TokensInv` bounds the sessions by the device codes GitHub has exchanged; from it `RepliesInv` gets
that a reply's session is new: not the cookie's, not blocked, not being logged out, not in another
reply. `MountInv` says that a page that still asks who it is has nothing else under way, so that the
answer it gets is about the cookie it has.

**`ThreadHistory_proofs`** (types, `AnswersAreShown`, `DeletedLeavesNothing`, `HistoryOnlyGrows`). A
run that is in nobody's way is alone (`AloneInv`), so the copy it holds is the newest checkpoint
(`ViewInv`), and appending to it only makes the history grow. A job that has not begun is found in
no history that could still be saved (`FreshInv`); one that has answered is found, once and with its
answer behind it, in the checkpoint and in the copy of every later run (`AnswerInv`), or else a
later save would lose it. `DeletionInv` has what is gone after each of the three steps of a
deletion, as long as no job could be delivered (`Unfinished`: one with its result stored counts
until arq has recorded it).

**`CanvasScreen_proofs`** (types, `EmbedsOwnPage`, `SettledShowsUrl`, `DeployPublishes`).
`DeployInv` is the part of the table: a deploy that met nobody has the row's text and its file to
itself. Copies of rows in the pane and in replies are of rows that are there, with their thread or
none (`RowsInv`), and of the thread they were loaded for (`OriginInv`); with `EditorInv`, the
editor's text is the pane's app's once the effects ran, that gives `EmbedsOwnPage`. `UrlInv`,
`MessagesInv` and `PaneInv` say of URL, messages and pane that each agrees with the active thread, or
is being replaced, or came late; when nothing is awaited only the first and the last are left.

**`IframeRpc_proofs`** (types, `AnswerIsForItsCall`). `IInv` adds that the calls made have different
ids (`IdsInv`), which is all a page has to tell a reply to its own call from one to the page before
it, and that a posted reply and a result are of the call they are kept for, and were saved
(`RepliesInv`).

**`Orchestrator_proofs`** has four properties, each with an invariant of its own, because no one of
them needs another's state:

- `NewFilesReported` (`FilesInv`) from the types of `Outputs`, whose last part says that what a call
  has made is in the folder and not in its snapshot: at its end each such file is either plain, and
  reported under its new name, or stamped, and reported as it is. That another call renames or
  reports it first is what the history variable `made` accounts for.
- `AgentClientsStopped` from `ClientsInv`: a vision object has a client at stage "viewed" only, and
  an agent's object none before the agents are there nor behind the turn.
- `StreamTellsOnce` from `StreamsInv`: what was told followed by the queue is the deltas in order,
  or, once idle, the answer and the end mark (`Flows`); and an idle stream is saved with only the
  end mark left. The module's first lemmas show that each event and each chunk told keeps `Flows`,
  from the library's theorems on concatenation.
- `TypeOK` from the three and `TurnsInv`: the stages and the steps of a turn are those of its agent's kind.

**Only model-checked**: the liveness properties (`EveryJobSettles`, `StreamEndsOnceAnswered`,
`AnswerArrives`, `ApprovalSignsIn`, `PollingStops`, `TurnEnds`) and what `SealedLog` promises under
fairness, since liveness and ENABLED are beyond the prover; and the three claims the code does not
keep (§5), which runs refute.

## 5. Where the code and its documents disagree

Three runs end in a violation and are findings in `PROJECT.json`: `chat_spinner`,
`debate_extension`, `history_reload`. What else the modelling met, at the lines where it is:

- A job that arq cancels or gives up saves no result (`worker.py:208`; `base.py:9` says handlers
  save it): the browser waits until the user cancels. `EveryJobSettles` is the part that holds.
- A debate that is delivered again while its stream is open is shown from its first turn again, and
  the result is then cut by the number of turns of both runs (`useChat.ts:320`): the comments at
  `useChat.ts:262` and 316 say the count keeps turns from being shown twice and fills in those that
  are missing. `TurnsOnceInOrder` and `DoneShowsWholeDebate` are the parts that hold.
- Two messages sent while the first waits for its new thread both pass `sendMessage`'s guard
  (`useChat.ts:139` has the `isThinking` of the render before, `DebateChatApp.tsx:612` the await): each
  makes a thread, and the later one empties the transcript of the other, which goes on adding to it.
- Any answer of GitHub but the four it looks for, a server error too, ends a device flow
  (`auth/manager.py:225`, `auth.py:68`), where the comment at `auth.py:69` names a refused or expired
  code only; a user who approves afterwards is not signed in.
- An empty page leaves the editor's text of the app before in place (`CanvasChatApp.tsx:226`), so a
  post to that thread embeds another thread's page, against the comments at 223 and 267.
- Messages, saved rows and deployed apps are put on the screen without a look at the active thread
  (`useThreads.ts:51`, `useCanvas.ts:32`, `useCanvas.ts:44`); a deleted thread that is still in the
  URL is selected again.
- A hosted page is served from its row whether it is deployed or not (`hosted_apps.py:55`).
- When the recursion limit is reached the last answer is looked up in the initial messages
  (`tool_agent.py:358`): an answer of an earlier turn, or a fixed text, never the partial result of
  `tool_agent.py:221`. The registry does not pass an agent's `recursion_limit` on (`agent.py:247`).
- The router's client is stopped by nobody, and a tool agent closes `_llm` while its calls went
  through `_llm_with_tools` (`tool_agent.py:265`, `382`): each turn can leave a process behind.
- `BoundChatCopilot` streams too, inside `astream_events` (`copilot.py:646`), against the comment at
  `orchestrator_handler.py:299`.
- Attachments never reach the SDK: `copilot.py:474` wants the kind "file", and `attachments.py:162`
  says "user_upload"; no agent reads `new_attachments`.
- Of two overlapping calls of `execute_python` one may overwrite a file of its own snapshot after
  the other has renamed it; it is then reported by neither. Two files of one name renamed in the same
  second become one (`execute_python.py:132`).
- A fetch that fails after "done" leaves the bridge without a reply (`parent-bridge.js:39`); the
  page's own timer ends the call.

## 6. Not modelled, and why

- Layout, rendering, prompts, tracing: no state a property could be about. `generate_*` scripts and
  the menu dispatcher: nothing runs concurrently, nothing imports them.
- Model list, agents, apps, profile: read-only answers. The one model cache and the client the API
  process shares are a hazard without a run: two requests would have to share one object.
- Gems, renaming a thread, downloads: single statements on rows that nothing else reads in between,
  but for the gem lookup, which `JobPipeline` has, and the listing of a thread, which `ThreadHistory` has.
- The debate screen's thread switching: `CanvasScreen` shows what the hooks do; the panel adds turn
  numbers that it keeps across threads.
- The staging area of the composer: what `useChat` sends from it and clears in it changes nothing of
  the transcript; that a late `onAttachmentsSent` clears files staged for the next message is a hazard
  without a property. Text extraction from attachments, encryption of
  tokens, the command line's token file: data, not control.
- `ChatClient` leaves out the hour after which a list and a result expire (`JobPipeline` has it), the
  tool label, and switching threads, which `CanvasScreen` has.
- `ThreadHistory` leaves out the list of generated files added to the final message
  (`langgraph_handler.py:243`): it is added after the graph has ended, so no checkpoint holds it.
- `Orchestrator` leaves out the checkpointed messages and the tokens that router, tool and code
  agents send on; that an answer of them is sent twice to a stream is not excluded.
