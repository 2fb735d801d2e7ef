---------------------------- MODULE JobPipeline ----------------------------
(***************************************************************************)
(* The asynchronous chat pipeline: POST /api/chat commits the thread row   *)
(* and enqueues a job; an arq worker runs the handler, which appends       *)
(* tokens or debate turns to Redis lists and saves one result key; the     *)
(* SSE generator of GET /api/chat/{job_id}/stream polls lists and key.     *)
(*                                                                         *)
(* Every Redis call of the generator is a step of its own, because the     *)
(* worker is another process and may write between any two of them.        *)
(* arq itself (queueing, retries, cancellation) is external: it is         *)
(* modelled from the way WorkerSettings configures it.                     *)
(***************************************************************************)
EXTENDS Naturals, Sequences, FiniteSets

CONSTANTS
  Jobs,       \* job ids
  Threads,    \* thread ids
  ThreadOf,   \* the thread a job was posted to
  KindOf,     \* task_type of a job
  Watched,    \* jobs whose stream a browser opens; the others only compete
  Workers,    \* arq worker processes
  MaxJobs,    \* jobs one worker runs at a time (arq's max_jobs)
  MaxTries,   \* deliveries of one job before arq gives up (arq's max_tries)
  MaxChunks   \* bound: chunks one attempt at a job pushes

Kinds == {"langgraph", "orchestrator", "debate", "iframe_app_api", "unregistered"}

NoWorker == "no worker"

ASSUME PipelineAssumption ==
  /\ IsFiniteSet(Jobs)
  /\ NoWorker \notin Workers
  /\ ThreadOf \in [Jobs -> Threads]
  /\ KindOf \in [Jobs -> Kinds]
  /\ Watched \in SUBSET Jobs
  /\ MaxJobs \in Nat \ {0}
  /\ MaxTries \in Nat \ {0}
  /\ MaxChunks \in [Jobs -> Nat]

VARIABLES
  \* API process and PostgreSQL
  post,        \* how far the POST that creates a job has come
  rows,        \* threads that have a committed row
  dropped,     \* history: the thread was deleted after the job's upsert
  \* arq
  phase,       \* life cycle of a job
  worker,      \* the worker that executes a job, if any
  tries,       \* deliveries of a job so far
  pushed,      \* chunks pushed by the current attempt
  gemRow,      \* what the attempt's gem lookup found
  \* Redis
  tokens,      \* job:{id}:tokens, each element the attempt that pushed it
  turns,       \* job:{id}:turns, likewise
  result,      \* job:{id}
  \* one SSE generator per job
  spc,         \* where the generator is
  seenTokens, seenTurns,   \* its list indexes
  outTokens, outTurns,     \* what it has sent to the browser
  \* history
  sealed,      \* length of the token list when the result was last saved
  lapsed       \* the lists expired under the open generator

postVars   == <<post, rows, dropped>>
arqVars    == <<phase, worker, tries, pushed, gemRow>>
storeVars  == <<tokens, turns, result, sealed>>
streamVars == <<spc, seenTokens, seenTurns, outTokens, outTurns, lapsed>>
vars == <<post, rows, dropped, phase, worker, tries, pushed, gemRow, tokens,
          turns, result, spc, seenTokens, seenTurns, outTokens, outTurns, sealed,
          lapsed>>

-----------------------------------------------------------------------------
(* Types *)

Attempts == 1 .. MaxTries
Enqueued == {"enqueued", "enqueued_rowless"}
PostStates == Enqueued \cup {"idle", "upserted", "upsert_failed", "refused"}
Phases == {"none", "queued", "picked", "running", "closing", "settled"}
InLoop == {"turns", "tokens", "result", "flush"}
StreamStates == InLoop \cup {"none", "immediate", "done", "closed"}
\* None, or the outcome and the attempt that saved it.
NoResult == [status |-> "pending", attempt |-> 0]
Results == [status : {"pending", "answer", "error"}, attempt : 0 .. MaxTries]

TypeOK ==
  /\ post \in [Jobs -> PostStates]
  /\ rows \in SUBSET Threads
  /\ dropped \in [Jobs -> BOOLEAN]
  /\ phase \in [Jobs -> Phases]
  /\ worker \in [Jobs -> Workers \cup {NoWorker}]
  /\ tries \in [Jobs -> 0 .. MaxTries]
  /\ pushed \in [Jobs -> Nat]
  /\ gemRow \in [Jobs -> {"unread", "found", "missing", "failed"}]
  /\ tokens \in [Jobs -> Seq(Attempts)]
  /\ turns \in [Jobs -> Seq(Attempts)]
  /\ result \in [Jobs -> Results]
  /\ spc \in [Jobs -> StreamStates]
  /\ seenTokens \in [Jobs -> Nat]
  /\ seenTurns \in [Jobs -> Nat]
  /\ outTokens \in [Jobs -> Seq(Attempts)]
  /\ outTurns \in [Jobs -> Seq(Attempts)]
  /\ sealed \in [Jobs -> Nat]
  /\ lapsed \in [Jobs -> BOOLEAN]

Init ==
  /\ post = [j \in Jobs |-> "idle"]
  /\ rows = {}
  /\ dropped = [j \in Jobs |-> FALSE]
  /\ phase = [j \in Jobs |-> "none"]
  /\ worker = [j \in Jobs |-> NoWorker]
  /\ tries = [j \in Jobs |-> 0]
  /\ pushed = [j \in Jobs |-> 0]
  /\ gemRow = [j \in Jobs |-> "unread"]
  /\ tokens = [j \in Jobs |-> <<>>]
  /\ turns = [j \in Jobs |-> <<>>]
  /\ result = [j \in Jobs |-> NoResult]
  /\ spc = [j \in Jobs |-> "none"]
  /\ seenTokens = [j \in Jobs |-> 0]
  /\ seenTurns = [j \in Jobs |-> 0]
  /\ outTokens = [j \in Jobs |-> <<>>]
  /\ outTurns = [j \in Jobs |-> <<>>]
  /\ sealed = [j \in Jobs |-> 0]
  /\ lapsed = [j \in Jobs |-> FALSE]

-----------------------------------------------------------------------------
(* POST /api/chat: upsert the thread row, then enqueue. *)

\* A failing upsert is logged and the request goes on.
UpsertRow(j) ==
  /\ post[j] = "idle"
  /\ KindOf[j] # "iframe_app_api"
  /\ \/ /\ post' = [post EXCEPT ![j] = "upserted"]
        /\ rows' = rows \cup {ThreadOf[j]}
     \/ /\ post' = [post EXCEPT ![j] = "upsert_failed"]
        /\ UNCHANGED rows
  /\ UNCHANGED <<dropped, arqVars, storeVars, streamVars>>

\* DELETE /api/threads/{id}, its first step: the row goes, whatever is queued.
DeleteThread(t) ==
  /\ t \in rows
  /\ rows' = rows \ {t}
  /\ dropped' = [j \in Jobs |-> dropped[j] \/ (ThreadOf[j] = t /\ post[j] # "idle")]
  /\ UNCHANGED <<post, arqVars, storeVars, streamVars>>

\* Mutant: the job is enqueued before the row is committed.
ReadyToEnqueueMutant(j) == post[j] \in {"idle", "upserted", "upsert_failed"}

\* POST /api/iframe-rpc enqueues without touching the threads table.
ReadyToEnqueue(j) ==
  IF KindOf[j] = "iframe_app_api" THEN post[j] = "idle"
                              ELSE post[j] \in {"upserted", "upsert_failed"}

Enqueue(j) ==
  /\ ReadyToEnqueue(j)
  /\ post' = [post EXCEPT ![j] = IF @ = "upsert_failed" THEN "enqueued_rowless"
                                                       ELSE "enqueued"]
  /\ phase' = [phase EXCEPT ![j] = "queued"]
  /\ UNCHANGED <<rows, dropped, worker, tries, pushed, gemRow, storeVars, streamVars>>

\* enqueue_job raises, or the API process dies first: no job, the row stays.
RefusePost(j) ==
  /\ ReadyToEnqueue(j)
  /\ post' = [post EXCEPT ![j] = "refused"]
  /\ UNCHANGED <<rows, dropped, arqVars, storeVars, streamVars>>

-----------------------------------------------------------------------------
(* arq: deliver, give up, interrupt, time out. *)

Executing(j) == phase[j] \in {"picked", "running", "closing"}
Load(w) == Cardinality({j \in Jobs : worker[j] = w})

\* Mutant: the limit on deliveries is not looked at.
PickMutant(w, j) ==
  /\ phase[j] = "queued"
  /\ Load(w) < MaxJobs
  /\ phase' = [phase EXCEPT ![j] = "picked"]
  /\ worker' = [worker EXCEPT ![j] = w]
  /\ tries' = [tries EXCEPT ![j] = @ + 1]
  /\ pushed' = [pushed EXCEPT ![j] = 0]
  /\ gemRow' = [gemRow EXCEPT ![j] = "unread"]
  /\ UNCHANGED <<postVars, storeVars, streamVars>>

\* Mutant: a delivery is not counted.
PickUncountedMutant(w, j) ==
  /\ phase[j] = "queued"
  /\ tries[j] < MaxTries
  /\ Load(w) < MaxJobs
  /\ phase' = [phase EXCEPT ![j] = "picked"]
  /\ worker' = [worker EXCEPT ![j] = w]
  /\ pushed' = [pushed EXCEPT ![j] = 0]
  /\ gemRow' = [gemRow EXCEPT ![j] = "unread"]
  /\ UNCHANGED <<postVars, tries, storeVars, streamVars>>

\* A worker with a free slot takes a queued job and enters process_chat.
Pick(w, j) ==
  /\ phase[j] = "queued"
  /\ tries[j] < MaxTries
  /\ Load(w) < MaxJobs
  /\ phase' = [phase EXCEPT ![j] = "picked"]
  /\ worker' = [worker EXCEPT ![j] = w]
  /\ tries' = [tries EXCEPT ![j] = @ + 1]
  /\ pushed' = [pushed EXCEPT ![j] = 0]
  /\ gemRow' = [gemRow EXCEPT ![j] = "unread"]
  /\ UNCHANGED <<postVars, storeVars, streamVars>>

\* Too many deliveries: arq fails the job without calling process_chat.
GiveUp(j) ==
  /\ phase[j] = "queued"
  /\ tries[j] = MaxTries
  /\ phase' = [phase EXCEPT ![j] = "settled"]
  /\ UNCHANGED <<postVars, worker, tries, pushed, gemRow, storeVars, streamVars>>

\* The worker dies or is told to stop: what it executes is delivered again.
Interrupt(w) ==
  LET cut == {j \in Jobs : worker[j] = w}
  IN  /\ cut # {}
      /\ phase' = [j \in Jobs |-> IF j \in cut THEN "queued" ELSE phase[j]]
      /\ worker' = [j \in Jobs |-> IF j \in cut THEN NoWorker ELSE worker[j]]
      /\ UNCHANGED <<postVars, tries, pushed, gemRow, storeVars, streamVars>>

Settle(j) ==
  /\ phase' = [phase EXCEPT ![j] = "settled"]
  /\ worker' = [worker EXCEPT ![j] = NoWorker]
  /\ UNCHANGED <<postVars, tries, pushed, gemRow, storeVars, streamVars>>

\* The attempt ends with nothing saved, and arq does not deliver it again:
\* job_timeout cancels the handler (CancelledError passes its `except
\* Exception`), or its set-up or the save itself raises.
EndUnsaved(j) ==
  /\ phase[j] \in {"picked", "running"}
  /\ Settle(j)

\* Mutant: a job whose finally block raises keeps its worker slot.
FinishMutant(j) ==
  /\ phase[j] = "closing"
  /\ phase' = [phase EXCEPT ![j] = "settled"]
  /\ UNCHANGED <<postVars, worker, tries, pushed, gemRow, storeVars, streamVars>>

\* The finally block is over and arq records the job as finished.
Finish(j) ==
  /\ phase[j] = "closing"
  /\ Settle(j)

-----------------------------------------------------------------------------
(* The handlers, as far as the job store sees them. *)

\* Mutant: the handler does not stop after it saved a result.
SaveResultMutant(j, status) ==
  /\ result' = [result EXCEPT ![j] = [status |-> status, attempt |-> tries[j]]]
  /\ sealed' = [sealed EXCEPT ![j] = Len(tokens[j])]
  /\ phase' = [phase EXCEPT ![j] = "running"]
  /\ UNCHANGED <<postVars, worker, tries, pushed, gemRow, tokens, turns, streamVars>>

\* set job:{id}; notifier.done() that follows is a no-op.
SaveResult(j, status) ==
  /\ result' = [result EXCEPT ![j] = [status |-> status, attempt |-> tries[j]]]
  /\ sealed' = [sealed EXCEPT ![j] = Len(tokens[j])]
  /\ phase' = [phase EXCEPT ![j] = "closing"]
  /\ UNCHANGED <<postVars, worker, tries, pushed, gemRow, tokens, turns, streamVars>>

\* The gem lookup decides the graph and the system prompt; then the graph runs.
\* A lookup that raises counts as "no gem".
StartGraph(j) ==
  /\ phase[j] = "picked"
  /\ KindOf[j] # "unregistered"
  /\ phase' = [phase EXCEPT ![j] = "running"]
  /\ IF KindOf[j] = "langgraph"
     THEN \E seen \in {"failed", IF ThreadOf[j] \in rows THEN "found" ELSE "missing"} :
            gemRow' = [gemRow EXCEPT ![j] = seen]
     ELSE UNCHANGED gemRow
  /\ UNCHANGED <<postVars, worker, tries, pushed, storeVars, streamVars>>

PushToken(j) ==
  /\ phase[j] = "running"
  /\ KindOf[j] \in {"langgraph", "orchestrator"}
  /\ pushed[j] < MaxChunks[j]
  /\ tokens' = [tokens EXCEPT ![j] = Append(@, tries[j])]
  /\ pushed' = [pushed EXCEPT ![j] = @ + 1]
  /\ UNCHANGED <<postVars, phase, worker, tries, gemRow, turns, result, sealed,
                 streamVars>>

PushTurn(j) ==
  /\ phase[j] = "running"
  /\ KindOf[j] = "debate"
  /\ pushed[j] < MaxChunks[j]
  /\ turns' = [turns EXCEPT ![j] = Append(@, tries[j])]
  /\ pushed' = [pushed EXCEPT ![j] = @ + 1]
  /\ UNCHANGED <<postVars, phase, worker, tries, gemRow, tokens, result, sealed,
                 streamVars>>

SaveAnswer(j) ==
  /\ phase[j] = "running"
  /\ SaveResult(j, "answer")

\* `except Exception` and the early error returns, before or during the run.
SaveError(j) ==
  /\ phase[j] \in {"picked", "running"}
  /\ KindOf[j] # "unregistered"
  /\ SaveResult(j, "error")

\* process_chat itself answers a task_type no handler is registered for.
RejectTask(j) ==
  /\ phase[j] = "picked"
  /\ KindOf[j] = "unregistered"
  /\ SaveResult(j, "error")

-----------------------------------------------------------------------------
(* Redis time-to-live: one hour after the last write. An attempt is cut at     *)
(* five minutes, so what it wrote itself does not expire under it.            *)

ExpireLists(j) ==
  /\ tokens[j] # <<>> \/ turns[j] # <<>>
  /\ ~ (Executing(j) /\ pushed[j] > 0)
  /\ tokens' = [tokens EXCEPT ![j] = <<>>]
  /\ turns' = [turns EXCEPT ![j] = <<>>]
  /\ sealed' = [sealed EXCEPT ![j] = 0]
  /\ lapsed' = [lapsed EXCEPT ![j] = @ \/ spc[j] \in InLoop]
  /\ UNCHANGED <<postVars, arqVars, result, spc, seenTokens, seenTurns,
                 outTokens, outTurns>>

ExpireResult(j) ==
  /\ result[j] # NoResult
  /\ phase[j] # "closing"
  /\ result' = [result EXCEPT ![j] = NoResult]
  /\ UNCHANGED <<postVars, arqVars, tokens, turns, sealed, streamVars>>

-----------------------------------------------------------------------------
(* GET /api/chat/{job_id}/stream *)

\* lrange(list, since, -1)
From(list, since) == SubSeq(list, since + 1, Len(list))

\* Mutant: a stream that is opened again goes on from the old token index.
OpenStreamMutant(j) ==
  /\ j \in Watched
  /\ post[j] \in Enqueued
  /\ spc[j] \in {"none", "closed"}
  /\ spc' = [spc EXCEPT ![j] = IF result[j] # NoResult THEN "immediate" ELSE "turns"]
  /\ seenTurns' = [seenTurns EXCEPT ![j] = 0]
  /\ outTokens' = [outTokens EXCEPT ![j] = <<>>]
  /\ outTurns' = [outTurns EXCEPT ![j] = <<>>]
  /\ lapsed' = [lapsed EXCEPT ![j] = FALSE]
  /\ UNCHANGED <<postVars, arqVars, storeVars, seenTokens>>

\* A finished job is answered with "done" alone; otherwise the loop starts.
OpenStream(j) ==
  /\ j \in Watched
  /\ post[j] \in Enqueued
  /\ spc[j] \in {"none", "closed"}
  /\ spc' = [spc EXCEPT ![j] = IF result[j] # NoResult THEN "immediate" ELSE "turns"]
  /\ seenTokens' = [seenTokens EXCEPT ![j] = 0]
  /\ seenTurns' = [seenTurns EXCEPT ![j] = 0]
  /\ outTokens' = [outTokens EXCEPT ![j] = <<>>]
  /\ outTurns' = [outTurns EXCEPT ![j] = <<>>]
  /\ lapsed' = [lapsed EXCEPT ![j] = FALSE]
  /\ UNCHANGED <<postVars, arqVars, storeVars>>

SendTurns(j) ==
  /\ spc[j] = "turns"
  /\ LET new == From(turns[j], seenTurns[j])
     IN  /\ outTurns' = [outTurns EXCEPT ![j] = @ \o new]
         /\ seenTurns' = [seenTurns EXCEPT ![j] = @ + Len(new)]
  /\ spc' = [spc EXCEPT ![j] = "tokens"]
  /\ UNCHANGED <<postVars, arqVars, storeVars, seenTokens, outTokens, lapsed>>

\* Mutant: the tokens are sent and the index is not advanced.
DrainTokensMutant(j, next) ==
  /\ outTokens' = [outTokens EXCEPT ![j] = @ \o From(tokens[j], seenTokens[j])]
  /\ spc' = [spc EXCEPT ![j] = next]
  /\ UNCHANGED <<postVars, arqVars, storeVars, seenTokens, seenTurns, outTurns, lapsed>>

\* Read and send the tokens past the index, then go to `next`.
DrainTokens(j, next) ==
  /\ LET new == From(tokens[j], seenTokens[j])
     IN  /\ outTokens' = [outTokens EXCEPT ![j] = @ \o new]
         /\ seenTokens' = [seenTokens EXCEPT ![j] = @ + Len(new)]
  /\ spc' = [spc EXCEPT ![j] = next]
  /\ UNCHANGED <<postVars, arqVars, storeVars, seenTurns, outTurns, lapsed>>

SendTokens(j) ==
  /\ spc[j] = "tokens"
  /\ DrainTokens(j, "result")

\* Mutant: "done" is sent as soon as the result is seen, without the flush.
CheckResultMutant(j) ==
  /\ spc[j] = "result"
  /\ spc' = [spc EXCEPT ![j] = IF result[j] # NoResult THEN "done" ELSE "turns"]
  /\ UNCHANGED <<postVars, arqVars, storeVars, seenTokens, seenTurns,
                 outTokens, outTurns, lapsed>>

\* Mutant: the generator ends on an answer alone, not on a saved error.
CheckResultOnAnswerMutant(j) ==
  /\ spc[j] = "result"
  /\ spc' = [spc EXCEPT ![j] = IF result[j].status = "answer" THEN "flush" ELSE "turns"]
  /\ UNCHANGED <<postVars, arqVars, storeVars, seenTokens, seenTurns,
                 outTokens, outTurns, lapsed>>

\* Done: flush. Otherwise a status event, sleep, and round again.
CheckResult(j) ==
  /\ spc[j] = "result"
  /\ spc' = [spc EXCEPT ![j] = IF result[j] # NoResult THEN "flush" ELSE "turns"]
  /\ UNCHANGED <<postVars, arqVars, storeVars, seenTokens, seenTurns,
                 outTokens, outTurns, lapsed>>

FlushAndSendDone(j) ==
  /\ spc[j] = "flush"
  /\ DrainTokens(j, "done")

\* The browser goes away, or the API process stops.
Disconnect(j) ==
  /\ spc[j] \in InLoop
  /\ spc' = [spc EXCEPT ![j] = "closed"]
  /\ UNCHANGED <<postVars, arqVars, storeVars, seenTokens, seenTurns,
                 outTokens, outTurns, lapsed>>

-----------------------------------------------------------------------------
StreamStep(j) == SendTurns(j) \/ SendTokens(j) \/ CheckResult(j) \/ FlushAndSendDone(j)
AttemptEnds(j) ==
  SaveAnswer(j) \/ SaveError(j) \/ RejectTask(j) \/ EndUnsaved(j) \/ Finish(j)

Next ==
  \/ \E j \in Jobs :
       \/ UpsertRow(j) \/ Enqueue(j) \/ RefusePost(j)
       \/ GiveUp(j) \/ EndUnsaved(j) \/ Finish(j)
       \/ StartGraph(j) \/ PushToken(j) \/ PushTurn(j)
       \/ SaveAnswer(j) \/ SaveError(j) \/ RejectTask(j)
       \/ ExpireLists(j) \/ ExpireResult(j)
       \/ OpenStream(j) \/ SendTurns(j) \/ SendTokens(j) \/ CheckResult(j)
       \/ FlushAndSendDone(j) \/ Disconnect(j)
  \/ \E t \in Threads : DeleteThread(t)
  \/ \E w \in Workers : Interrupt(w)
  \/ \E w \in Workers, j \in Jobs : Pick(w, j)

Spec == Init /\ [][Next]_vars

(***************************************************************************)
(* Fairness. arq polls the queue in order of enqueueing, so a job that is  *)
(* queued again and again while slots free up is picked in the end (SF);   *)
(* job_timeout ends every attempt; the generator's loop never stops.       *)
(***************************************************************************)
Fairness ==
  \A j \in Jobs :
    /\ SF_vars(\E w \in Workers : Pick(w, j))
    /\ WF_vars(GiveUp(j))
    /\ WF_vars(AttemptEnds(j) \/ StartGraph(j))
    /\ WF_vars(StreamStep(j))

FairSpec == Spec /\ Fairness

-----------------------------------------------------------------------------
(* Properties *)

\* What was sent is the list up to the index.
Prefix(sent, list, index) == index <= Len(list) /\ sent = SubSeq(list, 1, index)

\* Whatever the worker writes between the generator's reads, the browser has
\* been sent exactly a prefix of each list: no token or turn twice, none
\* skipped. (Unless the lists expired under the open generator: its indexes
\* then point past the start of the new lists.)
StreamIsPrefix ==
  \A j \in Jobs :
    spc[j] \in InLoop /\ ~ lapsed[j] => /\ Prefix(outTokens[j], tokens[j], seenTokens[j])
                                        /\ Prefix(outTurns[j], turns[j], seenTurns[j])

\* When a generator that streamed a job sends "done", every token that was
\* in the list when the result was saved has been sent: the flush covers the
\* tokens pushed between the loop's token read and its result read.
DoneDeliversTokens ==
  [][\A j \in Jobs :
       spc[j] \in InLoop /\ spc'[j] = "done" /\ ~ lapsed[j] =>
         Len(outTokens'[j]) >= sealed[j]]_vars

\* The result is the last word of its attempt: after it is saved, only a later
\* delivery of the job pushes to the lists or saves another result.
ResultSealsAttempt ==
  [][\A j \in Jobs :
       result[j] # NoResult /\ tries[j] = result[j].attempt =>
         /\ result'[j] \in {result[j], NoResult}
         /\ Len(tokens'[j]) <= Len(tokens[j])
         /\ Len(turns'[j]) <= Len(turns[j])]_vars

\* The worker's gem lookup misses the thread row only when the upsert of that
\* very request had failed or the thread was deleted since: the row is committed
\* before the job is enqueued.
GemLookupNeverRaces ==
  \A j \in Jobs :
    gemRow[j] = "missing" => post[j] = "enqueued_rowless" \/ dropped[j]

\* A job that has settled or waits in the queue holds no worker slot, and no
\* worker runs more jobs than max_jobs: a timed-out, crashed or failed attempt
\* always gives its slot back.
SlotsAccounted ==
  /\ \A j \in Jobs : worker[j] # NoWorker <=> Executing(j)
  /\ \A w \in Workers : Load(w) <= MaxJobs

\* Every enqueued job settles, however often workers are interrupted.
EveryJobSettles ==
  \A j \in Jobs : (post[j] \in Enqueued) ~> (phase[j] = "settled")

\* A generator that is polling ends once a result is there to be found, unless
\* the result expires again first.
StreamEndsOnceAnswered ==
  \A j \in Jobs :
    (spc[j] \in InLoop /\ result[j] # NoResult)
      ~> (spc[j] \notin InLoop \/ result[j] = NoResult)

-----------------------------------------------------------------------------
(* The token list, its result key and its generator are a sealed log. *)

Seal == [j \in Jobs |-> IF result[j] = NoResult THEN "open" ELSE "sealed"]
Reader ==
  [j \in Jobs |-> IF spc[j] = "flush" THEN "closing"
                  ELSE IF spc[j] \in InLoop THEN "reading" ELSE spc[j]]

TokenLog == INSTANCE SealedLog WITH
  Ids <- Jobs, Items <- Attempts, log <- tokens, seal <- Seal, mark <- sealed,
  reader <- Reader, got <- outTokens, void <- lapsed

\* The pipeline implements the sealed log.
TokensAreSealedLog == TokenLog!Spec
=============================================================================
