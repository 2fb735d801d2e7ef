----------------------------- MODULE ChatClient -----------------------------
(***************************************************************************)
(* The browser side of a chat: the useChat hook. Each sendMessage is a     *)
(* closure that posts, asks once for the result, listens to the event      *)
(* stream and falls back to polling; all of them share the message list,   *)
(* isThinking, one ref to a stream and one to a polling timer. Every await *)
(* is a step boundary, the screen's wait for a new thread included, which  *)
(* comes before sendMessage. The screen opens a thread only to send;       *)
(* CanvasScreen has the switches. The staged attachments are left out.     *)
(*                                                                         *)
(* The server is what JobPipeline promises a reader: a job is delivered    *)
(* once or more, each run of a debate pushes its turns behind those of the *)
(* runs before and may replace their result; the stream sends what was     *)
(* pushed, in order, and "done" only once a result is there, perhaps with  *)
(* the last turns unsent; a job may never get a result. The hour after     *)
(* which a list and a result expire is left out.                           *)
(***************************************************************************)
EXTENDS Naturals, Sequences

CONSTANTS
  Jobs,      \* job ids; a job is one call of sendMessage that got past its guard
  Debates,   \* jobs of the debate screen
  Turns,     \* turns of a debate, in each run of its job
  MaxTries,  \* deliveries of a job
  MaxPolls,  \* bound: polls of one job not answered yet
  MaxShown   \* bound: a timer that outlived its job polls while fewer messages show

ASSUME ClientAssumption ==
  /\ Debates \in SUBSET Jobs
  /\ Turns \in Nat
  /\ MaxTries \in [Jobs -> Nat \ {0}]
  /\ MaxPolls \in Nat
  /\ MaxShown \in Nat

NoJob == "no job"
ASSUME NoJobAssumption == NoJob \notin Jobs

VARIABLES
  \* server
  tries,       \* deliveries of a job: its handler runs once, or again
  pushed,      \* debate turns of its last run
  turnsOut,    \* the list the stream reads: the turns of all runs, one behind the other
  answer,      \* what GET /api/job/{id} has, and the run that saved it
  \* the screen and the hook
  thread,      \* whether activeThreadId is set
  pc,          \* where the closure of a job is
  heard,       \* streamedTurnCount of a job
  shown,       \* the messages, in order of appending
  isThinking,
  preview,     \* the jobs whose tokens are in streamPreview
  pending,     \* pendingQuestion
  esRef,       \* eventSourceRef: the job whose open stream it holds, or NoJob
  timers,      \* jobs whose interval is live
  timerRef,    \* fallbackTimerRef
  inflight,    \* poll requests of a job not answered yet
  \* history
  cancelled,   \* whether the user cancelled a job under way
  dropped,     \* jobs whose stream broke
  emptied      \* jobs under way when a late new thread emptied the transcript

serverVars == <<tries, pushed, turnsOut, answer>>
pollVars == <<timers, timerRef, inflight>>
history == <<cancelled, dropped, emptied>>
vars == <<tries, pushed, turnsOut, answer, thread, pc, heard, shown, isThinking, preview,
          pending, esRef, timers, timerRef, inflight, cancelled, dropped,
          emptied>>

Kinds == {"text", "turns", "question", "empty"}
Steps == {"idle", "creating", "posting", "checking", "listening", "fetching", "polling",
          "deaf", "over"}
\* run and turn are 0 in every message but a debate turn.
Messages == [job : Jobs, kind : {"user", "answer", "turn", "partial", "failed"},
             run : Nat, turn : 0 .. Turns]
\* run is the delivery that saved the result.
Answers == [kind : Kinds \cup {"none"}, run : Nat]
NoAnswer == [kind |-> "none", run |-> 0]

TypeOK ==
  /\ tries \in [Jobs -> Nat \ {0}]
  /\ pushed \in [Jobs -> 0 .. Turns]
  /\ turnsOut \in [Jobs -> Seq([run : Nat, turn : 1 .. Turns])]
  /\ answer \in [Jobs -> Answers]
  /\ thread \in BOOLEAN
  /\ pc \in [Jobs -> Steps]
  /\ heard \in [Jobs -> Nat]
  /\ shown \in Seq(Messages)
  /\ isThinking \in BOOLEAN
  /\ preview \in SUBSET Jobs
  /\ pending \in BOOLEAN
  /\ esRef \in Jobs \cup {NoJob}
  /\ timers \in SUBSET Jobs
  /\ timerRef \in Jobs \cup {NoJob}
  /\ inflight \in [Jobs -> 0 .. MaxPolls]
  /\ cancelled \in BOOLEAN
  /\ dropped \in SUBSET Jobs
  /\ emptied \in SUBSET Jobs

Init ==
  /\ tries = [j \in Jobs |-> 1]
  /\ pushed = [j \in Jobs |-> 0]
  /\ turnsOut = [j \in Jobs |-> <<>>]
  /\ answer = [j \in Jobs |-> NoAnswer]
  /\ thread \in BOOLEAN
  /\ pc = [j \in Jobs |-> "idle"]
  /\ heard = [j \in Jobs |-> 0]
  /\ shown = <<>>
  /\ isThinking = FALSE
  /\ preview = {}
  /\ pending = FALSE
  /\ esRef = NoJob
  /\ timers = {}
  /\ timerRef = NoJob
  /\ inflight = [j \in Jobs |-> 0]
  /\ cancelled = FALSE
  /\ dropped = {}
  /\ emptied = {}

Goto(j, step) == pc' = [pc EXCEPT ![j] = step]
Message(j, kind) == [job |-> j, kind |-> kind, run |-> 0, turn |-> 0]
Turn(j, r, n) == [job |-> j, kind |-> "turn", run |-> r, turn |-> n]
Show(message) == shown' = Append(shown, message)
\* The turns of a job's result after the first n: all if n is 0, none if it has no more.
TurnsAfter(j, n) == [k \in 1 .. Turns - n |-> Turn(j, answer[j].run, n + k)]

-----------------------------------------------------------------------------
(* The server, for a job that was accepted and as long as its result is awaited. *)

Awaited(j) ==
  \/ pc[j] \in {"checking", "listening", "fetching", "polling"}
  \/ j \in timers
  \/ inflight[j] > 0

\* The worker died before arq was done with the job, its result perhaps saved already:
\* arq hands the job out again, and the handler starts from its beginning.
Redeliver(j) ==
  /\ Awaited(j)
  /\ tries[j] < MaxTries[j]
  /\ tries' = [tries EXCEPT ![j] = @ + 1]
  /\ pushed' = [pushed EXCEPT ![j] = 0]
  /\ UNCHANGED <<turnsOut, answer, thread, pc, heard, shown, isThinking, preview, pending,
                 esRef, pollVars, history>>

\* The last run has not saved its result.
Running(j) == Awaited(j) /\ answer[j].run < tries[j]

\* Mutant: a run speaks one turn too many.
PushTurnMutant(j) ==
  /\ Running(j) /\ j \in Debates
  /\ pushed[j] <= Turns
  /\ pushed' = [pushed EXCEPT ![j] = @ + 1]
  /\ turnsOut' = [turnsOut EXCEPT
       ![j] = Append(@, [run |-> tries[j], turn |-> pushed[j] + 1])]
  /\ UNCHANGED <<tries, answer, thread, pc, heard, shown, isThinking, preview, pending,
                 esRef, pollVars, history>>

PushTurn(j) ==
  /\ Running(j) /\ j \in Debates
  /\ pushed[j] < Turns
  /\ pushed' = [pushed EXCEPT ![j] = @ + 1]
  /\ turnsOut' = [turnsOut EXCEPT
       ![j] = Append(@, [run |-> tries[j], turn |-> pushed[j] + 1])]
  /\ UNCHANGED <<tries, answer, thread, pc, heard, shown, isThinking, preview, pending,
                 esRef, pollVars, history>>

\* A debate's result has the turns of its run; an error text may replace any result.
SaveResult(j) ==
  /\ Running(j)
  /\ \E kind \in IF j \in Debates THEN {"turns", "text"} ELSE {"text", "question", "empty"} :
       /\ kind = "turns" => pushed[j] = Turns
       /\ answer' = [answer EXCEPT ![j] = [kind |-> kind, run |-> tries[j]]]
  /\ UNCHANGED <<tries, pushed, turnsOut, thread, pc, heard, shown, isThinking, preview,
                 pending, esRef, pollVars, history>>

-----------------------------------------------------------------------------
(* handleSend and sendMessage *)

\* sendMessage past its guard: the optimistic user message, and the call of postChat.
Post(j, before) ==
  /\ shown' = Append(before, Message(j, "user"))
  /\ preview' = {}
  /\ isThinking' = TRUE
  /\ Goto(j, "posting")

\* Mutant: a message is sent while another is awaited.
SendMutant(j) ==
  /\ ~ pending
  /\ pc[j] = "idle"
  /\ \/ thread /\ Post(j, shown)
     \/ /\ ~ thread
        /\ Goto(j, "creating")
        /\ UNCHANGED <<shown, preview, isThinking>>
  /\ UNCHANGED <<serverVars, thread, heard, pending, esRef, pollVars,
                 history>>

\* The bar is open and sendMessage passes its guard, the test of isThinking. Without a
\* thread the screen makes one first, and keeps the sendMessage of this render.
Send(j) ==
  /\ ~ pending
  /\ ~ isThinking
  /\ pc[j] = "idle"
  /\ \/ thread /\ Post(j, shown)
     \/ /\ ~ thread
        /\ Goto(j, "creating")
        /\ UNCHANGED <<shown, preview, isThinking>>
  /\ UNCHANGED <<serverVars, thread, heard, pending, esRef, pollVars,
                 history>>

Active(j) == pc[j] \in {"posting", "checking", "listening", "fetching", "polling"}

\* createNewThread returns: the transcript is emptied and the message sent, whatever
\* was sent meanwhile, for the isThinking tested is that of the earlier render.
ThreadCreated(j) ==
  /\ pc[j] = "creating"
  /\ thread' = TRUE
  /\ Post(j, <<>>)
  /\ emptied' = emptied \cup {k \in Jobs : Active(k)}
  /\ UNCHANGED <<serverVars, heard, pending, esRef, pollVars, cancelled,
                 dropped>>

\* createNewThread throws, and handleSend with it: nothing was sent.
CreateFails(j) ==
  /\ pc[j] = "creating"
  /\ Goto(j, "idle")
  /\ UNCHANGED <<serverVars, thread, heard, shown, isThinking, preview, pending, esRef,
                 pollVars, history>>

\* handleQuestionSubmit: the panel closes, and sendMessage may ignore the call.
SubmitQuestion ==
  /\ pending
  /\ pending' = FALSE
  /\ \/ \E j \in Jobs : ~ isThinking /\ pc[j] = "idle" /\ Post(j, shown)
     \/ isThinking /\ UNCHANGED <<pc, shown, preview, isThinking>>
  /\ UNCHANGED <<serverVars, thread, heard, esRef, pollVars, history>>

PostAccepted(j) ==
  /\ pc[j] = "posting"
  /\ Goto(j, "checking")
  /\ UNCHANGED <<serverVars, thread, heard, shown, isThinking, preview, pending, esRef,
                 pollVars, history>>

\* postChat or the first getJob throws.
SendFails(j) ==
  /\ pc[j] \in {"posting", "checking"}
  /\ Goto(j, "over")
  /\ isThinking' = FALSE
  /\ Show(Message(j, "failed"))
  /\ UNCHANGED <<serverVars, thread, heard, preview, pending, esRef, pollVars, history>>

\* handleResult and the end of the wait.
Usable(j) == answer[j].kind \in {"text", "turns", "question"}

\* Of a debate, the first `known` turns are not shown again.
HandleResult(j, known) ==
  /\ shown' = shown \o CASE answer[j].kind = "turns" -> TurnsAfter(j, known)
                         [] answer[j].kind = "text" -> << Message(j, "answer") >>
                         [] OTHER -> <<>>
  /\ pending' = (pending \/ answer[j].kind = "question")
  /\ isThinking' = FALSE

\* The first getJob finds the job done already.
CheckDone(j) ==
  /\ pc[j] = "checking"
  /\ Usable(j)
  /\ HandleResult(j, 0)
  /\ Goto(j, "over")
  /\ UNCHANGED <<serverVars, thread, heard, preview, esRef, pollVars, history>>

\* Not done when it was asked: open the stream.
Listen(j) ==
  /\ pc[j] = "checking"
  /\ Goto(j, "listening")
  /\ esRef' = j
  /\ UNCHANGED <<serverVars, thread, heard, shown, isThinking, preview, pending, pollVars, history>>

-----------------------------------------------------------------------------
(* es.onmessage, es.onerror *)

\* es.close(): a ref to a closed stream is as good as none.
CloseStream(j) == esRef' = IF esRef = j THEN NoJob ELSE esRef

HearToken(j) ==
  /\ pc[j] = "listening" /\ j \notin Debates
  /\ preview' = preview \cup {j}
  /\ UNCHANGED <<serverVars, thread, pc, heard, shown, isThinking, pending, esRef, pollVars, history>>

HearTurn(j) ==
  /\ pc[j] = "listening"
  /\ heard[j] < Len(turnsOut[j])
  /\ heard' = [heard EXCEPT ![j] = @ + 1]
  /\ Show(Turn(j, turnsOut[j][heard[j] + 1].run, turnsOut[j][heard[j] + 1].turn))
  /\ UNCHANGED <<serverVars, thread, pc, isThinking, preview, pending, esRef, pollVars, history>>

\* "done": close the stream and fetch the result.
HearDone(j) ==
  /\ pc[j] = "listening"
  /\ answer[j].kind # "none"
  /\ Goto(j, "fetching")
  /\ CloseStream(j)
  /\ UNCHANGED <<serverVars, thread, heard, shown, isThinking, preview, pending,
                 pollVars, history>>

\* Mutant: the result of a debate is shown whole, as in the polling fallback.
FetchDoneAllMutant(j) ==
  /\ pc[j] = "fetching"
  /\ HandleResult(j, 0)
  /\ preview' = {}
  /\ Goto(j, "over")
  /\ UNCHANGED <<serverVars, thread, heard, esRef, pollVars, history>>

\* Mutant: what the stream has shown is taken for the whole debate.
FetchDoneNoneMutant(j) ==
  /\ pc[j] = "fetching"
  /\ HandleResult(j, Turns)
  /\ preview' = {}
  /\ Goto(j, "over")
  /\ UNCHANGED <<serverVars, thread, heard, esRef, pollVars, history>>

\* The result of a debate adds its turns behind as many as were heard, of whatever
\* run; an empty one adds nothing.
FetchDone(j) ==
  /\ pc[j] = "fetching"
  /\ HandleResult(j, heard[j])
  /\ preview' = {}
  /\ Goto(j, "over")
  /\ UNCHANGED <<serverVars, thread, heard, esRef, pollVars, history>>

\* getJob throws: caught, the stream is closed already, nothing else happens.
FetchFails(j) ==
  /\ pc[j] = "fetching"
  /\ Goto(j, "deaf")
  /\ UNCHANGED <<serverVars, thread, heard, shown, isThinking, preview, pending, esRef,
                 pollVars, history>>

\* Mutant: the broken stream is closed and no timer started.
StreamErrorMutant(j) ==
  /\ pc[j] = "listening"
  /\ Goto(j, "polling")
  /\ CloseStream(j)
  /\ dropped' = dropped \cup {j}
  /\ UNCHANGED <<serverVars, thread, heard, shown, isThinking, preview, pending,
                 pollVars, cancelled, emptied>>

\* The connection drops: close it and start polling every two seconds.
StreamError(j) ==
  /\ pc[j] = "listening"
  /\ Goto(j, "polling")
  /\ CloseStream(j)
  /\ timers' = timers \cup {j}
  /\ timerRef' = j
  /\ dropped' = dropped \cup {j}
  /\ UNCHANGED <<serverVars, thread, heard, shown, isThinking, preview, pending,
                 inflight, cancelled, emptied>>

-----------------------------------------------------------------------------
(* The polling fallback. A request may outlive the two seconds to the next. *)

PollTick(j) ==
  /\ j \in timers
  /\ inflight[j] < MaxPolls
  /\ pc[j] = "over" => Len(shown) < MaxShown
  /\ inflight' = [inflight EXCEPT ![j] = @ + 1]
  /\ UNCHANGED <<serverVars, thread, pc, heard, shown, isThinking, preview, pending, esRef,
                 timers, timerRef, history>>

\* Pending, empty or failed: keep polling.
PollNothing(j) ==
  /\ inflight[j] > 0
  /\ inflight' = [inflight EXCEPT ![j] = @ - 1]
  /\ UNCHANGED <<serverVars, thread, pc, heard, shown, isThinking, preview, pending, esRef,
                 timers, timerRef, history>>

\* Done: clear the timer the ref holds by now, and show the whole result.
PollDone(j) ==
  /\ inflight[j] > 0
  /\ Usable(j)
  /\ inflight' = [inflight EXCEPT ![j] = @ - 1]
  /\ timers' = timers \ {timerRef}
  /\ timerRef' = NoJob
  /\ HandleResult(j, 0)
  /\ Goto(j, "over")
  /\ UNCHANGED <<serverVars, thread, heard, preview, esRef, history>>

-----------------------------------------------------------------------------
(* The user. *)

\* Mutant: the spinner is left running.
CancelMutant ==
  /\ isThinking
  /\ ~ pending
  /\ pc' = [j \in Jobs |-> IF j \in {esRef, timerRef} /\ pc[j] \in {"listening", "polling"}
                          THEN "over" ELSE pc[j]]
  /\ esRef' = NoJob
  /\ timers' = timers \ {timerRef}
  /\ timerRef' = NoJob
  /\ preview' = {}
  /\ cancelled' = (cancelled \/ \E j \in Jobs : Active(j))
  /\ UNCHANGED <<serverVars, thread, heard, shown, isThinking, pending, inflight, dropped, emptied>>

\* cancelJob: what the two refs hold is closed and cleared, nothing else.
Cancel ==
  /\ isThinking
  /\ ~ pending
  /\ pc' = [j \in Jobs |-> IF j = esRef /\ pc[j] = "listening" THEN "over"
                           ELSE IF j = timerRef /\ pc[j] = "polling" THEN "over"
                           ELSE pc[j]]
  /\ esRef' = NoJob
  /\ timers' = timers \ {timerRef}
  /\ timerRef' = NoJob
  /\ shown' = shown \o (IF preview = {} THEN <<>>
                        ELSE << Message(CHOOSE j \in preview : TRUE, "partial") >>)
  /\ preview' = {}
  /\ isThinking' = FALSE
  /\ cancelled' = (cancelled \/ \E j \in Jobs : Active(j))
  /\ UNCHANGED <<serverVars, thread, heard, pending, inflight, dropped,
                 emptied>>

-----------------------------------------------------------------------------
Next ==
  \/ \E j \in Jobs :
       \/ Redeliver(j) \/ PushTurn(j) \/ SaveResult(j)
       \/ Send(j) \/ ThreadCreated(j) \/ CreateFails(j)
       \/ PostAccepted(j) \/ SendFails(j) \/ CheckDone(j) \/ Listen(j)
       \/ HearToken(j) \/ HearTurn(j) \/ HearDone(j) \/ StreamError(j)
       \/ FetchDone(j) \/ FetchFails(j)
       \/ PollTick(j) \/ PollNothing(j) \/ PollDone(j)
  \/ SubmitQuestion
  \/ Cancel

Spec == Init /\ [][Next]_vars

(***************************************************************************)
(* Fairness. A request is answered or fails in the end, a broken stream is *)
(* noticed, an interval keeps firing; a request sent again and again does  *)
(* not fail for ever.                                                      *)
(***************************************************************************)
\* What the closure of a job waits for at its next await.
Proceed(j) ==
  \/ CheckDone(j) \/ Listen(j)
  \/ HearDone(j) \/ StreamError(j)
  \/ FetchDone(j) \/ FetchFails(j)

Fairness ==
  \A j \in Jobs :
    /\ WF_vars(Proceed(j))
    /\ WF_vars(PollTick(j))
    /\ SF_vars(PollDone(j))

FairSpec == Spec /\ Fairness

-----------------------------------------------------------------------------
(* Properties *)

\* Where the turns of a debate are shown.
TurnsShown(j) == {p \in 1 .. Len(shown) : shown[p].job = j /\ shown[p].kind = "turn"}

\* Spoken earlier: in an earlier run, or earlier in the same.
Before(s, t) == s.run < t.run \/ (s.run = t.run /\ s.turn < t.turn)

OneRun(j) == \A p, q \in TurnsShown(j) : shown[p].run = shown[q].run

\* As long as its stream did not break, each turn that a run of a debate spoke appears at
\* most once and in the order they were spoken, whether it came over the stream or with the
\* result; and with those before it in its run, unless the transcript was emptied under
\* it or the result was put behind turns of another run.
TurnsOnceInOrder ==
  \A j \in Jobs \ dropped :
    /\ \A p, q \in TurnsShown(j) : p < q => Before(shown[p], shown[q])
    /\ j \notin emptied /\ (pc[j] = "over" => OneRun(j)) =>
         \A p \in TurnsShown(j) : \A n \in 1 .. shown[p].turn :
           \E q \in TurnsShown(j) : shown[q].run = shown[p].run /\ shown[q].turn = n

\* A stream that ended with "done" leaves the whole debate on the screen: the result
\* fills in the turns that were never streamed. Of a job delivered again this holds if
\* only turns of the run with the result had been streamed.
DoneShowsWholeDebate ==
  [][\A j \in Jobs \ emptied :
       /\ pc[j] = "fetching" /\ pc'[j] = "over"
       /\ answer[j].kind = "turns"
       /\ \A p \in TurnsShown(j) : shown[p].run = answer[j].run
       => {shown'[p].turn : p \in TurnsShown(j)'} = 1 .. Turns]_vars

\* Without a cancellation or a broken stream, and if no new thread arrived while a
\* message was under way, one request is on its way at a time, so the messages of a
\* job stand together.
TranscriptUnmixed ==
  ~ cancelled /\ dropped = {} /\ emptied = {} =>
    \A a, b, c \in 1 .. Len(shown) :
      a < b /\ b < c /\ shown[a].job = shown[c].job => shown[b].job = shown[a].job

\* Something that can end the spinner: a request, a stream, a timer.
Source(j) ==
  \/ pc[j] \in {"posting", "checking", "listening", "fetching"}
  \/ j \in timers
  \/ inflight[j] > 0

\* While the user is shown a spinner something can still end it, except after the
\* fetch that follows "done" has failed.
ThinkingHasSource ==
  isThinking => \E j \in Jobs : Source(j) \/ pc[j] = "deaf"

\* Claimed where the handler's catch says "keep listening": something always can.
ThinkingKeepsListening ==
  isThinking => \E j \in Jobs : Source(j)

\* Waits for a usable result, and no other job polls, whose answer would clear the one
\* timer the ref holds.
Waits(j) ==
  /\ pc[j] \in {"checking", "listening", "polling"}
  /\ Usable(j)
  /\ dropped \ {j} = {}

\* A usable result that stays reaches the closure that waits for it, over the stream or
\* by polling, or its last fetch fails: again and again nobody waits for one. Another
\* job that polls is excluded, and a later delivery may replace the result by an empty
\* one, for which the polling goes on.
AnswerArrives == []<>(\A j \in Jobs : ~ Waits(j))
=============================================================================
