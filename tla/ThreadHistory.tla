--------------------------- MODULE ThreadHistory ---------------------------
(***************************************************************************)
(* What is kept of one thread, and who writes it: its row in "threads",    *)
(* its newest LangGraph checkpoint, its folder of files and, for a thread  *)
(* with a gem of the canvas type, its app. Chat jobs run in the workers,   *)
(* requests in the API process, and none of them locks anything.           *)
(*                                                                         *)
(* A message is its job and its kind. LangGraph loads a checkpoint and     *)
(* saves the run's input in one step, and gives an input message its       *)
(* identity once: the same message put in again replaces itself.           *)
(***************************************************************************)
EXTENDS Naturals, Sequences, FiniteSets, SequencesExt

CONSTANTS
  Jobs,      \* chat jobs of the thread
  Files,     \* files that may be uploaded to it
  Screen,    \* "canvas" posts with the canvas gem and app_id 'canvas', "gemchat" with a
             \* gem of the canvas type and app_id 'chat', "chat" with no gem
  MaxCuts    \* bound: runs cut by a crash

ASSUME HistoryAssumption ==
  /\ Screen \in {"canvas", "gemchat", "chat"}
  /\ MaxCuts \in Nat

VARIABLES
  row,         \* the thread has a row
  checkpoint,  \* messages of the newest checkpoint
  files,
  app,         \* the thread has an app
  pc,          \* where the run of a job is
  view,        \* the messages a run holds
  canvasRun,   \* jobs whose gem lookup found the canvas gem
  deletion,    \* where delete_thread is
  \* history
  cuts,
  disturbed,   \* runs that overlapped another run or a deletion, or ran more than once
  leftovers    \* a deletion failed in part, or did not see a post, a run or an upload

threadVars == <<row, checkpoint, files>>
runVars == <<pc, view, canvasRun>>
vars == <<threadVars, app, runVars, deletion, cuts, disturbed, leftovers>>

Message == [job : Jobs, by : {"user", "text", "html"}]
Active == {"loaded", "running", "answered", "kept"}

\* A job that arq may still deliver, or deliver again.
Unfinished == Active \cup {"queued", "saved"}

TypeOK ==
  /\ row \in BOOLEAN
  /\ checkpoint \in Seq(Message)
  /\ files \in SUBSET Files
  /\ app \in BOOLEAN
  /\ pc \in [Jobs -> {"new", "queued", "saved", "done", "failed"} \cup Active]
  /\ view \in [Jobs -> Seq(Message)]
  /\ canvasRun \in SUBSET Jobs
  /\ deletion \in {"none", "checkpoints", "folder"}
  /\ cuts \in 0 .. MaxCuts
  /\ disturbed \in SUBSET Jobs
  /\ leftovers \in BOOLEAN

Init ==
  /\ row = FALSE
  /\ checkpoint = <<>>
  /\ files = {}
  /\ app = FALSE
  /\ pc = [j \in Jobs |-> "new"]
  /\ view = [j \in Jobs |-> <<>>]
  /\ canvasRun = {}
  /\ deletion = "none"
  /\ cuts = 0
  /\ disturbed = {}
  /\ leftovers = FALSE

-----------------------------------------------------------------------------
(* Runs *)

Running == {j \in Jobs : pc[j] \in Active}
Goes(j, at) == pc' = [pc EXCEPT ![j] = at]

\* The upsert before the job is queued; its failure stops nothing.
Post(j) ==
  /\ pc[j] = "new"
  /\ row' \in {TRUE, row}
  /\ Goes(j, "queued")
  /\ leftovers' = (leftovers \/ deletion # "none" \/ ~row')
  /\ UNCHANGED <<checkpoint, files, app, view, canvasRun, deletion, cuts, disturbed>>

\* The gem lookup; a thread without a row has no gem, nor has one whose lookup fails.
LookUpGem(j) ==
  /\ pc[j] = "queued"
  /\ Goes(j, "loaded")
  /\ \/ row /\ Screen # "chat" /\ canvasRun' = canvasRun \cup {j}
     \/ canvasRun' = canvasRun \ {j}
  /\ disturbed' = IF Running = {} THEN disturbed ELSE disturbed \cup Running \cup {j}
  /\ UNCHANGED <<threadVars, app, view, deletion, cuts, leftovers>>

\* A node or the input has been added to what run j holds, and that is checkpointed.
Checkpoints(j, messages) ==
  /\ view' = [view EXCEPT ![j] = messages]
  /\ checkpoint' = messages
  /\ UNCHANGED <<row, files, app, canvasRun, deletion, cuts, disturbed, leftovers>>

Question(j) == [job |-> j, by |-> "user"]

\* Mutant: the graph is compiled without its checkpointer's history.
BeginGraphMutant(j) ==
  /\ pc[j] = "loaded"
  /\ Goes(j, "running")
  /\ Checkpoints(j, <<Question(j)>>)

\* The graph loads the thread's messages, adds the user's and saves that.
BeginGraph(j) ==
  /\ pc[j] = "loaded"
  /\ Goes(j, "running")
  /\ Checkpoints(j, Append(checkpoint, Question(j)))

\* The chatbot node has answered; the answer goes behind what the run loaded.
Answer(j, by) ==
  /\ pc[j] = "running"
  /\ by = "html" => j \in canvasRun
  /\ Goes(j, "answered")
  /\ Checkpoints(j, Append(view[j], [job |-> j, by |-> by]))

\* Mutant: the input is stored again on the second invocation.
InvokeAgainMutant(j) ==
  /\ pc[j] = "answered"
  /\ view[j][Len(view[j]) - 1] = Question(j)
  /\ Goes(j, "running")
  /\ Checkpoints(j, Append(checkpoint, Question(j)))

\* The events carried no final state: the graph is invoked once more with the same
\* input.
InvokeAgain(j) ==
  /\ pc[j] = "answered"
  /\ view[j][Len(view[j]) - 1] = Question(j)
  /\ Goes(j, "running")
  /\ Checkpoints(j, IF Contains(checkpoint, Question(j)) THEN checkpoint
                    ELSE Append(checkpoint, Question(j)))

\* A run that is over, or has the text of its result, forgets what it held.
Leaves(j, at) ==
  /\ Goes(j, at)
  /\ view' = [view EXCEPT ![j] = <<>>]
  /\ canvasRun' = canvasRun \ {j}
  /\ UNCHANGED <<threadVars, deletion, leftovers>>

\* An answer with a page is stored as the thread's app. The app refers to the thread's
\* row, and an upsert that fails is passed over.
KeepPage(j) ==
  /\ pc[j] = "answered"
  /\ \/ Last(view[j]).by = "html" /\ row /\ j \in canvasRun /\ app' = TRUE
     \/ UNCHANGED app
  /\ Leaves(j, "kept")
  /\ UNCHANGED <<cuts, disturbed>>

\* The result is stored; the run writes nothing more, but is not over.
Save(j) ==
  /\ pc[j] = "kept"
  /\ Leaves(j, "saved")
  /\ UNCHANGED <<app, cuts, disturbed>>

\* The client is closed and arq records the job as finished.
Finish(j) ==
  /\ pc[j] = "saved"
  /\ Leaves(j, "done")
  /\ UNCHANGED <<app, cuts, disturbed>>

Fail(j) ==
  /\ pc[j] \in Active
  /\ Leaves(j, "failed")
  /\ disturbed' = disturbed \ {j}
  /\ UNCHANGED <<app, cuts>>

\* Mutant: deliveries without a limit.
CutMutant(j) ==
  /\ pc[j] \in Active \cup {"saved"}
  /\ cuts' = cuts + 1
  /\ Leaves(j, "queued")
  /\ disturbed' = disturbed \cup {j}
  /\ UNCHANGED app

\* The worker died and the job is queued again, also one with its result stored. A run
\* that takes too long is a Fail.
Cut(j) ==
  /\ pc[j] \in Active \cup {"saved"}
  /\ cuts < MaxCuts
  /\ cuts' = cuts + 1
  /\ Leaves(j, "queued")
  /\ disturbed' = disturbed \cup {j}
  /\ UNCHANGED app

-----------------------------------------------------------------------------
(* Deleting the thread, files *)

\* Mutant: the checkpoints are forgotten.
DeleteRowMutant ==
  /\ row
  /\ deletion = "none"
  /\ row' = FALSE
  /\ deletion' = "folder"
  /\ app' = FALSE
  /\ disturbed' = disturbed \cup {j \in Jobs : pc[j] \in Unfinished \cup {"done"}}
  /\ leftovers' = (\E j \in Jobs : pc[j] \in Unfinished)
  /\ UNCHANGED <<checkpoint, files, runVars, cuts>>

\* The row goes first, and the app loses its thread.
DeleteRow ==
  /\ row
  /\ deletion = "none"
  /\ row' = FALSE
  /\ deletion' = "checkpoints"
  /\ app' = FALSE
  /\ disturbed' = disturbed \cup {j \in Jobs : pc[j] \in Unfinished \cup {"done"}}
  /\ leftovers' = (\E j \in Jobs : pc[j] \in Unfinished)
  /\ UNCHANGED <<checkpoint, files, runVars, cuts>>

\* A failure to delete the checkpoints is passed over.
DeleteCheckpoints ==
  /\ deletion = "checkpoints"
  /\ deletion' = "folder"
  /\ \/ checkpoint' = <<>> /\ UNCHANGED leftovers
     \/ UNCHANGED checkpoint /\ leftovers' = TRUE
  /\ disturbed' = disturbed \cup {j \in Jobs : pc[j] \notin {"new", "failed"}}
  /\ UNCHANGED <<row, files, app, runVars, cuts>>

\* What cannot be removed stays, and nobody is told.
DeleteFolder ==
  /\ deletion = "folder"
  /\ deletion' = "none"
  /\ files' \in SUBSET files
  /\ leftovers' = (leftovers \/ files' # {})
  /\ UNCHANGED <<row, checkpoint, app, runVars, cuts, disturbed>>

\* An upload makes the folder and asks for no row.
Upload(f) ==
  /\ f \notin files
  /\ files' = files \cup {f}
  /\ leftovers' = (leftovers \/ ~row)
  /\ UNCHANGED <<row, checkpoint, app, runVars, deletion, cuts, disturbed>>

\* A file of the composer or of the thread is taken back; one that is gone already is no
\* error.
DeleteAttachment(f) ==
  /\ files' = files \ {f}
  /\ UNCHANGED <<row, checkpoint, app, runVars, deletion, cuts, disturbed, leftovers>>

-----------------------------------------------------------------------------
Run(j) ==
  \/ LookUpGem(j) \/ BeginGraph(j) \/ InvokeAgain(j) \/ KeepPage(j) \/ Save(j) \/ Finish(j)
  \/ \E by \in {"text", "html"} : Answer(j, by)

Next ==
  \/ \E j \in Jobs : Post(j) \/ Run(j) \/ Fail(j) \/ Cut(j)
  \/ DeleteRow \/ DeleteCheckpoints \/ DeleteFolder
  \/ \E f \in Files : Upload(f) \/ DeleteAttachment(f)

Spec == Init /\ [][Next]_vars

-----------------------------------------------------------------------------
(* What a reload shows. A thread is listed by its row, with its gem or, if it has none,
with its app. Of its stored messages the last answer of a thread with an app is its page;
threads of an app_id other than 'chat' are returned earlier. *)

Listings == {"gem", "app", "all"}

Listed(by) ==
  /\ row
  /\ by = "gem" => Screen # "chat"
  /\ by = "app" => Screen = "chat"

LastAnswer == {i \in DOMAIN checkpoint :
                 /\ checkpoint[i].by # "user"
                 /\ \A k \in DOMAIN checkpoint : k > i => checkpoint[k].by = "user"}

\* The app_id of the thread's row; no row is treated as 'chat'.
AppId == IF row /\ Screen = "canvas" THEN "canvas" ELSE "chat"

Shown == [i \in DOMAIN checkpoint |->
            IF AppId = "chat" /\ app /\ i \in LastAnswer
            THEN [checkpoint[i] EXCEPT !.by = "page"] ELSE checkpoint[i]]

-----------------------------------------------------------------------------
(* Properties *)

\* After a reload the question of every job with a stored result is there once, with its
\* own answer or the app's page right behind it, unless its run overlapped another run or
\* a deletion or was cut and delivered again (LangGraphHandler, get_thread_messages).
AnswersAreShown ==
  \A j \in Jobs : pc[j] \in {"saved", "done"} /\ j \notin disturbed =>
    LET asked == {i \in DOMAIN Shown : Shown[i] = Question(j)}
    IN  /\ Cardinality(asked) = 1
        /\ \A i \in asked : /\ i + 1 \in DOMAIN Shown
                            /\ Shown[i + 1].job = j /\ Shown[i + 1].by # "user"

\* Only a deletion, or a run that overlapped another run or a deletion, takes messages
\* out of the history.
HistoryOnlyGrows ==
  [][\/ IsPrefix(checkpoint, checkpoint')
     \/ deletion = "checkpoints"
     \/ \E j \in disturbed : pc[j] \in {"loaded", "running"} /\ pc'[j] # pc[j]]_vars

\* A thread that is deleted, so in no list any more, leaves no messages and no files,
\* unless a job of it was not over or a step of the deletion failed, even in part
\* (delete_thread, list_threads).
DeletedLeavesNothing ==
  (\A by \in Listings : ~Listed(by)) /\ deletion = "none" /\ ~leftovers =>
    checkpoint = <<>> /\ files = {}

\* "Canvas threads: replace last AI message with canvas JSON"
\* (app/api/routes/chat.py:543): a reload shows the page of a thread that has one.
PageIsShown ==
  app => \A i \in LastAnswer : Shown[i].by = "page"
=============================================================================
