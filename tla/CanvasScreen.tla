---------------------------- MODULE CanvasScreen ----------------------------
(***************************************************************************)
(* The canvas screen of one browser tab: CanvasChatApp with its hooks      *)
(* useThreads and useCanvas, over the table of CanvasApp. The thread of    *)
(* the URL, the active thread, the messages shown, the app in the pane and *)
(* the text of the editor are separate pieces of state, which effects      *)
(* bring together after a render and which late replies pull apart.        *)
(*                                                                         *)
(* Effects whose dependencies changed run before the next event. A         *)
(* navigation is a transition: the URL changes in a later render. Of the   *)
(* chat hook a post, its answer and cancelling are kept.                   *)
(***************************************************************************)
EXTENDS CanvasApp

CONSTANT MaxActs  \* bound: acts of the user in this tab and in others

ASSUME CanvasScreenAssumption == MaxActs \in Nat

VARIABLES
  url,           \* thread of the URL
  nav,           \* thread navigated to, not yet rendered
  active,        \* activeThreadId
  shown,         \* the thread whose messages are shown, None for an empty list
  canvas,        \* canvasApp
  current,       \* currentHtml, and the app it is a text of
  seen,          \* what the effects last ran with
  \* requests in flight
  made,          \* threads created so far
  creating,      \* who waits for createThread
  removing,      \* threads being deleted that were active at the click
  messageLoads,  \* threads whose messages are awaited
  canvasLoads,   \* loads of the pane, and what the server has read for them
  saving,        \* the row being saved
  deploying,     \* the app of the pane when "Deploy" was clicked
  jobs,          \* chat jobs, and the row of a page they have kept
  listening,     \* the thread whose answer the tab waits for
  \* history
  late,          \* of what the last reply applied was of a thread no longer active
  acts,
  blank          \* an empty page was opened while the editor's text was of another app

screenVars == <<url, nav, active, shown, canvas, current, seen>>
requestVars == <<made, creating, removing, messageLoads, canvasLoads, saving, deploying,
                 jobs, listening>>
historyVars == <<late, blank>>
vars == <<appVars, screenVars, requestVars, historyVars, acts>>

AppIds == Apps \cup {None}
Rows == [app : AppIds, html : Texts, thread : ThreadIds]
Pages == [app : AppIds, html : Texts]
NoPage == [app |-> None, html |-> 0]

TypeOK ==
  /\ AppTypeOK
  /\ {url, nav, active, shown, listening} \subseteq made \cup {None}
  /\ canvas \in Rows
  /\ current \in Pages
  /\ seen \in [url : ThreadIds, active : ThreadIds, app : AppIds]
  /\ made \in SUBSET Threads
  /\ creating \in SUBSET {"auto", "new", "send"}
  /\ removing \in SUBSET made
  /\ messageLoads \in SUBSET made
  /\ canvasLoads \in SUBSET [of : made, read : BOOLEAN, row : Rows]
  /\ saving \in [at : {"idle", "sent", "served"}, row : Rows]
  /\ deploying \in [at : {"idle", "sent"}, row : Rows]
  /\ jobs \in [Threads -> [at : {"idle", "running", "done"}, row : Rows]]
  /\ late \in SUBSET {"messages", "canvas"}
  /\ blank \in BOOLEAN
  /\ acts \in 0 .. MaxActs

Idle == [at |-> "idle", row |-> NoRow]

\* The tab opens on a thread that is there, or on none.
Init ==
  /\ made \in SUBSET Threads /\ url \in made \cup {None}
  /\ AppInit(made)
  /\ nav = None /\ active = None /\ shown = None
  /\ canvas = NoRow /\ current = NoPage
  /\ seen = [url |-> None, active |-> None, app |-> None]
  /\ creating = {} /\ removing = {} /\ messageLoads = {} /\ canvasLoads = {}
  /\ saving = Idle /\ deploying = Idle
  /\ jobs = [t \in Threads |-> Idle] /\ listening = None
  /\ late = {}
  /\ blank = FALSE
  /\ acts = 0

-----------------------------------------------------------------------------
(* Renders *)

Deps == [url |-> url, active |-> active, app |-> canvas.app]
Settled == seen = Deps

Load(t) == [of |-> t, read |-> FALSE, row |-> NoRow]

\* Mutant: the effect depends on the URL alone.
MovedMutant == url \notin {None, active} /\ url # seen.url

\* The URL wins: switchThread(urlThreadId).
Moved == url \notin {None, active} /\ (url # seen.url \/ active # seen.active)

\* The effects of one render, each with the values of that render. The app's text goes to
\* the editor when the app is another one and has a text.
Effects ==
  LET switched == active # seen.active
      opened == canvas.app \notin {seen.app, None} IN
  /\ ~Settled
  /\ seen' = Deps
  /\ active' = IF Moved THEN url ELSE active
  /\ messageLoads' = IF Moved THEN messageLoads \cup {url} ELSE messageLoads
  /\ canvasLoads' = IF switched /\ active # None THEN canvasLoads \cup {Load(active)}
                                                 ELSE canvasLoads
  /\ canvas' = IF switched /\ active = None THEN NoRow ELSE canvas
  /\ current' = IF switched /\ active = None THEN NoPage
                ELSE IF opened /\ canvas.html # 0 THEN [app |-> canvas.app, html |-> canvas.html]
                ELSE current
  /\ blank' = (blank \/ (opened /\ canvas.html = 0 /\ current.app # canvas.app))
  /\ UNCHANGED <<appVars, url, nav, shown, made, creating, removing, saving, deploying,
                 jobs, listening, late>>

\* The transition started by navigate is rendered.
Navigated ==
  /\ Settled /\ nav # None
  /\ url' = nav /\ nav' = None
  /\ UNCHANGED <<appVars, active, shown, canvas, current, seen, requestVars, historyVars>>

-----------------------------------------------------------------------------
(* Threads: useThreads *)

SelectThread(t) ==
  /\ Settled
  /\ t \in made \ {url}
  /\ nav' = t
  /\ UNCHANGED <<appVars, url, active, shown, canvas, current, seen, requestVars, historyVars>>

\* createNewThread is called on mount without a thread, by "new chat" and by a first post.
Create(who) ==
  /\ Settled /\ who \notin creating
  /\ \/ who = "auto" /\ url = None /\ active = None /\ shown = None
     \/ who = "new"
     \/ who = "send" /\ active = None /\ listening = None
  /\ creating' = creating \cup {who}
  /\ UNCHANGED <<appVars, screenVars, made, removing, messageLoads, canvasLoads, saving,
                 deploying, jobs, listening, historyVars>>

CreateFails(who) ==
  /\ who \in creating
  /\ creating' = creating \ {who}
  /\ UNCHANGED <<appVars, screenVars, made, removing, messageLoads, canvasLoads, saving,
                 deploying, jobs, listening, historyVars>>

\* sendMessage, unless an answer is awaited: the message is shown behind what is shown.
Posts(t) ==
  /\ jobs' = [jobs EXCEPT ![t] = [at |-> "running", row |-> NoRow]]
  /\ listening' = t

\* The new thread is active at once, the URL follows.
Created(who, t) ==
  /\ Settled /\ who \in creating /\ t \in Threads \ made
  /\ made' = made \cup {t}
  /\ creating' = creating \ {who}
  /\ active' = t /\ nav' = t
  /\ late' = late \ {"messages"}
  /\ current' = IF who = "new" THEN NoPage ELSE current
  /\ IF who = "send" /\ listening = None
     THEN Posts(t) /\ shown' = t
     ELSE shown' = None /\ UNCHANGED <<jobs, listening>>
  /\ UNCHANGED <<appVars, url, canvas, seen, removing, messageLoads, canvasLoads, saving,
                 deploying, blank>>

\* The messages of a thread, or none when they cannot be loaded.
MessagesArrive(t) ==
  /\ Settled /\ t \in messageLoads
  /\ messageLoads' = messageLoads \ {t}
  /\ shown' \in {t, None}
  /\ late' = IF t = active THEN late \ {"messages"} ELSE late \cup {"messages"}
  /\ UNCHANGED <<appVars, url, nav, active, canvas, current, seen, made, creating, removing,
                 canvasLoads, saving, deploying, jobs, listening, blank>>

\* removeThread: the click and the deletion are one step, the tab acts on the answer.
Remove(t) ==
  /\ Settled /\ t \in made \ removing
  /\ Orphan(t)
  /\ removing' = IF active = t THEN removing \cup {t} ELSE removing
  /\ UNCHANGED <<screenVars, made, creating, messageLoads, canvasLoads, saving, deploying,
                 jobs, listening, historyVars>>

Removed(t) ==
  /\ Settled /\ t \in removing
  /\ removing' = removing \ {t}
  /\ active' = None /\ shown' = None
  /\ UNCHANGED <<appVars, url, nav, canvas, current, seen, made, creating, messageLoads,
                 canvasLoads, saving, deploying, jobs, listening, historyVars>>

-----------------------------------------------------------------------------
(* The pane: useCanvas *)

ServeLoad(l) ==
  /\ l \in canvasLoads /\ ~l.read
  /\ canvasLoads' = (canvasLoads \ {l}) \cup {[of |-> l.of, read |-> TRUE, row |-> ByThread(l.of)]}
  /\ UNCHANGED <<appVars, screenVars, made, creating, removing, messageLoads, saving,
                 deploying, jobs, listening, historyVars>>

\* The pane takes a row, whatever thread is active by now.
TakesRow(row, of) ==
  /\ canvas' = row
  /\ late' = IF of = active THEN late \ {"canvas"} ELSE late \cup {"canvas"}

LoadArrives(l) ==
  /\ Settled /\ l \in canvasLoads
  /\ canvasLoads' = canvasLoads \ {l}
  /\ \/ l.read /\ TakesRow(l.row, l.of)
     \/ TakesRow(NoRow, l.of)
  /\ UNCHANGED <<appVars, url, nav, active, shown, current, seen, made, creating, removing,
                 messageLoads, saving, deploying, jobs, listening, blank>>

Type(text) ==
  /\ Settled /\ canvas # NoRow
  /\ current' = [app |-> canvas.app, html |-> text]
  /\ UNCHANGED <<appVars, url, nav, active, shown, canvas, seen, requestVars, historyVars>>

\* "Save Changes" with the text of the editor.
Save(text) ==
  /\ Settled /\ canvas # NoRow /\ saving = Idle
  /\ saving' = [at |-> "sent", row |-> [canvas EXCEPT !.html = text]]
  /\ UNCHANGED <<appVars, screenVars, made, creating, removing, messageLoads, canvasLoads,
                 deploying, jobs, listening, historyVars>>

ServeSave ==
  /\ saving.at = "sent"
  /\ Update(saving.row.app, saving.row.html)
  /\ saving' = [at |-> "served", row |-> [saving.row EXCEPT !.thread = thread[saving.row.app]]]
  /\ UNCHANGED <<screenVars, made, creating, removing, messageLoads, canvasLoads,
                 deploying, jobs, listening, historyVars>>

\* The saved row is put into the pane; a failure leaves the pane alone.
SaveArrives ==
  /\ Settled /\ saving # Idle
  /\ saving' = Idle
  /\ \/ saving.at = "served" /\ TakesRow(saving.row, saving.row.thread)
     \/ UNCHANGED <<canvas, late>>
  /\ UNCHANGED <<appVars, url, nav, active, shown, current, seen, made, creating, removing,
                 messageLoads, canvasLoads, deploying, jobs, listening, blank>>

\* deployCanvas remembers the app as it is now, and puts that back when it has ended.
Deploy ==
  /\ Settled /\ canvas # NoRow /\ deploying = Idle
  /\ DeployRead("screen", canvas.app)
  /\ deploying' = [at |-> "sent", row |-> canvas]
  /\ UNCHANGED <<screenVars, made, creating, removing, messageLoads, canvasLoads, saving,
                 jobs, listening, historyVars>>

DeployEnds ==
  /\ Settled /\ deploying # Idle
  /\ deploying' = Idle
  /\ \/ DeployMark("screen") /\ TakesRow(deploying.row, deploying.row.thread)
     \/ DeployFails("screen") /\ UNCHANGED <<canvas, late>>
  /\ UNCHANGED <<url, nav, active, shown, current, seen, made, creating, removing,
                 messageLoads, canvasLoads, saving, jobs, listening, blank>>

-----------------------------------------------------------------------------
(* Chat *)

\* Mutant: the app of the pane need not be of the thread.
EmbeddedMutant(t) == IF canvas # NoRow THEN current ELSE NoPage

\* What handleSend puts behind the prompt of a post to t.
Embedded(t) ==
  IF canvas # NoRow /\ canvas.thread = t /\ current.html # 0 THEN current ELSE NoPage

Send ==
  /\ Settled /\ active # None /\ listening = None
  /\ Posts(active)
  /\ shown' = IF shown = None THEN active ELSE shown
  /\ UNCHANGED <<appVars, url, nav, active, canvas, current, seen, made, creating, removing,
                 messageLoads, canvasLoads, saving, deploying, late, blank>>

\* The worker ends a job, and keeps the page when the answer has one.
Answer(t, app, text) ==
  /\ jobs[t].at = "running"
  /\ \/ /\ Upsert(t, app, text)
        /\ jobs' = [jobs EXCEPT ![t] = [at |-> "done",
                                        row |-> [app |-> app, html |-> text, thread |-> t]]]
     \/ jobs' = [jobs EXCEPT ![t].at = "done"] /\ UNCHANGED appVars
  /\ UNCHANGED <<screenVars, made, creating, removing, messageLoads, canvasLoads, saving,
                 deploying, listening, historyVars>>

\* The result is shown, and its page goes to the pane and to the editor.
Hear ==
  LET row == jobs[listening].row IN
  /\ Settled /\ listening # None /\ jobs[listening].at = "done"
  /\ jobs' = [jobs EXCEPT ![listening] = Idle]
  /\ listening' = None
  /\ shown' = IF shown = None THEN listening ELSE shown
  /\ late' = IF listening = active THEN late ELSE late \cup {"messages", "canvas"}
  /\ IF row = NoRow
     THEN UNCHANGED <<canvas, current>>
     ELSE canvas' = row /\ current' = [app |-> row.app, html |-> row.html]
  /\ UNCHANGED <<appVars, url, nav, active, seen, made, creating, removing, messageLoads,
                 canvasLoads, saving, deploying, blank>>

Cancel ==
  /\ Settled /\ listening # None
  /\ listening' = None
  /\ UNCHANGED <<appVars, screenVars, made, creating, removing, messageLoads, canvasLoads,
                 saving, deploying, jobs, historyVars>>

-----------------------------------------------------------------------------
(* The server, and another tab of the same user *)

OtherTab ==
  /\ \/ \E a \in Apps : DeployRead("tab", a)
     \/ \E text \in Texts : Upload(text) \/ \E a \in Apps : Update(a, text)
  /\ UNCHANGED <<screenVars, requestVars, historyVars>>

Deploying ==
  /\ DeployWrite("screen") \/ DeployWrite("tab") \/ DeployMark("tab") \/ DeployFails("tab")
  /\ UNCHANGED <<screenVars, requestVars, historyVars>>

UserActs ==
  \/ \E t \in Threads : SelectThread(t) \/ Remove(t)
  \/ \E who \in {"auto", "new", "send"} : Create(who)
  \/ \E text \in Texts : Type(text) \/ Save(text)
  \/ Deploy \/ Send \/ Cancel
  \/ OtherTab

Goes ==
  \/ Effects \/ Navigated
  \/ \E t \in Threads :
       \/ MessagesArrive(t) \/ Removed(t)
       \/ \E who \in creating : Created(who, t)
       \/ \E app \in Apps, text \in Texts : Answer(t, app, text)
  \/ \E who \in creating : CreateFails(who)
  \/ \E l \in canvasLoads : ServeLoad(l) \/ LoadArrives(l)
  \/ ServeSave \/ SaveArrives \/ DeployEnds \/ Hear \/ Deploying

Next ==
  \/ acts < MaxActs /\ acts' = acts + 1 /\ UserActs
  \/ acts' = acts /\ Goes

Spec == Init /\ [][Next]_vars

-----------------------------------------------------------------------------
(* Properties *)

\* A post sent now would carry the page of its own thread, whatever was switched, saved, deployed or
\* answered in between, unless an empty page was opened before, which leaves the text of
\* another app in the editor's place (CanvasChatApp.tsx:223-228, 266-271).
EmbedsOwnPage ==
  LET page == Embedded(active) IN
  Settled /\ page # NoPage /\ ~blank => thread[page.app] \in {active, None}

Quiet ==
  Settled /\ nav = None /\ messageLoads = {} /\ canvasLoads = {} /\ creating = {} /\ removing = {}

\* Once the effects have run the URL's thread is active; once nothing is awaited the
\* messages and the pane are of that thread, unless the last reply that was applied came
\* late (CanvasChatApp.tsx:81-86, 213-221, useThreads.ts:47-76).
SettledShowsUrl ==
  /\ Settled => url \in {active, None}
  /\ Quiet => /\ "messages" \notin late => shown \in {active, None}
              /\ "canvas" \notin late => canvas.thread \in {active, None}
=============================================================================
