------------------------------ MODULE CanvasApp ------------------------------
(***************************************************************************)
(* The canvas_apps table behind /api/canvas and /apps, and the file a      *)
(* deploy writes. A deploy reads the row, writes the file and marks the    *)
(* row in three steps, and nothing is locked: edits, answers and deploys   *)
(* of another tab may fall in between. Of a page only two things count:    *)
(* which app it is of and its text, where 0 is the empty text.             *)
(***************************************************************************)
EXTENDS Naturals, FiniteSets

CONSTANTS
  Threads,
  Apps,      \* ids the table gives its rows
  MaxText    \* bound: texts of a page are 0 .. MaxText

None == "none"

ASSUME CanvasAppAssumption ==
  /\ MaxText \in Nat \ {0}
  /\ None \notin Apps \cup Threads

Requests == {"screen", "tab"}  \* deploy requests of the modelled tab and of another one
Texts == 0 .. MaxText
ThreadIds == Threads \cup {None}

VARIABLES
  apps,       \* rows of the table
  html,       \* a row's text
  thread,     \* its thread, None for NULL
  deployed,   \* rows marked as deployed
  file,       \* the text of static/apps/<id>/index.html
  hasFile,
  deploy,     \* what each deploy request is doing
  \* history
  published   \* apps whose last deploy met no other deploy, and no edit since it began

appVars == <<apps, html, thread, deployed, file, hasFile, deploy, published>>

DeployStages == {"idle", "read", "written"}
Deploys == [at : DeployStages, app : Apps \cup {None}, text : Texts, alone : BOOLEAN]
NoDeploy == [at |-> "idle", app |-> None, text |-> 0, alone |-> FALSE]

AppTypeOK ==
  /\ apps \in SUBSET Apps
  /\ html \in [Apps -> Texts]
  /\ thread \in [Apps -> ThreadIds]
  /\ \A a, b \in apps : thread[a] = thread[b] => a = b \/ thread[a] = None
  /\ deployed \in SUBSET apps
  /\ file \in [Apps -> Texts]
  /\ hasFile \in SUBSET apps
  /\ deploy \in [Requests -> Deploys]
  /\ published \in SUBSET deployed

\* A table that holds at most one row of each of the threads given, none of them deployed.
AppInit(threads) ==
  /\ apps \in SUBSET Apps
  /\ html \in [Apps -> Texts] /\ \A a \in Apps \ apps : html[a] = 0
  /\ thread \in [Apps -> threads \cup {None}] /\ \A a \in Apps : thread[a] = None <=> a \notin apps
  /\ \A a, b \in apps : thread[a] = thread[b] => a = b
  /\ deployed = {}
  /\ file = [a \in Apps |-> 0]
  /\ hasFile = {}
  /\ deploy = [r \in Requests |-> NoDeploy]
  /\ published = {}

-----------------------------------------------------------------------------
\* What the screen and the pages hold of a row.
Row(a) == [app |-> a, html |-> html[a], thread |-> thread[a]]
NoRow == [app |-> None, html |-> 0, thread |-> None]

\* list_or_get_by_thread: the newest row of a thread, of which there is one at most.
ByThread(t) ==
  IF \E a \in apps : thread[a] = t THEN Row(CHOOSE a \in apps : thread[a] = t) ELSE NoRow

\* serve_hosted_app answers from the row, whether it is deployed or not, and has nothing
\* for an empty page.
Hosted(a) == a \in apps /\ html[a] # 0

\* An edit is not in what a deploy of the app has read.
Disturb(a) ==
  /\ deploy' = [r \in Requests |-> IF deploy[r].app = a THEN [deploy[r] EXCEPT !.alone = FALSE]
                                                      ELSE deploy[r]]
  /\ published' = published \ {a}

Insert(a, t, text) ==
  /\ a \in Apps \ apps
  /\ apps' = apps \cup {a}
  /\ html' = [html EXCEPT ![a] = text]
  /\ thread' = [thread EXCEPT ![a] = t]
  /\ UNCHANGED <<deployed, file, hasFile, deploy, published>>

\* upload_app: a row of no thread.
Upload(text) == \E a \in Apps : Insert(a, None, text)

\* update_app, and the second half of the upsert.
Update(a, text) ==
  /\ a \in apps
  /\ html' = [html EXCEPT ![a] = text]
  /\ Disturb(a)
  /\ UNCHANGED <<apps, thread, deployed, file, hasFile>>

\* Mutant: the upsert inserts, conflict or not.
UpsertMutant(t, app, text) ==
  \/ Insert(app, t, text)
  \/ ByThread(t) # NoRow /\ app = ByThread(t).app /\ Update(app, text)

\* The worker's upsert of a thread's page; app is the row it wrote.
Upsert(t, app, text) ==
  IF ByThread(t) = NoRow THEN Insert(app, t, text)
                         ELSE app = ByThread(t).app /\ Update(app, text)

\* The thread's row is deleted: ON DELETE SET NULL.
Orphan(t) ==
  /\ thread' = [a \in Apps |-> IF thread[a] = t THEN None ELSE thread[a]]
  /\ UNCHANGED <<apps, html, deployed, file, hasFile, deploy, published>>

\* deploy_app reads the page.
DeployRead(r, a) ==
  LET others == {q \in Requests \ {r} : deploy[q].app = a} IN
  /\ deploy[r] = NoDeploy /\ a \in apps
  /\ deploy' = [q \in Requests |->
       IF q = r THEN [at |-> "read", app |-> a, text |-> html[a], alone |-> others = {}]
       ELSE IF q \in others THEN [deploy[q] EXCEPT !.alone = FALSE] ELSE deploy[q]]
  /\ published' = published \ {a}
  /\ UNCHANGED <<apps, html, thread, deployed, file, hasFile>>

\* Mutant: a file that is there is not written again.
DeployWriteMutant(r) ==
  /\ deploy[r].at = "read"
  /\ deploy' = [deploy EXCEPT ![r].at = "written"]
  /\ file' = IF deploy[r].app \in hasFile THEN file
             ELSE [file EXCEPT ![deploy[r].app] = deploy[r].text]
  /\ hasFile' = hasFile \cup {deploy[r].app}
  /\ UNCHANGED <<apps, html, thread, deployed, published>>

DeployWrite(r) ==
  /\ deploy[r].at = "read"
  /\ deploy' = [deploy EXCEPT ![r].at = "written"]
  /\ file' = [file EXCEPT ![deploy[r].app] = deploy[r].text]
  /\ hasFile' = hasFile \cup {deploy[r].app}
  /\ UNCHANGED <<apps, html, thread, deployed, published>>

DeployMark(r) ==
  /\ deploy[r].at = "written"
  /\ deployed' = deployed \cup {deploy[r].app}
  /\ published' = IF deploy[r].alone THEN published \cup {deploy[r].app} ELSE published
  /\ deploy' = [deploy EXCEPT ![r] = NoDeploy]
  /\ UNCHANGED <<apps, html, thread, file, hasFile>>

\* A step raises, or the server stops: the file may be there without the mark.
DeployFails(r) ==
  /\ deploy[r] # NoDeploy
  /\ deploy' = [deploy EXCEPT ![r] = NoDeploy]
  /\ UNCHANGED <<apps, html, thread, deployed, file, hasFile, published>>

-----------------------------------------------------------------------------
\* A deploy that met no other deploy and no edit leaves the same page in the file and on
\* the hosted address, until the next edit or deploy (canvas.py:231-257,
\* hosted_apps.py:64-76).
DeployPublishes ==
  \A a \in published : a \in hasFile /\ file[a] = html[a] /\ (Hosted(a) <=> file[a] # 0)
=============================================================================
