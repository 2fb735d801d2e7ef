------------------------ MODULE CanvasScreen_proofs ------------------------
(***************************************************************************)
(* For any threads, apps, texts and acts of the user: what a deploy leaves *)
(* in the file, whose page a post carries, and what the screen shows once  *)
(* nothing is awaited. A deploy that is still alone has read what the row  *)
(* holds, and nobody else writes its file. Every copy of a row that the    *)
(* tab or a request holds is of a row that is there and has lost its       *)
(* thread at most. What is shown of a thread that is no longer active is   *)
(* being replaced, or came late.                                           *)
(***************************************************************************)
EXTENDS CanvasScreen, TLAPS

\* A deploy that is alone has the page of its app, and its file once it has written it; an
\* app that is published has no deploy under way.
DeployInv ==
  /\ \A r \in Requests :
       /\ deploy[r].at = "idle" => deploy[r] = NoDeploy
       /\ deploy[r].at # "idle" => deploy[r].app \in apps
       /\ deploy[r].at = "written" => deploy[r].app \in hasFile
       /\ deploy[r].alone =>
            /\ deploy[r].text = html[deploy[r].app]
            /\ deploy[r].at = "written" => file[deploy[r].app] = deploy[r].text
            /\ \A q \in Requests \ {r} : deploy[q].app # deploy[r].app
  /\ \A a \in published : /\ a \in hasFile /\ file[a] = html[a]
                          /\ \A r \in Requests : deploy[r].app # a

AppInv == AppTypeOK /\ DeployInv

\* A copy of a row may show a thread that the row has lost since.
HeldIn(row, table, of) ==
  row = NoRow \/ (row.app \in table /\ of[row.app] \in {row.thread, None})

Held(row) == HeldIn(row, apps, thread)

RowsInv ==
  /\ Held(canvas) /\ Held(saving.row) /\ Held(deploying.row)
  /\ \A t \in Threads : Held(jobs[t].row)
  /\ \A l \in canvasLoads : Held(l.row)

\* A page that was kept or loaded for a thread is of that thread.
OriginInv ==
  /\ \A t \in Threads : jobs[t].row = NoRow \/ jobs[t].row.thread = t
  /\ \A l \in canvasLoads : l.row = NoRow \/ l.row.thread = l.of

\* Once the effects saw the app of the pane, the editor has its text.
EditorInv ==
  ~blank /\ canvas.app # None /\ canvas.app = seen.app /\ current.html # 0 =>
    current.app = canvas.app

\* Once the effects saw the URL and the active thread, they are one.
UrlInv == url = seen.url /\ active = seen.active => url \in {active, None}

\* Messages of another thread came late or are being replaced, and so is the pane.
MessagesInv == "messages" \notin late => shown \in {active, None} \/ active \in messageLoads

PaneInv ==
  "canvas" \notin late => \/ canvas.thread \in {active, None}
                          \/ active # seen.active
                          \/ \E l \in canvasLoads : l.of = active

IInv ==
  /\ TypeOK
  /\ DeployInv
  /\ RowsInv
  /\ OriginInv
  /\ EditorInv
  /\ UrlInv
  /\ MessagesInv
  /\ PaneInv

-----------------------------------------------------------------------------
(* The table *)

\* An app of the table is none of the placeholders, so its row is a row.
LEMMA RowIsRow ==
  ASSUME AppTypeOK, NEW a \in apps
  PROVE  /\ a # None /\ Row(a) # NoRow
         /\ Row(a).app = a /\ Row(a).html = html[a] /\ Row(a).thread = thread[a]
         /\ Row(a) \in Rows
<1>1. a \in Apps /\ a # None
  BY CanvasAppAssumption DEF AppTypeOK
<1>2. html[a] \in Texts /\ thread[a] \in ThreadIds
  BY <1>1 DEF AppTypeOK
<1>3. Row(a).app = a /\ Row(a).html = html[a] /\ Row(a).thread = thread[a]
  BY DEF Row
<1>4. Row(a) # NoRow
  BY <1>1, <1>3 DEF NoRow
<1>5. Row(a) \in Rows
  BY <1>1, <1>2 DEF Row, Rows, AppIds
<1> QED
  BY <1>1, <1>3, <1>4, <1>5

LEMMA NoRowType == NoRow \in Rows /\ NoRow.app = None /\ NoRow.thread = None
<1>1. 0 \in Texts
  BY CanvasAppAssumption DEF Texts
<1> QED
  BY <1>1 DEF NoRow, Rows, AppIds, ThreadIds

\* A thread's row, or none because it has none.
LEMMA ByThreadRow ==
  ASSUME AppTypeOK, NEW t
  PROVE  \/ ByThread(t) = NoRow /\ \A a \in apps : thread[a] # t
         \/ \E a \in apps : thread[a] = t /\ ByThread(t) = Row(a)
<1>1. CASE \E a \in apps : thread[a] = t
  <2> DEFINE a == CHOOSE a \in apps : thread[a] = t
  <2>1. a \in apps /\ thread[a] = t
    BY <1>1
  <2>2. ByThread(t) = Row(a)
    BY <1>1 DEF ByThread
  <2> QED
    BY <2>1, <2>2
<1>2. CASE ~ \E a \in apps : thread[a] = t
  BY <1>2 DEF ByThread
<1> QED
  BY <1>1, <1>2

\* What the screen, the worker and other tabs do to the table.
AppStep ==
  \/ \E a \in Apps, t \in ThreadIds, text \in Texts :
       Insert(a, t, text) /\ (t = None \/ \A b \in apps : thread[b] # t)
  \/ \E a \in Apps, text \in Texts : Update(a, text)
  \/ \E t \in Threads : Orphan(t)
  \/ \E r \in Requests, a \in Apps : DeployRead(r, a)
  \/ \E r \in Requests : DeployWrite(r) \/ DeployMark(r) \/ DeployFails(r)
  \/ UNCHANGED appVars

\* The upsert keeps one row of a thread.
LEMMA UpsertStep ==
  ASSUME AppTypeOK, NEW t \in Threads, NEW app \in Apps, NEW text \in Texts, Upsert(t, app, text)
  PROVE  /\ AppStep
         /\ app \in apps' /\ thread'[app] = t /\ html'[app] = text
<1>1. CASE ByThread(t) = NoRow
  <2>1. \A b \in apps : thread[b] # t
    BY <1>1, ByThreadRow, RowIsRow
  <2>2. Insert(app, t, text) /\ t \in ThreadIds
    BY <1>1 DEF Upsert, ThreadIds
  <2> QED
    BY <2>1, <2>2 DEF AppStep, Insert, AppTypeOK
<1>2. CASE ByThread(t) # NoRow
  <2>1. PICK a \in apps : thread[a] = t /\ ByThread(t) = Row(a)
    BY <1>2, ByThreadRow
  <2>2. app = a /\ Update(app, text)
    BY <1>2, <2>1, RowIsRow DEF Upsert
  <2> QED
    BY <2>1, <2>2 DEF AppStep, Update, AppTypeOK
<1> QED
  BY <1>1, <1>2

LEMMA NoDeployType ==
  /\ NoDeploy \in Deploys /\ NoDeploy.at = "idle" /\ NoDeploy.app = None /\ ~NoDeploy.alone
<1>1. 0 \in Texts
  BY CanvasAppAssumption DEF Texts
<1> QED
  BY <1>1 DEF NoDeploy, Deploys, DeployStages

\* A deploy that is disturbed is what it was, but not alone.
LEMMA Disturbed ==
  ASSUME AppTypeOK, NEW a, Disturb(a)
  PROVE  /\ deploy' \in [Requests -> Deploys]
         /\ \A r \in Requests : /\ deploy'[r].at = deploy[r].at /\ deploy'[r].app = deploy[r].app
                                /\ deploy'[r].text = deploy[r].text
                                /\ deploy'[r].alone <=> (deploy[r].alone /\ deploy[r].app # a)
                                /\ deploy[r].alone = FALSE => deploy'[r] = deploy[r]
         /\ published' = published \ {a}
<1>1. ASSUME NEW d \in Deploys, NEW e, e = [d EXCEPT !.alone = FALSE]
      PROVE  /\ e \in Deploys /\ e.at = d.at /\ e.app = d.app /\ e.text = d.text /\ ~e.alone
             /\ d.alone = FALSE => e = d
  BY <1>1 DEF Deploys
<1>2. \A r \in Requests : deploy[r] \in Deploys
  BY DEF AppTypeOK
<1>3. \A r \in Requests : deploy'[r] = IF deploy[r].app = a THEN [deploy[r] EXCEPT !.alone = FALSE]
                                                           ELSE deploy[r]
  BY DEF Disturb
<1>4. \A r \in Requests : deploy'[r] \in Deploys
  BY <1>1, <1>2, <1>3
<1>5. deploy' \in [Requests -> Deploys]
  BY <1>4 DEF Disturb
<1> QED
  BY <1>1, <1>2, <1>3, <1>5 DEF Disturb

LEMMA InsertKeeps ==
  ASSUME AppInv, NEW a \in Apps, NEW t \in ThreadIds, NEW text \in Texts, Insert(a, t, text),
         t = None \/ \A b \in apps : thread[b] # t
  PROVE  AppInv'
<1> USE DEF AppInv
<1>1. /\ html' \in [Apps -> Texts] /\ thread' \in [Apps -> ThreadIds] /\ a \notin apps
      /\ \A b \in apps : html'[b] = html[b] /\ thread'[b] = thread[b]
      /\ thread'[a] = t
      /\ apps' = apps \cup {a} /\ apps' \in SUBSET Apps
  BY DEF Insert, AppTypeOK
<1>2. \A b, c \in apps' : thread'[b] = thread'[c] => b = c \/ thread'[b] = None
  BY <1>1 DEF AppTypeOK
<1>3. AppTypeOK'
  BY <1>1, <1>2 DEF Insert, AppTypeOK
<1>4. /\ \A r \in Requests : deploy[r].alone => deploy[r].app \in apps
      /\ \A b \in published : b \in apps
      /\ UNCHANGED <<deploy, hasFile, file, published>>
  BY NoDeployType DEF Insert, AppTypeOK, DeployInv
<1>5. DeployInv'
  BY <1>1, <1>4 DEF DeployInv
<1> QED
  BY <1>3, <1>5

LEMMA UpdateKeeps ==
  ASSUME AppInv, NEW a \in Apps, NEW text \in Texts, Update(a, text)
  PROVE  AppInv'
<1> USE DEF AppInv
<1>1. /\ html' \in [Apps -> Texts] /\ \A b \in Apps \ {a} : html'[b] = html[b]
      /\ UNCHANGED <<apps, thread, deployed, file, hasFile>>
  BY DEF Update, AppTypeOK
<1>2. /\ deploy' \in [Requests -> Deploys]
      /\ \A r \in Requests : /\ deploy'[r].at = deploy[r].at /\ deploy'[r].app = deploy[r].app
                             /\ deploy'[r].text = deploy[r].text
                             /\ deploy'[r].alone <=> (deploy[r].alone /\ deploy[r].app # a)
                             /\ deploy[r].alone = FALSE => deploy'[r] = deploy[r]
      /\ published' = published \ {a}
  BY Disturbed DEF Update
<1>3. AppTypeOK'
  BY <1>1, <1>2 DEF AppTypeOK
<1>4. ASSUME NEW r \in Requests
      PROVE  /\ deploy'[r].at = "idle" => deploy'[r] = NoDeploy
             /\ deploy'[r].at # "idle" => deploy'[r].app \in apps'
             /\ deploy'[r].at = "written" => deploy'[r].app \in hasFile'
  <2>1. deploy[r].at = "idle" => deploy'[r] = NoDeploy
    BY <1>2, NoDeployType DEF DeployInv
  <2> QED
    BY <1>1, <1>2, <2>1 DEF DeployInv
<1>5. ASSUME NEW r \in Requests, deploy'[r].alone
      PROVE  /\ deploy'[r].text = html'[deploy'[r].app]
             /\ deploy'[r].at = "written" => file'[deploy'[r].app] = deploy'[r].text
             /\ \A q \in Requests \ {r} : deploy'[q].app # deploy'[r].app
  <2>1. deploy[r].alone /\ deploy[r].app # a
    BY <1>2, <1>5
  <2>2. deploy[r].app \in apps /\ apps \subseteq Apps
    BY <2>1, NoDeployType DEF DeployInv, AppTypeOK
  <2> QED
    BY <1>1, <1>2, <2>1, <2>2 DEF DeployInv
<1>6. \A b \in published' : /\ b \in hasFile' /\ file'[b] = html'[b]
                            /\ \A r \in Requests : deploy'[r].app # b
  BY <1>1, <1>2 DEF DeployInv, AppTypeOK
<1>7. DeployInv'
  BY <1>4, <1>5, <1>6 DEF DeployInv
<1> QED
  BY <1>3, <1>7

LEMMA OrphanKeeps ==
  ASSUME AppInv, NEW t \in Threads, Orphan(t)
  PROVE  AppInv'
<1> USE DEF AppInv
<1>1. /\ thread' \in [Apps -> ThreadIds]
      /\ \A a \in Apps : thread'[a] = thread[a] \/ thread'[a] = None
  BY DEF Orphan, AppTypeOK, ThreadIds
<1>2. apps \in SUBSET Apps
  BY DEF AppTypeOK
<1>3. AppTypeOK'
  BY <1>1, <1>2 DEF Orphan, AppTypeOK
<1>4. DeployInv'
  BY DEF Orphan, DeployInv
<1> QED
  BY <1>3, <1>4

\* A deploy that begins disturbs the others of its app, and is alone if there is none.
LEMMA DeployReadKeeps ==
  ASSUME AppInv, NEW r \in Requests, NEW a \in Apps, DeployRead(r, a)
  PROVE  AppInv'
<1> USE DEF AppInv
<1> DEFINE others == {q \in Requests \ {r} : deploy[q].app = a}
           d == [at |-> "read", app |-> a, text |-> html[a], alone |-> others = {}]
<1>1. /\ a \in apps /\ apps \subseteq Apps /\ deploy[r] = NoDeploy
      /\ published' = published \ {a}
      /\ UNCHANGED <<apps, html, thread, deployed, file, hasFile>>
  BY DEF DeployRead, AppTypeOK
<1>2. d \in Deploys /\ d.at = "read" /\ d.app = a /\ d.text = html[a]
  <2>1. html[a] \in Texts /\ (others = {}) \in BOOLEAN
    BY DEF AppTypeOK
  <2> HIDE DEF others
  <2> QED
    BY <2>1 DEF Deploys, DeployStages
<1>3. d.alone <=> \A q \in Requests \ {r} : deploy[q].app # a
  OBVIOUS
<1>4. ASSUME NEW c \in Deploys, NEW e, e = [c EXCEPT !.alone = FALSE]
      PROVE  e \in Deploys /\ e.at = c.at /\ e.app = c.app /\ e.text = c.text /\ ~e.alone
  BY <1>4 DEF Deploys
<1>5. /\ deploy' = [q \in Requests |-> IF q = r THEN d
                                      ELSE IF q \in others THEN [deploy[q] EXCEPT !.alone = FALSE]
                                      ELSE deploy[q]]
  BY DEF DeployRead
<1> HIDE DEF d
<1>6. /\ deploy' \in [Requests -> Deploys] /\ deploy'[r] = d
      /\ \A q \in Requests \ {r} :
           /\ deploy'[q].at = deploy[q].at /\ deploy'[q].app = deploy[q].app
           /\ deploy'[q].text = deploy[q].text
           /\ deploy[q].app = a => ~deploy'[q].alone
           /\ deploy[q].app # a => deploy'[q] = deploy[q]
  BY <1>2, <1>4, <1>5 DEF AppTypeOK
<1>7. AppTypeOK'
  BY <1>1, <1>6 DEF AppTypeOK
<1>8. ASSUME NEW q \in Requests
      PROVE  /\ deploy'[q].at = "idle" => deploy'[q] = NoDeploy
             /\ deploy'[q].at # "idle" => deploy'[q].app \in apps'
             /\ deploy'[q].at = "written" => deploy'[q].app \in hasFile'
  <2>1. CASE q = r
    BY <1>1, <1>2, <1>6, <2>1
  <2>2. CASE q # r
    <3>1. deploy[q].at = "idle" => deploy[q] = NoDeploy /\ deploy[q].app # a
      BY <1>1, NoDeployType, CanvasAppAssumption DEF DeployInv
    <3> QED
      BY <1>1, <1>6, <2>2, <3>1 DEF DeployInv
  <2> QED
    BY <2>1, <2>2
<1>9. ASSUME NEW q \in Requests, deploy'[q].alone
      PROVE  /\ deploy'[q].text = html'[deploy'[q].app]
             /\ deploy'[q].at = "written" => file'[deploy'[q].app] = deploy'[q].text
             /\ \A p \in Requests \ {q} : deploy'[p].app # deploy'[q].app
  <2>1. CASE q = r
    BY <1>1, <1>2, <1>3, <1>6, <1>9, <2>1
  <2>2. CASE q # r
    <3>1. deploy[q].app # a /\ deploy[q].alone /\ deploy'[q] = deploy[q]
      BY <1>6, <1>9, <2>2
    <3> QED
      BY <1>1, <1>2, <1>6, <2>2, <3>1 DEF DeployInv
  <2> QED
    BY <2>1, <2>2
<1>10. \A b \in published' : /\ b \in hasFile' /\ file'[b] = html'[b]
                             /\ \A q \in Requests : deploy'[q].app # b
  BY <1>1, <1>2, <1>6 DEF DeployInv
<1> QED
  BY <1>7, <1>8, <1>9, <1>10 DEF DeployInv

\* Whoever writes the file of an app that a lonely deploy wrote, or that is published, is
\* that deploy.
LEMMA DeployWriteKeeps ==
  ASSUME AppInv, NEW r \in Requests, DeployWrite(r)
  PROVE  AppInv'
<1> USE DEF AppInv
<1> DEFINE a == deploy[r].app
           d == [deploy[r] EXCEPT !.at = "written"]
<1>1. deploy[r].at = "read" /\ a \in apps /\ a \in Apps /\ deploy[r] \in Deploys
      /\ deploy[r].text \in Texts
  BY DEF DeployWrite, AppTypeOK, DeployInv, Deploys
<1>2. d \in Deploys /\ d.at = "written" /\ d.app = a /\ d.text = deploy[r].text
      /\ d.alone = deploy[r].alone
  BY <1>1 DEF Deploys, DeployStages
<1>3. /\ file' = [file EXCEPT ![a] = deploy[r].text] /\ hasFile' = hasFile \cup {a}
      /\ UNCHANGED <<apps, html, thread, deployed, published>>
      /\ deploy' = [deploy EXCEPT ![r] = d]
  BY DEF DeployWrite
<1> HIDE DEF d
<1>4. deploy' \in [Requests -> Deploys] /\ deploy'[r] = d
      /\ \A q \in Requests \ {r} : deploy'[q] = deploy[q]
  BY <1>2, <1>3 DEF AppTypeOK
<1>5. file' \in [Apps -> Texts] /\ file'[a] = deploy[r].text
      /\ \A b \in Apps \ {a} : file'[b] = file[b]
  BY <1>1, <1>3 DEF AppTypeOK
<1>6. AppTypeOK'
  BY <1>1, <1>3, <1>4, <1>5 DEF AppTypeOK
<1>7. ASSUME NEW q \in Requests
      PROVE  /\ deploy'[q].at = "idle" => deploy'[q] = NoDeploy
             /\ deploy'[q].at # "idle" => deploy'[q].app \in apps'
             /\ deploy'[q].at = "written" => deploy'[q].app \in hasFile'
  BY <1>1, <1>2, <1>3, <1>4 DEF DeployInv
<1>8. ASSUME NEW q \in Requests, deploy'[q].alone
      PROVE  /\ deploy'[q].text = html'[deploy'[q].app]
             /\ deploy'[q].at = "written" => file'[deploy'[q].app] = deploy'[q].text
             /\ \A p \in Requests \ {q} : deploy'[p].app # deploy'[q].app
  <2>1. /\ deploy[q].alone /\ deploy'[q].app = deploy[q].app /\ deploy'[q].text = deploy[q].text
        /\ \A p \in Requests \ {q} : deploy'[p].app = deploy[p].app
    BY <1>2, <1>4, <1>8
  <2>2. CASE q = r
    BY <1>2, <1>3, <1>4, <1>5, <2>1, <2>2 DEF DeployInv
  <2>3. CASE q # r
    <3>1. deploy[q].app # a /\ deploy'[q] = deploy[q]
      BY <1>4, <2>1, <2>3 DEF DeployInv
    <3>2. deploy[q].app \in Apps
      BY <2>1, NoDeployType DEF DeployInv, AppTypeOK
    <3> QED
      BY <1>3, <1>5, <2>1, <3>1, <3>2 DEF DeployInv
  <2> QED
    BY <2>2, <2>3
<1>9. \A b \in published' : /\ b \in hasFile' /\ file'[b] = html'[b]
                            /\ \A q \in Requests : deploy'[q].app # b
  BY <1>2, <1>3, <1>4, <1>5 DEF DeployInv, AppTypeOK
<1> QED
  BY <1>6, <1>7, <1>8, <1>9 DEF DeployInv

\* A deploy ends: what was alone until then is published.
LEMMA DeployEndKeeps ==
  ASSUME AppInv, NEW r \in Requests, DeployMark(r) \/ DeployFails(r)
  PROVE  AppInv'
<1> USE DEF AppInv
<1>1. /\ deploy' \in [Requests -> Deploys] /\ deploy'[r] = NoDeploy
      /\ \A q \in Requests \ {r} : deploy'[q] = deploy[q]
      /\ UNCHANGED <<apps, html, thread, file, hasFile>>
  BY NoDeployType DEF DeployMark, DeployFails, AppTypeOK
<1>2. /\ published' = published /\ deployed' = deployed
      \/ /\ deploy[r].at = "written" /\ deployed' = deployed \cup {deploy[r].app}
         /\ published' = published
      \/ /\ deploy[r].at = "written" /\ deployed' = deployed \cup {deploy[r].app}
         /\ deploy[r].alone /\ published' = published \cup {deploy[r].app}
  BY DEF DeployMark, DeployFails
<1>3. AppTypeOK'
  BY <1>1, <1>2 DEF AppTypeOK, DeployInv
<1>4. ASSUME NEW q \in Requests
      PROVE  /\ deploy'[q].at = "idle" => deploy'[q] = NoDeploy
             /\ deploy'[q].at # "idle" => deploy'[q].app \in apps'
             /\ deploy'[q].at = "written" => deploy'[q].app \in hasFile'
  BY <1>1, NoDeployType DEF DeployInv
<1>5. ASSUME NEW q \in Requests, deploy'[q].alone
      PROVE  /\ deploy'[q].text = html'[deploy'[q].app]
             /\ deploy'[q].at = "written" => file'[deploy'[q].app] = deploy'[q].text
             /\ \A p \in Requests \ {q} : deploy'[p].app # deploy'[q].app
  <2>1. q # r /\ deploy'[q] = deploy[q]
    BY <1>1, <1>5, NoDeployType
  <2>2. deploy[q].app \in apps /\ deploy[q].app # None
    BY <1>5, <2>1, NoDeployType, CanvasAppAssumption DEF DeployInv, AppTypeOK
  <2> QED
    BY <1>1, <1>5, <2>1, <2>2, NoDeployType DEF DeployInv
<1>6. ASSUME NEW b \in published'
      PROVE  /\ b \in hasFile' /\ file'[b] = html'[b]
             /\ \A q \in Requests : deploy'[q].app # b
  <2>1. b \in apps /\ b # None
    BY <1>3, <1>6, <1>1, CanvasAppAssumption DEF AppTypeOK
  <2>2. CASE b \in published
    BY <1>1, <2>1, <2>2, NoDeployType DEF DeployInv
  <2>3. CASE b \notin published
    <3>1. deploy[r].at = "written" /\ deploy[r].alone /\ b = deploy[r].app
      BY <1>2, <1>6, <2>3
    <3> QED
      BY <1>1, <2>1, <3>1, NoDeployType DEF DeployInv
  <2> QED
    BY <2>2, <2>3
<1> QED
  BY <1>3, <1>4, <1>5, <1>6 DEF DeployInv

LEMMA TableKept == AppInv /\ AppStep => AppInv'
<1> SUFFICES ASSUME AppInv, AppStep PROVE AppInv'
  OBVIOUS
<1>1. CASE UNCHANGED appVars
  BY <1>1 DEF appVars, AppInv, AppTypeOK, DeployInv
<1> QED
  BY <1>1, InsertKeeps, UpdateKeeps, OrphanKeeps, DeployReadKeeps, DeployWriteKeeps,
     DeployEndKeeps DEF AppStep

\* A row that is there stays, and can only lose its thread.
LEMMA RowsStay ==
  ASSUME AppTypeOK, AppStep
  PROVE  /\ apps \subseteq apps' /\ \A a \in apps : thread'[a] \in {thread[a], None}
         /\ \A row : HeldIn(row, apps, thread) => HeldIn(row, apps', thread')
<1>1. apps \subseteq Apps
  BY DEF AppTypeOK
<1>2. apps \subseteq apps' /\ \A a \in apps : thread'[a] \in {thread[a], None}
  BY <1>1 DEF AppStep, Insert, Update, Orphan, DeployRead, DeployWrite, DeployMark, DeployFails,
              appVars, AppTypeOK
<1> QED
  BY <1>2 DEF HeldIn

-----------------------------------------------------------------------------
(* Types of the screen *)

PlacesOK ==
  /\ {url, nav, active, shown, listening} \subseteq made \cup {None}
  /\ seen \in [url : ThreadIds, active : ThreadIds, app : AppIds]
  /\ made \in SUBSET Threads
  /\ creating \in SUBSET {"auto", "new", "send"}
  /\ removing \in SUBSET made
  /\ messageLoads \in SUBSET made

PaneOK ==
  /\ canvas \in Rows
  /\ current \in Pages
  /\ canvasLoads \in SUBSET [of : made, read : BOOLEAN, row : Rows]

RequestsOK ==
  /\ saving \in [at : {"idle", "sent", "served"}, row : Rows]
  /\ deploying \in [at : {"idle", "sent"}, row : Rows]
  /\ jobs \in [Threads -> [at : {"idle", "running", "done"}, row : Rows]]

HistoryOK ==
  /\ late \in SUBSET {"messages", "canvas"}
  /\ blank \in BOOLEAN
  /\ acts \in 0 .. MaxActs

LEMMA TypesInParts ==
  TypeOK <=> AppTypeOK /\ PlacesOK /\ PaneOK /\ RequestsOK /\ HistoryOK
BY DEF TypeOK, PlacesOK, PaneOK, RequestsOK, HistoryOK

\* The tables's steps are those of the screen, of a chat job, and of another tab.
LEMMA TableStep ==
  ASSUME TypeOK, [Next]_vars
  PROVE  AppStep
<1>1. AppTypeOK /\ apps \subseteq Apps
  BY DEF TypeOK, AppTypeOK
<1>2. CASE UNCHANGED appVars
  BY <1>2 DEF AppStep
<1>3. CASE UNCHANGED vars
  BY <1>2, <1>3 DEF vars
<1>4. ASSUME NEW t \in Threads, Remove(t) PROVE AppStep
  BY <1>4 DEF Remove, AppStep
<1>5. CASE Deploy
  BY <1>1, <1>5 DEF Deploy, DeployRead, Requests, AppStep
<1>6. CASE OtherTab
  <2>1. None \in ThreadIds
    BY DEF ThreadIds
  <2> QED
    BY <1>6, <2>1 DEF OtherTab, Upload, Requests, AppStep
<1>7. CASE ServeSave
  <2>1. Update(saving.row.app, saving.row.html) /\ saving.row.app \in apps
    BY <1>7 DEF ServeSave, Update
  <2>2. saving.row.html \in Texts
    BY DEF TypeOK, Rows
  <2> QED
    BY <1>1, <2>1, <2>2 DEF AppStep
<1>8. CASE DeployEnds
  BY <1>8 DEF DeployEnds, Requests, AppStep
<1>9. CASE Deploying
  BY <1>9 DEF Deploying, Requests, AppStep
<1>10. ASSUME NEW t \in Threads, NEW app \in Apps, NEW text \in Texts, Answer(t, app, text)
       PROVE  AppStep
  BY <1>1, <1>2, <1>10, UpsertStep DEF Answer
<1>11. ASSUME NEW t \in Threads, SelectThread(t) \/ MessagesArrive(t) \/ Removed(t) PROVE AppStep
  BY <1>2, <1>11 DEF SelectThread, MessagesArrive, Removed
<1>12. ASSUME NEW who, NEW t, Create(who) \/ CreateFails(who) \/ Created(who, t) PROVE AppStep
  BY <1>2, <1>12 DEF Create, CreateFails, Created
<1>13. ASSUME NEW text, Type(text) \/ Save(text) PROVE AppStep
  BY <1>2, <1>13 DEF Type, Save
<1>14. ASSUME NEW l, ServeLoad(l) \/ LoadArrives(l) PROVE AppStep
  BY <1>2, <1>14 DEF ServeLoad, LoadArrives
<1>15. CASE Send \/ Cancel \/ Effects \/ Navigated \/ SaveArrives \/ Hear
  BY <1>2, <1>15 DEF Send, Cancel, Effects, Navigated, SaveArrives, Hear
<1>16. ASSUME UserActs PROVE AppStep
  BY <1>4, <1>5, <1>6, <1>11, <1>12, <1>13, <1>15, <1>16 DEF UserActs
<1>17. ASSUME Goes PROVE AppStep
  BY <1>7, <1>8, <1>9, <1>10, <1>11, <1>12, <1>14, <1>15, <1>17 DEF Goes
<1> QED
  BY <1>3, <1>16, <1>17 DEF Next

\* Threads, posts and answers.
LEMMA PlacesKept == TypeOK /\ [Next]_vars => PlacesOK'
<1> SUFFICES ASSUME TypeOK, [Next]_vars PROVE PlacesOK'
  OBVIOUS
<1>1. PlacesOK /\ canvas.app \in AppIds
  BY TypesInParts DEF PaneOK, Rows
<1> DEFINE Steady == UNCHANGED <<url, nav, active, shown, listening, seen, made, creating,
                                 removing, messageLoads>>
<1>2. CASE Steady
  BY <1>1, <1>2 DEF PlacesOK
<1>3. CASE UNCHANGED vars
  BY <1>2, <1>3 DEF vars, screenVars, requestVars
<1>4. CASE Effects
  <2>1. url \in made \cup {None} /\ active \in made \cup {None} /\ made \subseteq Threads
    BY <1>1 DEF PlacesOK
  <2>2. seen' \in [url : ThreadIds, active : ThreadIds, app : AppIds]
    BY <1>1, <1>4, <2>1 DEF Effects, Deps, ThreadIds
  <2>3. active' \in {url, active}
    BY <1>4 DEF Effects
  <2>4. messageLoads' \in SUBSET made
    BY <1>1, <1>4, <2>1 DEF Effects, Moved, PlacesOK
  <2>5. UNCHANGED <<url, nav, shown, listening, made, creating, removing>>
    BY <1>4 DEF Effects
  <2> QED
    BY <1>1, <2>1, <2>2, <2>3, <2>4, <2>5 DEF PlacesOK
<1>5. ASSUME NEW t \in Threads, SelectThread(t) \/ Remove(t) \/ MessagesArrive(t) \/ Removed(t)
      PROVE  PlacesOK'
  <2>1. CASE SelectThread(t)
    BY <1>1, <2>1 DEF SelectThread, requestVars, PlacesOK
  <2>2. CASE Remove(t)
    BY <1>1, <2>2 DEF Remove, screenVars, PlacesOK
  <2>3. CASE MessagesArrive(t)
    BY <1>1, <2>3 DEF MessagesArrive, PlacesOK
  <2>4. CASE Removed(t)
    BY <1>1, <2>4 DEF Removed, PlacesOK
  <2> QED
    BY <1>5, <2>1, <2>2, <2>3, <2>4
<1>6. ASSUME NEW who \in {"auto", "new", "send"}, Create(who) PROVE PlacesOK'
  BY <1>1, <1>6 DEF Create, screenVars, PlacesOK
<1>7. ASSUME NEW who, CreateFails(who) PROVE PlacesOK'
  BY <1>1, <1>7 DEF CreateFails, screenVars, PlacesOK
<1>8. ASSUME NEW who, NEW t \in Threads, Created(who, t) PROVE PlacesOK'
  <2>1. /\ made' = made \cup {t} /\ creating' \subseteq creating /\ active' = t /\ nav' = t
        /\ shown' \in {t, None} /\ listening' \in {t, listening}
        /\ UNCHANGED <<url, seen, removing, messageLoads>>
    BY <1>8 DEF Created, Posts
  <2> QED
    BY <1>1, <2>1 DEF PlacesOK
<1>9. CASE Navigated
  BY <1>1, <1>9 DEF Navigated, requestVars, PlacesOK
<1>10. CASE Send
  BY <1>1, <1>10 DEF Send, Posts, PlacesOK
<1>11. CASE Cancel
  BY <1>1, <1>11 DEF Cancel, screenVars, PlacesOK
<1>12. CASE Hear
  BY <1>1, <1>12 DEF Hear, PlacesOK
<1>13. ASSUME NEW text, Type(text) \/ Save(text) PROVE PlacesOK'
  BY <1>2, <1>13 DEF Type, Save, screenVars, requestVars
<1>14. ASSUME NEW l, ServeLoad(l) \/ LoadArrives(l) PROVE PlacesOK'
  BY <1>2, <1>14 DEF ServeLoad, LoadArrives, screenVars
<1>15. ASSUME NEW t, NEW app, NEW text, Answer(t, app, text) PROVE PlacesOK'
  BY <1>2, <1>15 DEF Answer, screenVars
<1>16. CASE Deploy \/ OtherTab \/ ServeSave \/ SaveArrives \/ DeployEnds \/ Deploying
  BY <1>2, <1>16 DEF Deploy, OtherTab, ServeSave, SaveArrives, DeployEnds, Deploying, screenVars,
                     requestVars
<1>17. ASSUME UserActs PROVE PlacesOK'
  BY <1>5, <1>6, <1>10, <1>11, <1>13, <1>16, <1>17 DEF UserActs
<1>18. ASSUME Goes PROVE PlacesOK'
  BY <1>4, <1>5, <1>7, <1>8, <1>9, <1>12, <1>14, <1>15, <1>16, <1>18 DEF Goes
<1> QED
  BY <1>3, <1>17, <1>18 DEF Next

\* A thread that was created is not forgotten.
LEMMA MadeGrows == [Next]_vars => made \subseteq made'
<1> SUFFICES ASSUME [Next]_vars PROVE made \subseteq made'
  OBVIOUS
<1>1. CASE UNCHANGED made
  BY <1>1
<1>2. CASE UNCHANGED vars
  BY <1>2 DEF vars, requestVars
<1>3. ASSUME NEW who, NEW t, Created(who, t) PROVE made \subseteq made'
  BY <1>3 DEF Created
<1>4. ASSUME NEW who, Create(who) \/ CreateFails(who) PROVE UNCHANGED made
  BY <1>4 DEF Create, CreateFails
<1>5. ASSUME NEW t, SelectThread(t) \/ Remove(t) \/ MessagesArrive(t) \/ Removed(t)
      PROVE  UNCHANGED made
  BY <1>5 DEF SelectThread, Remove, MessagesArrive, Removed, requestVars
<1>6. ASSUME NEW text, Type(text) \/ Save(text) PROVE UNCHANGED made
  BY <1>6 DEF Type, Save, requestVars
<1>7. ASSUME NEW l, ServeLoad(l) \/ LoadArrives(l) PROVE UNCHANGED made
  BY <1>7 DEF ServeLoad, LoadArrives
<1>8. ASSUME NEW t, NEW app, NEW text, Answer(t, app, text) PROVE UNCHANGED made
  BY <1>8 DEF Answer
<1>9. ASSUME \/ Effects \/ Navigated \/ Send \/ Cancel \/ Hear \/ Deploy \/ OtherTab \/ ServeSave
             \/ SaveArrives \/ DeployEnds \/ Deploying
      PROVE  UNCHANGED made
  BY <1>9 DEF Effects, Navigated, Send, Cancel, Hear, Deploy, OtherTab, ServeSave, SaveArrives,
              DeployEnds, Deploying, requestVars
<1>10. ASSUME UserActs PROVE UNCHANGED made
  BY <1>4, <1>5, <1>6, <1>9, <1>10 DEF UserActs
<1>11. ASSUME Goes PROVE made \subseteq made'
  BY <1>1, <1>3, <1>4, <1>5, <1>7, <1>8, <1>9, <1>11 DEF Goes
<1> QED
  BY <1>1, <1>2, <1>10, <1>11 DEF Next

LEMMA PageTypes ==
  /\ NoPage \in Pages /\ NoPage.html = 0 /\ NoPage.app = None
  /\ \A row \in Rows : [app |-> row.app, html |-> row.html] \in Pages
<1>1. 0 \in Texts
  BY CanvasAppAssumption DEF Texts
<1> QED
  BY <1>1 DEF NoPage, Pages, AppIds, Rows

\* What the pane shows, and what is loaded for it.
LEMMA PaneKept == TypeOK /\ [Next]_vars => PaneOK'
<1> SUFFICES ASSUME TypeOK, [Next]_vars PROVE PaneOK'
  OBVIOUS
<1>1. PaneOK /\ PlacesOK /\ RequestsOK /\ AppTypeOK /\ made \subseteq made'
  BY TypesInParts, MadeGrows
\* A thread more is no harm.
<1>2. ASSUME canvas' \in Rows, current' \in Pages,
             canvasLoads' \in SUBSET [of : made, read : BOOLEAN, row : Rows]
      PROVE  PaneOK'
  BY <1>1, <1>2 DEF PaneOK
<1>3. CASE UNCHANGED <<canvas, current, canvasLoads>>
  BY <1>1, <1>2, <1>3 DEF PaneOK
<1>4. CASE UNCHANGED vars
  BY <1>3, <1>4 DEF vars, screenVars, requestVars
<1>5. CASE Effects
  <2>1. canvas' \in Rows
    BY <1>1, <1>5, NoRowType DEF Effects, PaneOK
  <2>2. current' \in Pages
    BY <1>1, <1>5, PageTypes DEF Effects, PaneOK
  <2>3. active # None => Load(active) \in [of : made, read : BOOLEAN, row : Rows]
    BY <1>1, NoRowType DEF Load, PlacesOK
  <2>4. canvasLoads' \in SUBSET [of : made, read : BOOLEAN, row : Rows]
    BY <1>1, <1>5, <2>3 DEF Effects, PaneOK
  <2> QED
    BY <1>2, <2>1, <2>2, <2>4
<1>6. ASSUME NEW who, NEW t, Created(who, t) PROVE PaneOK'
  BY <1>1, <1>2, <1>6, PageTypes DEF Created, PaneOK
<1>7. ASSUME NEW l, ServeLoad(l) PROVE PaneOK'
  <2>1. ByThread(l.of) \in Rows
    BY <1>1, ByThreadRow, RowIsRow, NoRowType
  <2>2. l \in [of : made, read : BOOLEAN, row : Rows]
    BY <1>1, <1>7 DEF ServeLoad, PaneOK
  <2>3. [of |-> l.of, read |-> TRUE, row |-> ByThread(l.of)]
          \in [of : made, read : BOOLEAN, row : Rows]
    BY <2>1, <2>2
  <2>4. UNCHANGED <<canvas, current>>
        /\ canvasLoads' \in SUBSET [of : made, read : BOOLEAN, row : Rows]
    BY <1>1, <1>7, <2>3 DEF ServeLoad, screenVars, PaneOK
  <2> QED
    BY <1>1, <1>2, <2>4 DEF PaneOK
<1>8. ASSUME NEW l, LoadArrives(l) PROVE PaneOK'
  <2>1. l \in [of : made, read : BOOLEAN, row : Rows]
    BY <1>1, <1>8 DEF LoadArrives, PaneOK
  <2>2. canvas' \in {l.row, NoRow} /\ canvasLoads' \subseteq canvasLoads /\ current' = current
    BY <1>8 DEF LoadArrives, TakesRow
  <2> QED
    BY <1>1, <1>2, <2>1, <2>2, NoRowType DEF PaneOK
<1>9. CASE SaveArrives \/ DeployEnds
  <2>1. canvas' \in {canvas, saving.row, deploying.row} /\ UNCHANGED <<current, canvasLoads>>
    BY <1>9 DEF SaveArrives, DeployEnds, TakesRow
  <2>2. saving.row \in Rows /\ deploying.row \in Rows
    BY <1>1 DEF RequestsOK
  <2> QED
    BY <1>1, <1>2, <2>1, <2>2 DEF PaneOK
<1>10. ASSUME NEW text \in Texts, Type(text) PROVE PaneOK'
  <2>1. [app |-> canvas.app, html |-> text] \in Pages
    BY <1>1 DEF PaneOK, Rows, Pages
  <2> QED
    BY <1>1, <1>2, <1>10, <2>1 DEF Type, requestVars, PaneOK
<1>11. CASE Hear
  <2>1. jobs[listening].row \in Rows
    <3>1. listening \in Threads
      BY <1>1, <1>11 DEF Hear, PlacesOK
    <3> QED
      BY <1>1, <3>1 DEF RequestsOK
  <2>2. canvasLoads' = canvasLoads
    BY <1>11 DEF Hear
  <2>3. CASE jobs[listening].row = NoRow
    BY <1>3, <1>11, <2>2, <2>3 DEF Hear
  <2>4. CASE jobs[listening].row # NoRow
    <3>1. /\ canvas' = jobs[listening].row
          /\ current' = [app |-> jobs[listening].row.app, html |-> jobs[listening].row.html]
      BY <1>11, <2>4 DEF Hear
    <3>2. current' \in Pages
      BY <2>1, <3>1, PageTypes
    <3> QED
      BY <1>1, <1>2, <2>1, <2>2, <3>1, <3>2 DEF PaneOK
  <2> QED
    BY <2>3, <2>4
<1>12. ASSUME NEW t, SelectThread(t) \/ Remove(t) \/ MessagesArrive(t) \/ Removed(t) PROVE PaneOK'
  BY <1>3, <1>12 DEF SelectThread, Remove, MessagesArrive, Removed, screenVars, requestVars
<1>13. ASSUME NEW who, Create(who) \/ CreateFails(who) PROVE PaneOK'
  BY <1>3, <1>13 DEF Create, CreateFails, screenVars
<1>14. ASSUME NEW text, Save(text) PROVE PaneOK'
  BY <1>3, <1>14 DEF Save, screenVars
<1>15. ASSUME NEW t, NEW app, NEW text, Answer(t, app, text) PROVE PaneOK'
  BY <1>3, <1>15 DEF Answer, screenVars
<1>16. CASE Navigated \/ Send \/ Cancel \/ Deploy \/ OtherTab \/ ServeSave \/ Deploying
  BY <1>3, <1>16 DEF Navigated, Send, Cancel, Deploy, OtherTab, ServeSave, Deploying, screenVars,
                     requestVars
<1>17. ASSUME UserActs PROVE PaneOK'
  BY <1>10, <1>12, <1>13, <1>14, <1>16, <1>17 DEF UserActs
<1>18. ASSUME Goes PROVE PaneOK'
  BY <1>5, <1>6, <1>7, <1>8, <1>9, <1>11, <1>12, <1>13, <1>15, <1>16, <1>18 DEF Goes
<1> QED
  BY <1>4, <1>17, <1>18 DEF Next

\* A record of a request takes its parts.
LEMMA RequestTypes ==
  /\ Idle \in [at : {"idle", "sent", "served"}, row : Rows]
  /\ Idle \in [at : {"idle", "sent"}, row : Rows]
  /\ Idle \in [at : {"idle", "running", "done"}, row : Rows]
  /\ \A row \in Rows : /\ \A text \in Texts : [row EXCEPT !.html = text] \in Rows
                       /\ \A t \in ThreadIds : [row EXCEPT !.thread = t] \in Rows
BY NoRowType DEF Idle, Rows

\* Saving, deploying and chat jobs.
LEMMA RequestsKept == TypeOK /\ [Next]_vars => RequestsOK'
<1> SUFFICES ASSUME TypeOK, [Next]_vars PROVE RequestsOK'
  OBVIOUS
<1>1. PaneOK /\ PlacesOK /\ RequestsOK /\ AppTypeOK
  BY TypesInParts
<1>2. CASE UNCHANGED <<saving, deploying, jobs>>
  BY <1>1, <1>2 DEF RequestsOK
<1>3. CASE UNCHANGED vars
  BY <1>2, <1>3 DEF vars, requestVars
<1>4. ASSUME NEW text \in Texts, Save(text) PROVE RequestsOK'
  <2> DEFINE row == [canvas EXCEPT !.html = text]
  <2>1. row \in Rows
    BY <1>1, RequestTypes DEF PaneOK
  <2>2. saving' = [at |-> "sent", row |-> row] /\ UNCHANGED <<deploying, jobs>>
    BY <1>4 DEF Save
  <2> HIDE DEF row
  <2> QED
    BY <1>1, <2>1, <2>2 DEF RequestsOK
<1>5. CASE ServeSave
  <2> DEFINE row == [saving.row EXCEPT !.thread = thread[saving.row.app]]
  <2>1. saving.row.app \in apps
    BY <1>5 DEF ServeSave, Update
  <2>2. thread[saving.row.app] \in ThreadIds
    BY <1>1, <2>1 DEF AppTypeOK
  <2>3. row \in Rows
    BY <1>1, <2>2, RequestTypes DEF RequestsOK
  <2>4. saving' = [at |-> "served", row |-> row] /\ UNCHANGED <<deploying, jobs>>
    BY <1>5 DEF ServeSave
  <2> HIDE DEF row
  <2> QED
    BY <1>1, <2>3, <2>4 DEF RequestsOK
<1>6. CASE SaveArrives
  BY <1>1, <1>6, RequestTypes DEF SaveArrives, RequestsOK
<1>7. CASE Deploy
  <2>1. deploying' = [at |-> "sent", row |-> canvas] /\ canvas \in Rows
        /\ UNCHANGED <<saving, jobs>>
    BY <1>1, <1>7 DEF Deploy, PaneOK
  <2> QED
    BY <1>1, <2>1 DEF RequestsOK
<1>8. CASE DeployEnds
  BY <1>1, <1>8, RequestTypes DEF DeployEnds, RequestsOK
<1>9. ASSUME NEW t \in Threads, Posts(t), UNCHANGED <<saving, deploying>> PROVE RequestsOK'
  <2>1. [at |-> "running", row |-> NoRow] \in [at : {"idle", "running", "done"}, row : Rows]
    BY NoRowType
  <2> QED
    BY <1>1, <1>9, <2>1 DEF Posts, RequestsOK
<1>10. CASE Send
  <2>1. active \in Threads
    BY <1>1, <1>10 DEF Send, PlacesOK
  <2> QED
    BY <1>9, <1>10, <2>1 DEF Send
<1>11. ASSUME NEW who, NEW t \in Threads, Created(who, t) PROVE RequestsOK'
  BY <1>2, <1>9, <1>11 DEF Created
<1>12. ASSUME NEW t \in Threads, NEW app \in Apps, NEW text \in Texts, Answer(t, app, text)
       PROVE  RequestsOK'
  <2> DEFINE Job == [at : {"idle", "running", "done"}, row : Rows]
             row == [app |-> app, html |-> text, thread |-> t]
  <2>1. row \in Rows /\ jobs[t] \in Job
    BY <1>1 DEF Rows, AppIds, ThreadIds, RequestsOK
  <2>2. [at |-> "done", row |-> row] \in Job /\ [jobs[t] EXCEPT !.at = "done"] \in Job
    BY <2>1
  <2>3. UNCHANGED <<saving, deploying>>
        /\ \/ jobs' = [jobs EXCEPT ![t] = [at |-> "done", row |-> row]]
           \/ jobs' = [jobs EXCEPT ![t] = [jobs[t] EXCEPT !.at = "done"]]
    BY <1>1, <1>12 DEF Answer, RequestsOK
  <2> HIDE DEF row
  <2> QED
    BY <1>1, <2>2, <2>3 DEF RequestsOK
<1>13. CASE Hear
  BY <1>1, <1>13, RequestTypes DEF Hear, RequestsOK
<1>14. ASSUME NEW t, SelectThread(t) \/ Remove(t) \/ MessagesArrive(t) \/ Removed(t)
       PROVE  RequestsOK'
  BY <1>2, <1>14 DEF SelectThread, Remove, MessagesArrive, Removed, requestVars
<1>15. ASSUME NEW who, Create(who) \/ CreateFails(who) PROVE RequestsOK'
  BY <1>2, <1>15 DEF Create, CreateFails
<1>16. ASSUME NEW text, Type(text) PROVE RequestsOK'
  BY <1>2, <1>16 DEF Type, requestVars
<1>17. ASSUME NEW l, ServeLoad(l) \/ LoadArrives(l) PROVE RequestsOK'
  BY <1>2, <1>17 DEF ServeLoad, LoadArrives
<1>18. CASE Effects \/ Navigated \/ Cancel \/ OtherTab \/ Deploying
  BY <1>2, <1>18 DEF Effects, Navigated, Cancel, OtherTab, Deploying, requestVars
<1>19. ASSUME UserActs PROVE RequestsOK'
  BY <1>4, <1>7, <1>10, <1>14, <1>15, <1>16, <1>18, <1>19 DEF UserActs
<1>20. ASSUME Goes PROVE RequestsOK'
  BY <1>5, <1>6, <1>8, <1>11, <1>12, <1>13, <1>14, <1>15, <1>17, <1>18, <1>20 DEF Goes
<1> QED
  BY <1>3, <1>19, <1>20 DEF Next

\* What the tab remembers of its replies, and how often the user acted.
LEMMA HistoryKept == TypeOK /\ [Next]_vars => HistoryOK'
<1> SUFFICES ASSUME TypeOK, [Next]_vars PROVE HistoryOK'
  OBVIOUS
<1>1. HistoryOK
  BY TypesInParts
<1>2. acts' \in 0 .. MaxActs
  <2>1. \/ acts < MaxActs /\ acts' = acts + 1
        \/ acts' = acts
    BY DEF Next, vars
  <2> QED
    BY <1>1, <2>1, CanvasScreenAssumption DEF HistoryOK
<1>3. CASE UNCHANGED historyVars
  BY <1>1, <1>2, <1>3 DEF HistoryOK, historyVars
<1>4. CASE UNCHANGED vars
  BY <1>3, <1>4 DEF vars
<1>5. ASSUME late' \subseteq late \cup {"messages", "canvas"}, blank' = blank PROVE HistoryOK'
  BY <1>1, <1>2, <1>5 DEF HistoryOK
<1>6. CASE Effects
  <2>1. blank' \in BOOLEAN /\ late' = late
    BY <1>6 DEF Effects
  <2> QED
    BY <1>1, <1>2, <2>1 DEF HistoryOK
<1>7. ASSUME NEW t, MessagesArrive(t) \/ Removed(t) PROVE HistoryOK'
  BY <1>5, <1>7 DEF MessagesArrive, Removed, historyVars
<1>8. ASSUME NEW who, NEW t, Created(who, t) PROVE HistoryOK'
  BY <1>5, <1>8 DEF Created
<1>9. ASSUME NEW l, LoadArrives(l) PROVE HistoryOK'
  BY <1>5, <1>9 DEF LoadArrives, TakesRow
<1>10. CASE SaveArrives \/ DeployEnds \/ Hear \/ Send
  BY <1>5, <1>10 DEF SaveArrives, DeployEnds, Hear, Send, TakesRow
<1>11. ASSUME NEW t, SelectThread(t) \/ Remove(t) PROVE HistoryOK'
  BY <1>3, <1>11 DEF SelectThread, Remove
<1>12. ASSUME NEW who, Create(who) \/ CreateFails(who) PROVE HistoryOK'
  BY <1>3, <1>12 DEF Create, CreateFails
<1>13. ASSUME NEW text, Type(text) \/ Save(text) PROVE HistoryOK'
  BY <1>3, <1>13 DEF Type, Save
<1>14. ASSUME NEW l, ServeLoad(l) PROVE HistoryOK'
  BY <1>3, <1>14 DEF ServeLoad
<1>15. ASSUME NEW t, NEW app, NEW text, Answer(t, app, text) PROVE HistoryOK'
  BY <1>3, <1>15 DEF Answer
<1>16. CASE Navigated \/ Cancel \/ Deploy \/ OtherTab \/ ServeSave \/ Deploying
  BY <1>3, <1>16 DEF Navigated, Cancel, Deploy, OtherTab, ServeSave, Deploying
<1>17. ASSUME UserActs PROVE HistoryOK'
  BY <1>10, <1>11, <1>12, <1>13, <1>16, <1>17 DEF UserActs
<1>18. ASSUME Goes PROVE HistoryOK'
  BY <1>6, <1>7, <1>8, <1>9, <1>10, <1>12, <1>14, <1>15, <1>16, <1>18 DEF Goes
<1> QED
  BY <1>4, <1>17, <1>18 DEF Next

LEMMA TypesKept == TypeOK /\ DeployInv /\ [Next]_vars => TypeOK' /\ DeployInv'
<1> SUFFICES ASSUME TypeOK, DeployInv, [Next]_vars PROVE TypeOK' /\ DeployInv'
  OBVIOUS
<1>1. AppInv'
  BY TableStep, TableKept, TypesInParts DEF AppInv
<1>2. PlacesOK' /\ PaneOK' /\ RequestsOK' /\ HistoryOK'
  BY PlacesKept, PaneKept, RequestsKept, HistoryKept
<1>3. AppTypeOK' /\ DeployInv'
  BY <1>1 DEF AppInv
<1> QED
  BY <1>2, <1>3 DEF TypeOK, PlacesOK, PaneOK, RequestsOK, HistoryOK

-----------------------------------------------------------------------------
(* Copies of rows *)

\* Each copy is one that was held, or is held now.
LEMMA RowsFrom ==
  ASSUME TypeOK, RowsInv, AppStep,
         canvas' = canvas \/ HeldIn(canvas', apps', thread'),
         saving'.row = saving.row \/ HeldIn(saving'.row, apps', thread'),
         deploying'.row = deploying.row \/ HeldIn(deploying'.row, apps', thread'),
         \A t \in Threads : jobs'[t].row = jobs[t].row \/ HeldIn(jobs'[t].row, apps', thread'),
         \A l \in canvasLoads' : l \in canvasLoads \/ HeldIn(l.row, apps', thread')
  PROVE  RowsInv'
<1>1. \A row : HeldIn(row, apps, thread) => HeldIn(row, apps', thread')
  BY RowsStay, TypesInParts
<1> QED
  BY <1>1 DEF RowsInv, Held

LEMMA RowsKept == TypeOK /\ RowsInv /\ [Next]_vars => RowsInv'
<1> SUFFICES ASSUME TypeOK, RowsInv, [Next]_vars PROVE RowsInv'
  OBVIOUS
<1>1. PaneOK /\ PlacesOK /\ RequestsOK /\ AppTypeOK /\ AppStep
  BY TypesInParts, TableStep
\* What was held is held.
<1>2. /\ \A row : HeldIn(row, apps, thread) => HeldIn(row, apps', thread')
      /\ HeldIn(NoRow, apps', thread') /\ HeldIn(canvas, apps', thread')
      /\ HeldIn(saving.row, apps', thread') /\ HeldIn(deploying.row, apps', thread')
      /\ \A t \in Threads : HeldIn(jobs[t].row, apps', thread')
      /\ \A l \in canvasLoads : HeldIn(l.row, apps', thread')
  <2>1. \A row : HeldIn(row, apps, thread) => HeldIn(row, apps', thread')
    BY <1>1, RowsStay
  <2>2. HeldIn(NoRow, apps', thread')
    BY DEF HeldIn
  <2> QED
    BY <2>1, <2>2 DEF RowsInv, Held
<1>3. CASE UNCHANGED <<canvas, saving, deploying, jobs, canvasLoads>>
  BY <1>1, <1>3, RowsFrom
<1>4. CASE UNCHANGED vars
  BY <1>3, <1>4 DEF vars, screenVars, requestVars
<1>5. CASE Effects
  <2>1. /\ canvas' \in {canvas, NoRow} /\ canvasLoads' \subseteq canvasLoads \cup {Load(active)}
        /\ UNCHANGED <<saving, deploying, jobs>> /\ Load(active).row = NoRow
    BY <1>5 DEF Effects, Load
  <2> QED
    BY <1>1, <1>2, <2>1, RowsFrom
<1>6. ASSUME NEW t \in Threads, Posts(t), UNCHANGED <<canvas, saving, deploying, canvasLoads>>
      PROVE  RowsInv'
  <2>1. \A d \in Threads : jobs'[d].row = jobs[d].row \/ jobs'[d].row = NoRow
    BY <1>1, <1>6 DEF Posts, RequestsOK
  <2> QED
    BY <1>1, <1>2, <1>6, <2>1, RowsFrom
<1>7. ASSUME NEW who, NEW t \in Threads, Created(who, t) PROVE RowsInv'
  BY <1>3, <1>6, <1>7 DEF Created
<1>8. CASE Send
  <2>1. active \in Threads
    BY <1>1, <1>8 DEF Send, PlacesOK
  <2> QED
    BY <1>6, <1>8, <2>1 DEF Send
<1>9. ASSUME NEW l, ServeLoad(l) PROVE RowsInv'
  <2> DEFINE k == [of |-> l.of, read |-> TRUE, row |-> ByThread(l.of)]
  <2>1. HeldIn(ByThread(l.of), apps, thread)
    BY <1>1, ByThreadRow, RowIsRow DEF HeldIn
  <2>2. k.row = ByThread(l.of)
    OBVIOUS
  <2>3. canvasLoads' \subseteq canvasLoads \cup {k} /\ UNCHANGED <<canvas, saving, deploying, jobs>>
    BY <1>9 DEF ServeLoad, screenVars
  <2> HIDE DEF k
  <2> QED
    BY <1>1, <1>2, <2>1, <2>2, <2>3, RowsFrom
<1>10. ASSUME NEW l, LoadArrives(l) PROVE RowsInv'
  <2>1. /\ canvas' \in {l.row, NoRow} /\ l \in canvasLoads /\ canvasLoads' \subseteq canvasLoads
        /\ UNCHANGED <<saving, deploying, jobs>>
    BY <1>10 DEF LoadArrives, TakesRow
  <2> QED
    BY <1>1, <1>2, <2>1, RowsFrom
<1>11. ASSUME NEW text, Save(text) PROVE RowsInv'
  <2> DEFINE row == [canvas EXCEPT !.html = text]
  <2>1. row.app = canvas.app /\ row.thread = canvas.thread
    BY <1>1 DEF PaneOK, Rows
  <2>2. saving' = [at |-> "sent", row |-> row] /\ UNCHANGED <<canvas, deploying, jobs, canvasLoads>>
        /\ canvas # NoRow
    BY <1>11 DEF Save, screenVars
  <2> HIDE DEF row
  <2>3. HeldIn(row, apps', thread') /\ saving'.row = row
    BY <1>2, <2>1, <2>2 DEF HeldIn
  <2> QED
    BY <1>1, <2>2, <2>3, RowsFrom
<1>12. CASE ServeSave
  <2> DEFINE row == [saving.row EXCEPT !.thread = thread[saving.row.app]]
  <2>1. row.app = saving.row.app /\ row.thread = thread[saving.row.app]
    BY <1>1 DEF RequestsOK, Rows
  <2>2. /\ saving' = [at |-> "served", row |-> row]
        /\ UNCHANGED <<canvas, deploying, jobs, canvasLoads>>
        /\ saving.row.app \in apps /\ apps' = apps /\ thread' = thread
    BY <1>12 DEF ServeSave, Update, screenVars
  <2> HIDE DEF row
  <2>3. HeldIn(row, apps', thread') /\ saving'.row = row
    BY <2>1, <2>2 DEF HeldIn
  <2> QED
    BY <1>1, <2>2, <2>3, RowsFrom
<1>13. CASE SaveArrives \/ DeployEnds
  <2>1. /\ canvas' \in {canvas, saving.row, deploying.row} /\ UNCHANGED <<jobs, canvasLoads>>
        /\ saving' \in {saving, Idle} /\ deploying' \in {deploying, Idle} /\ Idle.row = NoRow
    BY <1>13 DEF SaveArrives, DeployEnds, TakesRow, Idle
  <2> QED
    BY <1>1, <1>2, <2>1, RowsFrom
<1>14. CASE Deploy
  <2>1. deploying'.row = canvas /\ UNCHANGED <<canvas, saving, jobs, canvasLoads>>
    BY <1>14 DEF Deploy, screenVars
  <2> QED
    BY <1>1, <1>2, <2>1, RowsFrom
<1>15. ASSUME NEW t \in Threads, NEW app \in Apps, NEW text \in Texts, Answer(t, app, text)
       PROVE  RowsInv'
  <2> DEFINE row == [app |-> app, html |-> text, thread |-> t]
  <2>1. row.app = app /\ row.thread = t
    OBVIOUS
  <2>2. UNCHANGED <<canvas, saving, deploying, canvasLoads>>
    BY <1>15 DEF Answer, screenVars
  <2>3. CASE Upsert(t, app, text) /\ jobs' = [jobs EXCEPT ![t] = [at |-> "done", row |-> row]]
    <3> HIDE DEF row
    <3>1. HeldIn(row, apps', thread')
      BY <1>1, <2>1, <2>3, UpsertStep DEF HeldIn
    <3>2. \A d \in Threads : jobs'[d].row = jobs[d].row \/ jobs'[d].row = row
      BY <1>1, <2>3 DEF RequestsOK
    <3> QED
      BY <1>1, <2>2, <3>1, <3>2, RowsFrom
  <2>4. CASE jobs' = [jobs EXCEPT ![t].at = "done"]
    <3>1. \A d \in Threads : jobs'[d].row = jobs[d].row
      BY <1>1, <2>4 DEF RequestsOK
    <3> QED
      BY <1>1, <2>2, <3>1, RowsFrom
  <2> QED
    BY <1>15, <2>3, <2>4 DEF Answer
<1>16. CASE Hear
  <2>1. listening \in Threads
    BY <1>1, <1>16 DEF Hear, PlacesOK
  <2>2. /\ canvas' \in {canvas, jobs[listening].row} /\ UNCHANGED <<saving, deploying, canvasLoads>>
        /\ \A d \in Threads : jobs'[d].row = jobs[d].row \/ jobs'[d].row = NoRow
    BY <1>1, <1>16 DEF Hear, RequestsOK, Idle
  <2> QED
    BY <1>1, <1>2, <2>1, <2>2, RowsFrom
<1>17. ASSUME NEW t, SelectThread(t) \/ Remove(t) \/ MessagesArrive(t) \/ Removed(t)
       PROVE  RowsInv'
  BY <1>3, <1>17 DEF SelectThread, Remove, MessagesArrive, Removed, screenVars, requestVars
<1>18. ASSUME NEW who, Create(who) \/ CreateFails(who) PROVE RowsInv'
  BY <1>3, <1>18 DEF Create, CreateFails, screenVars
<1>19. ASSUME NEW text, Type(text) PROVE RowsInv'
  BY <1>3, <1>19 DEF Type, requestVars
<1>20. CASE Navigated \/ Cancel \/ OtherTab \/ Deploying
  BY <1>3, <1>20 DEF Navigated, Cancel, OtherTab, Deploying, screenVars, requestVars
<1>21. ASSUME UserActs PROVE RowsInv'
  BY <1>8, <1>11, <1>14, <1>17, <1>18, <1>19, <1>20, <1>21 DEF UserActs
<1>22. ASSUME Goes PROVE RowsInv'
  BY <1>5, <1>7, <1>9, <1>10, <1>12, <1>13, <1>15, <1>16, <1>17, <1>18, <1>20, <1>22 DEF Goes
<1> QED
  BY <1>4, <1>21, <1>22 DEF Next

\* What was kept or loaded for a thread stays as it is, and new rows are of their thread.
LEMMA OriginKept == TypeOK /\ OriginInv /\ [Next]_vars => OriginInv'
<1> SUFFICES ASSUME TypeOK, OriginInv, [Next]_vars PROVE OriginInv'
  OBVIOUS
<1>1. PlacesOK /\ RequestsOK /\ AppTypeOK
  BY TypesInParts
<1>2. ASSUME \A t \in Threads : \/ jobs'[t].row \in {jobs[t].row, NoRow}
                                \/ jobs'[t].row.thread = t,
             \A l \in canvasLoads' : l \in canvasLoads \/ l.row = NoRow \/ l.row.thread = l.of
      PROVE  OriginInv'
  BY <1>2 DEF OriginInv
<1>3. CASE UNCHANGED <<jobs, canvasLoads>>
  BY <1>2, <1>3
<1>4. CASE UNCHANGED vars
  BY <1>3, <1>4 DEF vars, requestVars
<1>5. CASE Effects
  <2>1. canvasLoads' \subseteq canvasLoads \cup {Load(active)} /\ jobs' = jobs
        /\ Load(active).row = NoRow
    BY <1>5 DEF Effects, Load
  <2> QED
    BY <1>2, <2>1
<1>6. ASSUME NEW t \in Threads, Posts(t), UNCHANGED canvasLoads PROVE OriginInv'
  <2>1. \A d \in Threads : jobs'[d].row \in {jobs[d].row, NoRow}
    BY <1>1, <1>6 DEF Posts, RequestsOK
  <2> QED
    BY <1>2, <1>6, <2>1
<1>7. ASSUME NEW who, NEW t \in Threads, Created(who, t) PROVE OriginInv'
  BY <1>3, <1>6, <1>7 DEF Created
<1>8. CASE Send
  <2>1. active \in Threads
    BY <1>1, <1>8 DEF Send, PlacesOK
  <2> QED
    BY <1>6, <1>8, <2>1 DEF Send
<1>9. ASSUME NEW l, ServeLoad(l) PROVE OriginInv'
  <2> DEFINE k == [of |-> l.of, read |-> TRUE, row |-> ByThread(l.of)]
  <2>1. k.of = l.of /\ (k.row = NoRow \/ k.row.thread = l.of)
    BY <1>1, ByThreadRow, RowIsRow
  <2>2. canvasLoads' \subseteq canvasLoads \cup {k} /\ jobs' = jobs
    BY <1>9 DEF ServeLoad
  <2> HIDE DEF k
  <2> QED
    BY <1>2, <2>1, <2>2
<1>10. ASSUME NEW l, LoadArrives(l) PROVE OriginInv'
  BY <1>2, <1>10 DEF LoadArrives
<1>11. ASSUME NEW t \in Threads, NEW app \in Apps, NEW text \in Texts, Answer(t, app, text)
       PROVE  OriginInv'
  <2> DEFINE row == [app |-> app, html |-> text, thread |-> t]
  <2>1. row.thread = t /\ canvasLoads' = canvasLoads
    BY <1>11 DEF Answer
  <2>2. CASE jobs' = [jobs EXCEPT ![t] = [at |-> "done", row |-> row]]
    <3> HIDE DEF row
    <3>1. \A d \in Threads : jobs'[d].row = jobs[d].row \/ (d = t /\ jobs'[d].row = row)
      BY <1>1, <2>2 DEF RequestsOK
    <3> QED
      BY <1>2, <2>1, <3>1
  <2>3. CASE jobs' = [jobs EXCEPT ![t].at = "done"]
    <3>1. \A d \in Threads : jobs'[d].row = jobs[d].row
      BY <1>1, <2>3 DEF RequestsOK
    <3> QED
      BY <1>2, <2>1, <3>1
  <2> QED
    BY <1>11, <2>2, <2>3 DEF Answer
<1>12. CASE Hear
  <2>1. canvasLoads' = canvasLoads /\ \A d \in Threads : jobs'[d].row \in {jobs[d].row, NoRow}
    BY <1>1, <1>12 DEF Hear, RequestsOK, Idle
  <2> QED
    BY <1>2, <2>1
<1>13. ASSUME NEW t, SelectThread(t) \/ Remove(t) \/ MessagesArrive(t) \/ Removed(t)
       PROVE  OriginInv'
  BY <1>3, <1>13 DEF SelectThread, Remove, MessagesArrive, Removed, requestVars
<1>14. ASSUME NEW who, Create(who) \/ CreateFails(who) PROVE OriginInv'
  BY <1>3, <1>14 DEF Create, CreateFails
<1>15. ASSUME NEW text, Type(text) \/ Save(text) PROVE OriginInv'
  BY <1>3, <1>15 DEF Type, Save, requestVars
<1>16. CASE Navigated \/ Cancel \/ Deploy \/ OtherTab \/ ServeSave \/ SaveArrives \/ DeployEnds
            \/ Deploying
  BY <1>3, <1>16 DEF Navigated, Cancel, Deploy, OtherTab, ServeSave, SaveArrives, DeployEnds,
                     Deploying, requestVars
<1>17. ASSUME UserActs PROVE OriginInv'
  BY <1>8, <1>13, <1>14, <1>15, <1>16, <1>17 DEF UserActs
<1>18. ASSUME Goes PROVE OriginInv'
  BY <1>5, <1>7, <1>9, <1>10, <1>11, <1>12, <1>13, <1>14, <1>16, <1>18 DEF Goes
<1> QED
  BY <1>4, <1>17, <1>18 DEF Next

-----------------------------------------------------------------------------
(* The screen *)

\* The steps that change what is shown, or what the tab awaits for it.
ScreenStep ==
  \/ UNCHANGED <<url, active, shown, canvas, current, seen, messageLoads, canvasLoads, historyVars>>
  \/ Effects \/ Navigated
  \/ \E t \in Threads : MessagesArrive(t) \/ Removed(t) \/ \E who \in creating : Created(who, t)
  \/ \E l \in canvasLoads : ServeLoad(l) \/ LoadArrives(l)
  \/ \E text \in Texts : Type(text)
  \/ SaveArrives \/ DeployEnds \/ Send \/ Hear

LEMMA StepOfScreen == [Next]_vars => ScreenStep
<1> SUFFICES ASSUME [Next]_vars PROVE ScreenStep
  OBVIOUS
<1>1. CASE UNCHANGED <<url, active, shown, canvas, current, seen, messageLoads, canvasLoads,
                       historyVars>>
  BY <1>1 DEF ScreenStep
<1>2. CASE UNCHANGED vars
  BY <1>1, <1>2 DEF vars, screenVars, requestVars
<1>3. ASSUME NEW t, SelectThread(t) \/ Remove(t) PROVE ScreenStep
  BY <1>1, <1>3 DEF SelectThread, Remove, screenVars, requestVars
<1>4. ASSUME NEW who, Create(who) \/ CreateFails(who) PROVE ScreenStep
  BY <1>1, <1>4 DEF Create, CreateFails, screenVars
<1>5. ASSUME NEW text, Save(text) PROVE ScreenStep
  BY <1>1, <1>5 DEF Save, screenVars
<1>6. ASSUME NEW t, NEW app, NEW text, Answer(t, app, text) PROVE ScreenStep
  BY <1>1, <1>6 DEF Answer, screenVars
<1>7. CASE Cancel \/ Deploy \/ OtherTab \/ ServeSave \/ Deploying
  BY <1>1, <1>7 DEF Cancel, Deploy, OtherTab, ServeSave, Deploying, screenVars, requestVars
<1>8. ASSUME UserActs PROVE ScreenStep
  <2>1. CASE \/ \E text \in Texts : Type(text)
             \/ Send
    BY <2>1 DEF ScreenStep
  <2> QED
    BY <1>3, <1>4, <1>5, <1>7, <1>8, <2>1 DEF UserActs
<1>9. ASSUME Goes PROVE ScreenStep
  <2>1. CASE \/ Effects \/ Navigated
             \/ \E t \in Threads : MessagesArrive(t) \/ Removed(t)
                                  \/ \E who \in creating : Created(who, t)
             \/ \E l \in canvasLoads : ServeLoad(l) \/ LoadArrives(l)
             \/ SaveArrives \/ DeployEnds \/ Hear
    BY <2>1 DEF ScreenStep
  <2> QED
    BY <1>4, <1>6, <1>7, <1>9, <2>1 DEF Goes
<1> QED
  BY <1>2, <1>8, <1>9 DEF Next

\* The effects have run with what the screen has now.
LEMMA WhenSettled ==
  ASSUME Settled
  PROVE  seen.url = url /\ seen.active = active /\ seen.app = canvas.app
BY DEF Settled, Deps

LEMMA EditorKept == TypeOK /\ EditorInv /\ [Next]_vars => EditorInv'
<1> SUFFICES ASSUME TypeOK, EditorInv, [Next]_vars PROVE EditorInv'
  OBVIOUS
<1>1. ScreenStep /\ PaneOK
  BY StepOfScreen, TypesInParts
<1>2. CASE UNCHANGED <<canvas, current, seen, blank>>
  BY <1>2 DEF EditorInv
\* A row of another app comes before the effects, one of the same app finds its text.
<1>3. ASSUME Settled, UNCHANGED <<current, seen, blank>> PROVE EditorInv'
  BY <1>3, WhenSettled DEF EditorInv
<1>4. CASE Effects
  <2>1. seen'.app = canvas.app /\ canvas' \in {canvas, NoRow}
    BY <1>4 DEF Effects, Deps
  <2>2. CASE active # seen.active /\ active = None
    BY <1>4, <2>2, NoRowType DEF Effects, EditorInv
  <2>3. CASE ~(active # seen.active /\ active = None)
    <3>1. canvas' = canvas
      BY <1>4, <2>3 DEF Effects
    <3>2. CASE canvas.app \notin {seen.app, None} /\ canvas.html # 0
      <4>1. current' = [app |-> canvas.app, html |-> canvas.html]
        BY <1>4, <2>3, <3>2 DEF Effects
      <4> QED
        BY <3>1, <4>1 DEF EditorInv
    <3>3. CASE canvas.app \notin {seen.app, None} /\ canvas.html = 0
      <4>1. current' = current /\ (current.app # canvas.app => blank')
        BY <1>4, <2>3, <3>3 DEF Effects
      <4> QED
        BY <3>1, <4>1 DEF EditorInv
    <3>4. CASE canvas.app \in {seen.app, None}
      <4>1. current' = current /\ (~blank' => ~blank)
        BY <1>4, <2>3, <3>4 DEF Effects
      <4> QED
        BY <3>1, <3>4, <4>1 DEF EditorInv
    <3> QED
      BY <3>2, <3>3, <3>4
  <2> QED
    BY <2>2, <2>3
<1>5. CASE Navigated
  BY <1>2, <1>5 DEF Navigated, historyVars
<1>6. ASSUME NEW t, MessagesArrive(t) \/ Removed(t) PROVE EditorInv'
  BY <1>2, <1>6 DEF MessagesArrive, Removed, historyVars
<1>7. ASSUME NEW who, NEW t, Created(who, t) PROVE EditorInv'
  <2>1. current' = current \/ current'.html = 0
    BY <1>7 DEF Created, NoPage
  <2> QED
    BY <1>2, <1>7, <2>1 DEF Created, EditorInv
<1>8. ASSUME NEW l, ServeLoad(l) \/ LoadArrives(l) PROVE EditorInv'
  BY <1>2, <1>3, <1>8 DEF ServeLoad, LoadArrives, screenVars, historyVars
<1>9. ASSUME NEW text, Type(text) PROVE EditorInv'
  BY <1>9 DEF Type, EditorInv
<1>10. CASE SaveArrives \/ DeployEnds \/ Send
  BY <1>3, <1>10 DEF SaveArrives, DeployEnds, Send
<1>11. CASE Hear
  <2>1. \/ UNCHANGED <<canvas, current, seen, blank>>
        \/ current'.app = canvas'.app
    BY <1>11 DEF Hear
  <2> QED
    BY <1>2, <2>1 DEF EditorInv
<1>12. CASE UNCHANGED <<url, active, shown, canvas, current, seen, messageLoads, canvasLoads,
                        historyVars>>
  BY <1>2, <1>12 DEF historyVars
<1> QED
  BY <1>1, <1>4, <1>5, <1>6, <1>7, <1>8, <1>9, <1>10, <1>11, <1>12 DEF ScreenStep

LEMMA UrlKept == TypeOK /\ UrlInv /\ [Next]_vars => UrlInv'
<1> SUFFICES ASSUME TypeOK, UrlInv, [Next]_vars PROVE UrlInv'
  OBVIOUS
<1>1. ScreenStep /\ PlacesOK
  BY StepOfScreen, TypesInParts
<1>2. CASE UNCHANGED <<url, active, seen>>
  BY <1>2 DEF UrlInv
\* The URL that was not the active thread's has become it, or was seen before.
<1>3. CASE Effects
  <2>1. url' = url /\ active' = IF Moved THEN url ELSE active
    BY <1>3 DEF Effects
  <2>2. CASE Moved
    BY <2>1, <2>2 DEF UrlInv
  <2>3. CASE ~Moved
    BY <2>1, <2>3 DEF UrlInv, Moved
  <2> QED
    BY <2>2, <2>3
<1>4. CASE Navigated
  BY <1>4, WhenSettled DEF Navigated, UrlInv
<1>5. ASSUME NEW who, NEW t \in Threads, Created(who, t) PROVE UrlInv'
  <2>1. t # seen'.active /\ active' = t
    BY <1>1, <1>5, WhenSettled, CanvasAppAssumption DEF Created, PlacesOK
  <2> QED
    BY <2>1 DEF UrlInv
<1>6. ASSUME NEW t, Removed(t) PROVE UrlInv'
  BY <1>6, WhenSettled DEF Removed, UrlInv
<1>7. ASSUME NEW t, MessagesArrive(t) PROVE UrlInv'
  BY <1>2, <1>7 DEF MessagesArrive
<1>8. ASSUME NEW l, ServeLoad(l) \/ LoadArrives(l) PROVE UrlInv'
  BY <1>2, <1>8 DEF ServeLoad, LoadArrives, screenVars
<1>9. ASSUME NEW text, Type(text) PROVE UrlInv'
  BY <1>2, <1>9 DEF Type
<1>10. CASE SaveArrives \/ DeployEnds \/ Send \/ Hear
  BY <1>2, <1>10 DEF SaveArrives, DeployEnds, Send, Hear
<1>11. CASE UNCHANGED <<url, active, shown, canvas, current, seen, messageLoads, canvasLoads,
                        historyVars>>
  BY <1>2, <1>11
<1> QED
  BY <1>1, <1>3, <1>4, <1>5, <1>6, <1>7, <1>8, <1>9, <1>10, <1>11 DEF ScreenStep

LEMMA MessagesKept == TypeOK /\ MessagesInv /\ [Next]_vars => MessagesInv'
<1> SUFFICES ASSUME TypeOK, MessagesInv, [Next]_vars PROVE MessagesInv'
  OBVIOUS
<1>1. ScreenStep
  BY StepOfScreen
<1>2. CASE UNCHANGED <<active, shown, messageLoads>>
          /\ ("messages" \in late => "messages" \in late')
  BY <1>2 DEF MessagesInv
<1>3. CASE Effects
  <2>1. /\ UNCHANGED <<shown, late>>
        /\ \/ active' = url /\ messageLoads' = messageLoads \cup {url}
           \/ UNCHANGED <<active, messageLoads>>
    BY <1>3 DEF Effects
  <2> QED
    BY <1>2, <2>1 DEF MessagesInv
<1>4. ASSUME NEW who, NEW t, Created(who, t) PROVE MessagesInv'
  BY <1>4 DEF Created, MessagesInv
<1>5. ASSUME NEW t, MessagesArrive(t) PROVE MessagesInv'
  BY <1>5 DEF MessagesArrive, MessagesInv
<1>6. ASSUME NEW t, Removed(t) PROVE MessagesInv'
  BY <1>6 DEF Removed, MessagesInv
<1>7. CASE Send
  BY <1>7 DEF Send, MessagesInv
<1>8. CASE Hear
  BY <1>8 DEF Hear, MessagesInv
<1>9. CASE Navigated
  BY <1>2, <1>9 DEF Navigated, requestVars, historyVars
<1>10. ASSUME NEW l, ServeLoad(l) \/ LoadArrives(l) PROVE MessagesInv'
  BY <1>2, <1>10 DEF ServeLoad, LoadArrives, TakesRow, screenVars, historyVars
<1>11. ASSUME NEW text, Type(text) PROVE MessagesInv'
  BY <1>2, <1>11 DEF Type, requestVars, historyVars
<1>12. CASE SaveArrives \/ DeployEnds
  BY <1>2, <1>12 DEF SaveArrives, DeployEnds, TakesRow
<1>13. CASE UNCHANGED <<url, active, shown, canvas, current, seen, messageLoads, canvasLoads,
                        historyVars>>
  BY <1>2, <1>13 DEF historyVars
<1> QED
  BY <1>1, <1>3, <1>4, <1>5, <1>6, <1>7, <1>8, <1>9, <1>10, <1>11, <1>12, <1>13 DEF ScreenStep

LEMMA PaneInvKept == TypeOK /\ OriginInv /\ PaneInv /\ [Next]_vars => PaneInv'
<1> SUFFICES ASSUME TypeOK, OriginInv, PaneInv, [Next]_vars PROVE PaneInv'
  OBVIOUS
<1>1. ScreenStep /\ PlacesOK
  BY StepOfScreen, TypesInParts
<1>2. CASE UNCHANGED <<active, canvas, seen, canvasLoads>>
          /\ ("canvas" \in late => "canvas" \in late')
  BY <1>2 DEF PaneInv
\* A row that is not of the active thread came late.
<1>3. ASSUME NEW row, NEW of, TakesRow(row, of), row.thread \in {of, None}, active' = active
      PROVE  PaneInv'
  BY <1>3 DEF TakesRow, PaneInv
<1>4. CASE Effects
  <2>1. late' = late /\ seen'.active = active
    BY <1>4 DEF Effects, Deps
  <2>2. CASE Moved
    BY <1>4, <2>1, <2>2 DEF Effects, Moved, PaneInv
  <2>3. CASE ~Moved /\ active # seen.active /\ active = None
    BY <1>4, <2>3, NoRowType DEF Effects, PaneInv
  <2>4. CASE ~Moved /\ active # seen.active /\ active # None
    <3>1. Load(active).of = active /\ Load(active) \in canvasLoads' /\ active' = active
      BY <1>4, <2>4 DEF Effects, Load
    <3> QED
      BY <3>1 DEF PaneInv
  <2>5. CASE ~Moved /\ active = seen.active
    BY <1>4, <2>1, <2>5 DEF Effects, PaneInv
  <2> QED
    BY <2>2, <2>3, <2>4, <2>5
<1>5. ASSUME NEW who, NEW t \in Threads, Created(who, t) PROVE PaneInv'
  <2>1. t # seen'.active /\ active' = t
    BY <1>1, <1>5, WhenSettled, CanvasAppAssumption DEF Created, PlacesOK
  <2> QED
    BY <2>1 DEF PaneInv
<1>6. ASSUME NEW t, Removed(t) PROVE PaneInv'
  BY <1>6, WhenSettled DEF Removed, PaneInv, historyVars
<1>7. ASSUME NEW l, ServeLoad(l) PROVE PaneInv'
  <2> DEFINE k == [of |-> l.of, read |-> TRUE, row |-> ByThread(l.of)]
  <2>1. k.of = l.of
    OBVIOUS
  <2>2. canvasLoads' = (canvasLoads \ {l}) \cup {k} /\ UNCHANGED <<active, canvas, seen, late>>
    BY <1>7 DEF ServeLoad, screenVars, historyVars
  <2> HIDE DEF k
  <2> QED
    BY <2>1, <2>2 DEF PaneInv
<1>8. ASSUME NEW l, LoadArrives(l) PROVE PaneInv'
  <2>1. /\ active' = active /\ l \in canvasLoads
        /\ TakesRow(l.row, l.of) \/ TakesRow(NoRow, l.of)
    BY <1>8 DEF LoadArrives
  <2>2. l.row.thread \in {l.of, None}
    BY <2>1, NoRowType DEF OriginInv
  <2> QED
    BY <1>3, <2>1, <2>2, NoRowType
<1>9. CASE SaveArrives \/ DeployEnds
  <2>1. /\ UNCHANGED <<active, seen, canvasLoads>>
        /\ \/ TakesRow(saving.row, saving.row.thread)
           \/ TakesRow(deploying.row, deploying.row.thread)
           \/ UNCHANGED <<canvas, late>>
    BY <1>9 DEF SaveArrives, DeployEnds
  <2> QED
    BY <1>2, <1>3, <2>1
<1>10. CASE Hear
  <2>1. listening \in Threads
    BY <1>1, <1>10 DEF Hear, PlacesOK
  <2>2. CASE listening # active
    BY <1>10, <2>2 DEF Hear, PaneInv
  <2>3. CASE listening = active /\ jobs[listening].row = NoRow
    BY <1>2, <1>10, <2>3 DEF Hear
  <2>4. CASE listening = active /\ jobs[listening].row # NoRow
    <3>1. canvas'.thread = active /\ active' = active
      BY <1>10, <2>1, <2>4 DEF Hear, OriginInv
    <3> QED
      BY <3>1 DEF PaneInv
  <2> QED
    BY <2>2, <2>3, <2>4
<1>11. CASE Navigated \/ Send
  BY <1>2, <1>11 DEF Navigated, Send, requestVars, historyVars
<1>12. ASSUME NEW t, MessagesArrive(t) PROVE PaneInv'
  BY <1>2, <1>12 DEF MessagesArrive
<1>13. ASSUME NEW text, Type(text) PROVE PaneInv'
  BY <1>2, <1>13 DEF Type, requestVars, historyVars
<1>14. CASE UNCHANGED <<url, active, shown, canvas, current, seen, messageLoads, canvasLoads,
                        historyVars>>
  BY <1>2, <1>14 DEF historyVars
<1> QED
  BY <1>1, <1>4, <1>5, <1>6, <1>7, <1>8, <1>9, <1>10, <1>11, <1>12, <1>13, <1>14 DEF ScreenStep

-----------------------------------------------------------------------------
(* The invariant *)

LEMMA InitHolds == Init => IInv
<1> SUFFICES ASSUME Init PROVE IInv
  OBVIOUS
<1>1. 0 \in Texts /\ NoRow \in Rows /\ NoRow.app = None /\ NoRow.thread = None
      /\ NoPage \in Pages /\ NoPage.html = 0
  <2>1. 0 \in Texts
    BY CanvasAppAssumption DEF Texts
  <2> QED
    BY <2>1, NoRowType DEF NoPage, Pages, AppIds
<1>2. AppTypeOK
  <2>1. apps \in SUBSET Apps /\ html \in [Apps -> Texts] /\ deployed \in SUBSET apps
        /\ hasFile \in SUBSET apps /\ published \in SUBSET deployed
    BY DEF Init, AppInit
  <2>2. thread \in [Apps -> ThreadIds]
    BY DEF Init, AppInit, ThreadIds
  <2>3. \A a, b \in apps : thread[a] = thread[b] => a = b \/ thread[a] = None
    BY DEF Init, AppInit
  <2>4. file \in [Apps -> Texts]
    BY <1>1 DEF Init, AppInit
  <2>5. deploy \in [Requests -> Deploys]
    BY NoDeployType DEF Init, AppInit
  <2> QED
    BY <2>1, <2>2, <2>3, <2>4, <2>5 DEF AppTypeOK
<1>3. DeployInv
  BY NoDeployType DEF Init, AppInit, DeployInv
<1>4. /\ Idle.row = NoRow /\ saving = Idle /\ deploying = Idle /\ canvas = NoRow
      /\ canvasLoads = {} /\ \A t \in Threads : jobs[t] = Idle
  BY DEF Init, Idle
<1>5. TypeOK
  <2>1. PlacesOK
    BY DEF Init, PlacesOK, ThreadIds, AppIds
  <2>2. PaneOK
    BY <1>1 DEF Init, PaneOK
  <2>3. RequestsOK
    BY <1>4, RequestTypes DEF Init, RequestsOK
  <2>4. HistoryOK
    <3>1. 0 \in 0 .. MaxActs
      BY CanvasScreenAssumption
    <3>2. blank \in BOOLEAN
      BY DEF Init
    <3> QED
      BY <3>1, <3>2 DEF Init, HistoryOK
  <2> QED
    BY <1>2, <2>1, <2>2, <2>3, <2>4, TypesInParts
<1>6. RowsInv /\ OriginInv
  BY <1>4 DEF RowsInv, OriginInv, Held, HeldIn
<1>7. EditorInv /\ UrlInv /\ MessagesInv /\ PaneInv
  BY <1>1 DEF Init, EditorInv, UrlInv, MessagesInv, PaneInv
<1> QED
  BY <1>3, <1>5, <1>6, <1>7 DEF IInv

LEMMA Inductive == IInv /\ [Next]_vars => IInv'
BY TypesKept, RowsKept, OriginKept, EditorKept, UrlKept, MessagesKept, PaneInvKept DEF IInv

LEMMA Invariance == Spec => []IInv
<1>1. Init => IInv
  BY InitHolds
<1>2. IInv /\ [Next]_vars => IInv'
  BY Inductive
<1> QED
  BY <1>1, <1>2, PTL DEF Spec

-----------------------------------------------------------------------------
(* Theorems *)

\* Type correctness.
THEOREM TypeSafety == Spec => []TypeOK
<1>1. IInv => TypeOK
  BY DEF IInv
<1> QED
  BY <1>1, Invariance, PTL

\* However edits, answers and deploys of both tabs meet, a deploy that met no other deploy
\* and no edit leaves the page of the row in the file and on the hosted address.
THEOREM DeploysPublish == Spec => []DeployPublishes
<1>1. IInv => DeployPublishes
  BY DEF IInv, TypeOK, AppTypeOK, DeployInv, DeployPublishes, Hosted
<1> QED
  BY <1>1, Invariance, PTL

\* Whatever was switched, saved, deployed or answered, a post carries the page of its own
\* thread, or of a row that has lost its thread since, once no empty page left the text of
\* another app in the editor.
THEOREM PostsOwnPage == Spec => []EmbedsOwnPage
<1>1. IInv => EmbedsOwnPage
  <2> SUFFICES ASSUME IInv, Settled, Embedded(active) # NoPage, ~blank
               PROVE  thread[Embedded(active).app] \in {active, None}
    BY DEF EmbedsOwnPage
  <2>1. canvas # NoRow /\ canvas.thread = active /\ current.html # 0 /\ Embedded(active) = current
    BY DEF Embedded
  <2>2. canvas.app \in apps /\ thread[canvas.app] \in {active, None}
    BY <2>1 DEF IInv, RowsInv, Held, HeldIn
  <2>3. canvas.app # None
    BY <2>2, CanvasAppAssumption DEF IInv, TypeOK, AppTypeOK
  <2>4. current.app = canvas.app
    BY <2>1, <2>3, WhenSettled DEF IInv, EditorInv
  <2> QED
    BY <2>1, <2>2, <2>4
<1> QED
  BY <1>1, Invariance, PTL

\* Once nothing is awaited, the messages and the pane are of the thread of the URL, unless
\* the last reply that was applied came late.
THEOREM ScreenShowsUrl == Spec => []SettledShowsUrl
<1>1. IInv => SettledShowsUrl
  BY WhenSettled DEF IInv, UrlInv, MessagesInv, PaneInv, SettledShowsUrl, Quiet
<1> QED
  BY <1>1, Invariance, PTL
=============================================================================
