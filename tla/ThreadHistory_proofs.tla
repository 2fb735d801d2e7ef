------------------------ MODULE ThreadHistory_proofs ------------------------
(***************************************************************************)
(* For any set of jobs and files and any number of cuts: what a thread's   *)
(* history holds of a run that was left in peace, and what a deletion      *)
(* leaves. A run that is not in "disturbed" is the only one at work, so    *)
(* what it holds is the newest checkpoint, and no other run holds an older *)
(* copy in which its question is missing and that could still be saved     *)
(* over it. That is what makes the two properties of a reload inductive.   *)
(***************************************************************************)
EXTENDS ThreadHistory, SequenceTheorems, FiniteSetTheorems, TLAPS

\* No message of job j is in s.
Fresh(s, j) == \A i \in DOMAIN s : s[i].job # j

AskedOnce(s, j) ==
  \E i \in DOMAIN s : /\ s[i] = Question(j)
                      /\ \A k \in DOMAIN s : s[k] = Question(j) => k = i

AnswerBehind(s, j, i) == i + 1 \in DOMAIN s /\ s[i + 1].job = j /\ s[i + 1].by # "user"

\* Job j's question is in s once, at the end or with an answer behind it.
Pending(s, j) ==
  /\ AskedOnce(s, j)
  /\ \A i \in DOMAIN s : s[i] = Question(j) => i = Len(s) \/ AnswerBehind(s, j, i)

Answered(s, j) ==
  /\ AskedOnce(s, j)
  /\ \A i \in DOMAIN s : s[i] = Question(j) => AnswerBehind(s, j, i)

\* A run that was left in peace is alone at work.
AloneInv == \A j \in Running \ disturbed : Running = {j}

\* It holds the newest checkpoint.
ViewInv ==
  \A j \in Jobs \ disturbed : pc[j] \in {"running", "answered"} => view[j] = checkpoint

\* Before it begins nothing is kept of its job, nor held by a run that may save it.
FreshInv ==
  \A j \in Jobs \ disturbed : pc[j] \in {"new", "queued", "loaded"} =>
    Fresh(checkpoint, j) /\ \A k \in Jobs : Fresh(view[k], j)

\* From then on its question is in the history, then its answer, and when its result is
\* stored also in whatever a later run holds.
AnswerInv ==
  \A j \in Jobs \ disturbed :
    /\ pc[j] = "running" => Pending(checkpoint, j)
    /\ pc[j] \in {"answered", "kept", "saved", "done"} => Answered(checkpoint, j)
    /\ pc[j] \in {"saved", "done"} =>
         \A k \in Jobs : pc[k] \in {"running", "answered"} => Answered(view[k], j)

\* As long as nothing was missed: a thread is deleted, or has no row yet, only when no
\* job of it is at work, and the steps of a deletion leave nothing behind them.
DeletionInv ==
  ~leftovers =>
    /\ deletion # "none" => ~row
    /\ ~row => \A j \in Jobs : pc[j] \notin Unfinished
    /\ ~row /\ deletion # "checkpoints" => checkpoint = <<>>
    /\ ~row /\ deletion = "none" => files = {}

IInv ==
  /\ TypeOK
  /\ AloneInv
  /\ ViewInv
  /\ FreshInv
  /\ AnswerInv
  /\ DeletionInv

-----------------------------------------------------------------------------
(* Histories that grow *)

\* An appended message comes behind all others, which stay where they are.
LEMMA Appended ==
  ASSUME NEW s \in Seq(Message), NEW m \in Message
  PROVE  /\ Append(s, m) \in Seq(Message)
         /\ Len(s) \in Nat
         /\ Len(Append(s, m)) = Len(s) + 1
         /\ DOMAIN s = 1 .. Len(s)
         /\ DOMAIN Append(s, m) = 1 .. Len(s) + 1
         /\ \A i \in 1 .. Len(s) : Append(s, m)[i] = s[i]
         /\ Append(s, m)[Len(s) + 1] = m
OBVIOUS

\* What a run adds for its own job changes nothing of another's.
LEMMA OthersKept ==
  ASSUME NEW s \in Seq(Message), NEW m \in Message, NEW j \in Jobs, m.job # j
  PROVE  /\ Fresh(s, j) => Fresh(Append(s, m), j)
         /\ Answered(s, j) => Answered(Append(s, m), j)
<1>1. m # Question(j)
  BY DEF Question
<1>2. Fresh(s, j) => Fresh(Append(s, m), j)
  BY Appended DEF Fresh
<1>3. ASSUME Answered(s, j) PROVE Answered(Append(s, m), j)
  <2>1. PICK i \in DOMAIN s :
          s[i] = Question(j) /\ \A k \in DOMAIN s : s[k] = Question(j) => k = i
    BY <1>3 DEF Answered, AskedOnce
  <2>2. i \in DOMAIN Append(s, m) /\ Append(s, m)[i] = Question(j)
    BY <2>1, Appended
  <2>3. \A k \in DOMAIN Append(s, m) : Append(s, m)[k] = Question(j) => k = i
    BY <1>1, <2>1, Appended
  <2>4. AnswerBehind(s, j, i)
    BY <1>3, <2>1 DEF Answered
  <2>5. AnswerBehind(Append(s, m), j, i)
    BY <2>1, <2>4, Appended DEF AnswerBehind
  <2>6. QED
    BY <2>2, <2>3, <2>5 DEF Answered, AskedOnce
<1>4. QED
  BY <1>2, <1>3

\* The question of a job that has no message yet is there once, at the end.
LEMMA QuestionAsked ==
  ASSUME NEW s \in Seq(Message), NEW j \in Jobs, Fresh(s, j)
  PROVE  Pending(Append(s, Question(j)), j)
<1> DEFINE t == Append(s, Question(j))
<1>1. Question(j) \in Message /\ Question(j).job = j
  BY DEF Question, Message
<1>2. Len(s) + 1 \in DOMAIN t /\ t[Len(s) + 1] = Question(j)
  BY <1>1, Appended
<1>3. \A k \in DOMAIN t : t[k] = Question(j) => k = Len(s) + 1
  BY <1>1, Appended DEF Fresh
<1>4. Len(t) = Len(s) + 1
  BY <1>1, Appended
<1>5. QED
  BY <1>2, <1>3, <1>4 DEF Pending, AskedOnce

\* The answer goes right behind it, or behind an earlier answer of the same run.
LEMMA QuestionAnswered ==
  ASSUME NEW s \in Seq(Message), NEW j \in Jobs, NEW by \in {"text", "html"},
         Pending(s, j)
  PROVE  Answered(Append(s, [job |-> j, by |-> by]), j)
<1> DEFINE m == [job |-> j, by |-> by]
           t == Append(s, m)
<1>1. m \in Message /\ m.job = j /\ m.by # "user" /\ m # Question(j)
  BY DEF Question, Message
<1>2. PICK i \in DOMAIN s :
        s[i] = Question(j) /\ \A k \in DOMAIN s : s[k] = Question(j) => k = i
  BY DEF Pending, AskedOnce
<1> HIDE DEF m
<1>3. i \in DOMAIN t /\ t[i] = Question(j)
  BY <1>1, <1>2, Appended
<1>4. \A k \in DOMAIN t : t[k] = Question(j) => k = i
  BY <1>1, <1>2, Appended
<1>5. i = Len(s) \/ AnswerBehind(s, j, i)
  BY <1>2 DEF Pending
<1>6. AnswerBehind(t, j, i)
  BY <1>1, <1>2, <1>5, Appended DEF AnswerBehind
<1>7. Answered(t, j)
  BY <1>3, <1>4, <1>6 DEF Answered, AskedOnce
<1>8. QED
  BY <1>7 DEF m

\* A question with its answer needs no second one.
LEMMA AnsweredPending ==
  ASSUME NEW s, NEW j, Answered(s, j)
  PROVE  Pending(s, j)
BY DEF Answered, Pending

\* A question that is there is found.
LEMMA AnsweredContained ==
  ASSUME NEW s \in Seq(Message), NEW j, Answered(s, j)
  PROVE  Contains(s, Question(j))
BY DEF Answered, AskedOnce, Contains

\* A longer history starts with the shorter one.
LEMMA Grows ==
  ASSUME NEW s \in Seq(Message), NEW m \in Message
  PROVE  IsPrefix(s, s) /\ IsPrefix(s, Append(s, m))
<1>1. SubSeq(s, 1, Len(s)) = SubSeq(Append(s, m), 1, Len(s))
  OBVIOUS
<1>2. QED
  BY <1>1, Appended DEF IsPrefix

-----------------------------------------------------------------------------
(* Types, and runs at work *)

LEMMA InitHolds == Init => IInv
<1> SUFFICES ASSUME Init PROVE IInv
  OBVIOUS
<1>1. TypeOK
  <2>1. <<>> \in Seq(Message)
    OBVIOUS
  <2>2. 0 \in 0 .. MaxCuts
    BY HistoryAssumption
  <2>3. row \in BOOLEAN /\ app \in BOOLEAN /\ leftovers \in BOOLEAN
    BY DEF Init
  <2>4. /\ pc \in [Jobs -> {"new", "queued", "saved", "done", "failed"} \cup Active]
        /\ view \in [Jobs -> Seq(Message)]
    BY <2>1 DEF Init
  <2>5. QED
    BY <2>1, <2>2, <2>3, <2>4 DEF Init, TypeOK
<1>2. Running = {}
  BY DEF Init, Running, Active
<1>3. AloneInv /\ ViewInv /\ DeletionInv
  BY <1>2 DEF Init, AloneInv, ViewInv, DeletionInv, Active, Unfinished
<1>4. FreshInv /\ AnswerInv
  BY DEF Init, FreshInv, AnswerInv, Fresh
<1>5. QED
  BY <1>1, <1>3, <1>4 DEF IInv

\* A run that saves keeps the shape of what it saves.
LEMMA CheckpointsType ==
  ASSUME TypeOK, NEW j \in Jobs, NEW messages \in Seq(Message), NEW at \in Active,
         Checkpoints(j, messages), Goes(j, at)
  PROVE  TypeOK'
BY HistoryAssumption DEF TypeOK, Checkpoints, Goes

LEMMA LeavesType ==
  ASSUME TypeOK, NEW j \in Jobs, NEW at \in {"queued", "kept", "saved", "done", "failed"},
         Leaves(j, at)
  PROVE  /\ pc' \in [Jobs -> {"new", "queued", "saved", "done", "failed"} \cup Active]
         /\ view' \in [Jobs -> Seq(Message)]
         /\ canvasRun' \in SUBSET Jobs
BY DEF TypeOK, Leaves, Goes, Active

LEMMA TypesKept == TypeOK /\ [Next]_vars => TypeOK'
<1> SUFFICES ASSUME TypeOK, [Next]_vars PROVE TypeOK'
  OBVIOUS
<1>1. ASSUME NEW j \in Jobs, Post(j) PROVE TypeOK'
  BY <1>1 DEF TypeOK, Post, Goes, Active
<1>2. ASSUME NEW j \in Jobs, LookUpGem(j) PROVE TypeOK'
  BY <1>2 DEF TypeOK, LookUpGem, Goes, Active, Running, threadVars
<1>3. ASSUME NEW j \in Jobs, BeginGraph(j) PROVE TypeOK'
  <2>1. Append(checkpoint, Question(j)) \in Seq(Message)
    BY Appended DEF TypeOK, Question, Message
  <2>2. QED
    BY <1>3, <2>1, CheckpointsType DEF BeginGraph, Active
<1>4. ASSUME NEW j \in Jobs, NEW by \in {"text", "html"}, Answer(j, by) PROVE TypeOK'
  <2>1. Append(view[j], [job |-> j, by |-> by]) \in Seq(Message)
    BY Appended DEF TypeOK, Message
  <2>2. QED
    BY <1>4, <2>1, CheckpointsType DEF Answer, Active
<1>5. ASSUME NEW j \in Jobs, InvokeAgain(j) PROVE TypeOK'
  <2>1. Append(checkpoint, Question(j)) \in Seq(Message) /\ checkpoint \in Seq(Message)
    BY Appended DEF TypeOK, Question, Message
  <2>2. QED
    BY <1>5, <2>1, CheckpointsType DEF InvokeAgain, Active
<1>6. ASSUME NEW j \in Jobs, KeepPage(j) \/ Save(j) \/ Finish(j) \/ Fail(j) \/ Cut(j)
      PROVE  TypeOK'
  <2>1. /\ \E at \in {"queued", "kept", "saved", "done", "failed"} : Leaves(j, at)
        /\ app' \in BOOLEAN /\ disturbed' \in SUBSET Jobs
    BY <1>6 DEF KeepPage, Save, Finish, Fail, Cut, TypeOK
  <2>2. cuts' \in 0 .. MaxCuts
    BY <1>6, HistoryAssumption DEF KeepPage, Save, Finish, Fail, Cut, TypeOK
  <2>3. /\ pc' \in [Jobs -> {"new", "queued", "saved", "done", "failed"} \cup Active]
        /\ view' \in [Jobs -> Seq(Message)]
        /\ canvasRun' \in SUBSET Jobs
    BY <2>1, LeavesType
  <2>4. UNCHANGED <<row, checkpoint, files, deletion, leftovers>>
    BY <2>1 DEF Leaves, threadVars
  <2>5. QED
    BY <2>1, <2>2, <2>3, <2>4 DEF TypeOK
<1>7. ASSUME DeleteRow \/ DeleteCheckpoints \/ DeleteFolder PROVE TypeOK'
  <2>1. row' \in BOOLEAN /\ app' \in BOOLEAN /\ leftovers' \in BOOLEAN
    <3>1. CASE DeleteRow
      <4>1. leftovers' \in BOOLEAN
        BY <3>1 DEF DeleteRow
      <4>2. QED
        BY <3>1, <4>1 DEF DeleteRow
    <3>2. CASE DeleteCheckpoints
      BY <3>2 DEF TypeOK, DeleteCheckpoints
    <3>3. CASE DeleteFolder
      BY <3>3 DEF TypeOK, DeleteFolder
    <3>4. QED
      BY <1>7, <3>1, <3>2, <3>3
  <2>2. checkpoint' \in Seq(Message) /\ files' \in SUBSET Files
    <3>1. /\ checkpoint' = checkpoint \/ checkpoint' = <<>>
          /\ files' \in SUBSET files
      BY <1>7 DEF DeleteRow, DeleteCheckpoints, DeleteFolder
    <3>2. <<>> \in Seq(Message)
      OBVIOUS
    <3>3. QED
      BY <3>1, <3>2 DEF TypeOK
  <2>3. /\ disturbed' \in SUBSET Jobs
        /\ deletion' \in {"none", "checkpoints", "folder"}
    BY <1>7 DEF TypeOK, DeleteRow, DeleteCheckpoints, DeleteFolder
  <2>4. UNCHANGED <<runVars, cuts>>
    BY <1>7 DEF DeleteRow, DeleteCheckpoints, DeleteFolder
  <2>5. QED
    BY <2>1, <2>2, <2>3, <2>4 DEF TypeOK, runVars
<1>8. ASSUME NEW f \in Files, Upload(f) \/ DeleteAttachment(f) PROVE TypeOK'
  BY <1>8 DEF TypeOK, Upload, DeleteAttachment, runVars
<1>9. ASSUME UNCHANGED vars PROVE TypeOK'
  BY <1>9 DEF TypeOK, vars, threadVars, runVars
<1>10. QED
  BY <1>1, <1>2, <1>3, <1>4, <1>5, <1>6, <1>7, <1>8, <1>9 DEF Next, Run

\* What a step does to the places of the runs, to what they hold and to the history: the
\* cases in which the invariants differ.
LEMMA PlaceAfter ==
  ASSUME TypeOK, NEW j \in Jobs, NEW at, Goes(j, at)
  PROVE  pc'[j] = at /\ \A k \in Jobs \ {j} : pc'[k] = pc[k]
BY DEF TypeOK, Goes

LEMMA HeldAfter ==
  ASSUME TypeOK, NEW j \in Jobs, NEW messages, view' = [view EXCEPT ![j] = messages]
  PROVE  view'[j] = messages /\ \A k \in Jobs \ {j} : view'[k] = view[k]
BY DEF TypeOK

\* A second run disturbs the first and is disturbed itself, and so stays until it fails.
LEMMA AloneKept == TypeOK /\ AloneInv /\ [Next]_vars => AloneInv'
<1> SUFFICES ASSUME TypeOK, AloneInv, [Next]_vars PROVE AloneInv'
  OBVIOUS
\* Nobody starts.
<1>1. ASSUME Running' \subseteq Running,
             \A k \in Running' : k \in disturbed => k \in disturbed'
      PROVE  AloneInv'
  BY <1>1 DEF AloneInv
<1>2. ASSUME NEW j \in Jobs, LookUpGem(j) PROVE AloneInv'
  <2>1. Running' = Running \cup {j}
    BY <1>2, PlaceAfter DEF LookUpGem, Running, Active
  <2>2. CASE Running = {}
    BY <2>1, <2>2 DEF AloneInv
  <2>3. CASE Running # {}
    BY <1>2, <2>1, <2>3 DEF LookUpGem, AloneInv
  <2>4. QED
    BY <2>2, <2>3
<1>3. ASSUME NEW j \in Jobs, Post(j) PROVE AloneInv'
  <2>1. Running' = Running
    BY <1>3, PlaceAfter DEF Post, Running, Active
  <2>2. QED
    BY <1>1, <1>3, <2>1 DEF Post
<1>4. ASSUME NEW j \in Jobs, NEW at \in Active, Goes(j, at), pc[j] \in Active,
             disturbed' = disturbed
      PROVE  AloneInv'
  <2>1. Running' = Running
    BY <1>4, PlaceAfter DEF Running
  <2>2. QED
    BY <1>1, <1>4, <2>1
<1>5. ASSUME NEW j \in Jobs,
             BeginGraph(j) \/ InvokeAgain(j) \/ \E by \in {"text", "html"} : Answer(j, by)
      PROVE  AloneInv'
  <2>1. \E at \in Active : Goes(j, at)
    BY <1>5 DEF BeginGraph, InvokeAgain, Answer, Active
  <2>2. pc[j] \in Active /\ disturbed' = disturbed
    BY <1>5 DEF BeginGraph, InvokeAgain, Answer, Checkpoints, Active
  <2>3. QED
    BY <1>4, <2>1, <2>2
<1>6. ASSUME NEW j \in Jobs, KeepPage(j) PROVE AloneInv'
  BY <1>4, <1>6 DEF KeepPage, Leaves, Active
<1>7. ASSUME NEW j \in Jobs, NEW at \in {"queued", "saved", "done", "failed"}, Goes(j, at),
             disturbed \ {j} \subseteq disturbed'
      PROVE  AloneInv'
  <2>1. Running' \subseteq Running /\ j \notin Running'
    BY <1>7, PlaceAfter DEF Running, Active
  <2>2. QED
    BY <1>1, <1>7, <2>1
<1>8. ASSUME NEW j \in Jobs, Save(j) \/ Finish(j) \/ Fail(j) \/ Cut(j) PROVE AloneInv'
  <2>1. disturbed \ {j} \subseteq disturbed'
    BY <1>8 DEF Save, Finish, Fail, Cut
  <2>2. \E at \in {"queued", "saved", "done", "failed"} : Goes(j, at)
    BY <1>8 DEF Save, Finish, Fail, Cut, Leaves
  <2>3. QED
    BY <1>7, <2>1, <2>2
<1>9. ASSUME DeleteRow \/ DeleteCheckpoints \/ DeleteFolder PROVE AloneInv'
  <2>1. Running' = Running /\ disturbed \subseteq disturbed'
    BY <1>9 DEF DeleteRow, DeleteCheckpoints, DeleteFolder, runVars, Running
  <2>2. QED
    BY <1>1, <2>1
<1>10. ASSUME NEW f \in Files, Upload(f) \/ DeleteAttachment(f) PROVE AloneInv'
  BY <1>1, <1>10 DEF Upload, DeleteAttachment, runVars, Running
<1>11. ASSUME UNCHANGED vars PROVE AloneInv'
  BY <1>1, <1>11 DEF vars, runVars, Running
<1>12. QED
  BY <1>2, <1>3, <1>5, <1>6, <1>8, <1>9, <1>10, <1>11 DEF Next, Run

-----------------------------------------------------------------------------
(* The history *)

HistoryInv == ViewInv /\ FreshInv /\ AnswerInv

\* Nothing is begun or saved, no run that was disturbed is so no more unless it failed,
\* and each job stays where it is or fails.
LEMMA HistoryUntouched ==
  ASSUME TypeOK, HistoryInv, UNCHANGED <<checkpoint, view>>,
         \A k \in Jobs \ disturbed' :
           \/ /\ k \notin disturbed
              /\ pc'[k] = pc[k] \/ {pc[k], pc'[k]} \subseteq {"new", "queued", "loaded"}
           \/ pc'[k] = "failed",
         \A k \in Jobs : pc'[k] \in {"running", "answered"} => pc'[k] = pc[k]
  PROVE  HistoryInv'
<1>1. ASSUME NEW k \in Jobs \ disturbed',
             pc'[k] \in {"running", "answered", "kept", "saved", "done"}
      PROVE  k \in Jobs \ disturbed /\ pc'[k] = pc[k]
  BY <1>1
<1>2. ASSUME NEW k \in Jobs \ disturbed', pc'[k] \in {"new", "queued", "loaded"}
      PROVE  k \in Jobs \ disturbed /\ pc[k] \in {"new", "queued", "loaded"}
  BY <1>2
<1>3. ViewInv'
  BY <1>1 DEF HistoryInv, ViewInv
<1>4. FreshInv'
  BY <1>2 DEF HistoryInv, FreshInv, Fresh
<1>5. AnswerInv'
  <2> SUFFICES ASSUME NEW k \in Jobs \ disturbed',
                      pc'[k] \in {"running", "answered", "kept", "saved", "done"}
               PROVE  /\ pc'[k] = "running" => Pending(checkpoint, k)
                      /\ pc'[k] \in {"answered", "kept", "saved", "done"} => Answered(checkpoint, k)
                      /\ pc'[k] \in {"saved", "done"} =>
                           \A i \in Jobs :
                             pc'[i] \in {"running", "answered"} => Answered(view[i], k)
    BY DEF AnswerInv, Pending, Answered, AskedOnce, AnswerBehind, Question
  <2>1. k \in Jobs \ disturbed /\ pc'[k] = pc[k]
    BY <1>1
  <2>2. QED
    BY <2>1 DEF HistoryInv, AnswerInv
<1>6. QED
  BY <1>3, <1>4, <1>5 DEF HistoryInv

\* Run j leaves with what the history says of it: the histories of the others stay.
LEMMA HistoryLeft ==
  ASSUME TypeOK, HistoryInv, AloneInv, NEW j \in Jobs,
         NEW at \in {"queued", "kept", "saved", "done", "failed"}, Leaves(j, at),
         at = "queued" => j \in disturbed',
         at = "kept" => pc[j] = "answered",
         at = "saved" => pc[j] = "kept",
         at = "done" => pc[j] = "saved",
         disturbed \ {j} \subseteq disturbed',
         at \in {"kept", "saved", "done"} => disturbed' = disturbed
  PROVE  HistoryInv'
<1>1. pc'[j] = at /\ \A k \in Jobs \ {j} : pc'[k] = pc[k]
  BY PlaceAfter DEF Leaves
<1>2. view'[j] = <<>> /\ \A k \in Jobs \ {j} : view'[k] = view[k]
  BY HeldAfter DEF Leaves
<1>3. checkpoint' = checkpoint
  BY DEF Leaves, threadVars
<1>4. ASSUME NEW k \in Jobs \ disturbed', k # j PROVE k \in Jobs \ disturbed
  BY <1>4
<1>5. ViewInv'
  BY <1>1, <1>2, <1>3, <1>4 DEF HistoryInv, ViewInv
<1>6. FreshInv'
  <2> SUFFICES ASSUME NEW k \in Jobs \ disturbed', pc'[k] \in {"new", "queued", "loaded"}
               PROVE  Fresh(checkpoint, k) /\ \A i \in Jobs : Fresh(view'[i], k)
    BY <1>3 DEF FreshInv, Fresh
  <2>1. k # j
    BY <1>1
  <2>2. Fresh(checkpoint, k) /\ \A i \in Jobs : Fresh(view[i], k)
    BY <1>1, <1>4, <2>1 DEF HistoryInv, FreshInv
  <2>3. Fresh(<<>>, k)
    BY DEF Fresh
  <2>4. QED
    BY <1>2, <2>2, <2>3
<1>7. AnswerInv'
  <2> SUFFICES ASSUME NEW k \in Jobs \ disturbed'
               PROVE  /\ pc'[k] = "running" => Pending(checkpoint, k)
                      /\ pc'[k] \in {"answered", "kept", "saved", "done"} => Answered(checkpoint, k)
                      /\ pc'[k] \in {"saved", "done"} =>
                           \A i \in Jobs :
                             pc'[i] \in {"running", "answered"} => Answered(view'[i], k)
    BY <1>3 DEF AnswerInv, Pending, Answered, AskedOnce, AnswerBehind, Question
  <2>1. CASE k # j
    BY <1>1, <1>2, <1>4, <2>1 DEF HistoryInv, AnswerInv
  <2>2. CASE k = j
    <3>1. CASE at \in {"kept", "saved"}
      <4>1. k \in Running \ disturbed /\ pc[k] \in {"answered", "kept"}
        BY <2>2, <3>1 DEF Running, Active
      <4>2. Answered(checkpoint, k)
        BY <4>1 DEF HistoryInv, AnswerInv
      <4>3. Running = {k}
        BY <4>1 DEF AloneInv
      <4>4. \A i \in Jobs : pc'[i] \notin {"running", "answered"}
        BY <1>1, <2>2, <3>1, <4>3 DEF Running, Active
      <4>5. QED
        BY <1>1, <2>2, <3>1, <4>2, <4>4
    <3>2. CASE at = "done"
      <4>1. pc[k] = "saved" /\ k \notin disturbed
        BY <2>2, <3>2
      <4>2. /\ Answered(checkpoint, k)
            /\ \A i \in Jobs : pc[i] \in {"running", "answered"} => Answered(view[i], k)
        BY <4>1 DEF HistoryInv, AnswerInv
      <4>3. \A i \in Jobs : pc'[i] \in {"running", "answered"} =>
              pc[i] = pc'[i] /\ view'[i] = view[i]
        BY <1>1, <1>2, <3>2
      <4>4. QED
        BY <1>1, <2>2, <3>2, <4>2, <4>3
    <3>3. QED
      BY <1>1, <2>2, <3>1, <3>2
  <2>3. QED
    BY <2>1, <2>2
<1>8. QED
  BY <1>5, <1>6, <1>7 DEF HistoryInv

\* Run j saves messages that end its own, or changes nothing; of the others, those that
\* a run left in peace could miss are none.
LEMMA HistorySaved ==
  ASSUME TypeOK, HistoryInv, AloneInv, NEW j \in Jobs, NEW messages \in Seq(Message),
         NEW at \in {"running", "answered"},
         Goes(j, at), Checkpoints(j, messages),
         j \notin disturbed => /\ at = "running" => Pending(messages, j)
                               /\ at = "answered" => Answered(messages, j),
         \A k \in Jobs \ (disturbed \cup {j}) :
           /\ pc[k] \in {"new", "queued", "loaded"} => Fresh(messages, k)
           /\ pc[k] \in {"saved", "done"} => Answered(messages, k),
         pc[j] \in Active
  PROVE  HistoryInv'
<1>1. pc'[j] = at /\ \A k \in Jobs \ {j} : pc'[k] = pc[k]
  BY PlaceAfter
<1>2. view'[j] = messages /\ \A k \in Jobs \ {j} : view'[k] = view[k]
  BY HeldAfter DEF Checkpoints
<1>3. checkpoint' = messages /\ disturbed' = disturbed
  BY DEF Checkpoints
<1>4. ASSUME NEW k \in Jobs \ disturbed, k # j PROVE pc[k] \notin Active
  BY <1>4 DEF AloneInv, Running
<1>5. ViewInv'
  BY <1>1, <1>2, <1>3, <1>4 DEF ViewInv, Active
<1>6. FreshInv'
  <2> SUFFICES ASSUME NEW k \in Jobs \ disturbed, pc'[k] \in {"new", "queued", "loaded"}
               PROVE  Fresh(messages, k) /\ \A i \in Jobs : Fresh(view'[i], k)
    BY <1>3 DEF FreshInv, Fresh
  <2>1. k # j
    BY <1>1
  <2>2. Fresh(messages, k) /\ \A i \in Jobs : Fresh(view[i], k)
    BY <1>1, <2>1 DEF HistoryInv, FreshInv
  <2>3. QED
    BY <1>2, <2>2
<1>7. AnswerInv'
  <2> SUFFICES ASSUME NEW k \in Jobs \ disturbed
               PROVE  /\ pc'[k] = "running" => Pending(messages, k)
                      /\ pc'[k] \in {"answered", "kept", "saved", "done"} => Answered(messages, k)
                      /\ pc'[k] \in {"saved", "done"} =>
                           \A i \in Jobs :
                             pc'[i] \in {"running", "answered"} => Answered(view'[i], k)
    BY <1>3 DEF AnswerInv, Pending, Answered, AskedOnce, AnswerBehind, Question
  <2>1. CASE k = j
    BY <1>1, <2>1
  <2>2. CASE k # j
    <3>1. pc'[k] = pc[k] /\ pc[k] \notin {"running", "answered", "kept"}
      BY <1>1, <1>4, <2>2 DEF Active
    <3>2. ASSUME pc[k] \in {"saved", "done"}, NEW i \in Jobs, pc'[i] \in {"running", "answered"}
          PROVE  Answered(view'[i], k)
      <4>1. CASE i = j
        BY <1>2, <2>2, <3>2, <4>1
      <4>2. CASE i # j
        BY <1>1, <1>2, <3>2, <4>2 DEF HistoryInv, AnswerInv
      <4>3. QED
        BY <4>1, <4>2
    <3>3. QED
      BY <2>2, <3>1, <3>2
  <2>3. QED
    BY <2>1, <2>2
<1>8. QED
  BY <1>5, <1>6, <1>7 DEF HistoryInv

LEMMA HistoryKept == TypeOK /\ AloneInv /\ HistoryInv /\ [Next]_vars => HistoryInv'
<1> SUFFICES ASSUME TypeOK, AloneInv, HistoryInv, [Next]_vars PROVE HistoryInv'
  OBVIOUS
<1>1. ASSUME NEW j \in Jobs, Post(j) PROVE HistoryInv'
  BY <1>1, PlaceAfter, HistoryUntouched DEF Post
<1>2. ASSUME NEW j \in Jobs, LookUpGem(j) PROVE HistoryInv'
  <2>1. UNCHANGED <<checkpoint, view>> /\ disturbed \subseteq disturbed'
    BY <1>2 DEF LookUpGem, threadVars
  <2>2. pc[j] = "queued" /\ pc'[j] = "loaded" /\ \A k \in Jobs \ {j} : pc'[k] = pc[k]
    BY <1>2, PlaceAfter DEF LookUpGem
  <2>3. QED
    BY <2>1, <2>2, HistoryUntouched
<1>3. ASSUME NEW j \in Jobs, BeginGraph(j) PROVE HistoryInv'
  <2> DEFINE messages == Append(checkpoint, Question(j))
  <2>1. Question(j) \in Message /\ Question(j).job = j /\ checkpoint \in Seq(Message)
    BY DEF TypeOK, Question, Message
  <2>2. messages \in Seq(Message)
    BY <2>1, Appended
  <2>3. ASSUME j \notin disturbed PROVE Pending(messages, j)
    BY <1>3, <2>1, <2>3, QuestionAsked DEF BeginGraph, HistoryInv, FreshInv
  <2>4. ASSUME NEW k \in Jobs \ (disturbed \cup {j})
        PROVE  /\ pc[k] \in {"new", "queued", "loaded"} => Fresh(messages, k)
               /\ pc[k] \in {"saved", "done"} => Answered(messages, k)
    BY <2>1, <2>4, OthersKept DEF HistoryInv, FreshInv, AnswerInv
  <2>5. Goes(j, "running") /\ Checkpoints(j, messages) /\ pc[j] \in Active
    BY <1>3 DEF BeginGraph, Active
  <2> HIDE DEF messages
  <2>6. QED
    BY <2>2, <2>3, <2>4, <2>5, HistorySaved
<1>4. ASSUME NEW j \in Jobs, NEW by \in {"text", "html"}, Answer(j, by) PROVE HistoryInv'
  <2> DEFINE m == [job |-> j, by |-> by]
             messages == Append(view[j], m)
  <2>1. m \in Message /\ m.job = j /\ view[j] \in Seq(Message)
    BY DEF TypeOK, Message
  <2>2. messages \in Seq(Message)
    BY <2>1, Appended
  <2>3. pc[j] = "running"
    BY <1>4 DEF Answer
  <2>4. ASSUME j \notin disturbed PROVE Answered(messages, j)
    <3>1. view[j] = checkpoint /\ Pending(checkpoint, j)
      BY <2>3, <2>4 DEF HistoryInv, ViewInv, AnswerInv
    <3>2. QED
      BY <2>1, <3>1, QuestionAnswered
  <2>5. ASSUME NEW k \in Jobs \ (disturbed \cup {j})
        PROVE  /\ pc[k] \in {"new", "queued", "loaded"} => Fresh(messages, k)
               /\ pc[k] \in {"saved", "done"} => Answered(messages, k)
    <3>1. /\ pc[k] \in {"new", "queued", "loaded"} => Fresh(view[j], k)
          /\ pc[k] \in {"saved", "done"} => Answered(view[j], k)
      BY <2>3, <2>5 DEF HistoryInv, FreshInv, AnswerInv
    <3> HIDE DEF m
    <3>2. QED
      BY <2>1, <2>5, <3>1, OthersKept
  <2>6. Goes(j, "answered") /\ Checkpoints(j, messages) /\ pc[j] \in Active
    BY <1>4 DEF Answer, Active
  <2> HIDE DEF messages
  <2>7. QED
    BY <2>2, <2>4, <2>5, <2>6, HistorySaved
<1>5. ASSUME NEW j \in Jobs, InvokeAgain(j) PROVE HistoryInv'
  <2> DEFINE messages == IF Contains(checkpoint, Question(j)) THEN checkpoint
                         ELSE Append(checkpoint, Question(j))
  <2>1. Question(j) \in Message /\ Question(j).job = j /\ checkpoint \in Seq(Message)
    BY DEF TypeOK, Question, Message
  <2>2. messages \in Seq(Message)
    BY <2>1, Appended
  <2>3. ASSUME j \notin disturbed PROVE Pending(messages, j)
    <3>1. Answered(checkpoint, j)
      BY <1>5, <2>3 DEF InvokeAgain, HistoryInv, AnswerInv
    <3>2. messages = checkpoint
      BY <2>1, <3>1, AnsweredContained
    <3>3. QED
      BY <3>1, <3>2, AnsweredPending
  <2>4. ASSUME NEW k \in Jobs \ (disturbed \cup {j})
        PROVE  /\ pc[k] \in {"new", "queued", "loaded"} => Fresh(messages, k)
               /\ pc[k] \in {"saved", "done"} => Answered(messages, k)
    BY <2>1, <2>4, OthersKept DEF HistoryInv, FreshInv, AnswerInv
  <2>5. Goes(j, "running") /\ Checkpoints(j, messages) /\ pc[j] \in Active
    BY <1>5 DEF InvokeAgain, Active
  <2> HIDE DEF messages
  <2>6. QED
    BY <2>2, <2>3, <2>4, <2>5, HistorySaved
<1>6. ASSUME NEW j \in Jobs, KeepPage(j) PROVE HistoryInv'
  BY <1>6, HistoryLeft DEF KeepPage
<1>7. ASSUME NEW j \in Jobs, Save(j) \/ Finish(j) PROVE HistoryInv'
  BY <1>7, HistoryLeft DEF Save, Finish
<1>8. ASSUME NEW j \in Jobs, Fail(j) PROVE HistoryInv'
  BY <1>8, HistoryLeft DEF Fail
<1>9. ASSUME NEW j \in Jobs, Cut(j) PROVE HistoryInv'
  BY <1>9, HistoryLeft DEF Cut
<1>10. ASSUME DeleteRow \/ DeleteFolder PROVE HistoryInv'
  <2>1. UNCHANGED <<checkpoint, view, pc>> /\ disturbed \subseteq disturbed'
    BY <1>10 DEF DeleteRow, DeleteFolder, runVars
  <2>2. QED
    BY <2>1, HistoryUntouched
\* When the checkpoints go, all jobs that have been posted are disturbed.
<1>11. ASSUME DeleteCheckpoints PROVE HistoryInv'
  <2>1. UNCHANGED <<pc, view>> /\ (checkpoint' = <<>> \/ checkpoint' = checkpoint)
    BY <1>11 DEF DeleteCheckpoints, runVars
  <2>2. ASSUME NEW k \in Jobs \ disturbed' PROVE k \notin disturbed /\ pc[k] \in {"new", "failed"}
    BY <1>11, <2>2 DEF DeleteCheckpoints
  <2>3. ViewInv' /\ AnswerInv'
    BY <2>1, <2>2 DEF ViewInv, AnswerInv
  <2>4. FreshInv'
    BY <2>1, <2>2 DEF HistoryInv, FreshInv, Fresh
  <2>5. QED
    BY <2>3, <2>4 DEF HistoryInv
<1>12. ASSUME NEW f \in Files, Upload(f) \/ DeleteAttachment(f) PROVE HistoryInv'
  BY <1>12, HistoryUntouched DEF Upload, DeleteAttachment, runVars
<1>13. ASSUME UNCHANGED vars PROVE HistoryInv'
  BY <1>13, HistoryUntouched DEF vars, threadVars, runVars
<1>14. QED
  BY <1>1, <1>2, <1>3, <1>4, <1>5, <1>6, <1>7, <1>8, <1>9, <1>10, <1>11, <1>12, <1>13
     DEF Next, Run
-----------------------------------------------------------------------------
(* Deletion *)

\* Unless something is left over, a job that is not over has its thread's row.
LEMMA WorkHasRow ==
  ASSUME TypeOK, DeletionInv, NEW j \in Jobs, pc[j] \in Unfinished
  PROVE  leftovers \/ (row /\ deletion = "none")
BY DEF TypeOK, DeletionInv

LEMMA DeletionKept == TypeOK /\ DeletionInv /\ [Next]_vars => DeletionInv'
<1> SUFFICES ASSUME TypeOK, DeletionInv, [Next]_vars PROVE DeletionInv'
  OBVIOUS
\* What a run or a post does: there is a row and no deletion, or something is left over.
<1>1. ASSUME leftovers' \/ (row' /\ deletion' = "none") PROVE DeletionInv'
  BY <1>1 DEF DeletionInv
<1>2. ASSUME NEW j \in Jobs, Post(j) PROVE DeletionInv'
  <2>1. leftovers' \/ (row' /\ deletion' = "none")
    BY <1>2 DEF Post
  <2>2. QED
    BY <1>1, <2>1
<1>3. ASSUME NEW j \in Jobs, Run(j) \/ Fail(j) \/ Cut(j) PROVE DeletionInv'
  <2>1. pc[j] \in Unfinished
    BY <1>3 DEF Run, LookUpGem, BeginGraph, Answer, InvokeAgain, KeepPage, Save, Finish,
                Fail, Cut, Active, Unfinished
  <2>2. UNCHANGED <<row, deletion, leftovers>>
    BY <1>3 DEF Run, LookUpGem, BeginGraph, Answer, InvokeAgain, KeepPage, Save, Finish,
                Fail, Cut, Checkpoints, Leaves, threadVars
  <2>3. QED
    BY <1>1, <2>1, <2>2, WorkHasRow
<1>4. ASSUME DeleteRow PROVE DeletionInv'
  <2>1. /\ ~row' /\ deletion' = "checkpoints" /\ pc' = pc
        /\ ~leftovers' => \A j \in Jobs : pc[j] \notin Unfinished
    BY <1>4 DEF DeleteRow, runVars
  <2>2. QED
    BY <2>1 DEF DeletionInv
<1>5. ASSUME DeleteCheckpoints PROVE DeletionInv'
  <2>1. /\ row' = row /\ pc' = pc /\ deletion = "checkpoints" /\ deletion' = "folder"
        /\ leftovers' \/ (checkpoint' = <<>> /\ ~leftovers)
    BY <1>5 DEF DeleteCheckpoints, runVars
  <2>2. QED
    BY <2>1 DEF DeletionInv
<1>6. ASSUME DeleteFolder PROVE DeletionInv'
  <2>1. /\ row' = row /\ pc' = pc /\ checkpoint' = checkpoint
        /\ deletion = "folder" /\ deletion' = "none"
        /\ leftovers' \/ (files' = {} /\ ~leftovers)
    BY <1>6 DEF DeleteFolder, runVars
  <2>2. QED
    BY <2>1 DEF DeletionInv
<1>7. ASSUME NEW f \in Files, Upload(f) PROVE DeletionInv'
  <2>1. leftovers' \/ (row' /\ deletion' = "none")
    BY <1>7 DEF Upload, TypeOK, DeletionInv
  <2>2. QED
    BY <1>1, <2>1
<1>8. ASSUME NEW f \in Files, DeleteAttachment(f) PROVE DeletionInv'
  <2>1. /\ UNCHANGED <<row, pc, checkpoint, leftovers, deletion>>
        /\ files = {} => files' = {}
    BY <1>8 DEF DeleteAttachment, runVars
  <2>2. QED
    BY <2>1 DEF DeletionInv
<1>9. ASSUME UNCHANGED vars PROVE DeletionInv'
  BY <1>9 DEF DeletionInv, vars, threadVars, runVars
<1>10. QED
  BY <1>2, <1>3, <1>4, <1>5, <1>6, <1>7, <1>8, <1>9 DEF Next

-----------------------------------------------------------------------------
(* What follows for every reachable state *)

LEMMA Inductive == Spec => []IInv
<1>1. Init => IInv
  BY InitHolds
<1>2. IInv /\ [Next]_vars => IInv'
  BY TypesKept, AloneKept, HistoryKept, DeletionKept DEF IInv, HistoryInv
<1>3. QED
  BY <1>1, <1>2, PTL DEF Spec

\* Each variable keeps its type; in particular what a run holds and saves stays a list of
\* messages of the thread's jobs.
THEOREM TypeSafety == Spec => []TypeOK
<1>1. IInv => TypeOK
  BY DEF IInv
<1>2. QED
  BY <1>1, Inductive, PTL

\* However many jobs, deletions, uploads and cuts a thread sees: after a reload the question
\* of every job with a stored result that was left in peace is there once, with its answer or the
\* app's page right behind it (LangGraphHandler, get_thread_messages).
THEOREM ReloadShowsAnswers == Spec => []AnswersAreShown
<1>1. IInv => AnswersAreShown
  <2> SUFFICES ASSUME IInv, NEW j \in Jobs, pc[j] \in {"saved", "done"}, j \notin disturbed
               PROVE  LET asked == {i \in DOMAIN Shown : Shown[i] = Question(j)}
                      IN  /\ Cardinality(asked) = 1
                          /\ \A i \in asked : /\ i + 1 \in DOMAIN Shown
                                              /\ Shown[i + 1].job = j
                                              /\ Shown[i + 1].by # "user"
    BY DEF AnswersAreShown
  <2> DEFINE asked == {i \in DOMAIN Shown : Shown[i] = Question(j)}
  <2>1. Answered(checkpoint, j) /\ checkpoint \in Seq(Message)
    BY DEF IInv, AnswerInv, TypeOK
  \* Only an answer is shown as the page, and as an answer to the same question.
  <2>2. DOMAIN Shown = DOMAIN checkpoint
    BY DEF Shown
  <2>3. ASSUME NEW i \in DOMAIN checkpoint
        PROVE  /\ Shown[i].job = checkpoint[i].job
               /\ Shown[i].by # "user" <=> checkpoint[i].by # "user"
               /\ checkpoint[i].by = "user" => Shown[i] = checkpoint[i]
    <3>1. checkpoint[i] \in Message
      BY <2>1
    <3>2. Shown[i] = checkpoint[i] \/ (Shown[i] = [checkpoint[i] EXCEPT !.by = "page"]
                                        /\ checkpoint[i].by # "user")
      BY DEF Shown, LastAnswer
    <3>3. QED
      BY <3>1, <3>2 DEF Message
  <2>4. Question(j).by = "user"
    BY DEF Question
  <2>5. ASSUME NEW i \in DOMAIN checkpoint
        PROVE  Shown[i] = Question(j) <=> checkpoint[i] = Question(j)
    BY <2>3, <2>4
  <2>6. PICK i \in DOMAIN checkpoint :
          /\ checkpoint[i] = Question(j)
          /\ \A k \in DOMAIN checkpoint : checkpoint[k] = Question(j) => k = i
    BY <2>1 DEF Answered, AskedOnce
  <2>7. asked = {i}
    BY <2>2, <2>5, <2>6
  <2>8. Cardinality(asked) = 1
    BY <2>7, FS_Singleton
  <2>9. AnswerBehind(checkpoint, j, i)
    BY <2>1, <2>6 DEF Answered
  <2>10. i + 1 \in DOMAIN Shown /\ Shown[i + 1].job = j /\ Shown[i + 1].by # "user"
    BY <2>2, <2>3, <2>9 DEF AnswerBehind
  <2>11. QED
    BY <2>7, <2>8, <2>10
<1>2. QED
  BY <1>1, Inductive, PTL

\* A deleted thread, which no list shows any more, leaves no messages and no files, unless
\* something of it was at work or a step of the deletion failed (delete_thread).
THEOREM NothingLeft == Spec => []DeletedLeavesNothing
<1>1. IInv => DeletedLeavesNothing
  <2> SUFFICES ASSUME IInv, \A by \in Listings : ~Listed(by), deletion = "none", ~leftovers
               PROVE  checkpoint = <<>> /\ files = {}
    BY DEF DeletedLeavesNothing
  <2>1. ~Listed("all")
    BY DEF Listings
  <2>2. ~row
    BY <2>1 DEF Listed
  <2>3. QED
    BY <2>2 DEF IInv, DeletionInv
<1>2. QED
  BY <1>1, Inductive, PTL

\* Whatever the order of runs, requests and deletions, a step takes messages out of the
\* history only if it deletes it or saves a run that was disturbed: a run left in peace
\* saves what the history holds already, and more (BeginGraph, Answer, delete_thread).
THEOREM HistoryGrows == Spec => HistoryOnlyGrows
<1> DEFINE Step == \/ IsPrefix(checkpoint, checkpoint')
                   \/ deletion = "checkpoints"
                   \/ \E j \in disturbed : pc[j] \in {"loaded", "running"} /\ pc'[j] # pc[j]
<1>1. IInv /\ [Next]_vars => [Step]_vars
  <2> SUFFICES ASSUME IInv, [Next]_vars PROVE Step \/ UNCHANGED vars
    OBVIOUS
  <2>1. TypeOK /\ ViewInv /\ checkpoint \in Seq(Message)
    BY DEF IInv, TypeOK
  <2>2. ASSUME UNCHANGED checkpoint PROVE Step
    <3>1. ASSUME NEW s \in Seq(Message) PROVE IsPrefix(s, s)
      BY DEF IsPrefix
    <3>2. QED
      BY <2>1, <2>2, <3>1
  <2>3. ASSUME NEW j \in Jobs, BeginGraph(j) \/ InvokeAgain(j) PROVE Step
    <3>1. Question(j) \in Message
      BY DEF Question, Message
    <3>2. checkpoint' = checkpoint \/ checkpoint' = Append(checkpoint, Question(j))
      BY <2>3 DEF BeginGraph, InvokeAgain, Checkpoints
    <3>3. QED
      BY <2>1, <3>1, <3>2, Grows
  <2>4. ASSUME NEW j \in Jobs, NEW by \in {"text", "html"}, Answer(j, by) PROVE Step
    <3> DEFINE m == [job |-> j, by |-> by]
    <3>1. m \in Message
      BY DEF Message
    <3>2. checkpoint' = Append(view[j], m) /\ pc[j] = "running" /\ pc'[j] = "answered"
      BY <2>1, <2>4, PlaceAfter DEF Answer, Checkpoints
    <3> HIDE DEF m
    <3>3. CASE j \in disturbed
      BY <3>2, <3>3
    <3>4. CASE j \notin disturbed
      <4>1. view[j] = checkpoint
        BY <2>1, <3>2, <3>4 DEF ViewInv
      <4>2. QED
        BY <2>1, <3>1, <3>2, <4>1, Grows
    <3>5. QED
      BY <3>3, <3>4
  <2>5. ASSUME NEW j \in Jobs,
               \/ Post(j) \/ LookUpGem(j) \/ KeepPage(j) \/ Save(j)
               \/ Finish(j) \/ Fail(j) \/ Cut(j)
        PROVE  Step
    <3>1. UNCHANGED checkpoint
      BY <2>5 DEF Post, LookUpGem, KeepPage, Save, Finish, Fail, Cut, Leaves, threadVars
    <3>2. QED
      BY <2>2, <3>1
  <2>6. ASSUME DeleteCheckpoints PROVE Step
    BY <2>6 DEF DeleteCheckpoints
  <2>7. ASSUME DeleteRow \/ DeleteFolder \/ \E f \in Files : Upload(f) \/ DeleteAttachment(f)
        PROVE  Step
    <3>1. UNCHANGED checkpoint
      BY <2>7 DEF DeleteRow, DeleteFolder, Upload, DeleteAttachment
    <3>2. QED
      BY <2>2, <3>1
  <2>8. QED
    BY <2>3, <2>4, <2>5, <2>6, <2>7 DEF Next, Run
<1>2. QED
  BY <1>1, Inductive, PTL DEF Spec, HistoryOnlyGrows
=============================================================================
