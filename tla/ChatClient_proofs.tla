-------------------------- MODULE ChatClient_proofs --------------------------
(***************************************************************************)
(* For any jobs, debates, deliveries and bounds: what the transcript shows *)
(* of a debate and of a job, and that a spinner can end. The list of a     *)
(* debate's stream stays in the order the turns were spoken; the closure   *)
(* of a job has shown the turns it counted, until it shows the result;     *)
(* only a job whose stream broke polls; while nothing was cancelled or     *)
(* emptied and no stream broke, the last message is of the one job that    *)
(* still works.                                                            *)
(***************************************************************************)
EXTENDS ChatClient, SequenceTheorems, TLAPS

Outs == [run : Nat, turn : 1 .. Turns]

\* Only a job whose stream broke polls.
PollInv ==
  \A j \in Jobs \ dropped : j \notin timers /\ inflight[j] = 0 /\ pc[j] # "polling"

\* A job whose stream broke polls until it is over.
BrokenInv == \A j \in dropped : pc[j] \in {"polling", "over"}

Same(s, t) == s.run = t.run /\ s.turn = t.turn

\* Every turn of the list follows those before it in its run.
Contiguous(L) ==
  \A i \in 1 .. Len(L) : \A n \in 1 .. L[i].turn :
    /\ i - L[i].turn + n \in 1 .. i
    /\ Same(L[i - L[i].turn + n], [run |-> L[i].run, turn |-> n])

Sorted(L) == \A i, k \in 1 .. Len(L) : i < k => Before(L[i], L[k])

\* The list ends where the last run is, and it has every turn of a debate's result.
Ending(L, run, turn) ==
  /\ turn > 0 => Len(L) > 0 /\ Same(L[Len(L)], [run |-> run, turn |-> turn])
  /\ \A i \in 1 .. Len(L) : L[i].run < run \/ (L[i].run = run /\ L[i].turn <= turn)

HasTurns(L, run) ==
  \A n \in 1 .. Turns : \E i \in 1 .. Len(L) : Same(L[i], [run |-> run, turn |-> n])

Listed(j) ==
  /\ Sorted(turnsOut[j])
  /\ Contiguous(turnsOut[j])
  /\ Ending(turnsOut[j], tries[j], pushed[j])
  /\ answer[j].kind = "turns" => HasTurns(turnsOut[j], answer[j].run)

ListInv == \A j \in Jobs : Listed(j)

\* What was shown of a job, by how far its closure is.
HeardInv ==
  \A j \in Jobs :
    /\ heard[j] <= Len(turnsOut[j])
    /\ pc[j] \in {"idle", "creating"} => \A p \in 1 .. Len(shown) : shown[p].job # j
    /\ pc[j] \in {"idle", "creating", "posting", "checking"} => heard[j] = 0 /\ j \notin preview

\* The turns of a debate stand in order; as long as its closure goes on they are the
\* ones it heard; when it ended none stands without those before it in its run.
Ordered(j) == \A p, q \in TurnsShown(j) : p < q => Before(shown[p], shown[q])
From(j) == \A p \in TurnsShown(j) : \E i \in 1 .. heard[j] : Same(shown[p], turnsOut[j][i])
All(j) == \A i \in 1 .. heard[j] : \E p \in TurnsShown(j) : Same(shown[p], turnsOut[j][i])
Closed(j) ==
  \A p \in TurnsShown(j) : \A n \in 1 .. shown[p].turn :
    \E q \in TurnsShown(j) : shown[q].run = shown[p].run /\ shown[q].turn = n

Ended == {"deaf", "over"}
Kept(j) ==
  /\ Ordered(j)
  /\ pc[j] \notin Ended => From(j) /\ (j \notin emptied => All(j))
  /\ pc[j] \in Ended /\ j \notin emptied /\ (pc[j] = "over" => OneRun(j)) => Closed(j)

TurnsInv == \A j \in Jobs \ dropped : Kept(j)

\* The last message is of the job that works or whose tokens are on the screen.
Current(j) == Active(j) \/ j \in preview
Undisturbed == ~ cancelled /\ dropped = {} /\ emptied = {}

LastInv ==
  Undisturbed =>
    \A j \in Jobs : Current(j) => isThinking /\ shown # <<>> /\ shown[Len(shown)].job = j

\* While the spinner runs, a closure or an interval is there to end it.
SourceInv ==
  isThinking =>
    \E j \in Jobs :
      j \in timers \/ pc[j] \in {"posting", "checking", "listening", "fetching", "deaf"}

IInv ==
  /\ TypeOK
  /\ PollInv
  /\ BrokenInv
  /\ ListInv
  /\ HeardInv
  /\ TurnsInv
  /\ LastInv
  /\ TranscriptUnmixed
  /\ SourceInv

-----------------------------------------------------------------------------
(* Messages *)

LEMMA MessageTypes ==
  /\ \A j \in Jobs : \A kind \in {"user", "answer", "partial", "failed"} :
       /\ Message(j, kind) \in Messages
       /\ Message(j, kind).job = j /\ Message(j, kind).kind = kind
  /\ \A j \in Jobs, r \in Nat, n \in 0 .. Turns :
       /\ Turn(j, r, n) \in Messages
       /\ Turn(j, r, n).job = j /\ Turn(j, r, n).kind = "turn"
       /\ Turn(j, r, n).run = r /\ Turn(j, r, n).turn = n
<1>1. 0 \in 0 .. Turns
  BY ClientAssumption
<1> QED
  BY <1>1 DEF Message, Turn, Messages

LEMMA NoMessages == <<>> \in Seq(Messages) /\ \A k \in 1 .. Len(<<>>) : FALSE
<1>1. <<>> \in Seq(Messages)
  OBVIOUS
<1>2. Len(<<>>) = 0 /\ 1 .. 0 = {}
  OBVIOUS
<1> QED
  BY <1>1, <1>2, Zenon

\* The transcript only grows.
LEMMA Grown ==
  ASSUME TypeOK, NEW ms \in Seq(Messages), shown' = shown \o ms
  PROVE  /\ shown' \in Seq(Messages)
         /\ Len(shown) \in Nat /\ Len(ms) \in Nat /\ Len(shown') = Len(shown) + Len(ms)
         /\ \A p \in 1 .. Len(shown) : shown'[p] = shown[p]
         /\ \A k \in 1 .. Len(ms) : shown'[Len(shown) + k] = ms[k]
         /\ \A p \in 1 .. Len(shown') :
              p \in 1 .. Len(shown) \/ \E k \in 1 .. Len(ms) : p = Len(shown) + k
<1>1. shown \in Seq(Messages)
  BY DEF TypeOK
<1>2. /\ shown' \in Seq(Messages) /\ Len(shown) \in Nat /\ Len(ms) \in Nat
      /\ Len(shown') = Len(shown) + Len(ms)
  BY <1>1, ConcatProperties, LenProperties
<1>3. \A p \in 1 .. Len(shown') :
        shown'[p] = IF p <= Len(shown) THEN shown[p] ELSE ms[p - Len(shown)]
  BY <1>1, ConcatProperties
<1>4. ASSUME NEW k \in 1 .. Len(ms) PROVE shown'[Len(shown) + k] = ms[k]
  <2>1. Len(shown) + k \in 1 .. Len(shown') /\ ~(Len(shown) + k <= Len(shown))
        /\ (Len(shown) + k) - Len(shown) = k
    BY <1>2
  <2> QED
    BY <1>3, <2>1
<1>5. ASSUME NEW p \in 1 .. Len(shown'), p \notin 1 .. Len(shown)
      PROVE  \E k \in 1 .. Len(ms) : p = Len(shown) + k
  <2>1. p - Len(shown) \in 1 .. Len(ms) /\ p = Len(shown) + (p - Len(shown))
    BY <1>2, <1>5
  <2> QED
    BY <2>1
<1>6. \A p \in 1 .. Len(shown) : shown'[p] = shown[p]
  BY <1>2, <1>3
<1> QED
  BY <1>2, <1>4, <1>5, <1>6

\* One message more.
LEMMA Shows ==
  ASSUME TypeOK, NEW m \in Messages, Show(m)
  PROVE  /\ <<m>> \in Seq(Messages) /\ shown' = shown \o <<m>>
         /\ Len(<<m>>) = 1 /\ \A k \in 1 .. Len(<<m>>) : <<m>>[k] = m
         /\ shown' # <<>> /\ shown'[Len(shown')] = m
<1>1. shown \in Seq(Messages)
  BY DEF TypeOK
<1>2. shown' = shown \o <<m>> /\ <<m>> \in Seq(Messages) /\ Len(<<m>>) = 1
  BY <1>1, AppendIsConcat DEF Show
<1>3. \A k \in 1 .. Len(<<m>>) : <<m>>[k] = m
  OBVIOUS
<1>4. shown' # <<>> /\ shown'[Len(shown')] = m
  BY <1>1, AppendProperties DEF Show
<1> QED
  BY <1>2, <1>3, <1>4

\* A post that starts a new transcript.
LEMMA Starts ==
  ASSUME TypeOK, NEW j \in Jobs, Post(j, <<>>)
  PROVE  /\ shown' \in Seq(Messages) /\ Len(shown') = 1 /\ shown' # <<>>
         /\ shown'[Len(shown')].job = j
         /\ \A p \in 1 .. Len(shown') : shown'[p].job = j /\ shown'[p].kind = "user" /\ p = 1
<1> DEFINE m == Message(j, "user")
<1>1. m \in Messages /\ m.job = j /\ m.kind = "user"
  BY MessageTypes
<1>2. shown' = Append(<<>>, m) /\ <<>> \in Seq(Messages)
  BY NoMessages DEF Post
<1> HIDE DEF m
<1>3. /\ shown' \in Seq(Messages) /\ Len(shown') = 1 /\ shown'[1] = m
  BY <1>1, <1>2, AppendProperties
<1>4. \A p \in 1 .. 1 : p = 1
  OBVIOUS
<1> QED
  BY <1>1, <1>3, <1>4

\* A turn that is heard.
LEMMA HeardTurn ==
  ASSUME TypeOK, NEW j \in Jobs, HearTurn(j)
  PROVE  /\ heard[j] + 1 \in 1 .. Len(turnsOut[j])
         /\ turnsOut[j][heard[j] + 1] \in Outs
         /\ \E m \in Messages : /\ Show(m) /\ m.job = j /\ m.kind = "turn"
                                /\ Same(m, turnsOut[j][heard[j] + 1])
<1> DEFINE L == turnsOut[j]
           i == heard[j] + 1
<1>1. L \in Seq(Outs) /\ heard[j] \in Nat /\ heard[j] < Len(L)
  BY DEF HearTurn, TypeOK, Outs
<1>2. Len(L) \in Nat /\ i \in 1 .. Len(L)
  BY <1>1, LenProperties
<1>3. L[i] \in Outs
  BY <1>1, <1>2, ElementOfSeq
<1>4. L[i].run \in Nat /\ L[i].turn \in 0 .. Turns
  BY <1>3, ClientAssumption DEF Outs
<1>5. Show(Turn(j, L[i].run, L[i].turn))
  BY DEF HearTurn
<1> HIDE DEF L, i
<1>6. Same(Turn(j, L[i].run, L[i].turn), L[i])
  BY <1>4, MessageTypes DEF Same
<1>7. \E m \in Messages : Show(m) /\ m.job = j /\ m.kind = "turn" /\ Same(m, L[i])
  BY <1>4, <1>5, <1>6, MessageTypes
<1> QED
  BY <1>2, <1>3, <1>7 DEF L, i

\* What a result shows: messages of its job, turns only from a debate's result.
Results(j, known) ==
  {ms \in Seq(Messages) :
     /\ \A k \in 1 .. Len(ms) : ms[k].job = j
     /\ answer[j].kind # "turns" => \A k \in 1 .. Len(ms) : ms[k].kind # "turn"
     /\ answer[j].kind = "turns" =>
          /\ \A k \in 1 .. Len(ms) : /\ known + k \in 1 .. Turns /\ ms[k].kind = "turn"
                                     /\ ms[k].run = answer[j].run /\ ms[k].turn = known + k
          /\ \A n \in known + 1 .. Turns : n - known \in 1 .. Len(ms)}

LEMMA ResultShown ==
  ASSUME TypeOK, NEW j \in Jobs, NEW known \in Nat, HandleResult(j, known)
  PROVE  \E ms \in Results(j, known) : shown' = shown \o ms
<1>1. CASE answer[j].kind = "turns"
  <2> DEFINE N == IF known <= Turns THEN Turns - known ELSE 0
             r == answer[j].run
             ms == [k \in 1 .. N |-> Turn(j, r, known + k)]
  <2>1. /\ N \in Nat /\ 1 .. Turns - known = 1 .. N /\ r \in Nat
        /\ \A k \in 1 .. N : known + k \in 1 .. Turns /\ known + k \in 0 .. Turns
        /\ \A n \in known + 1 .. Turns : n - known \in 1 .. N
    <3>1. answer[j] \in Answers /\ Turns \in Nat
      BY ClientAssumption DEF TypeOK
    <3>2. r \in Nat
      BY <3>1 DEF Answers
    <3>3. N \in Nat /\ 1 .. Turns - known = 1 .. N
      BY <3>1
    <3> QED
      BY <3>1, <3>2, <3>3
  <2>2. TurnsAfter(j, known) = ms
    BY <2>1 DEF TurnsAfter
  <2>3. shown' = shown \o ms
    BY <1>1, <2>2 DEF HandleResult
  <2>4. \A k \in 1 .. N : /\ ms[k] \in Messages /\ ms[k].job = j /\ ms[k].kind = "turn"
                          /\ ms[k].run = r /\ ms[k].turn = known + k
    BY <2>1, MessageTypes
  <2>5. ms \in Seq(Messages) /\ Len(ms) = N
    <3>1. N \in Nat /\ ms \in [1 .. N -> Messages]
      BY <2>1, <2>4
    <3> HIDE DEF N, ms
    <3>2. ms \in Seq(Messages)
      BY <3>1, SeqDef
    <3>3. DOMAIN ms = 1 .. N /\ DOMAIN ms = 1 .. Len(ms) /\ Len(ms) \in Nat
      BY <3>1, <3>2, LenProperties
    <3> QED
      BY <3>1, <3>2, <3>3
  <2> HIDE DEF N, ms
  <2>6. ms \in Results(j, known)
    BY <1>1, <2>1, <2>4, <2>5 DEF Results
  <2> QED
    BY <2>3, <2>6
<1>2. CASE answer[j].kind = "text"
  <2> DEFINE m == Message(j, "answer")
             ms == << m >>
  <2>1. m \in Messages /\ m.job = j /\ m.kind # "turn"
    BY MessageTypes
  <2>2. shown' = shown \o ms
    BY <1>2 DEF HandleResult
  <2> HIDE DEF m
  <2>3. ms \in Seq(Messages) /\ \A k \in 1 .. Len(ms) : ms[k].job = j /\ ms[k].kind # "turn"
    BY <2>1
  <2> QED
    BY <1>2, <2>2, <2>3 DEF Results
<1>3. CASE answer[j].kind \notin {"turns", "text"}
  <2>1. <<>> \in Seq(Messages) /\ \A k \in 1 .. Len(<<>>) : FALSE
    BY NoMessages
  <2>2. shown' = shown \o <<>>
    BY <1>3 DEF HandleResult
  <2>3. <<>> \in Results(j, known)
    BY <1>3, <2>1 DEF Results
  <2> QED
    BY <2>2, <2>3
<1> QED
  BY <1>1, <1>2, <1>3

-----------------------------------------------------------------------------
(* Types *)

\* The transcript and the rest of what a result changes.
LEMMA ResultTypes ==
  ASSUME TypeOK, NEW j \in Jobs, NEW known \in Nat, HandleResult(j, known)
  PROVE  shown' \in Seq(Messages) /\ pending' \in BOOLEAN /\ isThinking' \in BOOLEAN
<1>1. shown' \in Seq(Messages)
  BY ResultShown, Grown DEF Results
<1>2. pending' \in BOOLEAN /\ isThinking' \in BOOLEAN
  BY DEF HandleResult
<1> QED
  BY <1>1, <1>2

\* What a post changes.
LEMMA PostTypes ==
  ASSUME TypeOK, NEW j \in Jobs, NEW before \in Seq(Messages), Post(j, before)
  PROVE  /\ pc' \in [Jobs -> Steps] /\ shown' \in Seq(Messages)
         /\ preview' \in SUBSET Jobs /\ isThinking' \in BOOLEAN
<1>1. shown' = Append(before, Message(j, "user")) /\ Message(j, "user") \in Messages
  BY MessageTypes DEF Post
<1>2. shown' \in Seq(Messages)
  BY <1>1, AppendProperties
<1> QED
  BY <1>2 DEF Post, Goto, Steps, TypeOK

\* What the user's cancellation changes.
LEMMA CancelShows ==
  ASSUME TypeOK, Cancel
  PROVE  \E ms \in Seq(Messages) :
           /\ shown' = shown \o ms
           /\ \A k \in 1 .. Len(ms) : ms[k].job \in preview /\ ms[k].kind # "turn"
<1>1. CASE preview = {}
  <2>1. shown' = shown \o <<>>
    BY <1>1 DEF Cancel
  <2> QED
    BY <2>1, NoMessages
<1>2. CASE preview # {}
  <2> DEFINE j == CHOOSE j \in preview : TRUE
             ms == << Message(j, "partial") >>
  <2>1. j \in preview /\ j \in Jobs
    BY <1>2 DEF TypeOK
  <2>2. shown' = shown \o ms
    BY <1>2 DEF Cancel
  <2> HIDE DEF j
  <2>3. ms \in Seq(Messages) /\ \A k \in 1 .. Len(ms) : ms[k].job = j /\ ms[k].kind # "turn"
    BY <2>1, MessageTypes
  <2> QED
    BY <2>1, <2>2, <2>3
<1> QED
  BY <1>1, <1>2

LEMMA TypesKept == TypeOK /\ [Next]_vars => TypeOK'
<1> SUFFICES ASSUME TypeOK, [Next]_vars PROVE TypeOK'
  OBVIOUS
<1> USE DEF serverVars, pollVars, history
<1>0. shown \in Seq(Messages)
  BY DEF TypeOK
<1>1. CASE UNCHANGED vars
  BY <1>1 DEF vars, TypeOK
<1>2. ASSUME NEW j \in Jobs, PushTurn(j) PROVE TypeOK'
  <2>1. pushed[j] + 1 \in 1 .. Turns /\ pushed[j] + 1 \in 0 .. Turns
    <3>1. pushed[j] \in 0 .. Turns /\ pushed[j] < Turns
      BY <1>2 DEF PushTurn, TypeOK
    <3> QED
      BY <3>1, ClientAssumption
  <2>2. /\ turnsOut[j] \in Seq(Outs)
        /\ [run |-> tries[j], turn |-> pushed[j] + 1] \in Outs
    BY <2>1 DEF TypeOK, Outs
  <2>3. Append(turnsOut[j], [run |-> tries[j], turn |-> pushed[j] + 1]) \in Seq(Outs)
    BY <2>2, AppendProperties
  <2>4. pushed' \in [Jobs -> 0 .. Turns] /\ turnsOut' \in [Jobs -> Seq(Outs)]
    BY <1>2, <2>1, <2>3 DEF PushTurn, TypeOK, Outs
  <2> QED
    BY <1>2, <2>4 DEF PushTurn, TypeOK, Outs
<1>3. ASSUME NEW j \in Jobs, SaveResult(j) PROVE TypeOK'
  <2>1. PICK kind \in Kinds : answer' = [answer EXCEPT ![j] = [kind |-> kind, run |-> tries[j]]]
    BY <1>3 DEF SaveResult, Kinds
  <2>2. [kind |-> kind, run |-> tries[j]] \in Answers
    BY DEF Answers, TypeOK
  <2>3. answer' \in [Jobs -> Answers]
    BY <2>1, <2>2 DEF TypeOK
  <2> QED
    BY <1>3, <2>3 DEF SaveResult, TypeOK
<1>4. ASSUME NEW j \in Jobs, Redeliver(j) PROVE TypeOK'
  <2>1. tries' \in [Jobs -> Nat \ {0}] /\ pushed' \in [Jobs -> 0 .. Turns]
    <3>1. tries[j] \in Nat \ {0} /\ 0 \in 0 .. Turns
      BY ClientAssumption DEF TypeOK
    <3>2. tries[j] + 1 \in Nat \ {0}
      BY <3>1
    <3> QED
      BY <1>4, <3>1, <3>2 DEF Redeliver, TypeOK
  <2> QED
    BY <1>4, <2>1 DEF Redeliver, TypeOK
<1>5. ASSUME NEW j \in Jobs,
             \/ PostAccepted(j) \/ HearDone(j) \/ FetchFails(j) \/ CreateFails(j)
      PROVE  TypeOK'
  <2>1. pc' \in [Jobs -> Steps] /\ esRef' \in Jobs \cup {NoJob}
    BY <1>5 DEF PostAccepted, HearDone, FetchFails, CreateFails, CloseStream, Goto, Steps, TypeOK
  <2> QED
    BY <1>5, <2>1 DEF PostAccepted, HearDone, FetchFails, CreateFails, TypeOK
<1>6. ASSUME NEW j \in Jobs, SendFails(j) PROVE TypeOK'
  <2>1. pc' \in [Jobs -> Steps] /\ isThinking' \in BOOLEAN
    BY <1>6 DEF SendFails, Goto, Steps, TypeOK
  <2>2. shown' \in Seq(Messages)
    BY <1>6, MessageTypes, Shows, Grown DEF SendFails
  <2> QED
    BY <1>6, <2>1, <2>2 DEF SendFails, TypeOK
<1>7. ASSUME NEW j \in Jobs, CheckDone(j) PROVE TypeOK'
  <2>1. pc' \in [Jobs -> Steps]
    BY <1>7 DEF CheckDone, Goto, Steps, TypeOK
  <2>2. HandleResult(j, 0)
    BY <1>7 DEF CheckDone
  <2> QED
    BY <1>7, <2>1, <2>2, ResultTypes DEF CheckDone, TypeOK
<1>8. ASSUME NEW j \in Jobs, Listen(j) PROVE TypeOK'
  <2>1. pc' \in [Jobs -> Steps] /\ esRef' \in Jobs \cup {NoJob}
    BY <1>8 DEF Listen, Goto, Steps, TypeOK
  <2> QED
    BY <1>8, <2>1 DEF Listen, TypeOK
<1>9. ASSUME NEW j \in Jobs, HearToken(j) PROVE TypeOK'
  BY <1>9 DEF HearToken, TypeOK
<1>10. ASSUME NEW j \in Jobs, HearTurn(j) PROVE TypeOK'
  <2>1. heard' \in [Jobs -> Nat]
    <3>1. heard[j] + 1 \in Nat
      BY DEF TypeOK
    <3> QED
      BY <1>10, <3>1 DEF HearTurn, TypeOK
  <2>2. shown' \in Seq(Messages)
    BY <1>10, HeardTurn, Shows, Grown
  <2> QED
    BY <1>10, <2>1, <2>2 DEF HearTurn, TypeOK
<1>11. ASSUME NEW j \in Jobs, StreamError(j) PROVE TypeOK'
  <2>1. pc' \in [Jobs -> Steps] /\ timers' \in SUBSET Jobs /\ timerRef' \in Jobs \cup {NoJob}
        /\ dropped' \in SUBSET Jobs /\ esRef' \in Jobs \cup {NoJob}
    BY <1>11 DEF StreamError, CloseStream, Goto, Steps, TypeOK
  <2> QED
    BY <1>11, <2>1 DEF StreamError, TypeOK
<1>12. ASSUME NEW j \in Jobs, FetchDone(j) PROVE TypeOK'
  <2>1. pc' \in [Jobs -> Steps] /\ preview' \in SUBSET Jobs
    BY <1>12 DEF FetchDone, Goto, Steps, TypeOK
  <2>2. HandleResult(j, heard[j]) /\ heard[j] \in Nat
    BY <1>12 DEF FetchDone, TypeOK
  <2> QED
    BY <1>12, <2>1, <2>2, ResultTypes DEF FetchDone, TypeOK
<1>13. ASSUME NEW j \in Jobs, PollTick(j) PROVE TypeOK'
  <2>1. inflight' \in [Jobs -> 0 .. MaxPolls]
    BY <1>13, ClientAssumption, SMTT(30) DEF PollTick, TypeOK
  <2> QED
    BY <1>13, <2>1 DEF PollTick, TypeOK
<1>14. ASSUME NEW j \in Jobs, PollNothing(j) PROVE TypeOK'
  <2>1. inflight' \in [Jobs -> 0 .. MaxPolls]
    BY <1>14, ClientAssumption, SMTT(30) DEF PollNothing, TypeOK
  <2> QED
    BY <1>14, <2>1 DEF PollNothing, TypeOK
<1>15. ASSUME NEW j \in Jobs, PollDone(j) PROVE TypeOK'
  <2>1. inflight' \in [Jobs -> 0 .. MaxPolls]
    BY <1>15, ClientAssumption, SMTT(30) DEF PollDone, TypeOK
  <2>2. pc' \in [Jobs -> Steps] /\ timers' \in SUBSET Jobs /\ timerRef' \in Jobs \cup {NoJob}
    BY <1>15 DEF PollDone, Goto, Steps, TypeOK
  <2>3. HandleResult(j, 0)
    BY <1>15 DEF PollDone
  <2> QED
    BY <1>15, <2>1, <2>2, <2>3, ResultTypes DEF PollDone, TypeOK
<1>16. ASSUME NEW j \in Jobs, ThreadCreated(j) PROVE TypeOK'
  <2>1. /\ pc' \in [Jobs -> Steps] /\ shown' \in Seq(Messages)
        /\ preview' \in SUBSET Jobs /\ isThinking' \in BOOLEAN
    BY <1>16, NoMessages, PostTypes DEF ThreadCreated
  <2>2. thread' \in BOOLEAN /\ emptied' \in SUBSET Jobs
    BY <1>16 DEF ThreadCreated, TypeOK
  <2> QED
    BY <1>16, <2>1, <2>2 DEF ThreadCreated, TypeOK
<1>17. CASE SubmitQuestion
  <2>1. /\ pc' \in [Jobs -> Steps] /\ shown' \in Seq(Messages)
        /\ preview' \in SUBSET Jobs /\ isThinking' \in BOOLEAN
    <3>1. CASE \E j \in Jobs : Post(j, shown)
      BY <1>0, <3>1, PostTypes
    <3>2. CASE UNCHANGED <<pc, shown, preview, isThinking>>
      BY <3>2 DEF TypeOK
    <3> QED
      BY <1>17, <3>1, <3>2 DEF SubmitQuestion
  <2>2. pending' \in BOOLEAN
    BY <1>17 DEF SubmitQuestion
  <2> QED
    BY <1>17, <2>1, <2>2 DEF SubmitQuestion, TypeOK
<1>18. ASSUME NEW j \in Jobs, Send(j) PROVE TypeOK'
  <2>1. /\ pc' \in [Jobs -> Steps] /\ shown' \in Seq(Messages)
        /\ preview' \in SUBSET Jobs /\ isThinking' \in BOOLEAN
    <3>1. CASE Post(j, shown)
      BY <1>0, <3>1, PostTypes
    <3>2. CASE Goto(j, "creating") /\ UNCHANGED <<shown, preview, isThinking>>
      BY <3>2 DEF Goto, Steps, TypeOK
    <3> QED
      BY <1>18, <3>1, <3>2 DEF Send
  <2> QED
    BY <1>18, <2>1 DEF Send, TypeOK
<1>19. CASE Cancel
  <2>1. pc' \in [Jobs -> Steps]
    BY <1>19 DEF Cancel, Steps, TypeOK
  <2>2. shown' \in Seq(Messages)
    BY <1>19, CancelShows, Grown
  <2>3. esRef' = NoJob /\ timerRef' = NoJob /\ timers' \in SUBSET Jobs /\ preview' = {}
    BY <1>19 DEF Cancel, TypeOK
  <2>4. isThinking' \in BOOLEAN /\ cancelled' \in BOOLEAN
    BY <1>19 DEF Cancel, TypeOK
  <2> QED
    BY <1>19, <2>1, <2>2, <2>3, <2>4 DEF Cancel, TypeOK
<1> QED
  BY <1>1, <1>2, <1>3, <1>4, <1>5, <1>6, <1>7, <1>8, <1>9, <1>10, <1>11, <1>12, <1>13, <1>14,
     <1>15, <1>16, <1>17, <1>18, <1>19 DEF Next

-----------------------------------------------------------------------------
(* Polling *)

LEMMA HistoryGrows ==
  [Next]_vars => /\ dropped \subseteq dropped' /\ emptied \subseteq emptied'
                 /\ (cancelled => cancelled')
<1> SUFFICES ASSUME [Next]_vars
             PROVE  /\ dropped \subseteq dropped' /\ emptied \subseteq emptied'
                    /\ (cancelled => cancelled')
  OBVIOUS
<1> USE DEF serverVars, pollVars, history
<1>1. CASE UNCHANGED history
  BY <1>1
<1>2. ASSUME NEW j \in Jobs, ThreadCreated(j) \/ StreamError(j)
      PROVE  /\ dropped \subseteq dropped' /\ emptied \subseteq emptied'
             /\ (cancelled => cancelled')
  BY <1>2 DEF ThreadCreated, StreamError
<1>3. CASE Cancel
  BY <1>3 DEF Cancel
<1>4. ASSUME NEW j \in Jobs,
             \/ Redeliver(j) \/ PushTurn(j) \/ SaveResult(j) \/ Send(j) \/ CreateFails(j)
             \/ PostAccepted(j) \/ SendFails(j) \/ CheckDone(j) \/ Listen(j)
             \/ HearToken(j) \/ HearTurn(j) \/ HearDone(j) \/ FetchDone(j) \/ FetchFails(j)
             \/ PollTick(j) \/ PollNothing(j) \/ PollDone(j)
      PROVE  UNCHANGED history
  BY <1>4 DEF Redeliver, PushTurn, SaveResult, Send, CreateFails, PostAccepted, SendFails,
              CheckDone, Listen, HearToken, HearTurn, HearDone, FetchDone, FetchFails,
              PollTick, PollNothing, PollDone
<1>5. CASE SubmitQuestion \/ UNCHANGED vars
  BY <1>1, <1>5 DEF SubmitQuestion, vars
<1> QED
  BY <1>1, <1>2, <1>3, <1>4, <1>5 DEF Next

LEMMA PollKept == TypeOK /\ PollInv /\ [Next]_vars => PollInv'
<1> SUFFICES ASSUME TypeOK, PollInv, [Next]_vars, NEW j \in Jobs \ dropped'
             PROVE  j \notin timers' /\ inflight'[j] = 0 /\ pc'[j] # "polling"
  BY DEF PollInv
<1> USE DEF serverVars, pollVars, history
<1>1. /\ dropped \subseteq dropped'
      /\ pc \in [Jobs -> Steps] /\ inflight \in [Jobs -> 0 .. MaxPolls]
  BY HistoryGrows DEF TypeOK
<1>2. j \notin timers /\ inflight[j] = 0 /\ pc[j] # "polling"
  BY <1>1 DEF PollInv
<1>3. ASSUME timers' \subseteq timers, inflight' = inflight, pc'[j] # "polling" \/ pc' = pc
      PROVE  j \notin timers' /\ inflight'[j] = 0 /\ pc'[j] # "polling"
  BY <1>2, <1>3
<1>4. CASE UNCHANGED <<pc, pollVars>>
  BY <1>3, <1>4
<1>5. ASSUME NEW k \in Jobs, NEW step \in Steps \ {"polling"}, Goto(k, step), UNCHANGED pollVars
      PROVE  j \notin timers' /\ inflight'[j] = 0 /\ pc'[j] # "polling"
  BY <1>1, <1>2, <1>5 DEF Goto
<1>6. ASSUME NEW k \in Jobs,
             \/ Send(k) \/ ThreadCreated(k) \/ CreateFails(k) \/ PostAccepted(k) \/ SendFails(k)
             \/ CheckDone(k) \/ Listen(k) \/ HearDone(k) \/ FetchDone(k) \/ FetchFails(k)
      PROVE  j \notin timers' /\ inflight'[j] = 0 /\ pc'[j] # "polling"
  <2>1. UNCHANGED pollVars /\ \E step \in Steps \ {"polling"} : Goto(k, step)
    BY <1>6 DEF Send, ThreadCreated, CreateFails, Post, PostAccepted, SendFails, CheckDone,
                Listen, HearDone, FetchDone, FetchFails, Steps
  <2> QED
    BY <1>5, <2>1
<1>7. ASSUME NEW k \in Jobs, StreamError(k)
      PROVE  j \notin timers' /\ inflight'[j] = 0 /\ pc'[j] # "polling"
  BY <1>1, <1>2, <1>7 DEF StreamError, Goto
\* Requests and intervals are those of jobs whose stream broke.
<1>8. ASSUME NEW k \in Jobs, PollTick(k) \/ PollNothing(k) \/ PollDone(k)
      PROVE  j \notin timers' /\ inflight'[j] = 0 /\ pc'[j] # "polling"
  <2>1. k # j
    BY <1>2, <1>8 DEF PollTick, PollNothing, PollDone
  <2> QED
    BY <1>1, <1>2, <1>8, <2>1 DEF PollTick, PollNothing, PollDone, Goto
<1>9. CASE SubmitQuestion
  <2>1. CASE UNCHANGED pc
    BY <1>4, <1>9, <2>1 DEF SubmitQuestion
  <2>2. ASSUME NEW k \in Jobs, Post(k, shown)
        PROVE  j \notin timers' /\ inflight'[j] = 0 /\ pc'[j] # "polling"
    BY <1>5, <1>9, <2>2 DEF SubmitQuestion, Post, Steps
  <2> QED
    BY <1>9, <2>1, <2>2 DEF SubmitQuestion
<1>10. CASE Cancel
  BY <1>1, <1>2, <1>10 DEF Cancel
<1>11. ASSUME NEW k \in Jobs,
              Redeliver(k) \/ PushTurn(k) \/ SaveResult(k) \/ HearToken(k) \/ HearTurn(k)
       PROVE  j \notin timers' /\ inflight'[j] = 0 /\ pc'[j] # "polling"
  BY <1>4, <1>11 DEF Redeliver, PushTurn, SaveResult, HearToken, HearTurn
<1>12. CASE UNCHANGED vars
  BY <1>4, <1>12 DEF vars
<1> QED
  BY <1>6, <1>7, <1>8, <1>9, <1>10, <1>11, <1>12 DEF Next

LEMMA BrokenKept == TypeOK /\ BrokenInv /\ [Next]_vars => BrokenInv'
<1> SUFFICES ASSUME TypeOK, BrokenInv, [Next]_vars, NEW j \in dropped'
             PROVE  pc'[j] \in {"polling", "over"}
  BY DEF BrokenInv
<1> USE DEF serverVars, pollVars, history
<1>1. pc \in [Jobs -> Steps] /\ dropped \subseteq Jobs
  BY DEF TypeOK
<1>2. CASE UNCHANGED <<pc, dropped>>
  BY <1>2 DEF BrokenInv
<1>3. ASSUME NEW k \in Jobs, NEW step, Goto(k, step), dropped' = dropped,
             pc[k] \in Steps \ {"polling", "over"}
      PROVE  pc'[j] \in {"polling", "over"}
  BY <1>1, <1>3 DEF Goto, BrokenInv
<1>4. ASSUME NEW k \in Jobs,
             \/ Send(k) \/ ThreadCreated(k) \/ CreateFails(k) \/ PostAccepted(k) \/ SendFails(k)
             \/ CheckDone(k) \/ Listen(k) \/ HearDone(k) \/ FetchDone(k) \/ FetchFails(k)
      PROVE  pc'[j] \in {"polling", "over"}
  <2>1. /\ dropped' = dropped
        /\ pc[k] \in {"idle", "creating", "posting", "checking", "listening", "fetching"}
        /\ \E step : Goto(k, step)
    BY <1>4 DEF Send, ThreadCreated, CreateFails, Post, PostAccepted, SendFails, CheckDone,
                Listen, HearDone, FetchDone, FetchFails
  <2> QED
    BY <1>3, <2>1 DEF Steps
<1>5. ASSUME NEW k \in Jobs, StreamError(k) PROVE pc'[j] \in {"polling", "over"}
  BY <1>1, <1>5 DEF StreamError, Goto, BrokenInv
<1>6. ASSUME NEW k \in Jobs, PollDone(k) PROVE pc'[j] \in {"polling", "over"}
  BY <1>1, <1>6 DEF PollDone, Goto, BrokenInv
<1>7. CASE Cancel
  BY <1>1, <1>7 DEF Cancel, BrokenInv
<1>8. CASE SubmitQuestion
  <2>1. ASSUME NEW k \in Jobs, pc[k] = "idle", Post(k, shown) PROVE pc'[j] \in {"polling", "over"}
    BY <1>3, <1>8, <2>1 DEF SubmitQuestion, Post, Steps
  <2> QED
    BY <1>2, <1>8, <2>1 DEF SubmitQuestion
<1>9. ASSUME NEW k \in Jobs,
             \/ Redeliver(k) \/ PushTurn(k) \/ SaveResult(k) \/ HearToken(k) \/ HearTurn(k)
             \/ PollTick(k) \/ PollNothing(k)
      PROVE  pc'[j] \in {"polling", "over"}
  BY <1>2, <1>9 DEF Redeliver, PushTurn, SaveResult, HearToken, HearTurn, PollTick, PollNothing
<1>10. CASE UNCHANGED vars
  BY <1>2, <1>10 DEF vars
<1> QED
  BY <1>4, <1>5, <1>6, <1>7, <1>8, <1>9, <1>10 DEF Next

-----------------------------------------------------------------------------
(* The list that the stream of a debate reads *)

LEMMA ListTypes ==
  ASSUME TypeOK, NEW j \in Jobs
  PROVE  /\ turnsOut[j] \in Seq(Outs) /\ Len(turnsOut[j]) \in Nat
         /\ \A i \in 1 .. Len(turnsOut[j]) :
              /\ turnsOut[j][i] \in Outs
              /\ turnsOut[j][i].run \in Nat /\ turnsOut[j][i].turn \in 1 .. Turns
         /\ tries[j] \in Nat /\ pushed[j] \in 0 .. Turns /\ heard[j] \in Nat
         /\ answer[j].run \in Nat
<1>1. turnsOut[j] \in Seq(Outs) /\ answer[j] \in Answers
  BY DEF TypeOK, Outs
<1>2. /\ Len(turnsOut[j]) \in Nat
      /\ \A i \in 1 .. Len(turnsOut[j]) : turnsOut[j][i] \in Outs
  BY <1>1, LenProperties, ElementOfSeq
<1> QED
  BY <1>1, <1>2 DEF TypeOK, Outs, Answers

\* The next turn of the last run.
LEMMA PushKeepsList ==
  ASSUME NEW L \in Seq(Outs), NEW r \in Nat, NEW n \in 0 .. Turns - 1,
         Sorted(L), Contiguous(L), Ending(L, r, n)
  PROVE  LET M == Append(L, [run |-> r, turn |-> n + 1]) IN
           /\ Sorted(M) /\ Contiguous(M) /\ Ending(M, r, n + 1)
           /\ Len(M) = Len(L) + 1
           /\ \A i \in 1 .. Len(L) : M[i] = L[i]
<1> DEFINE e == [run |-> r, turn |-> n + 1]
           M == Append(L, e)
<1>0. Turns \in Nat /\ n \in Nat
  BY ClientAssumption
<1>1. e \in Outs /\ e.run = r /\ e.turn = n + 1
  BY <1>0 DEF Outs
<1>2. /\ Len(L) \in Nat /\ Len(M) = Len(L) + 1 /\ M[Len(M)] = e
      /\ \A i \in 1 .. Len(L) : M[i] = L[i]
  BY <1>1, AppendProperties, LenProperties
<1> HIDE DEF e, M
<1>3. \A i \in 1 .. Len(L) : L[i].run \in Nat /\ L[i].turn \in 1 .. Turns
  <2>1. \A i \in 1 .. Len(L) : L[i] \in Outs
    BY ElementOfSeq
  <2> QED
    BY <2>1 DEF Outs
<1>4. \A i \in 1 .. Len(M) : i \in 1 .. Len(L) \/ i = Len(M)
  BY <1>2
<1>5. Sorted(M)
  <2> SUFFICES ASSUME NEW i \in 1 .. Len(M), NEW k \in 1 .. Len(M), i < k
               PROVE  Before(M[i], M[k])
    BY DEF Sorted
  <2>1. i \in 1 .. Len(L)
    BY <1>2
  <2>2. CASE k \in 1 .. Len(L)
    BY <1>2, <2>1, <2>2 DEF Sorted
  <2>3. CASE k = Len(M)
    <3>1. L[i].run < r \/ (L[i].run = r /\ L[i].turn <= n)
      BY <2>1 DEF Ending
    <3>2. L[i].run < r \/ (L[i].run = r /\ L[i].turn < n + 1)
      BY <1>0, <1>3, <2>1, <3>1
    <3> QED
      BY <1>1, <1>2, <2>1, <2>3, <3>2 DEF Before
  <2> QED
    BY <1>4, <2>2, <2>3
<1>6. Contiguous(M)
  <2> SUFFICES ASSUME NEW i \in 1 .. Len(M), NEW m \in 1 .. M[i].turn
               PROVE  /\ i - M[i].turn + m \in 1 .. i
                      /\ Same(M[i - M[i].turn + m], [run |-> M[i].run, turn |-> m])
    BY DEF Contiguous
  <2>1. CASE i \in 1 .. Len(L)
    <3>1. /\ M[i] = L[i] /\ i - L[i].turn + m \in 1 .. i
          /\ Same(L[i - L[i].turn + m], [run |-> L[i].run, turn |-> m])
      BY <1>2, <2>1 DEF Contiguous
    <3>2. i - L[i].turn + m \in 1 .. Len(L)
      BY <1>2, <2>1, <3>1
    <3> QED
      BY <1>2, <3>1, <3>2
  <2>2. CASE i = Len(M) /\ m = n + 1
    <3>1. i - M[i].turn + m = i /\ i \in 1 .. i
      BY <1>0, <1>1, <1>2, <2>2
    <3> QED
      BY <1>1, <1>2, <2>2, <3>1 DEF Same
  <2>3. CASE i = Len(M) /\ m # n + 1
    <3>1. m \in 1 .. n /\ n > 0 /\ M[i].run = r /\ M[i].turn = n + 1
      BY <1>0, <1>1, <1>2, <2>3
    <3>2. Len(L) \in 1 .. Len(L) /\ L[Len(L)].run = r /\ L[Len(L)].turn = n
      BY <1>2, <3>1 DEF Ending, Same
    <3>3. /\ Len(L) - n + m \in 1 .. Len(L)
          /\ Same(L[Len(L) - n + m], [run |-> r, turn |-> m])
      BY <3>1, <3>2 DEF Contiguous
    <3>4. i - M[i].turn + m = Len(L) - n + m
      BY <1>0, <1>2, <2>3, <3>1
    <3>5. Len(L) - n + m \in 1 .. i
      BY <1>2, <2>3, <3>3
    <3> QED
      BY <1>2, <3>1, <3>3, <3>4, <3>5
  <2> QED
    BY <1>4, <2>1, <2>2, <2>3
<1>7. Ending(M, r, n + 1)
  <2>1. Len(M) > 0 /\ Same(M[Len(M)], [run |-> r, turn |-> n + 1])
    BY <1>1, <1>2 DEF Same
  <2>2. ASSUME NEW i \in 1 .. Len(M)
        PROVE  M[i].run < r \/ (M[i].run = r /\ M[i].turn <= n + 1)
    <3>1. CASE i \in 1 .. Len(L)
      <4>1. L[i].run < r \/ (L[i].run = r /\ L[i].turn <= n)
        BY <3>1 DEF Ending
      <4> QED
        BY <1>0, <1>2, <1>3, <3>1, <4>1
    <3>2. CASE i = Len(M)
      BY <1>0, <1>1, <1>2, <3>2
    <3> QED
      BY <1>4, <3>1, <3>2
  <2> QED
    BY <2>1, <2>2 DEF Ending
<1>8. Sorted(M) /\ Contiguous(M) /\ Ending(M, r, n + 1)
  BY <1>5, <1>6, <1>7
<1> QED
  BY <1>2, <1>8 DEF M, e

LEMMA ListKept ==
  TypeOK /\ ListInv /\ [Next]_vars =>
    /\ ListInv'
    /\ \A j \in Jobs : /\ Len(turnsOut[j]) <= Len(turnsOut'[j])
                       /\ \A i \in 1 .. Len(turnsOut[j]) : turnsOut'[j][i] = turnsOut[j][i]
<1> DEFINE Grows(j) == /\ Len(turnsOut[j]) <= Len(turnsOut'[j])
                       /\ \A i \in 1 .. Len(turnsOut[j]) : turnsOut'[j][i] = turnsOut[j][i]
<1> SUFFICES ASSUME TypeOK, ListInv, [Next]_vars, NEW j \in Jobs
             PROVE  Listed(j)' /\ Grows(j)
  BY DEF ListInv
<1> DEFINE L == turnsOut[j]
<1> USE DEF serverVars, pollVars, history
<1>1. /\ L \in Seq(Outs) /\ Len(L) \in Nat /\ tries[j] \in Nat /\ pushed[j] \in 0 .. Turns
      /\ \A i \in 1 .. Len(L) : L[i].run \in Nat /\ L[i].turn \in 1 .. Turns
      /\ tries \in [Jobs -> Nat \ {0}] /\ pushed \in [Jobs -> 0 .. Turns]
      /\ turnsOut \in [Jobs -> Seq(Outs)] /\ answer \in [Jobs -> Answers]
  BY ListTypes DEF TypeOK, Outs
<1>2. Listed(j) /\ Len(L) <= Len(L)
  BY <1>1 DEF ListInv
<1>3. ASSUME tries'[j] = tries[j], pushed'[j] = pushed[j], turnsOut'[j] = L,
             answer'[j] = answer[j]
      PROVE  Listed(j)' /\ Grows(j)
  BY <1>2, <1>3 DEF Listed
<1>4. CASE UNCHANGED serverVars
  BY <1>3, <1>4
<1>5. ASSUME NEW k \in Jobs, PushTurn(k) PROVE Listed(j)' /\ Grows(j)
  <2>1. CASE k # j
    <3>1. /\ tries' = tries /\ answer' = answer /\ pushed'[j] = pushed[j] /\ turnsOut'[j] = L
      BY <1>1, <1>5, <2>1 DEF PushTurn
    <3> QED
      BY <1>3, <3>1
  <2>2. CASE k = j
    <3> DEFINE M == Append(L, [run |-> tries[j], turn |-> pushed[j] + 1])
    <3>1. /\ tries' = tries /\ answer' = answer /\ pushed'[j] = pushed[j] + 1
          /\ turnsOut'[j] = M /\ pushed[j] < Turns
      BY <1>1, <1>5, <2>2 DEF PushTurn
    <3>2. pushed[j] \in 0 .. Turns - 1
      BY <1>1, <3>1, ClientAssumption
    <3>3. Sorted(L) /\ Contiguous(L) /\ Ending(L, tries[j], pushed[j])
      BY <1>2 DEF Listed
    <3>4. /\ Sorted(M) /\ Contiguous(M) /\ Ending(M, tries[j], pushed[j] + 1)
          /\ Len(M) = Len(L) + 1 /\ \A i \in 1 .. Len(L) : M[i] = L[i]
      BY <1>1, <3>2, <3>3, PushKeepsList
    <3> HIDE DEF M
    <3>5. answer[j].kind = "turns" => HasTurns(M, answer[j].run)
      <4>1. \A i \in 1 .. Len(L) : i \in 1 .. Len(M)
        BY <1>1, <3>4
      <4> QED
        BY <1>2, <3>4, <4>1 DEF Listed, HasTurns
    <3>6. Len(L) <= Len(M)
      BY <1>1, <3>4
    <3> QED
      BY <3>1, <3>4, <3>5, <3>6 DEF Listed
  <2> QED
    BY <2>1, <2>2
<1>6. ASSUME NEW k \in Jobs, SaveResult(k) PROVE Listed(j)' /\ Grows(j)
  <2>0. UNCHANGED <<tries, pushed, turnsOut>>
    BY <1>6 DEF SaveResult
  <2>1. CASE k # j
    <3>1. answer'[j] = answer[j]
      BY <1>1, <1>6, <2>1 DEF SaveResult
    <3> QED
      BY <1>3, <2>0, <3>1
  <2>2. CASE k = j
    <3>1. PICK kind : /\ kind = "turns" => pushed[j] = Turns
                      /\ answer'[j] = [kind |-> kind, run |-> tries[j]]
      BY <1>1, <1>6, <2>2 DEF SaveResult
    \* The last run ends with all its turns, each behind the one before.
    <3>2. ASSUME kind = "turns" PROVE HasTurns(L, tries[j])
      <4> SUFFICES ASSUME NEW n \in 1 .. Turns
                   PROVE  \E i \in 1 .. Len(L) : Same(L[i], [run |-> tries[j], turn |-> n])
        BY DEF HasTurns
      <4>1. pushed[j] = Turns /\ Turns > 0
        BY <3>1, <3>2, ClientAssumption
      <4>2. /\ Len(L) \in 1 .. Len(L) /\ L[Len(L)].run = tries[j] /\ L[Len(L)].turn = Turns
        BY <1>1, <1>2, <4>1 DEF Listed, Ending, Same
      <4>3. /\ Len(L) - Turns + n \in 1 .. Len(L)
            /\ Same(L[Len(L) - Turns + n], [run |-> tries[j], turn |-> n])
        BY <1>2, <4>2 DEF Listed, Contiguous
      <4> QED
        BY <4>3
    <3> QED
      BY <1>2, <2>0, <3>1, <3>2 DEF Listed
  <2> QED
    BY <2>1, <2>2
<1>7. ASSUME NEW k \in Jobs, Redeliver(k) PROVE Listed(j)' /\ Grows(j)
  <2>0. UNCHANGED <<answer, turnsOut>>
    BY <1>7 DEF Redeliver
  <2>1. CASE k # j
    <3>1. tries'[j] = tries[j] /\ pushed'[j] = pushed[j]
      BY <1>1, <1>7, <2>1 DEF Redeliver
    <3> QED
      BY <1>3, <2>0, <3>1
  <2>2. CASE k = j
    <3>1. tries'[j] = tries[j] + 1 /\ pushed'[j] = 0
      BY <1>1, <1>7, <2>2 DEF Redeliver
    <3>2. \A i \in 1 .. Len(L) : L[i].run < tries[j] \/ L[i].run = tries[j]
      BY <1>2 DEF Listed, Ending
    <3>3. ASSUME NEW i \in 1 .. Len(L) PROVE L[i].run < tries[j] + 1
      <4>1. L[i].run \in Nat /\ tries[j] \in Nat
        BY <1>1
      <4>2. L[i].run < tries[j] \/ L[i].run = tries[j]
        BY <3>2
      <4> QED
        BY <4>1, <4>2
    <3>4. Ending(L, tries[j] + 1, 0)
      BY <3>3 DEF Ending
    <3> QED
      BY <1>2, <2>0, <3>1, <3>4 DEF Listed
  <2> QED
    BY <2>1, <2>2
<1>8. ASSUME NEW k \in Jobs,
             \/ Send(k) \/ ThreadCreated(k) \/ CreateFails(k) \/ PostAccepted(k) \/ SendFails(k)
             \/ CheckDone(k) \/ Listen(k) \/ HearToken(k) \/ HearTurn(k) \/ HearDone(k)
             \/ StreamError(k) \/ FetchDone(k) \/ FetchFails(k)
             \/ PollTick(k) \/ PollNothing(k) \/ PollDone(k)
      PROVE  UNCHANGED serverVars
  BY <1>8 DEF Send, ThreadCreated, CreateFails, PostAccepted, SendFails, CheckDone, Listen,
              HearToken, HearTurn, HearDone, StreamError, FetchDone, FetchFails, PollTick,
              PollNothing, PollDone
<1>9. CASE SubmitQuestion \/ Cancel \/ UNCHANGED vars
  BY <1>4, <1>9 DEF SubmitQuestion, Cancel, vars
<1> HIDE DEF Grows
<1> QED
  BY <1>4, <1>5, <1>6, <1>7, <1>8, <1>9 DEF Next

-----------------------------------------------------------------------------
(* What was shown of a job, by how far it is *)

LEMMA HeardKept == TypeOK /\ ListInv /\ HeardInv /\ [Next]_vars => HeardInv'
<1> SUFFICES ASSUME TypeOK, ListInv, HeardInv, [Next]_vars PROVE HeardInv'
  OBVIOUS
<1> USE DEF serverVars, pollVars, history
<1> DEFINE Early == {"idle", "creating", "posting", "checking"}
<1>1. /\ pc \in [Jobs -> Steps] /\ heard \in [Jobs -> Nat]
      /\ \A j \in Jobs : /\ Len(turnsOut[j]) \in Nat /\ Len(turnsOut'[j]) \in Nat
                         /\ Len(turnsOut[j]) <= Len(turnsOut'[j])
  <2>1. TypeOK'
    BY TypesKept
  <2>2. \A j \in Jobs : turnsOut[j] \in Seq(Outs) /\ turnsOut'[j] \in Seq(Outs)
    BY <2>1 DEF TypeOK, Outs
  <2>3. \A j \in Jobs : Len(turnsOut[j]) \in Nat /\ Len(turnsOut'[j]) \in Nat
    BY <2>2, LenProperties
  <2> QED
    BY <2>3, ListKept DEF TypeOK
<1>2. \A j \in Jobs : heard[j] <= Len(turnsOut'[j])
  <2> SUFFICES ASSUME NEW j \in Jobs PROVE heard[j] <= Len(turnsOut'[j])
    OBVIOUS
  <2>1. heard[j] <= Len(turnsOut[j])
    BY DEF HeardInv
  <2> QED
    BY <1>1, <2>1
<1>3. CASE UNCHANGED <<pc, heard, shown, preview>>
  BY <1>2, <1>3 DEF HeardInv
\* A step of a closure that adds messages, none of them of an idle job.
<1>4. ASSUME heard' = heard,
             NEW ms \in Seq(Messages), shown' = shown \o ms,
             \A k \in 1 .. Len(ms) : \A j \in Jobs : pc'[j] \in {"idle", "creating"} =>
                                                       ms[k].job # j,
             \A j \in Jobs : /\ pc'[j] \in {"idle", "creating"} => pc[j] \in {"idle", "creating"}
                             /\ pc'[j] \in Early => pc[j] \in Early,
             preview' \in {preview, {}}
      PROVE  HeardInv'
  <2>1. ASSUME NEW j \in Jobs, pc'[j] \in {"idle", "creating"}, NEW p \in 1 .. Len(shown')
        PROVE  shown'[p].job # j
    <3>1. /\ \A q \in 1 .. Len(shown) : shown'[q] = shown[q]
          /\ \A k \in 1 .. Len(ms) : shown'[Len(shown) + k] = ms[k]
          /\ p \in 1 .. Len(shown) \/ \E k \in 1 .. Len(ms) : p = Len(shown) + k
      BY <1>4, Grown
    <3>2. CASE p \in 1 .. Len(shown)
      BY <1>4, <2>1, <3>1, <3>2 DEF HeardInv
    <3>3. ASSUME NEW k \in 1 .. Len(ms), p = Len(shown) + k PROVE shown'[p].job # j
      BY <1>4, <2>1, <3>1, <3>3
    <3> QED
      BY <3>1, <3>2, <3>3
  <2> QED
    BY <1>2, <1>4, <2>1 DEF HeardInv
\* A step that only moves on.
<1>5. ASSUME NEW j \in Jobs, NEW step \in Steps, Goto(j, step),
             step \in {"idle", "creating"} => pc[j] \in {"idle", "creating"},
             step \in Early => pc[j] \in Early,
             UNCHANGED <<heard, shown, preview>>
      PROVE  HeardInv'
  BY <1>1, <1>2, <1>5 DEF Goto, HeardInv
<1>6. ASSUME NEW j \in Jobs, pc[j] = "idle", Post(j, shown), heard' = heard PROVE HeardInv'
  <2>1. /\ <<Message(j, "user")>> \in Seq(Messages) /\ shown' = shown \o <<Message(j, "user")>>
        /\ \A k \in 1 .. Len(<<Message(j, "user")>>) : <<Message(j, "user")>>[k].job = j
    BY <1>6, MessageTypes, Shows DEF Post, Show
  <2>2. preview' = {} /\ pc' = [pc EXCEPT ![j] = "posting"]
    BY <1>6 DEF Post, Goto
  <2> QED
    BY <1>1, <1>4, <1>6, <2>1, <2>2
<1>7. ASSUME NEW j \in Jobs, SendFails(j) PROVE HeardInv'
  <2>1. /\ <<Message(j, "failed")>> \in Seq(Messages) /\ shown' = shown \o <<Message(j, "failed")>>
        /\ \A k \in 1 .. Len(<<Message(j, "failed")>>) : <<Message(j, "failed")>>[k].job = j
    BY <1>7, MessageTypes, Shows DEF SendFails
  <2>2. pc' = [pc EXCEPT ![j] = "over"] /\ UNCHANGED <<heard, preview>>
    BY <1>7 DEF SendFails, Goto
  <2> QED
    BY <1>1, <1>4, <2>1, <2>2
<1>8. ASSUME NEW j \in Jobs, NEW known \in Nat, HandleResult(j, known), Goto(j, "over"),
             heard' = heard, preview' \in {preview, {}}
      PROVE  HeardInv'
  <2>1. PICK ms \in Seq(Messages) : /\ shown' = shown \o ms
                                    /\ \A k \in 1 .. Len(ms) : ms[k].job = j
    BY <1>8, ResultShown DEF Results
  <2>2. pc' = [pc EXCEPT ![j] = "over"]
    BY <1>8 DEF Goto
  <2> QED
    BY <1>1, <1>4, <1>8, <2>1, <2>2
<1>9. ASSUME NEW j \in Jobs, CheckDone(j) \/ FetchDone(j) \/ PollDone(j) PROVE HeardInv'
  <2>1. 0 \in Nat /\ heard[j] \in Nat
    BY <1>1
  <2> QED
    BY <1>8, <1>9, <2>1 DEF CheckDone, FetchDone, PollDone
<1>10. ASSUME NEW j \in Jobs,
              \/ CreateFails(j) \/ PostAccepted(j) \/ Listen(j) \/ HearDone(j) \/ FetchFails(j)
              \/ StreamError(j)
       PROVE  HeardInv'
  BY <1>5, <1>10 DEF CreateFails, PostAccepted, Listen, HearDone, FetchFails, StreamError, Steps
<1>11. ASSUME NEW j \in Jobs, HearToken(j) PROVE HeardInv'
  BY <1>2, <1>11 DEF HearToken, HeardInv
<1>12. ASSUME NEW j \in Jobs, HearTurn(j) PROVE HeardInv'
  <2>1. PICK m \in Messages : Show(m) /\ m.job = j
    BY <1>12, HeardTurn
  <2>2. /\ pc[j] = "listening" /\ heard' = [heard EXCEPT ![j] = heard[j] + 1]
        /\ turnsOut' = turnsOut /\ UNCHANGED <<pc, preview>>
    BY <1>12 DEF HearTurn
  <2>3. heard[j] + 1 \in 1 .. Len(turnsOut[j])
    BY <1>12, HeardTurn
  <2>4. ASSUME NEW k \in Jobs, pc[k] \in {"idle", "creating"}, NEW p \in 1 .. Len(shown')
        PROVE  shown'[p].job # k
    <3>1. shown \in Seq(Messages) /\ shown' = Append(shown, m) /\ k # j
      BY <2>1, <2>2, <2>4 DEF Show, TypeOK
    <3>2. shown'[p] = m \/ (p \in 1 .. Len(shown) /\ shown'[p] = shown[p])
      BY <2>4, <3>1, AppendProperties
    <3> QED
      BY <2>1, <2>4, <3>1, <3>2 DEF HeardInv
  <2>5. \A k \in Jobs : heard'[k] <= Len(turnsOut'[k])
    BY <1>1, <1>2, <2>2, <2>3
  <2>6. \A k \in Jobs : pc[k] \in Early => k # j /\ heard'[k] = heard[k]
    BY <1>1, <2>2
  <2> QED
    BY <2>2, <2>4, <2>5, <2>6 DEF HeardInv
<1>13. CASE Cancel
  <2>1. PICK ms \in Seq(Messages) :
               /\ shown' = shown \o ms
               /\ \A k \in 1 .. Len(ms) : ms[k].job \in preview
    BY <1>13, CancelShows
  <2>2. \A j \in Jobs : pc'[j] \in {pc[j], "over"}
    BY <1>1, <1>13 DEF Cancel
  <2>3. \A j \in Jobs : pc'[j] \in {"idle", "creating"} => j \notin preview
    BY <2>2 DEF HeardInv
  <2>4. heard' = heard /\ preview' = {}
    BY <1>13 DEF Cancel
  <2> QED
    BY <1>4, <2>1, <2>2, <2>3, <2>4
<1>14. CASE SubmitQuestion
  BY <1>3, <1>6, <1>14 DEF SubmitQuestion
<1>15. ASSUME NEW j \in Jobs, Send(j) PROVE HeardInv'
  <2>1. CASE Post(j, shown)
    BY <1>6, <1>15, <2>1 DEF Send
  <2>2. CASE Goto(j, "creating") /\ UNCHANGED <<shown, preview>>
    BY <1>5, <1>15, <2>2 DEF Send, Steps
  <2> QED
    BY <1>15, <2>1, <2>2 DEF Send
\* Nothing is left of the messages of before.
<1>16. ASSUME NEW j \in Jobs, ThreadCreated(j) PROVE HeardInv'
  <2>1. \A p \in 1 .. Len(shown') : shown'[p].job = j
    BY <1>16, Starts DEF ThreadCreated
  <2>2. pc[j] = "creating" /\ pc' = [pc EXCEPT ![j] = "posting"] /\ preview' = {} /\ heard' = heard
    BY <1>16 DEF ThreadCreated, Post, Goto
  <2>3. \A k \in Jobs : /\ pc'[k] \in {"idle", "creating"} => k # j
                        /\ pc'[k] \in Early => pc[k] \in Early
    BY <1>1, <2>2
  <2> QED
    BY <1>2, <2>1, <2>2, <2>3 DEF HeardInv
<1>17. ASSUME NEW j \in Jobs,
              Redeliver(j) \/ PushTurn(j) \/ SaveResult(j) \/ PollTick(j) \/ PollNothing(j)
       PROVE  HeardInv'
  BY <1>3, <1>17 DEF Redeliver, PushTurn, SaveResult, PollTick, PollNothing
<1>18. CASE UNCHANGED vars
  BY <1>3, <1>18 DEF vars
<1> QED
  BY <1>7, <1>9, <1>10, <1>11, <1>12, <1>13, <1>14, <1>15, <1>16, <1>17, <1>18 DEF Next

-----------------------------------------------------------------------------
(* The turns of a debate *)

\* Messages that are no turns of a job leave its turns alone.
LEMMA TurnsStay ==
  ASSUME TypeOK, NEW j, NEW ms \in Seq(Messages), shown' = shown \o ms,
         \A k \in 1 .. Len(ms) : ~(ms[k].job = j /\ ms[k].kind = "turn")
  PROVE  /\ TurnsShown(j)' = TurnsShown(j)
         /\ \A p \in TurnsShown(j) : shown'[p] = shown[p]
<1>1. /\ Len(shown) \in Nat /\ Len(shown') \in Nat /\ Len(shown) <= Len(shown')
      /\ \A p \in 1 .. Len(shown) : shown'[p] = shown[p]
      /\ \A k \in 1 .. Len(ms) : shown'[Len(shown) + k] = ms[k]
      /\ \A p \in 1 .. Len(shown') :
           p \in 1 .. Len(shown) \/ \E k \in 1 .. Len(ms) : p = Len(shown) + k
  <2>1. /\ Len(shown) \in Nat /\ Len(ms) \in Nat /\ Len(shown') = Len(shown) + Len(ms)
        /\ \A p \in 1 .. Len(shown) : shown'[p] = shown[p]
        /\ \A k \in 1 .. Len(ms) : shown'[Len(shown) + k] = ms[k]
        /\ \A p \in 1 .. Len(shown') :
             p \in 1 .. Len(shown) \/ \E k \in 1 .. Len(ms) : p = Len(shown) + k
    BY Grown
  <2>2. Len(shown') \in Nat /\ Len(shown) <= Len(shown')
    BY <2>1
  <2> QED
    BY <2>1, <2>2
<1>2. TurnsShown(j)' = TurnsShown(j)
  BY <1>1, SMTT(30) DEF TurnsShown
<1>3. \A p \in TurnsShown(j) : shown'[p] = shown[p]
  BY <1>1 DEF TurnsShown
<1> QED
  BY <1>2, <1>3

\* Messages behind those shown are the new turns of a job, and leave its turns in order.
Follow(j, ms) ==
  /\ Ordered(j)'
  /\ \A p \in TurnsShown(j) : p \in TurnsShown(j)' /\ shown'[p] = shown[p]
  /\ \A k \in 1 .. Len(ms) :
       Len(shown) + k \in TurnsShown(j)' /\ shown'[Len(shown) + k] = ms[k]
  /\ \A p \in TurnsShown(j)' :
       p \in TurnsShown(j) \/ \E k \in 1 .. Len(ms) : p = Len(shown) + k

\* Turns of a job that follow those shown, each behind all before it.
LEMMA TurnsFollow ==
  ASSUME TypeOK, NEW j, NEW ms \in Seq(Messages), shown' = shown \o ms,
         \A k \in 1 .. Len(ms) : ms[k].job = j /\ ms[k].kind = "turn",
         Ordered(j),
         \A k, l \in 1 .. Len(ms) : k < l => Before(ms[k], ms[l]),
         \A p \in TurnsShown(j) : \A k \in 1 .. Len(ms) : Before(shown[p], ms[k])
  PROVE  Follow(j, ms)
<1>1. /\ Len(shown) \in Nat /\ Len(ms) \in Nat /\ Len(shown') = Len(shown) + Len(ms)
      /\ \A p \in 1 .. Len(shown) : shown'[p] = shown[p]
      /\ \A k \in 1 .. Len(ms) : shown'[Len(shown) + k] = ms[k]
      /\ \A p \in 1 .. Len(shown') :
           p \in 1 .. Len(shown) \/ \E k \in 1 .. Len(ms) : p = Len(shown) + k
  BY Grown
<1>2. \A p \in TurnsShown(j) : p \in 1 .. Len(shown) /\ shown[p].job = j /\ shown[p].kind = "turn"
  BY DEF TurnsShown
<1>3. ASSUME NEW p \in TurnsShown(j) PROVE p \in TurnsShown(j)' /\ shown'[p] = shown[p]
  <2>1. p \in 1 .. Len(shown') /\ shown'[p] = shown[p]
    BY <1>1, <1>2
  <2> QED
    BY <1>2, <2>1 DEF TurnsShown
<1>4. ASSUME NEW k \in 1 .. Len(ms)
      PROVE  Len(shown) + k \in TurnsShown(j)' /\ shown'[Len(shown) + k] = ms[k]
  <2>1. Len(shown) + k \in 1 .. Len(shown') /\ shown'[Len(shown) + k] = ms[k]
    BY <1>1
  <2> QED
    BY <2>1 DEF TurnsShown
<1>5. ASSUME NEW p \in TurnsShown(j)', p \notin TurnsShown(j)
      PROVE  \E k \in 1 .. Len(ms) : p = Len(shown) + k
  <2>1. p \in 1 .. Len(shown') /\ shown'[p].job = j /\ shown'[p].kind = "turn"
    BY DEF TurnsShown
  <2>2. p \notin 1 .. Len(shown)
    BY <1>1, <1>5, <2>1 DEF TurnsShown
  <2> QED
    BY <1>1, <2>1, <2>2
<1>6. ASSUME NEW p \in TurnsShown(j)', NEW q \in TurnsShown(j)', p < q
      PROVE  Before(shown'[p], shown'[q])
  <2>1. CASE q \in TurnsShown(j)
    <3>1. p \in TurnsShown(j)
      BY <1>1, <1>2, <1>5, <1>6, <2>1
    <3> QED
      BY <1>3, <1>6, <2>1, <3>1 DEF Ordered
  <2>2. CASE p \in TurnsShown(j) /\ q \notin TurnsShown(j)
    BY <1>3, <1>4, <1>5, <2>2
  <2>3. CASE p \notin TurnsShown(j) /\ q \notin TurnsShown(j)
    <3>1. PICK k \in 1 .. Len(ms) : p = Len(shown) + k
      BY <1>5, <2>3
    <3>2. PICK l \in 1 .. Len(ms) : q = Len(shown) + l
      BY <1>5, <2>3
    <3>3. k < l
      BY <1>1, <1>6, <3>1, <3>2
    <3> QED
      BY <1>4, <3>1, <3>2, <3>3
  <2> QED
    BY <2>1, <2>2, <2>3
<1>7. Ordered(j)'
  BY <1>6 DEF Ordered
<1> QED
  BY <1>3, <1>4, <1>5, <1>7 DEF Follow

\* What holds of a closure's turns as long as neither the transcript nor its count changes.
LEMMA SameTurns ==
  ASSUME NEW j, TurnsShown(j)' = TurnsShown(j), \A p \in TurnsShown(j) : shown'[p] = shown[p],
         heard'[j] = heard[j], \A i \in 1 .. heard[j] : turnsOut'[j][i] = turnsOut[j][i]
  PROVE  /\ Ordered(j) => Ordered(j)'
         /\ From(j) => From(j)'
         /\ All(j) => All(j)'
         /\ Closed(j) => Closed(j)'
         /\ OneRun(j)' => OneRun(j)
<1>1. Ordered(j) => Ordered(j)'
  BY DEF Ordered
<1>2. From(j) => From(j)'
  BY DEF From
<1>3. All(j) => All(j)'
  BY DEF All
<1>4. Closed(j) => Closed(j)'
  BY DEF Closed
<1>5. OneRun(j)' => OneRun(j)
  BY DEF OneRun
<1> QED
  BY <1>1, <1>2, <1>3, <1>4, <1>5

\* Up to where it was heard the list lacks no turn of a run it shows.
LEMMA HeardIsClosed ==
  ASSUME TypeOK, ListInv, HeardInv, NEW j \in Jobs, From(j), All(j)
  PROVE  Closed(j)
<1> DEFINE L == turnsOut[j]
<1>1. Contiguous(L) /\ heard[j] \in Nat /\ Len(L) \in Nat /\ heard[j] <= Len(L)
  BY ListTypes DEF ListInv, Listed, HeardInv
<1> SUFFICES ASSUME NEW p \in TurnsShown(j), NEW n \in 1 .. shown[p].turn
             PROVE  \E q \in TurnsShown(j) : shown[q].run = shown[p].run /\ shown[q].turn = n
  BY DEF Closed
<1>2. PICK i \in 1 .. heard[j] : shown[p].run = L[i].run /\ shown[p].turn = L[i].turn
  BY DEF From, Same
<1>3. i \in 1 .. Len(L)
  BY <1>1
<1>4. /\ i - L[i].turn + n \in 1 .. i
      /\ L[i - L[i].turn + n].run = L[i].run /\ L[i - L[i].turn + n].turn = n
  BY <1>1, <1>2, <1>3 DEF Contiguous, Same
<1>5. i - L[i].turn + n \in 1 .. heard[j]
  BY <1>1, <1>4
<1>6. PICK q \in TurnsShown(j) : Same(shown[q], L[i - L[i].turn + n])
  BY <1>5 DEF All
<1> QED
  BY <1>2, <1>4, <1>6 DEF Same

\* A list that begins with turns of one run begins with its first.
LEMMA OneRunPrefix ==
  ASSUME NEW L \in Seq(Outs), NEW h \in Nat, h <= Len(L), Sorted(L), Contiguous(L),
         NEW r, \A i \in 1 .. h : L[i].run = r
  PROVE  \A i \in 1 .. h : L[i].turn = i
<1> SUFFICES ASSUME NEW i \in 1 .. h PROVE L[i].turn = i
  OBVIOUS
<1> DEFINE t == L[i].turn
<1>1. Len(L) \in Nat /\ i \in 1 .. Len(L)
  BY LenProperties
<1>2. \A k \in 1 .. Len(L) : L[k].run \in Nat /\ L[k].turn \in 1 .. Turns
  <2>1. \A k \in 1 .. Len(L) : L[k] \in Outs
    BY ElementOfSeq
  <2> QED
    BY <2>1 DEF Outs
<1>3. t \in Nat /\ t >= 1 /\ 1 \in 1 .. t
  BY <1>1, <1>2, ClientAssumption
<1>4. i - t + 1 \in 1 .. i /\ L[i - t + 1].run = r /\ L[i - t + 1].turn = 1
  <2>1. i - t + 1 \in 1 .. i /\ L[i - t + 1].run = L[i].run /\ L[i - t + 1].turn = 1
    BY <1>1, <1>3 DEF Contiguous, Same
  <2> QED
    BY <2>1
<1> HIDE DEF t
<1>5. ASSUME t # i PROVE FALSE
  <2>1. i - t \in 1 .. h /\ i - t \in 1 .. Len(L) /\ i - t + 1 \in 1 .. Len(L) /\ i - t < i - t + 1
    BY <1>1, <1>3, <1>4, <1>5
  <2>2. Before(L[i - t], L[i - t + 1]) /\ L[i - t].run = r /\ L[i - t].run \in Nat
        /\ L[i - t].turn \in 1 .. Turns
    BY <1>2, <2>1 DEF Sorted
  <2>3. L[i - t].turn < 1
    BY <1>4, <2>2 DEF Before
  <2> QED
    BY <2>2, <2>3, ClientAssumption
<1> QED
  BY <1>5 DEF t

\* Turns of one run behind as many as were heard come behind all those heard.
LEMMA RestFollows ==
  ASSUME TypeOK, ListInv, HeardInv, NEW j \in Jobs, From(j), Ordered(j),
         NEW r, HasTurns(turnsOut[j], r),
         NEW ms \in Seq(Messages), shown' = shown \o ms,
         \A k \in 1 .. Len(ms) :
           /\ ms[k].job = j /\ ms[k].kind = "turn"
           /\ heard[j] + k \in 1 .. Turns /\ ms[k].run = r /\ ms[k].turn = heard[j] + k
  PROVE  Follow(j, ms)
<1> DEFINE L == turnsOut[j]
           h == heard[j]
<1>1. /\ Sorted(L) /\ Contiguous(L)
      /\ h \in Nat /\ Len(L) \in Nat /\ h <= Len(L)
      /\ \A i \in 1 .. Len(L) : L[i].turn \in 1 .. Turns
  BY ListTypes DEF ListInv, Listed, HeardInv
<1>2. ASSUME NEW k \in 1 .. Len(ms), NEW l \in 1 .. Len(ms), k < l PROVE Before(ms[k], ms[l])
  <2>1. h + k < h + l
    BY <1>1, <1>2
  <2> QED
    BY <2>1 DEF Before
<1>3. ASSUME NEW p \in TurnsShown(j), NEW k \in 1 .. Len(ms) PROVE Before(shown[p], ms[k])
  <2>1. PICK i \in 1 .. h : Same(shown[p], L[i])
    BY DEF From
  <2>2. PICK m \in 1 .. Len(L) : L[m].run = r /\ L[m].turn = h + k
    BY DEF HasTurns, Same
  <2>3. 1 \in 1 .. L[m].turn
    BY <1>1
  <2>4. m - L[m].turn + 1 \in 1 .. m
    BY <1>1, <2>3 DEF Contiguous
  <2>5. i < m /\ i \in 1 .. Len(L)
    BY <1>1, <2>2, <2>4
  <2>6. Before(L[i], L[m])
    BY <1>1, <2>5 DEF Sorted
  <2> QED
    BY <2>1, <2>2, <2>6 DEF Before, Same
<1>4. \A k, l \in 1 .. Len(ms) : k < l => Before(ms[k], ms[l])
  BY <1>2
<1>5. \A p \in TurnsShown(j) : \A k \in 1 .. Len(ms) : Before(shown[p], ms[k])
  BY <1>3
<1>6. \A k \in 1 .. Len(ms) : ms[k].job = j /\ ms[k].kind = "turn"
  OBVIOUS
<1> QED
  BY <1>4, <1>5, <1>6, TurnsFollow

\* So do those that a result adds.
LEMMA ResultFollows ==
  ASSUME TypeOK, ListInv, HeardInv, NEW j \in Jobs, From(j), Ordered(j),
         answer[j].kind = "turns",
         NEW ms \in Results(j, heard[j]), shown' = shown \o ms
  PROVE  Follow(j, ms)
<1> DEFINE r == answer[j].run
<1>1. HasTurns(turnsOut[j], r)
  BY DEF ListInv, Listed
<1>2. /\ ms \in Seq(Messages)
      /\ \A k \in 1 .. Len(ms) :
           /\ ms[k].job = j /\ ms[k].kind = "turn"
           /\ heard[j] + k \in 1 .. Turns /\ ms[k].run = r /\ ms[k].turn = heard[j] + k
  BY DEF Results
<1> HIDE DEF r
<1> QED
  BY <1>1, <1>2, RestFollows

\* Behind turns of its own run alone a result completes them.
LEMMA ResultCompletes ==
  ASSUME TypeOK, ListInv, HeardInv, NEW j \in Jobs, From(j), All(j),
         \A p \in TurnsShown(j) : shown[p].run = answer[j].run
  PROVE  /\ \A p \in TurnsShown(j) : shown[p].turn \in 1 .. heard[j]
         /\ \A n \in 1 .. heard[j] :
              \E q \in TurnsShown(j) : shown[q].run = answer[j].run /\ shown[q].turn = n
<1> DEFINE L == turnsOut[j]
           h == heard[j]
           r == answer[j].run
<1>1. L \in Seq(Outs) /\ Sorted(L) /\ Contiguous(L) /\ h \in Nat /\ h <= Len(L)
  BY ListTypes DEF ListInv, Listed, HeardInv
<1>2. \A i \in 1 .. h : L[i].run = r
  BY DEF All, Same
<1>3. \A i \in 1 .. h : L[i].turn = i
  BY <1>1, <1>2, OneRunPrefix
<1>4. \A p \in TurnsShown(j) : shown[p].turn \in 1 .. h
  BY <1>3 DEF From, Same
<1>5. \A n \in 1 .. h : \E q \in TurnsShown(j) : shown[q].run = r /\ shown[q].turn = n
  BY <1>2, <1>3 DEF All, Same
<1> QED
  BY <1>4, <1>5

\* The closure of a job ends with its result.
LEMMA ResultKept ==
  ASSUME TypeOK, ListInv, HeardInv, [Next]_vars, NEW j \in Jobs, Kept(j),
         HandleResult(j, heard[j]), pc[j] \in {"checking", "fetching"}, pc'[j] = "over",
         heard'[j] = heard[j]
  PROVE  Kept(j)'
<1>1. Ordered(j) /\ From(j) /\ (j \notin emptied' => All(j) /\ Closed(j))
  BY HistoryGrows, HeardIsClosed DEF Kept, Ended
<1>2. heard[j] \in Nat /\ heard[j] <= Len(turnsOut[j]) /\ Len(turnsOut[j]) \in Nat
  BY ListTypes DEF HeardInv
<1>3. PICK ms \in Results(j, heard[j]) : shown' = shown \o ms
  BY <1>2, ResultShown
<1>4. CASE answer[j].kind # "turns"
  <2>1. ms \in Seq(Messages) /\ \A k \in 1 .. Len(ms) : ms[k].kind # "turn"
    BY <1>4 DEF Results
  <2>2. TurnsShown(j)' = TurnsShown(j) /\ \A p \in TurnsShown(j) : shown'[p] = shown[p]
    BY <1>3, <2>1, TurnsStay
  <2>3. Ordered(j)' /\ (j \notin emptied' => Closed(j)')
    BY <1>1, <2>2 DEF Ordered, Closed
  <2> QED
    BY <2>3 DEF Kept, Ended
<1>5. CASE answer[j].kind = "turns"
  <2>1. /\ Ordered(j)'
        /\ \A p \in TurnsShown(j) : p \in TurnsShown(j)' /\ shown'[p] = shown[p]
        /\ \A k \in 1 .. Len(ms) :
             Len(shown) + k \in TurnsShown(j)' /\ shown'[Len(shown) + k] = ms[k]
        /\ \A p \in TurnsShown(j)' :
             p \in TurnsShown(j) \/ \E k \in 1 .. Len(ms) : p = Len(shown) + k
    BY <1>1, <1>3, <1>5, ResultFollows DEF Follow
  <2>2. ASSUME j \notin emptied', OneRun(j)', NEW p \in TurnsShown(j)',
               NEW n \in 1 .. shown'[p].turn
        PROVE  \E q \in TurnsShown(j)' : shown'[q].run = shown'[p].run /\ shown'[q].turn = n
    <3>1. CASE p \in TurnsShown(j)
      BY <1>1, <2>1, <2>2, <3>1 DEF Closed
    <3>2. CASE p \notin TurnsShown(j)
      <4>1. PICK k \in 1 .. Len(ms) : p = Len(shown) + k
        BY <2>1, <3>2
      <4>2. shown'[p].run = answer[j].run /\ shown'[p].turn = heard[j] + k
            /\ heard[j] + k \in 1 .. Turns
        BY <1>5, <2>1, <4>1 DEF Results
      <4>3. CASE n \in heard[j] + 1 .. Turns
        <5>1. n - heard[j] \in 1 .. Len(ms) /\ heard[j] + (n - heard[j]) = n
          BY <1>2, <1>5, <4>3 DEF Results
        <5>2. ms[n - heard[j]].run = answer[j].run /\ ms[n - heard[j]].turn = n
          BY <1>5, <5>1 DEF Results
        <5>3. /\ Len(shown) + (n - heard[j]) \in TurnsShown(j)'
              /\ shown'[Len(shown) + (n - heard[j])] = ms[n - heard[j]]
          BY <2>1, <5>1
        <5> QED
          BY <4>2, <5>2, <5>3
      <4>4. CASE n \notin heard[j] + 1 .. Turns
        <5>1. n \in 1 .. heard[j]
          BY <1>2, <2>2, <4>2, <4>4, ClientAssumption
        <5>2. \A q \in TurnsShown(j) : shown[q].run = answer[j].run
          BY <2>1, <2>2, <4>2 DEF OneRun
        <5>3. PICK q \in TurnsShown(j) : shown[q].run = answer[j].run /\ shown[q].turn = n
          BY <1>1, <2>2, <5>1, <5>2, ResultCompletes
        <5> QED
          BY <2>1, <4>2, <5>3
      <4> QED
        BY <4>3, <4>4
    <3> QED
      BY <3>1, <3>2
  <2>3. j \notin emptied' /\ OneRun(j)' => Closed(j)'
    BY <2>2 DEF Closed
  <2> QED
    BY <2>1, <2>3 DEF Kept, Ended
<1> QED
  BY <1>4, <1>5

\* One more turn of the list.
LEMMA HearTurnKept ==
  ASSUME TypeOK, ListInv, HeardInv, NEW j \in Jobs, Kept(j), HearTurn(j)
  PROVE  Kept(j)'
<1> DEFINE L == turnsOut[j]
           h == heard[j]
<1> USE DEF serverVars, pollVars, history
<1>1. /\ Sorted(L) /\ h \in Nat /\ h + 1 \in 1 .. Len(L) /\ Len(L) \in Nat
  BY ListTypes, HeardTurn DEF ListInv, Listed
<1>2. PICK m \in Messages : /\ Show(m) /\ m.job = j /\ m.kind = "turn"
                            /\ Same(m, L[h + 1])
  BY HeardTurn
<1>3. /\ pc[j] = "listening" /\ pc' = pc /\ heard'[j] = h + 1 /\ turnsOut' = turnsOut
      /\ emptied' = emptied
  BY DEF HearTurn, TypeOK
<1>4. Ordered(j) /\ From(j) /\ (j \notin emptied => All(j))
  BY <1>3 DEF Kept, Ended
<1> DEFINE ms == << m >>
<1>5. /\ ms \in Seq(Messages) /\ shown' = shown \o ms /\ Len(ms) = 1
      /\ \A k \in 1 .. Len(ms) : ms[k] = m
  BY <1>2, Shows
<1> HIDE DEF ms
<1>6. ASSUME NEW p \in TurnsShown(j) PROVE Before(shown[p], m)
  <2>1. PICK i \in 1 .. h : Same(shown[p], L[i])
    BY <1>4 DEF From
  <2>2. i \in 1 .. Len(L) /\ i < h + 1
    BY <1>1
  <2>3. Before(L[i], L[h + 1])
    BY <1>1, <2>2 DEF Sorted
  <2> QED
    BY <1>2, <2>1, <2>3 DEF Before, Same
<1>7. \A k, l \in 1 .. Len(ms) : ~ k < l
  BY <1>5
<1>8. \A k \in 1 .. Len(ms) : ms[k].job = j /\ ms[k].kind = "turn"
  BY <1>2, <1>5
<1>9. \A p \in TurnsShown(j) : \A k \in 1 .. Len(ms) : Before(shown[p], ms[k])
  BY <1>5, <1>6
<1>10. /\ Ordered(j)'
       /\ \A p \in TurnsShown(j) : p \in TurnsShown(j)' /\ shown'[p] = shown[p]
       /\ \A k \in 1 .. Len(ms) :
            Len(shown) + k \in TurnsShown(j)' /\ shown'[Len(shown) + k] = ms[k]
       /\ \A p \in TurnsShown(j)' :
            p \in TurnsShown(j) \/ \E k \in 1 .. Len(ms) : p = Len(shown) + k
  BY <1>4, <1>5, <1>7, <1>8, <1>9, TurnsFollow DEF Follow
<1>11. \A i \in 1 .. h + 1 : i \in 1 .. h \/ i = h + 1
  BY <1>1
<1>12. \A i \in 1 .. h : i \in 1 .. h + 1
  BY <1>1
<1>13. h + 1 \in 1 .. h + 1 /\ 1 \in 1 .. Len(ms)
  BY <1>1, <1>5
<1>14. From(j)'
  <2> SUFFICES ASSUME NEW p \in TurnsShown(j)'
               PROVE  \E i \in 1 .. h + 1 : Same(shown'[p], L[i])
    BY <1>3 DEF From
  <2>1. CASE p \in TurnsShown(j)
    BY <1>4, <1>10, <1>12, <2>1 DEF From
  <2>2. CASE p \notin TurnsShown(j)
    <3>1. shown'[p] = m
      BY <1>5, <1>10, <2>2
    <3> QED
      BY <1>2, <1>13, <3>1
  <2> QED
    BY <2>1, <2>2
<1>15. ASSUME j \notin emptied PROVE All(j)'
  <2> SUFFICES ASSUME NEW i \in 1 .. h + 1
               PROVE  \E p \in TurnsShown(j)' : Same(shown'[p], L[i])
    BY <1>3 DEF All
  <2>1. CASE i \in 1 .. h
    BY <1>4, <1>10, <1>15, <2>1 DEF All
  <2>2. CASE i = h + 1
    <3>1. Len(shown) + 1 \in TurnsShown(j)' /\ shown'[Len(shown) + 1] = m
      BY <1>5, <1>10, <1>13
    <3> QED
      BY <1>2, <2>2, <3>1
  <2> QED
    BY <1>11, <2>1, <2>2
<1> QED
  BY <1>3, <1>10, <1>14, <1>15 DEF Kept, Ended

LEMMA TurnsKept ==
  TypeOK /\ PollInv /\ ListInv /\ HeardInv /\ TurnsInv /\ [Next]_vars => TurnsInv'
<1> SUFFICES ASSUME TypeOK, PollInv, ListInv, HeardInv, TurnsInv, [Next]_vars,
                    NEW j \in Jobs \ dropped'
             PROVE  Kept(j)'
  BY DEF TurnsInv
<1> USE DEF serverVars, pollVars, history
<1>1. /\ pc \in [Jobs -> Steps] /\ heard \in [Jobs -> Nat] /\ shown \in Seq(Messages)
      /\ emptied \subseteq emptied'
  BY HistoryGrows DEF TypeOK
<1>2. j \in Jobs \ dropped /\ Kept(j)
  BY HistoryGrows DEF TurnsInv
\* A closure that only moves on, or shows no turn of this job.
<1>3. ASSUME NEW ms \in Seq(Messages), shown' = shown \o ms,
             \A k \in 1 .. Len(ms) : ~(ms[k].job = j /\ ms[k].kind = "turn"),
             pc'[j] = pc[j] \/ pc[j] \notin Ended, heard'[j] = heard[j]
      PROVE  Kept(j)'
  <2>1. TurnsShown(j)' = TurnsShown(j) /\ \A p \in TurnsShown(j) : shown'[p] = shown[p]
    BY <1>3, TurnsStay
  <2>2. \A i \in 1 .. heard[j] : turnsOut'[j][i] = turnsOut[j][i]
    <3> SUFFICES ASSUME NEW i \in 1 .. heard[j] PROVE turnsOut'[j][i] = turnsOut[j][i]
      OBVIOUS
    <3>1. heard[j] \in Nat /\ Len(turnsOut[j]) \in Nat /\ heard[j] <= Len(turnsOut[j])
      BY <1>2, ListTypes DEF HeardInv
    <3>2. i \in 1 .. Len(turnsOut[j])
      BY <3>1
    <3> QED
      BY <1>2, <3>2, ListKept
  <2>3. /\ Ordered(j) => Ordered(j)'
        /\ From(j) => From(j)'
        /\ All(j) => All(j)'
        /\ Closed(j) => Closed(j)'
        /\ OneRun(j)' => OneRun(j)
    BY <1>3, <2>1, <2>2, SameTurns
  <2>4. pc[j] \notin Ended /\ j \notin emptied => Closed(j)
    BY <1>2, HeardIsClosed DEF Kept
  <2> QED
    BY <1>1, <1>2, <1>3, <2>3, <2>4, Zenon DEF Kept
<1>4. ASSUME UNCHANGED shown, pc'[j] = pc[j] \/ pc[j] \notin Ended, heard'[j] = heard[j]
      PROVE  Kept(j)'
  <2>1. <<>> \in Seq(Messages) /\ shown' = shown \o <<>> /\ \A k \in 1 .. Len(<<>>) : FALSE
    BY <1>1, <1>4, NoMessages, ConcatEmptySeq
  <2> QED
    BY <1>3, <1>4, <2>1
<1>5. ASSUME NEW k \in Jobs, NEW m \in Messages, m.kind # "turn", Show(m), heard' = heard,
             NEW step, Goto(k, step), pc[k] \notin Ended
      PROVE  Kept(j)'
  <2>1. pc'[j] = pc[j] \/ pc[j] \notin Ended
    BY <1>1, <1>5 DEF Goto
  <2> QED
    BY <1>3, <1>5, <2>1, Shows
<1>6. ASSUME NEW k \in Jobs, pc[k] = "idle", Post(k, shown), heard' = heard PROVE Kept(j)'
  <2>1. Message(k, "user") \in Messages /\ Message(k, "user").kind # "turn"
    BY MessageTypes
  <2>2. Show(Message(k, "user")) /\ Goto(k, "posting")
    BY <1>6 DEF Post, Show
  <2> QED
    BY <1>5, <1>6, <2>1, <2>2 DEF Ended
<1>7. ASSUME NEW k \in Jobs, SendFails(k) PROVE Kept(j)'
  <2>1. Message(k, "failed") \in Messages /\ Message(k, "failed").kind # "turn"
    BY MessageTypes
  <2>2. /\ Show(Message(k, "failed")) /\ Goto(k, "over") /\ heard' = heard
        /\ pc[k] \notin Ended
    BY <1>7 DEF SendFails, Ended
  <2> QED
    BY <1>5, <2>1, <2>2
<1>8. ASSUME NEW k \in Jobs \ {j}, NEW known \in Nat, HandleResult(k, known),
             Goto(k, "over"), heard' = heard
      PROVE  Kept(j)'
  <2>1. PICK ms \in Seq(Messages) : /\ shown' = shown \o ms
                                    /\ \A i \in 1 .. Len(ms) : ms[i].job = k
    BY <1>8, ResultShown DEF Results
  <2>2. pc'[j] = pc[j]
    BY <1>1, <1>8 DEF Goto
  <2> QED
    BY <1>3, <1>8, <2>1, <2>2
<1>9. ASSUME NEW k \in Jobs, CheckDone(k) \/ FetchDone(k) PROVE Kept(j)'
  <2>1. heard[k] \in Nat /\ HandleResult(k, heard[k]) /\ Goto(k, "over") /\ heard' = heard
        /\ pc[k] \in {"checking", "fetching"}
    BY <1>1, <1>9 DEF CheckDone, FetchDone, HeardInv
  <2>2. CASE k = j
    <3>1. pc'[j] = "over"
      BY <1>1, <2>1, <2>2 DEF Goto
    <3> QED
      BY <1>2, <2>1, <2>2, <3>1, ResultKept
  <2> QED
    BY <1>8, <2>1, <2>2
<1>10. ASSUME NEW k \in Jobs, PollDone(k) PROVE Kept(j)'
  <2>1. 0 \in Nat /\ HandleResult(k, 0) /\ Goto(k, "over") /\ heard' = heard
    BY <1>10 DEF PollDone
  <2>2. k # j
    BY <1>2, <1>10 DEF PollDone, PollInv
  <2> QED
    BY <1>8, <2>1, <2>2
<1>11. ASSUME NEW k \in Jobs, HearTurn(k) PROVE Kept(j)'
  <2>1. CASE k # j
    <3>1. PICK m \in Messages : Show(m) /\ m.job = k
      BY <1>11, HeardTurn
    <3>2. pc' = pc /\ heard'[j] = heard[j]
      BY <1>1, <1>11, <2>1 DEF HearTurn
    <3> QED
      BY <1>3, <2>1, <3>1, <3>2, Shows
  <2> QED
    BY <1>2, <1>11, <2>1, HearTurnKept
\* No turn is left, and whoever heard one is not asked for it.
<1>12. ASSUME NEW k \in Jobs, ThreadCreated(k) PROVE Kept(j)'
  <2>1. Post(k, <<>>) /\ heard' = heard /\ pc[k] = "creating"
        /\ emptied' = emptied \cup {i \in Jobs : Active(i)}
    BY <1>12 DEF ThreadCreated
  <2>2. \A p \in 1 .. Len(shown') : shown'[p].kind = "user"
    BY <2>1, Starts
  <2>3. TurnsShown(j)' = {}
    BY <2>2 DEF TurnsShown
  <2>4. pc' = [pc EXCEPT ![k] = "posting"]
    BY <2>1 DEF Post, Goto
  <2>5. ASSUME pc'[j] \notin Ended, j \notin emptied' PROVE heard'[j] = 0
    <3>1. ~ Active(j)
      BY <2>1, <2>5
    <3>2. pc[j] \notin Ended
      BY <1>1, <2>1, <2>4, <2>5 DEF Ended
    <3>3. pc[j] \in {"idle", "creating"}
      BY <1>1, <3>1, <3>2 DEF Active, Ended, Steps
    <3> QED
      BY <2>1, <3>3 DEF HeardInv
  <2>6. Ordered(j)' /\ From(j)' /\ Closed(j)'
    BY <2>3 DEF Ordered, From, Closed
  <2>7. heard'[j] = 0 => All(j)'
    <3>1. 1 .. 0 = {}
      OBVIOUS
    <3> QED
      BY <3>1 DEF All
  <2> QED
    BY <2>5, <2>6, <2>7 DEF Kept
<1>13. CASE Cancel
  <2>1. PICK ms \in Seq(Messages) :
               shown' = shown \o ms /\ \A k \in 1 .. Len(ms) : ms[k].kind # "turn"
    BY <1>13, CancelShows
  <2>2. (pc'[j] = pc[j] \/ pc[j] \notin Ended) /\ heard' = heard
    BY <1>1, <1>13 DEF Cancel, Ended
  <2> QED
    BY <1>3, <2>1, <2>2
<1>14. ASSUME NEW k \in Jobs,
              \/ CreateFails(k) \/ PostAccepted(k) \/ Listen(k) \/ HearDone(k) \/ FetchFails(k)
              \/ StreamError(k)
       PROVE  Kept(j)'
  <2>1. /\ UNCHANGED <<shown, heard>> /\ pc[k] \notin Ended /\ \E step : Goto(k, step)
    BY <1>14 DEF CreateFails, PostAccepted, Listen, HearDone, FetchFails, StreamError, Ended
  <2>2. pc'[j] = pc[j] \/ pc[j] \notin Ended
    BY <1>1, <2>1 DEF Goto
  <2> QED
    BY <1>4, <2>1, <2>2
<1>15. CASE UNCHANGED <<pc, heard, shown>>
  BY <1>4, <1>15
<1>16. ASSUME NEW k \in Jobs,
              \/ Redeliver(k) \/ PushTurn(k) \/ SaveResult(k) \/ HearToken(k)
              \/ PollTick(k) \/ PollNothing(k)
       PROVE  UNCHANGED <<pc, heard, shown>>
  BY <1>16 DEF Redeliver, PushTurn, SaveResult, HearToken, PollTick, PollNothing
<1>17. CASE SubmitQuestion
  BY <1>6, <1>15, <1>17 DEF SubmitQuestion
<1>18. ASSUME NEW k \in Jobs, Send(k) PROVE Kept(j)'
  <2>1. CASE Post(k, shown)
    BY <1>6, <1>18, <2>1 DEF Send
  <2>2. CASE Goto(k, "creating") /\ UNCHANGED shown
    <3>1. (pc'[j] = pc[j] \/ pc[j] \notin Ended) /\ heard' = heard
      BY <1>1, <1>18, <2>2 DEF Send, Goto, Ended
    <3> QED
      BY <1>4, <2>2, <3>1
  <2> QED
    BY <1>18, <2>1, <2>2 DEF Send
<1>19. CASE UNCHANGED vars
  BY <1>15, <1>19 DEF vars
<1> QED
  BY <1>7, <1>9, <1>10, <1>11, <1>12, <1>13, <1>14, <1>15, <1>16, <1>17, <1>18, <1>19 DEF Next

-----------------------------------------------------------------------------
(* One job at a time *)

LEMMA LastKept == TypeOK /\ PollInv /\ HeardInv /\ LastInv /\ [Next]_vars => LastInv'
<1> SUFFICES ASSUME TypeOK, PollInv, HeardInv, LastInv, [Next]_vars,
                    Undisturbed', NEW j \in Jobs, Current(j)'
             PROVE  isThinking' /\ shown' # <<>> /\ shown'[Len(shown')].job = j
  BY DEF LastInv
<1> DEFINE Goal == isThinking' /\ shown' # <<>> /\ shown'[Len(shown')].job = j
<1> USE DEF serverVars, pollVars, history
<1>1. pc \in [Jobs -> Steps] /\ shown \in Seq(Messages) /\ preview \in SUBSET Jobs
  BY DEF TypeOK
<1>2. Undisturbed /\ ~ cancelled' /\ dropped' = {} /\ emptied' = {}
  BY HistoryGrows DEF Undisturbed
<1>3. \A k \in Jobs : Current(k) => isThinking /\ shown # <<>> /\ shown[Len(shown)].job = k
  BY <1>2 DEF LastInv
<1>4. \A k \in Jobs : Current(k) /\ Current(j) => k = j
  BY <1>3
<1>5. CASE Current(j) /\ UNCHANGED <<isThinking, shown>>
  BY <1>3, <1>5
<1>6. CASE UNCHANGED <<pc, preview, isThinking, shown>>
  BY <1>5, <1>6 DEF Current, Active
\* A new thread has only the message it was made for.
<1>7. ASSUME NEW k \in Jobs, NEW before, Post(k, before),
             shown' # <<>>, shown'[Len(shown')].job = k,
             \A i \in Jobs : ~ Active(i)
      PROVE  Goal
  <2>1. preview' = {} /\ isThinking' /\ pc' = [pc EXCEPT ![k] = "posting"]
    BY <1>7 DEF Post, Goto
  <2>2. j = k
    BY <1>1, <1>7, <2>1 DEF Current, Active
  <2> QED
    BY <1>7, <2>1, <2>2
<1>8. ASSUME NEW k \in Jobs, ~ isThinking, Post(k, shown) PROVE Goal
  <2>1. Message(k, "user") \in Messages /\ Message(k, "user").job = k /\ Show(Message(k, "user"))
    BY <1>8, MessageTypes DEF Post, Show
  <2>2. shown' # <<>> /\ shown'[Len(shown')].job = k
    BY <2>1, Shows
  <2>3. \A i \in Jobs : ~ Active(i)
    BY <1>3, <1>8 DEF Current
  <2> QED
    BY <1>7, <1>8, <2>2, <2>3
<1>9. ASSUME NEW k \in Jobs, ThreadCreated(k) PROVE Goal
  <2>1. Post(k, <<>>) /\ shown' # <<>> /\ shown'[Len(shown')].job = k
    BY <1>9, Starts DEF ThreadCreated
  <2>2. \A i \in Jobs : ~ Active(i)
    BY <1>2, <1>9 DEF ThreadCreated
  <2> QED
    BY <1>7, <2>1, <2>2
\* The one job that worked has ended.
<1>10. ASSUME NEW k \in Jobs, Current(k), Goto(k, "over"),
              k \notin preview', preview' \subseteq preview
       PROVE  FALSE
  <2>1. j # k /\ Current(j)
    BY <1>1, <1>10 DEF Goto, Active, Current
  <2> QED
    BY <1>4, <1>10, <2>1
<1>11. ASSUME NEW k \in Jobs, SendFails(k) \/ CheckDone(k) PROVE FALSE
  <2>1. pc[k] \in {"posting", "checking"} /\ preview' = preview /\ Goto(k, "over")
    BY <1>11 DEF SendFails, CheckDone
  <2>2. Current(k) /\ k \notin preview
    BY <2>1 DEF HeardInv, Current, Active
  <2> QED
    BY <1>10, <2>1, <2>2
<1>12. ASSUME NEW k \in Jobs, FetchDone(k) PROVE FALSE
  <2>1. pc[k] = "fetching" /\ preview' = {} /\ Goto(k, "over")
    BY <1>12 DEF FetchDone
  <2>2. Current(k)
    BY <2>1 DEF Current, Active
  <2> QED
    BY <1>10, <2>1, <2>2
<1>13. ASSUME NEW k \in Jobs, NEW step, Goto(k, step), Active(k) \/ step \in {"creating", "idle"},
              UNCHANGED <<preview, isThinking, shown>>
       PROVE  Goal
  <2>1. Current(j)
    BY <1>1, <1>13 DEF Current, Active, Goto
  <2> QED
    BY <1>5, <1>13, <2>1
<1>14. ASSUME NEW k \in Jobs,
              \/ CreateFails(k) \/ PostAccepted(k) \/ Listen(k) \/ HearDone(k) \/ FetchFails(k)
       PROVE  Goal
  <2>1. /\ \E step : Goto(k, step) /\ (Active(k) \/ step \in {"creating", "idle"})
        /\ UNCHANGED <<preview, isThinking, shown>>
    BY <1>14 DEF CreateFails, PostAccepted, Listen, HearDone, FetchFails, Active
  <2> QED
    BY <1>13, <2>1
<1>15. ASSUME NEW k \in Jobs, HearToken(k) PROVE Goal
  <2>1. pc[k] = "listening" /\ preview' = preview \cup {k} /\ UNCHANGED <<pc, isThinking, shown>>
    BY <1>15 DEF HearToken
  <2>2. Current(j)
    BY <2>1 DEF Current, Active
  <2> QED
    BY <1>5, <2>1, <2>2
<1>16. ASSUME NEW k \in Jobs, HearTurn(k) PROVE Goal
  <2>1. pc[k] = "listening" /\ UNCHANGED <<pc, preview, isThinking>>
    BY <1>16 DEF HearTurn
  <2>2. PICK m \in Messages : Show(m) /\ m.job = k
    BY <1>16, HeardTurn
  <2>3. shown' # <<>> /\ shown'[Len(shown')].job = k
    BY <2>2, Shows
  <2>4. Current(j) /\ Current(k)
    BY <2>1 DEF Current, Active
  <2> QED
    BY <1>3, <1>4, <2>1, <2>3, <2>4
<1>17. ASSUME NEW k \in Jobs, StreamError(k) \/ PollDone(k) PROVE FALSE
  BY <1>2, <1>17 DEF StreamError, PollDone, PollInv, Undisturbed
\* Whoever still worked has been cancelled.
<1>18. ASSUME Cancel PROVE Goal
  <2>1. preview' = {} /\ \A k \in Jobs : ~Active(k)
    BY <1>2, <1>18 DEF Cancel
  <2>2. pc'[j] \in {pc[j], "over"}
    BY <1>1, <1>18 DEF Cancel
  <2> QED
    BY <2>1, <2>2 DEF Active, Current
<1>19. ASSUME SubmitQuestion PROVE Goal
  BY <1>6, <1>8, <1>19 DEF SubmitQuestion
<1>20. ASSUME NEW k \in Jobs, Send(k) PROVE Goal
  BY <1>8, <1>13, <1>20 DEF Send
<1>21. ASSUME NEW k \in Jobs,
              Redeliver(k) \/ PushTurn(k) \/ SaveResult(k) \/ PollTick(k) \/ PollNothing(k)
       PROVE  Goal
  BY <1>6, <1>21 DEF Redeliver, PushTurn, SaveResult, PollTick, PollNothing
<1>22. ASSUME UNCHANGED vars PROVE Goal
  BY <1>6, <1>22 DEF vars
<1> HIDE DEF Goal
<1>23. Goal
  BY <1>9, <1>11, <1>12, <1>14, <1>15, <1>16, <1>17, <1>18, <1>19, <1>20, <1>21, <1>22 DEF Next
<1> QED
  BY <1>23 DEF Goal

Unmixed ==
  \A a, b, c \in 1 .. Len(shown) :
    a < b /\ b < c /\ shown[a].job = shown[c].job => shown[b].job = shown[a].job

\* Messages behind those of their job, or the first of their job, mix with no others.
LEMMA UnmixedGrows ==
  ASSUME TypeOK, Unmixed, NEW ms \in Seq(Messages), shown' = shown \o ms,
         NEW j, \A k \in 1 .. Len(ms) : ms[k].job = j,
         \/ shown # <<>> /\ shown[Len(shown)].job = j
         \/ \A p \in 1 .. Len(shown) : shown[p].job # j
  PROVE  Unmixed'
<1>1. /\ Len(shown) \in Nat /\ Len(shown') \in Nat
      /\ \A p \in 1 .. Len(shown) : shown'[p] = shown[p]
      /\ \A p \in 1 .. Len(shown') \ (1 .. Len(shown)) : shown'[p].job = j
  BY Grown
<1> SUFFICES ASSUME NEW a \in 1 .. Len(shown'), NEW b \in 1 .. Len(shown'),
                    NEW c \in 1 .. Len(shown'),
                    a < b, b < c, shown'[a].job = shown'[c].job
             PROVE  shown'[b].job = shown'[a].job
  BY DEF Unmixed
<1>2. CASE c <= Len(shown)
  <2>1. a \in 1 .. Len(shown) /\ b \in 1 .. Len(shown) /\ c \in 1 .. Len(shown)
    BY <1>1, <1>2
  <2> QED
    BY <1>1, <2>1 DEF Unmixed
<1>3. CASE b > Len(shown)
  BY <1>1, <1>3
<1>4. CASE b <= Len(shown) /\ c > Len(shown)
  <2>1. a \in 1 .. Len(shown) /\ b \in 1 .. Len(shown) /\ Len(shown) \in 1 .. Len(shown)
    BY <1>1, <1>4
  <2>2. shown'[c].job = j /\ shown[a].job = j
    BY <1>1, <1>4, <2>1
  <2>3. shown[Len(shown)].job = j
    BY <2>1, <2>2
  <2>4. CASE b = Len(shown)
    BY <1>1, <2>1, <2>2, <2>3, <2>4
  <2>5. CASE b < Len(shown)
    BY <1>1, <2>1, <2>2, <2>3, <2>5 DEF Unmixed
  <2> QED
    BY <1>1, <1>4, <2>4, <2>5
<1> QED
  BY <1>1, <1>2, <1>3, <1>4

LEMMA UnmixedKept ==
  TypeOK /\ PollInv /\ HeardInv /\ LastInv /\ TranscriptUnmixed /\ [Next]_vars => TranscriptUnmixed'
<1> SUFFICES ASSUME TypeOK, PollInv, HeardInv, LastInv, TranscriptUnmixed, [Next]_vars,
                    Undisturbed'
             PROVE  Unmixed'
  BY DEF TranscriptUnmixed, Unmixed, Undisturbed
<1> USE DEF serverVars, pollVars, history
<1>1. shown \in Seq(Messages)
  BY DEF TypeOK
<1>2. Undisturbed /\ dropped' = {}
  BY HistoryGrows DEF Undisturbed
<1>3. Unmixed /\ \A k \in Jobs : Current(k) => shown # <<>> /\ shown[Len(shown)].job = k
  BY <1>2 DEF LastInv, TranscriptUnmixed, Unmixed, Undisturbed
<1>4. CASE UNCHANGED shown
  BY <1>3, <1>4 DEF Unmixed
<1>5. ASSUME NEW k \in Jobs, NEW ms \in Seq(Messages), shown' = shown \o ms,
             \A i \in 1 .. Len(ms) : ms[i].job = k, Current(k) \/ pc[k] = "idle"
      PROVE  Unmixed'
  BY <1>3, <1>5, UnmixedGrows DEF HeardInv
<1>6. ASSUME NEW k \in Jobs, NEW m \in Messages, Show(m), m.job = k, Current(k) \/ pc[k] = "idle"
      PROVE  Unmixed'
  BY <1>5, <1>6, Shows
<1>7. ASSUME NEW k \in Jobs, pc[k] = "idle", Post(k, shown) PROVE Unmixed'
  <2>1. Message(k, "user") \in Messages /\ Message(k, "user").job = k /\ Show(Message(k, "user"))
    BY <1>7, MessageTypes DEF Post, Show
  <2> QED
    BY <1>6, <1>7, <2>1
<1>8. ASSUME NEW k \in Jobs, SendFails(k) \/ HearTurn(k) PROVE Unmixed'
  <2>1. Current(k)
    BY <1>8 DEF SendFails, HearTurn, Current, Active
  <2>2. \E m \in Messages : Show(m) /\ m.job = k
    BY <1>8, HeardTurn, MessageTypes DEF SendFails
  <2> QED
    BY <1>6, <2>1, <2>2
<1>9. ASSUME NEW k \in Jobs, CheckDone(k) \/ FetchDone(k) PROVE Unmixed'
  <2>1. 0 \in Nat /\ heard[k] \in Nat
    BY DEF TypeOK
  <2>2. PICK known \in Nat : HandleResult(k, known)
    BY <1>9, <2>1 DEF CheckDone, FetchDone
  <2>3. PICK ms \in Seq(Messages) : /\ shown' = shown \o ms
                                    /\ \A i \in 1 .. Len(ms) : ms[i].job = k
    BY <2>2, ResultShown DEF Results
  <2>4. Current(k)
    BY <1>9 DEF CheckDone, FetchDone, Current, Active
  <2> QED
    BY <1>5, <2>3, <2>4
<1>10. ASSUME NEW k \in Jobs, StreamError(k) \/ PollDone(k) PROVE FALSE
  BY <1>2, <1>10 DEF StreamError, PollDone, PollInv, Undisturbed
\* The transcript of a new thread begins with one message.
<1>11. ASSUME NEW k \in Jobs, ThreadCreated(k) PROVE Unmixed'
  <2>1. \A p \in 1 .. Len(shown') : shown'[p].job = k
    BY <1>11, Starts DEF ThreadCreated
  <2> QED
    BY <2>1 DEF Unmixed
\* The tokens on the screen are of the last job, and so is the message made of them.
<1>12. CASE Cancel
  <2>1. CASE preview = {}
    <3>1. shown' = shown \o <<>>
      BY <1>12, <2>1 DEF Cancel
    <3> QED
      BY <1>1, <1>4, <3>1, ConcatEmptySeq
  <2>2. CASE preview # {}
    <3>1. PICK k \in preview : k \in Jobs
      BY <2>2 DEF TypeOK
    <3>2. \A i \in preview : i = k
      BY <1>3, <3>1 DEF TypeOK, Current
    <3>3. PICK ms \in Seq(Messages) : /\ shown' = shown \o ms
                                      /\ \A i \in 1 .. Len(ms) : ms[i].job \in preview
      BY <1>12, CancelShows
    <3> QED
      BY <1>5, <3>1, <3>2, <3>3 DEF Current
  <2> QED
    BY <2>1, <2>2
<1>13. CASE SubmitQuestion
  BY <1>4, <1>7, <1>13 DEF SubmitQuestion
<1>14. ASSUME NEW k \in Jobs, Send(k) PROVE Unmixed'
  BY <1>4, <1>7, <1>14 DEF Send
<1>15. ASSUME NEW k \in Jobs,
              \/ Redeliver(k) \/ PushTurn(k) \/ SaveResult(k) \/ CreateFails(k)
              \/ PostAccepted(k) \/ Listen(k) \/ HearToken(k) \/ HearDone(k) \/ FetchFails(k)
              \/ PollTick(k) \/ PollNothing(k)
       PROVE  Unmixed'
  BY <1>4, <1>15 DEF Redeliver, PushTurn, SaveResult, CreateFails, PostAccepted, Listen,
                     HearToken, HearDone, FetchFails, PollTick, PollNothing
<1>16. CASE UNCHANGED vars
  BY <1>4, <1>16 DEF vars
<1> QED
  BY <1>8, <1>9, <1>10, <1>11, <1>12, <1>13, <1>14, <1>15, <1>16 DEF Next

-----------------------------------------------------------------------------
(* The spinner *)

Closures == {"posting", "checking", "listening", "fetching", "deaf"}

LEMMA SourceKept == TypeOK /\ SourceInv /\ [Next]_vars => SourceInv'
<1> SUFFICES ASSUME TypeOK, SourceInv, [Next]_vars, isThinking'
             PROVE  \E j \in Jobs : j \in timers' \/ pc'[j] \in Closures
  BY DEF SourceInv, Closures
<1> DEFINE Goal == \E j \in Jobs : j \in timers' \/ pc'[j] \in Closures
<1> USE DEF serverVars, pollVars, history
<1>1. pc \in [Jobs -> Steps]
  BY DEF TypeOK
<1>2. ASSUME isThinking, timers \subseteq timers',
             \A j \in Jobs : pc[j] \in Closures => pc'[j] \in Closures \/ j \in timers'
      PROVE  Goal
  BY <1>2 DEF SourceInv, Closures
<1>3. ASSUME UNCHANGED <<isThinking, pc, timers>> PROVE Goal
  BY <1>2, <1>3
<1>4. ASSUME NEW j \in Jobs, NEW before, Post(j, before) PROVE Goal
  BY <1>1, <1>4 DEF Post, Goto, Closures
<1>5. ASSUME NEW j \in Jobs, pc[j] \in Closures, NEW step \in Closures, Goto(j, step),
             UNCHANGED <<isThinking, timers>>
      PROVE  Goal
  BY <1>1, <1>2, <1>5 DEF Goto
<1>6. ASSUME NEW j \in Jobs, PostAccepted(j) \/ Listen(j) \/ HearDone(j) \/ FetchFails(j)
      PROVE  Goal
  <2>1. /\ pc[j] \in Closures /\ UNCHANGED <<isThinking, timers>>
        /\ \E step \in Closures : Goto(j, step)
    BY <1>6 DEF PostAccepted, Listen, HearDone, FetchFails, Closures
  <2> QED
    BY <1>5, <2>1
<1>7. ASSUME NEW j \in Jobs, NEW step, pc[j] \notin Closures, Goto(j, step),
             UNCHANGED <<isThinking, timers>>
      PROVE  Goal
  <2>1. \A i \in Jobs : pc[i] \in Closures => pc'[i] \in Closures
    BY <1>1, <1>7 DEF Goto
  <2> QED
    BY <1>2, <1>7, <2>1
<1>8. ASSUME NEW j \in Jobs, CreateFails(j) PROVE Goal
  <2>1. pc[j] \notin Closures /\ UNCHANGED <<isThinking, timers>> /\ \E step : Goto(j, step)
    BY <1>8 DEF CreateFails, Closures
  <2> QED
    BY <1>7, <2>1
<1>9. ASSUME NEW j \in Jobs, Send(j) PROVE Goal
  <2>1. CASE Post(j, shown)
    BY <1>4, <2>1
  <2>2. CASE Goto(j, "creating") /\ UNCHANGED isThinking
    <3>1. pc[j] \notin Closures /\ UNCHANGED timers
      BY <1>9 DEF Send, Closures
    <3> QED
      BY <1>7, <2>2, <3>1
  <2> QED
    BY <1>9, <2>1, <2>2 DEF Send
<1>10. ASSUME NEW j \in Jobs, StreamError(j) PROVE Goal
  BY <1>10 DEF StreamError
\* Whatever ends a closure or clears an interval stops the spinner.
<1>11. ASSUME NEW j \in Jobs, SendFails(j) \/ CheckDone(j) \/ FetchDone(j) \/ PollDone(j)
       PROVE  Goal
  BY <1>11 DEF SendFails, CheckDone, FetchDone, PollDone, HandleResult
<1>12. ASSUME Cancel PROVE Goal
  BY <1>12 DEF Cancel
<1>13. ASSUME SubmitQuestion PROVE Goal
  BY <1>3, <1>4, <1>13 DEF SubmitQuestion
<1>14. ASSUME NEW j \in Jobs, ThreadCreated(j) PROVE Goal
  BY <1>4, <1>14 DEF ThreadCreated
<1>15. ASSUME NEW j \in Jobs,
              \/ Redeliver(j) \/ PushTurn(j) \/ SaveResult(j) \/ HearToken(j) \/ HearTurn(j)
              \/ PollTick(j) \/ PollNothing(j)
       PROVE  Goal
  BY <1>3, <1>15 DEF Redeliver, PushTurn, SaveResult, HearToken, HearTurn, PollTick, PollNothing
<1>16. ASSUME UNCHANGED vars PROVE Goal
  BY <1>3, <1>16 DEF vars
<1> HIDE DEF Goal
<1>17. Goal
  BY <1>6, <1>8, <1>9, <1>10, <1>11, <1>12, <1>13, <1>14, <1>15, <1>16 DEF Next
<1> QED
  BY <1>17 DEF Goal

-----------------------------------------------------------------------------
(* The invariant *)

LEMMA InitHolds == Init => IInv
<1> SUFFICES ASSUME Init PROVE IInv
  OBVIOUS
<1>1. /\ shown = <<>> /\ <<>> \in Seq(Messages) /\ <<>> \in Seq(Outs) /\ Len(<<>>) = 0
      /\ 0 \in 0 .. Turns /\ 0 \in 0 .. MaxPolls /\ "idle" \in Steps /\ 1 \in Nat \ {0}
  BY ClientAssumption DEF Init, Steps
<1>2. isThinking = FALSE /\ pending = FALSE /\ thread \in BOOLEAN /\ cancelled = FALSE
  BY DEF Init
<1>3. \A j \in Jobs : answer[j] = NoAnswer
  BY DEF Init
<1>4. NoAnswer \in Answers /\ NoAnswer.kind = "none"
  BY DEF NoAnswer, Answers
<1>5. TypeOK
  <2>1. /\ tries \in [Jobs -> Nat \ {0}] /\ pushed \in [Jobs -> 0 .. Turns]
        /\ turnsOut \in [Jobs -> Seq(Outs)] /\ heard \in [Jobs -> Nat]
        /\ inflight \in [Jobs -> 0 .. MaxPolls]
    BY <1>1 DEF Init
  <2>2. answer \in [Jobs -> Answers] /\ pc \in [Jobs -> Steps]
    BY <1>1, <1>4 DEF Init
  <2>3. /\ preview = {} /\ esRef = NoJob /\ timers = {} /\ timerRef = NoJob
        /\ dropped = {} /\ emptied = {}
    BY DEF Init
  <2> QED
    BY <1>1, <1>2, <2>1, <2>2, <2>3 DEF TypeOK, Outs
<1>6. /\ \A j \in Jobs : /\ pc[j] = "idle" /\ heard[j] = 0 /\ turnsOut[j] = <<>>
                         /\ inflight[j] = 0 /\ pushed[j] = 0
      /\ timers = {} /\ preview = {} /\ dropped = {}
  BY DEF Init
<1>7. PollInv /\ BrokenInv
  BY <1>6 DEF PollInv, BrokenInv
<1>8. 1 .. 0 = {} /\ 0 <= 0 /\ ~ 0 > 0
  OBVIOUS
<1>9. ListInv
  <2> SUFFICES ASSUME NEW j \in Jobs PROVE Listed(j)
    BY DEF ListInv
  <2>1. 1 .. Len(turnsOut[j]) = {}
    BY <1>1, <1>6, <1>8
  <2>2. answer[j].kind # "turns"
    BY <1>3, <1>4
  <2>3. ~ pushed[j] > 0
    BY <1>6, <1>8
  <2> QED
    BY <2>1, <2>2, <2>3 DEF Listed, Sorted, Contiguous, Ending
<1>10. HeardInv
  <2>1. 1 .. Len(shown) = {}
    BY <1>1, <1>8
  <2>2. \A j \in Jobs : heard[j] <= Len(turnsOut[j])
    BY <1>1, <1>6, <1>8
  <2> QED
    BY <1>6, <2>1, <2>2 DEF HeardInv
<1>11. TurnsInv
  <2> SUFFICES ASSUME NEW j \in Jobs PROVE Kept(j)
    BY DEF TurnsInv
  <2>1. TurnsShown(j) = {} /\ 1 .. heard[j] = {} /\ pc[j] = "idle"
    BY <1>1, <1>6, <1>8 DEF TurnsShown
  <2> QED
    BY <2>1 DEF Kept, Ordered, From, All, Closed, Ended
<1>12. LastInv
  BY <1>6 DEF LastInv, Current, Active
<1>13. TranscriptUnmixed
  BY <1>1, <1>8 DEF TranscriptUnmixed
<1>14. SourceInv
  BY <1>2 DEF SourceInv
<1> QED
  BY <1>5, <1>7, <1>9, <1>10, <1>11, <1>12, <1>13, <1>14 DEF IInv

LEMMA Inductive == IInv /\ [Next]_vars => IInv'
BY TypesKept, PollKept, BrokenKept, ListKept, HeardKept, TurnsKept, LastKept, UnmixedKept,
   SourceKept DEF IInv

LEMMA Invariance == Spec => []IInv
<1>1. Init => IInv
  BY InitHolds
<1>2. IInv /\ [Next]_vars => IInv'
  BY Inductive
<1> QED
  BY <1>1, <1>2, PTL DEF Spec

-----------------------------------------------------------------------------
(* Theorems *)

\* For any jobs, debates and deliveries the state of the hook and of what it hears from the
\* server stays well typed (useChat).
THEOREM TypeSafety == Spec => []TypeOK
<1>1. IInv => TypeOK
  BY DEF IInv
<1> QED
  BY <1>1, Invariance, PTL

\* As long as its stream did not break, each turn of each run of a debate, of any length
\* and delivered any number of times, appears at most once and in the order spoken, and
\* with those before it in its run, unless a late new thread emptied the transcript or the
\* result stands behind turns of another run (es.onmessage, streamedTurnCount).
THEOREM TurnsAppearOnce == Spec => []TurnsOnceInOrder
<1>1. ASSUME IInv, NEW j \in Jobs \ dropped
      PROVE  Ordered(j) /\ (j \notin emptied /\ (pc[j] = "over" => OneRun(j)) => Closed(j))
  <2>1. Kept(j)
    BY <1>1 DEF IInv, TurnsInv
  <2>2. From(j) /\ All(j) => Closed(j)
    BY <1>1, HeardIsClosed DEF IInv
  <2> QED
    BY <2>1, <2>2 DEF Kept
<1>2. IInv => TurnsOnceInOrder
  BY <1>1 DEF TurnsOnceInOrder, Ordered, Closed
<1> QED
  BY <1>2, Invariance, PTL

\* Without a cancellation, a broken stream or a late new thread the messages of a job
\* stand together, however many sends wait for their thread (handleSend, sendMessage).
THEOREM MessagesStandTogether == Spec => []TranscriptUnmixed
<1>1. IInv => TranscriptUnmixed
  BY DEF IInv
<1> QED
  BY <1>1, Invariance, PTL

\* While the user is shown a spinner something can still end it, or a fetch has failed,
\* also when new threads and cancellations come in between (sendMessage, cancelJob).
THEOREM SpinnerHasSource == Spec => []ThinkingHasSource
<1>1. IInv => ThinkingHasSource
  BY DEF IInv, SourceInv, ThinkingHasSource, Source
<1> QED
  BY <1>1, Invariance, PTL

\* The step from the fetch after "done" to the end is that of the fetched result.
LEMMA FetchEnds ==
  ASSUME IInv, [Next]_vars, NEW j \in Jobs, pc[j] = "fetching", pc'[j] = "over"
  PROVE  FetchDone(j)
<1> USE DEF serverVars, pollVars, history
<1>1. pc \in [Jobs -> Steps] /\ pc' # pc
  BY DEF IInv, TypeOK
<1>2. ASSUME NEW k \in Jobs,
             \/ Redeliver(k) \/ PushTurn(k) \/ SaveResult(k) \/ HearToken(k) \/ HearTurn(k)
             \/ PollTick(k) \/ PollNothing(k)
      PROVE  FALSE
  BY <1>1, <1>2 DEF Redeliver, PushTurn, SaveResult, HearToken, HearTurn, PollTick, PollNothing
<1>3. ASSUME NEW k \in Jobs, NEW step, Goto(k, step), pc[k] # "fetching" \/ step # "over"
      PROVE  FALSE
  BY <1>1, <1>3 DEF Goto
<1>4. ASSUME NEW k \in Jobs,
             \/ Send(k) \/ ThreadCreated(k) \/ CreateFails(k) \/ PostAccepted(k)
             \/ SendFails(k) \/ CheckDone(k) \/ Listen(k) \/ HearDone(k) \/ StreamError(k)
             \/ FetchFails(k)
      PROVE  FALSE
  <2>1. \E step : Goto(k, step) /\ (pc[k] # "fetching" \/ step # "over")
    BY <1>4 DEF Send, ThreadCreated, CreateFails, Post, PostAccepted, SendFails, CheckDone,
                Listen, HearDone, StreamError, FetchFails
  <2> QED
    BY <1>3, <2>1
\* A job that polls does not fetch after "done": its stream broke.
<1>5. ASSUME NEW k \in Jobs, PollDone(k) PROVE FALSE
  <2>1. k = j
    BY <1>1, <1>5 DEF PollDone, Goto
  <2>2. inflight[j] > 0
    BY <1>5, <2>1 DEF PollDone
  <2>3. j \notin dropped
    BY DEF IInv, BrokenInv
  <2>4. inflight[j] = 0
    BY <2>3 DEF IInv, PollInv
  <2> QED
    BY <2>2, <2>4
<1>6. ~Cancel
  BY <1>1 DEF Cancel
<1>7. ~SubmitQuestion
  <2>1. ASSUME NEW k \in Jobs, Post(k, shown) PROVE FALSE
    BY <1>3, <2>1 DEF Post
  <2> QED
    BY <1>1, <2>1 DEF SubmitQuestion
<1>8. PICK k \in Jobs : FetchDone(k)
  BY <1>1, <1>2, <1>4, <1>5, <1>6, <1>7 DEF Next, vars
<1> QED
  BY <1>1, <1>8 DEF FetchDone, Goto

\* The closure that fetches the result after "done" has its whole debate on the screen
\* when it ends, if it heard only turns of the run with the result (es.onmessage, done).
THEOREM DoneIsComplete == Spec => DoneShowsWholeDebate
<1> DEFINE Whole ==
      \A j \in Jobs \ emptied :
        /\ pc[j] = "fetching" /\ pc'[j] = "over"
        /\ answer[j].kind = "turns"
        /\ \A p \in TurnsShown(j) : shown[p].run = answer[j].run
        => {shown'[p].turn : p \in TurnsShown(j)'} = 1 .. Turns
<1>1. ASSUME IInv, [Next]_vars PROVE Whole
  <2> SUFFICES ASSUME NEW j \in Jobs \ emptied, pc[j] = "fetching", pc'[j] = "over",
                      answer[j].kind = "turns",
                      \A p \in TurnsShown(j) : shown[p].run = answer[j].run
               PROVE  {shown'[p].turn : p \in TurnsShown(j)'} = 1 .. Turns
    OBVIOUS
  <2> DEFINE h == heard[j]
  <2>1. TypeOK /\ ListInv /\ HeardInv
    BY <1>1 DEF IInv
  <2>2. HandleResult(j, h) /\ h \in Nat /\ j \notin dropped
    BY <1>1, FetchEnds DEF FetchDone, IInv, TypeOK, BrokenInv
  <2>3. From(j) /\ All(j) /\ Ordered(j)
    BY <1>1, <2>2 DEF IInv, TurnsInv, Kept, Ended
  <2>4. PICK ms \in Results(j, h) : shown' = shown \o ms
    BY <2>1, <2>2, ResultShown
  <2>5. /\ \A p \in TurnsShown(j) : p \in TurnsShown(j)' /\ shown'[p] = shown[p]
        /\ \A k \in 1 .. Len(ms) :
             Len(shown) + k \in TurnsShown(j)' /\ shown'[Len(shown) + k] = ms[k]
        /\ \A p \in TurnsShown(j)' :
             p \in TurnsShown(j) \/ \E k \in 1 .. Len(ms) : p = Len(shown) + k
    BY <2>1, <2>3, <2>4, ResultFollows DEF Follow
  <2>6. /\ \A p \in TurnsShown(j) : shown[p].turn \in 1 .. h
        /\ \A n \in 1 .. h : \E q \in TurnsShown(j) : shown[q].turn = n
    BY <2>1, <2>3, ResultCompletes
  <2>7. \A p \in TurnsShown(j) : shown[p].turn \in 1 .. Turns
    <3> SUFFICES ASSUME NEW p \in TurnsShown(j) PROVE shown[p].turn \in 1 .. Turns
      OBVIOUS
    <3>1. PICK i \in 1 .. h : shown[p].turn = turnsOut[j][i].turn
      BY <2>3 DEF From, Same
    <3>2. i \in 1 .. Len(turnsOut[j])
      BY <2>1, <2>2, ListTypes DEF HeardInv
    <3> QED
      BY <2>1, <3>1, <3>2, ListTypes
  <2>8. \A k \in 1 .. Len(ms) : h + k \in 1 .. Turns /\ ms[k].turn = h + k
    BY DEF Results
  <2>9. \A p \in TurnsShown(j)' : shown'[p].turn \in 1 .. Turns
    BY <2>5, <2>7, <2>8
  <2>10. ASSUME NEW n \in 1 .. Turns PROVE \E p \in TurnsShown(j)' : shown'[p].turn = n
    <3>1. CASE n \in 1 .. h
      BY <2>5, <2>6, <3>1
    <3>2. CASE n \notin 1 .. h
      <4>1. n \in h + 1 .. Turns
        BY <2>2, <3>2, ClientAssumption
      <4>2. n - h \in 1 .. Len(ms) /\ h + (n - h) = n
        BY <2>2, <4>1 DEF Results
      <4> QED
        BY <2>5, <2>8, <4>2
    <3> QED
      BY <3>1, <3>2
  <2> QED
    BY <2>9, <2>10
<1> QED
  BY <1>1, Invariance, PTL DEF Spec, DoneShowsWholeDebate
=============================================================================
