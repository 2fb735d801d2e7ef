------------------------- MODULE DebateThread_proofs -------------------------
(***************************************************************************)
(* For any cast, any number of turns, requests and deliveries: who speaks  *)
(* in a debate, how long it is, and where its turns are kept. The counters *)
(* of the graph tell how many have spoken and, modulo the cast, whose turn *)
(* it is; the summary ends what can be said; and what a run has said is    *)
(* the end of its stream and, as long as runs do not overlap, of the       *)
(* history. A run that comes after a stored result has a later try than    *)
(* the one that stored it, so what it adds stands behind that result.      *)
(***************************************************************************)
EXTENDS DebateThread, SequenceTheorems, FiniteSetTheorems, TLAPS

\* What a phase says of the rest of a job.
PhaseInv ==
  \A j \in Jobs :
    /\ j > posted => phase[j] = "none"
    /\ phase[j] # "running" => turns[j] = <<>>
    /\ phase[j] = "none" => result[j].kind = "none"
    /\ phase[j] = "running" => tries[j] > 0 /\ cast[j] # <<>>
    /\ tries[j] = 0 => stream[j] = <<>>
    /\ result[j].kind = "debate" => result[j].try \in 1 .. tries[j]
    /\ result[j].kind = "debate" /\ phase[j] = "running" => result[j].try < tries[j]

\* The speeches of a run, without the summary.
Said(j) == Len(turns[j]) - (IF Aggregated(j) THEN 1 ELSE 0)

\* The counters tell how much was said, and the summary is the last turn.
CountInv ==
  \A j \in Jobs :
    phase[j] = "running" =>
      /\ Aggregated(j) =>
           AllSpoken(j) /\ (IF pattern = "chain" THEN Said(j) = Len(cast[j]) ELSE Said(j) >= 1)
      /\ \A k \in DOMAIN turns[j] : turns[j][k].by = "aggregator" => k = Len(turns[j])
      /\ pattern = "chain" => Said(j) <= Len(cast[j])
      /\ pattern # "chain" =>
           /\ turn[j] = request[j].cur + Said(j)
           /\ idx[j] % Len(cast[j]) = turn[j] % Len(cast[j])
           /\ Said(j) <= 1 \/ turn[j] <= TotalTurns(j)

\* t ends with s.
EndsWith(t, s) ==
  Len(s) <= Len(t) /\ \A k \in 1 .. Len(s) : t[Len(t) - Len(s) + k] = s[k]

\* What a run has said ends its stream.
StreamInv ==
  \A j \in Jobs :
    phase[j] = "running" =>
      /\ EndsWith(stream[j], turns[j])
      /\ tries[j] = 1 => stream[j] = turns[j]

\* Of runs that do not overlap the one under way holds the history, which its turns end.
HistoryInv ==
  ~ overlapped =>
    /\ \A i, j \in Running : i = j
    /\ \A j \in Running : view[j] = thread /\ EndsWith(thread, turns[j])

IInv ==
  /\ TypeOK /\ PhaseInv /\ CountInv /\ StreamInv /\ HistoryInv
  /\ RotationKept /\ FinishedAtLength /\ ResultInStream /\ HistoryKeepsDebates

-----------------------------------------------------------------------------
(* Sequences and counting *)

\* The end of a sequence is its suffix.
LEMMA SuffixEnds ==
  ASSUME NEW S, NEW s \in Seq(S), NEW t \in Seq(S), EndsWith(t, s)
  PROVE  IsSuffix(s, t)
<1> DEFINE r == Reverse(s)
           u == Reverse(t)
<1>1. /\ r \in Seq(S) /\ Len(r) = Len(s) /\ \A k \in 1 .. Len(s) : r[k] = s[(Len(s) - k) + 1]
      /\ u \in Seq(S) /\ Len(u) = Len(t) /\ \A k \in 1 .. Len(t) : u[k] = t[(Len(t) - k) + 1]
  BY DEF Reverse
<1>2. ASSUME NEW k \in 1 .. Len(s) PROVE r[k] = u[k]
  <2> DEFINE m == (Len(s) - k) + 1
  <2>1. m \in 1 .. Len(s) /\ Len(t) - Len(s) + m = (Len(t) - k) + 1 /\ k \in 1 .. Len(t)
    BY DEF EndsWith
  <2>2. t[Len(t) - Len(s) + m] = s[m]
    BY <2>1 DEF EndsWith
  <2> QED
    BY <1>1, <2>1, <2>2
<1> HIDE DEF r, u
<1>3. SubSeq(r, 1, Len(r)) = SubSeq(u, 1, Len(r))
  BY <1>1, <1>2 DEF EndsWith
<1>4. IsPrefix(r, u)
  BY <1>1, <1>3 DEF IsPrefix, EndsWith
<1> QED
  BY <1>4 DEF IsSuffix, r, u

\* What is added to both is added to the end.
LEMMA EndAppended ==
  ASSUME NEW S, NEW s \in Seq(S), NEW t \in Seq(S), NEW e \in S, EndsWith(t, s)
  PROVE  EndsWith(Append(t, e), Append(s, e))
<1>1. Len(Append(t, e)) = Len(t) + 1 /\ Len(Append(s, e)) = Len(s) + 1
  OBVIOUS
<1>2. ASSUME NEW k \in 1 .. Len(s) + 1
      PROVE  Append(t, e)[Len(t) - Len(s) + k] = Append(s, e)[k]
  <2>1. CASE k \in 1 .. Len(s)
    <3>1. Append(s, e)[k] = s[k] /\ t[Len(t) - Len(s) + k] = s[k]
      BY <2>1 DEF EndsWith
    <3>2. Len(t) - Len(s) + k \in 1 .. Len(t)
      BY <2>1 DEF EndsWith
    <3> QED
      BY <3>1, <3>2
  <2>2. CASE k = Len(s) + 1
    <3>1. Len(t) - Len(s) + k = Len(t) + 1
      BY <2>2
    <3> QED
      BY <2>2, <3>1
  <2>3. k \in 1 .. Len(s) \/ k = Len(s) + 1
    OBVIOUS
  <2> QED
    BY <2>1, <2>2, <2>3
<1>3. Len(Append(t, e)) - Len(Append(s, e)) = Len(t) - Len(s)
  BY <1>1
<1>4. Len(Append(s, e)) <= Len(Append(t, e))
  BY <1>1 DEF EndsWith
<1>5. \A k \in 1 .. Len(Append(s, e)) :
        Append(t, e)[Len(Append(t, e)) - Len(Append(s, e)) + k] = Append(s, e)[k]
  BY <1>1, <1>2, <1>3
<1> QED
  BY <1>4, <1>5 DEF EndsWith

\* The end of a sequence is in it.
LEMMA EndWithin ==
  ASSUME NEW S, NEW s \in Seq(S), NEW t \in Seq(S), EndsWith(t, s)
  PROVE  Within(s, t)
<1> DEFINE at == Len(t) - Len(s)
<1>1. at \in 0 .. Len(t) - Len(s)
  BY DEF EndsWith
<1>2. SubSeq(t, at + 1, at + Len(s)) = s
  BY DEF EndsWith
<1> QED
  BY <1>1, <1>2 DEF Within

\* What is in a sequence stays in it when it grows.
LEMMA WithinLonger ==
  ASSUME NEW S, NEW s \in Seq(S), NEW t \in Seq(S), NEW u \in Seq(S), Within(s, t)
  PROVE  Within(s, t \o u)
<1>1. PICK at \in 0 .. Len(t) - Len(s) : SubSeq(t, at + 1, at + Len(s)) = s
  BY DEF Within
<1>2. SubSeq(t \o u, at + 1, at + Len(s)) = SubSeq(t, at + 1, at + Len(s))
  OBVIOUS
<1>3. at \in 0 .. Len(t \o u) - Len(s)
  OBVIOUS
<1> QED
  BY <1>1, <1>2, <1>3 DEF Within

\* The rest of a division, and of the next number.
LEMMA Rest ==
  ASSUME NEW n \in Nat \ {0}, NEW a \in Nat
  PROVE  /\ a % n \in 0 .. n - 1
         /\ \A r \in 0 .. n - 1 : r % n = r
         /\ (a + 1) % n = IF a % n = n - 1 THEN 0 ELSE (a % n) + 1
<1>1. a % n \in 0 .. n - 1
  OBVIOUS
<1>2. \A r \in 0 .. n - 1 : r % n = r
  OBVIOUS
<1>3. (a + 1) % n = IF a % n = n - 1 THEN 0 ELSE (a % n) + 1
  <2> DEFINE q == a \div n
             r == a % n
  <2>1. a = n * q + r /\ q \in Nat /\ r \in 0 .. n - 1
    OBVIOUS
  <2>2. \A p \in Nat, d \in 0 .. n - 1 : (n * p + d) % n = d
    OBVIOUS
  <2> HIDE DEF q, r
  <2>3. CASE r = n - 1
    <3>1. a + 1 = n * (q + 1) + 0
      BY <2>1, <2>3
    <3> QED
      BY <2>1, <2>2, <2>3, <3>1 DEF r
  <2>4. CASE r # n - 1
    <3>1. a + 1 = n * q + (r + 1) /\ r + 1 \in 0 .. n - 1
      BY <2>1, <2>4
    <3> QED
      BY <2>1, <2>2, <2>4, <3>1 DEF r
  <2> QED
    BY <2>3, <2>4
<1> QED
  BY <1>1, <1>2, <1>3

\* The graph's index and its turn number name the same participant, also one turn later.
LEMMA NextInTurn ==
  ASSUME NEW n \in Nat \ {0}, NEW a \in Nat, NEW b \in Nat, a % n = b % n
  PROVE  ((a + 1) % n) % n = (b + 1) % n
<1>1. (a + 1) % n = (b + 1) % n
  BY Rest
<1>2. (a + 1) % n \in 0 .. n - 1
  BY Rest
<1> QED
  BY <1>1, <1>2, Rest

-----------------------------------------------------------------------------
(* The types *)

\* A cast is a sequence of names.
LEMMA CastNames == \A players \in Casts : players \in Seq(Names)
<1> SUFFICES ASSUME NEW found \in SetToAllKPermutations(Gems)
             PROVE  Agents \o found \in Seq(Names)
  BY DEF Casts
<1>1. PICK s \in SUBSET Gems : found \in SetToSeqs(s)
  BY DEF SetToAllKPermutations
<1>2. Cardinality(s) \in Nat
  BY DebateAssumption, FS_Subset, FS_CardinalityType
<1>3. found \in Seq(Names)
  <2>1. found \in [1 .. Cardinality(s) -> s]
    BY <1>1 DEF SetToSeqs
  <2> QED
    BY <1>2, <2>1, IsASeq DEF Names
<1>4. Agents \in Seq(Names)
  BY DebateAssumption DEF Names
<1> QED
  BY <1>3, <1>4

Results == [kind : {"none", "error", "debate"}, turns : Seq(Spoken), final : Nat,
            size : Nat, try : Nat]

\* A request is made, or not, and the panel does what it does; no run is touched.
PanelStep ==
  SendTopic \/ Extend \/ End \/ Cancel \/ \E j \in Jobs : ReceiveResult(j)

\* Speaking: who does, and which node it is.
Speaks(j, by) ==
  \/ Dispatch(j) /\ by = cast[j][(idx[j] % Len(cast[j])) + 1]
  \/ ChainLink(j) /\ by = cast[j][Len(turns[j]) + 1]
  \/ Aggregate(j) /\ by = "aggregator"

\* The end of a run, or of a job that never ran.
Leaves(j) == SaveDebate(j) \/ Reject(j) \/ Fail(j) \/ Interrupt(j) \/ EndUnsaved(j)
             \/ Finish(j)

\* Who speaks can.
LEMMA SpeakerKnown ==
  ASSUME TypeOK, PhaseInv, NEW j \in Jobs, NEW by, Speaks(j, by)
  PROVE  /\ phase[j] = "running" /\ by \in Speakers /\ Utter(j, by)
         /\ by # "aggregator" <=> ~ Aggregate(j)
<1>1. phase[j] = "running"
  BY DEF Speaks, Dispatch, ChainLink, Aggregate
<1>2. cast[j] \in Seq(Names) /\ Len(cast[j]) \in Nat \ {0} /\ idx[j] \in Nat
  BY <1>1 DEF TypeOK, PhaseInv
<1>3. "aggregator" \notin Names
  BY DebateAssumption DEF Names
<1>4. CASE Dispatch(j) /\ by = cast[j][(idx[j] % Len(cast[j])) + 1]
  <2>1. (idx[j] % Len(cast[j])) + 1 \in 1 .. Len(cast[j])
    <3>1. idx[j] % Len(cast[j]) \in 0 .. Len(cast[j]) - 1
      BY <1>2, Rest
    <3> QED
      BY <1>2, <3>1
  <2>2. by \in Names /\ Utter(j, by) /\ ~ AllSpoken(j)
    BY <1>2, <1>4, <2>1 DEF Dispatch
  <2> QED
    BY <1>1, <1>3, <2>2 DEF Speakers, Aggregate
<1>5. CASE ChainLink(j) /\ by = cast[j][Len(turns[j]) + 1]
  <2>1. Len(turns[j]) + 1 \in 1 .. Len(cast[j])
    BY <1>2, <1>5 DEF ChainLink, AllSpoken, TypeOK
  <2>2. by \in Names /\ Utter(j, by) /\ ~ AllSpoken(j)
    BY <1>2, <1>5, <2>1 DEF ChainLink
  <2> QED
    BY <1>1, <1>3, <2>2 DEF Speakers, Aggregate
<1>6. CASE Aggregate(j) /\ by = "aggregator"
  BY <1>1, <1>6 DEF Aggregate, Speakers
<1> QED
  BY <1>4, <1>5, <1>6 DEF Speaks

\* Of what ends a run only a rejection is a delivery of its own.
LEMMA DeliveryCounted ==
  ASSUME NEW j \in Jobs, Leaves(j)
  PROVE  \/ tries' = tries
         \/ Reject(j) /\ tries[j] < MaxTries /\ tries' = [tries EXCEPT ![j] = @ + 1]
BY DEF Leaves, SaveDebate, Reject, Fail, Interrupt, EndUnsaved, Finish

\* What is stored when a run ends, if anything is.
LEMMA WhatIsStored ==
  ASSUME TypeOK, NEW j \in Jobs, Leaves(j)
  PROVE  /\ \A i \in Jobs \ {j} : result'[i] = result[i]
         /\ \/ result' = result
            \/ result'[j].kind = "error"
            \/ SaveDebate(j) /\ result'[j].kind = "debate" /\ result'[j].try = tries[j]
<1>1. result \in [Jobs -> Results]
  BY DEF TypeOK, Results
<1>2. ErrorResult.kind = "error"
  BY DEF ErrorResult, NoResult
<1>3. CASE SaveDebate(j)
  <2>1. result' = [result EXCEPT ![j] =
                     [kind |-> "debate", turns |-> turns[j], final |-> turn[j],
                      size |-> Len(cast[j]), try |-> tries[j]]]
    BY <1>3 DEF SaveDebate, SaveResult
  <2> QED
    BY <1>1, <1>3, <2>1
<1>4. CASE Reject(j) \/ Fail(j)
  BY <1>1, <1>2, <1>4 DEF Reject, Fail, SaveResult
<1>5. CASE Interrupt(j) \/ EndUnsaved(j) \/ Finish(j)
  BY <1>5 DEF Interrupt, EndUnsaved, Finish
<1> QED
  BY <1>3, <1>4, <1>5 DEF Leaves

\* Every step is one of these.
LEMMA StepKinds ==
  ASSUME Next
  PROVE  \/ PanelStep
         \/ \E j \in Jobs : \/ \E players \in Casts : Start(j, players)
                            \/ \E by : Speaks(j, by)
                            \/ Leaves(j)
BY DEF Next, PanelStep, Speaks, Leaves

\* Nobody but the queue touches a run.
LEMMA PanelLeavesRuns ==
  ASSUME PanelStep
  PROVE  UNCHANGED <<pattern, tries, cast, turn, idx, view, turns, thread, stream, result,
                     overlapped>>
BY DEF PanelStep, SendTopic, Extend, End, Cancel, ReceiveResult, runVars

\* What a request does to the jobs, if there is one.
LEMMA PanelPosts ==
  ASSUME TypeOK, PanelStep
  PROVE  \/ UNCHANGED <<posted, request, phase>>
         \/ /\ posted + 1 \in Jobs /\ posted' = posted + 1
            /\ request' = [request EXCEPT ![posted + 1] = [max |-> dynamicMaxTurns,
                                                           cur |-> dynamicCurrentTurn]]
            /\ phase' = [phase EXCEPT ![posted + 1] = "queued"]
<1>1. posted \in 0 .. MaxPosts /\ MaxPosts \in Nat
  BY DebateAssumption DEF TypeOK
<1>2. ASSUME NEW want, Post(want)
      PROVE  /\ posted + 1 \in Jobs /\ posted' = posted + 1
             /\ request' = [request EXCEPT ![posted + 1] = [max |-> dynamicMaxTurns,
                                                            cur |-> dynamicCurrentTurn]]
             /\ phase' = [phase EXCEPT ![posted + 1] = "queued"]
  BY <1>1, <1>2 DEF Post, Jobs
<1>3. CASE SendTopic
  BY <1>2, <1>3 DEF SendTopic
<1>4. CASE Extend
  BY <1>2, <1>4 DEF Extend, postVars
<1>5. CASE End \/ Cancel \/ \E j \in Jobs : ReceiveResult(j)
  BY <1>5 DEF End, Cancel, ReceiveResult, postVars
<1> QED
  BY <1>3, <1>4, <1>5 DEF PanelStep

PanelTypes ==
  /\ pattern \in {"debate", "panel", "chain"}
  /\ isThinking \in BOOLEAN
  /\ awaited \in SUBSET Jobs
  /\ awaitingExtension \in BOOLEAN
  /\ debateEnded \in BOOLEAN
  /\ currentTurn \in Nat
  /\ dynamicMaxTurns \in Nat
  /\ dynamicCurrentTurn \in Nat
  /\ posted \in 0 .. MaxPosts
  /\ request \in [Jobs -> [max : Nat, cur : Nat]]
  /\ asked \in [Jobs -> [from : Nat, more : Nat]]

RunTypes ==
  /\ phase \in [Jobs -> {"none", "queued", "running", "closing", "settled"}]
  /\ tries \in [Jobs -> 0 .. MaxTries]
  /\ cast \in [Jobs -> Seq(Names)]
  /\ turn \in [Jobs -> Nat]
  /\ idx \in [Jobs -> Nat]
  /\ view \in [Jobs -> Seq(Messages)]
  /\ turns \in [Jobs -> Seq(Spoken)]
  /\ thread \in Seq(Messages)
  /\ stream \in [Jobs -> Seq(Spoken)]
  /\ result \in [Jobs -> Results]
  /\ overlapped \in BOOLEAN

\* The types in two parts.
LEMMA TypesInParts == TypeOK <=> PanelTypes /\ RunTypes
BY DEF TypeOK, PanelTypes, RunTypes, Results

\* The panel's numbers are those of a result and what the user adds.
LEMMA PanelTypesKept == TypeOK /\ Next => PanelTypes'
<1> SUFFICES ASSUME TypeOK, Next PROVE PanelTypes'
  OBVIOUS
<1>1. PanelTypes /\ RunTypes
  BY TypesInParts
<1>2. CASE UNCHANGED <<panelVars, postVars>>
  BY <1>1, <1>2 DEF PanelTypes, panelVars, postVars
<1>3. ASSUME NEW want \in [from : Nat, more : Nat], Post(want)
      PROVE  /\ isThinking' \in BOOLEAN /\ awaited' \in SUBSET Jobs /\ posted' \in 0 .. MaxPosts
             /\ request' \in [Jobs -> [max : Nat, cur : Nat]]
             /\ asked' \in [Jobs -> [from : Nat, more : Nat]]
  <2> DEFINE made == [max |-> dynamicMaxTurns, cur |-> dynamicCurrentTurn]
  <2>1. made \in [max : Nat, cur : Nat]
    BY <1>1 DEF PanelTypes
  <2>2. posted + 1 \in Jobs /\ posted + 1 \in 0 .. MaxPosts
    BY <1>1, <1>3, DebateAssumption DEF PanelTypes, Post, Jobs
  <2>3. request' = [request EXCEPT ![posted + 1] = made]
        /\ asked' = [asked EXCEPT ![posted + 1] = want]
        /\ awaited' = awaited \cup {posted + 1} /\ isThinking' = TRUE /\ posted' = posted + 1
    BY <1>3 DEF Post
  <2> HIDE DEF made
  <2> QED
    BY <1>1, <2>1, <2>2, <2>3 DEF PanelTypes
<1>4. CASE SendTopic
  <2>1. Post(NotAsked) /\ NotAsked \in [from : Nat, more : Nat]
    BY <1>4 DEF SendTopic, NotAsked
  <2> QED
    BY <1>1, <1>3, <1>4, <2>1 DEF SendTopic, PanelTypes
<1>5. CASE Extend
  <2>1. PICK more \in Extensions :
          /\ \/ ~ isThinking /\ Post([from |-> currentTurn, more |-> more])
             \/ isThinking /\ UNCHANGED <<postVars, phase, awaited, isThinking>>
          /\ dynamicMaxTurns' = currentTurn + more
    BY <1>5 DEF Extend
  <2>2. more \in Nat /\ [from |-> currentTurn, more |-> more] \in [from : Nat, more : Nat]
    BY <1>1, DebateAssumption DEF PanelTypes
  <2>3. /\ isThinking' \in BOOLEAN /\ awaited' \in SUBSET Jobs /\ posted' \in 0 .. MaxPosts
        /\ request' \in [Jobs -> [max : Nat, cur : Nat]]
        /\ asked' \in [Jobs -> [from : Nat, more : Nat]]
    BY <1>1, <1>3, <2>1, <2>2 DEF PanelTypes, postVars
  <2> QED
    <3>1. dynamicMaxTurns' \in Nat /\ dynamicCurrentTurn' \in Nat /\ awaitingExtension' \in BOOLEAN
      <4>1. /\ dynamicMaxTurns' = currentTurn + more /\ dynamicCurrentTurn' = currentTurn
            /\ awaitingExtension' = FALSE
        BY <1>5, <2>1 DEF Extend
      <4>2. currentTurn \in Nat /\ more \in Nat
        BY <1>1, <2>2 DEF PanelTypes
      <4>3. dynamicMaxTurns' \in Nat
        BY <4>1, <4>2
      <4> QED
        BY <4>1, <4>2, <4>3
    <3> QED
      BY <1>1, <1>5, <2>3, <3>1 DEF Extend, PanelTypes
<1>6. CASE End \/ Cancel
  BY <1>1, <1>6 DEF End, Cancel, PanelTypes, postVars
<1>7. ASSUME NEW j \in Jobs, ReceiveResult(j) PROVE PanelTypes'
  <2>1. result[j].final \in Nat
    BY <1>1 DEF RunTypes, Results
  <2>2. currentTurn' \in Nat /\ awaitingExtension' \in BOOLEAN
    BY <1>1, <1>7, <2>1 DEF ReceiveResult, PanelTypes
  <2> QED
    BY <1>1, <1>7, <2>2 DEF ReceiveResult, PanelTypes, postVars
<1> QED
  BY <1>2, <1>4, <1>5, <1>6, <1>7
  DEF Next, Start, Dispatch, ChainLink, Aggregate, SaveDebate, Reject, Fail, Interrupt, EndUnsaved,
      Finish, SaveResult, Leave

\* A run's copy, its turns and its stream hold messages of its cast.
LEMMA RunTypesKept == TypeOK /\ PhaseInv /\ Next => RunTypes'
<1> SUFFICES ASSUME TypeOK, PhaseInv, Next PROVE RunTypes'
  OBVIOUS
<1>1. PanelTypes /\ RunTypes
  BY TypesInParts
<1>2. CASE PanelStep
  <2>1. phase' \in [Jobs -> {"none", "queued", "running", "closing", "settled"}]
    BY <1>1, <1>2, PanelPosts DEF RunTypes
  <2> QED
    BY <1>1, <1>2, <2>1, PanelLeavesRuns DEF RunTypes
<1>3. ASSUME NEW j \in Jobs, NEW players \in Casts, Start(j, players) PROVE RunTypes'
  <2> DEFINE opening == IF request[j].cur = 0 THEN << [job |-> j, by |-> "user"] >> ELSE <<>>
  <2>1. opening \in Seq(Messages)
    <3>1. [job |-> j, by |-> "user"] \in Messages
      BY DEF Messages
    <3> QED
      BY <3>1
  <2>2. request[j].cur \in Nat /\ players \in Seq(Names) /\ tries[j] + 1 \in 0 .. MaxTries
    BY <1>1, <1>3, CastNames, DebateAssumption, SMTT(30) DEF PanelTypes, RunTypes, Start
  <2>3. /\ view' = [view EXCEPT ![j] = thread \o opening] /\ thread' = thread \o opening
    BY <1>3 DEF Start
  <2> HIDE DEF opening
  <2>4. thread \o opening \in Seq(Messages)
    BY <1>1, <2>1 DEF RunTypes
  <2>5. view' \in [Jobs -> Seq(Messages)] /\ thread' \in Seq(Messages)
    BY <1>1, <2>3, <2>4 DEF RunTypes
  <2>6. overlapped' \in BOOLEAN
    BY <1>1, <1>3 DEF Start, Overlaps, RunTypes
  <2> QED
    BY <1>1, <1>3, <2>2, <2>5, <2>6 DEF Start, RunTypes
<1>4. ASSUME NEW j \in Jobs, NEW by, Speaks(j, by) PROVE RunTypes'
  <2> DEFINE said == [job |-> j, by |-> by]
  <2>1. said \in Spoken /\ said \in Messages
    BY <1>4, SpeakerKnown DEF Spoken, Messages
  <2>2. /\ view' = [view EXCEPT ![j] = Append(@, said)] /\ thread' = Append(view[j], said)
        /\ turns' = [turns EXCEPT ![j] = Append(@, said)]
        /\ stream' = [stream EXCEPT ![j] = Append(@, said)]
    BY <1>4, SpeakerKnown DEF Utter
  <2> HIDE DEF said
  <2>3. /\ view' \in [Jobs -> Seq(Messages)] /\ thread' \in Seq(Messages)
        /\ turns' \in [Jobs -> Seq(Spoken)] /\ stream' \in [Jobs -> Seq(Spoken)]
    BY <1>1, <2>1, <2>2 DEF RunTypes
  <2>4. turn' \in [Jobs -> Nat] /\ idx' \in [Jobs -> Nat]
    <3>1. CASE Dispatch(j)
      <4>1. Len(cast[j]) \in Nat \ {0} /\ idx[j] \in Nat /\ turn[j] \in Nat
        BY <1>1, <3>1 DEF RunTypes, PhaseInv, Dispatch
      <4>2. (idx[j] + 1) % Len(cast[j]) \in Nat
        <5>1. idx[j] + 1 \in Nat
          BY <4>1
        <5>2. (idx[j] + 1) % Len(cast[j]) \in 0 .. Len(cast[j]) - 1
          BY <4>1, <5>1, Rest
        <5> QED
          BY <4>1, <5>2
      <4> QED
        BY <1>1, <3>1, <4>1, <4>2 DEF RunTypes, Dispatch
    <3>2. CASE ChainLink(j) \/ Aggregate(j)
      BY <1>1, <3>2 DEF RunTypes, ChainLink, Aggregate
    <3> QED
      BY <1>4, <3>1, <3>2 DEF Speaks
  <2>5. UNCHANGED <<phase, tries, cast, result, overlapped>>
    BY <1>4 DEF Speaks, Dispatch, ChainLink, Aggregate
  <2> QED
    BY <1>1, <2>3, <2>4, <2>5 DEF RunTypes
<1>5. ASSUME NEW j \in Jobs, Leaves(j) PROVE RunTypes'
  <2>1. \E next \in {"queued", "closing", "settled"} : Leave(j, next)
    BY <1>5 DEF Leaves, SaveDebate, Reject, Fail, Interrupt, EndUnsaved, Finish, SaveResult
  <2>2. result' \in [Jobs -> Results]
    <3>1. ErrorResult \in Results
      <4>1. NoResult \in Results
        BY DEF NoResult, Results
      <4> QED
        BY <4>1 DEF ErrorResult, Results
    <3>2. [kind |-> "debate", turns |-> turns[j], final |-> turn[j],
           size |-> Len(cast[j]), try |-> tries[j]] \in Results
      <4>1. turns[j] \in Seq(Spoken) /\ turn[j] \in Nat /\ Len(cast[j]) \in Nat
            /\ tries[j] \in Nat
        BY <1>1, DebateAssumption DEF RunTypes
      <4> QED
        BY <4>1 DEF Results
    <3>3. UNCHANGED result \/ \E res \in Results : result' = [result EXCEPT ![j] = res]
      BY <1>5, <3>1, <3>2
      DEF Leaves, SaveDebate, Reject, Fail, Interrupt, EndUnsaved, Finish, SaveResult
    <3> QED
      BY <1>1, <3>3 DEF RunTypes
  <2> QED
    <3>1. PICK next \in {"queued", "closing", "settled"} : Leave(j, next)
      BY <2>1
    <3>2. phase' \in [Jobs -> {"none", "queued", "running", "closing", "settled"}]
      BY <1>1, <3>1 DEF RunTypes, Leave
    <3>3. /\ view' \in [Jobs -> Seq(Messages)] /\ turns' \in [Jobs -> Seq(Spoken)]
          /\ turn' \in [Jobs -> Nat] /\ idx' \in [Jobs -> Nat]
      BY <1>1, <3>1 DEF RunTypes, Leave
    <3>4. UNCHANGED <<cast, thread, stream, overlapped>>
      BY <3>1 DEF Leave
    <3>5. tries' \in [Jobs -> 0 .. MaxTries]
      <4>1. tries[j] < MaxTries => tries[j] + 1 \in 0 .. MaxTries
        BY <1>1, DebateAssumption DEF RunTypes
      <4> QED
        BY <1>1, <1>5, <4>1, DeliveryCounted DEF RunTypes
    <3> QED
      BY <1>1, <2>2, <3>2, <3>3, <3>4, <3>5 DEF RunTypes
<1> QED
  BY <1>2, <1>3, <1>4, <1>5, StepKinds

\* The types in every step.
LEMMA TypesKept == TypeOK /\ PhaseInv /\ Next => TypeOK'
BY PanelTypesKept, RunTypesKept DEF TypeOK, PanelTypes, RunTypes, Results

\* What is said goes to the run's copy, the history, the turns and the stream.
LEMMA Uttered ==
  ASSUME TypeOK, PhaseInv, NEW j \in Jobs, NEW by, Speaks(j, by)
  PROVE  \E said \in Spoken :
           /\ said.by = by
           /\ view' = [view EXCEPT ![j] = Append(view[j], said)]
           /\ thread' = Append(view[j], said)
           /\ turns' = [turns EXCEPT ![j] = Append(turns[j], said)]
           /\ stream' = [stream EXCEPT ![j] = Append(stream[j], said)]
<1> DEFINE said == [job |-> j, by |-> by]
<1>1. said \in Spoken /\ said.by = by
  BY SpeakerKnown DEF Spoken
<1>2. /\ view' = [view EXCEPT ![j] = Append(view[j], said)]
      /\ thread' = Append(view[j], said)
      /\ turns' = [turns EXCEPT ![j] = Append(turns[j], said)]
      /\ stream' = [stream EXCEPT ![j] = Append(stream[j], said)]
  BY SpeakerKnown DEF Utter
<1> HIDE DEF said
<1> QED
  BY <1>1, <1>2

-----------------------------------------------------------------------------
(* The phases *)

\* A cast that may play is not empty.
LEMMA PlayableCast ==
  ASSUME NEW players \in Casts, Playable(players)
  PROVE  players # <<>>
<1>1. players \in Seq(Names) /\ Len(players) \in Nat
  BY CastNames
<1>2. CastLimits[1] \in Nat \ {0} /\ CastLimits[2] \in Nat
  BY DebateAssumption
<1> QED
  BY <1>1, <1>2 DEF Playable

\* What a job has depends on how far it came.
LEMMA PhasesKept == TypeOK /\ PhaseInv /\ Next => PhaseInv'
<1> SUFFICES ASSUME TypeOK, PhaseInv, Next PROVE PhaseInv'
  OBVIOUS
<1>1. RunTypes /\ posted \in Nat /\ \A j \in Jobs : j \in Nat
  BY TypesInParts, DebateAssumption DEF PanelTypes, Jobs
<1>2. CASE PanelStep
  <2>1. UNCHANGED <<posted, phase>> \/
          /\ posted + 1 \in Jobs /\ posted' = posted + 1
          /\ phase' = [phase EXCEPT ![posted + 1] = "queued"]
    BY <1>2, PanelPosts
  <2>2. CASE UNCHANGED <<posted, phase>>
    BY <1>2, <2>2, PanelLeavesRuns DEF PhaseInv
  <2>3. CASE /\ posted + 1 \in Jobs /\ posted' = posted + 1
             /\ phase' = [phase EXCEPT ![posted + 1] = "queued"]
    <3>1. phase[posted + 1] = "none" /\ phase'[posted + 1] = "queued"
          /\ \A j \in Jobs \ {posted + 1} : phase'[j] = phase[j]
      BY <1>1, <2>3 DEF PhaseInv, RunTypes
    <3>2. \A j \in Jobs : j > posted' => j > posted /\ j # posted + 1
      BY <1>1, <2>3
    <3> QED
      BY <1>2, <3>1, <3>2, PanelLeavesRuns DEF PhaseInv
  <2> QED
    BY <2>1, <2>2, <2>3
<1>3. ASSUME NEW j \in Jobs, NEW players \in Casts, Start(j, players) PROVE PhaseInv'
  <2>1. /\ posted' = posted /\ UNCHANGED <<stream, result>> /\ phase[j] = "queued"
        /\ phase'[j] = "running" /\ tries'[j] = tries[j] + 1 /\ cast'[j] = players
        /\ turns'[j] = <<>>
    BY <1>1, <1>3 DEF Start, RunTypes, postVars
  <2>2. \A i \in Jobs \ {j} : /\ phase'[i] = phase[i] /\ tries'[i] = tries[i]
                              /\ cast'[i] = cast[i] /\ turns'[i] = turns[i]
    BY <1>1, <1>3 DEF Start, RunTypes
  <2>3. players # <<>> /\ tries[j] \in Nat
    BY <1>1, <1>3, PlayableCast, DebateAssumption DEF Start, RunTypes
  <2> QED
    BY <2>1, <2>2, <2>3 DEF PhaseInv
<1>4. ASSUME NEW j \in Jobs, NEW by, Speaks(j, by) PROVE PhaseInv'
  <2>1. phase[j] = "running" /\ UNCHANGED <<posted, phase, tries, cast, result>>
    BY <1>4 DEF Speaks, Dispatch, ChainLink, Aggregate, postVars
  <2>2. \A i \in Jobs \ {j} : turns'[i] = turns[i] /\ stream'[i] = stream[i]
    <3>1. PICK said \in Spoken : /\ turns' = [turns EXCEPT ![j] = Append(turns[j], said)]
                                  /\ stream' = [stream EXCEPT ![j] = Append(stream[j], said)]
      BY <1>4, Uttered
    <3> QED
      BY <1>1, <3>1 DEF RunTypes
  <2>3. tries[j] # 0
    BY <1>1, <2>1 DEF PhaseInv, RunTypes
  <2> QED
    BY <2>1, <2>2, <2>3 DEF PhaseInv
<1>5. ASSUME NEW j \in Jobs, Leaves(j) PROVE PhaseInv'
  <2>1. PICK next \in {"queued", "closing", "settled"} : Leave(j, next)
    BY <1>5 DEF Leaves, SaveDebate, Reject, Fail, Interrupt, EndUnsaved, Finish, SaveResult
  <2>2. phase[j] \in {"queued", "running", "closing"} /\ (SaveDebate(j) => phase[j] = "running")
    BY <1>5 DEF Leaves, SaveDebate, Reject, Fail, Interrupt, EndUnsaved, Finish
  <2>3. /\ posted' = posted /\ UNCHANGED <<stream, cast>>
        /\ phase'[j] = next /\ turns'[j] = <<>>
        /\ \A i \in Jobs \ {j} : phase'[i] = phase[i] /\ turns'[i] = turns[i]
    BY <1>1, <2>1 DEF Leave, RunTypes, postVars
  <2>4. /\ \A i \in Jobs \ {j} : tries'[i] = tries[i]
        /\ tries'[j] \in {tries[j], tries[j] + 1} /\ tries[j] \in Nat
        /\ SaveDebate(j) => tries'[j] = tries[j]
    BY <1>1, <1>5, DeliveryCounted, DebateAssumption DEF RunTypes, SaveDebate, Reject
  <2>5. \A i \in Jobs \ {j} : result'[i] = result[i]
    BY <1>5, WhatIsStored
  <2>6. result'[j].kind = "debate" => result'[j].try \in 1 .. tries'[j]
    <3>1. CASE result' = result
      BY <2>4, <3>1 DEF PhaseInv
    <3>2. CASE SaveDebate(j) /\ result'[j].try = tries[j]
      BY <2>2, <2>4, <3>2 DEF PhaseInv
    <3> QED
      BY <1>5, <3>1, <3>2, WhatIsStored
  <2>7. \A i \in Jobs \ {j} :
          /\ i > posted' => phase'[i] = "none"
          /\ phase'[i] # "running" => turns'[i] = <<>>
          /\ phase'[i] = "none" => result'[i].kind = "none"
          /\ phase'[i] = "running" => tries'[i] > 0 /\ cast'[i] # <<>>
          /\ tries'[i] = 0 => stream'[i] = <<>>
          /\ result'[i].kind = "debate" => result'[i].try \in 1 .. tries'[i]
          /\ result'[i].kind = "debate" /\ phase'[i] = "running" => result'[i].try < tries'[i]
    BY <2>3, <2>4, <2>5 DEF PhaseInv
  <2>8. /\ j > posted' => phase'[j] = "none"
        /\ tries'[j] = 0 => stream'[j] = <<>>
    BY <1>1, <2>2, <2>3, <2>4 DEF PhaseInv
  <2> QED
    BY <2>3, <2>6, <2>7, <2>8 DEF PhaseInv
<1> QED
  BY <1>2, <1>3, <1>4, <1>5, StepKinds

-----------------------------------------------------------------------------
(* The counters *)

\* How many turns a debate has is a number.
LEMMA TotalIsNumber ==
  ASSUME TypeOK, NEW j \in Jobs
  PROVE  TotalTurns(j) \in Nat /\ Len(turns[j]) \in Nat /\ Said(j) \in Int
<1>1. MaxTurns(j) \in Nat
  BY DebateAssumption DEF TypeOK, MaxTurns
<1>2. Len(cast[j]) \in Nat /\ Len(turns[j]) \in Nat
  BY DEF TypeOK
<1>3. MaxTurns(j) * Len(cast[j]) \in Nat
  BY <1>1, <1>2
<1> QED
  BY <1>1, <1>2, <1>3 DEF TotalTurns, TurnsOf, Said

\* The summary is the last thing said; a turn adds one speech, or the summary.
LEMMA TurnAdded ==
  ASSUME TypeOK, PhaseInv, CountInv, NEW j \in Jobs, NEW by, Speaks(j, by)
  PROVE  /\ Len(turns'[j]) = Len(turns[j]) + 1
         /\ \A k \in 1 .. Len(turns[j]) : turns'[j][k] = turns[j][k]
         /\ turns'[j][Len(turns[j]) + 1].by = by
         /\ ~ Aggregated(j)
         /\ \A k \in 1 .. Len(turns[j]) : turns[j][k].by # "aggregator"
         /\ Said(j) = Len(turns[j])
         /\ Aggregated(j)' <=> by = "aggregator"
         /\ Said(j)' = Len(turns[j]) + (IF by = "aggregator" THEN 0 ELSE 1)
         /\ \A i \in Jobs \ {j} : turns'[i] = turns[i]
<1>1. turns[j] \in Seq(Spoken) /\ turns \in [Jobs -> Seq(Spoken)] /\ Len(turns[j]) \in Nat
  BY DEF TypeOK
<1>2. PICK said \in Spoken : said.by = by /\ turns' = [turns EXCEPT ![j] = Append(turns[j], said)]
  BY Uttered
<1>3. turns'[j] = Append(turns[j], said) /\ \A i \in Jobs \ {j} : turns'[i] = turns[i]
  BY <1>1, <1>2
<1>4. /\ Len(turns'[j]) = Len(turns[j]) + 1
      /\ \A k \in 1 .. Len(turns[j]) : turns'[j][k] = turns[j][k]
      /\ turns'[j][Len(turns[j]) + 1].by = by
  BY <1>1, <1>2, <1>3
<1>5. ~ Aggregated(j) /\ phase[j] = "running"
  BY SpeakerKnown DEF Speaks, Dispatch, ChainLink, Aggregate, CountInv
<1>6. \A k \in 1 .. Len(turns[j]) : turns[j][k].by # "aggregator"
  <2>1. \A k \in 1 .. Len(turns[j]) : turns[j][k].by = "aggregator" => k = Len(turns[j])
    BY <1>1, <1>5 DEF CountInv
  <2> QED
    BY <1>1, <1>5, <2>1 DEF Aggregated, Last
<1>7. Aggregated(j)' <=> by = "aggregator"
  <2>1. turns'[j] # <<>>
    BY <1>1, <1>4
  <2>2. Last(turns[j])' = turns'[j][Len(turns[j]) + 1]
    BY <1>4 DEF Last
  <2> QED
    BY <1>4, <2>1, <2>2 DEF Aggregated
<1>8. Said(j) = Len(turns[j])
  BY <1>1, <1>5 DEF Said
<1>9. Said(j)' = Len(turns[j]) + (IF by = "aggregator" THEN 0 ELSE 1)
  <2>1. Said(j)' = (Len(turns[j]) + 1) - (IF by = "aggregator" THEN 1 ELSE 0)
    BY <1>4, <1>7 DEF Said
  <2> QED
    BY <1>1, <2>1
<1> QED
  BY <1>3, <1>4, <1>5, <1>6, <1>7, <1>8, <1>9

\* The counters of the graph, after what each node adds.
LEMMA CountsKept == TypeOK /\ PhaseInv /\ CountInv /\ Next => CountInv'
<1> SUFFICES ASSUME TypeOK, PhaseInv, CountInv, Next, TypeOK', NEW i \in Jobs,
                    phase'[i] = "running"
             PROVE  /\ Aggregated(i)' =>
                         /\ AllSpoken(i)'
                         /\ IF pattern' = "chain" THEN Said(i)' = Len(cast'[i]) ELSE Said(i)' >= 1
                    /\ \A k \in DOMAIN turns'[i] :
                         turns'[i][k].by = "aggregator" => k = Len(turns'[i])
                    /\ pattern' = "chain" => Said(i)' <= Len(cast'[i])
                    /\ pattern' # "chain" =>
                         /\ turn'[i] = request'[i].cur + Said(i)'
                         /\ idx'[i] % Len(cast'[i]) = turn'[i] % Len(cast'[i])
                         /\ Said(i)' <= 1 \/ turn'[i] <= TotalTurns(i)'
  BY TypesKept DEF CountInv
<1> DEFINE Counted ==
             /\ Aggregated(i) =>
                  /\ AllSpoken(i)
                  /\ IF pattern = "chain" THEN Said(i) = Len(cast[i]) ELSE Said(i) >= 1
             /\ \A k \in DOMAIN turns[i] : turns[i][k].by = "aggregator" => k = Len(turns[i])
             /\ pattern = "chain" => Said(i) <= Len(cast[i])
             /\ pattern # "chain" =>
                  /\ turn[i] = request[i].cur + Said(i)
                  /\ idx[i] % Len(cast[i]) = turn[i] % Len(cast[i])
                  /\ Said(i) <= 1 \/ turn[i] <= TotalTurns(i)
<1> SUFFICES Counted'
  OBVIOUS
<1>1. RunTypes /\ PanelTypes
  BY TypesInParts
<1>2. ASSUME phase[i] = "running", turns'[i] = turns[i], cast'[i] = cast[i], turn'[i] = turn[i],
             idx'[i] = idx[i], request'[i] = request[i], pattern' = pattern
      PROVE  Counted'
  BY <1>2
  DEF CountInv, Aggregated, AllSpoken, Said, TotalTurns, TurnsOf, MaxTurns
<1>3. CASE PanelStep
  <2>1. phase[i] = "running" /\ request'[i] = request[i]
    BY <1>1, <1>3, PanelPosts DEF RunTypes, PanelTypes
  <2> QED
    BY <1>2, <1>3, <2>1, PanelLeavesRuns
<1>4. ASSUME NEW j \in Jobs, NEW players \in Casts, Start(j, players) PROVE Counted'
  <2>1. CASE i # j
    BY <1>1, <1>2, <1>4, <2>1 DEF Start, RunTypes, panelVars, postVars
  <2>2. CASE i = j
    <3>1. turns'[i] = <<>> /\ turn'[i] = request'[i].cur /\ idx'[i] = turn'[i]
          /\ cast'[i] \in Seq(Names) /\ turn'[i] \in Nat
      BY <1>1, <1>4, <2>2, CastNames DEF Start, RunTypes, PanelTypes, postVars
    <3>2. ~ Aggregated(i)' /\ Said(i)' = 0
      BY <3>1 DEF Aggregated, Said
    <3> QED
      BY <3>1, <3>2
  <2> QED
    BY <2>1, <2>2
<1>5. ASSUME NEW j \in Jobs, NEW by, Speaks(j, by) PROVE Counted'
  <2>1. UNCHANGED <<pattern, request, phase, cast>>
    BY <1>5 DEF Speaks, Dispatch, ChainLink, Aggregate, panelVars, postVars
  <2>2. CASE i # j
    <3>1. turns'[i] = turns[i]
      BY <1>5, <2>2, TurnAdded
    <3>2. turn'[i] = turn[i] /\ idx'[i] = idx[i]
      BY <1>1, <1>5, <2>2 DEF Speaks, Dispatch, ChainLink, Aggregate, RunTypes
    <3> QED
      BY <1>2, <2>1, <3>1, <3>2
  <2>3. CASE i = j
    <3> DEFINE n == Len(turns[i])
               L == Len(cast[i])
    <3>1. n \in Nat /\ L \in Nat \ {0} /\ turn[i] \in Nat /\ idx[i] \in Nat
          /\ request[i].cur \in Nat
          /\ TotalTurns(i) \in Nat
      <4>1. TotalTurns(i) \in Nat /\ n \in Nat
        BY TotalIsNumber
      <4>2. turn[i] \in Nat /\ idx[i] \in Nat /\ request[i].cur \in Nat
        BY <1>1 DEF RunTypes, PanelTypes
      <4>3. L \in Nat \ {0}
        BY <1>1, <2>1 DEF RunTypes, PhaseInv
      <4> QED
        BY <4>1, <4>2, <4>3
    <3>2. Len(turns'[i]) = n + 1 /\ Said(i) = n /\ (Aggregated(i)' <=> by = "aggregator")
          /\ Said(i)' = n + (IF by = "aggregator" THEN 0 ELSE 1)
      BY <1>5, <2>3, TurnAdded
    <3>3. \A k \in DOMAIN turns'[i] : turns'[i][k].by = "aggregator" => k = Len(turns'[i])
      <4>1. turns' \in [Jobs -> Seq(Spoken)]
        BY DEF TypeOK
      <4>2. DOMAIN turns'[i] = 1 .. n + 1
        BY <3>2, <4>1
      <4>3. \A k \in 1 .. n : turns'[i][k].by # "aggregator"
        BY <1>5, <2>3, TurnAdded
      <4> QED
        BY <3>1, <3>2, <4>2, <4>3
    <3>4. TotalTurns(i)' = TotalTurns(i)
      BY <2>1 DEF TotalTurns, TurnsOf, MaxTurns
    <3>5. CASE Dispatch(i)
      <4>1. turn'[i] = turn[i] + 1 /\ idx'[i] = (idx[i] + 1) % L /\ pattern # "chain"
            /\ ~ AllSpoken(i) /\ by # "aggregator"
        BY <1>1, <1>5, <2>3, <3>5, SpeakerKnown DEF Dispatch, Aggregate, RunTypes
      <4>2. turn[i] = request[i].cur + n /\ idx[i] % L = turn[i] % L
        BY <2>1, <3>2, <4>1 DEF CountInv
      <4>3. idx'[i] % L = (turn[i] + 1) % L
        BY <3>1, <4>1, <4>2, NextInTurn
      <4>4. n = 0 \/ turn[i] < TotalTurns(i)
        BY <1>1, <3>1, <4>1 DEF AllSpoken, RunTypes
      <4> HIDE DEF n, L
      <4>5. turn'[i] = request[i].cur + Said(i)' /\ (Said(i)' <= 1 \/ turn'[i] <= TotalTurns(i))
        <5>1. turn'[i] = turn[i] + 1 /\ Said(i)' = n + 1
          BY <3>2, <4>1
        <5> QED
          BY <3>1, <4>2, <4>4, <5>1
      <4> QED
        BY <2>1, <3>2, <3>3, <3>4, <4>1, <4>3, <4>5 DEF L
    <3>6. CASE ChainLink(i)
      <4>1. pattern = "chain" /\ n < L /\ by # "aggregator"
        BY <1>5, <2>3, <3>1, <3>6, SpeakerKnown DEF ChainLink, AllSpoken, Aggregate
      <4> HIDE DEF n
      <4> QED
        BY <2>1, <3>1, <3>2, <3>3, <4>1
    <3>7. CASE Aggregate(i)
      <4>1. AllSpoken(i) /\ by = "aggregator" /\ turn'[i] = turn[i] /\ idx'[i] = idx[i]
        BY <1>5, <2>3, <3>7, SpeakerKnown DEF Aggregate
      <4>2. Said(i)' = n /\ turns'[i] # <<>>
        BY <3>1, <3>2, <4>1
      <4>3. AllSpoken(i)'
        <5>1. CASE pattern = "chain"
          BY <2>1, <3>1, <3>2, <4>1, <5>1 DEF AllSpoken
        <5>2. CASE pattern # "chain"
          BY <2>1, <3>4, <4>1, <4>2, <5>2 DEF AllSpoken
        <5> QED
          BY <5>1, <5>2
      <4>4. CASE pattern = "chain"
        <5>1. n >= L /\ n <= L
          BY <2>1, <3>2, <4>1, <4>4 DEF AllSpoken, CountInv
        <5> QED
          BY <2>1, <3>1, <3>3, <4>2, <4>3, <4>4, <5>1
      <4>5. CASE pattern # "chain"
        <5>1. n # 0
          BY <1>1, <4>1, <4>5 DEF AllSpoken, RunTypes
        <5>2. /\ turn[i] = request[i].cur + n
              /\ idx[i] % L = turn[i] % L
              /\ n <= 1 \/ turn[i] <= TotalTurns(i)
          BY <2>1, <3>2, <4>5 DEF CountInv
        <5> QED
          BY <2>1, <3>1, <3>3, <3>4, <4>1, <4>2, <4>3, <4>5, <5>1, <5>2
      <4> QED
        BY <4>4, <4>5
    <3> QED
      BY <1>5, <2>3, <3>5, <3>6, <3>7 DEF Speaks
  <2> QED
    BY <2>2, <2>3
<1>6. ASSUME NEW j \in Jobs, Leaves(j) PROVE Counted'
  <2>1. PICK next \in {"queued", "closing", "settled"} : Leave(j, next)
    BY <1>6 DEF Leaves, SaveDebate, Reject, Fail, Interrupt, EndUnsaved, Finish, SaveResult
  <2>2. i # j
    BY <1>1, <2>1 DEF Leave, RunTypes
  <2> QED
    BY <1>1, <1>2, <2>1, <2>2 DEF Leave, RunTypes, panelVars, postVars
<1> QED
  BY <1>3, <1>4, <1>5, <1>6, StepKinds

-----------------------------------------------------------------------------
(* Who speaks, and for how long *)

\* The request of a job that was posted stays.
LEMMA RequestStays ==
  ASSUME TypeOK, PhaseInv, PanelStep, NEW i \in Jobs, phase[i] # "none"
  PROVE  request'[i] = request[i]
<1>1. posted \in Nat /\ request \in [Jobs -> [max : Nat, cur : Nat]]
  BY TypesInParts, DebateAssumption DEF PanelTypes
<1>2. i # posted + 1
  BY <1>1 DEF PhaseInv
<1> QED
  BY <1>1, <1>2, PanelPosts

\* A debate that is finished stays as it is, with its request, until something else is
\* stored in its place.
LEMMA FinishedStays ==
  ASSUME TypeOK, PhaseInv, Next, NEW i \in Jobs
  PROVE  \/ SaveDebate(i)
         \/ result'[i].kind # "debate"
         \/ /\ result'[i] = result[i] /\ result[i].kind = "debate"
            /\ pattern' = pattern /\ request'[i] = request[i]
<1> SUFFICES ASSUME ~ SaveDebate(i), result'[i].kind = "debate"
             PROVE  /\ result'[i] = result[i]
                    /\ pattern' = pattern /\ request'[i] = request[i]
  OBVIOUS
<1>1. CASE PanelStep
  <2>1. result' = result /\ pattern' = pattern /\ phase[i] # "none"
    BY <1>1, PanelLeavesRuns DEF PhaseInv
  <2> QED
    BY <1>1, <2>1, RequestStays
<1>2. ASSUME NEW j \in Jobs, NEW players \in Casts, Start(j, players)
      PROVE  result' = result /\ pattern' = pattern /\ request' = request
  BY <1>2 DEF Start, panelVars, postVars
<1>3. ASSUME NEW j \in Jobs, NEW by, Speaks(j, by)
      PROVE  result' = result /\ pattern' = pattern /\ request' = request
  BY <1>3 DEF Speaks, Dispatch, ChainLink, Aggregate, panelVars, postVars
<1>4. ASSUME NEW j \in Jobs, Leaves(j)
      PROVE  result'[i] = result[i] /\ pattern' = pattern /\ request' = request
  <2>1. pattern' = pattern /\ request' = request
    BY <1>4
    DEF Leaves, SaveDebate, Reject, Fail, Interrupt, EndUnsaved, Finish, SaveResult, Leave,
        panelVars, postVars
  <2>2. result'[i] = result[i]
    BY <1>4, WhatIsStored
  <2> QED
    BY <2>1, <2>2
<1> QED
  BY <1>1, <1>2, <1>3, <1>4, StepKinds

\* Behind the stream of a finished debate nothing comes but what a later delivery says.
LEMMA StreamBehind ==
  ASSUME TypeOK, PhaseInv, Next, NEW i \in Jobs, result[i].kind = "debate", ~ SaveDebate(i)
  PROVE  \/ stream'[i] = stream[i] /\ tries'[i] \in {tries[i], tries[i] + 1}
         \/ /\ \E said \in Spoken : stream'[i] = Append(stream[i], said)
            /\ tries'[i] = tries[i] /\ result[i].try < tries[i]
<1>1. RunTypes
  BY TypesInParts
<1>2. CASE PanelStep
  BY <1>2, PanelLeavesRuns
<1>3. ASSUME NEW j \in Jobs, NEW players \in Casts, Start(j, players)
      PROVE  stream'[i] = stream[i] /\ tries'[i] \in {tries[i], tries[i] + 1}
  BY <1>1, <1>3 DEF Start, RunTypes
<1>4. ASSUME NEW j \in Jobs, NEW by, Speaks(j, by)
      PROVE  \/ stream'[i] = stream[i] /\ tries'[i] = tries[i]
             \/ /\ \E said \in Spoken : stream'[i] = Append(stream[i], said)
                /\ tries'[i] = tries[i] /\ result[i].try < tries[i]
  <2>1. tries' = tries /\ phase[j] = "running"
    BY <1>4 DEF Speaks, Dispatch, ChainLink, Aggregate
  <2>2. PICK said \in Spoken : stream' = [stream EXCEPT ![j] = Append(stream[j], said)]
    BY <1>4, Uttered
  <2>3. CASE i # j
    BY <1>1, <2>1, <2>2, <2>3 DEF RunTypes
  <2>4. CASE i = j
    <3>1. stream'[i] = Append(stream[i], said)
      BY <1>1, <2>2, <2>4 DEF RunTypes
    <3>2. result[i].try < tries[i]
      BY <2>1, <2>4 DEF PhaseInv
    <3> QED
      BY <2>1, <3>1, <3>2
  <2> QED
    BY <2>3, <2>4
<1>5. ASSUME NEW j \in Jobs, Leaves(j)
      PROVE  stream'[i] = stream[i] /\ tries'[i] \in {tries[i], tries[i] + 1}
  <2>1. stream' = stream
    BY <1>5
    DEF Leaves, SaveDebate, Reject, Fail, Interrupt, EndUnsaved, Finish, SaveResult, Leave
  <2>2. tries'[i] \in {tries[i], tries[i] + 1}
    BY <1>1, <1>5, DeliveryCounted DEF RunTypes
  <2> QED
    BY <2>1, <2>2
<1> QED
  BY <1>2, <1>3, <1>4, <1>5, StepKinds

\* Whose turn it is was settled by the turns before.
LEMMA RotationStep == TypeOK /\ PhaseInv /\ CountInv /\ RotationKept /\ Next => RotationKept'
<1> SUFFICES ASSUME TypeOK, PhaseInv, CountInv, RotationKept, Next, TypeOK', NEW i \in Jobs,
                    NEW k \in DOMAIN turns'[i], turns'[i][k].by # "aggregator"
             PROVE  turns'[i][k].by =
                      IF pattern' = "chain" THEN cast'[i][k]
                      ELSE cast'[i][((request'[i].cur + k - 1) % Len(cast'[i])) + 1]
  BY TypesKept DEF RotationKept
<1>1. RunTypes /\ PanelTypes
  BY TypesInParts
<1>2. ASSUME phase[i] = "running", turns'[i] = turns[i], cast'[i] = cast[i],
             request'[i] = request[i], pattern' = pattern
      PROVE  turns'[i][k].by =
               IF pattern' = "chain" THEN cast'[i][k]
               ELSE cast'[i][((request'[i].cur + k - 1) % Len(cast'[i])) + 1]
  BY <1>2 DEF RotationKept
<1>3. turns'[i] # <<>>
  BY DEF TypeOK
<1>4. CASE PanelStep
  <2>1. turns' = turns /\ phase[i] = "running"
    BY <1>3, <1>4, PanelLeavesRuns DEF PhaseInv
  <2>2. request'[i] = request[i]
    BY <1>4, <2>1, RequestStays
  <2> QED
    BY <1>2, <1>4, <2>1, <2>2, PanelLeavesRuns
<1>5. ASSUME NEW j \in Jobs, NEW players \in Casts, Start(j, players), i # j
      PROVE  phase[i] = "running" /\ turns'[i] = turns[i] /\ cast'[i] = cast[i]
             /\ request'[i] = request[i] /\ pattern' = pattern
  BY <1>1, <1>3, <1>5 DEF Start, RunTypes, PhaseInv, panelVars, postVars
<1>6. ASSUME NEW players \in Casts, Start(i, players) PROVE FALSE
  BY <1>1, <1>3, <1>6 DEF Start, RunTypes
<1>7. ASSUME NEW j \in Jobs, NEW by, Speaks(j, by)
      PROVE  turns'[i][k].by =
               IF pattern' = "chain" THEN cast'[i][k]
               ELSE cast'[i][((request'[i].cur + k - 1) % Len(cast'[i])) + 1]
  <2>1. UNCHANGED <<pattern, request, cast>>
    BY <1>7 DEF Speaks, Dispatch, ChainLink, Aggregate, panelVars, postVars
  <2>2. CASE i # j
    <3>1. turns'[i] = turns[i]
      BY <1>7, <2>2, TurnAdded
    <3>2. phase[i] = "running"
      BY <1>3, <3>1 DEF PhaseInv
    <3> QED
      BY <1>2, <2>1, <3>1, <3>2
  <2>3. CASE i = j
    <3> DEFINE n == Len(turns[i])
    <3>1. /\ Len(turns'[i]) = n + 1 /\ turns'[i][n + 1].by = by /\ n \in Nat /\ Said(i) = n
          /\ \A m \in 1 .. n : turns'[i][m] = turns[i][m]
      BY <1>7, <2>3, TurnAdded, TotalIsNumber
    <3>2. turns' \in [Jobs -> Seq(Spoken)]
      BY DEF TypeOK
    <3>3. DOMAIN turns'[i] = 1 .. n + 1 /\ DOMAIN turns[i] = 1 .. n
      BY <1>1, <3>1, <3>2 DEF RunTypes
    <3>4. CASE k \in 1 .. n
      <4>1. turns'[i][k] = turns[i][k] /\ k \in DOMAIN turns[i]
        BY <3>1, <3>3, <3>4
      <4> QED
        BY <2>1, <4>1 DEF RotationKept
    <3>5. CASE k = n + 1
      <4>1. turns'[i][k].by = by /\ ~ Aggregate(i)
        BY <1>7, <2>3, <3>1, <3>5, SpeakerKnown
      <4>2. CASE Dispatch(i)
        <5>1. pattern # "chain" /\ phase[i] = "running" /\ by = cast[i][(idx[i] % Len(cast[i])) + 1]
          BY <1>7, <2>3, <4>1, <4>2 DEF Speaks, Dispatch, ChainLink
        <5>2. turn[i] = request[i].cur + n /\ idx[i] % Len(cast[i]) = turn[i] % Len(cast[i])
          BY <3>1, <5>1 DEF CountInv
        <5>3. request[i].cur \in Nat
          BY <1>1 DEF PanelTypes
        <5> HIDE DEF n
        <5>4. request[i].cur + k - 1 = turn[i]
          BY <3>1, <3>5, <5>2, <5>3
        <5> QED
          BY <2>1, <4>1, <5>1, <5>2, <5>4
      <4>3. CASE ChainLink(i)
        BY <1>7, <2>1, <2>3, <3>5, <4>1, <4>3 DEF Speaks, Dispatch, ChainLink
      <4> QED
        BY <1>7, <2>3, <4>1, <4>2, <4>3 DEF Speaks
    <3> QED
      BY <3>1, <3>3, <3>4, <3>5
  <2> QED
    BY <2>2, <2>3
<1>8. ASSUME NEW j \in Jobs, Leaves(j)
      PROVE  phase[i] = "running" /\ turns'[i] = turns[i] /\ cast'[i] = cast[i]
             /\ request'[i] = request[i] /\ pattern' = pattern
  <2>1. PICK next \in {"queued", "closing", "settled"} : Leave(j, next)
    BY <1>8 DEF Leaves, SaveDebate, Reject, Fail, Interrupt, EndUnsaved, Finish, SaveResult
  <2>2. i # j
    BY <1>1, <1>3, <2>1 DEF Leave, RunTypes
  <2> QED
    BY <1>1, <1>3, <2>1, <2>2 DEF Leave, RunTypes, PhaseInv, panelVars, postVars
<1> QED
  BY <1>2, <1>4, <1>5, <1>6, <1>7, <1>8, StepKinds

\* A run that ends has said what was asked for.
LEMMA LengthStep == TypeOK /\ PhaseInv /\ CountInv /\ FinishedAtLength /\ Next => FinishedAtLength'
<1> DEFINE Finished(i) ==
             LET spoken == Len(result[i].turns) - 1
                 left == TurnsOf(i, result[i].size) - request[i].cur
             IN  /\ spoken = IF pattern = "chain" THEN result[i].size
                              ELSE IF left > 1 THEN left ELSE 1
                 /\ \A k \in DOMAIN result[i].turns :
                      result[i].turns[k].by = "aggregator" <=> k = spoken + 1
<1> SUFFICES ASSUME TypeOK, PhaseInv, CountInv, FinishedAtLength, Next, NEW i \in Jobs,
                    result'[i].kind = "debate"
             PROVE  Finished(i)'
  BY DEF FinishedAtLength
<1>1. CASE ~ SaveDebate(i)
  <2>1. /\ result'[i] = result[i] /\ result[i].kind = "debate"
        /\ pattern' = pattern /\ request'[i] = request[i]
    BY <1>1, FinishedStays
  <2>2. TurnsOf(i, result[i].size)' = TurnsOf(i, result[i].size)
    BY <2>1 DEF TurnsOf, MaxTurns
  <2>3. Finished(i)
    BY <2>1 DEF FinishedAtLength
  <2> QED
    BY <2>1, <2>2, <2>3
<1>2. CASE SaveDebate(i)
  <2> DEFINE n == Len(turns[i])
  <2>1. phase[i] = "running" /\ Aggregated(i) /\ UNCHANGED <<pattern, cast, request>>
    BY <1>2 DEF SaveDebate, SaveResult, Leave, panelVars, postVars
  <2>2. result'[i].turns = turns[i] /\ result'[i].size = Len(cast[i])
    BY <1>2 DEF SaveDebate, SaveResult, TypeOK
  <2>3. TurnsOf(i, result[i].size)' = TotalTurns(i)
    BY <2>1, <2>2 DEF TotalTurns, TurnsOf, MaxTurns
  <2>4. Said(i) = n - 1 /\ n \in Nat /\ TotalTurns(i) \in Nat /\ request[i].cur \in Nat
    BY <2>1, TotalIsNumber DEF Said, TypeOK
  <2>5. turns[i] \in Seq(Spoken) /\ n # 0 /\ DOMAIN turns[i] = 1 .. n
    BY <2>1 DEF TypeOK, Aggregated
  <2>6. \A k \in DOMAIN turns[i] : turns[i][k].by = "aggregator" <=> k = n
    <3>1. turns[i][n].by = "aggregator"
      BY <2>1 DEF Aggregated, Last
    <3> QED
      BY <2>1, <3>1 DEF CountInv
  <2>7. n - 1 = IF pattern = "chain" THEN Len(cast[i])
                ELSE IF TotalTurns(i) - request[i].cur > 1 THEN TotalTurns(i) - request[i].cur
                ELSE 1
    <3>1. CASE pattern = "chain"
      BY <2>1, <2>4, <3>1 DEF CountInv
    <3>2. CASE pattern # "chain"
      <4>1. /\ Said(i) >= 1 /\ AllSpoken(i)
            /\ turn[i] = request[i].cur + Said(i)
            /\ Said(i) <= 1 \/ turn[i] <= TotalTurns(i)
        BY <2>1, <3>2 DEF CountInv
      <4>2. turn[i] >= TotalTurns(i)
        BY <3>2, <4>1 DEF AllSpoken
      <4> HIDE DEF n
      <4> QED
        BY <2>4, <3>2, <4>1, <4>2
    <3> QED
      BY <3>1, <3>2
  <2> HIDE DEF n
  <2>8. (n - 1) + 1 = n
    BY <2>4
  <2> QED
    BY <2>1, <2>2, <2>3, <2>6, <2>7, <2>8 DEF n
<1> QED
  BY <1>1, <1>2

-----------------------------------------------------------------------------
(* The stream *)

\* A run adds to its turns and to its stream alike, and begins with no turns.
LEMMA StreamKept == TypeOK /\ PhaseInv /\ StreamInv /\ Next => StreamInv'
<1> SUFFICES ASSUME TypeOK, PhaseInv, StreamInv, Next, NEW i \in Jobs, phase'[i] = "running"
             PROVE  EndsWith(stream'[i], turns'[i]) /\ (tries'[i] = 1 => stream'[i] = turns'[i])
  BY DEF StreamInv
<1>1. RunTypes
  BY TypesInParts
<1>2. ASSUME phase[i] = "running", turns'[i] = turns[i], stream'[i] = stream[i],
             tries'[i] = tries[i]
      PROVE  EndsWith(stream'[i], turns'[i]) /\ (tries'[i] = 1 => stream'[i] = turns'[i])
  BY <1>2 DEF StreamInv
<1>3. CASE PanelStep
  <2>1. phase[i] = "running"
    BY <1>1, <1>3, TypesInParts, PanelPosts DEF RunTypes
  <2> QED
    BY <1>2, <1>3, <2>1, PanelLeavesRuns
<1>4. ASSUME NEW j \in Jobs, NEW players \in Casts, Start(j, players)
      PROVE  EndsWith(stream'[i], turns'[i]) /\ (tries'[i] = 1 => stream'[i] = turns'[i])
  <2>1. CASE i # j
    BY <1>1, <1>2, <1>4, <2>1 DEF Start, RunTypes
  <2>2. CASE i = j
    <3>1. turns'[i] = <<>> /\ stream'[i] = stream[i] /\ tries'[i] = tries[i] + 1
      BY <1>1, <1>4, <2>2 DEF Start, RunTypes
    <3>2. stream[i] \in Seq(Spoken) /\ tries[i] \in Nat
      BY <1>1, DebateAssumption DEF RunTypes
    <3>3. EndsWith(stream[i], <<>>)
      BY <3>2 DEF EndsWith
    <3>4. tries'[i] = 1 => stream[i] = <<>>
      BY <3>1, <3>2 DEF PhaseInv
    <3> QED
      BY <3>1, <3>3, <3>4
  <2> QED
    BY <2>1, <2>2
<1>5. ASSUME NEW j \in Jobs, NEW by, Speaks(j, by)
      PROVE  EndsWith(stream'[i], turns'[i]) /\ (tries'[i] = 1 => stream'[i] = turns'[i])
  <2>1. UNCHANGED <<phase, tries>>
    BY <1>5 DEF Speaks, Dispatch, ChainLink, Aggregate
  <2>2. PICK said \in Spoken : /\ turns' = [turns EXCEPT ![j] = Append(turns[j], said)]
                               /\ stream' = [stream EXCEPT ![j] = Append(stream[j], said)]
    BY <1>5, Uttered
  <2>3. CASE i # j
    BY <1>1, <1>2, <2>1, <2>2, <2>3 DEF RunTypes
  <2>4. CASE i = j
    <3>1. EndsWith(stream[i], turns[i]) /\ (tries[i] = 1 => stream[i] = turns[i])
      BY <2>1 DEF StreamInv
    <3>2. turns'[i] = Append(turns[i], said) /\ stream'[i] = Append(stream[i], said)
      BY <1>1, <2>2, <2>4 DEF RunTypes
    <3>3. turns[i] \in Seq(Spoken) /\ stream[i] \in Seq(Spoken)
      BY <1>1 DEF RunTypes
    <3>4. EndsWith(stream'[i], turns'[i])
      BY <3>1, <3>2, <3>3, EndAppended
    <3> QED
      BY <2>1, <3>1, <3>2, <3>4
  <2> QED
    BY <2>3, <2>4
<1>6. ASSUME NEW j \in Jobs, Leaves(j)
      PROVE  EndsWith(stream'[i], turns'[i]) /\ (tries'[i] = 1 => stream'[i] = turns'[i])
  <2>1. PICK next \in {"queued", "closing", "settled"} : Leave(j, next)
    BY <1>6 DEF Leaves, SaveDebate, Reject, Fail, Interrupt, EndUnsaved, Finish, SaveResult
  <2>2. i # j
    BY <1>1, <2>1 DEF Leave, RunTypes
  <2>3. tries'[i] = tries[i]
    BY <1>1, <1>6, <2>2, DeliveryCounted DEF RunTypes
  <2> QED
    BY <1>1, <1>2, <2>1, <2>2, <2>3 DEF Leave, RunTypes
<1> QED
  BY <1>3, <1>4, <1>5, <1>6, StepKinds

\* A result takes the turns of its run, and a later delivery only adds behind them.
LEMMA ResultStep ==
  TypeOK /\ PhaseInv /\ StreamInv /\ ResultInStream /\ Next => ResultInStream'
<1> SUFFICES ASSUME TypeOK, PhaseInv, StreamInv, ResultInStream, Next, NEW i \in Jobs,
                    result'[i].kind = "debate"
             PROVE  /\ Within(result'[i].turns, stream'[i])
                    /\ result'[i].try = tries'[i] => IsSuffix(result'[i].turns, stream'[i])
                    /\ tries'[i] = 1 => result'[i].turns = stream'[i]
  BY DEF ResultInStream, Within
<1>1. CASE ~ SaveDebate(i)
  <2>1. result'[i] = result[i] /\ result[i].kind = "debate"
    BY <1>1, FinishedStays
  <2>2. /\ Within(result[i].turns, stream[i])
        /\ result[i].try = tries[i] => IsSuffix(result[i].turns, stream[i])
        /\ tries[i] = 1 => result[i].turns = stream[i]
    BY <2>1 DEF ResultInStream
  <2>3. result[i].try \in 1 .. tries[i] /\ tries[i] \in Nat
    BY <2>1, DebateAssumption DEF PhaseInv, TypeOK
  <2>4. CASE stream'[i] = stream[i] /\ tries'[i] \in {tries[i], tries[i] + 1}
    <3>1. /\ result[i].try = tries'[i] => tries'[i] = tries[i]
          /\ tries'[i] = 1 => tries'[i] = tries[i]
      BY <2>3, <2>4
    <3> QED
      BY <2>1, <2>2, <2>4, <3>1
  <2>5. CASE /\ \E said \in Spoken : stream'[i] = Append(stream[i], said)
             /\ tries'[i] = tries[i] /\ result[i].try < tries[i]
    <3>1. PICK said \in Spoken : stream'[i] = Append(stream[i], said)
      BY <2>5
    <3>2. result[i].turns \in Seq(Spoken) /\ stream[i] \in Seq(Spoken)
          /\ <<said>> \in Seq(Spoken)
      BY TypesInParts DEF RunTypes, Results
    <3>3. stream'[i] = stream[i] \o <<said>>
      BY <3>1, <3>2
    <3>4. Within(result[i].turns, stream'[i])
      BY <2>2, <3>2, <3>3, WithinLonger
    <3>5. result[i].try # tries'[i] /\ tries'[i] # 1
      BY <2>3, <2>5
    <3> QED
      BY <2>1, <3>4, <3>5
  <2> QED
    BY <1>1, <2>1, <2>4, <2>5, StreamBehind
<1>2. CASE SaveDebate(i)
  <2>1. phase[i] = "running" /\ UNCHANGED <<stream, tries>> /\ result'[i].turns = turns[i]
    BY <1>2 DEF SaveDebate, SaveResult, Leave, TypeOK
  <2>2. EndsWith(stream[i], turns[i]) /\ (tries[i] = 1 => stream[i] = turns[i])
    BY <2>1 DEF StreamInv
  <2>3. turns[i] \in Seq(Spoken) /\ stream[i] \in Seq(Spoken)
    BY DEF TypeOK
  <2>4. IsSuffix(turns[i], stream[i]) /\ Within(turns[i], stream[i])
    BY <2>2, <2>3, SuffixEnds, EndWithin
  <2> QED
    BY <2>1, <2>2, <2>4
<1> QED
  BY <1>1, <1>2

-----------------------------------------------------------------------------
(* The history *)

\* As long as runs do not overlap, the run under way has the history and what it says is
\* its end.
LEMMA HistoryKept == TypeOK /\ PhaseInv /\ HistoryInv /\ Next => HistoryInv'
<1> SUFFICES ASSUME TypeOK, PhaseInv, HistoryInv, Next, ~ overlapped'
             PROVE  /\ \A i, j \in Running' : i = j
                    /\ \A j \in Running' : view'[j] = thread' /\ EndsWith(thread', turns'[j])
  BY DEF HistoryInv
<1> DEFINE Alone == /\ \A i, j \in Running : i = j
                    /\ \A j \in Running : view[j] = thread /\ EndsWith(thread, turns[j])
<1> SUFFICES Alone'
  OBVIOUS
<1>1. RunTypes
  BY TypesInParts
<1>2. ASSUME overlapped' = overlapped PROVE Alone
  BY <1>2 DEF HistoryInv
<1>3. CASE PanelStep
  <2>1. UNCHANGED <<thread, view, turns, overlapped>>
    BY <1>3, PanelLeavesRuns
  <2>2. Running' = Running
    <3>1. \A j \in Jobs : phase'[j] = "running" <=> phase[j] = "running"
      <4>1. posted \in Nat
        BY TypesInParts, DebateAssumption DEF PanelTypes
      <4>2. posted + 1 \in Jobs => phase[posted + 1] = "none"
        BY <4>1 DEF PhaseInv
      <4> QED
        BY <1>1, <1>3, <4>2, PanelPosts DEF RunTypes
    <3> QED
      BY <3>1 DEF Running
  <2> QED
    BY <1>2, <2>1, <2>2
<1>4. ASSUME NEW j \in Jobs, NEW players \in Casts, Start(j, players) PROVE Alone'
  <2>1. ~ overlapped /\ Running = {}
    BY <1>4 DEF Start, Overlaps
  <2>2. Running' = {j}
    BY <1>1, <1>4, <2>1 DEF Start, Running, RunTypes
  <2>3. view'[j] = thread' /\ turns'[j] = <<>>
    BY <1>1, <1>4 DEF Start, RunTypes
  <2>4. EndsWith(thread', <<>>)
    <3>1. thread' \in Seq(Messages)
      BY TypesKept DEF TypeOK
    <3> QED
      BY <3>1 DEF EndsWith
  <2> QED
    BY <2>2, <2>3, <2>4
<1>5. ASSUME NEW j \in Jobs, NEW by, Speaks(j, by) PROVE Alone'
  <2>1. UNCHANGED <<phase, overlapped>> /\ phase[j] = "running"
    BY <1>5 DEF Speaks, Dispatch, ChainLink, Aggregate
  <2>2. Running' = Running /\ j \in Running /\ Alone
    BY <1>2, <2>1 DEF Running
  <2>3. Running' = {j} /\ view[j] = thread /\ EndsWith(thread, turns[j])
    BY <2>2
  <2>4. PICK said \in Spoken : /\ view' = [view EXCEPT ![j] = Append(view[j], said)]
                               /\ thread' = Append(view[j], said)
                               /\ turns' = [turns EXCEPT ![j] = Append(turns[j], said)]
    BY <1>5, Uttered
  <2>5. view'[j] = thread' /\ thread' = Append(thread, said)
        /\ turns'[j] = Append(turns[j], said)
    BY <1>1, <2>3, <2>4 DEF RunTypes
  <2>6. said \in Messages /\ turns[j] \in Seq(Messages) /\ thread \in Seq(Messages)
    <3>1. Spoken \subseteq Messages
      BY DEF Spoken, Messages
    <3>2. turns[j] \in Seq(Spoken) /\ thread \in Seq(Messages)
      BY <1>1 DEF RunTypes
    <3> QED
      BY <3>1, <3>2
  <2>7. EndsWith(thread', turns'[j])
    BY <2>3, <2>5, <2>6, EndAppended
  <2> QED
    BY <2>3, <2>5, <2>7
<1>6. ASSUME NEW j \in Jobs, Leaves(j) PROVE Alone'
  <2>1. PICK next \in {"queued", "closing", "settled"} : Leave(j, next)
    BY <1>6 DEF Leaves, SaveDebate, Reject, Fail, Interrupt, EndUnsaved, Finish, SaveResult
  <2>2. Alone /\ thread' = thread
    BY <1>2, <2>1 DEF Leave
  <2>3. \A i \in Running' : i \in Running /\ view'[i] = view[i] /\ turns'[i] = turns[i]
    BY <1>1, <2>1 DEF Running, Leave, RunTypes
  <2> QED
    BY <2>2, <2>3
<1> QED
  BY <1>3, <1>4, <1>5, <1>6, StepKinds

\* The history only grows while runs do not overlap.
LEMMA HistoryGrows ==
  ASSUME TypeOK, PhaseInv, HistoryInv, Next, ~ overlapped'
  PROVE  ~ overlapped /\ \E more \in Seq(Messages) : thread' = thread \o more
<1>1. thread \in Seq(Messages) /\ <<>> \in Seq(Messages) /\ thread = thread \o <<>>
  BY TypesInParts DEF RunTypes
<1>2. ASSUME thread' = thread, overlapped' = overlapped
      PROVE  ~ overlapped /\ \E more \in Seq(Messages) : thread' = thread \o more
  <2>1. thread' = thread \o <<>>
    BY <1>1, <1>2
  <2> QED
    BY <1>1, <1>2, <2>1
<1>3. ASSUME NEW j \in Jobs, NEW players \in Casts, Start(j, players)
      PROVE  ~ overlapped /\ \E more \in Seq(Messages) : thread' = thread \o more
  <2> DEFINE opening == IF request[j].cur = 0 THEN << [job |-> j, by |-> "user"] >> ELSE <<>>
  <2>1. [job |-> j, by |-> "user"] \in Messages
    BY DEF Messages
  <2>2. opening \in Seq(Messages)
    BY <2>1
  <2>3. thread' = thread \o opening /\ ~ overlapped
    BY <1>3 DEF Start, Overlaps
  <2> HIDE DEF opening
  <2> QED
    BY <2>2, <2>3
<1>4. ASSUME NEW j \in Jobs, NEW by, Speaks(j, by)
      PROVE  ~ overlapped /\ \E more \in Seq(Messages) : thread' = thread \o more
  <2>1. overlapped' = overlapped /\ j \in Running
    BY <1>4 DEF Speaks, Dispatch, ChainLink, Aggregate, Running
  <2>2. view[j] = thread
    BY <2>1 DEF HistoryInv
  <2>3. PICK said \in Spoken : thread' = Append(view[j], said)
    BY <1>4, Uttered
  <2>4. said \in Messages
    BY DEF Spoken, Messages
  <2>5. thread' = thread \o <<said>> /\ <<said>> \in Seq(Messages)
    BY <1>1, <2>2, <2>3, <2>4
  <2> QED
    BY <2>1, <2>5
<1>5. ASSUME NEW j \in Jobs, Leaves(j)
      PROVE  ~ overlapped /\ \E more \in Seq(Messages) : thread' = thread \o more
  <2>1. thread' = thread /\ overlapped' = overlapped
    BY <1>5 DEF Leaves, SaveDebate, Reject, Fail, Interrupt, EndUnsaved, Finish, SaveResult, Leave
  <2> QED
    BY <1>2, <2>1
<1>6. CASE PanelStep
  BY <1>2, <1>6, PanelLeavesRuns
<1> QED
  BY <1>3, <1>4, <1>5, <1>6, StepKinds

\* A finished debate was the end of the history when its run ended, and what follows it
\* does not take it away.
LEMMA HistoryStep ==
  TypeOK /\ PhaseInv /\ HistoryInv /\ HistoryKeepsDebates /\ Next => HistoryKeepsDebates'
<1> SUFFICES ASSUME TypeOK, PhaseInv, HistoryInv, HistoryKeepsDebates, Next, ~ overlapped',
                    NEW i \in Jobs, result'[i].kind = "debate"
             PROVE  Within(result'[i].turns, thread')
  BY DEF HistoryKeepsDebates, Within
<1>1. RunTypes /\ Spoken \subseteq Messages
  BY TypesInParts DEF Spoken, Messages
<1>2. ~ overlapped /\ \E more \in Seq(Messages) : thread' = thread \o more
  BY HistoryGrows
<1>3. CASE ~ SaveDebate(i)
  <2>1. result'[i] = result[i] /\ result[i].kind = "debate"
    BY <1>3, FinishedStays
  <2>2. Within(result[i].turns, thread)
    BY <1>2, <2>1 DEF HistoryKeepsDebates, Within
  <2>3. result[i].turns \in Seq(Messages) /\ thread \in Seq(Messages)
    <3>1. result[i].turns \in Seq(Spoken) /\ thread \in Seq(Messages)
      BY <1>1 DEF RunTypes, Results
    <3> QED
      BY <1>1, <3>1
  <2> QED
    BY <1>2, <2>1, <2>2, <2>3, WithinLonger
<1>4. CASE SaveDebate(i)
  <2>1. i \in Running /\ thread' = thread /\ result'[i].turns = turns[i]
    BY <1>1, <1>4 DEF SaveDebate, SaveResult, Leave, Running, RunTypes
  <2>2. EndsWith(thread, turns[i])
    BY <1>2, <2>1 DEF HistoryInv
  <2>3. turns[i] \in Seq(Messages) /\ thread \in Seq(Messages)
    <3>1. turns[i] \in Seq(Spoken) /\ thread \in Seq(Messages)
      BY <1>1 DEF RunTypes
    <3> QED
      BY <1>1, <3>1
  <2>4. Within(turns[i], thread)
    BY <2>2, <2>3, EndWithin
  <2> QED
    BY <2>1, <2>4
<1> QED
  BY <1>3, <1>4

-----------------------------------------------------------------------------
\* Nothing has been said.
LEMMA Initially == Init => IInv
<1> SUFFICES ASSUME Init PROVE IInv
  OBVIOUS
<1>1. NoResult \in Results /\ NoResult.kind = "none"
  BY DEF NoResult, Results
<1>2. TypeOK
  <2>1. PanelTypes
    <3>1. 0 \in 0 .. MaxPosts /\ StartTurns \in Nat
      BY DebateAssumption
    <3>2. [max |-> 0, cur |-> 0] \in [max : Nat, cur : Nat]
          /\ NotAsked \in [from : Nat, more : Nat]
      BY DEF NotAsked
    <3>3. request \in [Jobs -> [max : Nat, cur : Nat]]
          /\ asked \in [Jobs -> [from : Nat, more : Nat]]
      BY <3>2 DEF Init
    <3> QED
      BY <3>1, <3>3 DEF Init, PanelTypes
  <2>2. RunTypes
    <3>1. 0 \in 0 .. MaxTries
      BY DebateAssumption
    <3>2. result \in [Jobs -> Results]
      BY <1>1 DEF Init
    <3>3. /\ cast \in [Jobs -> Seq(Names)] /\ view \in [Jobs -> Seq(Messages)]
          /\ turns \in [Jobs -> Seq(Spoken)] /\ stream \in [Jobs -> Seq(Spoken)]
          /\ thread \in Seq(Messages)
      BY DEF Init
    <3> QED
      BY <3>1, <3>2, <3>3 DEF Init, RunTypes
  <2> QED
    BY <2>1, <2>2, TypesInParts
<1>3. Running = {} /\ \A j \in Jobs : phase[j] = "none" /\ result[j].kind = "none"
                                       /\ turns[j] = <<>>
  BY <1>1 DEF Init, Running
<1>4. PhaseInv /\ CountInv /\ StreamInv /\ HistoryInv
  BY <1>3 DEF Init, PhaseInv, CountInv, StreamInv, HistoryInv
<1>5. RotationKept /\ FinishedAtLength /\ ResultInStream /\ HistoryKeepsDebates
  BY <1>3 DEF RotationKept, FinishedAtLength, ResultInStream, HistoryKeepsDebates
<1> QED
  BY <1>2, <1>4, <1>5 DEF IInv

\* Every step keeps the invariant.
LEMMA Invariance == IInv /\ [Next]_vars => IInv'
<1> SUFFICES ASSUME IInv, [Next]_vars PROVE IInv'
  OBVIOUS
<1>1. CASE Next
  BY <1>1, TypesKept, PhasesKept, CountsKept, RotationStep, LengthStep, StreamKept, ResultStep,
     HistoryKept, HistoryStep DEF IInv
<1>2. CASE UNCHANGED vars
  <2>1. TypeOK' /\ PhaseInv' /\ CountInv'
    BY <1>2
    DEF vars, IInv, TypeOK, PhaseInv, CountInv, Said, Aggregated, AllSpoken, TotalTurns,
        TurnsOf, MaxTurns
  <2>2. StreamInv' /\ HistoryInv'
    BY <1>2 DEF vars, IInv, StreamInv, HistoryInv, Running
  <2>3. RotationKept' /\ FinishedAtLength'
    BY <1>2 DEF vars, IInv, RotationKept, FinishedAtLength, TurnsOf, MaxTurns
  <2>4. ResultInStream' /\ HistoryKeepsDebates'
    BY <1>2 DEF vars, IInv, ResultInStream, HistoryKeepsDebates, Within
  <2> QED
    BY <2>1, <2>2, <2>3, <2>4 DEF IInv
<1> QED
  BY <1>1, <1>2

\* The state stays well typed, however many jobs the queue delivers how often.
THEOREM TypeSafety == Spec => []TypeOK
<1>1. Spec => []IInv
  BY Initially, Invariance, PTL DEF Spec
<1>2. IInv => TypeOK
  BY DEF IInv
<1> QED
  BY <1>1, <1>2, PTL

\* For any cast and any turn a run resumes at, whoever speaks has the turn
\* (build_debate_graph: dispatcher and chain).
THEOREM EachInTurn == Spec => []RotationKept
<1>1. Spec => []IInv
  BY Initially, Invariance, PTL DEF Spec
<1>2. IInv => RotationKept
  BY DEF IInv
<1> QED
  BY <1>1, <1>2, PTL

\* For any cast, cap and request, a finished debate has the length asked for and one
\* summary, last (should_continue, DebateHandler).
THEOREM LengthAsAsked == Spec => []FinishedAtLength
<1>1. Spec => []IInv
  BY Initially, Invariance, PTL DEF Spec
<1>2. IInv => FinishedAtLength
  BY DEF IInv
<1> QED
  BY <1>1, <1>2, PTL

\* However often a job is delivered, also once its result is stored, the turns of that
\* result stand together in its stream, and end it until the job is delivered again
\* (DebateHandler: push_turn and save_result, the redelivery of arq).
THEOREM StreamedAsSaved == Spec => []ResultInStream
<1>1. Spec => []IInv
  BY Initially, Invariance, PTL DEF Spec
<1>2. IInv => ResultInStream
  BY DEF IInv
<1> QED
  BY <1>1, <1>2, PTL

\* As long as no two runs overlap, the history holds every finished debate whole, for any
\* number of requests, deliveries and failures.
THEOREM DebatesKept == Spec => []HistoryKeepsDebates
<1>1. Spec => []IInv
  BY Initially, Invariance, PTL DEF Spec
<1>2. IInv => HistoryKeepsDebates
  BY DEF IInv
<1> QED
  BY <1>1, <1>2, PTL
=============================================================================
