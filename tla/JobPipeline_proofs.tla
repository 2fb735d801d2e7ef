------------------------- MODULE JobPipeline_proofs -------------------------
(***************************************************************************)
(* What JobPipeline promises for every set of jobs, threads and workers    *)
(* and every limit. The inductive invariant IInv says, beside the types:   *)
(*   - an executing attempt has been delivered at least once, and its      *)
(*     number is above that of any result saved before it;                 *)
(*   - the generator's indexes are the lengths of what it has sent, and    *)
(*     unless the lists expired under it, what it sent is their prefix;    *)
(*   - the mark of the last save lies within the token list;               *)
(*   - a job is enqueued only after its row was committed or given up on,   *)
(*     and the row stays until the thread is deleted;                      *)
(*   - a job holds a worker slot exactly while an attempt executes, and    *)
(*     no worker runs more than max_jobs.                                  *)
(***************************************************************************)
EXTENDS JobPipeline, SequenceTheorems, FiniteSetTheorems, TLAPS

AttemptInv ==
  \A j \in Jobs :
    /\ Executing(j) => tries[j] >= 1
    /\ result[j].attempt <= tries[j]
    /\ phase[j] \in {"picked", "running"} /\ result[j] # NoResult =>
         result[j].attempt < tries[j]

StreamInv ==
  \A j \in Jobs :
    /\ seenTokens[j] = Len(outTokens[j])
    /\ seenTurns[j] = Len(outTurns[j])
    /\ sealed[j] <= Len(tokens[j])

PrefixSent(j) ==
  spc[j] \in InLoop /\ ~ lapsed[j] => /\ Prefix(outTokens[j], tokens[j], seenTokens[j])
                                      /\ Prefix(outTurns[j], turns[j], seenTurns[j])

SlotInv == \A j \in Jobs : worker[j] # NoWorker <=> Executing(j)
LoadInv == \A w \in Workers : Load(w) <= MaxJobs

RowInv ==
  \A j \in Jobs :
    /\ phase[j] # "none" => post[j] \in Enqueued
    /\ post[j] \in {"upserted", "enqueued"} /\ KindOf[j] # "iframe_app_api" =>
         ThreadOf[j] \in rows \/ dropped[j]

IInv ==
  /\ TypeOK
  /\ AttemptInv
  /\ SlotInv
  /\ LoadInv
  /\ RowInv
  /\ StreamInv
  /\ StreamIsPrefix
  /\ GemLookupNeverRaces

-----------------------------------------------------------------------------
(* Sequences: what lrange returns, and what appending to a prefix gives. *)

LEMMA FromType ==
  ASSUME NEW S, NEW s \in Seq(S), NEW n \in Nat
  PROVE  /\ From(s, n) \in Seq(S)
         /\ n <= Len(s) => Len(From(s, n)) = Len(s) - n
         /\ Len(From(s, n)) \in Nat
BY DEF From

\* Reading the rest of a list completes a prefix to the whole list.
LEMMA PrefixReadOn ==
  ASSUME NEW S, NEW sent \in Seq(S), NEW list \in Seq(S), NEW n \in Nat,
         Prefix(sent, list, n)
  PROVE  Prefix(sent \o From(list, n), list, n + Len(From(list, n)))
<1>1. /\ Len(list) \in Nat /\ 1 \in 1 .. Len(list) + 1 /\ n \in 0 .. Len(list)
      /\ n \in 1 - 1 .. Len(list) /\ Len(list) \in n .. Len(list)
  BY LenProperties DEF Prefix
<1>2. SubSeq(list, 1, n) \o SubSeq(list, n + 1, Len(list)) = SubSeq(list, 1, Len(list))
  BY <1>1, ConcatAdjacentSubSeq
<1>3. sent \o From(list, n) = SubSeq(list, 1, Len(list))
  BY <1>2 DEF From, Prefix
<1>4. n + Len(From(list, n)) = Len(list)
  BY <1>1, FromType
<1>5. QED
  BY <1>1, <1>3, <1>4 DEF Prefix

\* A prefix stays a prefix when the list grows.
LEMMA PrefixOfAppend ==
  ASSUME NEW S, NEW sent, NEW list \in Seq(S), NEW x \in S, NEW n \in Nat,
         Prefix(sent, list, n)
  PROVE  Prefix(sent, Append(list, x), n)
BY DEF Prefix

LEMMA PrefixStarts ==
  ASSUME NEW S, NEW list \in Seq(S)
  PROVE  Prefix(<<>>, list, 0)
<1>1. Len(list) \in Nat
  BY LenProperties
<1>2. SubSeq(list, 1, 0) = <<>>
  BY SubSeqEmpty
<1>3. QED
  BY <1>1, <1>2 DEF Prefix

-----------------------------------------------------------------------------
\* Deleting a thread touches its row alone.
LEMMA DeleteFrame ==
  ASSUME NEW t \in Threads, DeleteThread(t)
  PROVE  UNCHANGED <<post, arqVars, storeVars, streamVars>>
BY DEF DeleteThread

\* Types are preserved; a pushed chunk carries the number of a real delivery.
LEMMA TypeStep ==
  ASSUME TypeOK, AttemptInv, [Next]_vars
  PROVE  TypeOK'
<1> USE DEF TypeOK, PostStates, Enqueued, Phases, InLoop, StreamStates, NoResult, Results,
            Attempts, postVars, arqVars, storeVars, streamVars
<1>1. ASSUME NEW j \in Jobs, UpsertRow(j) PROVE TypeOK'
  <2>1. ThreadOf[j] \in Threads
    BY PipelineAssumption
  <2>2. rows' \in SUBSET Threads
    BY <1>1, <2>1 DEF UpsertRow
  <2>3. QED
    BY <1>1, <2>2 DEF UpsertRow
<1>2. ASSUME NEW j \in Jobs, Enqueue(j) PROVE TypeOK'
  BY <1>2 DEF Enqueue, ReadyToEnqueue
<1>3. ASSUME NEW j \in Jobs, RefusePost(j) PROVE TypeOK'
  BY <1>3 DEF RefusePost, ReadyToEnqueue
<1>4. ASSUME NEW j \in Jobs, GiveUp(j) PROVE TypeOK'
  BY <1>4 DEF GiveUp
<1>5. ASSUME NEW j \in Jobs, EndUnsaved(j) PROVE TypeOK'
  BY <1>5 DEF EndUnsaved, Settle
<1>6. ASSUME NEW j \in Jobs, Finish(j) PROVE TypeOK'
  BY <1>6 DEF Finish, Settle
<1>7. ASSUME NEW j \in Jobs, StartGraph(j) PROVE TypeOK'
  BY <1>7 DEF StartGraph
<1>8. ASSUME NEW j \in Jobs, PushToken(j) PROVE TypeOK'
  <2>1. tries[j] \in Attempts
    BY <1>8 DEF PushToken, AttemptInv, Executing
  <2>2. Append(tokens[j], tries[j]) \in Seq(Attempts)
    BY <2>1, AppendProperties
  <2>3. QED
    BY <1>8, <2>2, SMTT(30) DEF PushToken
<1>9. ASSUME NEW j \in Jobs, PushTurn(j) PROVE TypeOK'
  <2>1. tries[j] \in Attempts
    BY <1>9 DEF PushTurn, AttemptInv, Executing
  <2>2. Append(turns[j], tries[j]) \in Seq(Attempts)
    BY <2>1, AppendProperties
  <2>3. QED
    BY <1>9, <2>2, SMTT(30) DEF PushTurn
<1>10. ASSUME NEW j \in Jobs, SaveAnswer(j) PROVE TypeOK'
  BY <1>10, SMTT(30) DEF SaveAnswer, SaveResult
<1>11. ASSUME NEW j \in Jobs, SaveError(j) PROVE TypeOK'
  BY <1>11, SMTT(30) DEF SaveError, SaveResult
<1>12. ASSUME NEW j \in Jobs, RejectTask(j) PROVE TypeOK'
  BY <1>12 DEF RejectTask, SaveResult
<1>13. ASSUME NEW j \in Jobs, ExpireLists(j) PROVE TypeOK'
  <2>1. /\ tokens' \in [Jobs -> Seq(Attempts)] /\ turns' \in [Jobs -> Seq(Attempts)]
        /\ sealed' \in [Jobs -> Nat]
    BY <1>13 DEF ExpireLists
  <2>2. lapsed' \in [Jobs -> BOOLEAN]
    BY <1>13 DEF ExpireLists
  <2>3. QED
    BY <1>13, <2>1, <2>2 DEF ExpireLists
<1>14. ASSUME NEW j \in Jobs, ExpireResult(j) PROVE TypeOK'
  <2>1. NoResult \in Results
    BY PipelineAssumption
  <2>2. result' \in [Jobs -> Results]
    BY <1>14, <2>1 DEF ExpireResult
  <2>3. QED
    BY <1>14, <2>2 DEF ExpireResult
<1>15. ASSUME NEW j \in Jobs, OpenStream(j) PROVE TypeOK'
  BY <1>15 DEF OpenStream
<1>16. ASSUME NEW j \in Jobs, SendTurns(j) PROVE TypeOK'
  <2>1. /\ From(turns[j], seenTurns[j]) \in Seq(Attempts)
        /\ Len(From(turns[j], seenTurns[j])) \in Nat
        /\ outTurns[j] \o From(turns[j], seenTurns[j]) \in Seq(Attempts)
    BY FromType, ConcatProperties
  <2>2. outTurns' \in [Jobs -> Seq(Attempts)]
    BY <1>16, <2>1 DEF SendTurns
  <2>3. seenTurns' \in [Jobs -> Nat]
    BY <1>16, <2>1 DEF SendTurns
  <2>4. QED
    BY <1>16, <2>2, <2>3 DEF SendTurns
<1>17. ASSUME NEW j \in Jobs, SendTokens(j) PROVE TypeOK'
  <2>1. /\ From(tokens[j], seenTokens[j]) \in Seq(Attempts)
        /\ Len(From(tokens[j], seenTokens[j])) \in Nat
        /\ outTokens[j] \o From(tokens[j], seenTokens[j]) \in Seq(Attempts)
    BY FromType, ConcatProperties
  <2>2. outTokens' \in [Jobs -> Seq(Attempts)]
    BY <1>17, <2>1 DEF SendTokens, DrainTokens
  <2>3. seenTokens' \in [Jobs -> Nat]
    BY <1>17, <2>1 DEF SendTokens, DrainTokens
  <2>4. QED
    BY <1>17, <2>2, <2>3 DEF SendTokens, DrainTokens
<1>18. ASSUME NEW j \in Jobs, CheckResult(j) PROVE TypeOK'
  BY <1>18 DEF CheckResult
<1>19. ASSUME NEW j \in Jobs, FlushAndSendDone(j) PROVE TypeOK'
  <2>1. /\ From(tokens[j], seenTokens[j]) \in Seq(Attempts)
        /\ Len(From(tokens[j], seenTokens[j])) \in Nat
        /\ outTokens[j] \o From(tokens[j], seenTokens[j]) \in Seq(Attempts)
    BY FromType, ConcatProperties
  <2>2. outTokens' \in [Jobs -> Seq(Attempts)]
    BY <1>19, <2>1 DEF FlushAndSendDone, DrainTokens
  <2>3. seenTokens' \in [Jobs -> Nat]
    BY <1>19, <2>1 DEF FlushAndSendDone, DrainTokens
  <2>4. QED
    BY <1>19, <2>2, <2>3 DEF FlushAndSendDone, DrainTokens
<1>20. ASSUME NEW j \in Jobs, Disconnect(j) PROVE TypeOK'
  BY <1>20 DEF Disconnect
<1>21. ASSUME NEW w \in Workers, Interrupt(w) PROVE TypeOK'
  BY <1>21 DEF Interrupt
<1>22. ASSUME NEW w \in Workers, NEW j \in Jobs, Pick(w, j) PROVE TypeOK'
  <2>1. /\ phase' \in [Jobs -> Phases] /\ pushed' \in [Jobs -> Nat]
        /\ gemRow' \in [Jobs -> {"unread", "found", "missing", "failed"}]
    BY <1>22 DEF Pick
  <2>2. worker' \in [Jobs -> Workers \cup {NoWorker}]
    BY <1>22 DEF Pick
  <2>3. tries' \in [Jobs -> 0 .. MaxTries]
    BY <1>22, PipelineAssumption DEF Pick
  <2>4. QED
    BY <1>22, <2>1, <2>2, <2>3 DEF Pick
<1>23. ASSUME NEW t \in Threads, DeleteThread(t) PROVE TypeOK'
  BY <1>23, DeleteFrame DEF DeleteThread
<1>24. CASE UNCHANGED vars
  BY <1>24 DEF vars
<1>25. QED
  BY <1>1, <1>2, <1>3, <1>4, <1>5, <1>6, <1>7, <1>8, <1>9, <1>10, <1>11, <1>12, <1>13,
     <1>14, <1>15, <1>16, <1>17, <1>18, <1>19, <1>20, <1>21, <1>22, <1>23, <1>24 DEF Next

\* A delivery's number exceeds that of every result saved before it, until it
\* saves its own.
LEMMA AttemptStep ==
  ASSUME TypeOK, AttemptInv, [Next]_vars
  PROVE  AttemptInv'
<1> USE DEF AttemptInv, Executing, TypeOK, Results, NoResult
<1>1. ASSUME NEW j \in Jobs, Enqueue(j) PROVE AttemptInv'
  BY <1>1 DEF Enqueue, ReadyToEnqueue, postVars, arqVars, storeVars, streamVars
<1>2. ASSUME NEW j \in Jobs, GiveUp(j) PROVE AttemptInv'
  BY <1>2 DEF GiveUp, postVars, arqVars, storeVars, streamVars
<1>3. ASSUME NEW j \in Jobs, EndUnsaved(j) PROVE AttemptInv'
  BY <1>3 DEF EndUnsaved, Settle, postVars, arqVars, storeVars, streamVars
<1>4. ASSUME NEW j \in Jobs, Finish(j) PROVE AttemptInv'
  BY <1>4 DEF Finish, Settle, postVars, arqVars, storeVars, streamVars
<1>5. ASSUME NEW j \in Jobs, StartGraph(j) PROVE AttemptInv'
  BY <1>5 DEF StartGraph, postVars, arqVars, storeVars, streamVars
<1>6. ASSUME NEW j \in Jobs, SaveAnswer(j) PROVE AttemptInv'
  BY <1>6, SMTT(30) DEF SaveAnswer, SaveResult, postVars, arqVars, storeVars, streamVars
<1>7. ASSUME NEW j \in Jobs, SaveError(j) PROVE AttemptInv'
  BY <1>7, SMTT(30) DEF SaveError, SaveResult, postVars, arqVars, storeVars, streamVars
<1>8. ASSUME NEW j \in Jobs, RejectTask(j) PROVE AttemptInv'
  BY <1>8, SMTT(30) DEF RejectTask, SaveResult, postVars, arqVars, storeVars, streamVars
<1>9. ASSUME NEW j \in Jobs, ExpireResult(j) PROVE AttemptInv'
  BY <1>9, SMTT(30) DEF ExpireResult, postVars, arqVars, storeVars, streamVars
<1>10. ASSUME NEW w \in Workers, Interrupt(w) PROVE AttemptInv'
  BY <1>10 DEF Interrupt, postVars, arqVars, storeVars, streamVars
<1>11. ASSUME NEW w \in Workers, NEW j \in Jobs, Pick(w, j) PROVE AttemptInv'
  BY <1>11, SMTT(30) DEF Pick, postVars, arqVars, storeVars, streamVars
<1>12. ASSUME NEW j \in Jobs,
              UpsertRow(j) \/ RefusePost(j) \/ PushToken(j) \/ PushTurn(j) \/
              ExpireLists(j) \/ OpenStream(j) \/ SendTurns(j) \/ SendTokens(j) \/
              CheckResult(j) \/ FlushAndSendDone(j) \/ Disconnect(j)
      PROVE AttemptInv'
  <2>1. UNCHANGED <<phase, tries, result>>
    BY <1>12 DEF UpsertRow, RefusePost, PushToken, PushTurn, ExpireLists, OpenStream,
       SendTurns, SendTokens, CheckResult, FlushAndSendDone, Disconnect, DrainTokens,
       ReadyToEnqueue, postVars, arqVars, storeVars, streamVars
  <2>2. QED
    BY <2>1 DEF postVars, arqVars, storeVars, streamVars
<1>13. ASSUME NEW t \in Threads, DeleteThread(t) PROVE AttemptInv'
  BY <1>13, DeleteFrame DEF arqVars, storeVars
<1>14. CASE UNCHANGED vars
  BY <1>14 DEF vars, postVars, arqVars, storeVars, streamVars
<1>15. QED
  BY <1>1, <1>2, <1>3, <1>4, <1>5, <1>6, <1>7, <1>8, <1>9, <1>10, <1>11, <1>12, <1>13,
     <1>14 DEF Next

\* Every action but the listed ones leaves the lists, the generator's progress
\* and the mark alone.
Quiet(j) ==
  \/ UpsertRow(j) \/ Enqueue(j) \/ RefusePost(j) \/ GiveUp(j)
  \/ EndUnsaved(j) \/ Finish(j) \/ StartGraph(j) \/ ExpireResult(j)

LEMMA QuietFrame ==
  ASSUME NEW j \in Jobs, Quiet(j)
  PROVE  UNCHANGED <<tokens, turns, sealed, streamVars>>
BY DEF Quiet, UpsertRow, Enqueue, RefusePost, GiveUp, EndUnsaved, Finish, Settle,
StartGraph,
       ExpireResult, ReadyToEnqueue, arqVars, postVars, storeVars, streamVars

\* The API side and the handler's pushes leave the life cycle of jobs alone.
Still(j) ==
  \/ UpsertRow(j) \/ RefusePost(j) \/ PushToken(j) \/ PushTurn(j)
  \/ ExpireLists(j) \/ ExpireResult(j) \/ OpenStream(j) \/ SendTurns(j)
  \/ SendTokens(j) \/ CheckResult(j) \/ FlushAndSendDone(j) \/ Disconnect(j)

LEMMA StillFrame ==
  ASSUME NEW j \in Jobs, Still(j)
  PROVE  UNCHANGED <<phase, worker, tries, gemRow>>
BY DEF Still, UpsertRow, RefusePost, PushToken, PushTurn, ExpireLists, ExpireResult,
       OpenStream, SendTurns, SendTokens, CheckResult, FlushAndSendDone, Disconnect,
       DrainTokens, arqVars

LEMMA WorkerFrame ==
  ASSUME NEW w \in Workers, Interrupt(w) \/ \E j \in Jobs : Pick(w, j)
  PROVE  UNCHANGED <<postVars, tokens, turns, result, sealed, streamVars>>
BY DEF Interrupt, Pick, postVars, storeVars, streamVars

LEMMA SaveFrame ==
  ASSUME NEW j \in Jobs, SaveAnswer(j) \/ SaveError(j) \/ RejectTask(j), TypeOK
  PROVE  /\ UNCHANGED <<postVars, gemRow, tokens, turns, streamVars>>
         /\ sealed' = [sealed EXCEPT ![j] = Len(tokens[j])]
         /\ \E s \in {"answer", "error"} :
              result' = [result EXCEPT ![j] = [status |-> s, attempt |-> tries[j]]]
BY DEF SaveAnswer, SaveError, RejectTask, SaveResult, postVars, streamVars

\* Reading on: the index that counted what was sent still does afterwards.
LEMMA ReadOn ==
  ASSUME NEW S, NEW sent \in Seq(S), NEW list \in Seq(S), NEW n \in Nat
  PROVE  /\ From(list, n) \in Seq(S)
         /\ Len(From(list, n)) \in Nat
         /\ Len(sent \o From(list, n)) = Len(sent) + Len(From(list, n))
BY FromType, ConcatProperties

LEMMA LengthsAreNat ==
  ASSUME TypeOK, NEW j \in Jobs
  PROVE  /\ Len(tokens[j]) \in Nat /\ Len(turns[j]) \in Nat
         /\ Len(outTokens[j]) \in Nat /\ Len(outTurns[j]) \in Nat
         /\ sealed[j] \in Nat /\ seenTokens[j] \in Nat /\ seenTurns[j] \in Nat
         /\ tries[j] \in Nat
BY DEF TypeOK

\* The generator's indexes count what it sent, and the mark stays in the list.
LEMMA StreamStepInv ==
  ASSUME TypeOK, StreamInv, [Next]_vars
  PROVE  StreamInv'
<1>1. ASSUME NEW j \in Jobs, Quiet(j) PROVE StreamInv'
  BY <1>1, QuietFrame DEF StreamInv, streamVars
<1>2. ASSUME NEW j \in Jobs, SaveAnswer(j) \/ SaveError(j) \/ RejectTask(j)
      PROVE StreamInv'
  <2>1. /\ sealed'[j] = Len(tokens[j])
        /\ \A k \in Jobs \ {j} : sealed'[k] = sealed[k]
        /\ UNCHANGED <<tokens, seenTokens, seenTurns, outTokens, outTurns>>
    BY <1>2, SaveFrame DEF TypeOK, streamVars
  <2>2. QED
    BY <2>1, LengthsAreNat DEF StreamInv
<1>3. ASSUME NEW j \in Jobs, PushToken(j) PROVE StreamInv'
  <2>1. tokens'[j] = Append(tokens[j], tries[j]) /\ Len(tokens'[j]) = Len(tokens[j]) + 1
    BY <1>3, AppendProperties DEF PushToken, TypeOK
  <2>2. \A k \in Jobs \ {j} : tokens'[k] = tokens[k]
    BY <1>3 DEF PushToken, TypeOK
  <2>3. UNCHANGED <<sealed, seenTokens, seenTurns, outTokens, outTurns>>
    BY <1>3 DEF PushToken, streamVars
  <2>4. QED
    BY <2>1, <2>2, <2>3, LengthsAreNat DEF StreamInv
<1>4. ASSUME NEW j \in Jobs, PushTurn(j) \/ CheckResult(j) \/ Disconnect(j)
      PROVE StreamInv'
  BY <1>4 DEF PushTurn, CheckResult, Disconnect, StreamInv, storeVars, streamVars
<1>5. ASSUME NEW j \in Jobs, ExpireLists(j) PROVE StreamInv'
  BY <1>5 DEF ExpireLists, StreamInv, TypeOK
<1>6. ASSUME NEW j \in Jobs, OpenStream(j) PROVE StreamInv'
  BY <1>6 DEF OpenStream, storeVars, StreamInv, TypeOK
<1>7. ASSUME NEW j \in Jobs, SendTurns(j) PROVE StreamInv'
  <2> DEFINE new == From(turns[j], seenTurns[j])
  <2>1. /\ outTurns'[j] = outTurns[j] \o new /\ seenTurns'[j] = seenTurns[j] + Len(new)
        /\ \A k \in Jobs \ {j} : outTurns'[k] = outTurns[k] /\ seenTurns'[k] = seenTurns[k]
    BY <1>7 DEF SendTurns, TypeOK
  <2>2. Len(outTurns[j] \o new) = Len(outTurns[j]) + Len(new)
    BY ReadOn DEF TypeOK
  <2>3. UNCHANGED <<tokens, sealed, seenTokens, outTokens>>
    BY <1>7 DEF SendTurns, storeVars
  <2>4. QED
    BY <2>1, <2>2, <2>3 DEF StreamInv
<1>8. ASSUME NEW j \in Jobs, SendTokens(j) \/ FlushAndSendDone(j) PROVE StreamInv'
  <2> DEFINE new == From(tokens[j], seenTokens[j])
  <2>1. PICK next \in StreamStates : DrainTokens(j, next)
    BY <1>8 DEF SendTokens, FlushAndSendDone, StreamStates, InLoop
  <2>2. /\ outTokens'[j] = outTokens[j] \o new /\ seenTokens'[j] = seenTokens[j] + Len(new)
        /\ \A k \in Jobs \ {j} : outTokens'[k] = outTokens[k] /\ seenTokens'[k] = seenTokens[k]
    BY <2>1 DEF DrainTokens, TypeOK
  <2>3. Len(outTokens[j] \o new) = Len(outTokens[j]) + Len(new)
    BY ReadOn DEF TypeOK
  <2>4. UNCHANGED <<tokens, sealed, seenTurns, outTurns>>
    BY <2>1 DEF DrainTokens, storeVars
  <2>5. QED
    BY <2>2, <2>3, <2>4 DEF StreamInv
<1>9. ASSUME NEW w \in Workers, Interrupt(w) \/ \E j \in Jobs : Pick(w, j)
      PROVE StreamInv'
  BY <1>9, WorkerFrame DEF StreamInv, streamVars
<1>10. ASSUME NEW t \in Threads, DeleteThread(t) PROVE StreamInv'
  BY <1>10, DeleteFrame DEF StreamInv, storeVars, streamVars
<1>11. CASE UNCHANGED vars
  BY <1>11 DEF vars, StreamInv
<1>12. QED
  BY <1>1, <1>2, <1>3, <1>4, <1>5, <1>6, <1>7, <1>8, <1>9, <1>10, <1>11 DEF Next, Quiet

\* A job whose lists and generator do not move keeps what it has.
LEMMA SameStream ==
  ASSUME StreamIsPrefix, NEW k \in Jobs,
         tokens'[k] = tokens[k], turns'[k] = turns[k],
         seenTokens'[k] = seenTokens[k], seenTurns'[k] = seenTurns[k],
         outTokens'[k] = outTokens[k], outTurns'[k] = outTurns[k],
         spc'[k] \in InLoop => spc[k] \in InLoop, lapsed'[k] = lapsed[k]
  PROVE  PrefixSent(k)'
BY DEF StreamIsPrefix, PrefixSent

\* The prefix survives every step of the worker and of the generator.
LEMMA PrefixStep ==
  ASSUME TypeOK, StreamIsPrefix, [Next]_vars
  PROVE  StreamIsPrefix'
<1> SUFFICES ASSUME NEW k \in Jobs PROVE PrefixSent(k)'
  BY DEF StreamIsPrefix, PrefixSent
<1>1. ASSUME NEW j \in Jobs, Quiet(j) PROVE PrefixSent(k)'
  BY <1>1, QuietFrame, SameStream DEF streamVars
<1>2. ASSUME NEW j \in Jobs, SaveAnswer(j) \/ SaveError(j) \/ RejectTask(j)
      PROVE PrefixSent(k)'
  BY <1>2, SaveFrame, SameStream DEF streamVars
<1>3. ASSUME NEW w \in Workers, Interrupt(w) \/ \E j \in Jobs : Pick(w, j)
      PROVE PrefixSent(k)'
  BY <1>3, WorkerFrame, SameStream DEF streamVars
<1>4. ASSUME NEW j \in Jobs, PushToken(j) PROVE PrefixSent(k)'
  <2>1. UNCHANGED <<turns, streamVars>>
    BY <1>4 DEF PushToken
  <2>2. CASE k # j
    <3>1. tokens'[k] = tokens[k]
      BY <1>4, <2>2 DEF PushToken, TypeOK
    <3>2. QED
      BY <2>1, <3>1, SameStream DEF streamVars
  <2>3. CASE k = j
    <3>1. tokens'[k] = Append(tokens[k], tries[k])
      BY <1>4, <2>3 DEF PushToken, TypeOK
    <3>2. /\ tokens[k] \in Seq(Nat) /\ tries[k] \in Nat
          /\ seenTokens[k] \in Nat
      <4>1. Attempts \subseteq Nat
        BY DEF Attempts
      <4>2. tokens[k] \in Seq(Attempts) /\ seenTokens[k] \in Nat /\ tries[k] \in Nat
        BY DEF TypeOK
      <4>3. QED
        BY <4>1, <4>2, SeqMonotonic
    <3>3. ASSUME Prefix(outTokens[k], tokens[k], seenTokens[k])
          PROVE Prefix(outTokens[k], tokens'[k], seenTokens[k])
      BY <3>1, <3>2, <3>3, PrefixOfAppend
    <3>4. QED
      BY <2>1, <3>3 DEF streamVars, PrefixSent, StreamIsPrefix, Prefix
  <2>4. QED
    BY <2>2, <2>3
<1>5. ASSUME NEW j \in Jobs, PushTurn(j) PROVE PrefixSent(k)'
  <2>1. UNCHANGED <<tokens, streamVars>>
    BY <1>5 DEF PushTurn
  <2>2. CASE k # j
    <3>1. turns'[k] = turns[k]
      BY <1>5, <2>2 DEF PushTurn, TypeOK
    <3>2. QED
      BY <2>1, <3>1, SameStream DEF streamVars
  <2>3. CASE k = j
    <3>1. turns'[k] = Append(turns[k], tries[k])
      BY <1>5, <2>3 DEF PushTurn, TypeOK
    <3>2. /\ turns[k] \in Seq(Nat) /\ tries[k] \in Nat
          /\ seenTurns[k] \in Nat
      <4>1. Attempts \subseteq Nat
        BY DEF Attempts
      <4>2. turns[k] \in Seq(Attempts) /\ seenTurns[k] \in Nat /\ tries[k] \in Nat
        BY DEF TypeOK
      <4>3. QED
        BY <4>1, <4>2, SeqMonotonic
    <3>3. ASSUME Prefix(outTurns[k], turns[k], seenTurns[k])
          PROVE Prefix(outTurns[k], turns'[k], seenTurns[k])
      BY <3>1, <3>2, <3>3, PrefixOfAppend
    <3>4. QED
      BY <2>1, <3>3 DEF streamVars, PrefixSent, StreamIsPrefix, Prefix
  <2>4. QED
    BY <2>2, <2>3
<1>6. ASSUME NEW j \in Jobs, ExpireLists(j) PROVE PrefixSent(k)'
  <2>1. CASE k = j
    BY <1>6, <2>1 DEF ExpireLists, PrefixSent, TypeOK
  <2>2. CASE k # j
    BY <1>6, <2>2, SameStream DEF ExpireLists, TypeOK
  <2>3. QED
    BY <2>1, <2>2
<1>7. ASSUME NEW j \in Jobs, OpenStream(j) PROVE PrefixSent(k)'
  <2>1. CASE k = j
    <3>1. /\ outTokens'[k] = <<>> /\ outTurns'[k] = <<>>
          /\ seenTokens'[k] = 0 /\ seenTurns'[k] = 0
          /\ tokens'[k] = tokens[k] /\ turns'[k] = turns[k]
      BY <1>7, <2>1 DEF OpenStream, storeVars, TypeOK
    <3>2. Prefix(<<>>, tokens[k], 0) /\ Prefix(<<>>, turns[k], 0)
      BY PrefixStarts DEF TypeOK
    <3>3. QED
      BY <3>1, <3>2 DEF PrefixSent, Prefix
  <2>2. CASE k # j
    BY <1>7, <2>2, SameStream DEF OpenStream, storeVars, TypeOK
  <2>3. QED
    BY <2>1, <2>2
<1>8. ASSUME NEW j \in Jobs, SendTurns(j) PROVE PrefixSent(k)'
  <2>1. CASE k = j
    <3> DEFINE new == From(turns[k], seenTurns[k])
    <3>1. /\ outTurns'[k] = outTurns[k] \o new /\ seenTurns'[k] = seenTurns[k] + Len(new)
          /\ UNCHANGED <<tokens, turns, seenTokens, outTokens, lapsed>>
          /\ spc[k] \in InLoop
      BY <1>8, <2>1 DEF SendTurns, storeVars, TypeOK, InLoop
    <3>2. ASSUME Prefix(outTurns[k], turns[k], seenTurns[k])
          PROVE Prefix(outTurns'[k], turns[k], seenTurns'[k])
      <4>1. /\ outTurns[k] \in Seq(Attempts) /\ turns[k] \in Seq(Attempts)
            /\ seenTurns[k] \in Nat
        BY DEF TypeOK
      <4>2. Prefix(outTurns[k] \o new, turns[k], seenTurns[k] + Len(new))
        BY <3>2, <4>1, PrefixReadOn
      <4>3. QED
        BY <3>1, <4>2
    <3>3. QED
      BY <3>1, <3>2 DEF StreamIsPrefix, PrefixSent, Prefix
  <2>2. CASE k # j
    BY <1>8, <2>2, SameStream DEF SendTurns, storeVars, TypeOK
  <2>3. QED
    BY <2>1, <2>2
<1>9. ASSUME NEW j \in Jobs, SendTokens(j) \/ FlushAndSendDone(j) PROVE PrefixSent(k)'
  <2>1. PICK next \in StreamStates : DrainTokens(j, next) /\ spc[j] \in InLoop
    BY <1>9 DEF SendTokens, FlushAndSendDone, StreamStates, InLoop
  <2>2. CASE k = j
    <3> DEFINE new == From(tokens[k], seenTokens[k])
    <3>1. /\ outTokens'[k] = outTokens[k] \o new
          /\ seenTokens'[k] = seenTokens[k] + Len(new)
          /\ UNCHANGED <<tokens, turns, seenTurns, outTurns, lapsed>>
      BY <2>1, <2>2 DEF DrainTokens, storeVars, TypeOK
    <3>2. ASSUME Prefix(outTokens[k], tokens[k], seenTokens[k])
          PROVE Prefix(outTokens'[k], tokens[k], seenTokens'[k])
      <4>1. /\ outTokens[k] \in Seq(Attempts) /\ tokens[k] \in Seq(Attempts)
            /\ seenTokens[k] \in Nat
        BY DEF TypeOK
      <4>2. Prefix(outTokens[k] \o new, tokens[k], seenTokens[k] + Len(new))
        BY <3>2, <4>1, PrefixReadOn
      <4>3. QED
        BY <3>1, <4>2
    <3>3. QED
      BY <2>1, <2>2, <3>1, <3>2 DEF StreamIsPrefix, PrefixSent, Prefix
  <2>3. CASE k # j
    BY <2>1, <2>3, SameStream DEF DrainTokens, storeVars, TypeOK
  <2>4. QED
    BY <2>2, <2>3
<1>10. ASSUME NEW j \in Jobs, CheckResult(j) \/ Disconnect(j) PROVE PrefixSent(k)'
  <2>1. /\ UNCHANGED <<tokens, turns, seenTokens, seenTurns, outTokens, outTurns, lapsed>>
        /\ spc'[k] \in InLoop => spc[k] \in InLoop
    BY <1>10 DEF CheckResult, Disconnect, storeVars, TypeOK, InLoop
  <2>2. QED
    BY <2>1, SameStream
<1>11. ASSUME NEW t \in Threads, DeleteThread(t) PROVE PrefixSent(k)'
  BY <1>11, DeleteFrame, SameStream DEF storeVars, streamVars
<1>12. CASE UNCHANGED vars
  BY <1>12, SameStream DEF vars
<1>13. QED
  BY <1>1, <1>2, <1>3, <1>4, <1>5, <1>6, <1>7, <1>8, <1>9, <1>10, <1>11, <1>12 DEF Next,
     Quiet

\* A job holds a worker slot exactly while an attempt at it executes.
LEMMA SlotStep ==
  ASSUME TypeOK, SlotInv, RowInv, [Next]_vars
  PROVE  SlotInv'
<1>1. ASSUME NEW j \in Jobs, Enqueue(j) PROVE SlotInv'
  <2>1. phase[j] = "none"
    BY <1>1 DEF Enqueue, ReadyToEnqueue, Enqueued, RowInv
  <2>2. QED
    BY <1>1, <2>1 DEF Enqueue, SlotInv, Executing, TypeOK
<1>2. ASSUME NEW j \in Jobs, GiveUp(j) PROVE SlotInv'
  BY <1>2 DEF GiveUp, SlotInv, Executing, TypeOK
<1>3. ASSUME NEW j \in Jobs, EndUnsaved(j) \/ Finish(j) PROVE SlotInv'
  BY <1>3 DEF EndUnsaved, Finish, Settle, SlotInv, Executing, TypeOK
<1>4. ASSUME NEW j \in Jobs,
             StartGraph(j) \/ SaveAnswer(j) \/ SaveError(j) \/ RejectTask(j)
      PROVE SlotInv'
  BY <1>4 DEF StartGraph, SaveAnswer, SaveError, RejectTask, SaveResult, SlotInv,
              Executing, TypeOK
<1>5. ASSUME NEW w \in Workers, Interrupt(w) PROVE SlotInv'
  BY <1>5 DEF Interrupt, SlotInv, Executing, TypeOK
<1>6. ASSUME NEW w \in Workers, NEW j \in Jobs, Pick(w, j) PROVE SlotInv'
  BY <1>6, PipelineAssumption DEF Pick, SlotInv, Executing, TypeOK
<1>7. ASSUME NEW j \in Jobs, Still(j) PROVE SlotInv'
  BY <1>7, StillFrame DEF SlotInv, Executing
<1>8. ASSUME NEW t \in Threads, DeleteThread(t) PROVE SlotInv'
  BY <1>8, DeleteFrame DEF SlotInv, Executing, arqVars
<1>9. CASE UNCHANGED vars
  BY <1>9 DEF vars, SlotInv, Executing
<1>10. QED
  BY <1>1, <1>2, <1>3, <1>4, <1>5, <1>6, <1>7, <1>8, <1>9 DEF Next, Still

\* What a worker runs is a set of jobs: it has a size, and a subset is no larger.
LEMMA LoadShrinks ==
  ASSUME NEW w \in Workers, \A k \in Jobs : worker'[k] = w => worker[k] = w,
         Load(w) <= MaxJobs
  PROVE  Load(w)' <= MaxJobs
<1> DEFINE ours == {k \in Jobs : worker[k] = w}
           later == {k \in Jobs : worker'[k] = w}
<1>1. IsFiniteSet(ours) /\ later \in SUBSET ours
  BY PipelineAssumption, FS_Subset
<1>2. Cardinality(later) <= Cardinality(ours) /\ IsFiniteSet(later)
  BY <1>1, FS_Subset
<1>3. Cardinality(later) \in Nat /\ Cardinality(ours) \in Nat
  BY <1>1, <1>2, FS_CardinalityType
<1>4. QED
  BY <1>2, <1>3, PipelineAssumption DEF Load

\* No worker runs more than max_jobs: only Pick adds to what it runs.
LEMMA LoadStep ==
  ASSUME TypeOK, LoadInv, [Next]_vars
  PROVE  LoadInv'
<1> SUFFICES ASSUME NEW v \in Workers PROVE Load(v)' <= MaxJobs
  BY DEF LoadInv
<1>1. ASSUME NEW w \in Workers, NEW j \in Jobs, Pick(w, j) PROVE Load(v)' <= MaxJobs
  <2>1. CASE v # w
    <3>1. \A k \in Jobs : worker'[k] = v => worker[k] = v
      BY <1>1, <2>1 DEF Pick, TypeOK
    <3>2. QED
      BY <3>1, LoadShrinks DEF LoadInv
  <2>2. CASE v = w
    <3> DEFINE ours == {k \in Jobs : worker[k] = v}
               later == {k \in Jobs : worker'[k] = v}
    <3>1. IsFiniteSet(ours)
      BY PipelineAssumption, FS_Subset
    <3>2. later = ours \cup {j}
      BY <1>1, <2>2 DEF Pick, TypeOK
    <3>3. Load(v) = Cardinality(ours) /\ Load(v)' = Cardinality(later)
      BY DEF Load
    <3>4. Load(v) < MaxJobs
      BY <1>1, <2>2 DEF Pick
    <3> HIDE DEF later, ours
    <3>5. Cardinality(ours) \in Nat
      BY <3>1, FS_CardinalityType
    <3>6. Cardinality(later) = IF j \in ours THEN Cardinality(ours) ELSE Cardinality(ours) + 1
      BY <3>1, <3>2, FS_AddElement
    <3>7. QED
      BY <3>3, <3>4, <3>5, <3>6, PipelineAssumption
  <2>3. QED
    BY <2>1, <2>2
<1>2. ASSUME NEW w \in Workers, Interrupt(w) PROVE Load(v)' <= MaxJobs
  <2>1. \A k \in Jobs : worker'[k] = v => worker[k] = v
    BY <1>2, PipelineAssumption DEF Interrupt
  <2>2. QED
    BY <2>1, LoadShrinks DEF LoadInv
<1>3. ASSUME NEW j \in Jobs, EndUnsaved(j) \/ Finish(j) PROVE Load(v)' <= MaxJobs
  <2>1. \A k \in Jobs : worker'[k] = v => worker[k] = v
    BY <1>3, PipelineAssumption DEF EndUnsaved, Finish, Settle, TypeOK
  <2>2. QED
    BY <2>1, LoadShrinks DEF LoadInv
<1>4. ASSUME NEW j \in Jobs,
             \/ Still(j) \/ Enqueue(j) \/ GiveUp(j) \/ StartGraph(j)
             \/ SaveAnswer(j) \/ SaveError(j) \/ RejectTask(j)
      PROVE Load(v)' <= MaxJobs
  <2>1. UNCHANGED worker
    BY <1>4, StillFrame DEF Enqueue, GiveUp, StartGraph, SaveAnswer, SaveError,
                            RejectTask, SaveResult
  <2>2. QED
    BY <2>1 DEF LoadInv, Load
<1>5. ASSUME NEW t \in Threads, DeleteThread(t) PROVE Load(v)' <= MaxJobs
  BY <1>5, DeleteFrame DEF LoadInv, Load, arqVars
<1>6. CASE UNCHANGED vars
  BY <1>6 DEF vars, LoadInv, Load
<1>7. QED
  BY <1>1, <1>2, <1>3, <1>4, <1>5, <1>6 DEF Next, Still

\* A job exists only after its row was committed or given up on, and rows stay.
LEMMA RowStep ==
  ASSUME TypeOK, SlotInv, RowInv, [Next]_vars
  PROVE  RowInv'
<1>1. ASSUME NEW j \in Jobs, UpsertRow(j) PROVE RowInv'
  BY <1>1 DEF UpsertRow, arqVars, RowInv, TypeOK, Enqueued
<1>2. ASSUME NEW j \in Jobs, Enqueue(j) PROVE RowInv'
  BY <1>2 DEF Enqueue, ReadyToEnqueue, RowInv, TypeOK, Enqueued
<1>3. ASSUME NEW j \in Jobs, RefusePost(j) PROVE RowInv'
  BY <1>3 DEF RefusePost, ReadyToEnqueue, arqVars, RowInv, TypeOK, Enqueued
<1>4. ASSUME NEW j \in Jobs,
             \/ GiveUp(j) \/ EndUnsaved(j) \/ Finish(j) \/ StartGraph(j)
             \/ SaveAnswer(j) \/ SaveError(j) \/ RejectTask(j)
      PROVE RowInv'
  <2>1. UNCHANGED <<post, rows, dropped>>
    BY <1>4 DEF GiveUp, EndUnsaved, Finish, Settle, StartGraph, SaveAnswer, SaveError,
                RejectTask, SaveResult, postVars
  <2>2. phase[j] # "none" /\ \A k \in Jobs \ {j} : phase'[k] = phase[k]
    BY <1>4 DEF GiveUp, EndUnsaved, Finish, Settle, StartGraph, SaveAnswer, SaveError,
                RejectTask, SaveResult, TypeOK
  <2>3. QED
    BY <2>1, <2>2 DEF RowInv
<1>5. ASSUME NEW j \in Jobs,
             \/ PushToken(j) \/ PushTurn(j) \/ ExpireLists(j) \/ ExpireResult(j)
             \/ OpenStream(j) \/ SendTurns(j) \/ SendTokens(j) \/ CheckResult(j)
             \/ FlushAndSendDone(j) \/ Disconnect(j)
      PROVE RowInv'
  <2>1. UNCHANGED <<post, rows, dropped, phase>>
    BY <1>5 DEF PushToken, PushTurn, ExpireLists, ExpireResult, OpenStream, SendTurns,
                SendTokens, CheckResult, FlushAndSendDone, Disconnect, DrainTokens,
                postVars, arqVars
  <2>2. QED
    BY <2>1 DEF RowInv
<1>6. ASSUME NEW w \in Workers, Interrupt(w) PROVE RowInv'
  <2>1. \A k \in Jobs : phase'[k] = phase[k] \/ worker[k] = w
    BY <1>6 DEF Interrupt
  <2>2. \A k \in Jobs : phase'[k] # "none" => phase[k] # "none"
    BY <2>1, PipelineAssumption DEF SlotInv, Executing
  <2>3. QED
    BY <1>6, <2>2 DEF Interrupt, postVars, RowInv
<1>7. ASSUME NEW w \in Workers, NEW j \in Jobs, Pick(w, j) PROVE RowInv'
  BY <1>7 DEF Pick, postVars, RowInv, TypeOK
<1>8. ASSUME NEW t \in Threads, DeleteThread(t) PROVE RowInv'
  BY <1>8 DEF DeleteThread, arqVars, RowInv, TypeOK, Enqueued
<1>9. CASE UNCHANGED vars
  BY <1>9 DEF vars, RowInv
<1>10. QED
  BY <1>1, <1>2, <1>3, <1>4, <1>5, <1>6, <1>7, <1>8, <1>9 DEF Next

\* A lookup that finds no row was made for a request whose upsert had failed, or
\* whose thread was deleted since.
LEMMA GemStep ==
  ASSUME TypeOK, RowInv, GemLookupNeverRaces, [Next]_vars
  PROVE  GemLookupNeverRaces'
<1>1. ASSUME NEW j \in Jobs, StartGraph(j) PROVE GemLookupNeverRaces'
  <2>1. UNCHANGED <<post, dropped>> /\ \A k \in Jobs \ {j} : gemRow'[k] = gemRow[k]
    BY <1>1 DEF StartGraph, postVars, TypeOK
  <2>2. CASE KindOf[j] # "langgraph"
    BY <1>1, <2>1, <2>2 DEF StartGraph, GemLookupNeverRaces
  <2>3. CASE KindOf[j] = "langgraph"
    <3>1. post[j] \in Enqueued
      BY <1>1 DEF StartGraph, RowInv
    <3>2. gemRow'[j] = "missing" => post[j] = "enqueued_rowless" \/ dropped[j]
      BY <1>1, <2>3, <3>1 DEF StartGraph, RowInv, Enqueued, TypeOK
    <3>3. QED
      BY <2>1, <3>2 DEF GemLookupNeverRaces
  <2>4. QED
    BY <2>2, <2>3
<1>2. ASSUME NEW w \in Workers, NEW j \in Jobs, Pick(w, j) PROVE GemLookupNeverRaces'
  BY <1>2 DEF Pick, postVars, GemLookupNeverRaces, TypeOK
<1>3. ASSUME NEW w \in Workers, Interrupt(w) PROVE GemLookupNeverRaces'
  BY <1>3 DEF Interrupt, postVars, GemLookupNeverRaces
<1>4. ASSUME NEW j \in Jobs,
             \/ GiveUp(j) \/ EndUnsaved(j) \/ Finish(j)
             \/ SaveAnswer(j) \/ SaveError(j) \/ RejectTask(j)
      PROVE GemLookupNeverRaces'
  BY <1>4 DEF GiveUp, EndUnsaved, Finish, Settle, SaveAnswer, SaveError, RejectTask,
              SaveResult, postVars, GemLookupNeverRaces
<1>5. ASSUME NEW j \in Jobs, UpsertRow(j) \/ Enqueue(j) \/ RefusePost(j)
      PROVE GemLookupNeverRaces'
  <2>1. /\ UNCHANGED <<gemRow, dropped>>
        /\ \A k \in Jobs : post[k] = "enqueued_rowless" => post'[k] = "enqueued_rowless"
    BY <1>5 DEF UpsertRow, Enqueue, RefusePost, ReadyToEnqueue, arqVars, TypeOK
  <2>2. QED
    BY <2>1 DEF GemLookupNeverRaces
<1>6. ASSUME NEW j \in Jobs,
             \/ PushToken(j) \/ PushTurn(j) \/ ExpireLists(j) \/ ExpireResult(j)
             \/ OpenStream(j) \/ SendTurns(j) \/ SendTokens(j) \/ CheckResult(j)
             \/ FlushAndSendDone(j) \/ Disconnect(j)
      PROVE GemLookupNeverRaces'
  <2>1. UNCHANGED <<post, dropped, gemRow>>
    BY <1>6 DEF PushToken, PushTurn, ExpireLists, ExpireResult, OpenStream, SendTurns,
                SendTokens, CheckResult, FlushAndSendDone, Disconnect, DrainTokens,
                postVars, arqVars
  <2>2. QED
    BY <2>1 DEF GemLookupNeverRaces
<1>7. ASSUME NEW t \in Threads, DeleteThread(t) PROVE GemLookupNeverRaces'
  BY <1>7 DEF DeleteThread, arqVars, GemLookupNeverRaces, TypeOK
<1>8. CASE UNCHANGED vars
  BY <1>8 DEF vars, GemLookupNeverRaces
<1>9. QED
  BY <1>1, <1>2, <1>3, <1>4, <1>5, <1>6, <1>7, <1>8 DEF Next

-----------------------------------------------------------------------------
LEMMA InitIInv == Init => IInv
<1> SUFFICES ASSUME Init PROVE IInv
  OBVIOUS
<1>1. TypeOK
  BY PipelineAssumption DEF Init, TypeOK, PostStates, Phases, StreamStates, NoResult,
     Results
<1>2. AttemptInv /\ SlotInv /\ RowInv
  BY DEF Init, AttemptInv, SlotInv, RowInv, Executing, NoResult, Enqueued
<1>3. StreamInv
  <2>1. Len(<<>>) = 0
    OBVIOUS
  <2>2. QED
    BY <2>1 DEF Init, StreamInv
<1>4. StreamIsPrefix /\ GemLookupNeverRaces
  BY DEF Init, StreamIsPrefix, GemLookupNeverRaces, InLoop
<1>5. LoadInv
  <2>1. ASSUME NEW w \in Workers PROVE Load(w) <= MaxJobs
    <3>1. {k \in Jobs : worker[k] = w} = {}
      BY PipelineAssumption DEF Init
    <3>2. QED
      BY <3>1, FS_EmptySet, PipelineAssumption DEF Load
  <2>2. QED
    BY <2>1 DEF LoadInv
<1>6. QED
  BY <1>1, <1>2, <1>3, <1>4, <1>5 DEF IInv

LEMMA StepIInv == IInv /\ [Next]_vars => IInv'
BY TypeStep, AttemptStep, StreamStepInv, SlotStep, LoadStep, PrefixStep, RowStep, GemStep
   DEF IInv

LEMMA Invariance == Spec => []IInv
BY InitIInv, StepIInv, PTL DEF Spec

\* Every variable keeps to the values the code can give it.
THEOREM TypeSafety == Spec => []TypeOK
<1>1. IInv => TypeOK
  BY DEF IInv
<1>2. QED
  BY <1>1, Invariance, PTL

\* Whatever the worker writes between the generator's reads, the browser has
\* been sent a prefix of each list, unless the lists expired under it.
THEOREM StreamSafety == Spec => []StreamIsPrefix
<1>1. IInv => StreamIsPrefix
  BY DEF IInv
<1>2. QED
  BY <1>1, Invariance, PTL

\* A worker that finds no thread row works for a request whose upsert failed, or
\* whose thread was deleted since.
THEOREM GemSafety == Spec => []GemLookupNeverRaces
<1>1. IInv => GemLookupNeverRaces
  BY DEF IInv
<1>2. QED
  BY <1>1, Invariance, PTL

\* Every way an attempt can end gives its worker slot back.
THEOREM SlotSafety == Spec => []SlotsAccounted
<1>1. IInv => SlotsAccounted
  BY DEF IInv, SlotInv, LoadInv, SlotsAccounted
<1>2. QED
  BY <1>1, Invariance, PTL

-----------------------------------------------------------------------------
\* A generator in its loop reaches "done" only by the flush, and the flush takes
\* the list to its end, which lies at or past the mark.
LEMMA FlushCoversMark ==
  ASSUME IInv, Next, NEW k \in Jobs,
         spc[k] \in InLoop, spc'[k] = "done", ~ lapsed[k]
  PROVE  Len(outTokens'[k]) >= sealed[k]
<1>1. FlushAndSendDone(k)
  <2>1. ASSUME NEW j \in Jobs, Quiet(j) \/ PushToken(j) \/ PushTurn(j) PROVE FALSE
    <3>1. UNCHANGED spc
      BY <2>1, QuietFrame DEF PushToken, PushTurn, streamVars
    <3>2. QED
      BY <3>1 DEF InLoop
  <2>2. ASSUME NEW j \in Jobs,
               \/ SaveAnswer(j) \/ SaveError(j) \/ RejectTask(j) \/ ExpireLists(j)
        PROVE FALSE
    <3>1. UNCHANGED spc
      BY <2>2, SaveFrame DEF ExpireLists, streamVars, IInv
    <3>2. QED
      BY <3>1 DEF InLoop
  <2>3. ASSUME NEW w \in Workers, Interrupt(w) \/ \E j \in Jobs : Pick(w, j) PROVE FALSE
    <3>1. UNCHANGED spc
      BY <2>3, WorkerFrame DEF streamVars
    <3>2. QED
      BY <3>1 DEF InLoop
  <2>4. ASSUME NEW j \in Jobs,
               \/ OpenStream(j) \/ SendTurns(j) \/ SendTokens(j) \/ CheckResult(j)
               \/ Disconnect(j)
        PROVE FALSE
    <3>1. spc' = [spc EXCEPT ![j] = spc'[j]] /\ spc'[j] # "done"
      BY <2>4 DEF OpenStream, SendTurns, SendTokens, CheckResult, Disconnect, DrainTokens,
                  IInv, TypeOK
    <3>2. QED
      BY <3>1 DEF InLoop, IInv, TypeOK
  <2>5. ASSUME NEW j \in Jobs, FlushAndSendDone(j) PROVE j = k
    BY <2>5 DEF FlushAndSendDone, DrainTokens, InLoop, IInv, TypeOK
  <2>6. ASSUME NEW t \in Threads, DeleteThread(t) PROVE FALSE
    <3>1. UNCHANGED spc
      BY <2>6, DeleteFrame DEF streamVars
    <3>2. QED
      BY <3>1 DEF InLoop
  <2>7. QED
    BY <2>1, <2>2, <2>3, <2>4, <2>5, <2>6 DEF Next, Quiet
<1> DEFINE new == From(tokens[k], seenTokens[k])
<1>2. outTokens'[k] = outTokens[k] \o new
  BY <1>1 DEF FlushAndSendDone, DrainTokens, IInv, TypeOK
<1>3. /\ outTokens[k] \in Seq(Attempts) /\ tokens[k] \in Seq(Attempts)
      /\ seenTokens[k] \in Nat /\ sealed[k] \in Nat
  BY DEF IInv, TypeOK
<1>4. Len(outTokens[k] \o new) = Len(outTokens[k]) + Len(new)
  BY <1>3, ReadOn
<1>5. Len(outTokens[k]) = seenTokens[k] /\ sealed[k] <= Len(tokens[k])
  BY DEF IInv, StreamInv
<1>6. seenTokens[k] <= Len(tokens[k])
  BY DEF IInv, StreamIsPrefix, Prefix
<1>7. Len(new) = Len(tokens[k]) - seenTokens[k] /\ Len(tokens[k]) \in Nat
  BY <1>3, <1>6, FromType
<1> HIDE DEF new
<1>8. QED
  BY <1>2, <1>3, <1>4, <1>5, <1>7

\* A stream that ran ends with every token that preceded the result.
THEOREM DoneSafety == Spec => DoneDeliversTokens
<1> DEFINE Delivered ==
      \A j \in Jobs :
        spc[j] \in InLoop /\ spc'[j] = "done" /\ ~ lapsed[j] =>
          Len(outTokens'[j]) >= sealed[j]
<1>1. IInv /\ [Next]_vars => [Delivered]_vars
  <2>1. IInv /\ Next => Delivered
    BY FlushCoversMark
  <2>2. QED
    BY <2>1
<1>2. Spec => [][Delivered]_vars
  BY <1>1, Invariance, PTL DEF Spec
<1>3. QED
  BY <1>2 DEF DoneDeliversTokens

\* After a result is saved, only a later delivery of the job changes the lists
\* otherwise than by their expiry, or replaces the result.
LEMMA ResultIsLast ==
  ASSUME IInv, Next, NEW k \in Jobs, result[k] # NoResult, tries[k] = result[k].attempt
  PROVE  /\ result'[k] \in {result[k], NoResult}
         /\ Len(tokens'[k]) <= Len(tokens[k])
         /\ Len(turns'[k]) <= Len(turns[k])
<1>1. phase[k] \notin {"picked", "running"}
  BY DEF IInv, AttemptInv, TypeOK, Results
<1>2. Len(tokens[k]) \in Nat /\ Len(turns[k]) \in Nat
  BY LengthsAreNat DEF IInv
<1> DEFINE Kept == /\ result'[k] = result[k] \/ result'[k] = NoResult
                   /\ tokens'[k] = tokens[k] \/ tokens'[k] = <<>>
                   /\ turns'[k] = turns[k] \/ turns'[k] = <<>>
<1>3. ASSUME NEW j \in Jobs,
             \/ SaveAnswer(j) \/ SaveError(j) \/ RejectTask(j) \/ PushToken(j) \/ PushTurn(j)
      PROVE Kept
  <2>1. j # k
    BY <1>1, <1>3 DEF SaveAnswer, SaveError, RejectTask, PushToken, PushTurn
  <2>2. QED
    BY <1>3, <2>1 DEF SaveAnswer, SaveError, RejectTask, SaveResult, PushToken, PushTurn,
                      IInv, TypeOK
<1>4. ASSUME NEW j \in Jobs, ExpireLists(j) \/ ExpireResult(j) PROVE Kept
  BY <1>4 DEF ExpireLists, ExpireResult, IInv, TypeOK
<1>5. ASSUME NEW w \in Workers, Interrupt(w) \/ \E j \in Jobs : Pick(w, j) PROVE Kept
  BY <1>5, WorkerFrame
<1>6. ASSUME NEW j \in Jobs,
             \/ UpsertRow(j) \/ Enqueue(j) \/ RefusePost(j) \/ GiveUp(j) \/ EndUnsaved(j)
             \/ Finish(j) \/ StartGraph(j) \/ OpenStream(j) \/ SendTurns(j)
             \/ SendTokens(j) \/ CheckResult(j) \/ FlushAndSendDone(j) \/ Disconnect(j)
      PROVE Kept
  <2>1. UNCHANGED storeVars
    BY <1>6 DEF UpsertRow, Enqueue, RefusePost, ReadyToEnqueue, GiveUp, EndUnsaved, Finish,
                Settle, StartGraph, OpenStream, SendTurns, SendTokens, CheckResult,
                FlushAndSendDone, Disconnect, DrainTokens, storeVars
  <2>2. QED
    BY <2>1 DEF storeVars
<1>7. ASSUME NEW t \in Threads, DeleteThread(t) PROVE Kept
  BY <1>7, DeleteFrame DEF storeVars
<1>8. Kept
  BY <1>3, <1>4, <1>5, <1>6, <1>7 DEF Next
<1>9. Len(<<>>) = 0
  OBVIOUS
<1>10. QED
  BY <1>2, <1>8, <1>9

THEOREM ResultSafety == Spec => ResultSealsAttempt
<1> DEFINE Last ==
      \A j \in Jobs :
        result[j] # NoResult /\ tries[j] = result[j].attempt =>
          /\ result'[j] \in {result[j], NoResult}
          /\ Len(tokens'[j]) <= Len(tokens[j])
          /\ Len(turns'[j]) <= Len(turns[j])
<1>1. IInv /\ Next => Last
  BY ResultIsLast
<1>2. IInv /\ [Next]_vars => [Last]_vars
  BY <1>1
<1>3. Spec => [][Last]_vars
  BY <1>2, Invariance, PTL DEF Spec
<1>4. QED
  BY <1>3 DEF ResultSealsAttempt

-----------------------------------------------------------------------------
(* The pipeline implements the sealed log. *)

LEMMA InitMaps == Init => TokenLog!Init
BY DEF Init, TokenLog!Init, Seal, Reader, NoResult, InLoop

\* The rest a generator reads is the rest of the log that its reader lacks.
LEMMA RestMaps ==
  ASSUME IInv, NEW j \in Jobs
  PROVE  TokenLog!Rest(j) = From(tokens[j], seenTokens[j])
BY DEF IInv, StreamInv, TokenLog!Rest, From

LEMMA StepMaps ==
  ASSUME IInv, [Next]_vars
  PROVE  [TokenLog!Next]_(TokenLog!vars)
<1>1. ASSUME NEW j \in Jobs, PushToken(j) PROVE TokenLog!Next
  <2>1. tries[j] \in Attempts
    BY <1>1 DEF PushToken, IInv, AttemptInv, TypeOK, Executing, Attempts
  <2>2. TokenLog!Put(j)
    BY <1>1, <2>1 DEF PushToken, TokenLog!Put, Seal, Reader, streamVars
  <2>3. QED
    BY <2>2 DEF TokenLog!Next
<1>2. ASSUME NEW j \in Jobs, SaveAnswer(j) \/ SaveError(j) \/ RejectTask(j)
      PROVE TokenLog!Next
  <2>1. UNCHANGED <<tokens, streamVars>> /\ sealed' = [sealed EXCEPT ![j] = Len(tokens[j])]
    BY <1>2, SaveFrame DEF IInv
  <2>2. result'[j] # NoResult /\ \A k \in Jobs \ {j} : result'[k] = result[k]
    <3>1. PICK status \in {"answer", "error"} :
            result' = [result EXCEPT ![j] = [status |-> status, attempt |-> tries[j]]]
      BY <1>2, SaveFrame DEF IInv
    <3>2. [status |-> status, attempt |-> tries[j]].status # NoResult.status
      BY DEF NoResult
    <3>3. QED
      BY <3>1, <3>2 DEF IInv, TypeOK
  <2>3. Seal' = [Seal EXCEPT ![j] = "sealed"]
    BY <2>2 DEF Seal
  <2>4. TokenLog!SealLog(j)
    BY <2>1, <2>3 DEF TokenLog!SealLog, Reader, streamVars
  <2>5. QED
    BY <2>4 DEF TokenLog!Next
<1>3. ASSUME NEW j \in Jobs, ExpireLists(j) PROVE TokenLog!Next
  <2>1. spc[j] \in InLoop <=> Reader[j] \in {"reading", "closing"}
    BY DEF Reader, InLoop, IInv, TypeOK, StreamStates
  <2>2. TokenLog!Wipe(j)
    BY <1>3, <2>1 DEF ExpireLists, TokenLog!Wipe, Seal, Reader
  <2>3. QED
    BY <2>2 DEF TokenLog!Next
<1>4. ASSUME NEW j \in Jobs, ExpireResult(j) PROVE TokenLog!Next
  <2>1. Seal' = [Seal EXCEPT ![j] = "open"]
    BY <1>4 DEF ExpireResult, Seal, IInv, TypeOK
  <2>2. TokenLog!Unseal(j)
    BY <1>4, <2>1 DEF ExpireResult, TokenLog!Unseal, Reader, streamVars
  <2>3. QED
    BY <2>2 DEF TokenLog!Next
<1>5. ASSUME NEW j \in Jobs, OpenStream(j) PROVE TokenLog!Next
  <2>1. Reader[j] \in {"none", "closed"}
    BY <1>5 DEF OpenStream, Reader, InLoop
  <2>2. Reader' = [Reader EXCEPT ![j] = IF Seal[j] = "sealed" THEN "immediate" ELSE "reading"]
    BY <1>5 DEF OpenStream, Reader, Seal, InLoop, IInv, TypeOK
  <2>3. TokenLog!Open(j)
    BY <1>5, <2>1, <2>2 DEF OpenStream, TokenLog!Open, Seal, storeVars
  <2>4. QED
    BY <2>3 DEF TokenLog!Next
<1>6. ASSUME NEW j \in Jobs, SendTokens(j) PROVE TokenLog!Next
  <2>1. Reader' = Reader /\ Reader[j] = "reading"
    BY <1>6 DEF SendTokens, DrainTokens, Reader, InLoop, IInv, TypeOK
  <2>2. TokenLog!Read(j)
    BY <1>6, <2>1, RestMaps DEF SendTokens, DrainTokens, TokenLog!Read, Seal, storeVars
  <2>3. QED
    BY <2>2 DEF TokenLog!Next
<1>7. ASSUME NEW j \in Jobs, CheckResult(j)
      PROVE TokenLog!Next \/ UNCHANGED TokenLog!vars
  <2>1. Reader[j] = "reading"
    BY <1>7 DEF CheckResult, Reader, InLoop
  <2>2. UNCHANGED <<tokens, Seal, sealed, outTokens, lapsed>>
    BY <1>7 DEF CheckResult, Seal, storeVars
  <2>3. CASE result[j] # NoResult
    <3>1. Reader' = [Reader EXCEPT ![j] = "closing"] /\ Seal[j] = "sealed"
      BY <1>7, <2>3 DEF CheckResult, Reader, Seal, InLoop, IInv, TypeOK
    <3>2. QED
      BY <2>1, <2>2, <3>1 DEF TokenLog!SeeSeal, TokenLog!Next
  <2>4. CASE result[j] = NoResult
    <3>1. Reader' = Reader
      BY <1>7, <2>4 DEF CheckResult, Reader, InLoop, IInv, TypeOK
    <3>2. QED
      BY <2>2, <3>1 DEF TokenLog!vars
  <2>5. QED
    BY <2>3, <2>4
<1>8. ASSUME NEW j \in Jobs, FlushAndSendDone(j) PROVE TokenLog!Next
  <2>1. Reader' = [Reader EXCEPT ![j] = "done"] /\ Reader[j] = "closing"
    BY <1>8 DEF FlushAndSendDone, DrainTokens, Reader, InLoop, IInv, TypeOK
  <2>2. TokenLog!End(j)
    BY <1>8, <2>1, RestMaps DEF FlushAndSendDone, DrainTokens, TokenLog!End, Seal, storeVars
  <2>3. QED
    BY <2>2 DEF TokenLog!Next
<1>9. ASSUME NEW j \in Jobs, Disconnect(j) PROVE TokenLog!Next
  <2>1. /\ Reader' = [Reader EXCEPT ![j] = "closed"]
        /\ Reader[j] \in {"reading", "closing"}
    BY <1>9 DEF Disconnect, Reader, InLoop, IInv, TypeOK
  <2>2. TokenLog!Leave(j)
    BY <1>9, <2>1 DEF Disconnect, TokenLog!Leave, Seal, storeVars
  <2>3. QED
    BY <2>2 DEF TokenLog!Next
<1>10. ASSUME NEW j \in Jobs, SendTurns(j) PROVE UNCHANGED TokenLog!vars
  <2>1. Reader' = Reader
    BY <1>10 DEF SendTurns, Reader, InLoop, IInv, TypeOK
  <2>2. QED
    BY <1>10, <2>1 DEF SendTurns, TokenLog!vars, Seal, storeVars
<1>11. ASSUME NEW j \in Jobs,
              \/ UpsertRow(j) \/ Enqueue(j) \/ RefusePost(j) \/ GiveUp(j) \/ EndUnsaved(j)
              \/ Finish(j) \/ StartGraph(j) \/ PushTurn(j)
       PROVE UNCHANGED TokenLog!vars
  <2>1. UNCHANGED <<tokens, result, sealed, streamVars>>
    BY <1>11 DEF UpsertRow, Enqueue, RefusePost, ReadyToEnqueue, GiveUp, EndUnsaved, Finish,
                 Settle, StartGraph, PushTurn, storeVars
  <2>2. QED
    BY <2>1 DEF TokenLog!vars, Seal, Reader, streamVars
<1>12. ASSUME NEW w \in Workers, Interrupt(w) \/ \E j \in Jobs : Pick(w, j)
       PROVE UNCHANGED TokenLog!vars
  BY <1>12, WorkerFrame DEF TokenLog!vars, Seal, Reader, streamVars
<1>13. ASSUME NEW t \in Threads, DeleteThread(t) PROVE UNCHANGED TokenLog!vars
  BY <1>13, DeleteFrame DEF TokenLog!vars, Seal, Reader, storeVars, streamVars
<1>14. CASE UNCHANGED vars
  BY <1>14 DEF vars, TokenLog!vars, Seal, Reader
<1>15. QED
  BY <1>1, <1>2, <1>3, <1>4, <1>5, <1>6, <1>7, <1>8, <1>9, <1>10, <1>11, <1>12, <1>13, <1>14
  DEF Next

\* Token list, result key and generator together are a log that a reader follows
\* to the end: no read order, interruption or expiry breaks what SealedLog allows.
THEOREM Refinement == Spec => TokensAreSealedLog
<1>1. IInv /\ [Next]_vars => [TokenLog!Next]_(TokenLog!vars)
  BY StepMaps
<1>2. Spec => TokenLog!Spec
  BY InitMaps, <1>1, Invariance, PTL DEF Spec, TokenLog!Spec
<1>3. QED
  BY <1>2 DEF TokensAreSealedLog

=============================================================================
