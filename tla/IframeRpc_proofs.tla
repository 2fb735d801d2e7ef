-------------------------- MODULE IframeRpc_proofs --------------------------
(***************************************************************************)
(* Whatever the number of calls and pages, a call is answered with its own *)
(* answer. Beside the types the invariant says that the ids of the calls   *)
(* made are different, which is what the uuid of iframe-rpc.js is for, and *)
(* that a reply the bridge has posted, and a result it reads, are of the   *)
(* call they are kept for.                                                 *)
(***************************************************************************)
EXTENDS IframeRpc, FiniteSetTheorems, TLAPS

IdsInv ==
  /\ \A c \in Made : idOf[c] \in 1 .. Cardinality(Made)
  /\ \A c, d \in Made : idOf[c] = idOf[d] => c = d

RepliesInv ==
  \A c \in Calls :
    /\ bridge[c] # "none" => c \in Made
    /\ bridge[c] \in {"none", "posting"} => job[c] = "none"
    /\ reply[c] # "none" => c \in Made
    /\ reply[c] \in saved[c] \cup {"none", "error"}
    /\ result[c] \in saved[c] \cup {"none"}
    /\ bridge[c] = "fetching" => result[c] # "none"

IInv == TypeOK /\ IdsInv /\ RepliesInv /\ AnswerIsForItsCall

-----------------------------------------------------------------------------
\* The next id is a new one, and within the bound of the types.
LEMMA FreshIdIsNew ==
  ASSUME TypeOK, NEW c \in Calls, c \notin Made
  PROVE  /\ Cardinality(Made) \in Nat
         /\ FreshId \in 1 .. Cardinality(Calls)
         /\ Cardinality(Made \cup {c}) = FreshId
<1>1. IsFiniteSet(Calls) /\ Made \subseteq Calls
  BY IframeAssumption DEF Made
<1>2. IsFiniteSet(Made)
  BY <1>1, FS_Subset
<1>3. Cardinality(Made) \in Nat /\ Cardinality(Calls) \in Nat
  BY <1>1, <1>2, FS_CardinalityType
<1>4. Cardinality(Made \cup {c}) = Cardinality(Made) + 1
  BY <1>2, FS_AddElement
<1>5. Cardinality(Made \cup {c}) <= Cardinality(Calls)
  BY <1>1, FS_Subset
<1> QED
  BY <1>3, <1>4, <1>5 DEF FreshId

\* No call is made yet.
LEMMA Initially == Init => IInv
<1> SUFFICES ASSUME Init PROVE IInv
  OBVIOUS
<1>1. Made = {}
  BY DEF Init, Made
<1>2. Cardinality(Calls) \in Nat
  BY IframeAssumption, FS_CardinalityType
<1> QED
  BY <1>1, <1>2, IframeAssumption
  DEF Init, IInv, TypeOK, IdsInv, RepliesInv, AnswerIsForItsCall, Values, Requests

\* A new call has a new id, and nothing else changes for the calls there are.
LEMMA CallKeeps ==
  ASSUME IInv, NEW c \in Calls, NEW r \in Requests, Call(c, r)
  PROVE  IInv'
<1> USE DEF IInv
<1>1. page \in Nat \ {0}
  BY DEF TypeOK
<1>2. Made' = Made \cup {c}
  BY <1>1 DEF Call, Made, TypeOK
<1>3. /\ Cardinality(Made) \in Nat
      /\ FreshId \in 1 .. Cardinality(Calls)
      /\ Cardinality(Made') = FreshId
  BY <1>2, FreshIdIsNew DEF Call
<1>4. Cardinality(Calls) \in Nat
  BY IframeAssumption, FS_CardinalityType
<1>5. TypeOK'
  BY <1>2, <1>3, <1>4 DEF TypeOK, Call, jobVars, Made
<1>6. IdsInv'
  <2>1. \A d \in Made : idOf'[d] = idOf[d] /\ idOf[d] \in 1 .. Cardinality(Made)
    BY DEF Call, IdsInv, TypeOK, Made
  <2>2. idOf'[c] = FreshId
    BY DEF Call, TypeOK
  <2>3. FreshId = 1 + Cardinality(Made)
    BY DEF FreshId
  <2> QED
    BY <1>2, <1>3, <2>1, <2>2, <2>3 DEF IdsInv
<1>7. RepliesInv'
  BY <1>2 DEF RepliesInv, Call, TypeOK, jobVars
<1>8. AnswerIsForItsCall'
  BY DEF AnswerIsForItsCall, Call, jobVars
<1> QED
  BY <1>5, <1>6, <1>7, <1>8

\* The reply settles the call it is for, since no other call has its id.
LEMMA ReceiveKeeps ==
  ASSUME IInv, NEW c \in Calls, Receive(c)
  PROVE  IInv'
<1> USE DEF IInv
<1> DEFINE entry == {d \in pending : idOf[d] = idOf[c]}
<1>1. c \in Made /\ reply[c] \in saved[c] \cup {"error"} /\ reply[c] \in Values
  BY DEF Receive, TypeOK, RepliesInv
<1>2. entry \subseteq {c}
  BY <1>1 DEF TypeOK, IdsInv
<1>3. Made' = Made
  BY DEF Receive, Made
<1>4. outcome' = [d \in Calls |-> IF d \in entry THEN [of |-> c, value |-> reply[c]]
                                                 ELSE outcome[d]]
  BY DEF Receive
<1>5. TypeOK'
  <2>1. outcome' \in [Calls -> [of : Calls, value : Values \cup {"none", "timeout"}]]
    BY <1>1, <1>4 DEF TypeOK
  <2>2. pending' \in SUBSET Made' /\ timers' \in SUBSET pending'
    BY <1>3 DEF TypeOK, Receive
  <2> QED
    BY <2>1, <2>2 DEF TypeOK, Receive, jobVars
<1>6. IdsInv' /\ RepliesInv'
  BY <1>3 DEF IdsInv, RepliesInv, Receive, jobVars
<1>7. AnswerIsForItsCall'
  BY <1>1, <1>2, <1>4 DEF AnswerIsForItsCall, Receive, jobVars
<1> QED
  BY <1>5, <1>6, <1>7

\* What a worker saves is added to what was saved for the call.
LEMMA SaveResultKeeps ==
  ASSUME IInv, NEW c \in Calls, NEW value \in Values, SaveResult(c, value)
  PROVE  IInv'
<1> USE DEF IInv
<1>1. Made' = Made
  BY DEF SaveResult, iframeVars, Made
<1>2. \A d \in Calls : saved[d] \subseteq saved'[d]
  BY DEF SaveResult, TypeOK
<1>3. result'[c] = value /\ value \in saved'[c] /\ \A d \in Calls \ {c} : result'[d] = result[d]
  BY DEF SaveResult, TypeOK
<1>4. TypeOK'
  BY <1>1 DEF TypeOK, SaveResult, iframeVars, bridgeVars
<1>5. IdsInv'
  BY <1>1 DEF IdsInv, SaveResult, iframeVars
<1>6. RepliesInv'
  BY <1>1, <1>2, <1>3 DEF RepliesInv, SaveResult, bridgeVars, Values
<1>7. AnswerIsForItsCall'
  BY <1>2 DEF AnswerIsForItsCall, SaveResult, iframeVars
<1> QED
  BY <1>4, <1>5, <1>6, <1>7

\* The bridge and the job of a call, but for its result.
LEMMA OthersKeep ==
  ASSUME IInv, NEW c \in Calls,
         \/ CallTimeout(c) \/ PostFails(c) \/ Posted(c) \/ StopsWaiting(c)
         \/ StreamDone(c) \/ Fetched(c) \/ FetchThrows(c)
         \/ BeginJob(c) \/ Interrupt(c) \/ EndUnsaved(c)
  PROVE  IInv'
<1> USE DEF IInv
<1>1. CASE CallTimeout(c)
  <2>1. TypeOK'
    BY <1>1 DEF CallTimeout, TypeOK, Made, bridgeVars, jobVars
  <2>2. IdsInv' /\ RepliesInv'
    BY <1>1 DEF CallTimeout, IdsInv, RepliesInv, Made, bridgeVars, jobVars
  <2>3. AnswerIsForItsCall'
    BY <1>1 DEF CallTimeout, AnswerIsForItsCall, TypeOK, jobVars
  <2> QED
    BY <2>1, <2>2, <2>3
<1>2. CASE PostFails(c) \/ StopsWaiting(c)
  <2>1. /\ UNCHANGED <<iframeVars, client, result, saved, cuts>> /\ Reply(c, "error")
        /\ job' \in {job, [job EXCEPT ![c] = "queued"]} /\ bridge[c] \in {"posting", "waiting"}
    BY <1>2 DEF PostFails, StopsWaiting, jobVars
  <2>2. c \notin client \/ job' = job
    BY <1>2 DEF PostFails, StopsWaiting, jobVars, TypeOK, RepliesInv
  <2>3. Made' = Made /\ c \in Made
    BY <2>1 DEF Made, iframeVars, RepliesInv
  <2>4. TypeOK'
    BY <2>1, <2>2, <2>3 DEF Reply, TypeOK, iframeVars, Values
  <2>5. IdsInv' /\ AnswerIsForItsCall'
    BY <2>1, <2>3 DEF IdsInv, AnswerIsForItsCall, iframeVars
  <2>6. RepliesInv'
    BY <2>1, <2>3 DEF Reply, TypeOK, RepliesInv, iframeVars
  <2> QED
    BY <2>4, <2>5, <2>6
<1>3. CASE Posted(c)
  <2>1. Made' = Made /\ c \in Made
    BY <1>3 DEF Posted, Made, iframeVars, RepliesInv
  <2>2. TypeOK'
    BY <1>3, <2>1 DEF Posted, TypeOK, RepliesInv, iframeVars
  <2>3. IdsInv' /\ AnswerIsForItsCall'
    BY <1>3, <2>1 DEF Posted, IdsInv, AnswerIsForItsCall, iframeVars
  <2>4. RepliesInv'
    BY <1>3, <2>1 DEF Posted, TypeOK, RepliesInv
  <2> QED
    BY <2>2, <2>3, <2>4
<1>4. CASE StreamDone(c) \/ FetchThrows(c)
  <2>1. Made' = Made /\ c \in Made
    BY <1>4 DEF StreamDone, FetchThrows, Made, iframeVars, RepliesInv
  <2>2. TypeOK'
    BY <1>4, <2>1 DEF StreamDone, FetchThrows, TypeOK, iframeVars, jobVars
  <2>3. IdsInv' /\ AnswerIsForItsCall'
    BY <1>4, <2>1 DEF StreamDone, FetchThrows, IdsInv, AnswerIsForItsCall, iframeVars, jobVars
  <2>4. RepliesInv'
    BY <1>4, <2>1 DEF StreamDone, FetchThrows, TypeOK, RepliesInv, jobVars
  <2> QED
    BY <2>2, <2>3, <2>4
<1>5. CASE Fetched(c)
  <2>1. PICK value \in {result[c], "error"} : Reply(c, value)
    BY <1>5 DEF Fetched
  <2>2. /\ value \in saved[c] \cup {"error"} /\ value \in Values /\ c \in Made
        /\ UNCHANGED <<iframeVars, jobVars>> /\ bridge[c] = "fetching"
    BY <1>5 DEF Fetched, TypeOK, RepliesInv, Values
  <2>3. Made' = Made
    BY <2>2 DEF Made, iframeVars
  <2>4. TypeOK'
    BY <2>1, <2>2, <2>3 DEF Reply, TypeOK, iframeVars, jobVars, Values
  <2>5. IdsInv' /\ AnswerIsForItsCall'
    BY <2>2, <2>3 DEF IdsInv, AnswerIsForItsCall, iframeVars, jobVars
  <2>6. RepliesInv'
    BY <2>1, <2>2, <2>3 DEF Reply, TypeOK, RepliesInv, jobVars
  <2> QED
    BY <2>4, <2>5, <2>6
<1>6. CASE BeginJob(c) \/ Interrupt(c) \/ EndUnsaved(c)
  <2>1. /\ UNCHANGED <<iframeVars, bridgeVars, result, saved>> /\ job[c] # "none"
        /\ cuts' \in 0 .. MaxCuts
        /\ \E to \in {"queued", "running", "lost"} :
             /\ job' = [job EXCEPT ![c] = to]
             /\ client' \subseteq (IF to = "running" THEN client \cup {c} ELSE client \ {c})
    BY <1>6, IframeAssumption DEF BeginJob, Interrupt, EndUnsaved, TypeOK
  <2>2. Made' = Made
    BY <2>1 DEF Made, iframeVars
  <2>3. TypeOK'
    BY <2>1, <2>2 DEF TypeOK, iframeVars, bridgeVars
  <2>4. IdsInv' /\ AnswerIsForItsCall'
    BY <2>1, <2>2 DEF IdsInv, AnswerIsForItsCall, iframeVars
  <2>5. RepliesInv'
    BY <2>1, <2>2 DEF TypeOK, RepliesInv, bridgeVars
  <2> QED
    BY <2>3, <2>4, <2>5
<1> QED
  BY <1>1, <1>2, <1>3, <1>4, <1>5, <1>6

\* Another page has no call pending, and the calls of the others keep theirs.
LEMMA PageKeeps ==
  ASSUME IInv, ShowAnotherPage
  PROVE  IInv'
BY IframeAssumption DEF IInv, ShowAnotherPage, TypeOK, IdsInv, RepliesInv, AnswerIsForItsCall, Made,
                        bridgeVars, jobVars

\* Every step keeps the invariant.
LEMMA Invariance == IInv /\ [Next]_vars => IInv'
<1> SUFFICES ASSUME IInv, [Next]_vars PROVE IInv'
  OBVIOUS
<1>1. CASE UNCHANGED vars
  BY <1>1, ZenonT(30) DEF vars, iframeVars, bridgeVars, jobVars, IInv, TypeOK, IdsInv, RepliesInv,
              AnswerIsForItsCall, Made
<1>2. CASE ShowAnotherPage
  BY <1>2, PageKeeps
<1>3. ASSUME NEW c \in Calls, NEW r \in Requests, Call(c, r) PROVE IInv'
  BY <1>3, CallKeeps
<1>4. ASSUME NEW c \in Calls, NEW value \in Values, SaveResult(c, value) PROVE IInv'
  BY <1>4, SaveResultKeeps
<1>5. ASSUME NEW c \in Calls, Receive(c) PROVE IInv'
  BY <1>5, ReceiveKeeps
<1> QED
  BY <1>1, <1>2, <1>3, <1>4, <1>5, OthersKeep DEF Next

-----------------------------------------------------------------------------
\* Types of the bridge, for every set of calls, pages and interrupted runs.
THEOREM TypeSafety == Spec => []TypeOK
<1>1. IInv => TypeOK
  BY DEF IInv
<1> QED
  BY Initially, Invariance, <1>1, PTL DEF Spec

\* A call is settled with what a worker saved for it, an error or a time-out, never with the
\* reply to another call (iframe-rpc.js:27-51, parent-bridge.js:33-46).
THEOREM AnswerSafety == Spec => []AnswerIsForItsCall
<1>1. IInv => AnswerIsForItsCall
  BY DEF IInv
<1> QED
  BY Initially, Invariance, <1>1, PTL DEF Spec
=============================================================================
