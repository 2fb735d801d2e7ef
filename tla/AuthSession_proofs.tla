------------------------- MODULE AuthSession_proofs -------------------------
(***************************************************************************)
(* For any number of flows, polls and intervals, and however often the     *)
(* network or the server fails: a page that says it is signed in has a     *)
(* session the server accepts. What the invariant adds to the types is     *)
(* that GitHub's tokens bound the sessions, that the session a reply       *)
(* carries was never the cookie's, logged out or another reply's, and that *)
(* nothing the page did before it was loaded anew reaches it while it asks *)
(* who it is.                                                              *)
(***************************************************************************)
EXTENDS AuthSession, FiniteSetTheorems, TLAPS

LoggingIn == {r \in Requests : poll[r].at = "login"}
Spent == {f \in Flows : grant[f] = "spent"}

\* Each session cost GitHub's one token of a flow, and so will each one being made.
TokensInv ==
  /\ \A f \in Flows : starting[f] \in {"unused", "asked"} => grant[f] = "unknown"
  /\ \A r \in Requests : poll[r].at # "free" => poll[r].flow \in Flows
  /\ issued + Cardinality(LoggingIn) <= Cardinality(Spent)

\* The session a reply carries is fresh until the reply is heard.
RepliesInv ==
  /\ blocklist \cup {logout.session} \subseteq 0 .. issued
  /\ \A r \in Requests : poll[r].at = "done" =>
       poll[r].session \in (1 .. issued) \ (blocklist \cup {cookie, logout.session})
  /\ \A q, r \in Requests :
       poll[q].at = "done" /\ poll[r].at = "done" /\ poll[q].session = poll[r].session
         => q = r

\* A page that asks who it is has nothing else under way, and the answer stays true.
MountInv ==
  /\ status # "none" =>
       /\ authState = "unknown"
       /\ logout = NoLogout
       /\ \A f \in Flows : starting[f] \notin {"asked", "stored"}
       /\ \A s \in Slots : timers[s] = NoFlow
       /\ \A r \in Requests : poll[r] = Free
  /\ status = "authenticated" => SessionState(cookie) = "authenticated" \/ aged # {}

IInv == TypeOK /\ TokensInv /\ RepliesInv /\ MountInv /\ SignedInHasSession

-----------------------------------------------------------------------------
\* Nothing has been asked but who the page is.
LEMMA Initially == Init => IInv
<1> SUFFICES ASSUME Init PROVE IInv
  OBVIOUS
<1>1. Cardinality(Flows) \in Nat
  BY AuthAssumption, FS_CardinalityType
<1>2. LoggingIn = {} /\ Spent = {}
  BY DEF Init, LoggingIn, Spent, Free
<1>3. issued + Cardinality(LoggingIn) <= Cardinality(Spent)
  BY <1>2, FS_EmptySet DEF Init
<1>4. TypeOK
  BY <1>1, AuthAssumption DEF Init, TypeOK, Free, NoLogout, Sessions
<1>5. TokensInv
  BY <1>3 DEF Init, TokensInv, Free
<1>6. RepliesInv /\ MountInv /\ SignedInHasSession
  BY DEF Init, RepliesInv, MountInv, SignedInHasSession, Free, NoLogout
<1> QED
  BY <1>4, <1>5, <1>6 DEF IInv

\* Both sets that are counted are finite.
LEMMA Counted ==
  /\ IsFiniteSet(LoggingIn) /\ Cardinality(LoggingIn) \in Nat
  /\ IsFiniteSet(Spent) /\ Cardinality(Spent) \in Nat
  /\ Cardinality(Flows) \in Nat /\ Cardinality(Spent) <= Cardinality(Flows)
<1>1. LoggingIn \in SUBSET Requests /\ Spent \in SUBSET Flows
  BY DEF LoggingIn, Spent
<1>2. IsFiniteSet(LoggingIn) /\ IsFiniteSet(Spent) /\ Cardinality(Spent) <= Cardinality(Flows)
  BY <1>1, AuthAssumption, FS_Subset
<1> QED
  BY <1>2, AuthAssumption, FS_CardinalityType

Polls == [at : {"free", "sent", "github", "login"} \cup Replies,
          flow : Flows \cup {NoFlow}, session : Sessions \cup {0}]

SessionTypes ==
  /\ blocklist \in SUBSET Sessions
  /\ issued \in Sessions \cup {0}
  /\ aged \in SUBSET (1 .. issued)
  /\ cookie \in 0 .. issued
  /\ logout \in [at : {"none", "asked", "served"}, session : Sessions \cup {0}]

FlowTypes ==
  /\ deviceFlows \in SUBSET Flows
  /\ grant \in [Flows -> {"unknown", "pending", "approved", "spent", "refused"}]
  /\ starting \in [Flows -> {"unused", "asked", "stored", "known"}]
  /\ flowData \in Flows \cup {NoFlow}
  /\ timers \in [Slots -> Flows \cup {NoFlow}]
  /\ pollRef \in Slots \cup {NoSlot}

OtherTypes ==
  /\ authState \in {"unknown", "authenticated", "unauthenticated", "expired"}
  /\ status \in {"none", "asked", "authenticated", "unauthenticated", "expired"}
  /\ troubles \in 0 .. MaxTroubles
  /\ mishaps \in SUBSET {"restart", "interval orphaned", "wrong timer", "session lost",
                         "unexpected answer", "logout unanswered"}

\* The types in four parts, of which a step changes one or two.
LEMMA TypesInParts ==
  TypeOK <=> SessionTypes /\ FlowTypes /\ OtherTypes /\ poll \in [Requests -> Polls]
BY DEF TypeOK, SessionTypes, FlowTypes, OtherTypes, Polls

\* A cookie is the number of a session that was made, or 0.
LEMMA Numbers == TypeOK => issued \in Nat /\ cookie \in 0 .. issued
BY TypesInParts, Counted DEF SessionTypes, Sessions

\* A token that waits for its session leaves a number for it.
LEMMA RoomForSession ==
  ASSUME TypeOK, TokensInv, NEW r \in Requests, poll[r].at = "login"
  PROVE  issued \in Nat /\ issued + 1 \in Sessions
<1>1. r \in LoggingIn
  BY DEF LoggingIn
<1>2. Cardinality(LoggingIn) # 0
  BY <1>1, Counted, FS_EmptySet
<1>3. issued \in Nat
  BY Numbers
<1>4. issued + Cardinality(LoggingIn) <= Cardinality(Spent)
  BY DEF TokensInv
<1>5. issued + 1 <= Cardinality(Flows)
  BY <1>2, <1>3, <1>4, Counted
<1> QED
  BY <1>3, <1>5, Counted DEF Sessions

-----------------------------------------------------------------------------
(* The types *)

\* What a step of a poll may make of it.
LEMMA PollTypes ==
  ASSUME TypeOK, NEW r \in Requests
  PROVE  /\ poll \in [Requests -> Polls]
         /\ poll[r].flow \in Flows \cup {NoFlow} /\ poll[r].session \in Sessions \cup {0}
         /\ Free \in Polls
         /\ \A s \in Slots : [at |-> "sent", flow |-> timers[s], session |-> 0] \in Polls
         /\ \A n \in Sessions : [poll[r] EXCEPT !.at = "done", !.session = n] \in Polls
         /\ \A at \in Replies \cup {"github", "login"} : [poll[r] EXCEPT !.at = at] \in Polls
<1>1. poll \in [Requests -> Polls]
  BY DEF TypeOK, Polls
<1>2. poll[r] \in Polls
  BY <1>1
<1> QED
  BY <1>1, <1>2 DEF Polls, Replies, Free, TypeOK

\* A step of one poll, and one that leaves the polls alone or gives them up.
LEMMA PollsKept ==
  ASSUME TypeOK, TokensInv, NEW r \in Requests,
         \/ \E s \in Slots : Tick(s, r)
         \/ Serve(r) \/ HearPending(r) \/ HearDone(r) \/ HearSlow(r) \/ HearError(r) \/ PollLost(r)
  PROVE  poll' \in [Requests -> Polls]
<1>1. \E p \in Polls : poll' = [poll EXCEPT ![r] = p]
  <2>1. CASE \E s \in Slots : Tick(s, r)
    BY <2>1, PollTypes DEF Tick
  <2>2. CASE Serve(r)
    <3>1. CASE CreateSession(r)
      BY <3>1, PollTypes, RoomForSession DEF CreateSession
    <3>2. ASSUME NEW at \in Replies \cup {"github", "login"}, Goes(r, at)
          PROVE  \E p \in Polls : poll' = [poll EXCEPT ![r] = p]
      <4>1. poll' = [poll EXCEPT ![r] = [poll[r] EXCEPT !.at = at]]
        BY <3>2 DEF Goes
      <4> QED
        BY <4>1, PollTypes
    <3>3. \/ CreateSession(r)
          \/ \E at \in Replies \cup {"github", "login"} : Goes(r, at)
      BY <2>2 DEF Serve, Answer, Lookup, Pending, SlowDown, TakeToken, EndFlow, BreakFlow, Replies
    <3> QED
      BY <3>1, <3>2, <3>3
  <2>3. CASE HearPending(r) \/ HearDone(r) \/ HearSlow(r) \/ HearError(r) \/ PollLost(r)
    BY <2>3, PollTypes DEF HearPending, HearDone, HearSlow, HearError, PollLost
  <2> QED
    BY <2>1, <2>2, <2>3
<1> QED
  BY <1>1, PollTypes

\* The sessions: a new one has a number left, a cookie and a logout name one that was made.
LEMMA SessionTypesKept == IInv /\ Next => SessionTypes'
<1> SUFFICES ASSUME IInv, Next PROVE SessionTypes'
  OBVIOUS
<1>1. SessionTypes /\ issued \in Nat /\ Sessions \subseteq Nat \ {0}
  BY TypesInParts, Counted DEF IInv, SessionTypes, Sessions
<1>2. CASE UNCHANGED <<blocklist, issued, aged, cookie, logout>>
  BY <1>1, <1>2 DEF SessionTypes
<1>3. CASE Age \/ DropCookie \/ Restart
  BY <1>1, <1>3 DEF Age, DropCookie, Restart, SessionTypes, serverVars
<1>4. ASSUME NEW r \in Requests, CreateSession(r) PROVE SessionTypes'
  <2>1. issued' = issued + 1 /\ issued + 1 \in Sessions
    BY <1>4, RoomForSession DEF IInv, CreateSession
  <2> QED
    BY <1>1, <1>4, <2>1 DEF CreateSession, SessionTypes
<1>5. ASSUME NEW r \in Requests, HearDone(r) PROVE SessionTypes'
  <2>1. cookie' \in 0 .. issued
    BY <1>1, <1>5 DEF HearDone, IInv, RepliesInv
  <2> QED
    BY <1>1, <1>5, <2>1 DEF HearDone, SessionTypes, serverVars
<1>6. CASE PerformLogout \/ HearLogout \/ LogoutFails
  <2>1. cookie \in Sessions \cup {0}
    BY <1>1, Counted DEF SessionTypes, Sessions
  <2>2. cookie' \in 0 .. issued
    <3>1. cookie' \in {0, cookie}
      BY <1>6 DEF PerformLogout, HearLogout, LogoutFails
    <3> QED
      BY <1>1, <3>1 DEF SessionTypes
  <2>3. logout' = NoLogout \/ logout' = [at |-> "asked", session |-> cookie]
    BY <1>6 DEF PerformLogout, HearLogout, LogoutFails
  <2>4. logout' \in [at : {"none", "asked", "served"}, session : Sessions \cup {0}]
    BY <2>1, <2>3 DEF NoLogout
  <2>5. UNCHANGED <<blocklist, issued, aged>>
    BY <1>6 DEF PerformLogout, HearLogout, LogoutFails, serverVars
  <2> QED
    BY <1>1, <2>2, <2>4, <2>5 DEF SessionTypes
<1>7. CASE ServeLogout
  <2>1. logout.session \in 0 .. issued /\ logout.session \in Sessions \cup {0}
    BY <1>1 DEF SessionTypes, IInv, RepliesInv
  <2>2. SessionState(logout.session) = "authenticated" => logout.session \in Sessions
    BY <1>1, <2>1 DEF SessionState, Verifies
  <2>3. logout' \in [at : {"none", "asked", "served"}, session : Sessions \cup {0}]
    BY <1>1, <1>7 DEF ServeLogout, SessionTypes
  <2> QED
    BY <1>1, <1>7, <2>2, <2>3 DEF ServeLogout, SessionTypes
<1> QED
  BY <1>2, <1>3, <1>4, <1>5, <1>6, <1>7
  DEF Next, ServeStatus, HearStatus, StartFlow, ServeStart, ShowCode, StartFails, Decide,
      Tick, Serve,
      Lookup, Answer, Pending, SlowDown, TakeToken, EndFlow, BreakFlow, Hear, HearPending,
      HearSlow, HearError,
      PollLost, Reload, serverVars

\* The flows: an interval polls the flow it was started for.
LEMMA FlowTypesKept == IInv /\ Next => FlowTypes'
<1> SUFFICES ASSUME IInv, Next PROVE FlowTypes'
  OBVIOUS
<1>1. FlowTypes
  BY TypesInParts DEF IInv
<1>2. Cleared(pollRef) \in [Slots -> Flows \cup {NoFlow}]
  BY <1>1 DEF Cleared, FlowTypes
<1>3. CASE UNCHANGED <<deviceFlows, grant, starting, flowData, timers, pollRef>>
  BY <1>1, <1>3 DEF FlowTypes
<1>4. ASSUME NEW f \in Flows,
             StartFlow(f) \/ ServeStart(f) \/ ShowCode(f) \/ StartFails(f) \/ Decide(f)
      PROVE  FlowTypes'
  BY <1>1, <1>2, <1>4
  DEF StartFlow, ServeStart, StartDeviceFlow, ShowCode, StartFails, Decide, FlowTypes, serverVars,
      clientVars
<1>5. ASSUME NEW r \in Requests,
             TakeToken(r) \/ EndFlow(r) \/ CreateSession(r) \/ HearDone(r) \/ HearSlow(r)
             \/ HearError(r) \/ BreakFlow(r) \/ PollLost(r)
      PROVE  FlowTypes'
  <2>1. poll[r].flow \in Flows \cup {NoFlow}
    BY PollTypes DEF IInv
  <2> QED
    BY <1>1, <1>2, <1>5, <2>1
    DEF TakeToken, EndFlow, BreakFlow, GrantAfter, PollLost, CreateSession, HearDone, HearSlow,
        HearError, FlowTypes, serverVars, clientVars
<1>6. CASE HearLogout \/ Reload \/ Restart
  BY <1>1, <1>6 DEF HearLogout, Reload, Restart, FlowTypes, serverVars, clientVars
<1> QED
  BY <1>3, <1>4, <1>5, <1>6
  DEF Next, ServeStatus, HearStatus, Age, DropCookie, Tick, Serve, Lookup, Answer,
      Pending, SlowDown,
      Hear, HearPending, PollLost, PerformLogout, ServeLogout, LogoutFails, serverVars, clientVars

\* What the page says, and the bounded history.
LEMMA OtherTypesKept == IInv /\ Next => OtherTypes'
<1> SUFFICES ASSUME IInv, Next PROVE OtherTypes'
  OBVIOUS
<1>1. OtherTypes
  BY TypesInParts DEF IInv
<1>2. CASE UNCHANGED <<authState, status, history>>
  BY <1>1, <1>2 DEF OtherTypes, history
<1>3. CASE ServeStatus \/ HearStatus \/ HearLogout \/ LogoutFails \/ Reload
  BY <1>1, <1>3
  DEF ServeStatus, SessionState, HearStatus, HearLogout, LogoutFails, Reload,
      OtherTypes, clientVars,
      history
<1>4. ASSUME NEW f \in Flows, ShowCode(f) PROVE OtherTypes'
  BY <1>1, <1>4 DEF ShowCode, OtherTypes
<1>5. ASSUME Trouble PROVE troubles' \in 0 .. MaxTroubles
  <2>1. troubles \in 0 .. MaxTroubles /\ MaxTroubles \in Nat
    BY <1>1, AuthAssumption DEF OtherTypes
  <2> QED
    BY <1>5, <2>1 DEF Trouble
<1>6. ASSUME NEW r \in Requests, SlowDown(r) \/ BreakFlow(r) \/ PollLost(r) PROVE OtherTypes'
  BY <1>1, <1>5, <1>6 DEF SlowDown, BreakFlow, PollLost, OtherTypes, clientVars
<1>7. CASE Restart
  BY <1>1, <1>5, <1>7 DEF Restart, OtherTypes, clientVars
<1>8. ASSUME NEW r \in Requests, HearDone(r) \/ HearSlow(r) \/ HearError(r) PROVE OtherTypes'
  BY <1>1, <1>8 DEF HearDone, HearSlow, HearError, StrayIf, OtherTypes
<1> QED
  BY <1>2, <1>3, <1>4, <1>6, <1>7, <1>8
  DEF Next, Age, DropCookie, StartFlow, ServeStart, StartFails, Decide, Tick, Serve, Lookup, Answer,
      Pending, TakeToken, EndFlow, BreakFlow, CreateSession, Hear, HearPending, PerformLogout,
      ServeLogout,
      clientVars

\* The polls; the rest of the types is above.
LEMMA TypesKept == IInv /\ Next => TypeOK'
<1> SUFFICES ASSUME IInv, Next PROVE TypeOK'
  OBVIOUS
<1>1. TypeOK /\ TokensInv /\ poll \in [Requests -> Polls] /\ \A r \in Requests : Free \in Polls
  BY TypesInParts, PollTypes DEF IInv
<1>2. ASSUME UNCHANGED poll PROVE poll' \in [Requests -> Polls]
  BY <1>1, <1>2
<1>3. ASSUME NEW r \in Requests,
             (\E s \in Slots : Tick(s, r)) \/ Serve(r) \/ Hear(r) \/ PollLost(r)
      PROVE  poll' \in [Requests -> Polls]
  BY <1>1, <1>3, PollsKept DEF Hear
<1>4. ASSUME Reload \/ Restart PROVE poll' \in [Requests -> Polls]
  BY <1>1, <1>4 DEF Reload, Restart
<1>5. poll' \in [Requests -> Polls]
  BY <1>1, <1>2, <1>3, <1>4
  DEF Next, ServeStatus, HearStatus, Age, DropCookie, StartFlow, ServeStart, ShowCode,
      StartFails, Decide, PerformLogout, ServeLogout, HearLogout, LogoutFails
<1> QED
  BY <1>5, SessionTypesKept, FlowTypesKept, OtherTypesKept
  DEF TypeOK, SessionTypes, FlowTypes, OtherTypes, Polls

-----------------------------------------------------------------------------
(* The tokens *)

\* A step of one poll that makes no session leads to a poll of a known flow that carries
\* none; only a token that is taken makes it one that logs in.
LEMMA PollSteps ==
  ASSUME TypeOK, TokensInv, NEW r \in Requests,
         \/ \E s \in Slots : Tick(s, r)
         \/ Lookup(r) \/ Answer(r) \/ Hear(r) \/ PollLost(r)
  PROVE  \E p \in Polls :
           /\ poll' = [poll EXCEPT ![r] = p]
           /\ p.at # "done"
           /\ p.at # "free" => p.flow \in Flows
           /\ ~TakeToken(r) => poll[r].at # "login" /\ p.at # "login"
<1>1. poll[r].at # "free" => poll[r].flow \in Flows
  BY DEF TokensInv
<1>2. CASE \E s \in Slots : Tick(s, r)
  <2>1. PICK s \in Slots : Tick(s, r)
    BY <1>2
  <2> DEFINE p == [at |-> "sent", flow |-> timers[s], session |-> 0]
  <2>2. p \in Polls
    BY PollTypes
  <2>3. p.at = "sent" /\ p.flow \in Flows
    BY <2>1, TypesInParts DEF Tick, FlowTypes
  <2>4. poll' = [poll EXCEPT ![r] = p] /\ poll[r].at = "free"
    BY <2>1 DEF Tick, Free
  <2> HIDE DEF p
  <2> QED
    BY <2>2, <2>3, <2>4
<1>3. CASE Hear(r) \/ PollLost(r)
  <2>1. poll' = [poll EXCEPT ![r] = Free] /\ poll[r].at # "login" /\ Free \in Polls
    BY <1>3, PollTypes
    DEF Hear, HearPending, HearDone, HearSlow, HearError, PollLost, Replies
  <2> QED
    BY <2>1 DEF Free
<1>4. CASE Lookup(r) \/ Answer(r)
  <2>1. \E at \in {"pending", "slow", "error", "github", "login"} :
          /\ Goes(r, at)
          /\ poll[r].at \in {"sent", "github"}
          /\ ~TakeToken(r) => at # "login"
    BY <1>4 DEF Lookup, Answer, Pending, SlowDown, TakeToken, EndFlow, BreakFlow
  <2>2. PICK at \in {"pending", "slow", "error", "github", "login"} :
          /\ Goes(r, at)
          /\ poll[r].at \in {"sent", "github"}
          /\ ~TakeToken(r) => at # "login"
    BY <2>1
  <2> DEFINE p == [poll[r] EXCEPT !.at = at]
  <2>3. p \in Polls /\ poll' = [poll EXCEPT ![r] = p] /\ poll[r] \in Polls
    BY <2>2, PollTypes DEF Goes, Replies
  <2>4. p.at = at /\ p.flow = poll[r].flow
    BY <2>3 DEF Polls
  <2> QED
    BY <1>1, <2>2, <2>3, <2>4
<1> QED
  BY <1>2, <1>3, <1>4

\* Fewer polls that log in and no fewer tokens spent, for the same sessions.
LEMMA NoMoreCounted ==
  ASSUME TypeOK, TokensInv, issued' = issued, LoggingIn' \subseteq LoggingIn, Spent \subseteq Spent'
  PROVE  issued' + Cardinality(LoggingIn') <= Cardinality(Spent')
<1>1. Cardinality(LoggingIn') <= Cardinality(LoggingIn) /\ IsFiniteSet(LoggingIn')
  BY Counted, FS_Subset
<1>2. Cardinality(LoggingIn') \in Nat
  BY <1>1, FS_CardinalityType
<1>3. issued \in Nat
  BY Numbers
<1>4. Spent' \in SUBSET Flows
  BY DEF Spent
<1>5. IsFiniteSet(Spent') /\ Cardinality(Spent) <= Cardinality(Spent')
  BY <1>4, AuthAssumption, FS_Subset
<1>6. Cardinality(Spent') \in Nat
  BY <1>5, FS_CardinalityType
<1> QED
  BY <1>1, <1>2, <1>3, <1>5, <1>6, Counted DEF TokensInv

\* What GitHub may have given with an answer that is not heard of.
LEMMA GrantsAfter ==
  ASSUME TypeOK, TokensInv, NEW f \in Flows \cup {NoFlow}, NEW g \in GrantAfter(f)
  PROVE  /\ \A d \in Flows : grant[d] = "spent" => g[d] = "spent"
         /\ \A d \in Flows : starting[d] \in {"unused", "asked"} => g[d] = "unknown"
<1>1. grant \in [Flows -> {"unknown", "pending", "approved", "spent", "refused"}]
  BY DEF TypeOK
<1>2. CASE g = grant
  BY <1>2 DEF TokensInv
<1>3. CASE grant[f] = "approved" /\ g = [grant EXCEPT ![f] = "spent"]
  BY <1>1, <1>3 DEF TokensInv
<1> QED
  BY <1>2, <1>3 DEF GrantAfter

\* A token is taken for a poll that begins to log in, and used up when its session is made.
LEMMA TokensKept == IInv /\ Next => TokensInv'
<1> SUFFICES ASSUME IInv, Next PROVE TokensInv'
  OBVIOUS
<1>1. TypeOK /\ TokensInv /\ FlowTypes /\ poll \in [Requests -> Polls]
  BY TypesInParts DEF IInv
<1>2. issued \in Nat
  BY Numbers DEF IInv
<1>3. CASE UNCHANGED <<starting, grant, poll, issued>>
  BY <1>1, <1>3 DEF TokensInv, LoggingIn, Spent
<1>4. ASSUME NEW f \in Flows,
             StartFlow(f) \/ ServeStart(f) \/ ShowCode(f) \/ StartFails(f) \/ Decide(f)
      PROVE  TokensInv'
  <2>1. UNCHANGED <<poll, issued>>
    BY <1>4 DEF StartFlow, ServeStart, ShowCode, StartFails, Decide, serverVars
  <2>2. /\ \A d \in Flows \ {f} : starting'[d] = starting[d] /\ grant'[d] = grant[d]
        /\ starting'[f] \in {"unused", "asked"} => grant'[f] = "unknown"
        /\ grant'[f] = "spent" <=> grant[f] = "spent"
    <3>1. CASE StartFlow(f) \/ ShowCode(f) \/ StartFails(f)
      BY <1>1, <3>1 DEF StartFlow, ShowCode, StartFails, FlowTypes, TokensInv
    <3>2. CASE ServeStart(f)
      BY <1>1, <3>2 DEF ServeStart, StartDeviceFlow, FlowTypes, TokensInv
    <3>3. CASE Decide(f)
      BY <1>1, <3>3 DEF Decide, FlowTypes, TokensInv, clientVars
    <3> QED
      BY <1>4, <3>1, <3>2, <3>3
  <2>3. Spent' = Spent /\ LoggingIn' = LoggingIn
    BY <2>1, <2>2 DEF Spent, LoggingIn
  <2> QED
    BY <1>1, <2>1, <2>2, <2>3 DEF TokensInv
<1>5. ASSUME NEW r \in Requests,
             (\E s \in Slots : Tick(s, r)) \/ Lookup(r) \/ Answer(r) \/ Hear(r) \/ PollLost(r)
      PROVE  TokensInv'
  <2>1. PICK p \in Polls :
           /\ poll' = [poll EXCEPT ![r] = p]
           /\ p.at # "done"
           /\ p.at # "free" => p.flow \in Flows
           /\ ~TakeToken(r) => poll[r].at # "login" /\ p.at # "login"
    BY <1>1, <1>5, PollSteps
  <2>2. UNCHANGED <<starting, issued>>
        /\ (UNCHANGED grant \/ TakeToken(r) \/ grant' \in GrantAfter(poll[r].flow))
    BY <1>5
    DEF Tick, Lookup, Answer, Pending, SlowDown, TakeToken, EndFlow, BreakFlow, Hear, HearPending,
        HearDone,
        HearSlow, HearError, PollLost, serverVars, clientVars
  <2>3. \A q \in Requests : poll'[q].at # "free" => poll'[q].flow \in Flows
    BY <1>1, <2>1 DEF TokensInv
  <2>4. CASE ~TakeToken(r)
    <3>1. poll[r].flow \in Flows \cup {NoFlow}
      BY <1>1, PollTypes
    <3>2. grant' \in GrantAfter(poll[r].flow)
      BY <2>2, <2>4 DEF GrantAfter
    <3>3. /\ \A d \in Flows : grant[d] = "spent" => grant'[d] = "spent"
          /\ \A d \in Flows : starting[d] \in {"unused", "asked"} => grant'[d] = "unknown"
      BY <1>1, <3>1, <3>2, GrantsAfter
    <3>4. Spent \subseteq Spent' /\ LoggingIn' \subseteq LoggingIn
      BY <1>1, <2>1, <2>4, <3>3 DEF Spent, LoggingIn
    <3> QED
      BY <1>1, <2>2, <2>3, <3>3, <3>4, NoMoreCounted DEF TokensInv
  <2>5. CASE TakeToken(r)
    <3> DEFINE f == poll[r].flow
    <3>1. f \in Flows /\ grant[f] = "approved" /\ grant' = [grant EXCEPT ![f] = "spent"]
          /\ poll[r].at = "github"
      BY <1>1, <2>5 DEF TakeToken, TokensInv
    <3>2. poll'[r].at = "login" /\ \A q \in Requests \ {r} : poll'[q] = poll[q]
      BY <1>1, <2>5 DEF TakeToken, Goes, Polls
    <3>3. Spent' = Spent \cup {f} /\ f \notin Spent
      BY <1>1, <3>1 DEF Spent, FlowTypes
    <3>4. LoggingIn' = LoggingIn \cup {r} /\ r \notin LoggingIn
      BY <3>1, <3>2 DEF LoggingIn
    <3>5. /\ Cardinality(Spent') = Cardinality(Spent) + 1
          /\ Cardinality(LoggingIn') = Cardinality(LoggingIn) + 1
      BY <3>3, <3>4, Counted, FS_AddElement
    <3>6. issued' + Cardinality(LoggingIn') <= Cardinality(Spent')
      BY <1>1, <1>2, <2>2, <3>5, Counted DEF TokensInv
    <3>7. \A d \in Flows : starting'[d] \in {"unused", "asked"} => grant'[d] = "unknown"
      BY <1>1, <2>2, <3>1 DEF TokensInv, FlowTypes
    <3> QED
      BY <2>3, <3>6, <3>7 DEF TokensInv
  <2> QED
    BY <2>2, <2>4, <2>5
<1>6. ASSUME NEW r \in Requests, CreateSession(r) PROVE TokensInv'
  <2>1. UNCHANGED <<starting, grant>> /\ issued' = issued + 1 /\ poll[r].at = "login"
    BY <1>6 DEF CreateSession, clientVars
  <2>2. /\ poll'[r].at = "done" /\ poll'[r].flow = poll[r].flow
        /\ \A q \in Requests \ {r} : poll'[q] = poll[q]
    BY <1>1, <1>6 DEF CreateSession, Polls
  <2>3. Spent' = Spent /\ LoggingIn' = LoggingIn \ {r} /\ r \in LoggingIn
    BY <2>1, <2>2 DEF Spent, LoggingIn
  <2>4. Cardinality(LoggingIn') = Cardinality(LoggingIn) - 1
    BY <2>3, Counted, FS_RemoveElement
  <2>5. issued' + Cardinality(LoggingIn') <= Cardinality(Spent')
    BY <1>1, <1>2, <2>1, <2>3, <2>4, Counted DEF TokensInv
  <2> QED
    BY <1>1, <2>1, <2>2, <2>5 DEF TokensInv
<1>7. CASE Reload \/ Restart
  <2>1. /\ UNCHANGED <<grant, issued, starting>>
        /\ \A r \in Requests : poll'[r] \in {poll[r], Free}
    BY <1>7 DEF Reload, Restart, serverVars, clientVars
  <2>2. Spent' = Spent /\ LoggingIn' \subseteq LoggingIn
    BY <2>1 DEF Spent, LoggingIn, Free
  <2>3. \A r \in Requests : poll'[r].at # "free" => poll'[r].flow \in Flows
    BY <1>1, <2>1 DEF TokensInv, Free
  <2> QED
    BY <1>1, <2>1, <2>2, <2>3, NoMoreCounted DEF TokensInv
<1> QED
  BY <1>3, <1>4, <1>5, <1>6, <1>7
  DEF Next, Serve, ServeStatus, HearStatus, Age, DropCookie, PerformLogout, ServeLogout, HearLogout,
      LogoutFails, serverVars, clientVars

-----------------------------------------------------------------------------
(* The replies *)

\* What RepliesInv needs of a step that makes no session: the replies with one are as they
\* were, or fewer, and nothing they carry is taken.
LEMMA NoNewReply ==
  ASSUME TypeOK, RepliesInv, issued' = issued,
         \A r \in Requests : poll'[r].at = "done" => poll'[r] = poll[r],
         blocklist' \cup {logout'.session} \subseteq blocklist \cup {logout.session, cookie, 0},
         \A r \in Requests : poll'[r].at = "done" =>
           cookie' # poll[r].session
  PROVE  RepliesInv'
<1>1. issued \in Nat /\ cookie \in 0 .. issued
  BY Numbers
<1>2. blocklist' \cup {logout'.session} \subseteq 0 .. issued'
  BY <1>1 DEF RepliesInv
<1>3. \A r \in Requests : poll'[r].at = "done" =>
        poll'[r].session \in (1 .. issued') \ (blocklist' \cup {cookie', logout'.session})
  BY <1>1 DEF RepliesInv
<1>4. \A q, r \in Requests :
        poll'[q].at = "done" /\ poll'[r].at = "done" /\ poll'[q].session = poll'[r].session
          => q = r
  BY DEF RepliesInv
<1> QED
  BY <1>2, <1>3, <1>4 DEF RepliesInv

\* A session that is made has the next number; the one that is heard leaves the replies.
LEMMA RepliesKept == IInv /\ Next => RepliesInv'
<1> SUFFICES ASSUME IInv, Next PROVE RepliesInv'
  OBVIOUS
<1>1. TypeOK /\ TokensInv /\ RepliesInv /\ poll \in [Requests -> Polls]
  BY TypesInParts DEF IInv
<1>2. issued \in Nat /\ blocklist \subseteq 1 .. issued \cup {0}
  BY TypesInParts, Counted DEF IInv, SessionTypes, Sessions, RepliesInv
<1>3. CASE UNCHANGED <<blocklist, issued, cookie, poll, logout>>
  BY <1>1, <1>3 DEF RepliesInv
<1>4. ASSUME NEW r \in Requests,
             (\E s \in Slots : Tick(s, r)) \/ Lookup(r) \/ Answer(r) \/ Hear(r) \/ PollLost(r)
      PROVE  RepliesInv'
  <2>1. PICK p \in Polls : poll' = [poll EXCEPT ![r] = p] /\ p.at # "done"
    BY <1>1, <1>4, PollSteps
  <2>2. UNCHANGED <<blocklist, issued, logout>>
        /\ (UNCHANGED cookie \/ HearDone(r))
    BY <1>4
    DEF Tick, Lookup, Answer, Pending, SlowDown, TakeToken, EndFlow, BreakFlow, Hear, HearPending,
        HearDone,
        HearSlow, HearError, PollLost, serverVars
  <2>3. \A q \in Requests : poll'[q].at = "done" => q # r /\ poll'[q] = poll[q]
    BY <1>1, <2>1
  <2>4. CASE UNCHANGED cookie
    <3>1. \A q \in Requests : poll'[q].at = "done" => cookie' # poll[q].session
      BY <1>1, <2>3, <2>4 DEF RepliesInv
    <3> QED
      BY <1>1, <2>2, <2>3, <3>1, NoNewReply
  <2>5. CASE HearDone(r)
    <3>1. \A q \in Requests : poll'[q].at = "done" => cookie' # poll[q].session
      BY <1>1, <2>3, <2>5 DEF RepliesInv, HearDone
    <3> QED
      BY <1>1, <2>2, <2>3, <3>1, NoNewReply
  <2> QED
    BY <2>2, <2>4, <2>5
<1>5. ASSUME NEW r \in Requests, CreateSession(r) PROVE RepliesInv'
  <2>1. UNCHANGED <<blocklist, logout, cookie>> /\ issued' = issued + 1
    BY <1>5 DEF CreateSession
  <2>2. /\ poll'[r].session = issued + 1
        /\ \A q \in Requests \ {r} : poll'[q] = poll[q]
    BY <1>1, <1>5 DEF CreateSession, Polls
  <2>3. cookie \in 0 .. issued
    BY <1>1, TypesInParts DEF SessionTypes
  <2>4. blocklist' \cup {logout'.session} \subseteq 0 .. issued'
    BY <1>1, <1>2, <2>1 DEF RepliesInv
  <2>5. \A q \in Requests : poll'[q].at = "done" =>
          poll'[q].session \in (1 .. issued') \ (blocklist' \cup {cookie', logout'.session})
    BY <1>1, <1>2, <2>1, <2>2, <2>3 DEF RepliesInv
  <2>6. \A q \in Requests \ {r} : poll'[q].at = "done" => poll'[q].session # poll'[r].session
    BY <1>1, <1>2, <2>2 DEF RepliesInv
  <2>7. \A q, d \in Requests :
          poll'[q].at = "done" /\ poll'[d].at = "done" /\ poll'[q].session = poll'[d].session
            => q = d
    BY <1>1, <2>2, <2>6 DEF RepliesInv
  <2> QED
    BY <2>4, <2>5, <2>7 DEF RepliesInv
<1>6. CASE PerformLogout \/ ServeLogout \/ HearLogout \/ LogoutFails \/ DropCookie
  <2>1. UNCHANGED <<issued, poll>>
    BY <1>6 DEF PerformLogout, ServeLogout, HearLogout, LogoutFails, DropCookie, serverVars
  <2>2. cookie' \in {cookie, 0}
    BY <1>6 DEF PerformLogout, ServeLogout, HearLogout, LogoutFails, DropCookie
  <2>3. blocklist' \cup {logout'.session} \subseteq blocklist \cup {logout.session, cookie, 0}
    <3>1. CASE PerformLogout \/ HearLogout \/ LogoutFails \/ DropCookie
      <4>1. blocklist' = blocklist /\ logout'.session \in {logout.session, cookie, 0}
        <5>1. CASE PerformLogout \/ DropCookie
          BY <5>1 DEF PerformLogout, DropCookie, serverVars
        <5>2. CASE HearLogout \/ LogoutFails
          <6>1. blocklist' = blocklist /\ logout' = NoLogout
            BY <5>2 DEF HearLogout, LogoutFails, serverVars
          <6> QED
            BY <6>1 DEF NoLogout
        <5> QED
          BY <3>1, <5>1, <5>2
      <4> QED
        BY <4>1
    <3>2. CASE ServeLogout
      <4>1. logout'.session = logout.session
        BY <1>1, <3>2, TypesInParts DEF ServeLogout, SessionTypes
      <4> QED
        BY <3>2, <4>1 DEF ServeLogout
    <3> QED
      BY <1>6, <3>1, <3>2
  <2>4. \A r \in Requests : poll'[r].at = "done" => cookie' # poll[r].session
    BY <1>1, <1>2, <2>1, <2>2 DEF RepliesInv
  <2> QED
    BY <1>1, <2>1, <2>3, <2>4, NoNewReply
<1>7. CASE Reload \/ Restart
  <2>1. /\ UNCHANGED <<issued, cookie, logout>> /\ blocklist' \subseteq blocklist
        /\ \A r \in Requests : poll'[r] \in {poll[r], Free}
    BY <1>7 DEF Reload, Restart, serverVars
  <2>2. \A r \in Requests : poll'[r].at = "done" => poll'[r] = poll[r]
    BY <2>1 DEF Free
  <2>3. \A r \in Requests : poll'[r].at = "done" => cookie' # poll[r].session
    BY <1>1, <2>1, <2>2 DEF RepliesInv
  <2> QED
    BY <1>1, <2>1, <2>2, <2>3, NoNewReply
<1> QED
  BY <1>3, <1>4, <1>5, <1>6, <1>7
  DEF Next, Serve, ServeStatus, HearStatus, Age, StartFlow, ServeStart, ShowCode,
      StartFails, Decide,
      serverVars

-----------------------------------------------------------------------------
(* The page *)

\* A session is accepted until it is revoked, as long as none has aged.
LEMMA Accepted ==
  ASSUME aged = {}
  PROVE  \A s : SessionState(s) = "authenticated" <=> s \in (1 .. issued) \ blocklist
BY DEF SessionState, Verifies, IsBlocked

\* While the page asks who it is, little can happen.
LEMMA Mounting ==
  ASSUME IInv, Next, status # "none"
  PROVE  \/ ServeStatus \/ HearStatus \/ Age \/ DropCookie \/ Restart
         \/ \E f \in Flows : Decide(f)
<1>1. /\ authState = "unknown" /\ logout = NoLogout
      /\ \A f \in Flows : starting[f] \notin {"asked", "stored"}
      /\ \A s \in Slots : timers[s] = NoFlow
      /\ \A r \in Requests : poll[r] = Free
  BY DEF IInv, MountInv
<1>2. ASSUME NEW f \in Flows, StartFlow(f) \/ ServeStart(f) \/ ShowCode(f) \/ StartFails(f)
      PROVE  FALSE
  BY <1>1, <1>2 DEF StartFlow, ServeStart, ShowCode, StartFails
<1>3. ASSUME NEW s \in Slots, NEW r \in Requests, Tick(s, r) PROVE FALSE
  BY <1>1, <1>3 DEF Tick
<1>4. ASSUME NEW r \in Requests, Serve(r) \/ Hear(r) \/ PollLost(r) PROVE FALSE
  <2>1. poll[r].at = "free"
    BY <1>1 DEF Free
  <2> QED
    BY <1>4, <2>1
    DEF Serve, Lookup, Answer, Pending, SlowDown, TakeToken, EndFlow, BreakFlow, CreateSession,
        Hear,
        HearPending, HearDone, HearSlow, HearError, PollLost, Replies
<1>5. CASE PerformLogout \/ ServeLogout \/ HearLogout \/ LogoutFails \/ Reload
  BY <1>1, <1>5 DEF PerformLogout, ServeLogout, HearLogout, LogoutFails, Reload, NoLogout
<1> QED
  BY <1>2, <1>3, <1>4, <1>5 DEF Next

\* The answer the page waits for is not overtaken.
LEMMA MountKept == IInv /\ Next => MountInv'
<1> SUFFICES ASSUME IInv, Next PROVE MountInv'
  OBVIOUS
<1>1. MountInv /\ issued \in Nat /\ aged \subseteq 1 .. issued
  BY TypesInParts, Counted DEF IInv, SessionTypes, Sessions
<1>2. CASE Reload
  <2>1. status' = "asked" /\ authState' = "unknown" /\ logout' = NoLogout
    BY <1>2 DEF Reload
  <2>2. /\ \A f \in Flows : starting'[f] \notin {"asked", "stored"}
        /\ \A s \in Slots : timers'[s] = NoFlow
        /\ \A r \in Requests : poll'[r] = Free
    BY <1>2 DEF Reload
  <2> QED
    BY <2>1, <2>2 DEF MountInv
<1>3. CASE status = "none" /\ ~Reload
  <2>1. status' = "none"
    BY <1>3
    DEF Next, ServeStatus, HearStatus, Age, DropCookie, StartFlow, ServeStart, ShowCode, StartFails,
        Decide, Tick, Serve, Lookup, Answer, Pending, SlowDown, TakeToken, EndFlow, BreakFlow,
        CreateSession,
        Hear, HearPending, HearDone, HearSlow, HearError, PollLost, PerformLogout, ServeLogout,
        HearLogout, LogoutFails, Restart
  <2> QED
    BY <2>1 DEF MountInv
<1>4. CASE status # "none"
  <2>1. CASE HearStatus
    BY <2>1 DEF HearStatus, MountInv
  <2>2. CASE ServeStatus
    <3>1. UNCHANGED <<authState, logout, starting, timers, poll, issued, aged, blocklist, cookie>>
          /\ status' = SessionState(cookie)
      BY <2>2 DEF ServeStatus, serverVars, clientVars
    <3>2. status' = "authenticated" => SessionState(cookie)' = "authenticated"
      BY <3>1 DEF SessionState, Verifies, IsBlocked
    <3> QED
      BY <1>1, <1>4, <3>1, <3>2 DEF MountInv
  <2>3. CASE Age \/ DropCookie
    <3>1. UNCHANGED <<authState, logout, starting, timers, poll, status>> /\ aged' # {}
      BY <2>3 DEF Age, DropCookie, serverVars, clientVars
    <3> QED
      BY <1>1, <1>4, <3>1 DEF MountInv
  <2>4. CASE Restart \/ \E f \in Flows : Decide(f)
    <3>1. /\ UNCHANGED <<authState, logout, starting, timers, status, issued, aged, cookie>>
          /\ blocklist' \subseteq blocklist
          /\ \A r \in Requests : poll[r] = Free => poll'[r] = Free
      BY <2>4 DEF Restart, Decide, serverVars, clientVars
    <3>2. status' = "authenticated" => SessionState(cookie)' = "authenticated" \/ aged' # {}
      BY <1>1, <3>1, Accepted DEF MountInv, SessionState, Verifies, IsBlocked
    <3> QED
      BY <1>1, <1>4, <3>1, <3>2 DEF MountInv
  <2> QED
    BY <1>4, <2>1, <2>2, <2>3, <2>4, Mounting
<1> QED
  BY <1>2, <1>3, <1>4

NoExcuse ==
  /\ authState = "authenticated" /\ aged = {}
  /\ logout.at # "served" /\ "logout unanswered" \notin mishaps

\* The page is signed in by an answer that is true and by a reply whose session is fresh,
\* and the session is revoked by a logout it then hears of.
LEMMA SignedInKept == IInv /\ Next => SignedInHasSession'
<1> SUFFICES ASSUME IInv, Next, NoExcuse' PROVE SessionState(cookie)' = "authenticated"
  BY DEF SignedInHasSession, NoExcuse
<1>1. /\ issued \in Nat /\ aged = {}
      /\ \A s : SessionState(s) = "authenticated" <=> s \in (1 .. issued) \ blocklist
  <2>1. aged = {}
    BY DEF Next, ServeStatus, HearStatus, Age, DropCookie, StartFlow, ServeStart, ShowCode,
       StartFails, Decide, Tick, Serve, Lookup, Answer, Pending, SlowDown, TakeToken, EndFlow,
       BreakFlow,
       CreateSession, Hear, HearPending, HearDone, HearSlow, HearError, PollLost, PerformLogout,
       ServeLogout, HearLogout, LogoutFails, Reload, Restart, serverVars, NoExcuse
  <2>2. issued \in Nat
    BY Numbers DEF IInv
  <2> QED
    BY <2>1, <2>2, Accepted
<1>2. SessionState(cookie)' = "authenticated" <=> cookie' \in (1 .. issued') \ blocklist'
  BY DEF SessionState, Verifies, IsBlocked, NoExcuse
<1>3. ASSUME UNCHANGED <<cookie, authState, logout>>, "logout unanswered" \in mishaps
                => "logout unanswered" \in mishaps',
             issued' = issued \/ issued' = issued + 1, blocklist' \subseteq blocklist
      PROVE  SessionState(cookie)' = "authenticated"
  <2>1. SessionState(cookie) = "authenticated"
    BY <1>1, <1>3 DEF IInv, SignedInHasSession, NoExcuse
  <2>2. issued \in Nat /\ cookie \in 1 .. issued /\ cookie \notin blocklist
    BY <1>1, <2>1
  <2>3. cookie' = cookie /\ (issued' = issued \/ issued' = issued + 1)
        /\ blocklist' \subseteq blocklist
    BY <1>3
  <2>4. cookie' \in (1 .. issued') \ blocklist'
    BY <2>2, <2>3
  <2> QED
    BY <1>2, <2>4
<1>4. CASE HearStatus
  <2>1. SessionState(cookie) = "authenticated" /\ UNCHANGED <<cookie, issued, blocklist>>
    BY <1>1, <1>4 DEF HearStatus, IInv, MountInv, serverVars, NoExcuse
  <2> QED
    BY <1>1, <1>2, <2>1
<1>5. ASSUME NEW r \in Requests, HearDone(r) PROVE SessionState(cookie)' = "authenticated"
  <2>1. UNCHANGED <<issued, blocklist>> /\ cookie' \in (1 .. issued) \ blocklist
    BY <1>5 DEF HearDone, IInv, RepliesInv, serverVars
  <2> QED
    BY <1>2, <2>1
<1>6. CASE ServeLogout
  <2>1. logout'.at = "served"
    BY <1>6, TypesInParts DEF ServeLogout, IInv, SessionTypes
  <2> QED
    BY <2>1 DEF NoExcuse
<1>7. CASE PerformLogout \/ LogoutFails
  <2>1. logout.at # "served" /\ UNCHANGED <<cookie, authState, issued, blocklist>>
        /\ "logout unanswered" \notin mishaps
    <3>1. CASE PerformLogout
      BY <3>1 DEF PerformLogout, NoLogout, serverVars, clientVars, history, NoExcuse
    <3>2. CASE LogoutFails
      BY <3>2 DEF LogoutFails, serverVars, clientVars, NoExcuse
    <3> QED
      BY <1>7, <3>1, <3>2
  <2>2. SessionState(cookie) = "authenticated"
    BY <1>1, <2>1 DEF IInv, SignedInHasSession, NoExcuse
  <2> QED
    BY <1>1, <1>2, <2>1, <2>2
<1>8. CASE HearLogout \/ Reload \/ Age \/ DropCookie
  BY <1>1, <1>8 DEF HearLogout, Reload, Age, DropCookie, NoExcuse
<1>9. CASE Restart \/ ServeStatus
  BY <1>3, <1>9 DEF Restart, ServeStatus, serverVars, clientVars, history
<1>10. ASSUME NEW f \in Flows,
              StartFlow(f) \/ ServeStart(f) \/ ShowCode(f) \/ StartFails(f) \/ Decide(f)
       PROVE  SessionState(cookie)' = "authenticated"
  BY <1>3, <1>10
  DEF StartFlow, ServeStart, ShowCode, StartFails, Decide, serverVars, clientVars, history
<1>11. ASSUME NEW r \in Requests,
              \/ (\E s \in Slots : Tick(s, r)) \/ Serve(r) \/ PollLost(r)
              \/ HearPending(r) \/ HearSlow(r) \/ HearError(r)
       PROVE  SessionState(cookie)' = "authenticated"
  BY <1>3, <1>11
  DEF Tick, Serve, Lookup, Answer, Pending, SlowDown, TakeToken, EndFlow, BreakFlow, CreateSession,
      PollLost,
      HearPending, HearSlow, HearError, StrayIf, serverVars, clientVars, history
<1> QED
  BY <1>4, <1>5, <1>6, <1>7, <1>8, <1>9, <1>10, <1>11 DEF Next, Hear

\* Every step keeps the invariant.
LEMMA Invariance == IInv /\ [Next]_vars => IInv'
<1> SUFFICES ASSUME IInv, [Next]_vars PROVE IInv'
  OBVIOUS
<1>1. CASE Next
  BY <1>1, TypesKept, TokensKept, RepliesKept, MountKept, SignedInKept DEF IInv
<1>2. CASE UNCHANGED vars
  BY <1>2
  DEF vars, IInv, TypeOK, TokensInv, LoggingIn, Spent, RepliesInv, MountInv, SignedInHasSession,
      SessionState, Verifies, IsBlocked
<1> QED
  BY <1>1, <1>2

\* For any flows, polls and intervals the state stays well typed; in particular there is
\* never a session more than the tokens GitHub gave (poll_auth).
THEOREM TypeSafety == Spec => []TypeOK
<1>1. Spec => []IInv
  BY Initially, Invariance, PTL DEF Spec
<1>2. IInv => TypeOK
  BY DEF IInv
<1> QED
  BY <1>1, <1>2, PTL

\* A page that says it is signed in has a session the server accepts, unless a logout is
\* under way, a session aged or the answer to a logout was lost, whatever polls, intervals,
\* reloads and restarts came before (useAuth, auth routes).
THEOREM SignedIn == Spec => []SignedInHasSession
<1>1. Spec => []IInv
  BY Initially, Invariance, PTL DEF Spec
<1>2. IInv => SignedInHasSession
  BY DEF IInv
<1> QED
  BY <1>1, <1>2, PTL
=============================================================================
