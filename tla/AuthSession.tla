---------------------------- MODULE AuthSession ----------------------------
(***************************************************************************)
(* Signing in. The browser's useAuth hook starts a GitHub device flow,     *)
(* shows its code and polls until the server has exchanged the code for a  *)
(* token and set the session cookie; the auth routes keep the flows and    *)
(* the revoked sessions in the memory of the one API process.              *)
(*                                                                         *)
(* A poll's request is followed through its two awaits on the server and   *)
(* back. A reply, the cookie it carries and the code that reads it are one *)
(* step. What the user's login is called is left out.                      *)
(***************************************************************************)
EXTENDS Naturals, FiniteSets

CONSTANTS
  Flows,        \* flow ids
  Requests,     \* polls that may be in flight together
  Slots,        \* intervals that may run together
  MaxTroubles   \* bound: restarts, polls lost, slow-down and unexpected answers, together

NoFlow == "no flow"
NoSlot == "no slot"
ASSUME AuthAssumption ==
  /\ NoFlow \notin Flows
  /\ NoSlot \notin Slots
  /\ IsFiniteSet(Flows)
  /\ IsFiniteSet(Requests)
  /\ MaxTroubles \in Nat

VARIABLES
  \* API process
  deviceFlows,  \* app.state.device_flows
  blocklist,    \* _blocklist
  issued,       \* sessions created so far; a session is its number
  aged,         \* sessions whose 24 hours are over
  \* GitHub
  grant,        \* what GitHub knows of a flow's device code
  \* browser
  cookie,       \* the session cookie, 0 for none
  authState,
  flowData,     \* the flow whose code the panel shows
  starting,     \* calls of startFlow not answered: the flow, and whether the server has it
  timers,       \* the flow an interval polls
  pollRef,
  poll,         \* a poll in flight: its flow and where it is
  status,       \* the status request of the mounted page
  logout,       \* the logout request: its cookie, and whether it was served
  \* history
  troubles,     \* how often the network, GitHub or the server was in the way
  mishaps       \* the coincidences met so far

serverVars == <<deviceFlows, blocklist, issued, aged>>
clientVars == <<authState, flowData, starting, timers, pollRef>>
history == <<troubles, mishaps>>
vars == <<deviceFlows, blocklist, issued, aged, grant, cookie, authState, flowData,
          starting, timers, pollRef, poll, status, logout, troubles, mishaps>>

\* GitHub gives one token for a flow.
Sessions == 1 .. Cardinality(Flows)
Replies == {"pending", "slow", "error", "done"}
Free == [at |-> "free", flow |-> NoFlow, session |-> 0]
NoLogout == [at |-> "none", session |-> 0]

TypeOK ==
  /\ deviceFlows \in SUBSET Flows
  /\ blocklist \in SUBSET Sessions
  /\ issued \in Sessions \cup {0}
  /\ aged \in SUBSET (1 .. issued)
  /\ grant \in [Flows -> {"unknown", "pending", "approved", "spent", "refused"}]
  /\ cookie \in 0 .. issued
  /\ authState \in {"unknown", "authenticated", "unauthenticated", "expired"}
  /\ flowData \in Flows \cup {NoFlow}
  /\ starting \in [Flows -> {"unused", "asked", "stored", "known"}]
  /\ timers \in [Slots -> Flows \cup {NoFlow}]
  /\ pollRef \in Slots \cup {NoSlot}
  /\ poll \in [Requests -> [at : {"free", "sent", "github", "login"} \cup Replies,
                            flow : Flows \cup {NoFlow}, session : Sessions \cup {0}]]
  /\ status \in {"none", "asked", "authenticated", "unauthenticated", "expired"}
  /\ logout \in [at : {"none", "asked", "served"}, session : Sessions \cup {0}]
  /\ troubles \in 0 .. MaxTroubles
  /\ mishaps \in SUBSET {"restart", "interval orphaned", "wrong timer", "session lost",
                         "unexpected answer", "logout unanswered"}

Init ==
  /\ deviceFlows = {}
  /\ blocklist = {}
  /\ issued = 0
  /\ aged = {}
  /\ grant = [f \in Flows |-> "unknown"]
  /\ cookie = 0
  /\ authState = "unknown"
  /\ flowData = NoFlow
  /\ starting = [f \in Flows |-> "unused"]
  /\ timers = [s \in Slots |-> NoFlow]
  /\ pollRef = NoSlot
  /\ poll = [r \in Requests |-> Free]
  /\ status = "asked"
  /\ logout = NoLogout
  /\ troubles = 0
  /\ mishaps = {}

-----------------------------------------------------------------------------
(* Sessions and status *)

\* The secret that signs is kept in a file: a restart leaves every session valid.
Verifies(s) == s \in 1 .. issued

\* The list the API process holds in memory.
IsBlocked(s) == s \in blocklist

\* What decode_jwt says of a cookie.
SessionState(s) ==
  IF ~Verifies(s) THEN "unauthenticated"
  ELSE IF s \in aged THEN "expired"
  ELSE IF IsBlocked(s) THEN "unauthenticated" ELSE "authenticated"

ServeStatus ==
  /\ status = "asked"
  /\ status' = SessionState(cookie)
  /\ UNCHANGED <<serverVars, grant, cookie, clientVars, poll, logout, history>>

\* The mounted page hears who it is; a request that fails counts as signed out.
HearStatus ==
  /\ status # "none"
  /\ \/ status # "asked" /\ authState' = status
     \/ authState' = "unauthenticated"
  /\ status' = "none"
  /\ UNCHANGED <<serverVars, grant, cookie, flowData, starting, timers, pollRef,
                 poll, logout, history>>

\* The 24 hours of the browser's session are over; the cookie is dropped then too.
\* Bound: no request takes as long.
Age ==
  /\ logout = NoLogout
  /\ \A r \in Requests : poll[r] = Free
  /\ \A s \in Slots : timers[s] = NoFlow
  /\ cookie \notin aged \cup {0}
  /\ aged' = aged \cup {cookie}
  /\ UNCHANGED <<deviceFlows, blocklist, issued, grant, cookie, clientVars, poll,
                 status, logout, history>>

DropCookie ==
  /\ cookie \in aged
  /\ cookie' = 0
  /\ UNCHANGED <<serverVars, grant, clientVars, poll, status, logout, history>>

-----------------------------------------------------------------------------
(* Starting a flow *)

Cleared(s) == [t \in Slots |-> IF t = s THEN NoFlow ELSE timers[t]]

\* The button is there while no code is shown, also while an earlier click waits.
\* Bound: the user clicks no sooner than the page knows who it is.
StartFlow(f) ==
  /\ status = "none"
  /\ authState # "authenticated"
  /\ flowData = NoFlow
  /\ starting[f] = "unused"
  /\ timers' = Cleared(pollRef)
  /\ starting' = [starting EXCEPT ![f] = "asked"]
  /\ UNCHANGED <<serverVars, grant, cookie, authState, flowData, pollRef, poll,
                 status, logout, history>>

\* start_device_flow: GitHub makes a code that waits for the user.
StartDeviceFlow(f) == grant' = [grant EXCEPT ![f] = "pending"]

ServeStart(f) ==
  /\ starting[f] = "asked"
  /\ StartDeviceFlow(f)
  /\ deviceFlows' = deviceFlows \cup {f}
  /\ starting' = [starting EXCEPT ![f] = "stored"]
  /\ UNCHANGED <<blocklist, issued, aged, cookie, authState, flowData, timers, pollRef,
                 poll, status, logout, history>>

\* The new interval takes the ref whatever the ref holds by now.
ShowCode(f) ==
  /\ starting[f] = "stored"
  /\ starting' = [starting EXCEPT ![f] = "known"]
  /\ flowData' = f
  /\ \E s \in {t \in Slots : timers[t] = NoFlow} :
       /\ timers' = [timers EXCEPT ![s] = f]
       /\ pollRef' = s
  /\ mishaps' = IF pollRef # NoSlot /\ timers[pollRef] # NoFlow
                THEN mishaps \cup {"interval orphaned"} ELSE mishaps
  /\ UNCHANGED <<serverVars, grant, cookie, authState, poll, status, logout, troubles>>

StartFails(f) ==
  /\ starting[f] \in {"asked", "stored"}
  /\ starting' = [starting EXCEPT ![f] = "known"]
  /\ UNCHANGED <<serverVars, grant, cookie, authState, flowData, timers, pollRef,
                 poll, status, logout, history>>

\* The user enters the code at GitHub, or declines, or lets it run out.
Decide(f) ==
  /\ grant[f] = "pending"
  /\ \E g \in {"approved", "refused"} : grant' = [grant EXCEPT ![f] = g]
  /\ UNCHANGED <<serverVars, cookie, clientVars, poll, status, logout, history>>

-----------------------------------------------------------------------------
(* Polling: the interval, the server's handler, the answer *)

Goes(r, at) == poll' = [poll EXCEPT ![r] = [@ EXCEPT !.at = at]]

Tick(s, r) ==
  /\ timers[s] # NoFlow
  /\ poll[r] = Free
  /\ poll' = [poll EXCEPT ![r] = [at |-> "sent", flow |-> timers[s], session |-> 0]]
  /\ UNCHANGED <<serverVars, grant, cookie, clientVars, status, logout, history>>

Lookup(r) ==
  /\ poll[r].at = "sent"
  /\ Goes(r, IF poll[r].flow \in deviceFlows THEN "github" ELSE "error")
  /\ UNCHANGED <<serverVars, grant, cookie, clientVars, status, logout, history>>

Pending(r) ==
  /\ poll[r].at = "github"
  /\ grant[poll[r].flow] = "pending"
  /\ Goes(r, "pending")
  /\ UNCHANGED <<serverVars, grant, cookie, clientVars, status, logout, history>>

Trouble == troubles < MaxTroubles /\ troubles' = troubles + 1

SlowDown(r) ==
  /\ poll[r].at = "github"
  /\ grant[poll[r].flow] \in {"pending", "approved"}
  /\ Trouble
  /\ Goes(r, "slow")
  /\ UNCHANGED <<serverVars, grant, cookie, clientVars, status, logout, mishaps>>

\* GitHub gives a device code's token once.
TakeToken(r) ==
  /\ poll[r].at = "github"
  /\ grant[poll[r].flow] = "approved"
  /\ grant' = [grant EXCEPT ![poll[r].flow] = "spent"]
  /\ Goes(r, "login")
  /\ UNCHANGED <<serverVars, cookie, clientVars, status, logout, history>>

EndFlow(r) ==
  /\ poll[r].at = "github"
  /\ grant[poll[r].flow] \in {"refused", "spent"}
  /\ deviceFlows' = deviceFlows \ {poll[r].flow}
  /\ Goes(r, "error")
  /\ UNCHANGED <<blocklist, issued, aged, grant, cookie, clientVars, status, logout,
                 history>>

\* GitHub's token may have been given with an answer that is not understood or lost.
GrantAfter(f) ==
  {grant} \cup (IF grant[f] = "approved" THEN {[grant EXCEPT ![f] = "spent"]} ELSE {})

\* Any other answer, a server error or one that cannot be read, ends the flow as well,
\* whether its code is waiting, approved or done with.
BreakFlow(r) ==
  /\ poll[r].at = "github"
  /\ Trouble
  /\ grant' \in GrantAfter(poll[r].flow)
  /\ deviceFlows' = deviceFlows \ {poll[r].flow}
  /\ Goes(r, "error")
  /\ mishaps' = mishaps \cup {"unexpected answer"}
  /\ UNCHANGED <<blocklist, issued, aged, cookie, clientVars, status, logout>>

\* Mutant of CreateSession: the number is used before it is counted.
CreateSessionMutant(r) ==
  /\ poll[r].at = "login"
  /\ deviceFlows' = deviceFlows \ {poll[r].flow}
  /\ poll' = [poll EXCEPT ![r] = [@ EXCEPT !.at = "done", !.session = issued + 1]]
  /\ UNCHANGED <<blocklist, issued, aged, grant, cookie, clientVars, status, logout,
                 history>>

\* The login is looked up, found or not; then the session is made.
CreateSession(r) ==
  /\ poll[r].at = "login"
  /\ issued' = issued + 1
  /\ deviceFlows' = deviceFlows \ {poll[r].flow}
  /\ poll' = [poll EXCEPT ![r] = [@ EXCEPT !.at = "done", !.session = issued + 1]]
  /\ UNCHANGED <<blocklist, aged, grant, cookie, clientVars, status, logout, history>>

\* clearInterval(pollRef.current) in a reply to a poll of flow f.
StrayIf(f) ==
  IF pollRef # NoSlot /\ timers[pollRef] \notin {f, NoFlow}
  THEN mishaps \cup {"wrong timer"} ELSE mishaps

HearPending(r) ==
  /\ poll[r].at = "pending"
  /\ poll' = [poll EXCEPT ![r] = Free]
  /\ UNCHANGED <<serverVars, grant, cookie, clientVars, status, logout, history>>

HearDone(r) ==
  /\ poll[r].at = "done"
  /\ poll' = [poll EXCEPT ![r] = Free]
  /\ cookie' = poll[r].session
  /\ timers' = Cleared(pollRef)
  /\ pollRef' = NoSlot
  /\ flowData' = NoFlow
  /\ authState' = "authenticated"
  /\ mishaps' = StrayIf(poll[r].flow)
  /\ UNCHANGED <<serverVars, grant, starting, status, logout, troubles>>

\* Mutant of HearSlow: the slower interval is never set.
HearSlowMutant(r) ==
  /\ poll[r].at = "slow"
  /\ poll' = [poll EXCEPT ![r] = Free]
  /\ timers' = Cleared(pollRef)
  /\ mishaps' = StrayIf(poll[r].flow)
  /\ UNCHANGED <<serverVars, grant, cookie, authState, flowData, starting, pollRef,
                 status, logout, troubles>>

HearSlow(r) ==
  /\ poll[r].at = "slow"
  /\ poll' = [poll EXCEPT ![r] = Free]
  /\ \E s \in {t \in Slots : Cleared(pollRef)[t] = NoFlow} :
       /\ timers' = [Cleared(pollRef) EXCEPT ![s] = poll[r].flow]
       /\ pollRef' = s
  /\ mishaps' = StrayIf(poll[r].flow)
  /\ UNCHANGED <<serverVars, grant, cookie, authState, flowData, starting, status,
                 logout, troubles>>

\* Mutant of HearError: the interval goes on.
HearErrorMutant(r) ==
  /\ poll[r].at = "error"
  /\ poll' = [poll EXCEPT ![r] = Free]
  /\ UNCHANGED <<serverVars, grant, cookie, clientVars, status, logout, history>>

\* The code stays on the panel.
HearError(r) ==
  /\ poll[r].at = "error"
  /\ poll' = [poll EXCEPT ![r] = Free]
  /\ timers' = Cleared(pollRef)
  /\ pollRef' = NoSlot
  /\ mishaps' = StrayIf(poll[r].flow)
  /\ UNCHANGED <<serverVars, grant, cookie, authState, flowData, starting, status,
                 logout, troubles>>

\* A poll the network or an unexpected exception ends is forgotten, with the token it had
\* got or the session it carries.
PollLost(r) ==
  /\ poll[r].at \in {"sent", "github"} \cup Replies
  /\ Trouble
  /\ poll' = [poll EXCEPT ![r] = Free]
  /\ grant' \in IF poll[r].at = "github" THEN GrantAfter(poll[r].flow) ELSE {grant}
  /\ mishaps' = IF poll[r].at = "done" \/ grant' # grant THEN mishaps \cup {"session lost"}
                ELSE mishaps
  /\ UNCHANGED <<serverVars, cookie, clientVars, status, logout>>

-----------------------------------------------------------------------------
(* Logout, reload and restart *)

PerformLogout ==
  /\ authState = "authenticated"
  /\ logout = NoLogout
  /\ logout' = [at |-> "asked", session |-> cookie]
  /\ UNCHANGED <<serverVars, grant, cookie, clientVars, poll, status, history>>

ServeLogout ==
  /\ logout.at = "asked"
  /\ blocklist' = IF SessionState(logout.session) = "authenticated"
                  THEN blocklist \cup {logout.session} ELSE blocklist
  /\ logout' = [logout EXCEPT !.at = "served"]
  /\ UNCHANGED <<deviceFlows, issued, aged, grant, cookie, clientVars, poll, status,
                 history>>

\* Mutant of HearLogout: the page still says it is signed in.
HearLogoutMutant ==
  /\ logout.at = "served"
  /\ logout' = NoLogout
  /\ cookie' = 0
  /\ flowData' = NoFlow
  /\ UNCHANGED <<serverVars, grant, authState, starting, timers, pollRef, poll, status,
                 history>>

HearLogout ==
  /\ logout.at = "served"
  /\ logout' = NoLogout
  /\ cookie' = 0
  /\ authState' = "unauthenticated"
  /\ flowData' = NoFlow
  /\ UNCHANGED <<serverVars, grant, starting, timers, pollRef, poll, status, history>>

LogoutFails ==
  /\ logout.at # "none"
  /\ logout' = NoLogout
  /\ mishaps' = IF logout.at = "served" THEN mishaps \cup {"logout unanswered"}
                ELSE mishaps
  /\ UNCHANGED <<serverVars, grant, cookie, clientVars, poll, status, troubles>>

\* The page is loaded anew: its requests are given up, its intervals end.
\* Bound: not while the server works on a request of the page.
Reload ==
  /\ status = "none"
  /\ \A f \in Flows : starting[f] \notin {"asked", "stored"}
  /\ \A r \in Requests : poll[r].at \notin {"github", "login", "done"}
  /\ logout = NoLogout
  /\ authState' = "unknown"
  /\ flowData' = NoFlow
  /\ timers' = [s \in Slots |-> NoFlow]
  /\ pollRef' = NoSlot
  /\ poll' = [r \in Requests |-> Free]
  /\ status' = "asked"
  /\ UNCHANGED <<serverVars, grant, cookie, starting, logout, history>>

\* The flows and the revoked sessions were in memory; requests served now fail.
Restart ==
  /\ Trouble
  /\ deviceFlows' = {}
  /\ blocklist' = {}
  /\ poll' = [r \in Requests |-> IF poll[r].at \in {"github", "login"} THEN Free
                                 ELSE poll[r]]
  /\ mishaps' = mishaps \cup {"restart"}
  /\ UNCHANGED <<issued, aged, grant, cookie, clientVars, status, logout>>

-----------------------------------------------------------------------------
Answer(r) == Pending(r) \/ SlowDown(r) \/ TakeToken(r) \/ EndFlow(r)
             \/ BreakFlow(r)
Serve(r) == Lookup(r) \/ Answer(r) \/ CreateSession(r)
Hear(r) == HearPending(r) \/ HearDone(r) \/ HearSlow(r) \/ HearError(r)

Next ==
  \/ ServeStatus \/ HearStatus \/ Age \/ DropCookie
  \/ \E f \in Flows : StartFlow(f) \/ ServeStart(f) \/ ShowCode(f) \/ StartFails(f)
                      \/ Decide(f)
  \/ \E s \in Slots, r \in Requests : Tick(s, r)
  \/ \E r \in Requests : Serve(r) \/ Hear(r) \/ PollLost(r)
  \/ PerformLogout \/ ServeLogout \/ HearLogout \/ LogoutFails
  \/ Reload \/ Restart

Spec == Init /\ [][Next]_vars

\* The server works on what it is asked, replies arrive, an interval keeps firing
\* however busy the others are.
\* Nothing is assumed of the user.
Fairness ==
  /\ \A r \in Requests : WF_vars(Serve(r)) /\ WF_vars(Hear(r))
  /\ \A s \in Slots : SF_vars(\E r \in Requests : Tick(s, r))

FairSpec == Spec /\ Fairness

-----------------------------------------------------------------------------
(* Properties *)

\* A page that says it is signed in has a session the server accepts, unless a
\* logout is under way, a session aged or the answer to a logout was lost
\* (useAuth, auth routes).
SignedInHasSession ==
  authState = "authenticated" =>
    \/ SessionState(cookie) = "authenticated"
    \/ logout.at = "served"
    \/ aged # {}
    \/ "logout unanswered" \in mishaps

\* Who enters the code the panel shows gets signed in, as long as no restart
\* forgets the flow, GitHub's answer is one of the known ones, the token and the
\* session it gives arrive, and no reply to a poll of another flow ends this one's
\* interval (doPoll, poll_auth, check_device_flow).
ApprovalSignsIn ==
  \A f \in Flows :
    (flowData = f /\ f \in deviceFlows /\ grant[f] = "approved") ~>
      \/ authState = "authenticated"
      \/ flowData # f
      \/ mishaps \cap {"restart", "session lost", "unexpected answer", "wrong timer"} # {}

\* Once the server has forgotten a flow, its browser stops polling for it, also
\* after late and lost replies; only a start that is answered while another
\* interval runs leaves one that no reference leads to (doPoll, startFlow).
PollingStops ==
  \A f \in Flows :
    (starting[f] = "known" /\ f \notin deviceFlows) ~>
      (\/ f \notin {timers[s] : s \in Slots}
       \/ "interval orphaned" \in mishaps)
=============================================================================
