----------------------------- MODULE GruntLogin -----------------------------
(***************************************************************************)
(* Logging on to the logon server: the dialogue of Grunt::ClientLink, the  *)
(* Login object GruntLogin that owns it, and CGlueMgr, which starts it and *)
(* watches it.                                                             *)
(*                                                                         *)
(* Three kinds of thread.  The main thread runs CGlueMgr: the player's     *)
(* clicks and Idle on every frame.  The one network worker calls the link  *)
(* back when it is connected and when data arrives.  Every link has a      *)
(* GruntTimerEvt thread that calls it ten times a second and logs on once  *)
(* it is connected.  They meet in CGlueMgr's fields, which no lock guards, *)
(* and in the link, whose m_critSect guards the writes of its state.       *)
(*                                                                         *)
(* A report (LoginResponse::UpdateLoginStatus) writes CGlueMgr's fields    *)
(* one after the other; each write is an action.                           *)
(*                                                                         *)
(* Left out: what the code marks TODO (Logoff, WCCantConnect, the          *)
(* reconnect, PIN, matrix, token, survey and download states), result 10   *)
(* of the proof (it announces a patch, which the XFER commands do not      *)
(* take), LoginResponse's own copies of state and result (nothing reads    *)
(* them), bytes that are no command (the link disconnects).                *)
(***************************************************************************)
EXTENDS Integers, Sequences, FiniteSets, SequencesExt

CONSTANTS
  Logins,   \* the Login objects that ClientServices::Logon may create
  NoLogin   \* a null Login, which is none of them

\* The LOGIN_STATEs the code reports, "unset" the -1 of LoginServerLogin.
LoginStates == {"unset", "CONNECTING", "RESPONSE_CONNECTED", "AUTHENTICATING",
                "CHECKINGVERSIONS", "HANDSHAKING", "AUTHENTICATED", "FAILED"}
\* LOGIN_OK, and every other LOGIN_RESULT.
Results == {"unset", "ok", "refused"}

VARIABLES
  \* CGlueMgr
  idleState,      \* m_idleState: "none", "login" (IDLE_LOGIN_SERVER_LOGIN), "account"
  loginState, loginResult,  \* m_loginState, m_loginResult
  lastShown,      \* m_lastLoginState, m_lastLoginResult: what DisplayLoginStatus showed
  authenticated,  \* m_authenticated
  \* ClientServices and the ClientConnection
  loginObj,       \* s_loginObj
  loginData,      \* m_loginData: whose account and whose session key it holds
  \* GruntLogin and ClientLink, by Login
  created,        \* the Logins that exist
  loggedOn,       \* m_loggedOn
  password,       \* m_password is not null
  sessionKey,     \* m_sessionKey has been received
  linkState,      \* ClientLink::m_state
  critSect,       \* ClientLink::m_critSect: "free", "worker", "timer"
  conn,           \* the link's WowConnection
  sent,           \* the commands the link sent
  answered,       \* how many of them the logon server has answered
  inbox,          \* the server's answers on their way
  \* the threads
  pc,             \* where the main thread, the worker and each timer are
  report          \* the UpdateLoginStatus a thread is in

glueVars == <<idleState, loginState, loginResult, lastShown, authenticated>>
dataVars == <<loginObj, loginData>>
loginVars == <<created, loggedOn, password, sessionKey>>
linkVars == <<linkState, critSect>>
wireVars == <<conn, sent, answered, inbox>>
threadVars == <<pc, report>>
vars == <<glueVars, dataVars, loginVars, linkVars, wireVars, threadVars>>

\* A Login names its timer thread.
Threads == {"main", "worker"} \cup Logins
Commands == {"challenge", "proof", "realm list"}
Answers == {"challenged", "challenge refused", "proved", "proof refused", "realms"}
NoReport == [step |-> "none", state |-> "unset", result |-> "unset"]
ReportSteps == {"none", "authenticated", "state", "result", "data"}

(* A type invariant for every field above.                                 *)
TypeOK ==
  /\ idleState \in {"none", "login", "account"}
  /\ loginState \in LoginStates /\ loginResult \in Results
  /\ lastShown \in LoginStates \X Results
  /\ authenticated \in BOOLEAN
  /\ loginObj \in Logins \cup {NoLogin}
  /\ loginData \in [account : Logins \cup {NoLogin}, key : Logins \cup {NoLogin}]
  /\ created \subseteq Logins /\ loggedOn \subseteq Logins
  /\ password \subseteq Logins /\ sessionKey \subseteq Logins
  /\ linkState \in [Logins -> {0, 1, 2, 3, 4, 6}]
  /\ critSect \in [Logins -> {"free", "worker", "timer"}]
  /\ conn \in [Logins -> {"none", "connecting", "connected", "closed"}]
  /\ sent \in [Logins -> Seq(Commands)]
  /\ answered \in [Logins -> Nat]
  /\ inbox \in [Logins -> Seq(Answers)]
  /\ pc \in [Threads -> {"loop", "logon", "connect", "check", "clear", "unlock"}]
  /\ report \in [Threads -> [step : ReportSteps, state : LoginStates, result : Results]]

Init ==
  /\ idleState = "none" /\ authenticated = FALSE
  /\ loginState = "unset" /\ loginResult = "unset" /\ lastShown = <<"unset", "unset">>
  /\ loginObj = NoLogin /\ loginData = [account |-> NoLogin, key |-> NoLogin]
  /\ created = {} /\ loggedOn = {} /\ password = {} /\ sessionKey = {}
  /\ linkState = [l \in Logins |-> 0] /\ critSect = [l \in Logins |-> "free"]
  /\ conn = [l \in Logins |-> "none"]
  /\ sent = [l \in Logins |-> <<>>] /\ answered = [l \in Logins |-> 0]
  /\ inbox = [l \in Logins |-> <<>>]
  /\ pc = [t \in Threads |-> "loop"] /\ report = [t \in Threads |-> NoReport]

-----------------------------------------------------------------------------
(* LoginResponse::UpdateLoginStatus, through LoginServerStatus and         *)
(* SetLoginStateAndResult.                                                 *)

Reporting(t) == report[t].step # "none"
Ready(t, at) == pc[t] = at /\ ~Reporting(t)

\* A mutant: m_authenticated is set for another state.
ReportedEarly(t, state, result) ==
  [report EXCEPT ![t] =
     [step |-> IF state = "AUTHENTICATING" THEN "authenticated" ELSE "state",
      state |-> state, result |-> result]]

\* report' with t entering UpdateLoginStatus(state, result).
Reported(t, state, result) ==
  [report EXCEPT ![t] =
     [step |-> IF state = "AUTHENTICATED" THEN "authenticated" ELSE "state",
      state |-> state, result |-> result]]

ReportAuthenticated(t) ==
  /\ report[t].step = "authenticated"
  /\ authenticated' = TRUE
  /\ report' = [report EXCEPT ![t].step = "state"]
  /\ UNCHANGED <<idleState, loginState, loginResult, lastShown, loginData>>

ReportState(t) ==
  /\ report[t].step = "state"
  /\ loginState' = report[t].state
  /\ report' = [report EXCEPT ![t].step = "result"]
  /\ UNCHANGED <<idleState, loginResult, lastShown, authenticated, loginData>>

ReportResult(t) ==
  /\ report[t].step = "result"
  /\ loginResult' = report[t].result
  /\ report' = IF report[t].state = "AUTHENTICATED"
               THEN [report EXCEPT ![t].step = "data"]
               ELSE [report EXCEPT ![t] = NoReport]
  /\ UNCHANGED <<idleState, loginState, lastShown, authenticated, loginData>>

\* SetLoginData takes account and key from s_loginObj; m_sessionKey is zero
\* until it is received.
ReportData(t) ==
  /\ report[t].step = "data"
  /\ loginData' = [account |-> loginObj,
                   key |-> IF loginObj \in sessionKey THEN loginObj ELSE NoLogin]
  /\ report' = [report EXCEPT ![t] = NoReport]
  /\ UNCHANGED <<idleState, loginState, loginResult, lastShown, authenticated>>

Report(t) ==
  /\ ReportAuthenticated(t) \/ ReportState(t) \/ ReportResult(t) \/ ReportData(t)
  /\ UNCHANGED <<loginObj, loginVars, linkVars, wireVars, pc>>

\* ClientLink::Send: a connection that is not open takes nothing.
Send(l, command) ==
  /\ sent' = IF conn[l] = "connected" THEN [sent EXCEPT ![l] = Append(@, command)] ELSE sent
  /\ UNCHANGED <<conn, answered, inbox>>

-----------------------------------------------------------------------------
(* The main thread: CGlueMgr                                               *)

\* DefaultServerLogin, with an account name and a password.
LoginServerLogin ==
  /\ Ready("main", "loop") /\ idleState = "none" /\ created # Logins
  /\ idleState' = "login" /\ authenticated' = FALSE
  /\ loginState' = "unset" /\ loginResult' = "unset" /\ lastShown' = <<"unset", "unset">>
  /\ pc' = [pc EXCEPT !["main"] = "logon"]
  /\ UNCHANGED <<dataVars, loginVars, linkVars, wireVars, report>>

\* ClientServices::Logon (s_newLogin is never set) up to GruntLogin::Logon's report.
Logon(l) ==
  /\ Ready("main", "logon") /\ l \notin created
  /\ created' = created \cup {l} /\ password' = password \cup {l}
  /\ loginObj' = l
  /\ report' = Reported("main", "CONNECTING", "ok")
  /\ pc' = [pc EXCEPT !["main"] = "connect"]
  /\ UNCHANGED <<glueVars, loginData, loggedOn, sessionKey, linkVars, wireVars>>

\* ClientLink::Connect; a new link is in state 0.
Connect ==
  /\ Ready("main", "connect")
  /\ linkState' = [linkState EXCEPT ![loginObj] = 1]
  /\ conn' = [conn EXCEPT ![loginObj] = "connecting"]
  /\ pc' = [pc EXCEPT !["main"] = "loop"]
  /\ UNCHANGED <<glueVars, dataVars, loginVars, critSect, sent, answered, inbox, report>>

\* Idle: PollLoginServerLogin's DisplayLoginStatus.
Display ==
  /\ Ready("main", "loop") /\ idleState = "login"
  /\ lastShown' = <<loginState, loginResult>>
  /\ pc' = [pc EXCEPT !["main"] = "check"]
  /\ UNCHANGED <<idleState, loginState, loginResult, authenticated,
                 dataVars, loginVars, linkVars, wireVars, report>>

\* PollLoginServerLogin and Sub4D8BA0: ClientConnection::Connect asks s_loginObj
\* for the realms, which its link does in state 6 only.
OpenClientConnection ==
  /\ Ready("main", "check") /\ authenticated
  /\ idleState' = "account"
  /\ critSect[loginObj] = "free"
  /\ IF linkState[loginObj] = 6 THEN Send(loginObj, "realm list") ELSE UNCHANGED wireVars
  /\ pc' = [pc EXCEPT !["main"] = "clear"]
  /\ UNCHANGED <<loginState, loginResult, lastShown, authenticated,
                 dataVars, loginVars, linkVars, report>>

ClearAuthenticated ==
  /\ Ready("main", "clear")
  /\ authenticated' = FALSE
  /\ pc' = [pc EXCEPT !["main"] = "loop"]
  /\ UNCHANGED <<idleState, loginState, loginResult, lastShown,
                 dataVars, loginVars, linkVars, wireVars, report>>

\* A mutant: the state is left at CHECKINGVERSIONS.
ProveVersionOnly ==
  /\ Ready("main", "check") /\ ~authenticated
  /\ loginState = "CHECKINGVERSIONS" /\ loginObj \in loggedOn
  /\ critSect[loginObj] = "free"
  /\ IF linkState[loginObj] = 4 THEN Send(loginObj, "proof") ELSE UNCHANGED wireVars
  /\ pc' = [pc EXCEPT !["main"] = "loop"]
  /\ UNCHANGED <<glueVars, dataVars, loginVars, linkVars, report>>

\* GruntLogin::ProveVersion; in another state than 4 it sends an empty command,
\* which SendRaw drops.
ProveVersion ==
  /\ Ready("main", "check") /\ ~authenticated
  /\ loginState = "CHECKINGVERSIONS" /\ loginObj \in loggedOn
  /\ critSect[loginObj] = "free"
  /\ IF linkState[loginObj] = 4 THEN Send(loginObj, "proof") ELSE UNCHANGED wireVars
  /\ report' = Reported("main", "HANDSHAKING", "ok")
  /\ pc' = [pc EXCEPT !["main"] = "loop"]
  /\ UNCHANGED <<glueVars, dataVars, loginVars, linkVars>>

NothingToDo ==
  /\ Ready("main", "check") /\ ~authenticated
  /\ ~(loginState = "CHECKINGVERSIONS" /\ loginObj \in loggedOn)
  /\ pc' = [pc EXCEPT !["main"] = "loop"]
  /\ UNCHANGED <<glueVars, dataVars, loginVars, linkVars, wireVars, report>>

\* StatusDialogClick in the login: Logoff is empty.
StatusDialogClick ==
  /\ Ready("main", "loop") /\ idleState = "login"
  /\ idleState' = "none"
  /\ UNCHANGED <<loginState, loginResult, lastShown, authenticated,
                 dataVars, loginVars, linkVars, wireVars, threadVars>>

\* The realm login ends (RealmLogin says how) and PollAccountLogin sees it.
AccountLoginEnds ==
  /\ Ready("main", "loop") /\ idleState = "account"
  /\ idleState' = "none"
  /\ UNCHANGED <<loginState, loginResult, lastShown, authenticated,
                 dataVars, loginVars, linkVars, wireVars, threadVars>>

Main == \/ LoginServerLogin \/ (\E l \in Logins : Logon(l)) \/ Connect
        \/ Display \/ OpenClientConnection \/ ClearAuthenticated
        \/ ProveVersion \/ NothingToDo
        \/ StatusDialogClick \/ AccountLoginEnds \/ Report("main")

-----------------------------------------------------------------------------
(* The network worker: the callbacks of ClientLink                         *)

\* A mutant: m_critSect is not held for the report.
WCConnectedUnlocked(l) ==
  /\ Ready("worker", "loop") /\ conn[l] = "connecting" /\ critSect[l] = "free"
  /\ conn' = [conn EXCEPT ![l] = "connected"]
  /\ linkState' = [linkState EXCEPT ![l] = 2]
  /\ loggedOn' = loggedOn \cup {l}
  /\ report' = Reported("worker", "RESPONSE_CONNECTED", "ok")
  /\ UNCHANGED <<glueVars, dataVars, created, password, sessionKey, critSect,
                 sent, answered, inbox, pc>>

\* SetState and the report of WCConnected are under m_critSect.
WCConnected(l) ==
  /\ Ready("worker", "loop") /\ conn[l] = "connecting" /\ critSect[l] = "free"
  /\ conn' = [conn EXCEPT ![l] = "connected"]
  /\ critSect' = [critSect EXCEPT ![l] = "worker"]
  /\ linkState' = [linkState EXCEPT ![l] = 2]
  /\ loggedOn' = loggedOn \cup {l}
  /\ report' = Reported("worker", "RESPONSE_CONNECTED", "ok")
  /\ pc' = [pc EXCEPT !["worker"] = "unlock"]
  /\ UNCHANGED <<glueVars, dataVars, created, password, sessionKey, sent, answered, inbox>>

LeaveConnected(l) ==
  /\ Ready("worker", "unlock") /\ critSect[l] = "worker"
  /\ critSect' = [critSect EXCEPT ![l] = "free"]
  /\ pc' = [pc EXCEPT !["worker"] = "loop"]
  /\ UNCHANGED <<glueVars, dataVars, loginVars, linkState, wireVars, report>>

\* CmdAuthLogonChallenge, CmdAuthLogonProof: SetState takes m_critSect alone.
Command(l, answers, state, loginStatus, result) ==
  /\ Ready("worker", "loop") /\ conn[l] = "connected" /\ critSect[l] = "free"
  /\ inbox[l] # <<>> /\ Head(inbox[l]) \in answers
  /\ inbox' = [inbox EXCEPT ![l] = Tail(@)]
  /\ linkState' = [linkState EXCEPT ![l] = state]
  /\ report' = Reported("worker", loginStatus, result)
  /\ UNCHANGED <<glueVars, dataVars, created, loggedOn, password, critSect,
                 conn, sent, answered, pc>>

\* A challenge is refused by the server, or by CalculateProof.
ChallengeRefused(l) ==
  /\ Command(l, {"challenged", "challenge refused"}, 2, "FAILED", "refused")
  /\ UNCHANGED sessionKey

Challenged(l) ==
  /\ Command(l, {"challenged"}, 4, "CHECKINGVERSIONS", "ok")
  /\ UNCHANGED sessionKey

\* A proof is refused by the server, or the server's by VerifyServerProof.
ProofRefused(l) ==
  /\ Command(l, {"proved", "proof refused"}, 2, "FAILED", "refused")
  /\ UNCHANGED sessionKey

Proved(l) ==
  /\ Command(l, {"proved"}, 6, "AUTHENTICATED", "ok")
  /\ sessionKey' = sessionKey \cup {l}

\* CmdRealmList: what follows is RealmLogin's.
RealmListResult(l) ==
  /\ Ready("worker", "loop") /\ conn[l] = "connected"
  /\ inbox[l] # <<>> /\ Head(inbox[l]) = "realms"
  /\ inbox' = [inbox EXCEPT ![l] = Tail(@)]
  /\ UNCHANGED <<glueVars, dataVars, loginVars, linkVars, conn, sent, answered, threadVars>>

\* The connection cannot be made or breaks: neither callback does anything.
ConnectionLost(l) ==
  /\ Ready("worker", "loop") /\ conn[l] \in {"connecting", "connected"}
  /\ conn' = [conn EXCEPT ![l] = "closed"]
  /\ UNCHANGED <<glueVars, dataVars, loginVars, linkVars, sent, answered, inbox, threadVars>>

Worker == \/ \E l \in Logins :
               \/ WCConnected(l) \/ LeaveConnected(l)
               \/ Challenged(l) \/ ChallengeRefused(l) \/ Proved(l) \/ ProofRefused(l)
               \/ RealmListResult(l) \/ ConnectionLost(l)
          \/ Report("worker")

-----------------------------------------------------------------------------
(* The timer of a link: ClientLink::Call and GruntLogin::GetLogonMethod    *)

\* Call holds m_critSect throughout; OnlineIdle, asked in state 6, says yes.
Call(l) ==
  /\ Ready(l, "loop") /\ critSect[l] = "free"
  /\ linkState[l] = 2 /\ l \in password
  /\ critSect' = [critSect EXCEPT ![l] = "timer"]
  /\ report' = Reported(l, "AUTHENTICATING", "ok")
  /\ pc' = [pc EXCEPT ![l] = "logon"]
  /\ UNCHANGED <<glueVars, dataVars, loginVars, linkState, wireVars>>

\* A mutant: Call returns without leaving m_critSect.
LogonKeepingLock(l) ==
  /\ Ready(l, "logon")
  /\ linkState' = [linkState EXCEPT ![l] = 3]
  /\ Send(l, "challenge")
  /\ password' = password \ {l}
  /\ pc' = [pc EXCEPT ![l] = "loop"]
  /\ UNCHANGED <<glueVars, dataVars, created, loggedOn, sessionKey, critSect, report>>

\* LogonNewSession sends the account name; then the password is wiped.
LogonNewSession(l) ==
  /\ Ready(l, "logon")
  /\ linkState' = [linkState EXCEPT ![l] = 3]
  /\ Send(l, "challenge")
  /\ password' = password \ {l}
  /\ critSect' = [critSect EXCEPT ![l] = "free"]
  /\ pc' = [pc EXCEPT ![l] = "loop"]
  /\ UNCHANGED <<glueVars, dataVars, created, loggedOn, sessionKey, report>>

Timer(l) == Call(l) \/ LogonNewSession(l) \/ Report(l)

-----------------------------------------------------------------------------
(* The logon server                                                        *)

AnswersTo(command) ==
  CASE command = "challenge" -> {"challenged", "challenge refused"}
    [] command = "proof" -> {"proved", "proof refused"}
    [] command = "realm list" -> {"realms"}

ServerAnswers(l) ==
  /\ conn[l] = "connected" /\ answered[l] < Len(sent[l])
  /\ \E a \in AnswersTo(sent[l][answered[l] + 1]) :
       inbox' = [inbox EXCEPT ![l] = Append(@, a)]
  /\ answered' = [answered EXCEPT ![l] = @ + 1]
  /\ UNCHANGED <<glueVars, dataVars, loginVars, linkVars, conn, sent, threadVars>>

-----------------------------------------------------------------------------
Next == \/ Main \/ Worker
        \/ \E l \in Logins : Timer(l) \/ ServerAnswers(l)

Spec == Init /\ [][Next]_vars

\* What the main thread does without the player.
MainRuns == \/ (\E l \in Logins : Logon(l)) \/ Connect \/ Display
            \/ OpenClientConnection \/ ClearAuthenticated \/ ProveVersion \/ NothingToDo
            \/ Report("main")
WorkerRuns == \/ \E l \in Logins :
                   \/ WCConnected(l) \/ LeaveConnected(l) \/ Challenged(l)
                   \/ ChallengeRefused(l) \/ Proved(l) \/ ProofRefused(l) \/ RealmListResult(l)
              \/ Report("worker")

\* The message loop idles on every frame; the threads of the worker and of the
\* timers run, and a lock they wait for comes free; the server answers while the
\* connection holds.
LiveSpec ==
  /\ Spec /\ SF_vars(MainRuns) /\ SF_vars(WorkerRuns)
  /\ \A l \in Logins : SF_vars(Timer(l)) /\ WF_vars(ServerAnswers(l))

-----------------------------------------------------------------------------
(* Properties                                                              *)

(* With one login, the server gets a challenge, one proof and one request  *)
(* for realms, in this order, from the timer and the main thread, each of  *)
(* which goes by a state that the worker wrote (ProveVersion is called on  *)
(* every frame that finds CHECKINGVERSIONS).                               *)
CommandsInOrder ==
  \A l \in Logins : IsPrefix(sent[l], <<"challenge", "proof", "realm list">>)

Rank(s) == CASE s = "unset" -> 0 [] s = "CONNECTING" -> 1 [] s = "RESPONSE_CONNECTED" -> 2
             [] s = "AUTHENTICATING" -> 3 [] s = "CHECKINGVERSIONS" -> 4
             [] s = "HANDSHAKING" -> 5 [] s \in {"AUTHENTICATED", "FAILED"} -> 6

(* With one login, the state the player is shown goes forward, although    *)
(* three threads report it; only HANDSHAKING, which the main thread reports*)
(* after it sent the proof, may come after the answer to that proof        *)
(* (GruntLogin::ProveVersion).                                             *)
ReportsAdvance ==
  [][\/ Rank(loginState') >= Rank(loginState)
     \/ loginState' = "HANDSHAKING" /\ "proof" \in Range(sent[loginObj])]_vars

(* The client connection is opened after successful authentication, as the *)
(* comment in PollLoginServerLogin has it: the login it asks for realms is *)
(* one the logon server has accepted.                                      *)
ConnectsAuthenticated ==
  [][idleState = "login" /\ idleState' = "account" => linkState[loginObj] = 6]_vars

(* With one login, the account and the session key are in place when the   *)
(* realms arrive and the realm connection is made with them: the worker    *)
(* says m_authenticated before it calls SetLoginData (LoginServerStatus).  *)
RealmsWithLoginData ==
  [][\A l \in Logins : RealmListResult(l) => loginData = [account |-> l, key |-> l]]_vars

(* The realms are asked for by an accepted login and with its data.        *)
AccountIsLoggedOn == ConnectsAuthenticated /\ RealmsWithLoginData

(* An authentication is seen, whatever state the reports leave behind, so  *)
(* long as the player does not give up: m_authenticated is not overwritten *)
(* with m_loginState (SetLoginStateAndResult, PollLoginServerLogin).       *)
AuthenticatedIsSeen == (authenticated /\ idleState = "login") ~> (idleState # "login")

(* A login that got connected is accepted, refused, cut off or given up by *)
(* the player: the four steps of the dialogue, each taken by another thread*)
(* on a state that the last one left, follow one another.                  *)
LogonEnds ==
  \A l \in Logins :
    (conn[l] = "connected") ~>
      \/ conn[l] = "closed" \/ linkState[l] = 6
      \/ linkState[l] = 2 /\ l \notin password
      \/ idleState # "login"

(* Neither the dialogue nor the player waits for ever.                     *)
LogonIsSettled == AuthenticatedIsSeen /\ LogonEnds
=============================================================================
