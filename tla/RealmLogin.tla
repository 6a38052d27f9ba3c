----------------------------- MODULE RealmLogin -----------------------------
(***************************************************************************)
(* From the realm list to the realm server: what happens once the logon    *)
(* server has authenticated the player (GruntLogin).                       *)
(*                                                                         *)
(* The main thread asks for the realms (ClientConnection::Connect, at the  *)
(* first login and whenever the player picks a realm), polls the status of *)
(* the request on every frame (CGlueMgr::Idle) and handles the events of   *)
(* the realm connection (NETEVENTQUEUE::Poll).  The network worker takes   *)
(* the list, connects to the selected realm and queues what the realm      *)
(* server sends.  The status is two fields that both threads write, one    *)
(* after the other and without a lock: every write is an action.           *)
(*                                                                         *)
(* Left out: the error code and the operation of a status, which only      *)
(* choose the text shown; SMSG_PONG and the messages without a handler;    *)
(* deletion of a NetClient (nothing posts NET_DESTROY) and with it its     *)
(* count of references; m_cleanup (Initiate has no caller); and what the   *)
(* code marks TODO: Disconnect, WCCantConnect, WCDisconnected, the queue   *)
(* dialog, suspension and redirection.                                     *)
(***************************************************************************)
EXTENDS Integers, Sequences

CONSTANT MaxRequests   \* bound: how often the main thread asks for the realms

ASSUME RealmLoginAssumption == MaxRequests \in Nat

\* What a realm list holds: the selected realm, other realms, or nothing.
Lists == {"realm", "other"}
\* The events of NETEVENTQUEUE; the last three are SMSG_AUTH_RESPONSE with
\* AUTH_OK, AUTH_WAIT_QUEUE and any other result.
AuthResults == {"ok", "wait", "refused"}
Events == {"connect", "challenge"} \cup AuthResults
Messages == [event : Events \ {"connect"}, encrypted : BOOLEAN]
Threads == {"main", "worker"}

VARIABLES
  idleState,    \* CGlueMgr::m_idleState: "none", "account" (IDLE_ACCOUNT_LOGIN)
  seen,         \* PollStatus: the result it has read
  statusResult, statusComplete,  \* ClientConnection::m_statusResult, m_statusComplete
  connected,    \* ClientConnection::m_connected
  requests,     \* how often the realms were asked for
  realmList,    \* m_realmList: one of Lists or "empty"
  selectValid,  \* s_selectRealmInfoValid
  netState,     \* NetClient::m_netState
  conn,         \* the state of m_serverConnection
  encrypt,      \* m_serverConnection->m_encrypt
  queue, node,  \* m_eventQueue and the node Poll is at; 0: m_critSect is free
  pc,           \* where the two threads are
  todo,         \* the status fields a thread is about to write
  read,         \* the message the worker has read
  inSync,       \* the worker still reads the headers the realm server wrote
  asked, lists, \* requests the logon server has yet to answer, answers on their way
  realm, wire   \* what the realm server has done, its messages on their way

statusVars == <<seen, statusResult, statusComplete>>
glueVars == <<idleState, connected, requests>>
listVars == <<realmList, selectValid>>
netVars == <<netState, conn, encrypt>>
queueVars == <<queue, node>>
readVars == <<read, inSync>>
logonVars == <<asked, lists>>
realmVars == <<realm, wire>>
vars == <<statusVars, glueVars, listVars, netVars, queueVars, pc, todo, readVars,
          logonVars, realmVars>>

(* A type invariant for every field above.                                 *)
TypeOK ==
  /\ idleState \in {"none", "account"} /\ seen \in {0, 1}
  /\ statusResult \in {0, 1} /\ statusComplete \in BOOLEAN
  /\ connected \in BOOLEAN /\ requests \in 0..MaxRequests
  /\ realmList \in Lists \cup {"empty"} /\ selectValid \in BOOLEAN
  /\ netState \in {"INITIALIZED", "CONNECTING", "CONNECTED"}
  /\ conn \in {"none", "connecting", "connected", "closed"} /\ encrypt \in BOOLEAN
  /\ queue \in Seq(Events) /\ node \in 0..(Len(queue) + 1)
  /\ pc \in [Threads -> {"loop", "ask", "poll", "connected", "encrypt",
                         "select", "connect", "dial", "add"}]
  /\ todo \in [Threads -> Seq({"result 0", "result 1", "complete", "incomplete"})]
  /\ read \in Events \cup {"none"} /\ inSync \in BOOLEAN
  /\ asked \in 0..MaxRequests /\ lists \in Seq(Lists)
  /\ realm \in {"silent", "challenged", "session", "waiting", "done"}
  /\ wire \in Seq(Messages)

Init ==
  /\ idleState = "none" /\ seen = 0 /\ statusResult = 0 /\ statusComplete = FALSE
  /\ connected = FALSE /\ requests = 0 /\ realmList = "empty" /\ selectValid = FALSE
  /\ netState = "INITIALIZED" /\ conn = "none" /\ encrypt = FALSE
  /\ queue = <<>> /\ node = 0
  /\ pc = [t \in Threads |-> "loop"] /\ todo = [t \in Threads |-> <<>>]
  /\ read = "none" /\ inSync = TRUE
  /\ asked = 0 /\ lists = <<>> /\ realm = "silent" /\ wire = <<>>

-----------------------------------------------------------------------------
(* The status of the request                                               *)

Ready(t, at) == pc[t] = at /\ todo[t] = <<>>

\* ClientConnection::Complete.
Complete(t, result) ==
  todo' = [todo EXCEPT ![t] = <<IF result = 1 THEN "result 1" ELSE "result 0", "complete">>]

WriteStatus(t) ==
  /\ todo[t] # <<>>
  /\ statusResult' = CASE Head(todo[t]) = "result 0" -> 0
                       [] Head(todo[t]) = "result 1" -> 1
                       [] OTHER -> statusResult
  /\ statusComplete' = CASE Head(todo[t]) = "complete" -> TRUE
                         [] Head(todo[t]) = "incomplete" -> FALSE
                         [] OTHER -> statusComplete
  /\ todo' = [todo EXCEPT ![t] = Tail(@)]
  /\ UNCHANGED <<seen, glueVars, listVars, netVars, queueVars, pc, readVars,
                 logonVars, realmVars>>

-----------------------------------------------------------------------------
(* The main thread: clicks and Idle                                        *)

InFrame == Ready("main", "loop") /\ node = 0

\* ClientConnection::Connect up to GetRealmList.
BeginConnect ==
  /\ requests < MaxRequests /\ requests' = requests + 1
  /\ idleState' = "account"
  /\ todo' = [todo EXCEPT !["main"] = <<"incomplete">>]
  /\ pc' = [pc EXCEPT !["main"] = "ask"]

\* Sub4D8BA0, the first request.
FirstLogin ==
  /\ InFrame /\ requests = 0 /\ BeginConnect
  /\ UNCHANGED <<statusVars, connected, listVars, netVars, queueVars, readVars,
                 logonVars, realmVars>>

\* ChangeRealm, from the realm list: SelectRealm finds the realm in it.
ChangeRealm ==
  /\ InFrame /\ idleState = "none" /\ realmList # "empty"
  /\ selectValid' = TRUE
  /\ IF connected THEN UNCHANGED <<idleState, requests, todo, pc>> ELSE BeginConnect
  /\ UNCHANGED <<statusVars, connected, realmList, netVars, queueVars, readVars,
                 logonVars, realmVars>>

GetRealmList ==
  /\ Ready("main", "ask")
  /\ asked' = asked + 1
  /\ pc' = [pc EXCEPT !["main"] = "loop"]
  /\ UNCHANGED <<statusVars, glueVars, listVars, netVars, queueVars, todo, readVars,
                 lists, realmVars>>

\* StatusDialogClick: Cancel(2).
Cancel ==
  /\ InFrame /\ idleState = "account"
  /\ Complete("main", 0)
  /\ UNCHANGED <<statusVars, glueVars, listVars, netVars, queueVars, pc, readVars,
                 logonVars, realmVars>>

\* PollStatus reads the result before m_statusComplete.
PollStatus ==
  /\ InFrame /\ idleState = "account"
  /\ seen' = statusResult
  /\ pc' = [pc EXCEPT !["main"] = "poll"]
  /\ UNCHANGED <<statusResult, statusComplete, glueVars, listVars, netVars, queueVars,
                 todo, readVars, logonVars, realmVars>>

PollAccountLogin ==
  /\ Ready("main", "poll")
  /\ idleState' = IF statusComplete /\ seen = 0 THEN "none" ELSE idleState
  /\ pc' = [pc EXCEPT !["main"] = "loop"]
  /\ UNCHANGED <<statusVars, connected, requests, listVars, netVars, queueVars, todo,
                 readVars, logonVars, realmVars>>

-----------------------------------------------------------------------------
(* The main thread: NETEVENTQUEUE::Poll, which holds m_critSect            *)

PollBegin ==
  /\ InFrame /\ queue # <<>>
  /\ node' = 1
  /\ UNCHANGED <<statusVars, glueVars, listVars, netVars, queue, pc, todo, readVars,
                 logonVars, realmVars>>

\* Poll is at a node with this event.
At(event) == Ready("main", "loop") /\ node \in DOMAIN queue /\ queue[node] = event

HandleConnect ==
  /\ At("connect")
  /\ Complete("main", 1)
  /\ pc' = [pc EXCEPT !["main"] = "connected"]
  /\ UNCHANGED <<statusVars, glueVars, listVars, netVars, queueVars, readVars,
                 logonVars, realmVars>>

SetConnected ==
  /\ Ready("main", "connected")
  /\ connected' = TRUE /\ netState' = "CONNECTED"
  /\ node' = node + 1
  /\ pc' = [pc EXCEPT !["main"] = "loop"]
  /\ UNCHANGED <<statusVars, idleState, requests, listVars, conn, encrypt, queue, todo,
                 readVars, logonVars, realmVars>>

\* HandleAuthChallenge; Send drops the session in any other state.
HandleAuthChallenge ==
  /\ At("challenge")
  /\ IF netState = "CONNECTED"
     THEN /\ realm' = IF conn = "connected" THEN "session" ELSE realm
          /\ pc' = [pc EXCEPT !["main"] = "encrypt"]
          /\ UNCHANGED node
     ELSE node' = node + 1 /\ UNCHANGED <<realm, pc>>
  /\ UNCHANGED <<statusVars, glueVars, listVars, netVars, queue, todo, readVars,
                 logonVars, wire>>

\* Send, after the message is on its way.
EnableEncryption ==
  /\ Ready("main", "encrypt")
  /\ encrypt' = TRUE
  /\ node' = node + 1
  /\ pc' = [pc EXCEPT !["main"] = "loop"]
  /\ UNCHANGED <<statusVars, glueVars, listVars, netState, conn, queue, todo, readVars,
                 logonVars, realmVars>>

\* HandleAuthResponse: AccountLogin_Finish.
AccountLogin_Finish ==
  /\ \E event \in {"ok", "refused"} :
       At(event) /\ Complete("main", IF event = "ok" THEN 1 ELSE 0)
  /\ node' = node + 1
  /\ UNCHANGED <<statusVars, glueVars, listVars, netVars, queue, pc, readVars,
                 logonVars, realmVars>>

\* HandleAuthResponse: AccountLogin_Queued.
AccountLogin_Queued ==
  /\ At("wait")
  /\ todo' = [todo EXCEPT !["main"] = <<"incomplete">>]
  /\ node' = node + 1
  /\ UNCHANGED <<statusVars, glueVars, listVars, netVars, queue, pc, readVars,
                 logonVars, realmVars>>

PollEnd ==
  /\ Ready("main", "loop") /\ node > Len(queue)
  /\ queue' = <<>> /\ node' = 0
  /\ UNCHANGED <<statusVars, glueVars, listVars, netVars, pc, todo, readVars,
                 logonVars, realmVars>>

-----------------------------------------------------------------------------
(* The network worker: a realm list                                        *)

\* HandleRealmData.  The message is all that was received: a list with another
\* behind it counts as an underrun, and is cleared, and callback 4 fails the
\* request before callback 0 is called like for any other list.
HandleRealmData(underrun) ==
  /\ Ready("worker", "loop") /\ lists # <<>>
  /\ underrun => Len(lists) > 1
  /\ lists' = Tail(lists)
  /\ realmList' = IF underrun THEN "empty" ELSE Head(lists)
  /\ IF underrun THEN Complete("worker", 0) ELSE UNCHANGED todo
  /\ pc' = [pc EXCEPT !["worker"] = "select"]
  /\ UNCHANGED <<statusVars, glueVars, selectValid, netVars, queueVars, readVars,
                 asked, realmVars>>

\* A mutant: a failure is reported with result 1.
SelectWithOne ==
  /\ Ready("worker", "select")
  /\ selectValid' = (selectValid \/ realmList = "realm")
  /\ IF selectValid' /\ netState = "INITIALIZED"
     THEN pc' = [pc EXCEPT !["worker"] = "connect"] /\ UNCHANGED todo
     ELSE pc' = [pc EXCEPT !["worker"] = "loop"] /\ Complete("worker", 1)
  /\ UNCHANGED <<statusVars, glueVars, realmList, netVars, queueVars, readVars,
                 logonVars, realmVars>>

\* A mutant: a request that fails is left alone.
SelectSilently ==
  /\ Ready("worker", "select")
  /\ selectValid' = (selectValid \/ realmList = "realm")
  /\ IF selectValid' /\ netState = "INITIALIZED"
     THEN pc' = [pc EXCEPT !["worker"] = "connect"]
     ELSE pc' = [pc EXCEPT !["worker"] = "loop"]
  /\ UNCHANGED <<statusVars, glueVars, realmList, netVars, queueVars, todo, readVars,
                 logonVars, realmVars>>

\* RealmEnumCallback(0): ConnectToSelectedServer.
ConnectToSelectedServer ==
  /\ Ready("worker", "select")
  /\ selectValid' = (selectValid \/ realmList = "realm")
  /\ IF selectValid' /\ netState = "INITIALIZED"
     THEN pc' = [pc EXCEPT !["worker"] = "connect"] /\ UNCHANGED todo
     ELSE pc' = [pc EXCEPT !["worker"] = "loop"] /\ Complete("worker", 0)
  /\ UNCHANGED <<statusVars, glueVars, realmList, netVars, queueVars, readVars,
                 logonVars, realmVars>>

\* NetClient::Connect; it ends the program in any other state.
NetClientConnect ==
  /\ Ready("worker", "connect") /\ netState = "INITIALIZED"
  /\ encrypt' = FALSE /\ netState' = "CONNECTING"
  /\ pc' = [pc EXCEPT !["worker"] = "dial"]
  /\ UNCHANGED <<statusVars, glueVars, listVars, conn, queueVars, todo, readVars,
                 logonVars, realmVars>>

\* m_serverConnection->Connect.
Dial ==
  /\ Ready("worker", "dial")
  /\ conn' = "connecting"
  /\ pc' = [pc EXCEPT !["worker"] = "loop"]
  /\ UNCHANGED <<statusVars, glueVars, listVars, netState, encrypt, queueVars, todo,
                 readVars, logonVars, realmVars>>

-----------------------------------------------------------------------------
(* The network worker: the realm connection                                *)

\* The connection is made, or a message read: WCConnected, WCMessageReady.
WCConnected ==
  /\ Ready("worker", "loop") /\ conn = "connecting"
  /\ conn' = "connected"
  /\ read' = "connect"
  /\ pc' = [pc EXCEPT !["worker"] = "add"]
  /\ UNCHANGED <<statusVars, glueVars, listVars, netState, encrypt, queueVars, todo,
                 inSync, logonVars, realmVars>>

\* A message whose header is encrypted and not decrypted, or the other way round,
\* and all that follows it, is not read as what was sent.
WCMessageReady ==
  /\ Ready("worker", "loop") /\ conn = "connected" /\ wire # <<>>
  /\ wire' = Tail(wire)
  /\ inSync' = (inSync /\ Head(wire).encrypted = encrypt)
  /\ IF inSync'
     THEN read' = Head(wire).event /\ pc' = [pc EXCEPT !["worker"] = "add"]
     ELSE UNCHANGED <<read, pc>>
  /\ UNCHANGED <<statusVars, glueVars, listVars, netVars, queueVars, todo, logonVars, realm>>

AddEvent ==
  /\ Ready("worker", "add") /\ node = 0
  /\ queue' = Append(queue, read)
  /\ read' = "none"
  /\ pc' = [pc EXCEPT !["worker"] = "loop"]
  /\ UNCHANGED <<statusVars, glueVars, listVars, netVars, node, todo, inSync,
                 logonVars, realmVars>>

\* WCCantConnect and WCDisconnected are empty.
ConnectionLost ==
  /\ Ready("worker", "loop") /\ conn \in {"connecting", "connected"}
  /\ conn' = "closed"
  /\ UNCHANGED <<statusVars, glueVars, listVars, netState, encrypt, queueVars, pc, todo,
                 readVars, logonVars, realmVars>>

-----------------------------------------------------------------------------
(* The servers                                                             *)

LogonServerAnswers ==
  /\ asked > 0 /\ asked' = asked - 1
  /\ \E l \in Lists : lists' = Append(lists, l)
  /\ UNCHANGED <<statusVars, glueVars, listVars, netVars, queueVars, pc, todo, readVars,
                 realmVars>>

\* A challenge in the clear; after the session everything is encrypted, and the
\* player may have to wait.
RealmServerAnswers ==
  /\ conn = "connected"
  /\ \/ realm = "silent" /\ realm' = "challenged"
        /\ wire' = Append(wire, [event |-> "challenge", encrypted |-> FALSE])
     \/ realm = "session" /\ realm' = "waiting"
        /\ wire' = Append(wire, [event |-> "wait", encrypted |-> TRUE])
     \/ realm \in {"session", "waiting"} /\ realm' = "done"
        /\ \E e \in {"ok", "refused"} :
             wire' = Append(wire, [event |-> e, encrypted |-> TRUE])
  /\ UNCHANGED <<statusVars, glueVars, listVars, netVars, queueVars, pc, todo, readVars,
                 logonVars>>

-----------------------------------------------------------------------------
Poll == \/ PollBegin \/ HandleConnect \/ SetConnected \/ HandleAuthChallenge
        \/ EnableEncryption \/ AccountLogin_Finish \/ AccountLogin_Queued \/ PollEnd

Idle == GetRealmList \/ PollStatus \/ PollAccountLogin \/ WriteStatus("main")

Worker == \/ \E underrun \in BOOLEAN : HandleRealmData(underrun)
          \/ ConnectToSelectedServer \/ NetClientConnect \/ Dial
          \/ WCConnected \/ WCMessageReady \/ AddEvent \/ WriteStatus("worker")

Next == \/ FirstLogin \/ ChangeRealm \/ Cancel \/ Idle \/ Poll
        \/ Worker \/ ConnectionLost
        \/ LogonServerAnswers \/ RealmServerAnswers

Spec == Init /\ [][Next]_vars

\* Every frame polls the status and the events; the worker waits for m_critSect;
\* the servers answer.
LiveSpec == /\ Spec /\ WF_vars(Idle) /\ SF_vars(PollBegin) /\ WF_vars(Poll)
            /\ SF_vars(PollStatus) /\ SF_vars(Worker)
            /\ WF_vars(LogonServerAnswers) /\ WF_vars(RealmServerAnswers)

-----------------------------------------------------------------------------
(* Properties                                                              *)

(* NetClient::Connect never ends the program: a second list, for a request *)
(* the player cancelled, finds the connection started by an earlier one    *)
(* (ConnectToSelectedServer looks at the state, Connect insists on it).    *)
NeverFatal == pc["worker"] = "connect" => netState = "INITIALIZED"

(* The challenge of the realm server is answered: Send is silent in any    *)
(* state but NS_CONNECTED, which two threads bring about - the worker sets *)
(* NS_CONNECTING before it dials, and the queued CONNECT comes first.      *)
ChallengeAnswered == At("challenge") => netState = "CONNECTED"

(* The two rules that NetClient has for its state are kept.                *)
NetStateFits == NeverFatal /\ ChallengeAnswered

(* A status that says success is one of a realm connection that is up,     *)
(* although the two threads write its fields one by one (Complete) and     *)
(* PollStatus reads them one by one.                                       *)
SuccessIsConnected ==
  pc["main"] = "poll" /\ statusComplete /\ seen = 1 => netState = "CONNECTED"

(* The states the two threads read of each other are those they act on:    *)
(* both of the above.                                                      *)
RealmStatesAgree == NetStateFits /\ SuccessIsConnected

(* The player does not wait for a realm list in vain: a request ends in a  *)
(* failure that is shown or in the start of a connection, also when an     *)
(* answer to an earlier one is written over it (Complete, Connect).        *)
RequestEnds == (idleState = "account") ~> (idleState = "none" \/ netState # "INITIALIZED")

(* A refusal by the realm server ends the dialog (AccountLogin_Finish,     *)
(* PollAccountLogin), whatever list arrives at the same time.              *)
RefusalIsSeen ==
  (\E i \in DOMAIN queue : queue[i] = "refused") ~> (idleState = "none")

(* The dialog the player waits in is closed.                               *)
DialogCloses == RequestEnds /\ RefusalIsSeen
=============================================================================
