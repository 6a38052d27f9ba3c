-------------------------- MODULE RealmLoginProofs --------------------------
(***************************************************************************)
(* What the two threads of RealmLogin know of each other, for any number   *)
(* of requests.                                                            *)
(*                                                                         *)
(* NetClient's state only moves forward, and it becomes NS_CONNECTED only  *)
(* when the main thread handles the queued CONNECT.  So all rests on       *)
(* BeforeConnected: until then CONNECT is the first event of the queue,    *)
(* Poll has not passed it, and the worker has no other event while the     *)
(* queue is empty.  Whoever handles a later event, or writes or has        *)
(* written a status of success, comes after CONNECT was handled.           *)
(***************************************************************************)
EXTENDS RealmLogin, TLAPS

-----------------------------------------------------------------------------
(* The inductive invariant.                                                *)

\* The type invariant in parts, as the steps of the proof need them.
Words == {"result 0", "result 1", "complete", "incomplete"}

StateTypes ==
  /\ idleState \in {"none", "account"} /\ seen \in {0, 1}
  /\ statusResult \in {0, 1} /\ statusComplete \in BOOLEAN
  /\ connected \in BOOLEAN
  /\ realmList \in Lists \cup {"empty"} /\ selectValid \in BOOLEAN
  /\ netState \in {"INITIALIZED", "CONNECTING", "CONNECTED"}
  /\ conn \in {"none", "connecting", "connected", "closed"} /\ encrypt \in BOOLEAN
  /\ read \in Events \cup {"none"} /\ inSync \in BOOLEAN
  /\ realm \in {"silent", "challenged", "session", "waiting", "done"}
CountTypes == requests \in 0..MaxRequests /\ asked \in 0..MaxRequests
QueueTypes == queue \in Seq(Events) /\ node \in 0..(Len(queue) + 1)
WireTypes == lists \in Seq(Lists) /\ wire \in Seq(Messages)
TodoTypes == todo \in [Threads -> Seq(Words)]

MainPcs == {"loop", "ask", "poll", "connected", "encrypt"}
WorkerPcs == {"loop", "select", "connect", "dial", "add"}

\* Poll is inside the handler of an event of the queue, and the logon server
\* owes no more answers than were asked for.
WhereThreadsAre ==
  /\ pc \in [Threads -> MainPcs \cup WorkerPcs]
  /\ pc["main"] \in MainPcs /\ pc["worker"] \in WorkerPcs
  /\ pc["main"] = "connected" => node \in DOMAIN queue
  /\ pc["main"] = "encrypt" => node \in DOMAIN queue /\ netState = "CONNECTED"
  /\ asked <= requests /\ (pc["main"] = "ask" => asked < requests)

\* The connection is started once, in the order Connect, Dial, WCConnected.
StartedOnce ==
  /\ pc["worker"] = "connect" => netState = "INITIALIZED"
  /\ pc["worker"] = "dial" => netState = "CONNECTING" /\ conn = "none"
  /\ netState = "INITIALIZED" => conn = "none"
  /\ conn \in {"none", "connecting"} => netState # "CONNECTED"
  /\ pc["worker"] = "add" => conn = "connected" /\ read # "none"

\* Until the main thread has handled CONNECT, that is the first event.
BeforeConnected ==
  netState # "CONNECTED" =>
    /\ queue # <<>> => queue[1] = "connect"
    /\ node <= 1 /\ (node = 1 => queue # <<>>)
    /\ conn \in {"none", "connecting"} => queue = <<>>
    /\ pc["worker"] = "add" /\ queue = <<>> => read = "connect"
    /\ conn = "connected" /\ pc["worker"] # "add" => queue # <<>>

\* Words that do not say success
Harmless(words) == \A i \in DOMAIN words : words[i] # "result 1"

\* Success is written, and read, once CONNECT is being handled.
SuccessIsEarned ==
  /\ Harmless(todo["worker"])
  /\ netState # "CONNECTED" /\ pc["main"] # "connected" =>
       statusResult = 0 /\ Harmless(todo["main"])
  /\ netState # "CONNECTED" => seen = 0

Types == StateTypes /\ CountTypes /\ QueueTypes /\ WireTypes /\ TodoTypes
Inv == Types /\ WhereThreadsAre /\ StartedOnce /\ BeforeConnected /\ SuccessIsEarned

\* The invariant holds what is to be shown.
LEMMA InvImplies == Inv => TypeOK /\ RealmStatesAgree
<1> SUFFICES ASSUME Inv PROVE TypeOK /\ RealmStatesAgree
  OBVIOUS
<1>1. TypeOK
  <2>1. MainPcs \cup WorkerPcs = {"loop", "ask", "poll", "connected", "encrypt",
                                 "select", "connect", "dial", "add"}
    BY DEF MainPcs, WorkerPcs
  <2>2. TodoTypes /\ WhereThreadsAre /\ QueueTypes /\ WireTypes /\ CountTypes /\ StateTypes
    BY DEF Inv, Types
  <2> QED BY <2>1, <2>2, Zenon
          DEF TypeOK, TodoTypes, WhereThreadsAre, QueueTypes, WireTypes,
              CountTypes, StateTypes, Words
<1>2. NeverFatal
  BY DEF Inv, StartedOnce, NeverFatal
<1>3. ChallengeAnswered
  BY DEF Inv, Types, QueueTypes, BeforeConnected, ChallengeAnswered, At
<1>4. SuccessIsConnected
  BY DEF Inv, SuccessIsEarned, SuccessIsConnected
<1> QED BY <1>1, <1>2, <1>3, <1>4 DEF RealmStatesAgree, NetStateFits

-----------------------------------------------------------------------------
(* The words a thread is about to write.                                   *)

Writes(t, words) == words \in Seq(Words) /\ todo' = [todo EXCEPT ![t] = words]
Failure == <<"result 0", "complete">>
Success == <<"result 1", "complete">>
Again == <<"incomplete">>

\* The words that are written, and what is left of them.
LEMMA WordFacts ==
  /\ Again \in Seq(Words) /\ Failure \in Seq(Words) /\ Success \in Seq(Words)
  /\ Harmless(<<>>) /\ Harmless(Again) /\ Harmless(Failure)
  /\ \A x \in Seq(Words) : x # <<>> => Tail(x) \in Seq(Words) /\ Head(x) \in Words
  /\ \A x \in Seq(Words) : x # <<>> /\ Harmless(x) =>
        Harmless(Tail(x)) /\ Head(x) # "result 1"
<1>1. Again \in Seq(Words) /\ Failure \in Seq(Words) /\ Success \in Seq(Words)
  BY DEF Words, Again, Failure, Success
<1>2. Harmless(<<>>) /\ Harmless(Again) /\ Harmless(Failure)
  <2>1. Harmless(<<>>)
    <3>1. DOMAIN <<>> = {}
      OBVIOUS
    <3> QED BY <3>1, Zenon DEF Harmless
  <2>2. Harmless(Again) /\ Harmless(Failure)
    <3>1. /\ DOMAIN Again = {1} /\ Again[1] = "incomplete"
          /\ DOMAIN Failure = {1, 2} /\ Failure[1] = "result 0" /\ Failure[2] = "complete"
      BY DEF Again, Failure
    <3> QED BY <3>1 DEF Harmless
  <2> QED BY <2>1, <2>2
<1>3. ASSUME NEW x \in Seq(Words), x # <<>>
      PROVE  Tail(x) \in Seq(Words) /\ Head(x) \in Words
  BY <1>3
<1>4. ASSUME NEW x \in Seq(Words), x # <<>>, Harmless(x)
      PROVE  Harmless(Tail(x)) /\ Head(x) # "result 1"
  <2>1. Head(x) = x[1] /\ 1 \in DOMAIN x
    BY <1>4
  <2>2. ASSUME NEW i \in DOMAIN Tail(x)
        PROVE  Tail(x)[i] = x[i + 1] /\ i + 1 \in DOMAIN x
    BY <1>4, <2>2
  <2> QED BY <1>4, <2>1, <2>2 DEF Harmless
<1> QED BY <1>1, <1>2, <1>3, <1>4

\* Complete in its two uses.
LEMMA Completes ==
  ASSUME NEW t
  PROVE  /\ Complete(t, 0) => Writes(t, Failure)
         /\ Complete(t, 1) => Writes(t, Success)
<1>1. /\ (IF 0 = 1 THEN "result 1" ELSE "result 0") = "result 0"
      /\ (IF 1 = 1 THEN "result 1" ELSE "result 0") = "result 1"
  OBVIOUS
<1>2. /\ Complete(t, 0) <=> todo' = [todo EXCEPT ![t] = Failure]
      /\ Complete(t, 1) <=> todo' = [todo EXCEPT ![t] = Success]
  BY <1>1, Zenon DEF Complete, Failure, Success
<1> QED BY <1>2, WordFacts, Zenon DEF Writes

-----------------------------------------------------------------------------
(* The steps, one part of the invariant after the other.                   *)

Asks == FirstLogin \/ ChangeRealm \/ GetRealmList
Polls == PollStatus \/ PollAccountLogin \/ PollBegin \/ PollEnd
Handles == HandleConnect \/ SetConnected \/ HandleAuthChallenge \/ EnableEncryption
           \/ AccountLogin_Finish \/ AccountLogin_Queued
Realms == (\E underrun \in BOOLEAN : HandleRealmData(underrun)) \/ ConnectToSelectedServer
Connects == NetClientConnect \/ Dial \/ WCConnected \/ WCMessageReady \/ AddEvent
StatusWrites == WriteStatus("main") \/ WriteStatus("worker")
Outside == ConnectionLost \/ LogonServerAnswers \/ RealmServerAnswers

\* The steps, in the groups that the proofs below go through.
LEMMA Steps ==
  Next <=> \/ Asks \/ Polls \/ Handles \/ Cancel
           \/ Realms \/ Connects \/ StatusWrites \/ Outside
  BY DEF Next, Asks, Polls, Handles, Realms, Connects, StatusWrites, Outside,
         Poll, Idle, Worker

\* What a step does to the words that wait to be written.
LEMMA TodoMoves ==
  ASSUME Next
  PROVE  \/ UNCHANGED todo
         \/ Writes("main", Again)
         \/ (\E t \in Threads : Writes(t, Failure))
         \/ Writes("main", Success) /\ (HandleConnect \/ (AccountLogin_Finish /\ At("ok")))
         \/ \E t \in Threads :
              todo[t] # <<>> /\ todo' = [todo EXCEPT ![t] = Tail(@)] /\ WriteStatus(t)
<1>1. CASE Asks
  BY <1>1, WordFacts
  DEF Asks, FirstLogin, ChangeRealm, GetRealmList, BeginConnect, Writes, Again
<1>2. CASE Polls
  BY <1>2 DEF Polls, PollStatus, PollAccountLogin, PollBegin, PollEnd
<1>3. CASE SetConnected \/ HandleAuthChallenge \/ EnableEncryption
  BY <1>3 DEF SetConnected, HandleAuthChallenge, EnableEncryption
<1>4. CASE HandleConnect
  <2>1. Complete("main", 1)
    BY <1>4 DEF HandleConnect
  <2>2. Writes("main", Success)
    BY <2>1, Completes
  <2> QED BY <1>4, <2>2
<1>5. CASE AccountLogin_Finish
  <2>1. \/ At("ok") /\ Complete("main", 1)
        \/ Complete("main", 0)
    BY <1>5 DEF AccountLogin_Finish
  <2> QED BY <1>5, <2>1, Completes DEF Threads
<1>6. CASE AccountLogin_Queued
  BY <1>6, WordFacts DEF AccountLogin_Queued, Writes, Again
<1>7. CASE Cancel
  BY <1>7, Completes DEF Cancel, Threads
<1>8. CASE Realms
  <2>1. UNCHANGED todo \/ Complete("worker", 0)
    BY <1>8 DEF Realms, HandleRealmData, ConnectToSelectedServer
  <2> QED BY <2>1, Completes DEF Threads
<1>9. CASE Connects
  BY <1>9
  DEF Connects, NetClientConnect, Dial, WCConnected, WCMessageReady, AddEvent
<1>10. CASE StatusWrites
  BY <1>10 DEF StatusWrites, WriteStatus, Threads
<1>11. CASE Outside
  BY <1>11 DEF Outside, ConnectionLost, LogonServerAnswers, RealmServerAnswers
<1> QED BY <1>1, <1>2, <1>3, <1>4, <1>5, <1>6, <1>7, <1>8, <1>9, <1>10, <1>11,
           Steps DEF Handles

\* Types of the words.
LEMMA TodoStep ==
  ASSUME TodoTypes, Next
  PROVE  TodoTypes'
  BY TodoMoves, WordFacts DEF TodoTypes, Writes, Threads

\* Types of the fields with a few values.
LEMMA StateStep ==
  ASSUME Types, Next
  PROVE  StateTypes'
<1> DEFINE rest == <<statusVars, glueVars, listVars, netVars, readVars, realm>>
<1> USE DEF Types, StateTypes, statusVars, glueVars, listVars, netVars,
            readVars, realmVars
<1>1. CASE FirstLogin
  BY <1>1 DEF FirstLogin, BeginConnect
<1>2. CASE ChangeRealm
  BY <1>2 DEF ChangeRealm, BeginConnect
<1>3. CASE Polls \/ GetRealmList
  BY <1>3
  DEF Polls, PollStatus, PollAccountLogin, PollBegin, PollEnd, GetRealmList
<1>4. CASE SetConnected \/ EnableEncryption
  <2>1. CASE SetConnected
    BY <2>1 DEF SetConnected
  <2>2. CASE EnableEncryption
    BY <2>2 DEF EnableEncryption
  <2> QED BY <1>4, <2>1, <2>2
<1>5. CASE HandleAuthChallenge
  <2>1. realm' \in {realm, "session"}
    BY <1>5 DEF HandleAuthChallenge
  <2>2. UNCHANGED <<statusVars, glueVars, listVars, netVars, readVars>>
    BY <1>5 DEF HandleAuthChallenge
  <2> QED BY <2>1, <2>2
<1>6. CASE HandleConnect \/ AccountLogin_Finish \/ AccountLogin_Queued \/ Cancel
  <2>1. UNCHANGED rest
    BY <1>6 DEF HandleConnect, AccountLogin_Finish, AccountLogin_Queued, Cancel
  <2> QED BY <2>1
<1>7. ASSUME NEW underrun \in BOOLEAN, HandleRealmData(underrun)
      PROVE  StateTypes'
  <2>1. realmList' \in Lists \cup {"empty"}
    BY <1>7 DEF HandleRealmData, WireTypes
  <2>2. UNCHANGED <<statusVars, glueVars, selectValid, netVars, readVars, realm>>
    BY <1>7 DEF HandleRealmData
  <2> QED BY <2>1, <2>2
<1>8. CASE ConnectToSelectedServer
  <2>1. selectValid' \in BOOLEAN
    BY <1>8 DEF ConnectToSelectedServer
  <2>2. UNCHANGED <<statusVars, glueVars, realmList, netVars, readVars, realm>>
    BY <1>8 DEF ConnectToSelectedServer
  <2> QED BY <2>1, <2>2
<1>9. CASE NetClientConnect \/ Dial
  BY ZenonT(30), <1>9 DEF NetClientConnect, Dial
<1>10. CASE WCConnected
  BY <1>10 DEF WCConnected, Events
<1>11. CASE AddEvent
  BY <1>11 DEF AddEvent
<1>12. CASE WCMessageReady
  <2>1. Head(wire) \in Messages
    BY <1>12 DEF WCMessageReady, WireTypes
  <2>2. Head(wire).event \in Events
    BY <2>1 DEF Messages
  <2>3. inSync' \in BOOLEAN /\ read' \in Events \cup {"none"}
    BY <1>12, <2>2 DEF WCMessageReady
  <2>4. UNCHANGED <<statusVars, glueVars, listVars, netVars, realm>>
    BY <1>12 DEF WCMessageReady
  <2> QED BY <2>3, <2>4
<1>13. ASSUME NEW t \in Threads, WriteStatus(t)
       PROVE  StateTypes'
  <2>1. statusResult' \in {0, 1} /\ statusComplete' \in BOOLEAN
    BY <1>13 DEF WriteStatus
  <2>2. UNCHANGED <<seen, glueVars, listVars, netVars, readVars, realm>>
    BY <1>13 DEF WriteStatus
  <2> QED BY <2>1, <2>2
<1>14. CASE Outside
  BY <1>14 DEF Outside, ConnectionLost, LogonServerAnswers, RealmServerAnswers
<1> QED BY <1>1, <1>2, <1>3, <1>4, <1>5, <1>6, <1>7, <1>8, <1>9, <1>10, <1>11,
           <1>12, <1>13, <1>14, Steps
        DEF Asks, Handles, Realms, Connects, StatusWrites, Threads

\* The bounds of the counts.
LEMMA CountStep ==
  ASSUME CountTypes, WhereThreadsAre, Next
  PROVE  CountTypes'
<1> USE RealmLoginAssumption DEF CountTypes
<1>1. CASE Asks
  BY <1>1
  DEF Asks, FirstLogin, ChangeRealm, GetRealmList, BeginConnect,
      WhereThreadsAre, Ready, glueVars, logonVars
<1>2. CASE LogonServerAnswers
  BY <1>2 DEF LogonServerAnswers, glueVars
<1>3. CASE Polls \/ Handles
  BY <1>3
  DEF Polls, PollStatus, PollAccountLogin, PollBegin, PollEnd, Handles,
      HandleConnect, SetConnected, HandleAuthChallenge, EnableEncryption,
      AccountLogin_Finish, AccountLogin_Queued, glueVars, logonVars
<1>4. CASE Cancel \/ Realms \/ Connects \/ StatusWrites \/ Outside
  BY <1>2, <1>4
  DEF Cancel, Realms, HandleRealmData, ConnectToSelectedServer, Connects,
      NetClientConnect, Dial, WCConnected, WCMessageReady, AddEvent,
      StatusWrites, WriteStatus, Outside, ConnectionLost, RealmServerAnswers,
      glueVars, logonVars
<1> QED BY <1>1, <1>2, <1>3, <1>4, Steps

\* The queue, and Poll's place in it.
LEMMA QueueStep ==
  ASSUME Types, WhereThreadsAre, StartedOnce, Next
  PROVE  QueueTypes'
<1> USE DEF Types, QueueTypes
<1>1. CASE PollBegin
  BY <1>1 DEF PollBegin
<1>2. CASE PollEnd
  BY <1>2 DEF PollEnd
<1>3. CASE SetConnected \/ EnableEncryption
  BY <1>3 DEF SetConnected, EnableEncryption, WhereThreadsAre, Ready, queueVars
<1>4. CASE HandleConnect \/ HandleAuthChallenge \/ AccountLogin_Queued
  BY <1>4
  DEF HandleConnect, HandleAuthChallenge, AccountLogin_Queued, At, queueVars
<1>5. CASE AccountLogin_Finish
  BY <1>5 DEF AccountLogin_Finish, At
<1>6. CASE AddEvent
  BY <1>6 DEF AddEvent, StateTypes, StartedOnce, Ready
<1>7. CASE Asks \/ PollStatus \/ PollAccountLogin \/ Cancel \/ Realms
  BY <1>7
  DEF Asks, FirstLogin, ChangeRealm, GetRealmList, PollStatus, PollAccountLogin,
      Cancel, Realms, HandleRealmData, ConnectToSelectedServer, queueVars
<1>8. CASE NetClientConnect \/ Dial \/ WCConnected \/ WCMessageReady \/ StatusWrites \/ Outside
  BY <1>8
  DEF NetClientConnect, Dial, WCConnected, WCMessageReady, StatusWrites,
      WriteStatus, Outside, ConnectionLost, LogonServerAnswers,
      RealmServerAnswers, queueVars
<1> QED BY <1>1, <1>2, <1>3, <1>4, <1>5, <1>6, <1>7, <1>8, Steps
        DEF Polls, Handles, Connects

\* Types of what is on its way.
LEMMA WireStep ==
  ASSUME WireTypes, Next
  PROVE  WireTypes'
<1> USE DEF WireTypes
<1>1. CASE Realms
  BY SMTT(30), <1>1
  DEF Realms, HandleRealmData, ConnectToSelectedServer, logonVars, realmVars
<1>2. CASE WCMessageReady
  BY <1>2 DEF WCMessageReady, logonVars
<1>3. CASE LogonServerAnswers
  BY <1>3 DEF LogonServerAnswers, realmVars
<1>4. CASE RealmServerAnswers
  <2>1. \E m \in Messages : wire' = Append(wire, m)
    BY <1>4 DEF RealmServerAnswers, Messages, Events, AuthResults
  <2> QED BY <1>4, <2>1 DEF RealmServerAnswers, logonVars
<1>5. CASE Asks \/ Polls \/ Handles
  BY <1>5
  DEF Asks, FirstLogin, ChangeRealm, GetRealmList, Polls, PollStatus,
      PollAccountLogin, PollBegin, PollEnd, Handles, HandleConnect,
      SetConnected, HandleAuthChallenge, EnableEncryption, AccountLogin_Finish,
      AccountLogin_Queued, logonVars, realmVars
<1>6. CASE Cancel \/ NetClientConnect \/ Dial \/ WCConnected \/ AddEvent \/ StatusWrites \/ ConnectionLost
  BY <1>6
  DEF Cancel, NetClientConnect, Dial, WCConnected, AddEvent, StatusWrites,
      WriteStatus, ConnectionLost, logonVars, realmVars
<1> QED BY <1>1, <1>2, <1>3, <1>4, <1>5, <1>6, Steps DEF Connects, Outside

\* A thread stays where its code is, and Poll inside a handler at an event.
LEMMA WhereStep ==
  ASSUME Types, WhereThreadsAre, StartedOnce, BeforeConnected, SuccessIsEarned, Next
  PROVE  WhereThreadsAre'
<1> USE DEF WhereThreadsAre, Threads, MainPcs, WorkerPcs
<1>1. CASE FirstLogin
  BY <1>1
  DEF FirstLogin, BeginConnect, InFrame, Ready, logonVars, queueVars, netVars,
      Types, CountTypes
<1>2. CASE ChangeRealm
  BY <1>2
  DEF ChangeRealm, BeginConnect, InFrame, Ready, logonVars, queueVars, netVars,
      Types, CountTypes
<1>3. CASE GetRealmList
  BY <1>3
  DEF GetRealmList, Ready, glueVars, queueVars, netVars, Types, CountTypes
<1>4. CASE Polls
  BY <1>4
  DEF Polls, PollStatus, PollAccountLogin, PollBegin, PollEnd, InFrame, Ready,
      glueVars, logonVars, queueVars, netVars
<1>5. CASE HandleConnect
  BY <1>5 DEF HandleConnect, At, Ready, glueVars, logonVars, queueVars, netVars
<1>6. CASE SetConnected \/ EnableEncryption
  BY <1>6
  DEF SetConnected, EnableEncryption, Ready, glueVars, logonVars, netVars
<1>7. CASE HandleAuthChallenge
  BY <1>7 DEF HandleAuthChallenge, At, Ready, glueVars, logonVars, netVars
<1>8. CASE AccountLogin_Finish
  <2>1. /\ pc["main"] = "loop" /\ node \in DOMAIN queue
        /\ UNCHANGED <<glueVars, netVars, queue, pc, logonVars>>
    BY <1>8 DEF AccountLogin_Finish, At, Ready
  <2> QED BY <2>1 DEF glueVars, netVars, logonVars
<1>9. CASE AccountLogin_Queued \/ Cancel
  <2>1. /\ pc["main"] = "loop"
        /\ UNCHANGED <<glueVars, netVars, queue, pc, logonVars>>
    BY <1>9 DEF AccountLogin_Queued, Cancel, At, InFrame, Ready, queueVars
  <2> QED BY <2>1 DEF glueVars, netVars, logonVars
<1>10. ASSUME NEW underrun \in BOOLEAN, HandleRealmData(underrun)
       PROVE  WhereThreadsAre'
  <2>1. pc' = [pc EXCEPT !["worker"] = "select"] /\ UNCHANGED <<glueVars, netVars, queueVars, asked>>
    BY <1>10 DEF HandleRealmData
  <2> QED BY <2>1 DEF glueVars, netVars, queueVars
<1>11. CASE ConnectToSelectedServer
  <2>1. /\ \E p \in {"connect", "loop"} : pc' = [pc EXCEPT !["worker"] = p]
        /\ UNCHANGED <<glueVars, netVars, queueVars, asked>>
    BY <1>11 DEF ConnectToSelectedServer, logonVars
  <2> QED BY <2>1 DEF glueVars, netVars, queueVars
<1>12. CASE NetClientConnect
  BY <1>12 DEF NetClientConnect, glueVars, queueVars, logonVars
<1>13. CASE Dial \/ WCConnected \/ WCMessageReady
  BY <1>13
  DEF Dial, WCConnected, WCMessageReady, glueVars, queueVars, logonVars, netVars
<1>14. CASE AddEvent
  BY <1>14 DEF AddEvent, glueVars, logonVars, netVars, Types, QueueTypes
<1>15. ASSUME NEW t \in Threads, WriteStatus(t)
       PROVE  WhereThreadsAre'
  BY <1>15 DEF WriteStatus, glueVars, netVars, queueVars, logonVars
<1>16. CASE Outside
  BY <1>16
  DEF Outside, ConnectionLost, LogonServerAnswers, RealmServerAnswers, glueVars,
      netVars, queueVars, logonVars, Types, CountTypes
<1> QED BY <1>1, <1>2, <1>3, <1>4, <1>5, <1>6, <1>7, <1>8, <1>9, <1>10, <1>11,
           <1>12, <1>13, <1>14, <1>15, <1>16, Steps
        DEF Asks, Handles, Realms, Connects, StatusWrites

\* The connection is started once: Connect needs NS_INITIALIZED, which nothing
\* restores.
LEMMA StartedStep ==
  ASSUME Types, WhereThreadsAre, StartedOnce, BeforeConnected, Next
  PROVE  StartedOnce'
<1> USE DEF StartedOnce
<1>1. CASE Asks \/ Polls
  BY <1>1
  DEF Asks, FirstLogin, ChangeRealm, GetRealmList, BeginConnect, Polls,
      PollStatus, PollAccountLogin, PollBegin, PollEnd, WhereThreadsAre,
      Threads, netVars, readVars
<1>2. CASE SetConnected
  BY <1>2 DEF SetConnected, Ready, WhereThreadsAre, BeforeConnected, readVars
<1>3. CASE HandleConnect \/ HandleAuthChallenge \/ EnableEncryption
  BY <1>3
  DEF HandleConnect, HandleAuthChallenge, EnableEncryption, WhereThreadsAre,
      Threads, netVars, readVars
<1>4. CASE AccountLogin_Finish \/ AccountLogin_Queued \/ Cancel
  <2>1. UNCHANGED <<pc, netVars, readVars>>
    BY <1>4 DEF AccountLogin_Finish, AccountLogin_Queued, Cancel
  <2> QED BY <2>1 DEF netVars, readVars
<1>5. CASE Realms
  <2>1. /\ \E p \in {"select", "connect", "loop"} :
             pc' = [pc EXCEPT !["worker"] = p] /\ (p = "connect" => netState = "INITIALIZED")
        /\ UNCHANGED <<netVars, readVars>>
    BY <1>5 DEF Realms, HandleRealmData, ConnectToSelectedServer
  <2> QED BY <2>1 DEF WhereThreadsAre, Threads, netVars, readVars
<1>6. CASE NetClientConnect \/ Dial \/ AddEvent
  BY <1>6
  DEF NetClientConnect, Dial, AddEvent, Ready, WhereThreadsAre, Threads,
      netVars, readVars
<1>7. CASE WCConnected
  BY <1>7 DEF WCConnected, Ready, WhereThreadsAre, Threads, Types, StateTypes
<1>8. CASE WCMessageReady
  <2>1. Head(wire).event # "none"
    <3>1. Head(wire) \in Messages
      BY <1>8 DEF WCMessageReady, Types, WireTypes
    <3> QED BY <3>1 DEF Messages, Events, AuthResults
  <2> QED BY <1>8, <2>1
          DEF WCMessageReady, Ready, WhereThreadsAre, Threads, netVars
<1>9. CASE ConnectionLost
  BY <1>9 DEF ConnectionLost, Ready, readVars
<1>10. CASE StatusWrites \/ LogonServerAnswers \/ RealmServerAnswers
  BY <1>10
  DEF StatusWrites, WriteStatus, LogonServerAnswers, RealmServerAnswers,
      netVars, readVars
<1> QED BY <1>1, <1>2, <1>3, <1>4, <1>5, <1>6, <1>7, <1>8, <1>9, <1>10, Steps
        DEF Handles, Connects, Outside

\* CONNECT stays the first event until it is handled: no other handler runs
\* before.
LEMMA BeforeStep ==
  ASSUME Types, WhereThreadsAre, StartedOnce, BeforeConnected, Next
  PROVE  BeforeConnected'
<1> USE DEF BeforeConnected
<1>1. CASE Asks \/ PollStatus \/ PollAccountLogin
  BY <1>1
  DEF Asks, FirstLogin, ChangeRealm, GetRealmList, BeginConnect, PollStatus,
      PollAccountLogin, WhereThreadsAre, Threads, netVars, readVars, queueVars
<1>2. CASE PollBegin \/ PollEnd
  BY <1>2 DEF PollBegin, PollEnd, Types, QueueTypes, netVars, readVars
<1>3. CASE HandleConnect \/ SetConnected \/ EnableEncryption
  BY <1>3
  DEF HandleConnect, SetConnected, EnableEncryption, Ready, WhereThreadsAre,
      Threads, netVars, readVars, queueVars
<1>4. CASE HandleAuthChallenge \/ AccountLogin_Finish \/ AccountLogin_Queued
  <2>1. node \in DOMAIN queue /\ queue[node] # "connect"
    BY <1>4
    DEF HandleAuthChallenge, AccountLogin_Finish, AccountLogin_Queued, At
  <2>2. netState = "CONNECTED"
    BY <2>1 DEF Types, QueueTypes
  <2>3. UNCHANGED netState
    BY <1>4
    DEF HandleAuthChallenge, AccountLogin_Finish, AccountLogin_Queued, netVars
  <2> QED BY <2>2, <2>3
<1>5. CASE Cancel \/ StatusWrites \/ LogonServerAnswers \/ RealmServerAnswers
  BY <1>5
  DEF Cancel, StatusWrites, WriteStatus, LogonServerAnswers, RealmServerAnswers,
      netVars, readVars, queueVars
<1>6. CASE Realms
  <2>1. /\ \E p \in {"select", "connect", "loop"} : pc' = [pc EXCEPT !["worker"] = p]
        /\ pc["worker"] # "add"
        /\ UNCHANGED <<netVars, readVars, queueVars>>
    BY <1>6 DEF Realms, HandleRealmData, ConnectToSelectedServer, Ready
  <2> QED BY <2>1 DEF WhereThreadsAre, Threads, netVars, readVars, queueVars
<1>7. CASE NetClientConnect \/ Dial \/ WCConnected \/ WCMessageReady
  BY <1>7
  DEF NetClientConnect, Dial, WCConnected, WCMessageReady, Ready, StartedOnce,
      WhereThreadsAre, Threads, queueVars, netVars, readVars
<1>8. CASE AddEvent
  BY <1>8
  DEF AddEvent, Ready, StartedOnce, WhereThreadsAre, Threads, Types, QueueTypes,
      StateTypes, netVars
<1>9. CASE ConnectionLost
  BY <1>9 DEF ConnectionLost, Ready, readVars, queueVars
<1> QED BY <1>1, <1>2, <1>3, <1>4, <1>5, <1>6, <1>7, <1>8, <1>9, Steps
        DEF Polls, Handles, Connects, Outside

\* Who writes the three variables that success depends on
LEMMA Frames ==
  ASSUME Next
  PROVE  /\ UNCHANGED netState \/ NetClientConnect \/ SetConnected
         /\ UNCHANGED statusResult \/ StatusWrites
         /\ UNCHANGED seen \/ PollStatus
<1> USE DEF statusVars, netVars
<1>1. CASE Asks \/ Polls
  BY <1>1
  DEF Asks, FirstLogin, ChangeRealm, GetRealmList, BeginConnect, Polls,
      PollStatus, PollAccountLogin, PollBegin, PollEnd
<1>2. CASE Handles \/ Cancel
  BY <1>2
  DEF Handles, HandleConnect, SetConnected, HandleAuthChallenge,
      EnableEncryption, AccountLogin_Finish, AccountLogin_Queued, Cancel
<1>3. CASE Realms \/ Connects
  BY <1>3
  DEF Realms, HandleRealmData, ConnectToSelectedServer, Connects,
      NetClientConnect, Dial, WCConnected, WCMessageReady, AddEvent
<1>4. CASE StatusWrites \/ Outside
  BY <1>4
  DEF StatusWrites, WriteStatus, Outside, ConnectionLost, LogonServerAnswers,
      RealmServerAnswers
<1> QED BY <1>1, <1>2, <1>3, <1>4, Steps

\* Success needs CONNECT: whoever writes it is at CONNECT or at a later event.
LEMMA SuccessStep ==
  ASSUME Types, WhereThreadsAre, StartedOnce, BeforeConnected, SuccessIsEarned, Next
  PROVE  SuccessIsEarned'
<1>1. netState = "CONNECTED" => netState' = "CONNECTED"
  BY Frames DEF NetClientConnect, SetConnected
<1>2. pc["main"] = "connected" => pc'["main"] = "connected" \/ netState' = "CONNECTED"
  <2>1. CASE Asks \/ Polls
    BY <2>1
    DEF Asks, FirstLogin, ChangeRealm, GetRealmList, BeginConnect, InFrame,
        Ready, Polls, PollStatus, PollAccountLogin, PollBegin, PollEnd
  <2>2. CASE SetConnected
    BY <2>2 DEF SetConnected
  <2>3. CASE HandleConnect \/ HandleAuthChallenge \/ EnableEncryption \/ AccountLogin_Finish \/ AccountLogin_Queued \/ Cancel
    BY <2>3
    DEF HandleConnect, HandleAuthChallenge, EnableEncryption,
        AccountLogin_Finish, AccountLogin_Queued, Cancel, At, InFrame, Ready
  <2>4. CASE Realms \/ Connects
    BY <2>4
    DEF Realms, HandleRealmData, ConnectToSelectedServer, Connects,
        NetClientConnect, Dial, WCConnected, WCMessageReady, AddEvent,
        WhereThreadsAre, Threads
  <2>5. CASE StatusWrites \/ Outside
    BY <2>5
    DEF StatusWrites, WriteStatus, Outside, ConnectionLost, LogonServerAnswers,
        RealmServerAnswers
  <2> QED BY <2>1, <2>2, <2>3, <2>4, <2>5, Steps DEF Handles
<1>3. Harmless(todo'["worker"])
  BY TodoMoves, WordFacts DEF SuccessIsEarned, Writes, Types, TodoTypes, Threads
<1>4. ASSUME netState' # "CONNECTED", pc'["main"] # "connected"
      PROVE  Harmless(todo'["main"])
  <2>1. netState # "CONNECTED" /\ pc["main"] # "connected" /\ Harmless(todo["main"])
    BY <1>1, <1>2, <1>4 DEF SuccessIsEarned
  <2>2. ~HandleConnect
    BY <1>4 DEF HandleConnect, WhereThreadsAre, Threads
  <2>3. ~At("ok")
    BY <2>1 DEF At, BeforeConnected, Types, QueueTypes
  <2> QED BY <2>1, <2>2, <2>3, TodoMoves, WordFacts
          DEF Writes, Types, TodoTypes, Threads
<1>5. ASSUME netState' # "CONNECTED", pc'["main"] # "connected"
      PROVE  statusResult' = 0
  <2>1. statusResult = 0 /\ Harmless(todo["main"]) /\ Harmless(todo["worker"])
    BY <1>1, <1>2, <1>5 DEF SuccessIsEarned
  <2>2. ASSUME NEW t \in Threads, WriteStatus(t)
        PROVE  statusResult' = 0
    <3>1. todo[t] \in Seq(Words) /\ todo[t] # <<>> /\ Harmless(todo[t])
      BY <2>1, <2>2 DEF WriteStatus, Types, TodoTypes, Threads
    <3>2. Head(todo[t]) # "result 1"
      BY <3>1, WordFacts
    <3> QED BY <2>1, <2>2, <3>2 DEF WriteStatus
  <2>3. CASE UNCHANGED statusResult
    BY <2>1, <2>3
  <2> QED BY <2>2, <2>3, Frames DEF StatusWrites, Threads
<1>6. ASSUME netState' # "CONNECTED"
      PROVE  seen' = 0
  <2>1. netState # "CONNECTED" /\ seen = 0
    BY <1>1, <1>6 DEF SuccessIsEarned
  <2>2. CASE PollStatus
    BY <2>1, <2>2 DEF PollStatus, InFrame, Ready, SuccessIsEarned
  <2> QED BY <2>1, <2>2, Frames
<1> QED BY <1>3, <1>4, <1>5, <1>6 DEF SuccessIsEarned

\* The invariant is kept by every step.
LEMMA InvStep == Inv /\ [Next]_vars => Inv'
<1>1. ASSUME Inv, Next PROVE Inv'
  BY <1>1, TodoStep, StateStep, CountStep, QueueStep, WireStep, WhereStep,
     StartedStep, BeforeStep, SuccessStep DEF Inv, Types
<1>2. ASSUME Inv, UNCHANGED vars PROVE Inv'
  <2> USE <1>2
       DEF vars, statusVars, glueVars, listVars, netVars, queueVars, readVars,
           logonVars, realmVars
  <2>1. Types'
    BY DEF Inv, Types, StateTypes, CountTypes, QueueTypes, WireTypes, TodoTypes
  <2>2. WhereThreadsAre' /\ StartedOnce' /\ BeforeConnected'
    BY DEF Inv, WhereThreadsAre, StartedOnce, BeforeConnected
  <2>3. SuccessIsEarned'
    BY DEF Inv, SuccessIsEarned, Harmless
  <2> QED BY <2>1, <2>2, <2>3 DEF Inv
<1> QED BY <1>1, <1>2

\* The invariant holds at the start.
LEMMA InvInit == Init => Inv
<1> SUFFICES ASSUME Init PROVE Inv
  OBVIOUS
<1>1. StateTypes /\ CountTypes
  <2>1. StateTypes
    BY DEF Init, StateTypes
  <2>2. CountTypes
    BY RealmLoginAssumption DEF Init, CountTypes
  <2> QED BY <2>1, <2>2
<1>2. QueueTypes /\ WireTypes /\ TodoTypes
  BY DEF Init, QueueTypes, WireTypes, TodoTypes
<1>3. WhereThreadsAre /\ StartedOnce /\ BeforeConnected
  BY DEF Init, WhereThreadsAre, StartedOnce, BeforeConnected, Threads, MainPcs,
         WorkerPcs
<1>4. SuccessIsEarned
  BY WordFacts DEF Init, SuccessIsEarned, Threads
<1> QED BY <1>1, <1>2, <1>3, <1>4 DEF Inv, Types

(* Types, and the bounds of the counts, for any number of requests.        *)
THEOREM TypeCorrect == Spec => []TypeOK
  BY InvInit, InvStep, InvImplies, PTL DEF Spec

(* NetClient::Connect never ends the program, the challenge of the realm   *)
(* server is always answered, and a status read as success is one of a     *)
(* connection that is up, for any number of requests and lists, whoever    *)
(* writes the status in between.                                           *)
THEOREM StatesAgree == Spec => []RealmStatesAgree
  BY InvInit, InvStep, InvImplies, PTL DEF Spec

=============================================================================
