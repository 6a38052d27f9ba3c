--------------------------- MODULE AsyncFileProofs ---------------------------
(* Theorems about AsyncFile, for any number of models, objects and tries. *)
EXTENDS AsyncFile, SequenceFacts

-----------------------------------------------------------------------------
(* The inductive invariant.                                                *)

ListsDistinct == Distinct(readList) /\ Distinct(postList) /\ Distinct(freeList)

\* The main thread has allocated o and not queued it yet, or is calling it back.
Filling(o) == mainPc = "queue" /\ o = asyncObject[mainShared]
CallingBack(o) == mainPc = "callback" /\ o = mainObj

\* Where an object is, told by its flags: one step of the way that leads from
\* the free list through the read list, the disk thread and the post list back.
Fresh(o) == o \in allocated /\ ~isRead[o] /\ ~isProcessed[o] /\ ~Has(freeList, o)

ObjectPlaced(o) ==
  /\ Has(readList, o) <=> o \in queued
  /\ isCurrent[o] <=> o = threadObj
  /\ Has(postList, o) <=> o \in allocated /\ ~Has(freeList, o) /\ isRead[o] /\ ~isProcessed[o]
  /\ CallingBack(o) <=> o \in allocated /\ ~Has(freeList, o) /\ isProcessed[o]
  /\ o \in queued => Fresh(o) /\ ~isCurrent[o] /\ ~Filling(o)
  /\ isCurrent[o] => Fresh(o) /\ ~Filling(o)
  /\ Filling(o) => Fresh(o)
  /\ Fresh(o) => o \in queued \/ isCurrent[o] \/ Filling(o)
  /\ Has(freeList, o) => o \in allocated
  /\ isProcessed[o] => isRead[o]
  /\ isRead[o] => o \in allocated

AllPlaced == \A o \in Objects : ObjectPlaced(o)

\* An object in use and its CM2Shared point at each other.
Linked ==
  /\ \A s \in Shareds : asyncObject[s] # NoObject =>
       /\ asyncObject[s] \in allocated /\ ~Has(freeList, asyncObject[s])
       /\ userArg[asyncObject[s]] = s /\ s \in created
       /\ callback[asyncObject[s]] \in {"model", "skin"}
       /\ priority[asyncObject[s]] = IF callback[asyncObject[s]] = "skin" THEN 125 ELSE 126
  /\ \A o \in allocated : ~Has(freeList, o) =>
       userArg[o] \in Shareds /\ asyncObject[userArg[o]] = o

MainPlaced ==
  /\ mainPc = "queue" =>
       /\ mainShared \in Shareds /\ asyncObject[mainShared] # NoObject
       /\ callback[asyncObject[mainShared]] = "model" => waitStage = 0
  /\ mainPc = "callback" => mainObj \in Objects
  /\ mainPc = "init" => /\ mainShared \in created
                        /\ asyncObject[mainShared] = NoObject /\ ~skinLoaded[mainShared]
  /\ mainPc \in {"wait", "polled"} => waitStage # 0
  /\ mainPc = "idle" => waitStage = 0
  /\ waitStage = 0 <=> waitShared = NoShared
  /\ waitStage # 0 => waitShared \in created
  /\ asyncWaitObject # NoObject =>
       /\ waitStage # 0 /\ mainPc # "wait" /\ asyncWaitObject = asyncObject[waitShared]
       /\ ~isProcessed[asyncWaitObject] /\ ~Filling(asyncWaitObject)

\* What a CM2Shared's flags say while its objects come and go.
StagesAgree ==
  \A s \in Shareds :
    /\ skinLoaded[s] => dataLoaded[s] /\ modelLoaded[s] /\ s \in created
    /\ asyncObject[s] # NoObject =>
         /\ ~skinLoaded[s]
         /\ callback[asyncObject[s]] = "skin" =>
              dataLoaded[s] \/ (mainPc = "queue" /\ mainShared = s)

\* What is left to do for the CM2Shared that is waited for.
WaitAgrees ==
  waitStage # 0 =>
    /\ mainPc = "wait" => asyncObject[waitShared] # NoObject
    /\ mainPc # "wait" /\ asyncWaitObject = NoObject /\ asyncObject[waitShared] # NoObject =>
         callback[asyncObject[waitShared]] = "skin" \/ CallingBack(asyncObject[waitShared])
    /\ waitStage = 2 =>
         /\ asyncObject[waitShared] # NoObject => callback[asyncObject[waitShared]] = "skin"
         /\ ~(mainPc \in {"init", "queue"} /\ mainShared = waitShared)
         /\ mainPc # "wait" /\ asyncWaitObject = NoObject /\ asyncObject[waitShared] # NoObject =>
              CallingBack(asyncObject[waitShared])

\* The read list is in order, the awaited object aside.
SortedAside ==
  \A i, j \in 1..Len(readList) :
    i < j /\ readList[i] # asyncWaitObject /\ readList[j] # asyncWaitObject =>
      priority[readList[i]] <= priority[readList[j]]

IInv == /\ TypeOK /\ ListsDistinct /\ AllPlaced /\ Linked /\ MainPlaced
        /\ StagesAgree /\ WaitAgrees /\ SortedAside

-----------------------------------------------------------------------------
\* The steps of the main thread that touch no list and no object.
LEMMA ControlSteps ==
  ASSUME IInv, StartPoll \/ PollEmpty \/ ModelRejected \/ CallbackReturns \/ PollAgain
  PROVE  IInv'
<1> USE DEF IInv, StartPoll, PollEmpty, ModelRejected, CallbackReturns, PollAgain, AfterPoll,
            objVars, listVars, sharedVars, waitVars, threadVars
<1>1. TypeOK'
  BY DEF TypeOK, MainPcs
<1>2. ListsDistinct'
  BY DEF ListsDistinct
<1>3. AllPlaced'
  BY DEF AllPlaced, ObjectPlaced, Fresh, Filling, CallingBack
<1>4. Linked'
  BY DEF Linked
<1>5. MainPlaced'
  BY DEF MainPlaced, Filling, TypeOK
<1>6. StagesAgree'
  BY DEF StagesAgree
<1>7. WaitAgrees'
  BY DEF WaitAgrees, CallingBack
<1>8. SortedAside'
  BY DEF SortedAside
<1> QED BY <1>1, <1>2, <1>3, <1>4, <1>5, <1>6, <1>7, <1>8

\* Waiting for a model whose object is known, and the end of a wait.
LEMMA WaitSteps ==
  ASSUME IInv, (\E s \in Shareds : WaitForLoad(s)) \/ WaitReturns
  PROVE  IInv'
<1> USE DEF IInv, WaitForLoad, WaitReturns, objVars, listVars, sharedVars, threadVars
<1>1. TypeOK'
  BY DEF TypeOK, MainPcs
<1>2. ListsDistinct'
  BY DEF ListsDistinct
<1>3. AllPlaced'
  BY DEF AllPlaced, ObjectPlaced, Fresh, Filling, CallingBack
<1>4. Linked'
  BY DEF Linked
<1>5. MainPlaced'
  BY AsyncFileAssumption DEF MainPlaced, Filling, TypeOK, Linked
<1>6. StagesAgree'
  BY DEF StagesAgree
<1>7. WaitAgrees'
  BY DEF WaitAgrees, CallingBack, MainPlaced
<1>8. SortedAside'
  BY DEF SortedAside
<1> QED BY <1>1, <1>2, <1>3, <1>4, <1>5, <1>6, <1>7, <1>8

\* A read that fails is tried again, and the object stays with the thread.
LEMMA ReadFailsStep ==
  ASSUME IInv, ReadFails
  PROVE  IInv'
<1> USE DEF IInv, ReadFails, objVars, listVars, sharedVars, waitVars, mainVars
<1>1. TypeOK'
  BY AsyncFileAssumption DEF TypeOK, MainPcs
<1> QED BY <1>1 DEF ListsDistinct, AllPlaced, ObjectPlaced, Fresh, Filling, CallingBack,
        Linked, MainPlaced, StagesAgree, WaitAgrees, SortedAside

\* The disk thread takes the head of the read list.
LEMMA TakeObjectStep ==
  ASSUME IInv, TakeObject
  PROVE  IInv'
<1> USE DEF IInv, TakeObject, sharedVars, waitVars, mainVars
<1> DEFINE o == Head(readList)
<1>1. readList \in Seq(Objects) /\ readList # <<>>
  BY DEF TypeOK
<1>2. /\ readList' \in Seq(Objects) /\ o \in Objects
      /\ \A x : Has(readList, x) <=> Has(readList', x) \/ x = o
      /\ Distinct(readList') /\ ~Has(readList', o)
      /\ Len(readList') = Len(readList) - 1 /\ Len(readList) \in Nat \ {0}
      /\ \A i \in 1..Len(readList') : readList'[i] = readList[i + 1]
  BY <1>1, TailFacts DEF ListsDistinct
<1>3. /\ threadObj = NoObject /\ threadObj' = o /\ queued' = queued \ {o}
      /\ isCurrent' = [isCurrent EXCEPT ![o] = TRUE]
  OBVIOUS
<1> HIDE DEF o
<1>4. TypeOK'
  BY <1>2, <1>3, AsyncFileAssumption DEF TypeOK
<1>5. ListsDistinct'
  BY <1>2 DEF ListsDistinct
<1>6. AllPlaced'
  BY <1>2, <1>3, AsyncFileAssumption DEF AllPlaced, ObjectPlaced, Fresh, Filling, CallingBack, TypeOK
<1>7. Linked' /\ MainPlaced' /\ StagesAgree' /\ WaitAgrees'
  BY DEF Linked, MainPlaced, StagesAgree, WaitAgrees, CallingBack, Filling
<1>8. SortedAside'
  BY <1>2 DEF SortedAside
<1> QED BY <1>4, <1>5, <1>6, <1>7, <1>8

\* The disk thread puts what it has read at the tail of the post list.
LEMMA PostObjectStep ==
  ASSUME IInv, PostObject
  PROVE  IInv'
<1> USE DEF IInv, PostObject, sharedVars, waitVars, mainVars
<1> DEFINE o == threadObj
<1>1. postList \in Seq(Objects) /\ o \in Objects /\ ~Has(postList, o)
  BY DEF TypeOK, AllPlaced, ObjectPlaced, Fresh
<1>2. /\ postList' \in Seq(Objects)
      /\ \A x : Has(postList', x) <=> Has(postList, x) \/ x = o
      /\ Distinct(postList')
  BY <1>1, AppendFacts DEF ListsDistinct
<1>3. /\ isCurrent' = [isCurrent EXCEPT ![o] = FALSE]
      /\ isRead' = [isRead EXCEPT ![o] = TRUE]
      /\ threadObj' = NoObject
  OBVIOUS
<1>4. TypeOK'
  BY <1>1, <1>2, <1>3, AsyncFileAssumption DEF TypeOK
<1>5. ListsDistinct'
  BY <1>2 DEF ListsDistinct
<1>6. AllPlaced'
  BY <1>1, <1>2, <1>3, AsyncFileAssumption
     DEF AllPlaced, ObjectPlaced, Fresh, Filling, CallingBack, TypeOK
<1>7. Linked' /\ MainPlaced' /\ StagesAgree' /\ WaitAgrees' /\ SortedAside'
  BY DEF Linked, MainPlaced, StagesAgree, WaitAgrees, CallingBack, Filling, SortedAside
<1> QED BY <1>4, <1>5, <1>6, <1>7

\* The main thread takes the head of the post list to call it back.
LEMMA TakePostedStep ==
  ASSUME IInv, TakePosted
  PROVE  IInv'
<1> USE DEF IInv, TakePosted, sharedVars, threadVars
<1> DEFINE o == Head(postList)
<1>1. postList \in Seq(Objects) /\ postList # <<>>
  BY DEF TypeOK
<1>2. /\ postList' \in Seq(Objects) /\ o \in Objects /\ Has(postList, o)
      /\ \A x : Has(postList, x) <=> Has(postList', x) \/ x = o
      /\ Distinct(postList') /\ ~Has(postList', o)
  BY <1>1, TailFacts DEF ListsDistinct
<1>3. /\ mainPc = "poll" /\ mainPc' = "callback" /\ mainObj' = o
      /\ isProcessed' = [isProcessed EXCEPT ![o] = TRUE]
      /\ asyncWaitObject' = IF asyncWaitObject = o THEN NoObject ELSE asyncWaitObject
  OBVIOUS
<1> HIDE DEF o
<1>4. TypeOK'
  BY <1>2, <1>3, AsyncFileAssumption DEF TypeOK, MainPcs
<1>5. ListsDistinct'
  BY <1>2 DEF ListsDistinct
<1>6. AllPlaced'
  BY <1>2, <1>3, AsyncFileAssumption DEF AllPlaced, ObjectPlaced, Fresh, Filling, CallingBack, TypeOK
<1>7. Linked'
  BY DEF Linked
<1>8. MainPlaced'
  BY <1>2, <1>3, AsyncFileAssumption DEF MainPlaced, Filling, TypeOK
<1>9. StagesAgree'
  BY DEF StagesAgree
<1>10. WaitAgrees'
  BY <1>2, <1>3, AsyncFileAssumption DEF WaitAgrees, MainPlaced, CallingBack, TypeOK
<1>11. SortedAside'
  <2>1. \A i \in 1..Len(readList) : readList[i] # o
    BY <1>2 DEF AllPlaced, ObjectPlaced, Fresh, Has, TypeOK
  <2> QED BY <2>1, <1>3, AsyncFileAssumption DEF SortedAside, TypeOK
<1> QED BY <1>4, <1>5, <1>6, <1>7, <1>8, <1>9, <1>10, <1>11

\* AsyncFileReadAllocObject: the object is one that nobody has.
Allocates(o, s, kind) ==
  /\ o \notin allocated \/ Has(freeList, o)
  /\ freeList' \in Seq(Objects) /\ Distinct(freeList') /\ ~Has(freeList', o)
  /\ \A x : x # o => (Has(freeList', x) <=> Has(freeList, x))
  /\ allocated' = allocated \cup {o}
  /\ queued' = queued \ {o}
  /\ isProcessed' = [isProcessed EXCEPT ![o] = FALSE]
  /\ isRead' = [isRead EXCEPT ![o] = FALSE]
  /\ isCurrent' = [isCurrent EXCEPT ![o] = FALSE]
  /\ priority' = [priority EXCEPT ![o] = IF kind = "skin" THEN 125 ELSE 126]
  /\ userArg' = [userArg EXCEPT ![o] = s]
  /\ callback' = [callback EXCEPT ![o] = kind]
  /\ asyncObject' = [asyncObject EXCEPT ![s] = o]
  /\ readList' = readList /\ postList' = postList

\* AsyncFileReadAllocObject takes the head of the free list, or a new object.
LEMMA AllocFacts ==
  ASSUME IInv, NEW s \in Shareds, NEW kind, AllocObject(s, kind)
  PROVE  \E o \in Objects : Allocates(o, s, kind)
<1> USE DEF IInv
<1>1. PICK o \in Allocatable :
        /\ freeList' = IF freeList # <<>> THEN Tail(freeList) ELSE freeList
        /\ allocated' = allocated \cup {o}
        /\ queued' = queued \ {o}
        /\ isProcessed' = [isProcessed EXCEPT ![o] = FALSE]
        /\ isRead' = [isRead EXCEPT ![o] = FALSE]
        /\ isCurrent' = [isCurrent EXCEPT ![o] = FALSE]
        /\ priority' = [priority EXCEPT ![o] = IF kind = "skin" THEN 125 ELSE 126]
        /\ userArg' = [userArg EXCEPT ![o] = s]
        /\ callback' = [callback EXCEPT ![o] = kind]
        /\ asyncObject' = [asyncObject EXCEPT ![s] = o]
        /\ readList' = readList /\ postList' = postList
  BY DEF AllocObject
<1>2. /\ o \in Objects
      /\ o \notin allocated \/ Has(freeList, o)
      /\ freeList' \in Seq(Objects) /\ Distinct(freeList') /\ ~Has(freeList', o)
      /\ \A x : x # o => (Has(freeList', x) <=> Has(freeList, x))
  <2>1. CASE freeList = <<>>
    <3>1. o \in Objects /\ o \notin allocated /\ freeList' = freeList
      BY <2>1, <1>1 DEF Allocatable
    <3>2. ~Has(freeList, o)
      BY <3>1 DEF AllPlaced, ObjectPlaced
    <3> QED BY <3>1, <3>2 DEF TypeOK, ListsDistinct
  <2>2. CASE freeList # <<>>
    <3>1. o = Head(freeList) /\ freeList' = Tail(freeList)
      BY <2>2, <1>1 DEF Allocatable
    <3>2. freeList \in Seq(Objects) /\ Distinct(freeList)
      BY DEF TypeOK, ListsDistinct
    <3> QED BY <2>2, <3>1, <3>2, TailFacts
  <2> QED BY <2>1, <2>2
<1> HIDE DEF IInv
<1>3. Allocates(o, s, kind)
  BY <1>1, <1>2 DEF Allocates
<1> QED BY <1>2, <1>3

\* Nothing is listed under the object that is allocated.
LEMMA AllocatedIsOff ==
  ASSUME IInv, NEW o \in Objects, o \notin allocated \/ Has(freeList, o)
  PROVE  /\ ~Has(readList, o) /\ \A i \in 1..Len(readList) : readList[i] # o
         /\ ~Has(postList, o) /\ o \notin queued /\ ~isCurrent[o] /\ o # threadObj
         /\ ~Filling(o) /\ ~CallingBack(o)
         /\ \A s \in Shareds : asyncObject[s] # o
<1>1. /\ ~Has(readList, o) /\ ~Has(postList, o) /\ o \notin queued /\ ~isCurrent[o]
      /\ o # threadObj /\ ~Filling(o) /\ ~CallingBack(o)
  BY DEF IInv, AllPlaced, ObjectPlaced, Fresh
<1>2. \A i \in 1..Len(readList) : readList[i] # o
  BY <1>1 DEF Has
<1>3. \A s \in Shareds : asyncObject[s] # o
  BY AsyncFileAssumption DEF IInv, Linked
<1> QED BY <1>1, <1>2, <1>3

\* CreateShared allocates and fills in the object of the model's data.
LEMMA CreateModelStep ==
  ASSUME IInv, NEW s \in Shareds, CreateModel(s)
  PROVE  IInv'
<1> USE DEF CreateModel, waitVars, threadVars
<1>1. s \in Shareds /\ asyncObject[s] = NoObject
  BY DEF IInv, Linked, TypeOK
<1>2. PICK o \in Objects : Allocates(o, s, "model")
  BY <1>1, AllocFacts
<1>3. /\ ~Has(readList, o) /\ \A i \in 1..Len(readList) : readList[i] # o
      /\ ~Has(postList, o) /\ o \notin queued /\ ~isCurrent[o] /\ o # threadObj
      /\ ~Filling(o) /\ ~CallingBack(o)
      /\ \A t \in Shareds : asyncObject[t] # o
  BY <1>2, AllocatedIsOff DEF Allocates
<1> USE <1>1, <1>2, AsyncFileAssumption DEF IInv, Allocates
<1>4. TypeOK'
  BY DEF TypeOK, MainPcs
<1>5. ListsDistinct'
  BY DEF ListsDistinct
<1>6. AllPlaced'
  BY <1>3 DEF AllPlaced, ObjectPlaced, Fresh, Filling, CallingBack, TypeOK
<1>7. Linked'
  BY <1>3 DEF Linked, TypeOK
<1>8. MainPlaced'
  BY <1>3 DEF MainPlaced, Filling, Linked, TypeOK
<1>9. StagesAgree'
  BY <1>3 DEF StagesAgree, Linked, TypeOK, MainPlaced
<1>10. WaitAgrees'
  BY <1>3 DEF WaitAgrees, MainPlaced, Linked, CallingBack, TypeOK
<1>11. SortedAside'
  BY <1>3 DEF SortedAside, TypeOK
<1> QED BY <1>4, <1>5, <1>6, <1>7, <1>8, <1>9, <1>10, <1>11

\* A model that was read allocates the object of its skin profile.
LEMMA ModelAcceptedStep ==
  ASSUME IInv, ModelAccepted
  PROVE  IInv'
<1> USE DEF ModelAccepted, waitVars, threadVars
<1>1. mainShared \in Shareds /\ asyncObject[mainShared] = NoObject
  BY DEF IInv, MainPlaced, TypeOK
<1>2. PICK o \in Objects : Allocates(o, mainShared, "skin")
  BY <1>1, AllocFacts
<1>3. /\ ~Has(readList, o) /\ \A i \in 1..Len(readList) : readList[i] # o
      /\ ~Has(postList, o) /\ o \notin queued /\ ~isCurrent[o] /\ o # threadObj
      /\ ~Filling(o) /\ ~CallingBack(o)
      /\ \A t \in Shareds : asyncObject[t] # o
  BY <1>2, AllocatedIsOff DEF Allocates
<1> USE <1>1, <1>2, AsyncFileAssumption DEF IInv, Allocates
<1>4. TypeOK'
  BY DEF TypeOK, MainPcs
<1>5. ListsDistinct'
  BY DEF ListsDistinct
<1>6. AllPlaced'
  BY <1>3 DEF AllPlaced, ObjectPlaced, Fresh, Filling, CallingBack, TypeOK
<1>7. Linked'
  BY <1>3 DEF Linked, TypeOK, MainPlaced
<1>8. MainPlaced'
  BY <1>3 DEF MainPlaced, Filling, Linked, TypeOK
<1>9. StagesAgree'
  BY <1>3 DEF StagesAgree, Linked, TypeOK, MainPlaced
<1>10. WaitAgrees'
  BY <1>3 DEF WaitAgrees, MainPlaced, Linked, CallingBack, TypeOK
<1>11. SortedAside'
  BY <1>3 DEF SortedAside, TypeOK
<1> QED BY <1>4, <1>5, <1>6, <1>7, <1>8, <1>9, <1>10, <1>11

\* AsyncFileReadDestroyObject gives o back.
Destroys(o) ==
  /\ freeList' \in Seq(Objects) /\ Distinct(freeList')
  /\ \A x : Has(freeList', x) <=> Has(freeList, x) \/ x = o
  /\ readList' = readList /\ postList' = postList
  /\ UNCHANGED <<allocated, queued, isCurrent, isRead, isProcessed, priority, userArg, callback>>

\* An object being called back is on neither of the other lists, and its
\* CM2Shared still points at it.
LEMMA CalledBackIsOff ==
  ASSUME IInv, mainPc = "callback"
  PROVE  /\ mainObj \in Objects /\ ~Has(freeList, mainObj) /\ mainObj \in allocated
         /\ isRead[mainObj] /\ isProcessed[mainObj] /\ mainObj \notin queued /\ ~isCurrent[mainObj]
         /\ ~Has(readList, mainObj) /\ ~Has(postList, mainObj) /\ mainObj # asyncWaitObject
         /\ userArg[mainObj] \in Shareds /\ asyncObject[userArg[mainObj]] = mainObj
<1> USE DEF IInv
<1>1. mainObj \in Objects
  BY DEF MainPlaced
<1>2. mainObj \in allocated /\ ~Has(freeList, mainObj) /\ isProcessed[mainObj]
  BY <1>1 DEF AllPlaced, ObjectPlaced, CallingBack
<1>3. /\ isRead[mainObj] /\ mainObj \notin queued /\ ~isCurrent[mainObj]
      /\ ~Has(readList, mainObj) /\ ~Has(postList, mainObj)
  BY <1>1, <1>2 DEF AllPlaced, ObjectPlaced, Fresh
<1>4. userArg[mainObj] \in Shareds /\ asyncObject[userArg[mainObj]] = mainObj
  BY <1>1, <1>2 DEF Linked
<1>5. mainObj # asyncWaitObject
  BY <1>1, <1>2, AsyncFileAssumption DEF MainPlaced
<1> QED BY <1>1, <1>2, <1>3, <1>4, <1>5

\* Unlinking what is not on a list changes nothing.
LEMMA UnlinkOff ==
  ASSUME NEW list \in Seq(Objects), NEW o, ~Has(list, o)
  PROVE  Unlink(list, o) = list
BY DEF Unlink, RemoveFirst, Has

\* AsyncFileReadDestroyObject moves an object that is on no other list to the free list.
LEMMA DestroyFacts ==
  ASSUME IInv, mainPc = "callback", DestroyObject(mainObj)
  PROVE  Destroys(mainObj)
<1>1. mainObj \in Objects /\ ~Has(freeList, mainObj) /\ ~Has(readList, mainObj)
      /\ ~Has(postList, mainObj)
  BY CalledBackIsOff
<1>2. readList \in Seq(Objects) /\ postList \in Seq(Objects) /\ freeList \in Seq(Objects)
      /\ Distinct(freeList)
  BY DEF IInv, TypeOK, ListsDistinct
<1>3. readList' = readList /\ postList' = postList
  BY <1>1, <1>2, UnlinkOff DEF DestroyObject
<1>4. freeList' = <<mainObj>> \o freeList
  BY DEF DestroyObject
<1>5. freeList' \in Seq(Objects) /\ InsertedAt(freeList, freeList', 1, mainObj)
  BY <1>1, <1>2, <1>4, ConsFacts
<1>6. Distinct(freeList') /\ \A x : Has(freeList', x) <=> Has(freeList, x) \/ x = mainObj
  BY <1>1, <1>2, <1>5, InsertedFacts
<1> QED BY <1>3, <1>5, <1>6 DEF Destroys, DestroyObject

\* The callback of a model's data.
LEMMA ModelReadStep ==
  ASSUME IInv, ModelRead
  PROVE  IInv'
<1> USE DEF ModelRead, waitVars, threadVars
<1> DEFINE s == userArg[mainObj]
<1>1. /\ mainObj \in Objects /\ ~Has(freeList, mainObj) /\ mainObj \in allocated
      /\ isRead[mainObj] /\ isProcessed[mainObj] /\ mainObj \notin queued /\ ~isCurrent[mainObj]
      /\ ~Has(readList, mainObj) /\ ~Has(postList, mainObj) /\ mainObj # asyncWaitObject
      /\ s \in Shareds /\ asyncObject[s] = mainObj
  BY CalledBackIsOff
<1>2. Destroys(mainObj)
  BY <1>1, DestroyFacts
<1>3. /\ mainPc = "callback" /\ mainPc' = "init" /\ mainShared' = s /\ mainObj' = mainObj
      /\ asyncObject' = [asyncObject EXCEPT ![s] = NoObject] /\ callback[mainObj] = "model"
  OBVIOUS
<1> HIDE DEF s
<1> USE <1>1, <1>2, <1>3, AsyncFileAssumption DEF IInv, Destroys
<1>4. TypeOK'
  BY DEF TypeOK, MainPcs
<1>5. ListsDistinct'
  BY DEF ListsDistinct
<1>6. AllPlaced'
  BY DEF AllPlaced, ObjectPlaced, Fresh, Filling, CallingBack, TypeOK
<1>7. Linked'
  BY DEF Linked, TypeOK
<1>8. MainPlaced'
  BY DEF MainPlaced, Filling, Linked, TypeOK, StagesAgree
<1>9. StagesAgree'
  BY DEF StagesAgree, Linked, TypeOK, MainPlaced
<1>10. WaitAgrees'
  BY DEF WaitAgrees, MainPlaced, Linked, CallingBack, TypeOK
<1>11. SortedAside'
  BY DEF SortedAside, TypeOK
<1> QED BY <1>4, <1>5, <1>6, <1>7, <1>8, <1>9, <1>10, <1>11

\* The callback of a skin profile.
LEMMA SkinReadStep ==
  ASSUME IInv, SkinRead
  PROVE  IInv'
<1> USE DEF SkinRead, waitVars, threadVars
<1> DEFINE s == userArg[mainObj]
<1>1. /\ mainObj \in Objects /\ ~Has(freeList, mainObj) /\ mainObj \in allocated
      /\ isRead[mainObj] /\ isProcessed[mainObj] /\ mainObj \notin queued /\ ~isCurrent[mainObj]
      /\ ~Has(readList, mainObj) /\ ~Has(postList, mainObj) /\ mainObj # asyncWaitObject
      /\ s \in Shareds /\ asyncObject[s] = mainObj
  BY CalledBackIsOff
<1>2. Destroys(mainObj)
  BY <1>1, DestroyFacts
<1>3. PICK ok \in BOOLEAN : FinishLoadingSkinProfile(s, ok)
  OBVIOUS
<1>4. /\ mainPc = "callback" /\ mainPc' = "return" /\ mainShared' = mainShared
      /\ mainObj' = mainObj /\ UNCHANGED <<created, dataLoaded>>
      /\ asyncObject' = [asyncObject EXCEPT ![s] = NoObject] /\ callback[mainObj] = "skin"
  OBVIOUS
<1>5. /\ skinLoaded' \in [Shareds -> BOOLEAN] /\ modelLoaded' \in [Shareds -> BOOLEAN]
      /\ \A t \in Shareds : t # s => skinLoaded'[t] = skinLoaded[t]
                                     /\ modelLoaded'[t] = modelLoaded[t]
      /\ skinLoaded'[s] => skinLoaded[s] \/ ok
      /\ ok /\ dataLoaded[s] => modelLoaded'[s]
      /\ modelLoaded[s] => modelLoaded'[s]
  BY <1>1, <1>3 DEF FinishLoadingSkinProfile, IInv, TypeOK
<1> HIDE DEF s
<1> USE <1>1, <1>2, <1>4, <1>5, AsyncFileAssumption DEF IInv, Destroys
<1>6. TypeOK'
  BY ZenonT(30) DEF TypeOK, MainPcs
<1>7. ListsDistinct'
  BY DEF ListsDistinct
<1>8. AllPlaced'
  BY DEF AllPlaced, ObjectPlaced, Fresh, Filling, CallingBack, TypeOK
<1>9. Linked'
  BY DEF Linked, TypeOK
<1>10. MainPlaced'
  BY DEF MainPlaced, Filling, Linked, TypeOK, StagesAgree
<1>11. StagesAgree'
  BY DEF StagesAgree, Linked, TypeOK, MainPlaced
<1>12. WaitAgrees'
  BY DEF WaitAgrees, MainPlaced, Linked, CallingBack, TypeOK
<1>13. SortedAside'
  BY DEF SortedAside, TypeOK
<1> QED BY <1>6, <1>7, <1>8, <1>9, <1>10, <1>11, <1>12, <1>13
\* QueueRead puts the object on the read list, in its place.
LEMMA LinkFacts ==
  ASSUME IInv, NEW o \in Objects, ~Has(readList, o), callback[o] \in {"model", "skin"},
         priority[o] = IF callback[o] = "skin" THEN 125 ELSE 126
  PROVE  LET q == LinkObject(readList, o) IN
         /\ q \in Seq(Objects) /\ Distinct(q)
         /\ \A x : Has(q, x) <=> Has(readList, x) \/ x = o
         /\ \A i, j \in 1..Len(q) :
              i < j /\ q[i] # asyncWaitObject /\ q[j] # asyncWaitObject =>
                priority[q[i]] <= priority[q[j]]
<1> DEFINE q == LinkObject(readList, o)
           overtaken == {i \in 1..Len(readList) : Overtakes(o, readList[i])}
<1>1. readList \in Seq(Objects) /\ Distinct(readList) /\ Len(readList) \in Nat
  BY LenProperties DEF IInv, TypeOK, ListsDistinct
<1>2. \A i \in 1..Len(readList) : readList[i] \in Objects /\ priority[readList[i]] \in {125, 126}
  BY <1>1, ElementOfSeq DEF IInv, TypeOK
<1>3. q = IF overtaken = {} THEN Append(readList, o) ELSE InsertAt(readList, Min(overtaken), o)
  BY DEF LinkObject
<1>4. CASE overtaken = {}
  <2>1. q = Append(readList, o)
    BY <1>3, <1>4
  <2>2. /\ q \in Seq(Objects) /\ Distinct(q)
        /\ \A x : Has(q, x) <=> Has(readList, x) \/ x = o
    BY <1>1, <2>1, AppendFacts
  <2>3. /\ Len(q) = Len(readList) + 1 /\ q[Len(readList) + 1] = o
        /\ \A i \in 1..Len(readList) : q[i] = readList[i]
    BY <1>1, <2>1, AppendProperties
  <2>4. \A i \in 1..Len(readList) : priority[readList[i]] <= priority[o]
    BY <1>2, <1>4 DEF Overtakes
  <2>5. ASSUME NEW i \in 1..Len(q), NEW j \in 1..Len(q), i < j,
               q[i] # asyncWaitObject, q[j] # asyncWaitObject
        PROVE  priority[q[i]] <= priority[q[j]]
    <3> HIDE DEF q, overtaken
    <3>1. i \in 1..Len(readList) /\ q[i] = readList[i]
      BY <1>1, <2>3, <2>5
    <3>2. CASE j = Len(readList) + 1
      BY <2>3, <2>4, <3>1, <3>2
    <3>3. CASE j # Len(readList) + 1
      BY <1>1, <2>3, <2>5, <3>1, <3>3 DEF IInv, SortedAside
    <3> QED BY <3>2, <3>3
  <2> QED BY <2>2, <2>5
<1>5. CASE overtaken # {}
  <2> DEFINE m == Min(overtaken)
  <2>1. overtaken \in SUBSET Nat
    BY <1>1
  <2>2. m \in overtaken
    BY <2>1, <1>5, MinIsLeast
  <2>3. m \in 1..Len(readList) /\ Overtakes(o, readList[m])
    BY <2>2
  <2>4. callback[o] = "skin" /\ priority[o] = 125
    BY <1>2, <2>3 DEF Overtakes
  <2>5. q = InsertAt(readList, m, o)
    BY <1>3, <1>5
  <2> HIDE DEF q, m
  <2>6. q \in Seq(Objects) /\ InsertedAt(readList, q, m, o)
    BY <1>1, <2>3, <2>5, InsertAtFacts
  <2>7. Distinct(q) /\ \A x : Has(q, x) <=> Has(readList, x) \/ x = o
    BY <1>1, <2>6, InsertedFacts
  <2>8. ASSUME NEW i \in 1..Len(q), NEW j \in 1..Len(q), i < j,
               q[i] # asyncWaitObject, q[j] # asyncWaitObject
        PROVE  priority[q[i]] <= priority[q[j]]
    <3>1. m \in 1..Len(q) /\ Len(q) = Len(readList) + 1
      BY <2>6 DEF InsertedAt
    <3>2. \A k \in 1..Len(q) : /\ k < m => k \in 1..Len(readList) /\ q[k] = readList[k]
                               /\ k = m => q[k] = o
                               /\ k > m => k - 1 \in 1..Len(readList) /\ q[k] = readList[k - 1]
      BY <1>1, <2>6, <3>1 DEF InsertedAt
    <3>3. CASE i = m
      BY <1>1, <1>2, <2>4, <2>8, <3>1, <3>2, <3>3
    <3>4. CASE j = m
      <4>1. i < m
        BY <2>8, <3>4
      <4>2. i \in 1..Len(readList) /\ i \notin overtaken
        <5>1. i \in 1..Len(readList)
          BY <3>2, <4>1
        <5>2. \A k \in overtaken : m <= k
          BY <2>1, <1>5, MinIsLeast DEF m
        <5>3. ~(m <= i)
          <6> HIDE DEF overtaken
          <6> QED BY <2>3, <4>1
        <5> QED BY <5>1, <5>2, <5>3
      <4>3. priority[readList[i]] <= priority[o]
        BY <4>2, <1>2 DEF Overtakes
      <4> QED BY <3>2, <3>4, <4>1, <4>3
    <3>5. CASE i # m /\ j # m
      <4> DEFINE a == IF i < m THEN i ELSE i - 1
                 b == IF j < m THEN j ELSE j - 1
      <4>1. /\ a \in 1..Len(readList) /\ q[i] = readList[a]
            /\ b \in 1..Len(readList) /\ q[j] = readList[b]
        BY <3>1, <3>2, <3>5
      <4>2. a < b
        BY <2>8, <3>1, <3>5
      <4> HIDE DEF a, b
      <4> QED BY <4>1, <4>2, <2>8 DEF IInv, SortedAside
    <3> QED BY <3>3, <3>4, <3>5
  <2> QED BY <2>6, <2>7, <2>8 DEF q
<1> QED BY <1>4, <1>5

\* AsyncFileReadObject queues the object it was given.
LEMMA QueueReadStep ==
  ASSUME IInv, QueueRead
  PROVE  IInv'
<1> USE DEF QueueRead, waitVars, threadVars
<1> DEFINE o == asyncObject[mainShared]
<1>1. /\ mainPc = "queue" /\ mainShared \in Shareds /\ o \in Objects /\ Filling(o)
      /\ callback[o] \in {"model", "skin"}
      /\ priority[o] = IF callback[o] = "skin" THEN 125 ELSE 126
  BY DEF IInv, MainPlaced, TypeOK, Linked, Filling
<1>2. o # asyncWaitObject
  BY <1>1, AsyncFileAssumption DEF IInv, MainPlaced
<1>3. /\ Fresh(o) /\ o \notin queued /\ ~isCurrent[o] /\ ~Has(readList, o)
      /\ \A x \in Objects : Filling(x) => x = o
  BY <1>1 DEF IInv, AllPlaced, ObjectPlaced, Filling
<1>4. /\ readList' = LinkObject(readList, o) /\ queued' = queued \cup {o}
      /\ UNCHANGED <<postList, freeList, allocated, isCurrent, isRead, isProcessed,
                     priority, userArg, callback>>
  BY <1>2 DEF ReadObject
<1>5. /\ readList' \in Seq(Objects) /\ Distinct(readList')
      /\ \A x : Has(readList', x) <=> Has(readList, x) \/ x = o
      /\ \A i, j \in 1..Len(readList') :
           i < j /\ readList'[i] # asyncWaitObject /\ readList'[j] # asyncWaitObject =>
             priority[readList'[i]] <= priority[readList'[j]]
  BY <1>1, <1>3, <1>4, LinkFacts
<1>6. /\ dataLoaded' = [dataLoaded EXCEPT ![mainShared] = (callback[o] = "skin")]
      /\ mainPc' = IF callback[o] = "skin" THEN "return" ELSE "idle"
      /\ mainShared' = NoShared /\ UNCHANGED <<created, asyncObject, mainObj>>
  OBVIOUS
<1> HIDE DEF o
<1>7. /\ dataLoaded' \in [Shareds -> BOOLEAN]
       /\ \A t \in Shareds : t # mainShared => dataLoaded'[t] = dataLoaded[t]
  BY <1>1, <1>6 DEF IInv, TypeOK
<1>8. callback[o] = "skin" => dataLoaded'[mainShared]
  BY <1>1, <1>6 DEF IInv, TypeOK
<1>9. ~skinLoaded[mainShared]
  BY <1>1, AsyncFileAssumption DEF IInv, StagesAgree, o
<1> USE <1>1, <1>3, <1>4, <1>6, AsyncFileAssumption DEF IInv
<1>10. TypeOK'
  BY <1>5 DEF TypeOK, MainPcs
<1>11. ListsDistinct'
  BY <1>5 DEF ListsDistinct
<1>12. AllPlaced'
  BY <1>5 DEF AllPlaced, ObjectPlaced, Fresh, Filling, CallingBack, TypeOK
<1>13. Linked'
  BY DEF Linked, TypeOK
<1>14. MainPlaced'
  BY <1>2, <1>9 DEF MainPlaced, Filling, TypeOK, o
<1>15. StagesAgree'
  <2>1. skinLoaded' = skinLoaded /\ modelLoaded' = modelLoaded
    OBVIOUS
  <2> HIDE DEF QueueRead
  <2> QED BY <2>1, <1>9, <1>7, <1>8 DEF StagesAgree, o
<1>16. WaitAgrees'
  BY DEF WaitAgrees, MainPlaced, Linked, CallingBack, TypeOK
<1>17. SortedAside'
  BY <1>5 DEF SortedAside, TypeOK
<1> QED BY <1>10, <1>11, <1>12, <1>13, <1>14, <1>15, <1>16, <1>17

\* AsyncFileReadWait changes the order of the read list and no other list.
LEMMA MoveFacts ==
  ASSUME IInv, NEW o \in Objects, o \in allocated, ~Has(freeList, o), ~isProcessed[o],
         ~Filling(o), MoveToHead(o)
  PROVE  /\ readList' \in Seq(Objects) /\ Distinct(readList')
         /\ \A x : Has(readList', x) <=> Has(readList, x)
         /\ postList' = postList
         /\ asyncWaitObject = NoObject =>
              \A i, j \in 1..Len(readList') :
                i < j /\ readList'[i] # o /\ readList'[j] # o =>
                  priority[readList'[i]] <= priority[readList'[j]]
<1> DEFINE q == Unlink(readList, o)
<1>1. /\ readList \in Seq(Objects) /\ Distinct(readList) /\ Len(readList) \in Nat
      /\ postList \in Seq(Objects)
      /\ \A i \in 1..Len(readList) : readList[i] \in Objects
  BY LenProperties, ElementOfSeq DEF IInv, TypeOK, ListsDistinct
<1>2. asyncWaitObject = NoObject =>
        \A i, j \in 1..Len(readList) :
          i < j => priority[readList[i]] <= priority[readList[j]]
  BY <1>1, AsyncFileAssumption DEF IInv, SortedAside
<1>3. CASE isCurrent[o] \/ isRead[o]
  <2>1. readList' = readList /\ postList' = postList
    BY <1>3 DEF MoveToHead
  <2> QED BY <1>1, <1>2, <2>1
<1>4. CASE ~isCurrent[o] /\ ~isRead[o]
  <2>1. Has(readList, o) /\ ~Has(postList, o)
    BY <1>4 DEF IInv, AllPlaced, ObjectPlaced, Fresh
  <2>2. readList' = <<o>> \o q /\ postList' = postList
    BY <1>1, <1>4, <2>1, UnlinkOff DEF MoveToHead
  <2>3. /\ q \in Seq(Objects)
        /\ \E m \in 1..Len(readList) : readList[m] = o /\ InsertedAt(q, readList, m, readList[m])
    BY <1>1, <2>1, RemoveFirstFacts DEF Unlink
  <2> HIDE DEF q
  <2>4. PICK m \in 1..Len(readList) : readList[m] = o /\ InsertedAt(q, readList, m, readList[m])
    BY <2>3
  <2>5. /\ Distinct(q) /\ ~Has(q, o)
        /\ \A x : Has(q, x) <=> Has(readList, x) /\ x # o
    BY <1>1, <2>3, <2>4, RemovedFacts
  <2>6. readList' \in Seq(Objects) /\ InsertedAt(q, readList', 1, o)
    BY <2>2, <2>3, ConsFacts
  <2>7. Distinct(readList') /\ \A x : Has(readList', x) <=> Has(q, x) \/ x = o
    BY <2>3, <2>5, <2>6, InsertedFacts
  <2>8. \A x : Has(readList', x) <=> Has(readList, x)
    BY <2>1, <2>5, <2>7
  <2>9. ASSUME asyncWaitObject = NoObject,
               NEW i \in 1..Len(readList'), NEW j \in 1..Len(readList'), i < j,
               readList'[i] # o, readList'[j] # o
        PROVE  priority[readList'[i]] <= priority[readList'[j]]
    <3>1. Len(q) \in Nat /\ Len(readList) = Len(q) + 1 /\ Len(readList') = Len(q) + 1
      BY <2>3, <2>4, <2>6, LenProperties DEF InsertedAt
    <3>2. \A k \in 1..Len(q) : readList'[k + 1] = q[k]
      <4> TAKE k \in 1..Len(q)
      <4>1. k + 1 \in 1..Len(readList') /\ ~(k + 1 < 1) /\ k + 1 # 1 /\ (k + 1) - 1 = k
        BY <3>1
      <4> QED BY <4>1, <2>6 DEF InsertedAt
    <3>3. \A k \in 1..Len(q) : /\ k < m => q[k] = readList[k]
                               /\ k >= m => q[k] = readList[k + 1]
      <4> TAKE k \in 1..Len(q)
      <4>1. k \in 1..Len(readList) /\ k + 1 \in 1..Len(readList) /\ (k + 1) - 1 = k
        BY <3>1
      <4>2. k >= m => ~(k + 1 < m) /\ k + 1 # m
        BY <3>1
      <4> QED BY <4>1, <4>2, <2>4 DEF InsertedAt
    <3>4. i # 1 /\ j # 1
      BY <2>6, <2>9, <3>1 DEF InsertedAt
    <3> DEFINE a == IF i - 1 < m THEN i - 1 ELSE i
               b == IF j - 1 < m THEN j - 1 ELSE j
    <3>5. i - 1 \in 1..Len(q) /\ readList'[i] = q[i - 1]
      BY <3>1, <3>2, <3>4
    <3>6. j - 1 \in 1..Len(q) /\ readList'[j] = q[j - 1]
      BY <3>1, <3>2, <3>4
    <3>7. a \in 1..Len(readList) /\ readList'[i] = readList[a]
      BY <3>1, <3>3, <3>5
    <3>8. b \in 1..Len(readList) /\ readList'[j] = readList[b]
      BY <3>1, <3>3, <3>6
    <3>9. a < b
      BY <2>9, <3>1
    <3> HIDE DEF a, b
    <3> QED BY <1>2, <2>9, <3>7, <3>8, <3>9
  <2> QED BY <2>2, <2>6, <2>7, <2>8, <2>9
<1> QED BY <1>3, <1>4

\* AsyncFileReadWait moves the object it waits for to the head of the list.
LEMMA BeginWaitStep ==
  ASSUME IInv, BeginWait
  PROVE  IInv'
<1> USE DEF BeginWait, objVars, sharedVars, threadVars
<1> DEFINE o == asyncObject[waitShared]
<1>1. /\ mainPc = "wait" /\ waitStage # 0 /\ waitShared \in Shareds /\ o \in Objects
      /\ asyncWaitObject = NoObject
  BY AsyncFileAssumption DEF IInv, MainPlaced, WaitAgrees, TypeOK
<1>2. o \in allocated /\ ~Has(freeList, o)
  BY <1>1, AsyncFileAssumption DEF IInv, Linked
<1>3. ~isProcessed[o] /\ ~Filling(o)
  BY <1>1, <1>2 DEF IInv, AllPlaced, ObjectPlaced, CallingBack, Filling
<1>4. /\ mainPc' = "poll" /\ asyncWaitObject' = o /\ MoveToHead(o)
      /\ UNCHANGED <<objVars, freeList, allocated, sharedVars, waitStage, waitShared,
                     mainObj, mainShared, threadVars>>
  BY <1>3
<1>5. /\ readList' \in Seq(Objects) /\ Distinct(readList')
      /\ \A x : Has(readList', x) <=> Has(readList, x)
      /\ postList' = postList
      /\ \A i, j \in 1..Len(readList') :
           i < j /\ readList'[i] # o /\ readList'[j] # o =>
             priority[readList'[i]] <= priority[readList'[j]]
  BY <1>1, <1>2, <1>3, <1>4, MoveFacts
<1> HIDE DEF o, BeginWait
<1> USE <1>1, <1>2, <1>3, <1>4, AsyncFileAssumption DEF IInv
<1>6. TypeOK'
  BY <1>5 DEF TypeOK, MainPcs
<1>7. ListsDistinct'
  BY <1>5 DEF ListsDistinct
<1>8. AllPlaced'
  BY <1>5 DEF AllPlaced, ObjectPlaced, Fresh, Filling, CallingBack, TypeOK
<1>9. Linked'
  BY DEF Linked, TypeOK
<1>10. MainPlaced'
  BY DEF MainPlaced, Filling, o
<1>11. StagesAgree'
  BY DEF StagesAgree
<1>12. WaitAgrees'
  BY DEF WaitAgrees, CallingBack, TypeOK
<1>13. SortedAside'
  BY <1>5 DEF SortedAside
<1> QED BY <1>6, <1>7, <1>8, <1>9, <1>10, <1>11, <1>12, <1>13
-----------------------------------------------------------------------------
(* The theorems.                                                           *)

\* At the start every list is empty.
LEMMA InitIInv == Init => IInv
<1> SUFFICES ASSUME Init PROVE IInv
  OBVIOUS
<1> USE DEF Init
<1>1. TypeOK
  BY AsyncFileAssumption DEF TypeOK, MainPcs
<1>2. \A x : ~Has(readList, x) /\ ~Has(postList, x) /\ ~Has(freeList, x)
  BY DEF Has
<1>3. ListsDistinct
  BY DEF ListsDistinct, Distinct
<1>4. AllPlaced
  BY <1>2, AsyncFileAssumption DEF AllPlaced, ObjectPlaced, Fresh, Filling, CallingBack
<1>5. Linked
  BY <1>2 DEF Linked
<1>6. MainPlaced /\ StagesAgree /\ WaitAgrees
  BY AsyncFileAssumption DEF MainPlaced, StagesAgree, WaitAgrees
<1>7. SortedAside
  BY DEF SortedAside
<1> QED BY <1>1, <1>3, <1>4, <1>5, <1>6, <1>7 DEF IInv

\* Steps that change nothing keep the invariant.
LEMMA StutterStep ==
  ASSUME IInv, UNCHANGED vars
  PROVE  IInv'
BY DEF vars, objVars, listVars, sharedVars, waitVars, mainVars, threadVars, IInv, TypeOK,
       ListsDistinct, AllPlaced, ObjectPlaced, Fresh, Filling, CallingBack, Linked,
       MainPlaced, StagesAgree, WaitAgrees, SortedAside

\* Every step keeps the inductive invariant.
LEMMA NextIInv == IInv /\ [Next]_vars => IInv'
<1> SUFFICES ASSUME IInv, [Next]_vars PROVE IInv'
  OBVIOUS
<1>1. CASE \E s \in Shareds : CreateModel(s)
  BY <1>1, CreateModelStep
<1>2. CASE (\E s \in Shareds : WaitForLoad(s)) \/ WaitReturns
  BY <1>2, WaitSteps
<1>3. CASE StartPoll \/ PollEmpty \/ ModelRejected \/ CallbackReturns \/ PollAgain
  BY <1>3, ControlSteps
<1>4. CASE QueueRead \/ BeginWait
  BY <1>4, QueueReadStep, BeginWaitStep
<1>5. CASE TakePosted \/ ModelRead \/ ModelAccepted \/ SkinRead
  BY <1>5, TakePostedStep, ModelReadStep, ModelAcceptedStep, SkinReadStep
<1>6. CASE Thread
  BY <1>6, TakeObjectStep, ReadFailsStep, PostObjectStep DEF Thread
<1>7. CASE UNCHANGED vars
  BY <1>7, StutterStep
<1> QED BY <1>1, <1>2, <1>3, <1>4, <1>5, <1>6, <1>7 DEF Next, Main, Finish

\* The inductive invariant holds throughout.
LEMMA Invariance == Spec => []IInv
BY InitIInv, NextIInv, PTL DEF Spec

\* ObjectPlaced in the words of OnePlace.
LEMMA PlacedOnce ==
  ASSUME IInv, NEW o \in allocated
  PROVE  Cardinality({i \in 1..5 : Places(o)[i]}) = 1
<1> DEFINE P == {i \in 1..5 : Places(o)[i]}
<1>1. o \in Objects /\ ObjectPlaced(o)
  BY DEF IInv, TypeOK, AllPlaced
<1>2. /\ o \in ToSet(readList) <=> Has(readList, o)
      /\ o \in ToSet(postList) <=> Has(postList, o)
      /\ o \in ToSet(freeList) <=> Has(freeList, o)
      /\ o = threadObj <=> isCurrent[o]
      /\ Held(o) <=> Filling(o) \/ CallingBack(o)
  BY <1>1, ToSetHas DEF IInv, TypeOK, ObjectPlaced, Held, Filling, CallingBack
<1>3. /\ Places(o)[1] <=> Has(readList, o)
      /\ Places(o)[2] <=> Has(postList, o)
      /\ Places(o)[3] <=> Has(freeList, o)
      /\ Places(o)[4] <=> isCurrent[o]
      /\ Places(o)[5] <=> Filling(o) \/ CallingBack(o)
  BY <1>2 DEF Places
<1>4. 1..5 = {1, 2, 3, 4, 5}
  OBVIOUS
<1>5. \E k \in 1..5 : Places(o)[k] /\ \A j \in 1..5 : j # k => ~Places(o)[j]
  <2>1. CASE Has(freeList, o)
    <3>1. ~Has(readList, o) /\ ~Has(postList, o) /\ ~isCurrent[o] /\ ~Filling(o) /\ ~CallingBack(o)
      BY <1>1, <2>1 DEF ObjectPlaced, Fresh
    <3> QED BY <1>3, <1>4, <2>1, <3>1
  <2>2. CASE o \in queued
    <3>1. /\ Has(readList, o) /\ ~Has(freeList, o) /\ ~Has(postList, o) /\ ~isCurrent[o]
          /\ ~Filling(o) /\ ~CallingBack(o)
      BY <1>1, <2>2 DEF ObjectPlaced, Fresh
    <3> QED BY <1>3, <1>4, <3>1
  <2>3. CASE isCurrent[o]
    <3>1. /\ ~Has(readList, o) /\ ~Has(freeList, o) /\ ~Has(postList, o)
          /\ ~Filling(o) /\ ~CallingBack(o)
      BY <1>1, <2>3 DEF ObjectPlaced, Fresh
    <3> QED BY <1>3, <1>4, <2>3, <3>1
  <2>4. CASE Filling(o)
    <3>1. /\ ~Has(readList, o) /\ ~Has(freeList, o) /\ ~Has(postList, o) /\ ~isCurrent[o]
      BY <1>1, <2>4 DEF ObjectPlaced, Fresh
    <3> QED BY <1>3, <1>4, <2>4, <3>1
  <2>5. CASE Has(postList, o)
    <3>1. /\ ~Has(readList, o) /\ ~Has(freeList, o) /\ ~isCurrent[o]
          /\ ~Filling(o) /\ ~CallingBack(o)
      BY <1>1, <2>5 DEF ObjectPlaced, Fresh
    <3> QED BY <1>3, <1>4, <2>5, <3>1
  <2>6. CASE CallingBack(o)
    <3>1. ~Has(readList, o) /\ ~Has(freeList, o) /\ ~Has(postList, o) /\ ~isCurrent[o]
      BY <1>1, <2>6 DEF ObjectPlaced, Fresh
    <3> QED BY <1>3, <1>4, <2>6, <3>1
  <2>7. \/ Has(freeList, o) \/ o \in queued \/ isCurrent[o] \/ Filling(o)
        \/ Has(postList, o) \/ CallingBack(o)
    BY <1>1 DEF ObjectPlaced, Fresh
  <2> QED BY <2>1, <2>2, <2>3, <2>4, <2>5, <2>6, <2>7
<1>6. PICK k \in 1..5 : Places(o)[k] /\ \A j \in 1..5 : j # k => ~Places(o)[j]
  BY <1>5
<1>7. P = {k}
  BY <1>6
<1> HIDE DEF P
<1> QED BY <1>7, FS_Singleton DEF P

\* A sorted list but for its head is sorted as ReadListSorted says.
LEMMA OrderedAside == IInv => ReadListSorted
<1> SUFFICES ASSUME IInv PROVE ReadListSorted
  OBVIOUS
<1> DEFINE rest == Unlink(readList, asyncWaitObject)
<1>1. readList \in Seq(Objects) /\ Distinct(readList)
  BY DEF IInv, TypeOK, ListsDistinct
<1>2. CASE ~Has(readList, asyncWaitObject)
  <2>1. rest = readList
    BY <1>1, <1>2, UnlinkOff
  <2>2. \A i \in 1..Len(readList) : readList[i] # asyncWaitObject
    BY <1>2 DEF Has
  <2> QED BY <2>1, <2>2 DEF ReadListSorted, IInv, SortedAside
<1>3. CASE Has(readList, asyncWaitObject)
  <2>1. /\ rest \in Seq(Objects)
        /\ \E m \in 1..Len(readList) : /\ readList[m] = asyncWaitObject
                                        /\ InsertedAt(rest, readList, m, readList[m])
    BY <1>1, <1>3, RemoveFirstFacts DEF Unlink
  <2> HIDE DEF rest
  <2>2. PICK m \in 1..Len(readList) : /\ readList[m] = asyncWaitObject
                                      /\ InsertedAt(rest, readList, m, readList[m])
    BY <2>1
  <2>3. \A k \in 1..Len(rest) : \E p \in 1..Len(readList) :
          /\ rest[k] = readList[p] /\ readList[p] # asyncWaitObject
          /\ p = IF k < m THEN k ELSE k + 1
    <3> TAKE k \in 1..Len(rest)
    <3>1. Len(rest) \in Nat /\ Len(readList) = Len(rest) + 1
      BY <2>1, <2>2, LenProperties DEF InsertedAt
    <3> DEFINE p == IF k < m THEN k ELSE k + 1
    <3>2. p \in 1..Len(readList) /\ p # m
      BY <3>1
    <3>3. rest[k] = readList[p]
      <4>1. CASE k < m
        BY <3>1, <3>2, <4>1, <2>2 DEF InsertedAt
      <4>2. CASE ~(k < m)
        <5>1. ~(k + 1 < m) /\ k + 1 # m /\ (k + 1) - 1 = k /\ k + 1 \in 1..Len(readList)
          BY <3>1, <4>2
        <5> QED BY <4>2, <5>1, <2>2 DEF InsertedAt
      <4> QED BY <4>1, <4>2
    <3>4. readList[p] # asyncWaitObject
      BY <1>1, <2>2, <3>2 DEF Distinct
    <3> QED BY <3>2, <3>3, <3>4
  <2>4. ASSUME NEW i \in 1..Len(rest), NEW j \in 1..Len(rest), i < j
        PROVE  priority[rest[i]] <= priority[rest[j]]
    <3>1. PICK p \in 1..Len(readList) : /\ rest[i] = readList[p] /\ readList[p] # asyncWaitObject
                                        /\ p = IF i < m THEN i ELSE i + 1
      BY <2>3
    <3>2. PICK r \in 1..Len(readList) : /\ rest[j] = readList[r] /\ readList[r] # asyncWaitObject
                                        /\ r = IF j < m THEN j ELSE j + 1
      BY <2>3
    <3>3. p < r
      BY <2>4, <3>1, <3>2
    <3> QED BY <3>1, <3>2, <3>3 DEF IInv, SortedAside
  <2> QED BY <2>4 DEF ReadListSorted, rest
<1> QED BY <1>2, <1>3

\* Every allocated read object is in exactly one place, its flags say which, no
\* list has it twice, and the read list is sorted by priority but for the object
\* that AsyncFileReadWait moved to the head (AsyncFileRead.cpp), however many
\* models are loaded and waited for.
THEOREM ObjectsAreInOnePlace == Spec => []WellFormed
<1>1. IInv => WellFormed
  <2> SUFFICES ASSUME IInv PROVE WellFormed
    OBVIOUS
  <2>1. readList \in Seq(Objects) /\ postList \in Seq(Objects) /\ freeList \in Seq(Objects)
    BY DEF IInv, TypeOK
  <2>2. ~Repeats(readList) /\ ~Repeats(postList) /\ ~Repeats(freeList)
    BY <2>1, DistinctByCardinality DEF IInv, ListsDistinct, Repeats
  <2>3. ASSUME NEW o \in allocated
        PROVE  /\ o \in ToSet(readList) <=> o \in queued
               /\ isCurrent[o] <=> o = threadObj
               /\ o \in ToSet(postList) <=>
                    o \notin ToSet(freeList) /\ isRead[o] /\ ~isProcessed[o]
    <3>1. ObjectPlaced(o)
      BY DEF IInv, TypeOK, AllPlaced
    <3> QED BY <2>1, <3>1, ToSetHas DEF ObjectPlaced
  <2>4. OnePlace
    BY <2>2, <2>3, PlacedOnce DEF OnePlace
  <2> QED BY <2>4, OrderedAside DEF WellFormed, IInv
<1> QED BY <1>1, Invariance, PTL

\* A model whose skin profile is loaded has its data loaded, and its CM2Model was
\* initialised with it (CM2Shared::FinishLoadingSkinProfile).
THEOREM SkinComesAfterData == Spec => []SkinAfterData
<1>1. IInv => SkinAfterData
  BY DEF IInv, StagesAgree, SkinAfterData
<1> QED BY <1>1, Invariance, PTL

\* While the disk thread reads into an object's buffer nobody frees the object or
\* fills it in for another file (AsyncFileReadThread, AsyncFileReadDestroyObject).
THEOREM BuffersStayPut == Spec => BufferIsStable
<1> DEFINE A == \A o \in Objects : isCurrent[o] => UNCHANGED <<userArg[o], callback[o]>>
                                                   /\ o \notin ToSet(freeList')
<1>1. ASSUME IInv, IInv', [Next]_vars
      PROVE  A
  <2> SUFFICES ASSUME NEW o \in Objects, isCurrent[o]
               PROVE  UNCHANGED <<userArg[o], callback[o]>> /\ o \notin ToSet(freeList')
    OBVIOUS
  <2>1. o \in allocated /\ ~Has(freeList, o) /\ ~isProcessed[o]
    BY <1>1 DEF IInv, AllPlaced, ObjectPlaced, Fresh
  <2>2. ASSUME NEW s \in Shareds, NEW kind, AllocObject(s, kind)
        PROVE  userArg'[o] = userArg[o] /\ callback'[o] = callback[o] /\ ~Has(freeList', o)
    <3>1. PICK p \in Objects : Allocates(p, s, kind)
      BY <1>1, <2>2, AllocFacts
    <3>2. p # o
      BY <2>1, <3>1 DEF Allocates
    <3> QED BY <1>1, <2>1, <3>1, <3>2 DEF Allocates, IInv, TypeOK
  <2>3. ASSUME mainPc = "callback", DestroyObject(asyncObject[userArg[mainObj]])
        PROVE  userArg'[o] = userArg[o] /\ callback'[o] = callback[o] /\ ~Has(freeList', o)
    <3>1. mainObj # o /\ asyncObject[userArg[mainObj]] = mainObj
      BY <1>1, <2>1, <2>3, CalledBackIsOff
    <3>2. Destroys(mainObj)
      BY <1>1, <2>3, <3>1, DestroyFacts
    <3> QED BY <2>1, <3>1, <3>2 DEF Destroys
  <2>4. userArg'[o] = userArg[o] /\ callback'[o] = callback[o] /\ ~Has(freeList', o)
    <3>1. CASE \E s \in Shareds : CreateModel(s)
      BY <2>2, <3>1 DEF CreateModel
    <3>2. CASE ModelAccepted
      BY <1>1, <2>2, <3>2 DEF ModelAccepted, IInv, MainPlaced, TypeOK
    <3>3. CASE ModelRead
      BY <2>3, <3>3 DEF ModelRead
    <3>4. CASE SkinRead
      BY <2>3, <3>4 DEF SkinRead
    <3>5. CASE UNCHANGED <<userArg, callback, freeList>>
      BY <2>1, <3>5
    <3>6. \/ \E s \in Shareds : CreateModel(s)
          \/ ModelAccepted \/ ModelRead \/ SkinRead
          \/ UNCHANGED <<userArg, callback, freeList>>
      BY <1>1 DEF Next, Main, Finish, Thread, vars, objVars, listVars, WaitForLoad, StartPoll,
         QueueRead, ReadObject, TakePosted, PollEmpty, ModelRejected, CallbackReturns, BeginWait,
         PollAgain, WaitReturns, TakeObject, ReadFails, PostObject
    <3> QED BY <3>1, <3>2, <3>3, <3>4, <3>5, <3>6
  <2>5. freeList' \in Seq(Objects)
    BY <1>1 DEF IInv, TypeOK
  <2> QED BY <2>4, <2>5, ToSetHas
<1>2. IInv /\ IInv' /\ [Next]_vars => [A]_vars
  BY <1>1
<1> QED BY <1>2, Invariance, PTL DEF Spec, BufferIsStable
-----------------------------------------------------------------------------
(* AsyncFile implements ModelLoading, step by step.                        *)

\* A step that leaves alone what StageOf looks at for model s leaves its stage alone.
LEMMA StageStays ==
  ASSUME NEW s \in Shareds,
         (s \in created)' <=> s \in created, skinLoaded'[s] = skinLoaded[s],
         asyncObject'[s] = asyncObject[s],
         asyncObject[s] # NoObject => callback'[asyncObject[s]] = callback[asyncObject[s]],
         (mainPc' = "init" /\ mainShared' = s) <=> (mainPc = "init" /\ mainShared = s)
  PROVE  StageOf(s)' = StageOf(s)
BY DEF StageOf

\* One model moves, nothing else does.
LEMMA OneMoves ==
  ASSUME NEW s \in Shareds, NEW from, NEW to, StageOf(s) = from, StageOf(s)' = to,
         \A r \in Shareds : r # s => StageOf(r)' = StageOf(r), waitShared' = waitShared
  PROVE  Abstract!Move(s, from, to)
BY DEF Abstract!Move

LEMMA NoneMoves ==
  ASSUME \A r \in Shareds : StageOf(r)' = StageOf(r), waitShared' = waitShared
  PROVE  UNCHANGED Abstract!vars
BY DEF Abstract!vars

\* An object allocated for s belonged to no model.
LEMMA OthersKeepObjects ==
  ASSUME IInv, NEW s \in Shareds, NEW kind, AllocObject(s, kind), NEW r \in Shareds, r # s
  PROVE  /\ asyncObject'[r] = asyncObject[r]
         /\ asyncObject[r] # NoObject => callback'[asyncObject[r]] = callback[asyncObject[r]]
<1>1. PICK o \in Objects : Allocates(o, s, kind)
  BY AllocFacts
<1>2. asyncObject[r] # o
  BY <1>1, AllocatedIsOff DEF Allocates
<1> QED BY <1>1, <1>2 DEF Allocates, IInv, TypeOK

LEMMA AllocatesFor ==
  ASSUME IInv, NEW s \in Shareds, NEW kind, AllocObject(s, kind)
  PROVE  asyncObject'[s] \in Objects /\ callback'[asyncObject'[s]] = kind
<1>1. PICK o \in Objects : Allocates(o, s, kind)
  BY AllocFacts
<1> QED BY <1>1 DEF Allocates, IInv, TypeOK

LEMMA CreateRefines ==
  ASSUME IInv, NEW s \in Shareds, CreateModel(s)
  PROVE  Abstract!Create(s)
<1> USE DEF CreateModel, waitVars
<1>1. asyncObject'[s] \in Objects /\ callback'[asyncObject'[s]] = "model"
  BY AllocatesFor
<1>2. ~skinLoaded[s]
  BY DEF IInv, StagesAgree
<1>3. StageOf(s) = "absent" /\ StageOf(s)' = "reading"
  BY <1>1, <1>2, AsyncFileAssumption DEF StageOf
<1>4. ASSUME NEW r \in Shareds, r # s
      PROVE  StageOf(r)' = StageOf(r)
  <2>1. /\ asyncObject'[r] = asyncObject[r]
        /\ asyncObject[r] # NoObject => callback'[asyncObject[r]] = callback[asyncObject[r]]
    BY <1>4, OthersKeepObjects
  <2> QED BY <1>4, <2>1, StageStays
<1>5. waitShared = NoShared /\ waitShared' = waitShared
  BY DEF IInv, MainPlaced
<1> QED BY <1>3, <1>4, <1>5, OneMoves DEF Abstract!Create

LEMMA AcceptRefines ==
  ASSUME IInv, ModelAccepted
  PROVE  \E s \in Shareds : Abstract!HaveModel(s)
<1> USE DEF ModelAccepted, waitVars
<1>1. /\ mainShared \in Shareds /\ mainShared \in created
      /\ asyncObject[mainShared] = NoObject /\ ~skinLoaded[mainShared]
  BY DEF IInv, MainPlaced, TypeOK
<1>2. /\ asyncObject'[mainShared] \in Objects
      /\ callback'[asyncObject'[mainShared]] = "skin"
  BY <1>1, AllocatesFor
<1>3. StageOf(mainShared) = "reading"
  BY <1>1 DEF StageOf
<1> DEFINE s == mainShared
<1>4. \E r \in Shareds : r = s
  BY <1>1
<1>5. PICK r \in Shareds : r = s
  BY <1>4
<1>6. StageOf(r) = "reading" /\ StageOf(r)' = "readingSkin"
  BY <1>1, <1>2, <1>3, <1>5, AsyncFileAssumption DEF StageOf
<1>7. ASSUME NEW q \in Shareds, q # r
      PROVE  StageOf(q)' = StageOf(q)
  <2>1. /\ asyncObject'[q] = asyncObject[q]
        /\ asyncObject[q] # NoObject => callback'[asyncObject[q]] = callback[asyncObject[q]]
    BY <1>1, <1>5, <1>7, OthersKeepObjects
  <2> QED BY <1>5, <1>7, <2>1, StageStays
<1> QED BY <1>6, <1>7, OneMoves DEF Abstract!HaveModel

LEMMA RejectRefines ==
  ASSUME IInv, ModelRejected
  PROVE  \E s \in Shareds : Abstract!Reject(s)
<1> USE DEF ModelRejected, objVars, sharedVars, waitVars
<1>1. /\ mainShared \in Shareds /\ mainShared \in created
      /\ asyncObject[mainShared] = NoObject /\ ~skinLoaded[mainShared]
  BY DEF IInv, MainPlaced, TypeOK
<1>2. PICK r \in Shareds : r = mainShared
  BY <1>1
<1>3. StageOf(r) = "reading" /\ StageOf(r)' = "failed"
  BY <1>1, <1>2 DEF StageOf
<1>4. ASSUME NEW q \in Shareds, q # r
      PROVE  StageOf(q)' = StageOf(q)
  BY <1>2, <1>4, StageStays
<1> QED BY <1>3, <1>4, OneMoves DEF Abstract!Reject

LEMMA SkinRefines ==
  ASSUME IInv, SkinRead
  PROVE  \E s \in Shareds : Abstract!HaveSkin(s) \/ Abstract!Reject(s)
<1> USE DEF SkinRead, waitVars
<1>1. /\ userArg[mainObj] \in Shareds /\ asyncObject[userArg[mainObj]] = mainObj
      /\ mainObj \in Objects
  BY CalledBackIsOff
<1>2. PICK r \in Shareds : r = userArg[mainObj]
  BY <1>1
<1>3. /\ asyncObject[r] = mainObj /\ callback[mainObj] = "skin" /\ r \in created
      /\ ~skinLoaded[r]
  BY <1>1, <1>2, AsyncFileAssumption DEF IInv, Linked, StagesAgree
<1>4. StageOf(r) = "readingSkin"
  BY <1>1, <1>3, AsyncFileAssumption DEF StageOf
<1>5. PICK ok \in BOOLEAN : FinishLoadingSkinProfile(r, ok)
  BY <1>2
<1>6. asyncObject' = [asyncObject EXCEPT ![r] = NoObject] /\ created' = created
  BY <1>2
<1>7. StageOf(r)' \in {"loaded", "failed"}
  BY <1>3, <1>6 DEF StageOf, IInv, TypeOK
<1>8. ASSUME NEW q \in Shareds, q # r
      PROVE  StageOf(q)' = StageOf(q)
  <2>1. skinLoaded'[q] = skinLoaded[q] /\ asyncObject'[q] = asyncObject[q]
    BY <1>5, <1>6, <1>8 DEF FinishLoadingSkinProfile, IInv, TypeOK
  <2>2. callback' = callback
    BY DEF DestroyObject
  <2> QED BY <1>6, <2>1, <2>2, StageStays
<1>9. waitShared' = waitShared
  OBVIOUS
<1> HIDE DEF SkinRead
<1> QED BY <1>4, <1>7, <1>8, <1>9, OneMoves DEF Abstract!HaveSkin, Abstract!Reject

\* Who begins to wait waits for a model that is being read.
LEMMA WaitRefines ==
  ASSUME IInv, NEW s \in Shareds, WaitForLoad(s)
  PROVE  Abstract!Wait(s)
<1> USE DEF WaitForLoad, objVars, sharedVars
<1>1. waitShared = NoShared
  BY DEF IInv, MainPlaced
<1>2. StageOf(s) \in {"reading", "readingSkin"}
  BY DEF StageOf, IInv, Linked, StagesAgree
<1>3. \A r \in Shareds : StageOf(r)' = StageOf(r)
  BY StageStays
<1> QED BY <1>1, <1>2, <1>3 DEF Abstract!Wait

\* Who stops waiting has a model that is settled.
LEMMA ReturnRefines ==
  ASSUME IInv, WaitReturns
  PROVE  Abstract!Return \/ UNCHANGED Abstract!vars
<1> USE DEF WaitReturns, objVars, sharedVars
<1>1. ASSUME NEW r \in Shareds
      PROVE  StageOf(r)' = StageOf(r)
  BY StageStays
<1>2. CASE waitStage = 1 /\ asyncObject[waitShared] # NoObject
  BY <1>1, <1>2, NoneMoves
<1>3. CASE ~(waitStage = 1 /\ asyncObject[waitShared] # NoObject)
  <2>1. waitStage # 0 /\ waitShared \in Shareds /\ waitShared # NoShared /\ waitShared \in created
    BY DEF IInv, MainPlaced, TypeOK
  <2>2. asyncObject[waitShared] = NoObject
    BY <1>3, <2>1 DEF IInv, WaitAgrees, CallingBack, TypeOK
  <2>3. StageOf(waitShared) \in {"loaded", "failed"}
    BY <2>1, <2>2 DEF StageOf
  <2>4. waitShared' = NoShared
    BY <1>3
  <2> QED BY <1>1, <2>1, <2>3, <2>4 DEF Abstract!Return, Abstract!Settled
<1> QED BY <1>2, <1>3

\* Every other step is none of ModelLoading.
LEMMA OthersStutter ==
  ASSUME IInv,
         \/ StartPoll \/ QueueRead \/ TakePosted \/ PollEmpty \/ CallbackReturns \/ BeginWait
         \/ PollAgain \/ Thread \/ ModelRead \/ UNCHANGED vars
  PROVE  UNCHANGED Abstract!vars
<1>1. waitShared' = waitShared
  BY DEF StartPoll, QueueRead, TakePosted, PollEmpty, CallbackReturns, BeginWait, PollAgain,
     Thread, TakeObject, ReadFails, PostObject, ModelRead, vars, waitVars
<1>2. CASE ModelRead
  <2> USE DEF ModelRead
  <2>1. /\ userArg[mainObj] \in Shareds /\ asyncObject[userArg[mainObj]] = mainObj
        /\ mainObj \in Objects
    BY <1>2, CalledBackIsOff
  <2>2. PICK s \in Shareds : s = userArg[mainObj]
    BY <2>1
  <2>3. asyncObject[s] = mainObj /\ callback[mainObj] = "model" /\ s \in created /\ ~skinLoaded[s]
    BY <1>2, <2>1, <2>2, AsyncFileAssumption DEF IInv, Linked, StagesAgree
  <2>4. /\ asyncObject' = [asyncObject EXCEPT ![s] = NoObject] /\ mainShared' = s
        /\ mainPc = "callback" /\ mainPc' = "init" /\ callback' = callback
        /\ UNCHANGED <<created, skinLoaded>>
    BY <1>2, <2>2 DEF DestroyObject
  <2>5. StageOf(s) = "reading"
    BY <2>1, <2>3, AsyncFileAssumption DEF StageOf
  <2>6. StageOf(s)' = "reading"
    BY <2>3, <2>4 DEF StageOf, IInv, TypeOK
  <2>7. ASSUME NEW r \in Shareds, r # s
        PROVE  StageOf(r)' = StageOf(r)
    <3>1. asyncObject'[r] = asyncObject[r]
      BY <2>4, <2>7 DEF IInv, TypeOK
    <3> QED BY <2>4, <2>7, <3>1, StageStays
  <2> QED BY <1>1, <2>5, <2>6, <2>7, NoneMoves
<1>3. CASE /\ UNCHANGED <<created, skinLoaded, asyncObject, callback>>
           /\ (mainPc # "init" /\ mainPc' # "init") \/ UNCHANGED <<mainPc, mainShared>>
  <2>1. ASSUME NEW r \in Shareds
        PROVE  StageOf(r)' = StageOf(r)
    BY <1>3, StageStays
  <2> QED BY <1>1, <2>1, NoneMoves
<1>4. ASSUME ~ModelRead
      PROVE  /\ UNCHANGED <<created, skinLoaded, asyncObject, callback>>
             /\ (mainPc # "init" /\ mainPc' # "init") \/ UNCHANGED <<mainPc, mainShared>>
  BY <1>4 DEF StartPoll, QueueRead, ReadObject, TakePosted, PollEmpty, CallbackReturns, BeginWait,
     PollAgain, AfterPoll, Thread, TakeObject, ReadFails, PostObject, vars, waitVars, objVars,
     sharedVars, mainVars
<1> QED BY <1>2, <1>3, <1>4

\* WaitForLoad gives control back when both reads have been called back and not
\* before, and a model goes through its stages in order (ModelLoading): the
\* initial state and every step of AsyncFile are those of ModelLoading, or stutter.
THEOREM LoadsStepByStep == Spec => Abstract!Init /\ [][Abstract!Next]_Abstract!vars
<1>1. Init => Abstract!Init
  BY DEF Init, Abstract!Init, StageOf
<1>2. IInv /\ [Next]_vars => [Abstract!Next]_Abstract!vars
  <2> SUFFICES ASSUME IInv, [Next]_vars
               PROVE  Abstract!Next \/ UNCHANGED Abstract!vars
    OBVIOUS
  <2>1. CASE \E s \in Shareds : CreateModel(s)
    BY <2>1, CreateRefines DEF Abstract!Next
  <2>2. CASE \E s \in Shareds : WaitForLoad(s)
    BY <2>2, WaitRefines DEF Abstract!Next
  <2>3. CASE ModelAccepted \/ ModelRejected \/ SkinRead
    BY <2>3, AcceptRefines, RejectRefines, SkinRefines DEF Abstract!Next, Abstract!Settle
  <2>4. CASE WaitReturns
    BY <2>4, ReturnRefines DEF Abstract!Next
  <2>5. CASE \/ StartPoll \/ QueueRead \/ TakePosted \/ PollEmpty \/ CallbackReturns
             \/ BeginWait \/ PollAgain \/ Thread \/ ModelRead \/ UNCHANGED vars
    BY <2>5, OthersStutter
  <2> QED BY <2>1, <2>2, <2>3, <2>4, <2>5 DEF Next, Main, Finish
<1> QED BY <1>1, <1>2, Invariance, PTL DEF Spec
=============================================================================
