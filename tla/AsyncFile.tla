------------------------------ MODULE AsyncFile ------------------------------
(***************************************************************************)
(* Asynchronous file reads (src/async) and the model loading that uses     *)
(* them (src/model: CM2Shared, CM2Model::WaitForLoad, its only callers).   *)
(*                                                                         *)
(* Two threads.  The main thread allocates a read object, queues it, runs  *)
(* the poll handler on every EVENT_ID_POLL, which takes finished objects   *)
(* off the post list and calls them back, and may wait for one object by   *)
(* polling in a loop.  The disk thread takes objects from the head of the  *)
(* read list, reads, and puts them on the post list.  Each section under   *)
(* s_queueLock is one action.                                              *)
(*                                                                         *)
(* Left out: the streaming mode (SFile::IsStreamingMode returns 0), so     *)
(* there is one queue and list14 stays empty; s_waiting and s_progressCount*)
(* (nothing reads them); shutdown (nothing sets s_shutdownEvent); a second *)
(* CreateModel or WaitForLoad from inside a callback (no callback reaches  *)
(* one); an allocation that fails.                                         *)
(***************************************************************************)
EXTENDS Integers, Sequences, FiniteSets, FiniteSetsExt, SequencesExt

CONSTANTS
  Shareds,    \* the CM2Shared objects the program creates
  NoShared,   \* a null CM2Shared*
  Objects,    \* the CAsyncObjects NewNode may return
  NoObject,   \* a null CAsyncObject*
  ReadTries   \* how often AsyncFileReadThread tries a read (10)

ASSUME AsyncFileAssumption ==
  /\ IsFiniteSet(Shareds) /\ NoShared \notin Shareds
  /\ IsFiniteSet(Objects) /\ NoObject \notin Objects
  /\ Cardinality(Objects) >= Cardinality(Shareds)
  /\ ReadTries \in Nat \ {0}

VARIABLES
  \* AsyncFileRead
  readList, postList, freeList,  \* readList of queue 0, the post and free lists
  asyncWaitObject,               \* s_asyncWaitObject
  \* CAsyncObject
  allocated,    \* the objects NewNode has returned so far
  queued,       \* those whose queue is not null
  isCurrent, isRead, isProcessed,
  priority,
  userArg,      \* userArg: the CM2Shared that is called back
  callback,     \* userPostloadCallback: "model" LoadSucceeded, "skin" SkinProfileLoaded
  \* CM2Shared
  created,      \* the CM2Shareds that exist
  asyncObject,  \* asyncObject
  dataLoaded, skinLoaded,  \* m_m2DataLoaded, m_skinProfileLoaded
  modelLoaded,  \* m_loaded of the CM2Model on its callback list
  \* the main thread
  mainPc, mainObj, mainShared,
  waitStage,    \* which of the two waits of WaitForLoad it is in, 0: none
  waitShared,   \* the CM2Shared that WaitForLoad waits for
  \* AsyncFileReadThread
  threadObj,    \* currentObject
  tries

objVars == <<queued, isCurrent, isRead, isProcessed, priority, userArg, callback>>
listVars == <<readList, postList, freeList, allocated>>
sharedVars == <<created, asyncObject, dataLoaded, skinLoaded, modelLoaded>>
waitVars == <<asyncWaitObject, waitStage, waitShared>>
mainVars == <<mainPc, mainObj, mainShared>>
threadVars == <<threadObj, tries>>
vars == <<objVars, listVars, sharedVars, waitVars, mainVars, threadVars>>

\* mainPc: "idle" in the message loop, "queue" about to call AsyncFileReadObject,
\* "wait" about to call AsyncFileReadWait, "poll" about to lock in the poll
\* handler, "callback" about to call back mainObj, "init" the data is destroyed
\* of its object and M2Init comes next, "return" after the callback,
\* "polled" back in AsyncFileReadWait.
MainPcs == {"idle", "queue", "wait", "poll", "callback", "init", "return", "polled"}

TypeOK ==
  /\ readList \in Seq(Objects) /\ postList \in Seq(Objects) /\ freeList \in Seq(Objects)
  /\ allocated \subseteq Objects
  /\ queued \subseteq Objects
  /\ isCurrent \in [Objects -> BOOLEAN]
  /\ isRead \in [Objects -> BOOLEAN]
  /\ isProcessed \in [Objects -> BOOLEAN]
  /\ priority \in [Objects -> {125, 126}]
  /\ userArg \in [Objects -> Shareds \cup {NoShared}]
  /\ callback \in [Objects -> {"none", "model", "skin"}]
  /\ created \subseteq Shareds
  /\ asyncObject \in [Shareds -> Objects \cup {NoObject}]
  /\ dataLoaded \in [Shareds -> BOOLEAN]
  /\ skinLoaded \in [Shareds -> BOOLEAN]
  /\ modelLoaded \in [Shareds -> BOOLEAN]
  /\ asyncWaitObject \in Objects \cup {NoObject}
  /\ waitStage \in 0..2
  /\ waitShared \in Shareds \cup {NoShared}
  /\ mainPc \in MainPcs
  /\ mainObj \in Objects \cup {NoObject}
  /\ mainShared \in Shareds \cup {NoShared}
  /\ threadObj \in Objects \cup {NoObject}
  /\ tries \in 0..ReadTries

Init ==
  /\ readList = <<>> /\ postList = <<>> /\ freeList = <<>>
  /\ allocated = {} /\ queued = {}
  /\ isCurrent = [o \in Objects |-> FALSE]
  /\ isRead = [o \in Objects |-> FALSE]
  /\ isProcessed = [o \in Objects |-> FALSE]
  /\ priority = [o \in Objects |-> 126]
  /\ userArg = [o \in Objects |-> NoShared]
  /\ callback = [o \in Objects |-> "none"]
  /\ created = {}
  /\ asyncObject = [s \in Shareds |-> NoObject]
  /\ dataLoaded = [s \in Shareds |-> FALSE]
  /\ skinLoaded = [s \in Shareds |-> FALSE]
  /\ modelLoaded = [s \in Shareds |-> FALSE]
  /\ asyncWaitObject = NoObject
  /\ waitStage = 0 /\ waitShared = NoShared
  /\ mainPc = "idle" /\ mainObj = NoObject /\ mainShared = NoShared
  /\ threadObj = NoObject /\ tries = 0

\* link.Unlink: an object has one link, and one that is on no list stays so.
Unlink(list, o) == RemoveFirst(list, o)

-----------------------------------------------------------------------------
(* Queueing a read.                                                        *)

\* The object AsyncFileReadAllocObject returns: the head of the free list, or
\* a new one.
Allocatable ==
  IF freeList # <<>> THEN {Head(freeList)} ELSE Objects \ allocated

\* Wrong variant: the object stays on the free list.
AllocLinked(s, kind) ==
  \E o \in Allocatable :
    /\ allocated' = allocated \cup {o}
    /\ queued' = queued \ {o}
    /\ isProcessed' = [isProcessed EXCEPT ![o] = FALSE]
    /\ isRead' = [isRead EXCEPT ![o] = FALSE]
    /\ isCurrent' = [isCurrent EXCEPT ![o] = FALSE]
    /\ priority' = [priority EXCEPT ![o] = IF kind = "skin" THEN 125 ELSE 126]
    /\ userArg' = [userArg EXCEPT ![o] = s]
    /\ callback' = [callback EXCEPT ![o] = kind]
    /\ asyncObject' = [asyncObject EXCEPT ![s] = o]
    /\ UNCHANGED <<readList, postList, freeList>>

\* AsyncFileReadAllocObject by shared s, which then fills in the object for a
\* read of the given kind and remembers it as its asyncObject.
AllocObject(s, kind) ==
  \E o \in Allocatable :
    /\ freeList' = IF freeList # <<>> THEN Tail(freeList) ELSE freeList
    /\ allocated' = allocated \cup {o}
    /\ queued' = queued \ {o}
    /\ isProcessed' = [isProcessed EXCEPT ![o] = FALSE]
    /\ isRead' = [isRead EXCEPT ![o] = FALSE]
    /\ isCurrent' = [isCurrent EXCEPT ![o] = FALSE]
    /\ priority' = [priority EXCEPT ![o] = IF kind = "skin" THEN 125 ELSE 126]
    /\ userArg' = [userArg EXCEPT ![o] = s]
    /\ callback' = [callback EXCEPT ![o] = kind]
    /\ asyncObject' = [asyncObject EXCEPT ![s] = o]
    /\ UNCHANGED <<readList, postList>>

\* AsyncFileReadLinkObject: before the first object it may overtake.  A skin is
\* linked with a2 = 1, which lets it overtake its equals too.
Overtakes(o, other) ==
  \/ priority[o] < priority[other]
  \/ priority[o] = priority[other] /\ callback[o] = "skin"

LinkObject(list, o) ==
  LET overtaken == {i \in 1..Len(list) : Overtakes(o, list[i])}
  IN  IF overtaken = {} THEN Append(list, o) ELSE InsertAt(list, Min(overtaken), o)

\* AsyncFileReadObject.  An object somebody waits for is not linked: it would
\* be at the head already.
ReadObject(o) ==
  /\ queued' = queued \cup {o}
  /\ readList' = IF asyncWaitObject = o THEN readList ELSE LinkObject(readList, o)
  /\ UNCHANGED <<postList, freeList, allocated, isCurrent, isRead, isProcessed,
                 priority, userArg, callback>>

\* CM2Scene::CreateModel, as far as CM2Shared::Load's object.
CreateModel(s) ==
  /\ mainPc = "idle" /\ s \notin created
  /\ AllocObject(s, "model")
  /\ created' = created \cup {s}
  /\ mainPc' = "queue" /\ mainShared' = s
  /\ UNCHANGED <<dataLoaded, skinLoaded, modelLoaded, waitVars, mainObj, threadVars>>

\* Wrong variant: LoadSucceededCallback returns without m_m2DataLoaded set.
QueueWithoutLoaded ==
  /\ mainPc = "queue"
  /\ LET o == asyncObject[mainShared]
     IN  /\ ReadObject(o)
         /\ mainPc' = IF callback[o] = "skin" THEN "return" ELSE "idle"
  /\ mainShared' = NoShared
  /\ UNCHANGED <<created, asyncObject, dataLoaded, skinLoaded, modelLoaded, waitVars, mainObj,
                 threadVars>>

\* The end of Load, or of LoadSkinProfile and then of LoadSucceededCallback.
QueueRead ==
  /\ mainPc = "queue"
  /\ LET o == asyncObject[mainShared]
     IN  /\ ReadObject(o)
         /\ dataLoaded' = [dataLoaded EXCEPT ![mainShared] = (callback[o] = "skin")]
         /\ mainPc' = IF callback[o] = "skin" THEN "return" ELSE "idle"
  /\ mainShared' = NoShared
  /\ UNCHANGED <<created, asyncObject, skinLoaded, modelLoaded, waitVars, mainObj, threadVars>>

-----------------------------------------------------------------------------
(* The poll handler and the callbacks.                                     *)

\* The message loop dispatches EVENT_ID_POLL.
StartPoll ==
  /\ mainPc = "idle"
  /\ mainPc' = "poll"
  /\ UNCHANGED <<objVars, listVars, sharedVars, waitVars, mainObj, mainShared, threadVars>>

\* Where AsyncFileReadPollHandler returns to.
AfterPoll == IF waitStage = 0 THEN "idle" ELSE "polled"

\* Wrong variant: s_asyncWaitObject is left for AsyncFileReadWait to clear.
TakeStillAwaited ==
  /\ mainPc = "poll" /\ postList # <<>>
  /\ mainObj' = Head(postList)
  /\ postList' = Tail(postList)
  /\ isProcessed' = [isProcessed EXCEPT ![Head(postList)] = TRUE]
  /\ mainPc' = "callback"
  /\ UNCHANGED <<queued, isCurrent, isRead, priority, userArg, callback, readList, freeList,
                 allocated, sharedVars, waitVars, mainShared, threadVars>>

TakePosted ==
  /\ mainPc = "poll" /\ postList # <<>>
  /\ mainObj' = Head(postList)
  /\ postList' = Tail(postList)
  /\ asyncWaitObject' = IF asyncWaitObject = Head(postList) THEN NoObject ELSE asyncWaitObject
  /\ isProcessed' = [isProcessed EXCEPT ![Head(postList)] = TRUE]
  /\ mainPc' = "callback"
  /\ UNCHANGED <<queued, isCurrent, isRead, priority, userArg, callback, readList, freeList,
                 allocated, sharedVars, waitStage, waitShared, mainShared, threadVars>>

PollEmpty ==
  /\ mainPc = "poll" /\ postList = <<>>
  /\ mainPc' = AfterPoll
  /\ UNCHANGED <<objVars, listVars, sharedVars, waitVars, mainObj, mainShared, threadVars>>

\* AsyncFileReadDestroyObject: waits while the disk thread has the object.
DestroyObject(o) ==
  /\ ~isCurrent[o]
  /\ freeList' = <<o>> \o freeList
  /\ readList' = Unlink(readList, o)
  /\ postList' = Unlink(postList, o)
  /\ UNCHANGED <<allocated, queued, isCurrent, isRead, isProcessed, priority, userArg, callback>>

\* LoadSucceededCallback gives its object back first.
ModelRead ==
  /\ mainPc = "callback" /\ callback[mainObj] = "model"
  /\ LET s == userArg[mainObj]
     IN  /\ DestroyObject(asyncObject[s])
         /\ asyncObject' = [asyncObject EXCEPT ![s] = NoObject]
         /\ mainShared' = s
  /\ mainPc' = "init"
  /\ UNCHANGED <<created, dataLoaded, skinLoaded, modelLoaded, waitVars, mainObj, threadVars>>

\* M2Init rejects the data, or the skin profile cannot be opened.
ModelRejected ==
  /\ mainPc = "init"
  /\ mainPc' = "return" /\ mainShared' = NoShared
  /\ UNCHANGED <<objVars, listVars, sharedVars, waitVars, mainObj, threadVars>>

\* M2Init, and LoadSkinProfile as far as its object.
ModelAccepted ==
  /\ mainPc = "init"
  /\ AllocObject(mainShared, "skin")
  /\ mainPc' = "queue"
  /\ UNCHANGED <<created, dataLoaded, skinLoaded, modelLoaded, waitVars, mainObj, mainShared,
                 threadVars>>

\* FinishLoadingSkinProfile; if the profile is usable, the model on the callback
\* list is initialised.
FinishLoadingSkinProfile(s, ok) ==
  /\ skinLoaded' = [skinLoaded EXCEPT ![s] = @ \/ ok]
  /\ modelLoaded' = [modelLoaded EXCEPT ![s] = @ \/ (ok /\ dataLoaded[s])]

SkinRead ==
  /\ mainPc = "callback" /\ callback[mainObj] = "skin"
  /\ LET s == userArg[mainObj]
     IN  /\ \E ok \in BOOLEAN : FinishLoadingSkinProfile(s, ok)
         /\ DestroyObject(asyncObject[s])
         /\ asyncObject' = [asyncObject EXCEPT ![s] = NoObject]
  /\ mainPc' = "return"
  /\ UNCHANGED <<created, dataLoaded, waitVars, mainObj, mainShared, threadVars>>

\* After a callback: another one, unless s_handlerTimeout has passed.
CallbackReturns ==
  /\ mainPc = "return"
  /\ mainPc' \in {"poll", AfterPoll}
  /\ mainObj' = NoObject
  /\ UNCHANGED <<objVars, listVars, sharedVars, waitVars, mainShared, threadVars>>

-----------------------------------------------------------------------------
(* CM2Model::WaitForLoad: waits for the object of its CM2Shared, twice,    *)
(* since the first object may lead to a second.                            *)

WaitForLoad(s) ==
  /\ mainPc = "idle" /\ asyncObject[s] # NoObject
  /\ mainPc' = "wait" /\ waitStage' = 1 /\ waitShared' = s
  /\ UNCHANGED <<objVars, listVars, sharedVars, asyncWaitObject, mainObj, mainShared, threadVars>>

\* Wrong variant: an object already read is moved too.
MoveAnyToHead(o) ==
  IF ~isCurrent[o]
  THEN readList' = <<o>> \o Unlink(readList, o) /\ postList' = Unlink(postList, o)
  ELSE UNCHANGED <<readList, postList>>

\* AsyncFileReadWait moves an object that is still to be read to the head.
MoveToHead(o) ==
  IF ~isCurrent[o] /\ ~isRead[o]
  THEN readList' = <<o>> \o Unlink(readList, o) /\ postList' = Unlink(postList, o)
  ELSE UNCHANGED <<readList, postList>>

\* AsyncFileReadWait, up to its loop; an object already called back is not
\* waited for.
BeginWait ==
  /\ mainPc = "wait"
  /\ LET o == asyncObject[waitShared]
     IN  IF isProcessed[o]
         THEN /\ mainPc' = "polled" /\ UNCHANGED <<asyncWaitObject, readList, postList>>
         ELSE /\ mainPc' = "poll" /\ asyncWaitObject' = o /\ MoveToHead(o)
  /\ UNCHANGED <<objVars, freeList, allocated, sharedVars, waitStage, waitShared, mainObj,
                 mainShared, threadVars>>

\* The awaited object has not been called back: sleep, poll again.
PollAgain ==
  /\ mainPc = "polled" /\ asyncWaitObject # NoObject
  /\ mainPc' = "poll"
  /\ UNCHANGED <<objVars, listVars, sharedVars, waitVars, mainObj, mainShared, threadVars>>

\* Wrong variant: one wait only.
WaitReturnsOnce ==
  /\ mainPc = "polled" /\ asyncWaitObject = NoObject
  /\ mainPc' = "idle" /\ waitStage' = 0 /\ waitShared' = NoShared
  /\ UNCHANGED <<objVars, listVars, sharedVars, asyncWaitObject, mainObj, mainShared, threadVars>>

\* It has: wait for the next object, if there is one and this was the first.
WaitReturns ==
  /\ mainPc = "polled" /\ asyncWaitObject = NoObject
  /\ IF waitStage = 1 /\ asyncObject[waitShared] # NoObject
     THEN mainPc' = "wait" /\ waitStage' = 2 /\ UNCHANGED waitShared
     ELSE mainPc' = "idle" /\ waitStage' = 0 /\ waitShared' = NoShared
  /\ UNCHANGED <<objVars, listVars, sharedVars, asyncWaitObject, mainObj, mainShared, threadVars>>

-----------------------------------------------------------------------------
(* AsyncFileReadThread.                                                    *)

TakeObject ==
  /\ threadObj = NoObject /\ readList # <<>>
  /\ LET o == Head(readList)
     IN  /\ threadObj' = o
         /\ queued' = queued \ {o}
         /\ isCurrent' = [isCurrent EXCEPT ![o] = TRUE]
  /\ readList' = Tail(readList)
  /\ tries' = ReadTries
  /\ UNCHANGED <<isRead, isProcessed, priority, userArg, callback, postList, freeList,
                 allocated, sharedVars, waitVars, mainVars>>

\* SFile::Read fails and is tried again.
ReadFails ==
  /\ threadObj # NoObject /\ tries > 1
  /\ tries' = tries - 1
  /\ UNCHANGED <<objVars, listVars, sharedVars, waitVars, mainVars, threadObj>>

\* It succeeds, or fails for the last time: the object is posted either way.
PostObject ==
  /\ threadObj # NoObject
  /\ postList' = Append(postList, threadObj)
  /\ isCurrent' = [isCurrent EXCEPT ![threadObj] = FALSE]
  /\ isRead' = [isRead EXCEPT ![threadObj] = TRUE]
  /\ threadObj' = NoObject /\ tries' = 0
  /\ UNCHANGED <<queued, isProcessed, priority, userArg, callback, readList, freeList,
                 allocated, sharedVars, waitVars, mainVars>>

-----------------------------------------------------------------------------
Finish == \/ QueueRead \/ TakePosted \/ PollEmpty \/ ModelRead \/ ModelRejected
          \/ ModelAccepted \/ SkinRead \/ CallbackReturns
          \/ BeginWait \/ PollAgain \/ WaitReturns

Main == \/ \E s \in Shareds : CreateModel(s) \/ WaitForLoad(s)
        \/ StartPoll
        \/ Finish

Thread == TakeObject \/ ReadFails \/ PostObject

Next == Main \/ Thread

(* The disk thread runs whenever there is something to read, and a read    *)
(* that fails is given up after ReadTries; the main thread goes on with    *)
(* what it is in, and its message loop polls again and again.              *)
Fairness == WF_vars(Thread) /\ WF_vars(Finish) /\ WF_vars(StartPoll)

Spec == Init /\ [][Next]_vars /\ Fairness

-----------------------------------------------------------------------------
(* Properties.                                                             *)

\* An object is in one place at a time - on one of the three lists, with the
\* disk thread, or with the main thread - and its flags say which: the disk
\* thread and AsyncFileReadWait decide by the flags alone.
Held(o) == \/ mainPc = "queue" /\ o = asyncObject[mainShared]
           \/ mainPc = "callback" /\ o = mainObj

Places(o) == <<o \in ToSet(readList), o \in ToSet(postList), o \in ToSet(freeList),
               o = threadObj, Held(o)>>

Repeats(list) == Cardinality(ToSet(list)) # Len(list)

OnePlace ==
  /\ ~Repeats(readList) /\ ~Repeats(postList) /\ ~Repeats(freeList)
  /\ \A o \in allocated : Cardinality({i \in 1..5 : Places(o)[i]}) = 1
  /\ \A o \in allocated :
       /\ o \in ToSet(readList) <=> o \in queued
       /\ isCurrent[o] <=> o = threadObj
       /\ o \in ToSet(postList) <=> o \notin ToSet(freeList) /\ isRead[o] /\ ~isProcessed[o]

\* While the disk thread reads into an object's buffer nobody frees the object
\* or fills it in for another file.
BufferIsStable ==
  [][\A o \in Objects : isCurrent[o] => UNCHANGED <<userArg[o], callback[o]>>
                                        /\ o \notin ToSet(freeList')]_vars

\* What is to be read is sorted by priority, the awaited object aside, which
\* AsyncFileReadWait moved to the head.
ReadListSorted ==
  LET rest == Unlink(readList, asyncWaitObject)
  IN  \A i, j \in 1..Len(rest) : i < j => priority[rest[i]] <= priority[rest[j]]

\* The fields have their types, the lists and flags put every object in one place, and
\* what is to be read is in order.
WellFormed == TypeOK /\ OnePlace /\ ReadListSorted

\* A model whose skin profile is loaded has its data loaded, and its CM2Model
\* is initialised then and there.
SkinAfterData == \A s \in Shareds : skinLoaded[s] => dataLoaded[s] /\ modelLoaded[s]

\* AsyncFile implements ModelLoading: a caller of WaitForLoad gets control back
\* when both reads have been called back, and not before.
StageOf(s) ==
  IF s \notin created THEN "absent"
  ELSE IF skinLoaded[s] THEN "loaded"
  ELSE IF asyncObject[s] # NoObject
       THEN IF callback[asyncObject[s]] = "skin" THEN "readingSkin" ELSE "reading"
  ELSE IF mainPc = "init" /\ mainShared = s THEN "reading"
  ELSE "failed"

Abstract == INSTANCE ModelLoading WITH stage <- [s \in Shareds |-> StageOf(s)],
                                       waitedFor <- waitShared

ImplementsLoading == Abstract!Spec

\* Every file asked for is called back in the end, and every wait ends.
ReadsComplete ==
  /\ \A s \in Shareds : asyncObject[s] # NoObject ~> asyncObject[s] = NoObject
  /\ waitStage # 0 ~> waitStage = 0
=============================================================================
