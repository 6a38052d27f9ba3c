------------------------------ MODULE GLWorker ------------------------------
(***************************************************************************)
(* GLWorker of src/gx/gll: a second thread with an OpenGL context of its   *)
(* own, which executes what the main thread sends.  Before it draws the    *)
(* main thread waits: it adds a GLFlush and a null command, and the worker *)
(* signals m_Cond2 when it comes to that.                                  *)
(*                                                                         *)
(* Commands are numbered in the order they are sent, round and round.      *)
(* m_Mutex2 is locked by the worker only, and m_UnkA0 (stop) is set        *)
(* nowhere: both are left out.  pthread_cond_wait may return without a     *)
(* signal.  The worker then looks at the list again; the main thread, which*)
(* waits for m_Cond2 once and without a look at what the wait is for, goes *)
(* on, and its null command is still to come.                              *)
(***************************************************************************)
EXTENDS Integers, Sequences, Sublists

CONSTANT MaxSent  \* bound: commands that wait; there are as many numbers

ASSUME WorkerAssumption == MaxSent \in Nat \ {0}

VARIABLES
  commands,   \* m_Commands
  settled,    \* m_UnkA1
  mutex,      \* who has m_Mutex1
  mainPc,     \* idle, sending, asking, waiting, woken
  workerPc,   \* top, look, waiting, execute
  current,    \* the command being executed, if any
  sent        \* the last command sent

workerVars == <<commands, settled, mutex, mainPc, workerPc, current, sent>>

Flush == -1
Null == 0
NextNumber(n) == (n % MaxSent) + 1

WorkerInit ==
  /\ commands = <<>> /\ settled = FALSE
  /\ mutex = "free" /\ mainPc = "idle" /\ workerPc = "top"
  /\ current = <<>> /\ sent = 0

-----------------------------------------------------------------------------
(* The main thread                                                         *)

\* pthread_mutex_lock, to send a command or to wait.
Lock(to) ==
  /\ mainPc = "idle" /\ mutex = "free"
  /\ to = "sending" => Len(commands) + Len(current) < MaxSent
  /\ to = "asking" => ~settled
  /\ mainPc' = to /\ mutex' = "main"
  /\ UNCHANGED <<commands, settled, workerPc, current, sent>>

\* pthread_cond_signal of m_Cond1.
SignalWorker == workerPc' = IF workerPc = "waiting" THEN "top" ELSE workerPc

\* Wrong variant: m_UnkA1 stays.
SendSettled ==
  /\ mainPc = "sending"
  /\ sent' = NextNumber(sent)
  /\ commands' = Append(commands, sent')
  /\ SignalWorker
  /\ mainPc' = "idle" /\ mutex' = "free"
  /\ UNCHANGED <<settled, current>>

\* Send, Signal and Unlock: GLMipmap::Unmap and GLTexture::FreeTexture.
Send ==
  /\ mainPc = "sending"
  /\ sent' = NextNumber(sent)
  /\ commands' = Append(commands, sent') /\ settled' = FALSE
  /\ SignalWorker
  /\ mainPc' = "idle" /\ mutex' = "free"
  /\ UNCHANGED current

\* Wrong variant: the wait is put in front of what was sent.
WaitInFront ==
  /\ mainPc = "asking"
  /\ commands' = <<Flush, Null>> \o commands
  /\ SignalWorker
  /\ mainPc' = "waiting" /\ mutex' = "free"
  /\ UNCHANGED <<settled, current, sent>>

\* WaitOnGLObjects, with begin() as the place to insert: at the end.
WaitOnGLObjects ==
  /\ mainPc = "asking"
  /\ commands' = commands \o <<Flush, Null>>
  /\ SignalWorker
  /\ mainPc' = "waiting" /\ mutex' = "free"
  /\ UNCHANGED <<settled, current, sent>>

\* pthread_cond_wait returns without a signal.
WakesUnsignalled ==
  /\ mainPc = "waiting" /\ mainPc' = "woken"
  /\ UNCHANGED <<commands, settled, mutex, workerPc, current, sent>>
WorkerWakesUnsignalled ==
  /\ workerPc = "waiting" /\ workerPc' = "top"
  /\ UNCHANGED <<commands, settled, mutex, mainPc, current, sent>>

\* It wakes with m_Mutex1.
WaitEnds ==
  /\ mainPc = "woken" /\ mutex = "free"
  /\ settled' = TRUE
  /\ mainPc' = "idle"
  /\ UNCHANGED <<commands, mutex, workerPc, current, sent>>

-----------------------------------------------------------------------------
(* The worker                                                              *)

WorkerLock ==
  /\ workerPc = "top" /\ mutex = "free"
  /\ workerPc' = "look" /\ mutex' = "worker"
  /\ UNCHANGED <<commands, settled, mainPc, current, sent>>

\* pthread_cond_wait gives m_Mutex1 up.
WorkerWaits ==
  /\ workerPc = "look" /\ commands = <<>>
  /\ workerPc' = "waiting" /\ mutex' = "free"
  /\ UNCHANGED <<commands, settled, mainPc, current, sent>>

\* Wrong variant: the command stays.
WorkerLooks ==
  /\ workerPc = "look" /\ commands # <<>>
  /\ current' = <<Head(commands)>>
  /\ workerPc' = "execute" /\ mutex' = "free"
  /\ UNCHANGED <<commands, settled, mainPc, sent>>

WorkerTakes ==
  /\ workerPc = "look" /\ commands # <<>>
  /\ current' = <<Head(commands)>> /\ commands' = Tail(commands)
  /\ workerPc' = "execute" /\ mutex' = "free"
  /\ UNCHANGED <<settled, mainPc, sent>>

WorkerExecutes ==
  /\ workerPc = "execute"
  /\ mainPc' = IF current = <<Null>> /\ mainPc = "waiting" THEN "woken" ELSE mainPc
  /\ workerPc' = "top" /\ current' = <<>>
  /\ UNCHANGED <<commands, settled, mutex, sent>>

Main == Lock("sending") \/ Lock("asking") \/ Send \/ WaitOnGLObjects \/ WaitEnds
Worker == WorkerLock \/ WorkerWaits \/ WorkerTakes \/ WorkerExecutes
Unsignalled == WakesUnsignalled \/ WorkerWakesUnsignalled
WorkerNext == Main \/ Worker \/ Unsignalled

\* Both threads go on; the main thread need not draw or send.  It gets m_Mutex1 in the
\* end, although the worker takes it again whenever it wakes.
MainGoesOn == Send \/ WaitOnGLObjects \/ WaitEnds
WorkerFairness == WF_workerVars(Worker) /\ SF_workerVars(MainGoesOn)
WorkerSpec == WorkerInit /\ [][WorkerNext]_workerVars /\ WorkerFairness

-----------------------------------------------------------------------------
\* What is in the list and being executed, and of that what was sent.
Work == current \o commands
Left == Without(Work, {Flush, Null})

\* The null command of a wait that is over is still to come: while the main thread waits
\* the last one is its own.
Overdue == \E i \in 1..Len(Work) : Work[i] = Null /\ (i < Len(Work) \/ mainPc # "waiting")

(* To drawing code the worker is the queue of CommandQueue, which executes *)
(* one command after the other in the order they were sent; a wait returns *)
(* when it is empty, or when pthread_cond_wait returned unsignalled in this*)
(* wait or in one whose null command is not yet executed, and never else:  *)
(* once that is executed, waits are for the whole queue again.             *)
Queue == INSTANCE CommandQueue WITH
  commands <- Left, waiting <- mainPc \in {"waiting", "woken"}, overdue <- Overdue
ImplementsQueue == Queue!Safe

(* A draw does not wait while m_UnkA1 is set: then all that was sent has   *)
(* been executed, unless a wait that pthread_cond_wait cut short is still  *)
(* to be answered.                                                         *)
SettledIsDone == settled => Left = <<>> \/ Overdue

(* A wait for the worker returns, signalled or not, however often either   *)
(* thread wakes without a signal.                                          *)
WaitReturns == mainPc = "waiting" ~> mainPc = "idle"
=============================================================================
