----------------------------- MODULE EventLoop -----------------------------
(***************************************************************************)
(* The loop that drives the client: one thread takes the context when its  *)
(* time to wake has come and gives its handlers the events of one pass -   *)
(* INITIALIZE once, the input, POLL, IDLE and PAINT - until the context is *)
(* closed, which ends the process.                                         *)
(*                                                                         *)
(* The client has one thread and one context (EventInitialize(1, 0),       *)
(* EventCreateContextEx in Client.cpp), so the choice of a thread or a     *)
(* context and the weights are left out.  Timers, messages, shutdown and   *)
(* DetachContextFromThread are TODO in the code.  Times are clock readings *)
(* in milliseconds, modulo Wrap (2^32).                                    *)
(***************************************************************************)
EXTENDS Integers, Sequences, SequencesExt, FiniteSets

CONSTANTS Engine,       \* what InitializeEngineCallback registers, in order
          Later,        \* what handlers may register afterwards
          Consuming,    \* the handlers that may return 0
          IdleTime,     \* of the context (1)
          Wrap,         \* values of the clock
          MaxInput,     \* bound on the input events of one pass
          MaxLate       \* bound on the milliseconds a wait or a pass takes too long

VARIABLES clock,        \* OsGetAsyncTimeMs
          pc,           \* where the pass is
          signalled,    \* m_wakeEvent
          schedState, initialized, paint,       \* m_schedState and two bits of m_schedFlags
          lastIdle, wakeTime, currTime,         \* m_schedLastIdle, m_schedNextWakeTime
          taken,        \* the input events this pass has taken from the ring
          shutdown,     \* one of them asked to close the window
          handlers,     \* m_queueHandlerList of each event
          dispatch      \* the dispatch that is going on

vars == <<clock, pc, signalled, schedState, initialized, paint, lastIdle, wakeTime, currTime,
          taken, shutdown, handlers, dispatch>>
inputVars == <<taken, shutdown>>

IDs == {"INITIALIZE", "KEYDOWN", "POLL", "IDLE", "PAINT"}
Phases == <<"initialize", "input", "poll", "idle", "paint">>
EventOf(phase) == CASE phase = "initialize" -> "INITIALIZE" [] phase = "input" -> "KEYDOWN"
                    [] phase = "poll" -> "POLL" [] phase = "idle" -> "IDLE" [] OTHER -> "PAINT"
After(phase) ==
  LET i == CHOOSE i \in 1 .. 5 : Phases[i] = phase
  IN  IF i = 5 THEN "put" ELSE Phases[i + 1]

\* No dispatch: nothing before the marker, nothing called.
NoDispatch == [id |-> "none", mark |-> 0, called |-> <<>>, found |-> {}]

Signed(t) == IF t % Wrap >= Wrap \div 2 THEN (t % Wrap) - Wrap ELSE t % Wrap
Minimum(a, b) == IF a < b THEN a ELSE b
LaterBy(d) == clock' = (clock + d) % Wrap

----------------------------------------------------------------------------
(* Handlers *)

\* Handlers of the same priority are called last registered first.
Place(list, h) ==
  LET lower == {i \in 1 .. Len(list) : list[i].priority <= h.priority}
  IN  IF lower = {} THEN Len(list) + 1 ELSE CHOOSE i \in lower : \A j \in lower : i <= j
AppendOnly(lists, h) == [lists EXCEPT ![h.id] = Append(@, h)]
IEvtQueueRegister(lists, h) == [lists EXCEPT ![h.id] = InsertAt(@, Place(@, h), h)]

\* The marker of the dispatch stays between the handlers it was between; a handler put there
\* comes after it.
Marked(lists, d, h) ==
  IF h.id = d.id /\ Place(lists[h.id], h) <= d.mark THEN [d EXCEPT !.mark = @ + 1] ELSE d

Dispatch(id) ==
  dispatch' = [id |-> id, mark |-> 0, called |-> <<>>, found |-> ToSet(handlers[id])]

\* What the handler does before it returns: nothing, register another, or close the context.
Effects(d) ==
  \/ d.id = "INITIALIZE" /\ handlers' = FoldLeft(IEvtQueueRegister, handlers, Engine)
     /\ dispatch' = d /\ UNCHANGED schedState
  \/ d.id # "INITIALIZE" /\ UNCHANGED <<handlers, schedState>> /\ dispatch' = d
  \/ \E h \in Later :
       /\ d.id # "INITIALIZE"
       /\ h \notin ToSet(handlers[h.id])
       /\ handlers' = IEvtQueueRegister(handlers, h)
       /\ dispatch' = Marked(handlers, d, h)
       /\ UNCHANGED schedState
  \* EventPostCloseEx(0)
  \/ d.id # "INITIALIZE" /\ schedState' = "closed" /\ UNCHANGED handlers /\ dispatch' = d

CallHandler ==
  LET d == dispatch
      h == handlers[d.id][d.mark + 1]
  IN
  /\ d.id # "none" /\ d.mark < Len(handlers[d.id])
  /\ Effects([d EXCEPT !.mark = @ + 1, !.called = Append(@, h)])
  /\ UNCHANGED <<clock, pc, signalled, initialized, paint, lastIdle, wakeTime, currTime, inputVars>>

\* The list is at its end, or the last handler called returned 0.
DispatchEnds ==
  LET d == dispatch IN
  /\ d.id # "none"
  /\ \/ d.mark = Len(handlers[d.id])
     \/ d.called # <<>> /\ Last(d.called).name \in Consuming
  /\ dispatch' = NoDispatch
  /\ pc' = IF pc = "input" THEN pc ELSE After(pc)
  /\ UNCHANGED <<clock, signalled, schedState, initialized, paint, lastIdle, wakeTime, currTime,
                 inputVars, handlers>>

----------------------------------------------------------------------------
(* One pass of SchedulerThreadProcProcess *)

\* GetNextContext and the wait for its time, which m_wakeEvent cuts short.
WaitSignalled ==
  /\ pc = "take" /\ signalled
  /\ \E d \in 0 .. MaxLate : LaterBy(d) /\ currTime' = (clock + d) % Wrap
  /\ signalled' = FALSE
  /\ pc' = "put"
  /\ UNCHANGED <<schedState, initialized, paint, lastIdle, wakeTime, inputVars, handlers, dispatch>>
Timeout == LET v11 == Signed(wakeTime - clock) IN IF v11 < 0 THEN 0 ELSE v11
WaitTimesOut ==
  /\ pc = "take" /\ ~signalled
  /\ \E d \in 0 .. MaxLate : LaterBy(Timeout + d) /\ currTime' = (clock + Timeout + d) % Wrap
  /\ pc' = "initialize"
  /\ UNCHANGED <<signalled, schedState, initialized, paint, lastIdle, wakeTime, inputVars, handlers,
                 dispatch>>

SynthesizeInitialize ==
  /\ pc = "initialize" /\ dispatch.id = "none"
  /\ lastIdle' = currTime
  /\ initialized' = TRUE
  /\ IF initialized THEN pc' = "input" /\ UNCHANGED dispatch
     ELSE Dispatch("INITIALIZE") /\ UNCHANGED pc
  /\ UNCHANGED <<clock, signalled, schedState, paint, wakeTime, currTime, inputVars, handlers>>

\* IEvtInputProcess takes events until the ring is empty, whatever became of the context: a key
\* is dispatched, OS_INPUT_CLOSE asks for the shutdown (PostClose, to be written, does nothing).
InputProcess ==
  /\ pc = "input" /\ dispatch.id = "none" /\ taken < MaxInput
  /\ taken' = taken + 1
  /\ \/ Dispatch("KEYDOWN") /\ UNCHANGED shutdown
     \/ shutdown' = TRUE /\ UNCHANGED dispatch
  /\ UNCHANGED <<clock, pc, signalled, schedState, initialized, paint, lastIdle, wakeTime, currTime,
                 handlers>>

\* Only now the window that was closed closes the context.
InputEnds ==
  /\ pc = "input" /\ dispatch.id = "none"
  /\ schedState' = IF shutdown THEN "closed" ELSE schedState
  /\ taken' = 0
  /\ pc' = "poll"
  /\ UNCHANGED <<clock, signalled, initialized, paint, lastIdle, wakeTime, currTime, shutdown, handlers,
                 dispatch>>

\* SynthesizePoll, SynthesizeIdle and SynthesizePaint; IDLE asks for PAINT.
Synthesize(phase) ==
  /\ pc = phase /\ dispatch.id = "none"
  /\ IF schedState = "closed" \/ (phase = "paint" /\ ~paint)
     THEN pc' = After(phase) /\ UNCHANGED <<dispatch, paint>>
     ELSE /\ paint' = (IF phase = "idle" THEN TRUE ELSE IF phase = "paint" THEN FALSE ELSE paint)
          /\ Dispatch(EventOf(phase))
          /\ UNCHANGED pc
  /\ UNCHANGED <<clock, signalled, schedState, initialized, lastIdle, wakeTime, currTime, inputVars,
                 handlers>>

\* A closed context ends the process; else it is put back.  IEvtTimerGetNextTime is 2^32 - 1.
NextDelay == IF paint THEN 0 ELSE Minimum(Wrap - 1, (IdleTime + lastIdle - currTime) % Wrap)
PutContext ==
  /\ pc = "put"
  /\ \E d \in 0 .. MaxLate : LaterBy(d)
  /\ IF schedState = "closed" THEN pc' = "exited" /\ UNCHANGED wakeTime
     ELSE pc' = "take" /\ wakeTime' = (NextDelay + currTime) % Wrap
  /\ UNCHANGED <<signalled, schedState, initialized, paint, lastIdle, currTime, inputVars, handlers,
                 dispatch>>

Exited == pc = "exited" /\ UNCHANGED vars

----------------------------------------------------------------------------
\* The context as AttachContextToThread leaves it.
Init ==
  /\ clock = 0 /\ currTime = 0 /\ lastIdle = 0 /\ wakeTime = 0
  /\ pc = "take" /\ signalled = TRUE
  /\ schedState = "active" /\ initialized = FALSE /\ paint = FALSE
  /\ taken = 0 /\ shutdown = FALSE
  /\ handlers = [id \in IDs |-> IF id = "INITIALIZE"
                                THEN <<[id |-> id, name |-> "engine", priority |-> 1000]>> ELSE <<>>]
  /\ dispatch = NoDispatch

Next ==
  \/ WaitSignalled \/ WaitTimesOut \/ SynthesizeInitialize \/ InputProcess \/ InputEnds
  \/ \E phase \in {"poll", "idle", "paint"} : Synthesize(phase)
  \/ CallHandler \/ DispatchEnds \/ PutContext \/ Exited
Spec == Init /\ [][Next]_vars /\ WF_vars(Next)

----------------------------------------------------------------------------
\* A dispatch calls each handler at most once, the more urgent ones first, and when it ends
\* without one that consumed the event it has called all that were there when it began,
\* whatever was registered while it ran.
DispatchIsFair ==
  LET d == dispatch IN d.id # "none" =>
    /\ IsInjective(d.called)
    /\ \A i, j \in 1 .. Len(d.called) : i < j => d.called[i].priority >= d.called[j].priority
    /\ d.mark = Len(handlers[d.id]) => d.found \subseteq ToSet(d.called)

\* The thread never sleeps past the idle time that began with the last pass.
SleepIsShort == pc = "take" => Timeout <= IdleTime

\* Once a handler has closed the context, or the window was closed, only what is left of the
\* input is dispatched, in this pass, which is the last: no POLL, IDLE or PAINT of a client that
\* is on its way out, and no next pass.
Closing == schedState = "closed" \/ shutdown
ClosedIsQuiet ==
  [][Closing => /\ dispatch'.id \in {dispatch.id, "none", "KEYDOWN"}
                /\ pc' # "take"]_vars

\* The client goes on painting until it is closed, and then ends.
KeepsPainting == []<>(dispatch.id = "PAINT") \/ <>(pc = "exited")
=============================================================================
