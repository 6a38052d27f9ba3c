---------------------------- MODULE MCResources ----------------------------
(***************************************************************************)
(* What the client's main loop and its resources are: the files that are   *)
(* read (AsyncFile) on two models and three objects to read them with, and *)
(* the event loop (EventLoop) with the handlers of the engine, the console *)
(* and the interface.                                                      *)
(* A behaviour moves one of them and leaves the others as they start.      *)
(***************************************************************************)
EXTENDS AsyncFile

CONSTANTS s1, s2, o1, o2, o3

VARIABLES part,  \* "files" or "loop"
          clock, pc, signalled, schedState, initialized, paint, lastIdle, wakeTime, currTime,
          taken, shutdown, handlers, dispatch

Handler(id, name, urgency) == [id |-> id, name |-> name, priority |-> urgency]

\* What the engine registers: the file reads, the screen, the console above the interface.
Engine == <<Handler("POLL", "async", 0), Handler("IDLE", "screen", 0),
            Handler("PAINT", "screen", 0), Handler("KEYDOWN", "console", 7),
            Handler("IDLE", "console", 7), Handler("KEYDOWN", "top", 1),
            Handler("IDLE", "glue", 0), Handler("POLL", "net", 0)>>
Later == {Handler("IDLE", "late", 1), Handler("KEYDOWN", "late", 7)}
Consuming == {"console"}
IdleTime == 1
Wrap == 16
MaxLate == 2
MaxInput == 3

Loop == INSTANCE EventLoop
loopVars == <<clock, pc, signalled, schedState, initialized, paint, lastIdle, wakeTime, currTime,
              taken, shutdown, handlers, dispatch>>

MCInit == part \in {"files", "loop"} /\ Init /\ Loop!Init

FilesPart(A) == part = "files" /\ A /\ UNCHANGED <<part, loopVars>>
LoopPart(A) == part = "loop" /\ A /\ UNCHANGED <<part, vars>>
MCNext == FilesPart(Next) \/ LoopPart(Loop!Next)

\* The fairness of each part.
MCFairness ==
  /\ WF_vars(FilesPart(Thread)) /\ WF_vars(FilesPart(Finish)) /\ WF_vars(FilesPart(StartPoll))
  /\ WF_loopVars(LoopPart(Loop!Next))
MCSpec == MCInit /\ [][MCNext]_<<part, vars, loopVars>> /\ MCFairness

\* The properties of EventLoop, stated there.
LoopIsSound ==
  /\ [](Loop!DispatchIsFair /\ Loop!SleepIsShort)
  /\ Loop!ClosedIsQuiet
  /\ part = "loop" => Loop!KeepsPainting
=============================================================================
