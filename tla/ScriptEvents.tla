---------------------------- MODULE ScriptEvents ----------------------------
(***************************************************************************)
(* An event of the user interface, the objects that listen to it, and the  *)
(* scripts run for them: FrameScript_SignalEvent walks the listeners,      *)
(* FrameScript_Execute saves the global variables it sets on the Lua       *)
(* stack, and a script may register, unregister, signal the event again or *)
(* run the script of another object before it returns.                     *)
(*                                                                         *)
(* Values are abstract: an object, the event's name, its first argument.   *)
(* Every object has an OnEvent script.  A script that fails is unwound by  *)
(* lua_pcall to the same state as one that returns.                        *)
(***************************************************************************)
EXTENDS Integers, Sequences, SequencesExt, FiniteSets, Sublists

CONSTANTS Objects, nothing,
          MaxStarted,   \* bound on signals and scripts run for themselves
          MaxCalls,     \* bound on calls that register or unregister
          MaxFrames     \* bound on scripts and signals within each other

VARIABLES listeners, registering, unregistering,  \* the lists of the event
          pending,      \* pendingSignalCount
          frames,       \* the calls that are going on, the outermost first
          stack,        \* the values the running C function has on the Lua stack, the bottom first
          globals,      \* this, event, arg1, arg2
          started, calls,
          asked,        \* the last call of each object: history for the properties
          undone,       \* the objects whose request was dropped by the code
          mixed         \* an event with arguments was run

lists == <<listeners, registering, unregistering, pending, asked, undone>>
scriptVars == <<listeners, registering, unregistering, pending, frames, stack, globals, started, calls,
          asked, undone, mixed>>

Top == Last(frames)
Running == IF frames = <<>> THEN TRUE ELSE Top.kind = "script"
Names == {"this", "event", "arg1", "arg2"}

----------------------------------------------------------------------------
(* Registration *)

\* Entered in the list of what to do after the signal, unless it is there.
Once(list, o) == IF o \in ToSet(list) THEN list ELSE Append(list, o)

\* FrameScript_Object::RegisterScriptEvent
RegisterScriptEvent(o) ==
  /\ Running /\ calls < MaxCalls
  /\ unregistering' = IF pending > 0 THEN Without(unregistering, {o}) ELSE unregistering
  /\ IF o \in ToSet(listeners) THEN UNCHANGED <<listeners, registering>>
     ELSE IF pending > 0 THEN registering' = Once(registering, o) /\ UNCHANGED listeners
     ELSE listeners' = Append(listeners, o) /\ UNCHANGED registering
  /\ asked' = [asked EXCEPT ![o] = "register"] /\ undone' = undone \ {o}
  /\ calls' = calls + 1
  /\ UNCHANGED <<pending, frames, stack, globals, started, mixed>>

\* FrameScript_UnregisterScriptEvent; what is being registered is not withdrawn.
UnregisterScriptEvent(o) ==
  /\ Running /\ calls < MaxCalls
  /\ IF pending > 0 THEN unregistering' = Once(unregistering, o) /\ UNCHANGED listeners
     ELSE listeners' = Without(listeners, {o}) /\ UNCHANGED unregistering
  /\ asked' = [asked EXCEPT ![o] = "unregister"]
  /\ undone' = IF o \in ToSet(registering) THEN undone \cup {o} ELSE undone \ {o}
  /\ calls' = calls + 1
  /\ UNCHANGED <<registering, pending, frames, stack, globals, started, mixed>>

\* A mutant: whatever signal ends, what waits is done.
SettleTooSoon ==
  /\ pending' = pending - 1
  /\ listeners' = Without(listeners, ToSet(unregistering)) \o registering
  /\ unregistering' = <<>> /\ registering' = <<>>
  /\ UNCHANGED <<undone, asked>>

\* What waited for the end of the signal is done, or dropped if an outer one goes on.
Settle ==
  LET rest == pending - 1 IN
  /\ pending' = rest
  /\ listeners' = IF rest > 0 THEN listeners
                  ELSE Without(listeners, ToSet(unregistering)) \o registering
  /\ unregistering' = <<>> /\ registering' = <<>>
  /\ undone' = IF rest > 0 THEN undone \cup ToSet(unregistering) \cup ToSet(registering) ELSE undone
  /\ UNCHANGED asked

----------------------------------------------------------------------------
(* Scripts *)

\* The names FrameScript_Execute saves, in order, and the values it gives them: the first
\* argument has the number of its place among all, the event's name counted.
Saved(argc, event) ==
  (<<"this">> \o IF event THEN <<"event">> ELSE <<>>)
  \o (IF event THEN (IF argc > 1 THEN <<"arg2">> ELSE <<>>)
      ELSE SubSeq(<<"arg1", "arg2">>, 1, argc))
Restored(argc, event) ==
  (IF argc > 1 \/ (argc = 1 /\ ~event) THEN SubSeq(<<"arg1", "arg2">>, 1, argc) ELSE <<>>)
Value(name, o, args, event) ==
  CASE name = "this" -> o
    [] name = "event" -> args[1]
    [] OTHER -> args[IF event THEN 2 ELSE 1]

Execute(o, argc, event, below, outer) ==
  LET args == SubSeq(below, Len(below) - argc + 1, Len(below))
      names == Saved(argc, event)
      saved == below \o [i \in DOMAIN names |-> globals[names[i]]]
  IN  /\ stack' = <<>>
      /\ globals' = [n \in Names |-> IF n \in ToSet(names) THEN Value(n, o, args, event) ELSE globals[n]]
      /\ frames' = Append(outer, [kind |-> "script", object |-> o, argc |-> argc, event |-> event,
                                  pos |-> 0, below |-> saved])
      /\ mixed' = (mixed \/ (event /\ argc > 1))

\* The global variables are given what is on the stack, the last saved first.
BackInScript == Len(frames) > 1 /\ frames[Len(frames) - 1].kind = "script"
Order(f) == Reverse(Restored(f.argc, f.event)) \o (IF f.event THEN <<"event">> ELSE <<>>) \o <<"this">>
Given(f, n, old) ==
  LET at == SelectInSeq(Order(f), LAMBDA m : m = n)
      size == Len(f.below)
  IN  IF at = 0 THEN old ELSE IF at > size THEN nothing ELSE f.below[size - at + 1]
ReturnScript ==
  LET kept == Len(Top.below) - Len(Order(Top)) - Top.argc IN
  /\ frames # <<>> /\ Top.kind = "script"
  /\ globals' = [n \in Names |-> Given(Top, n, globals[n])]
  /\ stack' = IF BackInScript THEN <<>> ELSE SubSeq(Top.below, 1, kept)
  /\ frames' = Front(frames)
  /\ UNCHANGED <<lists, started, calls, mixed>>

\* A script that is not for an event (OnShow): no arguments, or one.
RunScript(o, argc) ==
  /\ Running /\ started < MaxStarted /\ Len(frames) < MaxFrames
  /\ Execute(o, argc, FALSE, stack \o SubSeq(<<"a">>, 1, argc), frames)
  /\ started' = started + 1
  /\ UNCHANGED <<lists, calls>>

----------------------------------------------------------------------------
(* Signals *)

\* The name and the arguments are pushed, and nothing takes them off again; what a C function
\* called by a script leaves on the stack goes when it returns.
SignalEvent(argc) ==
  /\ Running /\ started < MaxStarted /\ Len(frames) < MaxFrames - 1
  /\ stack' = stack \o SubSeq(<<"name", "a">>, 1, argc)
  /\ pending' = pending + 1
  /\ frames' = Append(frames, [kind |-> "signal", object |-> nothing, argc |-> argc, event |-> TRUE,
                               pos |-> 0, below |-> <<>>])
  /\ started' = started + 1
  /\ UNCHANGED <<listeners, registering, unregistering, globals, calls, asked, undone, mixed>>

AtEnd == IF Top.pos = Len(listeners) THEN TRUE
         ELSE listeners[Top.pos + 1] \in ToSet(unregistering)
\* With too little on the stack lua_pushvalue reads what is not there.
Copies == [i \in 1 .. Top.argc |->
  LET at == Len(stack) - Top.argc + i IN IF at < 1 THEN nothing ELSE stack[at]]
CallListener ==
  /\ frames # <<>> /\ Top.kind = "signal" /\ ~AtEnd
  /\ Execute(listeners[Top.pos + 1], Top.argc, TRUE, stack \o Copies,
             [frames EXCEPT ![Len(frames)].pos = @ + 1])
  /\ UNCHANGED <<lists, started, calls>>

SignalEnds ==
  /\ frames # <<>> /\ Top.kind = "signal" /\ AtEnd
  /\ Settle
  /\ frames' = Front(frames)
  /\ stack' = IF BackInScript THEN <<>> ELSE stack
  /\ UNCHANGED <<globals, started, calls, mixed>>

----------------------------------------------------------------------------
ScriptsInit ==
  /\ listeners \in SetToSeqs({}) \cup SetToSeqs(Objects)
  /\ registering = <<>> /\ unregistering = <<>> /\ pending = 0
  /\ frames = <<>> /\ stack = <<>> /\ globals = [n \in Names |-> nothing]
  /\ started = 0 /\ calls = 0
  /\ asked = [o \in Objects |-> IF listeners = <<>> THEN "unregister" ELSE "register"] /\ undone = {} /\ mixed = FALSE
ScriptsNext ==
  \/ \E o \in Objects : RegisterScriptEvent(o) \/ UnregisterScriptEvent(o)
  \/ \E o \in Objects, argc \in 0 .. 1 : RunScript(o, argc)
  \/ \E argc \in 1 .. 2 : SignalEvent(argc)
  \/ CallListener \/ SignalEnds \/ ReturnScript
  \/ frames = <<>> /\ UNCHANGED scriptVars    \* nothing is signalled any more
ScriptsSpec == ScriptsInit /\ [][ScriptsNext]_scriptVars

----------------------------------------------------------------------------
\* Between signals the listeners are the objects whose last call was to register, each once,
\* whatever they called in the middle of a signal, but for the requests the code drops: those
\* pending when a signal within a signal ends, and an unregistering of what is being registered.
LastCallWins ==
  /\ IsInjective(listeners)
  /\ pending = 0 => \A o \in Objects \ undone : o \in ToSet(listeners) <=> asked[o] = "register"

\* The list that is walked does not change under the walk.
WalkIsStable == [][pending > 0 /\ pending' > 0 => listeners' = listeners]_scriptVars

\* While a script runs, "this" is its object and "event" the event's name if it is for one,
\* and the globals are as before when it has returned, as long as no event had arguments.
ScriptsSeeThemselves ==
  ~mixed =>
    /\ frames # <<>> /\ Top.kind = "script" =>
         globals["this"] = Top.object /\ (Top.event => globals["event"] = "name")
    /\ (\A i \in DOMAIN frames : frames[i].kind = "signal") =>
         \A n \in Names : globals[n] = nothing

\* The lists and the globals survive signals within signals and scripts within scripts.
EventsAreKept == []LastCallWins /\ []ScriptsSeeThemselves /\ WalkIsStable
=============================================================================
