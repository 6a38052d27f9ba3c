------------------------------ MODULE EvtInput ------------------------------
(***************************************************************************)
(* From the window procedure to the event handlers: the platform puts key, *)
(* button and focus events into the ring of OsQueue, IEvtInputProcess      *)
(* takes them out, the Post functions of src/event/Input.cpp update the    *)
(* state of the modifier keys and buttons, and IEvtQueueDispatch           *)
(* (src/event/Queue.cpp) updates the context's own record of what is held, *)
(* which EventIsKeyDown answers from, before it calls the handlers.        *)
(*                                                                         *)
(* The window procedure is that of Windows (win/Input.cpp), the only       *)
(* platform that reports the focus; the operating system behind it reports *)
(* to the window that has the focus, and repeats a key that is held.       *)
(*                                                                         *)
(* Left out: events that change none of this state (moves, characters,     *)
(* sizes); the mouse mode, since nothing sets s_mouseHoldButton.           *)
(***************************************************************************)
EXTENDS Integers, Sequences

CONSTANTS Keys,      \* the keys of the keyboard
          MetaKeys,  \* those up to KEY_LASTMETAKEY
          Buttons,   \* the mouse buttons
          RingSize   \* OS_QUEUE_SIZE

ASSUME InputAssumption ==
  /\ MetaKeys \subseteq Keys /\ Keys \cap Buttons = {}
  /\ RingSize \in Nat \ {0, 1}

KeyEvents == [id : {"keyDown", "keyUp"}, arg : Keys]
MouseEvents == [id : {"mouseDown", "mouseUp"}, arg : Buttons]
FocusEvent == [id |-> "focus", arg |-> "none"]
InputEvents == KeyEvents \cup MouseEvents \cup {FocusEvent}

VARIABLES
  inQueue, inHead, inTail, inTaken,  \* the ring
  \* the keyboard, the mouse and the window
  pressed,        \* the keys and buttons that are down
  focused,        \* s_windowFocused
  dropped,        \* the ring has dropped an event
  \* Input
  buttonState,    \* s_buttonState
  metaKeyState,   \* s_metaKeyState
  \* EvtContext
  syncKeyDown,    \* m_queueSyncKeyDownList
  syncButtons,    \* m_queueSyncButtonState
  \* the handlers
  dispatched,     \* the event the last step called them with
  seenDown        \* the keys they have been told are down

ring == <<inQueue, inHead, inTail, inTaken>>
deviceVars == <<pressed, focused, dropped>>
inputVars == <<buttonState, metaKeyState>>
syncVars == <<syncKeyDown, syncButtons>>
handlerVars == <<dispatched, seenDown>>
evtVars == <<ring, deviceVars, inputVars, syncVars, handlerVars>>

\* Times do not matter here: every event is stamped 0.
Ring == INSTANCE OsQueue WITH
  queue <- inQueue, head <- inHead, tail <- inTail, taken <- inTaken, Size <- RingSize,
  Events <- InputEvents, Times <- {0}, Blank <- [event |-> FocusEvent, time |-> 0]

Dispatches == [id : {"KEYDOWN", "KEYDOWN_REPEATING", "KEYUP"}, arg : Keys]
              \cup [id : {"MOUSEDOWN", "MOUSEUP"}, arg : Buttons]
              \cup {[id |-> "FOCUS", arg |-> "none"], [id |-> "none", arg |-> "none"]}

InputTypeOK ==
  /\ Ring!TypeOK
  /\ pressed \subseteq Keys \cup Buttons
  /\ focused \in BOOLEAN /\ dropped \in BOOLEAN
  /\ buttonState \subseteq Buttons /\ syncButtons \subseteq Buttons
  /\ metaKeyState \subseteq MetaKeys
  /\ syncKeyDown \subseteq Keys /\ seenDown \subseteq Keys
  /\ dispatched \in Dispatches

InputInit ==
  /\ Ring!Init
  /\ pressed = {} /\ focused = TRUE /\ dropped = FALSE
  /\ buttonState = {} /\ metaKeyState = {}
  /\ syncKeyDown = {} /\ syncButtons = {}
  /\ dispatched = [id |-> "none", arg |-> "none"] /\ seenDown = {}

-----------------------------------------------------------------------------
(* The window procedure.                                                   *)

\* The step calls no handler.
NoDispatch == dispatched' = [id |-> "none", arg |-> "none"] /\ UNCHANGED seenDown

OsQueuePut(event) == /\ Ring!Put([event |-> event, time |-> 0])
                     /\ dropped' = (dropped \/ Ring!Count = RingSize - 1)
                     /\ NoDispatch
                     /\ UNCHANGED <<inputVars, syncVars>>

\* What goes down or up outside the window is not reported to it.
Report(event) == IF focused THEN OsQueuePut(event)
                 ELSE NoDispatch /\ UNCHANGED <<ring, dropped, inputVars, syncVars>>

Press == \E x \in (Keys \cup Buttons) \ pressed :
           /\ pressed' = pressed \cup {x}
           /\ Report([id |-> IF x \in Keys THEN "keyDown" ELSE "mouseDown", arg |-> x])
           /\ UNCHANGED focused

Repeat == \E key \in Keys \cap pressed :
            /\ focused
            /\ OsQueuePut([id |-> "keyDown", arg |-> key])
            /\ UNCHANGED <<pressed, focused>>

Release == \E x \in pressed :
             /\ pressed' = pressed \ {x}
             /\ Report([id |-> IF x \in Keys THEN "keyUp" ELSE "mouseUp", arg |-> x])
             /\ UNCHANGED focused

\* WM_ACTIVATE.
Activate == /\ focused' = ~focused
            /\ OsQueuePut(FocusEvent)
            /\ UNCHANGED pressed

-----------------------------------------------------------------------------
(* IEvtInputProcess and IEvtQueueDispatch.                                 *)

\* OsQueueGet returns an event of the given kind.
Taken(id) == /\ Ring!Get
             /\ inTaken'.event.id = id

Arg == inTaken'.event.arg

\* The handlers are called, and know what they have been told so far.
Handle(id, arg) ==
  /\ dispatched' = [id |-> id, arg |-> arg]
  /\ seenDown' = CASE id = "KEYDOWN" -> seenDown \cup {arg}
                   [] id = "KEYUP"   -> seenDown \ {arg}
                   [] id = "FOCUS"   -> {}
                   [] OTHER          -> seenDown

\* Wrong variant: the key stays in the list as it was.
DispatchKeepingHeld(key) ==
  /\ syncKeyDown' = syncKeyDown \cup {key}
  /\ Handle("KEYDOWN", key)
  /\ UNCHANGED syncButtons

\* UpdateSyncKeyState: a key that is held already is repeating.
DispatchKeyDown(key) ==
  /\ syncKeyDown' = syncKeyDown \cup {key}
  /\ Handle(IF key \in syncKeyDown THEN "KEYDOWN_REPEATING" ELSE "KEYDOWN", key)
  /\ UNCHANGED syncButtons

DispatchKeyUp(key) ==
  /\ syncKeyDown' = syncKeyDown \ {key}
  /\ Handle("KEYUP", key)
  /\ UNCHANGED syncButtons

\* A modifier that is down is not reported again; other keys repeat.
PostKeyDown ==
  /\ Taken("keyDown")
  /\ IF Arg \in metaKeyState
     THEN NoDispatch /\ UNCHANGED <<metaKeyState, syncVars>>
     ELSE /\ metaKeyState' = metaKeyState \cup ({Arg} \cap MetaKeys)
          /\ DispatchKeyDown(Arg)
  /\ UNCHANGED <<deviceVars, buttonState>>

\* A modifier that is not down does not come up.
PostKeyUp ==
  /\ Taken("keyUp")
  /\ IF Arg \in MetaKeys \ metaKeyState
     THEN NoDispatch /\ UNCHANGED <<metaKeyState, syncVars>>
     ELSE /\ metaKeyState' = metaKeyState \ {Arg}
          /\ DispatchKeyUp(Arg)
  /\ UNCHANGED <<deviceVars, buttonState>>

PostMouseDown ==
  /\ Taken("mouseDown")
  /\ buttonState' = buttonState \cup {Arg}
  /\ syncButtons' = syncButtons \cup {Arg}
  /\ Handle("MOUSEDOWN", Arg)
  /\ UNCHANGED <<deviceVars, metaKeyState, syncKeyDown>>

PostMouseUp ==
  /\ Taken("mouseUp")
  /\ buttonState' = buttonState \ {Arg}
  /\ syncButtons' = syncButtons \ {Arg}
  /\ Handle("MOUSEUP", Arg)
  /\ UNCHANGED <<deviceVars, metaKeyState, syncKeyDown>>

\* Wrong variant: only the context's record is reset.
ResetSyncOnly ==
  /\ Taken("focus")
  /\ syncKeyDown' = {} /\ syncButtons' = {}
  /\ Handle("FOCUS", "none")
  /\ UNCHANGED <<deviceVars, buttonState, metaKeyState>>

\* PostFocus, and ResetSyncState when it is dispatched.
PostFocus ==
  /\ Taken("focus")
  /\ buttonState' = {} /\ metaKeyState' = {}
  /\ syncKeyDown' = {} /\ syncButtons' = {}
  /\ Handle("FOCUS", "none")
  /\ UNCHANGED deviceVars

-----------------------------------------------------------------------------
Platform == Press \/ Repeat \/ Release \/ Activate
Process == PostKeyDown \/ PostKeyUp \/ PostMouseDown \/ PostMouseUp \/ PostFocus
InputNext == Platform \/ Process

InputSpec == InputInit /\ [][InputNext]_evtVars

-----------------------------------------------------------------------------
(* Properties.                                                             *)

\* What is held is recorded twice and the records agree, whatever was filtered,
\* dropped from the ring or reset: the modifiers Input puts into every event are
\* those EventIsKeyDown answers for, and so are the buttons.
RecordsAgree == metaKeyState = syncKeyDown \cap MetaKeys /\ buttonState = syncButtons

\* As long as the ring has not overflowed, no key or button is taken to be down
\* that has come up: once every event is processed, what the program believes
\* is held is held, although a key may come up while another window has the
\* focus.
NothingStuck ==
  inTail = inHead /\ ~dropped => syncKeyDown \cup syncButtons \subseteq pressed

\* The two records are right about what is held.
HeldIsKnown == RecordsAgree /\ NothingStuck

\* What the handlers are told in a step fits what they believe.
InTurn ==
  CASE dispatched'.id = "KEYDOWN"           -> dispatched'.arg \notin seenDown
    [] dispatched'.id = "KEYDOWN_REPEATING" -> dispatched'.arg \in seenDown
    [] dispatched'.id = "KEYUP"             -> dispatched'.arg \in MetaKeys
                                                 => dispatched'.arg \in seenDown
    [] OTHER                                -> TRUE

\* The handlers are told that a key goes down when they believe it is up, that
\* it repeats when they believe it is down, and that a modifier comes up when
\* they believe it is down - even when the ring has dropped events between.
KeysAlternate == [][InTurn]_evtVars
=============================================================================
