----------------------------- MODULE CSimpleTop -----------------------------
(***************************************************************************)
(* The interface (ui/CSimpleTop, CSimpleFrame, CSimpleButton): which frames*)
(* are visible, which of them the mouse and the keys go to, and what the   *)
(* buttons among them do. Everything runs on the main thread, but a handler*)
(* may call back into any of it, in the middle of what called the handler. *)
(* A behaviour has one handler, chosen at the start, that makes one call.  *)
(*                                                                         *)
(* A frame listens to kinds of events; a queue per stratum and kind holds  *)
(* the visible listeners, the highest level first. Frames with the mouse   *)
(* enabled are hit where the constant Under says.                          *)
(***************************************************************************)
EXTENDS CFrameStrata, FiniteSets

CONSTANTS Parent,           \* the parent of each frame
          Children,         \* its children, in order
          Mask,             \* the kinds of events it listens to
          ButtonFrames,     \* the frames that are buttons
          StateTexture,     \* the texture a button would make for each of its states
          HighlightTexture, \* and for its highlight
          Artwork,          \* the texture a frame is loaded with, or null
          Images,           \* images a texture may show
          Points, Under,    \* mouse positions, and the frames whose hit rectangle holds each
          MouseStrata,      \* the strata the mouse is looked for in, highest first
          Scripts,          \* [frame, on, call]: the handlers a behaviour chooses from
          Calls(_),         \* the calls code outside any handler may make
          InitialStrata,    \* strata a frame may start in
          Keys, MouseButtons

FrameEvents == {"CHAR", "KEY", "MOUSE"}
NoScript == [frame |-> null, on |-> "nothing", call |-> [op |-> "nothing"]]

VARIABLES u,     \* the interface
          held   \* mouse buttons that are down
vars == <<u, held>>

RECURSIVE RunScript(_, _, _), HideThis(_, _), ShowThis(_, _), SetFrameLevel(_, _, _)

----------------------------------------------------------------------------
(* Listening *)

QueueOf(w, f, e) == w.queue[w.strata[f]][e]
\* Behind those of its priority or above: the sorted array is a library's.
Place(q, p) == Cardinality({i \in DOMAIN q : q[i].priority >= p})
\* A frame that moves to another level under the mouse is noticed when the mouse moves:
\* the wrong variant for RegisterForEvent.
RegisterUnnoticed(w, f, e, moved) ==
  LET q == QueueOf(w, f, e)
      p == w.level[f]
  IN [w EXCEPT !.queue[w.strata[f]][e] = InsertAt(q, Place(q, p) + 1, [frame |-> f, priority |-> p]),
               !.checkFocus = @ \/ ~moved]

RegisterForEvent(w, f, e, moved) ==
  LET q == QueueOf(w, f, e)
      p == w.level[f]
  IN [w EXCEPT !.queue[w.strata[f]][e] = InsertAt(q, Place(q, p) + 1, [frame |-> f, priority |-> p]),
               !.checkFocus = @ \/ ~moved \/ e = "MOUSE"]
EventSeq == <<"CHAR", "KEY", "MOUSE">>
Listens(f) == SelectSeq(EventSeq, LAMBDA e : e \in Mask[f])
RegisterForEvents(w, f, moved) ==
  FoldLeft(LAMBDA v, e : RegisterForEvent(v, f, e, moved), w, Listens(f))

IsButton(f) == f \in ButtonFrames
Deaf(w, f) == IsButton(f) /\ w.state[f] = "DISABLED"
Highlighted(w, f, lit) ==
  LET heard == [w EXCEPT !.unheard = @ \ {f}]
  IN IF w.locked[f] THEN w
     ELSE IF lit THEN EnableDrawLayer(heard, f, "highlight") ELSE DisableDrawLayer(heard, f, "highlight")
OnLayerCursorEnter(w, f) ==
  IF Deaf(w, f) THEN w ELSE RunScript(Highlighted(w, f, TRUE), f, "OnEnter")
OnLayerCursorExit(w, f) ==
  IF Deaf(w, f) THEN w ELSE RunScript(Highlighted(w, f, FALSE), f, "OnLeave")

FirstOf(q, f) == CHOOSE i \in DOMAIN q : q[i].frame = f /\ \A j \in 1..(i - 1) : q[j].frame # f
IsQueued(w, f, e) == \E i \in DOMAIN QueueOf(w, f, e) : QueueOf(w, f, e)[i].frame = f
\* A hidden frame keeps the mouse captured: the wrong variant for Forgotten.
ForgottenButCaptured(w, f, e) ==
  IF e = "KEY" THEN [w EXCEPT !.keydownCapture = [k \in Keys |-> IF @[k] = f THEN null ELSE @[k]]]
  ELSE IF e = "MOUSE" /\ w.mouseFocus = f
  THEN OnLayerCursorExit([w EXCEPT !.mouseFocus = null, !.checkFocus = TRUE], f)
  ELSE w
Forgotten(w, f, e) ==
  CASE e = "KEY" -> [w EXCEPT !.keydownCapture = [k \in Keys |-> IF @[k] = f THEN null ELSE @[k]]]
    [] e = "MOUSE" /\ w.mouseFocus = f ->
         OnLayerCursorExit([w EXCEPT !.mouseCapture = IF @ = f THEN null ELSE @,
                                     !.mouseFocus = null, !.checkFocus = TRUE], f)
    [] e = "MOUSE" /\ w.mouseFocus # f -> [w EXCEPT !.mouseCapture = IF @ = f THEN null ELSE @]
    [] OTHER -> w
Unqueued(w, f, e) == [w EXCEPT !.queue[w.strata[f]][e] = RemoveAt(@, FirstOf(@, f))]
UnregisterForEvent(w, f, e, moved) ==
  IF ~IsQueued(w, f, e) THEN w
  ELSE IF moved THEN Unqueued(w, f, e) ELSE Forgotten(Unqueued(w, f, e), f, e)
UnregisterForEvents(w, f, moved) ==
  FoldLeft(LAMBDA v, e : UnregisterForEvent(v, f, e, moved), w, Listens(f))

ShowFrame(w, f, moved) == RegisterForEvents(AddFrame(w, f), f, moved)
HideFrame(w, f, moved) == RemoveFrame(UnregisterForEvents(w, f, moved), f)

----------------------------------------------------------------------------
(* Buttons *)

Swapped(w, b, s) ==
  LET r == w.textures[b][s]
      old == w.activeTexture[b]
      off == IF old # null /\ (r # null \/ s = "NORMAL")
             THEN [RegionHide(w, old) EXCEPT !.activeTexture[b] = null] ELSE w
  IN IF r = null THEN off ELSE RegionShow([off EXCEPT !.activeTexture[b] = r], r)
SetButtonState(w, b, s) ==
  IF w.state[b] = s THEN w ELSE [Swapped(w, b, s) EXCEPT !.state[b] = s]

Focused(w, b) == IF w.mouseFocus = b THEN OnLayerCursorEnter(w, b) ELSE w
Unfocused(w, b) == IF w.mouseFocus = b THEN OnLayerCursorExit(w, b) ELSE w
Enabled(w, b) == Focused(SetButtonState(w, b, "NORMAL"), b)
Disabled(w, b) == SetButtonState(DisableDrawLayer(Unfocused(w, b), b, "highlight"), b, "DISABLED")
Relit(w, b) == IF w.locked[b] THEN EnableDrawLayer(w, b, "highlight") ELSE w
Enable(w, b) == IF w.state[b] # "DISABLED" THEN w ELSE RunScript(Relit(Enabled(w, b), b), b, "OnEnable")
Disable(w, b) == IF w.state[b] = "DISABLED" THEN w ELSE RunScript(Disabled(w, b), b, "OnDisable")

\* What is unlocked under the mouse is left to the mouse, whose leaving a disabled button
\* does not hear: unheard remembers that, for the properties.
LockHighlight(w, f, lock) ==
  LET stays == ~lock /\ Deaf(w, f) /\ w.mouseFocus = f
      after == [w EXCEPT !.locked[f] = lock, !.unheard = IF stays THEN @ \cup {f} ELSE @ \ {f}]
  IN IF w.locked[f] = lock THEN w
     ELSE IF lock THEN EnableDrawLayer(after, f, "highlight")
     ELSE IF w.mouseFocus # f THEN DisableDrawLayer(after, f, "highlight") ELSE after

OnClick(w, b) == IF w.state[b] = "DISABLED" THEN w ELSE RunScript(w, b, "OnClick")

\* A texture of a state: by name, made when there is none yet, and taken away.
GivenTexture(w, b, s, r) ==
  LET before == IF w.textures[b][s] = w.activeTexture[b] THEN [w EXCEPT !.activeTexture[b] = null] ELSE w
      gone == IF w.textures[b][s] = null THEN before ELSE Deleted(before, w.textures[b][s])
      owned == IF r = null THEN gone ELSE SetFrame(gone, r, b, FALSE)
      set == [owned EXCEPT !.textures[b][s] = r]
  IN IF r # null /\ w.state[b] = s THEN RegionShow([set EXCEPT !.activeTexture[b] = r], r) ELSE set
SetStateTexture(w, b, s, t) ==
  IF w.textures[b][s] # null THEN SetTexture(w, w.textures[b][s], t)
  ELSE GivenTexture(SetTexture(w, StateTexture[b][s], t), b, s, StateTexture[b][s])
NoStateTexture(w, b, s) == IF w.textures[b][s] = null THEN w ELSE GivenTexture(w, b, s, null)
SetHighlight(w, b, t) ==
  LET r == HighlightTexture[b]
      there == IF w.highlight[b] = null THEN SetFrame(w, r, b, TRUE) ELSE w
  IN SetBlendMode(SetTexture([there EXCEPT !.highlight[b] = r], r, t), r, "Add")
NoHighlight(w, b) ==
  IF w.highlight[b] = null THEN w ELSE [Deleted(w, w.highlight[b]) EXCEPT !.highlight[b] = null]

----------------------------------------------------------------------------
(* Frames *)

OnLayerHide(w, f) ==
  LET up == IF IsButton(f) /\ w.state[f] # "DISABLED" THEN SetButtonState(w, f, "NORMAL") ELSE w
  IN RunScript(up, f, "OnHide")
HideThis(w, f) ==
  IF ~w.visible[f] THEN w
  ELSE LET gone == HideFrame([w EXCEPT !.visible[f] = FALSE], f, FALSE)
           bare == FoldLeft(LAMBDA v, r : RegionHideThis(v, r), gone, gone.regions[f])
       IN OnLayerHide(FoldLeft(LAMBDA v, c : HideThis(v, c), bare, Children[f]), f)
Hide(w, f) == HideThis([w EXCEPT !.shown[f] = FALSE], f)

ParentVisible(w, f) == Parent[f] = null \/ w.visible[Parent[f]]
ShowThis(w, f) ==
  IF ~w.shown[f] \/ ~ParentVisible(w, f) \/ w.visible[f] THEN w
  ELSE LET there == ShowFrame([w EXCEPT !.visible[f] = TRUE], f, FALSE)
           dressed == FoldLeft(LAMBDA v, r : RegionShowThis(v, r), there, there.regions[f])
       IN RunScript(FoldLeft(LAMBDA v, c : ShowThis(v, c), dressed, Children[f]), f, "OnShow")
Show(w, f) == ShowThis([w EXCEPT !.shown[f] = TRUE], f)

MovedTo(w, f, l) ==
  LET out == IF w.visible[f] THEN HideFrame(w, f, TRUE) ELSE w
      at == [out EXCEPT !.level[f] = l]
  IN IF w.visible[f] THEN ShowFrame(at, f, TRUE) ELSE at
SetFrameLevel(w, f, l) ==
  IF w.level[f] = l THEN w
  ELSE FoldLeft(LAMBDA v, c : SetFrameLevel(v, c, v.level[c] + l - w.level[f]), MovedTo(w, f, l), Children[f])

DoFrame(w, c) ==
  CASE c.op = "Show" -> Show(w, c.frame)
    [] c.op = "Hide" -> Hide(w, c.frame)
    [] c.op = "SetFrameLevel" -> SetFrameLevel(w, c.frame, c.level)
DoButton(w, c) ==
  CASE c.op = "Enable" -> Enable(w, c.frame)
    [] c.op = "Disable" -> Disable(w, c.frame)
    [] c.op = "LockHighlight" -> LockHighlight(w, c.frame, TRUE)
    [] c.op = "UnlockHighlight" -> LockHighlight(w, c.frame, FALSE)
    [] c.op = "SetStateTexture" -> SetStateTexture(w, c.frame, c.state, c.image)
    [] c.op = "NoStateTexture" -> NoStateTexture(w, c.frame, c.state)
    [] c.op = "SetHighlightTexture" -> SetHighlight(w, c.frame, c.image)
    [] c.op = "NoHighlightTexture" -> NoHighlight(w, c.frame)
DoTexture(w, c) ==
  CASE c.op = "ShowTexture" -> RegionShow(w, c.region)
    [] c.op = "HideTexture" -> RegionHide(w, c.region)
    [] c.op = "SetTexture" -> SetTexture(w, c.region, c.image)
    [] c.op = "SetVertexColor" -> SetVertexColor(w, c.region, c.color)
Do(w, c) ==
  CASE c.op \in {"Show", "Hide", "SetFrameLevel"} -> DoFrame(w, c)
    [] c.op \in {"ShowTexture", "HideTexture", "SetTexture", "SetVertexColor"} -> DoTexture(w, c)
    [] OTHER -> DoButton(w, c)
RunScript(w, f, on) ==
  IF w.script.frame = f /\ w.script.on = on THEN Do(w, w.script.call) ELSE w

----------------------------------------------------------------------------
(* Mouse and keys *)

Hit(f, p) == f \in Under[p]
MouseQueue(w) ==
  FoldLeft(LAMBDA fs, s : fs \o [i \in DOMAIN w.queue[s]["MOUSE"] |-> w.queue[s]["MOUSE"][i].frame],
           <<>>, MouseStrata)
FrameAt(w, p) ==
  LET hits == SelectSeq(MouseQueue(w), LAMBDA f : Hit(f, p))
  IN IF hits = <<>> THEN null ELSE Head(hits)
Entered(w, f) == IF f = null THEN w ELSE OnLayerCursorEnter(w, f)
Exited(w, f) == IF f = null THEN w ELSE OnLayerCursorExit(w, f)
MoveMouse(w, p) ==
  LET next == FrameAt(w, p)
      there == [w EXCEPT !.mousePosition = p, !.mouseFocus = next]
  IN IF next = w.mouseFocus THEN there ELSE Entered(Exited(there, w.mouseFocus), next)

OnMouseDownButton(w, b, btn) ==
  IF ~Hit(b, w.mousePosition) \/ w.state[b] = "DISABLED" THEN w
  ELSE LET clicked == IF <<btn, "down">> \in w.clickAction[b] THEN OnClick(w, b) ELSE w
       IN IF clicked.state[b] = "DISABLED" THEN clicked ELSE SetButtonState(clicked, b, "PUSHED")
OnLayerMouseDown(w, f, btn) ==
  LET after == RunScript(w, f, "OnMouseDown")
  IN IF IsButton(f) THEN OnMouseDownButton(after, f, btn) ELSE after
OnMouseUpButton(w, b, btn) ==
  IF w.state[b] # "PUSHED" THEN w
  ELSE LET clicked == IF Hit(b, w.mousePosition) /\ <<btn, "up">> \in w.clickAction[b]
                      THEN OnClick(w, b) ELSE w
       IN IF clicked.state[b] = "DISABLED" THEN clicked ELSE SetButtonState(clicked, b, "NORMAL")
OnLayerMouseUp(w, f, btn) ==
  LET after == RunScript(w, f, "OnMouseUp")
  IN IF IsButton(f) THEN OnMouseUpButton(after, f, btn) ELSE after

QueueFrom(w, e) ==
  FoldLeft(LAMBDA fs, s : [i \in DOMAIN w.queue[s][e] |-> w.queue[s][e][i].frame] \o fs, <<>>, Strata)
\* The first visible listener, from the highest stratum down, eats the key.
Eater(w, e) ==
  LET able == SelectSeq(QueueFrom(w, e), LAMBDA f : w.visible[f])
  IN IF able = <<>> THEN null ELSE Head(able)

RECURSIVE UpdateFrom(_, _, _, _)
UpdateFrom(w, s, l, f) ==
  IF f = null THEN w
  ELSE LET ahead == [w EXCEPT !.nodes[s][l].pendingFrame = NextIn(w.nodes[s][l].frames, f)]
           ran == RunScript(ahead, f, "OnUpdate")
       IN UpdateFrom(ran, s, l, ran.nodes[s][l].pendingFrame)
UpdateNode(w, s, l) ==
  LET fs == w.nodes[s][l].frames
  IN IF l >= w.topLevel[s] \/ fs = <<>> THEN w ELSE UpdateFrom(w, s, l, Head(fs))
LevelSeq == [i \in 1..(MaxLevel + 1) |-> i - 1]
UpdateStrata(w, s) == FoldLeft(LAMBDA v, l : UpdateNode(v, s, l), w, LevelSeq)
CheckFocus(w) == IF w.checkFocus THEN MoveMouse([w EXCEPT !.checkFocus = FALSE], w.mousePosition) ELSE w
OnLayerUpdate(w) == CheckFocus(FoldLeft(LAMBDA v, s : UpdateStrata(v, s), w, Strata))
OnLayerRender(w) == FoldLeft(LAMBDA v, s : BuildBatches(v, s), w, Strata)

----------------------------------------------------------------------------
(* Frames as they are once loaded, and the steps of the main thread *)

Bare(strata) ==
  [script |-> NoScript, strata |-> strata,
   shown |-> [f \in Frames |-> TRUE], visible |-> [f \in Frames |-> FALSE],
   level |-> [f \in Frames |-> IF Parent[f] = null THEN 0 ELSE 1],
   nodes |-> [s \in StrataSet |-> [l \in Levels |-> EmptyNode]],
   topLevel |-> [s \in StrataSet |-> 0], batchDirty |-> [s \in StrataSet |-> FALSE],
   queue |-> [s \in StrataSet |-> [e \in FrameEvents |-> <<>>]],
   mouseFocus |-> null, mouseCapture |-> null, keydownCapture |-> [k \in Keys |-> null],
   mousePosition |-> CHOOSE p \in Points : Under[p] = {}, checkFocus |-> TRUE,
   drawEnabled |-> [f \in Frames |-> [k \in Layers |-> k # "highlight"]],
   locked |-> [f \in Frames |-> FALSE], unheard |-> {},
   drawLayers |-> [f \in Frames |-> [k \in Layers |-> <<>>]], regions |-> [f \in Frames |-> <<>>],
   region |-> [r \in TextureRegions |-> NoRegion],
   state |-> [b \in ButtonFrames |-> "NORMAL"], clickAction |-> [b \in ButtonFrames |-> {<<"LEFT", "up">>}],
   textures |-> [b \in ButtonFrames |-> [s \in {"DISABLED", "NORMAL", "PUSHED"} |-> null]],
   activeTexture |-> [b \in ButtonFrames |-> null], highlight |-> [b \in ButtonFrames |-> null]]
Roots == SetToSeq({f \in Frames : Parent[f] = null})
Dressed(w, f) ==
  IF Artwork[f] = null THEN w ELSE SetTexture(SetFrame(w, Artwork[f], f, TRUE), Artwork[f], CHOOSE t \in Images : TRUE)
Loaded(strata) ==
  FoldLeft(LAMBDA v, f : Dressed(v, f),
           FoldLeft(LAMBDA v, f : ShowThis(v, f), Bare(strata), Roots), SetToSeq(Frames))

Init ==
  /\ held = {}
  /\ \E script \in Scripts, strata \in InitialStrata :
       u = [Loaded(strata) EXCEPT !.script = script]

OnMouseMove(p) ==
  /\ p # u.mousePosition
  /\ u' = MoveMouse(u, p)
  /\ UNCHANGED held

OnMouseDown(btn) ==
  /\ btn \notin held
  /\ held' = held \cup {btn}
  /\ LET target == IF u.mouseCapture # null THEN u.mouseCapture ELSE u.mouseFocus
     IN u' = IF target = null THEN u
             ELSE OnLayerMouseDown([u EXCEPT !.mouseCapture = target], target, btn)

Released(w) == IF held' = {} THEN [w EXCEPT !.mouseCapture = null] ELSE w
OnMouseUp(btn) ==
  /\ btn \in held
  /\ held' = held \ {btn}
  /\ u' = IF u.mouseCapture = null THEN u ELSE Released(OnLayerMouseUp(u, u.mouseCapture, btn))

\* The buttons are taken to be up when the window loses the focus: nobody is told.
OnFocusChanged ==
  /\ held # {}
  /\ held' = {}
  /\ UNCHANGED u

OnKeyDown(k) ==
  /\ LET f == Eater(u, "KEY")
     IN u' = IF f = null THEN u ELSE [RunScript(u, f, "OnKeyDown") EXCEPT !.keydownCapture[k] = f]
  /\ UNCHANGED held
OnKeyUp(k) ==
  /\ LET f == u.keydownCapture[k]
     IN u' = IF f = null THEN u
             ELSE [(IF u.visible[f] THEN RunScript(u, f, "OnKeyUp") ELSE u) EXCEPT !.keydownCapture[k] = null]
  /\ UNCHANGED held
OnChar ==
  /\ LET f == Eater(u, "CHAR")
     IN u' = IF f = null THEN u ELSE RunScript(u, f, "OnChar")
  /\ UNCHANGED held

PaintScreen ==
  /\ u' = OnLayerRender(OnLayerUpdate(u))
  /\ UNCHANGED held

\* Code outside the handlers above (a message of a server, a button elsewhere) calls.
Call ==
  /\ \E c \in Calls(u) : u' = Do(u, c)
  /\ UNCHANGED held

Next ==
  \/ \E p \in Points : OnMouseMove(p)
  \/ \E btn \in MouseButtons : OnMouseDown(btn) \/ OnMouseUp(btn)
  \/ OnFocusChanged
  \/ \E k \in Keys : OnKeyDown(k) \/ OnKeyUp(k)
  \/ OnChar
  \/ PaintScreen
  \/ Call

Spec == Init /\ [][Next]_vars

----------------------------------------------------------------------------
(* Properties *)

(* The handler makes a call of one of these kinds in the middle of what    *)
(* called it, which then goes on as if nothing had happened.               *)
Disturbs(on, ops) == u.script.on \in on /\ u.script.call.op \in ops

(* Called while its frame is being hidden, an OnLeave that shows or levels *)
(* the frame, or the one it is in, puts it where it is not taken out.      *)
Misplaces ==
  /\ Disturbs({"OnLeave"}, {"Show", "SetFrameLevel"})
  /\ u.script.call.frame \in {u.script.frame, Parent[u.script.frame]}

\* The handler hides f, or the frame it is in.
HidIn(on, f) == Disturbs(on, {"Hide"}) /\ u.script.call.frame \in {f, Parent[f]}

(* What a batch holds is what would be put into it now, or the batch is    *)
(* marked to be made again before it is next drawn: nothing hidden, moved, *)
(* deleted or given another image is drawn as it was, whatever a handler   *)
(* does but misplace a frame (CFrameStrataNode::BuildBatches,              *)
(* NotifyDrawLayerChanged).                                                *)
BatchesAreCurrent == Misplaces \/ Current(u)

(* Unless a look at it is already due, the focus is the topmost visible    *)
(* frame under the mouse: whoever was shown, hidden or moved to another    *)
(* level since, inside whichever handler (RegisterForEvent,                *)
(* UnregisterForEvent, OnLayerUpdate's m_checkFocus).                      *)
FocusIsTopmost == u.checkFocus \/ u.mouseFocus = FrameAt(u, u.mousePosition)

Occurrences(q, f) == Cardinality({i \in DOMAIN q : q[i] = f})
Framed(q) == [i \in DOMAIN q |-> q[i].frame]
IsLive(f, e) == f # null => u.visible[f] /\ e \in Mask[f]
Lit(b) == u.drawEnabled[b]["highlight"]

(* A frame is visible when it and those it is in are shown, and exactly    *)
(* then once in its level (HideThis, ShowThis, SetFrameLevel).             *)
FramesAreListed ==
  Misplaces \/ \A f \in Frames :
    /\ u.visible[f] <=> u.shown[f] /\ ParentVisible(u, f)
    /\ \A s \in StrataSet, l \in Levels :
         Occurrences(u.nodes[s][l].frames \o u.nodes[s][l].pendingFrames, f)
           = IF u.visible[f] /\ s = u.strata[f] /\ l = u.level[f] THEN 1 ELSE 0

(* Whatever the handler does, a visible frame and no other is once in each *)
(* queue it listens to, the higher levels first, and focus and mouse       *)
(* capture are null or visible frames that listen (UnregisterForEvent).    *)
QueuesAreLive ==
  /\ \A s \in StrataSet, e \in FrameEvents :
       LET q == u.queue[s][e]
       IN /\ \A f \in Frames : Occurrences(Framed(q), f)
                                 = IF u.visible[f] /\ s = u.strata[f] /\ e \in Mask[f] THEN 1 ELSE 0
          /\ \A i \in DOMAIN q : q[i].priority = u.level[q[i].frame]
          /\ \A i, j \in DOMAIN q : i < j => q[i].priority >= q[j].priority
  /\ IsLive(u.mouseFocus, "MOUSE") /\ IsLive(u.mouseCapture, "MOUSE")

(* So is who has a key, but for the frame whose own OnKeyDown hides: it    *)
(* is given the key after it is gone (CSimpleTop::OnKeyDown).              *)
KeysAreLive ==
  \A k \in Keys :
    \/ IsLive(u.keydownCapture[k], "KEY")
    \/ u.keydownCapture[k] = u.script.frame /\ HidIn({"OnKeyDown"}, u.script.frame)

(* A button is pushed only while it has the mouse, unless it was hidden by *)
(* the OnMouseDown or OnClick that comes before it is pushed               *)
(* (CSimpleButton::OnLayerMouseDown).  One that is enabled is lit if it has*)
(* the focus or is locked, and else it is not, unless an OnLeave hides the *)
(* button the mouse goes to (CSimpleTop::OnMouseMove), or it was unlocked  *)
(* while it was disabled and under the mouse (CSimpleFrame::LockHighlight).*)
ButtonsAreSound ==
  \A b \in ButtonFrames :
    /\ u.state[b] = "PUSHED" => u.mouseCapture = b \/ HidIn({"OnMouseDown", "OnClick"}, b)
    /\ u.state[b] # "DISABLED" =>
         IF u.mouseFocus = b \/ u.locked[b] THEN Lit(b)
         ELSE Lit(b) => HidIn({"OnLeave"}, b) \/ b \in u.unheard

(* The four together: what is shown, what listens, who has the mouse and   *)
(* the keys and how buttons look agree, but for the handlers named there.  *)
CapturesAreLive == FramesAreListed /\ QueuesAreLive /\ KeysAreLive /\ ButtonsAreSound
=============================================================================
