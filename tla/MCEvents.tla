------------------------------ MODULE MCEvents ------------------------------
(***************************************************************************)
(* The ring alone, with a few slots to go around it several times;         *)
(* EvtInput, with a modifier, another key, a button and a ring of its own; *)
(* and CSimpleTop: a window with a button in it and a panel that overlaps  *)
(* both, once under the mouse and the keyboard, once being drawn; and      *)
(* ScriptEvents with two listeners.  A behaviour moves one of them and     *)
(* leaves the others as they start.                                        *)
(***************************************************************************)
EXTENDS OsQueue, EvtInput, ScriptEvents

CONSTANTS e1, e2,                  \* events in the ring
          shift, w, left,          \* keys and a button
          window, button, panel,   \* frames
          normal, pushed, disabled, glow, art, null

VARIABLES part,                    \* "ring", "input", "frames", "drawing" or "scripts"
          u, held

MCBlank == [event |-> e1, time |-> 0]

----------------------------------------------------------------------------
(* The frames *)

Frames == {window, button, panel}
Parent == [f \in Frames |-> IF f = button THEN window ELSE null]
Children == [f \in Frames |-> IF f = window THEN <<button>> ELSE <<>>]
Mask == [f \in Frames |-> IF f = button THEN {"MOUSE"} ELSE {"CHAR", "KEY", "MOUSE"}]
Artwork == [f \in Frames |-> IF f = window THEN art ELSE null]
TextureRegions == {normal, pushed, disabled, glow, art}
LayerOf == [r \in TextureRegions |-> IF r = glow THEN "highlight" ELSE "artwork"]
ButtonFrames == {button}
StateTexture == [b \in ButtonFrames |->
                  [s \in {"DISABLED", "NORMAL", "PUSHED"} |->
                    CASE s = "NORMAL" -> normal [] s = "PUSHED" -> pushed [] OTHER -> disabled]]
HighlightTexture == [b \in ButtonFrames |-> glow]
Images == {1, 2}
MaxLevel == 2
Strata == <<"WORLD", "TOOLTIP">>
MouseStrata == <<"WORLD">>
InitialStrata == {[f \in Frames |-> IF f = panel THEN s ELSE "WORLD"] : s \in {"WORLD", "TOOLTIP"}}
Points == {"out", "window", "button", "overlap"}
Under == [p \in Points |-> CASE p = "out" -> {} [] p = "window" -> {window}
                             [] p = "button" -> {window, button} [] OTHER -> Frames]

On(op, f) == [op |-> op, frame |-> f]
Level(f, l) == [op |-> "SetFrameLevel", frame |-> f, level |-> l]
ShowOrHide == [op : {"Show", "Hide"}, frame : Frames]
FrameCalls == ShowOrHide \cup {Level(panel, 0), Level(panel, 2), Level(window, 1)}
ButtonCalls == [op : {"Enable", "Disable", "LockHighlight", "UnlockHighlight"}, frame : ButtonFrames]
ButtonOn(on) == on \in {"OnClick", "OnEnable", "OnDisable"}
(* Among them are the handlers that disturb what calls them (Disturbs of   *)
(* CSimpleTop).  One does not return and is left out: an OnLeave that      *)
(* disables its own button, which calls OnLeave.                           *)
Handlers == [frame : Frames, on : {"OnEnter", "OnLeave", "OnShow", "OnHide", "OnMouseDown", "OnMouseUp", "OnUpdate"},
             call : {On("Hide", panel), On("Show", panel), On("Hide", window)}]
  \cup [frame : {button, panel}, on : {"OnEnter", "OnShow", "OnHide", "OnMouseDown"}, call : {Level(panel, 2), On("Disable", button)}]
  \cup [frame : {window, panel}, on : {"OnKeyDown", "OnKeyUp", "OnChar"},
         call : {On("Show", panel), On("Hide", panel), On("Hide", window), Level(panel, 2)}]
  \cup [frame : {button}, on : {"OnClick", "OnEnable", "OnDisable"},
         call : {On("Show", panel), On("Hide", window), On("Disable", button), On("UnlockHighlight", button)}]
  \cup [frame : {window, button}, on : {"OnLeave", "OnMouseDown"}, call : {On("Hide", button), On("Show", window), Level(window, 1)}]
NoHandler == [frame |-> null, on |-> "nothing", call |-> [op |-> "nothing"]]
Artful == [NoHandler EXCEPT !.on = "artwork"]
Dressing == [NoHandler EXCEPT !.on = "dressing"]
Scripts == {NoHandler, Artful, Dressing} \cup Handlers

FramesCalls(v) ==
  IF v.script = NoHandler
  THEN {On("Hide", panel), On("Show", panel), On("Hide", window), On("Show", window), Level(panel, 2), Level(panel, 0),
        On("Disable", button), On("Enable", button), On("LockHighlight", button), On("UnlockHighlight", button)}
  ELSE {On("Hide", v.script.frame), On("Show", v.script.frame), On("Enable", button)}
ArtCalls ==
  {On("Hide", window), On("Show", window), On("Hide", button), On("Show", button), Level(window, 1), Level(window, 0),
   [op |-> "SetTexture", region |-> art, image |-> 2], [op |-> "SetTexture", region |-> art, image |-> 1],
   [op |-> "SetVertexColor", region |-> art, color |-> "red"], [op |-> "SetVertexColor", region |-> art, color |-> "white"],
   [op |-> "HideTexture", region |-> art], [op |-> "ShowTexture", region |-> art]}
DressingCalls ==
  {On("Hide", button), On("Show", button), On("Disable", button), On("Enable", button),
   On("LockHighlight", button), On("UnlockHighlight", button), On("NoHighlightTexture", button),
   [op |-> "SetStateTexture", frame |-> button, state |-> "NORMAL", image |-> 1],
   [op |-> "SetStateTexture", frame |-> button, state |-> "DISABLED", image |-> 1],
   [op |-> "NoStateTexture", frame |-> button, state |-> "NORMAL"],
   [op |-> "SetHighlightTexture", frame |-> button, image |-> 2]}
Calls(v) ==
  CASE v.script = Artful -> ArtCalls
    [] v.script = Dressing -> DressingCalls
    [] OTHER -> FramesCalls(v)

Ui == INSTANCE CSimpleTop WITH Keys <- {w}, MouseButtons <- {left}
uiVars == <<u, held>>

\* While the drawing is looked at there is no mouse and no key.
Untouched == u'.mousePosition = u.mousePosition /\ u'.keydownCapture = u.keydownCapture /\ UNCHANGED held

MCInit == /\ part \in {"ring", "input", "frames", "drawing", "scripts"}
          /\ Init /\ InputInit /\ Ui!Init /\ ScriptsInit
          /\ part = "scripts" \/ listeners = <<>>
          /\ part = "drawing" <=> u.script \in {Artful, Dressing}
          /\ part # "frames" => u.script \in {NoHandler, Artful, Dressing}
          /\ u.strata[panel] = "TOOLTIP" => u.script.on \in {"OnKeyDown", "OnKeyUp", "OnChar", "OnHide"}

MCNext == /\ UNCHANGED part
          /\ \/ part = "ring" /\ Next /\ UNCHANGED <<evtVars, uiVars, scriptVars>>
             \/ part = "input" /\ InputNext /\ UNCHANGED <<ringVars, uiVars, scriptVars>>
             \/ part \in {"frames", "drawing"} /\ Ui!Next /\ (part = "drawing" => Untouched) /\ UNCHANGED <<ringVars, evtVars, scriptVars>>
             \/ part = "scripts" /\ ScriptsNext /\ UNCHANGED <<ringVars, evtVars, uiVars>>

MCSpec == MCInit /\ [][MCNext]_<<part, ringVars, evtVars, uiVars, scriptVars>>

\* The properties of CSimpleTop, stated there with the handlers that are exceptions to each.
BatchesAreCurrent == Ui!BatchesAreCurrent
FocusIsSound == Ui!FocusIsTopmost /\ Ui!CapturesAreLive
=============================================================================
