--------------------------- MODULE GxRenderState ---------------------------
(***************************************************************************)
(* The render states of CGxDevice and what its Direct3D 9 device makes of  *)
(* them.  Drawing code sets states, each of which has three copies further *)
(* down: m_hwRenderStates, the value of the last synchronisation;          *)
(* m_deviceStates, the value last given to Direct3D; and the device's own, *)
(* which a Reset puts back to its defaults.  Some device states are made   *)
(* of two render states (ZFUNC of DepthTest and DepthFunc), and sending    *)
(* either sends both.                                                      *)
(*                                                                         *)
(* RsPush saves nothing: a state is saved when it is first changed after a *)
(* push, with the depth at which it was last saved before.                 *)
(*                                                                         *)
(* Left out: MasterEnableSet (no caller), the marking of textures as       *)
(* updated, transforms, lights, materials and vertex pointers.  How device *)
(* values are computed from render states is left out too: a device state  *)
(* holds the values it was made of.                                        *)
(***************************************************************************)
EXTENDS Integers, Sequences, FiniteSets, Sublists

CONSTANTS
  States,     \* EGxRenderState
  Pair,       \* two of them that are one device state
  Values,     \* what a state may hold
  Inverted,   \* ~value, as IRsForceUpdate leaves it in m_hwRenderStates
  Unknown,    \* 0xFF.., as IReleaseD3dResources leaves it in m_deviceStates
  MaxDepth,   \* bound: pushes
  MaxPushed   \* bound: states saved at one time

ASSUME RenderStateAssumption ==
  /\ IsFiniteSet(States) /\ Pair \subseteq States /\ Pair # {}
  /\ Inverted \notin Values
  /\ MaxDepth \in Nat /\ MaxPushed \in Nat

VARIABLES
  value,        \* m_appRenderStates[s].m_value
  dirty,        \* the states with m_dirty set
  depth,        \* m_stackDepth
  dirtyStates,  \* m_dirtyStates
  pushed,       \* m_pushedStates
  offsets,      \* m_stackOffsets
  hw,           \* m_hwRenderStates
  deviceStates, \* m_deviceStates, by device state
  device,       \* what Direct3D has, by device state
  context,      \* m_context
  sync          \* IRsSync: the entry of m_dirtyStates it is at; 0 when it is not running

stackVars == <<pushed, offsets>>
deviceVars == <<deviceStates, device>>
vars == <<value, dirty, depth, dirtyStates, stackVars, hw, deviceVars, context, sync>>

\* The device states, each the set of the render states it is made of.
DeviceStates == {Pair} \cup {{s} : s \in States \ Pair}
DeviceState(s) == CHOOSE d \in DeviceStates : s \in d
\* What device state d should be.
Made(d) == [s \in d |-> value[s]]

(* A type invariant for every field above.                                 *)
TypeOK ==
  /\ value \in [States -> Values] /\ dirty \subseteq States
  /\ depth \in [States -> 0..MaxDepth]
  /\ dirtyStates \in Seq(States)
  /\ pushed \in Seq([which : States, value : Values, depth : 0..MaxDepth])
  /\ offsets \in Seq(0..Len(pushed)) /\ Len(offsets) <= MaxDepth
  /\ hw \in [States -> Values \cup {Inverted}]
  /\ \A d \in DeviceStates :
       /\ deviceStates[d] \in [d -> Values] \cup {Unknown}
       /\ device[d] \in [d -> Values] \cup {Unknown}
  /\ context \in BOOLEAN
  /\ sync \in 0..Len(dirtyStates)

\* IStateSetD3dDefaults when the device is created: every state is sent.
Init ==
  /\ value \in [States -> Values] /\ hw = value
  /\ dirty = {} /\ depth = [s \in States |-> 0]
  /\ dirtyStates = <<>> /\ pushed = <<>> /\ offsets = <<>>
  /\ deviceStates = [d \in DeviceStates |-> Made(d)] /\ device = deviceStates
  /\ context = TRUE /\ sync = 0

-----------------------------------------------------------------------------
(* Setting, saving and restoring                                           *)

\* A mutant: only the first frame's values are saved.
IRsDirtyOnce(s) ==
  /\ dirtyStates' = IF s \in dirty THEN dirtyStates ELSE Append(dirtyStates, s)
  /\ dirty' = dirty \cup {s}
  /\ IF depth[s] = 0 /\ offsets # <<>>
     THEN /\ pushed' = Append(pushed, [which |-> s, value |-> value[s], depth |-> depth[s]])
          /\ depth' = [depth EXCEPT ![s] = Len(offsets)]
     ELSE UNCHANGED <<pushed, depth>>

IRsDirty(s) ==
  /\ dirtyStates' = IF s \in dirty THEN dirtyStates ELSE Append(dirtyStates, s)
  /\ dirty' = dirty \cup {s}
  /\ IF depth[s] # Len(offsets)
     THEN /\ pushed' = Append(pushed, [which |-> s, value |-> value[s], depth |-> depth[s]])
          /\ depth' = [depth EXCEPT ![s] = Len(offsets)]
     ELSE UNCHANGED <<pushed, depth>>

RsSet(s, v) ==
  /\ sync = 0 /\ context /\ value[s] # v
  /\ IRsDirty(s) /\ Len(pushed') <= MaxPushed
  /\ value' = [value EXCEPT ![s] = v]
  /\ UNCHANGED <<offsets, hw, deviceVars, context, sync>>

\* A mutant: the first entry of the frame instead of the end of the one below.
RsPushAtFirst ==
  /\ sync = 0 /\ Len(offsets) < MaxDepth
  /\ offsets' = Append(offsets, Len(pushed) + 1)
  /\ UNCHANGED <<value, dirty, depth, dirtyStates, pushed, hw, deviceVars, context, sync>>

RsPush ==
  /\ sync = 0 /\ Len(offsets) < MaxDepth
  /\ offsets' = Append(offsets, Len(pushed))
  /\ UNCHANGED <<value, dirty, depth, dirtyStates, pushed, hw, deviceVars, context, sync>>

\* The entries of the top frame, and of them the one that was saved first for s.
Frame(top) == (top + 1)..Len(pushed)
Oldest(top, s) ==
  CHOOSE i \in Frame(top) :
    pushed[i].which = s /\ \A j \in Frame(top) : pushed[j].which = s => i <= j
InFrame(top) == {pushed[i].which : i \in Frame(top)}

\* The frame is undone from its last entry to its first.
RsPop ==
  /\ sync = 0 /\ offsets # <<>>
  /\ LET top == offsets[Len(offsets)]
         restored == InFrame(top)
     IN /\ value' = [s \in States |-> IF s \in restored THEN pushed[Oldest(top, s)].value
                                      ELSE value[s]]
        /\ depth' = [s \in States |-> IF s \in restored THEN pushed[Oldest(top, s)].depth
                                      ELSE depth[s]]
        /\ dirtyStates' = dirtyStates \o Without(
             [i \in 1..(Len(pushed) - top) |-> pushed[Len(pushed) + 1 - i].which], dirty)
        /\ dirty' = dirty \cup restored
        /\ pushed' = SubSeq(pushed, 1, top)
  /\ offsets' = SubSeq(offsets, 1, Len(offsets) - 1)
  /\ UNCHANGED <<hw, deviceVars, context, sync>>

-----------------------------------------------------------------------------
(* Synchronising with the device                                           *)

\* Draw: IStateSync.
Draw ==
  /\ sync = 0 /\ context /\ dirtyStates # <<>>
  /\ sync' = Len(dirtyStates)
  /\ UNCHANGED <<value, dirty, depth, dirtyStates, stackVars, hw, deviceVars, context>>

\* IRsSendToHw and DsSet.
IRsSendToHw(d) ==
  /\ deviceStates' = [deviceStates EXCEPT ![d] = Made(d)]
  /\ device' = IF deviceStates[d] = Made(d) THEN device
               ELSE [device EXCEPT ![d] = Made(d)]

\* One turn of the loop of IRsSync.
SyncStep ==
  /\ sync > 0
  /\ LET s == dirtyStates[sync] IN
     /\ IF s \in dirty /\ value[s] # hw[s]
        THEN IRsSendToHw(DeviceState(s)) /\ dirty' = dirty \ DeviceState(s)
        ELSE UNCHANGED deviceVars /\ dirty' = dirty \ {s}
     /\ hw' = [hw EXCEPT ![s] = value[s]]
  /\ sync' = sync - 1
  /\ dirtyStates' = IF sync = 1 THEN <<>> ELSE dirtyStates
  /\ UNCHANGED <<value, depth, stackVars, context>>

-----------------------------------------------------------------------------
(* Losing and resetting the device, between two frames: also with a push   *)
(* that was not popped, which ICursorDraw leaves when its lock fails.      *)

\* ScenePresent: Present fails.
PresentFails ==
  /\ sync = 0 /\ context
  /\ context' = FALSE
  /\ UNCHANGED <<value, dirty, depth, dirtyStates, stackVars, hw, deviceVars, sync>>

\* The device at its defaults.
Defaults == [d \in DeviceStates |-> Unknown]
AllStates == CHOOSE q \in [1..Cardinality(States) -> States] :
               \A s \in States : \E i \in DOMAIN q : q[i] = s

\* IRsForceUpdate, then IRsSync.
IRsForceUpdate ==
  /\ dirtyStates' = dirtyStates \o AllStates
  /\ dirty' = States
  /\ hw' = [s \in States |-> Inverted]
  /\ sync' = Len(dirtyStates')

\* A mutant: IReleaseD3dResources leaves m_deviceStates.
ResetKeepingCache ==
  /\ sync = 0 /\ context
  /\ device' = Defaults
  /\ IRsForceUpdate
  /\ UNCHANGED <<value, depth, stackVars, deviceStates, context>>

\* DeviceWM, the window changes its size: Reset succeeds.
Reset ==
  /\ sync = 0 /\ context
  /\ device' = Defaults /\ deviceStates' = Defaults
  /\ IRsForceUpdate
  /\ UNCHANGED <<value, depth, stackVars, context>>

\* DeviceWM: Reset fails; nothing tries again.
ResetFails ==
  /\ sync = 0 /\ context
  /\ device' = Defaults /\ deviceStates' = Defaults
  /\ context' = FALSE
  /\ UNCHANGED <<value, dirty, depth, dirtyStates, stackVars, hw, sync>>

-----------------------------------------------------------------------------
Next == \/ \E s \in States, v \in Values : RsSet(s, v)
        \/ RsPush \/ RsPop \/ Draw \/ SyncStep
        \/ PresentFails \/ Reset \/ ResetFails

Spec == Init /\ [][Next]_vars

-----------------------------------------------------------------------------
(* Properties                                                              *)

(* What is drawn is drawn with the current states: when IRsSync is through *)
(* every device state is made of the current values, whatever was set,     *)
(* restored or reset before and which of the three copies was thought to   *)
(* be up to date.                                                          *)
DeviceAgrees ==
  context /\ sync = 0 /\ dirtyStates = <<>> =>
    \A d \in DeviceStates : device[d] = Made(d)

(* RsPop brings back all states as they were at the RsPush it matches,     *)
(* although RsPush saves none of them (IRsDirty, RsPop): the device        *)
(* implements a stack of complete sets of states.                          *)
Saved(i) ==
  [s \in States |-> IF s \in InFrame(offsets[i]) THEN pushed[Oldest(offsets[i], s)].value
                    ELSE value[s]]
Stack == INSTANCE StateStack WITH current <- value,
                                  saved <- [i \in 1..Len(offsets) |-> Saved(i)]
ImplementsStack == Stack!Spec
=============================================================================
