-------------------------------- MODULE MCGx --------------------------------
(***************************************************************************)
(* Three parts of the graphics devices that do not meet: render states on  *)
(* three states, two of which are one device state (GxRenderState), the    *)
(* buffers (GxBuffers) and the worker of macOS (GLWorker).  A behaviour    *)
(* moves one of them and leaves the others as they start.                  *)
(***************************************************************************)
EXTENDS GxRenderState, GxBuffers, GLWorker

CONSTANTS DepthTest, DepthFunc, BlendingMode, Off, On

VARIABLE part

\* A value is only compared with others of the same state, so each may start as Off.
MCInit ==
  /\ part \in {"states", "buffers", "worker"}
  /\ Init /\ (\A s \in States : value[s] = Off)
  /\ BuffersInit /\ WorkerInit

\* Bound: a device is lost or reset below one push at most.
OneLeftOver == PresentFails \/ Reset \/ ResetFails => Len(offsets) <= 1
WorkerPart == part = "worker" /\ WorkerNext /\ UNCHANGED <<part, vars, g>>
MCNext ==
  \/ part = "states" /\ Next /\ OneLeftOver /\ UNCHANGED <<part, g, workerVars>>
  \/ part = "buffers" /\ BuffersNext /\ UNCHANGED <<part, vars, workerVars>>
  \/ WorkerPart

MCFairness ==
  /\ WF_workerVars(part = "worker" /\ Worker /\ UNCHANGED <<part, vars, g>>)
  /\ SF_workerVars(part = "worker" /\ MainGoesOn /\ UNCHANGED <<part, vars, g>>)
MCSpec == MCInit /\ [][MCNext]_<<part, vars, g, workerVars>> /\ MCFairness
=============================================================================
