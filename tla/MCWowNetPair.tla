---------------------------- MODULE MCWowNetPair ----------------------------
(***************************************************************************)
(* Two connections from the start, with a second worker that is never      *)
(* given time, or already connected and before two idle workers.           *)
(***************************************************************************)
EXTENDS MCWowNet

MCSpec == (Init \/ TwoConnected) /\ [][Next]_vars

\* Bound: a worker that has not started stays so.
SecondIsLate == workerPc[2] = "start" => workerPc'[2] = "start"

\* Bound: one owner connects at a time.
OneConnects ==
  \A c, d \in Conns : ownerPc[c] = "idle" /\ ownerPc'[c] # "idle" => ownerPc[d] = "idle"

\* Bound: before two workers, Disconnect is called of one of the connections and
\* while the other is up; with one worker it is of both.
OneDisconnects ==
  workerPc[2] # "start" =>
    \A c, d \in Conns :
      connState[c] = "CONNECTED" /\ connState'[c] = "DISCONNECTING" => connState[d] = "CONNECTED"
=============================================================================
