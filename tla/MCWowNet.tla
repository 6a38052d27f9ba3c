------------------------------ MODULE MCWowNet ------------------------------
(* WowNet on small sets of connections and workers.                        *)
EXTENDS WowNet

CONSTANTS c1, c2, c3

\* A reachable state to start from: c1 and c2 are connected, both workers wait
\* for work, the network thread is about to scan, and c3 has yet to connect.
TwoConnected ==
  /\ connState = [c \in Conns |-> IF c = c3 THEN "INITIALIZED" ELSE "CONNECTED"]
  /\ sock = [c \in Conns |-> IF c = c3 THEN "none" ELSE "open"]
  /\ refCount = [c \in Conns |-> 1]
  /\ responseRef = [c \in Conns |-> 0]
  /\ serviceCount = [c \in Conns |-> 0]
  /\ serviceFlags = [c \in Conns |-> {}]
  /\ lock = [c \in Conns |-> "free"]
  /\ ownerPc = [c \in Conns |-> "idle"]
  /\ connects = [c \in Conns |-> IF c = c3 THEN 0 ELSE 1]
  /\ linked = <<c1, c2>>
  /\ workerSem = NumWorkers
  /\ pipe = FALSE
  /\ netPc = "top" /\ netIdx = 3 /\ netFlags = {} /\ candidate = 1
  /\ slots = [i \in 1..NumSlots |-> IF i = 1 THEN c1 ELSE IF i = 2 THEN c2 ELSE NoConn]
  /\ slotCount = 2
  /\ interest = [c \in Conns |-> {}]
  /\ disconnecting = FALSE
  /\ workerPc = [w \in Workers |-> "idle"]
  /\ workerOp = [w \in Workers |-> "none"]
  /\ workerFlags = [w \in Workers |-> {}]
  /\ serviceConn = [w \in Workers |-> NoConn]
  /\ event = [w \in Workers |-> FALSE]
  /\ workerLock = [w \in Workers |-> FALSE]
  /\ staleSlot = FALSE
  /\ fault = "none"

ConnectedSpec == TwoConnected /\ [][Next]_vars
=============================================================================
