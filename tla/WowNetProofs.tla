---------------------------- MODULE WowNetProofs ----------------------------
(* Theorems about WowNet, for any number of connections and workers.       *)
EXTENDS WowNet, TLAPS, FiniteSetTheorems

-----------------------------------------------------------------------------
(* The inductive invariant.                                                *)

\* A connection is linked once.
LinkedOnce ==
  \A i, j \in 1..Len(linked) : linked[i] = linked[j] => i = j

\* Where the network thread is in the list and in its array
NetBounds ==
  /\ netPc = "scan" => netIdx <= Len(linked) + 1 /\ slotCount < netIdx
  /\ netPc = "walk" => netIdx <= slotCount + 1
  /\ netPc \in {"signal", "assign", "release"} =>
       netIdx <= slotCount /\ slots[netIdx] # NoConn

Busy == WorkerPcs \ {"start", "idle", "signal", "ready"}

\* A worker at work has a connection; one that was just given a connection has
\* not begun; worker.lock is held exactly while the connection is dropped.
WorkerHolds ==
  \A w \in Workers :
    /\ workerPc[w] \in Busy => serviceConn[w] # NoConn
    /\ event[w] => serviceConn[w] # NoConn /\ workerPc[w] \notin Busy
    /\ workerLock[w] <=> workerPc[w] = "drop"

StructInv == TypeOK /\ LinkedOnce /\ NetBounds /\ WorkerHolds

\* The slots the scan filled hold different connections, while it goes on only
\* ones it has passed.
SlotsDistinct ==
  netPc \notin {"start", "top"} =>
    /\ \A i, j \in 1..slotCount : slots[i] = slots[j] => i = j
    /\ \A i \in 1..slotCount :
         /\ slots[i] # NoConn
         /\ netPc = "scan" => \E k \in 1..(netIdx - 1) : slots[i] = linked[k]

\* Slot i waits for its turn in the walk.
Pending(i) ==
  \/ netPc \in {"scan", "select"}
  \/ netPc \in {"walk", "signal"} /\ netIdx <= i
  \/ netPc \in {"assign", "release"} /\ netIdx < i

\* Only SignalWorker raises m_serviceCount, so a connection found out of service
\* stays so until its slot is walked.
PendingIdle ==
  \A i \in 1..slotCount : Pending(i) => serviceCount[slots[i]] = 0

ServicedCounted ==
  \A w \in Workers : Servicing(w) => serviceCount[serviceConn[w]] > 0

\* The connection on its way to a worker is counted and with no other worker.
AssignedAlone ==
  netPc = "assign" =>
    /\ serviceCount[slots[netIdx]] > 0
    /\ \A w \in Workers : Servicing(w) => serviceConn[w] # slots[netIdx]

Distinct ==
  \A v, w \in Workers :
    Servicing(v) /\ Servicing(w) /\ serviceConn[v] = serviceConn[w] => v = w

NoBadHandOut ==
  fault \notin {"same connection assigned twice", "unwritten slot"}

Core ==
  /\ SlotsDistinct /\ PendingIdle /\ ServicedCounted /\ AssignedAlone
  /\ Distinct /\ NoBadHandOut

CoreInv == ~staleSlot => Core

IInv == StructInv /\ CoreInv

-----------------------------------------------------------------------------
(* The list of connections: Add and Remove.                                *)

LEMMA SlotsNat == NumSlots \in Nat
  BY FS_CardinalityType, WowNetAssumption DEF NumSlots

LEMMA CountTo == ASSUME NEW n \in Nat PROVE Cardinality(1..n) = n
<1>1. Cardinality(1..n) = IF 1 > n THEN 0 ELSE n - 1 + 1
  BY FS_Interval
<1> QED BY <1>1

\* A list that holds each connection once fits into the array.
LEMMA LinkedFits ==
  ASSUME linked \in Seq(Conns), LinkedOnce
  PROVE  Len(linked) <= NumSlots
<1>1. linked \in Injection(1..Len(linked), Conns)
  BY DEF LinkedOnce, Injection, IsInjective
<1>2. Len(linked) \in Nat /\ Cardinality(1..Len(linked)) = Len(linked)
  <2>1. Len(linked) \in Nat
    OBVIOUS
  <2> QED BY <2>1, CountTo
<1>3. Cardinality(1..Len(linked)) <= Cardinality(Conns)
  BY <1>1, FS_Injection, FS_Interval, WowNetAssumption
<1> QED
  BY <1>2, <1>3 DEF NumSlots

\* Without drops one entry of a list that holds it once, and keeps the rest.
LEMMA WithoutType ==
  ASSUME NEW s \in Seq(Conns), NEW c \in Conns,
         \E i \in 1..Len(s) : s[i] = c,
         \A i, j \in 1..Len(s) : s[i] = s[j] => i = j
  PROVE  /\ Without(s, c) \in Seq(Conns)
         /\ \A i, j \in 1..Len(Without(s, c)) :
              Without(s, c)[i] = Without(s, c)[j] => i = j
<1> DEFINE at == CHOOSE i \in 1..Len(s) : s[i] = c
           t == [i \in 1..(Len(s) - 1) |-> IF i < at THEN s[i] ELSE s[i + 1]]
<1>1. at \in 1..Len(s) /\ s[at] = c
  OBVIOUS
<1>2. Without(s, c) = t
  BY DEF Without
<1> HIDE DEF at
<1>3. t \in Seq(Conns) /\ Len(t) = Len(s) - 1
  BY <1>1
<1>4. \A i, j \in 1..Len(t) : t[i] = t[j] => i = j
  BY <1>1, <1>3
<1> QED
  BY <1>2, <1>3, <1>4

\* Add and Remove keep each connection in the list once, and leave the list
\* alone while it is scanned.
LEMMA AddKeepsLinked ==
  ASSUME StructInv, NEW c \in Conns, Add(c)
  PROVE  linked' \in Seq(Conns) /\ LinkedOnce' /\ pipe' \in BOOLEAN
         /\ netPc # "scan"
<1>1. linked \in Seq(Conns) /\ LinkedOnce /\ pipe \in BOOLEAN /\ netPc # "scan"
  BY DEF Add, StructInv, TypeOK, SharedTypeOK, ConnectionsLockFree
<1>2. pipe' \in BOOLEAN
  BY <1>1 DEF Add, PlatformAdd, WritePipe
<1>3. CASE IsLinked(c)
  BY <1>1, <1>2, <1>3 DEF Add, LinkedOnce
<1>4. CASE ~IsLinked(c)
  <2>1. linked' = Append(linked, c)
    BY <1>4 DEF Add
  <2> QED
    BY <1>1, <1>2, <1>4, <2>1 DEF LinkedOnce, IsLinked
<1> QED BY <1>3, <1>4

LEMMA RemoveKeepsLinked ==
  ASSUME StructInv, NEW c \in Conns, Remove(c)
  PROVE  linked' \in Seq(Conns) /\ LinkedOnce' /\ pipe' \in BOOLEAN
         /\ netPc # "scan"
<1>1. linked \in Seq(Conns) /\ LinkedOnce /\ pipe \in BOOLEAN /\ netPc # "scan"
  BY DEF Remove, StructInv, TypeOK, SharedTypeOK, ConnectionsLockFree
<1>2. pipe' \in BOOLEAN
  BY <1>1 DEF Remove, PlatformRemove, WritePipe
<1>3. CASE IsLinked(c)
  <2>1. linked' = Without(linked, c)
    BY <1>3 DEF Remove
  <2> QED
    BY <1>1, <1>2, <1>3, <2>1, WithoutType DEF LinkedOnce, IsLinked
<1>4. CASE ~IsLinked(c)
  BY <1>1, <1>2, <1>4 DEF Remove, LinkedOnce
<1> QED BY <1>3, <1>4

-----------------------------------------------------------------------------
(* StructInv: types, and where each thread is.                             *)

LEMMA InitStruct == Init => StructInv
<1> SUFFICES ASSUME Init PROVE StructInv
  OBVIOUS
<1>1. NumSlots \in Nat /\ 1 \in Workers
  BY SlotsNat, WowNetAssumption DEF Workers
<1>2. ConnTypeOK
  BY DEF Init, ConnTypeOK, States
<1>3. OwnerTypeOK
  BY DEF Init, OwnerTypeOK, OwnerPcs
<1>4. SharedTypeOK
  <2>1. linked = <<>> /\ workerSem = 0 /\ fault = "none" /\ pipe = FALSE
    BY DEF Init
  <2>2. linked \in Seq(Conns) /\ workerSem \in Nat /\ fault \in Faults
    BY <2>1 DEF Faults
  <2> QED BY <2>1, <2>2 DEF SharedTypeOK
<1>5. NetTypeOK
  <2>1. /\ netPc = "start" /\ netIdx = 1 /\ netFlags = {} /\ candidate = 1
        /\ slots = [i \in 1..NumSlots |-> NoConn] /\ slotCount = 0
        /\ interest = [c \in Conns |-> {}]
    BY DEF Init
  <2>2. disconnecting \in BOOLEAN /\ staleSlot \in BOOLEAN
    BY DEF Init
  <2> QED BY <1>1, <2>1, <2>2 DEF NetTypeOK
<1>6. WorkerTypeOK
  BY DEF Init, WorkerTypeOK, WorkerPcs, Ops
<1>7. LinkedOnce /\ NetBounds /\ WorkerHolds
  BY DEF Init, LinkedOnce, NetBounds, WorkerHolds, Busy
<1> QED BY <1>2, <1>3, <1>4, <1>5, <1>6, <1>7 DEF StructInv, TypeOK

\* An owner touches only its connection and the list.
LEMMA OwnerStruct ==
  ASSUME StructInv, NEW c \in Conns, Owner(c)
  PROVE  StructInv'
<1> USE DEF StructInv, TypeOK
<1> DEFINE MyStep ==
      /\ \E from, to \in OwnerPcs : OwnerStep(c, from, to)
      /\ connState' \in [Conns -> States]
      /\ sock' \in [Conns -> {"none", "open", "closed"}]
      /\ lock' \in [Conns -> {"free", "owner", "worker", "disconnect"}]
      /\ connects' \in [Conns -> Nat]
      /\ linked' \in Seq(Conns) /\ LinkedOnce' /\ pipe' \in BOOLEAN
      /\ netPc = "scan" => UNCHANGED linked
<1>1. MyStep
  <2>1. CASE StartConnect(c)
    <3>1. linked' \in Seq(Conns) /\ LinkedOnce' /\ pipe' \in BOOLEAN
          /\ (netPc = "scan" => UNCHANGED linked)
      BY <2>1, RemoveKeepsLinked DEF StartConnect, SharedTypeOK, LinkedOnce
    <3>2. connects' \in [Conns -> Nat]
      <4>1. connects' = [connects EXCEPT ![c] = @ + 1]
        BY <2>1 DEF StartConnect
      <4> QED BY <4>1 DEF OwnerTypeOK
    <3>3. OwnerStep(c, "idle", "create") \/ OwnerStep(c, "idle", "close old")
      BY <2>1 DEF StartConnect
    <3> QED
      BY <2>1, <3>1, <3>2, <3>3 DEF StartConnect, ConnTypeOK, OwnerPcs
  <2>2. CASE CloseOldSocket(c) \/ ForgetOldSocket(c)
    BY <2>2 DEF CloseOldSocket, ForgetOldSocket, Closed, ConnTypeOK, OwnerTypeOK,
       SharedTypeOK, OwnerPcs, LinkedOnce
  <2>3. CASE CreateSocket(c) \/ ConnectSyscall(c)
    BY <2>3 DEF CreateSocket, ConnectSyscall, Leave, SetState, ConnTypeOK, OwnerTypeOK,
       SharedTypeOK, OwnerPcs, LinkedOnce, States
  <2>4. CASE AddConnection(c)
    BY <2>4, AddKeepsLinked DEF AddConnection, ConnTypeOK, OwnerTypeOK, OwnerPcs
  <2>5. CASE SetConnecting(c) \/ SetError(c) \/ CloseFailed(c)
    BY <2>5 DEF SetConnecting, SetError, CloseFailed, SetState, ConnTypeOK,
       OwnerTypeOK, SharedTypeOK, OwnerPcs, LinkedOnce, States
  <2>6. CASE NotifyConnecting(c) \/ LeaveConnect(c)
    BY <2>6 DEF NotifyConnecting, LeaveConnect, Leave, PlatformChangeState,
       WritePipe, ConnTypeOK, OwnerTypeOK,
       SharedTypeOK, OwnerPcs, LinkedOnce
  <2>7. CASE RemoveFailed(c)
    BY <2>7, RemoveKeepsLinked DEF RemoveFailed, ConnTypeOK, OwnerTypeOK, OwnerPcs
  <2> QED
    BY <2>1, <2>2, <2>3, <2>4, <2>5, <2>6, <2>7 DEF Owner
<1>2. TypeOK'
  BY ZenonT(30), <1>1 DEF OwnerStep, ConnTypeOK, OwnerTypeOK, SharedTypeOK, NetTypeOK,
     WorkerTypeOK, netVars, workerVars
<1>3. NetBounds' /\ WorkerHolds'
  BY <1>1 DEF OwnerStep, NetBounds, WorkerHolds, netVars, workerVars
<1> QED BY <1>1, <1>2, <1>3

\* Disconnect touches the state, the lock and the pipe.
LEMMA DisconnectStruct ==
  ASSUME StructInv, NEW c \in Conns, Disconnect(c) \/ DisconnectNotify(c)
  PROVE  StructInv'
<1> USE DEF StructInv, TypeOK
<1>1. connState' \in [Conns -> States]
      /\ lock' \in [Conns -> {"free", "owner", "worker", "disconnect"}]
  BY DEF Disconnect, DisconnectNotify, Leave, SetState, ConnTypeOK, States
<1>2. pipe' \in BOOLEAN
  BY DEF Disconnect, DisconnectNotify, PlatformChangeState, WritePipe, SharedTypeOK
<1>3. UNCHANGED <<sock, refCount, responseRef, serviceCount, serviceFlags, linked,
                  workerSem, fault, ownerVars, netVars, workerVars>>
  BY DEF Disconnect, DisconnectNotify
<1>4. TypeOK'
  BY <1>1, <1>2, <1>3 DEF ConnTypeOK, OwnerTypeOK, SharedTypeOK, NetTypeOK,
     WorkerTypeOK, ownerVars, netVars, workerVars
<1>5. LinkedOnce' /\ NetBounds' /\ WorkerHolds'
  BY <1>3 DEF LinkedOnce, NetBounds, WorkerHolds, netVars, workerVars
<1> QED BY <1>4, <1>5

LEMMA SlotIsConn ==
  ASSUME StructInv, netIdx <= slotCount, slots[netIdx] # NoConn
  PROVE  slots[netIdx] \in Conns
<1>1. /\ netIdx \in 1..(NumSlots + 1) /\ slotCount \in 0..NumSlots
      /\ slots \in [1..NumSlots -> Conns \cup {NoConn}]
  BY DEF StructInv, TypeOK, NetTypeOK
<1> QED BY <1>1, SlotsNat

\* The network thread stays within its array.
LEMMA NetworkStruct ==
  ASSUME StructInv, Network
  PROVE  StructInv'
<1> USE DEF StructInv, TypeOK
<1>1. linked \in Seq(Conns) /\ Len(linked) \in Nat /\ Len(linked) <= NumSlots
  BY LinkedFits DEF SharedTypeOK
<1>2. NumSlots \in Nat /\ 1 \in Workers
  BY SlotsNat, WowNetAssumption DEF Workers
<1>3. UNCHANGED linked /\ LinkedOnce' /\ OwnerTypeOK'
  BY DEF Network, OpenPipe, BeginScan, ScanConnection, EndScan, SelectWake,
     SelectReady, SelectReturns, WalkSlot, TakeWorker, NoWorker, AssignWorker,
     ReleaseSlot, EndWalk, NetUnchanged, ownerVars, OwnerTypeOK, LinkedOnce
<1>4. CASE OpenPipe \/ BeginScan \/ EndScan \/ SelectWake \/ SelectReady
           \/ NoWorker \/ EndWalk
  <2>1. ConnTypeOK' /\ SharedTypeOK' /\ WorkerTypeOK' /\ WorkerHolds'
    BY <1>3, <1>4 DEF OpenPipe, BeginScan, EndScan, SelectWake, SelectReady,
       SelectReturns, NoWorker, EndWalk, NetUnchanged, connVars, workerVars,
       ConnTypeOK, SharedTypeOK, WorkerTypeOK, WorkerHolds
  <2>2. disconnecting' \in BOOLEAN /\ staleSlot' \in BOOLEAN
    BY <1>4 DEF OpenPipe, BeginScan, EndScan, SelectWake, SelectReady,
       SelectReturns, NoWorker, EndWalk, NetTypeOK
  <2>3. /\ netPc' \in {"start", "top", "scan", "select", "walk", "release"}
        /\ UNCHANGED <<candidate, slots>>
        /\ netFlags' \in SUBSET Flags
        /\ interest' \in [Conns -> SUBSET Flags]
    BY <1>4 DEF OpenPipe, BeginScan, EndScan, SelectWake, SelectReady,
       SelectReturns, NoWorker, EndWalk, NetAt, NetUnchanged, NetTypeOK
  <2>4. netIdx' \in 1..(NumSlots + 1) /\ slotCount' \in 0..NumSlots /\ NetBounds'
    BY <1>1, <1>2, <1>3, <1>4 DEF OpenPipe, BeginScan, EndScan, SelectWake,
       SelectReady, SelectReturns, NoWorker, EndWalk, NetAt, NetUnchanged,
       NetTypeOK, NetBounds
  <2>5. NetTypeOK'
    BY <2>2, <2>3, <2>4 DEF NetTypeOK
  <2> QED BY <1>3, <2>1, <2>4, <2>5
<1>5. CASE ScanConnection
  <2> DEFINE c == linked[netIdx]
  <2>1. c \in Conns /\ netIdx <= Len(linked) /\ slotCount < netIdx
        /\ netIdx \in Nat /\ netPc = "scan"
    BY <1>1, <1>5 DEF ScanConnection, NetAt, SharedTypeOK, NetTypeOK, NetBounds
  <2>2. UNCHANGED <<workerVars, connState, sock, responseRef, serviceCount,
                    serviceFlags, lock, workerSem, pipe, netPc, netFlags, fault,
                    candidate>>
    BY <1>5 DEF ScanConnection, NetUnchanged
  <2>3. ConnTypeOK'
    <3>1. refCount' \in [Conns -> Int]
      BY <1>5, <2>1 DEF ScanConnection, ConnTypeOK
    <3> QED BY <2>2, <3>1 DEF ConnTypeOK
  <2>4. SharedTypeOK' /\ WorkerTypeOK' /\ WorkerHolds'
    BY <1>3, <2>2 DEF SharedTypeOK, WorkerTypeOK, WorkerHolds, workerVars
  <2>5. disconnecting' \in BOOLEAN /\ staleSlot' \in BOOLEAN
    BY <1>5 DEF ScanConnection, NetTypeOK
  <2>6. interest' \in [Conns -> SUBSET Flags]
    <3>1. Wanted(connState[c]) \in SUBSET Flags
      BY DEF Wanted, Flags
    <3> QED BY <1>5, <2>1, <3>1 DEF ScanConnection, NetTypeOK
  <2>7. /\ netIdx' = netIdx + 1
        /\ slotCount' \in {slotCount, slotCount + 1}
        /\ slots' \in [1..NumSlots -> Conns \cup {NoConn}]
    BY <1>5, <2>1 DEF ScanConnection, NetTypeOK
  <2>8. netIdx' \in 1..(NumSlots + 1) /\ slotCount' \in 0..NumSlots /\ NetBounds'
    BY <1>1, <1>2, <1>3, <2>1, <2>2, <2>7 DEF NetTypeOK, NetBounds
  <2>9. NetTypeOK'
    BY <2>2, <2>5, <2>6, <2>7, <2>8 DEF NetTypeOK
  <2> QED BY <1>3, <2>3, <2>4, <2>8, <2>9
<1>6. CASE WalkSlot
  <2> DEFINE c == slots[netIdx]
  <2>1. UNCHANGED <<connVars, workerVars, linked, workerSem, pipe, netIdx, slots,
                    slotCount, interest, candidate>>
    BY <1>6 DEF WalkSlot, NetUnchanged
  <2>2. netIdx <= slotCount /\ netPc = "walk" /\ fault' \in Faults
    BY <1>6 DEF WalkSlot, NetAt, SharedTypeOK, Faults
  <2>3. disconnecting' \in BOOLEAN /\ staleSlot' \in BOOLEAN
    BY <1>6 DEF WalkSlot, NetTypeOK
  <2>4. /\ netFlags' \in SUBSET Flags
        /\ netPc' \in {"walk", "signal", "release"}
        /\ netPc' # "walk" => c # NoConn
    <3>1. CASE c = NoConn
      BY <1>6, <3>1 DEF WalkSlot, NetAt, NetTypeOK
    <3>2. CASE c # NoConn
      <4>1. c \in Conns
        BY <2>2, <3>2, SlotIsConn
      <4>2. PICK ready \in SUBSET interest[c] :
              netFlags' = (IF sock[c] = "none" THEN {} ELSE ready)
                          \cup (IF connState[c] = "DISCONNECTING"
                                THEN {"disconnect"} ELSE {})
        BY <1>6, <3>2 DEF WalkSlot
      <4>3. ready \subseteq Flags
        BY <4>1 DEF NetTypeOK
      <4>4. netFlags' \subseteq Flags
        BY <4>2, <4>3 DEF Flags
      <4>5. netPc' \in {"signal", "release"}
        BY <1>6, <3>2 DEF WalkSlot
      <4> QED BY <3>2, <4>4, <4>5
    <3> QED BY <3>1, <3>2
  <2>5. NetTypeOK' /\ NetBounds'
    <3>1. NetTypeOK'
      BY <2>1, <2>3, <2>4 DEF NetTypeOK
    <3>2. NetBounds'
      BY <2>1, <2>2, <2>4 DEF NetTypeOK, NetBounds
    <3> QED BY <3>1, <3>2
  <2>6. ConnTypeOK' /\ SharedTypeOK' /\ WorkerTypeOK' /\ WorkerHolds'
    BY <2>1, <2>2 DEF ConnTypeOK, SharedTypeOK, WorkerTypeOK, WorkerHolds,
       connVars, workerVars
  <2> QED BY <1>3, <2>5, <2>6
<1>7. CASE TakeWorker
  <2> DEFINE c == slots[netIdx]
  <2>1. /\ UNCHANGED <<workerVars, linked, connState, sock, responseRef, lock,
                       pipe, netIdx, slots, slotCount, interest, disconnecting,
                       staleSlot, fault>>
        /\ netPc = "signal" /\ netPc' = "assign" /\ netFlags' = {} /\ candidate' = 1
    BY <1>7 DEF TakeWorker, NetAt
  <2>2. workerSem' \in Nat
    BY <1>7 DEF TakeWorker, SharedTypeOK
  <2>3. c \in Conns
    BY <2>1, SlotIsConn DEF NetBounds
  <2>4. /\ refCount' \in [Conns -> Int]
        /\ serviceCount' \in [Conns -> Int]
        /\ serviceFlags' \in [Conns -> SUBSET Flags]
    BY <1>7, <2>3 DEF TakeWorker, ConnTypeOK, NetTypeOK
  <2>5. ConnTypeOK' /\ SharedTypeOK' /\ WorkerTypeOK' /\ WorkerHolds'
    BY <2>1, <2>2, <2>4 DEF ConnTypeOK, SharedTypeOK, WorkerTypeOK, WorkerHolds,
       workerVars
  <2>6. NetTypeOK'
    BY <1>2, <2>1 DEF NetTypeOK
  <2>7. NetBounds'
    BY <2>1 DEF NetBounds
  <2> QED BY <1>3, <2>5, <2>6, <2>7
<1>8. CASE AssignWorker
  <2> DEFINE c == slots[netIdx]
  <2>1. /\ UNCHANGED <<connVars, linked, workerSem, pipe, netIdx, netFlags, slots,
                       slotCount, interest, disconnecting, staleSlot, workerPc,
                       workerOp, workerFlags, workerLock>>
        /\ netPc = "assign" /\ netPc' \in {"assign", "release"}
        /\ candidate' \in {candidate, candidate + 1}
        /\ candidate' # candidate => candidate < NumWorkers
    BY <1>8 DEF AssignWorker, NetAt
  <2>2. c \in Conns
    BY <2>1, SlotIsConn DEF NetBounds
  <2>3. candidate \in Workers /\ candidate' \in Workers
    BY <2>1, WowNetAssumption DEF NetTypeOK, Workers
  <2>4. fault' \in Faults
    BY <1>8 DEF AssignWorker, SharedTypeOK, Faults
  <2>5. serviceConn' \in [Workers -> Conns \cup {NoConn}]
    BY <1>8, <2>3, <2>2 DEF AssignWorker, WorkerTypeOK
  <2>6. event' \in [Workers -> BOOLEAN]
    BY <1>8, <2>3 DEF AssignWorker, WorkerTypeOK
  <2>7. WorkerHolds'
    <3>1. CASE serviceConn[candidate] = NoConn
      <4>1. /\ serviceConn' = [serviceConn EXCEPT ![candidate] = c]
            /\ event' = [event EXCEPT ![candidate] = TRUE]
            /\ UNCHANGED <<workerPc, workerLock>>
            /\ workerPc[candidate] \notin Busy
        BY <1>8, <2>3, <3>1 DEF AssignWorker, WorkerHolds
      <4>2. c # NoConn
        BY <2>2, WowNetAssumption
      <4> QED BY <2>3, <4>1, <4>2 DEF WorkerHolds, WorkerTypeOK
    <3>2. CASE serviceConn[candidate] # NoConn
      BY <1>8, <3>2 DEF AssignWorker, WorkerHolds
    <3> QED BY <3>1, <3>2
  <2>8. WorkerTypeOK'
    BY <2>1, <2>5, <2>6 DEF WorkerTypeOK
  <2>9. ConnTypeOK' /\ SharedTypeOK'
    BY <2>1, <2>4 DEF ConnTypeOK, SharedTypeOK, connVars
  <2>10. NetTypeOK' /\ NetBounds'
    BY <2>3, <2>1, <2>2 DEF NetTypeOK, NetBounds
  <2> QED BY <1>3, <2>7, <2>8, <2>9, <2>10
<1>9. CASE ReleaseSlot
  <2> DEFINE c == slots[netIdx]
  <2>1. /\ UNCHANGED <<workerVars, linked, connState, sock, responseRef,
                       serviceCount, serviceFlags, lock, workerSem, pipe, netFlags,
                       slots, slotCount, interest, disconnecting, staleSlot,
                       candidate>>
        /\ netPc = "release" /\ netPc' = "walk" /\ netIdx' = netIdx + 1
        /\ netIdx <= slotCount
    BY <1>9 DEF ReleaseSlot, NetUnchanged, NetAt, NetBounds
  <2>2. c \in Conns
    BY <2>1, SlotIsConn DEF NetBounds
  <2>3. refCount' \in [Conns -> Int] /\ fault' \in Faults
    <3>1. refCount' = [refCount EXCEPT ![c] = @ - 1] /\ fault' \in {fault, "freed"}
      BY <1>9 DEF ReleaseSlot, Release
    <3>2. refCount' \in [Conns -> Int]
      BY <2>2, <3>1 DEF ConnTypeOK
    <3>3. fault' \in Faults
      BY <3>1 DEF SharedTypeOK, Faults
    <3> QED BY <3>2, <3>3
  <2>4. ConnTypeOK' /\ SharedTypeOK' /\ WorkerTypeOK' /\ WorkerHolds'
    BY <2>1, <2>3 DEF ConnTypeOK, SharedTypeOK, WorkerTypeOK, WorkerHolds,
       workerVars
  <2>5. netIdx' \in 1..(NumSlots + 1) /\ NetBounds'
    BY <1>2, <2>1 DEF NetTypeOK, NetBounds
  <2>6. NetTypeOK'
    BY <2>1, <2>5 DEF NetTypeOK
  <2> QED BY <1>3, <2>4, <2>5, <2>6
<1> QED
  BY <1>4, <1>5, <1>6, <1>7, <1>8, <1>9 DEF Network

\* A worker at work has a connection, whose fields and lock it changes.
LEMMA WorkerConn ==
  ASSUME StructInv, NEW w \in Workers, event[w] \/ workerPc[w] \in Busy
  PROVE  serviceConn[w] \in Conns
  BY DEF StructInv, TypeOK, WorkerTypeOK, WorkerHolds

LEMMA WorkerConnType ==
  ASSUME StructInv, NEW w \in Workers, Worker(w)
  PROVE  ConnTypeOK'
<1> DEFINE c == serviceConn[w]
<1> USE DEF StructInv, TypeOK
<1>1. CASE WorkerStart(w) \/ SignalFree(w) \/ WorkerReady(w)
  BY <1>1 DEF WorkerStart, SignalFree, WorkerReady, connVars, ConnTypeOK
<1>2. CASE WorkerWakes(w)
  BY <1>2, WorkerConn DEF WorkerWakes, Mine, ConnTypeOK
<1>3. ASSUME workerPc[w] \in Busy, ~WorkerWakes(w), ~WorkerStart(w),
             ~SignalFree(w), ~WorkerReady(w)
      PROVE  ConnTypeOK'
  <2>1. c \in Conns
    BY <1>3, WorkerConn
  <2>2. CASE DoWritesOrExceptions(w, "write") \/ DoWritesOrExceptions(w, "error")
    BY <2>1, <2>2 DEF DoWritesOrExceptions, BeginFlag, EnterConnection, Mine,
       ConnTypeOK
  <2>3. CASE DoReads(w)
    <3>1. /\ UNCHANGED <<connState, sock, responseRef, serviceCount, serviceFlags>>
          /\ \/ UNCHANGED <<lock, refCount>>
             \/ EnterConnection(w, 1)
      BY <2>3 DEF DoReads, BeginFlag
    <3> QED BY <2>1, <3>1 DEF EnterConnection, Mine, ConnTypeOK
  <2>4. CASE DoDisconnect(w)
    BY <2>1, <2>4 DEF DoDisconnect, BeginFlag, EnterConnection, Mine, ConnTypeOK
  <2>5. CASE CheckConnect(w)
    BY <2>1, <2>5 DEF CheckConnect, Inside, SetState, Leave, Release, Mine, States,
       ConnTypeOK
  <2>6. CASE RemoveConnection(w) \/ CloseConnection(w) \/ SetDisconnected(w)
    BY <2>1, <2>6 DEF RemoveConnection, CloseConnection, SetDisconnected, Inside,
       SetState, Closed, Mine, States, ConnTypeOK
  <2>7. CASE Announce(w)
    <3>1. /\ UNCHANGED <<connState, sock, serviceCount, serviceFlags>>
          /\ Leave(c)
          /\ refCount' \in {refCount, [refCount EXCEPT ![c] = @ + 1]}
          /\ responseRef' \in {responseRef, [responseRef EXCEPT ![c] = @ + 1]}
      BY <2>7 DEF Announce, AcquireResponseRef, Inside, Mine
    <3> QED BY <2>1, <3>1 DEF Leave, Mine, ConnTypeOK
  <2>8. CASE RecvData(w)
    <3>1. /\ UNCHANGED <<connState, sock, refCount, serviceCount, serviceFlags>>
          /\ Leave(c)
          /\ responseRef' = [responseRef EXCEPT ![c] = @ + 1]
      BY <2>8 DEF RecvData, AcquireResponseRef, Inside, Mine
    <3> QED BY <2>1, <3>1 DEF Leave, Mine, ConnTypeOK
  <2>9. CASE RecvNothing(w) \/ RecvEnd(w)
    <3>1. /\ UNCHANGED <<connState, sock, serviceCount, serviceFlags>>
          /\ \/ UNCHANGED <<refCount, lock>>
                /\ responseRef' = [responseRef EXCEPT ![c] = @ + 1]
             \/ UNCHANGED responseRef /\ LeaveReads(w)
      BY <2>9 DEF RecvNothing, RecvEnd, AcquireResponseRef, Inside,
         Mine
    <3> QED BY <2>1, <3>1 DEF LeaveReads, Leave, Release, Mine, ConnTypeOK
  <2>10. CASE CallbackReturns(w)
    <3>1. /\ UNCHANGED <<connState, serviceCount, serviceFlags>>
          /\ responseRef' = [responseRef EXCEPT ![c] = @ - 1]
          /\ sock' \in {sock, [sock EXCEPT ![c] = "none"]}
          /\ lock' \in {lock, [lock EXCEPT ![c] = "free"], [lock EXCEPT ![c] = "worker"]}
          /\ refCount' \in {refCount, [refCount EXCEPT ![c] = @ - 1],
                            [refCount EXCEPT ![c] = @ - 2]}
      BY <2>10 DEF CallbackReturns, LeaveReads, Leave, Release, Inside, Mine
    <3> QED BY <2>1, <3>1 DEF ConnTypeOK
  <2>11. CASE ReloadFlags(w) \/ EndService(w)
    BY <2>1, <2>11 DEF ReloadFlags, EndService, Mine, ConnTypeOK
  <2>12. CASE DropConnection(w)
    BY <2>1, <2>12 DEF DropConnection, Release, Mine, ConnTypeOK
  <2> QED
    BY <1>3, <2>2, <2>3, <2>4, <2>5, <2>6, <2>7, <2>8, <2>9, <2>10, <2>11,
       <2>12 DEF Worker
<1>4. Worker(w) => \/ WorkerStart(w) \/ SignalFree(w) \/ WorkerReady(w)
                  \/ WorkerWakes(w) \/ workerPc[w] \in Busy
  BY DEF Worker, Busy, WorkerPcs, WorkerStep, Inside, BeginFlag,
     DoWritesOrExceptions, DoReads, DoDisconnect, CheckConnect, RemoveConnection,
     CloseConnection, SetDisconnected, Announce, RecvData, RecvNothing, RecvEnd,
      CallbackReturns, ReloadFlags, EndService,
     DropConnection
<1> QED
  BY <1>1, <1>2, <1>3, <1>4

LEMMA WorkerFrame ==
  ASSUME NEW w \in Workers, Worker(w)
  PROVE  UNCHANGED <<ownerVars, netVars>>
  BY DEF Worker, WorkerStep, Inside, BeginFlag, WorkerStart, WorkerWakes, DoWritesOrExceptions,
     DoReads, DoDisconnect, CheckConnect, RemoveConnection, CloseConnection,
     SetDisconnected, Announce, RecvData, RecvNothing, RecvEnd,  CallbackReturns, ReloadFlags, EndService, DropConnection,
     SignalFree, WorkerReady

\* Only RemoveConnection changes the list.
LEMMA WorkerShared ==
  ASSUME StructInv, NEW w \in Workers, Worker(w)
  PROVE  /\ SharedTypeOK' /\ LinkedOnce'
         /\ netPc = "scan" => UNCHANGED linked
<1> USE DEF StructInv, TypeOK
<1>1. fault' \in Faults
  <2>1. fault' \in {fault, "freed", "response referenced twice"}
    BY DEF Worker, Inside, BeginFlag, Release, AcquireResponseRef, LeaveReads,
     WorkerStart, WorkerWakes, DoWritesOrExceptions,
     DoReads, DoDisconnect, CheckConnect, RemoveConnection, CloseConnection,
     SetDisconnected, Announce, RecvData, RecvNothing, RecvEnd,  CallbackReturns, ReloadFlags, EndService, DropConnection,
     SignalFree, WorkerReady
  <2> QED BY <2>1 DEF SharedTypeOK, Faults
<1>2. workerSem' \in Nat
  <2>1. workerSem' \in {workerSem, workerSem + 1}
    BY DEF Worker, Inside, BeginFlag, SignalWorkerSem, WorkerStart, WorkerWakes, DoWritesOrExceptions,
     DoReads, DoDisconnect, CheckConnect, RemoveConnection, CloseConnection,
     SetDisconnected, Announce, RecvData, RecvNothing, RecvEnd,  CallbackReturns, ReloadFlags, EndService, DropConnection,
     SignalFree, WorkerReady
  <2> QED BY <2>1 DEF SharedTypeOK
<1>3. CASE RemoveConnection(w)
  <2>1. serviceConn[w] \in Conns
    BY <1>3, WorkerConn DEF RemoveConnection, Inside, WorkerStep, Busy, WorkerPcs
  <2> QED
    BY <1>1, <1>2, <1>3, <2>1, RemoveKeepsLinked DEF RemoveConnection, Mine,
       SharedTypeOK
<1>4. CASE ~RemoveConnection(w)
  <2>1. UNCHANGED linked
    BY <1>4 DEF Worker, Inside, BeginFlag, PlatformChangeState,
     PlatformWorkerReady, WorkerStart, WorkerWakes, DoWritesOrExceptions,
     DoReads, DoDisconnect, CheckConnect, RemoveConnection, CloseConnection,
     SetDisconnected, Announce, RecvData, RecvNothing, RecvEnd,  CallbackReturns, ReloadFlags, EndService, DropConnection,
     SignalFree, WorkerReady
  <2>2. pipe' \in BOOLEAN
    <3>1. UNCHANGED pipe \/ WritePipe
      BY <1>4 DEF Worker, Inside, BeginFlag, PlatformChangeState,
     PlatformWorkerReady, WorkerStart, WorkerWakes, DoWritesOrExceptions,
     DoReads, DoDisconnect, CheckConnect, RemoveConnection, CloseConnection,
     SetDisconnected, Announce, RecvData, RecvNothing, RecvEnd,  CallbackReturns, ReloadFlags, EndService, DropConnection,
     SignalFree, WorkerReady
    <3> QED BY <3>1 DEF WritePipe, SharedTypeOK
  <2> QED BY <1>1, <1>2, <2>1, <2>2 DEF SharedTypeOK, LinkedOnce
<1> QED BY <1>3, <1>4

\* What the steps of a worker have in common: Service and all it calls leave
\* serviceConn, the event and worker.lock alone.
Serves(w) ==
  /\ workerPc[w] \in Busy \ {"finish", "drop"}
  /\ \E pc \in Busy \ {"drop"} : workerPc' = [workerPc EXCEPT ![w] = pc]
  /\ workerOp' \in {workerOp} \cup {[workerOp EXCEPT ![w] = op] : op \in Ops}
  /\ UNCHANGED <<serviceConn, event, workerLock, serviceCount>>

LEMMA ServesCases ==
  ASSUME NEW w \in Workers, StructInv, Worker(w)
  PROVE  \/ Serves(w) \/ WorkerStart(w) \/ WorkerWakes(w) \/ EndService(w)
         \/ DropConnection(w) \/ SignalFree(w) \/ WorkerReady(w)
<1>1. CASE DoWritesOrExceptions(w, "write") \/ DoWritesOrExceptions(w, "error")
  BY <1>1 DEF DoWritesOrExceptions, BeginFlag, WorkerStep, Serves, Busy, WorkerPcs,
     Ops
<1>2. CASE DoReads(w)
  BY <1>2 DEF DoReads, BeginFlag, WorkerStep, Serves, Busy, WorkerPcs, Ops
<1>3. CASE DoDisconnect(w)
  <2>1. \/ BeginFlag(w, "disconnect", "state", "disconnect")
        \/ BeginFlag(w, "disconnect", "remove", "disconnect")
    BY <1>3 DEF DoDisconnect
  <2> QED BY <2>1 DEF BeginFlag, WorkerStep, Serves, Busy, WorkerPcs, Ops
<1>4. CASE CheckConnect(w)
  BY <1>4 DEF CheckConnect, Inside, WorkerStep, Serves, Busy, WorkerPcs, Ops
<1>5. CASE RemoveConnection(w) \/ CloseConnection(w) \/ SetDisconnected(w)
           \/ Announce(w) \/ RecvData(w)
  BY <1>5 DEF RemoveConnection, CloseConnection, SetDisconnected, Announce, RecvData,
     Inside, WorkerStep, Serves, Busy, WorkerPcs, Ops
<1>6. CASE RecvNothing(w) \/ RecvEnd(w)
  BY <1>6 DEF RecvNothing, RecvEnd,  LeaveReads,
     Inside, WorkerStep, Serves, Busy, WorkerPcs, Ops
<1>7. CASE CallbackReturns(w)
  BY <1>7 DEF CallbackReturns, LeaveReads, Inside, WorkerStep, Serves, Busy,
     WorkerPcs, Ops
<1>8. CASE ReloadFlags(w)
  <2>1. \/ WorkerStep(w, "service", "service")
        \/ WorkerStep(w, "service", "finish")
    BY <1>8 DEF ReloadFlags
  <2>2. UNCHANGED <<workerOp, serviceConn, event, workerLock, serviceCount>>
    BY <1>8 DEF ReloadFlags
  <2> QED BY <2>1, <2>2 DEF WorkerStep, Serves, Busy, WorkerPcs, Ops
<1> QED BY <1>1, <1>2, <1>3, <1>4, <1>5, <1>6, <1>7, <1>8 DEF Worker

LEMMA WorkerOwn ==
  ASSUME StructInv, NEW w \in Workers, Worker(w)
  PROVE  WorkerTypeOK' /\ WorkerHolds'
<1> USE DEF StructInv, TypeOK
<1>1. workerFlags' \in [Workers -> SUBSET Flags]
  <2>1. \E f \in SUBSET Flags : workerFlags' = [workerFlags EXCEPT ![w] = f]
    <3>1. CASE WorkerWakes(w) \/ ReloadFlags(w)
      <4>1. serviceConn[w] \in Conns
        BY <3>1, WorkerConn DEF WorkerWakes, ReloadFlags, WorkerStep, Busy, WorkerPcs
      <4> QED BY <3>1, <4>1 DEF WorkerWakes, ReloadFlags, Mine, ConnTypeOK
    <3>2. CASE ~WorkerWakes(w) /\ ~ReloadFlags(w)
      <4>1. \/ workerFlags' = workerFlags
            \/ \E f \in Flags : workerFlags' = [workerFlags EXCEPT ![w] = @ \ {f}]
        BY <3>2 DEF Worker, Inside, BeginFlag, Flags, WorkerStart,
     DoWritesOrExceptions, DoReads, DoDisconnect, CheckConnect, RemoveConnection,
     CloseConnection, SetDisconnected, Announce, RecvData, RecvNothing, RecvEnd,
      CallbackReturns, EndService, DropConnection,
     SignalFree, WorkerReady
      <4> QED BY <4>1 DEF WorkerTypeOK
    <3> QED BY <3>1, <3>2
  <2> QED BY <2>1 DEF WorkerTypeOK
<1>2. CASE Serves(w)
  <2>1. WorkerTypeOK'
    BY <1>1, <1>2 DEF Serves, WorkerTypeOK, Busy
  <2>2. WorkerHolds'
    BY <1>2 DEF Serves, WorkerHolds, WorkerTypeOK, Busy
  <2> QED BY <2>1, <2>2
<1>3. CASE WorkerStart(w) \/ SignalFree(w) \/ WorkerReady(w)
  <2>1. UNCHANGED <<workerOp, serviceConn, event, workerLock>>
    BY <1>3 DEF WorkerStart, SignalFree, WorkerReady
  <2>2. \E pc \in {"idle", "ready"} : workerPc' = [workerPc EXCEPT ![w] = pc]
        /\ workerPc[w] \in {"start", "signal", "ready"}
    BY <1>3 DEF WorkerStart, SignalFree, WorkerReady, WorkerStep
  <2>3. WorkerTypeOK'
    BY <1>1, <2>1, <2>2 DEF WorkerTypeOK, WorkerPcs
  <2>4. WorkerHolds'
    BY <2>1, <2>2 DEF WorkerHolds, WorkerTypeOK, Busy, WorkerPcs
  <2> QED BY <2>3, <2>4
<1>4. CASE WorkerWakes(w)
  <2>1. /\ UNCHANGED <<workerOp, serviceConn, workerLock>>
        /\ event[w] /\ event' = [event EXCEPT ![w] = FALSE]
        /\ workerPc' = [workerPc EXCEPT ![w] = "service"] /\ workerPc[w] = "idle"
    BY <1>4 DEF WorkerWakes, WorkerStep
  <2>2. WorkerTypeOK'
    BY <1>1, <2>1 DEF WorkerTypeOK, WorkerPcs
  <2>3. WorkerHolds'
    BY <2>1 DEF WorkerHolds, WorkerTypeOK, Busy, WorkerPcs
  <2> QED BY <2>2, <2>3
<1>5. CASE EndService(w)
  <2>1. /\ UNCHANGED <<workerOp, serviceConn, event>>
        /\ workerLock' = [workerLock EXCEPT ![w] = TRUE]
        /\ workerPc' = [workerPc EXCEPT ![w] = "drop"] /\ workerPc[w] = "finish"
    BY <1>5 DEF EndService, WorkerStep
  <2>2. WorkerTypeOK'
    BY <1>1, <2>1 DEF WorkerTypeOK, WorkerPcs
  <2>3. WorkerHolds'
    BY <2>1 DEF WorkerHolds, WorkerTypeOK, Busy, WorkerPcs
  <2> QED BY <2>2, <2>3
<1>6. CASE DropConnection(w)
  <2>1. /\ UNCHANGED <<workerOp, event>>
        /\ workerLock' = [workerLock EXCEPT ![w] = FALSE]
        /\ serviceConn' = [serviceConn EXCEPT ![w] = NoConn]
        /\ workerPc' = [workerPc EXCEPT ![w] = "signal"] /\ workerPc[w] = "drop"
    BY <1>6 DEF DropConnection, WorkerStep
  <2>2. WorkerTypeOK'
    BY <1>1, <2>1 DEF WorkerTypeOK, WorkerPcs
  <2>3. WorkerHolds'
    BY <2>1 DEF WorkerHolds, WorkerTypeOK, Busy, WorkerPcs
  <2> QED BY <2>2, <2>3
<1> QED
  BY <1>2, <1>3, <1>4, <1>5, <1>6, ServesCases

LEMMA WorkerStruct ==
  ASSUME StructInv, NEW w \in Workers, Worker(w)
  PROVE  StructInv'
<1>1. UNCHANGED <<ownerVars, netVars>>
  BY WorkerFrame
<1>2. /\ ConnTypeOK' /\ SharedTypeOK' /\ LinkedOnce'
      /\ netPc = "scan" => UNCHANGED linked
      /\ WorkerTypeOK' /\ WorkerHolds'
  BY WorkerConnType, WorkerShared, WorkerOwn
<1>3. OwnerTypeOK' /\ NetTypeOK'
  BY <1>1 DEF StructInv, TypeOK, OwnerTypeOK, NetTypeOK, ownerVars, netVars
<1>4. NetBounds'
  BY <1>1, <1>2 DEF StructInv, NetBounds, netVars
<1> QED
  BY <1>2, <1>3, <1>4 DEF StructInv, TypeOK

LEMMA StructStep == StructInv /\ [Next]_vars => StructInv'
<1> SUFFICES ASSUME StructInv, [Next]_vars PROVE StructInv'
  OBVIOUS
<1>1. CASE UNCHANGED vars
  BY <1>1 DEF vars, connVars, ownerVars, netVars, workerVars, StructInv, TypeOK,
     ConnTypeOK, OwnerTypeOK, SharedTypeOK, NetTypeOK, WorkerTypeOK, LinkedOnce,
     NetBounds, WorkerHolds
<1>2. CASE Next
  BY <1>1, <1>2, OwnerStruct, DisconnectStruct, NetworkStruct, WorkerStruct
     DEF Next, Halted
<1> QED BY <1>1, <1>2

\* Every variable keeps to the values of its field, and the network thread never
\* leaves its array of slots, however many connections and workers there are.
THEOREM TypeCorrect == Spec => []TypeOK
<1>1. Init => StructInv
  BY InitStruct
<1>2. StructInv /\ [Next]_vars => StructInv'
  BY StructStep
<1>3. StructInv => TypeOK
  BY DEF StructInv
<1> QED BY <1>1, <1>2, <1>3, PTL DEF Spec

-----------------------------------------------------------------------------
(* CoreInv: who services which connection.                                 *)

LEMMA InitCore == Init => Core
<1> SUFFICES ASSUME Init PROVE Core
  OBVIOUS
<1>1. netPc = "start" /\ slotCount = 0 /\ fault = "none"
      /\ serviceConn = [w \in Workers |-> NoConn]
  BY DEF Init
<1> QED
  BY <1>1 DEF Core, SlotsDistinct, PendingIdle, ServicedCounted, AssignedAlone,
     Distinct, NoBadHandOut, Servicing

\* A step that leaves the service counts, the network thread and the set of
\* serviced connections alone keeps Core.
LEMMA CoreFrame ==
  ASSUME Core,
         UNCHANGED <<serviceCount, netVars, serviceConn>>,
         \A w \in Workers : Servicing(w)' <=> Servicing(w),
         netPc = "scan" => UNCHANGED linked,
         fault' \notin {"same connection assigned twice", "unwritten slot"}
                    \/ UNCHANGED fault
  PROVE  Core'
<1>1. SlotsDistinct' /\ PendingIdle'
  BY DEF Core, SlotsDistinct, PendingIdle, Pending, netVars
<1>2. ServicedCounted' /\ AssignedAlone' /\ Distinct'
  BY DEF Core, ServicedCounted, AssignedAlone, Distinct, netVars
<1>3. NoBadHandOut'
  BY DEF Core, NoBadHandOut
<1> QED BY <1>1, <1>2, <1>3 DEF Core

LEMMA OwnerCore ==
  ASSUME StructInv, Core, NEW c \in Conns,
         Owner(c) \/ Disconnect(c) \/ DisconnectNotify(c)
  PROVE  Core'
<1>1. UNCHANGED <<serviceCount, netVars, workerVars, fault>>
  BY DEF Owner, OwnerStep, StartConnect, CloseOldSocket, ForgetOldSocket,
     CreateSocket, AddConnection, SetConnecting, NotifyConnecting, ConnectSyscall,
     RemoveFailed, CloseFailed, SetError, LeaveConnect, Disconnect, DisconnectNotify
<1>2. netPc = "scan" => UNCHANGED linked
  BY DEF Owner, StartConnect, CloseOldSocket, ForgetOldSocket,
     CreateSocket, AddConnection, SetConnecting, NotifyConnecting, ConnectSyscall,
     RemoveFailed, CloseFailed, SetError, LeaveConnect, Disconnect,
     DisconnectNotify, Add, Remove, ConnectionsLockFree
<1> QED
  BY <1>1, <1>2, CoreFrame DEF workerVars, Servicing

LEMMA WorkerCore ==
  ASSUME StructInv, Core, NEW w \in Workers, Worker(w)
  PROVE  Core'
<1>1. UNCHANGED netVars
  BY WorkerFrame
<1>2. netPc = "scan" => UNCHANGED linked
  BY WorkerShared
<1>3. /\ workerPc \in [Workers -> WorkerPcs]
      /\ serviceConn \in [Workers -> Conns \cup {NoConn}]
      /\ serviceCount \in [Conns -> Int]
  BY DEF StructInv, TypeOK, WorkerTypeOK, ConnTypeOK
<1>4. fault' \in {fault, "freed", "response referenced twice"}
  BY DEF Worker, Inside, BeginFlag, Release, AcquireResponseRef, LeaveReads,
     WorkerStart, WorkerWakes, DoWritesOrExceptions,
     DoReads, DoDisconnect, CheckConnect, RemoveConnection, CloseConnection,
     SetDisconnected, Announce, RecvData, RecvNothing, RecvEnd,  CallbackReturns, ReloadFlags, EndService, DropConnection,
     SignalFree, WorkerReady
<1>5. ASSUME UNCHANGED <<serviceConn, serviceCount>>, workerPc[w] # "drop",
             \E pc \in WorkerPcs \ {"drop"} : workerPc' = [workerPc EXCEPT ![w] = pc]
      PROVE  Core'
  <2>1. \A v \in Workers : Servicing(v)' <=> Servicing(v)
    BY <1>3, <1>5 DEF Servicing
  <2> QED BY <1>1, <1>2, <1>4, <1>5, <2>1, CoreFrame DEF Core
<1>6. CASE Serves(w)
  BY <1>5, <1>6 DEF Serves, Busy
<1>7. CASE WorkerStart(w) \/ WorkerWakes(w) \/ SignalFree(w) \/ WorkerReady(w)
  <2>1. /\ UNCHANGED <<serviceConn, serviceCount>>
        /\ \E pc \in {"idle", "service", "ready"} :
             workerPc' = [workerPc EXCEPT ![w] = pc]
        /\ workerPc[w] # "drop"
    BY <1>7 DEF WorkerStart, WorkerWakes, SignalFree, WorkerReady, WorkerStep,
       connVars
  <2> QED BY <1>5, <2>1 DEF WorkerPcs
<1>8. CASE EndService(w)
  <2> DEFINE c == serviceConn[w]
  <2>1. /\ UNCHANGED <<serviceConn, fault>>
        /\ workerPc' = [workerPc EXCEPT ![w] = "drop"] /\ workerPc[w] = "finish"
        /\ serviceCount' = [serviceCount EXCEPT ![c] = @ - 1]
    BY <1>8 DEF EndService, WorkerStep, Mine
  <2>2. c \in Conns /\ Servicing(w) /\ serviceCount[c] > 0
    BY <2>1, WorkerConn DEF Busy, WorkerPcs, Servicing, Core, ServicedCounted,
       StructInv, WorkerHolds
  <2>3. \A v \in Workers : Servicing(v)' => v # w /\ Servicing(v)
    BY <1>3, <2>1 DEF Servicing
  <2>4. \A v \in Workers : Servicing(v)' => serviceConn[v] # c
    BY <2>2, <2>3 DEF Core, Distinct
  <2>5. \A d \in Conns : serviceCount[d] = 0 => serviceCount'[d] = 0
    BY <1>3, <2>1, <2>2
  <2>6. SlotsDistinct' /\ NoBadHandOut' /\ Distinct'
    BY <1>1, <1>2, <2>1, <2>3 DEF Core, SlotsDistinct, NoBadHandOut, Distinct,
       netVars
  <2>7. PendingIdle'
    <3>1. \A i \in 1..slotCount : Pending(i)' <=> Pending(i)
      BY <1>1 DEF Pending, netVars
    <3>2. \A i \in 1..slotCount : Pending(i) => slots[i] \in Conns
      BY SlotsNat DEF Pending, Core, SlotsDistinct, StructInv, TypeOK, NetTypeOK
    <3> QED BY <1>1, <2>5, <3>1, <3>2 DEF Core, PendingIdle, netVars
  <2>8. ServicedCounted'
    BY <1>3, <2>1, <2>3, <2>4 DEF Core, ServicedCounted, Servicing
  <2>9. AssignedAlone'
    <3>1. netPc = "assign" => slots[netIdx] \in Conns /\ slots[netIdx] # c
      BY <2>2, SlotIsConn DEF Core, AssignedAlone, StructInv, NetBounds
    <3> QED BY <1>1, <1>3, <2>1, <2>3, <3>1 DEF Core, AssignedAlone, netVars
  <2> QED BY <2>6, <2>7, <2>8, <2>9 DEF Core
<1>9. CASE DropConnection(w)
  <2>1. /\ UNCHANGED serviceCount
        /\ serviceConn' = [serviceConn EXCEPT ![w] = NoConn]
        /\ workerPc' = [workerPc EXCEPT ![w] = "signal"] /\ workerPc[w] = "drop"
    BY <1>9 DEF DropConnection, WorkerStep
  <2>2. \A v \in Workers : Servicing(v)' => v # w /\ Servicing(v)
    BY <1>3, <2>1 DEF Servicing
  <2>3. \A v \in Workers : v # w => serviceConn'[v] = serviceConn[v]
    BY <1>3, <2>1
  <2>4. SlotsDistinct' /\ PendingIdle' /\ NoBadHandOut'
    BY ZenonT(30), <1>1, <1>2, <1>4, <2>1 DEF Core, SlotsDistinct, PendingIdle, Pending,
       NoBadHandOut, netVars
  <2>5. ServicedCounted' /\ AssignedAlone' /\ Distinct'
    BY <1>1, <2>1, <2>2, <2>3 DEF Core, ServicedCounted, AssignedAlone, Distinct,
       netVars
  <2> QED BY <2>4, <2>5 DEF Core
<1> QED
  BY <1>6, <1>7, <1>8, <1>9, ServesCases

LEMMA NetworkCore ==
  ASSUME StructInv, Core, Network, ~staleSlot'
  PROVE  Core'
<1>1. /\ netIdx \in 1..(NumSlots + 1) /\ slotCount \in 0..NumSlots
      /\ slots \in [1..NumSlots -> Conns \cup {NoConn}] /\ NumSlots \in Nat
      /\ serviceCount \in [Conns -> Int]
      /\ serviceConn \in [Workers -> Conns \cup {NoConn}]
      /\ NoConn \notin Conns
  BY SlotsNat, WowNetAssumption DEF StructInv, TypeOK, NetTypeOK, ConnTypeOK,
     WorkerTypeOK
<1>2. \A i \in 1..slotCount : netPc \notin {"start", "top"} => slots[i] \in Conns
  BY <1>1 DEF Core, SlotsDistinct
<1>3. CASE OpenPipe \/ BeginScan \/ EndScan \/ SelectWake \/ SelectReady
           \/ NoWorker \/ EndWalk
  <2>1. UNCHANGED <<linked, serviceCount, serviceConn, workerPc, slots, fault>>
    BY <1>3 DEF OpenPipe, BeginScan, EndScan, SelectWake, SelectReady,
       SelectReturns, NoWorker, EndWalk, NetUnchanged, connVars, workerVars
  <2>2. \/ netPc = "start" /\ netPc' = "top" /\ UNCHANGED <<netIdx, slotCount>>
        \/ netPc = "top" /\ netPc' = "scan" /\ slotCount' = 0
        \/ netPc = "scan" /\ netPc' = "select" /\ UNCHANGED <<netIdx, slotCount>>
        \/ netPc = "select" /\ netPc' = "walk" /\ netIdx' = 1 /\ UNCHANGED slotCount
        \/ netPc = "signal" /\ netPc' = "release" /\ UNCHANGED <<netIdx, slotCount>>
        \/ netPc = "walk" /\ netPc' = "top" /\ UNCHANGED <<netIdx, slotCount>>
    BY <1>3 DEF OpenPipe, BeginScan, EndScan, SelectWake, SelectReady,
       SelectReturns, NoWorker, EndWalk, NetAt
  <2>3. SlotsDistinct'
    BY <2>1, <2>2 DEF Core, SlotsDistinct
  <2>4. PendingIdle'
    BY <1>1, <2>1, <2>2 DEF Core, PendingIdle, Pending
  <2>5. ServicedCounted' /\ AssignedAlone' /\ Distinct' /\ NoBadHandOut'
    BY <2>1, <2>2 DEF Core, ServicedCounted, AssignedAlone, Distinct, NoBadHandOut,
       Servicing
  <2> QED BY <2>3, <2>4, <2>5 DEF Core
<1>4. CASE ScanConnection
  <2> DEFINE c == linked[netIdx]
  <2>1. /\ UNCHANGED <<linked, serviceCount, serviceConn, workerPc, fault, netPc>>
        /\ netPc = "scan" /\ netIdx' = netIdx + 1 /\ netIdx <= Len(linked)
    BY <1>4 DEF ScanConnection, NetAt, NetUnchanged, workerVars
  <2>2. \/ UNCHANGED <<slots, slotCount>>
        \/ /\ slotCount' = slotCount + 1
           /\ slots' = [slots EXCEPT ![slotCount + 1] = c]
           /\ serviceCount[c] = 0
    BY <1>4 DEF ScanConnection, InService
  <2>3. /\ c \in Conns /\ slotCount + 1 \in 1..NumSlots
        /\ \A k \in 1..(netIdx - 1) : linked[k] # c
    BY <1>1, <2>1, LinkedFits DEF StructInv, TypeOK, SharedTypeOK, LinkedOnce,
       NetBounds
  <2>4. ServicedCounted' /\ AssignedAlone' /\ Distinct' /\ NoBadHandOut'
    BY <2>1 DEF Core, ServicedCounted, AssignedAlone, Distinct, NoBadHandOut,
       Servicing
  <2>5. CASE UNCHANGED <<slots, slotCount>>
    <3>1. SlotsDistinct' /\ PendingIdle'
      BY <1>1, <2>1, <2>5 DEF Core, SlotsDistinct, PendingIdle, Pending
    <3> QED BY <2>4, <3>1 DEF Core
  <2>6. CASE /\ slotCount' = slotCount + 1
             /\ slots' = [slots EXCEPT ![slotCount + 1] = c]
             /\ serviceCount[c] = 0
    <3>1. /\ slots'[slotCount + 1] = c
          /\ \A i \in 1..slotCount : slots'[i] = slots[i]
      BY <1>1, <2>3, <2>6
    <3>2. \A i \in 1..slotCount :
            slots[i] # NoConn /\ \E k \in 1..(netIdx - 1) : slots[i] = linked[k]
      BY <2>1 DEF Core, SlotsDistinct
    <3>3. \A i, j \in 1..slotCount' : slots'[i] = slots'[j] => i = j
      <4>1. \A i \in 1..slotCount : slots'[i] # c
        BY <2>3, <3>1, <3>2
      <4>2. \A i \in 1..slotCount' : i = slotCount + 1 \/ i \in 1..slotCount
        BY <1>1, <2>6
      <4> QED BY <2>1, <3>1, <4>1, <4>2 DEF Core, SlotsDistinct
    <3>4. \A i \in 1..slotCount' :
            /\ slots'[i] # NoConn
            /\ \E k \in 1..(netIdx' - 1) : slots'[i] = linked'[k]
      BY <1>1, <2>1, <2>3, <2>6, <3>1, <3>2
    <3>5. SlotsDistinct'
      BY <3>3, <3>4 DEF SlotsDistinct
    <3>6. PendingIdle'
      BY <1>1, <2>1, <2>6, <3>1 DEF Core, PendingIdle, Pending
    <3> QED BY <2>4, <3>5, <3>6 DEF Core
  <2> QED BY <2>2, <2>5, <2>6
<1>5. CASE WalkSlot
  <2>1. /\ UNCHANGED <<linked, serviceCount, serviceConn, workerPc, netIdx, slots,
                       slotCount>>
        /\ netPc = "walk" /\ netIdx <= slotCount
    BY <1>5 DEF WalkSlot, NetAt, NetUnchanged, connVars, workerVars
  <2>2. slots[netIdx] # NoConn
    BY <1>1, <2>1 DEF Core, SlotsDistinct
  <2>3. netPc' \in {"signal", "release"} /\ UNCHANGED fault
    BY <1>5, <2>2 DEF WalkSlot
  <2>4. SlotsDistinct' /\ PendingIdle'
    BY <1>1, <2>1, <2>3 DEF Core, SlotsDistinct, PendingIdle, Pending
  <2>5. ServicedCounted' /\ AssignedAlone' /\ Distinct' /\ NoBadHandOut'
    BY <2>1, <2>3 DEF Core, ServicedCounted, AssignedAlone, Distinct, NoBadHandOut,
       Servicing
  <2> QED BY <2>4, <2>5 DEF Core
<1>6. CASE TakeWorker
  <2> DEFINE c == slots[netIdx]
  <2>1. /\ UNCHANGED <<linked, serviceConn, workerPc, netIdx, slots, slotCount, fault>>
        /\ netPc = "signal" /\ netPc' = "assign"
        /\ serviceCount' = [serviceCount EXCEPT ![c] = @ + 1]
    BY <1>6 DEF TakeWorker, NetAt, workerVars
  <2>2. netIdx \in 1..slotCount /\ c \in Conns
    BY <1>1, <1>2, <2>1 DEF StructInv, NetBounds
  <2>3. serviceCount[c] = 0
    BY <1>1, <2>1, <2>2 DEF Core, PendingIdle, Pending
  <2>4. \A w \in Workers : Servicing(w) => serviceConn[w] # c
    BY <2>3 DEF Core, ServicedCounted
  <2>5. SlotsDistinct' /\ Distinct' /\ NoBadHandOut'
    BY <2>1 DEF Core, SlotsDistinct, Distinct, NoBadHandOut, Servicing
  <2>6. PendingIdle'
    <3>1. \A i \in 1..slotCount : Pending(i)' => Pending(i) /\ slots[i] # c
      BY <1>1, <2>1, <2>2 DEF Pending, Core, SlotsDistinct
    <3> QED BY <1>1, <1>2, <2>1, <2>2, <3>1 DEF Core, PendingIdle
  <2>7. ServicedCounted'
    BY <1>1, <2>1, <2>4 DEF Core, ServicedCounted, Servicing
  <2>8. AssignedAlone'
    BY <1>1, <2>1, <2>2, <2>3, <2>4 DEF AssignedAlone, Servicing
  <2> QED BY <2>5, <2>6, <2>7, <2>8 DEF Core
<1>7. CASE AssignWorker
  <2> DEFINE c == slots[netIdx]
  <2>1. /\ UNCHANGED <<linked, serviceCount, workerPc, netIdx, slots, slotCount>>
        /\ netPc = "assign" /\ ~workerLock[candidate]
    BY <1>7 DEF AssignWorker, NetAt, connVars
  <2>2. candidate \in Workers
    BY DEF StructInv, TypeOK, NetTypeOK
  <2>3. c \in Conns /\ netIdx \in 1..slotCount
    BY <1>1, <1>2, <2>1 DEF StructInv, NetBounds
  <2>4. /\ serviceCount[c] > 0
        /\ \A w \in Workers : Servicing(w) => serviceConn[w] # c
    BY <2>1 DEF Core, AssignedAlone
  <2>5. CASE serviceConn[candidate] = NoConn
    <3>1. /\ serviceConn' = [serviceConn EXCEPT ![candidate] = c]
          /\ netPc' = "release" /\ UNCHANGED fault
      BY <1>7, <2>5 DEF AssignWorker
    <3>2. \A w \in Workers :
            /\ w # candidate => serviceConn'[w] = serviceConn[w]
                               /\ (Servicing(w)' <=> Servicing(w))
            /\ serviceConn'[candidate] = c
      BY <1>1, <2>1, <2>2, <3>1 DEF Servicing
    <3>3. SlotsDistinct' /\ NoBadHandOut'
      BY <2>1, <3>1 DEF Core, SlotsDistinct, NoBadHandOut
    <3>4. PendingIdle'
      BY <1>1, <2>1, <3>1 DEF Core, PendingIdle, Pending
    <3>5. ServicedCounted' /\ AssignedAlone'
      BY <2>1, <2>4, <3>1, <3>2 DEF Core, ServicedCounted, AssignedAlone
    <3>6. Distinct'
      BY <2>4, <3>2 DEF Core, Distinct
    <3> QED BY <3>3, <3>4, <3>5, <3>6 DEF Core
  <2>6. CASE serviceConn[candidate] # NoConn
    <3>1. Servicing(candidate)
      BY <2>1, <2>2, <2>6 DEF Servicing, StructInv, WorkerHolds
    <3>2. serviceConn[candidate] # c
      BY <2>2, <2>4, <3>1
    <3>3. /\ UNCHANGED <<serviceConn, netPc>>
          /\ fault' \in {fault, "no free worker"}
      BY <1>7, <2>6, <3>2 DEF AssignWorker
    <3>4. SlotsDistinct' /\ PendingIdle'
      BY <2>1, <3>3 DEF Core, SlotsDistinct, PendingIdle, Pending
    <3>5. ServicedCounted' /\ AssignedAlone' /\ Distinct'
      BY <2>1, <3>3 DEF Core, ServicedCounted, AssignedAlone, Distinct, Servicing
    <3>6. NoBadHandOut'
      BY <3>3 DEF Core, NoBadHandOut
    <3> QED BY <3>4, <3>5, <3>6 DEF Core
  <2> QED BY <2>5, <2>6
<1>8. CASE ReleaseSlot
  <2>1. /\ UNCHANGED <<linked, serviceCount, serviceConn, workerPc, slots, slotCount>>
        /\ netPc = "release" /\ netPc' = "walk" /\ netIdx' = netIdx + 1
        /\ fault' \in {fault, "freed"}
    BY <1>8 DEF ReleaseSlot, Release, NetAt, NetUnchanged, workerVars
  <2>2. SlotsDistinct' /\ NoBadHandOut'
    BY <2>1 DEF Core, SlotsDistinct, NoBadHandOut
  <2>3. PendingIdle'
    BY <1>1, <2>1 DEF Core, PendingIdle, Pending
  <2>4. ServicedCounted' /\ AssignedAlone' /\ Distinct'
    BY <2>1 DEF Core, ServicedCounted, AssignedAlone, Distinct, Servicing
  <2> QED BY <2>2, <2>3, <2>4 DEF Core
<1> QED
  BY <1>3, <1>4, <1>5, <1>6, <1>7, <1>8 DEF Network

\* The scan never takes back that it counted a slot it did not fill.
LEMMA StaleStays == [Next]_vars /\ ~staleSlot' => ~staleSlot
<1> SUFFICES ASSUME [Next]_vars, ~staleSlot' PROVE ~staleSlot
  OBVIOUS
<1>1. CASE UNCHANGED vars
  BY <1>1 DEF vars, netVars
<1>2. ASSUME NEW c \in Conns, Owner(c) \/ Disconnect(c) \/ DisconnectNotify(c)
      PROVE  ~staleSlot
  BY <1>2 DEF netVars, Owner, OwnerStep, StartConnect, CloseOldSocket,
     ForgetOldSocket, CreateSocket, AddConnection, SetConnecting, NotifyConnecting,
     ConnectSyscall, RemoveFailed, CloseFailed, SetError, LeaveConnect, Disconnect,
     DisconnectNotify
<1>3. CASE ScanConnection
  BY <1>3 DEF ScanConnection
<1>4. CASE Network /\ ~ScanConnection
  BY <1>4 DEF Network, OpenPipe, BeginScan, EndScan, SelectWake, SelectReady,
     SelectReturns, WalkSlot, TakeWorker, NoWorker, AssignWorker, ReleaseSlot, EndWalk
<1>5. ASSUME NEW w \in Workers, Worker(w) PROVE ~staleSlot
  BY <1>5, WorkerFrame DEF netVars
<1> QED BY <1>1, <1>2, <1>3, <1>4, <1>5 DEF Next, Halted

LEMMA IInvStep == IInv /\ [Next]_vars => IInv'
<1> SUFFICES ASSUME IInv, [Next]_vars PROVE IInv'
  OBVIOUS
<1>1. StructInv'
  BY StructStep DEF IInv
<1>2. SUFFICES ASSUME ~staleSlot' PROVE Core'
  BY <1>1 DEF IInv, CoreInv
<1>3. StructInv /\ Core
  BY <1>2, StaleStays DEF IInv, CoreInv
<1>4. CASE UNCHANGED vars
  BY <1>3, <1>4, CoreFrame DEF vars, connVars, netVars, workerVars, Servicing
<1>5. CASE Next
  BY <1>2, <1>3, <1>4, <1>5, OwnerCore, NetworkCore, WorkerCore DEF Next, Halted
<1> QED BY <1>4, <1>5

\* Two workers never run the Do* functions of one connection at a time, as long
\* as the scan filled every slot it counted.
THEOREM OneWorker == Spec => []OneWorkerPerConnection
<1>1. Init => IInv
  BY InitStruct, InitCore DEF IInv, CoreInv
<1>2. IInv /\ [Next]_vars => IInv'
  BY IInvStep
<1>3. IInv => OneWorkerPerConnection
  BY DEF IInv, CoreInv, Core, Distinct, OneWorkerPerConnection
<1> QED BY <1>1, <1>2, <1>3, PTL DEF Spec

\* The STORM_ASSERT at WowConnectionNet.cpp:138 and the array of slots are safe
\* under the same condition: the only way to hand a connection out twice, or to
\* read a slot that was never written, is the default case of PlatformRun.
THEOREM HandOutIsSafe ==
  Spec => [](~staleSlot => NeverAssignedTwice /\ fault # "unwritten slot")
<1>1. Init => IInv
  BY InitStruct, InitCore DEF IInv, CoreInv
<1>2. IInv /\ [Next]_vars => IInv'
  BY IInvStep
<1>3. IInv => (~staleSlot => NeverAssignedTwice /\ fault # "unwritten slot")
  BY DEF IInv, CoreInv, Core, NoBadHandOut, NeverAssignedTwice
<1> QED BY <1>1, <1>2, <1>3, PTL DEF Spec
=============================================================================
