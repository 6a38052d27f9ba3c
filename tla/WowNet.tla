------------------------------- MODULE WowNet -------------------------------
(***************************************************************************)
(* The connection engine of src/net/connection: WowConnection (a socket    *)
(* with a state, a lock, a reference count and a service count) and        *)
(* WowConnectionNet (the select thread and its worker threads), on the bsd *)
(* platform (bsd/WowConnectionNet.cpp).                                    *)
(*                                                                         *)
(* Threads.  The "owner" of a connection calls Connect; any thread (main,  *)
(* timer, a callback) calls Disconnect; the network thread scans the       *)
(* linked connections, selects, and hands each ready one to a worker; a    *)
(* worker services it and calls back into the response.                    *)
(*                                                                         *)
(* Every step between two accesses that another thread can observe is an   *)
(* action of its own.  Code that runs under WowConnectionNet's             *)
(* m_connectionsLock in one go is atomic; the only holder of that lock     *)
(* across several steps is the network thread while it scans.              *)
(*                                                                         *)
(* Left out: LISTENING and ACCEPTED (no code sets either state), the send  *)
(* list (s_lagTestDelayMin is 0, so it stays empty), the Disconnect of      *)
(* DoMessageReads on a buffer of 32000000 bytes (a message has at most      *)
(* 0x7FFFFF, for which the buffer doubles to 16777216) and the bytes.       *)
(***************************************************************************)
EXTENDS Integers, Sequences, FiniteSets

CONSTANTS
  Conns,        \* the WowConnection objects
  Streams,      \* those of m_type WOWC_TYPE_STREAM; the others read messages
  NoConn,       \* a null WowConnection*
  NumWorkers,   \* m_numWorkers
  MaxConnects,  \* bound: calls of Connect per connection
  NonBlocking   \* O_NONBLOCK is set on the socket (not so on Linux)

ASSUME WowNetAssumption ==
  /\ IsFiniteSet(Conns)
  /\ Streams \subseteq Conns
  /\ NoConn \notin Conns
  /\ NumWorkers \in Nat \ {0}
  /\ MaxConnects \in Nat
  /\ NonBlocking \in BOOLEAN

Workers == 1..NumWorkers
NumSlots == Cardinality(Conns)

VARIABLES
  \* WowConnection
  connState,     \* m_connState
  sock,          \* m_sock: "none" is -1, "closed" a number already closed
  refCount,      \* m_refCount
  responseRef,   \* m_responseRef
  serviceCount,  \* m_serviceCount
  serviceFlags,  \* m_serviceFlags: write 1, read 2, error 4, disconnect 8
  lock,          \* m_lock: the thread that holds it
  ownerPc,       \* where the owner is in StartConnect
  connects,      \* how often the owner has called Connect
  \* WowConnectionNet
  linked,        \* m_connections
  workerSem,     \* m_workerSem
  pipe,          \* a byte waits in s_workerPipe
  \* PlatformRun and SignalWorker
  netPc, netIdx, netFlags, candidate, slots, slotCount, interest, disconnecting,
  \* RunWorker, Service and what they call
  workerPc, workerOp, workerFlags, serviceConn, event, workerLock,
  \* history
  staleSlot,     \* the scan counted a slot it did not fill
  fault          \* an assertion failed or memory was misused

connVars   == <<connState, sock, refCount, responseRef, serviceCount,
                serviceFlags, lock>>
ownerVars  == <<ownerPc, connects>>
netVars    == <<netPc, netIdx, netFlags, candidate, slots, slotCount, interest,
                disconnecting, staleSlot>>
workerVars == <<workerPc, workerOp, workerFlags, serviceConn, event, workerLock>>
vars == <<connVars, ownerVars, linked, workerSem, pipe, netVars, workerVars,
          fault>>

States == {"INITIALIZED", "CONNECTING", "CONNECTED", "DISCONNECTED",
           "DISCONNECTING", "ERROR"}
Flags == {"write", "read", "error", "disconnect"}
Faults == {"none", "same connection assigned twice", "no free worker",
           "response referenced twice", "unwritten slot", "freed"}

Init ==
  /\ connState = [c \in Conns |-> "INITIALIZED"]
  /\ sock = [c \in Conns |-> "none"]
  /\ refCount = [c \in Conns |-> 1]
  /\ responseRef = [c \in Conns |-> 0]
  /\ serviceCount = [c \in Conns |-> 0]
  /\ serviceFlags = [c \in Conns |-> {}]
  /\ lock = [c \in Conns |-> "free"]
  /\ ownerPc = [c \in Conns |-> "idle"]
  /\ connects = [c \in Conns |-> 0]
  /\ linked = <<>>
  /\ workerSem = 0
  /\ pipe = FALSE
  /\ netPc = "start" /\ netIdx = 1 /\ netFlags = {} /\ candidate = 1
  /\ slots = [i \in 1..NumSlots |-> NoConn]
  /\ slotCount = 0
  /\ interest = [c \in Conns |-> {}]
  /\ disconnecting = FALSE
  /\ workerPc = [w \in Workers |-> "start"]
  /\ workerOp = [w \in Workers |-> "none"]
  /\ workerFlags = [w \in Workers |-> {}]
  /\ serviceConn = [w \in Workers |-> NoConn]
  /\ event = [w \in Workers |-> FALSE]
  /\ workerLock = [w \in Workers |-> FALSE]
  /\ staleSlot = FALSE
  /\ fault = "none"

-----------------------------------------------------------------------------
(* Helpers shared by the threads.                                          *)

\* The four notifications of the network thread all write one byte.  Before PlatformRun has called pipe() the byte goes to
\* descriptor 0 and wakes nobody.
WritePipe == pipe' = (pipe \/ netPc # "start")

\* Wrong variant: the notification is forgotten.
WriteNothing == UNCHANGED pipe

PlatformAdd == WritePipe
PlatformRemove == WritePipe
PlatformChangeState == WritePipe
PlatformWorkerReady == WritePipe

\* m_connectionsLock is held across steps only while PlatformRun scans.
ConnectionsLockFree == netPc # "scan"

IsLinked(c) == \E i \in 1..Len(linked) : linked[i] = c

Without(s, c) ==
  LET at == CHOOSE i \in 1..Len(s) : s[i] = c
  IN  [i \in 1..(Len(s) - 1) |-> IF i < at THEN s[i] ELSE s[i + 1]]

\* WowConnectionNet::Add and ::Remove
Add(c) ==
  /\ ConnectionsLockFree
  /\ IF IsLinked(c)
     THEN UNCHANGED <<linked, pipe>>
     ELSE linked' = Append(linked, c) /\ PlatformAdd

Remove(c) ==
  /\ ConnectionsLockFree
  /\ linked' = IF IsLinked(c) THEN Without(linked, c) ELSE linked
  /\ PlatformRemove

\* WowConnection::SetState up to its PlatformChangeState, which is the next
\* step of the caller.
SetState(c, s) == connState' = [connState EXCEPT ![c] = s]

\* CloseSocket leaves the number in m_sock.
Closed(c) == IF sock[c] = "none" THEN "none" ELSE "closed"

\* n calls of Release.  The owners never release the reference they were
\* constructed with, so a count of 0 frees an object that is still in use.
Release(c, n) ==
  /\ refCount' = [refCount EXCEPT ![c] = @ - n]
  /\ fault' = IF refCount[c] <= n THEN "freed" ELSE fault

\* Wrong variant: m_lock is not left.
KeepLock(c) == UNCHANGED lock

\* m_lock.Leave
Leave(c) == lock' = [lock EXCEPT ![c] = "free"]

\* AcquireResponseRef with its STORM_ASSERT
AcquireResponseRef(c) ==
  /\ responseRef' = [responseRef EXCEPT ![c] = @ + 1]
  /\ fault' = IF responseRef[c] = 0 THEN fault ELSE "response referenced twice"

-----------------------------------------------------------------------------
(* The owner: WowConnection::StartConnect.                                 *)

OwnerStep(c, from, to) ==
  /\ fault = "none"
  /\ ownerPc[c] = from
  /\ ownerPc' = [ownerPc EXCEPT ![c] = to]
  /\ UNCHANGED <<refCount, responseRef, serviceCount, serviceFlags, workerSem,
                 netVars, workerVars, fault>>

\* The first test, made without m_lock: an old socket is unlinked first.
StartConnect(c) ==
  /\ connects[c] < MaxConnects
  /\ connects' = [connects EXCEPT ![c] = @ + 1]
  /\ OwnerStep(c, "idle", IF sock[c] = "none" THEN "create" ELSE "close old")
  /\ IF sock[c] # "none" /\ IsLinked(c)
     THEN Remove(c)
     ELSE UNCHANGED <<linked, pipe>>
  /\ UNCHANGED <<connState, sock, lock>>

CloseOldSocket(c) ==
  /\ OwnerStep(c, "close old", "forget old")
  /\ sock' = [sock EXCEPT ![c] = Closed(c)]
  /\ UNCHANGED <<connState, lock, connects, linked, pipe>>

ForgetOldSocket(c) ==
  /\ OwnerStep(c, "forget old", "create")
  /\ sock' = [sock EXCEPT ![c] = "none"]
  /\ UNCHANGED <<connState, lock, connects, linked, pipe>>

\* m_lock.Enter and CreateSocket, which may fail.
CreateSocket(c) ==
  /\ lock[c] = "free"
  /\ lock' = [lock EXCEPT ![c] = "owner"]
  /\ \/ /\ OwnerStep(c, "create", "add")
        /\ sock' = [sock EXCEPT ![c] = "open"]
        /\ UNCHANGED connState
     \/ /\ OwnerStep(c, "create", "leave")
        /\ sock' = [sock EXCEPT ![c] = "none"]
        /\ SetState(c, "ERROR")
  /\ UNCHANGED <<connects, linked, pipe>>

AddConnection(c) ==
  /\ OwnerStep(c, "add", "connecting")
  /\ Add(c)
  /\ UNCHANGED <<connState, sock, lock, connects>>

SetConnecting(c) ==
  /\ OwnerStep(c, "connecting", "notify")
  /\ SetState(c, "CONNECTING")
  /\ UNCHANGED <<sock, lock, connects, linked, pipe>>

NotifyConnecting(c) ==
  /\ OwnerStep(c, "notify", "connect")
  /\ PlatformChangeState
  /\ UNCHANGED <<connState, sock, lock, connects, linked>>

\* connect(): done or in progress, or refused at once.
ConnectSyscall(c) ==
  /\ \/ /\ OwnerStep(c, "connect", "idle")
        /\ Leave(c)
     \/ /\ OwnerStep(c, "connect", "remove")
        /\ UNCHANGED lock
  /\ UNCHANGED <<connState, sock, connects, linked, pipe>>

RemoveFailed(c) ==
  /\ OwnerStep(c, "remove", "close")
  /\ Remove(c)
  /\ UNCHANGED <<connState, sock, lock, connects>>

CloseFailed(c) ==
  /\ OwnerStep(c, "close", "error")
  /\ sock' = [sock EXCEPT ![c] = "none"]
  /\ UNCHANGED <<connState, lock, connects, linked, pipe>>

SetError(c) ==
  /\ OwnerStep(c, "error", "leave")
  /\ SetState(c, "ERROR")
  /\ UNCHANGED <<sock, lock, connects, linked, pipe>>

\* The PlatformChangeState of SetState(WOWC_ERROR), then m_lock.Leave.
LeaveConnect(c) ==
  /\ OwnerStep(c, "leave", "idle")
  /\ PlatformChangeState
  /\ Leave(c)
  /\ UNCHANGED <<connState, sock, connects, linked>>

Owner(c) ==
  \/ StartConnect(c) \/ CloseOldSocket(c) \/ ForgetOldSocket(c)
  \/ CreateSocket(c) \/ AddConnection(c) \/ SetConnecting(c)
  \/ NotifyConnecting(c) \/ ConnectSyscall(c) \/ RemoveFailed(c)
  \/ CloseFailed(c) \/ SetError(c) \/ LeaveConnect(c)

-----------------------------------------------------------------------------
(* WowConnection::Disconnect, from any thread that does not hold m_lock.   *)

Disconnect(c) ==
  /\ fault = "none"
  /\ lock[c] = "free"
  /\ sock[c] # "none"
  /\ connState[c] = "CONNECTED"
  /\ lock' = [lock EXCEPT ![c] = "disconnect"]
  /\ SetState(c, "DISCONNECTING")
  /\ UNCHANGED <<sock, refCount, responseRef, serviceCount, serviceFlags,
                 ownerVars, linked, workerSem, pipe, netVars, workerVars, fault>>

DisconnectNotify(c) ==
  /\ fault = "none"
  /\ lock[c] = "disconnect"
  /\ Leave(c)
  /\ PlatformChangeState
  /\ UNCHANGED <<connState, sock, refCount, responseRef, serviceCount,
                 serviceFlags, ownerVars, linked, workerSem, netVars,
                 workerVars, fault>>

-----------------------------------------------------------------------------
(* The network thread: WowConnectionNet::PlatformRun and SignalWorker.     *)

NetAt(pc) == fault = "none" /\ netPc = pc

NetUnchanged == UNCHANGED <<ownerVars, linked, workerVars, candidate>>

\* pipe(s_workerPipe)
OpenPipe ==
  /\ NetAt("start")
  /\ netPc' = "top"
  /\ NetUnchanged
  /\ UNCHANGED <<connVars, workerSem, pipe, netIdx, netFlags, slots, slotCount,
                 interest, disconnecting, staleSlot, fault>>

\* Wrong variant: connectionCount is not reset.
BeginScanOnTop ==
  /\ NetAt("top")
  /\ netPc' = "scan"
  /\ netIdx' = 1
  /\ interest' = [c \in Conns |-> {}]
  /\ disconnecting' = FALSE
  /\ NetUnchanged
  /\ UNCHANGED <<connVars, workerSem, pipe, netFlags, slots, slotCount,
                 staleSlot, fault>>

\* The loop head: empty descriptor sets, m_connectionsLock.Enter.
BeginScan ==
  /\ NetAt("top")
  /\ netPc' = "scan"
  /\ netIdx' = 1
  /\ slotCount' = 0
  /\ interest' = [c \in Conns |-> {}]
  /\ disconnecting' = FALSE
  /\ NetUnchanged
  /\ UNCHANGED <<connVars, workerSem, pipe, netFlags, slots, staleSlot, fault>>

\* The descriptor sets a state asks for.
Wanted(s) ==
  CASE s = "CONNECTING" -> {"write", "error"}
    [] s = "CONNECTED"  -> {"read", "error"}
    [] OTHER            -> {}

Selectable == {"CONNECTING", "CONNECTED", "DISCONNECTING"}

\* Wrong variant: connections in service are scanned too.
NeverInService(c) == FALSE
InService(c) == serviceCount[c] # 0

\* One turn of the scan.  A connection in service is skipped; one in any other
\* state than the selectable ones is counted although its slot of the
\* connections array, which outlives the loop, keeps what it held before.
ScanConnection ==
  /\ NetAt("scan")
  /\ netIdx <= Len(linked)
  /\ netIdx' = netIdx + 1
  /\ LET c == linked[netIdx] IN
       IF InService(c)
       THEN UNCHANGED <<refCount, slots, slotCount, interest, disconnecting,
                        staleSlot>>
       ELSE /\ slotCount' = slotCount + 1
            /\ interest' = [interest EXCEPT ![c] = Wanted(connState[c])]
            /\ disconnecting' = (disconnecting \/ connState[c] = "DISCONNECTING")
            /\ IF connState[c] \in Selectable
               THEN /\ slots' = [slots EXCEPT ![slotCount + 1] = c]
                    /\ refCount' = [refCount EXCEPT ![c] = @ + 1]
                    /\ UNCHANGED staleSlot
               ELSE /\ staleSlot' = TRUE
                    /\ UNCHANGED <<slots, refCount>>
  /\ NetUnchanged
  /\ UNCHANGED <<connState, sock, responseRef, serviceCount, serviceFlags, lock,
                 workerSem, pipe, netPc, netFlags, fault>>

\* m_connectionsLock.Leave
EndScan ==
  /\ NetAt("scan")
  /\ netIdx > Len(linked)
  /\ netPc' = "select"
  /\ NetUnchanged
  /\ UNCHANGED <<connVars, workerSem, pipe, netIdx, netFlags, slots, slotCount,
                 interest, disconnecting, staleSlot, fault>>

\* select returns and the pipe is drained.
SelectReturns ==
  /\ NetAt("select")
  /\ netPc' = "walk"
  /\ netIdx' = 1
  /\ pipe' = FALSE
  /\ NetUnchanged
  /\ UNCHANGED <<connVars, workerSem, netFlags, slots, slotCount, interest,
                 disconnecting, staleSlot, fault>>

\* select must return: a byte in the pipe, or the zero timeout.
SelectWake == (pipe \/ disconnecting) /\ SelectReturns

\* select may return: a socket is ready, or 30 seconds have passed.
SelectReady == ~pipe /\ ~disconnecting /\ SelectReturns

\* The flags of slot i, read from m_sock and m_connState without a lock.
\* Which of the requested descriptors are ready is up to the peer.
WalkSlot ==
  /\ NetAt("walk")
  /\ netIdx <= slotCount
  /\ LET c == slots[netIdx] IN
       IF c = NoConn
       THEN /\ fault' = "unwritten slot"
            /\ UNCHANGED <<netPc, netFlags>>
       ELSE /\ \E ready \in SUBSET interest[c] :
                 netFlags' = (IF sock[c] = "none" THEN {} ELSE ready)
                             \cup (IF connState[c] = "DISCONNECTING"
                                   THEN {"disconnect"} ELSE {})
            /\ netPc' = IF netFlags' = {} THEN "release" ELSE "signal"
            /\ UNCHANGED fault
  /\ NetUnchanged
  /\ UNCHANGED <<connVars, workerSem, pipe, netIdx, slots, slotCount, interest,
                 disconnecting, staleSlot>>

\* SignalWorker: m_workerSem.Wait(500) succeeds.
TakeWorker ==
  /\ NetAt("signal")
  /\ workerSem > 0
  /\ workerSem' = workerSem - 1
  /\ LET c == slots[netIdx] IN
       /\ refCount' = [refCount EXCEPT ![c] = @ + 1]
       /\ serviceFlags' = [serviceFlags EXCEPT ![c] = netFlags]
       /\ serviceCount' = [serviceCount EXCEPT ![c] = @ + 1]
  /\ netPc' = "assign"
  /\ candidate' = 1
  /\ netFlags' = {}
  /\ UNCHANGED <<ownerVars, linked, workerVars, connState, sock, responseRef,
                 lock, pipe, netIdx, slots, slotCount, interest, disconnecting,
                 staleSlot, fault>>

\* ... or times out: nothing is signalled in this round.
NoWorker ==
  /\ NetAt("signal")
  /\ workerSem = 0
  /\ netPc' = "release"
  /\ netFlags' = {}
  /\ NetUnchanged
  /\ UNCHANGED <<connVars, workerSem, pipe, netIdx, slots, slotCount, interest,
                 disconnecting, staleSlot, fault>>

\* The search for a worker without a connection, one worker's lock at a time,
\* with its two STORM_ASSERTs.
AssignWorker ==
  /\ NetAt("assign")
  /\ ~workerLock[candidate]
  /\ LET c == slots[netIdx] IN
       IF serviceConn[candidate] = NoConn
       THEN /\ serviceConn' = [serviceConn EXCEPT ![candidate] = c]
            /\ event' = [event EXCEPT ![candidate] = TRUE]
            /\ netPc' = "release"
            /\ UNCHANGED <<candidate, fault>>
       ELSE /\ IF serviceConn[candidate] = c
               THEN fault' = "same connection assigned twice"
               ELSE fault' = IF candidate < NumWorkers THEN fault
                             ELSE "no free worker"
            /\ candidate' = IF candidate < NumWorkers THEN candidate + 1
                            ELSE candidate
            /\ UNCHANGED <<serviceConn, event, netPc>>
  /\ UNCHANGED <<connVars, ownerVars, linked, workerSem, pipe, netIdx, netFlags,
                 slots, slotCount, interest, disconnecting, staleSlot, workerPc,
                 workerOp, workerFlags, workerLock>>

ReleaseSlot ==
  /\ NetAt("release")
  /\ Release(slots[netIdx], 1)
  /\ netIdx' = netIdx + 1
  /\ netPc' = "walk"
  /\ NetUnchanged
  /\ UNCHANGED <<connState, sock, responseRef, serviceCount, serviceFlags, lock,
                 workerSem, pipe, netFlags, slots, slotCount, interest,
                 disconnecting, staleSlot>>

EndWalk ==
  /\ NetAt("walk")
  /\ netIdx > slotCount
  /\ netPc' = "top"
  /\ NetUnchanged
  /\ UNCHANGED <<connVars, workerSem, pipe, netIdx, netFlags, slots, slotCount,
                 interest, disconnecting, staleSlot, fault>>

Network ==
  \/ OpenPipe \/ BeginScan \/ ScanConnection \/ EndScan
  \/ SelectWake \/ SelectReady
  \/ WalkSlot \/ TakeWorker \/ NoWorker \/ AssignWorker \/ ReleaseSlot
  \/ EndWalk

-----------------------------------------------------------------------------
(* A worker: RunWorker, Service, and the WowConnection code it runs.       *)

WorkerStep(w, from, to) ==
  /\ fault = "none"
  /\ workerPc[w] = from
  /\ workerPc' = [workerPc EXCEPT ![w] = to]
  /\ UNCHANGED <<ownerVars, netVars>>

\* The worker's local view of the connection it services
Mine(w) == serviceConn[w]

\* m_workerSem.Signal(1)
SignalWorkerSem == workerSem' = workerSem + 1

\* RunWorker announces itself.
WorkerStart(w) ==
  /\ WorkerStep(w, "start", "idle")
  /\ SignalWorkerSem
  /\ UNCHANGED <<connVars, linked, pipe, workerOp, workerFlags, serviceConn,
                 event, workerLock, fault>>

\* worker.event was set; the event resets itself.
WorkerWakes(w) ==
  /\ event[w]
  /\ WorkerStep(w, "idle", "service")
  /\ event' = [event EXCEPT ![w] = FALSE]
  /\ workerFlags' = [workerFlags EXCEPT ![w] = serviceFlags[Mine(w)]]
  /\ serviceFlags' = [serviceFlags EXCEPT ![Mine(w)] = {}]
  /\ UNCHANGED <<connState, sock, refCount, responseRef, serviceCount, lock,
                 linked, workerSem, pipe, workerOp, serviceConn, workerLock,
                 fault>>

\* Service handles the flags in the order write, read, error, disconnect.
Before(f) ==
  CASE f = "write" -> {}
    [] f = "read"  -> {"write"}
    [] f = "error" -> {"write", "read"}
    [] OTHER       -> {"write", "read", "error"}

BeginFlag(w, f, to, op) ==
  /\ f \in workerFlags[w]
  /\ Before(f) \cap workerFlags[w] = {}
  /\ lock[Mine(w)] = "free"
  /\ WorkerStep(w, "service", to)
  /\ workerFlags' = [workerFlags EXCEPT ![w] = @ \ {f}]
  /\ workerOp' = [workerOp EXCEPT ![w] = op]
  /\ UNCHANGED <<connState, sock, serviceCount, serviceFlags, linked, workerSem,
                 pipe, serviceConn, event, workerLock>>

\* Wrong variant: the reference is not taken.
EnterUncounted(w, refs) ==
  lock' = [lock EXCEPT ![Mine(w)] = "worker"] /\ UNCHANGED refCount

\* DoWrites, DoReads, DoExceptions or DoDisconnect takes m_lock and, except
\* for DoDisconnect, a reference of its own.
EnterConnection(w, refs) ==
  /\ lock' = [lock EXCEPT ![Mine(w)] = "worker"]
  /\ refCount' = [refCount EXCEPT ![Mine(w)] = @ + refs]

\* DoWrites and DoExceptions do nothing unless CONNECTING.
DoWritesOrExceptions(w, f) ==
  /\ f \in workerFlags[w]
  /\ IF connState[Mine(w)] = "CONNECTING"
     THEN /\ BeginFlag(w, f, "check", "connect")
          /\ EnterConnection(w, 1)
          /\ UNCHANGED <<responseRef, fault>>
     ELSE /\ BeginFlag(w, f, "service", "none")
          /\ UNCHANGED <<lock, refCount, responseRef, fault>>

\* DoReads.  DoMessageReads first takes and drops a response reference.
DoReads(w) ==
  /\ "read" \in workerFlags[w]
  /\ IF connState[Mine(w)] = "CONNECTED"
     THEN /\ BeginFlag(w, "read", "recv",
                       IF Mine(w) \in Streams THEN "stream" ELSE "messages")
          /\ EnterConnection(w, 1)
          /\ fault' = IF Mine(w) \in Streams \/ responseRef[Mine(w)] = 0 THEN fault
                      ELSE "response referenced twice"
     ELSE /\ BeginFlag(w, "read", "service", "none")
          /\ UNCHANGED <<lock, refCount, fault>>
  /\ UNCHANGED responseRef

DoDisconnect(w) ==
  /\ BeginFlag(w, "disconnect",
               IF sock[Mine(w)] = "none" THEN "state" ELSE "remove", "disconnect")
  /\ EnterConnection(w, 0)
  /\ UNCHANGED <<responseRef, fault>>

\* A step made while this worker holds m_lock.
Inside(w, from, to) ==
  /\ WorkerStep(w, from, to)
  /\ UNCHANGED <<serviceCount, serviceFlags, workerSem, workerFlags, serviceConn,
                 event, workerLock>>

\* CheckConnect: SO_ERROR tells how the connection attempt ended.
CheckConnect(w) ==
  LET c == Mine(w) IN
  \/ /\ Inside(w, "check", "announce")
     /\ sock[c] = "open"
     /\ SetState(c, "CONNECTED")
     /\ UNCHANGED <<sock, refCount, responseRef, lock, linked, pipe, workerOp, fault>>
  \/ /\ Inside(w, "check", "remove")
     /\ sock[c] = "open"
     /\ UNCHANGED <<connState, sock, refCount, responseRef, lock, linked, pipe,
                    workerOp, fault>>
  \/ /\ Inside(w, "check", "service")
     /\ sock[c] # "open"
     /\ workerOp' = [workerOp EXCEPT ![w] = "none"]
     /\ Leave(Mine(w))
     /\ Release(c, 1)
     /\ UNCHANGED <<connState, sock, responseRef, linked, pipe>>

\* The teardown shared by CheckConnect, DoStreamReads and DoDisconnect.
RemoveConnection(w) ==
  /\ Inside(w, "remove", "close")
  /\ Remove(Mine(w))
  /\ UNCHANGED <<connState, sock, refCount, responseRef, lock, workerOp, fault>>

\* Wrong variant: CheckConnect leaves m_sock as the others do.
CloseKeepingNumber(w) ==
  /\ Inside(w, "close", "state")
  /\ sock' = [sock EXCEPT ![Mine(w)] = Closed(Mine(w))]
  /\ UNCHANGED <<connState, refCount, responseRef, lock, linked, pipe, workerOp,
                 fault>>

\* Only CheckConnect resets m_sock at once.
CloseConnection(w) ==
  /\ Inside(w, "close", "state")
  /\ sock' = [sock EXCEPT ![Mine(w)] = IF workerOp[w] = "connect" THEN "none"
                                       ELSE Closed(Mine(w))]
  /\ UNCHANGED <<connState, refCount, responseRef, lock, linked, pipe, workerOp,
                 fault>>

SetDisconnected(w) ==
  /\ Inside(w, "state", "announce")
  /\ SetState(Mine(w), "DISCONNECTED")
  /\ UNCHANGED <<sock, refCount, responseRef, lock, linked, pipe, workerOp, fault>>

\* The PlatformChangeState of SetState, AddRef and AcquireResponseRef (an end
\* of stream took its response reference before), then m_lock.Leave and the
\* callback.
Announce(w) ==
  /\ Inside(w, "announce", "callback")
  /\ PlatformChangeState
  /\ IF workerOp[w] = "end of stream"
     THEN UNCHANGED <<refCount, responseRef, fault>>
     ELSE /\ refCount' = [refCount EXCEPT ![Mine(w)] = @ + 1]
          /\ AcquireResponseRef(Mine(w))
  /\ Leave(Mine(w))
  /\ UNCHANGED <<connState, sock, linked, workerOp>>

\* DoStreamReads and DoMessageReads: recv returned bytes, which complete a
\* message; parts of a message change nothing here.
RecvData(w) ==
  /\ Inside(w, "recv", "callback")
  /\ AcquireResponseRef(Mine(w))
  /\ Leave(Mine(w))
  /\ UNCHANGED <<connState, sock, refCount, linked, pipe, workerOp>>

LeaveReads(w) ==
  /\ workerOp' = [workerOp EXCEPT ![w] = "none"]
  /\ Leave(Mine(w))
  /\ Release(Mine(w), 1)

\* recv would block.  On a blocking socket it does: the worker stays in recv
\* with m_lock held.
RecvNothing(w) ==
  /\ NonBlocking
  /\ Inside(w, "recv", "service")
  /\ LeaveReads(w)
  /\ UNCHANGED <<connState, sock, responseRef, linked, pipe>>

\* recv returned 0 or an error: DoStreamReads tears the connection down,
\* DoMessageReads just returns.
RecvEnd(w) ==
  \/ /\ workerOp[w] = "stream"
     /\ Inside(w, "recv", "remove")
     /\ workerOp' = [workerOp EXCEPT ![w] = "end of stream"]
     /\ AcquireResponseRef(Mine(w))
     /\ UNCHANGED <<connState, sock, refCount, lock, linked, pipe>>
  \/ /\ workerOp[w] = "messages"
     /\ Inside(w, "recv", "service")
     /\ LeaveReads(w)
     /\ UNCHANGED <<connState, sock, responseRef, linked, pipe>>

\* Wrong variant: the state is not looked at.
StreamReadsAlways(c) == TRUE

\* DoStreamReads goes on only while the connection is not being shut down.
StreamReadsOn(c) == connState[c] # "DISCONNECTING"

\* The callback has returned: m_lock.Enter and ReleaseResponseRef.
CallbackReturns(w) ==
  LET c == Mine(w) IN
  /\ workerPc[w] = "callback"
  /\ lock[c] = "free"
  /\ responseRef' = [responseRef EXCEPT ![c] = @ - 1]
  /\ UNCHANGED <<connState, linked, pipe>>
  /\ \/ \* CheckConnect, then DoWrites or DoExceptions, release a reference each
        /\ workerOp[w] = "connect"
        /\ Inside(w, "callback", "service")
        /\ workerOp' = [workerOp EXCEPT ![w] = "none"]
        /\ Release(c, 2)
        /\ UNCHANGED <<sock, lock>>
     \/ \* the end of a stream and DoDisconnect reset m_sock only now
        /\ workerOp[w] \in {"end of stream", "disconnect"}
        /\ Inside(w, "callback", "service")
        /\ workerOp' = [workerOp EXCEPT ![w] = "none"]
        /\ sock' = [sock EXCEPT ![c] = "none"]
        /\ Release(c, 1)
        /\ UNCHANGED lock
     \/ \* DoStreamReads stops after 5 ms, or when DISCONNECTING;
        \* DoMessageReads stops after a message without a body
        /\ workerOp[w] \in {"stream", "messages"}
        /\ Inside(w, "callback", "service")
        /\ LeaveReads(w)
        /\ UNCHANGED sock
     \/ \* otherwise DoMessageReads reads on whatever the state is
        /\ \/ workerOp[w] = "messages"
           \/ workerOp[w] = "stream" /\ StreamReadsOn(c)
        /\ Inside(w, "callback", "recv")
        /\ lock' = [lock EXCEPT ![c] = "worker"]
        /\ UNCHANGED <<sock, refCount, workerOp, fault>>

\* Service re-reads m_serviceFlags under m_connectionsLock.
ReloadFlags(w) ==
  LET c == Mine(w) IN
  /\ workerPc[w] = "service"
  /\ workerFlags[w] = {}
  /\ ConnectionsLockFree
  /\ WorkerStep(w, "service", IF serviceFlags[c] = {} THEN "finish" ELSE "service")
  /\ workerFlags' = [workerFlags EXCEPT ![w] = serviceFlags[c]]
  /\ serviceFlags' = [serviceFlags EXCEPT ![c] = {}]
  /\ UNCHANGED <<connState, sock, refCount, responseRef, serviceCount, lock,
                 linked, workerSem, pipe, workerOp, serviceConn, event,
                 workerLock, fault>>

\* worker.lock.Enter, then m_serviceCount is decremented: from here on the
\* network thread scans the connection again.
EndService(w) ==
  /\ WorkerStep(w, "finish", "drop")
  /\ workerLock' = [workerLock EXCEPT ![w] = TRUE]
  /\ serviceCount' = [serviceCount EXCEPT ![Mine(w)] = @ - 1]
  /\ UNCHANGED <<connState, sock, refCount, responseRef, serviceFlags, lock,
                 linked, workerSem, pipe, workerOp, workerFlags, serviceConn,
                 event, fault>>

\* Release, serviceConn = nullptr, worker.lock.Leave
DropConnection(w) ==
  /\ WorkerStep(w, "drop", "signal")
  /\ Release(Mine(w), 1)
  /\ serviceConn' = [serviceConn EXCEPT ![w] = NoConn]
  /\ workerLock' = [workerLock EXCEPT ![w] = FALSE]
  /\ UNCHANGED <<connState, sock, responseRef, serviceCount, serviceFlags, lock,
                 linked, workerSem, pipe, workerOp, workerFlags, event>>

SignalFree(w) ==
  /\ WorkerStep(w, "signal", "ready")
  /\ SignalWorkerSem
  /\ UNCHANGED <<connVars, linked, pipe, workerOp, workerFlags, serviceConn,
                 event, workerLock, fault>>

\* PlatformWorkerReady
WorkerReady(w) ==
  /\ WorkerStep(w, "ready", "idle")
  /\ PlatformWorkerReady
  /\ UNCHANGED <<connVars, linked, workerSem, workerOp, workerFlags, serviceConn,
                 event, workerLock, fault>>

Worker(w) ==
  \/ WorkerStart(w) \/ WorkerWakes(w)
  \/ DoWritesOrExceptions(w, "write") \/ DoReads(w)
  \/ DoWritesOrExceptions(w, "error") \/ DoDisconnect(w)
  \/ CheckConnect(w) \/ RemoveConnection(w) \/ CloseConnection(w)
  \/ SetDisconnected(w) \/ Announce(w)
  \/ RecvData(w) \/ RecvNothing(w) \/ RecvEnd(w) \/ CallbackReturns(w)
  \/ ReloadFlags(w) \/ EndService(w) \/ DropConnection(w) \/ SignalFree(w)
  \/ WorkerReady(w)

-----------------------------------------------------------------------------
\* After a failed assertion or a freed connection nothing is known of the
\* program any more, and the model stops.
Halted == fault # "none" /\ UNCHANGED vars

Next ==
  \/ \E c \in Conns : Owner(c) \/ Disconnect(c) \/ DisconnectNotify(c)
  \/ Network
  \/ \E w \in Workers : Worker(w)
  \/ Halted

Spec == Init /\ [][Next]_vars

\* A thread that can run does run, and one that waits for a lock the others
\* keep releasing gets it.  The return of select is due only once the pipe or
\* the zero timeout forces it; a recv that does not block returns, with what the
\* peer sent; an owner or a caller of Disconnect ends the call it has begun.
NetworkRuns ==
  OpenPipe \/ BeginScan \/ ScanConnection \/ EndScan \/ SelectWake \/ WalkSlot
  \/ TakeWorker \/ NoWorker \/ AssignWorker \/ ReleaseSlot \/ EndWalk

WorkerRuns(w) == workerPc[w] # "recv" /\ Worker(w)

RecvReturns(w) == NonBlocking /\ workerPc[w] = "recv" /\ Worker(w)

OwnerRuns(c) == ownerPc[c] # "idle" /\ Owner(c)

Fairness ==
  /\ WF_vars(NetworkRuns)
  /\ \A w \in Workers : SF_vars(WorkerRuns(w)) /\ WF_vars(RecvReturns(w))
  /\ \A c \in Conns : SF_vars(OwnerRuns(c)) /\ WF_vars(DisconnectNotify(c))

FairSpec == Spec /\ Fairness

\* The peer of a message connection pauses: now and then recv finds nothing.
PeerPauses ==
  \A w \in Workers : SF_vars(RecvNothing(w) /\ workerOp[w] = "messages")

PausingSpec == FairSpec /\ PeerPauses

-----------------------------------------------------------------------------
(* Properties.  Most hold until the scan has counted a slot it did not     *)
(* fill, which PlatformRun's default case allows (see the README).         *)

WorkerPcs == {"start", "idle", "service", "check", "remove", "close", "state",
              "announce", "callback", "recv", "finish", "drop",
              "signal", "ready"}
OwnerPcs == {"idle", "close old", "forget old", "create", "add", "connecting",
             "notify", "connect", "remove", "close", "error", "leave"}
Ops == {"none", "connect", "stream", "messages", "end of stream", "disconnect"}

ConnTypeOK ==
  /\ connState \in [Conns -> States]
  /\ sock \in [Conns -> {"none", "open", "closed"}]
  /\ refCount \in [Conns -> Int]
  /\ responseRef \in [Conns -> Int]
  /\ serviceCount \in [Conns -> Int]
  /\ serviceFlags \in [Conns -> SUBSET Flags]
  /\ lock \in [Conns -> {"free", "owner", "worker", "disconnect"}]

OwnerTypeOK ==
  /\ ownerPc \in [Conns -> OwnerPcs]
  /\ connects \in [Conns -> Nat]

SharedTypeOK ==
  /\ linked \in Seq(Conns)
  /\ workerSem \in Nat
  /\ pipe \in BOOLEAN
  /\ fault \in Faults

NetTypeOK ==
  /\ netPc \in {"start", "top", "scan", "select", "walk", "signal", "assign",
                "release"}
  /\ netIdx \in 1..(NumSlots + 1)
  /\ netFlags \in SUBSET Flags
  /\ candidate \in Workers
  /\ slots \in [1..NumSlots -> Conns \cup {NoConn}]
  /\ slotCount \in 0..NumSlots
  /\ interest \in [Conns -> SUBSET Flags]
  /\ disconnecting \in BOOLEAN
  /\ staleSlot \in BOOLEAN

WorkerTypeOK ==
  /\ workerPc \in [Workers -> WorkerPcs]
  /\ workerOp \in [Workers -> Ops]
  /\ workerFlags \in [Workers -> SUBSET Flags]
  /\ serviceConn \in [Workers -> Conns \cup {NoConn}]
  /\ event \in [Workers -> BOOLEAN]
  /\ workerLock \in [Workers -> BOOLEAN]

\* Every variable has the values of its field; the network thread stays within
\* its array of slots.
TypeOK ==
  ConnTypeOK /\ OwnerTypeOK /\ SharedTypeOK /\ NetTypeOK /\ WorkerTypeOK

\* No STORM_ASSERT of SignalWorker (WowConnectionNet.cpp:138,144) or of
\* AcquireResponseRef and ReleaseResponseRef (WowConnection.cpp:138,708) fails,
\* no slot is read before it was written and no connection in use is freed.
AssertionsHold ==
  ~staleSlot => fault = "none" /\ \A c \in Conns : responseRef[c] >= 0

Servicing(w) == serviceConn[w] # NoConn /\ workerPc[w] # "drop"

\* STORM_ASSERT(this->m_workers[i].serviceConn != connection) in SignalWorker
\* (WowConnectionNet.cpp:138): a connection is never handed out twice.  PlatformRun
\* refutes it once it has counted a slot it did not fill.
NeverAssignedTwice == fault # "same connection assigned twice"

\* Two workers never run the Do* functions of one connection at a time, which
\* is what makes m_readBuffer, m_readBytes and m_responseRef safe to use while
\* m_lock is released around a callback.
OneWorkerPerConnection ==
  ~staleSlot => \A v, w \in Workers :
    Servicing(v) /\ Servicing(w) /\ serviceConn[v] = serviceConn[w] => v = w

Count(b) == IF b THEN 1 ELSE 0

\* The references the walk over the slots still has to give back
SlotRefs(c) ==
  Count(\E i \in 1..slotCount :
          /\ slots[i] = c
          /\ \/ netPc \in {"scan", "select"}
             \/ netPc \in {"walk", "signal", "assign", "release"} /\ netIdx <= i)

\* The references of a worker and of the call chain it is in
WorkerRefs(w) ==
  CASE workerPc[w] \in {"check", "recv"} -> 2
    [] workerPc[w] \in {"remove", "close", "state", "announce"} ->
         IF workerOp[w] = "disconnect" THEN 1 ELSE 2
    [] workerPc[w] = "callback" -> IF workerOp[w] = "connect" THEN 3 ELSE 2
    [] OTHER -> 1

\* The references on c of each worker, and the total of such a function
HeldBy(c) == [w \in Workers |-> IF serviceConn[w] = c THEN WorkerRefs(w) ELSE 0]

Total(f) ==
  LET sum[n \in 0..NumWorkers] == IF n = 0 THEN 0 ELSE sum[n - 1] + f[n]
  IN  sum[NumWorkers]

\* m_refCount is exact: the owner's reference, one per filled slot not walked
\* yet, one from SignalWorker until the worker drops the connection, and those
\* of the Do* functions on the worker's stack.
RefCountExact ==
  ~staleSlot => \A c \in Conns :
    refCount[c] = 1 + SlotRefs(c)
                + Count(netPc = "assign" /\ slots[netIdx] = c)
                + Total(HeldBy(c))

\* The tokens of m_workerSem are exact: each of the NumWorkers tokens is in the
\* semaphore, taken by SignalWorker, with a worker that has a connection, or due
\* from a worker that has yet to signal.  So the search of SignalWorker, which
\* may meet a worker that has not signalled, always ends at a free one.
TokensExact ==
  workerSem + Count(netPc = "assign")
            + Cardinality({w \in Workers : serviceConn[w] # NoConn})
            + Cardinality({w \in Workers : workerPc[w] \in {"start", "signal"}})
    = NumWorkers

\* References and tokens are all accounted for.
CountsExact == RefCountExact /\ TokensExact

\* A thread that changed what the scan looks at and has yet to write the pipe
WillWake(c) ==
  \/ lock[c] = "disconnect"
  \/ ownerPc[c] \in {"notify", "leave", "error", "close"}
  \/ \E w \in Workers : \/ serviceConn[w] = c
                        \/ workerPc[w] \in {"signal", "ready"}

\* No lost wakeup: when select can sleep (no byte in the pipe, 30 s timeout),
\* every linked connection is in the descriptor sets its state asks for, or a
\* thread is about to write the pipe.
NoLostWakeup ==
  netPc = "select" /\ ~pipe /\ ~disconnecting =>
    \A c \in Conns :
      IsLinked(c) /\ ~WillWake(c) /\ ownerPc[c] # "connecting" =>
        /\ interest[c] = Wanted(connState[c])
        /\ connState[c] # "DISCONNECTING"

\* Between calls a connection is linked and has an open socket exactly when its
\* state is one the network thread selects on; once torn down it has neither.
\* SendRaw's STORM_ASSERT(m_sock >= 0) (WowConnection.cpp:820) follows.
SettledConsistent ==
  \A c \in Conns :
    /\ lock[c] = "free"
    /\ \A w \in Workers : serviceConn[w] = c => workerPc[w] # "callback"
    /\ ~staleSlot
    => IF connState[c] \in Selectable
       THEN IsLinked(c) /\ sock[c] = "open"
       ELSE ~IsLinked(c) /\ sock[c] = "none"

\* A stream delivers no data to its response once Disconnect was called.
StreamsStopOnDisconnect ==
  [][\A w \in Workers :
       workerPc[w] = "recv" /\ workerPc'[w] = "callback" /\ workerOp[w] = "stream"
         => connState[serviceConn[w]] = "CONNECTED"]_vars

\* Disconnect is carried out, without the help of select's 30 s timeout; only a
\* new Connect takes its place.
DisconnectCompletes ==
  \A c \in Conns :
    connState[c] = "DISCONNECTING"
      ~> (connState[c] \in {"DISCONNECTED", "CONNECTING", "ERROR"} \/ staleSlot)

\* m_lock is never kept for good, so Send and Disconnect return.
LockIsReleased == \A c \in Conns : []<>(lock[c] = "free" \/ fault # "none")
=============================================================================
