---------------------------- MODULE WowNetCounts ----------------------------
(***************************************************************************)
(* The counts of WowNet, for any number of connections and workers: the    *)
(* tokens of m_workerSem, the references of a connection (m_refCount) and  *)
(* of its response (m_responseRef), and, from them, that no assertion of   *)
(* the connection engine fails and no connection in use is freed; then     *)
(* m_serviceCount, m_lock, that no wakeup of the network thread is lost,   *)
(* and that the state, the list and the socket of a connection agree.      *)
(*                                                                         *)
(* Each count is kept by an exact account: TokenInv says where each token  *)
(* of the semaphore is, RefsCounted who holds each reference, and          *)
(* ResponseExact which worker holds the response.  What a worker holds     *)
(* depends only on where it is in the Do* function it was called for       *)
(* (RefsOf, RespOf); WorkerAccounts says that a step of a worker changes   *)
(* the counts by exactly the difference.  ConsistentInv says what is true  *)
(* of a connection at each place its owner or its worker can be.           *)
(***************************************************************************)
EXTENDS WowNetProofs

-----------------------------------------------------------------------------
(* Totals: what a total over the workers does when one worker changes.     *)

SF == INSTANCE SequenceFacts

\* The values of the function that Total recurs on.
Sums(s, f) == /\ s[0] = 0
              /\ \A n \in Workers : s[n] = s[n - 1] + f[n]

\* Total is the last of the partial sums.
LEMMA TotalSums ==
  ASSUME NEW f
  PROVE  \E s : Sums(s, f) /\ Total(f) = s[NumWorkers]
<1> DEFINE Step(s, n) == IF n = 0 THEN 0 ELSE s[n - 1] + f[n]
           Upto(n) == \E s : s = [i \in 0..n |-> Step(s, i)]
           sum == CHOOSE s : s = [n \in 0..NumWorkers |-> Step(s, n)]
<1>1. NumWorkers \in Nat \ {0}
  BY WowNetAssumption
<1>2. Upto(0)
  <2>1. [i \in 0..0 |-> 0] = [i \in 0..0 |-> Step([j \in 0..0 |-> 0], i)]
    OBVIOUS
  <2> QED BY <2>1
<1>3. ASSUME NEW n \in Nat, Upto(n)
      PROVE  Upto(n + 1)
  <2>1. PICK g : g = [i \in 0..n |-> Step(g, i)]
    BY <1>3
  <2>2. \A i \in 0..n : g[i] = Step(g, i)
    <3> HIDE DEF Step
    <3> QED BY <2>1
  <2> DEFINE h == [i \in 0..(n + 1) |-> IF i = n + 1 THEN Step(g, i) ELSE g[i]]
  <2>3. \A i \in 0..(n + 1) : h[i] = Step(h, i)
    <3> TAKE i \in 0..(n + 1)
    <3>1. CASE i = n + 1
      <4>1. h[i] = Step(g, i) /\ i - 1 \in 0..n /\ h[i - 1] = g[i - 1] /\ i # 0
        BY <3>1
      <4> QED BY <4>1
    <3>2. CASE i # n + 1
      <4>1. i \in 0..n /\ h[i] = g[i] /\ g[i] = Step(g, i)
        BY <2>2, <3>2
      <4>2. CASE i = 0
        BY <4>1, <4>2
      <4>3. CASE i # 0
        <5>1. i - 1 \in 0..n /\ h[i - 1] = g[i - 1]
          BY <3>2, <4>3
        <5> HIDE DEF h
        <5> QED BY <4>1, <4>3, <5>1
      <4> QED BY <4>2, <4>3
    <3> QED BY <3>1, <3>2
  <2>4. h = [i \in 0..(n + 1) |-> Step(h, i)]
    <3>1. h = [i \in 0..(n + 1) |-> h[i]]
      OBVIOUS
    <3> HIDE DEF h, Step
    <3> QED BY <2>3, <3>1
  <2> HIDE DEF h
  <2> QED BY <2>4
<1>4. Upto(NumWorkers)
  <2> DEFINE A == {n \in Nat : Upto(n)}
  <2> HIDE DEF Upto
  <2>1. 0 \in A
    BY <1>2
  <2>2. ASSUME NEW i \in 1..NumWorkers, i - 1 \in A
        PROVE  i \in A
    <3>1. i - 1 \in Nat /\ (i - 1) + 1 = i
      OBVIOUS
    <3>2. Upto((i - 1) + 1)
      BY <1>3, <2>2, <3>1
    <3> QED BY <3>1, <3>2
  <2> HIDE DEF A
  <2>3. 0..NumWorkers \subseteq A
    BY <1>1, <2>1, <2>2, SF!IntervalInduction
  <2> QED BY <1>1, <2>3 DEF A
<1>5. sum = [n \in 0..NumWorkers |-> Step(sum, n)]
  BY <1>4
<1>6. Total(f) = sum[NumWorkers]
  BY DEF Total
<1> HIDE DEF sum
<1>7. \A n \in 0..NumWorkers : sum[n] = Step(sum, n)
  <2> HIDE DEF Step
  <2> QED BY <1>5
<1>8. Sums(sum, f)
  BY <1>1, <1>7 DEF Sums, Workers
<1> QED BY <1>6, <1>8

\* When one worker's share changes, the total changes by as much.
LEMMA TotalMoves ==
  ASSUME NEW f \in [Workers -> Int], NEW g \in [Workers -> Int], NEW w \in Workers,
         \A v \in Workers : v # w => g[v] = f[v]
  PROVE  Total(f) \in Int /\ Total(g) = Total(f) + g[w] - f[w]
<1>1. NumWorkers \in Nat \ {0}
  BY WowNetAssumption
<1>2. PICK s : Sums(s, f) /\ Total(f) = s[NumWorkers]
  BY TotalSums
<1>3. PICK t : Sums(t, g) /\ Total(g) = t[NumWorkers]
  BY TotalSums
<1> DEFINE A == {n \in 0..NumWorkers :
                   /\ s[n] \in Int
                   /\ t[n] = s[n] + (IF n < w THEN 0 ELSE g[w] - f[w])}
<1>4. 0 \in A
  BY <1>1, <1>2, <1>3 DEF Sums, Workers
<1>5. ASSUME NEW i \in 1..NumWorkers, i - 1 \in A
      PROVE  i \in A
  <2>1. i \in Workers /\ s[i] = s[i - 1] + f[i] /\ t[i] = t[i - 1] + g[i]
    BY <1>2, <1>3 DEF Sums, Workers
  <2>2. f[i] \in Int /\ g[i] \in Int /\ f[w] \in Int /\ g[w] \in Int /\ w \in Nat
    BY <2>1 DEF Workers
  <2>3. s[i - 1] \in Int /\ t[i - 1] = s[i - 1] + (IF i - 1 < w THEN 0 ELSE g[w] - f[w])
    BY <1>5
  <2>4. CASE i = w
    BY <2>1, <2>2, <2>3, <2>4
  <2>5. CASE i # w
    <3>1. g[i] = f[i] /\ ((i < w) <=> (i - 1 < w))
      BY <2>1, <2>2, <2>5
    <3> QED BY <2>1, <2>2, <2>3, <3>1
  <2> QED BY <2>4, <2>5
<1> HIDE DEF A
<1>6. 0..NumWorkers \subseteq A
  BY <1>1, <1>4, <1>5, SF!IntervalInduction
<1>7. NumWorkers \in A /\ ~(NumWorkers < w)
  BY <1>1, <1>6 DEF Workers
<1> QED BY <1>2, <1>3, <1>7 DEF A

\* A total of naturals is at least each of them.
LEMMA TotalBounds ==
  ASSUME NEW f \in [Workers -> Nat], NEW w \in Workers
  PROVE  Total(f) \in Int /\ Total(f) >= f[w]
<1>1. NumWorkers \in Nat \ {0}
  BY WowNetAssumption
<1>2. PICK s : Sums(s, f) /\ Total(f) = s[NumWorkers]
  BY TotalSums
<1> DEFINE A == {n \in 0..NumWorkers : s[n] \in Nat /\ (w <= n => s[n] >= f[w])}
<1>3. 0 \in A
  BY <1>1, <1>2 DEF Sums, Workers
<1>4. ASSUME NEW i \in 1..NumWorkers, i - 1 \in A
      PROVE  i \in A
  <2>1. i \in Workers /\ s[i] = s[i - 1] + f[i]
    BY <1>2 DEF Sums, Workers
  <2>2. f[i] \in Nat /\ f[w] \in Nat /\ s[i - 1] \in Nat /\ w \in Nat
    BY <1>4, <2>1 DEF Workers
  <2>3. w <= i => s[i] >= f[w]
    <3>1. CASE i = w
      BY <2>1, <2>2, <3>1
    <3>2. CASE i # w
      BY <1>4, <2>1, <2>2, <3>2
    <3> QED BY <3>1, <3>2
  <2> QED BY <2>1, <2>2, <2>3
<1> HIDE DEF A
<1>5. 0..NumWorkers \subseteq A
  BY <1>1, <1>3, <1>4, SF!IntervalInduction
<1>6. NumWorkers \in A /\ w <= NumWorkers
  BY <1>1, <1>5 DEF Workers
<1> QED BY <1>2, <1>6 DEF A

-----------------------------------------------------------------------------
(* The tokens of m_workerSem.                                              *)

\* The workers that have a connection, and those that have yet to signal
Holding == {w \in Workers : serviceConn[w] # NoConn}
Due == {w \in Workers : workerPc[w] \in {"start", "signal"}}

Tokens == workerSem + Count(netPc = "assign") + Cardinality(Holding) + Cardinality(Due)
            = NumWorkers

\* The search of SignalWorker has a free worker before it.
FreeAhead ==
  netPc = "assign" => \E w \in Workers : candidate <= w /\ serviceConn[w] = NoConn

TokenInv == Tokens /\ FreeAhead

\* The sets of workers are finite.
LEMMA WorkersFinite ==
  /\ IsFiniteSet(Workers) /\ Cardinality(Workers) = NumWorkers
  /\ IsFiniteSet(Holding) /\ Cardinality(Holding) \in Nat
  /\ IsFiniteSet(Due) /\ Cardinality(Due) \in Nat
<1>1. NumWorkers \in Nat
  BY WowNetAssumption
<1>2. IsFiniteSet(Workers) /\ Cardinality(Workers) = NumWorkers
  BY <1>1, FS_Interval, CountTo DEF Workers
<1>3. Holding \subseteq Workers /\ Due \subseteq Workers
  BY DEF Holding, Due
<1> QED BY <1>2, <1>3, FS_Subset, FS_CardinalityType

\* A worker more, a worker less
LEMMA OneMore ==
  ASSUME NEW S \in SUBSET Workers, NEW w \in Workers
  PROVE  /\ Cardinality(S) \in Nat
         /\ w \notin S => Cardinality(S \cup {w}) = Cardinality(S) + 1
         /\ w \in S => Cardinality(S \ {w}) = Cardinality(S) - 1
<1>1. IsFiniteSet(S)
  BY WorkersFinite, FS_Subset
<1> QED BY <1>1, FS_AddElement, FS_RemoveElement, FS_CardinalityType

\* All tokens are due when the threads start.
LEMMA InitTokens == Init => TokenInv
<1> SUFFICES ASSUME Init PROVE TokenInv
  OBVIOUS
<1>1. netPc = "start" /\ workerSem = 0
  BY DEF Init
<1>2. Holding = {} /\ Due = Workers
  BY DEF Init, Holding, Due
<1>3. Cardinality(Holding) = 0
  BY <1>2, FS_EmptySet
<1> QED BY <1>1, <1>2, <1>3, WorkersFinite, WowNetAssumption
       DEF TokenInv, Tokens, FreeAhead, Count

\* Steps that leave the semaphore, the search and the workers' sides alone
LEMMA TokensFrame ==
  ASSUME TokenInv,
         UNCHANGED <<workerSem, serviceConn, candidate>>,
         netPc' = "assign" <=> netPc = "assign",
         \A w \in Workers : workerPc'[w] \in {"start", "signal"}
                              <=> workerPc[w] \in {"start", "signal"}
  PROVE  TokenInv'
<1>1. Holding' = Holding /\ Due' = Due
  BY DEF Holding, Due
<1>2. Count(netPc = "assign")' = Count(netPc = "assign")
  BY DEF Count
<1> QED BY <1>1, <1>2 DEF TokenInv, Tokens, FreeAhead

\* A worker passes its token on: from its start to the semaphore, and from its
\* connection through its signal back to the semaphore.
LEMMA WorkerTokens ==
  ASSUME StructInv, TokenInv, NEW w \in Workers, Worker(w)
  PROVE  TokenInv'
<1>1. /\ netPc' = netPc /\ candidate' = candidate
      /\ Count(netPc = "assign")' = Count(netPc = "assign")
  BY WorkerFrame DEF netVars, Count
<1>2. /\ workerPc \in [Workers -> WorkerPcs]
      /\ serviceConn \in [Workers -> Conns \cup {NoConn}]
      /\ workerSem \in Nat /\ Count(netPc = "assign") \in Nat /\ NumWorkers \in Nat
  BY WowNetAssumption DEF StructInv, TypeOK, WorkerTypeOK, SharedTypeOK, Count
<1>3. Holding \in SUBSET Workers /\ Due \in SUBSET Workers
  BY DEF Holding, Due
<1>4. CASE WorkerStart(w) \/ SignalFree(w)
  <2>1. /\ UNCHANGED serviceConn /\ workerSem' = workerSem + 1
        /\ workerPc[w] \in {"start", "signal"}
        /\ \E pc \in {"idle", "ready"} : workerPc' = [workerPc EXCEPT ![w] = pc]
    BY <1>4 DEF WorkerStart, SignalFree, WorkerStep, SignalWorkerSem
  <2>2. Holding' = Holding /\ Due' = Due \ {w} /\ w \in Due
    BY <1>2, <2>1 DEF Holding, Due
  <2>3. Cardinality(Due') = Cardinality(Due) - 1
    BY <1>3, <2>2, OneMore
  <2> QED BY <1>1, <1>2, <2>1, <2>2, <2>3, WorkersFinite DEF TokenInv, Tokens, FreeAhead
<1>5. CASE DropConnection(w)
  <2>1. /\ UNCHANGED workerSem
        /\ serviceConn' = [serviceConn EXCEPT ![w] = NoConn]
        /\ workerPc' = [workerPc EXCEPT ![w] = "signal"] /\ workerPc[w] = "drop"
    BY <1>5 DEF DropConnection, WorkerStep
  <2>2. w \in Holding /\ w \notin Due
    BY <2>1 DEF Holding, Due, StructInv, WorkerHolds, Busy, WorkerPcs
  <2>3. Holding' = Holding \ {w} /\ Due' = Due \cup {w}
    BY <1>2, <2>1 DEF Holding, Due
  <2>4. /\ Cardinality(Holding') = Cardinality(Holding) - 1
        /\ Cardinality(Due') = Cardinality(Due) + 1
    BY <1>3, <2>2, <2>3, OneMore
  <2>5. FreeAhead'
    BY <1>1, <1>2, <2>1 DEF TokenInv, FreeAhead
  <2> QED BY <1>1, <1>2, <2>1, <2>4, <2>5, WorkersFinite DEF TokenInv, Tokens
<1>6. CASE Serves(w) \/ WorkerWakes(w) \/ EndService(w) \/ WorkerReady(w)
  <2>1. /\ UNCHANGED serviceConn
        /\ workerPc[w] \notin {"start", "signal"}
        /\ \E pc \in WorkerPcs \ {"start", "signal"} :
             workerPc' = [workerPc EXCEPT ![w] = pc]
    BY <1>6 DEF Serves, WorkerWakes, EndService, WorkerReady, WorkerStep, Busy, WorkerPcs
  <2>2. UNCHANGED workerSem
    <3>1. ~WorkerStart(w) /\ ~SignalFree(w)
      BY <2>1 DEF WorkerStart, SignalFree, WorkerStep
    <3> QED BY <3>1 DEF Worker, Inside, BeginFlag, WorkerWakes, DoWritesOrExceptions,
     DoReads, DoDisconnect, CheckConnect, RemoveConnection, CloseConnection,
     SetDisconnected, Announce, RecvData, RecvNothing, RecvEnd, CallbackReturns,
     ReloadFlags, EndService, DropConnection, WorkerReady
  <2>3. \A v \in Workers : workerPc'[v] \in {"start", "signal"}
                             <=> workerPc[v] \in {"start", "signal"}
    BY <1>2, <2>1
  <2> QED BY <1>1, <2>1, <2>2, <2>3, TokensFrame
<1> QED BY <1>4, <1>5, <1>6, ServesCases

\* The network thread takes a token, and gives it away with the connection.
LEMMA NetworkTokens ==
  ASSUME StructInv, TokenInv, Network
  PROVE  TokenInv'
<1>1. /\ serviceConn \in [Workers -> Conns \cup {NoConn}] /\ NoConn \notin Conns
      /\ workerSem \in Nat /\ NumWorkers \in Nat \ {0} /\ candidate \in Workers
  BY WowNetAssumption DEF StructInv, TypeOK, WorkerTypeOK, SharedTypeOK, NetTypeOK
<1>2. Holding \in SUBSET Workers /\ Due \in SUBSET Workers
  BY DEF Holding, Due
<1>3. CASE TakeWorker
  <2>1. /\ netPc = "signal" /\ netPc' = "assign" /\ candidate' = 1
        /\ workerSem > 0 /\ workerSem' = workerSem - 1
        /\ UNCHANGED <<serviceConn, workerPc>>
    BY <1>3 DEF TakeWorker, NetAt, workerVars
  <2>2. Holding' = Holding /\ Due' = Due
    BY <2>1 DEF Holding, Due
  <2>3. Count(netPc = "assign") = 0 /\ Count(netPc = "assign")' = 1
    BY <2>1 DEF Count
  <2>4. Tokens'
    BY <1>1, <2>1, <2>2, <2>3, WorkersFinite DEF TokenInv, Tokens
  <2>5. Holding # Workers
    BY <1>1, <2>1, <2>3, WorkersFinite DEF TokenInv, Tokens
  <2>6. FreeAhead'
    BY <1>1, <1>2, <2>1, <2>5 DEF FreeAhead, Holding, Workers
  <2> QED BY <2>4, <2>6 DEF TokenInv
<1>4. CASE AssignWorker
  <2>1. netPc = "assign" /\ UNCHANGED <<workerSem, workerPc>>
    BY <1>4 DEF AssignWorker, NetAt
  <2>2. slots[netIdx] \in Conns
    BY <2>1, SlotIsConn DEF StructInv, NetBounds
  <2>3. CASE serviceConn[candidate] = NoConn
    <3>1. /\ serviceConn' = [serviceConn EXCEPT ![candidate] = slots[netIdx]]
          /\ netPc' = "release"
      BY <1>4, <2>3 DEF AssignWorker
    <3>2. Holding' = Holding \cup {candidate} /\ candidate \notin Holding /\ Due' = Due
      BY <1>1, <2>1, <2>2, <2>3, <3>1 DEF Holding, Due
    <3>3. Cardinality(Holding') = Cardinality(Holding) + 1
      BY <1>1, <1>2, <3>2, OneMore
    <3>4. Count(netPc = "assign") = 1 /\ Count(netPc = "assign")' = 0
      BY <2>1, <3>1 DEF Count
    <3> QED BY <1>1, <2>1, <3>1, <3>2, <3>3, <3>4, WorkersFinite
            DEF TokenInv, Tokens, FreeAhead
  <2>4. CASE serviceConn[candidate] # NoConn
    <3>1. /\ UNCHANGED <<serviceConn, netPc>>
          /\ candidate' = IF candidate < NumWorkers THEN candidate + 1 ELSE candidate
      BY <1>4, <2>4 DEF AssignWorker
    <3>2. Holding' = Holding /\ Due' = Due
          /\ Count(netPc = "assign")' = Count(netPc = "assign")
      BY <2>1, <3>1 DEF Holding, Due, Count
    <3>3. FreeAhead'
      <4>1. PICK v \in Workers : candidate <= v /\ serviceConn[v] = NoConn
        BY <2>1 DEF TokenInv, FreeAhead
      <4>2. v # candidate /\ candidate \in Nat /\ v \in Nat
        BY <1>1, <2>4, <4>1 DEF Workers
      <4>3. candidate' <= v
        BY <3>1, <4>1, <4>2
      <4> QED BY <3>1, <4>1, <4>3 DEF FreeAhead
    <3> QED BY <2>1, <3>2, <3>3 DEF TokenInv, Tokens
  <2> QED BY <2>3, <2>4
<1>5. CASE Network /\ ~TakeWorker /\ ~AssignWorker
  <2>1. /\ UNCHANGED <<workerSem, serviceConn, candidate, workerPc>>
        /\ netPc # "assign" /\ netPc' # "assign"
    BY <1>5 DEF Network, OpenPipe, BeginScan, ScanConnection, EndScan, SelectWake,
       SelectReady, SelectReturns, WalkSlot, NoWorker, ReleaseSlot, EndWalk, NetAt,
       NetUnchanged, workerVars
  <2> QED BY <2>1, TokensFrame
<1> QED BY <1>3, <1>4, <1>5

\* The tokens stay accounted for, and the search has a free worker before it.
LEMMA TokensStep == StructInv /\ TokenInv /\ [Next]_vars => TokenInv'
<1> SUFFICES ASSUME StructInv, TokenInv, [Next]_vars PROVE TokenInv'
  OBVIOUS
<1>1. CASE UNCHANGED vars
  BY <1>1, TokensFrame DEF vars, netVars, workerVars
<1>2. ASSUME NEW c \in Conns, Owner(c) \/ Disconnect(c) \/ DisconnectNotify(c)
      PROVE  TokenInv'
  <2>1. UNCHANGED <<workerSem, netVars, workerVars>>
    BY <1>2 DEF Owner, OwnerStep, StartConnect, CloseOldSocket, ForgetOldSocket,
     CreateSocket, AddConnection, SetConnecting, NotifyConnecting, ConnectSyscall,
     RemoveFailed, CloseFailed, SetError, LeaveConnect, Disconnect, DisconnectNotify
  <2> QED BY <2>1, TokensFrame DEF netVars, workerVars
<1> QED BY <1>1, <1>2, NetworkTokens, WorkerTokens DEF Next, Halted

-----------------------------------------------------------------------------
(* The references of a worker and of the response.                         *)

Teardown == {"remove", "close", "state", "announce"}

\* What a worker does on behalf of which Do* function
OpFits(pc, op) ==
  /\ op \in Ops
  /\ pc = "check" => op = "connect"
  /\ pc = "recv" => op \in {"stream", "messages"}
  /\ pc \in Teardown => op \in {"connect", "end of stream", "disconnect"}
  /\ pc = "callback" => op # "none"

OpInv == \A w \in Workers : OpFits(workerPc[w], workerOp[w])

\* WorkerRefs, and whether the worker has the response's reference, as functions
\* of where it is
RefsOf(pc, op) ==
  IF pc \in {"check", "recv"} THEN 2
  ELSE IF pc \in Teardown THEN (IF op = "disconnect" THEN 1 ELSE 2)
  ELSE IF pc = "callback" THEN (IF op = "connect" THEN 3 ELSE 2)
  ELSE 1

RespOf(pc, op) ==
  IF pc = "callback" THEN 1
  ELSE IF pc \in Teardown /\ op = "end of stream" THEN 1 ELSE 0

\* RefsOf is what RefCountExact counts.
LEMMA WorkerRefsOf ==
  ASSUME NEW w \in Workers
  PROVE  WorkerRefs(w) = RefsOf(workerPc[w], workerOp[w]) /\ WorkerRefs(w) \in {1, 2, 3}
<1>1. CASE workerPc[w] \in {"check", "recv"}
  BY <1>1 DEF WorkerRefs, RefsOf, Teardown
<1>2. CASE workerPc[w] \in Teardown
  BY <1>2 DEF WorkerRefs, RefsOf, Teardown
<1>3. CASE workerPc[w] = "callback"
  BY <1>3 DEF WorkerRefs, RefsOf, Teardown
<1>4. CASE workerPc[w] \notin {"check", "recv"} \cup Teardown \cup {"callback"}
  BY <1>4 DEF WorkerRefs, RefsOf, Teardown
<1> QED BY <1>1, <1>2, <1>3, <1>4

\* What a worker holds of m_refCount and of m_responseRef
Refs(w) == RefsOf(workerPc[w], workerOp[w])
Resp(w) == RespOf(workerPc[w], workerOp[w])

\* A step of worker w at connection c that leaves the other workers alone and
\* changes the two counts by m and n
MovesBy(w, c, m, n) ==
  /\ \A v \in Workers \ {w} : workerPc'[v] = workerPc[v] /\ workerOp'[v] = workerOp[v]
  /\ UNCHANGED serviceConn
  /\ refCount'[c] = refCount[c] + m /\ responseRef'[c] = responseRef[c] + n
  /\ \A d \in Conns \ {c} : refCount'[d] = refCount[d] /\ responseRef'[d] = responseRef[d]
  /\ fault' # "none" => refCount'[c] <= 0 \/ (Resp(w) = 0 /\ responseRef[c] # 0)

\* One step of a worker that keeps its connection: the two counts change by as
\* much as what the worker holds of them.
Accounts(w) ==
  /\ MovesBy(w, serviceConn[w], Refs(w)' - Refs(w), Resp(w)' - Resp(w))
  /\ OpFits(workerPc[w], workerOp[w])'
  /\ Refs(w) \in {1, 2, 3} /\ Refs(w)' \in {1, 2, 3}
  /\ Resp(w) \in {0, 1} /\ Resp(w)' \in {0, 1}

\* Where worker w is, and what it holds there
At(w, r, p) == OpFits(workerPc[w], workerOp[w]) /\ Refs(w) = r /\ Resp(w) = p

\* A step between two places changes the counts by the difference.
LEMMA Adds ==
  ASSUME NEW w \in Workers, NEW r \in {1, 2, 3}, NEW p \in {0, 1},
         NEW q \in {1, 2, 3}, NEW t \in {0, 1},
         At(w, r, p), At(w, q, t)', MovesBy(w, serviceConn[w], q - r, t - p)
  PROVE  Accounts(w)
  BY DEF At, Accounts

\* What a worker holds at each place
PlaceFacts ==
  \A w \in Workers : workerOp[w] \in Ops =>
    /\ workerPc[w] \in {"service", "finish", "drop"} => At(w, 1, 0)
    /\ workerPc[w] = "check" /\ workerOp[w] = "connect" => At(w, 2, 0)
    /\ workerPc[w] = "recv" /\ workerOp[w] \in {"stream", "messages"} => At(w, 2, 0)
    /\ workerPc[w] \in Teardown /\ workerOp[w] = "connect" => At(w, 2, 0)
    /\ workerPc[w] \in Teardown /\ workerOp[w] = "disconnect" => At(w, 1, 0)
    /\ workerPc[w] \in Teardown /\ workerOp[w] = "end of stream" => At(w, 2, 1)
    /\ workerPc[w] = "callback" /\ workerOp[w] = "connect" => At(w, 3, 1)
    /\ workerPc[w] = "callback" /\ workerOp[w] \notin {"connect", "none"} => At(w, 2, 1)

LEMMA Places == PlaceFacts
  BY ZenonT(30) DEF PlaceFacts, At, Refs, Resp, RefsOf, RespOf, OpFits, Teardown

\* Every Do* function takes and gives back exactly the references of its place.
LEMMA WorkerAccounts ==
  ASSUME StructInv, OpInv, NEW w \in Workers, workerPc[w] \in Busy, Worker(w),
         ~DropConnection(w)
  PROVE  Accounts(w)
<1> DEFINE c == serviceConn[w]
<1>1. /\ workerPc \in [Workers -> WorkerPcs] /\ workerOp \in [Workers -> Ops]
      /\ refCount \in [Conns -> Int] /\ responseRef \in [Conns -> Int]
      /\ c \in Conns /\ OpFits(workerPc[w], workerOp[w]) /\ workerOp[w] \in Ops
  BY WorkerConn DEF StructInv, TypeOK, ConnTypeOK, WorkerTypeOK, OpInv
<1>0. refCount[c] \in Int /\ responseRef[c] \in Int
  BY <1>1
<1>2. workerOp' \in [Workers -> Ops]
  BY WorkerStruct DEF StructInv, TypeOK, WorkerTypeOK
<1>3. workerOp'[w] \in Ops
  BY <1>2
<1>4. PlaceFacts /\ PlaceFacts'
  BY Places, PTL
<1>5. CASE DoWritesOrExceptions(w, "write") \/ DoWritesOrExceptions(w, "error")
  <2>1. CASE connState[c] = "CONNECTING"
    <3>1. /\ workerPc[w] = "service"
          /\ workerPc' = [workerPc EXCEPT ![w] = "check"]
          /\ workerOp' = [workerOp EXCEPT ![w] = "connect"]
          /\ refCount' = [refCount EXCEPT ![c] = @ + 1]
          /\ UNCHANGED <<serviceConn, responseRef>>
          /\ fault' = "none"
      BY <1>5, <2>1 DEF DoWritesOrExceptions, BeginFlag, WorkerStep, EnterConnection, Mine
    <3>2. /\ MovesBy(w, c, 2 - 1, 0 - 0)
          /\ workerPc'[w] = "check" /\ workerOp'[w] = "connect"
      <4>1. refCount'[c] = refCount[c] + (2 - 1)
        BY <1>0, <1>1, <3>1
      <4>2. responseRef'[c] = responseRef[c] + (0 - 0)
        BY <1>0, <1>1, <3>1
      <4>3. \A d \in Conns \ {c} : refCount'[d] = refCount[d] /\ responseRef'[d] = responseRef[d]
        BY <1>0, <1>1, <3>1
      <4>4. fault' # "none" => refCount'[c] <= 0 \/ (Resp(w) = 0 /\ responseRef[c] # 0)
        BY <3>1
      <4> QED BY <1>1, <3>1, <4>1, <4>2, <4>3, <4>4 DEF MovesBy
    <3>3. At(w, 1, 0) /\ At(w, 2, 0)'
      BY <1>1, <1>3, <1>4, <3>1, <3>2 DEF PlaceFacts, Teardown, Ops
    <3> HIDE DEF c
    <3> QED BY <3>2, <3>3, Adds DEF c
  <2>2. CASE connState[c] # "CONNECTING"
    <3>1. /\ workerPc[w] = "service"
          /\ workerPc' = [workerPc EXCEPT ![w] = "service"]
          /\ workerOp' = [workerOp EXCEPT ![w] = "none"]
          /\ UNCHANGED <<serviceConn, refCount, responseRef>>
          /\ fault' = "none"
      BY <1>5, <2>2 DEF DoWritesOrExceptions, BeginFlag, WorkerStep, Mine
    <3>2. /\ MovesBy(w, c, 1 - 1, 0 - 0)
          /\ workerPc'[w] = "service" /\ workerOp'[w] = "none"
      <4>1. refCount'[c] = refCount[c] + (1 - 1)
        BY <1>0, <1>1, <3>1
      <4>2. responseRef'[c] = responseRef[c] + (0 - 0)
        BY <1>0, <1>1, <3>1
      <4>3. \A d \in Conns \ {c} : refCount'[d] = refCount[d] /\ responseRef'[d] = responseRef[d]
        BY <1>0, <1>1, <3>1
      <4>4. fault' # "none" => refCount'[c] <= 0 \/ (Resp(w) = 0 /\ responseRef[c] # 0)
        BY <3>1
      <4> QED BY <1>1, <3>1, <4>1, <4>2, <4>3, <4>4 DEF MovesBy
    <3>3. At(w, 1, 0) /\ At(w, 1, 0)'
      BY <1>1, <1>3, <1>4, <3>1, <3>2 DEF PlaceFacts, Teardown, Ops
    <3> HIDE DEF c
    <3> QED BY <3>2, <3>3, Adds DEF c
  <2> QED BY <2>1, <2>2
<1>6. CASE DoReads(w)
  <2>1. CASE connState[c] = "CONNECTED"
    <3> DEFINE op == IF c \in Streams THEN "stream" ELSE "messages"
    <3>0. op \in {"stream", "messages"}
      OBVIOUS
    <3> HIDE DEF op
    <3>1. /\ workerPc[w] = "service"
          /\ workerPc' = [workerPc EXCEPT ![w] = "recv"]
          /\ workerOp' = [workerOp EXCEPT ![w] = op]
          /\ refCount' = [refCount EXCEPT ![c] = @ + 1]
          /\ UNCHANGED <<serviceConn, responseRef>>
          /\ fault' # "none" => responseRef[c] # 0
      BY <1>6, <2>1 DEF DoReads, BeginFlag, WorkerStep, EnterConnection, Mine, op
    <3>2. /\ MovesBy(w, c, 2 - 1, 0 - 0)
          /\ workerPc'[w] = "recv" /\ workerOp'[w] = op
      <4>1. refCount'[c] = refCount[c] + (2 - 1)
        BY <1>0, <1>1, <3>1
      <4>2. responseRef'[c] = responseRef[c] + (0 - 0)
        BY <1>0, <1>1, <3>1
      <4>3. \A d \in Conns \ {c} : refCount'[d] = refCount[d] /\ responseRef'[d] = responseRef[d]
        BY <1>0, <1>1, <3>1
      <4>4. fault' # "none" => refCount'[c] <= 0 \/ (Resp(w) = 0 /\ responseRef[c] # 0)
        BY <1>1, <1>4, <3>1 DEF PlaceFacts, At, Teardown
      <4> QED BY <1>1, <3>1, <4>1, <4>2, <4>3, <4>4 DEF MovesBy
    <3>3. At(w, 1, 0) /\ At(w, 2, 0)'
      BY <1>1, <1>3, <1>4, <3>1, <3>2, <3>0 DEF PlaceFacts, Teardown, Ops
    <3> HIDE DEF c
    <3> QED BY <3>2, <3>3, Adds DEF c
  <2>2. CASE connState[c] # "CONNECTED"
    <3>1. /\ workerPc[w] = "service"
          /\ workerPc' = [workerPc EXCEPT ![w] = "service"]
          /\ workerOp' = [workerOp EXCEPT ![w] = "none"]
          /\ UNCHANGED <<serviceConn, refCount, responseRef>>
          /\ fault' = "none"
      BY <1>6, <2>2 DEF DoReads, BeginFlag, WorkerStep, Mine
    <3>2. /\ MovesBy(w, c, 1 - 1, 0 - 0)
          /\ workerPc'[w] = "service" /\ workerOp'[w] = "none"
      <4>1. refCount'[c] = refCount[c] + (1 - 1)
        BY <1>0, <1>1, <3>1
      <4>2. responseRef'[c] = responseRef[c] + (0 - 0)
        BY <1>0, <1>1, <3>1
      <4>3. \A d \in Conns \ {c} : refCount'[d] = refCount[d] /\ responseRef'[d] = responseRef[d]
        BY <1>0, <1>1, <3>1
      <4>4. fault' # "none" => refCount'[c] <= 0 \/ (Resp(w) = 0 /\ responseRef[c] # 0)
        BY <3>1
      <4> QED BY <1>1, <3>1, <4>1, <4>2, <4>3, <4>4 DEF MovesBy
    <3>3. At(w, 1, 0) /\ At(w, 1, 0)'
      BY <1>1, <1>3, <1>4, <3>1, <3>2 DEF PlaceFacts, Teardown, Ops
    <3> HIDE DEF c
    <3> QED BY <3>2, <3>3, Adds DEF c
  <2> QED BY <2>1, <2>2
<1>7. CASE DoDisconnect(w)
  <2> DEFINE pc == IF sock[c] = "none" THEN "state" ELSE "remove"
  <2>0. pc \in {"state", "remove"}
    OBVIOUS
  <2> HIDE DEF pc
  <2>1. /\ workerPc[w] = "service"
        /\ workerPc' = [workerPc EXCEPT ![w] = pc]
        /\ workerOp' = [workerOp EXCEPT ![w] = "disconnect"]
        /\ refCount' = [refCount EXCEPT ![c] = @ + 0]
        /\ UNCHANGED <<serviceConn, responseRef>>
        /\ fault' = "none"
    BY <1>1, <1>7 DEF DoDisconnect, BeginFlag, WorkerStep, EnterConnection, Mine, pc
  <2>2. /\ MovesBy(w, c, 1 - 1, 0 - 0)
        /\ workerPc'[w] = pc /\ workerOp'[w] = "disconnect"
    <3>1. refCount'[c] = refCount[c] + (1 - 1)
      BY <1>0, <1>1, <2>1
    <3>2. responseRef'[c] = responseRef[c] + (0 - 0)
      BY <1>0, <1>1, <2>1
    <3>3. \A d \in Conns \ {c} : refCount'[d] = refCount[d] /\ responseRef'[d] = responseRef[d]
      BY <1>0, <1>1, <2>1
    <3>4. fault' # "none" => refCount'[c] <= 0 \/ (Resp(w) = 0 /\ responseRef[c] # 0)
      BY <2>1
    <3> QED BY <1>1, <2>1, <3>1, <3>2, <3>3, <3>4 DEF MovesBy
  <2>3. At(w, 1, 0) /\ At(w, 1, 0)'
    BY <1>1, <1>3, <1>4, <2>1, <2>2, <2>0 DEF PlaceFacts, Teardown, Ops
  <2> HIDE DEF c
  <2> QED BY <2>2, <2>3, Adds DEF c
<1>8. CASE CheckConnect(w)
  <2>1. workerPc[w] = "check" /\ workerOp[w] = "connect"
    BY <1>1, <1>8 DEF CheckConnect, Inside, WorkerStep, OpFits
  <2>2. CASE UNCHANGED refCount
    <3> DEFINE pc == workerPc'[w]
    <3>0. pc \in {"announce", "remove"}
      BY <1>1, <1>8, <2>2 DEF CheckConnect, Inside, WorkerStep, Release, Mine
    <3> HIDE DEF pc
    <3>1. /\ workerPc[w] = "check"
          /\ workerOp[w] = "connect"
          /\ workerPc' = [workerPc EXCEPT ![w] = pc]
          /\ UNCHANGED <<serviceConn, refCount, responseRef, workerOp>>
          /\ fault' = "none"
      BY <1>1, <1>8, <2>1, <2>2 DEF CheckConnect, Inside, WorkerStep, Release, Mine, pc
    <3>2. /\ MovesBy(w, c, 2 - 2, 0 - 0)
          /\ workerPc'[w] = pc /\ workerOp'[w] = "connect"
      <4>1. refCount'[c] = refCount[c] + (2 - 2)
        BY <1>0, <1>1, <3>1
      <4>2. responseRef'[c] = responseRef[c] + (0 - 0)
        BY <1>0, <1>1, <3>1
      <4>3. \A d \in Conns \ {c} : refCount'[d] = refCount[d] /\ responseRef'[d] = responseRef[d]
        BY <1>0, <1>1, <3>1
      <4>4. fault' # "none" => refCount'[c] <= 0 \/ (Resp(w) = 0 /\ responseRef[c] # 0)
        BY <3>1
      <4> QED BY <1>1, <3>1, <4>1, <4>2, <4>3, <4>4 DEF MovesBy
    <3>3. At(w, 2, 0) /\ At(w, 2, 0)'
      BY <1>1, <1>3, <1>4, <3>1, <3>2, <3>0 DEF PlaceFacts, Teardown, Ops
    <3> HIDE DEF c
    <3> QED BY <3>2, <3>3, Adds DEF c
  <2>3. CASE ~UNCHANGED refCount
    <3>1. /\ workerPc[w] = "check"
          /\ workerOp[w] = "connect"
          /\ workerPc' = [workerPc EXCEPT ![w] = "service"]
          /\ workerOp' = [workerOp EXCEPT ![w] = "none"]
          /\ refCount' = [refCount EXCEPT ![c] = @ - 1]
          /\ UNCHANGED <<serviceConn, responseRef>>
          /\ fault' # "none" => refCount[c] <= 1
      BY <1>8, <2>1, <2>3 DEF CheckConnect, Inside, WorkerStep, Release, Mine
    <3>2. /\ MovesBy(w, c, 1 - 2, 0 - 0)
          /\ workerPc'[w] = "service" /\ workerOp'[w] = "none"
      <4>1. refCount'[c] = refCount[c] + (1 - 2)
        BY <1>0, <1>1, <3>1
      <4>2. responseRef'[c] = responseRef[c] + (0 - 0)
        BY <1>0, <1>1, <3>1
      <4>3. \A d \in Conns \ {c} : refCount'[d] = refCount[d] /\ responseRef'[d] = responseRef[d]
        BY <1>0, <1>1, <3>1
      <4>4. fault' # "none" => refCount'[c] <= 0 \/ (Resp(w) = 0 /\ responseRef[c] # 0)
        BY <1>0, <3>1, <4>1
      <4> QED BY <1>1, <3>1, <4>1, <4>2, <4>3, <4>4 DEF MovesBy
    <3>3. At(w, 2, 0) /\ At(w, 1, 0)'
      BY <1>1, <1>3, <1>4, <3>1, <3>2 DEF PlaceFacts, Teardown, Ops
    <3> HIDE DEF c
    <3> QED BY <3>2, <3>3, Adds DEF c
  <2> QED BY <2>2, <2>3
<1>9. CASE RemoveConnection(w) \/ CloseConnection(w) \/ SetDisconnected(w)
  <2> DEFINE pc == workerPc'[w]
  <2>1. /\ workerPc[w] \in Teardown /\ pc \in Teardown
        /\ workerPc' = [workerPc EXCEPT ![w] = pc] /\ fault' = "none"
        /\ UNCHANGED <<workerOp, serviceConn, refCount, responseRef>>
    BY <1>1, <1>9 DEF RemoveConnection, CloseConnection, SetDisconnected, Inside, WorkerStep,
       Teardown
  <2>2. workerOp[w] \in {"connect", "end of stream", "disconnect"}
    BY <1>1, <2>1 DEF OpFits
  <2> HIDE DEF pc
  <2>3. MovesBy(w, c, 1 - 1, 0 - 0) /\ MovesBy(w, c, 2 - 2, 0 - 0) /\ MovesBy(w, c, 2 - 2, 1 - 1)
    BY <1>1, <2>1 DEF MovesBy
  <2>4. workerPc'[w] \in Teardown /\ workerOp'[w] = workerOp[w]
    BY <2>1 DEF pc
  <2>5. \/ At(w, 1, 0) /\ At(w, 1, 0)'
        \/ At(w, 2, 0) /\ At(w, 2, 0)'
        \/ At(w, 2, 1) /\ At(w, 2, 1)'
    BY <1>1, <1>3, <1>4, <2>1, <2>2, <2>4 DEF PlaceFacts
  <2> HIDE DEF c
  <2> QED BY <2>3, <2>5, Adds DEF c
<1>10. CASE Announce(w)
  <2>1. workerPc[w] = "announce" /\ workerOp[w] \in {"connect", "end of stream", "disconnect"}
    BY <1>1, <1>10 DEF Announce, Inside, WorkerStep, OpFits, Teardown
  <2>2. CASE workerOp[w] = "end of stream"
    <3>1. /\ workerPc[w] = "announce"
          /\ workerOp[w] = "end of stream"
          /\ workerPc' = [workerPc EXCEPT ![w] = "callback"]
          /\ UNCHANGED <<serviceConn, refCount, responseRef, workerOp>>
          /\ fault' = "none"
      BY <1>10, <2>1, <2>2 DEF Announce, Inside, WorkerStep
    <3>2. /\ MovesBy(w, c, 2 - 2, 1 - 1)
          /\ workerPc'[w] = "callback" /\ workerOp'[w] = "end of stream"
      <4>0. UNCHANGED <<refCount, responseRef>>
        BY <3>1
      <4>1. refCount'[c] = refCount[c] + (2 - 2)
        BY <1>0, <1>1, <4>0
      <4>2. responseRef'[c] = responseRef[c] + (1 - 1)
        BY <1>0, <1>1, <4>0
      <4>3. \A d \in Conns \ {c} : refCount'[d] = refCount[d] /\ responseRef'[d] = responseRef[d]
        BY <1>0, <1>1, <3>1
      <4>4. fault' # "none" => refCount'[c] <= 0 \/ (Resp(w) = 0 /\ responseRef[c] # 0)
        BY <3>1
      <4> QED BY <1>1, <3>1, <4>1, <4>2, <4>3, <4>4 DEF MovesBy
    <3>3. At(w, 2, 1) /\ At(w, 2, 1)'
      BY <1>1, <1>3, <1>4, <3>1, <3>2 DEF PlaceFacts, Teardown, Ops
    <3> HIDE DEF c
    <3> QED BY <3>2, <3>3, Adds DEF c
  <2>3. CASE workerOp[w] = "connect"
    <3>1. /\ workerPc[w] = "announce"
          /\ workerOp[w] = "connect"
          /\ workerPc' = [workerPc EXCEPT ![w] = "callback"]
          /\ refCount' = [refCount EXCEPT ![c] = @ + 1]
          /\ responseRef' = [responseRef EXCEPT ![c] = @ + 1]
          /\ UNCHANGED <<serviceConn, workerOp>>
          /\ fault' # "none" => responseRef[c] # 0
      BY <1>10, <2>1, <2>3 DEF Announce, Inside, WorkerStep, AcquireResponseRef, Mine
    <3>2. /\ MovesBy(w, c, 3 - 2, 1 - 0)
          /\ workerPc'[w] = "callback" /\ workerOp'[w] = "connect"
      <4>1. refCount'[c] = refCount[c] + (3 - 2)
        BY <1>0, <1>1, <3>1
      <4>2. responseRef'[c] = responseRef[c] + (1 - 0)
        BY <1>0, <1>1, <3>1
      <4>3. \A d \in Conns \ {c} : refCount'[d] = refCount[d] /\ responseRef'[d] = responseRef[d]
        BY <1>0, <1>1, <3>1
      <4>4. fault' # "none" => refCount'[c] <= 0 \/ (Resp(w) = 0 /\ responseRef[c] # 0)
        BY <1>1, <1>4, <3>1 DEF PlaceFacts, At, Teardown
      <4> QED BY <1>1, <3>1, <4>1, <4>2, <4>3, <4>4 DEF MovesBy
    <3>3. At(w, 2, 0) /\ At(w, 3, 1)'
      BY <1>1, <1>3, <1>4, <3>1, <3>2 DEF PlaceFacts, Teardown, Ops
    <3> HIDE DEF c
    <3> QED BY <3>2, <3>3, Adds DEF c
  <2>4. CASE workerOp[w] = "disconnect"
    <3>1. /\ workerPc[w] = "announce"
          /\ workerOp[w] = "disconnect"
          /\ workerPc' = [workerPc EXCEPT ![w] = "callback"]
          /\ refCount' = [refCount EXCEPT ![c] = @ + 1]
          /\ responseRef' = [responseRef EXCEPT ![c] = @ + 1]
          /\ UNCHANGED <<serviceConn, workerOp>>
          /\ fault' # "none" => responseRef[c] # 0
      BY <1>10, <2>1, <2>4 DEF Announce, Inside, WorkerStep, AcquireResponseRef, Mine
    <3>2. /\ MovesBy(w, c, 2 - 1, 1 - 0)
          /\ workerPc'[w] = "callback" /\ workerOp'[w] = "disconnect"
      <4>1. refCount'[c] = refCount[c] + (2 - 1)
        BY <1>0, <1>1, <3>1
      <4>2. responseRef'[c] = responseRef[c] + (1 - 0)
        BY <1>0, <1>1, <3>1
      <4>3. \A d \in Conns \ {c} : refCount'[d] = refCount[d] /\ responseRef'[d] = responseRef[d]
        BY <1>0, <1>1, <3>1
      <4>4. fault' # "none" => refCount'[c] <= 0 \/ (Resp(w) = 0 /\ responseRef[c] # 0)
        BY <1>1, <1>4, <3>1 DEF PlaceFacts, At, Teardown
      <4> QED BY <1>1, <3>1, <4>1, <4>2, <4>3, <4>4 DEF MovesBy
    <3>3. At(w, 1, 0) /\ At(w, 2, 1)'
      BY <1>1, <1>3, <1>4, <3>1, <3>2 DEF PlaceFacts, Teardown, Ops
    <3> HIDE DEF c
    <3> QED BY <3>2, <3>3, Adds DEF c
  <2> QED BY <2>1, <2>2, <2>3, <2>4
<1>11. CASE RecvData(w)
  <2>0. workerPc[w] = "recv" /\ workerOp[w] \in {"stream", "messages"}
    BY <1>1, <1>11 DEF RecvData, Inside, WorkerStep, OpFits
  <2>1. /\ workerPc[w] = "recv"
        /\ workerOp[w] \in {"stream", "messages"}
        /\ workerPc' = [workerPc EXCEPT ![w] = "callback"]
        /\ responseRef' = [responseRef EXCEPT ![c] = @ + 1]
        /\ UNCHANGED <<serviceConn, workerOp, refCount>>
        /\ fault' # "none" => responseRef[c] # 0
    BY <1>11, <2>0 DEF RecvData, Inside, WorkerStep, AcquireResponseRef, Mine
  <2>2. /\ MovesBy(w, c, 2 - 2, 1 - 0)
        /\ workerPc'[w] = "callback" /\ workerOp'[w] = workerOp[w]
    <3>1. refCount'[c] = refCount[c] + (2 - 2)
      BY <1>0, <1>1, <2>1
    <3>2. responseRef'[c] = responseRef[c] + (1 - 0)
      BY <1>0, <1>1, <2>1
    <3>3. \A d \in Conns \ {c} : refCount'[d] = refCount[d] /\ responseRef'[d] = responseRef[d]
      BY <1>0, <1>1, <2>1
    <3>4. fault' # "none" => refCount'[c] <= 0 \/ (Resp(w) = 0 /\ responseRef[c] # 0)
      BY <1>1, <1>4, <2>1 DEF PlaceFacts, At, Teardown
    <3> QED BY <1>1, <2>1, <3>1, <3>2, <3>3, <3>4 DEF MovesBy
  <2>3. At(w, 2, 0) /\ At(w, 2, 1)'
    BY <1>1, <1>3, <1>4, <2>1, <2>2 DEF PlaceFacts, Teardown, Ops
  <2> HIDE DEF c
  <2> QED BY <2>2, <2>3, Adds DEF c
<1>12. CASE RecvNothing(w) \/ RecvEnd(w)
  <2>0. workerPc[w] = "recv" /\ workerOp[w] \in {"stream", "messages"}
    BY <1>1, <1>12 DEF RecvNothing, RecvEnd, Inside, WorkerStep, OpFits
  <2>1. CASE UNCHANGED responseRef
    <3>1. /\ workerPc[w] = "recv"
          /\ workerOp[w] \in {"stream", "messages"}
          /\ workerPc' = [workerPc EXCEPT ![w] = "service"]
          /\ workerOp' = [workerOp EXCEPT ![w] = "none"]
          /\ refCount' = [refCount EXCEPT ![c] = @ - 1]
          /\ UNCHANGED <<serviceConn, responseRef>>
          /\ fault' # "none" => refCount[c] <= 1
      <4>1. responseRef' # [responseRef EXCEPT ![c] = @ + 1]
        BY <1>0, <1>1, <2>1
      <4>2. Inside(w, "recv", "service") /\ LeaveReads(w)
        BY <1>12, <4>1 DEF RecvNothing, RecvEnd, AcquireResponseRef, Mine
      <4> QED BY <2>0, <2>1, <4>2 DEF LeaveReads, Inside, WorkerStep, Release, Mine
    <3>2. /\ MovesBy(w, c, 1 - 2, 0 - 0)
          /\ workerPc'[w] = "service" /\ workerOp'[w] = "none"
      <4>1. refCount'[c] = refCount[c] + (1 - 2)
        BY <1>0, <1>1, <3>1
      <4>2. responseRef'[c] = responseRef[c] + (0 - 0)
        BY <1>0, <1>1, <3>1
      <4>3. \A d \in Conns \ {c} : refCount'[d] = refCount[d] /\ responseRef'[d] = responseRef[d]
        BY <1>0, <1>1, <3>1
      <4>4. fault' # "none" => refCount'[c] <= 0 \/ (Resp(w) = 0 /\ responseRef[c] # 0)
        BY <1>0, <3>1, <4>1
      <4> QED BY <1>1, <3>1, <4>1, <4>2, <4>3, <4>4 DEF MovesBy
    <3>3. At(w, 2, 0) /\ At(w, 1, 0)'
      BY <1>1, <1>3, <1>4, <3>1, <3>2 DEF PlaceFacts, Teardown, Ops
    <3> HIDE DEF c
    <3> QED BY <3>2, <3>3, Adds DEF c
  <2>2. CASE ~UNCHANGED responseRef
    <3>1. /\ workerPc[w] = "recv"
          /\ workerOp[w] \in {"stream", "messages"}
          /\ workerPc' = [workerPc EXCEPT ![w] = "remove"]
          /\ workerOp' = [workerOp EXCEPT ![w] = "end of stream"]
          /\ responseRef' = [responseRef EXCEPT ![c] = @ + 1]
          /\ UNCHANGED <<serviceConn, refCount>>
          /\ fault' # "none" => responseRef[c] # 0
      BY <1>12, <2>0, <2>2 DEF RecvNothing, RecvEnd, AcquireResponseRef, Inside, WorkerStep, Mine
    <3>2. /\ MovesBy(w, c, 2 - 2, 1 - 0)
          /\ workerPc'[w] = "remove" /\ workerOp'[w] = "end of stream"
      <4>0. UNCHANGED refCount /\ responseRef' = [responseRef EXCEPT ![c] = @ + 1]
        BY <3>1
      <4>1. refCount'[c] = refCount[c] + (2 - 2)
        BY <1>0, <1>1, <4>0
      <4>2. responseRef'[c] = responseRef[c] + (1 - 0)
        BY <1>0, <1>1, <4>0
      <4>3. \A d \in Conns \ {c} : refCount'[d] = refCount[d] /\ responseRef'[d] = responseRef[d]
        BY <1>0, <1>1, <3>1
      <4>4. fault' # "none" => refCount'[c] <= 0 \/ (Resp(w) = 0 /\ responseRef[c] # 0)
        BY <1>1, <1>4, <3>1 DEF PlaceFacts, At, Teardown
      <4> QED BY <1>1, <3>1, <4>1, <4>2, <4>3, <4>4 DEF MovesBy
    <3>3. At(w, 2, 0) /\ At(w, 2, 1)'
      BY <1>1, <1>3, <1>4, <3>1, <3>2 DEF PlaceFacts, Teardown, Ops
    <3> HIDE DEF c
    <3> QED BY <3>2, <3>3, Adds DEF c
  <2> QED BY <2>1, <2>2
<1>13. CASE CallbackReturns(w)
  <2>1. /\ workerPc[w] = "callback" /\ workerOp[w] # "none"
        /\ responseRef' = [responseRef EXCEPT ![c] = @ - 1] /\ UNCHANGED serviceConn
        /\ \/ workerOp[w] = "connect" /\ workerPc' = [workerPc EXCEPT ![w] = "service"]
              /\ workerOp' = [workerOp EXCEPT ![w] = "none"] /\ Release(c, 2)
           \/ workerOp[w] # "connect" /\ workerPc' = [workerPc EXCEPT ![w] = "service"]
              /\ workerOp' = [workerOp EXCEPT ![w] = "none"] /\ Release(c, 1)
           \/ workerOp[w] \in {"stream", "messages"} /\ workerPc' = [workerPc EXCEPT ![w] = "recv"]
              /\ UNCHANGED <<workerOp, refCount, fault>>
        /\ fault = "none"
    BY <1>1, <1>13 DEF CallbackReturns, Inside, WorkerStep, Mine, LeaveReads, OpFits
  <2>2. CASE workerOp[w] = "connect"
    <3>1. /\ workerPc[w] = "callback"
          /\ workerOp[w] = "connect"
          /\ workerPc' = [workerPc EXCEPT ![w] = "service"]
          /\ workerOp' = [workerOp EXCEPT ![w] = "none"]
          /\ refCount' = [refCount EXCEPT ![c] = @ - 2]
          /\ responseRef' = [responseRef EXCEPT ![c] = @ - 1]
          /\ UNCHANGED serviceConn
          /\ fault' # "none" => refCount[c] <= 2
      BY <2>1, <2>2 DEF Release
    <3>2. /\ MovesBy(w, c, 1 - 3, 0 - 1)
          /\ workerPc'[w] = "service" /\ workerOp'[w] = "none"
      <4>1. refCount'[c] = refCount[c] + (1 - 3)
        BY <1>0, <1>1, <3>1
      <4>2. responseRef'[c] = responseRef[c] + (0 - 1)
        BY <1>0, <1>1, <3>1
      <4>3. \A d \in Conns \ {c} : refCount'[d] = refCount[d] /\ responseRef'[d] = responseRef[d]
        BY <1>0, <1>1, <3>1
      <4>4. fault' # "none" => refCount'[c] <= 0 \/ (Resp(w) = 0 /\ responseRef[c] # 0)
        BY <1>0, <3>1, <4>1
      <4> QED BY <1>1, <3>1, <4>1, <4>2, <4>3, <4>4 DEF MovesBy
    <3>3. At(w, 3, 1) /\ At(w, 1, 0)'
      BY <1>1, <1>3, <1>4, <3>1, <3>2 DEF PlaceFacts, Teardown, Ops
    <3> HIDE DEF c
    <3> QED BY <3>2, <3>3, Adds DEF c
  <2>3. CASE workerOp[w] # "connect" /\ Release(c, 1)
          /\ workerPc' = [workerPc EXCEPT ![w] = "service"]
          /\ workerOp' = [workerOp EXCEPT ![w] = "none"]
    <3>1. /\ workerPc[w] = "callback"
          /\ workerOp[w] \notin {"connect", "none"}
          /\ workerPc' = [workerPc EXCEPT ![w] = "service"]
          /\ workerOp' = [workerOp EXCEPT ![w] = "none"]
          /\ refCount' = [refCount EXCEPT ![c] = @ - 1]
          /\ responseRef' = [responseRef EXCEPT ![c] = @ - 1]
          /\ UNCHANGED serviceConn
          /\ fault' # "none" => refCount[c] <= 1
      BY <1>1, <2>1, <2>3 DEF Release
    <3>2. /\ MovesBy(w, c, 1 - 2, 0 - 1)
          /\ workerPc'[w] = "service" /\ workerOp'[w] = "none"
      <4>1. refCount'[c] = refCount[c] + (1 - 2)
        BY <1>0, <1>1, <3>1
      <4>2. responseRef'[c] = responseRef[c] + (0 - 1)
        BY <1>0, <1>1, <3>1
      <4>3. \A d \in Conns \ {c} : refCount'[d] = refCount[d] /\ responseRef'[d] = responseRef[d]
        BY <1>0, <1>1, <3>1
      <4>4. fault' # "none" => refCount'[c] <= 0 \/ (Resp(w) = 0 /\ responseRef[c] # 0)
        BY <1>0, <3>1, <4>1
      <4> QED BY <1>1, <3>1, <4>1, <4>2, <4>3, <4>4 DEF MovesBy
    <3>3. At(w, 2, 1) /\ At(w, 1, 0)'
      BY <1>1, <1>3, <1>4, <3>1, <3>2 DEF PlaceFacts, Teardown, Ops
    <3> HIDE DEF c
    <3> QED BY <3>2, <3>3, Adds DEF c
  <2>4. CASE workerOp[w] \in {"stream", "messages"} /\ UNCHANGED <<workerOp, refCount, fault>>
          /\ workerPc' = [workerPc EXCEPT ![w] = "recv"]
    <3>1. /\ workerPc[w] = "callback"
          /\ workerOp[w] \in {"stream", "messages"}
          /\ workerPc' = [workerPc EXCEPT ![w] = "recv"]
          /\ UNCHANGED <<workerOp, refCount>>
          /\ responseRef' = [responseRef EXCEPT ![c] = @ - 1]
          /\ UNCHANGED serviceConn
          /\ fault' = "none"
      BY <2>1, <2>4 DEF Release
    <3>2. /\ MovesBy(w, c, 2 - 2, 0 - 1)
          /\ workerPc'[w] = "recv" /\ workerOp'[w] = workerOp[w]
      <4>1. refCount'[c] = refCount[c] + (2 - 2)
        BY <1>0, <1>1, <3>1
      <4>2. responseRef'[c] = responseRef[c] + (0 - 1)
        BY <1>0, <1>1, <3>1
      <4>3. \A d \in Conns \ {c} : refCount'[d] = refCount[d] /\ responseRef'[d] = responseRef[d]
        BY <1>0, <1>1, <3>1
      <4>4. fault' # "none" => refCount'[c] <= 0 \/ (Resp(w) = 0 /\ responseRef[c] # 0)
        BY <3>1
      <4> QED BY <1>1, <3>1, <4>1, <4>2, <4>3, <4>4 DEF MovesBy
    <3>3. At(w, 2, 1) /\ At(w, 2, 0)'
      BY <1>1, <1>3, <1>4, <3>1, <3>2 DEF PlaceFacts, Teardown, Ops
    <3> HIDE DEF c
    <3> QED BY <3>2, <3>3, Adds DEF c
  <2> QED BY <2>1, <2>2, <2>3, <2>4
<1>14. CASE ReloadFlags(w) \/ EndService(w)
  <2> DEFINE pc == workerPc'[w]
  <2>0. pc \in {"service", "finish", "drop"} /\ workerPc[w] \in {"service", "finish"}
    BY <1>1, <1>14 DEF ReloadFlags, EndService, WorkerStep
  <2> HIDE DEF pc
  <2>1. /\ workerPc[w] \in {"service", "finish"}
        /\ workerPc' = [workerPc EXCEPT ![w] = pc]
        /\ UNCHANGED <<serviceConn, workerOp, refCount, responseRef>>
        /\ fault' = "none"
    BY <1>1, <1>14, <2>0 DEF ReloadFlags, EndService, WorkerStep, pc
  <2>2. /\ MovesBy(w, c, 1 - 1, 0 - 0)
        /\ workerPc'[w] = pc /\ workerOp'[w] = workerOp[w]
    <3>1. refCount'[c] = refCount[c] + (1 - 1)
      BY <1>0, <1>1, <2>1
    <3>2. responseRef'[c] = responseRef[c] + (0 - 0)
      BY <1>0, <1>1, <2>1
    <3>3. \A d \in Conns \ {c} : refCount'[d] = refCount[d] /\ responseRef'[d] = responseRef[d]
      BY <1>0, <1>1, <2>1
    <3>4. fault' # "none" => refCount'[c] <= 0 \/ (Resp(w) = 0 /\ responseRef[c] # 0)
      BY <2>1
    <3> QED BY <1>1, <2>1, <3>1, <3>2, <3>3, <3>4 DEF MovesBy
  <2>3. At(w, 1, 0) /\ At(w, 1, 0)'
    BY <1>1, <1>3, <1>4, <2>1, <2>2, <2>0 DEF PlaceFacts, Teardown, Ops
  <2> HIDE DEF c
  <2> QED BY <2>2, <2>3, Adds DEF c
<1>15. ~WorkerStart(w) /\ ~WorkerWakes(w) /\ ~SignalFree(w) /\ ~WorkerReady(w)
  BY DEF WorkerStart, WorkerWakes, SignalFree, WorkerReady, WorkerStep, Busy
<1> QED BY <1>5, <1>6, <1>7, <1>8, <1>9, <1>10, <1>11, <1>12, <1>13, <1>14, <1>15
        DEF Worker

-----------------------------------------------------------------------------
\* A worker stays in the Do* function it was called for.
LEMMA WorkerOps ==
  ASSUME StructInv, OpInv, NEW w \in Workers, Worker(w)
  PROVE  OpInv'
<1>1. workerPc \in [Workers -> WorkerPcs] /\ workerOp \in [Workers -> Ops]
  BY DEF StructInv, TypeOK, WorkerTypeOK
<1>2. CASE workerPc[w] \in Busy /\ ~DropConnection(w)
  <2>1. Accounts(w)
    BY <1>2, WorkerAccounts
  <2> QED BY <2>1 DEF Accounts, MovesBy, OpInv
<1>3. CASE workerPc[w] \notin Busy \/ DropConnection(w)
  <2>1. \/ WorkerStart(w) \/ WorkerWakes(w) \/ DropConnection(w) \/ SignalFree(w)
        \/ WorkerReady(w)
    BY <1>3, ServesCases DEF Serves, EndService, WorkerStep, Busy, WorkerPcs
  <2>2. /\ UNCHANGED workerOp
        /\ \E pc \in {"idle", "service", "ready", "signal"} :
             workerPc' = [workerPc EXCEPT ![w] = pc]
    BY <2>1 DEF WorkerStart, WorkerWakes, DropConnection, SignalFree, WorkerReady, WorkerStep
  <2> QED BY <1>1, <2>2 DEF OpInv, OpFits, Teardown
<1> QED BY <1>2, <1>3

\* Only a worker moves a worker.
LEMMA OthersKeep ==
  ASSUME Next, \A w \in Workers : ~Worker(w)
  PROVE  UNCHANGED <<workerPc, workerOp, responseRef>>
<1>1. ASSUME NEW c \in Conns, Owner(c) \/ Disconnect(c) \/ DisconnectNotify(c)
      PROVE  UNCHANGED <<workerPc, workerOp, responseRef>>
  BY <1>1 DEF workerVars, Owner, OwnerStep, StartConnect, CloseOldSocket,
     ForgetOldSocket, CreateSocket, AddConnection, SetConnecting, NotifyConnecting,
     ConnectSyscall, RemoveFailed, CloseFailed, SetError, LeaveConnect, Disconnect,
     DisconnectNotify
<1>2. CASE Network
  BY <1>2 DEF Network, OpenPipe, BeginScan, ScanConnection, EndScan, SelectWake, SelectReady,
     SelectReturns, WalkSlot, TakeWorker, NoWorker, AssignWorker, ReleaseSlot, EndWalk,
     NetUnchanged, workerVars, connVars
<1>3. CASE UNCHANGED vars
  BY <1>3 DEF vars, workerVars, connVars
<1> QED BY <1>1, <1>2, <1>3 DEF Next, Halted

\* The places of the workers are ones RefsOf and RespOf speak of.
LEMMA OpStep == StructInv /\ OpInv /\ [Next]_vars => OpInv'
<1> SUFFICES ASSUME StructInv, OpInv, [Next]_vars PROVE OpInv'
  OBVIOUS
<1>1. CASE \E w \in Workers : Worker(w)
  BY <1>1, WorkerOps
<1>2. CASE Next /\ \A w \in Workers : ~Worker(w)
  BY <1>2, OthersKeep DEF OpInv
<1>3. CASE UNCHANGED vars
  BY <1>3 DEF vars, workerVars, OpInv
<1> QED BY <1>1, <1>2, <1>3

-----------------------------------------------------------------------------
(* The references.                                                         *)

\* Nobody holds anything: the total is 0.
LEMMA TotalOfNone ==
  ASSUME NEW f, \A v \in Workers : f[v] = 0
  PROVE  Total(f) = 0
<1>1. NumWorkers \in Nat \ {0}
  BY WowNetAssumption
<1>2. PICK s : Sums(s, f) /\ Total(f) = s[NumWorkers]
  BY TotalSums
<1> DEFINE A == {n \in 0..NumWorkers : s[n] = 0}
<1>3. 0 \in A
  BY <1>1, <1>2 DEF Sums
<1>4. ASSUME NEW i \in 1..NumWorkers, i - 1 \in A
      PROVE  i \in A
  BY <1>2, <1>4 DEF Sums, Workers
<1> HIDE DEF A
<1>5. 0..NumWorkers \subseteq A
  BY <1>1, <1>3, <1>4, SF!IntervalInduction
<1> QED BY <1>1, <1>2, <1>5 DEF A

\* What each worker holds on c
HeldFacts ==
  \A c \in Conns :
    /\ HeldBy(c) \in [Workers -> Nat]
    /\ \A w \in Workers : HeldBy(c)[w] = IF serviceConn[w] = c THEN Refs(w) ELSE 0

\* What HeldBy is worth, as a state formula for both ends of a step
LEMMA HeldAre == HeldFacts
<1>1. \A w \in Workers : WorkerRefs(w) = Refs(w) /\ WorkerRefs(w) \in Nat
  BY WorkerRefsOf DEF Refs
<1> QED BY <1>1 DEF HeldFacts, HeldBy

\* When one worker's share of the references on c changes, so does the total.
LEMMA HeldMoves ==
  ASSUME NEW c \in Conns, NEW w \in Workers,
         \A v \in Workers \ {w} : HeldBy(c)'[v] = HeldBy(c)[v]
  PROVE  /\ Total(HeldBy(c)) \in Int
         /\ Total(HeldBy(c))' = Total(HeldBy(c)) + HeldBy(c)'[w] - HeldBy(c)[w]
<1>1. HeldFacts /\ HeldFacts'
  BY HeldAre, PTL
<1>2. HeldBy(c) \in [Workers -> Int] /\ HeldBy(c)' \in [Workers -> Int]
  BY <1>1 DEF HeldFacts
<1>3. Total(HeldBy(c)') = Total(HeldBy(c))'
  OBVIOUS
<1> HIDE DEF HeldBy, Total
<1>4. \A v \in Workers : v # w => HeldBy(c)'[v] = HeldBy(c)[v]
  OBVIOUS
<1>5. /\ Total(HeldBy(c)) \in Int
      /\ Total(HeldBy(c)') = Total(HeldBy(c)) + HeldBy(c)'[w] - HeldBy(c)[w]
  BY <1>2, <1>4, TotalMoves
<1> QED BY <1>3, <1>5

\* The reference SignalWorker took for the worker it is looking for
Handing(c) == Count(netPc = "assign" /\ slots[netIdx] = c)

RefsCounted ==
  \A c \in Conns : refCount[c] = 1 + SlotRefs(c) + Handing(c) + Total(HeldBy(c))

\* At first only the owners hold references.
LEMMA InitRefs == Init => RefsCounted
<1> SUFFICES ASSUME Init, NEW c \in Conns
             PROVE  refCount[c] = 1 + SlotRefs(c) + Handing(c) + Total(HeldBy(c))
  BY DEF RefsCounted
<1>1. refCount[c] = 1 /\ netPc = "start" /\ slotCount = 0
      /\ \A w \in Workers : serviceConn[w] = NoConn
  BY DEF Init
<1>2. SlotRefs(c) = 0 /\ Handing(c) = 0
  BY <1>1 DEF SlotRefs, Handing, Count
<1>3. \A w \in Workers : HeldBy(c)[w] = 0
  BY <1>1, HeldAre, WowNetAssumption DEF HeldFacts
<1>4. Total(HeldBy(c)) = 0
  BY <1>3, TotalOfNone
<1> QED BY <1>1, <1>2, <1>4

\* A step of a worker moves m_refCount by what it holds more or less.
LEMMA WorkerRefsCounted ==
  ASSUME StructInv, OpInv, RefsCounted, NEW w \in Workers, Worker(w)
  PROVE  RefsCounted'
<1> SUFFICES ASSUME NEW c \in Conns
             PROVE  (refCount[c] = 1 + SlotRefs(c) + Handing(c) + Total(HeldBy(c)))'
  BY DEF RefsCounted
<1>1. SlotRefs(c)' = SlotRefs(c) /\ Handing(c)' = Handing(c)
  BY WorkerFrame DEF netVars, SlotRefs, Handing
<1>2. SlotRefs(c) \in Int /\ Handing(c) \in Int
  BY DEF SlotRefs, Handing, Count
<1>3. refCount[c] = 1 + SlotRefs(c) + Handing(c) + Total(HeldBy(c))
  BY DEF RefsCounted
<1>4. HeldFacts /\ HeldFacts'
  BY HeldAre, PTL
<1>5. HeldBy(c)[w] = (IF serviceConn[w] = c THEN Refs(w) ELSE 0)
      /\ HeldBy(c)'[w] = (IF serviceConn'[w] = c THEN Refs(w)' ELSE 0)
  BY <1>4 DEF HeldFacts
<1>6. PlaceFacts /\ PlaceFacts'
  BY Places, PTL
<1>7. /\ workerPc \in [Workers -> WorkerPcs] /\ workerOp \in [Workers -> Ops]
      /\ serviceConn \in [Workers -> Conns \cup {NoConn}]
      /\ refCount \in [Conns -> Int]
  BY DEF StructInv, TypeOK, WorkerTypeOK, ConnTypeOK
<1>8. CASE workerPc[w] \in Busy /\ ~DropConnection(w)
  <2>1. Accounts(w)
    BY <1>8, WorkerAccounts
  <2>2. \A v \in Workers \ {w} : HeldBy(c)'[v] = HeldBy(c)[v]
    BY <1>4, <2>1 DEF Accounts, MovesBy, HeldFacts, Refs
  <2>3. Total(HeldBy(c)) \in Int
        /\ Total(HeldBy(c))' = Total(HeldBy(c)) + HeldBy(c)'[w] - HeldBy(c)[w]
    BY <2>2, HeldMoves
  <2>4. UNCHANGED serviceConn /\ Refs(w) \in Int /\ Refs(w)' \in Int
    BY <2>1 DEF Accounts, MovesBy
  <2> HIDE DEF HeldBy, Total, SlotRefs, Handing
  <2>5. CASE serviceConn[w] = c
    <3>1. refCount'[c] = refCount[c] + (Refs(w)' - Refs(w))
      BY <2>1, <2>5 DEF Accounts, MovesBy
    <3> QED BY <1>1, <1>2, <1>3, <1>5, <2>3, <2>4, <2>5, <3>1
  <2>6. CASE serviceConn[w] # c
    <3>1. refCount'[c] = refCount[c]
      BY <2>1, <2>6 DEF Accounts, MovesBy
    <3> QED BY <1>1, <1>2, <1>3, <1>5, <2>3, <2>4, <2>6, <3>1
  <2> QED BY <2>5, <2>6
<1>9. CASE DropConnection(w)
  <2>1. /\ workerPc[w] = "drop" /\ workerPc' = [workerPc EXCEPT ![w] = "signal"]
        /\ serviceConn' = [serviceConn EXCEPT ![w] = NoConn]
        /\ UNCHANGED workerOp
        /\ refCount' = [refCount EXCEPT ![serviceConn[w]] = @ - 1]
    BY <1>9 DEF DropConnection, WorkerStep, Release, Mine
  <2>2. \A v \in Workers \ {w} : HeldBy(c)'[v] = HeldBy(c)[v]
    BY <1>4, <1>7, <2>1 DEF HeldFacts, Refs
  <2>3. Total(HeldBy(c)) \in Int
        /\ Total(HeldBy(c))' = Total(HeldBy(c)) + HeldBy(c)'[w] - HeldBy(c)[w]
    BY <2>2, HeldMoves
  <2>4. Refs(w) = 1
    BY <1>6, <1>7, <2>1 DEF PlaceFacts, At
  <2>5. serviceConn'[w] # c
    BY <1>7, <2>1, WowNetAssumption
  <2>6. HeldBy(c)[w] = (IF serviceConn[w] = c THEN 1 ELSE 0) /\ HeldBy(c)'[w] = 0
    BY <1>5, <2>4, <2>5
  <2> HIDE DEF HeldBy, Total, SlotRefs, Handing
  <2>7. CASE serviceConn[w] = c
    <3>1. refCount'[c] = refCount[c] - 1
      BY <1>7, <2>1, <2>7
    <3> QED BY <1>1, <1>2, <1>3, <2>3, <2>6, <2>7, <3>1
  <2>8. CASE serviceConn[w] # c
    <3>1. refCount'[c] = refCount[c]
      BY <1>7, <2>1, <2>8
    <3> QED BY <1>1, <1>2, <1>3, <2>3, <2>6, <2>8, <3>1
  <2> QED BY <2>7, <2>8
<1>10. CASE workerPc[w] \notin Busy
  <2>1. WorkerStart(w) \/ WorkerWakes(w) \/ SignalFree(w) \/ WorkerReady(w)
    BY <1>10, ServesCases DEF Serves, EndService, DropConnection, WorkerStep, Busy, WorkerPcs
  <2>2. /\ UNCHANGED <<workerOp, serviceConn, refCount>>
        /\ workerPc[w] \in {"start", "idle", "signal", "ready"}
        /\ \E pc \in {"idle", "service", "ready", "signal"} :
             workerPc' = [workerPc EXCEPT ![w] = pc]
    BY <2>1 DEF WorkerStart, WorkerWakes, SignalFree, WorkerReady, WorkerStep, connVars
  <2>3. Refs(w) = 1 /\ Refs(w)' = 1
    BY <1>7, <2>2 DEF Refs, RefsOf, Teardown
  <2>4. \A v \in Workers : HeldBy(c)'[v] = HeldBy(c)[v]
    BY <1>4, <1>7, <2>2, <2>3 DEF HeldFacts, Refs
  <2>5. Total(HeldBy(c)) \in Int
        /\ Total(HeldBy(c))' = Total(HeldBy(c)) + HeldBy(c)'[w] - HeldBy(c)[w]
    BY <2>4, HeldMoves
  <2>6. HeldBy(c)'[w] = HeldBy(c)[w] /\ HeldBy(c)[w] \in Int
    BY <1>4, <2>4 DEF HeldFacts
  <2> HIDE DEF HeldBy, Total, SlotRefs, Handing
  <2> QED BY <1>1, <1>2, <1>3, <2>2, <2>5, <2>6
<1> QED BY <1>8, <1>9, <1>10

-----------------------------------------------------------------------------
\* Slot i is filled with c and still to be walked.
Waits(c, i) ==
  /\ slots[i] = c
  /\ \/ netPc \in {"scan", "select"}
     \/ netPc \in {"walk", "signal", "assign", "release"} /\ netIdx <= i

\* A step that moves no worker: the references of the slots and of the search
\* account for the change.
LEMMA NoWorkerMoves ==
  ASSUME StructInv, StructInv', RefsCounted,
         UNCHANGED <<workerPc, workerOp, serviceConn>>,
         \A c \in Conns : refCount'[c] - refCount[c]
           = SlotRefs(c)' - SlotRefs(c) + (Handing(c)' - Handing(c))
  PROVE  RefsCounted'
<1> SUFFICES ASSUME NEW c \in Conns
             PROVE  (refCount[c] = 1 + SlotRefs(c) + Handing(c) + Total(HeldBy(c)))'
  BY DEF RefsCounted
<1>1. /\ SlotRefs(c) \in Int /\ Handing(c) \in Int
      /\ SlotRefs(c)' \in Int /\ Handing(c)' \in Int
  BY DEF SlotRefs, Handing, Count
<1>2. refCount[c] = 1 + SlotRefs(c) + Handing(c) + Total(HeldBy(c))
  BY DEF RefsCounted
<1>3. HeldBy(c)' = HeldBy(c)
  BY DEF HeldBy, WorkerRefs
<1>4. Total(HeldBy(c))' = Total(HeldBy(c))
  BY <1>3 DEF Total
<1>5. PICK w \in Workers : TRUE
  BY WowNetAssumption DEF Workers
<1>6. Total(HeldBy(c)) \in Int
  BY <1>3, <1>5, HeldMoves
<1>7. refCount'[c] - refCount[c] = SlotRefs(c)' - SlotRefs(c) + (Handing(c)' - Handing(c))
  OBVIOUS
<1>8. refCount'[c] \in Int
  BY DEF StructInv, TypeOK, ConnTypeOK
<1> HIDE DEF HeldBy, Total, SlotRefs, Handing
<1>9. refCount[c] \in Int
  BY DEF StructInv, TypeOK, ConnTypeOK
<1>10. refCount'[c] = refCount[c] + SlotRefs(c)' - SlotRefs(c) + Handing(c)' - Handing(c)
  BY <1>1, <1>7, <1>8, <1>9
<1>11. refCount'[c] = 1 + SlotRefs(c)' + Handing(c)' + Total(HeldBy(c))
  BY <1>1, <1>2, <1>6, <1>9, <1>10
<1> QED BY <1>4, <1>11

\* The network thread: a filled slot is a reference, one given to a worker is
\* another, and each slot walked gives one back.
LEMMA NetworkRefs ==
  ASSUME StructInv, StructInv', Core, RefsCounted, Network, ~staleSlot'
  PROVE  RefsCounted'
<1>1. /\ netIdx \in 1..(NumSlots + 1) /\ slotCount \in 0..NumSlots
      /\ slots \in [1..NumSlots -> Conns \cup {NoConn}] /\ NumSlots \in Nat
      /\ refCount \in [Conns -> Int] /\ refCount' \in [Conns -> Int]
      /\ serviceConn \in [Workers -> Conns \cup {NoConn}]
      /\ workerPc \in [Workers -> WorkerPcs] /\ workerOp \in [Workers -> Ops]
      /\ NoConn \notin Conns
  BY SlotsNat, WowNetAssumption DEF StructInv, TypeOK, NetTypeOK, ConnTypeOK,
     WorkerTypeOK
<1>2. \A c \in Conns : SlotRefs(c) = Count(\E i \in 1..slotCount : Waits(c, i))
  BY DEF SlotRefs, Waits
<1>3. \A c \in Conns : SlotRefs(c)' = Count(\E i \in 1..slotCount' : Waits(c, i)')
  BY DEF SlotRefs, Waits
<1>4. CASE OpenPipe \/ BeginScan \/ EndScan \/ SelectWake \/ SelectReady
           \/ NoWorker \/ EndWalk \/ WalkSlot
  <2>1. UNCHANGED <<refCount, workerPc, workerOp, serviceConn, slots>>
    BY <1>4 DEF OpenPipe, BeginScan, EndScan, SelectWake, SelectReady, SelectReturns,
       NoWorker, EndWalk, WalkSlot, NetUnchanged, connVars, workerVars
  <2>2. \/ netPc = "start" /\ netPc' = "top" /\ UNCHANGED <<netIdx, slotCount>>
        \/ netPc = "top" /\ netPc' = "scan" /\ slotCount' = 0
        \/ netPc = "scan" /\ netPc' = "select" /\ UNCHANGED <<netIdx, slotCount>>
        \/ netPc = "select" /\ netPc' = "walk" /\ netIdx' = 1 /\ UNCHANGED slotCount
        \/ /\ netPc \in {"walk", "signal"} /\ netPc' \in {"walk", "signal", "release"}
           /\ UNCHANGED <<netIdx, slotCount>>
        \/ netPc = "walk" /\ netPc' = "top" /\ netIdx > slotCount /\ UNCHANGED <<netIdx, slotCount>>
    BY <1>4 DEF OpenPipe, BeginScan, EndScan, SelectWake, SelectReady, SelectReturns,
       NoWorker, EndWalk, WalkSlot, NetAt
  <2>3. \A c \in Conns : (\E i \in 1..slotCount' : Waits(c, i)')
                           <=> (\E i \in 1..slotCount : Waits(c, i))
    <3>1. CASE netPc = "top" /\ netPc' = "scan" /\ slotCount' = 0
      BY <3>1 DEF Waits
    <3>2. CASE netPc = "select" /\ netPc' = "walk" /\ netIdx' = 1 /\ UNCHANGED slotCount
      <4>1. \A i \in 1..slotCount : 1 <= i
        OBVIOUS
      <4> QED BY <2>1, <3>2, <4>1 DEF Waits
    <3>3. CASE /\ netPc = "walk" /\ netPc' = "top" /\ netIdx > slotCount
               /\ UNCHANGED <<netIdx, slotCount>>
      <4>1. \A i \in 1..slotCount : ~(netIdx <= i)
        BY <1>1, <3>3
      <4> QED BY <2>1, <3>3, <4>1 DEF Waits
    <3>4. CASE UNCHANGED <<netIdx, slotCount>>
               /\ \/ netPc = "start" /\ netPc' = "top"
                  \/ netPc = "scan" /\ netPc' = "select"
                  \/ netPc \in {"walk", "signal"} /\ netPc' \in {"walk", "signal", "release"}
      BY <2>1, <3>4 DEF Waits
    <3> QED BY <2>2, <3>1, <3>2, <3>3, <3>4
  <2>4. \A c \in Conns : SlotRefs(c)' = SlotRefs(c)
    BY <1>2, <1>3, <2>3 DEF Count
  <2>5. \A c \in Conns : Handing(c)' = 0 /\ Handing(c) = 0
    BY <2>2 DEF Handing, Count
  <2>6. \A c \in Conns : refCount[c] \in Int /\ SlotRefs(c) \in Int
    BY <1>1 DEF SlotRefs, Count
  <2> HIDE DEF SlotRefs, Handing
  <2>7. \A c \in Conns : refCount'[c] - refCount[c]
          = SlotRefs(c)' - SlotRefs(c) + (Handing(c)' - Handing(c))
    BY <2>1, <2>4, <2>5, <2>6
  <2> QED BY <2>1, <2>7, NoWorkerMoves
<1>5. CASE ScanConnection
  <2>1. /\ UNCHANGED <<workerPc, workerOp, serviceConn, netPc>>
        /\ netPc = "scan" /\ netIdx' = netIdx + 1 /\ netIdx <= Len(linked)
    BY <1>5 DEF ScanConnection, NetAt, NetUnchanged, workerVars
  <2>0. linked[netIdx] \in Conns
    BY <1>1, <2>1 DEF StructInv, TypeOK, SharedTypeOK
  <2> PICK c \in Conns : c = linked[netIdx]
    BY <2>0
  <2>2. \/ UNCHANGED <<slots, slotCount, refCount>>
        \/ /\ slotCount' = slotCount + 1
           /\ slots' = [slots EXCEPT ![slotCount + 1] = c]
           /\ refCount' = [refCount EXCEPT ![c] = @ + 1]
    BY <1>5 DEF ScanConnection
  <2>3. /\ slotCount + 1 \in 1..NumSlots
        /\ \A k \in 1..(netIdx - 1) : linked[k] # c
    <3>1. /\ linked \in Seq(Conns) /\ Len(linked) <= NumSlots /\ slotCount < netIdx
          /\ \A i, j \in 1..Len(linked) : linked[i] = linked[j] => i = j
      BY <2>1, LinkedFits DEF StructInv, TypeOK, SharedTypeOK, LinkedOnce, NetBounds
    <3> QED BY <1>1, <2>1, <3>1
  <2>4. \A d \in Conns : Handing(d)' = 0 /\ Handing(d) = 0
    BY <2>1 DEF Handing, Count
  <2>5. CASE UNCHANGED <<slots, slotCount, refCount>>
    <3>1. \A d \in Conns : SlotRefs(d)' = SlotRefs(d)
      BY <1>2, <1>3, <2>1, <2>5 DEF Count, Waits
    <3>2. \A d \in Conns : refCount[d] \in Int /\ SlotRefs(d) \in Int
      BY <1>1 DEF SlotRefs, Count
    <3> HIDE DEF SlotRefs, Handing
    <3>3. \A d \in Conns : refCount'[d] - refCount[d]
            = SlotRefs(d)' - SlotRefs(d) + (Handing(d)' - Handing(d))
      BY <2>4, <2>5, <3>1, <3>2
    <3> QED BY <2>1, <3>3, NoWorkerMoves
  <2>6. CASE /\ slotCount' = slotCount + 1
             /\ slots' = [slots EXCEPT ![slotCount + 1] = c]
             /\ refCount' = [refCount EXCEPT ![c] = @ + 1]
    <3> PICK n \in Nat : n = slotCount + 1
      BY <1>1
    <3>1. /\ slots'[n] = c
          /\ \A i \in 1..slotCount : slots'[i] = slots[i]
          /\ n \in 1..slotCount'
          /\ \A i \in 1..slotCount' : i = n \/ i \in 1..slotCount
      BY <1>1, <2>3, <2>6
    <3>2. \A i \in 1..slotCount : slots[i] # c
      BY <2>1, <2>3 DEF Core, SlotsDistinct
    <3>3. ASSUME NEW d \in Conns \ {c}
          PROVE  SlotRefs(d)' = SlotRefs(d)
      <4>1. (\E i \in 1..slotCount' : Waits(d, i)') <=> (\E i \in 1..slotCount : Waits(d, i))
        <5>1. \A i \in 1..slotCount : i \in 1..slotCount' /\ (Waits(d, i)' <=> Waits(d, i))
          BY <1>1, <2>1, <2>6, <3>1 DEF Waits
        <5>2. ~Waits(d, n)'
          BY <3>1, <3>3 DEF Waits
        <5> QED BY <3>1, <5>1, <5>2
      <4> QED BY <1>2, <1>3, <4>1 DEF Count
    <3>4. SlotRefs(c) = 0
      BY <1>2, <2>3, <3>2 DEF Count, Waits
    <3>5. n \in 1..slotCount' /\ Waits(c, n)'
      BY <1>1, <2>1, <2>6, <3>1 DEF Waits
    <3>6. SlotRefs(c)' = 1
      BY <1>3, <2>3, <3>5 DEF Count
    <3>7. \A d \in Conns : refCount[d] \in Int /\ SlotRefs(d) \in Int
      BY <1>1 DEF SlotRefs, Count
    <3> HIDE DEF SlotRefs, Handing
    <3>8. \A d \in Conns : refCount'[d] - refCount[d]
            = SlotRefs(d)' - SlotRefs(d) + (Handing(d)' - Handing(d))
      <4> SUFFICES ASSUME NEW d \in Conns
                   PROVE  refCount'[d] - refCount[d]
                            = SlotRefs(d)' - SlotRefs(d) + (Handing(d)' - Handing(d))
        OBVIOUS
      <4>1. CASE d = c
        <5>1. refCount'[d] = refCount[d] + 1
          BY <1>1, <2>6, <4>1
        <5> QED BY <2>4, <3>4, <3>6, <3>7, <4>1, <5>1
      <4>2. CASE d # c
        <5>1. refCount'[d] = refCount[d]
          BY <1>1, <2>6, <4>2
        <5> QED BY <2>4, <3>3, <3>7, <4>2, <5>1
      <4> QED BY <4>1, <4>2
    <3> QED BY <2>1, <3>8, NoWorkerMoves
  <2> QED BY <2>2, <2>5, <2>6
<1>6. CASE TakeWorker
  <2> DEFINE c == slots[netIdx]
  <2>1. /\ UNCHANGED <<workerPc, workerOp, serviceConn, netIdx, slots, slotCount>>
        /\ netPc = "signal" /\ netPc' = "assign"
        /\ refCount' = [refCount EXCEPT ![c] = @ + 1]
    BY <1>6 DEF TakeWorker, NetAt, workerVars
  <2>2. \A d \in Conns : SlotRefs(d)' = SlotRefs(d)
    BY <1>2, <1>3, <2>1 DEF Count, Waits
  <2>3. \A d \in Conns : Handing(d) = 0 /\ Handing(d)' = IF d = c THEN 1 ELSE 0
    BY <2>1 DEF Handing, Count
  <2>4. \A d \in Conns : refCount[d] \in Int /\ SlotRefs(d) \in Int
    BY <1>1 DEF SlotRefs, Count
  <2>5. \A d \in Conns : refCount'[d] = refCount[d] + IF d = c THEN 1 ELSE 0
    BY <1>1, <2>1
  <2> HIDE DEF SlotRefs, Handing, c
  <2>6. \A d \in Conns : refCount'[d] - refCount[d]
          = SlotRefs(d)' - SlotRefs(d) + (Handing(d)' - Handing(d))
    BY <2>2, <2>3, <2>4, <2>5
  <2> QED BY <2>1, <2>6, NoWorkerMoves
<1>7. CASE ReleaseSlot
  <2>0. netPc = "release" /\ netIdx \in 1..slotCount /\ slots[netIdx] # NoConn
    BY <1>1, <1>7 DEF StructInv, NetBounds, ReleaseSlot, NetAt
  <2> PICK c \in Conns : c = slots[netIdx]
    BY <2>0, SlotIsConn
  <2>1. /\ UNCHANGED <<workerPc, workerOp, serviceConn, slots, slotCount>>
        /\ netPc = "release" /\ netPc' = "walk" /\ netIdx' = netIdx + 1
        /\ refCount' = [refCount EXCEPT ![c] = @ - 1]
    BY <1>7 DEF ReleaseSlot, NetAt, NetUnchanged, workerVars, Release
  <2>2. netIdx \in 1..slotCount
    BY <2>0
  <2>3. \A i, j \in 1..slotCount : slots[i] = slots[j] => i = j
    BY <2>1 DEF Core, SlotsDistinct
  <2>4. \A d \in Conns : Handing(d)' = 0 /\ Handing(d) = 0
    BY <2>1 DEF Handing, Count
  <2>5. ASSUME NEW d \in Conns, d # c
        PROVE  SlotRefs(d)' = SlotRefs(d)
    <3>1. (\E i \in 1..slotCount' : Waits(d, i)') <=> (\E i \in 1..slotCount : Waits(d, i))
      BY <1>1, <2>1, <2>2, <2>5 DEF Waits
    <3> QED BY <1>2, <1>3, <3>1 DEF Count
  <2>6. SlotRefs(c) = 1 /\ SlotRefs(c)' = 0
    <3>1. Waits(c, netIdx)
      BY <1>1, <2>1 DEF Waits
    <3>2. ASSUME NEW i \in 1..slotCount
          PROVE  ~Waits(c, i)'
      <4>1. slots[i] = c => ~(netIdx + 1 <= i)
        BY <1>1, <2>2, <2>3
      <4> QED BY <2>1, <4>1 DEF Waits
    <3> QED BY <1>2, <1>3, <2>1, <2>2, <3>1, <3>2 DEF Count
  <2>7. \A d \in Conns : refCount[d] \in Int /\ SlotRefs(d) \in Int
    BY <1>1 DEF SlotRefs, Count
  <2>8. \A d \in Conns : refCount'[d] = refCount[d] - IF d = c THEN 1 ELSE 0
    BY <1>1, <2>1
  <2> HIDE DEF SlotRefs, Handing
  <2>9. \A d \in Conns : refCount'[d] - refCount[d]
          = SlotRefs(d)' - SlotRefs(d) + (Handing(d)' - Handing(d))
    BY <2>4, <2>5, <2>6, <2>7, <2>8
  <2> QED BY <2>1, <2>9, NoWorkerMoves
<1>8. CASE AssignWorker
  <2> DEFINE c == slots[netIdx]
  <2>1. /\ UNCHANGED <<workerPc, workerOp, netIdx, slots, slotCount, refCount>>
        /\ netPc = "assign" /\ candidate \in Workers
    BY <1>8 DEF AssignWorker, NetAt, connVars, StructInv, TypeOK, NetTypeOK
  <2>2. CASE serviceConn[candidate] # NoConn
    <3>1. UNCHANGED <<serviceConn, netPc>>
      BY <1>8, <2>2 DEF AssignWorker
    <3>2. \A d \in Conns : SlotRefs(d)' = SlotRefs(d) /\ Handing(d)' = Handing(d)
      BY <2>1, <3>1 DEF SlotRefs, Handing
    <3>3. \A d \in Conns : refCount[d] \in Int /\ SlotRefs(d) \in Int /\ Handing(d) \in Int
      BY <1>1 DEF SlotRefs, Handing, Count
    <3> HIDE DEF SlotRefs, Handing
    <3>4. \A d \in Conns : refCount'[d] - refCount[d]
            = SlotRefs(d)' - SlotRefs(d) + (Handing(d)' - Handing(d))
      BY <2>1, <3>2, <3>3
    <3> QED BY <2>1, <3>1, <3>4, NoWorkerMoves
  <2>3. CASE serviceConn[candidate] = NoConn
    <3>1. serviceConn' = [serviceConn EXCEPT ![candidate] = c] /\ netPc' = "release"
      BY <1>8, <2>3 DEF AssignWorker
    <3>2. workerPc[candidate] \notin Busy
      BY <2>1, <2>3 DEF StructInv, WorkerHolds
    <3>3. Refs(candidate) = 1
      BY <1>1, <2>1, <3>2 DEF Refs, RefsOf, Teardown, Busy, WorkerPcs
    <3> SUFFICES ASSUME NEW d \in Conns
                 PROVE  (refCount[d] = 1 + SlotRefs(d) + Handing(d) + Total(HeldBy(d)))'
      BY DEF RefsCounted
    <3>4. SlotRefs(d)' = SlotRefs(d) /\ SlotRefs(d) \in Int
      BY <2>1, <3>1 DEF SlotRefs, Count
    <3>5. Handing(d) = (IF d = c THEN 1 ELSE 0) /\ Handing(d)' = 0
      BY <2>1, <3>1 DEF Handing, Count
    <3>6. HeldFacts /\ HeldFacts'
      BY HeldAre, PTL
    <3>7. \A v \in Workers : Refs(v)' = Refs(v)
      BY <2>1 DEF Refs
    <3>8. \A v \in Workers \ {candidate} : HeldBy(d)'[v] = HeldBy(d)[v]
      BY <1>1, <2>1, <3>1, <3>6, <3>7 DEF HeldFacts
    <3>9. HeldBy(d)[candidate] = 0
      BY <1>1, <2>1, <2>3, <3>6 DEF HeldFacts
    <3>10. HeldBy(d)'[candidate] = IF d = c THEN 1 ELSE 0
      BY <1>1, <2>1, <3>1, <3>3, <3>6, <3>7 DEF HeldFacts
    <3> DEFINE k == candidate
    <3> HIDE DEF k
    <3>11. Total(HeldBy(d)) \in Int
           /\ Total(HeldBy(d))' = Total(HeldBy(d)) + HeldBy(d)'[candidate] - HeldBy(d)[candidate]
      <4>1. PICK w \in Workers : w = candidate
        BY <2>1
      <4>2. \A v \in Workers \ {w} : HeldBy(d)'[v] = HeldBy(d)[v]
        BY <3>8, <4>1
      <4>3. Total(HeldBy(d)) \in Int
            /\ Total(HeldBy(d))' = Total(HeldBy(d)) + HeldBy(d)'[w] - HeldBy(d)[w]
        BY <4>2, HeldMoves
      <4> QED BY <4>1, <4>3
    <3>12. refCount[d] = 1 + SlotRefs(d) + Handing(d) + Total(HeldBy(d))
      BY DEF RefsCounted
    <3>13. refCount'[d] = refCount[d]
      BY <2>1
    <3> HIDE DEF HeldBy, Total, SlotRefs, Handing, c
    <3> QED BY <3>4, <3>5, <3>9, <3>10, <3>11, <3>12, <3>13
  <2> QED BY <2>2, <2>3
<1> QED BY <1>4, <1>5, <1>6, <1>7, <1>8 DEF Network

-----------------------------------------------------------------------------
\* The owner and Disconnect take no references.
LEMMA CallersFrame ==
  ASSUME NEW c \in Conns, Owner(c) \/ Disconnect(c) \/ DisconnectNotify(c)
  PROVE  UNCHANGED <<refCount, responseRef, netVars, workerVars, fault>>
  BY DEF Owner, OwnerStep, StartConnect, CloseOldSocket, ForgetOldSocket,
     CreateSocket, AddConnection, SetConnecting, NotifyConnecting, ConnectSyscall,
     RemoveFailed, CloseFailed, SetError, LeaveConnect, Disconnect, DisconnectNotify

\* Nothing moves: nothing to count.
LEMMA RefsFrame ==
  ASSUME RefsCounted, UNCHANGED <<refCount, netVars, workerVars>>
  PROVE  RefsCounted'
<1> SUFFICES ASSUME NEW c \in Conns
             PROVE  (refCount[c] = 1 + SlotRefs(c) + Handing(c) + Total(HeldBy(c)))'
  BY DEF RefsCounted
<1>1. SlotRefs(c)' = SlotRefs(c) /\ Handing(c)' = Handing(c)
  BY DEF netVars, SlotRefs, Handing
<1>2. HeldBy(c)' = HeldBy(c)
  BY DEF workerVars, HeldBy, WorkerRefs
<1>3. Total(HeldBy(c))' = Total(HeldBy(c))
  BY <1>2 DEF Total
<1> QED BY <1>1, <1>3 DEF RefsCounted

\* The references stay accounted for.
LEMMA RefsStep ==
  ASSUME StructInv, StructInv', Core, OpInv, RefsCounted, [Next]_vars, ~staleSlot'
  PROVE  RefsCounted'
<1>1. CASE UNCHANGED vars
  BY <1>1, RefsFrame DEF vars, connVars
<1>2. ASSUME NEW c \in Conns, Owner(c) \/ Disconnect(c) \/ DisconnectNotify(c)
      PROVE  RefsCounted'
  BY <1>2, CallersFrame, RefsFrame
<1> QED BY <1>1, <1>2, NetworkRefs, WorkerRefsCounted DEF Next, Halted

\* The owner's reference is always there.
LEMMA OneLeft ==
  ASSUME RefsCounted, NEW c \in Conns
  PROVE  refCount[c] >= 1
<1>1. SlotRefs(c) \in Nat /\ Handing(c) \in Nat
  BY DEF SlotRefs, Handing, Count
<1>2. PICK w \in Workers : TRUE
  BY WowNetAssumption DEF Workers
<1>3. HeldBy(c) \in [Workers -> Nat]
  BY HeldAre DEF HeldFacts
<1>4. HeldBy(c)[w] \in Nat
  BY <1>3
<1> HIDE DEF SlotRefs, Handing, HeldBy, Total
<1>5. Total(HeldBy(c)) \in Int /\ Total(HeldBy(c)) >= HeldBy(c)[w]
  BY <1>3, TotalBounds
<1>6. Total(HeldBy(c)) >= 0
  BY <1>4, <1>5
<1>7. refCount[c] = 1 + SlotRefs(c) + Handing(c) + Total(HeldBy(c))
  BY DEF RefsCounted
<1> QED BY <1>1, <1>5, <1>6, <1>7

\* As long as references are counted an owner has one.
OwnerCounts == RefsCounted => \A c \in Conns : refCount[c] >= 1

\* The same as a state formula, for the state after a step
LEMMA OwnerCounted == OwnerCounts
  BY OneLeft DEF OwnerCounts

\* After a step, too, the owner's reference is there.
LEMMA OneLeftNext ==
  ASSUME RefsCounted', NEW c \in Conns
  PROVE  refCount'[c] >= 1
<1>1. OwnerCounts'
  BY OwnerCounted, PTL
<1> QED BY <1>1 DEF OwnerCounts

-----------------------------------------------------------------------------
(* The reference of the response.                                          *)

Calling(c, w) == serviceConn[w] = c /\ Resp(w) = 1

\* A response is referenced by the one worker that calls it or is about to.
ResponseExact ==
  \A c \in Conns : responseRef[c] = Count(\E w \in Workers : Calling(c, w))

\* The caller of a response services the connection.
LEMMA CallingServes ==
  ASSUME NEW w \in Workers, NEW c \in Conns, Calling(c, w)
  PROVE  Servicing(w) /\ workerPc[w] \in Teardown \cup {"callback"}
<1>1. workerPc[w] \in Teardown \cup {"callback"}
  <2>1. workerPc[w] \notin Teardown \cup {"callback"} => Resp(w) = 0
    BY DEF Resp, RespOf
  <2> QED BY <2>1 DEF Calling
<1>2. serviceConn[w] # NoConn
  BY WowNetAssumption DEF Calling
<1> QED BY <1>1, <1>2 DEF Servicing, Teardown

\* A worker holds the response once at most.
LEMMA RespIs == \A w \in Workers : Resp(w) \in {0, 1}
  BY DEF Resp, RespOf

\* For a worker at service the count is what it holds.
LEMMA OwnResponse ==
  ASSUME Distinct, ResponseExact, NEW w \in Workers, Servicing(w), serviceConn[w] \in Conns
  PROVE  /\ responseRef[serviceConn[w]] = Resp(w)
         /\ \A v \in Workers : Calling(serviceConn[w], v) => v = w
<1>1. \A v \in Workers : Calling(serviceConn[w], v) => v = w
  BY CallingServes DEF Distinct, Calling
<1>2. Resp(w) \in {0, 1}
  BY RespIs
<1>3. (\E v \in Workers : Calling(serviceConn[w], v)) <=> Resp(w) = 1
  BY <1>1 DEF Calling
<1> QED BY <1>1, <1>2, <1>3 DEF ResponseExact, Count

\* At first nobody holds a response.
LEMMA InitResponse == Init => ResponseExact
<1> SUFFICES ASSUME Init PROVE ResponseExact
  OBVIOUS
<1>1. \A c \in Conns : responseRef[c] = 0 /\ \A w \in Workers : serviceConn[w] # c
  BY WowNetAssumption DEF Init
<1> QED BY <1>1 DEF ResponseExact, Count, Calling

\* The callers stay the same.
LEMMA ResponseFrame ==
  ASSUME ResponseExact, UNCHANGED responseRef,
         \A c \in Conns, w \in Workers : Calling(c, w)' <=> Calling(c, w)
  PROVE  ResponseExact'
<1>1. \A c \in Conns : Count(\E w \in Workers : Calling(c, w))'
                         = Count(\E w \in Workers : Calling(c, w))
  BY DEF Count
<1> QED BY <1>1 DEF ResponseExact

\* A worker takes the response's reference only while nobody else has it.
LEMMA WorkerResponse ==
  ASSUME StructInv, OpInv, Distinct, ResponseExact, NEW w \in Workers, Worker(w)
  PROVE  ResponseExact'
<1>1. /\ workerPc \in [Workers -> WorkerPcs] /\ workerOp \in [Workers -> Ops]
      /\ serviceConn \in [Workers -> Conns \cup {NoConn}] /\ NoConn \notin Conns
  BY WowNetAssumption DEF StructInv, TypeOK, WorkerTypeOK
<1>2. CASE workerPc[w] \in Busy /\ ~DropConnection(w)
  <2>1. Accounts(w) /\ serviceConn[w] \in Conns
    BY <1>2, WorkerAccounts, WorkerConn
  <2> PICK c \in Conns : c = serviceConn[w]
    BY <2>1
  <2>2. Servicing(w)
    <3>1. workerPc[w] # "drop"
      BY <1>2 DEF Worker, WorkerStep, Inside, BeginFlag, WorkerStart, WorkerWakes,
         DoWritesOrExceptions, DoReads, DoDisconnect, CheckConnect, RemoveConnection,
         CloseConnection, SetDisconnected, Announce, RecvData, RecvNothing, RecvEnd,
         CallbackReturns, ReloadFlags, EndService, SignalFree, WorkerReady
    <3> QED BY <1>1, <2>1, <3>1 DEF Servicing
  <2>3. responseRef[c] = Resp(w) /\ \A v \in Workers : Calling(c, v) => v = w
    BY <2>2, OwnResponse
  <2>4. /\ UNCHANGED serviceConn
        /\ responseRef'[c] = responseRef[c] + (Resp(w)' - Resp(w))
        /\ \A d \in Conns \ {c} : responseRef'[d] = responseRef[d]
        /\ Resp(w) \in {0, 1} /\ Resp(w)' \in {0, 1}
    BY <2>1 DEF Accounts, MovesBy
  <2>5. responseRef'[c] = Resp(w)'
    BY <2>3, <2>4
  <2>6. \A v \in Workers \ {w} : Resp(v)' = Resp(v)
    BY <2>1 DEF Accounts, MovesBy, Resp
  <2>7. \A d \in Conns \ {c} : \A v \in Workers : Calling(d, v)' <=> Calling(d, v)
    BY <2>4, <2>6 DEF Calling
  <2>8. (\E v \in Workers : Calling(c, v)') <=> Resp(w)' = 1
    BY <2>3, <2>4, <2>6 DEF Calling
  <2>9. responseRef'[c] = Count(\E v \in Workers : Calling(c, v)')
    BY <2>4, <2>5, <2>8 DEF Count
  <2>10. \A d \in Conns \ {c} : responseRef'[d] = Count(\E v \in Workers : Calling(d, v)')
    BY <2>4, <2>7 DEF ResponseExact, Count
  <2> QED BY <2>9, <2>10 DEF ResponseExact
<1>3. CASE workerPc[w] \notin Busy \/ DropConnection(w)
  <2>1. \/ WorkerStart(w) \/ WorkerWakes(w) \/ DropConnection(w) \/ SignalFree(w)
        \/ WorkerReady(w)
    BY <1>3, ServesCases DEF Serves, EndService, WorkerStep, Busy, WorkerPcs
  <2>2. /\ UNCHANGED <<workerOp, responseRef>>
        /\ \/ UNCHANGED serviceConn \/ serviceConn' = [serviceConn EXCEPT ![w] = NoConn]
        /\ workerPc[w] \in {"start", "idle", "signal", "ready", "drop"}
        /\ \E pc \in {"idle", "service", "ready", "signal"} :
             workerPc' = [workerPc EXCEPT ![w] = pc]
    BY <2>1 DEF WorkerStart, WorkerWakes, DropConnection, SignalFree, WorkerReady, WorkerStep,
       connVars
  <2>3. Resp(w) = 0 /\ Resp(w)' = 0
    BY <1>1, <2>2 DEF Resp, RespOf, Teardown
  <2>4. \A v \in Workers \ {w} : Resp(v)' = Resp(v) /\ serviceConn'[v] = serviceConn[v]
    BY <1>1, <2>2 DEF Resp
  <2>5. \A c \in Conns, v \in Workers : Calling(c, v)' <=> Calling(c, v)
    BY <2>3, <2>4 DEF Calling
  <2> QED BY <2>2, <2>5, ResponseFrame
<1> QED BY <1>2, <1>3

\* A worker that is given a connection holds no response yet.
LEMMA NetworkResponse ==
  ASSUME StructInv, ResponseExact, Network
  PROVE  ResponseExact'
<1>1. UNCHANGED <<workerPc, workerOp, responseRef>>
  BY DEF Network, OpenPipe, BeginScan, ScanConnection, EndScan, SelectWake, SelectReady,
     SelectReturns, WalkSlot, TakeWorker, NoWorker, AssignWorker, ReleaseSlot, EndWalk,
     NetUnchanged, workerVars, connVars, Release
<1>2. CASE UNCHANGED serviceConn
  BY <1>1, <1>2, ResponseFrame DEF Calling, Resp
<1>3. CASE ~UNCHANGED serviceConn
  <2>1. AssignWorker
    BY <1>3 DEF Network, OpenPipe, BeginScan, ScanConnection, EndScan, SelectWake, SelectReady,
       SelectReturns, WalkSlot, TakeWorker, NoWorker, ReleaseSlot, EndWalk,
       NetUnchanged, workerVars
  <2>2. /\ serviceConn[candidate] = NoConn
        /\ serviceConn' = [serviceConn EXCEPT ![candidate] = slots[netIdx]]
    BY <1>3, <2>1 DEF AssignWorker
  <2>3. candidate \in Workers /\ serviceConn \in [Workers -> Conns \cup {NoConn}]
        /\ workerPc \in [Workers -> WorkerPcs]
    BY DEF StructInv, TypeOK, NetTypeOK, WorkerTypeOK
  <2>4. workerPc[candidate] \notin Busy
    BY <2>2, <2>3 DEF StructInv, WorkerHolds
  <2>5. Resp(candidate) = 0
    BY <2>3, <2>4 DEF Resp, RespOf, Busy, WorkerPcs, Teardown
  <2>6. \A v \in Workers : Resp(v)' = Resp(v)
    BY <1>1 DEF Resp
  <2>7. \A c \in Conns, v \in Workers : Calling(c, v)' <=> Calling(c, v)
    BY <2>2, <2>3, <2>5, <2>6 DEF Calling
  <2> QED BY <1>1, <2>7, ResponseFrame
<1> QED BY <1>2, <1>3

\* m_responseRef stays exact.
LEMMA ResponseStep ==
  ASSUME StructInv, OpInv, Distinct, ResponseExact, [Next]_vars
  PROVE  ResponseExact'
<1>1. CASE UNCHANGED vars
  BY <1>1, ResponseFrame DEF vars, connVars, workerVars, Calling, Resp
<1>2. ASSUME NEW c \in Conns, Owner(c) \/ Disconnect(c) \/ DisconnectNotify(c)
      PROVE  ResponseExact'
  BY <1>2, CallersFrame, ResponseFrame DEF workerVars, Calling, Resp
<1> QED BY <1>1, <1>2, NetworkResponse, WorkerResponse DEF Next, Halted

-----------------------------------------------------------------------------
(* No assertion fails.                                                     *)

\* The network thread: the search ends at a free worker, and the reference a slot
\* gives back is not the last.
LEMMA NetworkFaults ==
  ASSUME StructInv, FreeAhead, fault = "none", Network, NoBadHandOut', RefsCounted'
  PROVE  fault' = "none"
<1>1. CASE OpenPipe \/ BeginScan \/ ScanConnection \/ EndScan \/ SelectWake \/ SelectReady
           \/ TakeWorker \/ NoWorker \/ EndWalk
  BY <1>1 DEF OpenPipe, BeginScan, ScanConnection, EndScan, SelectWake, SelectReady,
     SelectReturns, TakeWorker, NoWorker, EndWalk
<1>2. CASE WalkSlot
  BY <1>2 DEF WalkSlot, NoBadHandOut
<1>3. CASE AssignWorker
  <2>1. netPc = "assign" /\ candidate \in Workers
    BY <1>3 DEF AssignWorker, NetAt, StructInv, TypeOK, NetTypeOK
  <2>2. PICK w \in Workers : candidate <= w /\ serviceConn[w] = NoConn
    BY <2>1 DEF FreeAhead
  <2>3. serviceConn[candidate] # NoConn => candidate < NumWorkers
    BY <2>1, <2>2, WowNetAssumption DEF Workers
  <2> QED BY <1>3, <2>3 DEF AssignWorker, NoBadHandOut
<1>4. CASE ReleaseSlot
  <2>1. netPc = "release" /\ Release(slots[netIdx], 1)
    BY <1>4 DEF ReleaseSlot, NetAt
  <2>2. slots[netIdx] \in Conns
    BY <2>1, SlotIsConn DEF StructInv, NetBounds
  <2> PICK c \in Conns : c = slots[netIdx]
    BY <2>2
  <2>3. refCount[c] \in Int /\ refCount'[c] = refCount[c] - 1
    BY <2>1 DEF StructInv, TypeOK, ConnTypeOK, Release
  <2>4. refCount'[c] >= 1
    BY OneLeftNext
  <2> QED BY <2>1, <2>3, <2>4 DEF Release
<1> QED BY <1>1, <1>2, <1>3, <1>4 DEF Network

\* A worker: AcquireResponseRef finds 0, and no Release gives back the last.
LEMMA WorkerFaults ==
  ASSUME StructInv, OpInv, Distinct, ResponseExact, fault = "none", RefsCounted',
         NEW w \in Workers, Worker(w)
  PROVE  fault' = "none"
<1>1. CASE workerPc[w] \in Busy /\ ~DropConnection(w)
  <2>1. Accounts(w) /\ serviceConn[w] \in Conns
    BY <1>1, WorkerAccounts, WorkerConn
  <2> PICK c \in Conns : c = serviceConn[w]
    BY <2>1
  <2>2. refCount'[c] >= 1
    BY OneLeftNext
  <2>3. Servicing(w)
    <3>1. workerPc[w] # "drop"
      BY <1>1 DEF Worker, WorkerStep, Inside, BeginFlag, WorkerStart, WorkerWakes,
         DoWritesOrExceptions, DoReads, DoDisconnect, CheckConnect, RemoveConnection,
         CloseConnection, SetDisconnected, Announce, RecvData, RecvNothing, RecvEnd,
         CallbackReturns, ReloadFlags, EndService, SignalFree, WorkerReady
    <3> QED BY <2>1, <3>1, WowNetAssumption DEF Servicing
  <2>4. responseRef[c] = Resp(w)
    BY <2>3, OwnResponse
  <2>5. fault' # "none" => refCount'[c] <= 0 \/ (Resp(w) = 0 /\ responseRef[c] # 0)
    BY <2>1 DEF Accounts, MovesBy
  <2>6. refCount'[c] \in Int
    BY WorkerStruct DEF StructInv, TypeOK, ConnTypeOK
  <2> QED BY <2>2, <2>4, <2>5, <2>6
<1>2. CASE DropConnection(w)
  <2>1. workerPc[w] = "drop" /\ Release(serviceConn[w], 1)
    BY <1>2 DEF DropConnection, WorkerStep, Mine
  <2>2. serviceConn[w] \in Conns
    BY <2>1, WorkerConn DEF Busy, WorkerPcs
  <2> PICK c \in Conns : c = serviceConn[w]
    BY <2>2
  <2>3. refCount[c] \in Int /\ refCount'[c] = refCount[c] - 1
    BY <2>1 DEF StructInv, TypeOK, ConnTypeOK, Release
  <2>4. refCount'[c] >= 1
    BY OneLeftNext
  <2> QED BY <2>1, <2>3, <2>4 DEF Release
<1>3. CASE workerPc[w] \notin Busy
  <2>1. WorkerStart(w) \/ WorkerWakes(w) \/ SignalFree(w) \/ WorkerReady(w)
    BY <1>3, ServesCases DEF Serves, EndService, DropConnection, WorkerStep, Busy, WorkerPcs
  <2> QED BY <2>1 DEF WorkerStart, WorkerWakes, SignalFree, WorkerReady
<1> QED BY <1>1, <1>2, <1>3

\* No step fails an assertion.
LEMMA FaultStep ==
  ASSUME StructInv, OpInv, FreeAhead, Distinct, ResponseExact, fault = "none",
         [Next]_vars, NoBadHandOut', RefsCounted'
  PROVE  fault' = "none"
<1>1. CASE UNCHANGED vars
  BY <1>1 DEF vars
<1>2. ASSUME NEW c \in Conns, Owner(c) \/ Disconnect(c) \/ DisconnectNotify(c)
      PROVE  fault' = "none"
  BY <1>2, CallersFrame
<1> QED BY <1>1, <1>2, NetworkFaults, WorkerFaults DEF Next, Halted

-----------------------------------------------------------------------------
(* The counts and the assertions.                                          *)

\* What holds as long as the scan filled every slot it counted
Exact == RefsCounted /\ ResponseExact /\ fault = "none"

ExactInv == IInv /\ TokenInv /\ OpInv /\ (~staleSlot => Exact)

\* The invariant holds at the start ...
LEMMA InitExact == Init => ExactInv
<1>1. Init => OpInv
  BY DEF Init, OpInv, OpFits, Ops, Teardown
<1>2. Init => fault = "none"
  BY DEF Init
<1> QED BY <1>1, <1>2, InitStruct, InitCore, InitTokens, InitRefs, InitResponse
        DEF ExactInv, IInv, CoreInv, Exact

\* ... and every step keeps it.
LEMMA ExactStep == ExactInv /\ [Next]_vars => ExactInv'
<1> SUFFICES ASSUME ExactInv, [Next]_vars PROVE ExactInv'
  OBVIOUS
<1>1. IInv' /\ TokenInv' /\ OpInv'
  BY IInvStep, TokensStep, OpStep DEF ExactInv, IInv
<1>2. SUFFICES ASSUME ~staleSlot' PROVE Exact'
  BY <1>1 DEF ExactInv
<1>3. StructInv /\ Core /\ TokenInv /\ OpInv /\ Exact /\ StructInv' /\ Core'
  BY <1>1, <1>2, StaleStays DEF ExactInv, IInv, CoreInv
<1>4. RefsCounted'
  BY <1>2, <1>3, RefsStep DEF Exact
<1>5. ResponseExact'
  BY <1>3, ResponseStep DEF Exact, Core
<1>6. fault' = "none"
  BY <1>3, <1>4, FaultStep DEF Exact, Core, TokenInv
<1> QED BY <1>4, <1>5, <1>6 DEF Exact

\* m_refCount (WowConnection.cpp:147,695) is exact as long as the scan filled every
\* slot it counted, and the tokens of m_workerSem always are.
THEOREM CountsAreExact == Spec => []CountsExact
<1>1. ExactInv => CountsExact
  <2> SUFFICES ASSUME ExactInv PROVE CountsExact
    OBVIOUS
  <2>1. TokensExact
    BY DEF ExactInv, TokenInv, Tokens, TokensExact, Holding, Due
  <2>2. RefCountExact
    BY DEF ExactInv, Exact, RefsCounted, RefCountExact, Handing
  <2> QED BY <2>1, <2>2 DEF CountsExact
<1> QED BY <1>1, InitExact, ExactStep, PTL DEF Spec

\* As long as the scan filled every slot it counted, no STORM_ASSERT of
\* SignalWorker, AcquireResponseRef or ReleaseResponseRef fails, no slot is read
\* before it was written and no connection in use is freed.
THEOREM AssertionsAlwaysHold == Spec => []AssertionsHold
<1>1. ExactInv => AssertionsHold
  <2> SUFFICES ASSUME ExactInv, ~staleSlot, NEW c \in Conns
               PROVE  fault = "none" /\ responseRef[c] >= 0
    BY DEF AssertionsHold, ExactInv, Exact
  <2>1. responseRef[c] \in {0, 1}
    BY DEF ExactInv, Exact, ResponseExact, Count
  <2> QED BY <2>1 DEF ExactInv, Exact
<1> QED BY <1>1, InitExact, ExactStep, PTL DEF Spec

-----------------------------------------------------------------------------
(* m_serviceCount.                                                         *)

\* Who services c
ServedBy(c) == [w \in Workers |-> Count(Servicing(w) /\ serviceConn[w] = c)]

\* m_serviceCount is the number of workers that service the connection, and one
\* while a worker is looked for.
ServiceExact == \A c \in Conns : serviceCount[c] = Handing(c) + Total(ServedBy(c))

\* What ServedBy is worth, as a state formula for both ends of a step
ServedFacts ==
  \A c \in Conns :
    /\ ServedBy(c) \in [Workers -> Nat]
    /\ \A w \in Workers :
         ServedBy(c)[w] = IF Servicing(w) /\ serviceConn[w] = c THEN 1 ELSE 0

\* ServedBy marks the workers in service.
LEMMA ServedAre == ServedFacts
  BY DEF ServedFacts, ServedBy, Count

\* When one worker begins or ends its service, the total changes by as much.
LEMMA ServedMoves ==
  ASSUME NEW c \in Conns, NEW w \in Workers,
         \A v \in Workers \ {w} : ServedBy(c)'[v] = ServedBy(c)[v]
  PROVE  /\ Total(ServedBy(c)) \in Int
         /\ Total(ServedBy(c))' = Total(ServedBy(c)) + ServedBy(c)'[w] - ServedBy(c)[w]
<1>1. ServedFacts /\ ServedFacts'
  BY ServedAre, PTL
<1>2. ServedBy(c) \in [Workers -> Int] /\ ServedBy(c)' \in [Workers -> Int]
  BY <1>1 DEF ServedFacts
<1>3. Total(ServedBy(c)') = Total(ServedBy(c))'
  OBVIOUS
<1> HIDE DEF ServedBy, Total
<1>4. \A v \in Workers : v # w => ServedBy(c)'[v] = ServedBy(c)[v]
  OBVIOUS
<1>5. /\ Total(ServedBy(c)) \in Int
      /\ Total(ServedBy(c)') = Total(ServedBy(c)) + ServedBy(c)'[w] - ServedBy(c)[w]
  BY <1>2, <1>4, TotalMoves
<1> QED BY <1>3, <1>5

\* A connection in service has a worker, unless one is looked for.
LEMMA InServiceHasWorker ==
  ASSUME ServiceExact, NEW c \in Conns, InService(c), netPc # "assign"
  PROVE  \E w \in Workers : serviceConn[w] = c
<1>1. Handing(c) = 0
  BY DEF Handing, Count
<1>2. PICK v \in Workers : TRUE
  BY WowNetAssumption DEF Workers
<1>3. ServedFacts
  BY ServedAre
<1>4. ServedBy(c) \in [Workers -> Nat] /\ Total(ServedBy(c)) \in Int
  BY <1>2, <1>3, TotalBounds DEF ServedFacts
<1>5. Total(ServedBy(c)) # 0
  BY <1>1, <1>4 DEF ServiceExact, InService
<1>6. PICK w \in Workers : ServedBy(c)[w] # 0
  BY <1>5, TotalOfNone
<1> QED BY <1>3, <1>6 DEF ServedFacts

\* At the start nobody is in service.
LEMMA InitService == Init => ServiceExact
<1> SUFFICES ASSUME Init, NEW c \in Conns
             PROVE  serviceCount[c] = Handing(c) + Total(ServedBy(c))
  BY DEF ServiceExact
<1>1. serviceCount[c] = 0 /\ netPc = "start"
      /\ \A w \in Workers : serviceConn[w] = NoConn
  BY DEF Init
<1>2. Handing(c) = 0
  BY <1>1 DEF Handing, Count
<1>3. \A w \in Workers : ServedBy(c)[w] = 0
  BY <1>1, ServedAre DEF ServedFacts, Servicing
<1>4. Total(ServedBy(c)) = 0
  BY <1>3, TotalOfNone
<1> QED BY <1>1, <1>2, <1>4

\* Nobody begins or ends a service.
LEMMA ServiceFrame ==
  ASSUME ServiceExact, UNCHANGED serviceCount,
         \A c \in Conns : Handing(c)' = Handing(c),
         \A w \in Workers : /\ Servicing(w)' <=> Servicing(w)
                            /\ Servicing(w) => serviceConn'[w] = serviceConn[w]
  PROVE  ServiceExact'
<1> SUFFICES ASSUME NEW c \in Conns
             PROVE  (serviceCount[c] = Handing(c) + Total(ServedBy(c)))'
  BY DEF ServiceExact
<1>1. ServedBy(c)' = ServedBy(c)
  BY DEF ServedBy, Count
<1>2. Total(ServedBy(c))' = Total(ServedBy(c))
  BY <1>1 DEF Total
<1> QED BY <1>2 DEF ServiceExact

\* EndService takes the worker out of the count.
LEMMA WorkerService ==
  ASSUME StructInv, ServiceExact, NEW w \in Workers, Worker(w)
  PROVE  ServiceExact'
<1>1. /\ workerPc \in [Workers -> WorkerPcs]
      /\ serviceConn \in [Workers -> Conns \cup {NoConn}]
      /\ serviceCount \in [Conns -> Int] /\ NoConn \notin Conns
  BY WowNetAssumption DEF StructInv, TypeOK, WorkerTypeOK, ConnTypeOK
<1>2. \A c \in Conns : Handing(c)' = Handing(c) /\ Handing(c) \in Int
  BY WorkerFrame DEF netVars, Handing, Count
<1>3. CASE Serves(w) \/ WorkerStart(w) \/ WorkerWakes(w) \/ SignalFree(w) \/ WorkerReady(w)
  <2>1. /\ UNCHANGED <<serviceConn, serviceCount>> /\ workerPc[w] # "drop"
        /\ \E pc \in WorkerPcs \ {"drop"} : workerPc' = [workerPc EXCEPT ![w] = pc]
    BY <1>3 DEF Serves, WorkerStart, WorkerWakes, SignalFree, WorkerReady, WorkerStep, connVars,
       Busy, WorkerPcs
  <2>2. \A v \in Workers : Servicing(v)' <=> Servicing(v)
    BY <1>1, <2>1 DEF Servicing
  <2> QED BY <1>2, <2>1, <2>2, ServiceFrame
<1>4. CASE DropConnection(w)
  <2>1. /\ UNCHANGED serviceCount /\ workerPc[w] = "drop"
        /\ workerPc' = [workerPc EXCEPT ![w] = "signal"]
        /\ serviceConn' = [serviceConn EXCEPT ![w] = NoConn]
    BY <1>4 DEF DropConnection, WorkerStep
  <2>2. \A v \in Workers \ {w} : serviceConn'[v] = serviceConn[v]
                                 /\ (Servicing(v)' <=> Servicing(v))
    BY <1>1, <2>1 DEF Servicing
  <2>3. ~Servicing(w) /\ ~Servicing(w)'
    BY <1>1, <2>1 DEF Servicing
  <2> QED BY <1>2, <2>1, <2>2, <2>3, ServiceFrame
<1>5. CASE EndService(w)
  <2>1. /\ UNCHANGED serviceConn /\ workerPc[w] = "finish"
        /\ workerPc' = [workerPc EXCEPT ![w] = "drop"]
        /\ serviceCount' = [serviceCount EXCEPT ![serviceConn[w]] = @ - 1]
    BY <1>5 DEF EndService, WorkerStep, Mine
  <2>2. serviceConn[w] \in Conns
    BY <2>1, WorkerConn DEF Busy, WorkerPcs
  <2>3. Servicing(w) /\ ~Servicing(w)'
    BY <1>1, <2>1, <2>2 DEF Servicing
  <2> SUFFICES ASSUME NEW c \in Conns
               PROVE  (serviceCount[c] = Handing(c) + Total(ServedBy(c)))'
    BY DEF ServiceExact
  <2>4. ServedFacts /\ ServedFacts'
    BY ServedAre, PTL
  <2>5. \A v \in Workers \ {w} : ServedBy(c)'[v] = ServedBy(c)[v]
    BY <1>1, <2>1, <2>4 DEF ServedFacts, Servicing
  <2>6. /\ Total(ServedBy(c)) \in Int
        /\ Total(ServedBy(c))' = Total(ServedBy(c)) + ServedBy(c)'[w] - ServedBy(c)[w]
    BY <2>5, ServedMoves
  <2>7. ServedBy(c)[w] = (IF serviceConn[w] = c THEN 1 ELSE 0) /\ ServedBy(c)'[w] = 0
    BY <2>3, <2>4 DEF ServedFacts
  <2>8. serviceCount[c] = Handing(c) + Total(ServedBy(c))
    BY DEF ServiceExact
  <2>9. serviceCount'[c] = serviceCount[c] - (IF serviceConn[w] = c THEN 1 ELSE 0)
    BY <1>1, <2>1, <2>2
  <2> HIDE DEF ServedBy, Total, Handing
  <2> QED BY <1>1, <1>2, <2>6, <2>7, <2>8, <2>9
<1> QED BY <1>3, <1>4, <1>5, ServesCases

\* SignalWorker counts the connection before it looks for a worker.
LEMMA NetworkService ==
  ASSUME StructInv, ServiceExact, Network
  PROVE  ServiceExact'
<1>1. /\ workerPc \in [Workers -> WorkerPcs]
      /\ serviceConn \in [Workers -> Conns \cup {NoConn}]
      /\ serviceCount \in [Conns -> Int] /\ NoConn \notin Conns
  BY WowNetAssumption DEF StructInv, TypeOK, WorkerTypeOK, ConnTypeOK
<1>2. CASE ~TakeWorker /\ ~AssignWorker
  <2>1. UNCHANGED <<serviceConn, serviceCount, workerPc>>
        /\ netPc # "assign" /\ netPc' # "assign"
    BY <1>2 DEF Network, OpenPipe, BeginScan, ScanConnection, EndScan, SelectWake, SelectReady,
       SelectReturns, WalkSlot, NoWorker, ReleaseSlot, EndWalk, NetUnchanged, workerVars,
       connVars, NetAt
  <2>2. \A c \in Conns : Handing(c)' = Handing(c)
    BY <2>1 DEF Handing, Count
  <2> QED BY <2>1, <2>2, ServiceFrame DEF Servicing
<1>3. CASE TakeWorker
  <2>0. netPc = "signal" /\ slots[netIdx] \in Conns
    BY <1>3, SlotIsConn DEF TakeWorker, NetAt, StructInv, NetBounds
  <2> PICK d \in Conns : d = slots[netIdx]
    BY <2>0
  <2>1. /\ UNCHANGED <<serviceConn, workerPc, slots, netIdx>>
        /\ netPc' = "assign"
        /\ serviceCount' = [serviceCount EXCEPT ![d] = @ + 1]
    BY <1>3 DEF TakeWorker, workerVars
  <2> SUFFICES ASSUME NEW c \in Conns
               PROVE  (serviceCount[c] = Handing(c) + Total(ServedBy(c)))'
    BY DEF ServiceExact
  <2>2. ServedBy(c)' = ServedBy(c)
    BY <2>1 DEF ServedBy, Servicing
  <2>3. Total(ServedBy(c))' = Total(ServedBy(c))
    BY <2>2 DEF Total
  <2>4. PICK w \in Workers : TRUE
    BY WowNetAssumption DEF Workers
  <2>5. Total(ServedBy(c)) \in Int
    BY <2>2, <2>4, ServedMoves
  <2>6. Handing(c) = 0 /\ Handing(c)' = IF c = d THEN 1 ELSE 0
    BY <2>0, <2>1 DEF Handing, Count
  <2>7. serviceCount'[c] = serviceCount[c] + IF c = d THEN 1 ELSE 0
    BY <1>1, <2>1
  <2>8. serviceCount[c] = Handing(c) + Total(ServedBy(c))
    BY DEF ServiceExact
  <2> HIDE DEF ServedBy, Total, Handing
  <2> QED BY <1>1, <2>3, <2>5, <2>6, <2>7, <2>8
<1>4. CASE AssignWorker
  <2>1. /\ UNCHANGED <<serviceCount, workerPc, slots, netIdx>>
        /\ netPc = "assign" /\ candidate \in Workers
    BY <1>4 DEF AssignWorker, NetAt, connVars, StructInv, TypeOK, NetTypeOK
  <2>2. CASE serviceConn[candidate] # NoConn
    <3>1. UNCHANGED <<serviceConn, netPc>>
      BY <1>4, <2>2 DEF AssignWorker
    <3> QED BY <2>1, <3>1, ServiceFrame DEF Servicing, Handing
  <2>3. CASE serviceConn[candidate] = NoConn
    <3>1. netPc' = "release" /\ slots[netIdx] \in Conns
      BY <1>4, <2>1, <2>3, SlotIsConn DEF AssignWorker, StructInv, NetBounds
    <3> PICK d \in Conns, k \in Workers : d = slots[netIdx] /\ k = candidate
      BY <2>1, <3>1
    <3>2. serviceConn' = [serviceConn EXCEPT ![k] = d] /\ serviceConn[k] = NoConn
      BY <1>4, <2>3 DEF AssignWorker
    <3>3. workerPc[k] # "drop"
      BY <3>2 DEF StructInv, WorkerHolds, Busy, WorkerPcs
    <3> SUFFICES ASSUME NEW c \in Conns
                 PROVE  (serviceCount[c] = Handing(c) + Total(ServedBy(c)))'
      BY DEF ServiceExact
    <3>4. ServedFacts /\ ServedFacts'
      BY ServedAre, PTL
    <3>5. \A v \in Workers \ {k} : ServedBy(c)'[v] = ServedBy(c)[v]
      BY <1>1, <2>1, <3>2, <3>4 DEF ServedFacts, Servicing
    <3>6. /\ Total(ServedBy(c)) \in Int
          /\ Total(ServedBy(c))' = Total(ServedBy(c)) + ServedBy(c)'[k] - ServedBy(c)[k]
      BY <3>5, ServedMoves
    <3>7. ServedBy(c)[k] = 0 /\ ServedBy(c)'[k] = IF c = d THEN 1 ELSE 0
      BY <1>1, <2>1, <3>2, <3>3, <3>4 DEF ServedFacts, Servicing
    <3>8. serviceCount[c] = Handing(c) + Total(ServedBy(c))
      BY DEF ServiceExact
    <3>9. Handing(c) = (IF c = d THEN 1 ELSE 0) /\ Handing(c)' = 0
      BY <2>1, <3>1 DEF Handing, Count
    <3>10. serviceCount'[c] = serviceCount[c]
      BY <2>1
    <3> HIDE DEF ServedBy, Total, Handing
    <3> QED BY <3>6, <3>7, <3>8, <3>9, <3>10
  <2> QED BY <2>2, <2>3
<1> QED BY <1>2, <1>3, <1>4

\* m_serviceCount stays exact, whatever the scan counted.
LEMMA ServiceStep == StructInv /\ ServiceExact /\ [Next]_vars => ServiceExact'
<1> SUFFICES ASSUME StructInv, ServiceExact, [Next]_vars PROVE ServiceExact'
  OBVIOUS
<1>1. CASE UNCHANGED <<serviceCount, netVars, workerVars>>
  BY <1>1, ServiceFrame DEF netVars, workerVars, Handing, Servicing
<1>2. ASSUME NEW c \in Conns, Owner(c) \/ Disconnect(c) \/ DisconnectNotify(c)
      PROVE  UNCHANGED <<serviceCount, netVars, workerVars>>
  BY <1>2 DEF Owner, OwnerStep, StartConnect, CloseOldSocket, ForgetOldSocket,
     CreateSocket, AddConnection, SetConnecting, NotifyConnecting, ConnectSyscall,
     RemoveFailed, CloseFailed, SetError, LeaveConnect, Disconnect, DisconnectNotify
<1>3. CASE UNCHANGED vars
  BY <1>1, <1>3 DEF vars, connVars
<1> QED BY <1>1, <1>2, <1>3, NetworkService, WorkerService DEF Next, Halted

-----------------------------------------------------------------------------
(* m_lock.                                                                 *)

OwnerLocks == {"add", "connecting", "notify", "connect", "remove", "close", "error", "leave"}

\* The worker is inside m_lock of its connection.
Locks(w) == workerPc[w] \in {"check", "recv"} \cup Teardown

\* The owner is inside m_lock exactly while it is marked as its holder, and of
\* the workers one at most is.
LockInv ==
  /\ \A c \in Conns : lock[c] = "owner" <=> ownerPc[c] \in OwnerLocks
  /\ \A w \in Workers : Locks(w) => lock[serviceConn[w]] = "worker"
  /\ \A v, w \in Workers : Locks(v) /\ Locks(w) /\ serviceConn[v] = serviceConn[w] => v = w

\* At the start nobody is inside m_lock.
LEMMA InitLocks == Init => LockInv
  BY DEF Init, LockInv, Locks, OwnerLocks, Teardown

\* The owner and Disconnect take m_lock when it is free and leave it when they
\* hold it.
LEMMA CallersLock ==
  ASSUME StructInv, LockInv, NEW c \in Conns, Owner(c) \/ Disconnect(c) \/ DisconnectNotify(c)
  PROVE  LockInv'
<1>1. /\ ownerPc \in [Conns -> OwnerPcs]
      /\ lock \in [Conns -> {"free", "owner", "worker", "disconnect"}]
  BY DEF StructInv, TypeOK, OwnerTypeOK, ConnTypeOK
<1>2. UNCHANGED <<workerPc, serviceConn>>
  BY CallersFrame DEF workerVars
<1>3. \/ /\ ownerPc[c] \in OwnerLocks <=> ownerPc'[c] \in OwnerLocks
         /\ UNCHANGED lock
         /\ \E pc \in OwnerPcs : ownerPc' = [ownerPc EXCEPT ![c] = pc]
      \/ /\ lock[c] = "free" /\ lock' = [lock EXCEPT ![c] = "owner"]
         /\ \E pc \in OwnerLocks : ownerPc' = [ownerPc EXCEPT ![c] = pc]
      \/ /\ ownerPc[c] \in OwnerLocks /\ lock' = [lock EXCEPT ![c] = "free"]
         /\ \E pc \in OwnerPcs \ OwnerLocks : ownerPc' = [ownerPc EXCEPT ![c] = pc]
      \/ /\ lock[c] = "free" /\ lock' = [lock EXCEPT ![c] = "disconnect"] /\ UNCHANGED ownerPc
      \/ /\ lock[c] = "disconnect" /\ lock' = [lock EXCEPT ![c] = "free"] /\ UNCHANGED ownerPc
  <2>1. CASE StartConnect(c) \/ CloseOldSocket(c) \/ ForgetOldSocket(c) \/ AddConnection(c)
             \/ SetConnecting(c) \/ NotifyConnecting(c) \/ RemoveFailed(c) \/ CloseFailed(c)
             \/ SetError(c)
    <3>1. \E pc \in OwnerPcs : /\ ownerPc' = [ownerPc EXCEPT ![c] = pc]
                               /\ ownerPc[c] \in OwnerLocks <=> pc \in OwnerLocks
      BY <2>1 DEF StartConnect, CloseOldSocket, ForgetOldSocket, AddConnection, SetConnecting,
         NotifyConnecting, RemoveFailed, CloseFailed, SetError, OwnerStep, OwnerLocks, OwnerPcs
    <3>2. UNCHANGED lock
      BY <2>1 DEF StartConnect, CloseOldSocket, ForgetOldSocket, AddConnection, SetConnecting,
         NotifyConnecting, RemoveFailed, CloseFailed, SetError
    <3> QED BY <1>1, <3>1, <3>2
  <2>2. CASE CreateSocket(c)
    BY <2>2 DEF CreateSocket, OwnerStep, OwnerLocks
  <2>3. CASE ConnectSyscall(c)
    <3>1. /\ ownerPc[c] = "connect"
          /\ \/ /\ ownerPc' = [ownerPc EXCEPT ![c] = "remove"]
                /\ UNCHANGED lock
             \/ /\ ownerPc' = [ownerPc EXCEPT ![c] = "idle"]
                /\ lock' = [lock EXCEPT ![c] = "free"]
      BY <2>3 DEF ConnectSyscall, OwnerStep, Leave
    <3> QED BY <1>1, <3>1 DEF OwnerLocks, OwnerPcs
  <2>4. CASE LeaveConnect(c)
    BY <2>4 DEF LeaveConnect, OwnerStep, Leave, OwnerLocks, OwnerPcs
  <2>5. CASE Disconnect(c)
    BY <2>5 DEF Disconnect, ownerVars
  <2>6. CASE DisconnectNotify(c)
    BY <2>6 DEF DisconnectNotify, Leave, ownerVars
  <2> QED BY <2>1, <2>2, <2>3, <2>4, <2>5, <2>6 DEF Owner
<1>4. \A w \in Workers : Locks(w) => serviceConn[w] \in Conns
  BY WorkerConn DEF Locks, Busy, WorkerPcs, Teardown
<1>5. \A w \in Workers : Locks(w)' <=> Locks(w)
  BY <1>2 DEF Locks
<1>6. \A d \in Conns : lock'[d] = "owner" <=> ownerPc'[d] \in OwnerLocks
  BY <1>1, <1>3 DEF LockInv
<1>7. \A d \in Conns : lock[d] = "worker" => lock'[d] = "worker"
  BY <1>1, <1>3 DEF LockInv
<1> QED BY <1>2, <1>4, <1>5, <1>6, <1>7 DEF LockInv

\* What a worker does with m_lock of its connection.
LEMMA WorkerLock ==
  ASSUME StructInv, NEW w \in Workers, Worker(w)
  PROVE  \/ Locks(w)' /\ ~Locks(w) /\ lock[serviceConn[w]] = "free"
            /\ lock' = [lock EXCEPT ![serviceConn[w]] = "worker"]
         \/ (Locks(w)' <=> Locks(w)) /\ UNCHANGED lock
         \/ ~Locks(w)' /\ Locks(w) /\ lock' = [lock EXCEPT ![serviceConn[w]] = "free"]
<1> USE DEF Teardown
<1>1. workerPc \in [Workers -> WorkerPcs]
  BY DEF StructInv, TypeOK, WorkerTypeOK
<1>2. CASE DoWritesOrExceptions(w, "write") \/ DoWritesOrExceptions(w, "error")
  BY <1>1, <1>2 DEF DoWritesOrExceptions, BeginFlag, WorkerStep, EnterConnection, Mine, Locks
<1>3. CASE DoReads(w)
  BY <1>1, <1>3 DEF DoReads, BeginFlag, WorkerStep, EnterConnection, Mine, Locks
<1>4. CASE DoDisconnect(w)
  <2>1. /\ workerPc[w] = "service" /\ lock[serviceConn[w]] = "free"
        /\ \E pc \in {"state", "remove"} : workerPc' = [workerPc EXCEPT ![w] = pc]
        /\ lock' = [lock EXCEPT ![serviceConn[w]] = "worker"]
    BY <1>4 DEF DoDisconnect, BeginFlag, WorkerStep, EnterConnection, Mine
  <2> QED BY <1>1, <2>1 DEF Locks
<1>5. CASE CheckConnect(w)
  BY <1>1, <1>5 DEF CheckConnect, Inside, WorkerStep, Leave, Mine, Locks
<1>6. CASE RemoveConnection(w) \/ CloseConnection(w) \/ SetDisconnected(w)
  BY <1>1, <1>6 DEF RemoveConnection, CloseConnection, SetDisconnected, Inside, WorkerStep, Locks
<1>7. CASE Announce(w) \/ RecvData(w)
  BY <1>1, <1>7 DEF Announce, RecvData, Inside, WorkerStep, Leave, Mine, Locks
<1>8. CASE RecvNothing(w) \/ RecvEnd(w)
  BY <1>1, <1>8 DEF RecvNothing, RecvEnd, LeaveReads, Inside, WorkerStep, Leave, Mine, Locks
<1>9. CASE CallbackReturns(w)
  <2>1. CASE workerPc' = [workerPc EXCEPT ![w] = "recv"]
    BY <1>1, <1>9, <2>1 DEF CallbackReturns, Inside, WorkerStep, Mine, Locks
  <2>2. CASE workerPc' # [workerPc EXCEPT ![w] = "recv"]
    <3>1. workerPc' = [workerPc EXCEPT ![w] = "service"] /\ lock[serviceConn[w]] = "free"
          /\ workerPc[w] = "callback"
          /\ (UNCHANGED lock \/ lock' = [lock EXCEPT ![serviceConn[w]] = "free"])
      BY <1>9, <2>2 DEF CallbackReturns, LeaveReads, Leave, Inside, WorkerStep, Mine
    <3>2. UNCHANGED lock
      BY <3>1 DEF StructInv, TypeOK, ConnTypeOK
    <3> QED BY <1>1, <3>1, <3>2 DEF Locks
  <2> QED BY <2>1, <2>2
<1>10. CASE \/ ReloadFlags(w) \/ EndService(w) \/ WorkerStart(w) \/ WorkerWakes(w)
            \/ DropConnection(w) \/ SignalFree(w) \/ WorkerReady(w)
  <2>1. /\ UNCHANGED lock
        /\ workerPc[w] \in {"service", "finish", "start", "idle", "drop", "signal", "ready"}
        /\ \E pc \in {"service", "finish", "idle", "drop", "signal", "ready"} :
             workerPc' = [workerPc EXCEPT ![w] = pc]
    BY <1>10 DEF ReloadFlags, EndService, WorkerStart, WorkerWakes, DropConnection, SignalFree,
       WorkerReady, WorkerStep, connVars
  <2> QED BY <1>1, <2>1 DEF Locks
<1> QED BY <1>2, <1>3, <1>4, <1>5, <1>6, <1>7, <1>8, <1>9, <1>10 DEF Worker

\* A step of a worker moves no other worker, and takes its connection away only
\* outside of m_lock.
LEMMA WorkerMoves ==
  ASSUME StructInv, NEW w \in Workers, Worker(w)
  PROVE  /\ \A v \in Workers \ {w} : workerPc'[v] = workerPc[v] /\ serviceConn'[v] = serviceConn[v]
         /\ serviceConn'[w] = serviceConn[w] \/ (~Locks(w) /\ ~Locks(w)')
<1>1. /\ workerPc \in [Workers -> WorkerPcs]
      /\ serviceConn \in [Workers -> Conns \cup {NoConn}]
  BY DEF StructInv, TypeOK, WorkerTypeOK
<1>2. CASE DropConnection(w)
  <2>1. /\ workerPc[w] = "drop" /\ workerPc' = [workerPc EXCEPT ![w] = "signal"]
        /\ serviceConn' = [serviceConn EXCEPT ![w] = NoConn]
    BY <1>2 DEF DropConnection, WorkerStep
  <2> QED BY <1>1, <2>1 DEF Locks, Teardown
<1>3. CASE ~DropConnection(w)
  <2>1. UNCHANGED serviceConn /\ \E pc : workerPc' = [workerPc EXCEPT ![w] = pc]
    BY <1>3, ServesCases DEF Serves, WorkerStart, WorkerWakes, EndService, SignalFree,
       WorkerReady, WorkerStep
  <2> QED BY <1>1, <2>1
<1> QED BY <1>2, <1>3

\* A step of a worker keeps m_lock a lock.
LEMMA WorkerKeepsLocks ==
  ASSUME StructInv, LockInv, NEW w \in Workers, Worker(w)
  PROVE  LockInv'
<1>1. /\ workerPc \in [Workers -> WorkerPcs]
      /\ serviceConn \in [Workers -> Conns \cup {NoConn}]
      /\ lock \in [Conns -> {"free", "owner", "worker", "disconnect"}]
  BY DEF StructInv, TypeOK, WorkerTypeOK, ConnTypeOK
<1>2. UNCHANGED ownerPc
  BY WorkerFrame DEF ownerVars
<1>3. /\ \A v \in Workers \ {w} : (Locks(v)' <=> Locks(v)) /\ serviceConn'[v] = serviceConn[v]
      /\ serviceConn'[w] = serviceConn[w] \/ (~Locks(w) /\ ~Locks(w)')
  BY WorkerMoves DEF Locks
<1>4. /\ \A v \in Workers : Locks(v) => serviceConn[v] \in Conns
      /\ \A v \in Workers : Locks(v) => lock[serviceConn[v]] = "worker"
      /\ \A u, v \in Workers : Locks(u) /\ Locks(v) /\ serviceConn[u] = serviceConn[v] => u = v
      /\ \A c \in Conns : lock[c] = "owner" <=> ownerPc[c] \in OwnerLocks
  BY WorkerConn DEF Locks, Busy, WorkerPcs, Teardown, LockInv
<1> DEFINE c == serviceConn[w]
<1>5. CASE Locks(w)' /\ ~Locks(w) /\ lock[c] = "free" /\ lock' = [lock EXCEPT ![c] = "worker"]
  <2>1. serviceConn'[w] = c
    BY <1>3, <1>5
  <2>2. c \in Conns
    <3>1. StructInv'
      BY WorkerStruct
    <3>2. (\A v \in Workers : Locks(v) => serviceConn[v] \in Conns)'
      BY <3>1 DEF StructInv, TypeOK, WorkerTypeOK, WorkerHolds, Locks, Busy, WorkerPcs, Teardown
    <3> QED BY <1>5, <2>1, <3>2
  <2>3. \A v \in Workers \ {w} : Locks(v) => serviceConn[v] # c
    BY <1>4, <1>5
  <2>4. \A d \in Conns \ {c} : lock'[d] = lock[d]
    BY <1>1, <1>5
  <2>5. lock'[c] = "worker"
    BY <1>1, <1>5, <2>2
  <2>6. \A v \in Workers : Locks(v)' => lock'[serviceConn'[v]] = "worker"
    BY <1>3, <1>4, <2>1, <2>3, <2>4, <2>5
  <2>7. \A u, v \in Workers :
          Locks(u)' /\ Locks(v)' /\ serviceConn'[u] = serviceConn'[v] => u = v
    BY <1>3, <1>4, <2>1, <2>3
  <2>8. \A d \in Conns : lock'[d] = "owner" <=> ownerPc'[d] \in OwnerLocks
    BY <1>2, <1>4, <1>5, <2>4, <2>5
  <2> QED BY <2>6, <2>7, <2>8 DEF LockInv
<1>6. CASE (Locks(w)' <=> Locks(w)) /\ UNCHANGED lock
  <2>1. \A v \in Workers : Locks(v)' => Locks(v) /\ serviceConn'[v] = serviceConn[v]
    BY <1>3, <1>6
  <2> QED BY <1>2, <1>4, <1>6, <2>1 DEF LockInv
<1>7. CASE ~Locks(w)' /\ Locks(w) /\ lock' = [lock EXCEPT ![c] = "free"]
  <2>1. \A v \in Workers : Locks(v)' =>
          Locks(v) /\ serviceConn'[v] = serviceConn[v] /\ v # w /\ serviceConn[v] # c
    BY <1>3, <1>4, <1>7
  <2>2. c \in Conns /\ lock[c] = "worker"
    BY <1>4, <1>7
  <2>3. lock'[c] = "free" /\ \A d \in Conns \ {c} : lock'[d] = lock[d]
    BY <1>1, <1>7, <2>2
  <2> QED BY <1>2, <1>4, <2>1, <2>2, <2>3 DEF LockInv
<1> QED BY <1>5, <1>6, <1>7, WorkerLock

\* m_lock is a lock, for the owner and the workers.
LEMMA LockStep == StructInv /\ LockInv /\ [Next]_vars => LockInv'
<1> SUFFICES ASSUME StructInv, LockInv, [Next]_vars PROVE LockInv'
  OBVIOUS
<1>1. CASE UNCHANGED vars
  BY <1>1 DEF vars, connVars, ownerVars, workerVars, LockInv, Locks
<1>2. CASE Network
  <2>1. UNCHANGED <<lock, ownerPc, workerPc>>
    BY <1>2 DEF Network, OpenPipe, BeginScan, ScanConnection, EndScan, SelectWake, SelectReady,
       SelectReturns, WalkSlot, TakeWorker, NoWorker, AssignWorker, ReleaseSlot, EndWalk,
       NetUnchanged, workerVars, connVars, ownerVars
  <2>2. \A w \in Workers : Locks(w)' => Locks(w) /\ serviceConn'[w] = serviceConn[w]
    <3>1. CASE UNCHANGED serviceConn
      BY <2>1, <3>1 DEF Locks
    <3>2. CASE ~UNCHANGED serviceConn
      <4>1. AssignWorker
        BY <1>2, <3>2 DEF Network, OpenPipe, BeginScan, ScanConnection, EndScan, SelectWake,
           SelectReady, SelectReturns, WalkSlot, TakeWorker, NoWorker, ReleaseSlot, EndWalk,
           NetUnchanged, workerVars
      <4>2. /\ serviceConn[candidate] = NoConn /\ candidate \in Workers
            /\ serviceConn' = [serviceConn EXCEPT ![candidate] = slots[netIdx]]
            /\ serviceConn \in [Workers -> Conns \cup {NoConn}]
        BY <3>2, <4>1 DEF AssignWorker, StructInv, TypeOK, NetTypeOK, WorkerTypeOK
      <4>3. ~Locks(candidate)
        BY <4>2 DEF StructInv, WorkerHolds, Locks, Busy, WorkerPcs, Teardown
      <4> QED BY <2>1, <4>2, <4>3 DEF Locks
    <3> QED BY <3>1, <3>2
  <2> QED BY <2>1, <2>2 DEF LockInv
<1> QED BY <1>1, <1>2, CallersLock, WorkerKeepsLocks DEF Next, Halted

-----------------------------------------------------------------------------
(* The wakeups of select.                                                  *)

\* The scan has passed c.
Scanned(c) ==
  \E k \in 1..Len(linked) : linked[k] = c /\ (netPc = "scan" => k < netIdx)

\* What the scan asked for on behalf of c is what its state wants.
Asked(c) ==
  /\ interest[c] = Wanted(connState[c])
  /\ connState[c] = "DISCONNECTING" => disconnecting

\* Nobody is changing c, or is about to write the pipe.
Quiet(c) == ~WillWake(c) /\ ownerPc[c] # "connecting"

WakeInv ==
  netPc \in {"scan", "select"} /\ ~pipe =>
    \A c \in Conns : Scanned(c) /\ Quiet(c) => Asked(c)

\* At the start no connection waits for anything.
LEMMA InitWake == Init => WakeInv
  BY DEF Init, WakeInv

\* A step of another thread than the network's that leaves c quiet and the pipe
\* empty found it so and did not touch it.
LEMMA WakeFrame ==
  ASSUME WakeInv,
         netPc \in {"scan", "select"} => UNCHANGED netVars,
         pipe => pipe',
         ASSUME NEW c \in Conns, netPc \in {"scan", "select"}, ~pipe', Quiet(c)'
         PROVE  UNCHANGED linked /\ connState'[c] = connState[c] /\ Quiet(c),
         netPc' = netPc
  PROVE  WakeInv'
<1> SUFFICES ASSUME netPc' \in {"scan", "select"}, ~pipe', NEW c \in Conns, Scanned(c)', Quiet(c)'
             PROVE  Asked(c)'
  BY DEF WakeInv
<1>1. netPc \in {"scan", "select"} /\ ~pipe /\ UNCHANGED <<netVars, linked>>
      /\ connState'[c] = connState[c] /\ Quiet(c)
  OBVIOUS
<1>2. Scanned(c)
  BY <1>1 DEF Scanned, netVars
<1>3. Asked(c)
  BY <1>1, <1>2 DEF WakeInv
<1> QED BY <1>1, <1>3 DEF Asked, netVars

\* A step of the owner or of Disconnect writes the pipe for what it asks.
LEMMA CallersWake ==
  ASSUME StructInv, LockInv, WakeInv, NEW d \in Conns,
         Owner(d) \/ Disconnect(d) \/ DisconnectNotify(d)
  PROVE  WakeInv'
<1>1. UNCHANGED <<netVars, workerVars>>
  BY CallersFrame
<1>2. /\ pipe \in BOOLEAN /\ netPc' = netPc
      /\ ownerPc \in [Conns -> OwnerPcs] /\ connState \in [Conns -> States]
      /\ lock \in [Conns -> {"free", "owner", "worker", "disconnect"}]
  BY <1>1 DEF StructInv, TypeOK, SharedTypeOK, OwnerTypeOK, ConnTypeOK, netVars
<1>3. pipe => pipe'
  BY DEF Owner, OwnerStep, StartConnect, CloseOldSocket, ForgetOldSocket,
     CreateSocket, AddConnection, SetConnecting, NotifyConnecting, ConnectSyscall,
     RemoveFailed, CloseFailed, SetError, LeaveConnect, Disconnect, DisconnectNotify,
     Add, Remove, PlatformAdd, PlatformRemove, PlatformChangeState, WritePipe
<1>4. ASSUME NEW c \in Conns, netPc \in {"scan", "select"}, ~pipe', Quiet(c)'
      PROVE  UNCHANGED linked /\ connState'[c] = connState[c] /\ Quiet(c)
  <2>1. ~WritePipe
    BY <1>4 DEF WritePipe
  <2>2. UNCHANGED linked
    BY <2>1 DEF Owner, OwnerStep, StartConnect, CloseOldSocket, ForgetOldSocket,
       CreateSocket, AddConnection, SetConnecting, NotifyConnecting, ConnectSyscall,
       RemoveFailed, CloseFailed, SetError, LeaveConnect, Disconnect, DisconnectNotify,
       Add, Remove, PlatformAdd, PlatformRemove
  <2>3. ownerPc'[c] \notin {"notify", "leave", "error", "close", "connecting"}
        /\ lock'[c] # "disconnect"
        /\ \A w \in Workers : serviceConn[w] # c /\ workerPc[w] \notin {"signal", "ready"}
    BY <1>1, <1>4 DEF Quiet, WillWake, workerVars
  <2>4. connState'[c] = connState[c] /\ lock[c] # "disconnect"
        /\ ownerPc[c] \notin {"notify", "leave", "error", "close", "connecting"}
    <3>1. CASE c # d
      <4>1. connState'[c] = connState[c] /\ lock'[c] = lock[c] /\ ownerPc'[c] = ownerPc[c]
        BY <1>2, <3>1 DEF Owner, OwnerStep, StartConnect, CloseOldSocket, ForgetOldSocket,
           CreateSocket, AddConnection, SetConnecting, NotifyConnecting, ConnectSyscall,
           RemoveFailed, CloseFailed, SetError, LeaveConnect, Disconnect, DisconnectNotify,
           SetState, Leave, ownerVars
      <4> QED BY <2>3, <4>1
    <3>2. CASE c = d
      <4>1. CASE StartConnect(c) \/ CloseOldSocket(c) \/ ForgetOldSocket(c)
        BY <1>2, <2>3, <4>1 DEF StartConnect, CloseOldSocket, ForgetOldSocket, OwnerStep
      <4>2. CASE CreateSocket(c)
        BY <1>2, <2>3, <4>2 DEF CreateSocket, OwnerStep, SetState
      <4>3. CASE ConnectSyscall(c)
        <5>1. lock[c] = "owner"
          BY <4>3 DEF ConnectSyscall, OwnerStep, LockInv, OwnerLocks
        <5> QED BY <4>3, <5>1 DEF ConnectSyscall, OwnerStep
      <4>4. CASE Disconnect(c)
        <5>1. lock'[c] = "disconnect"
          BY <1>2, <4>4 DEF Disconnect
        <5> QED BY <2>3, <5>1
      <4>5. CASE AddConnection(c) \/ SetConnecting(c) \/ RemoveFailed(c) \/ CloseFailed(c)
                 \/ SetError(c)
        <5>1. ownerPc'[c] \in {"connecting", "notify", "close", "error", "leave"}
          BY <1>2, <4>5 DEF AddConnection, SetConnecting, RemoveFailed, CloseFailed, SetError,
             OwnerStep
        <5> QED BY <2>3, <5>1
      <4>6. CASE NotifyConnecting(c) \/ LeaveConnect(c) \/ DisconnectNotify(c)
        BY <2>1, <4>6 DEF NotifyConnecting, LeaveConnect, DisconnectNotify, PlatformChangeState
      <4> QED BY <3>2, <4>1, <4>2, <4>3, <4>4, <4>5, <4>6 DEF Owner
    <3> QED BY <3>1, <3>2
  <2> QED BY <2>2, <2>3, <2>4 DEF Quiet, WillWake
<1> QED BY <1>1, <1>2, <1>3, <1>4, WakeFrame

\* A worker writes the pipe before it is done with its connection.
LEMMA WorkerWake ==
  ASSUME StructInv, WakeInv, NEW w \in Workers, Worker(w)
  PROVE  WakeInv'
<1>1. UNCHANGED <<ownerVars, netVars>>
  BY WorkerFrame
<1>2. /\ pipe \in BOOLEAN /\ netPc' = netPc
      /\ connState \in [Conns -> States]
      /\ workerPc \in [Workers -> WorkerPcs]
      /\ serviceConn \in [Workers -> Conns \cup {NoConn}]
      /\ lock \in [Conns -> {"free", "owner", "worker", "disconnect"}]
  BY <1>1 DEF StructInv, TypeOK, SharedTypeOK, WorkerTypeOK, ConnTypeOK, netVars
<1>3. pipe => pipe'
  BY DEF Worker, Inside, BeginFlag, PlatformChangeState, PlatformRemove, WritePipe,
     PlatformWorkerReady, WorkerStart, WorkerWakes, DoWritesOrExceptions,
     DoReads, DoDisconnect, CheckConnect, RemoveConnection, CloseConnection, Remove,
     SetDisconnected, Announce, RecvData, RecvNothing, RecvEnd, CallbackReturns, ReloadFlags,
     EndService, DropConnection, SignalFree, WorkerReady
<1>4. ASSUME NEW c \in Conns, netPc \in {"scan", "select"}, ~pipe', Quiet(c)'
      PROVE  UNCHANGED linked /\ connState'[c] = connState[c] /\ Quiet(c)
  <2>1. ~WritePipe
    BY <1>4 DEF WritePipe
  <2>2. ~RemoveConnection(w) /\ ~Announce(w) /\ ~WorkerReady(w)
    BY <2>1 DEF RemoveConnection, Remove, PlatformRemove, Announce, PlatformChangeState,
       WorkerReady, PlatformWorkerReady
  <2>3. UNCHANGED linked
    BY <2>2 DEF Worker, Inside, BeginFlag, WorkerStart, WorkerWakes, DoWritesOrExceptions,
       DoReads, DoDisconnect, CheckConnect, CloseConnection,
       SetDisconnected, RecvData, RecvNothing, RecvEnd, CallbackReturns, ReloadFlags,
       EndService, DropConnection, SignalFree
  <2>4. /\ ownerPc'[c] \notin {"notify", "leave", "error", "close", "connecting"}
        /\ lock'[c] # "disconnect"
        /\ \A v \in Workers : serviceConn'[v] # c /\ workerPc'[v] \notin {"signal", "ready"}
    BY <1>4 DEF Quiet, WillWake
  <2>5. ~DropConnection(w) /\ ~SignalFree(w)
    <3>1. DropConnection(w) \/ SignalFree(w) => workerPc'[w] \in {"signal", "ready"}
      BY <1>2 DEF DropConnection, SignalFree, WorkerStep
    <3> QED BY <2>4, <3>1
  <2>6. UNCHANGED serviceConn /\ workerPc[w] \notin {"signal", "ready"}
    BY <2>2, <2>5, ServesCases DEF Serves, WorkerStart, WorkerWakes, EndService, WorkerStep,
       Busy, WorkerPcs
  <2>7. \A v \in Workers : serviceConn[v] # c /\ workerPc[v] \notin {"signal", "ready"}
    BY <2>4, <2>6, WorkerMoves
  <2>8. lock'[c] = lock[c]
    <3>1. UNCHANGED lock \/ \E v : lock' = [lock EXCEPT ![serviceConn[w]] = v]
      BY WorkerLock
    <3> QED BY <1>2, <2>7, <3>1
  <2>9. connState'[c] = connState[c]
    <3>1. UNCHANGED connState \/ \E s : connState' = [connState EXCEPT ![serviceConn[w]] = s]
      BY DEF Worker, Inside, BeginFlag, WorkerStart, WorkerWakes, DoWritesOrExceptions,
         DoReads, DoDisconnect, CheckConnect, RemoveConnection, CloseConnection, SetState, Mine,
         SetDisconnected, Announce, RecvData, RecvNothing, RecvEnd, CallbackReturns, ReloadFlags,
         EndService, DropConnection, SignalFree, WorkerReady, connVars
    <3> QED BY <1>2, <2>7, <3>1
  <2> QED BY <1>1, <2>3, <2>4, <2>7, <2>8, <2>9 DEF Quiet, WillWake, ownerVars
<1> QED BY <1>1, <1>2, <1>3, <1>4, WakeFrame

\* The scan asks for what it finds, and leaves out only connections in service.
LEMMA NetworkWake ==
  ASSUME StructInv, ServiceExact, WakeInv, Network
  PROVE  WakeInv'
<1>1. CASE BeginScan
  BY <1>1 DEF BeginScan, WakeInv, Scanned, StructInv, TypeOK, SharedTypeOK
<1>2. CASE EndScan
  <2>1. /\ netPc = "scan" /\ netIdx > Len(linked) /\ netPc' = "select"
        /\ UNCHANGED <<linked, pipe, interest, connState, disconnecting, ownerPc, lock,
                       serviceConn, workerPc>>
    BY <1>2 DEF EndScan, NetAt, NetUnchanged, connVars, ownerVars, workerVars
  <2>2. \A c \in Conns : Scanned(c)' => Scanned(c)
    BY <2>1 DEF Scanned, StructInv, TypeOK, SharedTypeOK, NetTypeOK
  <2>3. \A c \in Conns : (Quiet(c)' <=> Quiet(c)) /\ (Asked(c)' <=> Asked(c))
    BY <2>1 DEF Quiet, WillWake, Asked
  <2> QED BY <2>1, <2>2, <2>3 DEF WakeInv
<1>3. CASE ScanConnection
  <2>1. /\ netPc = "scan" /\ netIdx <= Len(linked) /\ netIdx' = netIdx + 1
        /\ UNCHANGED <<netPc, linked, pipe, connState, ownerPc, lock, serviceConn, workerPc>>
    BY <1>3 DEF ScanConnection, NetAt, NetUnchanged, ownerVars, workerVars
  <2>2. /\ linked \in Seq(Conns) /\ netIdx \in Nat \ {0} /\ LinkedOnce
        /\ interest \in [Conns -> SUBSET Flags] /\ disconnecting \in BOOLEAN
    BY SlotsNat DEF StructInv, TypeOK, SharedTypeOK, NetTypeOK
  <2> SUFFICES ASSUME ~pipe', NEW c \in Conns, Scanned(c)', Quiet(c)'
               PROVE  Asked(c)'
    BY DEF WakeInv
  <2>3. Quiet(c)
    BY <2>1 DEF Quiet, WillWake
  <2>4. linked[netIdx] \in Conns
    BY <2>1, <2>2
  <2>5. CASE c = linked[netIdx]
    <3>1. ~InService(c)
      <4>1. \A w \in Workers : serviceConn[w] # c
        BY <2>3 DEF Quiet, WillWake
      <4> QED BY <2>1, <4>1, InServiceHasWorker
    <3>2. /\ interest' = [interest EXCEPT ![c] = Wanted(connState[c])]
          /\ disconnecting' = (disconnecting \/ connState[c] = "DISCONNECTING")
      BY <1>3, <2>5, <3>1 DEF ScanConnection
    <3>3. interest'[c] = Wanted(connState[c])
      BY <2>2, <3>2
    <3> QED BY <2>1, <3>2, <3>3 DEF Asked
  <2>6. CASE c # linked[netIdx]
    <3>1. Scanned(c)
      BY <2>1, <2>2, <2>6 DEF Scanned
    <3>2. Asked(c)
      BY <2>1, <2>3, <3>1 DEF WakeInv
    <3>3. interest'[c] = interest[c] /\ (disconnecting => disconnecting')
      BY <1>3, <2>2, <2>6 DEF ScanConnection
    <3> QED BY <2>1, <3>2, <3>3 DEF Asked
  <2> QED BY <2>5, <2>6
<1>4. CASE ~BeginScan /\ ~EndScan /\ ~ScanConnection
  <2>1. netPc' \notin {"scan", "select"}
    BY <1>4 DEF Network, OpenPipe, SelectWake, SelectReady, SelectReturns, WalkSlot,
       TakeWorker, NoWorker, AssignWorker, ReleaseSlot, EndWalk, NetAt
  <2> QED BY <2>1 DEF WakeInv
<1> QED BY <1>1, <1>2, <1>3, <1>4

\* No wakeup is lost.
LEMMA WakeStep == StructInv /\ LockInv /\ ServiceExact /\ WakeInv /\ [Next]_vars => WakeInv'
<1> SUFFICES ASSUME StructInv, LockInv, ServiceExact, WakeInv, [Next]_vars PROVE WakeInv'
  OBVIOUS
<1>1. CASE UNCHANGED vars
  <2>1. \A c \in Conns : /\ Scanned(c)' <=> Scanned(c)
                         /\ Quiet(c)' <=> Quiet(c)
                         /\ Asked(c)' <=> Asked(c)
    BY <1>1 DEF vars, connVars, ownerVars, netVars, workerVars, Scanned, Quiet, WillWake, Asked
  <2> QED BY <1>1, <2>1 DEF WakeInv, vars, netVars
<1> QED BY <1>1, CallersWake, NetworkWake, WorkerWake DEF Next, Halted

\* select never sleeps on a connection that changed since the scan, unless the
\* thread that changed it has yet to write the pipe: for any number of
\* connections and workers, whoever connects, disconnects or reconnects, and
\* even after the scan has counted a slot it did not fill.
THEOREM NoWakeupIsLost == Spec => []NoLostWakeup
<1> DEFINE Inv == StructInv /\ LockInv /\ ServiceExact /\ WakeInv
<1>1. Init => Inv
  BY InitStruct, InitLocks, InitService, InitWake
<1>2. Inv /\ [Next]_vars => Inv'
  BY StructStep, LockStep, ServiceStep, WakeStep
<1>3. Inv => NoLostWakeup
  <2> SUFFICES ASSUME Inv, netPc = "select", ~pipe, ~disconnecting, NEW c \in Conns,
                      IsLinked(c), Quiet(c)
               PROVE  interest[c] = Wanted(connState[c]) /\ connState[c] # "DISCONNECTING"
    BY DEF NoLostWakeup, Quiet
  <2>1. Scanned(c)
    BY DEF IsLinked, Scanned
  <2> QED BY <2>1 DEF WakeInv, Asked
<1> QED BY <1>1, <1>2, <1>3, PTL DEF Spec
-----------------------------------------------------------------------------
(* State, list and socket of a connection, told by where its owner or its  *)
(* worker is.                                                              *)

\* The state, m_connections and m_sock of c agree.
Settled(c) ==
  IF connState[c] \in Selectable
  THEN IsLinked(c) /\ sock[c] = "open"
  ELSE ~IsLinked(c) /\ sock[c] = "none"

\* w is in a Do* function or in a callback from it.
InDo == {"check", "recv", "callback"} \cup Teardown
Does(w, c) == serviceConn[w] = c /\ workerPc[w] \in InDo

\* A connection never connected is in no slot and with no worker.
Fresh(c) ==
  connState[c] = "INITIALIZED" =>
    /\ \A i \in 1..NumSlots : slots[i] # c
    /\ \A w \in Workers : serviceConn[w] # c

\* What the owner has done to its connection when it is at pc.
OwnerPlace(c) ==
  /\ ownerPc[c] \in {"create", "add", "connecting"} <=> connState[c] = "INITIALIZED"
  /\ ownerPc[c] \in {"notify", "connect", "remove", "close", "error"} =>
       connState[c] = "CONNECTING"
  /\ ownerPc[c] = "leave" => connState[c] = "ERROR"
  /\ IsLinked(c) <=> ownerPc[c] \in {"connecting", "notify", "connect", "remove"}
  /\ sock[c] = IF ownerPc[c] \in {"create", "error", "leave"} THEN "none" ELSE "open"
  /\ ownerPc[c] \notin {"close old", "forget old"}

\* What a worker has done to its connection.
WorkerPlace(w, c) ==
  /\ workerPc[w] = "check" => connState[c] = "CONNECTING" /\ Settled(c)
  /\ workerPc[w] = "recv" =>
       connState[c] \in {"CONNECTED", "DISCONNECTING"} /\ Settled(c)
  /\ workerPc[w] = "recv" /\ workerOp[w] = "stream" => connState[c] = "CONNECTED"
  /\ workerPc[w] = "remove" => connState[c] \in Selectable /\ Settled(c)
  /\ workerPc[w] \in {"close", "state"} => ~IsLinked(c)
  /\ workerPc[w] = "state" /\ workerOp[w] = "connect" => sock[c] = "none"
  /\ workerPc[w] \in {"announce", "callback"} =>
       CASE workerOp[w] = "connect" -> Settled(c)
         [] workerOp[w] \in {"end of stream", "disconnect"} ->
              connState[c] = "DISCONNECTED" /\ ~IsLinked(c)
         [] OTHER -> connState[c] \in {"CONNECTED", "DISCONNECTING"} /\ Settled(c)

Consistent(c) ==
  /\ Fresh(c)
  /\ ownerPc[c] # "idle" => OwnerPlace(c) /\ \A w \in Workers : ~Does(w, c)
  /\ \A w \in Workers : Does(w, c) => WorkerPlace(w, c)
  /\ ownerPc[c] = "idle" /\ (\A w \in Workers : ~Does(w, c)) => Settled(c)
  /\ connects[c] = 0 => ownerPc[c] = "idle" /\ connState[c] = "INITIALIZED"

ConsistentInv == ~staleSlot => \A c \in Conns : connects[c] <= 1 => Consistent(c)

\* What Add and Remove do to the list
LEMMA LinkedMoves ==
  ASSUME StructInv, NEW c \in Conns, NEW d \in Conns
  PROVE  /\ Add(d) => (IsLinked(c)' <=> IsLinked(c) \/ c = d)
         /\ Remove(d) => (IsLinked(c)' <=> IsLinked(c) /\ c # d)
<1>1. linked \in Seq(Conns) /\ LinkedOnce
  BY DEF StructInv, TypeOK, SharedTypeOK
<1>2. ASSUME Add(d) PROVE IsLinked(c)' <=> IsLinked(c) \/ c = d
  <2>1. CASE IsLinked(d)
    BY <1>2, <2>1 DEF Add, IsLinked
  <2>2. CASE ~IsLinked(d)
    <3>1. linked' = Append(linked, d)
      BY <1>2, <2>2 DEF Add
    <3>2. /\ Len(linked') = Len(linked) + 1 /\ linked'[Len(linked) + 1] = d
          /\ \A i \in 1..Len(linked) : linked'[i] = linked[i]
          /\ Len(linked) \in Nat
      BY <1>1, <3>1
    <3> QED BY <3>2 DEF IsLinked
  <2> QED BY <2>1, <2>2
<1>3. ASSUME Remove(d) PROVE IsLinked(c)' <=> IsLinked(c) /\ c # d
  <2>1. CASE ~IsLinked(d)
    BY <1>3, <2>1 DEF Remove, IsLinked
  <2>2. CASE IsLinked(d)
    <3>1. PICK at \in 1..Len(linked) :
            linked[at] = d /\ at = CHOOSE i \in 1..Len(linked) : linked[i] = d
      BY <2>2 DEF IsLinked
    <3>2. linked' = [i \in 1..(Len(linked) - 1) |->
                       IF i < at THEN linked[i] ELSE linked[i + 1]]
      BY <1>3, <2>2, <3>1 DEF Remove, Without
    <3>3. Len(linked) \in Nat \ {0} /\ Len(linked') = Len(linked) - 1
      BY <1>1, <3>1, <3>2
    <3>4. ASSUME IsLinked(c), c # d PROVE IsLinked(c)'
      <4>1. PICK k \in 1..Len(linked) : linked[k] = c
        BY <3>4 DEF IsLinked
      <4>2. CASE k < at
        <5>1. k \in 1..(Len(linked) - 1) /\ linked'[k] = c
          BY <1>1, <3>1, <3>2, <3>3, <4>1, <4>2
        <5> QED BY <3>3, <5>1 DEF IsLinked
      <4>3. CASE k > at
        <5>1. k - 1 \in 1..(Len(linked) - 1) /\ linked'[k - 1] = c
          BY <1>1, <3>1, <3>2, <3>3, <4>1, <4>3
        <5> QED BY <3>3, <5>1 DEF IsLinked
      <4> QED BY <3>1, <3>4, <4>1, <4>2, <4>3
    <3>5. ASSUME IsLinked(c)' PROVE IsLinked(c) /\ c # d
      <4>1. PICK k \in 1..(Len(linked) - 1) : linked'[k] = c
        BY <3>3, <3>5 DEF IsLinked
      <4>2. linked'[k] = IF k < at THEN linked[k] ELSE linked[k + 1]
        BY <3>1, <3>2, <4>1
      <4>3. \E j \in 1..Len(linked) : j # at /\ linked[j] = c
        <5>1. Len(linked) \in Nat /\ k \in Int /\ k >= 1 /\ k <= Len(linked) - 1 /\ at \in Int
          BY <3>3
        <5>2. CASE k < at
          <6>1. k \in 1..Len(linked) /\ k # at
            BY <5>1, <5>2
          <6> QED BY <4>1, <4>2, <5>2, <6>1
        <5>3. CASE ~(k < at)
          <6>1. k + 1 \in 1..Len(linked) /\ k + 1 # at
            BY <5>1, <5>3
          <6> QED BY <4>1, <4>2, <5>3, <6>1
        <5> QED BY <5>2, <5>3
      <4> QED BY <1>1, <3>1, <4>3 DEF IsLinked, LinkedOnce
    <3> QED BY <3>4, <3>5
  <2> QED BY <2>1, <2>2
<1> QED BY <1>2, <1>3

\* What the invariant says of c depends on c and its workers only.
LEMMA ConsistentFrame ==
  ASSUME NEW c \in Conns, Consistent(c), Fresh(c)',
         connState'[c] = connState[c], sock'[c] = sock[c], IsLinked(c)' <=> IsLinked(c),
         ownerPc'[c] = ownerPc[c], connects'[c] = connects[c],
         \A w \in Workers : Does(w, c)' <=> Does(w, c),
         \A w \in Workers : Does(w, c) =>
           workerPc'[w] = workerPc[w] /\ workerOp'[w] = workerOp[w]
  PROVE  Consistent(c)'
<1>1. Settled(c)' <=> Settled(c)
  BY DEF Settled
<1>2. OwnerPlace(c)' <=> OwnerPlace(c)
  BY DEF OwnerPlace
<1>3. ASSUME NEW w \in Workers, Does(w, c) PROVE WorkerPlace(w, c)' <=> WorkerPlace(w, c)
  BY <1>1, <1>3 DEF WorkerPlace
<1> QED BY <1>1, <1>2, <1>3 DEF Consistent

\* Nothing of c changes.
Stays(c) ==
  connState'[c] = connState[c] /\ sock'[c] = sock[c] /\ (IsLinked(c)' <=> IsLinked(c))

\* A step of another connection's owner, or of Disconnect there
LEMMA CallersElsewhere ==
  ASSUME StructInv, NEW c \in Conns, NEW d \in Conns, c # d, Consistent(c),
         Owner(d) \/ Disconnect(d) \/ DisconnectNotify(d)
  PROVE  Consistent(c)'
<1>1. UNCHANGED <<slots, workerPc, workerOp, serviceConn>>
  BY CallersFrame DEF netVars, workerVars
<1>2. /\ ownerPc \in [Conns -> OwnerPcs] /\ connState \in [Conns -> States]
      /\ sock \in [Conns -> {"none", "open", "closed"}]
      /\ connects \in [Conns -> Nat]
  BY DEF StructInv, TypeOK, OwnerTypeOK, ConnTypeOK
<1>3. connState'[c] = connState[c] /\ sock'[c] = sock[c]
      /\ ownerPc'[c] = ownerPc[c] /\ connects'[c] = connects[c]
  BY <1>2 DEF Owner, OwnerStep, StartConnect, CloseOldSocket, ForgetOldSocket,
     CreateSocket, AddConnection, SetConnecting, NotifyConnecting, ConnectSyscall,
     RemoveFailed, CloseFailed, SetError, LeaveConnect, Disconnect, DisconnectNotify,
     SetState, ownerVars
<1>4. IsLinked(c)' <=> IsLinked(c)
  <2>1. Add(d) \/ Remove(d) \/ UNCHANGED linked
    BY DEF Owner, OwnerStep, StartConnect, CloseOldSocket, ForgetOldSocket,
       CreateSocket, AddConnection, SetConnecting, NotifyConnecting, ConnectSyscall,
       RemoveFailed, CloseFailed, SetError, LeaveConnect, Disconnect, DisconnectNotify
  <2>2. UNCHANGED linked => (IsLinked(c)' <=> IsLinked(c))
    BY DEF IsLinked
  <2> QED BY <2>1, <2>2, LinkedMoves
<1>5. Fresh(c)'
  BY <1>1, <1>3 DEF Consistent, Fresh
<1>6. \A w \in Workers : Does(w, c)' <=> Does(w, c)
  BY <1>1 DEF Does
<1> QED BY <1>1, <1>3, <1>4, <1>5, <1>6, ConsistentFrame

\* A step of the connection's owner
LEMMA OwnerConsistent ==
  ASSUME StructInv, NEW c \in Conns, Consistent(c), Owner(c), connects'[c] <= 1
  PROVE  Consistent(c)'
<1>1. UNCHANGED <<slots, workerPc, workerOp, serviceConn>>
  BY CallersFrame DEF netVars, workerVars
<1>2. /\ ownerPc \in [Conns -> OwnerPcs] /\ connState \in [Conns -> States]
      /\ sock \in [Conns -> {"none", "open", "closed"}]
      /\ connects \in [Conns -> Nat]
  BY DEF StructInv, TypeOK, OwnerTypeOK, ConnTypeOK
<1>3. \A w \in Workers : Does(w, c)' <=> Does(w, c)
  BY <1>1 DEF Does
<1>4. \A w \in Workers : ~Does(w, c)
  <2>1. CASE ownerPc[c] # "idle"
    BY <2>1 DEF Consistent
  <2>2. CASE ownerPc[c] = "idle"
    <3>1. StartConnect(c)
      BY <2>2 DEF Owner, OwnerStep, StartConnect, CloseOldSocket, ForgetOldSocket,
         CreateSocket, AddConnection, SetConnecting, NotifyConnecting, ConnectSyscall,
         RemoveFailed, CloseFailed, SetError, LeaveConnect
    <3>2. connects'[c] = connects[c] + 1 /\ connects[c] \in Nat
      BY <1>2, <3>1 DEF StartConnect
    <3>3. connects[c] = 0
      BY <3>2
    <3> QED BY <3>3 DEF Consistent, Fresh, Does
  <2> QED BY <2>1, <2>2
<1>5. UNCHANGED linked => (IsLinked(c)' <=> IsLinked(c))
  BY DEF IsLinked
<1>6. /\ connState'[c] = "INITIALIZED" => connState[c] = "INITIALIZED"
      /\ connects'[c] # 0
      /\ \/ ownerPc'[c] # "idle" /\ OwnerPlace(c)'
         \/ ownerPc'[c] = "idle" /\ Settled(c)'
  <2>1. CASE StartConnect(c)
    <3>0. connects'[c] = connects[c] + 1 /\ connects[c] \in Nat
      BY <1>2, <2>1 DEF StartConnect
    <3>1. connects[c] = 0 /\ connects'[c] = 1
      BY <3>0
    <3>2. connState[c] = "INITIALIZED" /\ Settled(c)
      BY <1>4, <3>1 DEF Consistent
    <3>3. ~IsLinked(c) /\ sock[c] = "none"
      BY <3>2 DEF Settled, Selectable
    <3>4. ownerPc'[c] = "create" /\ UNCHANGED <<connState, sock, linked>>
      BY <1>2, <2>1, <3>3 DEF StartConnect, OwnerStep
    <3> QED BY <1>5, <3>1, <3>2, <3>3, <3>4 DEF OwnerPlace
  <2>2. CASE ~StartConnect(c)
    <3>1. ownerPc[c] # "idle"
      BY <2>2 DEF Owner, OwnerStep, CloseOldSocket, ForgetOldSocket,
         CreateSocket, AddConnection, SetConnecting, NotifyConnecting, ConnectSyscall,
         RemoveFailed, CloseFailed, SetError, LeaveConnect
    <3>2. OwnerPlace(c) /\ connects[c] # 0
      BY <3>1 DEF Consistent
    <3>3. UNCHANGED connects
      BY <2>2 DEF Owner, CloseOldSocket, ForgetOldSocket,
         CreateSocket, AddConnection, SetConnecting, NotifyConnecting, ConnectSyscall,
         RemoveFailed, CloseFailed, SetError, LeaveConnect
    <3>4. CASE CloseOldSocket(c) \/ ForgetOldSocket(c)
      BY <3>2, <3>4 DEF CloseOldSocket, ForgetOldSocket, OwnerStep, OwnerPlace
    <3>5. CASE CreateSocket(c)
      <4>1. UNCHANGED linked /\ ownerPc[c] = "create"
        BY <3>5 DEF CreateSocket, OwnerStep
      <4>2. \/ ownerPc'[c] = "add" /\ sock'[c] = "open" /\ connState'[c] = connState[c]
            \/ ownerPc'[c] = "leave" /\ sock'[c] = "none" /\ connState'[c] = "ERROR"
        BY <1>2, <3>5 DEF CreateSocket, OwnerStep, SetState
      <4> QED BY <1>5, <3>2, <3>3, <4>1, <4>2 DEF OwnerPlace
    <3>6. CASE AddConnection(c)
      <4>1. /\ ownerPc[c] = "add" /\ ownerPc'[c] = "connecting" /\ Add(c)
            /\ UNCHANGED <<connState, sock>>
        BY <1>2, <3>6 DEF AddConnection, OwnerStep
      <4>2. IsLinked(c)'
        BY <4>1, LinkedMoves
      <4> QED BY <3>2, <3>3, <4>1, <4>2 DEF OwnerPlace
    <3>7. CASE SetConnecting(c)
      <4>1. /\ ownerPc[c] = "connecting" /\ ownerPc'[c] = "notify"
            /\ connState'[c] = "CONNECTING" /\ UNCHANGED <<linked, sock>>
        BY <1>2, <3>7 DEF SetConnecting, OwnerStep, SetState
      <4> QED BY <1>5, <3>2, <3>3, <4>1 DEF OwnerPlace
    <3>8. CASE NotifyConnecting(c)
      <4>1. /\ ownerPc[c] = "notify" /\ ownerPc'[c] = "connect"
            /\ UNCHANGED <<connState, linked, sock>>
        BY <1>2, <3>8 DEF NotifyConnecting, OwnerStep
      <4> QED BY <1>5, <3>2, <3>3, <4>1 DEF OwnerPlace
    <3>9. CASE ConnectSyscall(c)
      <4>1. /\ ownerPc[c] = "connect" /\ ownerPc'[c] \in {"idle", "remove"}
            /\ UNCHANGED <<connState, linked, sock>>
        BY <1>2, <3>9 DEF ConnectSyscall, OwnerStep
      <4>2. connState[c] = "CONNECTING" /\ IsLinked(c) /\ sock[c] = "open"
        BY <3>2, <4>1 DEF OwnerPlace
      <4> QED BY <1>5, <3>2, <3>3, <4>1, <4>2 DEF OwnerPlace, Settled, Selectable
    <3>10. CASE RemoveFailed(c)
      <4>1. /\ ownerPc[c] = "remove" /\ ownerPc'[c] = "close" /\ Remove(c)
            /\ UNCHANGED <<connState, sock>>
        BY <1>2, <3>10 DEF RemoveFailed, OwnerStep
      <4>2. ~IsLinked(c)'
        BY <4>1, LinkedMoves
      <4> QED BY <3>2, <3>3, <4>1, <4>2 DEF OwnerPlace
    <3>11. CASE CloseFailed(c)
      <4>1. /\ ownerPc[c] = "close" /\ ownerPc'[c] = "error" /\ sock'[c] = "none"
            /\ UNCHANGED <<connState, linked>>
        BY <1>2, <3>11 DEF CloseFailed, OwnerStep
      <4> QED BY <1>5, <3>2, <3>3, <4>1 DEF OwnerPlace
    <3>12. CASE SetError(c)
      <4>1. /\ ownerPc[c] = "error" /\ ownerPc'[c] = "leave" /\ connState'[c] = "ERROR"
            /\ UNCHANGED <<sock, linked>>
        BY <1>2, <3>12 DEF SetError, OwnerStep, SetState
      <4> QED BY <1>5, <3>2, <3>3, <4>1 DEF OwnerPlace
    <3>13. CASE LeaveConnect(c)
      <4>1. /\ ownerPc[c] = "leave" /\ ownerPc'[c] = "idle"
            /\ UNCHANGED <<connState, sock, linked>>
        BY <1>2, <3>13 DEF LeaveConnect, OwnerStep
      <4> QED BY <1>5, <3>2, <3>3, <4>1 DEF OwnerPlace, Settled, Selectable
    <3> QED BY <2>2, <3>4, <3>5, <3>6, <3>7, <3>8, <3>9, <3>10, <3>11, <3>12, <3>13 DEF Owner
  <2> QED BY <2>1, <2>2
<1>7. Fresh(c)'
  BY <1>1, <1>6 DEF Consistent, Fresh
<1> QED BY <1>3, <1>4, <1>6, <1>7 DEF Consistent

\* Disconnect finds its connection with nobody inside m_lock.
LEMMA DisconnectConsistent ==
  ASSUME StructInv, LockInv, OpInv, NEW c \in Conns, Consistent(c),
         Disconnect(c) \/ DisconnectNotify(c)
  PROVE  Consistent(c)'
<1>1. UNCHANGED <<slots, workerPc, workerOp, serviceConn, ownerPc, connects, sock, linked>>
  BY CallersFrame DEF netVars, workerVars, Disconnect, DisconnectNotify, ownerVars
<1>2. connState \in [Conns -> States]
  BY DEF StructInv, TypeOK, ConnTypeOK
<1>3. \A w \in Workers : Does(w, c)' <=> Does(w, c)
  BY <1>1 DEF Does
<1>4. IsLinked(c)' <=> IsLinked(c)
  BY <1>1 DEF IsLinked
<1>5. CASE DisconnectNotify(c)
  <2>1. UNCHANGED connState
    BY <1>5 DEF DisconnectNotify
  <2>2. Fresh(c)'
    BY <1>1, <2>1 DEF Consistent, Fresh
  <2> QED BY <1>1, <1>3, <1>4, <2>1, <2>2, ConsistentFrame
<1>6. CASE Disconnect(c)
  <2>1. connState[c] = "CONNECTED" /\ connState'[c] = "DISCONNECTING" /\ lock[c] = "free"
    BY <1>2, <1>6 DEF Disconnect, SetState
  <2>2. Settled(c)' <=> Settled(c)
    BY <1>1, <1>4, <2>1 DEF Settled, Selectable
  <2>3. ownerPc[c] = "idle"
    <3>1. ownerPc[c] \notin OwnerLocks
      BY <2>1 DEF LockInv
    <3>2. ownerPc[c] \in OwnerPcs
      BY DEF StructInv, TypeOK, OwnerTypeOK
    <3>3. SUFFICES ASSUME ownerPc[c] # "idle" PROVE FALSE
      OBVIOUS
    <3>4. OwnerPlace(c)
      BY <3>3 DEF Consistent
    <3> QED BY <2>1, <3>1, <3>2, <3>3, <3>4 DEF OwnerPlace, OwnerLocks, OwnerPcs
  <2>4. ASSUME NEW w \in Workers, Does(w, c) PROVE WorkerPlace(w, c)'
    <3>1. workerPc[w] = "callback"
      BY <2>1, <2>4 DEF Does, InDo, LockInv, Locks
    <3>2. WorkerPlace(w, c)
      BY <2>4 DEF Consistent
    <3>3. workerOp[w] \notin {"end of stream", "disconnect"}
      BY <2>1, <3>1, <3>2 DEF WorkerPlace
    <3>4. Settled(c)
      BY <3>1, <3>2, <3>3 DEF WorkerPlace
    <3> QED BY <1>1, <2>1, <2>2, <3>1, <3>3, <3>4 DEF WorkerPlace
  <2>5. Fresh(c)'
    BY <2>1 DEF Fresh
  <2> QED BY <1>1, <1>3, <2>1, <2>2, <2>3, <2>4, <2>5 DEF Consistent
<1> QED BY <1>5, <1>6

\* The network thread changes no state and no list, and it hands out only what
\* it found in a selectable state.
LEMMA NetworkConsistent ==
  ASSUME StructInv, StructInv', Network, NEW c \in Conns, Consistent(c)
  PROVE  Consistent(c)'
<1>1. UNCHANGED <<connState, sock, ownerPc, connects, linked, workerPc, workerOp>>
  BY DEF Network, OpenPipe, BeginScan, ScanConnection, EndScan, SelectWake, SelectReady,
     SelectReturns, WalkSlot, TakeWorker, NoWorker, AssignWorker, ReleaseSlot, EndWalk,
     NetUnchanged, workerVars, connVars, ownerVars
<1>2. /\ serviceConn \in [Workers -> Conns \cup {NoConn}]
      /\ slots \in [1..NumSlots -> Conns \cup {NoConn}]
  BY DEF StructInv, TypeOK, WorkerTypeOK, NetTypeOK
<1>3. \A w \in Workers : \/ serviceConn'[w] = serviceConn[w]
                         \/ /\ workerPc[w] \notin Busy
                            /\ \E i \in 1..NumSlots : serviceConn'[w] = slots[i]
  <2>1. CASE AssignWorker
    <3>1. netPc = "assign" /\ candidate \in Workers
      BY <2>1 DEF AssignWorker, NetAt, StructInv, TypeOK, NetTypeOK
    <3>2. netIdx \in 1..NumSlots
      <4>1. netIdx \in 1..(NumSlots + 1) /\ slotCount \in 0..NumSlots /\ netIdx <= slotCount
        BY <3>1 DEF StructInv, TypeOK, NetTypeOK, NetBounds
      <4> QED BY <4>1, SlotsNat
    <3>3. \/ UNCHANGED serviceConn
          \/ /\ serviceConn[candidate] = NoConn
             /\ serviceConn' = [serviceConn EXCEPT ![candidate] = slots[netIdx]]
      BY <2>1 DEF AssignWorker
    <3>4. serviceConn[candidate] = NoConn => workerPc[candidate] \notin Busy
      BY <3>1 DEF StructInv, WorkerHolds
    <3> QED BY <1>2, <3>1, <3>2, <3>3, <3>4
  <2>2. CASE ~AssignWorker
    BY <2>2 DEF Network, OpenPipe, BeginScan, ScanConnection, EndScan, SelectWake, SelectReady,
       SelectReturns, WalkSlot, TakeWorker, NoWorker, ReleaseSlot, EndWalk,
       NetUnchanged, workerVars
  <2> QED BY <2>1, <2>2
<1>4. \A w \in Workers : Does(w, c)' <=> Does(w, c)
  BY <1>1, <1>3 DEF Does, InDo, Teardown, Busy, WorkerPcs, StructInv, WorkerHolds
<1>5. Fresh(c)'
  <2> SUFFICES ASSUME connState[c] = "INITIALIZED"
               PROVE  /\ \A i \in 1..NumSlots : slots'[i] # c
                      /\ \A w \in Workers : serviceConn'[w] # c
    BY <1>1 DEF Fresh
  <2>1. /\ \A i \in 1..NumSlots : slots[i] # c
        /\ \A w \in Workers : serviceConn[w] # c
    BY DEF Consistent, Fresh
  <2>2. \A i \in 1..NumSlots : slots'[i] # c
    <3>1. CASE ScanConnection
      <4>1. \/ UNCHANGED slots
            \/ /\ connState[linked[netIdx]] \in Selectable
               /\ slots' = [slots EXCEPT ![slotCount + 1] = linked[netIdx]]
        BY <3>1 DEF ScanConnection
      <4> QED BY <1>2, <2>1, <4>1 DEF Selectable
    <3>2. CASE ~ScanConnection
      <4>1. UNCHANGED slots
        BY <3>2 DEF Network, OpenPipe, BeginScan, EndScan, SelectWake, SelectReady,
           SelectReturns, WalkSlot, TakeWorker, NoWorker, AssignWorker, ReleaseSlot, EndWalk
      <4> QED BY <2>1, <4>1
    <3> QED BY <3>1, <3>2
  <2> QED BY <1>3, <2>1, <2>2
<1>6. IsLinked(c)' <=> IsLinked(c)
  BY <1>1 DEF IsLinked
<1> QED BY <1>1, <1>4, <1>5, <1>6, ConsistentFrame

\* w goes from one place to another, for the same Do* function or for another.
Goes(w, from, to) == workerPc[w] = from /\ workerPc'[w] = to
KeepsOp(w) == workerOp'[w] = workerOp[w]

\* The steps of a worker at its connection c, told by where they lead: those out
\* of the Do* functions, into one, through one, and back to Service.
Paths(w, c) ==
  \/ workerPc[w] \notin InDo /\ workerPc'[w] \notin InDo /\ Stays(c)
  \/ /\ lock[c] = "free" /\ Stays(c)
     /\ \/ /\ Goes(w, "service", "check")
           /\ workerOp'[w] = "connect" /\ connState[c] = "CONNECTING"
        \/ /\ Goes(w, "service", "recv")
           /\ workerOp'[w] \in {"stream", "messages"} /\ connState[c] = "CONNECTED"
        \/ Goes(w, "service", "state") /\ workerOp'[w] = "disconnect" /\ sock[c] = "none"
        \/ Goes(w, "service", "remove") /\ workerOp'[w] = "disconnect" /\ sock[c] # "none"
  \/ /\ KeepsOp(w) /\ Goes(w, "check", "announce")
     /\ connState'[c] = "CONNECTED" /\ sock'[c] = sock[c] /\ (IsLinked(c)' <=> IsLinked(c))
  \/ KeepsOp(w) /\ Goes(w, "check", "remove") /\ Stays(c)
  \/ Goes(w, "check", "service") /\ Stays(c)
  \/ /\ KeepsOp(w) /\ Goes(w, "remove", "close")
     /\ ~IsLinked(c)' /\ connState'[c] = connState[c]
  \/ /\ KeepsOp(w) /\ Goes(w, "close", "state") /\ (IsLinked(c)' <=> IsLinked(c))
     /\ connState'[c] = connState[c] /\ (workerOp[w] = "connect" => sock'[c] = "none")
  \/ /\ KeepsOp(w) /\ Goes(w, "state", "announce") /\ (IsLinked(c)' <=> IsLinked(c))
     /\ connState'[c] = "DISCONNECTED" /\ sock'[c] = sock[c]
  \/ KeepsOp(w) /\ Goes(w, "announce", "callback") /\ Stays(c)
  \/ KeepsOp(w) /\ Goes(w, "recv", "callback") /\ Stays(c)
  \/ Goes(w, "recv", "service") /\ Stays(c)
  \/ Goes(w, "recv", "remove") /\ workerOp'[w] = "end of stream" /\ Stays(c)
  \/ /\ Goes(w, "callback", "service") /\ Stays(c)
     /\ workerOp[w] \in {"connect", "stream", "messages"}
  \/ /\ Goes(w, "callback", "service") /\ workerOp[w] \in {"end of stream", "disconnect"}
     /\ connState'[c] = connState[c] /\ sock'[c] = "none" /\ (IsLinked(c)' <=> IsLinked(c))
  \/ /\ KeepsOp(w) /\ Goes(w, "callback", "recv") /\ Stays(c)
     /\ \/ workerOp[w] = "messages"
        \/ workerOp[w] = "stream" /\ connState[c] # "DISCONNECTING"

\* There are no others.
LEMMA WorkerPaths ==
  ASSUME StructInv, NEW w \in Workers, Worker(w), NEW c \in Conns, serviceConn[w] = c
  PROVE  Paths(w, c)
<1>0. c = serviceConn[w] /\ c \in Conns
  OBVIOUS
<1>1. /\ workerPc \in [Workers -> WorkerPcs] /\ workerOp \in [Workers -> Ops]
      /\ connState \in [Conns -> States] /\ sock \in [Conns -> {"none", "open", "closed"}]
  BY DEF StructInv, TypeOK, WorkerTypeOK, ConnTypeOK
<1>2. UNCHANGED <<connState, sock, linked>> => Stays(c)
  BY DEF Stays, IsLinked
<1>3. UNCHANGED linked => (IsLinked(c)' <=> IsLinked(c))
  BY DEF IsLinked
<1>5. CASE \/ ReloadFlags(w) \/ EndService(w) \/ WorkerStart(w) \/ WorkerWakes(w)
           \/ DropConnection(w) \/ SignalFree(w) \/ WorkerReady(w)
  <2>1. /\ workerPc[w] \in {"service", "finish", "start", "idle", "drop", "signal", "ready"}
        /\ \E pc \in {"service", "finish", "idle", "drop", "signal", "ready"} :
             workerPc' = [workerPc EXCEPT ![w] = pc]
        /\ UNCHANGED <<connState, sock, linked>>
    BY <1>5 DEF ReloadFlags, EndService, WorkerStart, WorkerWakes, DropConnection, SignalFree,
       WorkerReady, WorkerStep, connVars
  <2> QED BY <1>1, <1>2, <2>1 DEF Paths, InDo, Teardown
<1>6. ASSUME NEW f \in Flags, DoWritesOrExceptions(w, f) PROVE Paths(w, c)
  <2>1. UNCHANGED <<connState, sock, linked>> /\ workerPc[w] = "service" /\ lock[c] = "free"
    BY <1>0, <1>6 DEF DoWritesOrExceptions, BeginFlag, WorkerStep, Mine
  <2>2. \/ workerPc'[w] = "service"
        \/ workerPc'[w] = "check" /\ workerOp'[w] = "connect" /\ connState[c] = "CONNECTING"
    BY <1>0, <1>1, <1>6 DEF DoWritesOrExceptions, BeginFlag, WorkerStep, Mine
  <2> QED BY <1>2, <2>1, <2>2 DEF Paths, InDo, Teardown, Goes
<1>7. CASE DoReads(w)
  <2>1. UNCHANGED <<connState, sock, linked>> /\ workerPc[w] = "service" /\ lock[c] = "free"
    BY <1>0, <1>7 DEF DoReads, BeginFlag, WorkerStep, Mine
  <2>2. \/ workerPc'[w] = "service"
        \/ /\ workerPc'[w] = "recv" /\ connState[c] = "CONNECTED"
           /\ workerOp'[w] \in {"stream", "messages"}
    BY <1>0, <1>1, <1>7 DEF DoReads, BeginFlag, WorkerStep, Mine
  <2> QED BY <1>2, <2>1, <2>2 DEF Paths, InDo, Teardown, Goes
<1>8. CASE DoDisconnect(w)
  <2>1. UNCHANGED <<connState, sock, linked>> /\ workerPc[w] = "service" /\ lock[c] = "free"
    BY <1>0, <1>8 DEF DoDisconnect, BeginFlag, WorkerStep, Mine
  <2>2. /\ workerPc'[w] = IF sock[c] = "none" THEN "state" ELSE "remove"
        /\ workerOp'[w] = "disconnect"
    BY <1>0, <1>1, <1>8 DEF DoDisconnect, BeginFlag, WorkerStep, Mine
  <2> QED BY <1>2, <2>1, <2>2 DEF Paths, Goes
<1>9. CASE CheckConnect(w)
  <2>1. UNCHANGED <<sock, linked>> /\ workerPc[w] = "check"
    BY <1>9 DEF CheckConnect, Inside, WorkerStep
  <2>2. \/ workerPc'[w] = "announce" /\ connState'[c] = "CONNECTED" /\ UNCHANGED workerOp
        \/ workerPc'[w] = "remove" /\ UNCHANGED <<connState, workerOp>>
        \/ workerPc'[w] = "service" /\ UNCHANGED connState
    BY <1>0, <1>1, <1>9 DEF CheckConnect, Inside, WorkerStep, Mine, SetState
  <2> QED BY <1>2, <1>3, <2>1, <2>2 DEF Paths, Goes, KeepsOp
<1>10. CASE RemoveConnection(w)
  <2>1. Goes(w, "remove", "close") /\ UNCHANGED <<connState, workerOp>> /\ Remove(c)
    BY <1>0, <1>1, <1>10 DEF RemoveConnection, Inside, WorkerStep, Mine, Goes
  <2>2. ~IsLinked(c)'
    BY <1>0, <2>1, LinkedMoves
  <2> QED BY <2>1, <2>2 DEF Paths, KeepsOp
<1>11. CASE CloseConnection(w)
  <2>1. Goes(w, "close", "state") /\ UNCHANGED <<connState, linked, workerOp>>
    BY <1>1, <1>11 DEF CloseConnection, Inside, WorkerStep, Goes
  <2>2. workerOp[w] = "connect" => sock'[c] = "none"
    BY <1>0, <1>1, <1>11 DEF CloseConnection, Mine
  <2> QED BY <1>3, <2>1, <2>2 DEF Paths, KeepsOp
<1>12. CASE SetDisconnected(w)
  <2>1. Goes(w, "state", "announce") /\ UNCHANGED <<sock, linked, workerOp>>
    BY <1>1, <1>12 DEF SetDisconnected, Inside, WorkerStep, Goes
  <2>2. connState'[c] = "DISCONNECTED"
    BY <1>0, <1>1, <1>12 DEF SetDisconnected, Mine, SetState
  <2> QED BY <1>3, <2>1, <2>2 DEF Paths, KeepsOp
<1>13. CASE Announce(w) \/ RecvData(w)
  <2>1. /\ Goes(w, "announce", "callback") \/ Goes(w, "recv", "callback")
        /\ UNCHANGED <<connState, sock, linked, workerOp>>
    BY <1>1, <1>13 DEF Announce, RecvData, Inside, WorkerStep, Goes
  <2> QED BY <1>2, <2>1 DEF Paths, KeepsOp
<1>14. CASE RecvNothing(w) \/ RecvEnd(w)
  <2>1. UNCHANGED <<connState, sock, linked>>
    BY <1>14 DEF RecvNothing, RecvEnd
  <2>2. \/ Goes(w, "recv", "service")
        \/ Goes(w, "recv", "remove") /\ workerOp'[w] = "end of stream"
    BY <1>1, <1>14 DEF RecvNothing, RecvEnd, Inside, WorkerStep, Goes
  <2> QED BY <1>2, <2>1, <2>2 DEF Paths
<1>15. CASE CallbackReturns(w)
  <2>1. UNCHANGED <<connState, linked>> /\ workerPc[w] = "callback"
    BY <1>15 DEF CallbackReturns
  <2>2. \/ /\ workerOp[w] \in {"connect", "stream", "messages"}
           /\ workerPc'[w] = "service" /\ UNCHANGED sock
        \/ /\ workerOp[w] \in {"end of stream", "disconnect"}
           /\ workerPc'[w] = "service" /\ sock'[c] = "none"
        \/ /\ \/ workerOp[w] = "messages"
              \/ (workerOp[w] = "stream" /\ connState[c] # "DISCONNECTING")
           /\ workerPc'[w] = "recv" /\ UNCHANGED <<sock, workerOp>>
    <3>1. CASE workerPc'[w] = "recv"
      <4>0. ~WorkerStep(w, "callback", "service")
        BY <1>1, <3>1 DEF WorkerStep
      <4>1. /\ UNCHANGED <<sock, workerOp>>
            /\ \/ workerOp[w] = "messages"
               \/ workerOp[w] = "stream" /\ StreamReadsOn(serviceConn[w])
        <5>1. /\ UNCHANGED <<sock, refCount, workerOp, fault>>
              /\ \/ workerOp[w] = "messages"
                 \/ workerOp[w] = "stream" /\ StreamReadsOn(Mine(w))
          BY <1>15, <4>0, Zenon DEF CallbackReturns, Inside
        <5> QED BY <5>1 DEF Mine
      <4> QED BY <1>0, <3>1, <4>1 DEF StreamReadsOn
    <3>2. CASE workerPc'[w] # "recv"
      BY <1>0, <1>1, <1>15, <3>2 DEF CallbackReturns, Inside, WorkerStep, Mine
    <3> QED BY <3>1, <3>2
  <2> QED BY <1>2, <1>3, <2>1, <2>2 DEF Paths, Goes, KeepsOp
<1>16. \A f \in {"write", "error"} : f \in Flags
  BY DEF Flags
<1> QED BY <1>5, <1>6, <1>7, <1>8, <1>9, <1>10, <1>11, <1>12, <1>13, <1>14, <1>15, <1>16
        DEF Worker

\* A step of a worker that has another connection
LEMMA WorkerElsewhere ==
  ASSUME StructInv, NEW w \in Workers, Worker(w), NEW c \in Conns, serviceConn[w] # c
  PROVE  Stays(c)
<1>1. /\ connState \in [Conns -> States] /\ sock \in [Conns -> {"none", "open", "closed"}]
  BY DEF StructInv, TypeOK, ConnTypeOK
<1>2. UNCHANGED connState \/ \E s : connState' = [connState EXCEPT ![serviceConn[w]] = s]
  BY DEF Worker, Inside, BeginFlag, WorkerStart, WorkerWakes, DoWritesOrExceptions,
     DoReads, DoDisconnect, CheckConnect, RemoveConnection, CloseConnection, SetState, Mine,
     SetDisconnected, Announce, RecvData, RecvNothing, RecvEnd, CallbackReturns, ReloadFlags,
     EndService, DropConnection, SignalFree, WorkerReady, connVars
<1>3. UNCHANGED sock \/ \E s : sock' = [sock EXCEPT ![serviceConn[w]] = s]
  BY DEF Worker, Inside, BeginFlag, WorkerStart, WorkerWakes, DoWritesOrExceptions,
     DoReads, DoDisconnect, CheckConnect, RemoveConnection, CloseConnection, Mine,
     SetDisconnected, Announce, RecvData, RecvNothing, RecvEnd, CallbackReturns, ReloadFlags,
     EndService, DropConnection, SignalFree, WorkerReady, connVars
<1>4. IsLinked(c)' <=> IsLinked(c)
  <2>1. CASE RemoveConnection(w)
    <3>1. Remove(serviceConn[w]) /\ serviceConn[w] \in Conns
      BY <2>1, WorkerConn DEF RemoveConnection, Inside, WorkerStep, Mine, Busy, WorkerPcs
    <3> QED BY <3>1, LinkedMoves
  <2>2. CASE ~RemoveConnection(w)
    <3>1. UNCHANGED linked
      BY <2>2 DEF Worker, Inside, BeginFlag, WorkerStart, WorkerWakes, DoWritesOrExceptions,
         DoReads, DoDisconnect, CheckConnect, CloseConnection,
         SetDisconnected, Announce, RecvData, RecvNothing, RecvEnd, CallbackReturns, ReloadFlags,
         EndService, DropConnection, SignalFree, WorkerReady
    <3> QED BY <3>1 DEF IsLinked
  <2> QED BY <2>1, <2>2
<1> QED BY <1>1, <1>2, <1>3, <1>4 DEF Stays

\* A worker touches the connection it services only.
LEMMA WorkerConsistent ==
  ASSUME StructInv, LockInv, OpInv, Distinct, NEW w \in Workers, Worker(w),
         NEW c \in Conns, Consistent(c)
  PROVE  Consistent(c)'
<1>1. UNCHANGED <<ownerPc, connects, slots>>
  BY WorkerFrame DEF ownerVars, netVars
<1>2. \A v \in Workers \ {w} : /\ workerPc'[v] = workerPc[v] /\ serviceConn'[v] = serviceConn[v]
                               /\ workerOp'[v] = workerOp[v]
  <2>1. workerOp \in [Workers -> Ops]
    BY DEF StructInv, TypeOK, WorkerTypeOK
  <2>2. UNCHANGED workerOp \/ \E op : workerOp' = [workerOp EXCEPT ![w] = op]
    BY ServesCases DEF Serves, WorkerStart, WorkerWakes, EndService, DropConnection, SignalFree,
       WorkerReady
  <2> QED BY <2>1, <2>2, WorkerMoves
<1>3. serviceConn'[w] \in {serviceConn[w], NoConn}
  <2>1. CASE DropConnection(w)
    BY <2>1 DEF DropConnection, StructInv, TypeOK, WorkerTypeOK
  <2>2. CASE ~DropConnection(w)
    BY <2>2, ServesCases DEF Serves, WorkerStart, WorkerWakes, EndService, SignalFree, WorkerReady
  <2> QED BY <2>1, <2>2
<1>4. c # NoConn
  BY WowNetAssumption
<1>5. CASE serviceConn[w] # c
  <2>1. Stays(c)
    BY <1>5, WorkerElsewhere
  <2>2. \A v \in Workers : Does(v, c)' <=> Does(v, c)
    BY <1>2, <1>3, <1>4, <1>5 DEF Does
  <2>3. \A v \in Workers : Does(v, c) => v # w
    BY <1>5 DEF Does
  <2>4. Fresh(c)'
    BY <1>1, <1>2, <1>3, <1>4, <1>5, <2>1 DEF Consistent, Fresh, Stays
  <2> QED BY <1>1, <1>2, <2>1, <2>2, <2>3, <2>4, ConsistentFrame DEF Stays
<1>6. CASE serviceConn[w] = c
  <2>1. connState[c] # "INITIALIZED" /\ connects[c] # 0
    BY <1>6 DEF Consistent, Fresh
  <2>2. Paths(w, c)
    BY <1>6, WorkerPaths
  <2>3. CASE workerPc[w] \notin InDo /\ workerPc'[w] \notin InDo /\ Stays(c)
    <3>1. \A v \in Workers : Does(v, c)' <=> Does(v, c)
      BY <1>2, <2>3 DEF Does
    <3>2. \A v \in Workers : Does(v, c) => v # w
      BY <2>3 DEF Does
    <3>3. Fresh(c)'
      BY <2>1, <2>3 DEF Fresh, Stays
    <3> QED BY <1>1, <1>2, <2>3, <3>1, <3>2, <3>3, ConsistentFrame DEF Stays
  <2>4. CASE ~(workerPc[w] \notin InDo /\ workerPc'[w] \notin InDo)
    <3>1. serviceConn'[w] = c
      <4>1. ~DropConnection(w)
        <5>1. DropConnection(w) => workerPc[w] = "drop" /\ workerPc'[w] = "signal"
          BY DEF DropConnection, WorkerStep, StructInv, TypeOK, WorkerTypeOK
        <5> QED BY <2>4, <5>1 DEF InDo, Teardown
      <4> QED BY <1>6, <4>1, ServesCases DEF Serves, WorkerStart, WorkerWakes, EndService,
              SignalFree, WorkerReady
    <3>2. Servicing(w)
      <4>1. workerPc[w] # "drop"
        BY <2>2, <2>4 DEF Paths, Goes, InDo, Teardown
      <4> QED BY <1>4, <1>6, <4>1 DEF Servicing
    <3>3. \A v \in Workers \ {w} : ~Does(v, c) /\ ~Does(v, c)'
      <4>1. \A v \in Workers : Does(v, c) => Servicing(v)
        BY <1>4 DEF Does, InDo, Teardown, Servicing
      <4>2. \A v \in Workers \ {w} : ~Does(v, c)
        BY <1>6, <3>2, <4>1 DEF Distinct, Does
      <4> QED BY <1>2, <4>2 DEF Does
    <3>4. workerPc[w] \in InDo => WorkerPlace(w, c)
      BY <1>6 DEF Consistent, Does
    <3>5. workerPc[w] \notin InDo => lock[c] = "free"
      BY <2>2, <2>4 DEF Paths, Goes, InDo, Teardown
    <3>6. ownerPc[c] = "idle"
      <4>1. CASE workerPc[w] \in InDo
        BY <1>6, <4>1 DEF Consistent, Does
      <4>2. CASE workerPc[w] \notin InDo
        <5>1. ownerPc[c] \notin OwnerLocks
          BY <3>5, <4>2 DEF LockInv
        <5>2. ownerPc[c] \in OwnerPcs
          BY DEF StructInv, TypeOK, OwnerTypeOK
        <5>3. SUFFICES ASSUME ownerPc[c] # "idle" PROVE FALSE
          OBVIOUS
        <5>4. OwnerPlace(c)
          BY <5>3 DEF Consistent
        <5> QED BY <2>1, <5>1, <5>2, <5>3, <5>4 DEF OwnerPlace, OwnerLocks, OwnerPcs
      <4> QED BY <4>1, <4>2
    <3>7. workerPc[w] \notin InDo => Settled(c)
      BY <3>3, <3>6 DEF Consistent, Does
    <3>8. OpFits(workerPc[w], workerOp[w])
      BY DEF OpInv
    <3>9. Stays(c) => (Settled(c)' <=> Settled(c))
      BY DEF Stays, Settled
    <3>10. /\ connState'[c] # "INITIALIZED"
           /\ workerPc'[w] \in InDo => WorkerPlace(w, c)'
           /\ workerPc'[w] \notin InDo => Settled(c)'
      <4> USE DEF Goes, KeepsOp, Stays, InDo, Teardown, WorkerPlace
      <4>1. CASE workerPc[w] = "service"
        <5>1. Settled(c) /\ Settled(c)' /\ Stays(c)
          BY <2>2, <3>7, <3>9, <2>4, <4>1 DEF Paths
        <5>2. sock[c] = "none" => ~IsLinked(c)
          BY <5>1 DEF Settled
        <5>3. sock[c] # "none" => connState[c] \in Selectable
          BY <5>1 DEF Settled
        <5> QED BY <2>1, <2>2, <2>4, <4>1, <5>1, <5>2, <5>3 DEF Paths, Selectable
      <4>2. CASE workerPc[w] = "check"
        <5>1. connState[c] = "CONNECTING" /\ Settled(c) /\ workerOp[w] = "connect"
          BY <3>4, <3>8, <4>2 DEF OpFits
        <5>2. IsLinked(c) /\ sock[c] = "open"
          BY <5>1 DEF Settled, Selectable
        <5> QED BY <2>1, <2>2, <2>4, <3>9, <4>2, <5>1, <5>2 DEF Paths, Settled, Selectable
      <4>3. CASE workerPc[w] = "recv"
        <5>1. /\ connState[c] \in {"CONNECTED", "DISCONNECTING"} /\ Settled(c)
              /\ workerOp[w] \in {"stream", "messages"}
          BY <3>4, <3>8, <4>3 DEF OpFits
        <5> QED BY <2>1, <2>2, <2>4, <3>9, <4>3, <5>1 DEF Paths, Selectable
      <4>4. CASE workerPc[w] = "remove"
        BY <2>1, <2>2, <2>4, <4>4 DEF Paths
      <4>5. CASE workerPc[w] = "close"
        <5>1. ~IsLinked(c)
          BY <3>4, <4>5
        <5> QED BY <2>1, <2>2, <2>4, <4>5, <5>1 DEF Paths
      <4>6. CASE workerPc[w] = "state"
        <5>1. /\ ~IsLinked(c) /\ (workerOp[w] = "connect" => sock[c] = "none")
              /\ workerOp[w] \in {"connect", "end of stream", "disconnect"}
          BY <3>4, <3>8, <4>6 DEF OpFits
        <5> QED BY <2>1, <2>2, <2>4, <4>6, <5>1 DEF Paths, Settled, Selectable
      <4>7. CASE workerPc[w] = "announce"
        BY <2>1, <2>2, <2>4, <3>4, <3>9, <4>7 DEF Paths
      <4>8. CASE workerPc[w] = "callback"
        <5>1. CASE workerOp[w] = "connect"
          BY <2>1, <2>2, <2>4, <3>4, <3>9, <4>8, <5>1 DEF Paths
        <5>2. CASE workerOp[w] \in {"end of stream", "disconnect"}
          <6>1. connState[c] = "DISCONNECTED" /\ ~IsLinked(c)
            BY <3>4, <4>8, <5>2
          <6> QED BY <2>1, <2>2, <2>4, <4>8, <5>2, <6>1 DEF Paths, Settled, Selectable
        <5>3. CASE workerOp[w] \in {"stream", "messages"}
          <6>1. connState[c] \in {"CONNECTED", "DISCONNECTING"} /\ Settled(c)
            BY <3>4, <4>8, <5>3
          <6> QED BY <2>1, <2>2, <2>4, <3>9, <4>8, <5>3, <6>1 DEF Paths
        <5> QED BY <3>8, <4>8, <5>1, <5>2, <5>3 DEF OpFits, Ops
      <4> QED BY <2>2, <2>4, <4>1, <4>2, <4>3, <4>4, <4>5, <4>6, <4>7, <4>8 DEF Paths
    <3>11. Fresh(c)'
      BY <3>10 DEF Fresh
    <3> QED BY <1>1, <2>1, <3>1, <3>3, <3>6, <3>10, <3>11 DEF Consistent, Does
  <2> QED BY <2>2, <2>3, <2>4 DEF Paths, Goes, InDo, Teardown
<1> QED BY <1>5, <1>6

\* At the start no connection was ever connected.
LEMMA InitConsistent == Init => ConsistentInv
<1> SUFFICES ASSUME Init, NEW c \in Conns PROVE Consistent(c)
  BY DEF ConsistentInv
<1>1. /\ connState[c] = "INITIALIZED" /\ sock[c] = "none" /\ ownerPc[c] = "idle"
      /\ connects[c] = 0 /\ linked = <<>>
      /\ \A w \in Workers : serviceConn[w] = NoConn
      /\ \A i \in 1..NumSlots : slots[i] = NoConn
  BY DEF Init
<1>2. c # NoConn
  BY WowNetAssumption
<1>3. ~IsLinked(c)
  BY <1>1 DEF IsLinked
<1> QED BY <1>1, <1>2, <1>3 DEF Consistent, Fresh, Does, Settled, Selectable

\* Until its owner connects it again, the state, the list and the socket of a
\* connection stay consistent.
LEMMA ConsistentStep ==
  IInv /\ LockInv /\ OpInv /\ ConsistentInv /\ [Next]_vars => ConsistentInv'
<1> SUFFICES ASSUME IInv, LockInv, OpInv, ConsistentInv, [Next]_vars, ~staleSlot',
                    NEW c \in Conns, connects'[c] <= 1
             PROVE  Consistent(c)'
  BY DEF ConsistentInv
<1>1. StructInv /\ StructInv' /\ Core
  BY IInvStep, StaleStays DEF IInv, CoreInv
<1>2. connects[c] <= 1
  <2>1. connects \in [Conns -> Nat]
    BY <1>1 DEF StructInv, TypeOK, OwnerTypeOK
  <2>2. UNCHANGED connects \/ \E d \in Conns : connects' = [connects EXCEPT ![d] = @ + 1]
    <3>1. ASSUME NEW d \in Conns, Owner(d) \/ Disconnect(d) \/ DisconnectNotify(d)
          PROVE  UNCHANGED connects \/ connects' = [connects EXCEPT ![d] = @ + 1]
      BY <3>1 DEF Owner, OwnerStep, StartConnect, CloseOldSocket, ForgetOldSocket,
         CreateSocket, AddConnection, SetConnecting, NotifyConnecting, ConnectSyscall,
         RemoveFailed, CloseFailed, SetError, LeaveConnect, Disconnect, DisconnectNotify,
         ownerVars
    <3>2. Network => UNCHANGED connects
      BY DEF Network, OpenPipe, BeginScan, ScanConnection, EndScan, SelectWake, SelectReady,
         SelectReturns, WalkSlot, TakeWorker, NoWorker, AssignWorker, ReleaseSlot, EndWalk,
         NetUnchanged, ownerVars
    <3>3. \A w \in Workers : Worker(w) => UNCHANGED connects
      BY WorkerFrame DEF ownerVars
    <3>4. UNCHANGED vars => UNCHANGED connects
      BY DEF vars, ownerVars
    <3> QED BY <3>1, <3>2, <3>3, <3>4 DEF Next, Halted
  <2>3. connects'[c] \in {connects[c], connects[c] + 1}
    BY <2>1, <2>2
  <2> QED BY <2>1, <2>3
<1>3. Consistent(c)
  BY <1>2, StaleStays DEF ConsistentInv
<1>4. CASE UNCHANGED vars
  <2>1. UNCHANGED <<connState, sock, linked, ownerPc, connects, workerPc, workerOp,
                    serviceConn, slots>>
    BY <1>4 DEF vars, connVars, ownerVars, netVars, workerVars
  <2>2. /\ \A w \in Workers : Does(w, c)' <=> Does(w, c)
        /\ IsLinked(c)' <=> IsLinked(c)
        /\ Fresh(c)'
    BY <1>3, <2>1 DEF Does, IsLinked, Consistent, Fresh
  <2> QED BY <1>3, <2>1, <2>2, ConsistentFrame
<1>5. ASSUME NEW d \in Conns, Owner(d) \/ Disconnect(d) \/ DisconnectNotify(d)
      PROVE  Consistent(c)'
  <2>1. CASE c # d
    BY <1>1, <1>3, <1>5, <2>1, CallersElsewhere
  <2>2. CASE c = d
    BY <1>1, <1>3, <1>5, <2>2, OwnerConsistent, DisconnectConsistent
  <2> QED BY <2>1, <2>2
<1>6. CASE Network
  BY <1>1, <1>3, <1>6, NetworkConsistent
<1>7. ASSUME NEW w \in Workers, Worker(w) PROVE Consistent(c)'
  BY <1>1, <1>3, <1>7, WorkerConsistent DEF Core
<1> QED BY <1>4, <1>5, <1>6, <1>7 DEF Next, Halted

\* What the places of owners and workers rest on
PlaceInv == IInv /\ LockInv /\ OpInv /\ ConsistentInv

\* Owners, workers and connections always agree.
LEMMA PlacesHold == Spec => []PlaceInv
<1>1. Init => PlaceInv
  BY InitStruct, InitCore, InitLocks, InitExact, InitConsistent DEF PlaceInv, ExactInv
<1>2. PlaceInv /\ [Next]_vars => PlaceInv'
  BY IInvStep, LockStep, OpStep, ConsistentStep DEF PlaceInv, IInv
<1> QED BY <1>1, <1>2, PTL DEF Spec

\* No owner has connected its connection a second time.
ConnectedOnce == \A c \in Conns : connects[c] <= 1

\* Until an owner calls Connect a second time: whenever nobody is inside m_lock
\* or in a callback of a connection, it is linked and has an open socket exactly
\* when its state is one the network thread selects on, so SendRaw's
\* STORM_ASSERT(m_sock >= 0) (WowConnection.cpp:820) holds.
THEOREM SettledIsConsistent == Spec /\ []ConnectedOnce => []SettledConsistent
<1>1. PlaceInv /\ ConnectedOnce => SettledConsistent
  <2> SUFFICES ASSUME PlaceInv, ConnectedOnce, ~staleSlot, NEW c \in Conns, lock[c] = "free",
                      \A w \in Workers : serviceConn[w] = c => workerPc[w] # "callback"
               PROVE  Settled(c)
    BY DEF SettledConsistent, Settled
  <2>1. Consistent(c)
    BY DEF PlaceInv, ConsistentInv, ConnectedOnce
  <2>2. \A w \in Workers : ~Does(w, c)
    BY DEF PlaceInv, LockInv, Locks, Does, InDo
  <2>3. CASE ownerPc[c] = "idle"
    BY <2>1, <2>2, <2>3 DEF Consistent
  <2>4. CASE ownerPc[c] # "idle"
    <3>1. OwnerPlace(c)
      BY <2>1, <2>4 DEF Consistent
    <3>2. ownerPc[c] \in OwnerPcs \ OwnerLocks
      BY DEF PlaceInv, LockInv, IInv, StructInv, TypeOK, OwnerTypeOK
    <3>3. ownerPc[c] = "create"
      BY <2>4, <3>1, <3>2 DEF OwnerPlace, OwnerPcs, OwnerLocks
    <3> QED BY <3>1, <3>3 DEF OwnerPlace, Settled, Selectable
  <2> QED BY <2>3, <2>4
<1> QED BY <1>1, PlacesHold, PTL

\* As long as the scan filled every slot it counted and no owner calls Connect a
\* second time, a stream delivers no data once Disconnect was called
\* (WowConnection.cpp:570: DoStreamReads reads on only when not DISCONNECTING).
THEOREM StreamsStop ==
  Spec /\ [](~staleSlot /\ ConnectedOnce) => StreamsStopOnDisconnect
<1> DEFINE Step == \A w \in Workers :
             workerPc[w] = "recv" /\ workerPc'[w] = "callback" /\ workerOp[w] = "stream"
               => connState[serviceConn[w]] = "CONNECTED"
<1>1. PlaceInv /\ ~staleSlot /\ ConnectedOnce => Step
  <2> SUFFICES ASSUME PlaceInv, ~staleSlot, ConnectedOnce, NEW w \in Workers,
                      workerPc[w] = "recv", workerOp[w] = "stream"
               PROVE  connState[serviceConn[w]] = "CONNECTED"
    OBVIOUS
  <2>1. serviceConn[w] \in Conns
    BY WorkerConn DEF PlaceInv, IInv, Busy, WorkerPcs
  <2>2. Consistent(serviceConn[w]) /\ Does(w, serviceConn[w])
    BY <2>1 DEF PlaceInv, ConsistentInv, ConnectedOnce, Does, InDo
  <2>3. WorkerPlace(w, serviceConn[w])
    BY <2>2 DEF Consistent
  <2> QED BY <2>3 DEF WorkerPlace
<1>2. PlaceInv /\ ~staleSlot /\ ConnectedOnce => [Step]_vars
  BY <1>1
<1>3. StreamsStopOnDisconnect <=> [][Step]_vars
  BY DEF StreamsStopOnDisconnect
<1> QED BY <1>2, <1>3, PlacesHold, PTL
=============================================================================
