------------------------------ MODULE GxProofs ------------------------------
(***************************************************************************)
(* Three parts of the graphics devices.                                    *)
(*                                                                         *)
(* GxRenderState: what is drawn is drawn with the current states, and      *)
(* RsPop restores what RsPush saw, for any states, values and depth.       *)
(* Two invariants carry this.  SyncInv: the cache m_deviceStates is what   *)
(* the device has, a state that differs from m_hwRenderStates is still to  *)
(* come, and each device state is as it was sent or forced to be sent      *)
(* again.  FramesInv: a state at depth k was saved in frame k, and every   *)
(* entry names the frame below in which its state was saved before.        *)
(*                                                                         *)
(* GLWorker implements CommandQueue, for any number of commands that wait: *)
(* the worker's list, the command it executes and the wake-up of the main  *)
(* thread are one queue, and a wait ends only when that is empty or when a *)
(* wait that was cut short is not yet answered.  The argument is about the *)
(* null command: from the wait until the next command is sent it is last,  *)
(* so that when no null command is left nothing is left behind it either.  *)
(*                                                                         *)
(* GxBuffers: what is drawn is what was written for it, for any sizes that *)
(* fit.  The operations are chains of calls on the record g, so most       *)
(* lemmas are about a call, from any h, while some pools L are locked.     *)
(* BuffersInv has three parts.  BuffersSound: a pool's object is its own,  *)
(* is there, has the pool's size and is mapped while it is locked; OpenGL  *)
(* reads a stream only before what is handed out next; a static pool is    *)
(* filled before it is read; and there are no more objects than pools and  *)
(* growths.  FormatsSound: a vertex format that was put together is        *)
(* right.  IndexSettled: the index buffer of OpenGL is that of the last    *)
(* draw, and was not locked since.                                         *)
(***************************************************************************)
EXTENDS GxRenderState, GxBuffers, GLWorker, SequenceFacts

\* The device states are the parts of a partition of the states.
LEMMA DeviceStatesPartition ==
  /\ \A d \in DeviceStates : d \subseteq States /\ d # {}
  /\ \A s \in States : DeviceState(s) \in DeviceStates /\ s \in DeviceState(s)
  /\ \A d, e \in DeviceStates : \A s \in d : s \in e => d = e
<1>1. \A s \in States : \E d \in DeviceStates : s \in d
  BY DEF DeviceStates
<1>2. \A s \in States : DeviceState(s) \in DeviceStates /\ s \in DeviceState(s)
  BY <1>1 DEF DeviceState
<1> QED BY <1>2, RenderStateAssumption DEF DeviceStates

\* AllStates is a sequence that goes through all states.
LEMMA AllStatesFacts ==
  AllStates \in Seq(States) /\ \A s \in States : Has(AllStates, s)
<1> DEFINE n == Cardinality(States)
<1>1. n \in Nat /\ ExistsBijection(1..n, States)
  BY RenderStateAssumption, FS_CardinalityType
<1>2. \E q \in [1..n -> States] : \A s \in States : \E i \in DOMAIN q : q[i] = s
  BY <1>1 DEF ExistsBijection, Bijection, Surjection
<1> DEFINE q == AllStates
<1>3. q \in [1..n -> States] /\ \A s \in States : \E i \in DOMAIN q : q[i] = s
  BY <1>2 DEF AllStates
<1> HIDE DEF q
<1>4. q \in Seq(States) /\ Len(q) = n
  BY <1>1, <1>3
<1>5. \A s \in States : Has(q, s)
  BY <1>3, <1>4 DEF Has
<1> QED BY <1>4, <1>5 DEF q

-----------------------------------------------------------------------------
DeviceValues == (UNION {[d -> Values] : d \in DeviceStates}) \cup {Unknown}

\* What is sent for a device state has a value for each of its states.
LEMMA MadeType ==
  ASSUME TypeOK, NEW d \in DeviceStates
  PROVE  Made(d) \in [d -> Values] /\ Made(d) \in DeviceValues
BY DeviceStatesPartition DEF TypeOK, Made, DeviceValues

\* What IRsSync has yet to go through: all of m_dirtyStates before it starts.
Pending == IF sync = 0 THEN Len(dirtyStates) ELSE sync
Listed(s) == \E i \in 1..Pending : dirtyStates[i] = s

\* m_deviceStates is what the device has.
CacheIsTrue ==
  /\ deviceStates \in [DeviceStates -> DeviceValues]
  /\ device = deviceStates

\* Every dirty state is in the list, and where a state is not to come any more
\* m_hwRenderStates is up to date.  While nothing is synchronised the list has
\* nothing else.
DirtyIsListed ==
  /\ \A s \in dirty : Listed(s)
  /\ \A s \in States : ~Listed(s) => hw[s] = value[s]
  /\ sync = 0 => \A s \in States : Listed(s) => s \in dirty

\* What the device has was sent: for the states that are dirty as of the last
\* synchronisation, for the others now.  Or a Reset has taken it away, and all of
\* it is yet to be sent, because m_hwRenderStates differs.
Sent(d) == /\ device[d] \in [d -> Values]
           /\ \A s \in d : device[d][s] = IF s \in dirty THEN hw[s] ELSE value[s]
Forced(d) == \A s \in d : s \in dirty /\ hw[s] = Inverted
DeviceIsKnown == context => \A d \in DeviceStates : Sent(d) \/ Forced(d)

SyncInv == CacheIsTrue /\ DirtyIsListed /\ DeviceIsKnown

\* At the start the device has the first values.
LEMMA InitSync == Init => TypeOK /\ SyncInv
<1> SUFFICES ASSUME Init PROVE TypeOK /\ SyncInv
  OBVIOUS
<1>1. value \in [States -> Values] /\ hw = value /\ dirty = {} /\ sync = 0
  BY DEF Init
<1>2. \A d \in DeviceStates : /\ Made(d) \in [d -> Values] /\ Made(d) \in DeviceValues
                              /\ \A s \in d : Made(d)[s] = value[s]
  BY <1>1, DeviceStatesPartition DEF Made, DeviceValues
<1>3. CacheIsTrue /\ \A d \in DeviceStates : device[d] = Made(d) /\ deviceStates[d] = Made(d)
  BY <1>2 DEF Init, CacheIsTrue
<1>4. TypeOK
  BY <1>1, <1>2, <1>3, RenderStateAssumption DEF Init, TypeOK
<1>5. DirtyIsListed
  BY <1>1 DEF Init, DirtyIsListed, Listed, Pending
<1>6. DeviceIsKnown
  BY <1>1, <1>2, <1>3 DEF DeviceIsKnown, Sent
<1> QED BY <1>3, <1>4, <1>5, <1>6 DEF SyncInv

-----------------------------------------------------------------------------
(* Setting, saving and restoring                                           *)

\* RsSet keeps the types.
LEMMA RsSetType ==
  ASSUME TypeOK, NEW s \in States, NEW v \in Values, RsSet(s, v)
  PROVE  TypeOK'
<1>1. value' \in [States -> Values] /\ dirty' \subseteq States
  BY DEF TypeOK, RsSet, IRsDirty
<1>2. dirtyStates' \in Seq(States) /\ sync' \in 0..Len(dirtyStates')
  BY AppendProperties DEF TypeOK, RsSet, IRsDirty
<1>3. /\ depth' \in [States -> 0..MaxDepth]
      /\ offsets' = offsets
      /\ pushed' \in Seq([which : States, value : Values, depth : 0..MaxDepth])
      /\ Len(pushed') \in Nat /\ Len(pushed) \in Nat /\ Len(pushed') >= Len(pushed)
  <2> DEFINE e == [which |-> s, value |-> value[s], depth |-> depth[s]]
             T == [which : States, value : Values, depth : 0..MaxDepth]
  <2>1. e \in T
    BY DEF TypeOK
  <2>2. offsets' = offsets /\ pushed \in Seq(T) /\ Len(offsets) \in 0..MaxDepth
    BY LenProperties, RenderStateAssumption DEF TypeOK, RsSet
  <2>3. CASE depth[s] # Len(offsets)
    <3>1. pushed' = Append(pushed, e) /\ depth' = [depth EXCEPT ![s] = Len(offsets)]
      BY <2>3 DEF RsSet, IRsDirty
    <3>2. depth' \in [States -> 0..MaxDepth]
      BY <2>2, <3>1 DEF TypeOK
    <3> HIDE DEF e, T
    <3>3. pushed' \in Seq(T) /\ Len(pushed') = Len(pushed) + 1 /\ Len(pushed) \in Nat
      BY <2>1, <2>2, <3>1, AppendProperties, LenProperties
    <3> QED BY <2>2, <3>2, <3>3 DEF T
  <2>4. CASE depth[s] = Len(offsets)
    BY <2>2, <2>4, LenProperties DEF RsSet, IRsDirty, TypeOK
  <2> QED BY <2>3, <2>4
<1>4. offsets' \in Seq(0..Len(pushed')) /\ Len(offsets') <= MaxDepth
  BY <1>3 DEF TypeOK
<1> QED BY <1>1, <1>2, <1>3, <1>4 DEF TypeOK, RsSet, deviceVars

\* A state that RsSet changes is dirty and listed.
LEMMA RsSetSync ==
  ASSUME TypeOK, SyncInv, NEW s \in States, NEW v \in Values, RsSet(s, v)
  PROVE  SyncInv'
<1> USE DEF SyncInv
<1>1. /\ sync = 0 /\ sync' = 0 /\ hw' = hw /\ deviceStates' = deviceStates
      /\ device' = device /\ context' = context /\ dirty' = dirty \cup {s}
      /\ \A x \in States : x # s => value'[x] = value[x]
  BY DEF RsSet, IRsDirty, deviceVars, TypeOK
<1>2. \A x \in States : Listed(x)' <=> Listed(x) \/ x = s
  <2>1. \A x : Has(dirtyStates', x) <=> Has(dirtyStates, x) \/ x = s
    <3>1. CASE s \in dirty
      BY <3>1, <1>1 DEF RsSet, IRsDirty, DirtyIsListed, Listed, Pending, Has
    <3>2. CASE s \notin dirty
      BY <3>2, AppendFacts DEF RsSet, IRsDirty, TypeOK
    <3> QED BY <3>1, <3>2
  <2> QED BY <2>1, <1>1 DEF Listed, Pending, Has
<1>3. DirtyIsListed'
  BY <1>1, <1>2 DEF DirtyIsListed, TypeOK
<1>4. \A x \in States : x \notin dirty => hw[x] = value[x]
  BY <1>1 DEF DirtyIsListed
<1>5. ASSUME NEW d \in DeviceStates, Sent(d)
      PROVE  Sent(d)'
  BY <1>1, <1>4, <1>5, DeviceStatesPartition DEF Sent
<1>6. DeviceIsKnown'
  BY <1>1, <1>5 DEF DeviceIsKnown, Forced
<1>7. CacheIsTrue'
  BY <1>1 DEF CacheIsTrue, DeviceValues
<1> QED BY <1>3, <1>6, <1>7

\* RsPush keeps the types.
LEMMA RsPushType == TypeOK /\ RsPush => TypeOK'
<1> SUFFICES ASSUME TypeOK, RsPush PROVE TypeOK'
  OBVIOUS
<1>1. Len(pushed) \in Nat
  BY LenProperties DEF TypeOK
<1>2. /\ offsets' \in Seq(0..Len(pushed)) /\ Len(offsets') = Len(offsets) + 1
      /\ Len(offsets) \in Nat
  BY <1>1, AppendProperties, LenProperties DEF RsPush, TypeOK
<1> QED BY <1>2, RenderStateAssumption DEF RsPush, TypeOK, deviceVars

\* RsPush changes no value.
LEMMA RsPushSync == TypeOK /\ SyncInv /\ RsPush => SyncInv'
BY DEF RsPush, deviceVars, SyncInv, CacheIsTrue, DeviceValues, DirtyIsListed, Listed, Pending,
       DeviceIsKnown, Sent, Forced

\* The entry saved first exists, for a state that has one.
LEMMA OldestFacts ==
  ASSUME TypeOK, NEW top \in Nat, NEW s \in InFrame(top)
  PROVE  /\ Oldest(top, s) \in Frame(top) /\ pushed[Oldest(top, s)].which = s
         /\ \A j \in Frame(top) : pushed[j].which = s => Oldest(top, s) <= j
         /\ s \in States
<1> DEFINE I == {i \in Frame(top) : pushed[i].which = s}
<1>1. I \in SUBSET Nat /\ I # {} /\ Frame(top) \subseteq 1..Len(pushed)
  <2>1. Len(pushed) \in Nat
    BY LenProperties DEF TypeOK
  <2>2. Frame(top) \subseteq Nat /\ Frame(top) \subseteq 1..Len(pushed)
    BY <2>1 DEF Frame
  <2>3. I # {}
    BY DEF InFrame
  <2> QED BY <2>2, <2>3
<1>2. PICK m \in I : \A k \in I : m <= k
  <2> HIDE DEF I
  <2> QED BY <1>1, LeastElement
<1>3. /\ m \in Frame(top) /\ pushed[m].which = s
      /\ \A j \in Frame(top) : pushed[j].which = s => m <= j
  BY <1>2
<1>4. s \in States
  <2> DEFINE T == [which : States, value : Values, depth : 0..MaxDepth]
  <2>1. pushed[m] \in T
    <3> HIDE DEF T
    <3>1. pushed \in Seq(T)
      BY DEF TypeOK, T
    <3> QED BY <1>1, <1>3, <3>1, ElementOfSeq
  <2> QED BY <1>3, <2>1
<1> QED BY <1>3, <1>4 DEF Oldest

\* What the top frame restores.
Top == offsets[Len(offsets)]
Undone == [i \in 1..(Len(pushed) - Top) |-> pushed[Len(pushed) + 1 - i].which]

\* What RsPop does to values, dirty states and their list.
LEMMA RsPopFacts ==
  ASSUME TypeOK, RsPop
  PROVE  /\ Top \in 0..Len(pushed) /\ Len(pushed) \in Nat
         /\ Len(offsets) \in Nat \ {0} /\ InFrame(Top) \subseteq States
         /\ \A i \in 1..Len(pushed) :
              pushed[i] \in [which : States, value : Values, depth : 0..MaxDepth]
         /\ \A s \in InFrame(Top) : Oldest(Top, s) \in 1..Len(pushed)
         /\ dirtyStates' = dirtyStates \o Without(Undone, dirty)
         /\ dirtyStates' \in Seq(States) /\ dirty' = dirty \cup InFrame(Top)
         /\ \A x : Has(dirtyStates', x) <=>
                     Has(dirtyStates, x) \/ (x \in InFrame(Top) /\ x \notin dirty)
<1> DEFINE T == [which : States, value : Values, depth : 0..MaxDepth]
<1>1. Len(pushed) \in Nat /\ Len(offsets) \in Nat \ {0}
  BY LenProperties, EmptySeq DEF TypeOK, RsPop
<1>2. Top \in 0..Len(pushed)
  BY <1>1, ElementOfSeq DEF TypeOK, Top
<1>3. \A i \in 1..Len(pushed) : pushed[i] \in T
  <2> HIDE DEF T
  <2>1. pushed \in Seq(T)
    BY DEF TypeOK, T
  <2> QED BY <2>1, ElementOfSeq
<1>4. \A i \in 1..Len(pushed) : pushed[i].which \in States
  BY <1>3
<1>5. Frame(Top) \subseteq 1..Len(pushed) /\ InFrame(Top) \subseteq States
  BY <1>1, <1>2, <1>4 DEF Frame, InFrame
<1>6. \A s \in InFrame(Top) : Oldest(Top, s) \in 1..Len(pushed)
  <2>1. Top \in Nat
    BY <1>1, <1>2
  <2> QED BY <1>5, <2>1, OldestFacts
<1>7. Undone \in Seq(States) /\ Len(Undone) = Len(pushed) - Top
  BY <1>1, <1>2, <1>4 DEF Undone
<1>8. \A x : Has(Undone, x) <=> x \in InFrame(Top)
  <2>1. ASSUME NEW x, Has(Undone, x)
        PROVE  x \in InFrame(Top)
    <3>1. PICK i \in 1..(Len(pushed) - Top) : Undone[i] = x
      BY <1>7, <2>1 DEF Has
    <3>2. Len(pushed) + 1 - i \in Frame(Top) /\ x = pushed[Len(pushed) + 1 - i].which
      BY <1>1, <1>2, <3>1 DEF Undone, Frame
    <3> QED BY <3>2 DEF InFrame
  <2>2. ASSUME NEW x \in InFrame(Top)
        PROVE  Has(Undone, x)
    <3>1. PICK j \in Frame(Top) : pushed[j].which = x
      BY <2>2 DEF InFrame
    <3>2. /\ Len(pushed) + 1 - j \in 1..(Len(pushed) - Top)
          /\ Len(pushed) + 1 - (Len(pushed) + 1 - j) = j
      BY <1>1, <1>2, <3>1 DEF Frame
    <3>3. Undone[Len(pushed) + 1 - j] = x
      BY <3>1, <3>2 DEF Undone
    <3> QED BY <1>7, <3>2, <3>3 DEF Has
  <2> QED BY <2>1, <2>2
<1>9. /\ dirtyStates' = dirtyStates \o Without(Undone, dirty)
      /\ dirty' = dirty \cup InFrame(Top)
  BY DEF RsPop, Undone, Top
<1>10. /\ Without(Undone, dirty) \in Seq(States)
       /\ \A x : Has(Without(Undone, dirty), x) <=> Has(Undone, x) /\ x \notin dirty
  BY <1>7, WithoutFacts
<1>11. dirtyStates \in Seq(States)
  BY DEF TypeOK
<1>12. /\ dirtyStates' \in Seq(States)
       /\ \A x : Has(dirtyStates', x) <=>
                   Has(dirtyStates, x) \/ Has(Without(Undone, dirty), x)
  BY <1>9, <1>10, <1>11, ConcatFacts
<1>13. \A x : Has(dirtyStates', x) <=>
                Has(dirtyStates, x) \/ (x \in InFrame(Top) /\ x \notin dirty)
  BY <1>8, <1>10, <1>12
<1> QED BY <1>1, <1>2, <1>3, <1>5, <1>6, <1>9, <1>12, <1>13

\* The states RsPop restores are dirty and listed, those that were before only once.
LEMMA RsPopSync ==
  ASSUME TypeOK, SyncInv, RsPop
  PROVE  SyncInv'
<1> USE DEF SyncInv
<1>1. /\ sync = 0 /\ sync' = 0 /\ hw' = hw /\ deviceStates' = deviceStates
      /\ device' = device /\ context' = context /\ dirty' = dirty \cup InFrame(Top)
      /\ \A x \in States : x \notin InFrame(Top) => value'[x] = value[x]
  BY DEF RsPop, deviceVars, TypeOK, Top
<1>2. \A x \in States : Listed(x)' <=> Listed(x) \/ x \in InFrame(Top)
  <2>1. \A x \in States : Listed(x) <=> x \in dirty
    BY <1>1 DEF DirtyIsListed
  <2> QED BY <2>1, <1>1, RsPopFacts DEF Listed, Pending, Has
<1>3. DirtyIsListed'
  BY <1>1, <1>2, RsPopFacts DEF DirtyIsListed, TypeOK
<1>4. \A x \in States : x \notin dirty => hw[x] = value[x]
  BY <1>1 DEF DirtyIsListed
<1>5. ASSUME NEW d \in DeviceStates, Sent(d)
      PROVE  Sent(d)'
  BY <1>1, <1>4, <1>5, DeviceStatesPartition DEF Sent
<1>6. DeviceIsKnown'
  BY <1>1, <1>5 DEF DeviceIsKnown, Forced
<1>7. CacheIsTrue'
  BY <1>1 DEF CacheIsTrue, DeviceValues
<1> QED BY <1>3, <1>6, <1>7

\* Each frame starts where the one below it ends.
FramesAreOrdered ==
  \A i, j \in 1..Len(offsets) : i <= j => offsets[i] <= offsets[j]

\* RsPop keeps the types.
LEMMA RsPopType ==
  ASSUME TypeOK, FramesAreOrdered, RsPop
  PROVE  TypeOK'
<1> DEFINE T == [which : States, value : Values, depth : 0..MaxDepth]
<1>1. /\ Top \in 0..Len(pushed) /\ Len(pushed) \in Nat
      /\ Len(offsets) \in Nat \ {0} /\ InFrame(Top) \subseteq States
      /\ \A i \in 1..Len(pushed) : pushed[i] \in T
      /\ \A s \in InFrame(Top) : Oldest(Top, s) \in 1..Len(pushed)
      /\ dirtyStates' \in Seq(States) /\ dirty' = dirty \cup InFrame(Top)
  BY RsPopFacts
<1>2. /\ \A i \in 1..Len(pushed) : pushed[i].value \in Values /\ pushed[i].depth \in 0..MaxDepth
      /\ sync = 0 /\ sync' = 0
  BY <1>1 DEF RsPop
<1>3. /\ pushed' \in Seq(T) /\ Len(pushed') = Top
  <2>1. pushed' = SubSeq(pushed, 1, Top)
    BY DEF RsPop, Top
  <2>2. pushed \in Seq(T)
    BY DEF TypeOK
  <2> HIDE DEF T
  <2> QED BY <1>1, <2>1, <2>2, SubSeqProperties
<1>4. /\ offsets' \in Seq(0..Len(pushed)) /\ Len(offsets') = Len(offsets) - 1
      /\ \A i \in 1..Len(offsets') : offsets'[i] = offsets[i]
  <2>1. offsets' = SubSeq(offsets, 1, Len(offsets) - 1) /\ offsets \in Seq(0..Len(pushed))
    BY DEF RsPop, TypeOK
  <2> DEFINE n == Len(offsets) - 1
  <2>2. n \in 0..Len(offsets) /\ 1 \in 1..(Len(offsets) + 1) /\ n - 1 + 1 = n
    BY <1>1
  <2>3. offsets' = SubSeq(offsets, 1, n)
    BY <2>1
  <2> HIDE DEF n
  <2>4. /\ offsets' \in Seq(0..Len(pushed)) /\ Len(offsets') = n
        /\ \A i \in 1..n : offsets'[i] = offsets[i]
    BY SMTT(30), <1>1, <2>1, <2>2, <2>3, SubSeqProperties
  <2> QED BY <2>4 DEF n
<1>5. offsets' \in Seq(0..Len(pushed'))
  <2>1. \A i \in 1..Len(offsets') : offsets'[i] \in 0..Len(pushed')
    <3> TAKE i \in 1..Len(offsets')
    <3>1. i \in 1..Len(offsets) /\ Len(offsets) \in 1..Len(offsets) /\ i <= Len(offsets)
      BY <1>1, <1>4
    <3>2. offsets'[i] = offsets[i] /\ offsets[i] <= offsets[Len(offsets)]
      BY <1>4, <3>1 DEF FramesAreOrdered
    <3>3. offsets[i] \in Nat
      BY <1>1, <3>1, ElementOfSeq DEF TypeOK
    <3> QED BY <1>1, <1>3, <3>2, <3>3 DEF Top
  <2>2. offsets' \in [1..Len(offsets') -> 0..Len(pushed')] /\ Len(offsets') \in Nat
    BY <1>1, <1>4, <2>1, LenProperties
  <2> QED BY <2>2, SeqDef
<1>6. value' \in [States -> Values] /\ depth' \in [States -> 0..MaxDepth]
  <2>1. /\ value' = [s \in States |-> IF s \in InFrame(Top) THEN pushed[Oldest(Top, s)].value
                                      ELSE value[s]]
        /\ depth' = [s \in States |-> IF s \in InFrame(Top) THEN pushed[Oldest(Top, s)].depth
                                      ELSE depth[s]]
    BY DEF RsPop, Top
  <2> QED BY <1>1, <1>2, <2>1 DEF TypeOK
<1>7. Len(offsets') <= MaxDepth
  BY <1>1, <1>4, RenderStateAssumption DEF TypeOK
<1>8. dirty' \subseteq States /\ sync' \in 0..Len(dirtyStates')
  BY <1>1, <1>2, LenProperties DEF TypeOK
<1> QED BY <1>1, <1>3, <1>5, <1>6, <1>7, <1>8 DEF TypeOK, RsPop, deviceVars

-----------------------------------------------------------------------------
(* Synchronising with the device                                           *)

\* The start of a synchronisation keeps the types.
LEMMA DrawType == TypeOK /\ Draw => TypeOK'
<1> SUFFICES ASSUME TypeOK, Draw PROVE TypeOK'
  OBVIOUS
<1>1. Len(dirtyStates) \in Nat
  BY LenProperties DEF TypeOK
<1> QED BY <1>1 DEF Draw, TypeOK, stackVars, deviceVars

\* The start of a synchronisation changes no value.
LEMMA DrawSync == TypeOK /\ SyncInv /\ Draw => SyncInv'
<1> SUFFICES ASSUME TypeOK, SyncInv, Draw PROVE SyncInv'
  OBVIOUS
<1>1. Len(dirtyStates) \in Nat \ {0}
  BY LenProperties, EmptySeq DEF TypeOK, Draw
<1> QED BY <1>1 DEF Draw, stackVars, deviceVars, SyncInv, CacheIsTrue, DeviceValues,
     DirtyIsListed, Listed, Pending, DeviceIsKnown, Sent, Forced

\* A turn of IRsSync, for the device state d of the state s it is at.
Turn(s, d) ==
  /\ sync \in Nat \ {0} /\ s = dirtyStates[sync] /\ s \in d /\ d \subseteq States
  /\ hw' = [hw EXCEPT ![s] = value[s]]
  /\ \/ /\ s \in dirty /\ value[s] # hw[s]
        /\ deviceStates' = [deviceStates EXCEPT ![d] = Made(d)]
        /\ dirty' = dirty \ d
     \/ /\ ~(s \in dirty /\ value[s] # hw[s])
        /\ deviceStates' = deviceStates /\ dirty' = dirty \ {s}
  /\ device' = deviceStates'
  /\ deviceStates' \in [DeviceStates -> DeviceValues]

\* One turn of IRsSync sends the device state of one dirty state, or finds it as it was.
LEMMA SyncStepFacts ==
  ASSUME TypeOK, SyncInv, SyncStep
  PROVE  \E s \in States, d \in DeviceStates : Turn(s, d)
<1> DEFINE s == dirtyStates[sync]
           d == DeviceState(s)
<1>1. sync \in 1..Len(dirtyStates) /\ Len(dirtyStates) \in Nat
  BY LenProperties DEF TypeOK, SyncStep
<1>2. s \in States
  BY <1>1, ElementOfSeq DEF TypeOK
<1>3. d \in DeviceStates /\ s \in d /\ d \subseteq States
  BY <1>2, DeviceStatesPartition
<1>4. Made(d) \in DeviceValues
  BY <1>3, MadeType
<1>5. hw' = [hw EXCEPT ![s] = value[s]]
  BY DEF SyncStep
<1>6. CASE s \in dirty /\ value[s] # hw[s]
  <2>1. IRsSendToHw(d) /\ dirty' = dirty \ d
    BY <1>6 DEF SyncStep
  <2> HIDE DEF s, d
  <2>2. deviceStates' = [deviceStates EXCEPT ![d] = Made(d)]
    BY <2>1 DEF IRsSendToHw
  <2>3. device' = deviceStates'
    BY <1>3, <2>1, <2>2 DEF IRsSendToHw, SyncInv, CacheIsTrue
  <2>4. deviceStates' \in [DeviceStates -> DeviceValues]
    BY <1>3, <1>4, <2>2 DEF SyncInv, CacheIsTrue
  <2>5. sync \in Nat \ {0} /\ s = dirtyStates[sync]
    BY <1>1 DEF s
  <2>6. Turn(s, d)
    BY <1>3, <1>5, <1>6, <2>1, <2>2, <2>3, <2>4, <2>5 DEF Turn
  <2> QED BY <1>2, <1>3, <2>6
<1>7. CASE ~(s \in dirty /\ value[s] # hw[s])
  <2>1. deviceStates' = deviceStates /\ device' = device /\ dirty' = dirty \ {s}
    BY <1>7 DEF SyncStep, deviceVars
  <2> HIDE DEF s, d
  <2>2. device' = deviceStates' /\ deviceStates' \in [DeviceStates -> DeviceValues]
    BY <2>1 DEF SyncInv, CacheIsTrue
  <2>3. sync \in Nat \ {0} /\ s = dirtyStates[sync]
    BY <1>1 DEF s
  <2>4. Turn(s, d)
    BY <1>3, <1>5, <1>7, <2>1, <2>2, <2>3 DEF Turn
  <2> QED BY <1>2, <1>3, <2>4
<1> HIDE DEF s, d
<1> QED BY <1>6, <1>7

\* One turn of IRsSync keeps the types.
LEMMA SyncStepType ==
  ASSUME TypeOK, SyncInv, SyncStep
  PROVE  TypeOK'
<1>1. PICK s \in States, d \in DeviceStates :
        /\ sync \in Nat \ {0} /\ hw' = [hw EXCEPT ![s] = value[s]]
        /\ dirty' = dirty \ d \/ dirty' = dirty \ {s}
        /\ device' = deviceStates'
        /\ deviceStates' = [deviceStates EXCEPT ![d] = Made(d)] \/ deviceStates' = deviceStates
  BY SyncStepFacts DEF Turn
<1>2. hw' \in [States -> Values \cup {Inverted}] /\ dirty' \subseteq States
  BY <1>1 DEF TypeOK
<1>3. \A e \in DeviceStates : deviceStates'[e] \in [e -> Values] \cup {Unknown}
  <2> TAKE e \in DeviceStates
  <2>1. deviceStates'[e] = deviceStates[e] \/ deviceStates'[e] = Made(e)
    BY <1>1 DEF SyncInv, CacheIsTrue
  <2>2. Made(e) \in [e -> Values]
    BY MadeType
  <2> QED BY <2>1, <2>2 DEF TypeOK
<1>4. dirtyStates' \in Seq(States) /\ sync' \in 0..Len(dirtyStates')
  <2>1. Len(dirtyStates) \in Nat
    BY LenProperties DEF TypeOK
  <2> QED BY <1>1, <2>1 DEF SyncStep, TypeOK
<1> QED BY <1>1, <1>2, <1>3, <1>4 DEF SyncStep, TypeOK, stackVars

\* After its turn a state is as it was sent; the other states of its device state
\* are sent with it and keep their turns.
LEMMA SyncStepSync ==
  ASSUME TypeOK, SyncInv, SyncStep
  PROVE  SyncInv'
<1>1. PICK s \in States, d \in DeviceStates :
        /\ sync \in Nat \ {0} /\ s = dirtyStates[sync] /\ s \in d /\ d \subseteq States
        /\ hw' = [hw EXCEPT ![s] = value[s]]
        /\ \/ /\ s \in dirty /\ value[s] # hw[s]
              /\ deviceStates' = [deviceStates EXCEPT ![d] = Made(d)]
              /\ dirty' = dirty \ d
           \/ /\ ~(s \in dirty /\ value[s] # hw[s])
              /\ deviceStates' = deviceStates /\ dirty' = dirty \ {s}
        /\ device' = deviceStates'
        /\ deviceStates' \in [DeviceStates -> DeviceValues]
  BY SyncStepFacts DEF Turn
<1>2. value' = value /\ context' = context /\ sync' = sync - 1
  BY DEF SyncStep
<1>3. \A x \in States : Listed(x) => x = s \/ Listed(x)'
  <2>1. CASE sync = 1
    BY <1>1, <1>2, <2>1 DEF Listed, Pending
  <2>2. CASE sync # 1
    <3>1. dirtyStates' = dirtyStates
      BY <2>2 DEF SyncStep
    <3> QED BY <1>1, <1>2, <2>2, <3>1 DEF Listed, Pending
  <2> QED BY <2>1, <2>2
<1>4. s \notin dirty' /\ dirty' \subseteq dirty
  BY <1>1
<1>5. hw'[s] = value[s] /\ \A x \in States : x # s => hw'[x] = hw[x]
  BY <1>1 DEF TypeOK
<1>6. DirtyIsListed'
  <2>1. \A x \in dirty' : Listed(x)'
    BY <1>3, <1>4 DEF SyncInv, DirtyIsListed, TypeOK
  <2>2. \A x \in States : ~Listed(x)' => hw'[x] = value'[x]
    BY <1>2, <1>3, <1>5 DEF SyncInv, DirtyIsListed
  <2>3. sync' = 0 => dirtyStates' = <<>>
    BY <1>1, <1>2 DEF SyncStep
  <2>4. sync' = 0 => \A x \in States : ~Listed(x)'
    BY <2>3 DEF Listed, Pending
  <2> QED BY <2>1, <2>2, <2>4 DEF DirtyIsListed
<1>7. ASSUME context, NEW e \in DeviceStates
      PROVE  Sent(e)' \/ Forced(e)'
  <2>0. /\ Sent(e) \/ Forced(e)
        /\ device = deviceStates /\ deviceStates \in [DeviceStates -> DeviceValues]
    BY <1>7 DEF SyncInv, DeviceIsKnown, CacheIsTrue
  <2>1. CASE e = d /\ s \in dirty /\ value[s] # hw[s]
    <3>1. device'[e] = Made(e) /\ dirty' = dirty \ e
      BY <1>1, <2>0, <2>1
    <3>2. Made(e) \in [e -> Values] /\ \A x \in e : Made(e)[x] = value[x]
      BY MadeType DEF Made
    <3> QED BY <1>2, <3>1, <3>2 DEF Sent
  <2>2. CASE e = d /\ ~(s \in dirty /\ value[s] # hw[s])
    <3>1. device' = device /\ dirty' = dirty \ {s}
      BY <1>1, <2>0, <2>2
    <3>2. value[s] # Inverted
      BY RenderStateAssumption DEF TypeOK
    <3>3. ~Forced(e)
      BY <1>1, <2>2, <3>2 DEF Forced
    <3>4. Sent(e)
      BY <2>0, <3>3
    <3>5. \A x \in e : x \in States
      BY <1>1, <2>2
    <3> QED BY <1>2, <1>5, <2>2, <3>1, <3>4, <3>5 DEF Sent
  <2>3. CASE e # d
    <3>1. \A x \in e : x \in States /\ x \notin d /\ x # s
      BY <1>1, <2>3, DeviceStatesPartition
    <3>2. device'[e] = device[e] /\ \A x \in e : x \in dirty' <=> x \in dirty
      BY <1>1, <2>0, <2>3, <3>1
    <3> QED BY <1>2, <1>5, <2>0, <3>1, <3>2 DEF Sent, Forced
  <2> QED BY <2>1, <2>2, <2>3
<1>8. DeviceIsKnown'
  BY <1>2, <1>7 DEF DeviceIsKnown
<1>9. CacheIsTrue'
  BY <1>1 DEF CacheIsTrue, DeviceValues
<1> QED BY <1>6, <1>8, <1>9 DEF SyncInv

-----------------------------------------------------------------------------
(* Losing and resetting the device                                         *)

\* Losing the device changes no state.
LEMMA PresentFailsStep == TypeOK /\ SyncInv /\ PresentFails => TypeOK' /\ SyncInv'
BY DEF PresentFails, TypeOK, stackVars, deviceVars, SyncInv, CacheIsTrue, DeviceValues,
     DirtyIsListed, Listed, Pending, DeviceIsKnown, Sent, Forced

\* After a Reset nothing is known of any device state.
LEMMA DefaultsType ==
  /\ Defaults \in [DeviceStates -> DeviceValues]
  /\ \A d \in DeviceStates : Defaults[d] = Unknown
BY DEF Defaults, DeviceValues

\* A Reset makes every state dirty with a value it cannot have.
LEMMA ResetStep ==
  ASSUME TypeOK, SyncInv, Reset
  PROVE  TypeOK' /\ SyncInv'
<1>1. /\ dirtyStates' = dirtyStates \o AllStates /\ dirty' = States
      /\ hw' = [s \in States |-> Inverted] /\ sync' = Len(dirtyStates')
      /\ device' = Defaults /\ deviceStates' = Defaults /\ value' = value
  BY DEF Reset, IRsForceUpdate
<1>2. dirtyStates' \in Seq(States) /\ \A s \in States : Has(dirtyStates', s)
  BY <1>1, AllStatesFacts, ConcatFacts DEF TypeOK
<1>3. Len(dirtyStates') \in Nat
  BY <1>2, LenProperties
<1>4. TypeOK'
  BY <1>1, <1>2, <1>3, DefaultsType DEF Reset, TypeOK, stackVars
<1>5. \A s \in States : Listed(s)'
  BY <1>1, <1>2 DEF Listed, Pending, Has
<1>6. DirtyIsListed'
  BY <1>1, <1>5 DEF DirtyIsListed
<1>7. DeviceIsKnown'
  BY <1>1, DeviceStatesPartition DEF DeviceIsKnown, Forced
<1>8. CacheIsTrue'
  BY <1>1, DefaultsType DEF CacheIsTrue, DeviceValues
<1> QED BY <1>4, <1>6, <1>7, <1>8 DEF SyncInv

\* A Reset that fails releases the device, and the states are kept.
LEMMA ResetFailsStep ==
  ASSUME TypeOK, SyncInv, ResetFails
  PROVE  TypeOK' /\ SyncInv'
<1>1. TypeOK'
  BY DefaultsType DEF ResetFails, TypeOK, stackVars
<1>2. CacheIsTrue'
  BY DefaultsType DEF ResetFails, CacheIsTrue, DeviceValues
<1>3. DirtyIsListed' /\ DeviceIsKnown'
  BY DEF ResetFails, SyncInv, DirtyIsListed, Listed, Pending, DeviceIsKnown
<1> QED BY <1>1, <1>2, <1>3 DEF SyncInv

-----------------------------------------------------------------------------
(* The frames of the stack                                                 *)

\* Where frame k ends, and that s has an entry in it.
FrameEnd(k) == IF k = Len(offsets) THEN Len(pushed) ELSE offsets[k + 1]
InFrameOf(k, p) == offsets[k] < p /\ p <= FrameEnd(k)
SavedIn(s, k) == \E p \in 1..Len(pushed) : InFrameOf(k, p) /\ pushed[p].which = s

\* m_stackDepth of a state is the frame it was saved in last, and an entry keeps
\* the frame in which its state was saved before: a lower one, or 0.
DepthIsSaved ==
  \A s \in States : /\ depth[s] <= Len(offsets)
                    /\ depth[s] > 0 => SavedIn(s, depth[s])
EntriesAreSaved ==
  \A k \in 1..Len(offsets), p \in 1..Len(pushed) :
    InFrameOf(k, p) => /\ pushed[p].depth < k
                       /\ pushed[p].depth > 0 => SavedIn(pushed[p].which, pushed[p].depth)

FramesInv == FramesAreOrdered /\ DepthIsSaved /\ EntriesAreSaved

\* The types of the stack's entries.
LEMMA StackTypes ==
  ASSUME TypeOK
  PROVE  /\ Len(pushed) \in Nat /\ Len(offsets) \in Nat
         /\ \A i \in 1..Len(offsets) : offsets[i] \in Nat /\ offsets[i] <= Len(pushed)
         /\ \A p \in 1..Len(pushed) : /\ pushed[p].which \in States
                                      /\ pushed[p].value \in Values
                                      /\ pushed[p].depth \in Nat
         /\ \A s \in States : depth[s] \in Nat
<1> DEFINE T == [which : States, value : Values, depth : 0..MaxDepth]
<1>1. Len(pushed) \in Nat /\ Len(offsets) \in Nat
  BY LenProperties DEF TypeOK
<1>2. \A i \in 1..Len(offsets) : offsets[i] \in 0..Len(pushed)
  BY <1>1, ElementOfSeq DEF TypeOK
<1>3. \A p \in 1..Len(pushed) : pushed[p] \in T
  <2>1. pushed \in Seq(T)
    BY DEF TypeOK
  <2> HIDE DEF T
  <2> QED BY <2>1, ElementOfSeq
<1>4. \A s \in States : depth[s] \in Nat
  BY RenderStateAssumption DEF TypeOK
<1> QED BY <1>1, <1>2, <1>3, <1>4, RenderStateAssumption

\* What RsSet does to the stack.
Pushed(s) ==
  /\ depth[s] # Len(offsets)
  /\ Len(pushed') = Len(pushed) + 1
  /\ \A p \in 1..Len(pushed) : pushed'[p] = pushed[p]
  /\ pushed'[Len(pushed) + 1] = [which |-> s, value |-> value[s], depth |-> depth[s]]
  /\ depth' = [depth EXCEPT ![s] = Len(offsets)]

\* What RsSet saves.
LEMMA RsSetFacts ==
  ASSUME TypeOK, NEW s \in States, NEW v \in Values, RsSet(s, v)
  PROVE  /\ offsets' = offsets /\ value' = [value EXCEPT ![s] = v]
         /\ \/ Pushed(s)
            \/ depth[s] = Len(offsets) /\ pushed' = pushed /\ depth' = depth
<1>1. offsets' = offsets /\ value' = [value EXCEPT ![s] = v]
  BY DEF RsSet
<1>2. CASE depth[s] # Len(offsets)
  <2> DEFINE e == [which |-> s, value |-> value[s], depth |-> depth[s]]
             T == [which : States, value : Values, depth : 0..MaxDepth]
  <2>1. e \in T /\ pushed \in Seq(T)
    BY DEF TypeOK
  <2>2. pushed' = Append(pushed, e) /\ depth' = [depth EXCEPT ![s] = Len(offsets)]
    BY <1>2 DEF RsSet, IRsDirty
  <2> HIDE DEF e, T
  <2>3. /\ Len(pushed') = Len(pushed) + 1 /\ \A p \in 1..Len(pushed) : pushed'[p] = pushed[p]
        /\ pushed'[Len(pushed) + 1] = e
    BY <2>1, <2>2, AppendProperties
  <2> QED BY <1>1, <1>2, <2>2, <2>3 DEF Pushed, e
<1>3. CASE depth[s] = Len(offsets)
  BY <1>1, <1>3 DEF RsSet, IRsDirty
<1> QED BY <1>2, <1>3

\* RsSet saves a state once for each frame.
LEMMA RsSetFrames ==
  ASSUME TypeOK, FramesInv, NEW s \in States, NEW v \in Values, RsSet(s, v)
  PROVE  FramesInv'
<1>1. /\ offsets' = offsets
      /\ \/ Pushed(s)
         \/ depth[s] = Len(offsets) /\ pushed' = pushed /\ depth' = depth
  BY RsSetFacts
<1>2. CASE pushed' = pushed /\ depth' = depth
  BY <1>1, <1>2 DEF FramesInv, FramesAreOrdered, DepthIsSaved, EntriesAreSaved, SavedIn,
       InFrameOf, FrameEnd
<1>3. CASE Pushed(s)
  <2>0. PICK K \in Nat, N \in Nat : K = Len(offsets) /\ N = Len(pushed)
    BY StackTypes
  <2>1. /\ K \in Nat /\ N \in Nat /\ \A x \in States : depth[x] \in Nat /\ depth[x] <= K
        /\ \A i \in 1..K : offsets[i] \in Nat /\ offsets[i] <= N
        /\ \A p \in 1..N : pushed[p].which \in States /\ pushed[p].depth \in Nat
    BY <2>0, StackTypes DEF FramesInv, DepthIsSaved
  <2>2. /\ depth[s] < K /\ Len(pushed') = N + 1 /\ \A p \in 1..N : pushed'[p] = pushed[p]
        /\ pushed'[N + 1].which = s /\ pushed'[N + 1].depth = depth[s]
        /\ depth'[s] = K /\ \A x \in States : x # s => depth'[x] = depth[x]
    BY <1>3, <2>0, <2>1 DEF Pushed, TypeOK
  <2>3. FrameEnd(K) = N /\ FrameEnd(K)' = N + 1
    BY <1>1, <2>0, <2>2 DEF FrameEnd
  <2>4. \A k \in 1..K : k # K => FrameEnd(k)' = FrameEnd(k) /\ FrameEnd(k) <= N /\ FrameEnd(k) \in Nat
    BY <1>1, <2>0, <2>1 DEF FrameEnd
  <2>5. \A k \in 1..K, p \in 1..N : InFrameOf(k, p)' <=> InFrameOf(k, p)
    BY <1>1, <2>1, <2>3, <2>4 DEF InFrameOf
  <2>6. \A k \in 1..K, x \in States : SavedIn(x, k) => SavedIn(x, k)'
    BY <2>0, <2>1, <2>2, <2>5 DEF SavedIn
  <2>7. K \in 1..K /\ InFrameOf(K, N + 1)'
    BY <1>1, <2>1, <2>2, <2>3 DEF InFrameOf
  <2>8. SavedIn(s, K)'
    BY <2>1, <2>2, <2>7 DEF SavedIn
  <2>9. DepthIsSaved'
    BY <1>1, <2>0, <2>1, <2>2, <2>6, <2>8 DEF FramesInv, DepthIsSaved
  <2>10. ASSUME NEW k \in 1..K, NEW p \in 1..(N + 1), InFrameOf(k, p)'
         PROVE  /\ pushed'[p].depth < k
                /\ \A x \in States, d \in Nat :
                     pushed'[p].which = x /\ pushed'[p].depth = d /\ d > 0 => SavedIn(x, d)'
                /\ pushed'[p].which \in States /\ pushed'[p].depth \in Nat
    <3>1. CASE p \in 1..N
      <4>1. /\ pushed[p].depth < k
            /\ pushed[p].depth > 0 => SavedIn(pushed[p].which, pushed[p].depth)
        BY <2>0, <2>5, <2>10, <3>1 DEF FramesInv, EntriesAreSaved
      <4>2. pushed'[p] = pushed[p] /\ pushed[p].which \in States /\ pushed[p].depth \in Nat
        BY <2>1, <2>2, <3>1
      <4> QED BY <2>1, <2>6, <4>1, <4>2
    <3>2. CASE p = N + 1
      <4>1. k = K
        BY <2>1, <2>4, <2>10, <3>2 DEF InFrameOf
      <4>2. depth[s] > 0 => SavedIn(s, depth[s])
        BY DEF FramesInv, DepthIsSaved
      <4> QED BY <2>1, <2>2, <2>6, <3>2, <4>1, <4>2
    <3> QED BY <2>1, <3>1, <3>2
  <2>11. EntriesAreSaved'
    BY <1>1, <2>0, <2>2, <2>10 DEF EntriesAreSaved
  <2> QED BY <1>1, <2>9, <2>11 DEF FramesInv, FramesAreOrdered
<1> QED BY <1>1, <1>2, <1>3

\* RsPush opens an empty frame.
LEMMA RsPushFrames ==
  ASSUME TypeOK, FramesInv, RsPush
  PROVE  FramesInv'
<1>0. PICK K \in Nat, N \in Nat : K = Len(offsets) /\ N = Len(pushed)
  BY StackTypes
<1>1. /\ K \in Nat /\ N \in Nat /\ \A x \in States : depth[x] \in Nat /\ depth[x] <= K
      /\ \A i \in 1..K : offsets[i] \in Nat /\ offsets[i] <= N
      /\ \A p \in 1..N : pushed[p].which \in States /\ pushed[p].depth \in Nat
  BY <1>0, StackTypes DEF FramesInv, DepthIsSaved
<1>2. /\ Len(offsets') = K + 1 /\ offsets'[K + 1] = N /\ pushed' = pushed /\ depth' = depth
      /\ \A i \in 1..K : offsets'[i] = offsets[i]
  <2>1. offsets \in Seq(0..N) /\ N \in 0..N /\ offsets' = Append(offsets, N)
    BY <1>0, <1>1 DEF TypeOK, RsPush
  <2> QED BY <1>0, <2>1, AppendProperties DEF RsPush
<1>3. \A k \in 1..K : FrameEnd(k)' = FrameEnd(k)
  BY <1>0, <1>1, <1>2 DEF FrameEnd
<1>4. FrameEnd(K + 1)' = N
  BY <1>0, <1>1, <1>2 DEF FrameEnd
<1>5. \A k \in 1..K, p \in 1..N : InFrameOf(k, p)' <=> InFrameOf(k, p)
  BY <1>0, <1>2, <1>3 DEF InFrameOf
<1>6. \A k \in 1..K, x \in States : SavedIn(x, k) => SavedIn(x, k)'
  BY <1>0, <1>2, <1>5 DEF SavedIn
<1>7. \A p \in 1..N : ~InFrameOf(K + 1, p)'
  BY <1>1, <1>2, <1>4 DEF InFrameOf
<1>8. DepthIsSaved'
  BY <1>0, <1>1, <1>2, <1>6 DEF FramesInv, DepthIsSaved
<1>9. FramesAreOrdered'
  BY <1>0, <1>1, <1>2 DEF FramesInv, FramesAreOrdered
<1>10. ASSUME NEW k \in 1..(K + 1), NEW p \in 1..N, InFrameOf(k, p)'
       PROVE  /\ pushed[p].depth < k
              /\ \A x \in States, d \in Nat :
                   pushed[p].which = x /\ pushed[p].depth = d /\ d > 0 => SavedIn(x, d)'
  <2>1. k \in 1..K /\ InFrameOf(k, p)
    BY <1>1, <1>5, <1>7, <1>10
  <2>2. /\ pushed[p].depth < k
        /\ pushed[p].depth > 0 => SavedIn(pushed[p].which, pushed[p].depth)
    BY <1>0, <2>1 DEF FramesInv, EntriesAreSaved
  <2> QED BY <1>1, <1>6, <2>1, <2>2
<1>11. EntriesAreSaved'
  BY <1>0, <1>1, <1>2, <1>10 DEF EntriesAreSaved
<1> QED BY <1>8, <1>9, <1>11 DEF FramesInv

\* What RsPop does to the stack.
LEMMA RsPopStack ==
  ASSUME TypeOK, RsPop
  PROVE  /\ Len(pushed') = Top /\ \A p \in 1..Top : pushed'[p] = pushed[p]
         /\ Len(offsets') = Len(offsets) - 1
         /\ \A i \in 1..Len(offsets') : offsets'[i] = offsets[i]
         /\ depth' = [s \in States |-> IF s \in InFrame(Top) THEN pushed[Oldest(Top, s)].depth
                                       ELSE depth[s]]
         /\ value' = [s \in States |-> IF s \in InFrame(Top) THEN pushed[Oldest(Top, s)].value
                                       ELSE value[s]]
<1>1. /\ Top \in 0..Len(pushed) /\ Len(pushed) \in Nat /\ Len(offsets) \in Nat \ {0}
  BY RsPopFacts
<1>2. Len(pushed') = Top /\ \A p \in 1..Top : pushed'[p] = pushed[p]
  <2> DEFINE T == [which : States, value : Values, depth : 0..MaxDepth]
  <2>1. pushed' = SubSeq(pushed, 1, Top)
    BY DEF RsPop, Top
  <2>2. pushed \in Seq(T)
    BY DEF TypeOK
  <2> HIDE DEF T
  <2> QED BY <1>1, <2>1, <2>2, SubSeqProperties
<1>3. /\ Len(offsets') = Len(offsets) - 1
      /\ \A i \in 1..Len(offsets') : offsets'[i] = offsets[i]
  <2>1. PICK n \in Nat : n = Len(offsets) - 1
    BY <1>1
  <2>2. n \in 0..Len(offsets) /\ 1 \in 1..(Len(offsets) + 1) /\ n - 1 + 1 = n
    BY <1>1, <2>1
  <2>3. offsets' = SubSeq(offsets, 1, n) /\ offsets \in Seq(0..Len(pushed))
    BY <2>1 DEF RsPop, TypeOK
  <2>4. Len(offsets') = n /\ \A i \in 1..n : offsets'[i] = offsets[i]
    BY <1>1, <2>2, <2>3, SubSeqProperties
  <2> QED BY <2>1, <2>4
<1> QED BY <1>2, <1>3 DEF RsPop, Top

\* RsPop gives each state back the depth it was saved with.
LEMMA RsPopFrames ==
  ASSUME TypeOK, FramesInv, RsPop
  PROVE  FramesInv'
<1>0. PICK K \in Nat, N \in Nat, t \in Nat : K = Len(offsets) /\ N = Len(pushed) /\ t = Top
  BY StackTypes, RsPopFacts
<1>1. /\ K # 0 /\ t <= N /\ t = offsets[K]
      /\ \A x \in States : depth[x] \in Nat /\ depth[x] <= K
      /\ \A i \in 1..K : offsets[i] \in Nat /\ offsets[i] <= t
      /\ \A p \in 1..N : pushed[p].which \in States /\ pushed[p].depth \in Nat
  BY <1>0, StackTypes, RsPopFacts DEF FramesInv, FramesAreOrdered, DepthIsSaved, Top
<1>2. /\ Len(offsets') = K - 1 /\ \A i \in 1..(K - 1) : offsets'[i] = offsets[i]
      /\ Len(pushed') = t /\ \A p \in 1..t : pushed'[p] = pushed[p]
  BY <1>0, RsPopStack
<1>3. \A k \in 1..(K - 1) : FrameEnd(k)' = FrameEnd(k) /\ FrameEnd(k) <= t
  BY <1>0, <1>1, <1>2 DEF FrameEnd
<1>4. \A k \in 1..(K - 1), p \in 1..t : InFrameOf(k, p)' <=> InFrameOf(k, p)
  BY <1>0, <1>1, <1>2, <1>3 DEF InFrameOf
<1>5. \A k \in 1..(K - 1), x \in States : SavedIn(x, k) => SavedIn(x, k)'
  <2> TAKE k \in 1..(K - 1), x \in States
  <2> HAVE SavedIn(x, k)
  <2>1. PICK p \in 1..N : InFrameOf(k, p) /\ pushed[p].which = x
    BY <1>0 DEF SavedIn
  <2>2. FrameEnd(k) \in Nat
    BY <1>0, <1>1 DEF FrameEnd
  <2>3. p \in 1..t
    BY <1>1, <1>3, <2>1, <2>2 DEF InFrameOf
  <2> QED BY <1>2, <1>4, <2>1, <2>3 DEF SavedIn
<1>6. \A p \in 1..N : InFrameOf(K, p) <=> p > t
  BY <1>0, <1>1 DEF InFrameOf, FrameEnd
<1>7. ASSUME NEW x \in States
      PROVE  /\ depth'[x] \in Nat /\ depth'[x] <= K - 1
             /\ \A d \in Nat : depth'[x] = d /\ d > 0 => SavedIn(x, d)'
  <2>1. CASE x \in InFrame(t)
    <3> DEFINE o == Oldest(t, x)
    <3>1. o \in Frame(t) /\ pushed[o].which = x
      BY <2>1, OldestFacts
    <3>2. depth'[x] = pushed[o].depth
      BY <1>0, <2>1, RsPopStack
    <3> HIDE DEF o
    <3>3. o \in 1..N /\ o > t
      BY <1>0, <1>1, <3>1 DEF Frame
    <3>4. pushed[o].depth < K /\ (pushed[o].depth > 0 => SavedIn(x, pushed[o].depth))
      BY <1>0, <1>1, <1>6, <3>1, <3>3 DEF FramesInv, EntriesAreSaved
    <3> QED BY <1>1, <1>5, <3>2, <3>3, <3>4
  <2>2. CASE x \notin InFrame(t)
    <3>1. depth'[x] = depth[x]
      BY <1>0, <2>2, RsPopStack
    <3>2. depth[x] > 0 => SavedIn(x, depth[x])
      BY DEF FramesInv, DepthIsSaved
    <3>3. ~SavedIn(x, K)
      BY <1>0, <1>1, <1>6, <2>2 DEF SavedIn, InFrame, Frame
    <3>4. depth[x] # K
      BY <1>1, <3>2, <3>3
    <3> QED BY <1>1, <1>5, <3>1, <3>2, <3>4
  <2> QED BY <2>1, <2>2
<1>8. DepthIsSaved'
  BY <1>2, <1>7 DEF DepthIsSaved
<1>9. ASSUME NEW k \in 1..(K - 1), NEW p \in 1..t, InFrameOf(k, p)'
      PROVE  /\ pushed[p].depth < k
             /\ \A x \in States, d \in Nat :
                  pushed[p].which = x /\ pushed[p].depth = d /\ d > 0 => SavedIn(x, d)'
  <2>1. k \in 1..K /\ p \in 1..N /\ InFrameOf(k, p)
    BY <1>1, <1>4, <1>9
  <2>2. /\ pushed[p].depth < k
        /\ pushed[p].depth > 0 => SavedIn(pushed[p].which, pushed[p].depth)
    BY <1>0, <2>1 DEF FramesInv, EntriesAreSaved
  <2> QED BY <1>1, <1>5, <2>1, <2>2
<1>10. EntriesAreSaved'
  <2>1. \A p \in 1..t : pushed[p].which \in States /\ pushed[p].depth \in Nat
    BY <1>1
  <2> QED BY <1>2, <1>9, <2>1 DEF EntriesAreSaved
<1>11. FramesAreOrdered'
  <2>1. \A i \in 1..(K - 1) : i \in 1..K
    BY <1>1
  <2>2. \A i, j \in 1..K : i <= j => offsets[i] <= offsets[j]
    BY <1>0 DEF FramesInv, FramesAreOrdered
  <2> QED BY <1>2, <2>1, <2>2 DEF FramesAreOrdered
<1> QED BY <1>8, <1>10, <1>11 DEF FramesInv

-----------------------------------------------------------------------------
(* The inductive invariant                                                 *)

IInv == TypeOK /\ SyncInv /\ FramesInv

\* The inductive invariant holds at the start.
LEMMA InitInv == Init => IInv
<1>1. Init => FramesInv
  BY DEF Init, FramesInv, FramesAreOrdered, DepthIsSaved, EntriesAreSaved
<1> QED BY <1>1, InitSync DEF IInv

\* Steps that leave the stack alone keep what is known of it.
LEMMA Unmoved == UNCHANGED <<stackVars, depth>> => (FramesInv => FramesInv')
BY DEF stackVars, FramesInv, FramesAreOrdered, DepthIsSaved, EntriesAreSaved, SavedIn,
       InFrameOf, FrameEnd

\* Every step keeps the inductive invariant.
LEMMA NextInv == IInv /\ [Next]_vars => IInv'
<1> SUFFICES ASSUME IInv, [Next]_vars PROVE IInv'
  OBVIOUS
<1> USE DEF IInv
<1>1. ASSUME NEW s \in States, NEW v \in Values, RsSet(s, v) PROVE IInv'
  BY <1>1, RsSetType, RsSetSync, RsSetFrames
<1>2. CASE RsPush
  BY <1>2, RsPushType, RsPushSync, RsPushFrames
<1>3. CASE RsPop
  BY <1>3, RsPopType, RsPopSync, RsPopFrames DEF FramesInv
<1>4. CASE Draw
  BY <1>4, DrawType, DrawSync, Unmoved DEF Draw
<1>5. CASE SyncStep
  BY <1>5, SyncStepType, SyncStepSync, Unmoved DEF SyncStep
<1>6. CASE PresentFails
  BY <1>6, PresentFailsStep, Unmoved DEF PresentFails
<1>7. CASE Reset
  BY <1>7, ResetStep, Unmoved DEF Reset
<1>8. CASE ResetFails
  BY <1>8, ResetFailsStep, Unmoved DEF ResetFails
<1>9. CASE UNCHANGED vars
  <2>1. FramesInv'
    BY <1>9, Unmoved DEF vars
  <2>2. SyncInv'
    BY <1>9 DEF vars, deviceVars, SyncInv, CacheIsTrue, DeviceValues, DirtyIsListed, Listed,
         Pending, DeviceIsKnown, Sent, Forced
  <2> QED BY <1>9, <2>1, <2>2 DEF vars, stackVars, deviceVars, TypeOK
<1> QED BY <1>1, <1>2, <1>3, <1>4, <1>5, <1>6, <1>7, <1>8, <1>9 DEF Next

\* The inductive invariant holds throughout.
LEMMA Invariance == Spec => []IInv
BY InitInv, NextInv, PTL DEF Spec

(* Every field of the render states keeps its type.                        *)
THEOREM TypeCorrect == Spec => []TypeOK
<1>1. IInv => TypeOK
  BY DEF IInv
<1> QED BY <1>1, Invariance, PTL

(* What is drawn is drawn with the current states: after a synchronisation *)
(* the device has every current value, whatever was set, restored or reset *)
(* before.                                                                 *)
THEOREM DeviceIsCurrent == Spec => []DeviceAgrees
<1>1. IInv => DeviceAgrees
  <2> SUFFICES ASSUME IInv, context, sync = 0, dirtyStates = <<>>, NEW d \in DeviceStates
               PROVE  device[d] = Made(d)
    BY DEF DeviceAgrees
  <2>1. dirty = {}
    BY DEF IInv, TypeOK, SyncInv, DirtyIsListed, Listed, Pending
  <2>2. Sent(d)
    BY <2>1, DeviceStatesPartition DEF IInv, SyncInv, DeviceIsKnown, Forced
  <2>3. device[d] \in [d -> Values] /\ \A s \in d : device[d][s] = value[s]
    BY <2>1, <2>2 DEF Sent
  <2> QED BY <2>3 DEF Made
<1> QED BY <1>1, Invariance, PTL

-----------------------------------------------------------------------------
(* The device implements a stack of complete sets of states                *)

\* The entry that is saved first for s, in a primed state too.
IsOldest(top, s, m) ==
  /\ m \in Frame(top) /\ pushed[m].which = s
  /\ \A j \in Frame(top) : pushed[j].which = s => m <= j

OneIsOldest ==
  \A top \in Nat, s \in States, m \in Nat :
    IsOldest(top, s, m) => s \in InFrame(top) /\ Oldest(top, s) = m

\* The first entry of a state in a frame is the one Oldest names.
LEMMA OldestIsUnique == TypeOK => OneIsOldest
<1> SUFFICES ASSUME TypeOK, NEW top \in Nat, NEW s \in States, NEW m \in Nat,
                    IsOldest(top, s, m)
             PROVE  s \in InFrame(top) /\ Oldest(top, s) = m
  BY DEF OneIsOldest
<1>1. s \in InFrame(top)
  BY DEF IsOldest, InFrame
<1>2. /\ Oldest(top, s) \in Frame(top) /\ pushed[Oldest(top, s)].which = s
      /\ \A j \in Frame(top) : pushed[j].which = s => Oldest(top, s) <= j
  BY <1>1, OldestFacts
<1>3. Frame(top) \subseteq Nat
  BY StackTypes DEF Frame
<1> QED BY <1>1, <1>2, <1>3 DEF IsOldest

\* What frame i brings back of s.
Brought(i, s) == IF s \in InFrame(offsets[i]) THEN pushed[Oldest(offsets[i], s)].value
                 ELSE value[s]

\* RsSet is Set of the abstract stack.
LEMMA StackSet ==
  ASSUME TypeOK, TypeOK', FramesInv, NEW s \in States, NEW v \in Values, RsSet(s, v)
  PROVE  Stack!Set(s, v)
<1>0. PICK K \in Nat, N \in Nat : K = Len(offsets) /\ N = Len(pushed)
  BY StackTypes
<1>1. /\ offsets' = offsets /\ value' = [value EXCEPT ![s] = v]
      /\ \/ Pushed(s)
         \/ depth[s] = K /\ pushed' = pushed /\ depth' = depth
      /\ \A i \in 1..K : offsets[i] \in Nat /\ offsets[i] <= N
  BY <1>0, RsSetFacts, StackTypes
<1>2. /\ value'[s] = v /\ \A x \in States : x # s => value'[x] = value[x]
  BY <1>1 DEF TypeOK
<1> OneIsOldest'
  BY OldestIsUnique, PTL
<1>3. ASSUME NEW i \in 1..K, NEW x \in States
      PROVE  Brought(i, x)' = Brought(i, x)
  <2>1. PICK o \in Nat : o = offsets[i] /\ o <= N /\ o = offsets'[i]
    BY <1>1
  <2>2. CASE x \in InFrame(o)
    <3>1. PICK m \in Nat : m = Oldest(o, x) /\ IsOldest(o, x, m)
      BY <1>0, <2>2, OldestFacts DEF IsOldest, Frame
    <3>2. /\ m \in (o + 1)..N /\ pushed'[m] = pushed[m] /\ IsOldest(o, x, m)'
      BY SMTT(30), <1>0, <1>1, <3>1 DEF IsOldest, Frame, Pushed
    <3>3. x \in InFrame(o)' /\ Oldest(o, x)' = m
      BY <3>2 DEF OneIsOldest
    <3> QED BY <2>1, <2>2, <3>1, <3>2, <3>3 DEF Brought
  <2>3. CASE x \notin InFrame(o) /\ x # s
    <3>1. x \notin InFrame(o)'
      BY <1>0, <1>1, <2>1, <2>3 DEF InFrame, Frame, Pushed
    <3> QED BY <1>2, <2>1, <2>3, <3>1 DEF Brought
  <2>4. CASE x \notin InFrame(o) /\ x = s
    <3>1. depth[s] # K
      <4>1. SUFFICES ASSUME depth[s] = K PROVE FALSE
        OBVIOUS
      <4>2. K \in 1..K /\ SavedIn(s, K)
        BY <1>0, <4>1 DEF FramesInv, DepthIsSaved
      <4>3. PICK p \in 1..N : offsets[K] < p /\ pushed[p].which = s
        BY <1>0, <4>2 DEF SavedIn, InFrameOf
      <4>4. o <= offsets[K]
        <5>1. i <= K /\ \A j, k \in 1..K : j <= k => offsets[j] <= offsets[k]
          BY <1>0 DEF FramesInv, FramesAreOrdered
        <5> QED BY <2>1, <4>2, <5>1
      <4>5. p \in Frame(o)
        BY <1>0, <1>1, <2>1, <4>2, <4>3, <4>4 DEF Frame
      <4> QED BY <2>4, <4>3, <4>5 DEF InFrame
    <3>2. Pushed(s)
      BY <1>1, <3>1
    <3>3. /\ Len(pushed') = N + 1 /\ pushed'[N + 1].which = s
          /\ pushed'[N + 1].value = value[s] /\ \A p \in 1..N : pushed'[p] = pushed[p]
      BY <1>0, <3>2 DEF Pushed
    <3>4. IsOldest(o, s, N + 1)'
      BY <1>0, <2>1, <2>4, <3>3 DEF IsOldest, InFrame, Frame
    <3>5. s \in InFrame(o)' /\ Oldest(o, s)' = N + 1
      BY <1>0, <3>4 DEF OneIsOldest
    <3> QED BY <2>1, <2>4, <3>3, <3>5 DEF Brought
  <2> QED BY <2>2, <2>3, <2>4
<1>4. \A i \in 1..K : Saved(i)' = Saved(i)
  <2>1. \A i : Saved(i)' = [x \in States |-> Brought(i, x)']
    BY DEF Saved, Brought
  <2>2. \A i : Saved(i) = [x \in States |-> Brought(i, x)]
    BY DEF Saved, Brought
  <2> QED BY <1>3, <2>1, <2>2
<1> QED BY <1>0, <1>1, <1>4 DEF Stack!Set

\* RsPush is Push of the abstract stack.
LEMMA StackPush ==
  ASSUME TypeOK, TypeOK', RsPush
  PROVE  Stack!Push
<1>0. PICK K \in Nat, N \in Nat : K = Len(offsets) /\ N = Len(pushed)
  BY StackTypes
<1>1. /\ Len(offsets') = K + 1 /\ offsets'[K + 1] = N /\ pushed' = pushed /\ value' = value
      /\ \A i \in 1..K : offsets'[i] = offsets[i]
  <2>1. offsets \in Seq(0..N) /\ N \in 0..N /\ offsets' = Append(offsets, N)
    BY <1>0 DEF TypeOK, RsPush
  <2> QED BY <1>0, <2>1, AppendProperties DEF RsPush
<1>2. \A i \in 1..K : Saved(i)' = Saved(i)
  <2>1. \A o : InFrame(o)' = InFrame(o) /\ \A s : Oldest(o, s)' = Oldest(o, s)
    BY <1>1 DEF InFrame, Oldest, Frame
  <2> QED BY <1>1, <2>1 DEF Saved
<1>3. Saved(K + 1)' = value
  <2>1. InFrame(N)' = {}
    BY <1>0, <1>1 DEF InFrame, Frame
  <2>2. Saved(K + 1)' = [s \in States |-> value[s]]
    BY <1>1, <2>1 DEF Saved
  <2> QED BY <2>2 DEF TypeOK
<1> DEFINE old == [i \in 1..Len(offsets) |-> Saved(i)]
           new == [i \in 1..Len(offsets') |-> Saved(i)']
<1>4. old \in Seq([States -> Values]) /\ Len(old) = K
  <2>1. \A i \in 1..K : Saved(i) \in [States -> Values]
    <3> TAKE i \in 1..K
    <3>1. offsets[i] \in Nat
      BY <1>0, StackTypes
    <3>2. ASSUME NEW s \in InFrame(offsets[i])
          PROVE  pushed[Oldest(offsets[i], s)].value \in Values
      <4>1. Oldest(offsets[i], s) \in Frame(offsets[i])
        BY <3>1, <3>2, OldestFacts
      <4>2. Oldest(offsets[i], s) \in 1..N
        BY <1>0, <3>1, <4>1 DEF Frame
      <4> QED BY <1>0, <4>2, StackTypes
    <3> QED BY <3>2 DEF Saved, TypeOK
  <2>2. old \in [1..K -> [States -> Values]]
    BY <1>0, <2>1
  <2> QED BY <2>2, SeqDef, LenProperties
<1>5. new = Append(old, value)
  <2>1. /\ Len(Append(old, value)) = K + 1 /\ Append(old, value)[K + 1] = value
        /\ \A i \in 1..K : Append(old, value)[i] = old[i]
        /\ Append(old, value) \in Seq([States -> Values])
    BY <1>4, AppendProperties DEF TypeOK
  <2>2. /\ Append(old, value) = [i \in 1..(K + 1) |-> Append(old, value)[i]]
    BY <2>1, LenProperties
  <2>3. \A i \in 1..(K + 1) : Append(old, value)[i] = Saved(i)'
    BY <1>0, <1>2, <1>3, <2>1
  <2>4. new = [i \in 1..(K + 1) |-> Saved(i)']
    BY <1>1
  <2> HIDE DEF old, new
  <2> QED BY <2>2, <2>3, <2>4
<1> QED BY <1>1, <1>5 DEF Stack!Push

\* RsPop is Pop of the abstract stack.
LEMMA StackPop ==
  ASSUME TypeOK, TypeOK', FramesInv, RsPop
  PROVE  Stack!Pop
<1>0. PICK K \in Nat, N \in Nat, t \in Nat : K = Len(offsets) /\ N = Len(pushed) /\ t = Top
  BY StackTypes, RsPopFacts
<1>1. /\ K # 0 /\ t <= N /\ t = offsets[K]
      /\ \A i \in 1..K : offsets[i] \in Nat /\ offsets[i] <= t
  BY <1>0, StackTypes, RsPopFacts DEF FramesInv, FramesAreOrdered, Top
<1>2. /\ Len(offsets') = K - 1 /\ \A i \in 1..(K - 1) : offsets'[i] = offsets[i]
      /\ Len(pushed') = t /\ \A p \in 1..t : pushed'[p] = pushed[p]
      /\ value' = [s \in States |-> IF s \in InFrame(t) THEN pushed[Oldest(t, s)].value
                                    ELSE value[s]]
  BY <1>0, RsPopStack
<1>3. value' = Saved(K)
  BY <1>1, <1>2 DEF Saved
<1> OneIsOldest /\ OneIsOldest'
  BY OldestIsUnique, PTL
<1>4. ASSUME NEW i \in 1..(K - 1), NEW x \in States
      PROVE  Brought(i, x)' = Brought(i, x)
  <2>1. PICK o \in Nat : o = offsets[i] /\ o <= t /\ o = offsets'[i]
    BY <1>1, <1>2
  <2>2. CASE x \in InFrame(o) /\ x \in InFrame(o)'
    <3>1. PICK p \in 1..t : p > o /\ pushed[p].which = x
      <4>1. PICK p \in Frame(o)' : pushed'[p].which = x
        BY <2>2 DEF InFrame
      <4>2. p \in (o + 1)..t
        BY <1>2, <4>1 DEF Frame
      <4>3. p \in 1..t /\ p > o
        BY <1>0, <2>1, <4>2
      <4> QED BY <1>2, <4>1, <4>3
    <3>2. PICK m \in Nat : m = Oldest(o, x) /\ IsOldest(o, x, m)
      BY <1>0, <2>2, OldestFacts DEF IsOldest, Frame
    <3>3. m <= p
      BY <1>0, <1>1, <3>1, <3>2 DEF IsOldest, Frame
    <3>4. m \in (o + 1)..t /\ pushed'[m] = pushed[m]
      BY <1>0, <1>2, <3>1, <3>2, <3>3 DEF IsOldest, Frame
    <3>5. IsOldest(o, x, m)'
      <4>1. m \in Frame(o)' /\ pushed'[m].which = x
        BY <1>2, <3>2, <3>4 DEF IsOldest, Frame
      <4>2. ASSUME NEW j \in Frame(o)', pushed'[j].which = x PROVE m <= j
        <5>1. j \in (o + 1)..t /\ pushed'[j].which = x
          BY <1>2, <4>2 DEF Frame
        <5>2. j \in 1..t /\ j \in (o + 1)..N
          BY <1>0, <1>1, <2>1, <5>1
        <5>3. j \in Frame(o) /\ pushed[j].which = x
          BY <1>0, <1>2, <5>1, <5>2 DEF Frame
        <5> QED BY <3>2, <5>3 DEF IsOldest
      <4> QED BY <3>2, <4>1, <4>2 DEF IsOldest
    <3>6. Oldest(o, x)' = m
      BY <3>5 DEF OneIsOldest
    <3> QED BY <2>1, <2>2, <3>2, <3>4, <3>6 DEF Brought
  <2>3. CASE x \in InFrame(o) /\ x \notin InFrame(o)'
    <3>1. PICK m \in Nat : m = Oldest(o, x) /\ IsOldest(o, x, m)
      BY <1>0, <2>3, OldestFacts DEF IsOldest, Frame
    <3>2. m > t
      <4>1. m \in (o + 1)..N /\ pushed[m].which = x
        BY <1>0, <3>1 DEF IsOldest, Frame
      <4>2. SUFFICES ASSUME m \in (o + 1)..t PROVE FALSE
        BY <1>1, <4>1
      <4>3. m \in Frame(o)' /\ pushed'[m].which = x
        BY <1>2, <4>1, <4>2 DEF Frame
      <4> QED BY <2>3, <4>3 DEF InFrame
    <3>3. IsOldest(t, x, m)
      BY SMTT(30), <1>0, <1>1, <2>1, <3>1, <3>2 DEF IsOldest, Frame
    <3>4. x \in InFrame(t) /\ Oldest(t, x) = m
      BY <3>3 DEF OneIsOldest
    <3> QED BY <1>2, <2>1, <2>3, <3>1, <3>4 DEF Brought
  <2>4. CASE x \notin InFrame(o)
    <3>1. x \notin InFrame(t) /\ x \notin InFrame(o)'
      BY SMTT(30), <1>0, <1>1, <1>2, <2>1, <2>4 DEF Frame, InFrame
    <3> QED BY <1>2, <2>1, <2>4, <3>1 DEF Brought
  <2> QED BY <2>2, <2>3, <2>4
<1>5. \A i \in 1..(K - 1) : Saved(i)' = Saved(i)
  <2>1. \A i : Saved(i)' = [x \in States |-> Brought(i, x)']
    BY DEF Saved, Brought
  <2>2. \A i : Saved(i) = [x \in States |-> Brought(i, x)]
    BY DEF Saved, Brought
  <2> QED BY <1>4, <2>1, <2>2
<1> DEFINE old == [i \in 1..Len(offsets) |-> Saved(i)]
           new == [i \in 1..Len(offsets') |-> Saved(i)']
<1>6. Len(old) = K /\ old[K] = Saved(K) /\ old # <<>>
  BY <1>0, <1>1
<1>7. new = SubSeq(old, 1, K - 1)
  BY <1>0, <1>1, <1>2, <1>5
<1>8. value' = old[Len(old)] /\ new = SubSeq(old, 1, Len(old) - 1) /\ old # <<>>
  BY <1>3, <1>6, <1>7
<1> QED BY <1>8 DEF Stack!Pop

\* The other steps leave the abstract stack alone.
LEMMA StackStutter == UNCHANGED <<value, stackVars>> => UNCHANGED Stack!vars
BY DEF stackVars, Stack!vars, Saved, InFrame, Oldest, Frame

(* RsPop brings back every state as it was at the RsPush it matches, though *)
(* only what is changed is saved: each step of the device is one of a stack *)
(* of complete sets of states, or none.                                     *)
THEOREM RsPopRestores == Spec => ImplementsStack
<1>1. Init => Stack!Init
  BY DEF Init, Stack!Init
<1>2. IInv /\ IInv' /\ [Next]_vars => [Stack!Next]_Stack!vars
  <2> SUFFICES ASSUME IInv, IInv', [Next]_vars PROVE [Stack!Next]_Stack!vars
    OBVIOUS
  <2> USE DEF IInv
  <2>1. ASSUME NEW s \in States, NEW v \in Values, RsSet(s, v) PROVE Stack!Next
    BY <2>1, StackSet DEF Stack!Next
  <2>2. CASE RsPush
    BY <2>2, StackPush DEF Stack!Next
  <2>3. CASE RsPop
    BY <2>3, StackPop DEF Stack!Next
  <2>4. CASE Draw \/ SyncStep \/ PresentFails \/ Reset \/ ResetFails \/ UNCHANGED vars
    <3>1. UNCHANGED <<value, stackVars>>
      BY <2>4 DEF Draw, SyncStep, PresentFails, Reset, ResetFails, vars
    <3> QED BY <3>1, StackStutter
  <2> QED BY <2>1, <2>2, <2>3, <2>4 DEF Next
<1> QED BY <1>1, <1>2, Invariance, PTL DEF Spec, ImplementsStack, Stack!Spec

-----------------------------------------------------------------------------
(* The worker of macOS                                                     *)

Marks == {Flush, Null}
CommandSet == Marks \cup 1..MaxSent

WorkerTypeInv ==
  /\ commands \in Seq(CommandSet) /\ current \in Seq(CommandSet)
  /\ sent \in 0..MaxSent /\ settled \in BOOLEAN
  /\ mainPc \in {"idle", "sending", "asking", "waiting", "woken"}
  /\ workerPc \in {"top", "look", "waiting", "execute"}
  /\ IF workerPc = "execute" THEN Len(current) = 1 ELSE current = <<>>

EndsInNull == Work # <<>> /\ Work[Len(Work)] = Null

\* From a wait to the next command that is sent, nothing is behind the wait's null command.
NullIsLast ==
  /\ mainPc = "waiting" => EndsInNull
  /\ mainPc = "woken" \/ settled => Work = <<>> \/ EndsInNull
  /\ settled => mainPc \in {"idle", "sending"}

WorkerInv == WorkerTypeInv /\ NullIsLast

\* What the abstract queue has is the work without the commands of the waits.
LEMMA LeftIsWork == Left = Without(Work, Marks) /\ Left' = Without(Work', Marks)
BY DEF Left, Marks

\* Of an empty list nothing is left.
LEMMA WithoutNone == Without(<<>>, Marks) = <<>>
<1> DEFINE u == Without(<<>>, Marks)
<1>1. u \in Seq(CommandSet) /\ \A x : ~Has(u, x)
  <2>1. <<>> \in Seq(CommandSet) /\ \A x : ~Has(<<>>, x)
    BY DEF Has
  <2> QED BY <2>1, WithoutFacts
<1> HIDE DEF u
<1>2. ~(1 \in 1..Len(u)) /\ Len(u) \in Nat
  BY <1>1, LenProperties DEF Has
<1>3. u = <<>>
  BY <1>1, <1>2, EmptySeq
<1> QED BY <1>3 DEF u

\* The work is a list of commands.
LEMMA WorkIsList ==
  ASSUME WorkerTypeInv
  PROVE  Work \in Seq(CommandSet) /\ Len(Work) \in Nat
<1>1. Work \in Seq(CommandSet)
  BY DEF WorkerTypeInv, Work
<1> QED BY <1>1, LenProperties

\* Outside a wait, a wait is overdue if its null command is still there.
LEMMA OverdueFacts ==
  ASSUME WorkerTypeInv
  PROVE  /\ mainPc # "waiting" => (Overdue <=> Has(Work, Null))
         /\ EndsInNull => Has(Work, Null)
<1>1. mainPc # "waiting" => (Overdue <=> Has(Work, Null))
  BY DEF Overdue, Has
<1>2. ASSUME EndsInNull
      PROVE  Has(Work, Null)
  <2>1. Len(Work) \in 1..Len(Work)
    BY <1>2, WorkIsList, EmptySeq DEF EndsInNull
  <2> QED BY <1>2, <2>1 DEF EndsInNull, Has
<1> QED BY <1>1, <1>2

\* At the start there is nothing to do.
LEMMA WorkerInitInv ==
  ASSUME WorkerInit
  PROVE  WorkerInv /\ Work = <<>> /\ ~Overdue
<1>1. Work = <<>>
  BY DEF WorkerInit, Work
<1>2. ~Overdue
  BY <1>1 DEF Overdue
<1>3. WorkerTypeInv
  <2>1. commands \in Seq(CommandSet) /\ current \in Seq(CommandSet) /\ sent \in 0..MaxSent
    BY WorkerAssumption DEF WorkerInit
  <2> QED BY <2>1 DEF WorkerInit, WorkerTypeInv
<1>4. NullIsLast
  BY DEF WorkerInit, NullIsLast
<1> QED BY <1>1, <1>2, <1>3, <1>4 DEF WorkerInv

\* Taking the lock is no step of the abstract queue.
LEMMA LockStep ==
  ASSUME WorkerInv, Lock("sending") \/ Lock("asking")
  PROVE  /\ WorkerInv' /\ UNCHANGED Queue!vars
<1>1. Work' = Work /\ mainPc = "idle" /\ mainPc' \in {"sending", "asking"}
  BY DEF Lock, Work
<1>2. Overdue' = Overdue /\ Left' = Left
  BY <1>1 DEF Overdue, Left
<1> QED
  BY <1>1, <1>2 DEF WorkerInv, WorkerTypeInv, NullIsLast, EndsInNull, Lock, Queue!vars

\* GLWorker::Send is Send of the abstract queue.
LEMMA SendStep ==
  ASSUME WorkerInv, Send
  PROVE  WorkerInv' /\ Queue!Send
<1>1. /\ sent' = NextNumber(sent) /\ commands' = Append(commands, sent') /\ current' = current
      /\ mainPc = "sending" /\ mainPc' = "idle" /\ settled' = FALSE
  BY DEF Send
<1>2. sent' \in 1..MaxSent /\ sent' \notin Marks
  BY <1>1, WorkerAssumption DEF WorkerInv, WorkerTypeInv, NextNumber, Marks, Flush, Null
<1>3. /\ Work \in Seq(CommandSet) /\ sent' \in CommandSet /\ Work' = Append(Work, sent')
  <2>1. current \in Seq(CommandSet) /\ commands \in Seq(CommandSet) /\ sent' \in CommandSet
    BY <1>2 DEF WorkerInv, WorkerTypeInv, CommandSet
  <2> QED BY <1>1, <2>1 DEF Work
<1>4. Left' = Append(Left, sent')
  BY <1>2, <1>3, LeftIsWork, WithoutAppend
<1>5. WorkerTypeInv'
  <2>1. commands \in Seq(CommandSet) /\ current \in Seq(CommandSet)
    BY DEF WorkerInv, WorkerTypeInv
  <2>2. commands' \in Seq(CommandSet) /\ sent' \in 0..MaxSent
    BY <1>1, <1>2, <1>3, <2>1, AppendProperties, WorkerAssumption
  <2>3. workerPc' = "waiting" \/ workerPc' = "top" \/ workerPc' = workerPc
    BY DEF Send, SignalWorker
  <2>4. workerPc' = "execute" <=> workerPc = "execute"
    BY DEF Send, SignalWorker
  <2> QED BY <1>1, <2>1, <2>2, <2>3, <2>4 DEF WorkerInv, WorkerTypeInv
<1>6. Has(Work', Null) <=> Has(Work, Null)
  BY <1>2, <1>3, AppendFacts DEF Marks
<1>7. Overdue' <=> Overdue
  <2>1. Overdue' <=> Has(Work', Null)
    BY <1>1 DEF Overdue, Has
  <2> QED BY <1>1, <1>6, <2>1, OverdueFacts DEF WorkerInv
<1> QED BY <1>1, <1>4, <1>5, <1>7 DEF WorkerInv, NullIsLast, Queue!Send, Overdue

\* WaitOnGLObjects puts its two commands last, and what was overdue still is.
LEMMA WaitStep ==
  ASSUME WorkerInv, WaitOnGLObjects
  PROVE  WorkerInv' /\ Queue!Wait
<1>1. /\ commands' = commands \o <<Flush, Null>> /\ current' = current /\ sent' = sent
      /\ mainPc = "asking" /\ mainPc' = "waiting" /\ settled' = settled
  BY DEF WaitOnGLObjects
<1>2. /\ current \in Seq(CommandSet) /\ commands \in Seq(CommandSet)
      /\ Flush \in CommandSet /\ Null \in CommandSet /\ Flush # Null
  BY DEF WorkerInv, WorkerTypeInv, CommandSet, Marks, Flush, Null
<1>3. commands' \in Seq(CommandSet) /\ commands' = Append(Append(commands, Flush), Null)
  BY <1>1, <1>2
<1>4. Work \in Seq(CommandSet) /\ Work' = Append(Append(Work, Flush), Null)
  <2>1. /\ current \o Append(commands, Flush) = Append(current \o commands, Flush)
        /\ Append(commands, Flush) \in Seq(CommandSet) /\ Work \in Seq(CommandSet)
    BY <1>2 DEF Work
  <2> DEFINE k == Append(commands, Flush)
  <2> HIDE DEF k
  <2>2. current \o Append(k, Null) = Append(current \o k, Null)
    BY SMTT(30), <1>2, <2>1 DEF k
  <2> QED BY <1>1, <1>3, <2>1, <2>2 DEF Work, k
<1> DEFINE w == Append(Work, Flush)
<1>5. w \in Seq(CommandSet) /\ (Has(w, Null) <=> Has(Work, Null))
  BY <1>1, <1>2, <1>4, AppendFacts
<1> HIDE DEF w
<1>6. /\ Work' = Append(w, Null) /\ Len(w) \in Nat /\ Len(Work') = Len(w) + 1
      /\ Work'[Len(w) + 1] = Null /\ \A i \in 1..Len(w) : Work'[i] = w[i]
      /\ Work' \in Seq(CommandSet)
  BY <1>2, <1>4, <1>5, AppendProperties, LenProperties DEF w
<1>7. EndsInNull'
  <2>1. Work' # <<>>
    BY <1>6
  <2> QED BY <1>6, <2>1 DEF EndsInNull
<1>8. ~settled
  BY <1>1 DEF WorkerInv, NullIsLast
<1>9. Left' = Left
  <2>1. Without(w, Marks) = Without(Work, Marks)
    BY <1>2, <1>4, WithoutAppend DEF w, Marks
  <2>2. Without(Work', Marks) = Without(w, Marks)
    BY <1>2, <1>5, <1>6, WithoutAppend DEF Marks
  <2> QED BY <2>1, <2>2, LeftIsWork
<1>10. Overdue' <=> Has(w, Null)
  <2>1. ASSUME Overdue' PROVE Has(w, Null)
    <3>1. PICK i \in 1..Len(Work') : Work'[i] = Null /\ i < Len(Work')
      BY <1>1, <2>1 DEF Overdue
    <3>2. i \in 1..Len(w) /\ w[i] = Null
      BY <1>6, <3>1
    <3> QED BY <3>2 DEF Has
  <2>2. ASSUME Has(w, Null) PROVE Overdue'
    <3>1. PICK i \in 1..Len(w) : w[i] = Null
      BY <2>2 DEF Has
    <3>2. i \in 1..Len(Work') /\ Work'[i] = Null /\ i < Len(Work')
      BY <1>6, <3>1
    <3> QED BY <3>2 DEF Overdue
  <2> QED BY <2>1, <2>2
<1>11. Overdue' = Overdue
  BY <1>1, <1>5, <1>10, OverdueFacts DEF WorkerInv, Overdue
<1>12. WorkerTypeInv'
  BY <1>1, <1>2, <1>3 DEF WorkerInv, WorkerTypeInv, WaitOnGLObjects, SignalWorker
<1> QED BY <1>1, <1>7, <1>8, <1>9, <1>11, <1>12 DEF WorkerInv, NullIsLast, Queue!Wait

\* A wait that ends without a signal leaves its null command behind.
LEMMA CutShortStep ==
  ASSUME WorkerInv, WakesUnsignalled
  PROVE  WorkerInv' /\ (Queue!CutShort \/ UNCHANGED Queue!vars)
<1>1. /\ Work' = Work /\ settled' = settled /\ sent' = sent /\ EndsInNull
      /\ mainPc = "waiting" /\ mainPc' = "woken"
  BY DEF WakesUnsignalled, Work, WorkerInv, NullIsLast
<1>2. WorkerInv'
  BY <1>1 DEF WorkerInv, WorkerTypeInv, NullIsLast, EndsInNull, WakesUnsignalled
<1>3. Overdue'
  <2>1. Overdue' <=> Has(Work, Null)
    BY <1>1 DEF Overdue, Has
  <2> QED BY <1>1, <2>1, OverdueFacts DEF WorkerInv
<1>4. Left' = Left
  BY <1>1, LeftIsWork
<1>5. CASE Overdue
  BY <1>1, <1>2, <1>3, <1>4, <1>5 DEF Queue!vars, Overdue
<1>6. CASE ~Overdue
  BY <1>1, <1>2, <1>3, <1>4, <1>6 DEF Queue!CutShort
<1> QED BY <1>5, <1>6

\* The worker that wakes without a signal is about to look at the list.
LEMMA WorkerWakesStep ==
  ASSUME WorkerInv, WorkerWakesUnsignalled
  PROVE  WorkerInv' /\ UNCHANGED Queue!vars
<1>1. Work' = Work /\ mainPc' = mainPc
  BY DEF WorkerWakesUnsignalled, Work
<1>2. Overdue' = Overdue /\ Left' = Left
  BY <1>1 DEF Overdue, Left
<1> QED
  BY <1>1, <1>2
  DEF WorkerInv, WorkerTypeInv, NullIsLast, EndsInNull, WorkerWakesUnsignalled, Queue!vars

\* A wait ends when the work is empty, or when a null command is still in it.
LEMMA WaitEndsStep ==
  ASSUME WorkerInv, WaitEnds
  PROVE  WorkerInv' /\ Queue!WaitEnds
<1>1. /\ commands' = commands /\ current' = current /\ sent' = sent /\ workerPc' = workerPc
      /\ mainPc = "woken" /\ mainPc' = "idle" /\ (Work = <<>> \/ EndsInNull) /\ Work' = Work
  BY DEF WaitEnds, WorkerInv, NullIsLast, Work
<1>2. Overdue' = Overdue /\ Left' = Left
  BY <1>1 DEF Overdue, Left
<1>3. Left = <<>> \/ Overdue
  BY <1>1, LeftIsWork, WithoutNone, OverdueFacts DEF WorkerInv
<1>4. WorkerInv'
  BY <1>1 DEF WorkerInv, WorkerTypeInv, NullIsLast, EndsInNull, WaitEnds
<1> QED BY <1>1, <1>2, <1>3, <1>4 DEF Queue!WaitEnds

\* The worker's lock and its wait are no steps of the abstract queue.
LEMMA WorkerLockStep ==
  ASSUME WorkerInv, WorkerLock \/ WorkerWaits
  PROVE  WorkerInv' /\ UNCHANGED Queue!vars
<1>1. Work' = Work /\ mainPc' = mainPc
  BY DEF WorkerLock, WorkerWaits, Work
<1>2. Overdue' = Overdue /\ Left' = Left
  BY <1>1 DEF Overdue, Left
<1> QED
  BY <1>1, <1>2
  DEF WorkerInv, WorkerTypeInv, NullIsLast, EndsInNull, WorkerLock, WorkerWaits, Queue!vars

\* The command the worker takes is still the first of the work.
LEMMA WorkerTakesStep ==
  ASSUME WorkerInv, WorkerTakes
  PROVE  WorkerInv' /\ UNCHANGED Queue!vars
<1>1. /\ current' = <<Head(commands)>> /\ commands' = Tail(commands) /\ commands # <<>>
      /\ sent' = sent /\ mainPc' = mainPc /\ current = <<>> /\ workerPc' = "execute"
      /\ commands \in Seq(CommandSet) /\ settled' = settled
  BY DEF WorkerTakes, WorkerInv, WorkerTypeInv
<1>2. /\ Tail(commands) \in Seq(CommandSet) /\ <<Head(commands)>> \in Seq(CommandSet)
      /\ Len(<<Head(commands)>>) = 1
  BY <1>1, HeadTailProperties
<1>3. Work' = Work
  <2>1. <<Head(commands)>> \o Tail(commands) = commands /\ <<>> \o commands = commands
    BY <1>1
  <2> QED BY <1>1, <2>1 DEF Work
<1>4. Overdue' = Overdue /\ EndsInNull' = EndsInNull /\ Left' = Left
  BY <1>1, <1>3, LeftIsWork DEF Overdue, EndsInNull
<1> QED BY <1>1, <1>2, <1>3, <1>4 DEF WorkerInv, WorkerTypeInv, NullIsLast, Queue!vars

\* What executing does to the work and to what is left of it.
LEMMA ExecutedWork ==
  ASSUME WorkerInv, WorkerExecutes
  PROVE  /\ current' = <<>> /\ commands' = commands /\ sent' = sent /\ workerPc' = "top"
         /\ settled' = settled
         /\ Work \in Seq(CommandSet) /\ Work # <<>> /\ Work' \in Seq(CommandSet)
         /\ Len(Work) = Len(Work') + 1 /\ Len(Work') \in Nat
         /\ \A i \in 1..Len(Work') : Work[i + 1] = Work'[i]
         /\ mainPc' = IF Work[1] = Null /\ mainPc = "waiting" THEN "woken" ELSE mainPc
         /\ Left = IF Work[1] \in Marks THEN Left' ELSE <<Work[1]>> \o Left'
         /\ Left' \in Seq(CommandSet)
         /\ WorkerTypeInv'
<1>1. /\ current \in Seq(CommandSet) /\ Len(current) = 1 /\ commands \in Seq(CommandSet)
      /\ current' = <<>> /\ commands' = commands /\ sent' = sent /\ workerPc' = "top"
      /\ mainPc' = (IF current = <<Null>> /\ mainPc = "waiting" THEN "woken" ELSE mainPc)
      /\ settled' = settled
  BY DEF WorkerExecutes, WorkerInv, WorkerTypeInv
<1>2. PICK c \in CommandSet : current = <<c>>
  <2>1. current[1] \in CommandSet /\ current = <<current[1]>>
    <3>1. current[1] \in CommandSet /\ current \in [1..1 -> CommandSet]
      <4>1. 1 \in 1..Len(current) /\ 1..Len(current) = 1..1
        BY <1>1
      <4>2. current \in [1..Len(current) -> CommandSet]
        BY <1>1, LenProperties
      <4> QED BY <1>1, <4>1, <4>2
    <3>2. <<current[1]>> = [i \in 1..1 |-> current[1]]
      OBVIOUS
    <3> QED BY <3>1, <3>2
  <2> QED BY <2>1
<1>3. Work = <<c>> \o commands /\ Work' = commands
  BY <1>1, <1>2 DEF Work
<1>4. /\ Work \in Seq(CommandSet) /\ Len(Work) = Len(commands) + 1 /\ Work[1] = c
      /\ \A i \in 1..Len(commands) : Work[i + 1] = commands[i]
      /\ Len(commands) \in Nat
  <2>1. <<c>> \o commands \in Seq(CommandSet) /\ InsertedAt(commands, <<c>> \o commands, 1, c)
    BY <1>1, ConsFacts
  <2> QED BY <1>1, <1>3, <2>1, LenProperties DEF InsertedAt
<1>5. Left = IF c \in Marks THEN Left' ELSE <<c>> \o Left'
  <2>1. Without(<<c>> \o commands, Marks)
          = IF c \in Marks THEN Without(commands, Marks) ELSE <<c>> \o Without(commands, Marks)
    BY <1>1, WithoutCons
  <2> QED BY <1>3, <2>1, LeftIsWork
<1>6. Left' \in Seq(CommandSet)
  BY <1>1, <1>3, LeftIsWork, WithoutFacts
<1>7. mainPc' = (IF Work[1] = Null /\ mainPc = "waiting" THEN "woken" ELSE mainPc)
  BY <1>1, <1>2, <1>4
<1>8. WorkerTypeInv'
  BY <1>1, <1>7 DEF WorkerInv, WorkerTypeInv
<1>9. Work # <<>>
  BY <1>4
<1> QED BY <1>1, <1>3, <1>4, <1>5, <1>6, <1>7, <1>8, <1>9

\* Executing takes the first command of the work; what was last is last.
LEMMA WorkerExecutesStep ==
  ASSUME WorkerInv, WorkerExecutes
  PROVE  WorkerInv' /\ (Queue!Execute \/ Queue!Answer \/ UNCHANGED Queue!vars)
<1>1. EndsInNull => Work' = <<>> \/ EndsInNull'
  <2> SUFFICES ASSUME EndsInNull, Work' # <<>> PROVE EndsInNull'
    OBVIOUS
  <2>1. Len(Work') \in 1..Len(Work')
    BY ExecutedWork, EmptySeq
  <2> QED BY <2>1, ExecutedWork DEF EndsInNull
<1>2. CASE mainPc = "waiting" /\ Work[1] = Null
  <2>1. EndsInNull /\ mainPc' = "woken" /\ ~settled'
    BY <1>2, ExecutedWork DEF WorkerInv, NullIsLast
  <2>2. WorkerInv'
    BY <1>1, <2>1, ExecutedWork DEF WorkerInv, NullIsLast
  <2>3. Overdue' <=> Has(Work', Null)
    BY <2>1 DEF Overdue, Has
  <2>4. Overdue' <=> Overdue
    <3>1. CASE Work' = <<>>
      <4>1. Len(Work) = 1 /\ ~Overdue'
        BY <3>1, <2>3, ExecutedWork DEF Has
      <4> QED BY <1>2, <4>1 DEF Overdue
    <3>2. CASE Work' # <<>>
      <4>1. 1 \in 1..Len(Work) /\ 1 < Len(Work)
        BY <3>2, ExecutedWork, EmptySeq
      <4>2. Overdue
        BY <1>2, <4>1 DEF Overdue
      <4>3. Has(Work', Null)
        <5>1. Len(Work') \in 1..Len(Work')
          BY <3>2, ExecutedWork, EmptySeq
        <5> QED BY <1>1, <2>1, <3>2, <5>1 DEF EndsInNull, Has
      <4> QED BY <2>3, <4>2, <4>3
    <3> QED BY <3>1, <3>2
  <2>5. Left' = Left
    BY <1>2, ExecutedWork DEF Marks
  <2> QED BY <1>2, <2>1, <2>2, <2>4, <2>5, ExecutedWork DEF Queue!vars, Overdue
<1>3. CASE mainPc = "waiting" /\ Work[1] # Null
  <2>1. EndsInNull /\ mainPc' = "waiting" /\ ~settled'
    BY <1>3, ExecutedWork DEF WorkerInv, NullIsLast
  <2>2. Work' # <<>>
    BY <1>3, <2>1, ExecutedWork DEF EndsInNull
  <2>3. WorkerInv'
    BY <1>1, <2>1, <2>2, ExecutedWork DEF WorkerInv, NullIsLast
  <2>4. Overdue' <=> Overdue
    <3>1. ASSUME Overdue PROVE Overdue'
      <4>1. PICK i \in 1..Len(Work) : Work[i] = Null /\ i < Len(Work)
        BY <1>3, <3>1 DEF Overdue
      <4>2. i - 1 \in 1..Len(Work') /\ Work'[i - 1] = Null /\ i - 1 < Len(Work')
        <5>1. i # 1
          BY <1>3, <4>1
        <5>2. i - 1 \in 1..Len(Work') /\ (i - 1) + 1 = i /\ i - 1 < Len(Work')
          BY <4>1, <5>1, ExecutedWork
        <5> QED BY <4>1, <5>2, ExecutedWork
      <4> QED BY <4>2 DEF Overdue
    <3>2. ASSUME Overdue' PROVE Overdue
      <4>1. PICK i \in 1..Len(Work') : Work'[i] = Null /\ i < Len(Work')
        BY <2>1, <3>2 DEF Overdue
      <4>2. i + 1 \in 1..Len(Work) /\ Work[i + 1] = Null /\ i + 1 < Len(Work)
        BY <4>1, ExecutedWork
      <4> QED BY <4>2 DEF Overdue
    <3> QED BY <3>1, <3>2
  <2>5. Queue!Execute \/ UNCHANGED Queue!vars
    <3>1. CASE Work[1] \in Marks
      BY <1>3, <2>1, <2>4, <3>1, ExecutedWork DEF Queue!vars, Overdue
    <3>2. CASE Work[1] \notin Marks
      <4>1. Work[1] \in CommandSet /\ Left = <<Work[1]>> \o Left'
        <5>1. 1 \in 1..Len(Work)
          BY ExecutedWork
        <5> QED BY <3>2, <5>1, ExecutedWork
      <4>2. Left # <<>> /\ Tail(Left) = Left'
        BY <4>1, ExecutedWork
      <4> QED BY <1>3, <2>1, <2>4, <4>2, ExecutedWork DEF Queue!Execute, Overdue
    <3> QED BY <3>1, <3>2
  <2> QED BY <2>3, <2>5
<1>4. CASE mainPc # "waiting"
  <2>1. mainPc' = mainPc
    BY <1>4, ExecutedWork
  <2>2. WorkerInv'
    <3>1. Work # <<>>
      BY ExecutedWork
    <3> QED BY <1>1, <1>4, <2>1, <3>1, ExecutedWork DEF WorkerInv, NullIsLast
  <2>3. (Overdue <=> Has(Work, Null)) /\ (Overdue' <=> Has(Work', Null))
    BY <1>4, <2>1 DEF Overdue, Has
  <2>4. Has(Work, Null) <=> Work[1] = Null \/ Has(Work', Null)
    <3>1. ASSUME Has(Work, Null), Work[1] # Null PROVE Has(Work', Null)
      <4>1. PICK i \in 1..Len(Work) : Work[i] = Null
        BY <3>1 DEF Has
      <4>2. i - 1 \in 1..Len(Work') /\ (i - 1) + 1 = i
        BY <3>1, <4>1, ExecutedWork
      <4>3. Work'[i - 1] = Null
        BY <4>1, <4>2, ExecutedWork
      <4> QED BY <4>2, <4>3 DEF Has
    <3>2. ASSUME Has(Work', Null) PROVE Has(Work, Null)
      <4>1. PICK i \in 1..Len(Work') : Work'[i] = Null
        BY <3>2 DEF Has
      <4>2. i + 1 \in 1..Len(Work) /\ Work[i + 1] = Null
        BY <4>1, ExecutedWork
      <4> QED BY <4>2 DEF Has
    <3>3. 1 \in 1..Len(Work)
      BY ExecutedWork
    <3> QED BY <3>1, <3>2, <3>3 DEF Has
  <2>5. CASE Work[1] = Null
    <3>1. Overdue /\ Left' = Left
      BY <2>3, <2>4, <2>5, ExecutedWork DEF Marks
    <3>2. CASE Overdue'
      BY <2>1, <2>2, <3>1, <3>2, ExecutedWork DEF Queue!vars, Overdue
    <3>3. CASE ~Overdue'
      BY <2>1, <2>2, <3>1, <3>3, ExecutedWork DEF Queue!Answer
    <3> QED BY <3>2, <3>3
  <2>6. CASE Work[1] # Null
    <3>1. Overdue' <=> Overdue
      BY <2>3, <2>4, <2>6
    <3>2. CASE Work[1] \in Marks
      BY <2>1, <2>2, <3>1, <3>2, ExecutedWork DEF Queue!vars, Overdue
    <3>3. CASE Work[1] \notin Marks
      <4>1. Work[1] \in CommandSet /\ Left = <<Work[1]>> \o Left'
        <5>1. 1 \in 1..Len(Work)
          BY ExecutedWork
        <5> QED BY <3>3, <5>1, ExecutedWork
      <4>2. Left # <<>> /\ Tail(Left) = Left'
        BY <4>1, ExecutedWork
      <4> QED BY <2>1, <2>2, <3>1, <4>2, ExecutedWork DEF Queue!Execute, Overdue
    <3> QED BY <3>2, <3>3
  <2> QED BY <2>5, <2>6
<1> QED BY <1>2, <1>3, <1>4

-----------------------------------------------------------------------------
\* Every step keeps the invariant and is a step of the abstract queue or none.
LEMMA NextStep ==
  ASSUME WorkerInv, [WorkerNext]_workerVars
  PROVE  /\ WorkerInv'
         /\ [\/ Queue!Send \/ Queue!Execute \/ Queue!Wait \/ Queue!CutShort \/ Queue!WaitEnds
             \/ Queue!Answer]_(Queue!vars)
<1>1. CASE UNCHANGED workerVars
  <2>1. Work' = Work /\ mainPc' = mainPc
    BY <1>1 DEF workerVars, Work
  <2>2. Overdue' = Overdue /\ Left' = Left
    BY <2>1 DEF Overdue, Left
  <2> QED
    BY <1>1, <2>1, <2>2
    DEF workerVars, WorkerInv, WorkerTypeInv, NullIsLast, EndsInNull, Queue!vars
<1>2. CASE Main
  BY <1>2, LockStep, SendStep, WaitStep, WaitEndsStep DEF Main
<1>3. CASE Worker
  BY <1>3, WorkerLockStep, WorkerTakesStep, WorkerExecutesStep DEF Worker
<1>4. CASE Unsignalled
  BY <1>4, CutShortStep, WorkerWakesStep DEF Unsignalled
<1> QED BY <1>1, <1>2, <1>3, <1>4 DEF WorkerNext

\* The invariant holds in every state.
LEMMA WorkerInvariance == WorkerSpec => []WorkerInv
<1>1. WorkerInit => WorkerInv
  BY WorkerInitInv
<1>2. WorkerInv /\ [WorkerNext]_workerVars => WorkerInv'
  BY NextStep
<1> QED BY <1>1, <1>2, PTL DEF WorkerSpec

(* To drawing code the worker is a queue: what is sent is executed in that *)
(* order; a wait returns when all of it has been, or when a wait that      *)
(* pthread_cond_wait cut short is not yet answered, and never else -       *)
(* although each thread can stop anywhere, either may wake without a       *)
(* signal, and the list holds the waits' own commands too.                 *)
THEOREM WorkerIsAQueue == WorkerSpec => ImplementsQueue
<1>1. WorkerInit => Queue!Init
  <2> SUFFICES ASSUME WorkerInit PROVE Queue!Init
    OBVIOUS
  <2>1. Left = <<>> /\ ~Overdue
    BY LeftIsWork, WithoutNone, WorkerInitInv
  <2> QED BY <2>1 DEF WorkerInit, Queue!Init
<1>2. WorkerInv /\ [WorkerNext]_workerVars =>
        [\/ Queue!Send \/ Queue!Execute \/ Queue!Wait \/ Queue!CutShort \/ Queue!WaitEnds
         \/ Queue!Answer]_(Queue!vars)
  BY NextStep
<1> QED BY <1>1, <1>2, WorkerInvariance, PTL DEF WorkerSpec, ImplementsQueue, Queue!Safe

(* While m_UnkA1 is set, and a draw does not wait, all that was sent has   *)
(* been executed, unless a wait that was cut short is not yet answered.    *)
THEOREM SettledDone == WorkerSpec => []SettledIsDone
<1>1. WorkerInv => SettledIsDone
  <2> SUFFICES ASSUME WorkerInv, settled PROVE Left = <<>> \/ Overdue
    BY DEF SettledIsDone
  <2>1. mainPc # "waiting" /\ (Work = <<>> \/ EndsInNull)
    BY DEF WorkerInv, NullIsLast
  <2>2. CASE Work = <<>>
    BY <2>2, LeftIsWork, WithoutNone
  <2>3. CASE EndsInNull
    BY <2>1, <2>3, OverdueFacts DEF WorkerInv
  <2> QED BY <2>1, <2>2, <2>3
<1> QED BY <1>1, WorkerInvariance, PTL

-----------------------------------------------------------------------------
(* Vertex and index buffers                                                *)

\* What a buffer record, its pools, buffers and objects are made of.
BufferFields ==
  {"pool", "buf", "object", "next", "primIndexBuf", "primIndexDirty", "primVertexBuf", "primFormat",
   "glFormats", "indexBuffer", "vertexBuffer", "vertexOffset", "vertexFormat", "enabled", "failed"}
Contents == {"none", "new", "old", "quads", "model"}
PoolSet == [size : Nat, next : Nat, gl : Objects \cup {0}]
BufSet == [item : Nat, size : Nat, index : Nat, filled : BOOLEAN, changed : BOOLEAN]
ObjectSet ==
  [live : BOOLEAN, size : Nat, mapped : BOOLEAN, content : [Bytes -> Contents], reading : SUBSET Nat]

\* The fields that draws look at, but for the pools and buffers.
DrawFields ==
  {"primIndexBuf", "primIndexDirty", "primVertexBuf", "primFormat", "glFormats", "indexBuffer",
   "vertexBuffer", "vertexOffset", "vertexFormat", "enabled"}
\* The parts of g that every lock and draw takes for granted.
Shape(h) ==
  /\ DOMAIN h = BufferFields
  /\ h.pool \in [Pools -> PoolSet] /\ h.buf \in [Pools -> BufSet] /\ h.object \in [Objects -> ObjectSet]
  /\ h.next \in Nat \ {0}

\* What a static pool is filled with.
StaticContent(p) == IF p = "font_idx" THEN "quads" ELSE "model"

\* The object of pool p.
ObjectOf(h, p) == h.object[h.pool[p].gl]

\* The pool's object is there, is mapped while the pool is locked, and OpenGL reads only
\* what was handed out before.
ObjectFits(h, p, locked) ==
  /\ h.pool[p].gl < h.next
  /\ ObjectOf(h, p).live /\ ObjectOf(h, p).size = h.pool[p].size /\ ObjectOf(h, p).mapped = locked
\* A stream that is locked has handed out nothing behind the locked part.
StreamFits(h, p, locked) ==
  /\ h.buf[p].item > 0
  /\ h.pool[p].gl # 0 =>
       \A b \in ObjectOf(h, p).reading : b < IF locked THEN h.buf[p].index ELSE h.pool[p].next
  /\ locked => h.pool[p].next = h.buf[p].index + h.buf[p].size
\* A static pool is one part; once it is filled its object holds what was written.
StaticFits(h, p) ==
  /\ h.buf[p].index = 0 /\ h.buf[p].size = TextCapacity /\ h.pool[p].size = TextCapacity
  /\ IF h.buf[p].filled
     THEN h.pool[p].gl # 0 /\ \A b \in 0..(TextCapacity - 1) : ObjectOf(h, p).content[b] = StaticContent(p)
     ELSE h.pool[p].gl # 0 => ObjectOf(h, p).reading = {}
\* A pool whose buffer is locked or not.
PoolSound(h, p, locked) ==
  /\ h.pool[p].size <= MaxSize
  /\ h.pool[p].gl # 0 => ObjectFits(h, p, locked)
  /\ locked => h.pool[p].gl # 0 /\ h.buf[p].index + h.buf[p].size <= h.pool[p].size
  /\ IF p \in StreamPools THEN StreamFits(h, p, locked) ELSE StaticFits(h, p)

\* Pools that have an object have one of their own.
OwnObjects(h) == \A p, q \in Pools : h.pool[p].gl = h.pool[q].gl /\ p # q => h.pool[p].gl = 0

\* Objects that were made: one for each pool, and one each time a stream grew.
HasObject(h, p) == IF h.pool[p].gl = 0 THEN 0 ELSE 1
\* How many objects have been made.
ObjectsUsed(h) ==
  HasObject(h, "Stream_vtx") + HasObject(h, "Stream_idx") + HasObject(h, "model_vtx")
  + HasObject(h, "model_idx") + HasObject(h, "font_idx")
  + (h.pool["Stream_vtx"].size - VertexPoolSize) + (h.pool["Stream_idx"].size - IndexPoolSize)
\* The next object is no further than the count of those made.
NamesSuffice(h) ==
  /\ h.next <= 1 + ObjectsUsed(h)
  /\ h.pool["Stream_vtx"].size >= VertexPoolSize /\ h.pool["Stream_idx"].size >= IndexPoolSize

\* The buffers while the pools L are locked.
BuffersSound(h, L) ==
  /\ Shape(h) /\ OwnObjects(h) /\ NamesSuffice(h)
  /\ \A p \in Pools : PoolSound(h, p, p \in L)
  /\ h.failed = {}

\* A vertex format that was put together is that of s_vertexBufDesc.
FormatsSound(h) ==
  /\ DOMAIN h.glFormats = DOMAIN Slots /\ DOMAIN h.enabled = {"shader", "fixed"}
  /\ \A f \in DOMAIN Slots : h.glFormats[f] \in {Unbuilt, Slots[f]}

\* The index buffer of OpenGL is that of the last draw, unless it was locked since.
IndexTrue(h) ==
  /\ h.primIndexDirty = FALSE
  /\ IF h.primIndexBuf = "none" THEN h.indexBuffer = 0
     ELSE /\ h.primIndexBuf \in IndexPools
          /\ ~h.buf[h.primIndexBuf].changed =>
               h.indexBuffer # 0 /\ h.indexBuffer = h.pool[h.primIndexBuf].gl
\* Between operations no index buffer was locked since the last draw with it.
IndexSettled(h) == IndexTrue(h) /\ (h.primIndexBuf # "none" => ~h.buf[h.primIndexBuf].changed)

\* The inductive invariant, between operations.
BuffersInv(h) == BuffersSound(h, {}) /\ FormatsSound(h) /\ IndexSettled(h)

\* Fields of e other than pools, buffers and objects are those of h.
Untouched(e, h) == \A f \in DrawFields : e[f] = h[f]
\* The buffer p is as it was, but for its mark of a change.
SameBuf(e, h, p) ==
  /\ e.buf[p].item = h.buf[p].item /\ e.buf[p].size = h.buf[p].size
  /\ e.buf[p].index = h.buf[p].index /\ e.buf[p].filled = h.buf[p].filled
\* The pool p, its buffer and its object are as they were.
SamePool(e, h, p) ==
  /\ e.pool[p] = h.pool[p] /\ SameBuf(e, h, p)
  /\ h.pool[p].gl # 0 => ObjectOf(e, p) = ObjectOf(h, p)

\* What BufferAssumption says of the constants.
LEMMA BufferConstants ==
  /\ MaxSize \in Nat /\ VertexPoolSize \in Nat /\ IndexPoolSize \in Nat
  /\ VertexPoolSize <= MaxSize /\ IndexPoolSize <= MaxSize
  /\ TextCapacity \in Nat \ {0} /\ TextCapacity * 2 <= MaxSize /\ 3 <= MaxSize
  /\ \A n \in MeshSizes : n \in Nat \ {0} /\ n * 2 <= MaxSize
  /\ Objects \subseteq Nat \ {0}
  /\ \A n \in Nat \ {0} : n <= 5 + (MaxSize - VertexPoolSize) + (MaxSize - IndexPoolSize) => n \in Objects
BY BufferAssumption DEF SizeOf

\* The pools by name.
LEMMA PoolNames ==
  /\ Pools = {"Stream_vtx", "Stream_idx", "model_vtx", "model_idx", "font_idx"}
  /\ StreamPools \subseteq Pools /\ IndexPools \subseteq Pools /\ "none" \notin Pools
BY DEF Pools, StreamPools, IndexPools

\* What Shape says of a pool.
LEMMA ShapeFacts ==
  ASSUME NEW h, Shape(h), NEW p \in Pools
  PROVE  /\ h.pool[p] \in PoolSet /\ h.buf[p] \in BufSet
         /\ h.pool[p].size \in Nat /\ h.pool[p].next \in Nat /\ h.pool[p].gl \in Objects \cup {0}
         /\ h.pool[p].gl \in Nat
         /\ h.buf[p].item \in Nat /\ h.buf[p].size \in Nat /\ h.buf[p].index \in Nat
         /\ h.buf[p].filled \in BOOLEAN
         /\ h.pool[p].gl # 0 => h.pool[p].gl \in Objects /\ ObjectOf(h, p) \in ObjectSet
<1>1. h.pool[p] \in PoolSet /\ h.buf[p] \in BufSet
  BY DEF Shape
<1>2. h.pool[p].gl # 0 => h.pool[p].gl \in Objects /\ ObjectOf(h, p) \in ObjectSet
  BY <1>1 DEF Shape, PoolSet, ObjectOf
<1>3. h.pool[p].gl \in Objects \cup {0}
  BY <1>1 DEF PoolSet
<1>4. h.pool[p].gl \in Nat
  <2>1. Objects \subseteq Nat
    BY BufferConstants
  <2>2. \A x \in Objects \cup {0} : x \in Nat
    BY <2>1
  <2> QED BY <1>3, <2>2
<1> QED BY <1>1, <1>2, <1>3, <1>4 DEF PoolSet, BufSet

\* The fields of an object.
LEMMA ObjectFacts ==
  ASSUME NEW o \in ObjectSet
  PROVE  /\ DOMAIN o = {"live", "size", "mapped", "content", "reading"}
         /\ o.live \in BOOLEAN /\ o.size \in Nat /\ o.mapped \in BOOLEAN
         /\ o.content \in [Bytes -> Contents] /\ o.reading \subseteq Nat
BY DEF ObjectSet

\* New objects are objects; nothing reads them.
LEMMA NewObjectFacts ==
  ASSUME NEW n \in Nat
  PROVE  /\ NewObject(n) \in ObjectSet /\ NoObject \in ObjectSet
         /\ NewObject(n).live = TRUE /\ NewObject(n).size = n /\ NewObject(n).mapped = FALSE
         /\ NewObject(n).reading = {}
<1>1. [b \in Bytes |-> "none"] \in [Bytes -> Contents]
  BY DEF Contents
<1> QED BY <1>1 DEF NewObject, NoObject, ObjectSet

\* The next part of a stream begins behind the last one.
LEMMA AlignedNextFacts ==
  ASSUME NEW h, Shape(h), NEW p \in Pools, h.buf[p].item > 0
  PROVE  AlignedNext(h, p) \in Nat /\ AlignedNext(h, p) >= h.pool[p].next
<1> DEFINE n == h.buf[p].item
           v == h.pool[p].next + n - 1
<1>1. n \in Nat /\ n > 0 /\ h.pool[p].next \in Nat /\ v \in Nat
  BY ShapeFacts
<1>2. v % n \in 0..(n - 1) /\ v % n <= v
  <2> HIDE DEF n, v
  <2> QED BY <1>1
<1> QED BY <1>1, <1>2 DEF AlignedNext

\* PoolSound looks only at the pool.
LEMMA SamePoolSound ==
  ASSUME NEW h, NEW e, NEW p \in Pools, NEW locked \in BOOLEAN, Shape(h), Shape(e),
         PoolSound(h, p, locked), SamePool(e, h, p), e.next >= h.next
  PROVE  PoolSound(e, p, locked)
<1>1. /\ e.pool[p] = h.pool[p] /\ e.buf[p].item = h.buf[p].item /\ e.buf[p].size = h.buf[p].size
      /\ e.buf[p].index = h.buf[p].index /\ e.buf[p].filled = h.buf[p].filled
      /\ h.pool[p].gl # 0 => ObjectOf(e, p) = ObjectOf(h, p)
  BY DEF SamePool, SameBuf
<1>2. h.next \in Nat /\ e.next \in Nat
  BY DEF Shape
<1>3. h.pool[p].gl # 0 => ObjectFits(e, p, locked)
  <2>1. h.pool[p].gl \in Nat
    BY ShapeFacts
  <2> QED BY <1>1, <1>2, <2>1 DEF PoolSound, ObjectFits
<1>4. p \in StreamPools => StreamFits(e, p, locked)
  BY <1>1 DEF PoolSound, StreamFits
<1>5. p \notin StreamPools => StaticFits(e, p)
  BY <1>1 DEF PoolSound, StaticFits
<1> QED BY <1>1, <1>3, <1>4, <1>5 DEF PoolSound

-----------------------------------------------------------------------------
(* One pool changes                                                        *)

\* A step that changes one pool: what is to be shown of it.
LEMMA OnePool ==
  ASSUME NEW h, NEW e, NEW L, NEW M, NEW p \in Pools, BuffersSound(h, L),
         Shape(e), e.next >= h.next, NamesSuffice(e), e.failed = {},
         \A q \in Pools \ {p} : SamePool(e, h, q) /\ (q \in M <=> q \in L),
         e.pool[p].gl \in {0, h.pool[p].gl} \/ e.pool[p].gl >= h.next,
         PoolSound(e, p, p \in M)
  PROVE  BuffersSound(e, M)
<1>1. ASSUME NEW q \in Pools PROVE PoolSound(e, q, q \in M)
  <2>1. CASE q = p
    BY <2>1
  <2>2. CASE q # p
    <3>1. SamePool(e, h, q) /\ (q \in M) = (q \in L) /\ (q \in L) \in BOOLEAN
      BY <2>2
    <3>2. PoolSound(h, q, q \in L) /\ Shape(h)
      BY DEF BuffersSound
    <3>3. PoolSound(e, q, q \in L)
      BY <3>1, <3>2, SamePoolSound
    <3> QED BY <3>1, <3>3
  <2> QED BY <2>1, <2>2
<1>2. ASSUME NEW q \in Pools \ {p}
      PROVE  e.pool[q].gl = h.pool[q].gl /\ (h.pool[q].gl # 0 => h.pool[q].gl < h.next)
  BY DEF SamePool, BuffersSound, PoolSound, ObjectFits
<1>3. ASSUME NEW q \in Pools \ {p}, e.pool[q].gl = e.pool[p].gl PROVE e.pool[p].gl = 0
  <2>1. h.next \in Nat /\ h.pool[q].gl \in Nat /\ e.pool[p].gl \in Nat
    <3>1. Shape(h) /\ q \in Pools
      BY DEF BuffersSound
    <3>2. h.pool[q].gl \in Nat /\ e.pool[p].gl \in Nat
      BY <3>1, ShapeFacts
    <3> QED BY <3>1, <3>2 DEF Shape
  <2>2. CASE e.pool[p].gl \in {0, h.pool[p].gl}
    BY <1>2, <1>3, <2>2 DEF BuffersSound, OwnObjects
  <2>3. CASE e.pool[p].gl >= h.next
    BY <1>2, <1>3, <2>1, <2>3
  <2> QED BY <2>2, <2>3
<1>4. OwnObjects(e)
  <2>1. ASSUME NEW q \in Pools, NEW r \in Pools, e.pool[q].gl = e.pool[r].gl, q # r
        PROVE  e.pool[q].gl = 0
    <3>1. CASE q = p
      BY <1>3, <2>1, <3>1
    <3>2. CASE r = p
      BY <1>3, <2>1, <3>2
    <3>3. CASE q # p /\ r # p
      BY <1>2, <2>1, <3>3 DEF BuffersSound, OwnObjects
    <3> QED BY <3>1, <3>2, <3>3
  <2> QED BY <2>1 DEF OwnObjects
<1> QED BY <1>1, <1>4 DEF BuffersSound

\* What objects there are counted by: p has one, or p is a stream that has grown.
Grown(h, p) == IF p \in StreamPools THEN h.pool[p].size ELSE 0
\* No pool but p changed.
OtherPools(e, h, p) == \A q \in Pools \ {p} : e.pool[q] = h.pool[q]

\* A step that changes one pool changes the count of objects by what that pool adds.
LEMMA ObjectsUsedBy ==
  ASSUME NEW h, NEW e, Shape(h), Shape(e), NEW p \in Pools, OtherPools(e, h, p)
  PROVE  /\ ObjectsUsed(h) \in Int /\ ObjectsUsed(e) \in Int
         /\ ObjectsUsed(e) = ObjectsUsed(h) + (HasObject(e, p) - HasObject(h, p)) + (Grown(e, p) - Grown(h, p))
<1>1. ASSUME NEW q \in Pools
      PROVE  /\ HasObject(h, q) \in Nat /\ HasObject(e, q) \in Nat
             /\ h.pool[q].size \in Nat /\ e.pool[q].size \in Nat
             /\ q # p => HasObject(e, q) = HasObject(h, q) /\ e.pool[q].size = h.pool[q].size
  BY ShapeFacts DEF HasObject, OtherPools
<1>2. VertexPoolSize \in Nat /\ IndexPoolSize \in Nat
  BY BufferConstants
<1>3. "Stream_vtx" \in StreamPools /\ "Stream_idx" \in StreamPools /\ "model_vtx" \notin StreamPools
      /\ "model_idx" \notin StreamPools /\ "font_idx" \notin StreamPools
  BY DEF StreamPools
<1>4. /\ "Stream_vtx" \in Pools /\ "Stream_idx" \in Pools /\ "model_vtx" \in Pools
      /\ "model_idx" \in Pools /\ "font_idx" \in Pools
  BY PoolNames
<1>5. ObjectsUsed(h) \in Int /\ ObjectsUsed(e) \in Int
  BY <1>1, <1>2, <1>4 DEF ObjectsUsed
<1>6. CASE p = "Stream_vtx"
  BY <1>1, <1>2, <1>3, <1>4, <1>5, <1>6 DEF ObjectsUsed, Grown
<1>7. CASE p = "Stream_idx"
  BY <1>1, <1>2, <1>3, <1>4, <1>5, <1>7 DEF ObjectsUsed, Grown
<1>8. CASE p = "model_vtx"
  BY <1>1, <1>2, <1>3, <1>4, <1>5, <1>8 DEF ObjectsUsed, Grown
<1>9. CASE p = "model_idx"
  BY <1>1, <1>2, <1>3, <1>4, <1>5, <1>9 DEF ObjectsUsed, Grown
<1>10. CASE p = "font_idx"
  BY <1>1, <1>2, <1>3, <1>4, <1>5, <1>10 DEF ObjectsUsed, Grown
<1> QED BY <1>6, <1>7, <1>8, <1>9, <1>10, PoolNames

\* A pool without an object, or a stream that can grow, finds an object.
LEMMA NextIsObject ==
  ASSUME NEW h, NEW L, BuffersSound(h, L), NEW p \in Pools,
         h.pool[p].gl = 0 \/ (p \in StreamPools /\ h.pool[p].size < MaxSize)
  PROVE  h.next \in Objects
<1>1. Shape(h) /\ h.next \in Nat \ {0} /\ h.next <= 1 + ObjectsUsed(h)
  BY DEF BuffersSound, NamesSuffice, Shape
<1>2. ASSUME NEW q \in Pools
      PROVE  /\ HasObject(h, q) \in 0..1 /\ h.pool[q].size \in Nat /\ h.pool[q].size <= MaxSize
             /\ q = p /\ h.pool[p].gl = 0 => HasObject(h, q) = 0
  BY <1>1, ShapeFacts DEF HasObject, BuffersSound, PoolSound
<1>3. /\ "Stream_vtx" \in Pools /\ "Stream_idx" \in Pools /\ "model_vtx" \in Pools
      /\ "model_idx" \in Pools /\ "font_idx" \in Pools
      /\ p \in {"Stream_vtx", "Stream_idx", "model_vtx", "model_idx", "font_idx"}
  BY PoolNames
<1>4. MaxSize \in Nat /\ VertexPoolSize \in Nat /\ IndexPoolSize \in Nat
  BY BufferConstants
<1> DEFINE most == 5 + (MaxSize - VertexPoolSize) + (MaxSize - IndexPoolSize)
<1>5. ObjectsUsed(h) <= most - 1 /\ ObjectsUsed(h) \in Int /\ most \in Int
  <2>1. CASE h.pool[p].gl = 0
    BY <1>2, <1>3, <1>4, <2>1 DEF ObjectsUsed
  <2>2. CASE p \in StreamPools /\ h.pool[p].size < MaxSize
    <3>1. p = "Stream_vtx" \/ p = "Stream_idx"
      BY <2>2 DEF StreamPools
    <3> QED BY <1>2, <1>3, <1>4, <2>2, <3>1 DEF ObjectsUsed
  <2> QED BY <2>1, <2>2
<1>6. h.next <= most
  <2> HIDE DEF most
  <2> QED BY <1>1, <1>5
<1> QED BY <1>1, <1>6, BufferConstants

\* CreateBuffer makes the next object for the pool.
LEMMA CreateBufferFacts ==
  ASSUME NEW h, Shape(h), NEW p \in Pools, h.next \in Objects
  PROVE  LET e == CreateBuffer(h, p) IN
         /\ Shape(e) /\ Untouched(e, h) /\ e.buf = h.buf /\ e.failed = h.failed
         /\ e.pool = [h.pool EXCEPT ![p] = [h.pool[p] EXCEPT !.gl = h.next]]
         /\ e.object = [h.object EXCEPT ![h.next] = NewObject(h.pool[p].size)]
         /\ e.next = h.next + 1
<1> DEFINE e == CreateBuffer(h, p)
<1>1. DOMAIN h = BufferFields /\ h.next \in Nat \ {0}
  BY DEF Shape
<1>2. /\ DOMAIN e = BufferFields /\ Untouched(e, h) /\ e.buf = h.buf /\ e.failed = h.failed
      /\ e.pool = [h.pool EXCEPT ![p] = [h.pool[p] EXCEPT !.gl = h.next]]
      /\ e.object = [h.object EXCEPT ![h.next] = NewObject(h.pool[p].size)]
      /\ e.next = h.next + 1
  BY <1>1 DEF CreateBuffer, BufferFields, Untouched, DrawFields
<1> HIDE DEF e
<1>3. NewObject(h.pool[p].size) \in ObjectSet /\ [h.pool[p] EXCEPT !.gl = h.next] \in PoolSet
  <2>1. h.pool[p].size \in Nat /\ h.pool[p] \in PoolSet
    BY ShapeFacts
  <2> QED BY <2>1, NewObjectFacts DEF PoolSet
<1>4. Shape(e)
  BY <1>1, <1>2, <1>3 DEF Shape
<1> QED BY <1>2, <1>4 DEF e

\* What BuffersSound says of a pool with an object.
LEMMA PoolFacts ==
  ASSUME NEW h, NEW L, BuffersSound(h, L), NEW p \in Pools
  PROVE  /\ Shape(h) /\ h.failed = {} /\ NamesSuffice(h) /\ PoolSound(h, p, p \in L)
         /\ h.next \in Nat \ {0}
         /\ h.pool[p].gl # 0 => /\ h.pool[p].gl \in Objects /\ h.pool[p].gl < h.next /\ h.pool[p].gl # h.next
                                /\ ObjectFits(h, p, p \in L)
         /\ \A q \in Pools \ {p} : h.pool[q].gl # 0 => h.pool[q].gl # h.pool[p].gl
<1>1. Shape(h) /\ h.failed = {} /\ NamesSuffice(h) /\ PoolSound(h, p, p \in L) /\ OwnObjects(h)
  BY DEF BuffersSound
<1>2. h.next \in Nat \ {0} /\ h.pool[p].gl \in Nat
  BY <1>1, ShapeFacts DEF Shape
<1>3. h.pool[p].gl # 0 => h.pool[p].gl \in Objects /\ h.pool[p].gl < h.next /\ ObjectFits(h, p, p \in L)
  BY <1>1, ShapeFacts DEF PoolSound, ObjectFits
<1>4. \A q \in Pools \ {p} : h.pool[q].gl # 0 => h.pool[q].gl # h.pool[p].gl
  BY <1>1 DEF OwnObjects
<1> QED BY <1>1, <1>2, <1>3, <1>4

\* No object but m and n changed.
ObjectsKept(e, h, m, n) == \A o \in Objects : o # m /\ o # n => e.object[o] = h.object[o]

\* A pool whose object is none of those that changed is as it was.
LEMMA OthersSame ==
  ASSUME NEW h, NEW L, BuffersSound(h, L), NEW e, NEW p \in Pools, NEW q \in Pools \ {p},
         e.pool[q] = h.pool[q], e.buf[q] = h.buf[q],
         ObjectsKept(e, h, h.next, h.pool[p].gl)
  PROVE  SamePool(e, h, q)
<1>1. h.pool[q].gl # 0 => h.pool[q].gl \in Objects /\ h.pool[q].gl # h.next /\ h.pool[q].gl # h.pool[p].gl
  BY PoolFacts
<1> QED BY <1>1 DEF SamePool, SameBuf, ObjectOf, ObjectsKept

\* A new object of a stream, which has grown or had none.
LEMMA PoolSizeSetSound ==
  ASSUME NEW h, NEW L, BuffersSound(h, L), NEW p \in StreamPools, p \notin L,
         NEW size \in Nat, h.pool[p].size < size, size <= MaxSize
  PROVE  LET e == PoolSizeSet(h, p, size) IN
         /\ BuffersSound(e, L) /\ Untouched(e, h) /\ e.buf = h.buf /\ e.pool[p].size = size
         /\ \A q \in Pools \ {p} : SamePool(e, h, q)
<1> DEFINE n == h.pool[p].gl
           f == IF n = 0 THEN h ELSE [h EXCEPT !.object[n] = NoObject]
           d == [f EXCEPT !.pool[p].next = 0, !.pool[p].size = size]
           e == PoolSizeSet(h, p, size)
<1>1. p \in Pools /\ MaxSize \in Nat /\ h.pool[p].size \in Nat /\ Shape(h)
  BY PoolNames, BufferConstants, ShapeFacts DEF BuffersSound
<1>2. h.next \in Objects /\ h.next \in Nat \ {0} /\ (n # 0 => n \in Objects /\ n < h.next /\ n # h.next)
  <2>1. h.pool[p].size < MaxSize
    BY <1>1
  <2> QED BY <1>1, <2>1, NextIsObject, PoolFacts
<1>3. /\ DOMAIN f = BufferFields /\ f.pool = h.pool /\ f.buf = h.buf /\ f.next = h.next /\ f.failed = h.failed
      /\ Untouched(f, h) /\ f.object \in [Objects -> ObjectSet]
      /\ \A m \in Objects : m # n => f.object[m] = h.object[m]
  <2>1. DOMAIN h = BufferFields /\ h.object \in [Objects -> ObjectSet] /\ NoObject \in ObjectSet
    BY <1>1, NewObjectFacts DEF Shape
  <2>2. CASE n = 0
    BY <2>1, <2>2 DEF Untouched
  <2>3. CASE n # 0
    <3>1. f = [h EXCEPT !.object[n] = NoObject]
      BY <2>3
    <3> HIDE DEF f, n
    <3>2. f.object = [h.object EXCEPT ![n] = NoObject]
      BY <2>1, <3>1 DEF BufferFields
    <3> QED BY <1>2, <2>1, <2>3, <3>1, <3>2 DEF BufferFields, Untouched, DrawFields
  <2> QED BY <2>2, <2>3
<1> HIDE DEF f, n
<1>4. /\ DOMAIN d = BufferFields /\ d.buf = h.buf /\ d.next = h.next /\ d.failed = h.failed
      /\ Untouched(d, h) /\ d.object = f.object
      /\ d.pool = [h.pool EXCEPT ![p] = [h.pool[p] EXCEPT !.next = 0, !.size = size]]
  <2>1. h.pool[p] \in PoolSet /\ h.pool \in [Pools -> PoolSet]
    BY <1>1 DEF Shape
  <2>2. DOMAIN h.pool[p] = {"size", "next", "gl"} /\ p \in DOMAIN h.pool
    BY <1>1, <2>1 DEF PoolSet
  <2> QED BY <1>3, <2>2 DEF BufferFields, Untouched, DrawFields
<1>5. e = CreateBuffer(d, p)
  BY DEF PoolSizeSet, f, n
<1> HIDE DEF d, e
<1>6. Shape(d)
  <2>1. [h.pool[p] EXCEPT !.next = 0, !.size = size] \in PoolSet
    BY <1>1 DEF Shape, PoolSet
  <2> QED BY <1>1, <1>3, <1>4, <2>1 DEF Shape
<1>7. /\ Shape(e) /\ Untouched(e, d) /\ e.buf = d.buf /\ e.failed = d.failed
      /\ e.pool = [d.pool EXCEPT ![p] = [d.pool[p] EXCEPT !.gl = d.next]]
      /\ e.object = [d.object EXCEPT ![d.next] = NewObject(d.pool[p].size)]
      /\ e.next = d.next + 1
  <2>1. LET k == CreateBuffer(d, p) IN
        /\ Shape(k) /\ Untouched(k, d) /\ k.buf = d.buf /\ k.failed = d.failed
        /\ k.pool = [d.pool EXCEPT ![p] = [d.pool[p] EXCEPT !.gl = d.next]]
        /\ k.object = [d.object EXCEPT ![d.next] = NewObject(d.pool[p].size)]
        /\ k.next = d.next + 1
    <3>1. d.next \in Objects /\ p \in Pools
      BY <1>1, <1>2, <1>4
    <3> QED BY <1>6, <3>1, CreateBufferFacts
  <2> QED BY <1>5, <2>1
<1>8. /\ e.pool[p] = [size |-> size, next |-> 0, gl |-> h.next]
      /\ \A q \in Pools \ {p} : e.pool[q] = h.pool[q]
  <2>1. h.pool \in [Pools -> PoolSet] /\ h.pool[p] \in PoolSet
    BY <1>1 DEF Shape
  <2>2. d.pool[p] = [h.pool[p] EXCEPT !.next = 0, !.size = size]
    BY <1>1, <1>4, <2>1
  <2>3. e.pool[p] = [d.pool[p] EXCEPT !.gl = h.next]
    BY <1>1, <1>4, <1>7, <2>1
  <2>4. e.pool[p] = [size |-> size, next |-> 0, gl |-> h.next]
    BY <2>1, <2>2, <2>3 DEF PoolSet
  <2> QED BY <1>1, <1>4, <1>7, <2>1, <2>4
<1>9. /\ e.object[h.next] = NewObject(size)
      /\ \A m \in Objects : m # h.next /\ m # n => e.object[m] = h.object[m]
  <2>1. d.pool[p].size = size
    <3>1. h.pool \in [Pools -> PoolSet] /\ h.pool[p] \in PoolSet
      BY <1>1 DEF Shape
    <3> QED BY <1>1, <1>4, <3>1 DEF PoolSet
  <2> QED BY <1>2, <1>3, <1>4, <1>7, <2>1
<1>10. ASSUME NEW q \in Pools \ {p} PROVE SamePool(e, h, q)
  <2>1. ObjectsKept(e, h, h.next, h.pool[p].gl)
    BY <1>9 DEF ObjectsKept, n
  <2>2. e.pool[q] = h.pool[q] /\ e.buf[q] = h.buf[q]
    BY <1>4, <1>7, <1>8
  <2> QED BY <1>1, <2>1, <2>2, OthersSame
<1>11. PoolSound(e, p, FALSE)
  <2>1. ObjectOf(e, p) = NewObject(size) /\ e.pool[p].gl = h.next /\ e.pool[p].size = size
    BY <1>8, <1>9 DEF ObjectOf
  <2>2. ObjectFits(e, p, FALSE)
    <3>1. e.next = h.next + 1 /\ h.next < h.next + 1
      BY <1>2, <1>4, <1>7
    <3>2. NewObject(size).live = TRUE /\ NewObject(size).size = size /\ NewObject(size).mapped = FALSE
      BY NewObjectFacts
    <3> QED BY <2>1, <3>1, <3>2 DEF ObjectFits
  <2>3. StreamFits(e, p, FALSE)
    <3>1. h.buf[p].item > 0 /\ e.buf = h.buf
      BY <1>1, <1>4, <1>7 DEF BuffersSound, PoolSound, StreamFits
    <3> QED BY <2>1, <3>1, NewObjectFacts DEF StreamFits
  <2> QED BY <2>1, <2>2, <2>3 DEF PoolSound
<1>12. NamesSuffice(e)
  <2>1. /\ ObjectsUsed(h) \in Int /\ ObjectsUsed(e) \in Int
        /\ ObjectsUsed(e) = ObjectsUsed(h) + (HasObject(e, p) - HasObject(h, p)) + (Grown(e, p) - Grown(h, p))
    <3>1. OtherPools(e, h, p) /\ Shape(e) /\ Shape(h)
      BY <1>1, <1>7, <1>8 DEF OtherPools
    <3> QED BY <1>1, <3>1, ObjectsUsedBy
  <2>2. HasObject(e, p) = 1 /\ HasObject(h, p) \in 0..1 /\ Grown(e, p) >= Grown(h, p) + 1
        /\ Grown(e, p) \in Nat /\ Grown(h, p) \in Nat
    BY <1>1, <1>2, <1>8 DEF HasObject, Grown
  <2>3. e.next = h.next + 1 /\ h.next <= 1 + ObjectsUsed(h)
    BY <1>4, <1>7 DEF BuffersSound, NamesSuffice
  <2>4. e.next <= 1 + ObjectsUsed(e)
    BY <1>2, <2>1, <2>2, <2>3
  <2>5. ASSUME NEW q \in Pools PROVE e.pool[q].size >= h.pool[q].size /\ h.pool[q].size \in Nat /\ e.pool[q].size \in Nat
    BY <1>1, <1>7, <1>8, ShapeFacts
  <2>6. "Stream_vtx" \in Pools /\ "Stream_idx" \in Pools /\ VertexPoolSize \in Nat /\ IndexPoolSize \in Nat
        /\ h.pool["Stream_vtx"].size >= VertexPoolSize /\ h.pool["Stream_idx"].size >= IndexPoolSize
    BY PoolNames, BufferConstants DEF BuffersSound, NamesSuffice
  <2> QED BY <2>4, <2>5, <2>6 DEF NamesSuffice
<1>13. BuffersSound(e, L)
  <2>1. e.next >= h.next /\ e.failed = {} /\ e.pool[p].gl >= h.next
    BY <1>2, <1>4, <1>7, <1>8 DEF BuffersSound
  <2>2. PoolSound(e, p, p \in L)
    <3>1. (p \in L) = FALSE
      OBVIOUS
    <3> QED BY <1>11, <3>1
  <2> QED BY <1>1, <1>7, <1>10, <1>12, <2>1, <2>2, OnePool
<1>14. Untouched(e, h)
  BY <1>4, <1>7 DEF Untouched
<1> QED BY <1>4, <1>7, <1>8, <1>10, <1>13, <1>14 DEF e

\* Nothing of the other pools changed.
OthersKept(e, h, p) ==
  \A q \in Pools \ {p} : SamePool(e, h, q) /\ e.buf[q].changed = h.buf[q].changed
\* Only the buffer p changed.
OnlyBuf(e, h, p) ==
  /\ Untouched(e, h) /\ e.pool = h.pool /\ e.object = h.object /\ e.next = h.next /\ e.failed = h.failed
  /\ e.buf = [h.buf EXCEPT ![p] = e.buf[p]]

\* A step that changes a buffer.
LEMMA OnlyBufKeeps ==
  ASSUME NEW h, NEW e, NEW p \in Pools, Shape(h), DOMAIN e = BufferFields, OnlyBuf(e, h, p), e.buf[p] \in BufSet
  PROVE  /\ Shape(e) /\ OthersKept(e, h, p) /\ (NamesSuffice(h) => NamesSuffice(e))
         /\ h.pool[p].gl # 0 => ObjectOf(e, p) = ObjectOf(h, p)
<1>1. Shape(e)
  BY DEF Shape, OnlyBuf
<1>2. \A q \in Pools \ {p} : e.buf[q] = h.buf[q]
  BY DEF Shape, OnlyBuf
<1>3. OthersKept(e, h, p)
  BY <1>2 DEF OnlyBuf, OthersKept, SamePool, SameBuf, ObjectOf
<1>4. NamesSuffice(h) => NamesSuffice(e)
  BY DEF OnlyBuf, NamesSuffice, ObjectsUsed, HasObject
<1> QED BY <1>1, <1>3, <1>4 DEF OnlyBuf, ObjectOf

\* OnePool, for what keeps the others.
LEMMA OneLocked ==
  ASSUME NEW h, NEW e, NEW L, NEW M, NEW p \in Pools, BuffersSound(h, L), M \ {p} = L \ {p},
         Shape(e), e.next >= h.next, NamesSuffice(e), e.failed = {}, OthersKept(e, h, p),
         e.pool[p].gl \in {0, h.pool[p].gl} \/ e.pool[p].gl >= h.next,
         PoolSound(e, p, p \in M)
  PROVE  BuffersSound(e, M)
<1>1. \A q \in Pools \ {p} : SamePool(e, h, q) /\ (q \in M <=> q \in L)
  BY DEF OthersKept
<1> QED BY <1>1, OnePool

\* BufStream leaves a stream that holds what is to be locked.
LEMMA BufStreamFacts ==
  ASSUME NEW h, NEW L, BuffersSound(h, L), NEW p \in StreamPools, p \notin L,
         NEW item \in Nat \ {0}, NEW count \in Nat, item * count <= MaxSize
  PROVE  LET e == BufStream(h, p, item, count) IN
         /\ BuffersSound(e, L) /\ Untouched(e, h) /\ OthersKept(e, h, p)
         /\ e.buf[p].size = item * count /\ e.buf[p].size <= e.pool[p].size
<1> DEFINE size == item * count
           d == IF h.pool[p].size < size THEN PoolSizeSet(h, p, size) ELSE h
           e == BufStream(h, p, item, count)
<1>1. p \in Pools /\ size \in Nat /\ Shape(h) /\ MaxSize \in Nat /\ h.pool[p].size \in Nat
  BY PoolNames, BufferConstants, ShapeFacts DEF BuffersSound
<1>2. /\ BuffersSound(d, L) /\ Untouched(d, h) /\ d.buf = h.buf /\ d.pool[p].size >= size
      /\ \A q \in Pools \ {p} : SamePool(d, h, q)
  <2>1. CASE h.pool[p].size < size
    <3> HIDE DEF size
    <3>1. LET k == PoolSizeSet(h, p, size) IN
          /\ BuffersSound(k, L) /\ Untouched(k, h) /\ k.buf = h.buf /\ k.pool[p].size = size
          /\ \A q \in Pools \ {p} : SamePool(k, h, q)
      <4>1. size <= MaxSize
        BY DEF size
      <4> QED BY <1>1, <2>1, <4>1, PoolSizeSetSound
    <3> QED BY <1>1, <2>1, <3>1
  <2>2. CASE ~(h.pool[p].size < size)
    <3>1. d = h
      BY <2>2
    <3> HIDE DEF d, size
    <3> QED BY <1>1, <2>2, <3>1 DEF Untouched, SamePool, SameBuf
  <2> QED BY <2>1, <2>2
<1>3. e = [d EXCEPT !.buf[p] = [d.buf[p] EXCEPT !.item = item, !.size = size, !.filled = FALSE]]
  BY DEF BufStream
<1> HIDE DEF d, e, size
<1>4. Shape(d) /\ DOMAIN d = BufferFields
  BY <1>2 DEF BuffersSound, Shape
<1>5. /\ DOMAIN e = BufferFields /\ Untouched(e, d) /\ e.pool = d.pool /\ e.object = d.object /\ e.next = d.next
      /\ e.failed = d.failed
      /\ e.buf = [d.buf EXCEPT ![p] = [d.buf[p] EXCEPT !.item = item, !.size = size, !.filled = FALSE]]
  BY <1>3, <1>4 DEF BufferFields, Untouched, DrawFields
<1>6. /\ e.buf[p].item = item /\ e.buf[p].size = size /\ e.buf[p].filled = FALSE
      /\ e.buf[p].index = d.buf[p].index /\ e.buf[p] \in BufSet /\ OnlyBuf(e, d, p)
  <2>1. d.buf[p] \in BufSet /\ d.buf \in [Pools -> BufSet]
    BY <1>1, <1>4 DEF Shape
  <2>2. e.buf[p] = [d.buf[p] EXCEPT !.item = item, !.size = size, !.filled = FALSE]
    BY <1>1, <1>5, <2>1
  <2>3. e.buf[p] \in BufSet
    BY <1>1, <2>1, <2>2 DEF BufSet
  <2> QED BY <1>5, <2>1, <2>2, <2>3 DEF BufSet, OnlyBuf
<1>7. /\ Shape(e) /\ OthersKept(e, d, p) /\ NamesSuffice(e)
      /\ d.pool[p].gl # 0 => ObjectOf(e, p) = ObjectOf(d, p)
  <2>1. NamesSuffice(d)
    BY <1>2 DEF BuffersSound
  <2>2. p \in Pools /\ Shape(d) /\ DOMAIN e = BufferFields /\ OnlyBuf(e, d, p) /\ e.buf[p] \in BufSet
    BY <1>1, <1>4, <1>5, <1>6
  <2> QED BY <2>1, <2>2, OnlyBufKeeps
<1>8. PoolSound(e, p, FALSE)
  <2>1. PoolSound(d, p, FALSE)
    <3>1. (p \in L) = FALSE
      OBVIOUS
    <3>2. PoolSound(d, p, p \in L)
      BY <1>1, <1>2 DEF BuffersSound
    <3> QED BY <3>1, <3>2
  <2>2. e.pool[p] = d.pool[p] /\ e.next = d.next
    BY <1>5
  <2>3. d.pool[p].gl # 0 => ObjectFits(e, p, FALSE)
    BY <1>7, <2>1, <2>2 DEF PoolSound, ObjectFits
  <2>4. StreamFits(e, p, FALSE)
    BY <1>6, <1>7, <2>1, <2>2 DEF PoolSound, StreamFits
  <2> QED BY <2>1, <2>2, <2>3, <2>4 DEF PoolSound
<1>9. BuffersSound(e, L)
  <2>1. (p \in L) = FALSE /\ e.next >= d.next /\ e.failed = {} /\ e.pool[p].gl = d.pool[p].gl
    BY <1>2, <1>4, <1>5 DEF BuffersSound, Shape
  <2> QED BY <1>1, <1>2, <1>7, <1>8, <2>1, OneLocked
<1>10. OthersKept(e, h, p)
  <2>1. ASSUME NEW q \in Pools \ {p} PROVE SamePool(e, h, q) /\ e.buf[q].changed = h.buf[q].changed
    <3>1. SamePool(e, d, q) /\ SamePool(d, h, q) /\ e.buf[q].changed = d.buf[q].changed
      BY <1>2, <1>7 DEF OthersKept
    <3> QED BY <1>2, <3>1 DEF SamePool, SameBuf
  <2> QED BY <2>1 DEF OthersKept
<1>11. Untouched(e, h)
  BY <1>2, <1>5 DEF Untouched
<1> QED BY <1>2, <1>5, <1>6, <1>9, <1>10, <1>11 DEF e, size

-----------------------------------------------------------------------------
(* Locking                                                                 *)

\* The part that BufLock hands out.
LockFull(h, p) == p \in StreamPools /\ AlignedNext(h, p) + h.buf[p].size > h.pool[p].size
\* Where that part begins.
LockIndex(h, p) ==
  IF p \notin StreamPools THEN h.buf[p].index ELSE IF LockFull(h, p) THEN 0 ELSE AlignedNext(h, p)
\* The pool and the buffer once the part is theirs.
LockTaken(h, p) == Take([h EXCEPT !.buf[p].changed = TRUE], p, LockIndex(h, p), LockFull(h, p))

\* The pool and the buffer after the part was taken.
TakenPool(h, t, p) ==
  /\ t.pool[p] \in PoolSet /\ t.pool[p].size = h.pool[p].size /\ t.pool[p].gl = h.pool[p].gl
  /\ p \in StreamPools => t.pool[p].next = LockIndex(h, p) + h.buf[p].size
\* The buffer after the part was taken.
TakenBuf(h, t, p) ==
  /\ t.buf[p] \in BufSet /\ t.buf[p].item = h.buf[p].item /\ t.buf[p].size = h.buf[p].size
  /\ t.buf[p].index = LockIndex(h, p) /\ t.buf[p].changed = TRUE
  /\ p \notin StreamPools => t.buf[p].filled = h.buf[p].filled

\* Taking a part moves the stream behind it; the objects are not concerned.
LEMMA TakeFacts ==
  ASSUME NEW h, Shape(h), NEW p \in Pools, LockIndex(h, p) \in Nat
  PROVE  LET t == LockTaken(h, p) IN
         /\ Shape(t) /\ Untouched(t, h) /\ t.object = h.object /\ t.next = h.next /\ t.failed = h.failed
         /\ t.pool = [h.pool EXCEPT ![p] = t.pool[p]] /\ t.buf = [h.buf EXCEPT ![p] = t.buf[p]]
         /\ TakenPool(h, t, p) /\ TakenBuf(h, t, p)
<1> DEFINE t == LockTaken(h, p)
           c == [h EXCEPT !.buf[p].changed = TRUE]
           full == LockFull(h, p)
           index == LockIndex(h, p)
           b == h.buf[p]
           q == h.pool[p]
<1>1. /\ DOMAIN h = BufferFields /\ h.pool \in [Pools -> PoolSet] /\ h.buf \in [Pools -> BufSet]
      /\ q \in PoolSet /\ b \in BufSet
      /\ index \in Nat /\ full \in BOOLEAN /\ b.size \in Nat /\ q.size \in Nat
      /\ h.pool = [h.pool EXCEPT ![p] = q]
  BY ShapeFacts DEF Shape, LockFull
<1>2. /\ DOMAIN c = BufferFields /\ c.buf = [h.buf EXCEPT ![p] = [b EXCEPT !.changed = TRUE]]
      /\ c.pool = h.pool /\ c.object = h.object /\ c.next = h.next /\ c.failed = h.failed /\ Untouched(c, h)
  BY <1>1 DEF BufferFields, Untouched, DrawFields
<1>3. t = Take(c, p, index, full)
  BY DEF LockTaken
<1> HIDE DEF t, c, full, index
<1>4. [b EXCEPT !.changed = TRUE] \in BufSet /\ c.buf[p] = [b EXCEPT !.changed = TRUE] /\ c.buf[p].size = b.size
  BY <1>1, <1>2 DEF BufSet
<1>5. /\ DOMAIN t = BufferFields /\ Untouched(t, h) /\ t.object = h.object /\ t.next = h.next /\ t.failed = h.failed
      /\ t.pool = [h.pool EXCEPT ![p] = t.pool[p]] /\ t.buf = [h.buf EXCEPT ![p] = t.buf[p]]
      /\ TakenPool(h, t, p) /\ TakenBuf(h, t, p)
  <2>1. CASE p \notin StreamPools
    <3>1. t = c
      BY <1>3, <2>1 DEF Take
    <3>2. index = b.index
      BY <2>1 DEF LockIndex, index
    <3>3. TakenPool(h, t, p)
      BY <1>1, <1>2, <2>1, <3>1 DEF TakenPool
    <3>4. TakenBuf(h, t, p)
      BY <1>1, <1>4, <2>1, <3>1, <3>2 DEF TakenBuf, BufSet, index
    <3> QED BY <1>1, <1>2, <1>4, <2>1, <3>1, <3>3, <3>4
  <2>2. CASE p \in StreamPools /\ ~full
    <3>1. t = [c EXCEPT !.buf[p].index = index, !.pool[p].next = index + c.buf[p].size]
      BY <1>3, <2>2 DEF Take
    <3>2. /\ DOMAIN t = BufferFields /\ t.object = c.object /\ t.next = c.next /\ t.failed = c.failed /\ Untouched(t, c)
          /\ t.buf = [c.buf EXCEPT ![p] = [c.buf[p] EXCEPT !.index = index]]
          /\ t.pool = [c.pool EXCEPT ![p] = [c.pool[p] EXCEPT !.next = index + c.buf[p].size]]
      BY <1>2, <3>1 DEF BufferFields, Untouched, DrawFields
    <3>3. t.buf[p] = [b EXCEPT !.changed = TRUE, !.index = index] /\ t.buf = [h.buf EXCEPT ![p] = t.buf[p]]
      BY <1>1, <1>2, <1>4, <3>2
    <3>4. t.pool[p] = [q EXCEPT !.next = index + b.size] /\ t.pool = [h.pool EXCEPT ![p] = t.pool[p]]
      BY <1>1, <1>2, <1>4, <3>2
    <3>5. TakenPool(h, t, p)
      BY <1>1, <2>2, <3>4 DEF TakenPool, PoolSet, index
    <3>6. TakenBuf(h, t, p)
      BY <1>1, <2>2, <3>3 DEF TakenBuf, BufSet, index
    <3>7. Untouched(t, h)
      BY <1>2, <3>2 DEF Untouched
    <3> QED BY <1>2, <3>2, <3>3, <3>4, <3>5, <3>6, <3>7
  <2>3. CASE p \in StreamPools /\ full
    <3> DEFINE d == Discard(c, p)
    <3>1. t = [d EXCEPT !.buf[p].index = index, !.pool[p].next = index + c.buf[p].size]
      BY <1>3, <2>3 DEF Take
    <3>2. d = [c EXCEPT !.buf[p].filled = FALSE, !.pool[p].next = 0]
      BY DEF Discard
    <3> HIDE DEF d
    <3>3. /\ DOMAIN d = BufferFields /\ d.object = c.object /\ d.next = c.next /\ d.failed = c.failed /\ Untouched(d, c)
          /\ d.buf = [c.buf EXCEPT ![p] = [c.buf[p] EXCEPT !.filled = FALSE]]
          /\ d.pool = [c.pool EXCEPT ![p] = [c.pool[p] EXCEPT !.next = 0]]
      BY <1>2, <3>2 DEF BufferFields, Untouched, DrawFields
    <3>4. /\ DOMAIN t = BufferFields /\ t.object = d.object /\ t.next = d.next /\ t.failed = d.failed /\ Untouched(t, d)
          /\ t.buf = [d.buf EXCEPT ![p] = [d.buf[p] EXCEPT !.index = index]]
          /\ t.pool = [d.pool EXCEPT ![p] = [d.pool[p] EXCEPT !.next = index + c.buf[p].size]]
      BY <3>1, <3>3 DEF BufferFields, Untouched, DrawFields
    <3>5. /\ t.buf[p] = [b EXCEPT !.changed = TRUE, !.filled = FALSE, !.index = index]
          /\ t.buf = [h.buf EXCEPT ![p] = t.buf[p]]
      <4>1. d.buf[p] = [b EXCEPT !.changed = TRUE, !.filled = FALSE] /\ d.buf = [h.buf EXCEPT ![p] = d.buf[p]]
        BY <1>1, <1>2, <1>4, <3>3
      <4> QED BY <1>1, <3>4, <4>1
    <3>6. t.pool[p] = [q EXCEPT !.next = index + b.size] /\ t.pool = [h.pool EXCEPT ![p] = t.pool[p]]
      <4>1. d.pool[p] = [q EXCEPT !.next = 0] /\ d.pool = [h.pool EXCEPT ![p] = d.pool[p]]
        BY <1>1, <1>2, <1>4, <3>3
      <4>2. t.pool[p] = [d.pool[p] EXCEPT !.next = index + b.size]
        BY <1>1, <1>4, <3>4, <4>1
      <4>3. d.pool[p] \in [size : Nat, next : Nat, gl : Objects \cup {0}] /\ index + b.size \in Nat
        BY <1>1, <4>1 DEF PoolSet
      <4>4. t.pool[p] = [q EXCEPT !.next = index + b.size]
        BY <1>1, <4>1, <4>2 DEF PoolSet
      <4> QED BY <1>1, <3>4, <4>1, <4>4
    <3>7. TakenPool(h, t, p)
      BY <1>1, <2>3, <3>6 DEF TakenPool, PoolSet, index
    <3>8. TakenBuf(h, t, p)
      BY <1>1, <2>3, <3>5 DEF TakenBuf, BufSet, index
    <3>9. Untouched(t, h)
      BY <1>2, <3>3, <3>4 DEF Untouched
    <3> QED BY <1>2, <3>3, <3>4, <3>5, <3>6, <3>7, <3>8, <3>9
  <2> QED BY <1>1, <2>1, <2>2, <2>3
<1>6. Shape(t)
  <2>1. t.pool[p] \in PoolSet /\ t.buf[p] \in BufSet
    BY <1>5 DEF TakenPool, TakenBuf
  <2>2. t.pool \in [Pools -> PoolSet] /\ t.buf \in [Pools -> BufSet]
    BY <1>1, <1>5, <2>1
  <2> QED BY <1>5, <2>2 DEF Shape
<1> QED BY <1>5, <1>6 DEF t

\* Only object n changed.
OnlyObject(e, h, n) ==
  /\ Untouched(e, h) /\ e.pool = h.pool /\ e.buf = h.buf /\ e.next = h.next /\ e.failed = h.failed
  /\ e.object = [h.object EXCEPT ![n] = e.object[n]]

\* A step that changes the object of one pool leaves the other pools alone.
LEMMA OnlyObjectKeeps ==
  ASSUME NEW h, NEW e, NEW L, BuffersSound(h, L), NEW p \in Pools, h.pool[p].gl # 0,
         DOMAIN e = BufferFields, OnlyObject(e, h, h.pool[p].gl), ObjectOf(e, p) \in ObjectSet
  PROVE  Shape(e) /\ OthersKept(e, h, p) /\ NamesSuffice(e)
<1> DEFINE n == h.pool[p].gl
<1>1. Shape(h) /\ n \in Objects /\ e.object[n] \in ObjectSet /\ NamesSuffice(h)
  <2>1. Shape(h) /\ NamesSuffice(h)
    BY DEF BuffersSound
  <2>2. n \in Objects
    BY <2>1, ShapeFacts
  <2> QED BY <2>1, <2>2 DEF OnlyObject, ObjectOf
<1>2. Shape(e)
  BY <1>1 DEF Shape, OnlyObject
<1>3. ASSUME NEW q \in Pools \ {p} PROVE SamePool(e, h, q) /\ e.buf[q].changed = h.buf[q].changed
  <2>1. h.pool[q].gl # 0 => h.pool[q].gl # n /\ h.pool[q].gl \in Objects
    BY PoolFacts
  <2> QED BY <1>1, <2>1 DEF OnlyObject, SamePool, SameBuf, ObjectOf, Shape
<1>4. NamesSuffice(e)
  BY <1>1 DEF OnlyObject, NamesSuffice, ObjectsUsed, HasObject
<1> QED BY <1>2, <1>3, <1>4 DEF OthersKept

\* GLBuffer::Map of an object that can be mapped.
MapRight(h, n, offset, size, orphan) ==
  /\ h.object[n].live /\ offset + size <= h.object[n].size
  /\ ~h.object[n].mapped
  /\ orphan => offset = 0
\* What mapping leaves of the object.
Mapped(e, h, n, orphan) ==
  /\ DOMAIN e = BufferFields /\ OnlyObject(e, h, n)
  /\ e.object[n] \in ObjectSet /\ e.object[n].live /\ e.object[n].size = h.object[n].size
  /\ e.object[n].mapped = TRUE
  /\ IF orphan THEN e.object[n].reading = {}
     ELSE e.object[n].reading = h.object[n].reading /\ e.object[n].content = h.object[n].content

\* Mapping an object that can be mapped fails no assertion.
LEMMA MapFacts ==
  ASSUME NEW h, Shape(h), NEW n \in Objects, NEW offset, NEW size, NEW orphan \in BOOLEAN,
         MapRight(h, n, offset, size, orphan)
  PROVE  Mapped(Map(h, n, offset, size, orphan), h, n, orphan)
<1> DEFINE e == Map(h, n, offset, size, orphan)
           o == IF orphan THEN NewObject(h.object[n].size) ELSE h.object[n]
<1>1. DOMAIN h = BufferFields /\ h.object \in [Objects -> ObjectSet]
  BY DEF Shape
<1>2. e = [h EXCEPT !.object[n] = [o EXCEPT !.mapped = TRUE]]
  <2>1. e = [Checked(h, MapRight(h, n, offset, size, orphan), "Map")
               EXCEPT !.object[n] = [(IF orphan THEN NewObject(@.size) ELSE @) EXCEPT !.mapped = TRUE]]
    BY DEF Map, MapRight
  <2>2. Checked(h, MapRight(h, n, offset, size, orphan), "Map") = h
    BY DEF Checked
  <2> HIDE DEF e
  <2> QED BY <2>1, <2>2
<1> HIDE DEF e
<1>3. /\ o \in ObjectSet /\ o.live /\ o.size = h.object[n].size
      /\ orphan => o.reading = {}
      /\ ~orphan => o = h.object[n]
  BY <1>1, ObjectFacts, NewObjectFacts DEF MapRight
<1> HIDE DEF o
<1>4. /\ DOMAIN e = BufferFields /\ Untouched(e, h) /\ e.pool = h.pool /\ e.buf = h.buf /\ e.next = h.next
      /\ e.failed = h.failed /\ e.object = [h.object EXCEPT ![n] = [o EXCEPT !.mapped = TRUE]]
  BY <1>1, <1>2 DEF BufferFields, Untouched, DrawFields
<1>5. e.object[n] = [o EXCEPT !.mapped = TRUE]
  BY <1>1, <1>4
<1>6. [o EXCEPT !.mapped = TRUE] \in ObjectSet
  BY <1>3 DEF ObjectSet
<1>7. /\ e.object[n].live /\ e.object[n].size = h.object[n].size /\ e.object[n].mapped = TRUE
      /\ e.object[n].reading = o.reading /\ e.object[n].content = o.content
  BY <1>3, <1>5 DEF ObjectSet
<1> QED BY <1>3, <1>4, <1>5, <1>6, <1>7 DEF OnlyObject, Mapped, e

\* Created gives the pool an object, if it had none.
LEMMA CreatedFacts ==
  ASSUME NEW h, Shape(h), NEW p \in Pools, h.pool[p].gl = 0 => h.next \in Objects
  PROVE  LET e == Created(h, p) IN
         /\ Shape(e) /\ Untouched(e, h) /\ e.buf = h.buf /\ e.failed = h.failed
         /\ e.pool = [h.pool EXCEPT ![p] = e.pool[p]] /\ e.pool[p].size = h.pool[p].size
         /\ e.pool[p].next = h.pool[p].next
         /\ IF h.pool[p].gl = 0
            THEN /\ e.pool[p].gl = h.next /\ e.next = h.next + 1
                 /\ e.object = [h.object EXCEPT ![h.next] = NewObject(h.pool[p].size)]
            ELSE e = h
<1> DEFINE e == Created(h, p)
<1>1. h.pool[p] \in PoolSet /\ h.pool \in [Pools -> PoolSet]
  BY DEF Shape
<1>2. CASE h.pool[p].gl = 0
  <2>1. e = CreateBuffer(h, p)
    BY <1>2 DEF Created
  <2> HIDE DEF e
  <2>2. /\ Shape(e) /\ Untouched(e, h) /\ e.buf = h.buf /\ e.failed = h.failed
        /\ e.pool = [h.pool EXCEPT ![p] = [h.pool[p] EXCEPT !.gl = h.next]]
        /\ e.object = [h.object EXCEPT ![h.next] = NewObject(h.pool[p].size)]
        /\ e.next = h.next + 1
    BY <1>2, <2>1, CreateBufferFacts
  <2>3. e.pool[p] = [h.pool[p] EXCEPT !.gl = h.next]
    BY <1>1, <2>2
  <2>4. e.pool[p].gl = h.next /\ e.pool[p].size = h.pool[p].size /\ e.pool[p].next = h.pool[p].next
    BY <1>1, <2>3 DEF PoolSet
  <2> QED BY <1>2, <2>2, <2>3, <2>4 DEF e
<1>3. CASE h.pool[p].gl # 0
  <2>1. e = h
    BY <1>3 DEF Created
  <2> HIDE DEF e
  <2> QED BY <1>1, <1>3, <2>1 DEF Untouched, e
<1> QED BY <1>2, <1>3

\* The part that is handed out fits, and OpenGL reads nothing from there on.
LEMMA LockIndexFacts ==
  ASSUME NEW h, NEW L, BuffersSound(h, L), NEW p \in Pools, p \notin L,
         p \in StreamPools => h.buf[p].size <= h.pool[p].size
  PROVE  /\ LockIndex(h, p) \in Nat /\ LockFull(h, p) \in BOOLEAN
         /\ LockIndex(h, p) + h.buf[p].size <= h.pool[p].size
         /\ LockFull(h, p) => LockIndex(h, p) = 0
         /\ p \in StreamPools /\ ~LockFull(h, p) => LockIndex(h, p) >= h.pool[p].next
         /\ p \notin StreamPools => LockIndex(h, p) = 0 /\ ~LockFull(h, p)
<1>1. /\ Shape(h) /\ PoolSound(h, p, p \in L)
      /\ h.pool[p].size \in Nat /\ h.pool[p].next \in Nat /\ h.buf[p].size \in Nat /\ h.buf[p].index \in Nat
      /\ TextCapacity \in Nat
  BY ShapeFacts, BufferConstants DEF BuffersSound
<1>2. CASE p \in StreamPools
  <2>1. AlignedNext(h, p) \in Nat /\ AlignedNext(h, p) >= h.pool[p].next
    <3>1. h.buf[p].item > 0
      BY <1>1, <1>2 DEF PoolSound, StreamFits
    <3> QED BY <1>1, <3>1, AlignedNextFacts
  <2> QED BY <1>1, <1>2, <2>1 DEF LockIndex, LockFull
<1>3. CASE p \notin StreamPools
  BY <1>1, <1>3 DEF LockIndex, LockFull, PoolSound, StaticFits
<1> QED BY <1>2, <1>3

\* BufLock hands out a part of the pool, of its own object.
LEMMA BufLockFacts ==
  ASSUME NEW h, NEW L, BuffersSound(h, L), NEW p \in Pools, p \notin L,
         p \in StreamPools => h.buf[p].size <= h.pool[p].size
  PROVE  LET e == BufLock(h, p) IN
         /\ BuffersSound(e, L \cup {p}) /\ Untouched(e, h) /\ OthersKept(e, h, p)
         /\ e.buf[p].changed = TRUE /\ e.buf[p].size = h.buf[p].size
         /\ p \notin StreamPools => e.buf[p].filled = h.buf[p].filled
<1> DEFINE full == LockFull(h, p)
           index == LockIndex(h, p)
           size == h.buf[p].size
           t == LockTaken(h, p)
           k == Created(t, p)
           n == k.pool[p].gl
           e == BufLock(h, p)
<1>1. /\ Shape(h) /\ h.failed = {} /\ NamesSuffice(h) /\ PoolSound(h, p, FALSE)
      /\ h.pool[p].size \in Nat /\ size \in Nat /\ h.pool[p].gl \in Nat /\ h.next \in Nat \ {0} /\ h.pool[p].next \in Nat
      /\ h.pool[p].gl # 0 => h.pool[p].gl \in Objects /\ ObjectOf(h, p) \in ObjectSet
  <2>1. (p \in L) = FALSE
    OBVIOUS
  <2>2. Shape(h) /\ h.failed = {} /\ NamesSuffice(h) /\ PoolSound(h, p, p \in L)
    BY DEF BuffersSound
  <2> QED BY <2>1, <2>2, ShapeFacts DEF Shape
<1>2. /\ index \in Nat /\ full \in BOOLEAN /\ index + size <= h.pool[p].size
      /\ full => index = 0
      /\ p \in StreamPools /\ ~full => index >= h.pool[p].next
      /\ p \notin StreamPools => index = 0 /\ ~full
  BY LockIndexFacts
<1>3. /\ Shape(t) /\ Untouched(t, h) /\ t.object = h.object /\ t.next = h.next /\ t.failed = h.failed
      /\ t.pool = [h.pool EXCEPT ![p] = t.pool[p]] /\ t.buf = [h.buf EXCEPT ![p] = t.buf[p]]
      /\ TakenPool(h, t, p) /\ TakenBuf(h, t, p)
  BY <1>1, <1>2, TakeFacts
<1>4. e = Map(k, n, k.buf[p].index, k.buf[p].size, full)
  BY DEF BufLock, MapPool, MapOf, LockTaken, LockIndex, LockFull
<1>5. t.pool[p].gl = 0 => t.next \in Objects
  <2>1. h.pool[p].gl = 0 => h.next \in Objects
    BY NextIsObject
  <2> QED BY <1>3, <2>1 DEF TakenPool
<1> HIDE DEF t, full, index, size, e
<1>6. /\ Shape(k) /\ Untouched(k, t) /\ k.buf = t.buf /\ k.failed = t.failed
      /\ k.pool = [t.pool EXCEPT ![p] = k.pool[p]] /\ k.pool[p].size = t.pool[p].size
      /\ k.pool[p].next = t.pool[p].next
      /\ IF t.pool[p].gl = 0
         THEN /\ k.pool[p].gl = t.next /\ k.next = t.next + 1
              /\ k.object = [t.object EXCEPT ![t.next] = NewObject(t.pool[p].size)]
         ELSE k = t
  BY <1>3, <1>5, CreatedFacts
<1> HIDE DEF k, n
<1>7. /\ k.pool[p].size = h.pool[p].size /\ k.buf[p].size = size /\ k.buf[p].index = index
      /\ p \in StreamPools => k.pool[p].next = index + size
      /\ k.buf[p].item = h.buf[p].item /\ k.buf[p].changed = TRUE
      /\ p \notin StreamPools => k.buf[p].filled = h.buf[p].filled
  BY <1>3, <1>6 DEF TakenPool, TakenBuf, index, size
<1>8. /\ n \in Objects /\ n < k.next /\ k.next \in Nat /\ n \in Nat \ {0}
      /\ IF h.pool[p].gl = 0 THEN n = h.next /\ k.next = h.next + 1 /\ k.object = [h.object EXCEPT ![n] = NewObject(h.pool[p].size)]
         ELSE n = h.pool[p].gl /\ k.next = h.next /\ k.object = h.object
  <2>1. t.pool[p].gl = h.pool[p].gl /\ t.pool[p].size = h.pool[p].size /\ n = k.pool[p].gl
    BY <1>3 DEF TakenPool, n
  <2>2. CASE h.pool[p].gl = 0
    <3>1. t.pool[p].gl = 0 /\ t.next = h.next /\ t.object = h.object
      BY <1>3, <2>1, <2>2
    <3>2. n = h.next /\ k.next = h.next + 1 /\ k.object = [h.object EXCEPT ![n] = NewObject(h.pool[p].size)]
      BY <1>6, <2>1, <3>1
    <3>3. n \in Objects
      BY <1>5, <3>1, <3>2
    <3>4. h.next < h.next + 1 /\ h.next + 1 \in Nat
      BY <1>1
    <3>5. n < k.next /\ k.next \in Nat /\ n \in Nat \ {0}
      BY <1>1, <3>2, <3>4
    <3>6. IF h.pool[p].gl = 0 THEN n = h.next /\ k.next = h.next + 1 /\ k.object = [h.object EXCEPT ![n] = NewObject(h.pool[p].size)]
          ELSE n = h.pool[p].gl /\ k.next = h.next /\ k.object = h.object
      BY <2>2, <3>2
    <3> QED BY <3>3, <3>5, <3>6
  <2>3. CASE h.pool[p].gl # 0
    <3>1. h.pool[p].gl < h.next
      BY <1>1, <2>3 DEF PoolSound, ObjectFits
    <3> QED BY <1>1, <1>3, <1>6, <2>1, <2>3, <3>1
  <2> QED BY <2>2, <2>3
<1>9. /\ IF h.pool[p].gl = 0 THEN k.object[n] = NewObject(h.pool[p].size) ELSE k.object[n] = ObjectOf(h, p)
      /\ k.object[n].live /\ k.object[n].size = h.pool[p].size /\ k.object[n].mapped = FALSE
  <2>1. CASE h.pool[p].gl = 0
    <3>1. k.object[n] = NewObject(h.pool[p].size)
      BY <1>1, <1>8, <2>1 DEF Shape
    <3>2. /\ NewObject(h.pool[p].size).live /\ NewObject(h.pool[p].size).size = h.pool[p].size
          /\ NewObject(h.pool[p].size).mapped = FALSE
      BY <1>1, NewObjectFacts
    <3> QED BY <2>1, <3>1, <3>2
  <2>2. CASE h.pool[p].gl # 0
    <3>1. k.object[n] = ObjectOf(h, p)
      BY <1>8, <2>2 DEF ObjectOf
    <3> QED BY <1>1, <2>2, <3>1 DEF PoolSound, ObjectFits
  <2> QED BY <2>1, <2>2
<1>10. MapRight(k, n, k.buf[p].index, k.buf[p].size, full)
  <2>1. k.buf[p].index + k.buf[p].size <= k.object[n].size
    BY <1>2, <1>7, <1>9
  <2>2. full => k.buf[p].index = 0
    BY <1>2, <1>7
  <2>3. k.object[n].live /\ ~k.object[n].mapped
    BY <1>9
  <2> QED BY <2>1, <2>2, <2>3 DEF MapRight
<1>11. /\ DOMAIN e = BufferFields /\ OnlyObject(e, k, n)
       /\ e.object[n] \in ObjectSet /\ e.object[n].live /\ e.object[n].size = k.object[n].size
       /\ e.object[n].mapped = TRUE
       /\ IF full THEN e.object[n].reading = {}
          ELSE e.object[n].reading = k.object[n].reading /\ e.object[n].content = k.object[n].content
  <2>1. Shape(k) /\ n \in Objects
    BY <1>6, <1>8
  <2>2. PICK orphan \in BOOLEAN : orphan = full
    BY <1>2
  <2>3. e = Map(k, n, k.buf[p].index, k.buf[p].size, orphan) /\ MapRight(k, n, k.buf[p].index, k.buf[p].size, orphan)
    BY <1>4, <1>10, <2>2
  <2>4. Mapped(e, k, n, orphan)
    BY <2>1, <2>3, MapFacts
  <2> QED BY <2>2, <2>4 DEF Mapped
<1>12. /\ e.pool = k.pool /\ e.buf = k.buf /\ e.next = k.next /\ e.failed = {} /\ e.pool[p].gl = n
       /\ ObjectOf(e, p) = e.object[n] /\ \A m \in Objects : m # n => e.object[m] = k.object[m]
  <2>1. /\ e.pool = k.pool /\ e.buf = k.buf /\ e.next = k.next /\ e.failed = k.failed
        /\ e.object = [k.object EXCEPT ![n] = e.object[n]]
    BY <1>11 DEF OnlyObject
  <2>2. k.failed = {}
    BY <1>1, <1>3, <1>6
  <2>3. e.pool[p].gl = n /\ ObjectOf(e, p) = e.object[n]
    BY <2>1 DEF ObjectOf, n
  <2>4. DOMAIN k.object = Objects
    BY <1>6 DEF Shape
  <2>5. \A m \in Objects : m # n => e.object[m] = k.object[m]
    <3> DEFINE after == e.object
    <3>1. after = [k.object EXCEPT ![n] = after[n]]
      BY <2>1
    <3> HIDE DEF after
    <3>2. \A m \in Objects : m # n => after[m] = k.object[m]
      BY <2>4, <3>1
    <3> QED BY <3>2 DEF after
  <2> QED BY <2>1, <2>2, <2>3, <2>5
<1>13. Shape(e) /\ Untouched(e, h)
  <2>1. Shape(e)
    BY <1>6, <1>8, <1>11, <1>12 DEF Shape, OnlyObject
  <2>2. Untouched(e, h)
    BY <1>3, <1>6, <1>11 DEF Untouched, OnlyObject
  <2> QED BY <2>1, <2>2
<1>14. \A q \in Pools \ {p} : e.pool[q] = h.pool[q] /\ e.buf[q] = h.buf[q]
  BY <1>1, <1>3, <1>6, <1>12 DEF Shape
<1>15. OthersKept(e, h, p)
  <2>1. ObjectsKept(e, h, h.next, h.pool[p].gl)
    BY <1>1, <1>8, <1>12 DEF ObjectsKept, Shape
  <2>2. ASSUME NEW q \in Pools \ {p} PROVE SamePool(e, h, q) /\ e.buf[q].changed = h.buf[q].changed
    <3>1. e.pool[q] = h.pool[q] /\ e.buf[q] = h.buf[q]
      BY <1>14
    <3> QED BY <2>1, <3>1, OthersSame
  <2> QED BY <2>2 DEF OthersKept
<1>16. PoolSound(e, p, TRUE)
  <2>1. /\ e.pool[p].size = h.pool[p].size /\ e.buf[p].size = size /\ e.buf[p].index = index
        /\ p \in StreamPools => e.pool[p].next = index + size
        /\ e.buf[p].item = h.buf[p].item
        /\ p \notin StreamPools => e.buf[p].filled = h.buf[p].filled
    BY <1>7, <1>12
  <2>2. ObjectFits(e, p, TRUE)
    BY <1>8, <1>9, <1>11, <1>12, <2>1 DEF ObjectFits
  <2>3. CASE p \in StreamPools
    <3>1. ASSUME NEW b \in ObjectOf(e, p).reading PROVE b < index
      <4>1. ~full /\ b \in k.object[n].reading
        BY <1>2, <1>11, <1>12, <3>1
      <4>2. h.pool[p].gl # 0 /\ b \in ObjectOf(h, p).reading
        BY <1>1, <1>9, <4>1, NewObjectFacts
      <4>3. b < h.pool[p].next /\ b \in Nat
        BY <1>1, <2>3, <4>2, ObjectFacts DEF PoolSound, StreamFits
      <4> QED BY <1>1, <1>2, <2>3, <4>1, <4>3
    <3>2. StreamFits(e, p, TRUE)
      <4>1. h.buf[p].item > 0
        BY <1>1, <2>3 DEF PoolSound, StreamFits
      <4> QED BY <2>1, <2>3, <3>1, <4>1 DEF StreamFits
    <3> QED BY <1>1, <1>2, <1>8, <1>12, <2>1, <2>2, <2>3, <3>2 DEF PoolSound
  <2>4. CASE p \notin StreamPools
    <3>1. StaticFits(h, p) /\ index = 0 /\ ~full
      BY <1>1, <1>2, <2>4 DEF PoolSound
    <3>2. size = TextCapacity /\ h.pool[p].size = TextCapacity
      BY <3>1 DEF StaticFits, size
    <3>3. ObjectOf(e, p).reading = k.object[n].reading /\ ObjectOf(e, p).content = k.object[n].content
      BY <1>11, <1>12, <3>1
    <3>4. StaticFits(e, p)
      <4>1. CASE h.buf[p].filled
        <5>1. h.pool[p].gl # 0 /\ \A b \in 0..(TextCapacity - 1) : ObjectOf(h, p).content[b] = StaticContent(p)
          BY <3>1, <4>1 DEF StaticFits
        <5>2. ObjectOf(e, p).content = ObjectOf(h, p).content /\ e.pool[p].gl # 0
          BY <1>8, <1>9, <1>12, <3>3, <5>1
        <5>3. e.buf[p].index = 0 /\ e.buf[p].size = TextCapacity /\ e.pool[p].size = TextCapacity /\ e.buf[p].filled
          BY <2>1, <2>4, <3>1, <3>2, <4>1
        <5> QED BY <5>1, <5>2, <5>3 DEF StaticFits
      <4>2. CASE ~h.buf[p].filled
        <5>1. ObjectOf(e, p).reading = {}
          BY <1>1, <1>9, <3>1, <3>3, <4>2, NewObjectFacts DEF StaticFits
        <5> QED BY <2>1, <2>4, <3>1, <3>2, <4>2, <5>1 DEF StaticFits
      <4> QED BY <4>1, <4>2
    <3> QED BY <1>1, <1>2, <1>8, <1>12, <2>1, <2>2, <2>4, <3>4 DEF PoolSound
  <2> QED BY <2>3, <2>4
<1>17. NamesSuffice(e)
  <2>1. /\ ObjectsUsed(h) \in Int /\ ObjectsUsed(e) \in Int
        /\ ObjectsUsed(e) = ObjectsUsed(h) + (HasObject(e, p) - HasObject(h, p)) + (Grown(e, p) - Grown(h, p))
    <3>1. OtherPools(e, h, p)
      BY <1>14 DEF OtherPools
    <3> QED BY <1>1, <1>13, <3>1, ObjectsUsedBy
  <2>2. e.pool[p].size = h.pool[p].size /\ \A q \in Pools \ {p} : e.pool[q] = h.pool[q]
    BY <1>7, <1>12, <1>14
  <2>3. Grown(e, p) = Grown(h, p) /\ Grown(h, p) \in Nat
    BY <1>1, <2>2 DEF Grown
  <2>4. e.next = h.next + (HasObject(e, p) - HasObject(h, p)) /\ HasObject(e, p) = 1 /\ HasObject(h, p) \in {0, 1}
    BY <1>1, <1>8, <1>12 DEF HasObject
  <2>5. h.next <= 1 + ObjectsUsed(h)
    BY <1>1 DEF NamesSuffice
  <2>6. e.next <= 1 + ObjectsUsed(e)
    BY <1>1, <2>1, <2>3, <2>4, <2>5
  <2>7. e.pool["Stream_vtx"].size = h.pool["Stream_vtx"].size /\ e.pool["Stream_idx"].size = h.pool["Stream_idx"].size
    BY <2>2, PoolNames
  <2> QED BY <1>1, <2>6, <2>7 DEF NamesSuffice
<1>18. BuffersSound(e, L \cup {p})
  <2>1. (p \in L \cup {p}) = TRUE /\ (L \cup {p}) \ {p} = L \ {p}
    OBVIOUS
  <2>2. e.pool[p].gl \in {0, h.pool[p].gl} \/ e.pool[p].gl >= h.next
    BY <1>1, <1>8, <1>12
  <2>3. e.next >= h.next
    BY <1>1, <1>8, <1>12
  <2>4. PoolSound(e, p, p \in L \cup {p})
    BY <1>16, <2>1
  <2> QED BY <1>12, <1>13, <1>15, <1>17, <2>1, <2>2, <2>3, <2>4, OneLocked
<1> QED BY <1>7, <1>12, <1>13, <1>15, <1>18 DEF e, size

-----------------------------------------------------------------------------
(* Writing and unlocking                                                   *)

\* The first n bytes of the pool's part hold what was written; draws may read them.
Holds(h, p, n, what) ==
  /\ h.pool[p].gl # 0 /\ n <= h.buf[p].size
  /\ \A b \in Part(h.buf[p].index, n) : ObjectOf(h, p).content[b] = what
\* What may be drawn from: it was handed out in this round, or the pool is filled.
Ready(h, p, n, what) ==
  /\ Holds(h, p, n, what)
  /\ p \in StreamPools => h.buf[p].index + n <= h.pool[p].next
  /\ p \notin StreamPools => h.buf[p].filled

\* What a pool holds depends on that pool only.
LEMMA HoldsKept ==
  ASSUME NEW h, NEW e, NEW p \in Pools, SamePool(e, h, p), NEW n, NEW what
  PROVE  /\ Holds(h, p, n, what) => Holds(e, p, n, what)
         /\ Ready(h, p, n, what) => Ready(e, p, n, what)
BY DEF SamePool, SameBuf, Holds, Ready

\* What a locked pool is like.
LEMMA LockedFacts ==
  ASSUME NEW h, NEW L, BuffersSound(h, L), NEW p \in Pools \cap L
  PROVE  /\ Shape(h) /\ DOMAIN h = BufferFields /\ h.failed = {} /\ NamesSuffice(h)
         /\ h.pool[p].gl # 0 /\ h.pool[p].gl \in Objects /\ ObjectOf(h, p) \in ObjectSet
         /\ ObjectOf(h, p).mapped = TRUE
         /\ h.buf[p].index \in Nat /\ h.buf[p].size \in Nat /\ h.pool[p].size \in Nat /\ h.pool[p].next \in Nat
         /\ h.buf[p].index + h.buf[p].size <= h.pool[p].size /\ h.pool[p].size <= MaxSize
         /\ ObjectFits(h, p, TRUE)
         /\ p \in StreamPools => StreamFits(h, p, TRUE)
         /\ p \notin StreamPools => StaticFits(h, p)
<1>1. Shape(h) /\ DOMAIN h = BufferFields /\ h.failed = {} /\ NamesSuffice(h) /\ PoolSound(h, p, TRUE)
  <2>1. (p \in L) = TRUE
    OBVIOUS
  <2>2. Shape(h) /\ h.failed = {} /\ NamesSuffice(h) /\ PoolSound(h, p, p \in L)
    BY DEF BuffersSound
  <2> QED BY <2>1, <2>2 DEF Shape
<1>2. h.pool[p].gl # 0 /\ ObjectFits(h, p, TRUE)
  BY <1>1 DEF PoolSound
<1>3. ObjectOf(h, p).mapped = TRUE
  BY <1>2 DEF ObjectFits
<1>4. /\ h.pool[p].gl \in Objects /\ ObjectOf(h, p) \in ObjectSet
      /\ h.buf[p].index \in Nat /\ h.buf[p].size \in Nat /\ h.pool[p].size \in Nat /\ h.pool[p].next \in Nat
  BY <1>1, <1>2, ShapeFacts
<1> QED BY <1>1, <1>2, <1>3, <1>4 DEF PoolSound

\* The object of a locked pool changes in its contents only.
LEMMA WriteFacts ==
  ASSUME NEW h, NEW L, BuffersSound(h, L), NEW p \in Pools \cap L,
         NEW size \in Nat, size <= h.buf[p].size, NEW what \in Contents,
         p \notin StreamPools => ~h.buf[p].filled
  PROVE  LET e == Write(h, p, size, what) IN
         /\ BuffersSound(e, L) /\ Untouched(e, h) /\ OthersKept(e, h, p)
         /\ e.pool = h.pool /\ e.buf = h.buf /\ Holds(e, p, size, what)
<1> DEFINE n == h.pool[p].gl
           part == Part(h.buf[p].index, size)
           o == ObjectOf(h, p)
           content == [b \in Bytes |-> IF b \in part THEN what ELSE o.content[b]]
           e == Write(h, p, size, what)
<1>1. /\ Shape(h) /\ DOMAIN h = BufferFields /\ h.failed = {} /\ NamesSuffice(h)
      /\ n # 0 /\ n \in Objects /\ o \in ObjectSet /\ o.mapped = TRUE
      /\ h.buf[p].index \in Nat /\ h.buf[p].size \in Nat /\ h.pool[p].size \in Nat
      /\ h.buf[p].index + h.buf[p].size <= h.pool[p].size /\ h.pool[p].size <= MaxSize
      /\ ObjectFits(h, p, TRUE)
      /\ p \in StreamPools => StreamFits(h, p, TRUE)
      /\ p \notin StreamPools => StaticFits(h, p)
  BY LockedFacts
<1>2. part \subseteq Bytes
  <2>1. MaxSize \in Nat
    BY BufferConstants
  <2> QED BY <1>1, <2>1 DEF Part, Bytes
<1>3. o.reading \cap part = {}
  <2>1. CASE p \in StreamPools
    <3>1. \A b \in o.reading : b < h.buf[p].index /\ b \in Nat
      BY <1>1, <2>1, ObjectFacts DEF StreamFits
    <3> QED BY <1>1, <3>1 DEF Part
  <2>2. CASE p \notin StreamPools
    BY <1>1, <2>2 DEF StaticFits
  <2> QED BY <2>1, <2>2
<1>4. e = [h EXCEPT !.object[n].content = [b \in Bytes |-> IF b \in part THEN what ELSE @[b]]]
  <2>1. Checked(h, h.object[n].reading \cap part = {}, "Overwritten") = h
    BY <1>3 DEF Checked, ObjectOf
  <2>2. e = [Checked(h, h.object[n].reading \cap part = {}, "Overwritten")
               EXCEPT !.object[n].content = [b \in Bytes |-> IF b \in part THEN what ELSE @[b]]]
    BY DEF Write
  <2> HIDE DEF e, part
  <2> QED BY <2>1, <2>2
<1>5. o = h.object[n]
  BY DEF ObjectOf
<1>6. content \in [Bytes -> Contents]
  <2>1. o.content \in [Bytes -> Contents]
    BY <1>1, ObjectFacts
  <2> QED BY <2>1
<1>7. e = [h EXCEPT !.object[n] = [o EXCEPT !.content = content]]
  <2> HIDE DEF o, e, part, n
  <2> QED BY <1>4, <1>5
<1> HIDE DEF e, part, o, n, content
<1>8. /\ DOMAIN e = BufferFields /\ Untouched(e, h) /\ e.pool = h.pool /\ e.buf = h.buf /\ e.next = h.next
      /\ e.failed = h.failed /\ e.object = [h.object EXCEPT ![n] = [o EXCEPT !.content = content]]
  BY <1>1, <1>7 DEF BufferFields, Untouched, DrawFields
<1>9. ObjectOf(e, p) = [o EXCEPT !.content = content] /\ e.pool[p] = h.pool[p] /\ e.buf[p] = h.buf[p]
  BY <1>1, <1>8 DEF ObjectOf, n, Shape
<1>10. /\ ObjectOf(e, p) \in ObjectSet /\ ObjectOf(e, p).content = content /\ ObjectOf(e, p).live = o.live
       /\ ObjectOf(e, p).size = o.size /\ ObjectOf(e, p).mapped = o.mapped /\ ObjectOf(e, p).reading = o.reading
  <2> HIDE DEF ObjectSet
  <2>1. [o EXCEPT !.content = content] \in ObjectSet
    BY <1>1, <1>6 DEF ObjectSet
  <2>2. DOMAIN o = {"live", "size", "mapped", "content", "reading"}
    BY <1>1, ObjectFacts
  <2> QED BY <1>9, <2>1, <2>2
<1>11. OnlyObject(e, h, n)
  BY <1>1, <1>8 DEF OnlyObject, Shape
<1>12. Shape(e) /\ OthersKept(e, h, p) /\ NamesSuffice(e)
  <2>1. OnlyObject(e, h, h.pool[p].gl) /\ h.pool[p].gl # 0
    BY <1>1, <1>11 DEF n
  <2> QED BY <1>8, <1>10, <2>1, OnlyObjectKeeps
<1>13. PoolSound(e, p, TRUE)
  <2>1. ObjectFits(e, p, TRUE)
    BY <1>1, <1>8, <1>9, <1>10 DEF ObjectFits, o
  <2>2. p \in StreamPools => StreamFits(e, p, TRUE)
    BY <1>1, <1>9, <1>10 DEF StreamFits, o
  <2>3. p \notin StreamPools => StaticFits(e, p)
    BY <1>1, <1>9, <1>10 DEF StaticFits, o
  <2> QED BY <1>1, <1>9, <2>1, <2>2, <2>3 DEF PoolSound, n
<1>14. BuffersSound(e, L)
  <2>1. (p \in L) = TRUE /\ e.next >= h.next /\ e.failed = {} /\ e.pool[p].gl = h.pool[p].gl
    BY <1>1, <1>8 DEF Shape
  <2> QED BY <1>12, <1>13, <2>1, OneLocked
<1>15. Holds(e, p, size, what)
  <2>1. \A b \in part : content[b] = what
    BY <1>2 DEF content
  <2> QED BY <1>1, <1>9, <1>10, <2>1 DEF Holds, part, n
<1> QED BY <1>8, <1>12, <1>14, <1>15 DEF e

\* The part is given back.
LEMMA BufUnlockFacts ==
  ASSUME NEW h, NEW L, BuffersSound(h, L), NEW p \in Pools \cap L
  PROVE  LET e == BufUnlock(h, p) IN
         /\ BuffersSound(e, L \ {p}) /\ Untouched(e, h) /\ OthersKept(e, h, p)
         /\ e.pool = h.pool /\ e.buf = h.buf /\ ObjectOf(e, p).content = ObjectOf(h, p).content
<1> DEFINE n == h.pool[p].gl
           o == ObjectOf(h, p)
           e == BufUnlock(h, p)
<1>1. /\ Shape(h) /\ DOMAIN h = BufferFields /\ h.failed = {} /\ NamesSuffice(h)
      /\ n # 0 /\ n \in Objects /\ o \in ObjectSet /\ o.mapped = TRUE
      /\ h.buf[p].index \in Nat /\ h.buf[p].size \in Nat /\ h.pool[p].size \in Nat
      /\ h.buf[p].index + h.buf[p].size <= h.pool[p].size /\ h.pool[p].size <= MaxSize
      /\ ObjectFits(h, p, TRUE)
      /\ p \in StreamPools => StreamFits(h, p, TRUE)
      /\ p \notin StreamPools => StaticFits(h, p)
  BY LockedFacts
<1>2. o = h.object[n]
  BY DEF ObjectOf
<1>3. e = [h EXCEPT !.object[n] = [o EXCEPT !.mapped = FALSE]]
  <2>1. Checked(h, h.object[n].mapped, "Unmap") = h
    BY <1>1, <1>2 DEF Checked
  <2>2. e = [Checked(h, h.object[n].mapped, "Unmap") EXCEPT !.object[n].mapped = FALSE]
    BY DEF BufUnlock, Unmap
  <2> HIDE DEF e, n, o
  <2> QED BY <1>2, <2>1, <2>2
<1> HIDE DEF e, o, n
<1>4. /\ DOMAIN e = BufferFields /\ Untouched(e, h) /\ e.pool = h.pool /\ e.buf = h.buf /\ e.next = h.next
      /\ e.failed = h.failed /\ e.object = [h.object EXCEPT ![n] = [o EXCEPT !.mapped = FALSE]]
  BY <1>1, <1>3 DEF BufferFields, Untouched, DrawFields
<1>5. ObjectOf(e, p) = [o EXCEPT !.mapped = FALSE] /\ e.pool[p] = h.pool[p] /\ e.buf[p] = h.buf[p]
  BY <1>1, <1>4 DEF ObjectOf, n, Shape
<1>6. /\ ObjectOf(e, p) \in ObjectSet /\ ObjectOf(e, p).content = o.content /\ ObjectOf(e, p).live = o.live
      /\ ObjectOf(e, p).size = o.size /\ ObjectOf(e, p).mapped = FALSE /\ ObjectOf(e, p).reading = o.reading
  <2>1. [o EXCEPT !.mapped = FALSE] \in ObjectSet
    BY <1>1 DEF ObjectSet
  <2>2. DOMAIN o = {"live", "size", "mapped", "content", "reading"}
    BY <1>1, ObjectFacts
  <2> QED BY <1>5, <2>1, <2>2
<1>7. OnlyObject(e, h, n)
  BY <1>1, <1>4 DEF OnlyObject, Shape
<1>8. Shape(e) /\ OthersKept(e, h, p) /\ NamesSuffice(e)
  <2>1. OnlyObject(e, h, h.pool[p].gl) /\ h.pool[p].gl # 0
    BY <1>1, <1>7 DEF n
  <2> QED BY <1>4, <1>6, <2>1, OnlyObjectKeeps
<1>9. PoolSound(e, p, FALSE)
  <2>1. ObjectFits(e, p, FALSE)
    BY <1>1, <1>4, <1>5, <1>6 DEF ObjectFits, o
  <2>2. p \in StreamPools => StreamFits(e, p, FALSE)
    <3> SUFFICES ASSUME p \in StreamPools PROVE StreamFits(e, p, FALSE)
      OBVIOUS
    <3>1. /\ h.buf[p].item > 0 /\ \A b \in o.reading : b < h.buf[p].index /\ b \in Nat
          /\ h.pool[p].next = h.buf[p].index + h.buf[p].size
      BY <1>1, ObjectFacts DEF StreamFits, o, n
    <3>2. \A b \in o.reading : b < h.pool[p].next
      BY <1>1, <3>1
    <3> QED BY <1>5, <1>6, <3>1, <3>2 DEF StreamFits
  <2>3. p \notin StreamPools => StaticFits(e, p)
    BY <1>1, <1>5, <1>6 DEF StaticFits, o
  <2> QED BY <1>1, <1>5, <2>1, <2>2, <2>3 DEF PoolSound, n
<1>10. BuffersSound(e, L \ {p})
  <2>1. (p \in L \ {p}) = FALSE /\ e.next >= h.next /\ e.failed = {} /\ e.pool[p].gl = h.pool[p].gl
    BY <1>1, <1>4 DEF Shape
  <2>2. PoolSound(e, p, p \in L \ {p}) /\ (L \ {p}) \ {p} = L \ {p}
    BY <1>9, <2>1
  <2> QED BY <1>8, <2>1, <2>2, OneLocked
<1> QED BY <1>4, <1>6, <1>8, <1>10 DEF e, o

\* OthersKept, step after step.
LEMMA OthersKeptOn ==
  ASSUME NEW h, NEW d, NEW e, NEW p, OthersKept(d, h, p), OthersKept(e, d, p)
  PROVE  OthersKept(e, h, p)
BY DEF OthersKept, SamePool, SameBuf

\* GxBufUnlock also marks the buffer as filled.
LEMMA GxBufUnlockFacts ==
  ASSUME NEW h, NEW L, BuffersSound(h, L), NEW p \in Pools \cap L, NEW n \in Nat, NEW what, Holds(h, p, n, what),
         p \notin StreamPools => n = TextCapacity /\ what = StaticContent(p)
  PROVE  LET e == GxBufUnlock(h, p) IN
         /\ BuffersSound(e, L \ {p}) /\ Untouched(e, h) /\ OthersKept(e, h, p)
         /\ e.pool = h.pool /\ e.buf[p].changed = h.buf[p].changed /\ e.buf[p].size = h.buf[p].size
         /\ Ready(e, p, n, what)
<1> DEFINE d == BufUnlock(h, p)
           e == GxBufUnlock(h, p)
<1>1. /\ BuffersSound(d, L \ {p}) /\ Untouched(d, h) /\ OthersKept(d, h, p)
      /\ d.pool = h.pool /\ d.buf = h.buf /\ ObjectOf(d, p).content = ObjectOf(h, p).content
  BY BufUnlockFacts
<1>2. e = [d EXCEPT !.buf[p].filled = TRUE]
  BY DEF GxBufUnlock
<1> HIDE DEF d, e
<1>3. Shape(d) /\ DOMAIN d = BufferFields /\ NamesSuffice(d) /\ d.failed = {} /\ d.buf[p] \in BufSet
      /\ d.buf \in [Pools -> BufSet] /\ p \in Pools
  BY <1>1 DEF BuffersSound, Shape
<1>4. /\ DOMAIN e = BufferFields /\ Untouched(e, d) /\ e.pool = d.pool /\ e.object = d.object /\ e.next = d.next
      /\ e.failed = d.failed /\ e.buf = [d.buf EXCEPT ![p] = [d.buf[p] EXCEPT !.filled = TRUE]]
  BY <1>2, <1>3 DEF BufferFields, Untouched, DrawFields
<1>5. e.buf[p] = [d.buf[p] EXCEPT !.filled = TRUE]
  BY <1>3, <1>4
<1>6. /\ e.buf[p].item = d.buf[p].item /\ e.buf[p].size = d.buf[p].size /\ e.buf[p].filled = TRUE
      /\ e.buf[p].index = d.buf[p].index /\ e.buf[p].changed = d.buf[p].changed /\ e.buf[p] \in BufSet
  <2>1. [d.buf[p] EXCEPT !.filled = TRUE] \in BufSet
    BY <1>3 DEF BufSet
  <2> QED BY <1>3, <1>5, <2>1 DEF BufSet
<1>7. OnlyBuf(e, d, p)
  BY <1>4, <1>5 DEF OnlyBuf
<1>8. Shape(e) /\ OthersKept(e, d, p) /\ NamesSuffice(e) /\ e.pool[p].gl = d.pool[p].gl
      /\ ObjectOf(e, p) = ObjectOf(d, p)
  BY <1>3, <1>4, <1>6, <1>7, OnlyBufKeeps DEF ObjectOf
<1>9. /\ h.pool[p].gl # 0 /\ h.buf[p].index \in Nat /\ h.buf[p].size \in Nat /\ h.pool[p].next \in Nat
      /\ p \in StreamPools => StreamFits(h, p, TRUE)
      /\ p \notin StreamPools => StaticFits(h, p)
  BY LockedFacts
<1>10. PoolSound(d, p, FALSE)
  <2>1. (p \in L \ {p}) = FALSE /\ PoolSound(d, p, p \in L \ {p})
    BY <1>1 DEF BuffersSound
  <2> QED BY <2>1
<1>11. PoolSound(e, p, FALSE)
  <2>1. d.pool[p].gl # 0 => ObjectFits(e, p, FALSE)
    BY <1>4, <1>8, <1>10 DEF PoolSound, ObjectFits
  <2>2. p \in StreamPools => StreamFits(e, p, FALSE)
    BY <1>4, <1>6, <1>8, <1>10 DEF PoolSound, StreamFits
  <2>3. p \notin StreamPools => StaticFits(e, p)
    <3> SUFFICES ASSUME p \notin StreamPools PROVE StaticFits(e, p)
      OBVIOUS
    <3>1. e.buf[p].index = 0 /\ e.buf[p].size = TextCapacity /\ e.pool[p].size = TextCapacity /\ e.pool[p].gl # 0
      BY <1>1, <1>4, <1>6, <1>9 DEF StaticFits
    <3>2. \A b \in Part(0, TextCapacity) : ObjectOf(e, p).content[b] = StaticContent(p)
      BY <1>1, <1>6, <1>8, <3>1 DEF Holds
    <3>3. Part(0, TextCapacity) = 0..(TextCapacity - 1)
      BY BufferConstants DEF Part
    <3> QED BY <1>6, <3>1, <3>2, <3>3 DEF StaticFits
  <2> QED BY <1>4, <1>8, <1>10, <2>1, <2>2, <2>3 DEF PoolSound
<1>12. BuffersSound(e, L \ {p})
  <2>1. (p \in L \ {p}) = FALSE /\ e.next >= d.next /\ e.failed = {}
    BY <1>3, <1>4 DEF Shape
  <2>2. PoolSound(e, p, p \in L \ {p})
    BY <1>11, <2>1
  <2>3. e.pool[p].gl \in {0, d.pool[p].gl}
    BY <1>8
  <2> QED BY <1>1, <1>3, <1>8, <2>1, <2>2, <2>3, OneLocked
<1>13. OthersKept(e, h, p)
  BY <1>1, <1>8, OthersKeptOn
<1>14. Ready(e, p, n, what)
  <2>1. Holds(e, p, n, what)
    BY <1>1, <1>6, <1>8, <1>9 DEF Holds
  <2>2. p \in StreamPools => e.buf[p].index + n <= e.pool[p].next
    <3>1. n <= h.buf[p].size
      BY DEF Holds
    <3> QED BY <1>1, <1>4, <1>6, <1>9, <3>1 DEF StreamFits
  <2> QED BY <1>6, <2>1, <2>2 DEF Ready
<1>15. Untouched(e, h)
  BY <1>1, <1>4 DEF Untouched
<1> QED BY <1>1, <1>4, <1>6, <1>12, <1>13, <1>14, <1>15 DEF e

-----------------------------------------------------------------------------
(* Filling                                                                 *)

\* What draws look at besides the buffers.
DrawSound(h) == FormatsSound(h) /\ IndexTrue(h)

\* A step of pool p that a draw can notice is a lock.
Noticed(e, h, p) ==
  /\ Untouched(e, h) /\ OthersKept(e, h, p)
  /\ ~e.buf[p].changed => e.buf[p].changed = h.buf[p].changed /\ e.pool[p].gl = h.pool[p].gl

\* Such a step does not disturb what draws look at.
LEMMA DrawSoundKept ==
  ASSUME NEW h, NEW e, NEW p \in Pools, Noticed(e, h, p), DrawSound(h)
  PROVE  DrawSound(e)
<1>1. /\ e.primIndexBuf = h.primIndexBuf /\ e.primIndexDirty = h.primIndexDirty /\ e.glFormats = h.glFormats
      /\ e.indexBuffer = h.indexBuffer /\ e.enabled = h.enabled
  BY DEF Noticed, Untouched, DrawFields
<1>2. FormatsSound(e)
  BY <1>1 DEF DrawSound, FormatsSound
<1>3. ASSUME NEW q \in IndexPools, ~e.buf[q].changed
      PROVE  ~h.buf[q].changed /\ e.pool[q].gl = h.pool[q].gl
  <2>1. CASE q = p
    BY <1>3, <2>1 DEF Noticed
  <2>2. CASE q # p
    <3>1. q \in Pools \ {p}
      BY <2>2, PoolNames
    <3> QED BY <1>3, <3>1 DEF Noticed, OthersKept, SamePool
  <2> QED BY <2>1, <2>2
<1>4. IndexTrue(e)
  BY <1>1, <1>3 DEF DrawSound, IndexTrue
<1> QED BY <1>2, <1>4 DEF DrawSound

\* Begin makes what was written for the last draw old.
LEMMA BeginFacts ==
  ASSUME BuffersInv(g)
  PROVE  BuffersInv(Begin)
<1> DEFINE object == [n \in Objects |-> Aged(g.object[n])]
           e == Begin
<1>1. Shape(g) /\ DOMAIN g = BufferFields /\ g.object \in [Objects -> ObjectSet]
  BY DEF BuffersInv, BuffersSound, Shape
<1>2. e = [g EXCEPT !.object = object]
  BY DEF Begin
<1>3. ASSUME NEW n \in Objects
      PROVE  /\ object[n] \in ObjectSet /\ object[n].live = g.object[n].live
             /\ object[n].size = g.object[n].size /\ object[n].mapped = g.object[n].mapped
             /\ object[n].reading = g.object[n].reading
             /\ \A b \in Bytes : g.object[n].content[b] # "new" => object[n].content[b] = g.object[n].content[b]
  <2> DEFINE o == g.object[n]
             content == [b \in Bytes |-> IF o.content[b] = "new" THEN "old" ELSE o.content[b]]
  <2>1. o \in ObjectSet /\ o.content \in [Bytes -> Contents]
    BY <1>1, ObjectFacts
  <2>2. content \in [Bytes -> Contents]
    BY <2>1 DEF Contents
  <2>3. \A b \in Bytes : o.content[b] # "new" => content[b] = o.content[b]
    OBVIOUS
  <2>4. object[n] = [o EXCEPT !.content = content]
    BY DEF Aged
  <2> HIDE DEF object, o, content
  <2>5. [o EXCEPT !.content = content] \in ObjectSet
    BY <2>1, <2>2 DEF ObjectSet
  <2>6. object[n].content = content /\ object[n].live = o.live /\ object[n].size = o.size
        /\ object[n].mapped = o.mapped /\ object[n].reading = o.reading
    BY <2>1, <2>4 DEF ObjectSet
  <2> QED BY <2>3, <2>4, <2>5, <2>6 DEF o
<1>4. object \in [Objects -> ObjectSet]
  BY <1>3
<1> HIDE DEF object, e
<1>5. /\ DOMAIN e = BufferFields /\ Untouched(e, g) /\ e.pool = g.pool /\ e.buf = g.buf /\ e.next = g.next
      /\ e.failed = g.failed /\ e.object = object
  BY <1>1, <1>2 DEF BufferFields, Untouched, DrawFields
<1>6. Shape(e) /\ OwnObjects(e) /\ NamesSuffice(e) /\ e.failed = {}
  <2>1. OwnObjects(g) /\ NamesSuffice(g) /\ g.failed = {}
    BY DEF BuffersInv, BuffersSound
  <2>2. Shape(e)
    BY <1>1, <1>4, <1>5 DEF Shape
  <2>3. OwnObjects(e)
    BY <1>5, <2>1 DEF OwnObjects
  <2>4. NamesSuffice(e)
    <3>1. ObjectsUsed(e) = ObjectsUsed(g)
      BY <1>5 DEF ObjectsUsed, HasObject
    <3> QED BY <1>5, <2>1, <3>1 DEF NamesSuffice
  <2> QED BY <1>5, <2>1, <2>2, <2>3, <2>4
<1>7. ASSUME NEW p \in Pools PROVE PoolSound(e, p, p \in {})
  <2>1. PoolSound(g, p, p \in {})
    BY DEF BuffersInv, BuffersSound
  <2> (p \in {}) = FALSE
    OBVIOUS
  <2>2. PoolSound(g, p, FALSE)
    BY <2>1
  <2>3. g.pool[p].gl # 0 => g.pool[p].gl \in Objects
    BY <1>1, ShapeFacts
  <2>4. g.pool[p].gl # 0 => ObjectFits(e, p, FALSE)
    BY <1>3, <1>5, <2>2, <2>3 DEF PoolSound, ObjectFits, ObjectOf
  <2>5. p \in StreamPools => StreamFits(e, p, FALSE)
    BY <1>3, <1>5, <2>2, <2>3 DEF PoolSound, StreamFits, ObjectOf
  <2>6. p \notin StreamPools => StaticFits(e, p)
    <3> SUFFICES ASSUME p \notin StreamPools PROVE StaticFits(e, p)
      OBVIOUS
    <3>1. StaticFits(g, p) /\ g.pool[p].size <= MaxSize /\ g.pool[p].size = TextCapacity
      BY <2>2 DEF PoolSound, StaticFits
    <3>2. \A b \in 0..(TextCapacity - 1) : b \in Bytes
      <4>1. TextCapacity \in Nat /\ MaxSize \in Nat
        BY BufferConstants
      <4> QED BY <3>1, <4>1 DEF Bytes
    <3>3. StaticContent(p) # "new"
      BY DEF StaticContent
    <3>4. CASE g.buf[p].filled
      <4>1. g.pool[p].gl # 0 /\ \A b \in 0..(TextCapacity - 1) : ObjectOf(g, p).content[b] = StaticContent(p)
        BY <3>1, <3>4 DEF StaticFits
      <4>2. \A b \in 0..(TextCapacity - 1) : ObjectOf(e, p).content[b] = StaticContent(p)
        BY <1>3, <1>5, <2>3, <3>2, <3>3, <4>1 DEF ObjectOf
      <4> QED BY <1>5, <3>1, <3>4, <4>1, <4>2 DEF StaticFits
    <3>5. CASE ~g.buf[p].filled
      <4>1. g.pool[p].gl # 0 => ObjectOf(e, p).reading = ObjectOf(g, p).reading
        BY <1>3, <1>5, <2>3 DEF ObjectOf
      <4>2. g.pool[p].gl # 0 => ObjectOf(g, p).reading = {}
        BY <3>1, <3>5 DEF StaticFits
      <4>3. e.pool = g.pool /\ e.buf = g.buf
        BY <1>5
      <4>4. e.pool[p].gl # 0 => ObjectOf(e, p).reading = {}
        BY <4>1, <4>2, <4>3
      <4> QED BY <3>1, <3>5, <4>3, <4>4 DEF StaticFits
    <3> QED BY <3>4, <3>5
  <2>7. PoolSound(e, p, FALSE)
    BY <1>5, <2>2, <2>4, <2>5, <2>6 DEF PoolSound
  <2> QED BY <2>7
<1>8. FormatsSound(e) /\ IndexSettled(e)
  BY <1>5 DEF BuffersInv, FormatsSound, IndexSettled, IndexTrue, Untouched, DrawFields
<1> QED BY <1>6, <1>7, <1>8 DEF BuffersInv, BuffersSound, e

\* Fill locks a pool, writes the part and gives it back.
LEMMA FillFacts ==
  ASSUME NEW h, BuffersSound(h, {}), NEW p \in Pools,
         NEW size \in Nat, size <= h.buf[p].size, NEW what \in Contents,
         p \in StreamPools => h.buf[p].size <= h.pool[p].size,
         p \notin StreamPools => ~h.buf[p].filled /\ size = TextCapacity /\ what = StaticContent(p)
  PROVE  LET e == Fill(h, p, size, what) IN
         /\ BuffersSound(e, {}) /\ Untouched(e, h) /\ OthersKept(e, h, p) /\ Noticed(e, h, p)
         /\ Ready(e, p, size, what) /\ e.buf[p].changed = TRUE
<1> DEFINE k == BufLock(h, p)
           w == Write(k, p, size, what)
           e == GxBufUnlock(w, p)
<1>1. /\ BuffersSound(k, {} \cup {p}) /\ Untouched(k, h) /\ OthersKept(k, h, p)
      /\ k.buf[p].changed = TRUE /\ k.buf[p].size = h.buf[p].size
      /\ p \notin StreamPools => k.buf[p].filled = h.buf[p].filled
  <2>1. PICK L : L = {}
    OBVIOUS
  <2>2. BuffersSound(h, L) /\ p \notin L
    BY <2>1
  <2>3. /\ BuffersSound(k, L \cup {p}) /\ Untouched(k, h) /\ OthersKept(k, h, p)
        /\ k.buf[p].changed = TRUE /\ k.buf[p].size = h.buf[p].size
        /\ p \notin StreamPools => k.buf[p].filled = h.buf[p].filled
    BY <2>2, BufLockFacts
  <2> QED BY <2>1, <2>3
<1> HIDE DEF k
<1>2. BuffersSound(k, {p}) /\ {} \cup {p} = {p} /\ p \in Pools \cap {p} /\ {p} \ {p} = {}
  <2>1. {} \cup {p} = {p}
    OBVIOUS
  <2> QED BY <1>1, <2>1
<1>3. /\ BuffersSound(w, {p}) /\ Untouched(w, k) /\ OthersKept(w, k, p)
      /\ w.pool = k.pool /\ w.buf = k.buf /\ Holds(w, p, size, what)
  BY <1>1, <1>2, WriteFacts
<1> HIDE DEF w
<1>4. /\ BuffersSound(e, {p} \ {p}) /\ Untouched(e, w) /\ OthersKept(e, w, p)
      /\ e.pool = w.pool /\ e.buf[p].changed = w.buf[p].changed /\ e.buf[p].size = w.buf[p].size
      /\ Ready(e, p, size, what)
  BY <1>2, <1>3, GxBufUnlockFacts
<1> HIDE DEF e
<1>5. OthersKept(e, h, p)
  <2>1. OthersKept(w, h, p)
    BY <1>1, <1>3, OthersKeptOn
  <2> QED BY <1>4, <2>1, OthersKeptOn
<1>6. Untouched(e, h)
  BY <1>1, <1>3, <1>4 DEF Untouched
<1>7. Noticed(e, h, p)
  BY <1>1, <1>3, <1>4, <1>5, <1>6 DEF Noticed
<1>8. BuffersSound(e, {})
  BY <1>2, <1>4
<1>9. e.buf[p].changed = TRUE
  BY <1>1, <1>3, <1>4
<1> QED BY <1>4, <1>5, <1>6, <1>7, <1>8, <1>9 DEF Fill, e, w, k

\* BufStream and then BufLock.
LockStream(h, p, item, count) == BufLock(BufStream(h, p, item, count), p)

\* A stream that was locked.
LEMMA LockStreamFacts ==
  ASSUME NEW h, NEW L, BuffersSound(h, L), NEW p \in StreamPools, p \notin L,
         NEW item \in Nat \ {0}, NEW count \in Nat, item * count <= MaxSize
  PROVE  LET e == LockStream(h, p, item, count) IN
         /\ BuffersSound(e, L \cup {p}) /\ Untouched(e, h) /\ OthersKept(e, h, p) /\ Noticed(e, h, p)
         /\ e.buf[p].size = item * count
<1> DEFINE s == BufStream(h, p, item, count)
           e == BufLock(s, p)
<1>1. /\ BuffersSound(s, L) /\ Untouched(s, h) /\ OthersKept(s, h, p)
      /\ s.buf[p].size = item * count /\ s.buf[p].size <= s.pool[p].size
  BY BufStreamFacts
<1> HIDE DEF s
<1>2. p \in Pools
  BY PoolNames
<1>3. /\ BuffersSound(e, L \cup {p}) /\ Untouched(e, s) /\ OthersKept(e, s, p)
      /\ e.buf[p].changed = TRUE /\ e.buf[p].size = s.buf[p].size
  BY <1>1, <1>2, BufLockFacts
<1> HIDE DEF e
<1>4. OthersKept(e, h, p)
  BY <1>1, <1>3, OthersKeptOn
<1>5. Untouched(e, h)
  BY <1>1, <1>3 DEF Untouched
<1>6. Noticed(e, h, p)
  BY <1>3, <1>4, <1>5 DEF Noticed
<1> QED BY <1>1, <1>3, <1>4, <1>5, <1>6 DEF LockStream, e, s

\* A stream that was locked, written and given back.
LEMMA FillStreamFacts ==
  ASSUME NEW h, BuffersSound(h, {}), NEW p \in StreamPools,
         NEW item \in Nat \ {0}, NEW count \in Nat, item * count <= MaxSize, NEW what \in Contents
  PROVE  LET e == Fill(BufStream(h, p, item, count), p, item * count, what) IN
         /\ BuffersSound(e, {}) /\ Noticed(e, h, p) /\ Ready(e, p, item * count, what)
<1> DEFINE s == BufStream(h, p, item, count)
           size == item * count
           e == Fill(s, p, size, what)
           k == BufLock(s, p)
<1>1. /\ BuffersSound(s, {}) /\ Untouched(s, h) /\ OthersKept(s, h, p)
      /\ s.buf[p].size = size /\ s.buf[p].size <= s.pool[p].size
  BY BufStreamFacts
<1> HIDE DEF s
<1>2. p \in Pools /\ size \in Nat /\ size <= s.buf[p].size
  <2>1. size \in Nat
    OBVIOUS
  <2> HIDE DEF size
  <2> QED BY <1>1, <2>1, PoolNames
<1> HIDE DEF size
<1>3. /\ BuffersSound(e, {}) /\ Untouched(e, s) /\ OthersKept(e, s, p) /\ Ready(e, p, size, what)
      /\ e.buf[p].changed = TRUE
  BY <1>1, <1>2, FillFacts
<1> HIDE DEF e
<1>4. OthersKept(e, h, p)
  BY <1>1, <1>3, OthersKeptOn
<1>5. Untouched(e, h)
  BY <1>1, <1>3 DEF Untouched
<1>6. Noticed(e, h, p)
  BY <1>3, <1>4, <1>5 DEF Noticed
<1> QED BY <1>3, <1>6 DEF e, s, size

-----------------------------------------------------------------------------
(* Setting up a draw and drawing                                           *)

\* Nothing of any pool changed, but that a buffer is no longer marked as changed.
PoolsKept(e, h) ==
  /\ e.pool = h.pool /\ e.object = h.object /\ e.next = h.next /\ e.failed = h.failed
  /\ \A q \in Pools : SamePool(e, h, q)

\* A step that keeps all pools keeps the invariant of the buffers.
LEMMA PoolsKeptSound ==
  ASSUME NEW h, NEW e, NEW L, BuffersSound(h, L), Shape(e), PoolsKept(e, h)
  PROVE  BuffersSound(e, L)
<1>1. Shape(h) /\ OwnObjects(h) /\ NamesSuffice(h) /\ h.failed = {}
  BY DEF BuffersSound
<1>2. OwnObjects(e)
  BY <1>1 DEF OwnObjects, PoolsKept
<1>3. NamesSuffice(e)
  <2>1. ObjectsUsed(e) = ObjectsUsed(h)
    BY DEF PoolsKept, ObjectsUsed, HasObject
  <2> QED BY <1>1, <2>1 DEF NamesSuffice, PoolsKept
<1>4. ASSUME NEW p \in Pools PROVE PoolSound(e, p, p \in L)
  <2>1. (p \in L) \in BOOLEAN /\ PoolSound(h, p, p \in L)
    BY DEF BuffersSound
  <2>2. e.next >= h.next /\ SamePool(e, h, p)
    BY <1>1 DEF PoolsKept, Shape
  <2> QED BY <1>1, <2>1, <2>2, SamePoolSound
<1> QED BY <1>1, <1>2, <1>3, <1>4 DEF BuffersSound, PoolsKept

\* A buffer is no longer marked as changed.
Settled(b) == [b EXCEPT !.changed = FALSE]

\* Only the mark differs.
LEMMA SettledFacts ==
  ASSUME NEW b \in BufSet
  PROVE  /\ Settled(b) \in BufSet /\ Settled(b).item = b.item /\ Settled(b).size = b.size
         /\ Settled(b).index = b.index /\ Settled(b).filled = b.filled /\ Settled(b).changed = FALSE
BY DEF Settled, BufSet

\* Only the mark of buffer p was taken away.
OnlySettled(e, h, p) ==
  /\ DOMAIN e = BufferFields /\ e.pool = h.pool /\ e.object = h.object /\ e.next = h.next /\ e.failed = h.failed
  /\ e.buf = [h.buf EXCEPT ![p] = Settled(h.buf[p])]
\* No buffer but p changed.
OtherBufs(e, h, p) == \A q \in Pools \ {p} : e.buf[q] = h.buf[q]

\* Taking the mark away keeps every pool.
LEMMA SettledKeepsPools ==
  ASSUME NEW h, NEW e, NEW p \in Pools, Shape(h), OnlySettled(e, h, p)
  PROVE  Shape(e) /\ PoolsKept(e, h) /\ e.buf[p].changed = FALSE /\ OtherBufs(e, h, p)
<1>1. h.buf[p] \in BufSet /\ h.buf \in [Pools -> BufSet]
  BY DEF Shape
<1>2. /\ Settled(h.buf[p]) \in BufSet /\ Settled(h.buf[p]).item = h.buf[p].item
      /\ Settled(h.buf[p]).size = h.buf[p].size /\ Settled(h.buf[p]).index = h.buf[p].index
      /\ Settled(h.buf[p]).filled = h.buf[p].filled /\ Settled(h.buf[p]).changed = FALSE
  BY <1>1, SettledFacts
<1>3. e.buf[p] = Settled(h.buf[p]) /\ \A q \in Pools \ {p} : e.buf[q] = h.buf[q]
  BY <1>1 DEF OnlySettled
<1>4. ASSUME NEW q \in Pools PROVE SamePool(e, h, q)
  <2>1. CASE q = p
    BY <1>2, <1>3, <2>1 DEF OnlySettled, SamePool, SameBuf, ObjectOf
  <2>2. CASE q # p
    BY <1>3, <2>2 DEF OnlySettled, SamePool, SameBuf, ObjectOf
  <2> QED BY <2>1, <2>2
<1>5. Shape(e)
  BY <1>1, <1>2 DEF Shape, OnlySettled
<1> QED BY <1>2, <1>3, <1>4, <1>5 DEF PoolsKept, OnlySettled, OtherBufs

\* The vertices are set: the index buffer is not concerned.
LEMMA GxPrimVertexPtrFacts ==
  ASSUME NEW h, NEW L, BuffersSound(h, L), DrawSound(h), NEW p \in Pools \ IndexPools, NEW format
  PROVE  LET e == GxPrimVertexPtr(h, p, format) IN
         /\ BuffersSound(e, L) /\ DrawSound(e) /\ PoolsKept(e, h)
         /\ e.primVertexBuf = p /\ e.primFormat = format
         /\ IndexSettled(h) => IndexSettled(e)
<1> DEFINE e == GxPrimVertexPtr(h, p, format)
<1>1. Shape(h) /\ DOMAIN h = BufferFields /\ p \in Pools
  BY DEF BuffersSound, Shape
<1>2. /\ DOMAIN e = BufferFields /\ e.pool = h.pool /\ e.object = h.object /\ e.next = h.next /\ e.failed = h.failed
      /\ e.buf = [h.buf EXCEPT ![p] = Settled(h.buf[p])]
      /\ e.primVertexBuf = p /\ e.primFormat = format
      /\ e.glFormats = h.glFormats /\ e.enabled = h.enabled /\ e.primIndexBuf = h.primIndexBuf
      /\ e.primIndexDirty = h.primIndexDirty /\ e.indexBuffer = h.indexBuffer
  BY <1>1 DEF GxPrimVertexPtr, BufferFields, Settled
<1> HIDE DEF e
<1>3. Shape(e) /\ PoolsKept(e, h) /\ \A q \in IndexPools : e.buf[q] = h.buf[q]
  <2>1. OnlySettled(e, h, p)
    BY <1>2 DEF OnlySettled
  <2>2. Shape(e) /\ PoolsKept(e, h) /\ e.buf[p].changed = FALSE /\ OtherBufs(e, h, p)
    BY <1>1, <2>1, SettledKeepsPools
  <2> QED BY <2>2, PoolNames DEF OtherBufs
<1>4. BuffersSound(e, L)
  BY <1>3, PoolsKeptSound
<1>5. FormatsSound(e)
  BY <1>2 DEF DrawSound, FormatsSound
<1>6. IndexTrue(e) /\ (IndexSettled(h) => IndexSettled(e))
  BY <1>2, <1>3 DEF DrawSound, IndexTrue, IndexSettled
<1> QED BY <1>2, <1>3, <1>4, <1>5, <1>6 DEF DrawSound, e

\* The indices are set; the index buffer of OpenGL is changed by the draw.
IndexReady(h) ==
  IF h.primIndexDirty
  THEN /\ h.primIndexBuf \in IndexPools /\ ~h.buf[h.primIndexBuf].changed /\ h.pool[h.primIndexBuf].gl # 0
  ELSE IndexSettled(h)

\* PrimIndexPtr sets the indices, and the draw will change the index buffer if it must.
LEMMA PrimIndexPtrFacts ==
  ASSUME NEW h, NEW L, BuffersSound(h, L), DrawSound(h), NEW p \in IndexPools, h.pool[p].gl # 0
  PROVE  LET e == PrimIndexPtr(h, p) IN
         /\ BuffersSound(e, L) /\ FormatsSound(e) /\ IndexReady(e) /\ PoolsKept(e, h)
         /\ e.primIndexBuf = p /\ e.primVertexBuf = h.primVertexBuf /\ e.primFormat = h.primFormat
<1> DEFINE e == PrimIndexPtr(h, p)
<1>1. Shape(h) /\ DOMAIN h = BufferFields /\ p \in Pools
  BY PoolNames DEF BuffersSound, Shape
<1>2. CASE ~h.buf[p].changed /\ h.primIndexBuf = p
  <2>1. e = h
    BY <1>2 DEF PrimIndexPtr
  <2> HIDE DEF e
  <2>2. PoolsKept(e, h)
    BY <2>1 DEF PoolsKept, SamePool, SameBuf
  <2>3. IndexReady(h)
    BY <1>2 DEF IndexReady, IndexSettled, DrawSound, IndexTrue
  <2> QED BY <1>2, <2>1, <2>2, <2>3 DEF DrawSound, e
<1>3. CASE ~(~h.buf[p].changed /\ h.primIndexBuf = p)
  <2>1. e = [h EXCEPT !.buf[p].changed = FALSE, !.primIndexDirty = TRUE, !.primIndexBuf = p]
    BY <1>3 DEF PrimIndexPtr
  <2> HIDE DEF e
  <2>2. /\ DOMAIN e = BufferFields /\ e.pool = h.pool /\ e.object = h.object /\ e.next = h.next /\ e.failed = h.failed
        /\ e.buf = [h.buf EXCEPT ![p] = Settled(h.buf[p])]
        /\ e.primVertexBuf = h.primVertexBuf /\ e.primFormat = h.primFormat
        /\ e.glFormats = h.glFormats /\ e.enabled = h.enabled /\ e.primIndexBuf = p /\ e.primIndexDirty = TRUE
    BY <1>1, <2>1 DEF BufferFields, Settled
  <2>3. Shape(e) /\ PoolsKept(e, h) /\ e.buf[p].changed = FALSE /\ OtherBufs(e, h, p)
    <3>1. OnlySettled(e, h, p)
      BY <2>2 DEF OnlySettled
    <3> QED BY <1>1, <3>1, SettledKeepsPools
  <2>4. BuffersSound(e, L)
    BY <2>3, PoolsKeptSound
  <2>5. FormatsSound(e) /\ IndexReady(e)
    BY <2>2, <2>3 DEF DrawSound, FormatsSound, IndexReady
  <2> QED BY <2>2, <2>3, <2>4, <2>5 DEF e
<1> QED BY <1>2, <1>3

\* OpenGL reads what is ready, so that only the part it reads grows.
LEMMA ReadsFacts ==
  ASSUME NEW h, BuffersSound(h, {}), NEW p \in Pools, NEW size \in Nat, NEW what, Ready(h, p, size, what)
  PROVE  LET e == Reads(h, h.pool[p].gl, h.buf[p].index, size, what) IN
         /\ BuffersSound(e, {}) /\ Untouched(e, h) /\ OthersKept(e, h, p) /\ e.pool = h.pool /\ e.buf = h.buf
<1> DEFINE n == h.pool[p].gl
           o == ObjectOf(h, p)
           part == Part(h.buf[p].index, size)
           reading == o.reading \cup part
           e == Reads(h, n, h.buf[p].index, size, what)
<1>1. /\ Shape(h) /\ DOMAIN h = BufferFields /\ h.failed = {} /\ NamesSuffice(h) /\ PoolSound(h, p, FALSE)
  <2>1. (p \in {}) = FALSE /\ PoolSound(h, p, p \in {})
    BY DEF BuffersSound
  <2> QED BY <2>1 DEF BuffersSound, Shape
<1>2. /\ n # 0 /\ n \in Objects /\ o \in ObjectSet /\ ObjectFits(h, p, FALSE)
      /\ h.buf[p].index \in Nat /\ h.buf[p].size \in Nat /\ h.pool[p].next \in Nat
      /\ h.pool[p].size \in Nat /\ h.pool[p].size <= MaxSize
  BY <1>1, ShapeFacts DEF Ready, Holds, PoolSound
<1>3. o.live /\ o.mapped = FALSE /\ \A b \in part : o.content[b] = what
  BY <1>2 DEF ObjectFits, Ready, Holds
<1>4. o = h.object[n]
  BY DEF ObjectOf
<1>5. e = [h EXCEPT !.object[n] = [o EXCEPT !.reading = reading]]
  <2> DEFINE right == /\ h.object[n].live /\ ~h.object[n].mapped
                      /\ \A b \in Part(h.buf[p].index, size) : h.object[n].content[b] = what
  <2>1. Checked(h, right, "Read") = h
    BY <1>3, <1>4 DEF Checked
  <2>2. e = [Checked(h, right, "Read") EXCEPT !.object[n].reading = @ \cup Part(h.buf[p].index, size)]
    BY DEF Reads
  <2> HIDE DEF e, n, o, right
  <2> QED BY <1>4, <2>1, <2>2
<1>6. reading \subseteq Nat /\ part \subseteq Nat
  BY <1>2, ObjectFacts DEF Part
<1> HIDE DEF e, o, n, part, reading
<1>7. /\ DOMAIN e = BufferFields /\ Untouched(e, h) /\ e.pool = h.pool /\ e.buf = h.buf /\ e.next = h.next
      /\ e.failed = h.failed /\ e.object = [h.object EXCEPT ![n] = [o EXCEPT !.reading = reading]]
  BY <1>1, <1>5 DEF BufferFields, Untouched, DrawFields
<1>8. ObjectOf(e, p) = [o EXCEPT !.reading = reading] /\ e.pool[p] = h.pool[p] /\ e.buf[p] = h.buf[p]
  BY <1>1, <1>2, <1>7 DEF ObjectOf, n, Shape
<1>9. /\ ObjectOf(e, p) \in ObjectSet /\ ObjectOf(e, p).content = o.content /\ ObjectOf(e, p).live = o.live
      /\ ObjectOf(e, p).size = o.size /\ ObjectOf(e, p).mapped = o.mapped /\ ObjectOf(e, p).reading = reading
  <2>1. [o EXCEPT !.reading = reading] \in ObjectSet
    BY <1>2, <1>6 DEF ObjectSet
  <2>2. DOMAIN o = {"live", "size", "mapped", "content", "reading"}
    BY <1>2, ObjectFacts
  <2> QED BY <1>8, <2>1, <2>2
<1>10. OnlyObject(e, h, n)
  BY <1>1, <1>2, <1>7 DEF OnlyObject, Shape
<1>11. Shape(e) /\ OthersKept(e, h, p) /\ NamesSuffice(e)
  <2>1. OnlyObject(e, h, h.pool[p].gl) /\ h.pool[p].gl # 0
    BY <1>2, <1>10 DEF n
  <2> QED BY <1>7, <1>9, <2>1, OnlyObjectKeeps
<1>12. PoolSound(e, p, FALSE)
  <2>1. ObjectFits(e, p, FALSE)
    BY <1>2, <1>7, <1>8, <1>9 DEF ObjectFits, o
  <2>2. p \in StreamPools => StreamFits(e, p, FALSE)
    <3> SUFFICES ASSUME p \in StreamPools PROVE StreamFits(e, p, FALSE)
      OBVIOUS
    <3>1. h.buf[p].item > 0 /\ \A b \in o.reading : b < h.pool[p].next
      BY <1>1, <1>2 DEF PoolSound, StreamFits, o, n
    <3>2. \A b \in part : b < h.pool[p].next
      BY <1>2 DEF Ready, part, Part
    <3>3. \A b \in reading : b < h.pool[p].next
      BY <3>1, <3>2 DEF reading
    <3> QED BY <1>8, <1>9, <3>1, <3>3 DEF StreamFits
  <2>3. p \notin StreamPools => StaticFits(e, p)
    BY <1>1, <1>2, <1>8, <1>9 DEF PoolSound, StaticFits, Ready, o
  <2> QED BY <1>2, <1>8, <2>1, <2>2, <2>3 DEF PoolSound, n
<1>13. BuffersSound(e, {})
  <2>1. (p \in {}) = FALSE /\ e.next >= h.next /\ e.failed = {} /\ e.pool[p].gl = h.pool[p].gl
    BY <1>1, <1>7 DEF Shape
  <2>2. PoolSound(e, p, p \in {})
    BY <1>12, <2>1
  <2> QED BY <1>11, <2>1, <2>2, OneLocked
<1> QED BY <1>7, <1>11, <1>13 DEF e, n

\* The states that a draw sets up: nothing of the pools, and the index buffer and the arrays.
SetUp(e, h) ==
  /\ DOMAIN e = BufferFields /\ e.pool = h.pool /\ e.buf = h.buf /\ e.object = h.object /\ e.next = h.next
  /\ e.failed = h.failed /\ e.primIndexBuf = h.primIndexBuf /\ e.primFormat = h.primFormat
\* The three calls that set a draw up.
SyncVertices(h) == IStateSyncVertexPtrs(h)
\* The second of them.
SyncIndices(h) == IStateSyncIndexPtr(SyncVertices(h))
\* All three.
Synced(h, shader) == ApplyVertexFormat(SyncIndices(h), shader)

\* Setting a draw up keeps the pools.
LEMMA SetUpSound ==
  ASSUME NEW h, NEW e, NEW L, BuffersSound(h, L), SetUp(e, h)
  PROVE  BuffersSound(e, L) /\ \A p \in Pools : SamePool(e, h, p)
<1>1. Shape(e)
  BY DEF BuffersSound, Shape, SetUp
<1>2. \A p \in Pools : SamePool(e, h, p)
  BY DEF SetUp, SamePool, SameBuf, ObjectOf
<1>3. PoolsKept(e, h)
  BY <1>2 DEF PoolsKept, SetUp
<1> QED BY <1>1, <1>2, <1>3, PoolsKeptSound

\* After it, the index buffer and the arrays of OpenGL are those of the draw.
LEMMA SyncedFacts ==
  ASSUME NEW h, BuffersSound(h, {}), FormatsSound(h), IndexReady(h), NEW shader \in BOOLEAN,
         h.primVertexBuf \in Pools, h.primFormat \in DOMAIN Slots
  PROVE  LET e == Synced(h, shader) IN
         /\ SetUp(e, h) /\ FormatsSound(e) /\ IndexSettled(e)
         /\ e.vertexBuffer = h.pool[h.primVertexBuf].gl /\ e.vertexOffset = h.buf[h.primVertexBuf].index
         /\ IF shader THEN e.enabled["shader"] = Slots[h.primFormat]
            ELSE e.enabled["fixed"] = Slots[h.primFormat] \ {1, 2}
<1> DEFINE f == h.primFormat
           s == SyncVertices(h)
           t == SyncIndices(h)
           e == Synced(h, shader)
           built == IF h.glFormats[f] # Unbuilt THEN h.glFormats[f] ELSE Slots[f]
<1>1. DOMAIN h = BufferFields /\ DOMAIN h.glFormats = DOMAIN Slots /\ DOMAIN h.enabled = {"shader", "fixed"}
  BY DEF BuffersSound, Shape, FormatsSound
<1>2. built = Slots[f]
  BY DEF FormatsSound
<1>3. s = [h EXCEPT !.glFormats[f] = built, !.vertexFormat = built,
                    !.vertexBuffer = h.pool[h.primVertexBuf].gl, !.vertexOffset = h.buf[h.primVertexBuf].index]
  BY DEF SyncVertices, IStateSyncVertexPtrs
<1> HIDE DEF built, s
<1>4. /\ DOMAIN s = BufferFields /\ s.pool = h.pool /\ s.buf = h.buf /\ s.object = h.object /\ s.next = h.next
      /\ s.failed = h.failed /\ s.primIndexBuf = h.primIndexBuf /\ s.primFormat = h.primFormat
      /\ s.primIndexDirty = h.primIndexDirty /\ s.indexBuffer = h.indexBuffer /\ s.enabled = h.enabled
      /\ s.glFormats = [h.glFormats EXCEPT ![f] = built] /\ s.vertexFormat = built
      /\ s.vertexBuffer = h.pool[h.primVertexBuf].gl /\ s.vertexOffset = h.buf[h.primVertexBuf].index
  BY <1>1, <1>3 DEF BufferFields
<1>5. FormatsSound(s) /\ SetUp(s, h)
  <2>1. \A q \in DOMAIN Slots : s.glFormats[q] \in {Unbuilt, Slots[q]}
    BY <1>1, <1>2, <1>4 DEF FormatsSound
  <2> QED BY <1>1, <1>4, <2>1 DEF FormatsSound, SetUp
<1>6. /\ SetUp(t, h) /\ FormatsSound(t) /\ IndexSettled(t) /\ DOMAIN t = BufferFields
      /\ t.vertexFormat = built /\ t.enabled = h.enabled
      /\ t.vertexBuffer = s.vertexBuffer /\ t.vertexOffset = s.vertexOffset
  <2>1. CASE ~h.primIndexDirty
    <3>1. t = s
      BY <1>4, <2>1 DEF SyncIndices, IStateSyncIndexPtr, s
    <3> HIDE DEF t
    <3>2. IndexSettled(h)
      BY <2>1 DEF IndexReady
    <3>3. IndexSettled(s)
      BY <1>4, <3>2 DEF IndexSettled, IndexTrue
    <3> QED BY <1>4, <1>5, <3>1, <3>3
  <2>2. CASE h.primIndexDirty
    <3>1. t = [s EXCEPT !.primIndexDirty = FALSE, !.indexBuffer = s.pool[s.primIndexBuf].gl]
      BY <1>4, <2>2 DEF SyncIndices, IStateSyncIndexPtr, s
    <3> HIDE DEF t
    <3>2. /\ DOMAIN t = BufferFields /\ t.pool = s.pool /\ t.buf = s.buf /\ t.object = s.object /\ t.next = s.next
          /\ t.failed = s.failed /\ t.primIndexBuf = s.primIndexBuf /\ t.primFormat = s.primFormat
          /\ t.primIndexDirty = FALSE /\ t.indexBuffer = s.pool[s.primIndexBuf].gl /\ t.enabled = s.enabled
          /\ t.glFormats = s.glFormats /\ t.vertexFormat = s.vertexFormat
          /\ t.vertexBuffer = s.vertexBuffer /\ t.vertexOffset = s.vertexOffset
      BY <1>4, <3>1 DEF BufferFields
    <3>3. h.primIndexBuf \in IndexPools /\ ~h.buf[h.primIndexBuf].changed /\ h.pool[h.primIndexBuf].gl # 0
      BY <2>2 DEF IndexReady
    <3>4. h.primIndexBuf # "none"
      BY <3>3 DEF IndexPools
    <3>5. IndexSettled(t)
      BY <1>4, <3>2, <3>3, <3>4 DEF IndexSettled, IndexTrue
    <3>6. FormatsSound(t) /\ SetUp(t, h)
      BY <1>4, <1>5, <3>2 DEF FormatsSound, SetUp
    <3> QED BY <1>4, <3>2, <3>5, <3>6
  <2> QED BY <2>1, <2>2
<1> HIDE DEF t
<1>7. e = IF shader THEN [t EXCEPT !.enabled.shader = t.vertexFormat]
          ELSE [t EXCEPT !.enabled.fixed = t.vertexFormat \ {1, 2}]
  BY DEF Synced, ApplyVertexFormat, t
<1> HIDE DEF e
<1>8. /\ DOMAIN e = BufferFields /\ e.pool = t.pool /\ e.buf = t.buf /\ e.object = t.object /\ e.next = t.next
      /\ e.failed = t.failed /\ e.primIndexBuf = t.primIndexBuf /\ e.primFormat = t.primFormat
      /\ e.primIndexDirty = t.primIndexDirty /\ e.indexBuffer = t.indexBuffer
      /\ e.glFormats = t.glFormats /\ e.vertexBuffer = t.vertexBuffer /\ e.vertexOffset = t.vertexOffset
      /\ DOMAIN e.enabled = {"shader", "fixed"}
      /\ IF shader THEN e.enabled["shader"] = built ELSE e.enabled["fixed"] = built \ {1, 2}
  <2>1. CASE shader
    <3>1. e = [t EXCEPT !.enabled.shader = t.vertexFormat]
      BY <1>7, <2>1
    <3>2. e.enabled = [t.enabled EXCEPT !.shader = built]
      BY <1>6, <3>1 DEF BufferFields
    <3> QED BY <1>1, <1>6, <2>1, <3>1, <3>2 DEF BufferFields
  <2>2. CASE ~shader
    <3>1. e = [t EXCEPT !.enabled.fixed = t.vertexFormat \ {1, 2}]
      BY <1>7, <2>2
    <3>2. e.enabled = [t.enabled EXCEPT !.fixed = built \ {1, 2}]
      BY <1>6, <3>1 DEF BufferFields
    <3> QED BY <1>1, <1>6, <2>2, <3>1, <3>2 DEF BufferFields
  <2> QED BY <2>1, <2>2
<1>9. SetUp(e, h)
  BY <1>6, <1>8 DEF SetUp
<1>10. FormatsSound(e) /\ IndexSettled(e)
  BY <1>6, <1>8 DEF FormatsSound, IndexSettled, IndexTrue
<1> QED BY <1>2, <1>4, <1>6, <1>8, <1>9, <1>10 DEF e

\* Draws leave the pools and the buffers alone.
Drawable(h, v, i, vertices, indices) ==
  /\ BuffersSound(h, {}) /\ FormatsSound(h) /\ IndexReady(h)
  /\ h.primVertexBuf \in Pools \ IndexPools /\ h.primFormat \in DOMAIN Slots
  /\ Ready(h, h.primVertexBuf, v, vertices)
  /\ i # 0 => h.primIndexBuf \in IndexPools /\ Ready(h, h.primIndexBuf, i, indices)
\* What a draw leaves.
Drawn(e, h) == BuffersInv(e) /\ e.pool = h.pool /\ e.buf = h.buf

\* A draw of what is ready reads what its own code wrote, and ends as operations begin.
LEMMA GxDrawFacts ==
  ASSUME NEW h, NEW shader \in BOOLEAN, NEW v \in Nat, NEW i \in Nat, NEW vertices, NEW indices,
         Drawable(h, v, i, vertices, indices)
  PROVE  Drawn(GxDraw(h, shader, v, i, vertices, indices), h)
<1> SUFFICES LET e == GxDraw(h, shader, v, i, vertices, indices) IN
             BuffersInv(e) /\ e.pool = h.pool /\ e.buf = h.buf
  BY DEF Drawn
<1> DEFINE p == h.primVertexBuf
<1> /\ BuffersSound(h, {}) /\ FormatsSound(h) /\ IndexReady(h)
    /\ p \in Pools \ IndexPools /\ h.primFormat \in DOMAIN Slots
    /\ Ready(h, p, v, vertices)
    /\ i # 0 => h.primIndexBuf \in IndexPools /\ Ready(h, h.primIndexBuf, i, indices)
  BY DEF Drawable
<1> DEFINE s == Synced(h, shader)
           c == CheckDraw(s, shader)
           r == ReadVertices(c, v, vertices)
           e == ReadIndices(r, i, indices)
<1>1. GxDraw(h, shader, v, i, vertices, indices) = e
  BY DEF GxDraw, Synced, SyncIndices, SyncVertices
<1>2. /\ SetUp(s, h) /\ FormatsSound(s) /\ IndexSettled(s)
      /\ s.vertexBuffer = h.pool[p].gl /\ s.vertexOffset = h.buf[p].index
      /\ IF shader THEN s.enabled["shader"] = Slots[h.primFormat]
         ELSE s.enabled["fixed"] = Slots[h.primFormat] \ {1, 2}
  BY SyncedFacts
<1> HIDE DEF s
<1>3. BuffersSound(s, {}) /\ \A q \in Pools : SamePool(s, h, q)
  BY <1>2, SetUpSound
<1>4. s.pool = h.pool /\ s.buf = h.buf /\ s.primFormat = h.primFormat /\ s.primIndexBuf = h.primIndexBuf
  BY <1>2 DEF SetUp
<1>5. s.indexBuffer # 0 => s.object[s.indexBuffer].live
  <2> SUFFICES ASSUME s.indexBuffer # 0 PROVE s.object[s.indexBuffer].live
    OBVIOUS
  <2>1. s.primIndexBuf \in Pools /\ s.indexBuffer = s.pool[s.primIndexBuf].gl
    BY <1>2, PoolNames DEF IndexSettled, IndexTrue
  <2> QED BY <1>3, <2>1 DEF BuffersSound, PoolSound, ObjectFits, ObjectOf
<1>6. c = s
  <2>1. IF shader THEN s.enabled.shader = Slots[s.primFormat] ELSE s.enabled.fixed = Slots[s.primFormat] \ {1, 2}
    BY <1>2, <1>4
  <2> QED BY <1>5, <2>1 DEF CheckDraw, Checked
<1>7. r = Reads(s, s.pool[p].gl, s.buf[p].index, v, vertices)
  BY <1>2, <1>4, <1>6 DEF ReadVertices
<1> HIDE DEF c, r
<1>8. Ready(s, p, v, vertices)
  BY <1>3, HoldsKept
<1>9. BuffersSound(r, {}) /\ Untouched(r, s) /\ OthersKept(r, s, p) /\ r.pool = s.pool /\ r.buf = s.buf
  BY <1>3, <1>7, <1>8, ReadsFacts
<1>10. /\ r.primIndexBuf = s.primIndexBuf /\ r.primIndexDirty = s.primIndexDirty /\ r.indexBuffer = s.indexBuffer
       /\ r.glFormats = s.glFormats /\ r.enabled = s.enabled
  BY <1>9 DEF Untouched, DrawFields
<1>11. BuffersInv(r)
  BY <1>2, <1>9, <1>10 DEF BuffersInv, FormatsSound, IndexSettled, IndexTrue
<1>12. CASE i = 0
  <2>1. e = r
    BY <1>12 DEF ReadIndices
  <2> QED BY <1>1, <1>4, <1>9, <1>11, <2>1
<1>13. CASE i # 0
  <2> DEFINE q == s.primIndexBuf
  <2>1. q \in IndexPools /\ q \in Pools /\ q # p /\ Ready(h, q, i, indices)
    BY <1>4, <1>13, PoolNames
  <2>2. s.indexBuffer = s.pool[q].gl
    <3>1. q # "none" /\ Ready(s, q, i, indices)
      BY <1>3, <2>1, HoldsKept DEF IndexPools
    <3> QED BY <1>2, <3>1 DEF IndexSettled, IndexTrue
  <2>3. Ready(r, q, i, indices)
    <3>1. SamePool(r, s, q) /\ Ready(s, q, i, indices)
      BY <1>3, <1>9, <2>1, HoldsKept DEF OthersKept
    <3> HIDE DEF q
    <3> QED BY <2>1, <3>1, HoldsKept
  <2>4. e = Reads(r, r.pool[q].gl, r.buf[q].index, i, indices)
    BY <1>9, <1>10, <1>13, <2>2 DEF ReadIndices
  <2> HIDE DEF e, q
  <2>5. BuffersSound(e, {}) /\ Untouched(e, r) /\ OthersKept(e, r, q) /\ e.pool = r.pool /\ e.buf = r.buf
    BY <1>9, <2>1, <2>3, <2>4, ReadsFacts
  <2>6. /\ e.primIndexBuf = r.primIndexBuf /\ e.primIndexDirty = r.primIndexDirty /\ e.indexBuffer = r.indexBuffer
        /\ e.glFormats = r.glFormats /\ e.enabled = r.enabled
    BY <2>5 DEF Untouched, DrawFields
  <2>7. BuffersInv(e)
    BY <1>11, <2>5, <2>6 DEF BuffersInv, FormatsSound, IndexSettled, IndexTrue
  <2> QED BY <1>1, <1>4, <1>9, <2>5, <2>7
<1> QED BY <1>12, <1>13

-----------------------------------------------------------------------------
(* The drawing code                                                        *)

\* What every operation starts from.
LEMMA StartFacts ==
  ASSUME NEW h, BuffersInv(h)
  PROVE  BuffersSound(h, {}) /\ DrawSound(h) /\ IndexSettled(h) /\ FormatsSound(h)
BY DEF BuffersInv, DrawSound, IndexSettled

\* What is ready stays so while other pools change.
LEMMA ReadyKept ==
  ASSUME NEW h, NEW e, NEW p \in Pools, NEW q \in Pools \ {p}, OthersKept(e, h, p), NEW n, NEW what
  PROVE  /\ Holds(h, q, n, what) => Holds(e, q, n, what)
         /\ Ready(h, q, n, what) => Ready(e, q, n, what)
         /\ e.buf[q].size = h.buf[q].size /\ e.buf[q].filled = h.buf[q].filled /\ e.pool[q].gl = h.pool[q].gl
         /\ e.pool[q].size = h.pool[q].size
<1>1. SamePool(e, h, q)
  BY DEF OthersKept
<1> QED BY <1>1, HoldsKept DEF SamePool, SameBuf

\* A step of a pool that holds no indices leaves the index buffer as it is.
LEMMA SettledKept ==
  ASSUME NEW h, NEW e, NEW p \in Pools \ IndexPools, OthersKept(e, h, p), Untouched(e, h), IndexSettled(h)
  PROVE  IndexSettled(e)
<1>1. /\ e.primIndexBuf = h.primIndexBuf /\ e.primIndexDirty = h.primIndexDirty /\ e.indexBuffer = h.indexBuffer
  BY DEF Untouched, DrawFields
<1>2. ASSUME NEW q \in IndexPools PROVE e.buf[q].changed = h.buf[q].changed /\ e.pool[q].gl = h.pool[q].gl
  <2>1. q \in Pools \ {p}
    BY PoolNames
  <2> QED BY <2>1 DEF OthersKept, SamePool
<1> QED BY <1>1, <1>2 DEF IndexSettled, IndexTrue

\* The pools, formats and contents that drawing code names.
LEMMA DrawNames ==
  /\ "Stream_vtx" \in Pools \ IndexPools /\ "model_vtx" \in Pools \ IndexPools
  /\ "Stream_idx" \in IndexPools /\ "model_idx" \in IndexPools /\ "font_idx" \in IndexPools
  /\ "Stream_vtx" \in StreamPools /\ "Stream_idx" \in StreamPools
  /\ "model_vtx" \notin StreamPools /\ "model_idx" \notin StreamPools /\ "font_idx" \notin StreamPools
  /\ SizeOf["PC"] = 3 /\ SizeOf["PCT"] = 2 /\ "PC" \in DOMAIN Slots /\ "PCT" \in DOMAIN Slots
  /\ "PBNT2" \in DOMAIN Slots
  /\ "new" \in Contents /\ "quads" \in Contents /\ "model" \in Contents /\ "none" \in Contents
BY DEF Pools, StreamPools, IndexPools, SizeOf, Slots, Contents

\* The cursor.
LEMMA ICursorDrawKeeps ==
  ASSUME BuffersInv(g), ICursorDraw
  PROVE  BuffersInv(g')
<1> DEFINE p == "Stream_vtx"
           b == Begin
           v == Fill(BufStream(b, p, SizeOf["PCT"], 1), p, SizeOf["PCT"], "new")
           e == GxPrimVertexPtr(v, p, "PCT")
<1>1. BuffersSound(b, {}) /\ DrawSound(b) /\ IndexSettled(b)
  BY BeginFacts, StartFacts
<1> HIDE DEF b
<1>2. p \in Pools \ IndexPools /\ p \in StreamPools /\ p \in Pools
  BY DrawNames
<1>3. BuffersSound(v, {}) /\ Noticed(v, b, p) /\ Ready(v, p, 2, "new")
  <2>1. 2 * 1 <= MaxSize /\ 2 * 1 = 2
    BY BufferConstants
  <2>2. LET k == Fill(BufStream(b, p, 2, 1), p, 2 * 1, "new") IN
        BuffersSound(k, {}) /\ Noticed(k, b, p) /\ Ready(k, p, 2 * 1, "new")
    BY <1>1, <1>2, <2>1, FillStreamFacts, DrawNames
  <2> QED BY <2>1, <2>2, DrawNames
<1> HIDE DEF v
<1>4. DrawSound(v) /\ IndexSettled(v)
  BY <1>1, <1>2, <1>3, DrawSoundKept, SettledKept DEF Noticed
<1>5. /\ BuffersSound(e, {}) /\ DrawSound(e) /\ PoolsKept(e, v) /\ e.primVertexBuf = p /\ e.primFormat = "PCT"
      /\ IndexSettled(e)
  BY <1>2, <1>3, <1>4, GxPrimVertexPtrFacts
<1>6. g' = GxDraw(e, TRUE, 2, 0, "new", "none")
  BY DrawNames DEF ICursorDraw, v, b
<1> HIDE DEF e
<1>7. Ready(e, p, 2, "new")
  BY <1>2, <1>3, <1>5, HoldsKept DEF PoolsKept
<1>8. IndexReady(e) /\ FormatsSound(e)
  BY <1>5 DEF IndexReady, IndexSettled, IndexTrue, DrawSound
<1>9. Drawable(e, 2, 0, "new", "none")
  BY <1>2, <1>5, <1>7, <1>8, DrawNames DEF Drawable
<1>10. Drawn(GxDraw(e, TRUE, 2, 0, "new", "none"), e)
  BY <1>9, GxDrawFacts
<1> QED BY <1>6, <1>10 DEF Drawn

\* The console, of any number of vertices and indices that fit.
LEMMA DrawLockedKeeps ==
  ASSUME BuffersInv(g), NEW count \in Nat \ {0}, NEW idx \in Nat \ {0}, 3 * count <= MaxSize, idx <= MaxSize,
         DrawLocked(count, idx)
  PROVE  BuffersInv(g')
<1> DEFINE p == "Stream_vtx"
           q == "Stream_idx"
           size == SizeOf["PC"] * count
           b == Begin
           v == Fill(BufStream(b, p, SizeOf["PC"], count), p, size, "new")
           w == GxPrimVertexPtr(v, p, "PC")
           i == Fill(BufStream(w, q, 1, idx), q, idx, "new")
           e == PrimIndexPtr(i, q)
<1>1. BuffersSound(b, {}) /\ DrawSound(b)
  BY BeginFacts, StartFacts
<1> HIDE DEF b
<1>2. /\ p \in Pools \ IndexPools /\ p \in StreamPools /\ p \in Pools /\ q \in IndexPools /\ q \in StreamPools
      /\ q \in Pools \ {p} /\ p \in Pools \ {q} /\ size = 3 * count /\ size \in Nat /\ size <= MaxSize /\ 1 * idx = idx
  BY DrawNames, PoolNames
<1>3. BuffersSound(v, {}) /\ Noticed(v, b, p) /\ Ready(v, p, size, "new")
  <2>1. SizeOf["PC"] \in Nat \ {0} /\ "new" \in Contents
    BY DrawNames
  <2> QED BY <1>1, <1>2, <2>1, FillStreamFacts
<1> HIDE DEF v
<1>4. DrawSound(v)
  BY <1>1, <1>2, <1>3, DrawSoundKept
<1>5. /\ BuffersSound(w, {}) /\ DrawSound(w) /\ PoolsKept(w, v) /\ w.primVertexBuf = p /\ w.primFormat = "PC"
  BY <1>2, <1>3, <1>4, GxPrimVertexPtrFacts
<1> HIDE DEF w
<1>6. Ready(w, p, size, "new")
  BY <1>2, <1>3, <1>5, HoldsKept DEF PoolsKept
<1>7. BuffersSound(i, {}) /\ Noticed(i, w, q) /\ Ready(i, q, idx, "new")
  <2>1. LET k == Fill(BufStream(w, q, 1, idx), q, 1 * idx, "new") IN
        BuffersSound(k, {}) /\ Noticed(k, w, q) /\ Ready(k, q, 1 * idx, "new")
    BY <1>2, <1>5, FillStreamFacts, DrawNames
  <2> QED BY <1>2, <2>1
<1> HIDE DEF i
<1>8. DrawSound(i) /\ Ready(i, p, size, "new") /\ i.primVertexBuf = p /\ i.primFormat = "PC" /\ i.pool[q].gl # 0
  <2>1. DrawSound(i)
    BY <1>2, <1>5, <1>7, DrawSoundKept
  <2>2. Ready(i, p, size, "new")
    BY <1>2, <1>6, <1>7, ReadyKept DEF Noticed
  <2>3. i.primVertexBuf = w.primVertexBuf /\ i.primFormat = w.primFormat
    BY <1>7 DEF Noticed, Untouched, DrawFields
  <2> QED BY <1>5, <1>7, <2>1, <2>2, <2>3 DEF Ready, Holds
<1>9. /\ BuffersSound(e, {}) /\ FormatsSound(e) /\ IndexReady(e) /\ PoolsKept(e, i)
      /\ e.primIndexBuf = q /\ e.primVertexBuf = i.primVertexBuf /\ e.primFormat = i.primFormat
  BY <1>2, <1>7, <1>8, PrimIndexPtrFacts
<1>10. g' = GxDraw(e, FALSE, size, idx, "new", "new")
  BY DEF DrawLocked, i, w, v, b
<1> HIDE DEF e
<1>11. Ready(e, p, size, "new") /\ Ready(e, q, idx, "new")
  BY <1>2, <1>7, <1>8, <1>9, HoldsKept DEF PoolsKept
<1> HIDE DEF size
<1>12. Drawable(e, size, idx, "new", "new")
  BY <1>2, <1>8, <1>9, <1>11, DrawNames DEF Drawable
<1>13. Drawn(GxDraw(e, FALSE, size, idx, "new", "new"), e)
  BY <1>2, <1>12, GxDrawFacts
<1> QED BY <1>10, <1>13 DEF Drawn

\* A static pool is filled once.
FillOnce(h, p) == IF h.buf[p].filled THEN h ELSE Fill(h, p, TextCapacity, StaticContent(p))

\* Afterwards it is ready, whether it had been filled before or not.
LEMMA FillOnceFacts ==
  ASSUME NEW h, BuffersSound(h, {}), DrawSound(h), NEW p \in Pools \ StreamPools
  PROVE  LET e == FillOnce(h, p) IN
         /\ BuffersSound(e, {}) /\ DrawSound(e) /\ Untouched(e, h) /\ OthersKept(e, h, p)
         /\ Ready(e, p, TextCapacity, StaticContent(p)) /\ e.pool[p].gl # 0
<1> DEFINE e == FillOnce(h, p)
<1>1. Shape(h) /\ PoolSound(h, p, FALSE) /\ TextCapacity \in Nat
  <2>1. (p \in {}) = FALSE /\ PoolSound(h, p, p \in {})
    BY DEF BuffersSound
  <2> QED BY <2>1, BufferConstants DEF BuffersSound
<1>2. StaticFits(h, p)
  BY <1>1 DEF PoolSound
<1>3. CASE h.buf[p].filled
  <2>1. e = h
    BY <1>3 DEF FillOnce
  <2> HIDE DEF e
  <2>2. Untouched(e, h) /\ OthersKept(e, h, p)
    BY <2>1 DEF Untouched, OthersKept, SamePool, SameBuf
  <2>3. Part(0, TextCapacity) = 0..(TextCapacity - 1)
    BY <1>1 DEF Part
  <2>4. Ready(h, p, TextCapacity, StaticContent(p))
    BY <1>1, <1>2, <1>3, <2>3 DEF StaticFits, Ready, Holds
  <2>5. h.pool[p].gl # 0
    BY <2>4 DEF Ready, Holds
  <2> QED BY <2>1, <2>2, <2>4, <2>5 DEF e
<1>4. CASE ~h.buf[p].filled
  <2> DEFINE what == StaticContent(p)
  <2>1. e = Fill(h, p, TextCapacity, what)
    BY <1>4 DEF FillOnce
  <2>2. what \in Contents /\ TextCapacity <= h.buf[p].size
    BY <1>1, <1>2 DEF StaticContent, Contents, StaticFits
  <2> HIDE DEF e
  <2>3. /\ BuffersSound(e, {}) /\ Untouched(e, h) /\ OthersKept(e, h, p) /\ Noticed(e, h, p)
        /\ Ready(e, p, TextCapacity, what) /\ e.buf[p].changed = TRUE
    <3>1. p \in Pools /\ p \notin StreamPools /\ what = StaticContent(p)
      OBVIOUS
    <3> HIDE DEF what
    <3> QED BY <1>1, <1>4, <2>1, <2>2, <3>1, FillFacts
  <2>4. DrawSound(e)
    BY <2>3, DrawSoundKept
  <2> QED BY <2>3, <2>4 DEF e, Ready, Holds
<1> QED BY <1>3, <1>4

\* Models.
LEMMA DrawModelKeeps ==
  ASSUME BuffersInv(g), DrawModel
  PROVE  BuffersInv(g')
<1> DEFINE p == "model_vtx"
           q == "model_idx"
           b == Begin
           f == FillOnce(b, p)
           v == GxPrimVertexPtr(f, p, "PBNT2")
           i == FillOnce(v, q)
           e == PrimIndexPtr(i, q)
<1>1. BuffersSound(b, {}) /\ DrawSound(b)
  BY BeginFacts, StartFacts
<1>2. /\ p \in Pools \ IndexPools /\ p \in Pools /\ q \in IndexPools /\ q \in Pools \ {p} /\ p \in Pools \ {q}
      /\ p \in Pools \ StreamPools /\ q \in Pools \ StreamPools
      /\ StaticContent(p) = "model" /\ StaticContent(q) = "model"
      /\ TextCapacity \in Nat
  BY DrawNames, PoolNames, BufferConstants DEF StaticContent
<1>3. g' = GxDraw(e, TRUE, TextCapacity, TextCapacity, "model", "model")
  BY <1>2 DEF DrawModel, FillOnce
<1> HIDE DEF b
<1>4. BuffersSound(f, {}) /\ DrawSound(f) /\ Ready(f, p, TextCapacity, "model")
  <2>1. /\ BuffersSound(f, {}) /\ DrawSound(f) /\ Untouched(f, b) /\ OthersKept(f, b, p)
        /\ Ready(f, p, TextCapacity, StaticContent(p)) /\ f.pool[p].gl # 0
    BY <1>1, <1>2, FillOnceFacts
  <2> QED BY <1>2, <2>1
<1> HIDE DEF f
<1>5. BuffersSound(v, {}) /\ DrawSound(v) /\ PoolsKept(v, f) /\ v.primVertexBuf = p /\ v.primFormat = "PBNT2"
  BY <1>2, <1>4, GxPrimVertexPtrFacts
<1> HIDE DEF v
<1>6. Ready(v, p, TextCapacity, "model")
  BY <1>2, <1>4, <1>5, HoldsKept DEF PoolsKept
<1>7. /\ BuffersSound(i, {}) /\ DrawSound(i) /\ Untouched(i, v) /\ OthersKept(i, v, q)
      /\ Ready(i, q, TextCapacity, StaticContent(q)) /\ i.pool[q].gl # 0
  BY <1>2, <1>5, FillOnceFacts
<1> HIDE DEF i
<1>8. Ready(i, p, TextCapacity, "model") /\ i.primVertexBuf = p /\ i.primFormat = "PBNT2"
  <2>1. Ready(i, p, TextCapacity, "model")
    BY <1>2, <1>6, <1>7, ReadyKept
  <2> QED BY <1>5, <1>7, <2>1 DEF Untouched, DrawFields
<1>9. /\ BuffersSound(e, {}) /\ FormatsSound(e) /\ IndexReady(e) /\ PoolsKept(e, i)
      /\ e.primIndexBuf = q /\ e.primVertexBuf = i.primVertexBuf /\ e.primFormat = i.primFormat
  BY <1>2, <1>7, PrimIndexPtrFacts
<1> HIDE DEF e
<1>10. Ready(e, p, TextCapacity, "model") /\ Ready(e, q, TextCapacity, "model")
  BY <1>2, <1>7, <1>8, <1>9, HoldsKept DEF PoolsKept
<1>11. Drawable(e, TextCapacity, TextCapacity, "model", "model")
  BY <1>2, <1>8, <1>9, <1>10, DrawNames DEF Drawable
<1>12. Drawn(GxDraw(e, TRUE, TextCapacity, TextCapacity, "model", "model"), e)
  BY <1>2, <1>11, GxDrawFacts
<1> QED BY <1>3, <1>12 DEF Drawn

\* The interface: both streams are locked at a time.
LEMMA DrawMeshKeeps ==
  ASSUME BuffersInv(g), NEW pos \in Nat, NEW idx \in Nat, 2 * pos <= MaxSize, idx <= MaxSize, DrawMesh(pos, idx)
  PROVE  BuffersInv(g')
<1> DEFINE p == "Stream_vtx"
           q == "Stream_idx"
           size == 2 * pos
           b == Begin
           v == LockStream(b, p, 2, pos)
           i == LockStream(v, q, 1, idx)
           x == Write(i, p, size, "new")
           w == Write(x, q, idx, "new")
           y == GxBufUnlock(w, p)
           u == GxBufUnlock(y, q)
           z == GxPrimVertexPtr(u, p, "PCT")
           e == PrimIndexPtr(z, q)
<1>1. BuffersSound(b, {}) /\ DrawSound(b)
  BY BeginFacts, StartFacts
<1>2. /\ p \in Pools \ IndexPools /\ p \in StreamPools /\ p \in Pools /\ q \in IndexPools /\ q \in StreamPools
      /\ q \in Pools /\ q \in Pools \ {p} /\ p \in Pools \ {q}
      /\ p \notin {} /\ {} \cup {p} = {p} /\ q \notin {p} /\ {p} \cup {q} = {p, q} /\ p \in Pools \cap {p, q}
      /\ q \in Pools \cap {p, q} /\ {p, q} \ {p} = {q} /\ q \in Pools \cap {q} /\ {q} \ {q} = {}
      /\ size \in Nat /\ "new" \in Contents
  BY DrawNames, PoolNames
<1>3. g' = GxDraw(e, TRUE, size, idx, "new", "new")
  BY DrawNames DEF DrawMesh, LockStream
<1> HIDE DEF b
<1>4. BuffersSound(v, {p}) /\ Noticed(v, b, p) /\ v.buf[p].size = size
  <2>1. PICK L : L = {}
    OBVIOUS
  <2>2. BuffersSound(b, L) /\ p \notin L
    BY <1>1, <2>1
  <2>3. /\ BuffersSound(v, L \cup {p}) /\ Untouched(v, b) /\ OthersKept(v, b, p) /\ Noticed(v, b, p)
        /\ v.buf[p].size = 2 * pos
    BY <1>2, <2>2, LockStreamFacts
  <2> QED BY <1>2, <2>1, <2>3
<1> HIDE DEF v
<1>5. BuffersSound(i, {p, q}) /\ Noticed(i, v, q) /\ i.buf[q].size = idx /\ i.buf[p].size = size
  <2>1. PICK L : L = {p}
    OBVIOUS
  <2>2. BuffersSound(v, L) /\ q \notin L /\ 1 * idx = idx
    BY <1>2, <1>4, <2>1
  <2>3. /\ BuffersSound(i, L \cup {q}) /\ Untouched(i, v) /\ OthersKept(i, v, q) /\ Noticed(i, v, q)
        /\ i.buf[q].size = 1 * idx
    BY <1>2, <2>2, LockStreamFacts
  <2>4. i.buf[p].size = v.buf[p].size
    BY <1>2, <2>3, ReadyKept
  <2> QED BY <1>2, <1>4, <2>1, <2>2, <2>3, <2>4
<1> HIDE DEF i
<1> DEFINE L == {p, q}
<1>6. /\ BuffersSound(x, L) /\ Untouched(x, i) /\ OthersKept(x, i, p)
      /\ x.pool = i.pool /\ x.buf = i.buf /\ Holds(x, p, size, "new")
  <2>1. BuffersSound(i, L) /\ p \in Pools \cap L /\ size <= i.buf[p].size
    BY <1>2, <1>5
  <2> HIDE DEF L, size
  <2> QED BY <1>2, <2>1, WriteFacts
<1> HIDE DEF x
<1>7. /\ BuffersSound(w, L) /\ Untouched(w, x) /\ OthersKept(w, x, q)
      /\ w.pool = x.pool /\ w.buf = x.buf /\ Holds(w, q, idx, "new")
  <2>1. BuffersSound(x, L) /\ q \in Pools \cap L /\ idx <= x.buf[q].size
    BY <1>2, <1>5, <1>6
  <2> HIDE DEF L
  <2> QED BY <1>2, <2>1, WriteFacts
<1> HIDE DEF w
<1>8. Holds(w, p, size, "new")
  BY <1>2, <1>6, <1>7, ReadyKept
<1>9. /\ BuffersSound(y, {q}) /\ Untouched(y, w) /\ OthersKept(y, w, p)
      /\ y.pool = w.pool /\ y.buf[p].changed = w.buf[p].changed /\ Ready(y, p, size, "new")
  <2>1. p \in Pools \cap L /\ L \ {p} = {q}
    BY <1>2
  <2> HIDE DEF L, size
  <2>2. /\ BuffersSound(y, L \ {p}) /\ Untouched(y, w) /\ OthersKept(y, w, p)
        /\ y.pool = w.pool /\ y.buf[p].changed = w.buf[p].changed /\ y.buf[p].size = w.buf[p].size
        /\ Ready(y, p, size, "new")
    BY <1>2, <1>7, <1>8, <2>1, GxBufUnlockFacts
  <2> QED BY <2>1, <2>2
<1> HIDE DEF y
<1>10. Holds(y, q, idx, "new")
  BY <1>2, <1>7, <1>9, ReadyKept
<1>11. /\ BuffersSound(u, {}) /\ Untouched(u, y) /\ OthersKept(u, y, q)
       /\ u.pool = y.pool /\ u.buf[q].changed = y.buf[q].changed /\ Ready(u, q, idx, "new")
  <2>1. PICK M : M = {q}
    OBVIOUS
  <2>2. BuffersSound(y, M) /\ q \in Pools \cap M /\ M \ {q} = {}
    BY <1>2, <1>9, <2>1
  <2>3. /\ BuffersSound(u, M \ {q}) /\ Untouched(u, y) /\ OthersKept(u, y, q)
        /\ u.pool = y.pool /\ u.buf[q].changed = y.buf[q].changed /\ u.buf[q].size = y.buf[q].size
        /\ Ready(u, q, idx, "new")
    BY <1>2, <1>10, <2>2, GxBufUnlockFacts
  <2> QED BY <2>2, <2>3
<1> HIDE DEF u
<1>12. Ready(u, p, size, "new")
  BY <1>2, <1>9, <1>11, ReadyKept
<1>13. DrawSound(u)
  <2>1. DrawSound(i)
    <3>1. DrawSound(v)
      BY <1>1, <1>2, <1>4, DrawSoundKept
    <3> QED BY <1>2, <1>5, <3>1, DrawSoundKept
  <2>2. DrawSound(x)
    <3>1. Noticed(x, i, p)
      BY <1>6 DEF Noticed
    <3> QED BY <1>2, <2>1, <3>1, DrawSoundKept
  <2>3. DrawSound(w)
    <3>1. Noticed(w, x, q)
      BY <1>7 DEF Noticed
    <3> QED BY <1>2, <2>2, <3>1, DrawSoundKept
  <2>4. DrawSound(y)
    <3>1. Noticed(y, w, p)
      BY <1>9 DEF Noticed
    <3> QED BY <1>2, <2>3, <3>1, DrawSoundKept
  <2>5. Noticed(u, y, q)
    BY <1>11 DEF Noticed
  <2> QED BY <1>2, <2>4, <2>5, DrawSoundKept
<1>14. /\ BuffersSound(z, {}) /\ DrawSound(z) /\ PoolsKept(z, u) /\ z.primVertexBuf = p /\ z.primFormat = "PCT"
  BY <1>2, <1>11, <1>13, GxPrimVertexPtrFacts
<1> HIDE DEF z
<1>15. Ready(z, p, size, "new") /\ Ready(z, q, idx, "new") /\ z.pool[q].gl # 0
  <2>1. SamePool(z, u, p) /\ SamePool(z, u, q)
    BY <1>2, <1>14 DEF PoolsKept
  <2>2. Ready(z, p, size, "new")
    BY <1>2, <1>12, <2>1, HoldsKept
  <2>3. Ready(z, q, idx, "new")
    BY <1>2, <1>11, <2>1, HoldsKept
  <2> QED BY <2>2, <2>3 DEF Ready, Holds
<1>16. /\ BuffersSound(e, {}) /\ FormatsSound(e) /\ IndexReady(e) /\ PoolsKept(e, z)
       /\ e.primIndexBuf = q /\ e.primVertexBuf = z.primVertexBuf /\ e.primFormat = z.primFormat
  BY <1>2, <1>14, <1>15, PrimIndexPtrFacts
<1> HIDE DEF e, size
<1>17. Ready(e, p, size, "new") /\ Ready(e, q, idx, "new")
  BY <1>2, <1>15, <1>16, HoldsKept DEF PoolsKept
<1>18. Drawable(e, size, idx, "new", "new")
  BY <1>2, <1>14, <1>16, <1>17, DrawNames DEF Drawable
<1>19. Drawn(GxDraw(e, TRUE, size, idx, "new", "new"), e)
  BY <1>2, <1>18, GxDrawFacts
<1> QED BY <1>3, <1>19 DEF Drawn

\* Text: the vertices are locked, between two batches.
TextLocked(h) ==
  /\ BuffersSound(h, {"Stream_vtx"}) /\ DrawSound(h) /\ IndexSettled(h)
  /\ h.buf["Stream_vtx"].size = 2 * TextCapacity

\* Each batch leaves the vertices locked for the next one.
LEMMA UnlockVertexPtrAndRenderFacts ==
  ASSUME NEW h, TextLocked(h), NEW count \in 0..TextCapacity
  PROVE  TextLocked(UnlockVertexPtrAndRender(h, count))
<1> DEFINE p == "Stream_vtx"
           q == "font_idx"
           L == {p}
           size == 2 * count
           w == Write(h, p, size, "new")
           u == GxBufUnlock(w, p)
           i == FillOnce(u, q)
           z == GxPrimVertexPtr(i, p, "PCT")
           y == PrimIndexPtr(z, q)
           d == GxDraw(y, TRUE, size, count, "new", "quads")
           e == BufLock(d, p)
<1>1. /\ p \in Pools \ IndexPools /\ p \in StreamPools /\ p \in Pools /\ q \in IndexPools /\ q \in Pools \ StreamPools
      /\ q \in Pools /\ q \in Pools \ {p} /\ p \in Pools \ {q} /\ p \in Pools \cap L /\ L \ {p} = {}
      /\ StaticContent(q) = "quads" /\ "new" \in Contents /\ TextCapacity \in Nat
  BY DrawNames, PoolNames, BufferConstants DEF StaticContent
<1>2. size \in Nat /\ size <= h.buf[p].size /\ count \in Nat /\ count <= TextCapacity
  BY <1>1 DEF TextLocked
<1>3. UnlockVertexPtrAndRender(h, count) = e
  BY <1>1, DrawNames DEF UnlockVertexPtrAndRender, FillOnce
<1>4. BuffersSound(h, L) /\ DrawSound(h)
  BY DEF TextLocked
<1> HIDE DEF size, L
<1>5. /\ BuffersSound(w, L) /\ Untouched(w, h) /\ OthersKept(w, h, p)
      /\ w.pool = h.pool /\ w.buf = h.buf /\ Holds(w, p, size, "new")
  BY <1>1, <1>2, <1>4, WriteFacts
<1> HIDE DEF w
<1>6. /\ BuffersSound(u, L \ {p}) /\ Untouched(u, w) /\ OthersKept(u, w, p)
      /\ u.pool = w.pool /\ u.buf[p].changed = w.buf[p].changed /\ u.buf[p].size = w.buf[p].size
      /\ Ready(u, p, size, "new")
  BY <1>1, <1>2, <1>5, GxBufUnlockFacts
<1> HIDE DEF u
<1>7. DrawSound(u)
  <2>1. DrawSound(w)
    <3>1. Noticed(w, h, p)
      BY <1>5 DEF Noticed
    <3> QED BY <1>1, <1>4, <3>1, DrawSoundKept
  <2>2. Noticed(u, w, p)
    BY <1>6 DEF Noticed
  <2> QED BY <1>1, <2>1, <2>2, DrawSoundKept
<1>8. /\ BuffersSound(i, {}) /\ DrawSound(i) /\ Untouched(i, u) /\ OthersKept(i, u, q)
      /\ Ready(i, q, TextCapacity, StaticContent(q)) /\ i.pool[q].gl # 0
  <2>1. BuffersSound(u, {})
    BY <1>1, <1>6
  <2> QED BY <1>1, <1>7, <2>1, FillOnceFacts
<1> HIDE DEF i
<1>9. /\ Ready(i, p, size, "new") /\ Ready(i, q, count, "quads")
      /\ i.pool[p].size = u.pool[p].size /\ i.buf[p].size = u.buf[p].size
  <2>1. /\ Ready(i, p, size, "new") /\ i.pool[p].size = u.pool[p].size /\ i.buf[p].size = u.buf[p].size
    BY <1>1, <1>6, <1>8, ReadyKept
  <2>2. i.buf[q].index \in Nat
    BY <1>1, <1>8, ShapeFacts DEF BuffersSound
  <2>3. Part(i.buf[q].index, count) \subseteq Part(i.buf[q].index, TextCapacity)
    BY <1>1, <1>2, <2>2 DEF Part
  <2>4. i.buf[q].size \in Nat /\ TextCapacity <= i.buf[q].size
    BY <1>1, <1>8, ShapeFacts DEF BuffersSound, Ready, Holds
  <2>5. count <= i.buf[q].size
    BY <1>1, <1>2, <2>4
  <2>6. Holds(i, q, count, "quads")
    BY <1>1, <1>8, <2>3, <2>5 DEF Ready, Holds
  <2>7. Ready(i, q, count, "quads")
    BY <1>1, <1>8, <2>6 DEF Ready
  <2> QED BY <2>1, <2>7
<1>10. BuffersSound(z, {}) /\ DrawSound(z) /\ PoolsKept(z, i) /\ z.primVertexBuf = p /\ z.primFormat = "PCT"
  BY <1>1, <1>8, GxPrimVertexPtrFacts
<1> HIDE DEF z
<1>11. Ready(z, p, size, "new") /\ Ready(z, q, count, "quads") /\ z.pool[q].gl # 0
  <2>1. SamePool(z, i, p) /\ SamePool(z, i, q)
    BY <1>1, <1>10 DEF PoolsKept
  <2>2. Ready(z, p, size, "new")
    BY <1>1, <1>9, <2>1, HoldsKept
  <2>3. Ready(z, q, count, "quads")
    BY <1>1, <1>9, <2>1, HoldsKept
  <2> QED BY <2>2, <2>3 DEF Ready, Holds
<1>12. /\ BuffersSound(y, {}) /\ FormatsSound(y) /\ IndexReady(y) /\ PoolsKept(y, z)
       /\ y.primIndexBuf = q /\ y.primVertexBuf = z.primVertexBuf /\ y.primFormat = z.primFormat
  BY <1>1, <1>10, <1>11, PrimIndexPtrFacts
<1> HIDE DEF y
<1>13. Ready(y, p, size, "new") /\ Ready(y, q, count, "quads")
  BY <1>1, <1>11, <1>12, HoldsKept DEF PoolsKept
<1>14. Drawable(y, size, count, "new", "quads")
  BY <1>1, <1>10, <1>12, <1>13, DrawNames DEF Drawable
<1>15. BuffersInv(d) /\ d.pool = y.pool /\ d.buf = y.buf
  <2>1. Drawn(GxDraw(y, TRUE, size, count, "new", "quads"), y)
    BY <1>2, <1>14, GxDrawFacts
  <2> QED BY <2>1 DEF Drawn
<1> HIDE DEF d
<1>16. d.buf[p].size = 2 * TextCapacity /\ d.buf[p].size <= d.pool[p].size
  <2>1. h.buf[p].size <= h.pool[p].size
    <3>1. /\ h.buf[p].index \in Nat /\ h.buf[p].size \in Nat /\ h.pool[p].size \in Nat
          /\ h.buf[p].index + h.buf[p].size <= h.pool[p].size
      BY <1>1, <1>4, LockedFacts
    <3> QED BY <3>1
  <2>2. y.buf[p].size = z.buf[p].size /\ y.pool = z.pool /\ z.buf[p].size = i.buf[p].size /\ z.pool = i.pool
    BY <1>1, <1>10, <1>12 DEF PoolsKept, SamePool, SameBuf
  <2>3. h.buf[p].size = 2 * TextCapacity
    BY DEF TextLocked
  <2>4. d.buf[p].size = h.buf[p].size /\ d.pool[p].size = h.pool[p].size
    BY <1>5, <1>6, <1>9, <1>15, <2>2
  <2> QED BY <2>1, <2>3, <2>4
<1>17. BuffersSound(d, {}) /\ DrawSound(d) /\ IndexSettled(d)
  BY <1>15, StartFacts
<1>18. /\ BuffersSound(e, L) /\ Untouched(e, d) /\ OthersKept(e, d, p)
       /\ e.buf[p].changed = TRUE /\ e.buf[p].size = d.buf[p].size
  <2>1. PICK M : M = {}
    OBVIOUS
  <2>2. BuffersSound(d, M) /\ p \notin M /\ M \cup {p} = L
    BY <1>17, <2>1 DEF L
  <2>3. /\ BuffersSound(e, M \cup {p}) /\ Untouched(e, d) /\ OthersKept(e, d, p)
        /\ e.buf[p].changed = TRUE /\ e.buf[p].size = d.buf[p].size
        /\ p \notin StreamPools => e.buf[p].filled = d.buf[p].filled
    BY <1>1, <1>16, <2>2, BufLockFacts
  <2> QED BY <2>2, <2>3
<1> HIDE DEF e
<1>19. DrawSound(e) /\ IndexSettled(e)
  <2>1. Noticed(e, d, p)
    BY <1>18 DEF Noticed
  <2> QED BY <1>1, <1>17, <1>18, <2>1, DrawSoundKept, SettledKept
<1>20. TextLocked(e)
  BY <1>16, <1>18, <1>19 DEF TextLocked, L
<1> QED BY <1>3, <1>20

\* A batch is a chain of calls: f[i] is what there is after i of them.
Rendering(f, w, counts) ==
  /\ f[0] = w
  /\ \A i \in 1..Len(counts) : f[i] = UnlockVertexPtrAndRender(f[i - 1], counts[i])

\* RenderBatch is such a chain.
LEMMA RenderBatchUnrolls ==
  ASSUME NEW counts, Len(counts) \in Nat, RenderBatch(counts)
  PROVE  \E f : /\ Rendering(f, LockStream(Begin, "Stream_vtx", 2, TextCapacity), counts)
                /\ g' = BufUnlock(f[Len(counts)], "Stream_vtx")
<1> DEFINE w == LockStream(Begin, "Stream_vtx", 2, TextCapacity)
           N == Len(counts)
           Step(c, i) == IF i = 0 THEN w ELSE UnlockVertexPtrAndRender(c[i - 1], counts[i])
           Upto(n) == \E c : c = [i \in 0..n |-> Step(c, i)]
           f == CHOOSE c : c = [i \in 0..N |-> Step(c, i)]
<1>1. g' = BufUnlock(f[N], "Stream_vtx")
  BY DrawNames DEF RenderBatch, LockStream
<1> HIDE DEF w
<1>2. Upto(0)
  <2>1. [i \in 0..0 |-> w] = [i \in 0..0 |-> Step([j \in 0..0 |-> w], i)]
    OBVIOUS
  <2> QED BY <2>1
<1>3. ASSUME NEW n \in Nat, Upto(n)
      PROVE  Upto(n + 1)
  <2>1. PICK c : c = [i \in 0..n |-> Step(c, i)]
    BY <1>3
  <2>2. \A i \in 0..n : c[i] = Step(c, i)
    <3> HIDE DEF Step
    <3> QED BY <2>1
  <2> DEFINE h == [i \in 0..(n + 1) |-> IF i = n + 1 THEN Step(c, i) ELSE c[i]]
  <2>3. \A i \in 0..(n + 1) : h[i] = Step(h, i)
    <3> TAKE i \in 0..(n + 1)
    <3>1. CASE i = n + 1
      <4>1. h[i] = Step(c, i) /\ i - 1 \in 0..n /\ h[i - 1] = c[i - 1] /\ i # 0
        BY <3>1
      <4> HIDE DEF h
      <4> QED BY <4>1
    <3>2. CASE i # n + 1
      <4>1. i \in 0..n /\ h[i] = c[i] /\ c[i] = Step(c, i)
        BY <2>2, <3>2
      <4>2. i # 0 => i - 1 \in 0..n /\ h[i - 1] = c[i - 1]
        BY <3>2
      <4> HIDE DEF h
      <4> QED BY <4>1, <4>2
    <3> QED BY <3>1, <3>2
  <2>4. h = [i \in 0..(n + 1) |-> Step(h, i)]
    <3>1. h = [i \in 0..(n + 1) |-> h[i]]
      OBVIOUS
    <3> HIDE DEF h, Step
    <3> QED BY <2>3, <3>1
  <2> HIDE DEF h
  <2> QED BY <2>4
<1>4. Upto(N)
  <2> DEFINE A == {n \in Nat : Upto(n)}
  <2> HIDE DEF Upto
  <2>1. 0 \in A
    BY <1>2
  <2>2. ASSUME NEW i \in 1..N, i - 1 \in A
        PROVE  i \in A
    <3>1. i - 1 \in Nat /\ (i - 1) + 1 = i
      OBVIOUS
    <3>2. Upto((i - 1) + 1)
      BY <1>3, <2>2, <3>1
    <3> QED BY <3>1, <3>2
  <2> HIDE DEF A
  <2>3. 0..N \subseteq A
    <3> HIDE DEF N
    <3>1. N \in Nat
      BY DEF N
    <3> QED BY <2>1, <2>2, <3>1, IntervalInduction
  <2> QED BY <2>3 DEF A
<1>5. f = [i \in 0..N |-> Step(f, i)]
  BY <1>4
<1> HIDE DEF f
<1>6. \A i \in 0..N : f[i] = Step(f, i)
  <2> HIDE DEF Step, N
  <2> QED BY <1>5
<1>7. Rendering(f, w, counts)
  BY <1>6 DEF Rendering
<1> QED BY <1>1, <1>7 DEF w

\* Text, of any number of batches of any sizes.
LEMMA RenderBatchKeeps ==
  ASSUME BuffersInv(g), NEW counts \in Seq(0..TextCapacity), RenderBatch(counts)
  PROVE  BuffersInv(g')
<1> DEFINE p == "Stream_vtx"
           N == Len(counts)
           b == Begin
           w == LockStream(b, p, 2, TextCapacity)
<1>1. BuffersSound(b, {}) /\ DrawSound(b) /\ IndexSettled(b)
  BY BeginFacts, StartFacts
<1>2. /\ p \in Pools \ IndexPools /\ p \in StreamPools /\ p \in Pools /\ p \in Pools \cap {p} /\ {p} \ {p} = {}
      /\ TextCapacity \in Nat /\ 2 * TextCapacity <= MaxSize /\ N \in Nat
      /\ {} \cup {p} = {p} /\ 2 \in Nat \ {0} /\ \A i \in 1..N : counts[i] \in 0..TextCapacity
  BY DrawNames, PoolNames, BufferConstants, LenProperties, ElementOfSeq
<1>3. PICK f : Rendering(f, w, counts) /\ g' = BufUnlock(f[N], p)
  BY <1>2, RenderBatchUnrolls
<1> HIDE DEF b
<1>4. TextLocked(w)
  <2>1. PICK L : L = {}
    OBVIOUS
  <2>2. /\ BuffersSound(b, L) /\ p \in StreamPools /\ p \notin L
        /\ 2 \in Nat \ {0} /\ TextCapacity \in Nat /\ 2 * TextCapacity <= MaxSize
    BY <1>1, <1>2, <2>1
  <2>3. /\ BuffersSound(w, L \cup {p}) /\ Untouched(w, b) /\ OthersKept(w, b, p) /\ Noticed(w, b, p)
        /\ w.buf[p].size = 2 * TextCapacity
    <3> HIDE DEF b, p
    <3>1. PICK count \in Nat : count = TextCapacity
      BY <2>2
    <3>2. 2 * count <= MaxSize /\ w = LockStream(b, p, 2, count)
      BY <2>2, <3>1
    <3> HIDE DEF w
    <3>3. BuffersSound(b, L) /\ p \in StreamPools /\ p \notin L /\ 2 \in Nat \ {0}
      BY <2>2
    <3>4. /\ BuffersSound(w, L \cup {p}) /\ Untouched(w, b) /\ OthersKept(w, b, p) /\ Noticed(w, b, p)
          /\ w.buf[p].size = 2 * count
      BY <3>2, <3>3, LockStreamFacts
    <3> QED BY <3>1, <3>4
  <2> HIDE DEF w
  <2>4. DrawSound(w) /\ IndexSettled(w)
    BY <1>1, <1>2, <2>3, DrawSoundKept, SettledKept
  <2> QED BY <1>2, <2>1, <2>3, <2>4 DEF TextLocked
<1> HIDE DEF w
<1>5. TextLocked(f[N])
  <2> DEFINE A == {i \in 0..N : TextLocked(f[i])}
  <2> HIDE DEF N
  <2>1. 0 \in A
    BY <1>2, <1>3, <1>4 DEF Rendering
  <2>2. ASSUME NEW i \in 1..N, i - 1 \in A PROVE i \in A
    <3>1. TextLocked(f[i - 1]) /\ counts[i] \in 0..TextCapacity /\ i \in 0..N
      BY <1>2, <2>2
    <3>2. f[i] = UnlockVertexPtrAndRender(f[i - 1], counts[i])
      BY <1>3 DEF Rendering, N
    <3>3. TextLocked(f[i])
      BY <3>1, <3>2, UnlockVertexPtrAndRenderFacts
    <3> QED BY <3>1, <3>3
  <2>3. 0..N \subseteq A
    <3> HIDE DEF A
    <3> QED BY <1>2, <2>1, <2>2, IntervalInduction
  <2> QED BY <1>2, <2>3
<1> DEFINE h == f[N]
           e == BufUnlock(h, p)
<1> HIDE DEF h, N
<1>6. BuffersSound(h, {p}) /\ DrawSound(h) /\ IndexSettled(h) /\ g' = e
  BY <1>3, <1>5 DEF TextLocked, h
<1> HIDE DEF e
<1>7. BuffersSound(e, {}) /\ Untouched(e, h) /\ OthersKept(e, h, p) /\ e.pool = h.pool /\ e.buf = h.buf
  <2>1. PICK L : L = {p}
    OBVIOUS
  <2>2. BuffersSound(h, L) /\ p \in Pools \cap L /\ L \ {p} = {}
    BY <1>2, <1>6, <2>1
  <2>3. /\ BuffersSound(e, L \ {p}) /\ Untouched(e, h) /\ OthersKept(e, h, p)
        /\ e.pool = h.pool /\ e.buf = h.buf /\ ObjectOf(e, p).content = ObjectOf(h, p).content
    BY <2>2, BufUnlockFacts DEF e
  <2> QED BY <2>2, <2>3
<1>8. DrawSound(e) /\ IndexSettled(e)
  <2>1. Noticed(e, h, p)
    BY <1>7 DEF Noticed
  <2> QED BY <1>2, <1>6, <1>7, <2>1, DrawSoundKept, SettledKept
<1> QED BY <1>6, <1>7, <1>8 DEF BuffersInv, DrawSound

\* The invariant holds at the start.
LEMMA StartSound == BuffersInv(Start)
<1> DEFINE e == Start
           pool == [p \in Pools |-> [size |-> CASE p = "Stream_vtx" -> VertexPoolSize
                                         [] p = "Stream_idx" -> IndexPoolSize
                                         [] OTHER -> TextCapacity,
                              next |-> 0, gl |-> 0]]
           buf == [p \in Pools |-> [item |-> 1, size |-> IF p \in StreamPools THEN 0 ELSE TextCapacity,
                             index |-> 0, filled |-> FALSE, changed |-> FALSE]]
<1>1. /\ DOMAIN e = BufferFields /\ e.pool = pool /\ e.buf = buf /\ e.object = [n \in Objects |-> NoObject]
      /\ e.next = 1 /\ e.failed = {} /\ e.primIndexDirty = FALSE /\ e.primIndexBuf = "none" /\ e.indexBuffer = 0
      /\ e.glFormats = [f \in DOMAIN Slots |-> Unbuilt] /\ e.enabled = [shader |-> {}, fixed |-> {}]
  BY DEF Start, BufferFields
<1>2. /\ VertexPoolSize \in Nat /\ IndexPoolSize \in Nat /\ TextCapacity \in Nat /\ TextCapacity <= MaxSize
      /\ VertexPoolSize <= MaxSize /\ IndexPoolSize <= MaxSize /\ MaxSize \in Nat
  BY BufferConstants
<1> HIDE DEF e, pool, buf
<1>3. ASSUME NEW p \in Pools
      PROVE  /\ pool[p] \in PoolSet /\ pool[p].gl = 0 /\ pool[p].size <= MaxSize
             /\ buf[p] \in BufSet /\ buf[p].item = 1 /\ buf[p].index = 0 /\ buf[p].filled = FALSE
             /\ p \notin StreamPools => buf[p].size = TextCapacity /\ pool[p].size = TextCapacity
  <2> DEFINE size == CASE p = "Stream_vtx" -> VertexPoolSize
                       [] p = "Stream_idx" -> IndexPoolSize
                       [] OTHER -> TextCapacity
             length == IF p \in StreamPools THEN 0 ELSE TextCapacity
  <2>1. size \in Nat /\ size <= MaxSize /\ length \in Nat /\ (p \notin StreamPools => size = TextCapacity /\ length = TextCapacity)
    BY <1>2 DEF StreamPools
  <2>2. pool[p] = [size |-> size, next |-> 0, gl |-> 0]
    BY DEF pool
  <2>3. buf[p] = [item |-> 1, size |-> length, index |-> 0, filled |-> FALSE, changed |-> FALSE]
    BY DEF buf
  <2> HIDE DEF size, length
  <2> QED BY <2>1, <2>2, <2>3 DEF PoolSet, BufSet
<1>4. pool \in [Pools -> PoolSet] /\ buf \in [Pools -> BufSet]
  <2>1. DOMAIN pool = Pools /\ pool = [p \in Pools |-> pool[p]] /\ buf = [p \in Pools |-> buf[p]]
    BY DEF pool, buf
  <2> QED BY <1>3, <2>1
<1>5. Shape(e)
  <2>1. NoObject \in ObjectSet
    BY <1>2, NewObjectFacts
  <2>2. e.object \in [Objects -> ObjectSet]
    BY <1>1, <2>1
  <2> QED BY <1>1, <1>4, <2>2 DEF Shape
<1>6. OwnObjects(e)
  BY <1>1, <1>3 DEF OwnObjects
<1>7. NamesSuffice(e)
  <2>1. \A p \in Pools : HasObject(e, p) = 0
    BY <1>1, <1>3 DEF HasObject
  <2>2. pool["Stream_vtx"].size = VertexPoolSize /\ pool["Stream_idx"].size = IndexPoolSize
    BY PoolNames DEF pool
  <2>3. ObjectsUsed(e) = 0
    BY <1>1, <1>2, <2>1, <2>2, PoolNames DEF ObjectsUsed
  <2> QED BY <1>1, <1>2, <2>2, <2>3 DEF NamesSuffice
<1>8. ASSUME NEW p \in Pools PROVE PoolSound(e, p, p \in {})
  <2>1. (p \in {}) = FALSE
    OBVIOUS
  <2> e.buf[p].item = 1 /\ e.pool[p].gl = 0
    BY <1>1, <1>3
  <2>2. p \in StreamPools => StreamFits(e, p, FALSE)
    BY DEF StreamFits
  <2>3. p \notin StreamPools => StaticFits(e, p)
    BY <1>1, <1>3 DEF StaticFits
  <2>4. PoolSound(e, p, FALSE)
    BY <1>1, <1>3, <2>2, <2>3 DEF PoolSound
  <2> QED BY <2>1, <2>4
<1>9. FormatsSound(e)
  BY <1>1 DEF FormatsSound
<1>10. IndexSettled(e)
  BY <1>1 DEF IndexSettled, IndexTrue
<1> QED BY <1>1, <1>5, <1>6, <1>7, <1>8, <1>9, <1>10 DEF BuffersInv, BuffersSound, e

(* The buffers stay sound, for any sizes of pools, meshes and text that fit: *)
(* every draw reads what its own code has written, from a buffer that       *)
(* exists and is not mapped; no part of a stream is handed out again while  *)
(* OpenGL may read it; the arrays that are on are those of the format; and  *)
(* no assertion of GLBuffer fails, whatever was drawn before.               *)
THEOREM BuffersStaySound == BuffersSpec => []BuffersAreSound
<1> DEFINE I == BuffersInv(g)
           Batches == {<<1>>, <<1, TextCapacity \div SizeOf["PCT"]>>}
<1>1. BuffersInit => I
  BY StartSound DEF BuffersInit
<1>2. I /\ [BuffersNext]_bufferVars => I'
  <2> SUFFICES ASSUME BuffersInv(g), [BuffersNext]_bufferVars PROVE BuffersInv(g')
    OBVIOUS
  <2>1. ASSUME NEW pos \in MeshSizes, NEW idx \in MeshSizes, DrawMesh(pos, idx) PROVE BuffersInv(g')
    <3>1. pos \in Nat /\ idx \in Nat /\ 2 * pos <= MaxSize /\ idx <= MaxSize
      BY BufferConstants
    <3> QED BY <2>1, <3>1, DrawMeshKeeps
  <2>2. ASSUME NEW counts \in Batches, RenderBatch(counts) PROVE BuffersInv(g')
    <3>1. 1 \in 0..TextCapacity /\ TextCapacity \div SizeOf["PCT"] \in 0..TextCapacity
      BY BufferConstants, DrawNames
    <3>2. counts \in Seq(0..TextCapacity)
      <4> DEFINE n == TextCapacity \div SizeOf["PCT"]
                 S == 0..TextCapacity
      <4>1. 1 \in S /\ n \in S /\ counts \in {<<1>>, <<1, n>>}
        BY <3>1
      <4> HIDE DEF n, S
      <4>2. <<1>> \in Seq(S) /\ <<1, n>> \in Seq(S)
        BY <4>1
      <4> QED BY <4>1, <4>2 DEF S
    <3> QED BY <2>2, <3>2, RenderBatchKeeps
  <2>3. CASE DrawModel
    BY <2>3, DrawModelKeeps
  <2>4. ASSUME NEW idx \in MeshSizes, DrawLocked(1, idx) PROVE BuffersInv(g')
    <3>1. idx \in Nat \ {0} /\ idx <= MaxSize /\ 3 * 1 <= MaxSize /\ 1 \in Nat \ {0}
      BY BufferConstants
    <3> QED BY <2>4, <3>1, DrawLockedKeeps
  <2>5. CASE ICursorDraw
    BY <2>5, ICursorDrawKeeps
  <2>6. CASE UNCHANGED bufferVars
    BY <2>6 DEF bufferVars
  <2> QED BY <2>1, <2>2, <2>3, <2>4, <2>5, <2>6 DEF BuffersNext
<1>3. I => BuffersAreSound
  BY DEF BuffersInv, BuffersSound, BuffersAreSound
<1> HIDE DEF I
<1> QED BY <1>1, <1>2, <1>3, PTL DEF BuffersSpec
=============================================================================
