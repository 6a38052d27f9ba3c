---------------------------- MODULE EventProofs ----------------------------
(***************************************************************************)
(* The ring buffer is a bounded queue that drops its oldest event, for a   *)
(* ring of any size; what the program believes is held is held, for any    *)
(* keys, buttons and ring; and the events of the interface reach who asked *)
(* for them, and scripts find and leave the globals that are theirs, for   *)
(* any listeners and however deep scripts and signals are within each      *)
(* other.                                                                  *)
(***************************************************************************)
EXTENDS OsQueue, EvtInput, ScriptEvents, SequenceFacts

USE OsQueueAssumption

\* After stays inside the ring.
LEMMA AfterInSlots ==
  ASSUME NEW i \in Slots PROVE After(i) \in Slots
BY DEF After, Slots

\* The slots and the count of the waiting events are what their names say, in
\* a ring whose indices are in range.
LEMMA SlotsOfContents ==
  ASSUME head \in Slots, tail \in Slots
  PROVE  /\ Count \in 0..(Size - 1)
         /\ \A i \in 1..Count : SlotOf(i) \in Slots /\ SlotOf(i) # head
         /\ Count = 0 <=> head = tail
BY DEF Count, SlotOf, Slots

\* The indices stay in range, and the slots hold events.
THEOREM RingTypeCorrect == Spec => []TypeOK
<1>1. Init => TypeOK
  BY DEF Init, TypeOK, Slots, Entry
<1>2. TypeOK /\ [Next]_ringVars => TypeOK'
  <2> SUFFICES ASSUME TypeOK, [Next]_ringVars PROVE TypeOK'
    OBVIOUS
  <2>1. ASSUME NEW e \in Entry, Put(e) PROVE TypeOK'
    BY <2>1, AfterInSlots DEF TypeOK, Put
  <2>2. CASE Get
    BY <2>2, AfterInSlots DEF TypeOK, Get
  <2>3. ASSUME NEW t \in Times, SetParam(t) PROVE TypeOK'
    <3>1. \A p \in Slots : [queue[p] EXCEPT !.time = t] \in Entry
      BY DEF TypeOK, Entry
    <3>2. queue' \in [Slots -> Entry]
      BY <2>3, <3>1 DEF TypeOK, SetParam
    <3>3. QED
      BY <2>3, <3>2 DEF TypeOK, SetParam
  <2>4. CASE UNCHANGED ringVars
    BY <2>4 DEF TypeOK, ringVars
  <2>5. QED
    BY <2>1, <2>2, <2>3, <2>4 DEF Next
<1>3. QED
  BY <1>1, <1>2, PTL DEF Spec

\* The waiting events are a sequence of entries.
ContentsAreEntries ==
  /\ Contents \in Seq(Entry)
  /\ Len(Contents) = Count
  /\ \A i \in 1..Count : Contents[i] = queue[SlotOf(i)]

LEMMA ContentsType == TypeOK => ContentsAreEntries
<1> SUFFICES ASSUME TypeOK PROVE ContentsAreEntries
  OBVIOUS
<1>1. Count \in Nat /\ \A i \in 1..Count : SlotOf(i) \in Slots
  BY SlotsOfContents DEF TypeOK
<1>2. \A i \in 1..Count : queue[SlotOf(i)] \in Entry
  BY <1>1 DEF TypeOK
<1>3. Contents \in [1..Count -> Entry]
  BY <1>2 DEF Contents
<1>4. QED
  BY <1>1, <1>3 DEF Contents, ContentsAreEntries

\* The same after a step.
LEMMA ContentsTypeNext == TypeOK' => ContentsAreEntries'
BY ContentsType, PTL

\* A put appends the event, after the oldest is dropped when Size - 1 wait.
LEMMA PutAppends ==
  ASSUME TypeOK, TypeOK', NEW e \in Entry, Put(e)
  PROVE  Fifo!Put(e)
<1> DEFINE old == IF Len(Contents) = Size - 1 THEN Tail(Contents) ELSE Contents
<1>1. /\ head \in Slots /\ tail \in Slots /\ head' = After(head)
      /\ tail' = IF After(head) = tail THEN After(tail) ELSE tail
      /\ queue' = [queue EXCEPT ![head] = e] /\ queue \in [Slots -> Entry]
      /\ taken' = taken
  BY DEF TypeOK, Put
<1>2. Count = Size - 1 <=> After(head) = tail
  BY <1>1 DEF Count, After, Slots
<1>3. Contents \in Seq(Entry) /\ Len(Contents) = Count /\ Count \in 0..(Size - 1)
      /\ \A i \in 1..Count : Contents[i] = queue[SlotOf(i)]
  BY ContentsType, SlotsOfContents, <1>1 DEF ContentsAreEntries
<1>4. /\ Contents' \in Seq(Entry) /\ Len(Contents') = Count'
      /\ \A i \in 1..Count' : Contents'[i] = queue'[SlotOf(i)']
  BY ContentsTypeNext DEF ContentsAreEntries
<1>5. Contents' = Append(old, e)
  <2>1. CASE Count = Size - 1
    <3>1. /\ Count' = Count /\ Count > 0
          /\ \A i \in 1..(Count - 1) : SlotOf(i)' = SlotOf(i + 1)
          /\ SlotOf(Count)' = head
          /\ \A i \in 1..Count : SlotOf(i) \in Slots /\ SlotOf(i) # head
      BY <1>1, <1>2, <2>1 DEF Count, SlotOf, After, Slots
    <3>2. old = Tail(Contents) /\ old \in Seq(Entry) /\ Len(old) = Count - 1
          /\ \A i \in 1..(Count - 1) : old[i] = Contents[i + 1]
      BY <1>3, <2>1, <3>1
    <3>3. \A i \in 1..(Count - 1) : Contents'[i] = old[i]
      BY <1>1, <1>3, <1>4, <3>1, <3>2
    <3>4. Contents'[Count] = e
      BY <1>1, <1>4, <3>1
    <3>5. /\ Append(old, e) \in Seq(Entry) /\ Len(Append(old, e)) = Count
          /\ \A i \in 1..(Count - 1) : Append(old, e)[i] = old[i]
          /\ Append(old, e)[Count] = e
      BY <1>3, <3>1, <3>2
    <3>6. \A i \in 1..Count : Contents'[i] = Append(old, e)[i]
      BY <1>3, <3>3, <3>4, <3>5
    <3>7. QED
      BY <1>4, <3>1, <3>5, <3>6
  <2>2. CASE Count # Size - 1
    <3>0. tail' = tail
      BY <1>1, <1>2, <2>2
    <3>1. /\ Count' = Count + 1
          /\ \A i \in 1..(Count + 1) : SlotOf(i)' = SlotOf(i)
          /\ SlotOf(Count + 1) = head
          /\ \A i \in 1..Count : SlotOf(i) \in Slots /\ SlotOf(i) # head
      <4>1. Count' = Count + 1
        BY <1>1, <1>2, <2>2, <3>0 DEF Count, After, Slots
      <4>2. \A i \in 1..(Count + 1) : SlotOf(i)' = SlotOf(i)
        BY <3>0 DEF SlotOf
      <4>3. SlotOf(Count + 1) = head
        BY <1>1 DEF Count, SlotOf, Slots
      <4>4. QED
        BY <1>1, <4>1, <4>2, <4>3, SlotsOfContents
    <3>2. old = Contents
      BY <1>3, <2>2
    <3>3. \A i \in 1..Count : Contents'[i] = Contents[i]
      BY <1>1, <1>3, <1>4, <3>1
    <3>4. Contents'[Count + 1] = e
      BY <1>1, <1>3, <1>4, <3>1
    <3>5. /\ Append(old, e) \in Seq(Entry) /\ Len(Append(old, e)) = Count + 1
          /\ \A i \in 1..Count : Append(old, e)[i] = Contents[i]
          /\ Append(old, e)[Count + 1] = e
      BY <1>3, <3>2
    <3>6. \A i \in 1..(Count + 1) : Contents'[i] = Append(old, e)[i]
      BY <1>3, <3>3, <3>4, <3>5
    <3>7. QED
      BY <1>4, <3>1, <3>5, <3>6
  <2>3. QED
    BY <2>1, <2>2
<1>6. QED
  BY <1>1, <1>5 DEF Fifo!Put

\* A get takes the oldest event.
LEMMA GetTakesOldest ==
  ASSUME TypeOK, TypeOK', Get
  PROVE  Fifo!Get
<1>1. /\ head \in Slots /\ tail \in Slots /\ head # tail
      /\ head' = head /\ tail' = After(tail)
      /\ queue' = queue /\ taken' = queue[tail]
  BY DEF TypeOK, Get
<1>2. Contents \in Seq(Entry) /\ Len(Contents) = Count /\ Count \in 1..(Size - 1)
      /\ \A i \in 1..Count : Contents[i] = queue[SlotOf(i)]
  BY ContentsType, SlotsOfContents, <1>1 DEF ContentsAreEntries
<1>3. /\ Contents' \in Seq(Entry) /\ Len(Contents') = Count'
      /\ \A i \in 1..Count' : Contents'[i] = queue'[SlotOf(i)']
  BY ContentsTypeNext DEF ContentsAreEntries
<1>4. /\ Count' = Count - 1
      /\ SlotOf(1) = tail
      /\ \A i \in 1..(Count - 1) : SlotOf(i)' = SlotOf(i + 1)
  BY <1>1 DEF Count, SlotOf, After, Slots
<1>5. /\ Tail(Contents) \in Seq(Entry) /\ Len(Tail(Contents)) = Count - 1
      /\ \A i \in 1..(Count - 1) : Tail(Contents)[i] = Contents[i + 1]
  BY <1>2
<1>6. \A i \in 1..(Count - 1) : Contents'[i] = Tail(Contents)[i]
  BY <1>1, <1>2, <1>3, <1>4, <1>5
<1>7. Contents' = Tail(Contents)
  BY <1>2, <1>3, <1>4, <1>5, <1>6
<1>8. Contents # <<>> /\ taken' = Head(Contents)
  BY <1>1, <1>2, <1>4
<1>9. QED
  BY <1>7, <1>8 DEF Fifo!Get

\* Stamping stamps the waiting events.
LEMMA SetParamStamps ==
  ASSUME TypeOK, TypeOK', NEW t \in Times, SetParam(t)
  PROVE  Fifo!SetTime(t)
<1>1. /\ head \in Slots /\ tail \in Slots /\ head' = head /\ tail' = tail /\ taken' = taken
      /\ queue' = [p \in Slots |-> IF Occupied(p) THEN [queue[p] EXCEPT !.time = t] ELSE queue[p]]
  BY DEF TypeOK, SetParam
<1>2. Count' = Count /\ \A i \in 1..Count : SlotOf(i)' = SlotOf(i)
  BY <1>1 DEF Count, SlotOf
<1>3. \A i \in 1..Count : SlotOf(i) \in Slots /\ Occupied(SlotOf(i))
  BY <1>1 DEF Count, SlotOf, Occupied, Slots
<1>4. Len(Contents) = Count /\ \A i \in 1..Count : Contents[i] = queue[SlotOf(i)]
  BY ContentsType DEF ContentsAreEntries
<1>5. \A i \in 1..Count : queue'[SlotOf(i)] = [queue[SlotOf(i)] EXCEPT !.time = t]
  BY <1>1, <1>3
<1>6. Contents' = [i \in 1..Count |-> [Contents[i] EXCEPT !.time = t]]
  BY <1>2, <1>4, <1>5 DEF Contents
<1>7. QED
  BY <1>1, <1>4, <1>6 DEF Fifo!SetTime

\* OsQueuePut, OsQueueGet and OsQueueSetParam do to the ring what the bounded
\* queue's operations do to a sequence: no event is lost or reordered, except
\* that the oldest gives way when OS_QUEUE_SIZE - 1 are waiting.
THEOREM RingIsFifo == Spec => ImplementsFifo
<1>1. Init => Fifo!Init
  <2> SUFFICES ASSUME Init PROVE Fifo!Init
    OBVIOUS
  <2>1. Count = 0 /\ taken \in Entry
    BY DEF Init, Count, Entry
  <2>2. Contents = <<>>
    BY <2>1 DEF Contents
  <2>3. QED
    BY <2>1, <2>2 DEF Fifo!Init, Fifo!Entry, Entry
<1>2. TypeOK /\ TypeOK' /\ [Next]_ringVars => [Fifo!Next]_(Fifo!vars)
  <2> SUFFICES ASSUME TypeOK, TypeOK', [Next]_ringVars PROVE [Fifo!Next]_(Fifo!vars)
    OBVIOUS
  <2>1. ASSUME NEW e \in Entry, Put(e) PROVE Fifo!Next
    BY <2>1, PutAppends DEF Fifo!Next, Fifo!Entry, Entry
  <2>2. CASE Get
    BY <2>2, GetTakesOldest DEF Fifo!Next
  <2>3. ASSUME NEW t \in Times, SetParam(t) PROVE Fifo!Next
    BY <2>3, SetParamStamps DEF Fifo!Next
  <2>4. CASE UNCHANGED ringVars
    BY <2>4 DEF ringVars, Fifo!vars, Contents, Count, SlotOf
  <2>5. QED
    BY <2>1, <2>2, <2>3, <2>4 DEF Next
<1>3. QED
  BY <1>1, <1>2, RingTypeCorrect, PTL DEF Spec, ImplementsFifo, Fifo!Spec

-----------------------------------------------------------------------------
(* The ring of EvtInput.                                                   *)

\* The i-th oldest of the events that wait.
Waiting == 1..Ring!Count
Event(i) == inQueue[Ring!SlotOf(i)].event

\* What the counts and the slots are, for a ring whose indices are in range.
LEMMA WaitingSlots ==
  ASSUME Ring!TypeOK
  PROVE  /\ Ring!Count \in 0..(RingSize - 1)
         /\ \A i \in Waiting : Ring!SlotOf(i) \in Ring!Slots /\ Ring!SlotOf(i) # inHead
         /\ \A i \in Waiting : Event(i) \in InputEvents
         /\ Ring!Count = 0 <=> inHead = inTail
<1>1. inHead \in Ring!Slots /\ inTail \in Ring!Slots
  BY DEF Ring!TypeOK
<1>2. /\ Ring!Count \in 0..(RingSize - 1)
      /\ \A i \in Waiting : Ring!SlotOf(i) \in Ring!Slots /\ Ring!SlotOf(i) # inHead
      /\ Ring!Count = 0 <=> inHead = inTail
  BY <1>1, InputAssumption DEF Ring!Count, Ring!SlotOf, Ring!Slots, Waiting
<1>3. \A i \in Waiting : Event(i) \in InputEvents
  BY <1>2 DEF Ring!TypeOK, Ring!Entry, Event
<1>4. QED
  BY <1>2, <1>3

\* A put keeps the events that wait and appends its own, unless the ring is full.
LEMMA PutKeepsWaiting ==
  ASSUME Ring!TypeOK, NEW event \in InputEvents, Ring!Put([event |-> event, time |-> 0])
  PROVE  /\ Ring!TypeOK'
         /\ Ring!Count # RingSize - 1 =>
              /\ Ring!Count' = Ring!Count + 1
              /\ \A i \in 1..(Ring!Count + 1) :
                   Event(i)' = IF i = Ring!Count + 1 THEN event ELSE Event(i)
<1> DEFINE entry == [event |-> event, time |-> 0]
<1>1. /\ inHead \in Ring!Slots /\ inTail \in Ring!Slots /\ inQueue \in [Ring!Slots -> Ring!Entry]
      /\ inHead' = Ring!After(inHead)
      /\ inTail' = IF Ring!After(inHead) = inTail THEN Ring!After(inTail) ELSE inTail
      /\ inQueue' = [inQueue EXCEPT ![inHead] = entry]
      /\ inTaken' = inTaken /\ inTaken \in Ring!Entry
  BY DEF Ring!TypeOK, Ring!Put
<1>2. Ring!After(inHead) \in Ring!Slots /\ Ring!After(inTail) \in Ring!Slots
  BY <1>1, InputAssumption DEF Ring!After, Ring!Slots
<1>3. entry \in Ring!Entry
  BY DEF Ring!Entry
<1>4. Ring!TypeOK'
  BY <1>1, <1>2, <1>3 DEF Ring!TypeOK
<1>5. SUFFICES ASSUME Ring!Count # RingSize - 1
      PROVE  /\ Ring!Count' = Ring!Count + 1
             /\ \A i \in 1..(Ring!Count + 1) :
                  Event(i)' = IF i = Ring!Count + 1 THEN event ELSE Event(i)
  BY <1>4
<1>6. inTail' = inTail
  BY <1>1, <1>5, InputAssumption DEF Ring!Count, Ring!After, Ring!Slots
<1>7. Ring!Count' = Ring!Count + 1
  BY <1>1, <1>5, <1>6, InputAssumption DEF Ring!Count, Ring!After, Ring!Slots
<1>8. \A i \in 1..(Ring!Count + 1) : Ring!SlotOf(i)' = Ring!SlotOf(i)
  BY <1>6 DEF Ring!SlotOf
<1>9. Ring!SlotOf(Ring!Count + 1) = inHead
  BY <1>1, InputAssumption DEF Ring!Count, Ring!SlotOf, Ring!Slots
<1>10. ASSUME NEW i \in 1..(Ring!Count + 1)
       PROVE  Event(i)' = IF i = Ring!Count + 1 THEN event ELSE Event(i)
  <2>1. Event(i)' = inQueue'[Ring!SlotOf(i)].event /\ Event(i) = inQueue[Ring!SlotOf(i)].event
    BY <1>8 DEF Event
  <2>2. CASE i = Ring!Count + 1
    BY <1>1, <1>9, <2>1, <2>2
  <2>3. CASE i # Ring!Count + 1
    <3>1. i \in Waiting
      BY <2>3, WaitingSlots DEF Waiting
    <3>2. Ring!SlotOf(i) \in Ring!Slots /\ Ring!SlotOf(i) # inHead
      BY <3>1, WaitingSlots
    <3>3. QED
      BY <1>1, <2>1, <2>3, <3>2
  <2>4. QED
    BY <2>2, <2>3
<1>11. QED
  BY <1>7, <1>10

\* A get takes the oldest event and keeps the others.
LEMMA GetTakesFirst ==
  ASSUME Ring!TypeOK, Ring!Get
  PROVE  /\ Ring!TypeOK'
         /\ Ring!Count \in Nat \ {0} /\ Ring!Count' = Ring!Count - 1
         /\ \A i \in 1..(Ring!Count - 1) : Event(i)' = Event(i + 1)
         /\ inTaken'.event = Event(1)
         /\ Event(1) \in InputEvents
<1>1. /\ inHead \in Ring!Slots /\ inTail \in Ring!Slots /\ inHead # inTail
      /\ inQueue \in [Ring!Slots -> Ring!Entry]
      /\ inHead' = inHead /\ inTail' = Ring!After(inTail)
      /\ inQueue' = inQueue /\ inTaken' = inQueue[inTail]
  BY DEF Ring!TypeOK, Ring!Get
<1>2. Ring!After(inTail) \in Ring!Slots
  BY <1>1, InputAssumption DEF Ring!After, Ring!Slots
<1>3. Ring!TypeOK'
  BY <1>1, <1>2 DEF Ring!TypeOK
<1>4. Ring!Count \in Nat \ {0} /\ 1 \in Waiting
  BY <1>1, WaitingSlots DEF Waiting
<1>5. /\ Ring!Count' = Ring!Count - 1
      /\ Ring!SlotOf(1) = inTail
      /\ \A i \in 1..(Ring!Count - 1) : Ring!SlotOf(i)' = Ring!SlotOf(i + 1)
  BY <1>1, InputAssumption DEF Ring!Count, Ring!SlotOf, Ring!After, Ring!Slots
<1>6. \A i \in 1..(Ring!Count - 1) : Event(i)' = Event(i + 1)
  BY <1>1, <1>5 DEF Event
<1>7. inTaken'.event = Event(1) /\ Event(1) \in InputEvents
  BY <1>1, <1>4, <1>5, WaitingSlots DEF Event
<1>8. QED
  BY <1>3, <1>4, <1>5, <1>6, <1>7

-----------------------------------------------------------------------------
(* What is held.                                                           *)

\* The events that report that x goes down and comes up.
Down(x) == [id |-> IF x \in Keys THEN "keyDown" ELSE "mouseDown", arg |-> x]
Up(x) == [id |-> IF x \in Keys THEN "keyUp" ELSE "mouseUp", arg |-> x]

\* After the i-th event one waits that clears x.
EndsAfter(x, i) == \E j \in Waiting : j > i /\ Event(j) \in {Up(x), FocusEvent}

\* Once the events that wait are processed, x is not taken to be held.
ComesUp(x) ==
  /\ x \in syncKeyDown \cup syncButtons => EndsAfter(x, 0)
  /\ \A i \in Waiting : Event(i) = Down(x) => EndsAfter(x, i)

\* That is so of everything that is not held, and of all while another window
\* has the focus: the event that told of its loss is still there, or was processed
\* and nothing has been reported since.
WillComeUp == ~dropped => \A x \in Keys \cup Buttons : (x \in pressed /\ focused) \/ ComesUp(x)

InputInv == InputTypeOK /\ RecordsAgree /\ seenDown = syncKeyDown /\ WillComeUp

\* The events of a key or button are input events, and are told apart.
LEMMA DownAndUp ==
  ASSUME NEW x \in Keys \cup Buttons
  PROVE  /\ Down(x) \in InputEvents /\ Up(x) \in InputEvents
         /\ Down(x) # FocusEvent /\ Up(x) # FocusEvent
         /\ \A y \in Keys \cup Buttons : Down(x) # Up(y) /\ (Down(x) = Down(y) => x = y)
BY DEF Down, Up, InputEvents, KeyEvents, MouseEvents, FocusEvent

\* Putting an event leaves the records alone.  If it is not x that goes down, x
\* still comes up; if it clears x, x does.
LEMMA PutComesUp ==
  ASSUME Ring!TypeOK, NEW event \in InputEvents, OsQueuePut(event), ~dropped',
         NEW x \in Keys \cup Buttons
  PROVE  /\ ComesUp(x) /\ event # Down(x) => ComesUp(x)'
         /\ event \in {Up(x), FocusEvent} => ComesUp(x)'
<1>1. /\ Ring!Count \in Nat /\ Ring!Count' = Ring!Count + 1
      /\ \A i \in 1..(Ring!Count + 1) :
           Event(i)' = IF i = Ring!Count + 1 THEN event ELSE Event(i)
      /\ syncKeyDown' = syncKeyDown /\ syncButtons' = syncButtons
  <2>1. /\ Ring!Put([event |-> event, time |-> 0]) /\ Ring!Count # RingSize - 1
        /\ syncKeyDown' = syncKeyDown /\ syncButtons' = syncButtons
    BY DEF OsQueuePut, syncVars
  <2>2. QED
    BY <2>1, PutKeepsWaiting, WaitingSlots
<1>2. Waiting' = 1..(Ring!Count + 1) /\ Waiting = 1..Ring!Count
  BY <1>1 DEF Waiting
<1>3. ASSUME ComesUp(x), event # Down(x) PROVE ComesUp(x)'
  <2>1. ASSUME NEW i \in 0..Ring!Count, EndsAfter(x, i) PROVE EndsAfter(x, i)'
    <3>1. PICK j \in Waiting : j > i /\ Event(j) \in {Up(x), FocusEvent}
      BY <2>1 DEF EndsAfter
    <3>2. j \in Waiting' /\ Event(j)' \in {Up(x), FocusEvent}
      BY <1>1, <1>2, <3>1
    <3>3. QED
      BY <3>1, <3>2 DEF EndsAfter, Up
  <2>2. x \in syncKeyDown' \cup syncButtons' => EndsAfter(x, 0)'
    BY <1>1, <1>3, <2>1 DEF ComesUp
  <2>3. ASSUME NEW i \in Waiting', Event(i)' = Down(x) PROVE EndsAfter(x, i)'
    <3>1. i # Ring!Count + 1
      BY <1>1, <1>3, <2>3
    <3>2. i \in Waiting
      BY <1>1, <1>2, <3>1
    <3>3. Event(i) = Down(x)
      BY <1>1, <1>2, <2>3, <3>1
    <3>4. QED
      BY <1>1, <1>2, <1>3, <2>1, <3>2, <3>3 DEF ComesUp
  <2>4. QED
    BY <2>2, <2>3 DEF ComesUp, Down
<1>4. ASSUME event \in {Up(x), FocusEvent} PROVE ComesUp(x)'
  <2>1. Ring!Count + 1 \in Waiting' /\ event # Down(x)
    BY <1>1, <1>2, <1>4, DownAndUp
  <2>2. \A i \in Waiting' : i # Ring!Count + 1 => i < Ring!Count + 1
    BY <1>1, <1>2
  <2>3. \A i \in 0..Ring!Count : EndsAfter(x, i)'
    BY <1>1, <1>4, <2>1 DEF EndsAfter, Up
  <2>4. \A i \in Waiting' : Event(i)' = Down(x) => EndsAfter(x, i)'
    BY <1>1, <1>2, <2>1, <2>3
  <2>5. QED
    BY <1>1, <2>3, <2>4 DEF ComesUp, Down
<1>5. QED
  BY <1>3, <1>4

\* Taking an event off the ring: x still comes up if it is recorded as held only
\* when it was before or this is what the event said, and not after it was cleared.
LEMMA GetComesUp ==
  ASSUME Ring!TypeOK, Ring!Get, NEW x \in Keys \cup Buttons, ComesUp(x),
         x \in syncKeyDown' \cup syncButtons' =>
           \/ Event(1) = Down(x)
           \/ x \in syncKeyDown \cup syncButtons /\ Event(1) \notin {Up(x), FocusEvent}
  PROVE  ComesUp(x)'
<1>1. /\ Ring!Count \in Nat \ {0} /\ Ring!Count' = Ring!Count - 1
      /\ \A i \in 1..(Ring!Count - 1) : Event(i)' = Event(i + 1)
  BY GetTakesFirst
<1>2. Waiting' = 1..(Ring!Count - 1) /\ Waiting = 1..Ring!Count
  BY <1>1 DEF Waiting
<1>3. ASSUME NEW i \in 1..Ring!Count, EndsAfter(x, i) PROVE EndsAfter(x, i - 1)'
  <2>1. PICK j \in Waiting : j > i /\ Event(j) \in {Up(x), FocusEvent}
    BY <1>3 DEF EndsAfter
  <2>2. j - 1 \in Waiting' /\ j - 1 > i - 1 /\ Event(j - 1)' = Event(j)
    BY <1>1, <1>2, <2>1
  <2>3. QED
    BY <2>1, <2>2 DEF EndsAfter, Up
<1>4. x \in syncKeyDown' \cup syncButtons' => EndsAfter(x, 0)'
  <2>1. SUFFICES ASSUME x \in syncKeyDown' \cup syncButtons' PROVE EndsAfter(x, 1)
    BY <1>1, <1>3
  <2>2. CASE Event(1) = Down(x)
    BY <1>1, <1>2, <2>2 DEF ComesUp
  <2>3. CASE x \in syncKeyDown \cup syncButtons /\ Event(1) \notin {Up(x), FocusEvent}
    <3>1. PICK j \in Waiting : j > 0 /\ Event(j) \in {Up(x), FocusEvent}
      BY <2>3 DEF ComesUp, EndsAfter
    <3>2. j > 1
      BY <1>2, <2>3, <3>1
    <3>3. QED
      BY <3>1, <3>2 DEF EndsAfter
  <2>4. QED
    BY <2>1, <2>2, <2>3
<1>5. ASSUME NEW i \in Waiting', Event(i)' = Down(x) PROVE EndsAfter(x, i)'
  <2>1. i + 1 \in Waiting /\ Event(i + 1) = Down(x)
    BY <1>1, <1>2, <1>5
  <2>2. EndsAfter(x, i + 1)
    BY <2>1 DEF ComesUp
  <2>3. i + 1 \in 1..Ring!Count /\ (i + 1) - 1 = i
    BY <1>1, <1>2, <2>1, <1>5
  <2>4. QED
    BY <1>3, <2>2, <2>3
<1>6. QED
  BY <1>4, <1>5 DEF ComesUp, Down

\* Nothing changes for x when neither the ring nor the records do.
LEMMA SameComesUp ==
  ASSUME UNCHANGED <<ring, syncVars>>, NEW x
  PROVE  ComesUp(x)' = ComesUp(x)
BY DEF ring, syncVars, ComesUp, EndsAfter, Waiting, Event, Ring!Count, Ring!SlotOf, Down, Up

-----------------------------------------------------------------------------
(* Types.                                                                  *)

\* Putting an event: the events of the window procedure are input events.
LEMMA PutTypes ==
  ASSUME InputTypeOK, NEW event \in InputEvents, OsQueuePut(event)
  PROVE  /\ Ring!TypeOK' /\ dropped' \in BOOLEAN /\ dispatched' \in Dispatches
         /\ seenDown' = seenDown /\ UNCHANGED <<inputVars, syncVars>>
<1>1. Ring!TypeOK'
  BY PutKeepsWaiting DEF InputTypeOK, OsQueuePut
<1>2. QED
  BY <1>1 DEF InputTypeOK, OsQueuePut, NoDispatch, Dispatches

LEMMA ReportTypes ==
  ASSUME InputTypeOK, NEW event \in InputEvents, Report(event)
  PROVE  /\ Ring!TypeOK' /\ dropped' \in BOOLEAN /\ dispatched' \in Dispatches
         /\ seenDown' = seenDown /\ UNCHANGED <<inputVars, syncVars>>
<1>1. CASE focused
  BY <1>1, PutTypes DEF Report
<1>2. CASE ~focused
  <2>1. UNCHANGED ring /\ dropped' = dropped /\ NoDispatch /\ UNCHANGED <<inputVars, syncVars>>
    BY <1>2 DEF Report
  <2>2. Ring!TypeOK'
    BY <2>1 DEF InputTypeOK, Ring!TypeOK, ring
  <2>3. QED
    BY <2>1, <2>2 DEF InputTypeOK, NoDispatch, Dispatches
<1>3. QED
  BY <1>1, <1>2

\* What is taken off the ring is an input event: the oldest.
LEMMA TakenTypes ==
  ASSUME InputTypeOK, NEW id, Taken(id)
  PROVE  /\ Ring!TypeOK' /\ Event(1) \in InputEvents /\ Event(1).id = id /\ Event(1).arg = Arg
         /\ id \in {"keyDown", "keyUp"} => Arg \in Keys
         /\ id \in {"mouseDown", "mouseUp"} => Arg \in Buttons
         /\ id = "focus" => Event(1) = FocusEvent
<1>1. Ring!TypeOK' /\ inTaken'.event = Event(1) /\ Event(1) \in InputEvents
  BY GetTakesFirst DEF InputTypeOK, Taken
<1>2. QED
  BY <1>1 DEF Taken, Arg, InputEvents, KeyEvents, MouseEvents, FocusEvent

LEMMA TypeStep == InputTypeOK /\ [InputNext]_evtVars => InputTypeOK'
<1> SUFFICES ASSUME InputTypeOK, [InputNext]_evtVars PROVE InputTypeOK'
  OBVIOUS
<1> USE DEF InputTypeOK
<1>1. CASE Press
  <2>1. PICK x \in Keys \cup Buttons : pressed' = pressed \cup {x} /\ Report(Down(x)) /\ focused' = focused
    BY <1>1 DEF Press, Down
  <2>2. QED
    BY <2>1, DownAndUp, ReportTypes DEF inputVars, syncVars
<1>2. CASE Repeat
  <2>1. PICK key \in Keys : OsQueuePut([id |-> "keyDown", arg |-> key]) /\ UNCHANGED <<pressed, focused>>
    BY <1>2 DEF Repeat
  <2>2. [id |-> "keyDown", arg |-> key] \in InputEvents
    BY DEF InputEvents, KeyEvents
  <2>3. QED
    BY <2>1, <2>2, PutTypes DEF inputVars, syncVars
<1>3. CASE Release
  <2>1. PICK x \in pressed : pressed' = pressed \ {x} /\ Report(Up(x)) /\ focused' = focused
    BY <1>3 DEF Release, Up
  <2>2. QED
    BY <2>1, DownAndUp, ReportTypes DEF inputVars, syncVars
<1>4. CASE Activate
  <2>1. FocusEvent \in InputEvents
    BY DEF InputEvents
  <2>2. QED
    BY <1>4, <2>1, PutTypes DEF Activate, inputVars, syncVars
<1>5. CASE PostKeyDown
  <2>1. Ring!TypeOK' /\ Arg \in Keys
    BY <1>5, TakenTypes DEF PostKeyDown
  <2>2. CASE Arg \in metaKeyState
    BY <1>5, <2>1, <2>2 DEF PostKeyDown, deviceVars, syncVars, NoDispatch, Dispatches
  <2>3. CASE Arg \notin metaKeyState
    <3>1. /\ UNCHANGED <<deviceVars, buttonState, syncButtons>>
          /\ metaKeyState' = metaKeyState \cup ({Arg} \cap MetaKeys)
          /\ syncKeyDown' = syncKeyDown \cup {Arg}
          /\ \/ Handle("KEYDOWN", Arg) \/ Handle("KEYDOWN_REPEATING", Arg)
      BY <1>5, <2>3 DEF PostKeyDown, DispatchKeyDown
    <3>2. dispatched' \in Dispatches /\ seenDown' \subseteq Keys
      BY <2>1, <3>1 DEF Handle, Dispatches
    <3>3. QED
      BY <2>1, <3>1, <3>2 DEF deviceVars
  <2>4. QED
    BY <2>2, <2>3
<1>6. CASE PostKeyUp
  <2>1. Ring!TypeOK' /\ Arg \in Keys
    BY <1>6, TakenTypes DEF PostKeyUp
  <2>2. CASE Arg \in MetaKeys \ metaKeyState
    BY <1>6, <2>1, <2>2 DEF PostKeyUp, deviceVars, syncVars, NoDispatch, Dispatches
  <2>3. CASE Arg \notin MetaKeys \ metaKeyState
    <3>1. /\ UNCHANGED <<deviceVars, buttonState, syncButtons>>
          /\ metaKeyState' = metaKeyState \ {Arg} /\ syncKeyDown' = syncKeyDown \ {Arg}
          /\ Handle("KEYUP", Arg)
      BY <1>6, <2>3 DEF PostKeyUp, DispatchKeyUp
    <3>2. dispatched' \in Dispatches /\ seenDown' \subseteq Keys
      BY <2>1, <3>1 DEF Handle, Dispatches
    <3>3. QED
      BY <2>1, <3>1, <3>2 DEF deviceVars
  <2>4. QED
    BY <2>2, <2>3
<1>7. CASE PostMouseDown
  <2>1. Ring!TypeOK' /\ Arg \in Buttons
    BY <1>7, TakenTypes DEF PostMouseDown
  <2>2. dispatched' \in Dispatches /\ seenDown' \subseteq Keys
    BY <1>7, <2>1 DEF PostMouseDown, Handle, Dispatches
  <2>3. QED
    BY <1>7, <2>1, <2>2 DEF PostMouseDown, deviceVars
<1>8. CASE PostMouseUp
  <2>1. Ring!TypeOK' /\ Arg \in Buttons
    BY <1>8, TakenTypes DEF PostMouseUp
  <2>2. dispatched' \in Dispatches /\ seenDown' \subseteq Keys
    BY <1>8, <2>1 DEF PostMouseUp, Handle, Dispatches
  <2>3. QED
    BY <1>8, <2>1, <2>2 DEF PostMouseUp, deviceVars
<1>9. CASE PostFocus
  <2>1. Ring!TypeOK'
    BY <1>9, TakenTypes DEF PostFocus
  <2>2. dispatched' \in Dispatches /\ seenDown' \subseteq Keys
    BY <1>9 DEF PostFocus, Handle, Dispatches
  <2>3. QED
    BY <1>9, <2>1, <2>2 DEF PostFocus, deviceVars
<1>10. CASE UNCHANGED evtVars
  BY <1>10 DEF evtVars, ring, deviceVars, inputVars, syncVars, handlerVars, Ring!TypeOK
<1>11. QED
  BY <1>1, <1>2, <1>3, <1>4, <1>5, <1>6, <1>7, <1>8, <1>9, <1>10 DEF InputNext, Platform, Process

-----------------------------------------------------------------------------
(* The records of what is held.                                            *)

\* A put leaves what is recorded alone.
LEMMA PutKeepsRecords ==
  ASSUME NEW event, OsQueuePut(event) \/ Report(event)
  PROVE  UNCHANGED <<inputVars, syncVars, seenDown>>
BY DEF OsQueuePut, Report, NoDispatch

\* The records agree with each other and with what the handlers have been told.
LEMMA RecordsStep ==
  InputTypeOK /\ RecordsAgree /\ seenDown = syncKeyDown /\ [InputNext]_evtVars
    => RecordsAgree' /\ seenDown' = syncKeyDown'
<1> SUFFICES ASSUME InputTypeOK, RecordsAgree, seenDown = syncKeyDown, [InputNext]_evtVars
             PROVE  RecordsAgree' /\ seenDown' = syncKeyDown'
  OBVIOUS
<1> USE DEF RecordsAgree
<1>1. CASE UNCHANGED <<inputVars, syncVars, seenDown>>
  BY <1>1 DEF inputVars, syncVars
<1>2. CASE Platform
  <2>1. PICK event : OsQueuePut(event) \/ Report(event)
    BY <1>2 DEF Platform, Press, Repeat, Release, Activate
  <2>2. QED
    BY <1>1, <2>1, PutKeepsRecords
<1>3. CASE PostKeyDown
  <2>1. CASE Arg \in metaKeyState
    BY <1>1, <1>3, <2>1 DEF PostKeyDown, NoDispatch, inputVars
  <2>2. CASE Arg \notin metaKeyState
    <3>1. /\ buttonState' = buttonState /\ syncButtons' = syncButtons
          /\ metaKeyState' = metaKeyState \cup ({Arg} \cap MetaKeys)
          /\ syncKeyDown' = syncKeyDown \cup {Arg}
          /\ Handle(IF Arg \in syncKeyDown THEN "KEYDOWN_REPEATING" ELSE "KEYDOWN", Arg)
      BY <1>3, <2>2 DEF PostKeyDown, DispatchKeyDown
    <3>2. seenDown' = syncKeyDown'
      BY <3>1 DEF Handle
    <3>3. QED
      BY <3>1, <3>2
  <2>3. QED
    BY <2>1, <2>2
<1>4. CASE PostKeyUp
  <2>1. CASE Arg \in MetaKeys \ metaKeyState
    BY <1>1, <1>4, <2>1 DEF PostKeyUp, NoDispatch, inputVars
  <2>2. CASE Arg \notin MetaKeys \ metaKeyState
    <3>1. /\ buttonState' = buttonState /\ syncButtons' = syncButtons
          /\ metaKeyState' = metaKeyState \ {Arg} /\ syncKeyDown' = syncKeyDown \ {Arg}
          /\ seenDown' = seenDown \ {Arg}
      BY <1>4, <2>2 DEF PostKeyUp, DispatchKeyUp, Handle
    <3>2. QED
      BY <3>1
  <2>3. QED
    BY <2>1, <2>2
<1>5. CASE PostMouseDown
  BY <1>5 DEF PostMouseDown, Handle
<1>6. CASE PostMouseUp
  BY <1>6 DEF PostMouseUp, Handle
<1>7. CASE PostFocus
  BY <1>7 DEF PostFocus, Handle
<1>8. CASE UNCHANGED evtVars
  BY <1>1, <1>8 DEF evtVars, handlerVars
<1>9. QED
  BY <1>2, <1>3, <1>4, <1>5, <1>6, <1>7, <1>8 DEF InputNext, Process

\* Processing an event records nothing as held that does not come up.
LEMMA ProcessComesUp ==
  ASSUME InputTypeOK, RecordsAgree, Process, NEW x \in Keys \cup Buttons, ComesUp(x)
  PROVE  ComesUp(x)' /\ UNCHANGED deviceVars
<1>1. /\ Ring!TypeOK /\ syncKeyDown \subseteq Keys /\ syncButtons \subseteq Buttons
      /\ Keys \cap Buttons = {} /\ MetaKeys \subseteq Keys
  BY InputAssumption DEF InputTypeOK
<1>2. CASE PostKeyDown
  <2>1. /\ Ring!Get /\ UNCHANGED deviceVars /\ Event(1) = [id |-> "keyDown", arg |-> Arg] /\ Arg \in Keys
    BY <1>2, TakenTypes DEF PostKeyDown, Taken, InputEvents, KeyEvents, MouseEvents, FocusEvent
  <2>2. syncKeyDown' \in {syncKeyDown, syncKeyDown \cup {Arg}} /\ syncButtons' = syncButtons
    BY <1>2 DEF PostKeyDown, DispatchKeyDown, syncVars
  <2>3. Event(1) = Down(Arg) /\ Event(1) \notin {Up(x), FocusEvent}
    BY <2>1 DEF Down, Up, FocusEvent
  <2>4. QED
    BY <1>1, <2>1, <2>2, <2>3, GetComesUp
<1>3. CASE PostKeyUp
  <2>1. /\ Ring!Get /\ UNCHANGED deviceVars /\ Event(1) = [id |-> "keyUp", arg |-> Arg] /\ Arg \in Keys
    BY <1>3, TakenTypes DEF PostKeyUp, Taken, InputEvents, KeyEvents, MouseEvents, FocusEvent
  <2>2. /\ syncKeyDown' \subseteq syncKeyDown /\ syncButtons' = syncButtons
        /\ Arg \notin syncKeyDown'
    BY <1>3 DEF PostKeyUp, DispatchKeyUp, syncVars, RecordsAgree
  <2>3. x # Arg => Event(1) \notin {Up(x), FocusEvent}
    BY <2>1 DEF Up, FocusEvent
  <2>4. QED
    BY <1>1, <2>1, <2>2, <2>3, GetComesUp
<1>4. CASE PostMouseDown
  <2>1. /\ Ring!Get /\ UNCHANGED deviceVars /\ Event(1) = [id |-> "mouseDown", arg |-> Arg] /\ Arg \in Buttons
    BY <1>4, TakenTypes DEF PostMouseDown, Taken, InputEvents, KeyEvents, MouseEvents, FocusEvent
  <2>2. syncKeyDown' = syncKeyDown /\ syncButtons' = syncButtons \cup {Arg}
    BY <1>4 DEF PostMouseDown
  <2>3. Event(1) = Down(Arg) /\ Event(1) \notin {Up(x), FocusEvent}
    BY <1>1, <2>1 DEF Down, Up, FocusEvent
  <2>4. QED
    BY <1>1, <2>1, <2>2, <2>3, GetComesUp
<1>5. CASE PostMouseUp
  <2>1. /\ Ring!Get /\ UNCHANGED deviceVars /\ Event(1) = [id |-> "mouseUp", arg |-> Arg] /\ Arg \in Buttons
    BY <1>5, TakenTypes DEF PostMouseUp, Taken, InputEvents, KeyEvents, MouseEvents, FocusEvent
  <2>2. syncKeyDown' = syncKeyDown /\ syncButtons' = syncButtons \ {Arg}
    BY <1>5 DEF PostMouseUp
  <2>3. x # Arg => Event(1) \notin {Up(x), FocusEvent}
    BY <2>1 DEF Up, FocusEvent
  <2>4. QED
    BY <1>1, <2>1, <2>2, <2>3, GetComesUp
<1>6. CASE PostFocus
  <2>1. Ring!Get /\ UNCHANGED deviceVars /\ syncKeyDown' = {} /\ syncButtons' = {}
    BY <1>6 DEF PostFocus, Taken
  <2>2. QED
    BY <1>1, <2>1, GetComesUp
<1>7. QED
  BY <1>2, <1>3, <1>4, <1>5, <1>6 DEF Process

LEMMA ComesUpStep ==
  InputTypeOK /\ RecordsAgree /\ WillComeUp /\ [InputNext]_evtVars => WillComeUp'
<1> SUFFICES ASSUME InputTypeOK, RecordsAgree, WillComeUp, [InputNext]_evtVars, ~dropped',
                    NEW x \in Keys \cup Buttons, ~(x \in pressed' /\ focused')
             PROVE  ComesUp(x)'
  BY DEF WillComeUp, ComesUp, EndsAfter, Waiting, Event, Down, Up
<1>1. Ring!TypeOK /\ FocusEvent \in InputEvents
  BY DEF InputTypeOK, InputEvents
<1>2. \A y \in Keys \cup Buttons : ~dropped /\ ~(y \in pressed /\ focused) => ComesUp(y)
  BY DEF WillComeUp
<1>3. ASSUME NEW event, OsQueuePut(event) PROVE ~dropped
  BY <1>3 DEF OsQueuePut
<1>4. CASE Press
  <2>1. PICK y \in Keys \cup Buttons : pressed' = pressed \cup {y} /\ Report(Down(y)) /\ focused' = focused
    BY <1>4 DEF Press, Down
  <2>2. CASE focused
    <3>1. OsQueuePut(Down(y)) /\ ~dropped
      BY <1>3, <2>1, <2>2 DEF Report
    <3>2. x # y /\ ComesUp(x)
      BY <1>2, <2>1, <2>2, <3>1
    <3>3. Down(y) \in InputEvents /\ Down(y) # Down(x)
      BY <3>2, DownAndUp
    <3>4. QED
      BY <1>1, <3>1, <3>2, <3>3, PutComesUp
  <2>3. CASE ~focused
    <3>1. UNCHANGED <<ring, syncVars>> /\ ~dropped
      BY <2>1, <2>3 DEF Report
    <3>2. QED
      BY <1>2, <2>3, <3>1, SameComesUp
  <2>4. QED
    BY <2>2, <2>3
<1>5. CASE Repeat
  <2>1. PICK key \in Keys \cap pressed :
          focused /\ OsQueuePut(Down(key)) /\ UNCHANGED <<pressed, focused>>
    BY <1>5 DEF Repeat, Down
  <2>2. ~dropped /\ x # key /\ ComesUp(x)
    BY <1>2, <1>3, <2>1
  <2>3. Down(key) \in InputEvents /\ Down(key) # Down(x)
    BY <2>2, DownAndUp
  <2>4. QED
    BY <1>1, <2>1, <2>2, <2>3, PutComesUp
<1>6. CASE Release
  <2>1. PICK y \in pressed : pressed' = pressed \ {y} /\ Report(Up(y)) /\ focused' = focused
    BY <1>6 DEF Release, Up
  <2>2. y \in Keys \cup Buttons
    BY DEF InputTypeOK
  <2>3. CASE focused
    <3>1. OsQueuePut(Up(y)) /\ ~dropped /\ Up(y) \in InputEvents
      BY <1>3, <2>1, <2>2, <2>3, DownAndUp DEF Report
    <3>2. CASE x = y
      BY <1>1, <3>1, <3>2, PutComesUp
    <3>3. CASE x # y
      <4>1. ComesUp(x) /\ Up(y) # Down(x)
        BY <1>2, <2>1, <2>2, <2>3, <3>1, <3>3, DownAndUp
      <4>2. QED
        BY <1>1, <3>1, <4>1, PutComesUp
    <3>4. QED
      BY <3>2, <3>3
  <2>4. CASE ~focused
    <3>1. UNCHANGED <<ring, syncVars>> /\ ~dropped
      BY <2>1, <2>4 DEF Report
    <3>2. QED
      BY <1>2, <2>4, <3>1, SameComesUp
  <2>5. QED
    BY <2>3, <2>4
<1>7. CASE Activate
  BY <1>1, <1>7, PutComesUp DEF Activate
<1>8. CASE Process
  <2>1. UNCHANGED deviceVars
    BY <1>8 DEF Process, PostKeyDown, PostKeyUp, PostMouseDown, PostMouseUp, PostFocus
  <2>2. ComesUp(x)
    BY <1>2, <2>1 DEF deviceVars
  <2>3. QED
    BY <1>8, <2>2, ProcessComesUp
<1>9. CASE UNCHANGED evtVars
  <2>1. UNCHANGED <<ring, syncVars>> /\ ~dropped /\ ~(x \in pressed /\ focused)
    BY <1>9 DEF evtVars, deviceVars
  <2>2. QED
    BY <1>2, <2>1, SameComesUp
<1>10. QED
  BY <1>4, <1>5, <1>6, <1>7, <1>8, <1>9 DEF InputNext, Platform

-----------------------------------------------------------------------------
LEMMA InputInitially == InputInit => InputInv
<1> SUFFICES ASSUME InputInit PROVE InputInv
  OBVIOUS
<1>1. Ring!TypeOK /\ Ring!Count = 0
  BY InputAssumption
  DEF InputInit, Ring!Init, Ring!TypeOK, Ring!Entry, Ring!Slots, Ring!Count, InputEvents
<1>2. InputTypeOK
  BY <1>1 DEF InputTypeOK, InputInit, Dispatches
<1>3. WillComeUp
  BY <1>1 DEF WillComeUp, ComesUp, Waiting, InputInit
<1>4. QED
  BY <1>2, <1>3 DEF InputInv, InputInit, RecordsAgree

LEMMA InputInvStep == InputInv /\ [InputNext]_evtVars => InputInv'
BY TypeStep, RecordsStep, ComesUpStep DEF InputInv

LEMMA InputInvariant == InputSpec => []InputInv
BY InputInitially, InputInvStep, PTL DEF InputSpec

\* The ring, the records and what the handlers are called with are of the right
\* types, for any keys, buttons and ring.
THEOREM InputTypeCorrect == InputSpec => []InputTypeOK
<1>1. InputInv => InputTypeOK
  BY DEF InputInv
<1>2. QED
  BY <1>1, InputInvariant, PTL

\* The two records of what is held always agree, and while the ring has not
\* overflowed nothing stays recorded as held that has come up.
THEOREM HeldKnown == InputSpec => []HeldIsKnown
<1>1. InputInv => HeldIsKnown
  <2> SUFFICES ASSUME InputInv, inTail = inHead, ~dropped, NEW x \in syncKeyDown \cup syncButtons
               PROVE  x \in pressed
    BY DEF InputInv, HeldIsKnown, NothingStuck
  <2>1. x \in Keys \cup Buttons
    BY DEF InputInv, InputTypeOK
  <2>2. Waiting = {}
    BY WaitingSlots DEF InputInv, InputTypeOK, Waiting
  <2>3. ~ComesUp(x)
    BY <2>2 DEF ComesUp, EndsAfter
  <2>4. QED
    BY <2>1, <2>3 DEF InputInv, WillComeUp
<1>2. QED
  BY <1>1, InputInvariant, PTL

\* The handlers are told of every key in turn.
THEOREM KeysInTurn == InputSpec => KeysAlternate
<1>1. InputInv /\ [InputNext]_evtVars => [InTurn]_evtVars
  <2> SUFFICES ASSUME InputInv, InputNext PROVE InTurn
    OBVIOUS
  <2>1. InputTypeOK /\ RecordsAgree /\ seenDown = syncKeyDown
    BY DEF InputInv
  <2>2. CASE NoDispatch
    BY <2>2 DEF NoDispatch, InTurn
  <2>3. CASE Platform
    <3>1. NoDispatch
      BY <2>3 DEF Platform, Press, Repeat, Release, Activate, Report, OsQueuePut
    <3>2. QED
      BY <2>2, <3>1
  <2>4. CASE PostKeyDown
    <3>1. CASE Arg \in metaKeyState
      BY <2>2, <2>4, <3>1 DEF PostKeyDown
    <3>2. CASE Arg \notin metaKeyState
      BY <2>1, <2>4, <3>2 DEF PostKeyDown, DispatchKeyDown, Handle, InTurn
    <3>3. QED
      BY <3>1, <3>2
  <2>5. CASE PostKeyUp
    <3>1. CASE Arg \in MetaKeys \ metaKeyState
      BY <2>2, <2>5, <3>1 DEF PostKeyUp
    <3>2. CASE Arg \notin MetaKeys \ metaKeyState
      <4>1. dispatched' = [id |-> "KEYUP", arg |-> Arg]
        BY <2>5, <3>2 DEF PostKeyUp, DispatchKeyUp, Handle
      <4>2. Arg \in MetaKeys => Arg \in seenDown
        BY <2>1, <3>2 DEF RecordsAgree
      <4>3. QED
        BY <4>1, <4>2 DEF InTurn
    <3>3. QED
      BY <3>1, <3>2
  <2>6. CASE PostMouseDown \/ PostMouseUp \/ PostFocus
    <3>1. dispatched'.id \in {"MOUSEDOWN", "MOUSEUP", "FOCUS"}
      BY <2>6 DEF PostMouseDown, PostMouseUp, PostFocus, Handle
    <3>2. QED
      BY <3>1 DEF InTurn
  <2>7. QED
    BY <2>3, <2>4, <2>5, <2>6 DEF InputNext, Process
<1>2. QED
  BY <1>1, InputInvariant, PTL DEF InputSpec, KeysAlternate

-----------------------------------------------------------------------------

(* Events and scripts: what follows is about ScriptEvents. *)

HIDE OsQueueAssumption

\* What can be on the Lua stack, and the calls that can go on.
ScriptValues == Objects \cup {nothing, "a", "name"}
CallFrames ==
  {f \in [kind : {"script", "signal"}, object : Objects \cup {nothing}, argc : 0..2,
          event : BOOLEAN, pos : Nat, below : Seq(ScriptValues)] :
     /\ IF f.event THEN f.argc \in 1..2 ELSE f.argc \in 0..1
     /\ f.kind = "signal" => f.event}

\* The names of the first arguments.
LEMMA FirstArguments ==
  /\ SubSeq(<<"arg1", "arg2">>, 1, 0) = <<>>
  /\ SubSeq(<<"arg1", "arg2">>, 1, 1) = <<"arg1">>
  /\ SubSeq(<<"arg1", "arg2">>, 1, 2) = <<"arg1", "arg2">>
<1> DEFINE s == <<"arg1", "arg2">>
<1>1. s \in Seq({"arg1", "arg2"})
  OBVIOUS
<1>2. Len(s) = 2 /\ s[1] = "arg1" /\ s[2] = "arg2"
  OBVIOUS
<1>3. SubSeq(s, 1, 0) = <<>>
  BY SubSeqEmpty
<1>4. SubSeq(s, 1, 1) = <<"arg1">>
  <2> DEFINE A == {"arg1", "arg2"}
             one == <<"arg1">>
             sub == SubSeq(s, 1, 1)
  <2>1. one \in Seq(A) /\ Len(one) = 1 /\ one[1] = s[1]
    BY <1>2
  <2>2. \A i \in 1..1 : s[i] \in A
    BY <1>2
  <2> HIDE DEF s, A, one
  <2>3. sub \in Seq(A) /\ Len(sub) = 1 /\ \A i \in 1..(1 - 1 + 1) : sub[i] = s[1 + i - 1]
    <3>1. /\ sub \in Seq(A) /\ Len(sub) = (IF 1 <= 1 THEN 1 - 1 + 1 ELSE 0)
          /\ \A i \in 1..(1 - 1 + 1) : sub[i] = s[1 + i - 1]
      BY <2>2, SubSeqProperties
    <3> QED BY <3>1
  <2>4. sub[1] = s[1]
    BY <2>3
  <2> HIDE DEF sub
  <2>5. sub = one
    BY <2>1, <2>3, <2>4, SeqEqual
  <2> QED BY <2>5 DEF sub, one
<1>5. SubSeq(s, 1, 2) = s
  <2> HIDE DEF s
  <2> QED BY <1>1, <1>2, SubSeqFull
<1> QED BY <1>3, <1>4, <1>5

\* The names put together.
LEMMA Joined ==
  /\ <<"this">> \o <<"arg1">> = <<"this", "arg1">>
  /\ <<"this">> \o <<"event">> = <<"this", "event">>
  /\ <<"this", "event">> \o <<"arg2">> = <<"this", "event", "arg2">>
  /\ <<"arg1">> \o <<"this">> = <<"arg1", "this">>
  /\ <<"event">> \o <<"this">> = <<"event", "this">>
  /\ <<"arg2", "arg1">> \o <<"event">> = <<"arg2", "arg1", "event">>
  /\ <<"arg2", "arg1", "event">> \o <<"this">> = <<"arg2", "arg1", "event", "this">>
<1> DEFINE S == {"this", "event", "arg1", "arg2"}
<1>1. \A s \in Seq(S), e \in S : s \o <<e>> = Append(s, e)
  OBVIOUS
<1>2. /\ <<"this">> \in Seq(S) /\ <<"arg1">> \in Seq(S) /\ <<"event">> \in Seq(S)
      /\ "this" \in S /\ "event" \in S /\ "arg1" \in S /\ "arg2" \in S
  OBVIOUS
<1>3. <<"this", "event">> \in Seq(S) /\ <<"arg2", "arg1">> \in Seq(S)
  OBVIOUS
<1>4. <<"arg2", "arg1", "event">> \in Seq(S)
  OBVIOUS
<1> HIDE DEF S
<1>5. <<"this">> \o <<"arg1">> = <<"this", "arg1">>
  <2>1. <<"this", "arg1">> = Append(<<"this">>, "arg1")
    OBVIOUS
  <2> QED BY <2>1, <1>1, <1>2, Zenon
<1>6. <<"this">> \o <<"event">> = <<"this", "event">>
  <2>1. <<"this", "event">> = Append(<<"this">>, "event")
    OBVIOUS
  <2> QED BY <2>1, <1>1, <1>2, Zenon
<1>7. <<"this", "event">> \o <<"arg2">> = <<"this", "event", "arg2">>
  <2>1. <<"this", "event", "arg2">> = Append(<<"this", "event">>, "arg2")
    OBVIOUS
  <2> QED BY <2>1, <1>1, <1>2, <1>3, Zenon
<1>8. <<"arg1">> \o <<"this">> = <<"arg1", "this">>
  <2>1. <<"arg1", "this">> = Append(<<"arg1">>, "this")
    OBVIOUS
  <2> QED BY <2>1, <1>1, <1>2, Zenon
<1>9. <<"event">> \o <<"this">> = <<"event", "this">>
  <2>1. <<"event", "this">> = Append(<<"event">>, "this")
    OBVIOUS
  <2> QED BY <2>1, <1>1, <1>2, Zenon
<1>10. <<"arg2", "arg1">> \o <<"event">> = <<"arg2", "arg1", "event">>
  <2>1. <<"arg2", "arg1", "event">> = Append(<<"arg2", "arg1">>, "event")
    OBVIOUS
  <2> QED BY <2>1, <1>1, <1>2, <1>3, Zenon
<1>11. <<"arg2", "arg1", "event">> \o <<"this">> = <<"arg2", "arg1", "event", "this">>
  <2>1. <<"arg2", "arg1", "event", "this">> = Append(<<"arg2", "arg1", "event">>, "this")
    OBVIOUS
  <2> QED BY <2>1, <1>1, <1>2, <1>4, Zenon
<1> QED BY <1>5, <1>6, <1>7, <1>8, <1>9, <1>10, <1>11

\* The names that are saved, in order, and given back, in reverse.
LEMMA SavedIs ==
  /\ Saved(0, FALSE) = <<"this">>
  /\ Saved(1, FALSE) = <<"this", "arg1">>
  /\ Saved(1, TRUE) = <<"this", "event">>
  /\ Saved(2, TRUE) = <<"this", "event", "arg2">>
<1>1. /\ <<"this">> \o <<>> \o <<>> = <<"this">>
      /\ <<"this">> \o <<>> \o <<"arg1">> = <<"this", "arg1">>
      /\ <<"this">> \o <<"event">> \o <<>> = <<"this", "event">>
      /\ <<"this">> \o <<"event">> \o <<"arg2">> = <<"this", "event", "arg2">>
  <2>1. <<"this">> \o <<>> = <<"this">> /\ <<"this", "event">> \o <<>> = <<"this", "event">>
    OBVIOUS
  <2> QED BY <2>1, Joined, Zenon
<1>2. Saved(0, FALSE) = <<"this">> \o <<>> \o SubSeq(<<"arg1", "arg2">>, 1, 0)
  BY Zenon DEF Saved
<1>3. Saved(1, FALSE) = <<"this">> \o <<>> \o SubSeq(<<"arg1", "arg2">>, 1, 1)
  BY Zenon DEF Saved
<1>4. Saved(1, TRUE) = <<"this">> \o <<"event">> \o <<>>
  BY DEF Saved
<1>5. Saved(2, TRUE) = <<"this">> \o <<"event">> \o <<"arg2">>
  BY DEF Saved
<1> QED BY <1>1, <1>2, <1>3, <1>4, <1>5, FirstArguments

LEMMA RestoredIs ==
  ASSUME NEW f
  PROVE  /\ f.argc = 0 /\ ~f.event => Order(f) = <<"this">>
         /\ f.argc = 1 /\ ~f.event => Order(f) = <<"arg1", "this">>
         /\ f.argc = 1 /\ f.event => Order(f) = <<"event", "this">>
         /\ f.argc = 2 /\ f.event => Order(f) = <<"arg2", "arg1", "event", "this">>
<1>1. Reverse(<<>>) = <<>>
  BY DEF Reverse
<1>2. Reverse(<<"arg1">>) = <<"arg1">>
  <2>1. Len(<<"arg1">>) = 1 /\ <<"arg1">>[1] = "arg1"
    OBVIOUS
  <2>2. Reverse(<<"arg1">>) = [i \in 1..1 |-> "arg1"]
    BY <2>1 DEF Reverse
  <2> QED BY <2>2
<1>3. Reverse(<<"arg1", "arg2">>) = <<"arg2", "arg1">>
  <2>1. /\ Len(<<"arg1", "arg2">>) = 2
        /\ <<"arg1", "arg2">>[1] = "arg1" /\ <<"arg1", "arg2">>[2] = "arg2"
    OBVIOUS
  <2>2. Reverse(<<"arg1", "arg2">>) = [i \in 1..2 |-> IF i = 1 THEN "arg2" ELSE "arg1"]
    BY <2>1 DEF Reverse
  <2>3. [i \in 1..2 |-> IF i = 1 THEN "arg2" ELSE "arg1"] = <<"arg2", "arg1">>
    OBVIOUS
  <2> QED BY <2>2, <2>3
<1>4. /\ <<>> \o <<>> \o <<"this">> = <<"this">>
      /\ <<"arg1">> \o <<>> \o <<"this">> = <<"arg1", "this">>
      /\ <<>> \o <<"event">> \o <<"this">> = <<"event", "this">>
      /\ <<"arg2", "arg1">> \o <<"event">> \o <<"this">> = <<"arg2", "arg1", "event", "this">>
  <2>1. <<>> \o <<>> \o <<"this">> = <<"this">>
    OBVIOUS
  <2>2. <<>> \o <<"event">> = <<"event">>
    OBVIOUS
  <2>3. <<"arg1">> \o <<>> = <<"arg1">>
    OBVIOUS
  <2>4. <<"arg1">> \o <<"this">> = <<"arg1", "this">> /\ <<"event">> \o <<"this">> = <<"event", "this">>
    BY Joined
  <2>5. <<"arg2", "arg1">> \o <<"event">> = <<"arg2", "arg1", "event">>
    BY Joined
  <2>6. <<"arg2", "arg1", "event">> \o <<"this">> = <<"arg2", "arg1", "event", "this">>
    BY Joined
  <2> QED BY <2>1, <2>2, <2>3, <2>4, <2>5, <2>6, Zenon
<1>5. /\ f.argc = 0 /\ ~f.event => Restored(f.argc, f.event) = <<>>
      /\ f.argc = 1 /\ ~f.event => Restored(f.argc, f.event) = <<"arg1">>
      /\ f.argc = 1 /\ f.event => Restored(f.argc, f.event) = <<>>
      /\ f.argc = 2 /\ f.event => Restored(f.argc, f.event) = <<"arg1", "arg2">>
  BY FirstArguments DEF Restored
<1>6. /\ f.event => Order(f) = Reverse(Restored(f.argc, f.event)) \o <<"event">> \o <<"this">>
      /\ ~f.event => Order(f) = Reverse(Restored(f.argc, f.event)) \o <<>> \o <<"this">>
  BY Zenon DEF Order
<1>7. ASSUME f.argc = 0, ~f.event PROVE Order(f) = <<"this">>
  BY <1>1, <1>4, <1>5, <1>6, <1>7, Zenon
<1>8. ASSUME f.argc = 1, ~f.event PROVE Order(f) = <<"arg1", "this">>
  BY <1>2, <1>4, <1>5, <1>6, <1>8, Zenon
<1>9. ASSUME f.argc = 1, f.event PROVE Order(f) = <<"event", "this">>
  BY <1>1, <1>4, <1>5, <1>6, <1>9, Zenon
<1>10. ASSUME f.argc = 2, f.event PROVE Order(f) = <<"arg2", "arg1", "event", "this">>
  BY <1>3, <1>4, <1>5, <1>6, <1>10, Zenon
<1> QED BY <1>7, <1>8, <1>9, <1>10

\* Where a name is in a sequence of names.
LEMMA PlaceOf ==
  ASSUME NEW s \in Seq(Names), NEW n
  PROVE  LET at == SelectInSeq(s, LAMBDA m : m = n)
         IN  /\ ~Has(s, n) => at = 0
             /\ Has(s, n) => at \in 1..Len(s) /\ s[at] = n
<1> DEFINE I == {i \in 1..Len(s) : s[i] = n}
           at == SelectInSeq(s, LAMBDA m : m = n)
<1>1. at = IF I # {} THEN Min(I) ELSE 0
  BY Zenon DEF SelectInSeq
<1>2. I \in SUBSET Nat
  BY LenProperties
<1>3. I # {} => Min(I) \in I
  BY <1>2, MinIsLeast
<1>4. Has(s, n) <=> I # {}
  BY DEF Has
<1> HIDE DEF at
<1>5. /\ ~Has(s, n) => at = 0
      /\ Has(s, n) => at \in 1..Len(s) /\ s[at] = n
  BY <1>1, <1>3, <1>4
<1> QED BY <1>5 DEF at

\* What a script gives a global variable back.
LEMMA GivenIs ==
  ASSUME NEW f, NEW n \in Names, NEW old, f.below \in Seq(ScriptValues)
  PROVE  LET size == Len(f.below) IN
         /\ f.argc = 0 /\ ~f.event /\ size >= 1 =>
              Given(f, n, old) = IF n = "this" THEN f.below[size] ELSE old
         /\ f.argc = 1 /\ ~f.event /\ size >= 2 =>
              Given(f, n, old) = IF n = "this" THEN f.below[size - 1]
                                 ELSE IF n = "arg1" THEN f.below[size] ELSE old
         /\ f.argc = 1 /\ f.event /\ size >= 2 =>
              Given(f, n, old) = IF n = "this" THEN f.below[size - 1]
                                 ELSE IF n = "event" THEN f.below[size] ELSE old
<1> DEFINE size == Len(f.below)
           at == SelectInSeq(Order(f), LAMBDA m : m = n)
<1>1. Given(f, n, old) = IF at = 0 THEN old ELSE IF at > size THEN nothing ELSE f.below[size - at + 1]
  BY Zenon DEF Given
<1>2. size \in Nat
  BY LenProperties
<1>3. ASSUME Order(f) \in Seq(Names)
      PROVE  /\ ~Has(Order(f), n) => at = 0
             /\ Has(Order(f), n) => at \in 1..Len(Order(f)) /\ Order(f)[at] = n
  BY <1>3, PlaceOf
<1> HIDE DEF size, at
<1>4. ASSUME f.argc = 0, ~f.event, size >= 1
      PROVE  Given(f, n, old) = IF n = "this" THEN f.below[size] ELSE old
  <2>1. Order(f) = <<"this">>
    BY <1>4, RestoredIs
  <2>2. <<"this">> \in Seq(Names) /\ Len(<<"this">>) = 1 /\ <<"this">>[1] = "this"
    BY DEF Names
  <2>3. at = IF n = "this" THEN 1 ELSE 0
    BY <2>1, <2>2, <1>3 DEF Has
  <2> QED BY <2>3, <1>1, <1>2, <1>4
<1>5. ASSUME f.argc = 1, ~f.event, size >= 2
      PROVE  Given(f, n, old) = IF n = "this" THEN f.below[size - 1]
                                 ELSE IF n = "arg1" THEN f.below[size] ELSE old
  <2>1. Order(f) = <<"arg1", "this">>
    BY <1>5, RestoredIs
  <2>2. /\ <<"arg1", "this">> \in Seq(Names) /\ Len(<<"arg1", "this">>) = 2
        /\ <<"arg1", "this">>[1] = "arg1" /\ <<"arg1", "this">>[2] = "this"
    BY DEF Names
  <2>3. at = IF n = "this" THEN 2 ELSE IF n = "arg1" THEN 1 ELSE 0
    BY <2>1, <2>2, <1>3 DEF Has
  <2> QED BY <2>3, <1>1, <1>2, <1>5
<1>6. ASSUME f.argc = 1, f.event, size >= 2
      PROVE  Given(f, n, old) = IF n = "this" THEN f.below[size - 1]
                                 ELSE IF n = "event" THEN f.below[size] ELSE old
  <2>1. Order(f) = <<"event", "this">>
    BY <1>6, RestoredIs
  <2>2. /\ <<"event", "this">> \in Seq(Names) /\ Len(<<"event", "this">>) = 2
        /\ <<"event", "this">>[1] = "event" /\ <<"event", "this">>[2] = "this"
    BY DEF Names
  <2>3. at = IF n = "this" THEN 2 ELSE IF n = "event" THEN 1 ELSE 0
    BY <2>1, <2>2, <1>3 DEF Has
  <2> QED BY <2>3, <1>1, <1>2, <1>6
<1> QED BY <1>4, <1>5, <1>6 DEF size

\* What is given back is a value.
LEMMA GivenType ==
  ASSUME NEW f \in CallFrames, NEW n \in Names, NEW old \in ScriptValues
  PROVE  Given(f, n, old) \in ScriptValues
<1> DEFINE size == Len(f.below)
           at == SelectInSeq(Order(f), LAMBDA m : m = n)
<1>1. Given(f, n, old) = IF at = 0 THEN old ELSE IF at > size THEN nothing ELSE f.below[size - at + 1]
  BY Zenon DEF Given
<1>2. /\ size \in Nat /\ f.below \in Seq(ScriptValues) /\ nothing \in ScriptValues
      /\ \A i \in 1..size : f.below[i] \in ScriptValues
  BY LenProperties, ElementOfSeq DEF CallFrames, ScriptValues
<1>3. Order(f) \in Seq(Names)
  <2>1. <<"this">> \in Seq(Names) /\ <<"arg1", "this">> \in Seq(Names)
    BY DEF Names
  <2>2. <<"event", "this">> \in Seq(Names)
    BY DEF Names
  <2>3. <<"arg2", "arg1", "event", "this">> \in Seq(Names)
    BY DEF Names
  <2>4. IF f.event THEN f.argc = 1 \/ f.argc = 2 ELSE f.argc = 0 \/ f.argc = 1
    BY DEF CallFrames
  <2> QED BY <2>1, <2>2, <2>3, <2>4, RestoredIs, Zenon
<1>4. at \in Nat
  <2>1. /\ ~Has(Order(f), n) => at = 0
        /\ Has(Order(f), n) => at \in 1..Len(Order(f)) /\ Order(f)[at] = n
    BY <1>3, PlaceOf
  <2>2. Len(Order(f)) \in Nat
    BY <1>3, LenProperties
  <2> HIDE DEF at
  <2> QED BY <2>1, <2>2
<1> HIDE DEF size, at
<1> QED BY <1>1, <1>2, <1>4

-----------------------------------------------------------------------------
(* The calls that go on *)

SignalsIn(calling) == {i \in 1..Len(calling) : calling[i].kind = "signal"}

\* The signals among the calls, with one call more.
LEMMA SignalsAppended ==
  ASSUME NEW s \in Seq(CallFrames), NEW f \in CallFrames
  PROVE  /\ IsFiniteSet(SignalsIn(s)) /\ Cardinality(SignalsIn(s)) \in Nat
         /\ Cardinality(SignalsIn(Append(s, f))) =
              Cardinality(SignalsIn(s)) + (IF f.kind = "signal" THEN 1 ELSE 0)
<1> DEFINE t == Append(s, f)
<1>1. /\ t \in Seq(CallFrames) /\ Len(t) = Len(s) + 1 /\ t[Len(s) + 1] = f
      /\ \A i \in 1..Len(s) : t[i] = s[i]
      /\ Len(s) \in Nat
  BY AppendProperties, LenProperties
<1> HIDE DEF t
<1>2. IsFiniteSet(SignalsIn(s)) /\ Cardinality(SignalsIn(s)) \in Nat
  <2>1. IsFiniteSet(1..Len(s)) /\ SignalsIn(s) \in SUBSET (1..Len(s))
    BY <1>1, FS_Interval DEF SignalsIn
  <2>2. IsFiniteSet(SignalsIn(s))
    BY <2>1, FS_Subset
  <2> QED BY <2>2, FS_CardinalityType
<1>3. CASE f.kind = "signal"
  <2>1. SignalsIn(t) = SignalsIn(s) \cup {Len(s) + 1}
    BY <1>1, <1>3 DEF SignalsIn
  <2>2. Len(s) + 1 \notin SignalsIn(s)
    BY <1>1 DEF SignalsIn
  <2> QED BY <1>2, <1>3, <2>1, <2>2, FS_AddElement DEF t
<1>4. CASE f.kind # "signal"
  <2>1. SignalsIn(t) = SignalsIn(s)
    BY <1>1, <1>4 DEF SignalsIn
  <2> QED BY <1>2, <1>4, <2>1 DEF t
<1> QED BY <1>2, <1>3, <1>4

\* A sequence is its front and its last element.
LEMMA FrontFacts ==
  ASSUME NEW S, NEW s \in Seq(S), s # <<>>
  PROVE  /\ Len(s) \in Nat \ {0} /\ Last(s) = s[Len(s)] /\ Last(s) \in S
         /\ Front(s) \in Seq(S) /\ Len(Front(s)) = Len(s) - 1
         /\ \A i \in 1..(Len(s) - 1) : Front(s)[i] = s[i]
         /\ Append(Front(s), Last(s)) = s
<1> DEFINE n == Len(s)
<1>0. n \in Nat /\ n # 0 /\ n >= 1
  <2>1. n \in Nat /\ n # 0
    BY LenProperties, EmptySeq
  <2> HIDE DEF n
  <2> QED BY <2>1
<1>1. Len(s) \in Nat /\ (\A i \in 1..Len(s) : s[i] \in S) /\ Len(s) # 0
  BY LenProperties, ElementOfSeq, EmptySeq
<1>2. Last(s) = s[Len(s)] /\ Last(s) \in S
  BY <1>1 DEF Last
<1> DEFINE r == Front(s)
<1>3. r \in Seq(S) /\ Len(r) = Len(s) - 1 /\ \A i \in 1..(Len(s) - 1) : r[i] = s[i]
  <2>1. r = SubSeq(s, 1, Len(s) - 1)
    BY DEF Front
  <2>2. \A i \in 1..(Len(s) - 1) : s[i] \in S
    BY <1>1
  <2> HIDE DEF r
  <2>3. /\ r \in Seq(S)
        /\ Len(r) = IF 1 <= Len(s) - 1 THEN Len(s) - 1 - 1 + 1 ELSE 0
        /\ \A i \in 1..(Len(s) - 1 - 1 + 1) : r[i] = s[1 + i - 1]
    BY <2>1, <2>2, <1>1, SubSeqProperties
  <2>4. Len(s) \in Nat \ {0}
    BY <1>1
  <2>5. Len(r) = Len(s) - 1
    <3>1. Len(r) = IF 1 <= n - 1 THEN n - 1 - 1 + 1 ELSE 0
      BY <2>3
    <3> HIDE DEF n
    <3>2. Len(r) = n - 1
      BY <3>1, <1>0
    <3> QED BY <3>2 DEF n
  <2>6. ASSUME NEW i \in 1..(Len(s) - 1)
        PROVE  r[i] = s[i]
    <3>1. i \in 1..(Len(s) - 1 - 1 + 1) /\ 1 + i - 1 = i
      BY <2>4
    <3> QED BY <3>1, <2>3
  <2> QED BY <2>3, <2>5, <2>6
<1> HIDE DEF r
<1>4. Append(r, Last(s)) = s
  <2> DEFINE t == Append(r, Last(s))
  <2>1. /\ t \in Seq(S) /\ Len(t) = Len(r) + 1 /\ t[Len(r) + 1] = Last(s)
        /\ \A i \in 1..Len(r) : t[i] = r[i]
    BY <1>2, <1>3, AppendProperties
  <2> HIDE DEF t
  <2>2. Len(r) = n - 1 /\ Last(s) = s[n] /\ \A i \in 1..(n - 1) : r[i] = s[i]
    BY <1>2, <1>3
  <2> HIDE DEF n
  <2>3. Len(t) = n /\ t[n] = s[n] /\ \A i \in 1..(n - 1) : t[i] = s[i]
    BY <1>0, <2>1, <2>2
  <2>4. \A i \in 1..n : t[i] = s[i]
    BY <1>0, <2>3
  <2>5. t = s
    BY <1>1, <2>1, <2>3, <2>4, SeqEqual DEF n
  <2> QED BY <2>5 DEF t
<1> QED BY <1>1, <1>2, <1>3, <1>4 DEF r

-----------------------------------------------------------------------------
(* The types *)

ScriptsTypeOK ==
  /\ listeners \in Seq(Objects) /\ registering \in Seq(Objects) /\ unregistering \in Seq(Objects)
  /\ pending \in Nat /\ frames \in Seq(CallFrames)
  /\ stack \in Seq(ScriptValues) /\ globals \in [Names -> ScriptValues]
  /\ asked \in [Objects -> {"register", "unregister"}] /\ mixed \in BOOLEAN

\* pendingSignalCount counts the signals that go on, and none walks beyond the list.
WalksInside ==
  /\ pending = Cardinality(SignalsIn(frames))
  /\ \A i \in SignalsIn(frames) : frames[i].pos \in 0..Len(listeners)

\* Which names are saved, and where.
SavedNames(N, argc, event) ==
  \/ event /\ argc = 1 /\ N = <<"this", "event">>
  \/ event /\ argc = 2 /\ N = <<"this", "event", "arg2">>
  \/ ~event /\ argc = 0 /\ N = <<"this">>
  \/ ~event /\ argc = 1 /\ N = <<"this", "arg1">>

LEMMA SavedNamesAre ==
  ASSUME NEW argc, NEW event \in BOOLEAN, IF event THEN argc \in 1..2 ELSE argc \in 0..1
  PROVE  SavedNames(Saved(argc, event), argc, event)
<1>1. CASE event /\ argc = 1
  <2>1. event = TRUE /\ argc = 1
    BY <1>1
  <2> QED BY <2>1, SavedIs, Zenon DEF SavedNames
<1>2. CASE event /\ argc = 2
  <2>1. event = TRUE /\ argc = 2
    BY <1>2
  <2> QED BY <2>1, SavedIs, Zenon DEF SavedNames
<1>3. CASE ~event /\ argc = 0
  <2>1. event = FALSE /\ argc = 0
    BY <1>3
  <2> QED BY <2>1, SavedIs, Zenon DEF SavedNames
<1>4. CASE ~event /\ argc = 1
  <2>1. event = FALSE /\ argc = 1
    BY <1>4
  <2> QED BY <2>1, SavedIs, Zenon DEF SavedNames
<1>5. \/ event /\ (argc = 1 \/ argc = 2)
      \/ ~event /\ (argc = 0 \/ argc = 1)
  OBVIOUS
<1> QED BY <1>1, <1>2, <1>3, <1>4, <1>5, Zenon

LEMMA SavedFacts ==
  ASSUME NEW N, NEW argc, NEW event \in BOOLEAN, SavedNames(N, argc, event)
  PROVE  /\ N \in Seq(Names) /\ argc \in 0..2 /\ Len(N) = argc + 1 /\ N[1] = "this"
         /\ argc = 1 => N[2] = IF event THEN "event" ELSE "arg1"
         /\ \A n : Has(N, n) <=> \/ n = "this"
                                 \/ n = "event" /\ event
                                 \/ n = "arg1" /\ ~event /\ argc = 1
                                 \/ n = "arg2" /\ event /\ argc = 2
<1>1. ASSUME N = <<"this", "event">>, event, argc = 1
      PROVE  /\ N \in Seq(Names) /\ Len(N) = 2 /\ N[1] = "this" /\ N[2] = "event"
             /\ \A n : Has(N, n) <=> n = "this" \/ n = "event"
  <2>1. N \in Seq(Names) /\ Len(N) = 2 /\ N[1] = "this" /\ N[2] = "event"
    BY <1>1 DEF Names
  <2> QED BY <2>1 DEF Has
<1>2. ASSUME N = <<"this", "event", "arg2">>, event, argc = 2
      PROVE  /\ N \in Seq(Names) /\ Len(N) = 3 /\ N[1] = "this"
             /\ \A n : Has(N, n) <=> n = "this" \/ n = "event" \/ n = "arg2"
  <2>1. N \in Seq(Names)
    BY <1>2 DEF Names
  <2>2. Len(N) = 3 /\ N[1] = "this" /\ N[2] = "event" /\ N[3] = "arg2"
    BY <1>2
  <2> QED BY <2>1, <2>2 DEF Has
<1>3. ASSUME N = <<"this">>, ~event, argc = 0
      PROVE  /\ N \in Seq(Names) /\ Len(N) = 1 /\ N[1] = "this"
             /\ \A n : Has(N, n) <=> n = "this"
  <2>1. N \in Seq(Names) /\ Len(N) = 1 /\ N[1] = "this"
    BY <1>3 DEF Names
  <2> QED BY <2>1 DEF Has
<1>4. ASSUME N = <<"this", "arg1">>, ~event, argc = 1
      PROVE  /\ N \in Seq(Names) /\ Len(N) = 2 /\ N[1] = "this" /\ N[2] = "arg1"
             /\ \A n : Has(N, n) <=> n = "this" \/ n = "arg1"
  <2>1. N \in Seq(Names) /\ Len(N) = 2 /\ N[1] = "this" /\ N[2] = "arg1"
    BY <1>4 DEF Names
  <2> QED BY <2>1 DEF Has
<1>5. CASE event /\ argc = 1 /\ N = <<"this", "event">>
  <2>1. /\ N \in Seq(Names) /\ Len(N) = 2 /\ N[1] = "this" /\ N[2] = "event"
        /\ \A n : Has(N, n) <=> n = "this" \/ n = "event"
    BY <1>1, <1>5, Zenon
  <2>2. /\ argc \in 0..2 /\ Len(N) = argc + 1 /\ argc # 0 /\ argc # 2
    BY <2>1, <1>5
  <2> QED BY <2>1, <2>2, <1>5, Zenon
<1>6. CASE event /\ argc = 2 /\ N = <<"this", "event", "arg2">>
  <2>1. /\ N \in Seq(Names) /\ Len(N) = 3 /\ N[1] = "this"
        /\ \A n : Has(N, n) <=> n = "this" \/ n = "event" \/ n = "arg2"
    BY <1>2, <1>6, Zenon
  <2>2. /\ argc \in 0..2 /\ Len(N) = argc + 1 /\ argc # 0 /\ argc # 1
    BY <2>1, <1>6
  <2> QED BY <2>1, <2>2, <1>6, Zenon
<1>7. CASE ~event /\ argc = 0 /\ N = <<"this">>
  <2>1. /\ N \in Seq(Names) /\ Len(N) = 1 /\ N[1] = "this"
        /\ \A n : Has(N, n) <=> n = "this"
    BY <1>3, <1>7, Zenon
  <2>2. /\ argc \in 0..2 /\ Len(N) = argc + 1 /\ argc # 1 /\ argc # 2
    BY <2>1, <1>7
  <2> QED BY <2>1, <2>2, <1>7, Zenon
<1>8. CASE ~event /\ argc = 1 /\ N = <<"this", "arg1">>
  <2>1. /\ N \in Seq(Names) /\ Len(N) = 2 /\ N[1] = "this" /\ N[2] = "arg1"
        /\ \A n : Has(N, n) <=> n = "this" \/ n = "arg1"
    BY <1>4, <1>8, Zenon
  <2>2. /\ argc \in 0..2 /\ Len(N) = argc + 1 /\ argc # 0 /\ argc # 2
    BY <2>1, <1>8
  <2> QED BY <2>1, <2>2, <1>8, Zenon
<1> QED BY <1>5, <1>6, <1>7, <1>8 DEF SavedNames

\* The last arguments of a sequence.
LEMMA LastArguments ==
  ASSUME NEW S, NEW below \in Seq(S), NEW argc \in Nat, argc <= Len(below)
  PROVE  LET args == SubSeq(below, Len(below) - argc + 1, Len(below)) IN
         \A i \in 1..argc : args[i] = below[Len(below) - argc + i] /\ args[i] \in S
<1> DEFINE n == Len(below)
           args == SubSeq(below, n - argc + 1, n)
<1>1. n \in Nat /\ \A i \in 1..n : below[i] \in S
  BY LenProperties, ElementOfSeq
<1> HIDE DEF n
<1>2. n - argc + 1 \in Int /\ n \in Int /\ \A i \in (n - argc + 1)..n : below[i] \in S
  BY <1>1 DEF n
<1>3. \A i \in 1..(n - (n - argc + 1) + 1) : args[i] = below[n - argc + 1 + i - 1]
  BY <1>2, SubSeqProperties
<1> HIDE DEF args
<1>4. ASSUME NEW i \in 1..argc
      PROVE  args[i] = below[n - argc + i] /\ args[i] \in S
  <2>1. /\ i \in 1..(n - (n - argc + 1) + 1) /\ n - argc + 1 + i - 1 = n - argc + i
        /\ n - argc + i \in 1..n
    BY <1>1 DEF n
  <2> QED BY <2>1, <1>1, <1>3
<1> QED BY <1>4 DEF args, n

(* What running a script does: it is called with its object, and on top of *)
(* what is below are the values its return gives back.                     *)
Executes(f, o, argc, event, below, outer) ==
  /\ frames' = Append(outer, f)
  /\ f.kind = "script" /\ f.object = o /\ f.argc = argc /\ f.event = event
  /\ stack' = <<>> /\ globals' \in [Names -> ScriptValues] /\ mixed' \in BOOLEAN
  /\ mixed' <=> mixed \/ (event /\ argc > 1)
  /\ Len(f.below) = Len(below) + argc + 1
  /\ \A i \in 1..Len(below) : f.below[i] = below[i]
  /\ ~mixed' => /\ \A n \in Names : Given(f, n, globals'[n]) = globals[n]
                /\ globals'["this"] = o
                /\ event => globals'["event"] = below[Len(below)]

\* What FrameScript_Execute does, in one formula for every number of arguments.
LEMMA ExecuteFacts ==
  ASSUME ScriptsTypeOK, NEW o \in Objects, NEW argc, NEW event \in BOOLEAN,
         IF event THEN argc \in 1..2 ELSE argc \in 0..1,
         NEW below \in Seq(ScriptValues), argc <= Len(below),
         NEW outer, Execute(o, argc, event, below, outer)
  PROVE  \E f \in CallFrames : Executes(f, o, argc, event, below, outer)
<1> DEFINE N == Saved(argc, event)
           v == [i \in DOMAIN N |-> globals[N[i]]]
           args == SubSeq(below, Len(below) - argc + 1, Len(below))
           f == [kind |-> "script", object |-> o, argc |-> argc, event |-> event,
                 pos |-> 0, below |-> below \o v]
<1>1. SavedNames(N, argc, event)
  BY SavedNamesAre
<1>2. /\ N \in Seq(Names) /\ argc \in 0..2 /\ Len(N) = argc + 1 /\ N[1] = "this"
      /\ argc = 1 => N[2] = IF event THEN "event" ELSE "arg1"
      /\ \A n : Has(N, n) <=> \/ n = "this"
                              \/ n = "event" /\ event
                              \/ n = "arg1" /\ ~event /\ argc = 1
                              \/ n = "arg2" /\ event /\ argc = 2
  BY <1>1, SavedFacts
<1>3. /\ stack' = <<>>
      /\ globals' = [n \in Names |-> IF n \in ToSet(N) THEN Value(n, o, args, event) ELSE globals[n]]
      /\ frames' = Append(outer, f)
      /\ mixed' = (mixed \/ (event /\ argc > 1))
  BY Zenon DEF Execute
<1>4. \A n : n \in ToSet(N) <=> Has(N, n)
  BY <1>2, ToSetHas
<1>5. /\ v \in Seq(ScriptValues) /\ Len(v) = argc + 1
      /\ \A i \in 1..(argc + 1) : v[i] = globals[N[i]]
  <2>1. DOMAIN N = 1..(argc + 1) /\ \A i \in 1..(argc + 1) : N[i] \in Names
    BY <1>2, LenProperties, ElementOfSeq
  <2>2. v \in [1..(argc + 1) -> ScriptValues]
    BY <2>1 DEF ScriptsTypeOK
  <2>3. argc + 1 \in Nat
    BY <1>2
  <2> HIDE DEF N
  <2>4. \A i \in 1..(argc + 1) : v[i] = globals[N[i]]
    BY <2>1
  <2> HIDE DEF v
  <2> QED BY <2>2, <2>3, <2>4, LenProperties, IsASeq, SeqDef
<1>6. \A i \in 1..argc : args[i] = below[Len(below) - argc + i] /\ args[i] \in ScriptValues
  BY <1>2, LastArguments
<1>7. Len(below) \in Nat
  BY LenProperties
<1> HIDE DEF N, v, args
<1>8. /\ below \o v \in Seq(ScriptValues) /\ Len(below \o v) = Len(below) + argc + 1
      /\ \A i \in 1..Len(below) : (below \o v)[i] = below[i]
      /\ \A i \in 1..(argc + 1) : (below \o v)[Len(below) + i] = v[i]
  <2>1. /\ below \o v \in Seq(ScriptValues) /\ Len(below \o v) = Len(below) + Len(v)
        /\ \A i \in 1..(Len(below) + Len(v)) :
             (below \o v)[i] = IF i <= Len(below) THEN below[i] ELSE v[i - Len(below)]
    BY <1>5, ConcatProperties
  <2> DEFINE u == below \o v
             m == Len(below)
  <2>2. /\ u \in Seq(ScriptValues) /\ Len(u) = m + (argc + 1) /\ m \in Nat /\ argc \in Nat
        /\ \A i \in 1..(m + (argc + 1)) : u[i] = IF i <= m THEN below[i] ELSE v[i - m]
    BY <2>1, <1>2, <1>5, <1>7
  <2> HIDE DEF u, m
  <2>3. /\ Len(u) = m + argc + 1 /\ \A i \in 1..m : u[i] = below[i]
        /\ \A i \in 1..(argc + 1) : u[m + i] = v[i]
    BY <2>2
  <2> QED BY <2>2, <2>3 DEF u, m
<1> DEFINE w == below \o v
           size == Len(w)
<1>9. f.below = w /\ f.argc = argc /\ f.event = event /\ f.kind = "script" /\ f.object = o
  OBVIOUS
<1>10. f \in CallFrames
  <2>1. w \in Seq(ScriptValues)
    BY <1>8
  <2> HIDE DEF w
  <2>2. [kind |-> "script", object |-> o, argc |-> argc, event |-> event, pos |-> 0, below |-> w] \in CallFrames
    BY <2>1, <1>2 DEF CallFrames
  <2> QED BY <2>2 DEF w
<1>11. \A n \in Names : globals'[n] = IF Has(N, n) THEN Value(n, o, args, event) ELSE globals[n]
  BY <1>3, <1>4, Zenon
<1>12. /\ Value("this", o, args, event) = o
       /\ event => Value("event", o, args, event) = args[1] /\ Value("arg2", o, args, event) = args[2]
       /\ ~event => Value("arg1", o, args, event) = args[1]
  BY DEF Value
<1>13. globals' \in [Names -> ScriptValues]
  <2>1. ASSUME NEW n \in Names
        PROVE  globals'[n] \in ScriptValues
    <3>1. CASE ~Has(N, n)
      BY <1>11, <3>1 DEF ScriptsTypeOK
    <3>2. CASE n = "this"
      BY <1>2, <1>11, <1>12, <3>2 DEF ScriptValues
    <3>3. CASE n = "event" /\ event
      <4>1. 1 \in 1..argc
        BY <3>3
      <4> QED BY <4>1, <1>2, <1>6, <1>11, <1>12, <3>3
    <3>4. CASE n = "arg1" /\ ~event /\ argc = 1
      <4>1. 1 \in 1..argc
        BY <3>4
      <4> QED BY <4>1, <1>2, <1>6, <1>11, <1>12, <3>4
    <3>5. CASE n = "arg2" /\ event /\ argc = 2
      <4>1. 2 \in 1..argc
        BY <3>5
      <4> QED BY <4>1, <1>2, <1>6, <1>11, <1>12, <3>5
    <3> QED BY <3>1, <3>2, <3>3, <3>4, <3>5, <1>2
  <2> QED BY <2>1, <1>3, Zenon
<1>14. ASSUME ~(event /\ argc > 1)
       PROVE  /\ \A n \in Names : Given(f, n, globals'[n]) = globals[n]
              /\ globals'["this"] = o
              /\ event => globals'["event"] = below[Len(below)]
  <2>1. globals'["this"] = o
    BY <1>2, <1>11, <1>12 DEF Names
  <2>2. ASSUME event PROVE globals'["event"] = below[Len(below)]
    <3>1. argc = 1
      BY <2>2, <1>14
    <3>2. args[1] = below[Len(below)]
      <4>1. 1 \in 1..argc /\ Len(below) - argc + 1 = Len(below)
        BY <3>1, <1>7
      <4> QED BY <4>1, <1>6
    <3>3. Has(N, "event") /\ "event" \in Names
      BY <1>2, <2>2 DEF Names
    <3> QED BY <3>2, <3>3, <1>11, <1>12, <2>2
  <2>3. /\ size \in Nat /\ size = Len(below) + argc + 1
        /\ w[Len(below) + 1] = globals["this"]
        /\ argc = 1 => w[Len(below) + 2] = globals[N[2]]
    <3>1. size = Len(below) + argc + 1 /\ \A i \in 1..(argc + 1) : w[Len(below) + i] = v[i]
      BY <1>8
    <3> HIDE DEF w, size
    <3>2. 1 \in 1..(argc + 1) /\ (argc = 1 => 2 \in 1..(argc + 1))
      BY <1>2
    <3> QED BY <3>1, <3>2, <1>2, <1>5, <1>7
  <2>4. ASSUME NEW n \in Names
        PROVE  Given(f, n, globals'[n]) = globals[n]
    <3>1. f.below \in Seq(ScriptValues)
      BY <1>8, <1>9
    <3> HIDE DEF f, w
    <3>2. CASE argc = 0
      <4>1. ~event /\ size >= 1 /\ w[size] = globals["this"]
        BY <2>3, <1>7, <3>2
      <4>2. Given(f, n, globals'[n]) = IF n = "this" THEN w[size] ELSE globals'[n]
        <5>1. f.argc = 0 /\ ~f.event /\ Len(f.below) >= 1 /\ f.below = w /\ Len(f.below) = size
          BY <4>1, <3>2, <1>9
        <5> HIDE DEF size
        <5> QED BY <5>1, <3>1, GivenIs
      <4>3. n # "this" => globals'[n] = globals[n]
        BY <1>2, <1>11, <3>2, <4>1
      <4> QED BY <4>1, <4>2, <4>3
    <3>3. CASE argc = 1 /\ ~event
      <4>1. size >= 2 /\ w[size - 1] = globals["this"] /\ w[size] = globals["arg1"]
        BY <1>2, <1>7, <2>3, <3>3
      <4>2. Given(f, n, globals'[n]) = IF n = "this" THEN w[size - 1]
                                       ELSE IF n = "arg1" THEN w[size] ELSE globals'[n]
        <5>1. f.argc = 1 /\ ~f.event /\ Len(f.below) >= 2 /\ f.below = w /\ Len(f.below) = size
          BY <4>1, <3>3, <1>9
        <5> HIDE DEF size
        <5>2. Given(f, n, globals'[n]) = IF n = "this" THEN f.below[Len(f.below) - 1]
                                         ELSE IF n = "arg1" THEN f.below[Len(f.below)] ELSE globals'[n]
          BY <5>1, <3>1, GivenIs
        <5> QED BY <5>1, <5>2
      <4>3. n # "this" /\ n # "arg1" => globals'[n] = globals[n]
        BY <1>2, <1>11, <3>3
      <4> QED BY <4>1, <4>2, <4>3
    <3>4. CASE argc = 1 /\ event
      <4>1. size >= 2 /\ w[size - 1] = globals["this"] /\ w[size] = globals["event"]
        BY <1>2, <1>7, <2>3, <3>4
      <4>2. Given(f, n, globals'[n]) = IF n = "this" THEN w[size - 1]
                                       ELSE IF n = "event" THEN w[size] ELSE globals'[n]
        <5>1. f.argc = 1 /\ f.event /\ Len(f.below) >= 2 /\ f.below = w /\ Len(f.below) = size
          BY <4>1, <3>4, <1>9
        <5> HIDE DEF size
        <5> QED BY <5>1, <3>1, GivenIs
      <4>3. n # "this" /\ n # "event" => globals'[n] = globals[n]
        BY <1>2, <1>11, <3>4
      <4> QED BY <4>1, <4>2, <4>3
    <3>5. argc = 0 \/ argc = 1
      BY <1>14
    <3> QED BY <3>2, <3>3, <3>4, <3>5
  <2> QED BY <2>1, <2>2, <2>4
<1>15. mixed' \in BOOLEAN /\ (mixed' <=> mixed \/ (event /\ argc > 1))
  <2>1. mixed \in BOOLEAN
    BY DEF ScriptsTypeOK
  <2> QED BY <2>1, <1>3
<1>16. Len(f.below) = Len(below) + argc + 1 /\ \A i \in 1..Len(below) : f.below[i] = below[i]
  BY <1>8, <1>9, Zenon
<1> HIDE DEF f
<1> QED BY <1>3, <1>9, <1>10, <1>13, <1>14, <1>15, <1>16 DEF Executes

-----------------------------------------------------------------------------
(* The lists *)

Wanted(o) == (Has(listeners, o) /\ ~Has(unregistering, o)) \/ Has(registering, o)

(* The lists say what the last calls asked for: nobody is in one twice or  *)
(* listens and waits to listen; nothing waits between signals; and an      *)
(* object none of whose requests was dropped will listen, once what waits  *)
(* is done, exactly if it asked to.                                        *)
ListsInv ==
  /\ Distinct(listeners) /\ Distinct(registering)
  /\ \A o : ~(Has(listeners, o) /\ Has(registering, o))
  /\ pending = 0 => registering = <<>> /\ unregistering = <<>>
  /\ \A o \in Objects \ undone : asked[o] = "register" <=> Wanted(o)

ScriptsInv == ScriptsTypeOK /\ WalksInside /\ ListsInv

LEMMA EmptyHasNothing == \A x : ~Has(<<>>, x)
BY DEF Has

\* What Once gives.
LEMMA OnceFacts ==
  ASSUME NEW list \in Seq(Objects), NEW o \in Objects
  PROVE  /\ Once(list, o) \in Seq(Objects)
         /\ \A x : Has(Once(list, o), x) <=> Has(list, x) \/ x = o
         /\ Distinct(list) => Distinct(Once(list, o))
<1>1. o \in ToSet(list) <=> Has(list, o)
  BY ToSetHas
<1>2. CASE Has(list, o)
  BY <1>1, <1>2 DEF Once
<1>3. CASE ~Has(list, o)
  <2>1. Once(list, o) = Append(list, o)
    BY <1>1, <1>3 DEF Once
  <2> QED BY <2>1, <1>3, AppendFacts
<1> QED BY <1>2, <1>3

\* Without pending signals no walk goes on.
LEMMA NothingGoesOn ==
  ASSUME ScriptsInv, pending = 0
  PROVE  SignalsIn(frames) = {}
<1>1. IsFiniteSet(SignalsIn(frames))
  <2>1. Len(frames) \in Nat
    BY LenProperties DEF ScriptsInv, ScriptsTypeOK
  <2>2. IsFiniteSet(1..Len(frames)) /\ SignalsIn(frames) \in SUBSET (1..Len(frames))
    BY <2>1, FS_Interval DEF SignalsIn
  <2> QED BY <2>2, FS_Subset
<1> QED BY <1>1, FS_EmptySet DEF ScriptsInv, WalksInside

\* Registering.
LEMMA RegisterKeeps ==
  ASSUME ScriptsInv, NEW o \in Objects, RegisterScriptEvent(o)
  PROVE  ScriptsInv'
<1>1. /\ listeners \in Seq(Objects) /\ registering \in Seq(Objects) /\ unregistering \in Seq(Objects)
      /\ pending \in Nat /\ asked \in [Objects -> {"register", "unregister"}]
  BY DEF ScriptsInv, ScriptsTypeOK
<1>2. /\ unregistering' = (IF pending > 0 THEN Without(unregistering, {o}) ELSE unregistering)
      /\ asked' = [asked EXCEPT ![o] = "register"] /\ undone' = undone \ {o}
      /\ UNCHANGED <<pending, frames, stack, globals, mixed>>
  BY DEF RegisterScriptEvent
<1>3. o \in ToSet(listeners) <=> Has(listeners, o)
  BY <1>1, ToSetHas
<1>4. /\ Has(listeners, o) => listeners' = listeners /\ registering' = registering
      /\ ~Has(listeners, o) /\ pending > 0 => listeners' = listeners /\ registering' = Once(registering, o)
      /\ ~Has(listeners, o) /\ ~(pending > 0) => listeners' = Append(listeners, o) /\ registering' = registering
  BY <1>3 DEF RegisterScriptEvent
<1>5. /\ Once(registering, o) \in Seq(Objects) /\ Append(listeners, o) \in Seq(Objects)
      /\ \A x : Has(Once(registering, o), x) <=> Has(registering, x) \/ x = o
      /\ \A x : Has(Append(listeners, o), x) <=> Has(listeners, x) \/ x = o
      /\ Distinct(registering) => Distinct(Once(registering, o))
      /\ Distinct(listeners) /\ ~Has(listeners, o) => Distinct(Append(listeners, o))
  BY <1>1, OnceFacts, AppendFacts
<1>6. /\ unregistering' \in Seq(Objects)
      /\ \A x : x # o => (Has(unregistering', x) <=> Has(unregistering, x))
      /\ pending > 0 => ~Has(unregistering', o)
  <2>1. /\ Without(unregistering, {o}) \in Seq(Objects)
        /\ \A x : Has(Without(unregistering, {o}), x) <=> Has(unregistering, x) /\ x \notin {o}
    BY <1>1, WithoutFacts
  <2>2. CASE pending > 0
    BY <2>1, <2>2, <1>2
  <2>3. CASE ~(pending > 0)
    BY <2>3, <1>1, <1>2
  <2> QED BY <2>2, <2>3
<1>7. ScriptsTypeOK'
  BY <1>1, <1>2, <1>4, <1>5, <1>6 DEF ScriptsInv, ScriptsTypeOK
<1>8. WalksInside'
  <2>1. CASE listeners' = listeners
    BY <2>1, <1>2 DEF ScriptsInv, WalksInside, SignalsIn
  <2>2. CASE ~(pending > 0)
    <3>1. SignalsIn(frames) = {}
      BY <2>2, <1>1, NothingGoesOn
    <3> QED BY <3>1, <1>2 DEF ScriptsInv, WalksInside, SignalsIn
  <2> QED BY <1>4, <2>1, <2>2
<1>9. ListsInv'
  <2>1. /\ Distinct(listeners) /\ Distinct(registering)
        /\ \A x : ~(Has(listeners, x) /\ Has(registering, x))
        /\ pending = 0 => registering = <<>> /\ unregistering = <<>>
        /\ \A x \in Objects \ undone : asked[x] = "register" <=> Wanted(x)
    BY DEF ScriptsInv, ListsInv
  <2>2. Distinct(listeners') /\ Distinct(registering')
    BY <2>1, <1>4, <1>5
  <2>3. pending' = 0 => registering' = <<>> /\ unregistering' = <<>>
    BY <2>1, <1>1, <1>2, <1>4
  <2>4. /\ \A x : x # o => (Has(listeners', x) <=> Has(listeners, x)) /\ (Has(registering', x) <=> Has(registering, x))
        /\ Has(listeners', o) \/ Has(registering', o)
        /\ Has(listeners', o) => Has(listeners, o) \/ ~(pending > 0)
        /\ Has(registering', o) => Has(registering, o) \/ (~Has(listeners, o) /\ pending > 0)
    BY <1>4, <1>5
  <2>5. \A x : ~Has(<<>>, x)
    BY EmptyHasNothing
  <2>6. ~Has(unregistering', o)
    <3>1. CASE pending > 0
      BY <3>1, <1>6
    <3>2. CASE ~(pending > 0)
      <4>1. unregistering' = <<>>
        BY <3>2, <2>1, <1>1, <1>2
      <4> QED BY <4>1, <2>5
    <3> QED BY <3>1, <3>2
  <2>7. \A x : ~(Has(listeners', x) /\ Has(registering', x))
    <3>1. ~(Has(listeners', o) /\ Has(registering', o))
      <4>1. CASE Has(listeners, o)
        BY <4>1, <1>4, <2>1
      <4>2. CASE ~Has(listeners, o) /\ pending > 0
        BY <4>2, <1>4
      <4>3. CASE ~Has(listeners, o) /\ ~(pending > 0)
        <5>1. registering' = <<>>
          BY <4>3, <1>1, <1>4, <2>1
        <5> QED BY <5>1, <2>5
      <4> QED BY <4>1, <4>2, <4>3
    <3> QED BY <3>1, <2>1, <2>4
  <2>8. ASSUME NEW x \in Objects \ undone'
        PROVE  asked'[x] = "register" <=> Wanted(x)'
    <3>1. CASE x = o
      <4>1. asked'[o] = "register"
        BY <1>1, <1>2
      <4> QED BY <3>1, <4>1, <2>4, <2>6 DEF Wanted
    <3>2. CASE x # o
      <4>1. x \in Objects \ undone /\ asked'[x] = asked[x]
        BY <3>2, <1>1, <1>2
      <4>2. Wanted(x)' <=> Wanted(x)
        BY <3>2, <2>4, <1>6 DEF Wanted
      <4> QED BY <4>1, <4>2, <2>1
    <3> QED BY <3>1, <3>2
  <2> QED BY <2>2, <2>3, <2>7, <2>8 DEF ListsInv
<1> QED BY <1>7, <1>8, <1>9 DEF ScriptsInv

\* Unregistering.
LEMMA UnregisterKeeps ==
  ASSUME ScriptsInv, NEW o \in Objects, UnregisterScriptEvent(o)
  PROVE  ScriptsInv'
<1>1. /\ listeners \in Seq(Objects) /\ registering \in Seq(Objects) /\ unregistering \in Seq(Objects)
      /\ pending \in Nat /\ asked \in [Objects -> {"register", "unregister"}]
  BY DEF ScriptsInv, ScriptsTypeOK
<1>2. /\ pending > 0 => unregistering' = Once(unregistering, o) /\ listeners' = listeners
      /\ ~(pending > 0) => listeners' = Without(listeners, {o}) /\ unregistering' = unregistering
      /\ asked' = [asked EXCEPT ![o] = "unregister"]
      /\ UNCHANGED <<registering, pending, frames, stack, globals, mixed>>
  BY DEF UnregisterScriptEvent
<1>3. /\ Has(registering, o) => undone' = undone \cup {o}
      /\ ~Has(registering, o) => undone' = undone \ {o}
  BY <1>1, ToSetHas DEF UnregisterScriptEvent
<1>4. /\ Without(listeners, {o}) \in Seq(Objects)
      /\ \A x : Has(Without(listeners, {o}), x) <=> Has(listeners, x) /\ x # o
      /\ Distinct(listeners) => Distinct(Without(listeners, {o}))
  <2>1. \A x : Has(Without(listeners, {o}), x) <=> Has(listeners, x) /\ x \notin {o}
    BY <1>1, WithoutFacts
  <2> QED BY <2>1, <1>1, WithoutFacts, WithoutDistinct
<1>5. /\ Once(unregistering, o) \in Seq(Objects)
      /\ \A x : Has(Once(unregistering, o), x) <=> Has(unregistering, x) \/ x = o
  BY <1>1, OnceFacts
<1>6. ScriptsTypeOK'
  <2>1. listeners' \in Seq(Objects) /\ unregistering' \in Seq(Objects)
    BY <1>1, <1>2, <1>4, <1>5
  <2> QED BY <2>1, <1>1, <1>2 DEF ScriptsInv, ScriptsTypeOK
<1>7. WalksInside'
  <2>1. CASE pending > 0
    BY <2>1, <1>2 DEF ScriptsInv, WalksInside, SignalsIn
  <2>2. CASE ~(pending > 0)
    <3>1. SignalsIn(frames) = {}
      BY <2>2, <1>1, NothingGoesOn
    <3> QED BY <3>1, <1>2 DEF ScriptsInv, WalksInside, SignalsIn
  <2> QED BY <2>1, <2>2
<1>8. ListsInv'
  <2>1. /\ Distinct(listeners) /\ Distinct(registering)
        /\ \A x : ~(Has(listeners, x) /\ Has(registering, x))
        /\ pending = 0 => registering = <<>> /\ unregistering = <<>>
        /\ \A x \in Objects \ undone : asked[x] = "register" <=> Wanted(x)
    BY DEF ScriptsInv, ListsInv
  <2>2. Distinct(listeners') /\ Distinct(registering')
    BY <2>1, <1>2, <1>4
  <2>3. \A x : Has(listeners', x) => Has(listeners, x)
    BY <1>2, <1>4
  <2>4. pending' = 0 => registering' = <<>> /\ unregistering' = <<>>
    BY <2>1, <1>1, <1>2
  <2>5. /\ \A x : x # o => /\ Has(listeners', x) <=> Has(listeners, x)
                           /\ Has(unregistering', x) <=> Has(unregistering, x)
        /\ ~Has(listeners', o) \/ Has(unregistering', o)
    BY <1>2, <1>4, <1>5
  <2>6. ASSUME NEW x \in Objects \ undone'
        PROVE  asked'[x] = "register" <=> Wanted(x)'
    <3>1. CASE x = o
      <4>1. asked'[o] # "register"
        BY <1>1, <1>2
      <4>2. ~Has(registering, o) /\ registering' = registering
        BY <3>1, <1>2, <1>3
      <4> QED BY <3>1, <4>1, <4>2, <2>5 DEF Wanted
    <3>2. CASE x # o
      <4>1. x \in Objects \ undone /\ asked'[x] = asked[x] /\ registering' = registering
        BY <3>2, <1>1, <1>2, <1>3
      <4>2. Wanted(x)' <=> Wanted(x)
        BY <3>2, <4>1, <2>5 DEF Wanted
      <4> QED BY <4>1, <4>2, <2>1
    <3> QED BY <3>1, <3>2
  <2>7. \A x : ~(Has(listeners', x) /\ Has(registering', x))
    BY <2>1, <2>3, <1>2
  <2> QED BY <2>2, <2>4, <2>6, <2>7 DEF ListsInv
<1> QED BY <1>6, <1>7, <1>8 DEF ScriptsInv

-----------------------------------------------------------------------------
(* Calls begin and end *)

\* A signal, or a script, is called by those that go on, of which one may have walked further.
LEMMA CalledKeeps ==
  ASSUME ScriptsInv, NEW outer \in Seq(CallFrames), NEW f \in CallFrames,
         Len(outer) = Len(frames),
         \A i \in 1..Len(frames) :
           /\ outer[i].kind = frames[i].kind
           /\ outer[i].pos = frames[i].pos \/ outer[i].pos \in 0..Len(listeners),
         frames' = Append(outer, f), f.kind = "signal" => f.pos = 0,
         pending' = pending + (IF f.kind = "signal" THEN 1 ELSE 0),
         UNCHANGED <<listeners, registering, unregistering, asked, undone>>
  PROVE  pending' \in Nat /\ frames' \in Seq(CallFrames) /\ WalksInside' /\ ListsInv'
<1>1. /\ frames \in Seq(CallFrames) /\ pending \in Nat /\ Len(frames) \in Nat
      /\ Len(listeners) \in Nat
  BY LenProperties DEF ScriptsInv, ScriptsTypeOK
<1>2. SignalsIn(outer) = SignalsIn(frames)
  BY DEF SignalsIn
<1>3. Cardinality(SignalsIn(frames')) = Cardinality(SignalsIn(outer)) + (IF f.kind = "signal" THEN 1 ELSE 0)
  BY SignalsAppended
<1>4. pending = Cardinality(SignalsIn(frames)) /\ \A i \in SignalsIn(frames) : frames[i].pos \in 0..Len(listeners)
  BY DEF ScriptsInv, WalksInside
<1>5. pending' = Cardinality(SignalsIn(frames')) /\ pending' \in Nat
  <2>1. CASE f.kind = "signal"
    BY <2>1, <1>1, <1>2, <1>3, <1>4
  <2>2. CASE f.kind # "signal"
    BY <2>2, <1>1, <1>2, <1>3, <1>4
  <2> QED BY <2>1, <2>2
<1>6. /\ frames' \in Seq(CallFrames) /\ Len(frames') = Len(frames) + 1
      /\ \A i \in 1..Len(frames) : frames'[i] = outer[i]
      /\ frames'[Len(frames) + 1] = f
  BY AppendProperties
<1>7. \A i \in SignalsIn(frames') : frames'[i].pos \in 0..Len(listeners')
  <2> TAKE i \in SignalsIn(frames')
  <2>1. i \in 1..(Len(frames) + 1) /\ frames'[i].kind = "signal"
    BY <1>6 DEF SignalsIn
  <2>2. CASE i = Len(frames) + 1
    <3>1. frames'[i] = f /\ f.kind = "signal" /\ listeners' = listeners
      BY <2>1, <2>2, <1>6
    <3>2. f.pos = 0
      BY <3>1
    <3> QED BY <3>1, <3>2, <1>1
  <2>3. CASE i # Len(frames) + 1
    <3>1. i \in 1..Len(frames) /\ frames'[i] = outer[i]
      BY <2>1, <2>3, <1>1, <1>6
    <3>2. i \in SignalsIn(frames)
      BY <2>1, <3>1 DEF SignalsIn
    <3>3. frames[i].pos \in 0..Len(listeners) /\ listeners' = listeners
      BY <3>2, <1>4
    <3>4. outer[i].pos \in 0..Len(listeners)
      BY <3>1, <3>3
    <3> QED BY <3>1, <3>3, <3>4
  <2> QED BY <2>2, <2>3
<1>8. ListsInv'
  <2>1. pending' = 0 => pending = 0
    BY <1>1
  <2> QED BY <2>1 DEF ScriptsInv, ListsInv, Wanted
<1> QED BY <1>5, <1>6, <1>7, <1>8 DEF WalksInside

-----------------------------------------------------------------------------
(* The global variables *)

GlobalValues == [Names -> ScriptValues]

\* What the globals are before a call, and during it.
Called(f, before, during) ==
  IF f.kind = "signal" THEN during = before
  ELSE /\ \A n \in Names : Given(f, n, during[n]) = before[n]
       /\ during["this"] = f.object
       /\ f.event => during["event"] = "name"

\* The globals got their values call by call.
History(calling, values) ==
  \E g \in [0..Len(calling) -> GlobalValues] :
    /\ g[0] = [n \in Names |-> nothing] /\ g[Len(calling)] = values
    /\ \A i \in 1..Len(calling) : Called(calling[i], g[i - 1], g[i])

(* A script for an event is called by a signal with one argument, the      *)
(* event's name, which is also what the signal left on top of the stack    *)
(* before its copy and the saved values; and a signal calls nothing else.  *)
ScriptFits(calling, i) ==
  calling[i].kind = "script" /\ calling[i].event =>
    /\ calling[i].argc = 1 /\ i > 1
    /\ calling[i - 1].kind = "signal" /\ calling[i - 1].argc = 1
    /\ Len(calling[i].below) >= 4
    /\ calling[i].below[Len(calling[i].below) - 3] = "name"
SignalFits(calling, i) ==
  calling[i].kind = "signal" /\ i < Len(calling) => calling[i + 1].kind = "script" /\ calling[i + 1].event
CallsFit(calling, values) ==
  /\ \A i \in 1..Len(calling) : ScriptFits(calling, i) /\ SignalFits(calling, i)
  /\ calling # <<>> /\ Last(calling).kind = "signal" /\ Last(calling).argc = 1 =>
       values # <<>> /\ Last(values) = "name"

GlobalsInv == ~mixed => CallsFit(frames, stack) /\ History(frames, globals)

\* A call is added, by calls of which signals may have walked further.
LEMMA HistoryGrows ==
  ASSUME NEW calling \in Seq(CallFrames), NEW outer \in Seq(CallFrames), Len(outer) = Len(calling),
         \A i \in 1..Len(calling) :
           outer[i] = calling[i] \/ (outer[i].kind = "signal" /\ calling[i].kind = "signal"),
         NEW values, History(calling, values),
         NEW f \in CallFrames, NEW during \in GlobalValues, Called(f, values, during)
  PROVE  History(Append(outer, f), during)
<1> DEFINE m == Len(calling)
           t == Append(outer, f)
<1>1. /\ t \in Seq(CallFrames) /\ Len(t) = m + 1 /\ t[m + 1] = f
      /\ \A i \in 1..m : t[i] = outer[i]
      /\ m \in Nat
  BY AppendProperties, LenProperties
<1>2. PICK g \in [0..m -> GlobalValues] :
        /\ g[0] = [n \in Names |-> nothing] /\ g[m] = values
        /\ \A i \in 1..m : Called(calling[i], g[i - 1], g[i])
  BY DEF History
<1> DEFINE h == [i \in 0..(m + 1) |-> IF i = m + 1 THEN during ELSE g[i]]
<1> HIDE DEF t, m
<1>3. h \in [0..(m + 1) -> GlobalValues] /\ h[m + 1] = during /\ \A i \in 0..m : h[i] = g[i]
  BY <1>1, <1>2
<1> HIDE DEF h
<1>4. ASSUME NEW i \in 1..(m + 1)
      PROVE  Called(t[i], h[i - 1], h[i])
  <2>1. CASE i = m + 1
    <3>1. h[i - 1] = values /\ h[i] = during /\ t[i] = f
      BY <1>1, <1>2, <1>3, <2>1
    <3> QED BY <3>1
  <2>2. CASE i # m + 1
    <3>1. i \in 1..m /\ h[i - 1] = g[i - 1] /\ h[i] = g[i] /\ t[i] = outer[i]
      BY <1>1, <1>3, <2>2
    <3>2. Called(calling[i], g[i - 1], g[i])
      BY <1>2, <3>1
    <3>3. CASE outer[i] = calling[i]
      BY <3>1, <3>2, <3>3
    <3>4. CASE outer[i].kind = "signal" /\ calling[i].kind = "signal"
      BY <3>1, <3>2, <3>4 DEF Called
    <3>5. outer[i] = calling[i] \/ (outer[i].kind = "signal" /\ calling[i].kind = "signal")
      BY <3>1 DEF m
    <3> QED BY <3>3, <3>4, <3>5
  <2> QED BY <2>1, <2>2
<1>5. h[0] = [n \in Names |-> nothing]
  <2>1. 0 \in 0..m
    BY <1>1
  <2>2. h[0] = g[0]
    BY <2>1, <1>3
  <2> QED BY <2>2, <1>2
<1>6. History(t, during)
  BY <1>1, <1>3, <1>4, <1>5 DEF History
<1> QED BY <1>6 DEF t

\* The last call ends.
LEMMA HistoryShrinks ==
  ASSUME NEW calling \in Seq(CallFrames), calling # <<>>, NEW values, History(calling, values)
  PROVE  \E before \in GlobalValues :
           History(Front(calling), before) /\ Called(Last(calling), before, values)
<1> DEFINE m == Len(calling)
           r == Front(calling)
<1>1. /\ m \in Nat \ {0} /\ Last(calling) = calling[m]
      /\ r \in Seq(CallFrames) /\ Len(r) = m - 1
      /\ \A i \in 1..(m - 1) : r[i] = calling[i]
  BY FrontFacts
<1>2. PICK g \in [0..m -> GlobalValues] :
        /\ g[0] = [n \in Names |-> nothing] /\ g[m] = values
        /\ \A i \in 1..m : Called(calling[i], g[i - 1], g[i])
  BY DEF History
<1> DEFINE h == [i \in 0..(m - 1) |-> g[i]]
<1> HIDE DEF m, r
<1>3. h \in [0..(m - 1) -> GlobalValues] /\ \A i \in 0..(m - 1) : h[i] = g[i]
  BY <1>1, <1>2
<1> HIDE DEF h
<1>4. h[m - 1] \in GlobalValues /\ h[m - 1] = g[m - 1] /\ h[0] = [n \in Names |-> nothing]
  BY <1>1, <1>2, <1>3
<1>5. \A i \in 1..(m - 1) : Called(r[i], h[i - 1], h[i])
  <2> TAKE i \in 1..(m - 1)
  <2>1. r[i] = calling[i] /\ h[i - 1] = g[i - 1] /\ h[i] = g[i] /\ i \in 1..m
    BY <1>1, <1>3
  <2> QED BY <2>1, <1>2
<1>6. History(r, h[m - 1])
  BY <1>1, <1>3, <1>4, <1>5 DEF History
<1>7. Called(Last(calling), h[m - 1], values)
  <2>1. m \in 1..m
    BY <1>1
  <2> QED BY <2>1, <1>1, <1>2, <1>4
<1> QED BY <1>4, <1>6, <1>7 DEF r

-----------------------------------------------------------------------------
(* What each action does to all of it *)

\* A call is added that fits.
LEMMA CallFits ==
  ASSUME NEW calling \in Seq(CallFrames), NEW outer \in Seq(CallFrames), Len(outer) = Len(calling),
         \A i \in 1..Len(calling) :
           /\ i < Len(calling) => outer[i] = calling[i]
           /\ outer[i].kind = calling[i].kind /\ outer[i].argc = calling[i].argc
           /\ outer[i].event = calling[i].event /\ outer[i].below = calling[i].below,
         NEW values, CallsFit(calling, values), NEW f \in CallFrames, NEW rest,
         ScriptFits(Append(outer, f), Len(calling) + 1),
         calling # <<>> /\ Last(calling).kind = "signal" => f.kind = "script" /\ f.event,
         f.kind = "signal" /\ f.argc = 1 => rest # <<>> /\ Last(rest) = "name"
  PROVE  CallsFit(Append(outer, f), rest)
<1> DEFINE m == Len(calling)
           t == Append(outer, f)
<1>1. /\ t \in Seq(CallFrames) /\ Len(t) = m + 1 /\ t[m + 1] = f
      /\ \A i \in 1..m : t[i] = outer[i]
      /\ m \in Nat
  BY AppendProperties, LenProperties
<1>2. Last(t) = f
  BY <1>1 DEF Last
<1>3. m > 0 => Last(calling) = calling[m] /\ calling # <<>>
  BY EmptySeq, <1>1 DEF Last
<1>4. /\ \A i \in 1..m : ScriptFits(calling, i) /\ SignalFits(calling, i)
      /\ ScriptFits(t, m + 1)
      /\ \A i \in 1..m : /\ i < m => outer[i] = calling[i]
                        /\ outer[i].kind = calling[i].kind /\ outer[i].argc = calling[i].argc
                        /\ outer[i].event = calling[i].event /\ outer[i].below = calling[i].below
      /\ m > 0 /\ calling[m].kind = "signal" => f.kind = "script" /\ f.event
  BY <1>3 DEF CallsFit
<1> HIDE DEF t
<1>5. ASSUME NEW i \in 1..Len(t)
      PROVE  ScriptFits(t, i)
  <2>1. CASE i = m + 1
    BY <2>1, <1>4
  <2>2. CASE i # m + 1
    <3>1. /\ i \in 1..m /\ t[i] = outer[i] /\ (i > 1 => i - 1 \in 1..m /\ t[i - 1] = calling[i - 1])
      BY <1>1, <1>4, <2>2
    <3>2. ScriptFits(calling, i)
      BY <1>4, <3>1
    <3>3. /\ t[i].kind = calling[i].kind /\ t[i].argc = calling[i].argc
          /\ t[i].event = calling[i].event /\ t[i].below = calling[i].below
      BY <3>1, <1>4
    <3> QED BY <3>1, <3>2, <3>3 DEF ScriptFits
  <2> QED BY <2>1, <2>2
<1>6. ASSUME NEW i \in 1..Len(t)
      PROVE  SignalFits(t, i)
  <2>1. CASE i = m + 1
    BY <2>1, <1>1 DEF SignalFits
  <2>2. CASE i = m
    <3>1. t[i].kind = calling[m].kind /\ t[i + 1] = f /\ m > 0
      BY <2>2, <1>1, <1>4
    <3> QED BY <3>1, <1>4 DEF SignalFits
  <2>3. CASE i < m
    <3>1. /\ i \in 1..m /\ i + 1 \in 1..m /\ t[i] = calling[i]
          /\ t[i + 1].kind = calling[i + 1].kind /\ t[i + 1].event = calling[i + 1].event
      BY <2>3, <1>1, <1>4
    <3> QED BY <3>1, <2>3, <1>4 DEF SignalFits
  <2> QED BY <2>1, <2>2, <2>3, <1>1
<1>7. CallsFit(t, rest)
  BY <1>2, <1>5, <1>6 DEF CallsFit
<1> QED BY <1>7 DEF t

\* Registering has nothing to do with the globals.
LEMMA ListActionsKeepGlobals ==
  ASSUME GlobalsInv, NEW o, RegisterScriptEvent(o) \/ UnregisterScriptEvent(o)
  PROVE  GlobalsInv'
<1>1. UNCHANGED <<frames, stack, globals, mixed>>
  BY DEF RegisterScriptEvent, UnregisterScriptEvent
<1> QED BY <1>1 DEF GlobalsInv, CallsFit, History, ScriptFits, SignalFits

\* A script run for itself.
LEMMA RunScriptKeeps ==
  ASSUME ScriptsInv, GlobalsInv, NEW o \in Objects, NEW argc \in 0..1, RunScript(o, argc)
  PROVE  ScriptsInv' /\ GlobalsInv'
<1> DEFINE below == stack \o SubSeq(<<"a">>, 1, argc)
<1>1. ScriptsTypeOK /\ stack \in Seq(ScriptValues) /\ frames \in Seq(CallFrames)
  BY DEF ScriptsInv, ScriptsTypeOK
<1>2. below \in Seq(ScriptValues) /\ argc <= Len(below)
  <2> DEFINE a == <<"a">>
             s == SubSeq(a, 1, argc)
  <2>1. a[1] \in ScriptValues /\ \A i \in 1..argc : i = 1
    BY DEF ScriptValues
  <2>2. \A i \in 1..argc : a[i] \in ScriptValues
    BY <2>1
  <2> HIDE DEF a
  <2>3. /\ s \in Seq(ScriptValues)
        /\ Len(s) = IF 1 <= argc THEN argc - 1 + 1 ELSE 0
    BY <2>2, SubSeqProperties
  <2>4. Len(s) = argc
    BY <2>3
  <2> HIDE DEF s
  <2>5. /\ stack \o s \in Seq(ScriptValues) /\ Len(stack \o s) = Len(stack) + Len(s)
        /\ Len(stack) \in Nat
    BY <1>1, <2>3, ConcatProperties, LenProperties
  <2>6. argc <= Len(stack \o s)
    BY <2>4, <2>5
  <2> QED BY <2>5, <2>6 DEF s, a
<1>3. Running /\ Execute(o, argc, FALSE, below, frames) /\ UNCHANGED lists
  BY DEF RunScript
<1> HIDE DEF below
<1>4. PICK f \in CallFrames : Executes(f, o, argc, FALSE, below, frames)
  <2>1. FALSE \in BOOLEAN /\ (IF FALSE THEN argc \in 1..2 ELSE argc \in 0..1)
    OBVIOUS
  <2> QED BY <2>1, <1>1, <1>2, <1>3, ExecuteFacts
<1>5. UNCHANGED <<listeners, registering, unregistering, pending, asked, undone>>
  BY <1>3 DEF lists
<1>6. pending' \in Nat /\ frames' \in Seq(CallFrames) /\ WalksInside' /\ ListsInv'
  <2> USE DEF Executes
  <2>1. pending' = pending + (IF f.kind = "signal" THEN 1 ELSE 0)
    BY <1>4, <1>5 DEF ScriptsInv, ScriptsTypeOK
  <2> QED BY <2>1, <1>1, <1>4, <1>5, CalledKeeps
<1>7. ScriptsTypeOK'
  BY <1>1, <1>4, <1>5, <1>6, EmptySeq DEF ScriptsTypeOK, Executes
<1>8. ASSUME ~mixed'
      PROVE  CallsFit(frames', stack') /\ History(frames', globals')
  <2> USE DEF Executes
  <2>1. ~mixed /\ CallsFit(frames, stack) /\ History(frames, globals)
    BY <1>4, <1>8 DEF GlobalsInv
  <2>2. Called(f, globals, globals')
    BY <1>4, <1>8 DEF Called
  <2>3. History(Append(frames, f), globals')
    BY <2>1, <2>2, <1>1, <1>4, HistoryGrows DEF GlobalValues
  <2>4. ScriptFits(Append(frames, f), Len(frames) + 1)
    <3>1. Append(frames, f)[Len(frames) + 1] = f
      BY <1>1, AppendProperties
    <3> QED BY <3>1, <1>4 DEF ScriptFits
  <2>5. ~(frames # <<>> /\ Last(frames).kind = "signal")
    BY <1>3 DEF Running, Top
  <2>6. CallsFit(Append(frames, f), stack')
    BY <2>1, <2>4, <2>5, <1>1, <1>4, CallFits
  <2> QED BY <2>3, <2>6, <1>4
<1> QED BY <1>6, <1>7, <1>8 DEF ScriptsInv, GlobalsInv

\* A signal starts, before the first listener.
LEMMA SignalEventKeeps ==
  ASSUME ScriptsInv, GlobalsInv, NEW argc \in 1..2, SignalEvent(argc)
  PROVE  ScriptsInv' /\ GlobalsInv'
<1> DEFINE f == [kind |-> "signal", object |-> nothing, argc |-> argc, event |-> TRUE, pos |-> 0, below |-> <<>>]
           a == <<"name", "a">>
           s == SubSeq(a, 1, argc)
<1>1. ScriptsTypeOK /\ stack \in Seq(ScriptValues) /\ frames \in Seq(CallFrames)
  BY DEF ScriptsInv, ScriptsTypeOK
<1>2. /\ Running /\ stack' = stack \o s /\ pending' = pending + 1 /\ frames' = Append(frames, f)
      /\ UNCHANGED <<listeners, registering, unregistering, globals, asked, undone, mixed>>
  BY DEF SignalEvent
<1>3. f \in CallFrames
  <2>1. <<>> \in Seq(ScriptValues)
    BY EmptySeq
  <2> QED BY <2>1 DEF CallFrames
<1>4. f.kind = "signal" /\ f.argc = argc /\ f.pos = 0
  OBVIOUS
<1> HIDE DEF f
<1>5. /\ s \in Seq(ScriptValues) /\ Len(s) = argc /\ s[1] = "name"
  <2>1. a[1] = "name" /\ a[2] = "a"
    OBVIOUS
  <2>2. \A i \in 1..argc : a[i] \in ScriptValues
    BY <2>1 DEF ScriptValues
  <2> HIDE DEF a
  <2>3. /\ s \in Seq(ScriptValues)
        /\ Len(s) = IF 1 <= argc THEN argc - 1 + 1 ELSE 0
        /\ \A i \in 1..(argc - 1 + 1) : s[i] = a[1 + i - 1]
    BY <2>2, SubSeqProperties
  <2> HIDE DEF s
  <2>4. 1 \in 1..(argc - 1 + 1) /\ 1 + 1 - 1 = 1
    OBVIOUS
  <2> QED BY <2>1, <2>3, <2>4
<1> HIDE DEF s, a
<1>6. /\ stack' \in Seq(ScriptValues) /\ Len(stack') = Len(stack) + argc /\ Len(stack) \in Nat
      /\ stack'[Len(stack) + 1] = "name"
  <2> DEFINE u == stack \o s
  <2>1. /\ u \in Seq(ScriptValues) /\ Len(u) = Len(stack) + Len(s) /\ Len(stack) \in Nat
        /\ \A i \in 1..(Len(stack) + Len(s)) : u[i] = IF i <= Len(stack) THEN stack[i] ELSE s[i - Len(stack)]
    BY <1>1, <1>5, ConcatProperties, LenProperties
  <2>2. stack' = u
    BY <1>2
  <2> HIDE DEF u
  <2> QED BY <2>1, <2>2, <1>5
<1>7. pending' \in Nat /\ frames' \in Seq(CallFrames) /\ WalksInside' /\ ListsInv'
  <2>1. pending' = pending + (IF f.kind = "signal" THEN 1 ELSE 0)
    BY <1>2, <1>4
  <2> QED BY <2>1, <1>1, <1>2, <1>3, <1>4, CalledKeeps
<1>8. ScriptsTypeOK'
  BY <1>1, <1>2, <1>6, <1>7 DEF ScriptsTypeOK
<1>9. ASSUME ~mixed'
      PROVE  CallsFit(frames', stack') /\ History(frames', globals')
  <2>1. ~mixed /\ CallsFit(frames, stack) /\ History(frames, globals) /\ globals \in GlobalValues
    BY <1>1, <1>2, <1>9 DEF GlobalsInv, ScriptsTypeOK, GlobalValues
  <2>2. Called(f, globals, globals)
    BY <1>4 DEF Called
  <2>3. History(Append(frames, f), globals)
    BY <2>1, <2>2, <1>1, <1>3, HistoryGrows
  <2>4. ScriptFits(Append(frames, f), Len(frames) + 1)
    <3>1. Append(frames, f)[Len(frames) + 1] = f
      BY <1>1, <1>3, AppendProperties
    <3> QED BY <3>1, <1>4 DEF ScriptFits
  <2>5. ~(frames # <<>> /\ Last(frames).kind = "signal")
    BY <1>2 DEF Running, Top
  <2>6. argc = 1 => stack' # <<>> /\ Last(stack') = "name"
    BY <1>6, EmptySeq DEF Last
  <2>7. CallsFit(Append(frames, f), stack')
    BY <2>1, <2>4, <2>5, <2>6, <1>1, <1>3, <1>4, CallFits
  <2> QED BY <2>3, <2>7, <1>2
<1> QED BY <1>7, <1>8, <1>9 DEF ScriptsInv, GlobalsInv

\* The call at the end is the one that runs.
LEMMA TopFacts ==
  ASSUME ScriptsTypeOK, frames # <<>>
  PROVE  /\ Len(frames) \in Nat \ {0} /\ Top = frames[Len(frames)] /\ Top \in CallFrames
         /\ Front(frames) \in Seq(CallFrames) /\ Len(Front(frames)) = Len(frames) - 1
         /\ \A i \in 1..(Len(frames) - 1) : Front(frames)[i] = frames[i]
         /\ Append(Front(frames), Top) = frames
BY FrontFacts DEF ScriptsTypeOK, Top

\* A signal with one argument calls a listener with a copy of the event's name on the stack.
LEMMA CallListenerKeeps ==
  ASSUME ScriptsInv, GlobalsInv, CallListener
  PROVE  ScriptsInv' /\ GlobalsInv'
<1> DEFINE m == Len(frames)
           outer == [frames EXCEPT ![m].pos = @ + 1]
           o == listeners[Top.pos + 1]
           below == stack \o Copies
<1>1. /\ ScriptsTypeOK /\ stack \in Seq(ScriptValues) /\ frames \in Seq(CallFrames)
      /\ listeners \in Seq(Objects) /\ Len(listeners) \in Nat /\ Len(stack) \in Nat
  BY LenProperties DEF ScriptsInv, ScriptsTypeOK
<1>2. /\ frames # <<>> /\ Top.kind = "signal" /\ ~AtEnd
      /\ Execute(o, Top.argc, TRUE, below, outer) /\ UNCHANGED lists
  BY DEF CallListener
<1>3. m \in Nat \ {0} /\ Top = frames[m] /\ Top \in CallFrames
  BY <1>1, <1>2, TopFacts
<1>4. Top.pos \in 0..Len(listeners) /\ Top.pos # Len(listeners) /\ Top.event \in BOOLEAN
  <2>1. m \in SignalsIn(frames)
    BY <1>2, <1>3 DEF SignalsIn
  <2>2. frames[m].pos \in 0..Len(listeners)
    BY <2>1 DEF ScriptsInv, WalksInside
  <2> QED BY <2>2, <1>2, <1>3 DEF AtEnd, CallFrames
<1>5. o \in Objects
  <2>1. Top.pos + 1 \in 1..Len(listeners)
    BY <1>1, <1>4
  <2> QED BY <2>1, <1>1, ElementOfSeq
<1> DEFINE walked == [Top EXCEPT !.pos = @ + 1]
<1>6. walked \in CallFrames /\ walked.kind = "signal"
  BY <1>2, <1>3 DEF CallFrames
<1>7. /\ outer \in Seq(CallFrames) /\ Len(outer) = m /\ outer[m] = walked
      /\ \A i \in 1..m : i # m => outer[i] = frames[i]
  <2>1. outer = [frames EXCEPT ![m] = walked]
    BY <1>3
  <2>2. m \in 1..m
    BY <1>3
  <2> HIDE DEF walked, outer
  <2> QED BY <2>1, <2>2, <1>1, <1>6, ExceptSeq
<1>8. /\ walked.argc = Top.argc /\ walked.event = Top.event /\ walked.below = Top.below
      /\ walked.pos = Top.pos + 1
  BY <1>3 DEF CallFrames
<1> HIDE DEF o, outer, walked
<1>9. Top.argc \in 1..2
  BY <1>2, <1>3 DEF CallFrames
<1>10. /\ Copies \in Seq(ScriptValues) /\ Len(Copies) = Top.argc
       /\ Top.argc = 1 /\ Len(stack) >= 1 => Copies[1] = stack[Len(stack)]
  <2> DEFINE k == Top.argc
             n == Len(stack)
             c == [i \in 1..k |-> IF n - k + i < 1 THEN nothing ELSE stack[n - k + i]]
  <2>1. Copies = c
    BY DEF Copies
  <2>2. k \in 1..2 /\ n \in Nat /\ \A i \in 1..n : stack[i] \in ScriptValues
    BY <1>1, <1>9, ElementOfSeq
  <2> HIDE DEF k, n
  <2>3. \A i \in 1..k : c[i] \in ScriptValues
    BY <2>2 DEF ScriptValues
  <2>4. c \in Seq(ScriptValues) /\ Len(c) = k
    <3>1. c \in [1..k -> ScriptValues] /\ k \in Nat
      BY <2>2, <2>3
    <3> HIDE DEF c
    <3> QED BY <3>1, LenProperties, IsASeq, SeqDef
  <2>5. k = 1 /\ n >= 1 => c[1] = stack[n]
    BY <2>2
  <2> HIDE DEF c
  <2> QED BY <2>1, <2>4, <2>5 DEF k, n
<1>11. /\ below \in Seq(ScriptValues) /\ Len(below) = Len(stack) + Top.argc
       /\ \A i \in 1..Len(stack) : below[i] = stack[i]
       /\ Top.argc = 1 => below[Len(stack) + 1] = Copies[1]
  <2>1. /\ below \in Seq(ScriptValues) /\ Len(below) = Len(stack) + Len(Copies)
        /\ \A i \in 1..(Len(stack) + Len(Copies)) :
             below[i] = IF i <= Len(stack) THEN stack[i] ELSE Copies[i - Len(stack)]
    BY <1>1, <1>10, ConcatProperties
  <2> DEFINE n == Len(stack)
             k == Len(Copies)
             c == Copies
  <2>2. n \in Nat /\ k = Top.argc /\ k \in 1..2
    BY <1>1, <1>9, <1>10
  <2> HIDE DEF below, n, k, c
  <2>3. /\ below \in Seq(ScriptValues) /\ Len(below) = n + k
        /\ \A i \in 1..(n + k) : below[i] = IF i <= n THEN stack[i] ELSE c[i - n]
    BY <2>1 DEF n, k, c
  <2>4. \A i \in 1..n : below[i] = stack[i]
    BY <2>2, <2>3
  <2>5. k = 1 => below[n + 1] = c[1]
    BY <2>2, <2>3
  <2> QED BY <2>2, <2>3, <2>4, <2>5 DEF n, c
<1> HIDE DEF below
<1>12. PICK f \in CallFrames : Executes(f, o, Top.argc, TRUE, below, outer)
  <2>1. TRUE \in BOOLEAN /\ (IF TRUE THEN Top.argc \in 1..2 ELSE Top.argc \in 0..1)
    BY <1>9
  <2>2. Top.argc <= Len(below)
    BY <1>1, <1>9, <1>11
  <2> QED BY <2>1, <2>2, <1>1, <1>2, <1>5, <1>11, ExecuteFacts
<1>13. /\ frames' = Append(outer, f) /\ f.kind = "script" /\ f.argc = Top.argc /\ f.event = TRUE /\ f.object = o
       /\ stack' = <<>> /\ globals' \in GlobalValues /\ mixed' \in BOOLEAN
       /\ mixed' <=> mixed \/ Top.argc > 1
       /\ Len(f.below) = Len(below) + Top.argc + 1 /\ \A i \in 1..Len(below) : f.below[i] = below[i]
  BY <1>12 DEF Executes, GlobalValues
<1>14. UNCHANGED <<listeners, registering, unregistering, pending, asked, undone>>
  BY <1>2 DEF lists
<1>15. pending' \in Nat /\ frames' \in Seq(CallFrames) /\ WalksInside' /\ ListsInv'
  <2>1. pending' = pending + (IF f.kind = "signal" THEN 1 ELSE 0)
    BY <1>1, <1>13, <1>14 DEF ScriptsTypeOK
  <2>2. \A i \in 1..Len(frames) :
          /\ outer[i].kind = frames[i].kind
          /\ outer[i].pos = frames[i].pos \/ outer[i].pos \in 0..Len(listeners)
    BY <1>1, <1>2, <1>3, <1>4, <1>6, <1>7, <1>8
  <2> QED BY <2>1, <2>2, <1>7, <1>13, <1>14, CalledKeeps
<1>16. ScriptsTypeOK'
  BY <1>1, <1>13, <1>14, <1>15, EmptySeq DEF ScriptsTypeOK, GlobalValues
<1>17. ASSUME ~mixed'
       PROVE  CallsFit(frames', stack') /\ History(frames', globals')
  <2>1. ~mixed /\ CallsFit(frames, stack) /\ History(frames, globals) /\ Top.argc = 1
    BY <1>9, <1>13, <1>17 DEF GlobalsInv
  <2>2. Len(stack) >= 1 /\ stack[Len(stack)] = "name"
    <3>1. stack # <<>> /\ Last(stack) = "name"
      BY <2>1, <1>2 DEF CallsFit, Top
    <3>2. Len(stack) # 0
      BY <3>1, <1>1, EmptySeq
    <3> QED BY <3>1, <3>2, <1>1 DEF Last
  <2>3. below[Len(below)] = "name" /\ Len(below) = Len(stack) + 1 /\ below[Len(stack)] = "name"
    <3> DEFINE n == Len(stack)
    <3>1. n \in Nat /\ n >= 1 /\ Len(below) = n + 1 /\ stack[n] = "name"
      BY <2>1, <2>2, <1>1, <1>11
    <3>2. Copies[1] = "name" /\ below[n + 1] = Copies[1]
      BY <2>1, <2>2, <1>10, <1>11
    <3>3. \A i \in 1..n : below[i] = stack[i]
      BY <1>11
    <3> HIDE DEF n
    <3>4. below[n] = "name" /\ below[Len(below)] = "name"
      BY <3>1, <3>2, <3>3
    <3> QED BY <3>1, <3>4 DEF n
  <2>4. Called(f, globals, globals')
    BY <2>3, <1>12, <1>13, <1>17 DEF Executes, Called
  <2>5. History(Append(outer, f), globals')
    <3>1. \A i \in 1..Len(frames) :
            outer[i] = frames[i] \/ (outer[i].kind = "signal" /\ frames[i].kind = "signal")
      BY <1>2, <1>3, <1>6, <1>7
    <3> QED BY <3>1, <2>1, <2>4, <1>1, <1>7, <1>13, HistoryGrows
  <2>6. ScriptFits(Append(outer, f), m + 1)
    <3>1. Append(outer, f)[m + 1] = f /\ Append(outer, f)[m] = walked
      BY <1>3, <1>7, AppendProperties
    <3>2. /\ Len(f.below) = Len(stack) + 3 /\ Len(stack) \in 1..Len(below)
      BY <2>1, <2>2, <2>3, <1>1, <1>13
    <3>3. f.below[Len(stack)] = "name"
      BY <3>2, <2>3, <1>13
    <3>4. Len(f.below) >= 4 /\ Len(f.below) - 3 = Len(stack)
      BY <3>2, <2>2, <1>1
    <3>5. m + 1 > 1 /\ (m + 1) - 1 = m
      BY <1>3
    <3>6. f.argc = 1 /\ walked.kind = "signal" /\ walked.argc = 1
      BY <2>1, <1>6, <1>8, <1>13
    <3>7. f.below[Len(f.below) - 3] = "name"
      BY <3>3, <3>4
    <3> DEFINE t == Append(outer, f)
               i == m + 1
    <3>8. t[i] = f /\ t[i - 1] = walked /\ i > 1
      BY <3>1, <3>5, Zenon
    <3> HIDE DEF t, i
    <3>9. ScriptFits(t, i)
      BY <3>4, <3>6, <3>7, <3>8 DEF ScriptFits
    <3> QED BY <3>9 DEF t, i
  <2>7. \A i \in 1..Len(frames) :
          /\ i < Len(frames) => outer[i] = frames[i]
          /\ outer[i].kind = frames[i].kind /\ outer[i].argc = frames[i].argc
          /\ outer[i].event = frames[i].event /\ outer[i].below = frames[i].below
    BY <1>2, <1>3, <1>6, <1>7, <1>8
  <2>8. CallsFit(Append(outer, f), stack')
    BY <2>1, <2>6, <2>7, <1>1, <1>7, <1>13, CallFits
  <2> QED BY <2>5, <2>8, <1>13
<1> QED BY <1>15, <1>16, <1>17 DEF ScriptsInv, GlobalsInv

-----------------------------------------------------------------------------
(* A call returns *)

LEMMA FrontSignals ==
  ASSUME ScriptsTypeOK, frames # <<>>
  PROVE  /\ Cardinality(SignalsIn(Front(frames))) \in Nat
         /\ Cardinality(SignalsIn(frames)) =
              Cardinality(SignalsIn(Front(frames))) + (IF Top.kind = "signal" THEN 1 ELSE 0)
         /\ \A i \in SignalsIn(Front(frames)) : i \in SignalsIn(frames) /\ Front(frames)[i] = frames[i]
<1>1. /\ Len(frames) \in Nat \ {0} /\ Top \in CallFrames
      /\ Front(frames) \in Seq(CallFrames) /\ Len(Front(frames)) = Len(frames) - 1
      /\ \A i \in 1..(Len(frames) - 1) : Front(frames)[i] = frames[i]
      /\ Append(Front(frames), Top) = frames
  BY TopFacts
<1> DEFINE r == Front(frames)
<1>2. /\ Cardinality(SignalsIn(r)) \in Nat
      /\ Cardinality(SignalsIn(Append(r, Top))) =
           Cardinality(SignalsIn(r)) + (IF Top.kind = "signal" THEN 1 ELSE 0)
  BY <1>1, SignalsAppended
<1>3. \A i \in SignalsIn(r) : i \in SignalsIn(frames) /\ r[i] = frames[i]
  BY <1>1 DEF SignalsIn
<1> QED BY <1>1, <1>2, <1>3

\* The last call taken away leaves calls that fit.
LEMMA FrontFits ==
  ASSUME NEW calling \in Seq(CallFrames), calling # <<>>, NEW values, CallsFit(calling, values),
         NEW rest,
         LET m == Len(calling) IN
           m > 1 /\ calling[m - 1].kind = "signal" /\ calling[m - 1].argc = 1 =>
             rest # <<>> /\ Last(rest) = "name"
  PROVE  CallsFit(Front(calling), rest)
<1> DEFINE m == Len(calling)
           r == Front(calling)
<1>1. /\ m \in Nat \ {0} /\ r \in Seq(CallFrames) /\ Len(r) = m - 1
      /\ \A i \in 1..(m - 1) : r[i] = calling[i]
  BY FrontFacts
<1>2. /\ \A i \in 1..m : ScriptFits(calling, i) /\ SignalFits(calling, i)
      /\ m > 1 /\ calling[m - 1].kind = "signal" /\ calling[m - 1].argc = 1 =>
             rest # <<>> /\ Last(rest) = "name"
  BY DEF CallsFit
<1>3. r # <<>> => m > 1 /\ Last(r) = calling[m - 1]
  <2>1. r # <<>> => Len(r) # 0
    BY <1>1, EmptySeq
  <2>2. r # <<>> => m > 1
    BY <1>1, <2>1
  <2>3. r # <<>> => Last(r) = r[m - 1]
    BY <1>1 DEF Last
  <2>4. m > 1 => r[m - 1] = calling[m - 1]
    BY <1>1
  <2> QED BY <2>2, <2>3, <2>4
<1> HIDE DEF m, r
<1>4. ASSUME NEW i \in 1..(m - 1)
      PROVE  ScriptFits(r, i) /\ SignalFits(r, i)
  <2>1. /\ i \in 1..m /\ r[i] = calling[i]
        /\ i > 1 => r[i - 1] = calling[i - 1]
        /\ i < m - 1 => i < m /\ r[i + 1] = calling[i + 1]
    BY <1>1
  <2>2. ScriptFits(calling, i) /\ SignalFits(calling, i)
    BY <1>2, <2>1
  <2>3. ScriptFits(r, i)
    BY <2>1, <2>2 DEF ScriptFits
  <2>4. SignalFits(r, i)
    BY <1>1, <2>1, <2>2 DEF SignalFits, m
  <2> QED BY <2>3, <2>4
<1>5. /\ \A i \in 1..Len(r) : ScriptFits(r, i) /\ SignalFits(r, i)
      /\ r # <<>> /\ Last(r).kind = "signal" /\ Last(r).argc = 1 => rest # <<>> /\ Last(rest) = "name"
  BY <1>1, <1>2, <1>3, <1>4
<1> QED BY <1>5 DEF CallsFit, r

\* How many globals a script gives back.
LEMMA OrderLength ==
  ASSUME NEW f \in CallFrames
  PROVE  Len(Order(f)) \in 1..4 /\ (f.argc = 1 /\ f.event => Len(Order(f)) = 2)
<1>1. /\ Len(<<"this">>) = 1 /\ Len(<<"arg1", "this">>) = 2 /\ Len(<<"event", "this">>) = 2
      /\ Len(<<"arg2", "arg1", "event", "this">>) = 4
  OBVIOUS
<1>2. IF f.event THEN f.argc = 1 \/ f.argc = 2 ELSE f.argc = 0 \/ f.argc = 1
  BY DEF CallFrames
<1> DEFINE n == Len(Order(f))
<1>3. /\ n = 1 \/ n = 2 \/ n = 4
      /\ f.argc = 1 /\ f.event => n = 2
  BY <1>1, <1>2, RestoredIs, Zenon
<1> HIDE DEF n
<1>4. n \in 1..4
  BY <1>3
<1> QED BY <1>3, <1>4 DEF n

\* A script that returns puts the globals back, and the stack of its signal.
LEMMA ReturnScriptKeeps ==
  ASSUME ScriptsInv, GlobalsInv, ReturnScript
  PROVE  ScriptsInv' /\ GlobalsInv'
<1> DEFINE m == Len(frames)
           below == Top.below
           size == Len(below)
           kept == size - Len(Order(Top)) - Top.argc
<1>1. ScriptsTypeOK /\ frames \in Seq(CallFrames)
  BY DEF ScriptsInv, ScriptsTypeOK
<1>2. /\ frames # <<>> /\ Top.kind = "script" /\ frames' = Front(frames)
      /\ globals' = [n \in Names |-> Given(Top, n, globals[n])]
      /\ stack' = IF BackInScript THEN <<>> ELSE SubSeq(below, 1, kept)
      /\ UNCHANGED <<listeners, registering, unregistering, pending, asked, undone, mixed>>
  BY DEF ReturnScript, lists
<1>3. /\ m \in Nat \ {0} /\ Top = frames[m] /\ Top \in CallFrames
      /\ Front(frames) \in Seq(CallFrames) /\ Len(Front(frames)) = m - 1
      /\ \A i \in 1..(m - 1) : Front(frames)[i] = frames[i]
  BY <1>1, <1>2, TopFacts
<1>4. /\ below \in Seq(ScriptValues) /\ size \in Nat /\ \A i \in 1..size : below[i] \in ScriptValues
      /\ Len(Order(Top)) \in 1..4 /\ (Top.argc = 1 /\ Top.event => Len(Order(Top)) = 2)
      /\ Top.argc \in 0..2
  <2>1. below \in Seq(ScriptValues) /\ Top.argc \in 0..2
    BY <1>3 DEF CallFrames
  <2>2. Len(Order(Top)) \in 1..4 /\ (Top.argc = 1 /\ Top.event => Len(Order(Top)) = 2)
    BY <1>3, OrderLength
  <2> HIDE DEF below
  <2>3. Len(below) \in Nat /\ \A i \in 1..Len(below) : below[i] \in ScriptValues
    BY <2>1, LenProperties, ElementOfSeq
  <2> QED BY <2>1, <2>2, <2>3
<1> HIDE DEF m, below, size
<1>5. /\ SubSeq(below, 1, kept) \in Seq(ScriptValues)
      /\ kept >= 1 => /\ Len(SubSeq(below, 1, kept)) = kept
                      /\ SubSeq(below, 1, kept)[kept] = below[kept]
  <2>1. kept \in Int /\ kept <= size /\ \A i \in 1..kept : below[i] \in ScriptValues
    BY <1>4
  <2> HIDE DEF kept
  <2>2. /\ SubSeq(below, 1, kept) \in Seq(ScriptValues)
        /\ Len(SubSeq(below, 1, kept)) = (IF 1 <= kept THEN kept - 1 + 1 ELSE 0)
        /\ \A i \in 1..(kept - 1 + 1) : SubSeq(below, 1, kept)[i] = below[1 + i - 1]
    BY <2>1, SubSeqProperties
  <2> QED BY <2>1, <2>2
<1>6. globals' \in [Names -> ScriptValues]
  <2>1. \A n \in Names : globals[n] \in ScriptValues
    BY <1>1 DEF ScriptsTypeOK
  <2>2. \A n \in Names : Given(Top, n, globals[n]) \in ScriptValues
    BY <2>1, <1>3, GivenType
  <2> QED BY <2>2, <1>2
<1>7. ScriptsTypeOK'
  <2>1. stack' \in Seq(ScriptValues)
    BY <1>2, <1>5, EmptySeq
  <2> QED BY <2>1, <1>1, <1>2, <1>3, <1>6 DEF ScriptsTypeOK
<1>8. WalksInside'
  <2>1. /\ Cardinality(SignalsIn(frames)) = Cardinality(SignalsIn(Front(frames)))
        /\ \A i \in SignalsIn(Front(frames)) : i \in SignalsIn(frames) /\ Front(frames)[i] = frames[i]
    BY <1>1, <1>2, FrontSignals
  <2>2. /\ pending = Cardinality(SignalsIn(frames))
        /\ \A i \in SignalsIn(frames) : frames[i].pos \in 0..Len(listeners)
    BY DEF ScriptsInv, WalksInside
  <2>3. /\ pending' = Cardinality(SignalsIn(frames'))
        /\ \A i \in SignalsIn(frames') : frames'[i].pos \in 0..Len(listeners')
    BY <2>1, <2>2, <1>2
  <2> QED BY <2>3 DEF WalksInside
<1>9. ListsInv'
  BY <1>2 DEF ScriptsInv, ListsInv, Wanted
<1>10. ASSUME ~mixed'
       PROVE  CallsFit(frames', stack') /\ History(frames', globals')
  <2>1. CallsFit(frames, stack) /\ History(frames, globals)
    BY <1>2, <1>10 DEF GlobalsInv
  <2>2. PICK before \in GlobalValues : History(Front(frames), before) /\ Called(Last(frames), before, globals)
    BY <2>1, <1>1, <1>2, HistoryShrinks
  <2>3. \A n \in Names : Given(Top, n, globals[n]) = before[n]
    BY <2>2, <1>2 DEF Called, Top
  <2>4. globals' = before
    BY <2>3, <1>2 DEF GlobalValues
  <2>5. ASSUME m > 1, frames[m - 1].kind = "signal", frames[m - 1].argc = 1
        PROVE  stack' # <<>> /\ Last(stack') = "name"
    <3>1. m - 1 \in 1..m /\ m \in 1..m /\ m - 1 < m /\ (m - 1) + 1 = m
      BY <1>3, <2>5
    <3>2. ScriptFits(frames, m) /\ SignalFits(frames, m - 1)
      BY <2>1, <3>1 DEF CallsFit, m
    <3>3. Top.event
      BY <3>1, <3>2, <2>5, <1>3 DEF SignalFits, m
    <3>4. Top.argc = 1 /\ size >= 4 /\ below[size - 3] = "name"
      BY <3>2, <3>3, <1>2, <1>3 DEF ScriptFits, below, size
    <3>5. kept = size - 3
      <4>1. Len(Order(Top)) = 2 /\ Top.argc = 1
        BY <3>3, <3>4, <1>4, Zenon
      <4> QED BY <4>1, <1>4
    <3>6. ~BackInScript
      BY <2>5 DEF BackInScript, m
    <3> DEFINE rest == SubSeq(below, 1, kept)
    <3>7. stack' = rest
      BY <3>6, <1>2
    <3>8. Len(rest) = kept /\ kept >= 1 /\ rest[kept] = "name"
      BY <3>4, <3>5, <1>4, <1>5
    <3> HIDE DEF rest, kept
    <3>9. rest # <<>>
      BY <3>8
    <3>10. Last(rest) = "name"
      BY <3>8 DEF Last
    <3> QED BY <3>7, <3>9, <3>10
  <2>6. CallsFit(Front(frames), stack')
    BY <2>1, <2>5, <1>1, <1>2, FrontFits DEF m
  <2> QED BY <2>2, <2>4, <2>6, <1>2
<1> QED BY <1>7, <1>8, <1>9, <1>10 DEF ScriptsInv, GlobalsInv

\* What waited is done when the last signal ends, and dropped when an inner one does.
LEMMA SettleKeeps ==
  ASSUME ScriptsTypeOK, ListsInv, pending >= 1, Settle
  PROVE  /\ listeners' \in Seq(Objects) /\ registering' = <<>> /\ unregistering' = <<>>
         /\ pending' = pending - 1 /\ pending' \in Nat
         /\ pending' > 0 => listeners' = listeners
         /\ asked' = asked /\ ListsInv'
<1>1. /\ listeners \in Seq(Objects) /\ registering \in Seq(Objects) /\ unregistering \in Seq(Objects)
      /\ pending \in Nat /\ asked \in [Objects -> {"register", "unregister"}]
  BY DEF ScriptsTypeOK
<1>2. /\ Distinct(listeners) /\ Distinct(registering)
      /\ \A x : ~(Has(listeners, x) /\ Has(registering, x))
      /\ \A x \in Objects \ undone : asked[x] = "register" <=> Wanted(x)
  BY DEF ListsInv
<1> DEFINE gone == ToSet(unregistering)
           come == ToSet(registering)
           left == Without(listeners, gone)
<1>3. /\ pending' = pending - 1 /\ registering' = <<>> /\ unregistering' = <<>> /\ asked' = asked
      /\ listeners' = IF pending - 1 > 0 THEN listeners ELSE left \o registering
      /\ undone' = IF pending - 1 > 0 THEN undone \cup gone \cup come ELSE undone
  BY DEF Settle
<1>4. \A x : (x \in gone <=> Has(unregistering, x)) /\ (x \in come <=> Has(registering, x))
  BY <1>1, ToSetHas
<1> HIDE DEF gone, come, left
<1>5. /\ left \in Seq(Objects) /\ Distinct(left)
      /\ \A x : Has(left, x) <=> Has(listeners, x) /\ x \notin gone
  BY <1>1, <1>2, WithoutFacts, WithoutDistinct DEF left
<1>6. /\ left \o registering \in Seq(Objects) /\ Distinct(left \o registering)
      /\ \A x : Has(left \o registering, x) <=> Has(left, x) \/ Has(registering, x)
  BY <1>1, <1>2, <1>5, ConcatFacts, ConcatDistinct
<1>7. /\ pending' \in Nat /\ \A x : ~Has(registering', x) /\ ~Has(unregistering', x)
  BY <1>1, <1>3, EmptyHasNothing
<1>8. Distinct(registering')
  BY <1>3 DEF Distinct
<1>9. CASE pending - 1 > 0
  <2>1. listeners' = listeners /\ undone' = undone \cup gone \cup come
    BY <1>3, <1>9
  <2>2. pending' # 0
    BY <1>1, <1>3, <1>9
  <2>3. ASSUME NEW x \in Objects \ undone'
        PROVE  asked'[x] = "register" <=> Wanted(x)'
    <3>1. x \in Objects \ undone /\ ~Has(unregistering, x) /\ ~Has(registering, x)
      BY <2>1, <1>4
    <3>2. Wanted(x) <=> Has(listeners, x)
      BY <3>1 DEF Wanted
    <3>3. Wanted(x)' <=> Has(listeners, x)
      BY <2>1, <1>7 DEF Wanted
    <3> QED BY <3>1, <3>2, <3>3, <1>2, <1>3
  <2>4. ListsInv'
    BY <2>1, <2>2, <2>3, <1>2, <1>7, <1>8 DEF ListsInv
  <2> QED BY <2>1, <2>4, <1>1, <1>3, <1>7
<1>10. CASE ~(pending - 1 > 0)
  <2>1. listeners' = left \o registering /\ undone' = undone
    BY <1>3, <1>10
  <2>2. ASSUME NEW x \in Objects \ undone'
        PROVE  asked'[x] = "register" <=> Wanted(x)'
    <3>1. Has(listeners', x) <=> (Has(listeners, x) /\ ~Has(unregistering, x)) \/ Has(registering, x)
      BY <2>1, <1>4, <1>5, <1>6
    <3>2. Wanted(x)' <=> Has(listeners', x)
      BY <1>7 DEF Wanted
    <3>3. Wanted(x)' <=> Wanted(x)
      BY <3>1, <3>2 DEF Wanted
    <3>4. asked[x] = "register" <=> Wanted(x)
      BY <2>1, <1>2
    <3> QED BY <3>3, <3>4, <1>3
  <2>3. ListsInv'
    BY <2>1, <2>2, <1>3, <1>6, <1>7, <1>8 DEF ListsInv
  <2>4. ~(pending' > 0)
    BY <1>3, <1>10
  <2> QED BY <2>1, <2>3, <2>4, <1>3, <1>6, <1>7
<1> QED BY <1>9, <1>10

\* The end of a signal, when what waited is done or dropped.
LEMMA SignalEndsKeeps ==
  ASSUME ScriptsInv, GlobalsInv, SignalEnds
  PROVE  ScriptsInv' /\ GlobalsInv'
<1> DEFINE m == Len(frames)
<1>1. ScriptsTypeOK /\ frames \in Seq(CallFrames) /\ ListsInv /\ pending \in Nat
  BY DEF ScriptsInv, ScriptsTypeOK
<1>2. /\ frames # <<>> /\ Top.kind = "signal" /\ frames' = Front(frames) /\ Settle
      /\ stack' = IF BackInScript THEN <<>> ELSE stack
      /\ UNCHANGED <<globals, mixed>>
  BY DEF SignalEnds
<1>3. /\ m \in Nat \ {0} /\ Top = frames[m]
      /\ Front(frames) \in Seq(CallFrames) /\ Len(Front(frames)) = m - 1
  BY <1>1, <1>2, TopFacts
<1>4. /\ Cardinality(SignalsIn(Front(frames))) \in Nat
      /\ Cardinality(SignalsIn(frames)) = Cardinality(SignalsIn(Front(frames))) + 1
      /\ \A i \in SignalsIn(Front(frames)) : i \in SignalsIn(frames) /\ Front(frames)[i] = frames[i]
  BY <1>1, <1>2, FrontSignals
<1>5. /\ pending = Cardinality(SignalsIn(frames))
      /\ \A i \in SignalsIn(frames) : frames[i].pos \in 0..Len(listeners)
  BY DEF ScriptsInv, WalksInside
<1>6. pending >= 1 /\ pending - 1 = Cardinality(SignalsIn(Front(frames)))
  BY <1>4, <1>5
<1>7. /\ listeners' \in Seq(Objects) /\ registering' = <<>> /\ unregistering' = <<>>
      /\ pending' = pending - 1 /\ pending' \in Nat
      /\ pending' > 0 => listeners' = listeners
      /\ asked' = asked /\ ListsInv'
  BY <1>1, <1>2, <1>6, SettleKeeps
<1> HIDE DEF m
<1>8. ScriptsTypeOK'
  <2>1. stack' \in Seq(ScriptValues) /\ <<>> \in Seq(Objects)
    BY <1>1, <1>2, EmptySeq DEF ScriptsTypeOK
  <2> QED BY <2>1, <1>1, <1>2, <1>3, <1>7 DEF ScriptsTypeOK
<1>9. WalksInside'
  <2>1. CASE pending' > 0
    <3>1. pending' = Cardinality(SignalsIn(Front(frames)))
      BY <1>6, <1>7
    <3>2. ASSUME NEW i \in SignalsIn(Front(frames))
          PROVE  Front(frames)[i].pos \in 0..Len(listeners')
      <4>1. listeners' = listeners
        BY <2>1, <1>7
      <4> QED BY <4>1, <1>4, <1>5
    <3> QED BY <3>1, <3>2, <1>2, Zenon DEF WalksInside
  <2>2. CASE ~(pending' > 0)
    <3>1. pending' = 0
      <4>1. pending' \in Nat
        BY <1>7
      <4> QED BY <4>1, <2>2
    <3>2. IsFiniteSet(SignalsIn(Front(frames)))
      <4>1. m - 1 \in Nat
        BY <1>3
      <4>2. IsFiniteSet(1..(m - 1))
        BY <4>1, FS_Interval
      <4>3. SignalsIn(Front(frames)) \in SUBSET (1..(m - 1))
        BY <1>3 DEF SignalsIn
      <4> QED BY <4>2, <4>3, FS_Subset
    <3>3. SignalsIn(Front(frames)) = {}
      BY <3>1, <3>2, <1>6, <1>7, FS_EmptySet
    <3>4. /\ pending' = Cardinality(SignalsIn(frames'))
          /\ \A i \in SignalsIn(frames') : frames'[i].pos \in 0..Len(listeners')
      BY <3>3, <1>2, <1>6, <1>7
    <3> QED BY <3>4 DEF WalksInside
  <2> QED BY <2>1, <2>2
<1>10. ASSUME ~mixed'
       PROVE  CallsFit(frames', stack') /\ History(frames', globals')
  <2>1. CallsFit(frames, stack) /\ History(frames, globals)
    BY <1>2, <1>10 DEF GlobalsInv
  <2>2. PICK before \in GlobalValues : History(Front(frames), before) /\ Called(Last(frames), before, globals)
    BY <2>1, <1>1, <1>2, HistoryShrinks
  <2>3. globals = before
    BY <2>2, <1>2 DEF Called, Top
  <2>4. ASSUME m > 1, frames[m - 1].kind = "signal"
        PROVE  FALSE
    <3>1. m - 1 \in 1..m /\ m - 1 < m /\ (m - 1) + 1 = m
      BY <1>3, <2>4
    <3>2. SignalFits(frames, m - 1)
      BY <2>1, <3>1 DEF CallsFit, m
    <3>3. Top.kind = "script"
      BY <3>1, <3>2, <2>4, <1>3 DEF SignalFits, m
    <3> QED BY <3>3, <1>2
  <2>5. CallsFit(Front(frames), stack')
    BY <2>1, <2>4, <1>1, <1>2, FrontFits DEF m
  <2> QED BY <2>2, <2>3, <2>5, <1>2
<1> QED BY <1>7, <1>8, <1>9, <1>10 DEF ScriptsInv, GlobalsInv

-----------------------------------------------------------------------------
(* The theorem *)

LEMMA ScriptsStart ==
  ASSUME IsFiniteSet(Objects), ScriptsInit
  PROVE  ScriptsInv /\ GlobalsInv
<1>1. /\ registering = <<>> /\ unregistering = <<>> /\ pending = 0 /\ frames = <<>> /\ stack = <<>>
      /\ globals = [n \in Names |-> nothing] /\ undone = {} /\ mixed = FALSE
      /\ asked = [o \in Objects |-> IF listeners = <<>> THEN "unregister" ELSE "register"]
      /\ listeners \in SetToSeqs({}) \cup SetToSeqs(Objects)
  BY DEF ScriptsInit
<1>2. /\ listeners \in Seq(Objects) /\ Distinct(listeners)
      /\ listeners # <<>> => \A o \in Objects : Has(listeners, o)
  <2>1. CASE listeners \in SetToSeqs({})
    <3>1. Cardinality({}) = 0
      BY FS_EmptySet
    <3>2. listeners \in [1..0 -> {}]
      BY <2>1, <3>1 DEF SetToSeqs
    <3>3. listeners = <<>>
      BY <3>2
    <3> QED BY <3>3, EmptySeq DEF Distinct
  <2>2. CASE listeners \in SetToSeqs(Objects)
    <3> DEFINE k == Cardinality(Objects)
    <3>1. k \in Nat
      BY FS_CardinalityType
    <3>2. /\ listeners \in [1..k -> Objects]
          /\ \A i, j \in 1..k : i # j => listeners[i] # listeners[j]
      BY <2>2, Zenon DEF SetToSeqs
    <3> HIDE DEF k
    <3>3. listeners \in Seq(Objects) /\ Len(listeners) = k
      BY <3>1, <3>2, LenProperties, IsASeq, SeqDef
    <3>4. Distinct(listeners)
      BY <3>2, <3>3 DEF Distinct
    <3>5. listeners \in Injection(1..k, Objects)
      BY <3>2 DEF Injection, IsInjective
    <3>6. Cardinality(1..k) = k
      BY <3>1, FS_Interval
    <3>7. listeners \in Surjection(1..k, Objects)
      BY <3>5, <3>6, FS_Injection DEF k
    <3>8. \A o \in Objects : Has(listeners, o)
      BY <3>3, <3>7 DEF Surjection, Has
    <3> QED BY <3>3, <3>4, <3>8
  <2> QED BY <1>1, <2>1, <2>2
<1>3. <<>> \in Seq(Objects) /\ <<>> \in Seq(CallFrames) /\ <<>> \in Seq(ScriptValues) /\ Len(<<>>) = 0
  BY EmptySeq
<1>4. ScriptsTypeOK
  BY <1>1, <1>2, <1>3 DEF ScriptsTypeOK, ScriptValues
<1>5. WalksInside
  <2>1. SignalsIn(frames) = {}
    BY <1>1, <1>3 DEF SignalsIn
  <2> QED BY <2>1, <1>1, FS_EmptySet DEF WalksInside
<1>6. ListsInv
  <2>1. \A x : ~Has(registering, x) /\ ~Has(unregistering, x)
    BY <1>1, EmptyHasNothing
  <2>2. ASSUME NEW o \in Objects
        PROVE  asked[o] = "register" <=> Wanted(o)
    <3>1. CASE listeners = <<>>
      <4>1. ~Has(listeners, o)
        BY <3>1, EmptyHasNothing
      <4> QED BY <4>1, <3>1, <2>1, <1>1 DEF Wanted
    <3>2. CASE listeners # <<>>
      BY <3>2, <2>1, <1>1, <1>2 DEF Wanted
    <3> QED BY <3>1, <3>2
  <2>3. Distinct(registering)
    BY <1>1 DEF Distinct
  <2> QED BY <2>1, <2>2, <2>3, <1>1, <1>2 DEF ListsInv
<1>7. GlobalsInv
  <2>1. CallsFit(frames, stack)
    BY <1>1, <1>3 DEF CallsFit
  <2>2. History(frames, globals)
    <3> DEFINE z == [n \in Names |-> nothing]
               g == [i \in 0..0 |-> z]
    <3>1. z \in GlobalValues
      BY DEF GlobalValues, ScriptValues
    <3> HIDE DEF z
    <3>2. g \in [0..0 -> GlobalValues] /\ g[0] = z
      BY <3>1
    <3> HIDE DEF g
    <3>3. Len(frames) = 0 /\ globals = z
      BY <1>1, <1>3 DEF z
    <3>4. /\ g \in [0..Len(frames) -> GlobalValues]
          /\ g[0] = z /\ g[Len(frames)] = globals
          /\ \A i \in 1..Len(frames) : Called(frames[i], g[i - 1], g[i])
      BY <3>2, <3>3
    <3> QED BY <3>4 DEF History, z
  <2> QED BY <2>1, <2>2 DEF GlobalsInv
<1> QED BY <1>4, <1>5, <1>6, <1>7 DEF ScriptsInv

\* No step breaks the invariants.
LEMMA ScriptsStep ==
  ASSUME ScriptsInv, GlobalsInv, [ScriptsNext]_scriptVars
  PROVE  ScriptsInv' /\ GlobalsInv'
<1>1. CASE UNCHANGED scriptVars
  BY <1>1 DEF scriptVars, ScriptsInv, ScriptsTypeOK, WalksInside, ListsInv, Wanted, GlobalsInv, CallsFit,
              History, ScriptFits, SignalFits
<1>2. CASE \E o \in Objects : RegisterScriptEvent(o) \/ UnregisterScriptEvent(o)
  BY <1>2, RegisterKeeps, UnregisterKeeps, ListActionsKeepGlobals
<1>3. CASE \E o \in Objects, argc \in 0..1 : RunScript(o, argc)
  BY <1>3, RunScriptKeeps
<1>4. CASE \E argc \in 1..2 : SignalEvent(argc)
  BY <1>4, SignalEventKeeps
<1>5. CASE CallListener
  BY <1>5, CallListenerKeeps
<1>6. CASE SignalEnds
  BY <1>6, SignalEndsKeeps
<1>7. CASE ReturnScript
  BY <1>7, ReturnScriptKeeps
<1> QED BY <1>1, <1>2, <1>3, <1>4, <1>5, <1>6, <1>7 DEF ScriptsNext

\* Between signals those listen whose last call asked for it.
LEMMA LastCallsWin ==
  ASSUME ScriptsInv PROVE LastCallWins
<1>1. listeners \in Seq(Objects) /\ Distinct(listeners)
  BY DEF ScriptsInv, ScriptsTypeOK, ListsInv
<1>2. DOMAIN listeners = 1..Len(listeners)
  BY <1>1, LenProperties
<1>3. IsInjective(listeners)
  BY <1>1, <1>2 DEF IsInjective, Distinct
<1>4. ASSUME pending = 0, NEW o \in Objects \ undone
      PROVE  o \in ToSet(listeners) <=> asked[o] = "register"
  <2>1. registering = <<>> /\ unregistering = <<>> /\ (asked[o] = "register" <=> Wanted(o))
    BY <1>4 DEF ScriptsInv, ListsInv
  <2>2. Wanted(o) <=> Has(listeners, o)
    BY <2>1, EmptyHasNothing DEF Wanted
  <2>3. o \in ToSet(listeners) <=> Has(listeners, o)
    BY <1>1, ToSetHas
  <2> QED BY <2>1, <2>2, <2>3
<1> QED BY <1>3, <1>4 DEF LastCallWins

\* The running script's globals are its own, and without scripts they are empty.
LEMMA TheySeeThemselves ==
  ASSUME ScriptsInv, GlobalsInv PROVE ScriptsSeeThemselves
<1> DEFINE m == Len(frames)
<1>1. ScriptsTypeOK /\ frames \in Seq(CallFrames) /\ m \in Nat /\ DOMAIN frames = 1..m
  BY LenProperties DEF ScriptsInv, ScriptsTypeOK
<1>2. SUFFICES ASSUME ~mixed
               PROVE  /\ frames # <<>> /\ Top.kind = "script" =>
                           globals["this"] = Top.object /\ (Top.event => globals["event"] = "name")
                      /\ (\A i \in DOMAIN frames : frames[i].kind = "signal") =>
                           \A n \in Names : globals[n] = nothing
  BY DEF ScriptsSeeThemselves
<1>3. CallsFit(frames, stack) /\ History(frames, globals)
  BY <1>2 DEF GlobalsInv
<1>4. PICK g \in [0..m -> GlobalValues] :
        /\ g[0] = [n \in Names |-> nothing] /\ g[m] = globals
        /\ \A i \in 1..m : Called(frames[i], g[i - 1], g[i])
  BY <1>3 DEF History
<1> HIDE DEF m
<1>5. ASSUME frames # <<>>, Top.kind = "script"
      PROVE  globals["this"] = Top.object /\ (Top.event => globals["event"] = "name")
  <2>1. m \in 1..m /\ Top = frames[m]
    BY <1>1, <1>5, TopFacts DEF m
  <2>2. Called(Top, g[m - 1], globals)
    BY <2>1, <1>4
  <2> QED BY <2>2, <1>5 DEF Called
<1>6. ASSUME \A i \in 1..m : frames[i].kind = "signal", NEW n \in Names
      PROVE  globals[n] = nothing
  <2>1. m = 0 \/ m = 1
    <3>1. SUFFICES ASSUME m >= 2 PROVE FALSE
      BY <1>1
    <3>2. 1 \in 1..m /\ 2 \in 1..m /\ 1 < m /\ 1 + 1 = 2
      BY <3>1, <1>1
    <3>3. SignalFits(frames, 1) /\ frames[1].kind = "signal" /\ frames[2].kind = "signal"
      BY <3>2, <1>3, <1>6 DEF CallsFit, m
    <3> QED BY <3>2, <3>3 DEF SignalFits, m
  <2>2. globals = g[0]
    <3>1. CASE m = 0
      BY <3>1, <1>4
    <3>2. CASE m = 1
      <4>1. Called(frames[1], g[0], g[1]) /\ frames[1].kind = "signal"
        BY <3>2, <1>4, <1>6
      <4> QED BY <4>1, <3>2, <1>4 DEF Called
    <3> QED BY <2>1, <3>1, <3>2
  <2> QED BY <2>2, <1>4
<1> QED BY <1>1, <1>5, <1>6

\* A list is not changed while a signal walks it.
LEMMA WalksAreStable ==
  ASSUME [ScriptsNext]_scriptVars, pending > 0, pending' > 0
  PROVE  listeners' = listeners
<1>1. CASE UNCHANGED scriptVars
  BY <1>1 DEF scriptVars
<1>2. CASE \E o \in Objects : RegisterScriptEvent(o) \/ UnregisterScriptEvent(o)
  BY <1>2 DEF RegisterScriptEvent, UnregisterScriptEvent
<1>3. CASE \E o \in Objects, argc \in 0..1 : RunScript(o, argc)
  BY <1>3 DEF RunScript, lists
<1>4. CASE \E argc \in 1..2 : SignalEvent(argc)
  BY <1>4 DEF SignalEvent
<1>5. CASE CallListener
  BY <1>5 DEF CallListener, lists
<1>6. CASE SignalEnds
  BY <1>6 DEF SignalEnds, Settle
<1>7. CASE ReturnScript
  BY <1>7 DEF ReturnScript, lists
<1> QED BY <1>1, <1>2, <1>3, <1>4, <1>5, <1>6, <1>7 DEF ScriptsNext

\* The lists and the globals are what the invariants say, always.
LEMMA ScriptsInvariant ==
  ASSUME IsFiniteSet(Objects) PROVE ScriptsSpec => [](ScriptsInv /\ GlobalsInv)
<1>1. ScriptsInit => ScriptsInv /\ GlobalsInv
  BY ScriptsStart
<1>2. (ScriptsInv /\ GlobalsInv) /\ [ScriptsNext]_scriptVars => (ScriptsInv /\ GlobalsInv)'
  BY ScriptsStep
<1> QED BY <1>1, <1>2, PTL DEF ScriptsSpec

\* However scripts register, unregister, signal and run others in the middle of signals and of
\* each other: between signals those listen whose last call asked for it, unless the request was
\* one of those dropped; a list is not changed while it is walked; and while no event had
\* arguments, a script finds its own object and event in the globals and puts back what it found.
THEOREM EventsKept ==
  ASSUME IsFiniteSet(Objects) PROVE ScriptsSpec => EventsAreKept
<1>1. ScriptsSpec => [](ScriptsInv /\ GlobalsInv)
  BY ScriptsInvariant
<1>2. ScriptsInv /\ GlobalsInv => LastCallWins /\ ScriptsSeeThemselves
  BY LastCallsWin, TheySeeThemselves
<1>3. [ScriptsNext]_scriptVars => [pending > 0 /\ pending' > 0 => listeners' = listeners]_scriptVars
  BY WalksAreStable
<1> QED BY <1>1, <1>2, <1>3, PTL DEF ScriptsSpec, EventsAreKept, WalkIsStable
=============================================================================
