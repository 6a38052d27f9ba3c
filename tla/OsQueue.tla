------------------------------ MODULE OsQueue ------------------------------
(***************************************************************************)
(* The ring buffer of src/event/Input.cpp between the platform's window    *)
(* procedures, which put input events into it, and IEvtInputProcess, which *)
(* takes them out: OsQueuePut, OsQueueGet and OsQueueSetParam.             *)
(*                                                                         *)
(* An event's parameters are one value; the fourth, which OsInputGet sets  *)
(* to the current time in every queued event, is kept apart.               *)
(***************************************************************************)
EXTENDS Integers, Sequences

CONSTANTS Size,    \* OS_QUEUE_SIZE (32)
          Events,  \* id and parameters 0 to 2 of an OSEVENT
          Times,   \* parameter 3
          Blank    \* an OSEVENT of zeroes, as s_queue is filled with at first

ASSUME OsQueueAssumption ==
  /\ Size \in Nat \ {0, 1}
  /\ Blank \in [event : Events, time : Times]

Slots == 0..(Size - 1)
Entry == [event : Events, time : Times]

VARIABLES queue,  \* s_queue
          head,   \* s_queueHead: the slot the next event goes into
          tail,   \* s_queueTail: the slot of the oldest event
          taken   \* what OsQueueGet returned last

ringVars == <<queue, head, tail, taken>>

TypeOK == /\ queue \in [Slots -> Entry]
          /\ head \in Slots /\ tail \in Slots
          /\ taken \in Entry

Init == /\ queue = [p \in Slots |-> Blank]
        /\ head = 0 /\ tail = 0
        /\ taken = Blank

\* The slot after slot i.
After(i) == IF i = Size - 1 THEN 0 ELSE i + 1

\* Wrong variant: the head runs over the oldest event.
PutOverTail(e) ==
  /\ queue' = [queue EXCEPT ![head] = e]
  /\ head' = After(head)
  /\ UNCHANGED <<tail, taken>>

\* OsQueuePut: when the head would meet the tail, the oldest event is dropped.
Put(e) ==
  /\ queue' = [queue EXCEPT ![head] = e]
  /\ head' = After(head)
  /\ tail' = IF After(head) = tail THEN After(tail) ELSE tail
  /\ UNCHANGED taken

\* OsQueueGet, when it returns 1.
Get == /\ tail # head
       /\ taken' = queue[tail]
       /\ tail' = After(tail)
       /\ UNCHANGED <<queue, head>>

\* The slots from the tail up to the head, around the end of the array.
Occupied(p) == IF tail <= head THEN tail <= p /\ p < head ELSE tail <= p \/ p < head

\* OsQueueSetParam(3, t).
SetParam(t) ==
  /\ queue' = [p \in Slots |-> IF Occupied(p) THEN [queue[p] EXCEPT !.time = t] ELSE queue[p]]
  /\ UNCHANGED <<head, tail, taken>>

Next == \/ \E e \in Entry : Put(e)
        \/ Get
        \/ \E t \in Times : SetParam(t)

Spec == Init /\ [][Next]_ringVars

-----------------------------------------------------------------------------
(* The ring is a queue of at most Size - 1 events that drops the oldest.   *)

Count == IF tail <= head THEN head - tail ELSE head - tail + Size

\* The slot of the i-th oldest event.
SlotOf(i) == IF tail + i - 1 < Size THEN tail + i - 1 ELSE tail + i - 1 - Size

Contents == [i \in 1..Count |-> queue[SlotOf(i)]]

Fifo == INSTANCE DropOldestQueue WITH contents <- Contents, Capacity <- Size - 1

\* OsQueue implements DropOldestQueue: events come out in the order they went
\* in, none is lost while fewer than Size - 1 wait, and a full ring gives up
\* its oldest event and nothing else.
ImplementsFifo == Fifo!Spec
=============================================================================
