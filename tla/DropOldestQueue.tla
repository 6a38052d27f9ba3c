-------------------------- MODULE DropOldestQueue --------------------------
(***************************************************************************)
(* A first-in first-out queue of bounded capacity that makes room for a    *)
(* new event by dropping the oldest one: what the ring buffer of OsQueue   *)
(* promises its users.                                                     *)
(***************************************************************************)
EXTENDS Integers, Sequences

CONSTANTS Events,    \* what an event says, its time aside
          Times,     \* the times it may be stamped with
          Capacity   \* how many events the queue holds

VARIABLES contents,  \* the events waiting, oldest first
          taken      \* the event taken last

vars == <<contents, taken>>

Entry == [event : Events, time : Times]

Init == contents = <<>> /\ taken \in Entry

Put(e) ==
  /\ contents' = Append(IF Len(contents) = Capacity THEN Tail(contents) ELSE contents, e)
  /\ UNCHANGED taken

Get == /\ contents # <<>>
       /\ taken' = Head(contents)
       /\ contents' = Tail(contents)

\* Stamps every waiting event.
SetTime(t) == /\ contents' = [i \in 1..Len(contents) |-> [contents[i] EXCEPT !.time = t]]
              /\ UNCHANGED taken

Next == \/ \E e \in Entry : Put(e)
        \/ Get
        \/ \E t \in Times : SetTime(t)

Spec == Init /\ [][Next]_vars
=============================================================================
