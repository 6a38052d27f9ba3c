----------------------------- MODULE StateStack -----------------------------
(* What CGxDevice promises the code that draws: a current value for every  *)
(* render state, and a stack.  Push remembers all of the current values,   *)
(* Pop brings them back.                                                   *)
EXTENDS Integers, Sequences

CONSTANTS States, Values

VARIABLES current, saved

vars == <<current, saved>>

Init == /\ current \in [States -> Values]
        /\ saved = <<>>

Set(s, v) == /\ current' = [current EXCEPT ![s] = v]
             /\ UNCHANGED saved

Push == /\ saved' = Append(saved, current)
        /\ UNCHANGED current

Pop == /\ saved # <<>>
       /\ current' = saved[Len(saved)]
       /\ saved' = SubSeq(saved, 1, Len(saved) - 1)

Next == Push \/ Pop \/ \E s \in States, v \in Values : Set(s, v)

Spec == Init /\ [][Next]_vars
=============================================================================
