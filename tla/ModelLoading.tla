---------------------------- MODULE ModelLoading ----------------------------
(***************************************************************************)
(* What the model cache promises its callers about an M2 model, whatever   *)
(* the disk thread does: a model that is created is read in two stages,    *)
(* first the model file and then its skin profile, each of which may turn  *)
(* out to be unusable; and a caller that waits for a model gets control    *)
(* back only when the model is settled, one way or the other.              *)
(*                                                                         *)
(* AsyncFile describes the threads, lists and flags that bring this about, *)
(* and implements this specification.                                      *)
(***************************************************************************)

CONSTANTS Shareds,     \* the CM2Shared objects the program creates
          NoShared     \* no model is waited for

VARIABLES stage,       \* how far each model has got
          waitedFor    \* the model the main thread waits for

vars == <<stage, waitedFor>>

Stages == {"absent", "reading", "readingSkin", "loaded", "failed"}
Settled == {"loaded", "failed"}

TypeOK == /\ stage \in [Shareds -> Stages]
          /\ waitedFor \in Shareds \cup {NoShared}

Init == /\ stage = [s \in Shareds |-> "absent"]
        /\ waitedFor = NoShared

Move(s, from, to) == /\ stage[s] = from
                     /\ stage' = [stage EXCEPT ![s] = to]
                     /\ UNCHANGED waitedFor

Create(s)    == waitedFor = NoShared /\ Move(s, "absent", "reading")
HaveModel(s) == Move(s, "reading", "readingSkin")
HaveSkin(s)  == Move(s, "readingSkin", "loaded")
Reject(s)    == Move(s, "reading", "failed") \/ Move(s, "readingSkin", "failed")

Wait(s) == /\ waitedFor = NoShared
           /\ stage[s] \in {"reading", "readingSkin"}
           /\ waitedFor' = s
           /\ UNCHANGED stage

Return == /\ waitedFor # NoShared
          /\ stage[waitedFor] \in Settled
          /\ waitedFor' = NoShared
          /\ UNCHANGED stage

Settle(s) == HaveModel(s) \/ HaveSkin(s) \/ Reject(s)

Next == \/ \E s \in Shareds : Create(s) \/ Settle(s) \/ Wait(s)
        \/ Return

Spec == Init /\ [][Next]_vars
             /\ \A s \in Shareds : WF_vars(Settle(s))
             /\ WF_vars(Return)
=============================================================================
