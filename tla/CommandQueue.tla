---------------------------- MODULE CommandQueue ----------------------------
(***************************************************************************)
(* What GLWorker promises to drawing code: what is sent is executed in     *)
(* that order, and who waits goes on when all of it has been - or too      *)
(* early, when the wait is cut short.  The answer to that wait is then     *)
(* overdue, and as long as it is, it may be taken for that of another.     *)
(***************************************************************************)
EXTENDS Naturals, Sequences

CONSTANT NextNumber(_)  \* numbers the commands

VARIABLES commands, waiting, overdue, sent

vars == <<commands, waiting, overdue, sent>>

Init == commands = <<>> /\ ~waiting /\ ~overdue /\ sent = 0

Send ==
  /\ ~waiting
  /\ sent' = NextNumber(sent) /\ commands' = Append(commands, sent')
  /\ UNCHANGED <<waiting, overdue>>

Execute == commands # <<>> /\ commands' = Tail(commands) /\ UNCHANGED <<waiting, overdue, sent>>

Wait == ~waiting /\ waiting' /\ UNCHANGED <<commands, overdue, sent>>
CutShort == waiting /\ ~overdue /\ overdue' /\ UNCHANGED <<commands, waiting, sent>>
WaitEnds ==
  /\ waiting /\ (commands = <<>> \/ overdue)
  /\ ~waiting' /\ UNCHANGED <<commands, overdue, sent>>
Answer == overdue /\ ~overdue' /\ UNCHANGED <<commands, waiting, sent>>

Safe == Init /\ [][Send \/ Execute \/ Wait \/ CutShort \/ WaitEnds \/ Answer]_vars
=============================================================================
