------------------------------ MODULE Sublists ------------------------------
(***************************************************************************)
(* What a loop leaves of a sequence when it passes some of its elements    *)
(* over.  SelectSeq says the same; as a recursive function it can be       *)
(* reasoned about.                                                         *)
(***************************************************************************)
EXTENDS Integers, Sequences

\* q without the elements of S.
Without(q, S) ==
  LET f[i \in 0..Len(q)] ==
        IF i = 0 THEN <<>> ELSE IF q[i] \in S THEN f[i - 1] ELSE Append(f[i - 1], q[i])
  IN  f[Len(q)]
=============================================================================
