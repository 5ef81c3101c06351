------------------------------- MODULE Filter -------------------------------
(***************************************************************************)
(* What is left of a sequence when a part of it is taken out: the retain   *)
(* that drops calls and results without their other half from a prompt,    *)
(* and that takes an input out of a queue.  Written as a recursive         *)
(* function, from which QueryLoopProofs derives what it keeps.             *)
(***************************************************************************)
EXTENDS Integers, Sequences

(* The members of s that are in S, in their order: SelectSeq, with a set for *)
(* the test.                                                                 *)
Only(s, S) ==
  LET F[n \in 0..Len(s)] ==
        IF n = 0 THEN <<>>
        ELSE IF s[n] \in S THEN Append(F[n - 1], s[n])
        ELSE F[n - 1]
  IN  F[Len(s)]
=============================================================================
