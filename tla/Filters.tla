------------------------------ MODULE Filters ------------------------------
(***************************************************************************)
(* The elements of a list that a loop over it leaves in place. What        *)
(* SelectSeq does, with the test given as a set: the prover cannot expand  *)
(* SelectSeq, whose test is an operator.                                   *)
(***************************************************************************)
EXTENDS Integers, Sequences

Filter(s, K) ==
  LET F[i \in 0..Len(s)] ==
        IF i = 0 THEN <<>>
        ELSE IF s[i] \in K THEN Append(F[i - 1], s[i]) ELSE F[i - 1]
  IN  F[Len(s)]
=============================================================================
