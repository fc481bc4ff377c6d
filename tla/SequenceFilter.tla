--------------------------- MODULE SequenceFilter ---------------------------
(***************************************************************************)
(* What a walk over a list leaves of it when it unlinks the elements that   *)
(* are not in a set: the others, in their order.  It is a function and not  *)
(* SelectSeq so that it can be reasoned about.                              *)
(***************************************************************************)
EXTENDS Integers, Sequences

\* what is left of each prefix of s
Walk(s, S) ==
    LET left[i \in 0 .. Len(s)] ==
            IF i = 0 THEN <<>>
            ELSE IF s[i] \in S THEN Append(left[i - 1], s[i])
            ELSE left[i - 1]
    IN  left

Filter(s, S) == Walk(s, S)[Len(s)]
=============================================================================
