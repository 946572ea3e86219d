--------------------------------- MODULE Filter --------------------------------
(****************************************************************************)
(* What a loop over a list leaves of it: the elements of s that are in S,   *)
(* in their order.  (SelectSeq, with a set in place of a predicate, and     *)
(* with its recursion in sight of the provers.)                             *)
(****************************************************************************)
EXTENDS Naturals, Sequences

Keep(s, S) ==
    LET kept[n \in 0..Len(s)] ==
            IF n = 0 THEN <<>>
            ELSE IF s[n] \in S THEN Append(kept[n - 1], s[n]) ELSE kept[n - 1]
    IN  kept[Len(s)]
===============================================================================
