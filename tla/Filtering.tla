----------------------------- MODULE Filtering -----------------------------
(* The list comprehension [x for x in s if x in keep].  It is SelectSeq,   *)
(* with a set for the test and the recursion written out, so that the      *)
(* provers can reason about it.                                            *)
EXTENDS Naturals, Sequences

Filter(s, keep) ==
  LET kept[i \in 0..Len(s)] ==
        IF i = 0 THEN <<>>
        ELSE IF s[i] \in keep THEN Append(kept[i - 1], s[i]) ELSE kept[i - 1]
  IN  kept[Len(s)]
=============================================================================
