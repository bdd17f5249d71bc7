------------------------------- MODULE Lists -------------------------------
(***************************************************************************)
(* Python's lists, as plan_fit and the bulk add cut and filter them.       *)
(***************************************************************************)
EXTENDS Integers, Sequences

\* Slicing a list: s[:n].
First(s, n) == SubSeq(s, 1, IF n < Len(s) THEN n ELSE Len(s))

\* A list comprehension: the elements of s at the indices in kept.
Filter(s, kept) ==
  LET upTo[n \in 0..Len(s)] ==
        IF n = 0 THEN <<>>
        ELSE IF n \in kept THEN Append(upTo[n - 1], s[n]) ELSE upTo[n - 1]
  IN  upTo[Len(s)]
=============================================================================
