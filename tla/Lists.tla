------------------------------- MODULE Lists -------------------------------
(***************************************************************************)
(* What the pages do with their arrays: filter, splice and the parts of    *)
(* two lists that agree.                                                   *)
(***************************************************************************)
EXTENDS Integers, Sequences, FiniteSets, Functions

\* The elements of a sequence that are in a set, in their order.
Kept(s, S) ==
  LET kept[n \in 0..Len(s)] ==
        IF n = 0 THEN << >>
        ELSE IF s[n] \in S THEN Append(kept[n - 1], s[n]) ELSE kept[n - 1]
  IN kept[Len(s)]

\* A sequence without its element at one index.
Spliced(s, i) == SubSeq(s, 1, i - 1) \o SubSeq(s, i + 1, Len(s))

\* t is s with more at its end, or with more at its front.
Begins(s, t) == \E n \in 0..Len(t) : s = SubSeq(t, 1, n)
Ends(s, t) == \E n \in 0..Len(t) : s = SubSeq(t, n + 1, Len(t))

\* The elements of a set in the order of R, a relation that is total on it.
Ranked(S, R) ==
  [r \in 1..Cardinality(S) |-> CHOOSE x \in S : Cardinality({y \in S : <<y, x>> \in R}) = r - 1]

\* Lists one after the other.
Joined(lists) ==
  LET joined[n \in 0..Len(lists)] == IF n = 0 THEN << >> ELSE joined[n - 1] \o lists[n]
  IN joined[Len(lists)]

\* A set with an element more, or without it when it has it.
Toggled(S, e) == IF e \in S THEN S \ {e} ELSE S \cup {e}
=============================================================================
