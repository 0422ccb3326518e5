------------------------------- MODULE Slices -------------------------------
(***************************************************************************)
(* The Go slices of orders that the books are made of.  (SequencesExt has  *)
(* some of these operators, but also extends Bags, in whose scope the      *)
(* proof system is several times slower.)                                  *)
(***************************************************************************)
EXTENDS Integers, Sequences, FiniteSetsExt

Contains(s, x) == \E i \in 1..Len(s) : s[i] = x

\* Where a loop over s finds the first element that passes the test; 0 if it
\* finds none.
FirstIndex(s, Test(_)) ==
    LET I == {i \in 1..Len(s) : Test(s[i])}
    IN  IF I # {} THEN Min(I) ELSE 0

InsertAt(s, i, x) == SubSeq(s, 1, i - 1) \o <<x>> \o SubSeq(s, i, Len(s))

\* removeOrderIndex: s without its i-th element.
removeOrderIndex(s, i) == SubSeq(s, 1, i - 1) \o SubSeq(s, i + 1, Len(s))

\* Mutant: the order stays in the slice.
removeOrderFromSlice_missing(s, id) == s

\* removeOrderFromSlice: s without the first order that has the given id.
removeOrderFromSlice(s, id) ==
    LET i == FirstIndex(s, LAMBDA x : x = id)
    IN  IF i = 0 THEN s ELSE removeOrderIndex(s, i)
=============================================================================
