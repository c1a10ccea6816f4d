------------------------------- MODULE Lists -------------------------------
(***************************************************************************)
(* The operators on sequences that the modules with proofs are written     *)
(* with.  SequencesExt has them all, under the same names and with the     *)
(* same meaning, but extends Bags and TLC: each proof obligation would     *)
(* carry these along, at a multiple of the cost.                           *)
(***************************************************************************)
EXTENDS Integers, Sequences, FiniteSetsExt

Last(s) == s[Len(s)]
Front(s) == SubSeq(s, 1, Len(s) - 1)

IsPrefix(s, t) == Len(s) <= Len(t) /\ SubSeq(s, 1, Len(s)) = SubSeq(t, 1, Len(s))
IsStrictPrefix(s, t) == IsPrefix(s, t) /\ s # t

InsertAt(s, i, e) == SubSeq(s, 1, i - 1) \o <<e>> \o SubSeq(s, i, Len(s))
RemoveAt(s, i) == SubSeq(s, 1, i - 1) \o SubSeq(s, i + 1, Len(s))

\* The first position with Test, or 0.
SelectInSeq(s, Test(_)) ==
    LET found == {i \in 1..Len(s) : Test(s[i])}
    IN  IF found = {} THEN 0 ELSE Min(found)

\* s without its first e, if it has one.
RemoveFirst(s, e) ==
    IF \E i \in 1..Len(s) : s[i] = e THEN RemoveAt(s, SelectInSeq(s, LAMBDA v : v = e)) ELSE s

\* op applied to the elements of s from the left, starting with b.
FoldLeft(op(_, _), b, s) ==
    MapThenFoldSet(LAMBDA e, r : op(r, e), b, LAMBDA i : s[i], LAMBDA I : Max(I), DOMAIN s)
=============================================================================
