----------------------------- MODULE Selection -----------------------------
(***************************************************************************)
(* The elements of a sequence at some of its places, in their order: what  *)
(* a list comprehension with a condition makes of a list.  The condition   *)
(* is given as the set of the places where it holds.                       *)
(***************************************************************************)
EXTENDS Naturals, Sequences

Selection(s, places) ==
  LET upTo[n \in 0..Len(s)] ==
        IF n = 0 THEN <<>>
        ELSE IF n \in places THEN Append(upTo[n - 1], s[n])
        ELSE upTo[n - 1]
  IN  upTo[Len(s)]
=============================================================================
