--------------------------------- MODULE Lists ---------------------------------
(***************************************************************************)
(* What several components do with a list, as functions over its numbers,  *)
(* which proofs can expand.                                                *)
(***************************************************************************)
EXTENDS Naturals, Sequences

\* The elements of s whose numbers are in at, in their order (retain, filter).
Picked(s, at) ==
  LET upto[n \in 0..Len(s)] ==
        IF n = 0 THEN <<>> ELSE IF n \in at THEN Append(upto[n - 1], s[n]) ELSE upto[n - 1]
  IN upto[Len(s)]
=============================================================================
