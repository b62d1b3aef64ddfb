---------------------------- MODULE Subsequences ----------------------------
(* Array.prototype.filter by a set of values.                              *)
EXTENDS Naturals, Sequences

\* The elements of seq that are in set, in their order.
Only(seq, set) ==
  LET only[n \in 0..Len(seq)] ==
        IF n = 0 THEN <<>>
        ELSE IF seq[n] \in set THEN Append(only[n - 1], seq[n]) ELSE only[n - 1]
  IN  only[Len(seq)]
=============================================================================
