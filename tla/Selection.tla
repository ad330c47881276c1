------------------------------- MODULE Selection -------------------------------
(***************************************************************************)
(* Array.prototype.filter(): SelectSeq of the standard modules, written as a  *)
(* recursive function over the places of the sequence, so that proofs can    *)
(* unfold it.                                                                *)
(***************************************************************************)
EXTENDS Naturals, Sequences

(* The elements of seq that are in S, in their order. *)
Only(seq, S) ==
  LET kept[n \in 0 .. Len(seq)] ==
        IF n = 0 THEN <<>>
        ELSE IF seq[n] \in S THEN Append(kept[n - 1], seq[n]) ELSE kept[n - 1]
  IN kept[Len(seq)]
=============================================================================
