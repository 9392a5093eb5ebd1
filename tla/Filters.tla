------------------------------ MODULE Filters ------------------------------
(***************************************************************************)
(* What SelectSeq does, for a set in place of a test: the elements of a    *)
(* sequence that are in the set, in their order.  Unlike SelectSeq, which  *)
(* the provers know nothing of, this is a recursive function, and theorems *)
(* about it are in DataProofs.                                             *)
(***************************************************************************)
EXTENDS Naturals, Sequences

Filter(s, S) ==
    LET kept[n \in 0 .. Len(s)] ==
            IF n = 0 THEN <<>>
            ELSE IF s[n] \in S THEN Append(kept[n - 1], s[n]) ELSE kept[n - 1]
    IN  kept[Len(s)]
=============================================================================
