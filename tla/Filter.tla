------------------------------- MODULE Filter -------------------------------
(***************************************************************************)
(* The elements of a sequence that belong to a set, in their order: what   *)
(* `retain`, `drain` and a filtering loop do to a queue.  It is SelectSeq  *)
(* with a set for the test, and a recursive function, which the prover can *)
(* expand, for the recursion.                                              *)
(***************************************************************************)
EXTENDS Naturals, Sequences

Filter(s, K) ==
    LET kept[i \in 0 .. Len(s)] ==
            IF i = 0 THEN <<>>
            ELSE IF s[i] \in K THEN Append(kept[i - 1], s[i]) ELSE kept[i - 1]
    IN  kept[Len(s)]
=============================================================================
