------------------------------ MODULE Filters ------------------------------
(* erase with std::remove_if: which elements of a sequence stay.           *)
(* As SelectSeq, for a set of elements in place of a test: written out so   *)
(* that its properties can be proved (FiltersProofs).                       *)
EXTENDS Integers, Sequences

(* The elements of q that are in S, in their order.                         *)
Keep(q, S) ==
    LET kept[n \in 0 .. Len(q)] ==
            IF n = 0 THEN <<>>
            ELSE IF q[n] \in S THEN Append(kept[n - 1], q[n]) ELSE kept[n - 1]
    IN  kept[Len(q)]

=============================================================================
