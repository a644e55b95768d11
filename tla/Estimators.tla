----------------------------- MODULE Estimators -----------------------------
(***************************************************************************)
(* The two estimators of the repository that weigh values: the weighted    *)
(* median of src/tests_common/integer.rs and the plurality of              *)
(* examples/ternary.rs.  Both are pure functions of the latest honest      *)
(* messages and the weights, as the fork choice is, and are asked here     *)
(* about the same ones: the value of a vote is the number of its block.    *)
(***************************************************************************)
EXTENDS OldGhost

Voters == {v \in Validator : estimate[v] # NoBlock}

\* Message::estimate
Value(v) == id[estimate[v]]

\* Weights::weight(...).unwrap_or(U::NAN)
Weigh(w, v) == IF w[v] = Absent THEN NaN ELSE w[v]

Total(w, q) == FoldLeft(LAMBDA sum, v : Plus(sum, Weigh(w, v)), Zero, q)

-----------------------------------------------------------------------------
(* IntegerWrapper *)

\* messages_sorted_by_estimate: an unstable sort of what a HashSet yields.
Sorted == {q \in SetToSeqs(Voters) :
              \A i \in 1 .. Len(q) : \A j \in 1 .. i : Value(q[j]) <= Value(q[i])}

\* Mutant: the loop goes on at exactly half of the weight.
MedianLate(w, q) ==
    LET running(i) == Total(w, SubSeq(q, 1, i))
        taken[i \in 0 .. Len(q)] ==
            IF i < Len(q) /\ AtMost(Plus(running(i), running(i)), Total(w, q))
            THEN taken[i + 1] ELSE i
    IN  IF taken[0] = 0 THEN {} ELSE {Value(q[taken[0]])}

\* The loop over the sorted messages: it ends when those taken are not below half
\* of the total weight.  The value of the last one taken; none, which is an error,
\* if none was.
Median(w, q) ==
    LET running(i) == Total(w, SubSeq(q, 1, i))
        taken[i \in 0 .. Len(q)] ==
            IF Less(Plus(running(i), running(i)), Total(w, q)) THEN taken[i + 1] ELSE i
    IN  IF taken[0] = 0 THEN {} ELSE {Value(q[taken[0]])}

-----------------------------------------------------------------------------
(* Value of the ternary example *)

\* The weight of a value: a sender without a weight does nothing.
TernaryWeight(w, k) ==
    MapThenFoldSet(Plus, Zero, LAMBDA v : w[v], LAMBDA S : CHOOSE v \in S : TRUE,
                   {v \in Voters : Value(v) % 3 = k /\ w[v] # Absent})

\* Mutant: in a tie the first value is preferred to the one that leads.
TernaryFirst(w) ==
    LET lead == IF Less(TernaryWeight(w, 2), TernaryWeight(w, 1)) THEN 1 ELSE 2 IN
    IF AtMost(TernaryWeight(w, lead), TernaryWeight(w, 0)) THEN 0 ELSE lead

\* From<((Value, U), (Value, U), (Value, U))>: ties go to the later value.
Ternary(w) ==
    LET lead == IF Less(TernaryWeight(w, 2), TernaryWeight(w, 1)) THEN 1 ELSE 2 IN
    IF Less(TernaryWeight(w, lead), TernaryWeight(w, 0)) THEN 0 ELSE lead

-----------------------------------------------------------------------------
(* Properties *)

\* The weights of the run, and the same with a validator that is not in them.
Doubtful == {weights} \cup {[weights EXCEPT ![v] = Absent] : v \in Validator}

\* The median splits the weight that votes: less than half of it is below, and at
\* least half is not above.  So it does not depend on how the sort orders equal
\* values.  There is none exactly when the votes weigh nothing, or the weight of
\* one is unknown.
MedianSplits ==
    phase = "called" =>
        \A w \in Doubtful, q \in Sorted :
            LET weight(S) == Total(w, SetToSeq(S))
                all == weight(Voters)
            IN  IF all \in {NaN, Zero} THEN Median(w, q) = {}
                ELSE \E x \in Median(w, q) :
                        /\ 2 * weight({v \in Voters : Value(v) < x}) < all
                        /\ 2 * weight({v \in Voters : Value(v) <= x}) >= all

\* The ternary estimate is the last of the values that the most known weight votes
\* for: "if equality between two or [three] values exists, last value is prefered,
\* then second value, and first value".
LastHeaviest ==
    phase = "called" =>
        \A w \in Doubtful, k \in 0 .. 2 :
            Ternary(w) = k <=>
                /\ \A j \in 0 .. 2 : j < k => TernaryWeight(w, j) <= TernaryWeight(w, k)
                /\ \A j \in 0 .. 2 : j > k => TernaryWeight(w, j) < TernaryWeight(w, k)
=============================================================================
