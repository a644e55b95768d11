-------------------------------- MODULE Ghost --------------------------------
(***************************************************************************)
(* The fork choice of src/blockchain.rs: optimized_ghost, which            *)
(* Estimator::estimate calls, and mathematical_ghost, "definition 4.30 of  *)
(* the paper", which it is an optimized version of.  From the blocks of    *)
(* the latest honest messages both descend from the genesis block to the   *)
(* children that the heaviest set of validators builds on.                 *)
(*                                                                         *)
(* optimized_ghost is a loop over a stack of blocks, one action per pop.   *)
(* The iteration order of a HashSet decides where the loop starts, where   *)
(* argmax starts, and how the children are stacked: all orders are allowed *)
(* and the stack is a set.                                                 *)
(***************************************************************************)
EXTENDS Blockchain, FiniteSetsExt

CONSTANTS
    Validator,
    Absent,      \* the weight of a validator that Weights does not know
    Weightings   \* BOUND: the weights that are tried

ASSUME ValidatorAssumption == IsFiniteSet(Validator)

ASSUME AbsentAssumption == Absent \notin Nat

ASSUME WeightingsAssumption == Weightings \subseteq [Validator -> Nat \cup {Absent}]

VARIABLES
    estimate,   \* the block of each validator's latest honest message, if any
    weights,    \* the Weights
    stack,      \* the blocks to descend from
    result,     \* the leaves that were reached
    phase       \* "called", "searching", "panicked" or "returned"

vars == <<estimate, weights, stack, result, phase>>

-----------------------------------------------------------------------------
(* Scores *)

\* The protocol state: the blocks under the latest honest messages.
State == Accessible({estimate[v] : v \in Validator} \ {NoBlock})

\* Mutant: a message counts for its own block only.
SupportersDirect(b) == {v \in Validator : estimate[v] = b}

\* The validators whose latest honest message builds on b.
Supporters(b) == {v \in Validator : estimate[v] # NoBlock /\ IsMember(b, estimate[v])}

\* sum_weight_validators, with the weights w.
SumWeight(w, V) == MapThenSumSet(LAMBDA v : w[v], V)

WeightOf(V) == SumWeight(weights, V)

\* Block::score: a validator of unknown weight adds nothing.
Score(b) == WeightOf({v \in Supporters(b) : weights[v] # Absent})

\* sum_weight_validators: an unknown weight makes the sum not a number.
Known(b) == \A v \in Supporters(b) : weights[v] # Absent

\* Mutant: what is at least as heavy as the first block is kept.
ArgmaxKeeps(S, numbers, first) ==
    IF first \notin numbers THEN {first}
    ELSE {b \in S \cap numbers : Score(first) <= Score(b)}

\* Block::argmax on S, started at first; numbers are the blocks whose score is
\* one.  Nothing compares to a score that is not a number: it stays if it comes
\* first, and is passed over if not.
Argmax(S, numbers, first) ==
    IF first \notin numbers THEN {first}
    ELSE {b \in S \cap numbers : \A c \in (S \cap numbers) \ {b} : Score(c) <= Score(b)}

-----------------------------------------------------------------------------
(* mathematical_ghost *)

\* `internal`: the leaves the best children lead to from b.
BestLeaves ==
    LET leaves[b \in State] ==
            LET children == Children(State, b) IN
            IF children = {} THEN {b}
            ELSE UNION {leaves[c] : c \in Argmax(children, State, CHOOSE c \in children : TRUE)}
    IN  leaves

\* The tie breaker of both versions: the smallest hash.
TieBreak(S) == CHOOSE b \in S : \A c \in S : id[b] <= id[c]

MathematicalLeaves == UNION {BestLeaves[g] : g \in Genesis(State)}

-----------------------------------------------------------------------------
(* optimized_ghost *)

Init ==
    /\ estimate \in [Validator -> Block \cup {NoBlock}]
    /\ weights \in Weightings
    /\ stack = {} /\ result = {}
    /\ phase = "called"

\* The genesis block that comes first; `unwrap` if there is none.
Start ==
    /\ phase = "called"
    /\ IF State = {} THEN phase' = "panicked" /\ UNCHANGED stack
       ELSE /\ \E g \in Genesis(State) : stack' = {g}
            /\ phase' = "searching"
    /\ UNCHANGED <<estimate, weights, result>>

\* Mutant: the leaf stays on the stack.
PopLeafKept(b) ==
    /\ phase = "searching" /\ b \in stack
    /\ Children(State, b) = {}
    /\ result' = result \cup {b}
    /\ UNCHANGED <<estimate, weights, stack, phase>>

PopLeaf(b) ==
    /\ phase = "searching" /\ b \in stack
    /\ Children(State, b) = {}
    /\ result' = result \cup {b}
    /\ stack' = stack \ {b}
    /\ UNCHANGED <<estimate, weights, phase>>

\* Mutant: one of the best children is stacked, not all.
PopForkOne(b) ==
    /\ phase = "searching" /\ b \in stack
    /\ \E first \in Children(State, b) :
          /\ first \in Argmax(Children(State, b), {c \in State : Known(c)}, first)
          /\ stack' = (stack \ {b}) \cup {first}
    /\ UNCHANGED <<estimate, weights, result, phase>>

\* The best children take the place of the block.
PopFork(b) ==
    /\ phase = "searching" /\ b \in stack
    /\ \E first \in Children(State, b) :
          stack' = (stack \ {b})
                   \cup Argmax(Children(State, b), {c \in State : Known(c)}, first)
    /\ UNCHANGED <<estimate, weights, result, phase>>

Return ==
    /\ phase = "searching" /\ stack = {}
    /\ phase' = "returned"
    /\ UNCHANGED <<estimate, weights, stack, result>>

Next ==
    \/ Start
    \/ \E b \in Block : PopLeaf(b)
    \/ \E b \in Block : PopFork(b)
    \/ Return

Spec == Init /\ [][Next]_vars

\* The function runs to its end.
FairSpec == Spec /\ WF_vars(Next)

-----------------------------------------------------------------------------
(* Properties *)

TypeOK ==
    /\ estimate \in [Validator -> Block \cup {NoBlock}]
    /\ weights \in Weightings
    /\ stack \subseteq State
    /\ result \subseteq State
    /\ phase \in {"called", "searching", "panicked", "returned"}

\* What the search has reached and still has before it leads to all the leaves
\* of mathematical_ghost and to no other: the two agree, ties included.
SameLeaves ==
    phase \in {"searching", "returned"} =>
        result \cup UNION {BestLeaves[b] : b \in stack} = MathematicalLeaves

\* A block with more than half of the weight that has voted is on the chain that
\* optimized_ghost returns.
MajorityKept ==
    phase = "returned" =>
        \A b \in State : 2 * Score(b) > WeightOf({v \in Validator : estimate[v] # NoBlock})
            => IsMember(b, TieBreak(result))

\* No other branch that leaves the chain where b does is heavier.
Heaviest(b) == \A c \in State \ {b} : prevblock[c] = prevblock[b] => Score(c) <= Score(b)

\* The blocks nothing was built on that are reached by following a heaviest
\* branch at each fork: definition 4.30 without recursion.
HeaviestLeaves ==
    {b \in State : Children(State, b) = {} /\ \A a \in Chain[b] : Heaviest(a)}

\* The leaves among which optimized_ghost breaks the tie are those, no fork was
\* decided wrongly and no tie was dropped.
ExactLeaves == phase = "returned" => result = HeaviestLeaves

\* The search ends.
Terminates == <>(phase \in {"returned", "panicked"})

\* "It is an optimized version of `mathematical_ghost`" (its documentation): the
\* two return the same block.
AgreesWithMathematical ==
    phase = "returned" => TieBreak(result) = TieBreak(MathematicalLeaves)
=============================================================================
