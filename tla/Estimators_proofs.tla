--------------------------- MODULE Estimators_proofs ---------------------------
(***************************************************************************)
(* The fork choice and the other estimators, for every forest with one     *)
(* genesis block, all votes and all weights that are known.  The loop of   *)
(* optimized_ghost ends with the leaves that are heaviest at each fork,    *)
(* which are those of mathematical_ghost, and above whatever a majority    *)
(* voted for.  parse_blockchains builds the tree on which old_ghost        *)
(* descends to a leaf that is heaviest for the votes it keeps.  The median *)
(* and the ternary estimate follow the weights.  First, what the           *)
(* algorithms of the library take for granted of weights.                  *)
(***************************************************************************)
EXTENDS Estimators, Induction_proofs, SequenceTheorems

-----------------------------------------------------------------------------
(* WeightArithmetic: a sum does not depend on the order of iteration, a weight that is *)
(* not a number never wins a comparison and never goes away again, and adding to both *)
(* sides keeps an order. *)

\* Plus and Minus stay within the weights.
LEMMA PlusType ==
    ASSUME NEW a \in Weights, NEW b \in Weights
    PROVE  Plus(a, b) \in Weights /\ Minus(a, b) \in Weights
BY SpecialAssumption DEF Plus, Minus, Weights, Unit

\* The sum over a HashSet of validators (sum_weight_validators) is the same in
\* any order: two neighbours in the fold can be swapped.
THEOREM SumInAnyOrder ==
    ASSUME NEW a \in Weights, NEW b \in Weights, NEW c \in Weights
    PROVE  Plus(Plus(a, b), c) = Plus(Plus(a, c), b)
BY SpecialAssumption DEF Plus, Weights, Unit

\* An unknown validator makes a sum NaN for good, and NaN is neither less than,
\* equal to, nor greater than anything.
THEOREM NaNStays ==
    ASSUME NEW a \in Weights
    PROVE  /\ Plus(a, NaN) = NaN /\ Plus(NaN, a) = NaN
           /\ ~Less(a, NaN) /\ ~Less(NaN, a) /\ ~Equal(a, NaN) /\ ~Equal(NaN, a)
BY SpecialAssumption DEF Plus, Less, Equal, Comparable, Weights, Unit

\* Among weights that are numbers the comparison is a total order: exactly one of
\* less, equal and greater, and less is transitive.
THEOREM TotalOrder ==
    ASSUME NEW a \in Weights \ {NaN}, NEW b \in Weights \ {NaN}, NEW c \in Weights \ {NaN}
    PROVE  /\ Less(a, b) \/ Equal(a, b) \/ Less(b, a)
           /\ ~(Less(a, b) /\ Less(b, a)) /\ ~(Less(a, b) /\ Equal(a, b))
           /\ Less(a, b) /\ Less(b, c) => Less(a, c)
BY SpecialAssumption DEF Less, Equal, Comparable, Weights, Unit

\* A unit added to both sides keeps the order: a validator that supports two
\* blocks does not decide between them.
THEOREM PlusKeepsOrder ==
    ASSUME NEW a \in Weights, NEW b \in Weights, NEW u \in Unit
    PROVE  Less(a, b) <=> Less(Plus(a, u), Plus(b, u))
BY SpecialAssumption DEF Less, Comparable, Plus, Weights, Unit

\* No unit fits under a threshold beside an infinite weight: update, which takes
\* the weight of an unknown validator for infinite, never charges it unless the
\* threshold itself is infinite.
THEOREM UnknownNeverFits ==
    ASSUME NEW w \in Weights, NEW thr \in Unit
    PROVE  ~AtMost(Plus(Infinity, w), thr)
BY SpecialAssumption DEF AtMost, Less, Equal, Comparable, Plus, Weights, Unit

\* What was added can be taken away again, as long as both are units.
THEOREM MinusUndoesPlus ==
    ASSUME NEW a \in Unit, NEW b \in Unit
    PROVE  Minus(Plus(a, b), b) = a
BY SpecialAssumption DEF Minus, Plus, Unit

-----------------------------------------------------------------------------
(* The runs that are considered *)

\* Every validator of the run has a weight.
AllKnown == Weightings \subseteq [Validator -> Nat]

\* The chains of the run start at one block.
OneGenesis == \A b, c \in Block : prevblock[b] = NoBlock /\ prevblock[c] = NoBlock => b = c

-----------------------------------------------------------------------------
(* Chains *)

\* A chain holds its end, is grounded, and is the smallest such set.
LEMMA ChainClosure ==
    ASSUME NEW b \in Block
    PROVE  /\ b \in Chain[b] /\ Chain[b] \subseteq Block /\ Grounded(Chain[b])
           /\ \A S \in SUBSET Block : b \in S /\ Grounded(S) => Chain[b] \subseteq S
<1>1. Chain[b] = {a \in Block : \A S \in SUBSET Block : b \in S /\ Grounded(S) => a \in S}
  BY DEF Chain
<1>2. Grounded(Chain[b])
  <2> SUFFICES ASSUME NEW a \in Chain[b], prevblock[a] # NoBlock
               PROVE  prevblock[a] \in Chain[b]
    BY DEF Grounded
  <2>1. prevblock[a] \in Block
    BY <1>1, PrevblockAssumption
  <2> QED BY <1>1, <2>1 DEF Grounded
<1> QED BY <1>1, <1>2

\* The chain of a block is the block and the chain of the one before it.
LEMMA ChainStep ==
    ASSUME NEW c \in Block, prevblock[c] \in Block
    PROVE  Chain[c] \subseteq {c} \cup Chain[prevblock[c]]
<1> DEFINE S == {c} \cup Chain[prevblock[c]]
<1>1. S \subseteq Block /\ c \in S
  BY ChainClosure
<1>2. Grounded(S)
  BY ChainClosure DEF Grounded
<1> QED BY <1>1, <1>2, ChainClosure

\* Members of a chain have their own chains in it.
LEMMA ChainTransitive ==
    ASSUME NEW b \in Block, NEW a \in Chain[b]
    PROVE  a \in Block /\ Chain[a] \subseteq Chain[b]
BY ChainClosure

\* A block on a chain that is not its end has a next one on it.
LEMMA ChainNext ==
    ASSUME NEW b \in Block, NEW a \in Chain[b], a # b
    PROVE  \E c \in Chain[b] : prevblock[c] = a
<1> SUFFICES ASSUME \A c \in Chain[b] : prevblock[c] # a PROVE FALSE
  OBVIOUS
<1> DEFINE S == Chain[b] \ {a}
<1>1. S \in SUBSET Block /\ b \in S
  BY ChainClosure
<1>2. Grounded(S)
  BY ChainClosure DEF Grounded
<1> QED BY <1>1, <1>2, ChainClosure

\* With one genesis block, it is on every chain.
LEMMA GenesisOnChain ==
    ASSUME OneGenesis, NEW b \in Block, NEW g \in Block, prevblock[g] = NoBlock
    PROVE  g \in Chain[b]
BY ForestAssumption, ChainClosure DEF OneGenesis

-----------------------------------------------------------------------------
(* The invariant *)

\* The inputs of the call, and what they make accessible.
Inputs ==
    /\ estimate \in [Validator -> Block \cup {NoBlock}]
    /\ weights \in [Validator -> Nat]

\* The accessible blocks are closed under prevblock.
LEMMA StateClosed ==
    ASSUME Inputs
    PROVE  State \subseteq Block /\ \A b \in State : Chain[b] \subseteq State
<1> DEFINE tips == {estimate[v] : v \in Validator} \ {NoBlock}
<1>1. tips \subseteq Block /\ State = UNION {Chain[b] : b \in tips}
  BY DEF Inputs, State, Accessible
<1>2. ASSUME NEW b \in tips, NEW a \in Chain[b] PROVE a \in Block /\ Chain[a] \subseteq State
  BY <1>1, <1>2, ChainTransitive
<1> QED BY <1>1, <1>2

\* What was reached, or is still to be descended from, is heaviest all the way
\* down to the genesis block.
OnHeaviest(b) == b \in State /\ \A a \in Chain[b] : Heaviest(a)

\* Each of the leaves was reached or is above a block of the stack.
Sought(b) == b \in result \/ \E s \in stack : s \in Chain[b]

IInv ==
    /\ Inputs
    /\ phase \in {"called", "searching", "panicked", "returned"}
    /\ phase \in {"called", "panicked", "returned"} => stack = {}
    /\ phase \in {"called", "panicked"} => result = {}
    /\ \A b \in stack \cup result : OnHeaviest(b)
    /\ \A b \in result : Children(State, b) = {}
    /\ phase \in {"searching", "returned"} => \A b \in HeaviestLeaves : Sought(b)

\* The steps leave the inputs alone, and with them the tree and its scores.
SameInputs == UNCHANGED <<estimate, weights>>

\* On the same inputs the same blocks are heaviest.
LEMMA SameInputsSameTree ==
    ASSUME SameInputs
    PROVE  /\ State' = State
           /\ HeaviestLeaves' = HeaviestLeaves
           /\ \A b : OnHeaviest(b)' <=> OnHeaviest(b)
           /\ Inputs' <=> Inputs
<1>1. estimate' = estimate /\ weights' = weights
  BY DEF SameInputs
<1>2. State' = State
  BY <1>1 DEF State
<1>3. \A b : Supporters(b)' = Supporters(b)
  BY <1>1 DEF Supporters
<1>4. \A b : Score(b)' = Score(b)
  BY <1>1, <1>3 DEF Score, WeightOf
<1>5. \A b : Heaviest(b)' <=> Heaviest(b)
  BY <1>2, <1>4 DEF Heaviest
<1>6. HeaviestLeaves' = HeaviestLeaves
  BY <1>2, <1>5 DEF HeaviestLeaves, Children
<1>7. \A b : OnHeaviest(b)' <=> OnHeaviest(b)
  BY <1>2, <1>5 DEF OnHeaviest
<1> QED BY <1>1, <1>2, <1>6, <1>7 DEF Inputs

\* With known weights argmax keeps the children of highest score.
LEMMA ArgmaxKnown ==
    ASSUME Inputs, NEW S \in SUBSET State, NEW first \in S
    PROVE  Argmax(S, {c \in State : Known(c)}, first)
              = {b \in S : \A c \in S \ {b} : Score(c) <= Score(b)}
<1>1. \A c \in State : Known(c)
  BY AbsentAssumption DEF Inputs, Known, Supporters
<1> QED BY <1>1 DEF Argmax

\* All leaves are above the genesis block, where the search starts.
LEMMA StartInv ==
    ASSUME IInv, Start, OneGenesis
    PROVE  IInv'
<1>1. SameInputs /\ UNCHANGED result /\ phase = "called" /\ result = {}
  BY DEF Start, SameInputs, IInv
<1>2. CASE State = {}
  BY <1>1, <1>2, SameInputsSameTree DEF Start, IInv
<1>3. CASE State # {}
  <2>1. PICK g \in Genesis(State) : stack' = {g} /\ phase' = "searching"
    BY <1>3 DEF Start
  <2>2. g \in State /\ g \in Block /\ prevblock[g] = NoBlock
    BY <2>1, StateClosed DEF Genesis, IInv
  <2>3. Chain[g] = {g}
    <3>1. Grounded({g})
      BY <2>2 DEF Grounded
    <3> QED BY <2>2, <3>1, ChainClosure
  <2>4. OnHeaviest(g)
    <3>1. Heaviest(g)
      BY <2>2, StateClosed DEF Heaviest, OneGenesis, IInv
    <3> QED BY <2>2, <2>3, <3>1 DEF OnHeaviest
  <2>5. \A b \in HeaviestLeaves : g \in Chain[b]
    BY <2>2, StateClosed, GenesisOnChain DEF HeaviestLeaves, IInv
  <2> QED BY <1>1, <2>1, <2>4, <2>5, SameInputsSameTree DEF IInv, Sought
<1> QED BY <1>2, <1>3

\* A block without children is above a block of the stack only as itself, when
\* the stack holds a leaf.
LEMMA PopLeafInv ==
    ASSUME IInv, NEW b \in Block, PopLeaf(b)
    PROVE  IInv'
<1>1. SameInputs /\ UNCHANGED phase /\ phase = "searching" /\ b \in stack
  BY DEF PopLeaf, SameInputs
<1>2. result' = result \cup {b} /\ stack' = stack \ {b} /\ Children(State, b) = {}
  BY DEF PopLeaf
<1>3. ASSUME NEW l \in HeaviestLeaves, b \in Chain[l] PROVE l = b
  <2>1. l \in Block /\ Chain[l] \subseteq State
    BY StateClosed DEF HeaviestLeaves, IInv
  <2>2. ASSUME b # l PROVE FALSE
    <3>1. PICK c \in Chain[l] : prevblock[c] = b
      BY <1>3, <2>1, <2>2, ChainNext
    <3> QED BY <1>2, <2>1, <3>1 DEF Children
  <2> QED BY <2>2
<1>4. \A l \in HeaviestLeaves : Sought(l)'
  BY <1>1, <1>2, <1>3 DEF IInv, Sought
<1>5. \A c \in stack' \cup result' : OnHeaviest(c)
  BY <1>1, <1>2 DEF IInv
<1>6. \A c \in result' : Children(State, c) = {}
  BY <1>2 DEF IInv
<1> QED BY <1>1, <1>4, <1>5, <1>6, SameInputsSameTree DEF IInv

\* A leaf above a fork is above one of its best children.
LEMMA PopForkInv ==
    ASSUME IInv, NEW b \in Block, PopFork(b)
    PROVE  IInv'
<1> DEFINE kids == Children(State, b)
           best == {k \in kids : \A c \in kids \ {k} : Score(c) <= Score(k)}
<1>1. SameInputs /\ UNCHANGED <<phase, result>> /\ phase = "searching" /\ b \in stack
  BY DEF PopFork, SameInputs
<1>2. kids # {} /\ stack' = (stack \ {b}) \cup best
  <2>1. PICK first \in kids :
           stack' = (stack \ {b}) \cup Argmax(kids, {c \in State : Known(c)}, first)
    BY DEF PopFork
  <2>2. kids \in SUBSET State
    BY DEF Children
  <2> QED BY <2>1, <2>2, ArgmaxKnown DEF IInv
<1>3. OnHeaviest(b) /\ Inputs
  BY <1>1 DEF IInv
<1>4. ASSUME NEW k \in best PROVE OnHeaviest(k)
  <2>1. k \in State /\ k \in Block /\ prevblock[k] = b
    BY <1>3, StateClosed DEF Children
  <2>2. Chain[k] \subseteq {k} \cup Chain[b]
    BY <2>1, ChainStep
  <2>3. Heaviest(k)
    BY <2>1 DEF Heaviest, Children
  <2> QED BY <1>3, <2>1, <2>2, <2>3 DEF OnHeaviest
<1>5. ASSUME NEW l \in HeaviestLeaves, b \in Chain[l] PROVE \E k \in best : k \in Chain[l]
  <2>1. l \in Block /\ Chain[l] \subseteq State /\ Children(State, l) = {}
    BY <1>3, StateClosed DEF HeaviestLeaves
  <2>2. b # l
    BY <1>2, <2>1
  <2>3. PICK k \in Chain[l] : prevblock[k] = b
    BY <1>5, <2>1, <2>2, ChainNext
  <2>4. k \in kids /\ Heaviest(k)
    BY <2>1, <2>3 DEF Children, HeaviestLeaves
  <2>5. ASSUME NEW c \in kids, c # k PROVE Score(c) <= Score(k)
    BY <2>3, <2>4, <2>5 DEF Heaviest, Children
  <2> QED BY <2>3, <2>4, <2>5
<1>6. \A l \in HeaviestLeaves : Sought(l)'
  BY <1>1, <1>2, <1>5 DEF IInv, Sought
<1>7. \A c \in stack' \cup result' : OnHeaviest(c)
  BY <1>1, <1>2, <1>4 DEF IInv
<1>8. \A c \in result' : Children(State, c) = {}
  BY <1>1 DEF IInv
<1> QED BY <1>1, <1>6, <1>7, <1>8, SameInputsSameTree DEF IInv

\* Returning does not touch the search.
LEMMA ReturnInv ==
    ASSUME IInv, Return
    PROVE  IInv'
<1>1. SameInputs /\ UNCHANGED <<stack, result>> /\ stack = {} /\ phase = "searching"
  BY DEF Return, SameInputs
<1>2. phase' = "returned"
  BY DEF Return
<1> QED BY <1>1, <1>2, SameInputsSameTree DEF IInv, Sought

\* The invariant holds in every run with known weights and one genesis block.
LEMMA GhostInv ==
    ASSUME AllKnown, OneGenesis
    PROVE  Spec => []IInv
<1>1. Init => IInv
  BY DEF Init, IInv, Inputs, AllKnown
<1>2. IInv /\ [Next]_vars => IInv'
  <2> SUFFICES ASSUME IInv, [Next]_vars PROVE IInv'
    OBVIOUS
  <2>1. CASE UNCHANGED vars
    <3>1. SameInputs /\ UNCHANGED <<stack, result, phase>>
      BY <2>1 DEF vars, SameInputs
    <3> QED BY <3>1, SameInputsSameTree DEF IInv, Sought
  <2> QED BY <2>1, StartInv, PopLeafInv, PopForkInv, ReturnInv DEF Next
<1> QED BY <1>1, <1>2, PTL DEF Spec

\* optimized_ghost breaks the tie among exactly the leaves that are heaviest at
\* each fork, provided all weights are known and there is one genesis block.
THEOREM Leaves ==
    ASSUME AllKnown, OneGenesis
    PROVE  Spec => []ExactLeaves
<1>1. IInv => ExactLeaves
  BY DEF IInv, ExactLeaves, Sought, HeaviestLeaves, OnHeaviest
<1> QED BY <1>1, GhostInv, PTL

-----------------------------------------------------------------------------
(* mathematical_ghost *)

\* The children that the recursion descends to.
BestChildren(b) ==
    {k \in Children(State, b) : \A c \in Children(State, b) \ {k} : Score(c) <= Score(k)}

\* What the recursion finds above b: the leaves to which heaviest branches lead.
LeavesAbove(b) ==
    {l \in State : /\ b \in Chain[l] /\ Children(State, l) = {}
                   /\ \A a \in Chain[l] \ Chain[b] : Heaviest(a)}

\* A best child is one that no sibling is heavier than.
LEMMA BestIsHeaviest ==
    ASSUME NEW b \in State, NEW k \in Children(State, b)
    PROVE  k \in BestChildren(b) <=> Heaviest(k)
BY DEF BestChildren, Heaviest, Children

\* Those leaves are b itself, or above its best children.
LEMMA AboveStep ==
    ASSUME Inputs, NEW b \in State
    PROVE  LeavesAbove(b) = IF Children(State, b) = {} THEN {b}
                            ELSE UNION {LeavesAbove(k) : k \in BestChildren(b)}
<1>1. b \in Block /\ State \subseteq Block /\ \A l \in State : Chain[l] \subseteq State
  BY StateClosed
<1>2. ASSUME NEW l \in LeavesAbove(b), l # b
      PROVE  \E k \in BestChildren(b) : l \in LeavesAbove(k)
  <2>1. /\ l \in State /\ l \in Block /\ b \in Chain[l] /\ Chain[l] \subseteq State
        /\ \A a \in Chain[l] \ Chain[b] : Heaviest(a)
    BY <1>1, <1>2 DEF LeavesAbove
  <2>2. PICK k \in Chain[l] : prevblock[k] = b
    BY <1>2, <2>1, ChainNext
  <2>3. k \in State /\ k \in Block /\ k \in Children(State, b)
    BY <1>1, <2>1, <2>2 DEF Children
  <2>4. k \notin Chain[b] /\ Chain[b] \subseteq Chain[k]
    BY <1>1, <2>2, <2>3, ForestAssumption, NoBlockAssumption, ChainClosure DEF Grounded
  <2>5. k \in BestChildren(b)
    BY <2>1, <2>2, <2>3, <2>4, BestIsHeaviest
  <2>6. l \in LeavesAbove(k)
    BY <1>2, <2>1, <2>2, <2>4 DEF LeavesAbove
  <2> QED BY <2>5, <2>6
<1>3. ASSUME NEW k \in BestChildren(b), NEW l \in LeavesAbove(k)
      PROVE  l \in LeavesAbove(b)
  <2>1. k \in Children(State, b) /\ k \in State /\ k \in Block /\ prevblock[k] = b /\ Heaviest(k)
    BY <1>1, BestIsHeaviest DEF BestChildren, Children
  <2>2. l \in State /\ l \in Block /\ k \in Chain[l]
    BY <1>1 DEF LeavesAbove
  <2>3. b \in Chain[l]
    BY <1>1, <2>1, <2>2, ChainClosure, NoBlockAssumption DEF Grounded
  <2>4. Chain[k] \subseteq {k} \cup Chain[b]
    BY <1>1, <2>1, ChainStep
  <2> QED BY <2>1, <2>2, <2>3, <2>4 DEF LeavesAbove
<1>4. CASE Children(State, b) = {}
  <2>1. b \in LeavesAbove(b)
    BY <1>1, <1>4, ChainClosure DEF LeavesAbove
  <2>2. BestChildren(b) = {}
    BY <1>4 DEF BestChildren
  <2> QED BY <1>2, <1>4, <2>1, <2>2
<1>5. CASE Children(State, b) # {}
  <2>1. b \notin LeavesAbove(b)
    BY <1>5 DEF LeavesAbove
  <2> QED BY <1>2, <1>3, <1>5, <2>1
<1> QED BY <1>4, <1>5

\* argmax, started at any child, keeps the best children.
LEMMA BestIsArgmax ==
    ASSUME NEW b \in State, Children(State, b) # {}
    PROVE  Argmax(Children(State, b), State, CHOOSE c \in Children(State, b) : TRUE)
              = BestChildren(b)
<1>1. (CHOOSE c \in Children(State, b) : TRUE) \in State
  BY DEF Children
<1> QED BY <1>1 DEF Argmax, BestChildren, Children

\* The recursion has a solution, so it is satisfied.
LEMMA BestLeavesStep ==
    ASSUME Inputs, NEW b \in State
    PROVE  BestLeaves[b] = IF Children(State, b) = {} THEN {b}
                           ELSE UNION {BestLeaves[k] : k \in BestChildren(b)}
<1> DEFINE step(f, c) ==
              IF Children(State, c) = {} THEN {c}
              ELSE UNION {f[k] : k \in Argmax(Children(State, c), State,
                                              CHOOSE k \in Children(State, c) : TRUE)}
           Satisfies(f) == f = [c \in State |-> step(f, c)]
           above == [c \in State |-> LeavesAbove(c)]
<1>1. BestLeaves = CHOOSE f : Satisfies(f)
  BY DEF BestLeaves
<1>2. ASSUME NEW c \in State PROVE above[c] = step(above, c)
  <2>1. CASE Children(State, c) = {}
    BY <2>1, AboveStep
  <2>2. CASE Children(State, c) # {}
    <3>1. step(above, c) = UNION {above[k] : k \in BestChildren(c)}
      BY <2>2, BestIsArgmax
    <3>2. BestChildren(c) \subseteq State
      BY DEF BestChildren, Children
    <3>3. \A k \in BestChildren(c) : above[k] = LeavesAbove(k)
      BY <3>2
    <3>4. UNION {above[k] : k \in BestChildren(c)} = UNION {LeavesAbove(k) : k \in BestChildren(c)}
      <4> HIDE DEF above
      <4> QED BY <3>3
    <3> QED BY <2>2, <3>1, <3>4, AboveStep
  <2> QED BY <2>1, <2>2
<1>3. Satisfies(above)
  <2>1. above = [c \in State |-> above[c]]
    OBVIOUS
  <2> HIDE DEF above, step
  <2> QED BY <1>2, <2>1
<1>4. Satisfies(BestLeaves)
  <2> HIDE DEF Satisfies
  <2> QED BY <1>1, <1>3
<1>5. BestLeaves[b] = step(BestLeaves, b)
  BY <1>4
<1> QED BY <1>5, BestIsArgmax

\* The same, of the votes and the weights alone.
BestAmong(votes, w, S, first) ==
    LET supporters(b) == {v \in Validator : votes[v] # NoBlock /\ IsMember(b, votes[v])}
        score(b) == SumWeight(w, {v \in supporters(b) : w[v] # Absent})
        state == Accessible({votes[v] : v \in Validator} \ {NoBlock})
    IN  IF first \notin state THEN {first}
        ELSE {b \in S \cap state : \A c \in (S \cap state) \ {b} : score(c) <= score(b)}

LeavesFor(votes, w) ==
    LET state == Accessible({votes[v] : v \in Validator} \ {NoBlock})
        leaves[b \in state] ==
            LET children == Children(state, b) IN
            IF children = {} THEN {b}
            ELSE UNION {leaves[c] :
                          c \in BestAmong(votes, w, children, CHOOSE c \in children : TRUE)}
    IN  leaves

\* The steps leave the leaves of mathematical_ghost alone.
LEMMA SameInputsSameLeaves ==
    ASSUME SameInputs
    PROVE  BestLeaves' = BestLeaves /\ MathematicalLeaves' = MathematicalLeaves
<1>1. BestLeaves = LeavesFor(estimate, weights)
  BY DEF BestLeaves, State, Argmax, Score, WeightOf, Supporters, LeavesFor, BestAmong
<1>2. BestLeaves' = LeavesFor(estimate', weights')
  BY DEF BestLeaves, State, Argmax, Score, WeightOf, Supporters, LeavesFor, BestAmong
<1>3. estimate' = estimate /\ weights' = weights
  BY DEF SameInputs
<1>4. BestLeaves' = BestLeaves
  BY <1>1, <1>2, <1>3
<1>5. State' = State
  BY SameInputsSameTree
<1> QED BY <1>4, <1>5 DEF MathematicalLeaves

\* Popping a block does not change what the stack leads to.
LEMMA NextSameLeaves ==
    ASSUME OneGenesis, IInv, SameLeaves, [Next]_vars
    PROVE  SameLeaves'
<1>1. SameInputs
  BY DEF Next, Start, PopLeaf, PopFork, Return, vars, SameInputs
<1>2. BestLeaves' = BestLeaves /\ MathematicalLeaves' = MathematicalLeaves
  BY <1>1, SameInputsSameLeaves
<1>3. ASSUME NEW b \in Block, b \in stack PROVE b \in State /\ Inputs
  BY <1>3 DEF IInv, OnHeaviest
<1>4. CASE Start
  <2>1. CASE State = {}
    BY <1>4, <2>1 DEF Start, SameLeaves
  <2>2. CASE State # {}
    <3>1. PICK g \in Genesis(State) : stack' = {g}
      BY <1>4, <2>2 DEF Start
    <3>2. Genesis(State) = {g}
      BY StateClosed DEF Genesis, OneGenesis, IInv
    <3>3. result' = {}
      BY <1>4 DEF Start, IInv
    <3> QED BY <1>2, <3>1, <3>2, <3>3 DEF SameLeaves, MathematicalLeaves
  <2> QED BY <2>1, <2>2
<1>5. ASSUME NEW b \in Block, PopLeaf(b) PROVE SameLeaves'
  <2>1. /\ phase = "searching" /\ b \in stack /\ Children(State, b) = {}
        /\ result' = result \cup {b} /\ stack' = stack \ {b}
    BY <1>5 DEF PopLeaf
  <2>2. BestLeaves[b] = {b}
    BY <1>3, <2>1, BestLeavesStep
  <2>3. result \cup UNION {BestLeaves[c] : c \in stack} = MathematicalLeaves
    BY <2>1 DEF SameLeaves
  <2>4. result' \cup UNION {BestLeaves[c] : c \in stack'} = MathematicalLeaves
    BY <2>1, <2>2, <2>3
  <2> QED BY <1>2, <2>4 DEF SameLeaves
<1>6. ASSUME NEW b \in Block, PopFork(b) PROVE SameLeaves'
  <2>1. /\ phase = "searching" /\ b \in stack /\ result' = result
        /\ \E first \in Children(State, b) :
              stack' = (stack \ {b})
                       \cup Argmax(Children(State, b), {c \in State : Known(c)}, first)
    BY <1>6 DEF PopFork
  <2>2. Children(State, b) # {} /\ stack' = (stack \ {b}) \cup BestChildren(b)
    <3>1. Children(State, b) \in SUBSET State
      BY DEF Children
    <3> QED BY <1>3, <2>1, <3>1, ArgmaxKnown DEF BestChildren
  <2>3. BestLeaves[b] = UNION {BestLeaves[k] : k \in BestChildren(b)}
    BY <1>3, <2>1, <2>2, BestLeavesStep
  <2>4. result \cup UNION {BestLeaves[c] : c \in stack} = MathematicalLeaves
    BY <2>1 DEF SameLeaves
  <2>5. result' \cup UNION {BestLeaves[c] : c \in stack'} = MathematicalLeaves
    BY <2>1, <2>2, <2>3, <2>4
  <2> QED BY <1>2, <2>5 DEF SameLeaves
<1>7. CASE Return \/ UNCHANGED vars
  <2>1. UNCHANGED <<stack, result>> /\ (phase' \in {"searching", "returned"} =>
                                          phase \in {"searching", "returned"})
    BY <1>7 DEF Return, vars
  <2> QED BY <1>2, <2>1 DEF SameLeaves
<1> QED BY <1>4, <1>5, <1>6, <1>7 DEF Next

\* optimized_ghost always leads to the leaves of mathematical_ghost, and to no
\* other, provided all weights are known and there is one genesis block.
THEOREM Optimization ==
    ASSUME AllKnown, OneGenesis
    PROVE  Spec => []SameLeaves
<1>1. Init => SameLeaves
  BY DEF Init, SameLeaves
<1> QED BY <1>1, NextSameLeaves, GhostInv, PTL DEF Spec

\* Under the same conditions it returns the same block, as its documentation says.
THEOREM Agreement ==
    ASSUME AllKnown, OneGenesis
    PROVE  Spec => []AgreesWithMathematical
<1>1. IInv /\ SameLeaves => AgreesWithMathematical
  <2> SUFFICES ASSUME IInv, SameLeaves, phase = "returned"
               PROVE  result = MathematicalLeaves
    BY DEF AgreesWithMathematical
  <2>1. stack = {}
    BY DEF IInv
  <2> QED BY <2>1 DEF SameLeaves
<1> QED BY <1>1, Optimization, GhostInv, PTL

-----------------------------------------------------------------------------
(* Forks *)

\* Of two blocks on a chain one is on the chain of the other.
LEMMA ChainLinear ==
    ASSUME NEW b \in Block, NEW a \in Chain[b], NEW c \in Chain[b]
    PROVE  a \in Chain[c] \/ c \in Chain[a]
<1> DEFINE S == {y \in Chain[b] : a \in Chain[y] \/ y \in Chain[a]}
<1>1. a \in Block /\ S \in SUBSET Block /\ b \in S
  BY ChainClosure
<1>2. ASSUME NEW y \in S, prevblock[y] # NoBlock PROVE prevblock[y] \in S
  <2>1. y \in Block /\ prevblock[y] \in Block /\ prevblock[y] \in Chain[b]
    BY <1>1, <1>2, PrevblockAssumption, ChainClosure DEF Grounded
  <2>2. CASE y \in Chain[a]
    BY <1>1, <1>2, <2>1, <2>2, ChainClosure DEF Grounded
  <2>3. CASE a \in Chain[y] /\ a # y
    BY <2>1, <2>3, ChainStep
  <2>4. CASE a = y
    BY <1>1, <1>2, <2>1, <2>4, ChainClosure DEF Grounded
  <2> QED BY <1>2, <2>2, <2>3, <2>4
<1>3. Grounded(S)
  BY <1>2 DEF Grounded
<1>4. Chain[b] \subseteq S
  BY <1>1, <1>3, ChainClosure
<1> QED BY <1>4

\* A chain holds one block at most of those that follow the same block.
LEMMA NoSiblingsOnChain ==
    ASSUME NEW b \in Block, NEW a \in Chain[b], NEW c \in Chain[b],
           prevblock[a] = prevblock[c], prevblock[a] # NoBlock
    PROVE  a = c
<1> SUFFICES ASSUME a # c PROVE FALSE
  OBVIOUS
<1>1. a \in Block /\ c \in Block /\ prevblock[a] \in Block
  BY ChainClosure, PrevblockAssumption
<1>2. CASE a \in Chain[c]
  BY <1>1, <1>2, ChainStep, ForestAssumption
<1>3. CASE c \in Chain[a]
  BY <1>1, <1>3, ChainStep, ForestAssumption
<1> QED BY <1>2, <1>3, ChainLinear

\* Where a chain leaves another, it does so above a block of both.
LEMMA ForkPoint ==
    ASSUME OneGenesis, NEW b \in Block, NEW r \in Block, b \notin Chain[r]
    PROVE  \E c \in Chain[b] \ Chain[r] : prevblock[c] \in Chain[r]
<1> SUFFICES ASSUME \A c \in Chain[b] \ Chain[r] : prevblock[c] \notin Chain[r]
             PROVE  FALSE
  OBVIOUS
<1> DEFINE S == Chain[b] \ Chain[r]
<1>1. S \in SUBSET Block /\ b \in S
  BY ChainClosure
<1>2. Grounded(S)
  BY ChainClosure DEF Grounded
<1>3. Chain[b] \subseteq S
  BY <1>1, <1>2, ChainClosure
<1>4. PICK g \in Chain[b] : prevblock[g] = NoBlock
  BY ForestAssumption
<1>5. g \in Chain[r]
  BY <1>1, <1>3, <1>4, GenesisOnChain
<1> QED BY <1>3, <1>4, <1>5

-----------------------------------------------------------------------------
(* Votes *)

\* The weights are among those of the run, which are known.
Weighted == AllKnown /\ Inputs /\ weights \in Weightings

\* Scores are sums over sets of voters.
LEMMA ScoreIsSum ==
    ASSUME Weighted, NEW b \in Block
    PROVE  Supporters(b) \subseteq Voters /\ Score(b) = WeightOf(Supporters(b))
<1>1. \A v \in Supporters(b) : weights[v] # Absent
  BY AbsentAssumption DEF Weighted, Inputs, Supporters
<1>2. {v \in Supporters(b) : weights[v] # Absent} = Supporters(b)
  BY <1>1
<1> QED BY <1>2 DEF Score, Supporters, Voters

\* More validators weigh more, and those apart add up.
LEMMA WeightAdds ==
    ASSUME Weighted, NEW K \in SUBSET Validator, NEW L \in SUBSET Validator
    PROVE  /\ WeightOf(K) \in Nat
           /\ K \cap L = {} => WeightOf(K \cup L) = WeightOf(K) + WeightOf(L)
           /\ K \subseteq L => WeightOf(K) <= WeightOf(L)
<1>1. WeightOf(K) = SumOf(weights, K) /\ WeightOf(L) = SumOf(weights, L)
      /\ WeightOf(K \cup L) = SumOf(weights, K \cup L)
  BY DEF WeightOf, SumWeight, SumOf
<1>2. IsFiniteSet(K) /\ IsFiniteSet(L)
  BY ValidatorAssumption, FS_Subset
<1>3. Weighs(weights, K) /\ Weighs(weights, L)
  BY <1>2 DEF Weighs, Weighted, Inputs
<1>4. SumOf(weights, K) \in Nat
  BY <1>3, SumIsNat
<1>5. K \cap L = {} => SumOf(weights, K \cup L) = SumOf(weights, K) + SumOf(weights, L)
  BY <1>3, SumsAdd
<1>6. K \subseteq L => SumOf(weights, K) <= SumOf(weights, L)
  BY <1>3, SumGrows
<1> QED BY <1>1, <1>4, <1>5, <1>6

\* Two branches at a fork have no supporter in common, so together they weigh
\* no more than all who voted.
LEMMA BranchesApart ==
    ASSUME Weighted, NEW a \in Block, NEW c \in Block,
           a # c, prevblock[a] = prevblock[c], prevblock[a] # NoBlock
    PROVE  /\ Score(a) \in Nat /\ Score(c) \in Nat /\ WeightOf(Voters) \in Nat
           /\ Score(a) + Score(c) <= WeightOf(Voters)
<1>1. ASSUME NEW v \in Supporters(a) \cap Supporters(c) PROVE FALSE
  <2>1. estimate[v] \in Block /\ a \in Chain[estimate[v]] /\ c \in Chain[estimate[v]]
    BY <1>1 DEF Supporters, IsMember, Weighted, Inputs
  <2> QED BY <2>1, NoSiblingsOnChain
<1>2. /\ Supporters(a) \subseteq Voters /\ Score(a) = WeightOf(Supporters(a))
      /\ Supporters(c) \subseteq Voters /\ Score(c) = WeightOf(Supporters(c))
      /\ Voters \subseteq Validator
  BY ScoreIsSum DEF Voters
<1>3. WeightOf(Supporters(a) \cup Supporters(c)) = Score(a) + Score(c)
  BY <1>1, <1>2, WeightAdds
<1>4. Supporters(a) \cup Supporters(c) \subseteq Voters
  BY <1>2
<1>5. WeightOf(Supporters(a) \cup Supporters(c)) <= WeightOf(Voters)
  BY <1>2, <1>4, WeightAdds
<1> QED BY <1>2, <1>3, <1>5, WeightAdds

\* Who supports a block supports the chain below it.
LEMMA ScoreGrowsDown ==
    ASSUME Weighted, NEW b \in Block, NEW c \in Chain[b]
    PROVE  Score(b) \in Nat /\ Score(b) <= Score(c)
<1>1. c \in Block /\ Supporters(b) \subseteq Supporters(c)
  BY ChainTransitive DEF Supporters, IsMember, Weighted, Inputs
<1>2. /\ Supporters(b) \in SUBSET Validator /\ Score(b) = WeightOf(Supporters(b))
      /\ Supporters(c) \in SUBSET Validator /\ Score(c) = WeightOf(Supporters(c))
  BY <1>1, ScoreIsSum DEF Supporters
<1> QED BY <1>1, <1>2, WeightAdds

\* A leaf reached along heaviest branches is above every block with more than half
\* of the weight that voted: where the two part, the branch of the block would
\* be the heavier one.
LEMMA MajorityBelow ==
    ASSUME Weighted, OneGenesis, NEW r \in State, OnHeaviest(r), Children(State, r) = {},
           NEW b \in State, 2 * Score(b) > WeightOf(Voters)
    PROVE  b \in Chain[r]
<1> SUFFICES ASSUME b \notin Chain[r] PROVE FALSE
  OBVIOUS
<1>1. b \in Block /\ r \in Block /\ Chain[b] \subseteq State /\ Chain[r] \subseteq State
  BY StateClosed DEF Weighted
<1>2. PICK c \in Chain[b] \ Chain[r] : prevblock[c] \in Chain[r]
  BY <1>1, ForkPoint
<1>3. c \in Block /\ c \in State /\ prevblock[c] \in Block
  BY <1>1, <1>2, ChainClosure
<1>4. prevblock[c] # r
  BY <1>3 DEF Children
<1>5. PICK a \in Chain[r] : prevblock[a] = prevblock[c]
  BY <1>1, <1>2, <1>4, ChainNext
<1>6. a \in Block /\ a # c /\ prevblock[a] # NoBlock
  BY <1>1, <1>2, <1>3, <1>5, ChainClosure, NoBlockAssumption
<1>7. Score(c) <= Score(a)
  BY <1>3, <1>5, <1>6 DEF OnHeaviest, Heaviest
<1>8. Score(b) \in Nat /\ Score(b) <= Score(c)
  BY <1>1, <1>2, ScoreGrowsDown
<1>9. /\ Score(a) \in Nat /\ Score(c) \in Nat /\ WeightOf(Voters) \in Nat
      /\ Score(a) + Score(c) <= WeightOf(Voters)
  BY <1>3, <1>5, <1>6, BranchesApart
<1> QED BY <1>7, <1>8, <1>9

-----------------------------------------------------------------------------
(* The search ends somewhere *)

\* argmax finds something: some child has the highest score.
LEMMA BestExists ==
    ASSUME Weighted, NEW kids \in SUBSET Block, kids # {}
    PROVE  \E k \in kids : \A c \in kids \ {k} : Score(c) <= Score(k)
<1> DEFINE total == WeightOf(Validator)
           T == {total - Score(k) : k \in kids}
<1>1. \A k \in kids : Score(k) \in Nat /\ Score(k) <= total /\ total \in Nat
  <2> TAKE k \in kids
  <2>1. Supporters(k) \in SUBSET Validator /\ Score(k) = WeightOf(Supporters(k))
    BY ScoreIsSum DEF Supporters
  <2> QED BY <2>1, WeightAdds
<1> HIDE DEF total
<1>2. T \in SUBSET Nat /\ T # {}
  BY <1>1
<1>3. PICK n \in T : \A m \in T : n <= m
  <2> HIDE DEF T
  <2> QED BY <1>2, SmallestMember
<1>4. PICK k \in kids : n = total - Score(k)
  BY <1>3
<1>5. ASSUME NEW c \in kids PROVE Score(c) <= Score(k)
  <2>1. n <= total - Score(c)
    BY <1>3
  <2>2. Score(c) \in Nat /\ Score(k) \in Nat /\ total \in Nat
    BY <1>1
  <2> HIDE DEF T
  <2> QED BY <1>4, <2>1, <2>2
<1> QED BY <1>5

\* While it runs, the search is somewhere, and when it returns it was at a leaf.
Somewhere ==
    /\ weights \in Weightings
    /\ phase \in {"searching", "returned"} => stack \cup result # {}

\* No step loses the last block.
LEMMA NextSomewhere ==
    ASSUME AllKnown, IInv, Somewhere, [Next]_vars
    PROVE  Somewhere'
<1>1. weights' \in Weightings
  BY DEF Somewhere, Next, Start, PopLeaf, PopFork, Return, vars
<1>2. CASE Start
  BY <1>1, <1>2 DEF Start, Somewhere
<1>3. ASSUME NEW b \in Block, PopLeaf(b) PROVE Somewhere'
  BY <1>1, <1>3 DEF PopLeaf, Somewhere
<1>4. ASSUME NEW b \in Block, PopFork(b) PROVE Somewhere'
  <2> DEFINE kids == Children(State, b)
  <2>1. PICK first \in kids :
           stack' = (stack \ {b}) \cup Argmax(kids, {c \in State : Known(c)}, first)
    BY <1>4 DEF PopFork
  <2>2. kids \in SUBSET State /\ State \subseteq Block
    BY StateClosed DEF Children, IInv
  <2>3. Argmax(kids, {c \in State : Known(c)}, first)
          = {k \in kids : \A c \in kids \ {k} : Score(c) <= Score(k)}
    BY <2>1, <2>2, ArgmaxKnown DEF IInv
  <2>4. \E k \in kids : \A c \in kids \ {k} : Score(c) <= Score(k)
    BY <2>1, <2>2, BestExists DEF Weighted, IInv, Somewhere
  <2>5. stack' # {}
    BY <2>1, <2>3, <2>4
  <2> QED BY <1>1, <2>5 DEF Somewhere
<1>5. CASE Return \/ UNCHANGED vars
  BY <1>1, <1>5 DEF Return, vars, Somewhere
<1> QED BY <1>2, <1>3, <1>4, <1>5 DEF Next

\* The tie breaker picks one of the leaves.
LEMMA TieBreakIsMember ==
    ASSUME NEW S \in SUBSET Block, S # {}
    PROVE  TieBreak(S) \in S
<1> DEFINE T == {id[b] : b \in S}
<1>1. T \in SUBSET Nat /\ T # {}
  BY IdAssumption
<1>2. PICK n \in T : \A m \in T : n <= m
  <2> HIDE DEF T
  <2> QED BY <1>1, SmallestMember
<1>3. \E b \in S : \A c \in S : id[b] <= id[c]
  BY <1>2
<1> QED BY <1>3 DEF TieBreak

\* The blocks on the stack and the leaves reached are accessible ones, and the
\* inputs stay what they are.
THEOREM Accessibles ==
    ASSUME AllKnown, OneGenesis
    PROVE  Spec => []TypeOK
<1>1. Init => Somewhere
  BY DEF Init, Somewhere
<1>2. IInv /\ Somewhere => TypeOK
  BY DEF IInv, Somewhere, TypeOK, Inputs, OnHeaviest
<1> QED BY <1>1, <1>2, NextSomewhere, GhostInv, PTL DEF Spec

\* What more than half of the weight that voted builds on is on the chain that
\* optimized_ghost returns, for every forest, all votes and all known weights.
THEOREM Majority ==
    ASSUME AllKnown, OneGenesis
    PROVE  Spec => []MajorityKept
<1>1. Init => Somewhere
  BY DEF Init, Somewhere
<1>2. IInv /\ Somewhere => MajorityKept
  <2> SUFFICES ASSUME IInv, Somewhere, phase = "returned",
                      NEW b \in State, 2 * Score(b) > WeightOf(Voters)
               PROVE  IsMember(b, TieBreak(result))
    BY DEF MajorityKept, Voters
  <2>1. Weighted
    BY DEF Weighted, IInv, Somewhere
  <2>2. State \subseteq Block
    BY StateClosed DEF IInv
  <2>3. result \in SUBSET Block /\ result # {}
    BY <2>2 DEF IInv, Somewhere, OnHeaviest
  <2>4. TieBreak(result) \in result
    BY <2>3, TieBreakIsMember
  <2> DEFINE r == TieBreak(result)
  <2>5. r \in State /\ OnHeaviest(r) /\ Children(State, r) = {}
    BY <2>4 DEF IInv, OnHeaviest
  <2> HIDE DEF r
  <2>6. b \in Chain[r]
    BY <2>1, <2>5, MajorityBelow
  <2> QED BY <2>6 DEF IsMember, r
<1> QED BY <1>1, <1>2, NextSomewhere, GhostInv, PTL DEF Spec

-----------------------------------------------------------------------------
(* parse_blockchains *)

\* The messages are estimates of blocks.
Voted == estimate \in [Validator -> Block \cup {NoBlock}]

\* Blocks cannot all have a block of their own before them.
LEMMA SomeRoot ==
    ASSUME NEW S \in SUBSET Block, \A b \in S : prevblock[b] \in S
    PROVE  S = {}
<1> SUFFICES ASSUME NEW b \in S PROVE FALSE
  OBVIOUS
<1>1. Grounded(S)
  BY DEF Grounded
<1>2. Chain[b] \subseteq S
  BY <1>1, ChainClosure
<1>3. PICK g \in Chain[b] : prevblock[g] = NoBlock
  BY ForestAssumption
<1> QED BY <1>2, <1>3, NoBlockAssumption

\* A chain is finite: it has a first block.
LEMMA ChainFinite ==
    ASSUME NEW b \in Block
    PROVE  IsFiniteSet(Chain[b])
<1> DEFINE S == {a \in Block : ~IsFiniteSet(Chain[a])}
<1>1. ASSUME NEW a \in S PROVE prevblock[a] \in S
  <2>1. CASE prevblock[a] = NoBlock
    <3>1. Grounded({a}) /\ {a} \in SUBSET Block
      BY <2>1 DEF Grounded
    <3>2. Chain[a] \subseteq {a}
      BY <3>1, ChainClosure
    <3> QED BY <1>1, <3>2, FS_Singleton, FS_Subset
  <2>2. CASE prevblock[a] # NoBlock
    <3>1. prevblock[a] \in Block
      BY <2>2, PrevblockAssumption
    <3>2. Chain[a] \subseteq {a} \cup Chain[prevblock[a]]
      BY <3>1, ChainStep
    <3>3. IsFiniteSet(Chain[prevblock[a]]) => IsFiniteSet(Chain[a])
      BY <3>2, FS_Singleton, FS_Union, FS_Subset
    <3> QED BY <1>1, <3>1, <3>3
  <2> QED BY <2>1, <2>2
<1>2. S = {}
  <2> HIDE DEF S
  <2>1. S \in SUBSET Block
    BY DEF S
  <2> QED BY <1>1, <2>1, SomeRoot
<1> QED BY <1>2

\* Two blocks are not above each other.
LEMMA ChainAntisymmetric ==
    ASSUME NEW a \in Block, NEW b \in Block, a \in Chain[b], b \in Chain[a]
    PROVE  a = b
<1> SUFFICES ASSUME a # b PROVE FALSE
  OBVIOUS
<1>1. CASE prevblock[b] = NoBlock
  <2>1. Grounded({b}) /\ {b} \in SUBSET Block
    BY <1>1 DEF Grounded
  <2> QED BY <2>1, ChainClosure
<1>2. CASE prevblock[b] # NoBlock
  <2>1. prevblock[b] \in Block
    BY <1>2, PrevblockAssumption
  <2>2. a \in Chain[prevblock[b]]
    BY <2>1, ChainStep
  <2>3. b \in Chain[prevblock[b]]
    BY <2>1, <2>2, ChainTransitive
  <2> QED BY <1>2, <2>3, ForestAssumption
<1> QED BY <1>1, <1>2

\* The accessible blocks are finitely many, and closed under prevblock.
LEMMA TreeFinite ==
    ASSUME Voted
    PROVE  /\ State \subseteq Block /\ IsFiniteSet(State) /\ Tips \subseteq State
           /\ IsFiniteSet(Tips)
           /\ \A b \in State : Chain[b] \subseteq State
           /\ \A b \in State : \E t \in Tips : b \in Chain[t]
<1>1. Tips \subseteq Block /\ State = UNION {Chain[b] : b \in Tips}
  BY DEF Voted, State, Accessible, Tips
<1>2. IsFiniteSet(Tips)
  <2> DEFINE S == {estimate[v] : v \in Validator}
  <2>1. estimate \in Surjection(Validator, S)
    BY DEF Voted, Surjection
  <2>2. IsFiniteSet(S)
    <3> HIDE DEF S
    <3> QED BY <2>1, ValidatorAssumption, FS_Surjection
  <2> QED BY <2>2, FS_Subset DEF Tips
<1>3. IsFiniteSet({Chain[b] : b \in Tips})
  <2> DEFINE S == {Chain[b] : b \in Tips}
             f == [b \in Tips |-> Chain[b]]
  <2>1. f \in Surjection(Tips, S)
    BY DEF Surjection
  <2> HIDE DEF S
  <2> QED BY <1>2, <2>1, FS_Surjection DEF S
<1>4. IsFiniteSet(State)
  BY <1>1, <1>3, ChainFinite, FS_UNION
<1>5. ASSUME NEW t \in Tips PROVE t \in Chain[t] /\ Chain[t] \subseteq Block
  BY <1>1, ChainClosure
<1>6. ASSUME NEW t \in Tips, NEW b \in Chain[t] PROVE Chain[b] \subseteq Chain[t]
  BY <1>1, <1>6, ChainTransitive
<1> QED BY <1>1, <1>2, <1>4, <1>5, <1>6

\* The blocks in the queue.
Waiting(p) == {p.queue[i] : i \in 1 .. Len(p.queue)}

\* Those that were taken from it.
Treated(p) == p.attached \cup p.genesis

\* Along the loop each block that was visited is in one place, and the blocks
\* before those that were attached were visited.  Only a block that nothing else
\* waits for ends in `genesis` though it has a prevblock, and the queue has run
\* empty only when that block comes next.
GoodParse(p) ==
    /\ p \in Parsings
    /\ \A i, j \in 1 .. Len(p.queue) : p.queue[i] = p.queue[j] => i = j
    /\ Waiting(p) \cap Treated(p) = {} /\ p.attached \cap p.genesis = {}
    /\ p.visited = Waiting(p) \cup Treated(p)
    /\ \A b \in p.attached : prevblock[b] \in p.visited
    /\ Tips \subseteq p.visited /\ p.visited \subseteq State
    /\ p.genesis # {} => \E r \in Block : /\ p.genesis = {r}
                                          /\ prevblock[r] = NoBlock \/ p.queue = << >>
    /\ p.was_empty /\ p.genesis = {} => Len(p.queue) = 1

\* A round of the loop.
LEMMA ParseGoesOn ==
    ASSUME OneGenesis, Voted, Tips # {}, NEW p, GoodParse(p), p.queue # << >>
    PROVE  /\ GoodParse(ParseChild(p))
           /\ \E c \in State \ Treated(p) : Treated(ParseChild(p)) = Treated(p) \cup {c}
<1> DEFINE child  == Head(p.queue)
           parent == prevblock[child]
           rest   == Tail(p.queue)
           n      == Len(p.queue)
           next   == ParseChild(p)
<1>1. /\ p.queue \in Seq(Block) /\ p.visited \in SUBSET Block /\ p.attached \in SUBSET Block
      /\ p.genesis \in SUBSET Block /\ p.was_empty \in BOOLEAN
  BY DEF GoodParse, Parsings
<1>2. /\ n \in Nat /\ n >= 1 /\ child = p.queue[1] /\ child \in Waiting(p)
      /\ rest \in Seq(Block) /\ Len(rest) = n - 1
      /\ \A i \in 1 .. n - 1 : rest[i] = p.queue[i + 1] /\ i + 1 \in 1 .. n
  <2>1. n \in Nat /\ n >= 1 /\ child = p.queue[1] /\ rest \in Seq(Block)
    BY <1>1, EmptySeq
  <2>2. 1 \in 1 .. n
    BY <2>1
  <2>3. Len(rest) = n - 1 /\ \A i \in 1 .. n - 1 : rest[i] = p.queue[i + 1]
    BY <1>1, <2>1
  <2> QED BY <2>1, <2>2, <2>3 DEF Waiting
<1> DEFINE Rest == {rest[i] : i \in 1 .. n - 1}
<1>3. /\ Waiting(p) = Rest \cup {child} /\ child \notin Rest
      /\ \A i, j \in 1 .. n - 1 : rest[i] = rest[j] => i = j
  <2>1. \A i, j \in 1 .. n : p.queue[i] = p.queue[j] => i = j
    BY DEF GoodParse
  <2>2. \A i \in 1 .. n : i = 1 \/ (i - 1 \in 1 .. n - 1 /\ (i - 1) + 1 = i)
    BY <1>2
  <2>3. \A i \in 1 .. n : p.queue[i] = child \/ p.queue[i] \in Rest
    BY <1>2, <2>2
  <2>4. Waiting(p) \subseteq Rest \cup {child}
    <3> HIDE DEF Rest, child
    <3> QED BY <2>3 DEF Waiting
  <2>5. Rest \subseteq Waiting(p)
    BY <1>2 DEF Waiting
  <2>6. \A i, j \in 1 .. n - 1 : rest[i] = rest[j] => i = j
    <3>1. \A i, j \in 1 .. n - 1 : rest[i] = rest[j] => i + 1 = j + 1
      BY <1>2, <2>1
    <3> QED BY <1>2, <3>1
  <2>7. 1 \in 1 .. n /\ \A i \in 1 .. n - 1 : i + 1 # 1
    BY <1>2
  <2>8. \A i \in 1 .. n - 1 : rest[i] # child
    BY <1>2, <2>1, <2>7
  <2>9. child \notin Rest
    <3> HIDE DEF child, rest
    <3> QED BY <2>8
  <2> QED BY <1>2, <2>4, <2>5, <2>6, <2>9
<1>4. child \in p.visited /\ child \in State /\ child \in Block /\ child \notin Treated(p)
  BY <1>2, TreeFinite DEF GoodParse
<1>5. /\ p.visited = Waiting(p) \cup Treated(p) /\ Waiting(p) \cap Treated(p) = {}
      /\ p.attached \cap p.genesis = {}
      /\ \A b \in p.attached : prevblock[b] \in p.visited
      /\ Tips \subseteq p.visited /\ p.visited \subseteq State
      /\ p.genesis # {} => \E r \in Block : p.genesis = {r} /\ prevblock[r] = NoBlock
      /\ p.was_empty /\ p.genesis = {} => n = 1
  BY DEF GoodParse
<1>6. CASE parent = NoBlock \/ (p.was_empty /\ p.genesis = {})
  <2>1. next = [p EXCEPT !.queue = rest, !.genesis = @ \cup {child}]
    BY <1>6 DEF ParseChild
  <2>2. /\ next \in Parsings
        /\ next.queue = rest /\ next.genesis = p.genesis \cup {child}
        /\ next.visited = p.visited /\ next.attached = p.attached
    <3>1. p \in Parsings
      BY DEF GoodParse
    <3> HIDE DEF child, rest, next
    <3>2. /\ next.queue = rest /\ next.genesis = p.genesis \cup {child}
          /\ next.visited = p.visited /\ next.attached = p.attached
      BY <2>1, <3>1 DEF Parsings
    <3>3. next \in Parsings
      BY <1>1, <1>2, <1>4, <2>1, <3>1 DEF Parsings
    <3> QED BY <3>2, <3>3
  <2>3. Waiting(next) = Rest /\ Treated(next) = Treated(p) \cup {child}
    BY <1>2, <2>2 DEF Waiting, Treated
  <2>4. p.genesis = {}
    BY <1>4, <1>5, <1>6 DEF OneGenesis, Treated
  <2>5. parent = NoBlock \/ rest = << >>
    <3>1. CASE p.was_empty /\ p.genesis = {}
      <4>1. Len(rest) = 0
        BY <1>2, <1>5, <3>1
      <4> QED BY <1>2, <4>1, EmptySeq
    <3> QED BY <1>6, <3>1
  <2>6. \E r \in Block : next.genesis = {r} /\ (prevblock[r] = NoBlock \/ next.queue = << >>)
    BY <1>4, <2>2, <2>4, <2>5
  <2>7. next.genesis # {}
    BY <2>2
  <2>8. \A i, j \in 1 .. Len(next.queue) : next.queue[i] = next.queue[j] => i = j
    BY <1>2, <1>3, <2>2
  <2> HIDE DEF next, Rest, child, parent, rest, n
  <2>9. /\ Waiting(next) \cap Treated(next) = {} /\ next.attached \cap next.genesis = {}
        /\ next.visited = Waiting(next) \cup Treated(next)
    BY <1>3, <1>4, <1>5, <2>2, <2>3 DEF Treated
  <2>10. GoodParse(next)
    BY <1>5, <2>2, <2>6, <2>7, <2>8, <2>9 DEF GoodParse
  <2> QED BY <1>4, <2>3, <2>10 DEF next
<1>7. CASE ~(parent = NoBlock \/ (p.was_empty /\ p.genesis = {}))
  <2> DEFINE q == IF parent \in p.visited THEN rest ELSE Append(rest, parent)
  <2>1. next = [p EXCEPT !.queue = q, !.visited = @ \cup {parent},
                         !.attached = @ \cup {child},
                         !.was_empty = p.was_empty \/ rest = << >>]
    BY <1>7 DEF ParseChild
  <2>2. parent \in Block /\ parent \in State
    <3>1. parent \in Block
      BY <1>4, <1>7, PrevblockAssumption
    <3>2. parent \in Chain[child]
      BY <1>4, <3>1, NoBlockAssumption, ChainClosure DEF Grounded
    <3> QED BY <1>4, <3>1, <3>2, TreeFinite
  <2>3. q \in Seq(Block)
    BY <1>2, <2>2
  <2>4. /\ next \in Parsings
        /\ next.queue = q /\ next.visited = p.visited \cup {parent}
        /\ next.attached = p.attached \cup {child} /\ next.genesis = p.genesis
        /\ next.was_empty = (p.was_empty \/ rest = << >>)
    <3> HIDE DEF child, parent, rest, next, q
    <3> QED BY <1>1, <1>4, <2>1, <2>2, <2>3 DEF GoodParse, Parsings
  <2>5. CASE parent \in p.visited
    <3>1. q = rest
      BY <2>5
    <3> HIDE DEF q
    <3>2. Waiting(next) = Rest /\ Treated(next) = Treated(p) \cup {child}
      BY <1>2, <2>4, <3>1 DEF Waiting, Treated
    <3>3. \A i, j \in 1 .. Len(next.queue) : next.queue[i] = next.queue[j] => i = j
      BY <1>2, <1>3, <2>4, <3>1
    <3>4. next.genesis # {} => \E r \in Block : next.genesis = {r} /\ prevblock[r] = NoBlock
      BY <1>5, <2>4
    <3>5. ASSUME next.was_empty, next.genesis = {} PROVE FALSE
      <4>1. rest = << >>
        <5>1. ~p.was_empty
          BY <1>7, <2>4, <3>5
        <5> HIDE DEF next, rest
        <5>2. next.was_empty = (p.was_empty \/ rest = << >>)
          BY <2>4
        <5> QED BY <3>5, <5>1, <5>2, Zenon
      <4>2. Rest = {}
        <5>1. n = 1
          <6> HIDE DEF rest, n
          <6>1. Len(rest) = 0
            BY <4>1
          <6> QED BY <1>2, <6>1
        <5> QED BY <5>1
      <4>3. next.visited = next.attached
        <5> HIDE DEF Rest, child, parent, next
        <5> QED BY <1>3, <1>5, <2>4, <2>5, <3>5, <4>2 DEF Treated
      <4>4. \A b \in next.attached : prevblock[b] \in next.attached
        BY <1>5, <2>4, <4>3
      <4>5. next.attached \in SUBSET Block
        BY <2>4 DEF Parsings
      <4>6. next.attached # {}
        BY <2>4
      <4> HIDE DEF next
      <4> QED BY <4>4, <4>5, <4>6, SomeRoot
    <3> HIDE DEF next, Rest, child, parent, rest, n
    <3>6. /\ Waiting(next) \cap Treated(next) = {} /\ next.attached \cap next.genesis = {}
          /\ next.visited = Waiting(next) \cup Treated(next)
      BY <1>3, <1>4, <1>5, <2>4, <2>5, <3>2 DEF Treated
    <3>7. \A b \in next.attached : prevblock[b] \in next.visited
      BY <1>5, <2>4 DEF parent
    <3>8. GoodParse(next)
      BY <1>5, <2>2, <2>4, <3>3, <3>4, <3>5, <3>6, <3>7 DEF GoodParse
    <3> QED BY <1>4, <3>2, <3>8 DEF next
  <2>6. CASE parent \notin p.visited
    <3>1. q = Append(rest, parent)
      BY <2>6
    <3> HIDE DEF q
    <3>2. /\ Len(q) = n /\ q[n] = parent /\ \A i \in 1 .. n - 1 : q[i] = rest[i]
          /\ \A i \in 1 .. n : i = n \/ i \in 1 .. n - 1
      BY <1>2, <2>2, <3>1
    <3>3. parent \notin Rest
      BY <1>3, <1>5, <2>6
    <3>4. \A i \in 1 .. n - 1 : rest[i] # parent
      <4> HIDE DEF rest, parent
      <4> QED BY <3>3
    <3>5. \A i, j \in 1 .. n : q[i] = q[j] => i = j
      <4> HIDE DEF rest, parent, n
      <4> QED BY <1>3, <3>2, <3>4
    <3>6. Waiting(next) = Rest \cup {parent} /\ Treated(next) = Treated(p) \cup {child}
      <4>1. Waiting(next) = {q[i] : i \in 1 .. n}
        BY <2>4, <3>2 DEF Waiting
      <4>2. n \in 1 .. n /\ 1 .. n - 1 \subseteq 1 .. n
        BY <1>2
      <4>3. {q[i] : i \in 1 .. n} = Rest \cup {parent}
        <5> HIDE DEF rest, parent, n
        <5> QED BY <3>2, <4>2
      <4> QED BY <2>4, <4>1, <4>3 DEF Treated
    <3>7. next.genesis # {} => \E r \in Block : next.genesis = {r} /\ prevblock[r] = NoBlock
      BY <1>5, <2>4
    <3>8. ASSUME next.was_empty, next.genesis = {} PROVE Len(next.queue) = 1
      <4>1. rest = << >>
        <5>1. ~p.was_empty
          BY <1>7, <2>4, <3>8
        <5> HIDE DEF next, rest
        <5>2. next.was_empty = (p.was_empty \/ rest = << >>)
          BY <2>4
        <5> QED BY <3>8, <5>1, <5>2, Zenon
      <4>2. n = 1
        <5> HIDE DEF rest, n
        <5>1. Len(rest) = 0
          BY <4>1
        <5> QED BY <1>2, <5>1
      <4> QED BY <2>4, <3>2, <4>2
    <3>9. \A i, j \in 1 .. Len(next.queue) : next.queue[i] = next.queue[j] => i = j
      BY <2>4, <3>2, <3>5
    <3> HIDE DEF next, Rest, child, parent, rest, n
    <3>10. /\ Waiting(next) \cap Treated(next) = {} /\ next.attached \cap next.genesis = {}
           /\ next.visited = Waiting(next) \cup Treated(next)
      BY <1>3, <1>4, <1>5, <2>4, <2>6, <3>6 DEF Treated
    <3>11. \A b \in next.attached : prevblock[b] \in next.visited
      BY <1>5, <2>4 DEF parent
    <3>12. GoodParse(next)
      BY <1>5, <2>2, <2>4, <3>7, <3>8, <3>9, <3>10, <3>11 DEF GoodParse
    <3> QED BY <1>4, <3>6, <3>12 DEF next
  <2> QED BY <2>5, <2>6
<1> QED BY <1>6, <1>7

\* f satisfies the recursion of the loop.
Parses(f) == f = [p \in Parsings |-> IF p.queue = << >> THEN p ELSE f[ParseChild(p)]]

\* What a round changes keeps its type.
LEMMA RoundTypes ==
    ASSUME NEW p, p \in Parsings, NEW q \in Seq(Block), NEW child \in Block, NEW parent \in Block,
           NEW e \in BOOLEAN
    PROVE  /\ [p EXCEPT !.queue = q, !.genesis = @ \cup {child}] \in Parsings
           /\ [p EXCEPT !.queue = q, !.visited = @ \cup {parent},
                        !.attached = @ \cup {child}, !.was_empty = e] \in Parsings
BY DEF Parsings

\* The recursion has a solution.
LEMMA ParsesExists == \E f : Parses(f)
<1> DEFINE Done == {p \in Parsings : p.queue = << >>}
           next == [p \in Parsings |-> ParseChild(p)]
           out == [p \in Parsings |-> p]
<1>1. ASSUME NEW p, p \in Parsings, p.queue # << >> PROVE ParseChild(p) \in Parsings
  <2> DEFINE child == Head(p.queue)
             rest == Tail(p.queue)
             parent == prevblock[child]
             q == IF parent \in p.visited THEN rest ELSE Append(rest, parent)
             round == ParseChild(p)
  <2>1. p.queue \in Seq(Block)
    BY <1>1 DEF Parsings
  <2>2. child \in Block /\ rest \in Seq(Block)
    BY <1>1, <2>1
  <2>3. CASE parent = NoBlock \/ (p.was_empty /\ p.genesis = {})
    <3>1. round = [p EXCEPT !.queue = rest, !.genesis = @ \cup {child}]
      BY <2>3 DEF ParseChild
    <3> HIDE DEF child, rest, parent, round
    <3>2. round \in Parsings
      BY <1>1, <2>2, <3>1, RoundTypes
    <3> QED BY <3>2 DEF round
  <2>4. CASE ~(parent = NoBlock \/ (p.was_empty /\ p.genesis = {}))
    <3>1. round = [p EXCEPT !.queue = q, !.visited = @ \cup {parent},
                             !.attached = @ \cup {child},
                             !.was_empty = p.was_empty \/ rest = << >>]
      BY <2>4 DEF ParseChild
    <3>2. parent \in Block
      BY <2>2, <2>4, PrevblockAssumption
    <3>3. q \in Seq(Block)
      BY <2>2, <3>2
    <3> HIDE DEF child, rest, parent, q, round
    <3>4. round \in Parsings
      BY <1>1, <2>2, <3>1, <3>2, <3>3, RoundTypes
    <3> QED BY <3>4 DEF round
  <2> QED BY <2>3, <2>4
<1> PICK C, D, n, o : C = Parsings /\ D = Done /\ n = next /\ o = out
  OBVIOUS
<1>2. \A c \in C \ D : n[c] \in C
  BY <1>1
<1>3. PICK f : GoesOn(C, D, n, o, f)
  BY <1>2, TailRecursion
<1>4. Parses(f)
  <2> DEFINE g == [p \in Parsings |-> IF p.queue = << >> THEN p ELSE f[ParseChild(p)]]
  <2>1. \A p \in Parsings : f[p] = g[p]
    BY <1>3 DEF GoesOn
  <2>2. f = [p \in Parsings |-> f[p]] /\ g = [p \in Parsings |-> g[p]]
    BY <1>3 DEF GoesOn
  <2>3. f = g
    <3> HIDE DEF g
    <3> QED BY <2>1, <2>2
  <2> QED BY <2>3 DEF Parses
<1> QED BY <1>4

\* The loop ends with what a last round leaves: each takes a block from the queue
\* that no other takes.
LEMMA ParseEnds ==
    ASSUME OneGenesis, Voted, Tips # {}, NEW f, Parses(f), NEW p, GoodParse(p)
    PROVE  GoodParse(f[p]) /\ f[p].queue = << >>
<1> DEFINE Left(r) == State \ Treated(r)
           X == {T \in SUBSET State : \A r \in Parsings : GoodParse(r) /\ Left(r) = T
                                          => GoodParse(f[r]) /\ f[r].queue = << >>}
<1>1. \A r \in Parsings : f[r] = IF r.queue = << >> THEN r ELSE f[ParseChild(r)]
  BY DEF Parses
<1>2. ASSUME NEW T \in SUBSET State, \A U \in SUBSET T : U # T => U \in X
      PROVE  T \in X
  <2> SUFFICES ASSUME NEW r \in Parsings, GoodParse(r), Left(r) = T
               PROVE  GoodParse(f[r]) /\ f[r].queue = << >>
    OBVIOUS
  <2>1. CASE r.queue = << >>
    <3>1. f[r] = r
      BY <1>1, <2>1
    <3> QED BY <2>1, <3>1
  <2>2. CASE r.queue # << >>
    <3> PICK s : s = ParseChild(r)
      OBVIOUS
    <3>1. GoodParse(s) /\ \E c \in State \ Treated(r) : Treated(s) = Treated(r) \cup {c}
      BY <2>2, ParseGoesOn
    <3>2. Left(s) \in SUBSET T /\ Left(s) # T
      BY <3>1
    <3>3. Left(s) \in X /\ s \in Parsings
      BY <1>2, <3>1, <3>2 DEF GoodParse
    <3>4. GoodParse(f[s]) /\ f[s].queue = << >>
      BY <3>1, <3>3
    <3>5. f[r] = f[s]
      BY <1>1, <2>2
    <3> QED BY <3>4, <3>5
  <2> QED BY <2>1, <2>2
<1>3. State \ Treated(p) \in X
  <2>1. Left(p) \in SUBSET State /\ IsFiniteSet(Left(p))
    BY TreeFinite, FS_Subset
  <2>2. \A T \in SUBSET Left(p) : (\A U \in SUBSET T : U # T => U \in X) => T \in X
    BY <1>2, <2>1
  <2> HIDE DEF X
  <2> QED BY <2>1, <2>2, FiniteStrongInduction
<1>4. p \in Parsings
  BY DEF GoodParse
<1> QED BY <1>3, <1>4

\* p is the tree above root, with all tips.
TreeAbove(root, p) ==
    LET above == {b \in State : IsMember(root, b)} IN
    /\ p.genesis = {root}
    /\ p.visited = above
    /\ p.attached = above \ {root}
    /\ Tips \subseteq above

\* What the loop ends with is a tree: one root, and what is above it.
LEMMA GoodParseIsTree ==
    ASSUME Voted, Tips # {}, NEW p, GoodParse(p), p.queue = << >>
    PROVE  \E root \in State : TreeAbove(root, p)
<1>1. /\ p.attached \cap p.genesis = {} /\ p.visited = p.attached \cup p.genesis
      /\ \A b \in p.attached : prevblock[b] \in p.visited
      /\ Tips \subseteq p.visited /\ p.visited \subseteq State
  <2>1. Waiting(p) = {}
    <3>1. Len(p.queue) = 0
      BY EmptySeq
    <3> QED BY <3>1 DEF Waiting
  <2> QED BY <2>1 DEF GoodParse, Treated
<1>2. /\ State \subseteq Block /\ \A b \in State : Chain[b] \subseteq State
      /\ \A b \in State : \E t \in Tips : b \in Chain[t]
  BY TreeFinite
<1>3. p.genesis # {}
  <2> SUFFICES ASSUME p.genesis = {} PROVE FALSE
    OBVIOUS
  <2>1. p.attached \in SUBSET Block /\ p.attached # {}
        /\ \A b \in p.attached : prevblock[b] \in p.attached
    BY <1>1, <1>2
  <2> QED BY <2>1, SomeRoot
<1>4. PICK root \in Block : p.genesis = {root}
  BY <1>3 DEF GoodParse
<1>5. root \in State /\ p.visited = p.attached \cup {root} /\ root \notin p.attached
  BY <1>1, <1>4
<1>6. ASSUME NEW b \in p.visited PROVE root \in Chain[b]
  <2> DEFINE S == {c \in p.visited : root \notin Chain[c]}
  <2>1. S \in SUBSET Block
    BY <1>1, <1>2
  <2>2. ASSUME NEW c \in S PROVE prevblock[c] \in S
    <3>1. c \in Block /\ c # root
      BY <2>1, <2>2, ChainClosure
    <3>2. prevblock[c] \in p.visited /\ prevblock[c] \in Block
      BY <1>1, <1>2, <1>5, <3>1
    <3>3. prevblock[c] \in Chain[c]
      BY <3>1, <3>2, NoBlockAssumption, ChainClosure DEF Grounded
    <3>4. Chain[prevblock[c]] \subseteq Chain[c]
      BY <3>1, <3>3, ChainTransitive
    <3> QED BY <2>2, <3>2, <3>4
  <2>3. S = {}
    <3> HIDE DEF S
    <3> QED BY <2>1, <2>2, SomeRoot
  <2> QED BY <2>3
<1>7. ASSUME NEW b \in State, root \in Chain[b] PROVE b \in p.visited
  <2>1. PICK t \in Tips : b \in Chain[t]
    BY <1>2
  <2> DEFINE S == p.visited \cup Chain[root]
  <2>2. S \in SUBSET Block /\ t \in S
    BY <1>1, <1>2, <2>1, ChainClosure
  <2>3. Grounded(S)
    BY <1>1, <1>5, ChainClosure DEF Grounded
  <2>4. b \in S
    <3>1. t \in Block
      BY <1>1, <1>2
    <3> QED BY <2>1, <2>2, <2>3, <3>1, ChainClosure
  <2>5. b \in Chain[root] => b = root
    BY <1>2, <1>7, ChainAntisymmetric
  <2> QED BY <1>5, <2>4, <2>5
<1>8. p.visited = {b \in State : root \in Chain[b]}
  BY <1>1, <1>6, <1>7
<1> QED BY <1>1, <1>4, <1>5, <1>8 DEF IsMember, TreeAbove

\* The loop starts with the tips, each once.
LEMMA ParseStarts ==
    ASSUME Voted, NEW tips \in SetToSeqs(Tips)
    PROVE  GoodParse([queue |-> tips, visited |-> Range(tips), attached |-> {},
                      genesis |-> {}, was_empty |-> FALSE])
<1> DEFINE n == Cardinality(Tips)
<1>1. IsFiniteSet(Tips) /\ Tips \subseteq State /\ State \subseteq Block
  BY TreeFinite
<1>2. n \in Nat /\ IsFiniteSet(1 .. n) /\ Cardinality(1 .. n) = n
  BY <1>1, FS_CardinalityType, FS_Interval
<1>3. tips \in [1 .. n -> Tips] /\ \A i, j \in 1 .. n : i # j => tips[i] # tips[j]
  BY DEF SetToSeqs
<1>4. tips \in Injection(1 .. n, Tips)
  BY <1>3 DEF Injection, IsInjective
<1>5. tips \in Surjection(1 .. n, Tips)
  BY <1>1, <1>2, <1>4, FS_Injection
<1>6. \A b \in Tips : \E i \in 1 .. n : tips[i] = b
  BY <1>5 DEF Surjection
<1>7. tips \in Seq(Block) /\ Len(tips) = n /\ DOMAIN tips = 1 .. n
  <2> HIDE DEF n
  <2>1. tips \in [1 .. n -> Block]
    BY <1>1, <1>3
  <2> QED BY <1>2, <2>1, IsASeq
<1>8. Range(tips) = Tips
  <2> HIDE DEF n
  <2> QED BY <1>3, <1>6, <1>7 DEF Range
<1> PICK p : p = [queue |-> tips, visited |-> Range(tips), attached |-> {},
                  genesis |-> {}, was_empty |-> FALSE]
  OBVIOUS
<1>9. /\ p \in Parsings /\ p.queue = tips /\ p.visited = Tips /\ p.attached = {}
      /\ p.genesis = {} /\ ~p.was_empty
  BY <1>1, <1>7, <1>8 DEF Parsings
<1>10. Waiting(p) = Tips
  <2> HIDE DEF n
  <2> QED BY <1>3, <1>6, <1>7, <1>9 DEF Waiting
<1>11. GoodParse(p)
  <2>1. \A i, j \in 1 .. Len(p.queue) : p.queue[i] = p.queue[j] => i = j
    BY <1>3, <1>7, <1>9
  <2>2. Treated(p) = {}
    BY <1>9 DEF Treated
  <2> HIDE DEF n
  <2> QED BY <1>1, <1>9, <1>10, <2>1, <2>2 DEF GoodParse
<1> QED BY <1>11

\* So the loop builds the tree, or has nothing to do.
LEMMA ParsedIsTree ==
    ASSUME OneGenesis, Voted, NEW tips \in SetToSeqs(Tips)
    PROVE  /\ Tips # {} => \E root \in State : TreeAbove(root, Parsed(tips))
           /\ Tips = {} => /\ Parsed(tips).visited = {} /\ Parsed(tips).attached = {}
                          /\ Parsed(tips).genesis = {}
<1> PICK f : f = CHOOSE g : Parses(g)
  OBVIOUS
<1> PICK p : p = [queue |-> tips, visited |-> Range(tips), attached |-> {},
                  genesis |-> {}, was_empty |-> FALSE]
  OBVIOUS
<1>1. Parsed(tips) = f[p]
  BY DEF Parsed, Parses
<1>2. Parses(f)
  BY ParsesExists
<1>3. GoodParse(p)
  BY ParseStarts
<1>4. ASSUME Tips # {} PROVE \E root \in State : TreeAbove(root, f[p])
  BY <1>2, <1>3, <1>4, ParseEnds, GoodParseIsTree
<1>5. ASSUME Tips = {}
      PROVE  f[p].visited = {} /\ f[p].attached = {} /\ f[p].genesis = {}
  <2>1. p.attached = {} /\ p.genesis = {} /\ p.queue = tips /\ p \in Parsings
    BY <1>3 DEF GoodParse
  <2>2. tips = << >>
    <3>1. Cardinality(Tips) = 0
      BY <1>5, FS_EmptySet
    <3>2. tips \in [1 .. 0 -> Tips]
      BY <3>1 DEF SetToSeqs
    <3> QED BY <3>2
  <2>3. f[p] = p
    BY <1>2, <2>1, <2>2 DEF Parses
  <2>4. p.visited = {}
    <3>1. Waiting(p) = {}
      BY <2>1, <2>2 DEF Waiting
    <3> QED BY <1>3, <2>1, <3>1 DEF GoodParse, Treated
  <2> QED BY <2>1, <2>3, <2>4
<1> QED BY <1>1, <1>4, <1>5

\* parse_blockchains builds the tree above one root in whatever order the tips are
\* queued, for every forest with one genesis block, all votes and all weights.
THEOREM Parsing ==
    ASSUME OneGenesis
    PROVE  Spec => []ParsesTree
<1>1. Init => Voted
  BY DEF Init, Voted
<1>2. Voted /\ [Next]_vars => Voted'
  BY DEF Next, Start, PopLeaf, PopFork, Return, vars, Voted
<1>3. Voted => ParsesTree
  <2> SUFFICES ASSUME Voted, Tips # {}, NEW tips \in SetToSeqs(Tips)
               PROVE  LET tree == Parsed(tips) IN
                      \E root \in State :
                         LET above == {b \in State : IsMember(root, b)} IN
                         /\ tree.genesis = {root}
                         /\ tree.visited = above
                         /\ tree.attached = above \ {root}
                         /\ Tips \subseteq above
    BY DEF ParsesTree
  <2>1. PICK root \in State : TreeAbove(root, Parsed(tips))
    BY ParsedIsTree
  <2> QED BY <2>1 DEF TreeAbove
<1> QED BY <1>1, <1>2, <1>3, PTL DEF Spec

-----------------------------------------------------------------------------
(* Value of the ternary example *)

\* sum_weight_validators, as a fold of Plus.
PlusAll(w, S) ==
    MapThenFoldSet(Plus, Zero, LAMBDA v : w[v], LAMBDA T : CHOOSE v \in T : TRUE, S)

\* f satisfies the recursion of the fold over S.
FoldsSet(w, S, f) ==
    f = [T \in SUBSET S |-> IF T = {} THEN 0 ELSE Plus(w[AnyOf(T)], f[T \ {AnyOf(T)}])]

\* Of natural numbers the fold is the sum.
LEMMA PlusAllIsSum ==
    ASSUME NEW w, NEW S, Weighs(w, S)
    PROVE  PlusAll(w, S) = SumOf(w, S)
<1> DEFINE c == [T \in SUBSET S |-> Cardinality(Units(w, T))]
<1>1. PlusAll(w, S) = (CHOOSE f : FoldsSet(w, S, f))[S]
  BY DEF PlusAll, MapThenFoldSet, FoldsSet, AnyOf, Zero
<1>2. ASSUME NEW T \in SUBSET S PROVE c[T] \in Nat
  <2>1. Weighs(w, T)
    BY FS_Subset DEF Weighs
  <2> QED BY <2>1, UnitsFinite, FS_CardinalityType
<1>3. ASSUME NEW T \in SUBSET S
      PROVE  c[T] = IF T = {} THEN 0 ELSE w[AnyOf(T)] + c[T \ {AnyOf(T)}]
  <2>1. Sums(w, S, c)
    BY UnitsSum
  <2> HIDE DEF c
  <2> QED BY <2>1 DEF Sums
<1>4. ASSUME NEW T \in SUBSET S, T # {}
      PROVE  /\ AnyOf(T) \in T /\ T \ {AnyOf(T)} \in SUBSET S
             /\ Plus(w[AnyOf(T)], c[T \ {AnyOf(T)}]) = w[AnyOf(T)] + c[T \ {AnyOf(T)}]
  <2>1. AnyOf(T) \in T
    BY <1>4 DEF AnyOf
  <2>2. w[AnyOf(T)] \in Nat /\ c[T \ {AnyOf(T)}] \in Nat
    BY <1>2, <2>1 DEF Weighs
  <2> HIDE DEF c
  <2> QED BY <2>1, <2>2, SpecialAssumption DEF Plus
<1>5. FoldsSet(w, S, c)
  <2>1. c = [T \in SUBSET S |-> c[T]]
    OBVIOUS
  <2>2. \A T \in SUBSET S :
           c[T] = IF T = {} THEN 0 ELSE Plus(w[AnyOf(T)], c[T \ {AnyOf(T)}])
    BY <1>3, <1>4
  <2> HIDE DEF c
  <2> QED BY <2>1, <2>2 DEF FoldsSet
<1>6. PICK f : PlusAll(w, S) = f[S] /\ FoldsSet(w, S, f)
  BY <1>1, <1>5
<1> DEFINE X == {T \in SUBSET S : f[T] = c[T]}
<1>7. ASSUME NEW T \in SUBSET S, \A U \in SUBSET T : U # T => U \in X
      PROVE  T \in X
  <2>1. CASE T = {}
    BY <1>3, <1>6, <2>1 DEF FoldsSet
  <2>2. CASE T # {}
    <3>1. T \ {AnyOf(T)} \in X
      BY <1>4, <1>7, <2>2
    <3>2. f[T] = Plus(w[AnyOf(T)], f[T \ {AnyOf(T)}])
      BY <1>6, <2>2 DEF FoldsSet
    <3> QED BY <1>3, <1>4, <2>2, <3>1, <3>2
  <2> QED BY <2>1, <2>2
<1>8. S \in X
  <2> HIDE DEF X
  <2> QED BY <1>7, FiniteStrongInduction DEF Weighs
<1>9. SumOf(w, S) = Cardinality(Units(w, S))
  BY SumCountsUnits
<1> QED BY <1>6, <1>8, <1>9

\* The weight of a value is a natural number: unknown weights are left out.
LEMMA TernaryWeightType ==
    ASSUME NEW w, w \in [Validator -> Nat \cup {Absent}], NEW k \in 0 .. 2
    PROVE  TernaryWeight(w, k) \in Nat
<1> DEFINE S == {v \in Voters : Value(v) % 3 = k /\ w[v] # Absent}
<1>1. TernaryWeight(w, k) = PlusAll(w, S)
  BY DEF TernaryWeight, PlusAll
<1>2. S \subseteq Validator /\ \A v \in S : w[v] \in Nat
  BY DEF Voters
<1>3. Weighs(w, S)
  BY <1>2, ValidatorAssumption, FS_Subset DEF Weighs
<1> HIDE DEF S
<1> QED BY <1>1, <1>3, PlusAllIsSum, SumIsNat

\* The two comparisons find the last of the heaviest.
LEMMA TernaryDecides ==
    ASSUME NEW w, w \in [Validator -> Nat \cup {Absent}], NEW k \in 0 .. 2
    PROVE  Ternary(w) = k <=>
                /\ \A j \in 0 .. 2 : j < k => TernaryWeight(w, j) <= TernaryWeight(w, k)
                /\ \A j \in 0 .. 2 : j > k => TernaryWeight(w, j) < TernaryWeight(w, k)
<1>1. PICK a, b, c \in Nat : /\ a = TernaryWeight(w, 0) /\ b = TernaryWeight(w, 1)
                             /\ c = TernaryWeight(w, 2)
  BY TernaryWeightType
<1>2. \A x, y \in Nat : Less(x, y) <=> x < y
  BY SpecialAssumption DEF Less, Comparable
<1>3. Ternary(w) = IF (IF c < b THEN b ELSE c) < a THEN 0 ELSE IF c < b THEN 1 ELSE 2
  BY <1>1, <1>2 DEF Ternary
<1>4. \A j \in 0 .. 2 : j = 0 \/ j = 1 \/ j = 2
  OBVIOUS
<1>5. CASE k = 0
  BY <1>1, <1>3, <1>4, <1>5
<1>6. CASE k = 1
  BY <1>1, <1>3, <1>4, <1>6
<1>7. CASE k = 2
  BY <1>1, <1>3, <1>4, <1>7
<1> QED BY <1>4, <1>5, <1>6, <1>7

\* The ternary estimate is the heaviest value, and the last of them in a tie, for all
\* votes and all weights, known or not.
THEOREM Plurality == Spec => []LastHeaviest
<1> DEFINE Inv == weights \in Weightings
<1>1. Init => Inv
  BY DEF Init
<1>2. Inv /\ [Next]_vars => Inv'
  BY DEF Next, Start, PopLeaf, PopFork, Return, vars
<1>3. Inv => LastHeaviest
  <2> SUFFICES ASSUME Inv, NEW w \in Doubtful, NEW k \in 0 .. 2
               PROVE  Ternary(w) = k <=>
                        /\ \A j \in 0 .. 2 : j < k => TernaryWeight(w, j) <= TernaryWeight(w, k)
                        /\ \A j \in 0 .. 2 : j > k => TernaryWeight(w, j) < TernaryWeight(w, k)
    BY DEF LastHeaviest
  <2>1. w \in [Validator -> Nat \cup {Absent}]
    <3>1. weights \in [Validator -> Nat \cup {Absent}]
      BY WeightingsAssumption
    <3> QED BY <3>1 DEF Doubtful
  <2> QED BY <2>1, TernaryDecides
<1> QED BY <1>1, <1>2, <1>3, PTL DEF Spec

-----------------------------------------------------------------------------
(* IntegerWrapper *)

Weighings == [Validator -> Nat \cup {Absent}]

\* What the members of S weigh together; not a number if one is unknown.
Charge(w, S) == IF \E v \in S : w[v] = Absent THEN NaN ELSE SumOf(w, S)

\* One more member adds its weight.
LEMMA ChargeMore ==
    ASSUME NEW w \in Weighings, NEW S \in SUBSET Validator, NEW v \in Validator \ S
    PROVE  Charge(w, S \cup {v}) = Plus(Charge(w, S), Weigh(w, v))
<1>1. CASE \E u \in S \cup {v} : w[u] = Absent
  <2>1. Charge(w, S \cup {v}) = NaN
    BY <1>1 DEF Charge
  <2>2. Charge(w, S) = NaN \/ Weigh(w, v) = NaN
    BY <1>1 DEF Charge, Weigh
  <2>3. \A a, b : a = NaN \/ b = NaN => Plus(a, b) = NaN
    BY DEF Plus
  <2> QED BY <2>1, <2>2, <2>3, Zenon
<1>2. CASE ~ \E u \in S \cup {v} : w[u] = Absent
  <2>1. Weighs(w, S) /\ v \notin S /\ w[v] \in Nat
    BY <1>2, ValidatorAssumption, FS_Subset DEF Weighs, Weighings
  <2>2. SumOf(w, S \cup {v}) = SumOf(w, S) + w[v] /\ SumOf(w, S) \in Nat
    BY <2>1, SumOfOneMore, SumIsNat
  <2>3. \A a, b \in Nat : Plus(a, b) = a + b
    BY SpecialAssumption DEF Plus
  <2>4. Charge(w, S \cup {v}) = SumOf(w, S \cup {v}) /\ Charge(w, S) = SumOf(w, S)
    BY <1>2 DEF Charge
  <2>5. Weigh(w, v) = w[v]
    BY <1>2 DEF Weigh
  <2> QED BY <2>1, <2>2, <2>3, <2>4, <2>5
<1> QED BY <1>1, <1>2

\* It is a natural number, or not a number.
LEMMA ChargeType ==
    ASSUME NEW w \in Weighings, NEW S \in SUBSET Validator
    PROVE  /\ Charge(w, S) \in Nat \cup {NaN}
           /\ Charge(w, S) # NaN => Weighs(w, S) /\ Charge(w, S) = SumOf(w, S)
<1>1. CASE \E v \in S : w[v] = Absent
  BY <1>1 DEF Charge
<1>2. CASE ~ \E v \in S : w[v] = Absent
  <2>1. Weighs(w, S)
    BY <1>2, ValidatorAssumption, FS_Subset DEF Weighs, Weighings
  <2>2. Charge(w, S) = SumOf(w, S)
    BY <1>2 DEF Charge
  <2> QED BY <2>1, <2>2, SumIsNat
<1> QED BY <1>1, <1>2

\* q lists n validators.
ListsOnce(n, q) == q \in [1 .. n -> Validator] /\ \A i, j \in 1 .. n : q[i] = q[j] => i = j

\* The total of a list does not depend on its order.
LEMMA TotalIsCharge ==
    ASSUME NEW w \in Weighings, NEW n \in Nat, NEW q, ListsOnce(n, q)
    PROVE  Total(w, q) = Charge(w, {q[i] : i \in 1 .. n})
<1> USE DEF ListsOnce
<1> DEFINE A == Nat \cup {NaN}
           step == [i \in 1 .. n |-> [a \in A |-> Plus(a, Weigh(w, q[i]))]]
           Adds(f) == f = [T \in SUBSET (1 .. n) |->
                              IF T = {} THEN 0
                              ELSE Plus(f[T \ {Max(T)}], Weigh(w, q[Max(T)]))]
           First(i) == {q[j] : j \in 1 .. i}
<1>1. Total(w, q) = (CHOOSE f : Adds(f))[1 .. n]
  <2>1. DOMAIN q = 1 .. n
    OBVIOUS
  <2> QED BY <2>1 DEF Total, FoldLeft, MapThenFoldSet, Zero
<1>2. /\ \A i \in 1 .. n : \A a \in A : step[i][a] = Plus(a, Weigh(w, q[i]))
      /\ \A i \in 1 .. n : \A a \in A : step[i][a] \in A
  <2>1. \A a, b \in A : Plus(a, b) \in A
    BY SpecialAssumption DEF Plus
  <2>2. \A i \in 1 .. n : Weigh(w, q[i]) \in A
    BY DEF Weigh, Weighings
  <2> HIDE DEF A
  <2> QED BY <2>1, <2>2
<1>3. ASSUME NEW T \in SUBSET (1 .. n), T # {} PROVE Max(T) \in 1 .. n
  <2>1. T \subseteq Int
    OBVIOUS
  <2>2. IsFiniteSet(1 .. n)
    BY FS_Interval
  <2>3. IsFiniteSet(T)
    BY <2>2, FS_Subset
  <2> QED BY <1>3, <2>1, <2>3, MaxMember
<1>4. 0 \in A
  OBVIOUS
<1> HIDE DEF A, step
<1>5. \E f : Adds(f)
  <2>1. PICK f \in [SUBSET (1 .. n) -> A] : Folds(n, 0, step, f)
    <3>1. StaysIn(n, A, step)
      BY <1>2 DEF StaysIn
    <3> QED BY <1>4, <3>1, FoldExists
  <2>2. ASSUME NEW T \in SUBSET (1 .. n)
        PROVE  f[T] = IF T = {} THEN 0 ELSE Plus(f[T \ {Max(T)}], Weigh(w, q[Max(T)]))
    <3>1. T # {} => Max(T) \in 1 .. n /\ f[T \ {Max(T)}] \in A
      BY <1>3
    <3> QED BY <1>2, <2>1, <3>1 DEF Folds
  <2>3. f = [T \in SUBSET (1 .. n) |-> f[T]]
    OBVIOUS
  <2>4. Adds(f)
    BY <2>2, <2>3
  <2> QED BY <2>4
<1>6. PICK f : Adds(f) /\ Total(w, q) = f[1 .. n]
  <2> HIDE DEF Adds
  <2> QED BY <1>1, <1>5
<1>7. FoldsWithin(n, A, 0, step, f)
  <2>1. f[{}] = 0
    BY <1>6
  <2>2. ASSUME NEW T \in SUBSET (1 .. n), T # {}, f[T \ {Max(T)}] \in A
        PROVE  f[T] = step[Max(T)][f[T \ {Max(T)}]]
    <3>1. f[T] = Plus(f[T \ {Max(T)}], Weigh(w, q[Max(T)]))
      BY <1>6, <2>2
    <3> QED BY <1>2, <1>3, <2>2, <3>1
  <2> QED BY <2>1, <2>2 DEF FoldsWithin
<1>8. /\ f[1 .. 0] = 0
      /\ \A i \in 0 .. n : f[1 .. i] \in A
      /\ \A i \in 1 .. n : f[1 .. i] = step[i][f[1 .. (i - 1)]]
  <2>1. StaysIn(n, A, step)
    BY <1>2 DEF StaysIn
  <2> QED BY <1>4, <1>7, <2>1, FoldAlong
<1> DEFINE N == {i \in Nat : i <= n => f[1 .. i] = Charge(w, First(i))}
<1>9. 0 \in N
  <2>1. First(0) = {} /\ Weighs(w, {})
    BY FS_EmptySet DEF Weighs
  <2>2. Charge(w, First(0)) = 0
    BY <2>1, SumIsNat DEF Charge
  <2> QED BY <1>8, <2>2
<1>10. ASSUME NEW i \in Nat, i \in N PROVE i + 1 \in N
  <2> SUFFICES ASSUME i + 1 <= n PROVE f[1 .. (i + 1)] = Charge(w, First(i + 1))
    OBVIOUS
  <2>1. i + 1 \in 1 .. n /\ (i + 1) - 1 = i /\ i \in 0 .. n
    OBVIOUS
  <2>2. f[1 .. i] = Charge(w, First(i)) /\ f[1 .. i] \in A
    BY <1>8, <1>10, <2>1
  <2>3. f[1 .. (i + 1)] = Plus(f[1 .. i], Weigh(w, q[i + 1]))
    BY <1>2, <1>8, <2>1, <2>2
  <2>4. /\ First(i) \in SUBSET Validator /\ q[i + 1] \in Validator \ First(i)
        /\ First(i + 1) = First(i) \cup {q[i + 1]}
    BY <2>1
  <2> HIDE DEF First
  <2> QED BY <2>2, <2>3, <2>4, ChargeMore
<1>11. Nat \subseteq N
  <2> HIDE DEF N
  <2> QED BY <1>9, <1>10, NatInductionSet
<1>12. f[1 .. n] = Charge(w, First(n))
  BY <1>11
<1> QED BY <1>6, <1>12

\* So is the weight of a set, in the order in which it is listed.
LEMMA WeightIsCharge ==
    ASSUME NEW w \in Weighings, NEW S \in SUBSET Validator
    PROVE  Total(w, SetToSeq(S)) = Charge(w, S)
<1> PICK n : n = Cardinality(S)
  OBVIOUS
<1>1. IsFiniteSet(S) /\ n \in Nat /\ ExistsBijection(1 .. n, S)
  BY ValidatorAssumption, FS_Subset, FS_CardinalityType
<1>2. \E q \in [1 .. n -> S] : IsInjective(q)
  <2>1. PICK q \in Bijection(1 .. n, S) : TRUE
    BY <1>1 DEF ExistsBijection
  <2> QED BY <2>1 DEF Bijection, Injection
<1> PICK q : q = SetToSeq(S)
  OBVIOUS
<1>3. q \in [1 .. n -> S] /\ IsInjective(q)
  BY <1>2 DEF SetToSeq
<1>4. {q[i] : i \in 1 .. n} = S
  <2>1. q \in Injection(1 .. n, S)
    BY <1>3 DEF Injection
  <2>2. IsFiniteSet(1 .. n) /\ Cardinality(1 .. n) = n
    BY <1>1, FS_Interval
  <2>3. q \in Surjection(1 .. n, S)
    BY <1>1, <2>1, <2>2, FS_Injection
  <2> QED BY <1>3, <2>3 DEF Surjection
<1>5. ListsOnce(n, q)
  BY <1>3 DEF IsInjective, ListsOnce
<1>6. Total(w, q) = Charge(w, {q[i] : i \in 1 .. n})
  BY <1>1, <1>5, TotalIsCharge
<1> QED BY <1>4, <1>6

\* f takes one more until it is done.
Takes(n, done, f) == f = [i \in 0 .. n |-> IF i \in done THEN i ELSE f[i + 1]]

\* It is done as soon as it can be.
LEMMA TakesUntilDone ==
    ASSUME NEW n \in Nat, NEW done \in SUBSET (0 .. n), n \in done
    PROVE  /\ \E f : Takes(n, done, f)
           /\ \A f : Takes(n, done, f) =>
                  f[0] \in done /\ \A j \in 0 .. n : j < f[0] => j \notin done
<1>1. \E f : Takes(n, done, f)
  <2> DEFINE next == [i \in 0 .. n |-> i + 1]
             out == [i \in 0 .. n |-> i]
  <2>1. \A c \in (0 .. n) \ done : next[c] \in 0 .. n
    OBVIOUS
  <2>2. PICK f : GoesOn(0 .. n, done, next, out, f)
    <3> HIDE DEF next, out
    <3> QED BY <2>1, TailRecursion
  <2>3. f = [i \in 0 .. n |-> IF i \in done THEN out[i] ELSE f[next[i]]]
    BY <2>2 DEF GoesOn
  <2>4. Takes(n, done, f)
    BY <2>3 DEF Takes
  <2> QED BY <2>4
<1>2. PICK k \in done : \A j \in done : k <= j
  BY SmallestMember
<1>3. ASSUME NEW f, Takes(n, done, f) PROVE f[0] = k
  <2> DEFINE N == {d \in Nat : d <= k => f[k - d] = k}
  <2>1. \A i \in 0 .. n : f[i] = IF i \in done THEN i ELSE f[i + 1]
    BY <1>3 DEF Takes
  <2>2. 0 \in N
    <3>1. k \in 0 .. n /\ k - 0 = k
      OBVIOUS
    <3>2. f[k] = k
      BY <2>1, <3>1
    <3> QED BY <3>1, <3>2
  <2>3. ASSUME NEW d \in Nat, d \in N PROVE d + 1 \in N
    <3> SUFFICES ASSUME d + 1 <= k PROVE f[k - (d + 1)] = k
      OBVIOUS
    <3>1. PICK i : i = k - (d + 1)
      OBVIOUS
    <3>2. i \in 0 .. n /\ ~(k <= i) /\ i + 1 = k - d /\ d <= k
      BY <3>1
    <3>3. i \notin done /\ f[k - d] = k
      BY <1>2, <2>3, <3>2
    <3>4. f[i] = k
      BY <2>1, <3>2, <3>3
    <3> QED BY <3>1, <3>4
  <2>4. Nat \subseteq N
    <3> HIDE DEF N
    <3> QED BY <2>2, <2>3, NatInductionSet
  <2>5. k \in Nat /\ k - k = 0
    OBVIOUS
  <2> QED BY <2>4, <2>5
<1>4. \A j \in 0 .. n : j < k => j \notin done
  BY <1>2
<1> QED BY <1>1, <1>2, <1>3, <1>4

\* The first k of the list q, and no fewer, weigh half of the total or more.
Halves(w, n, q, k) ==
    LET weight(i) == Charge(w, {q[j] : j \in 1 .. i}) IN
    /\ ~Less(Plus(weight(k), weight(k)), weight(n))
    /\ \A j \in 0 .. n : j < k => Less(Plus(weight(j), weight(j)), weight(n))

\* The loop over the sorted messages stops there.
LEMMA MedianTakes ==
    ASSUME NEW w \in Weighings, NEW n \in Nat, NEW q \in [1 .. n -> Validator],
           \A i, j \in 1 .. n : q[i] = q[j] => i = j
    PROVE  \E k \in 0 .. n : /\ Halves(w, n, q, k)
                             /\ Median(w, q) = IF k = 0 THEN {} ELSE {Value(q[k])}
<1> DEFINE weight(i) == Charge(w, {q[j] : j \in 1 .. i})
           running(i) == Total(w, SubSeq(q, 1, i))
           done == {i \in 0 .. n : ~Less(Plus(running(i), running(i)), Total(w, q))}
<1>1. q \in Seq(Validator) /\ Len(q) = n
  OBVIOUS
<1>2. Total(w, q) = weight(n)
  <2>1. ListsOnce(n, q)
    BY DEF ListsOnce
  <2> QED BY <2>1, TotalIsCharge
<1>3. ASSUME NEW i \in 0 .. n PROVE running(i) = weight(i)
  <2>0. PICK s : s = SubSeq(q, 1, i)
    OBVIOUS
  <2>1. \A j \in 1 .. i : q[j] \in Validator
    OBVIOUS
  <2>2. /\ s \in Seq(Validator)
        /\ Len(s) = IF 1 <= i THEN i - 1 + 1 ELSE 0
        /\ \A j \in 1 .. (i - 1 + 1) : s[j] = q[1 + j - 1]
    BY <2>0, <2>1, SubSeqProperties
  <2>3. s \in [1 .. i -> Validator] /\ \A j \in 1 .. i : s[j] = q[j]
    <3>1. Len(s) = i
      BY <2>2
    <3>2. s \in [1 .. Len(s) -> Validator]
      BY <2>2, LenProperties
    <3>3. \A j \in 1 .. i : s[j] = q[j]
      BY <2>2
    <3> QED BY <3>1, <3>2, <3>3
  <2>4. \A j, l \in 1 .. i : s[j] = s[l] => j = l
    BY <2>3
  <2>5. {s[j] : j \in 1 .. i} = {q[j] : j \in 1 .. i}
    BY <2>3
  <2>6. Total(w, s) = Charge(w, {s[j] : j \in 1 .. i})
    <3>1. i \in Nat /\ ListsOnce(i, s)
      BY <2>3, <2>4 DEF ListsOnce
    <3> HIDE DEF weight, running, done
    <3> QED BY <3>1, TotalIsCharge
  <2> QED BY <2>0, <2>5, <2>6
<1>4. n \in done
  <2>1. running(n) = weight(n)
    BY <1>3
  <2>2. weight(n) \in Nat \cup {NaN}
    BY ChargeType
  <2>3. \A a \in Nat \cup {NaN} : ~Less(Plus(a, a), a)
    BY SpecialAssumption DEF Less, Comparable, Plus
  <2>4. n \in 0 .. n
    OBVIOUS
  <2> HIDE DEF weight, running
  <2>5. ~Less(Plus(running(n), running(n)), Total(w, q))
    BY <1>2, <2>1, <2>2, <2>3
  <2> QED BY <2>4, <2>5
<1>5. PICK f : Takes(n, done, f) /\ Median(w, q) = IF f[0] = 0 THEN {} ELSE {Value(q[f[0]])}
  <2>1. \E f : Takes(n, done, f)
    <3> HIDE DEF done
    <3> QED BY <1>4, TakesUntilDone DEF done
  <2> DEFINE g == CHOOSE f : f = [i \in 0 .. Len(q) |->
                                  IF Less(Plus(running(i), running(i)), Total(w, q))
                                  THEN f[i + 1] ELSE i]
  <2>2. g = CHOOSE f : Takes(n, done, f)
    <3>1. \A f : [i \in 0 .. Len(q) |->
                     IF Less(Plus(running(i), running(i)), Total(w, q)) THEN f[i + 1] ELSE i]
                 = [i \in 0 .. n |-> IF i \in done THEN i ELSE f[i + 1]]
      <4> HIDE DEF running
      <4> QED BY <1>1
    <3> HIDE DEF done, running
    <3> QED BY <3>1 DEF Takes
  <2>3. Median(w, q) = IF g[0] = 0 THEN {} ELSE {Value(q[g[0]])}
    BY DEF Median
  <2> HIDE DEF g, done
  <2> QED BY <2>1, <2>2, <2>3
<1>6. f[0] \in done /\ \A j \in 0 .. n : j < f[0] => j \notin done
  <2>1. done \in SUBSET (0 .. n)
    OBVIOUS
  <2> HIDE DEF done
  <2> QED BY <1>4, <1>5, <2>1, TakesUntilDone
<1> HIDE DEF running, weight
<1>7. /\ f[0] \in 0 .. n
      /\ ~Less(Plus(weight(f[0]), weight(f[0])), weight(n))
      /\ \A j \in 0 .. n : j < f[0] => Less(Plus(weight(j), weight(j)), weight(n))
  BY <1>2, <1>3, <1>6
<1>8. Halves(w, n, q, f[0])
  BY <1>7 DEF weight, Halves
<1> QED BY <1>5, <1>7, <1>8

\* The weighted median splits the weight that votes in two halves, however the sort
\* orders equal values, for all votes and all weights, known or not.
THEOREM Splitting == Spec => []MedianSplits
<1> DEFINE Inv == weights \in Weightings /\ estimate \in [Validator -> Block \cup {NoBlock}]
<1>1. Init => Inv
  BY DEF Init
<1>2. Inv /\ [Next]_vars => Inv'
  BY DEF Next, Start, PopLeaf, PopFork, Return, vars
<1>3. Inv => MedianSplits
  <2> SUFFICES ASSUME Inv, NEW w \in Doubtful, NEW q \in Sorted
               PROVE  LET weight(S) == Total(w, SetToSeq(S))
                          all == weight(Voters)
                      IN  IF all \in {NaN, Zero} THEN Median(w, q) = {}
                          ELSE \E x \in Median(w, q) :
                                  /\ 2 * weight({v \in Voters : Value(v) < x}) < all
                                  /\ 2 * weight({v \in Voters : Value(v) <= x}) >= all
    BY DEF MedianSplits
  <2>1. w \in Weighings
    <3>1. weights \in [Validator -> Nat \cup {Absent}]
      BY WeightingsAssumption
    <3> QED BY <3>1 DEF Doubtful, Weighings
  <2> PICK n : n = Cardinality(Voters)
    OBVIOUS
  <2>2. IsFiniteSet(Voters) /\ n \in Nat /\ Voters \in SUBSET Validator
    BY ValidatorAssumption, FS_Subset, FS_CardinalityType DEF Voters
  <2>3. /\ q \in [1 .. n -> Voters] /\ \A i, j \in 1 .. n : q[i] = q[j] => i = j
        /\ \A i \in 1 .. Len(q) : \A j \in 1 .. i : Value(q[j]) <= Value(q[i])
    BY DEF Sorted, SetToSeqs
  <2>4. \A v \in Voters : \E i \in 1 .. n : q[i] = v
    <3>1. q \in Injection(1 .. n, Voters)
      BY <2>3 DEF Injection, IsInjective
    <3>2. IsFiniteSet(1 .. n) /\ Cardinality(1 .. n) = n
      BY <2>2, FS_Interval
    <3>3. q \in Surjection(1 .. n, Voters)
      BY <2>2, <3>1, <3>2, FS_Injection
    <3> QED BY <3>3 DEF Surjection
  <2>5. Len(q) = n
    BY <2>2, <2>3
  <2>6. \A v \in Voters : Value(v) \in Nat
    BY IdAssumption DEF Voters, Value
  <2> DEFINE First(i) == {q[j] : j \in 1 .. i}
             total == Charge(w, First(n))
             Below(x) == {v \in Voters : Value(v) < x}
             UpTo(x) == {v \in Voters : Value(v) <= x}
  <2>7. First(n) = Voters /\ \A i \in 0 .. n : First(i) \in SUBSET Validator
    BY <2>2, <2>3, <2>4
  <2>8. PICK k \in 0 .. n :
            /\ Median(w, q) = IF k = 0 THEN {} ELSE {Value(q[k])}
            /\ ~Less(Plus(Charge(w, First(k)), Charge(w, First(k))), total)
            /\ \A j \in 0 .. n : j < k => Less(Plus(Charge(w, First(j)), Charge(w, First(j))), total)
    <3> HIDE DEF First, total
    <3>1. q \in [1 .. n -> Validator]
      BY <2>2, <2>3
    <3>2. n \in Nat /\ \A i, j \in 1 .. n : q[i] = q[j] => i = j
      BY <2>2, <2>3
    <3>3. PICK k \in 0 .. n : /\ Halves(w, n, q, k)
                             /\ Median(w, q) = IF k = 0 THEN {} ELSE {Value(q[k])}
      BY <2>1, <3>1, <3>2, MedianTakes
    <3> QED BY <3>3 DEF First, total, Halves
  <2>9. \A S \in SUBSET Voters : Total(w, SetToSeq(S)) = Charge(w, S)
    BY <2>1, <2>2, WeightIsCharge
  <2>10. total \in Nat \cup {NaN} /\ Charge(w, First(0)) = 0
    <3>1. First(0) = {} /\ Weighs(w, {})
      BY FS_EmptySet DEF Weighs
    <3>2. Charge(w, {}) = 0
      BY <3>1, SumIsNat DEF Charge
    <3>3. total \in Nat \cup {NaN}
      BY <2>1, <2>2, <2>7, ChargeType
    <3> QED BY <3>1, <3>2, <3>3
  <2>11. /\ \A a, b \in Nat : Less(Plus(a, a), b) <=> 2 * a < b
         /\ ~Less(Plus(0, 0), NaN)
    BY SpecialAssumption DEF Less, Comparable, Plus
  <2>12. CASE total \in {NaN, 0}
    <3>1. ~Less(Plus(0, 0), total)
      BY <2>11, <2>12
    <3>2. k = 0
      <4> HIDE DEF total
      <4> QED BY <2>2, <2>8, <2>10, <3>1
    <3> HIDE DEF total, First
    <3> QED BY <2>7, <2>8, <2>9, <2>12, <3>2 DEF total, Zero
  <2>13. CASE total \notin {NaN, 0}
    <3>1. total \in Nat /\ total # NaN /\ total > 0
      <4> HIDE DEF total
      <4> QED BY <2>10, <2>13
    <3>2. Weighs(w, Voters) /\ total = SumOf(w, Voters)
      <4> HIDE DEF First
      <4> QED BY <2>1, <2>2, <2>7, <3>1, ChargeType
    <3>3. ASSUME NEW S \in SUBSET Voters
          PROVE  Weighs(w, S) /\ Charge(w, S) = SumOf(w, S) /\ SumOf(w, S) \in Nat
      <4>1. Weighs(w, S)
        BY <3>2, FS_Subset DEF Weighs
      <4>2. \A v \in S : w[v] # Absent
        BY <4>1, AbsentAssumption DEF Weighs
      <4> QED BY <4>1, <4>2, SumIsNat DEF Charge
    <3>4. k # 0
      <4>1. Less(Plus(0, 0), total)
        BY <2>11, <3>1
      <4> HIDE DEF total
      <4> QED BY <2>8, <2>10, <4>1
    <3> PICK x : x = Value(q[k])
      OBVIOUS
    <3>5. k \in 1 .. n /\ k - 1 \in 0 .. n /\ k - 1 < k
      BY <2>2, <3>4
    <3>6. Below(x) \subseteq First(k - 1) /\ First(k) \subseteq UpTo(x)
      <4>1. ASSUME NEW v \in Below(x) PROVE v \in First(k - 1)
        <5>1. PICK i \in 1 .. n : q[i] = v
          BY <2>4
        <5>2. ~(k <= i)
          <6>1. ASSUME k <= i PROVE FALSE
            <7>1. k \in 1 .. i /\ i \in 1 .. Len(q)
              BY <2>5, <3>5, <6>1
            <7>2. x <= Value(v)
              BY <2>3, <5>1, <7>1
            <7>3. Value(v) < x /\ Value(v) \in Nat /\ x \in Nat
              BY <2>3, <2>6, <3>5
            <7> QED BY <7>2, <7>3
          <6> QED BY <6>1
        <5>3. i \in 1 .. (k - 1)
          BY <3>5, <5>2
        <5> QED BY <5>1, <5>3
      <4>2. ASSUME NEW v \in First(k) PROVE v \in UpTo(x)
        <5>1. PICK i \in 1 .. k : q[i] = v
          OBVIOUS
        <5>2. k \in 1 .. Len(q) /\ i \in 1 .. n
          BY <2>5, <3>5
        <5> QED BY <2>3, <5>1, <5>2
      <4> QED BY <4>1, <4>2
    <3>7. /\ Below(x) \in SUBSET Voters /\ UpTo(x) \in SUBSET Voters
          /\ First(k) \in SUBSET Voters /\ First(k - 1) \in SUBSET Voters
      BY <2>2, <2>3, <3>5
    <3> HIDE DEF First, total, Below, UpTo
    <3>8. 2 * SumOf(w, First(k - 1)) < total
      <4>1. Less(Plus(Charge(w, First(k - 1)), Charge(w, First(k - 1))), total)
        BY <2>8, <3>5
      <4>2. Charge(w, First(k - 1)) = SumOf(w, First(k - 1)) /\ SumOf(w, First(k - 1)) \in Nat
        BY <3>3, <3>7
      <4> QED BY <2>11, <3>1, <4>1, <4>2
    <3>9. ~(2 * SumOf(w, First(k)) < total)
      <4>1. Charge(w, First(k)) = SumOf(w, First(k)) /\ SumOf(w, First(k)) \in Nat
        BY <3>3, <3>7
      <4> QED BY <2>8, <2>11, <3>1, <4>1
    <3>10. SumOf(w, Below(x)) <= SumOf(w, First(k - 1)) /\ SumOf(w, First(k)) <= SumOf(w, UpTo(x))
      BY <3>3, <3>6, <3>7, SumGrows
    <3>11. /\ SumOf(w, Below(x)) \in Nat /\ SumOf(w, UpTo(x)) \in Nat
           /\ SumOf(w, First(k)) \in Nat /\ SumOf(w, First(k - 1)) \in Nat
      BY <3>3, <3>7
    <3>12. 2 * SumOf(w, Below(x)) < total /\ 2 * SumOf(w, UpTo(x)) >= total
      BY <3>1, <3>8, <3>9, <3>10, <3>11
    <3>13. /\ Total(w, SetToSeq(Below(x))) = SumOf(w, Below(x))
           /\ Total(w, SetToSeq(UpTo(x))) = SumOf(w, UpTo(x))
      BY <2>9, <3>3, <3>7
    <3>14. Total(w, SetToSeq(Voters)) = total
      BY <2>7, <2>9 DEF total
    <3>15. x \in Median(w, q)
      BY <2>8, <3>4
    <3>16. ~(Total(w, SetToSeq(Voters)) \in {NaN, Zero})
      BY <2>13, <3>14 DEF Zero
    <3> QED BY <3>12, <3>13, <3>14, <3>15, <3>16 DEF Below, UpTo
  <2> QED BY <2>12, <2>13
<1> QED BY <1>1, <1>2, <1>3, PTL DEF Spec

-----------------------------------------------------------------------------
(* pick_heaviest *)

\* collect_validators: the senders of the votes that were kept, on b or above it.
Senders(latest_blocks, b) == {latest_blocks[t] : t \in {c \in Tips : IsMember(b, c)}}

\* Sums of weights that are known are those of the scores.
LEMMA KnownSum ==
    ASSUME Weighted, NEW S \in SUBSET Validator
    PROVE  /\ SumWeightValidators(Entries(weights), S) = WeightOf(S)
           /\ WeightOf(S) \in Nat
<1> DEFINE e == Entries(weights)
           w == [v \in S |-> IF v \in DOMAIN e THEN e[v] ELSE NaN]
<1>1. \A v \in S : w[v] = weights[v] /\ weights[v] \in Nat
  <2>1. {v \in Validator : weights[v] # Absent} = Validator
    BY AbsentAssumption DEF Weighted, Inputs
  <2>2. DOMAIN e = Validator /\ \A v \in Validator : e[v] = weights[v]
    BY <2>1 DEF Entries, Restrict
  <2> QED BY <2>2 DEF Weighted, Inputs
<1>2. Weighs(weights, S) /\ Weighs(w, S)
  <2>1. IsFiniteSet(S)
    BY ValidatorAssumption, FS_Subset
  <2> HIDE DEF w
  <2> QED BY <1>1, <2>1 DEF Weighs
<1>3. SumWeightValidators(e, S) = PlusAll(w, S)
  <2> DEFINE x(T) == CHOOSE v \in T : TRUE
             s(f) == [T \in SUBSET S |-> IF T = {} THEN Zero
                        ELSE Plus(IF x(T) \in DOMAIN e THEN e[x(T)] ELSE NaN, f[T \ {x(T)}])]
             t(f) == [T \in SUBSET S |-> IF T = {} THEN Zero
                        ELSE Plus(w[x(T)], f[T \ {x(T)}])]
  <2>1. \A T \in SUBSET S : T # {} => w[x(T)] = IF x(T) \in DOMAIN e THEN e[x(T)] ELSE NaN
    <3>1. \A T \in SUBSET S : T # {} => x(T) \in S
      OBVIOUS
    <3> HIDE DEF x, e
    <3> QED BY <3>1
  <2>2. \A f : s(f) = t(f)
    <3> HIDE DEF x, w, e
    <3> QED BY <2>1
  <2>3. SumWeightValidators(e, S) = (CHOOSE f : f = s(f))[S]
    BY DEF SumWeightValidators, MapThenFoldSet
  <2>4. PlusAll(w, S) = (CHOOSE f : f = t(f))[S]
    BY DEF PlusAll, MapThenFoldSet
  <2> HIDE DEF s, t, w, e
  <2> QED BY <2>2, <2>3, <2>4
<1>4. PlusAll(w, S) = SumOf(w, S)
  <2> HIDE DEF w
  <2> QED BY <1>2, PlusAllIsSum
<1>5. SumOf(w, S) = SumOf(weights, S)
  <2> HIDE DEF w
  <2> QED BY <1>1, <1>2, SumOfSame
<1>6. SumOf(weights, S) = WeightOf(S) /\ SumOf(weights, S) \in Nat
  <2>1. SumOf(weights, S) = WeightOf(S)
    BY DEF WeightOf, SumWeight, SumOf
  <2> QED BY <1>2, <2>1, SumIsNat
<1> QED BY <1>3, <1>4, <1>5, <1>6

\* What the fold over a fork carries.
Bests == [block : Block \cup {NoBlock}, weight : Nat, failed : BOOLEAN]

\* The block c is lighter than w, or as heavy and of a greater hash than b.
Behind(latest_blocks, c, b, w) ==
    \/ KeptScore(latest_blocks, c) < w
    \/ KeptScore(latest_blocks, c) = w /\ id[b] < id[c]

\* r is the winner of the blocks F, or has failed for one that weighs nothing.
BestOf(latest_blocks, F, r) ==
    /\ r.failed => \E c \in F : KeptScore(latest_blocks, c) = 0
    /\ ~r.failed /\ r.block = NoBlock => F = {} /\ r.weight = 0
    /\ ~r.failed /\ r.block # NoBlock =>
           /\ r.block \in F /\ r.weight = KeptScore(latest_blocks, r.block)
           /\ \A c \in F \ {r.block} : Behind(latest_blocks, c, r.block, r.weight)

\* The votes that were kept weigh a natural number.
LEMMA KeptScoreType ==
    ASSUME Weighted, NEW latest_blocks \in LatestBlocks, NEW b
    PROVE  /\ Senders(latest_blocks, b) \in SUBSET Validator
           /\ KeptScore(latest_blocks, b) = WeightOf(Senders(latest_blocks, b))
           /\ KeptScore(latest_blocks, b) \in Nat
<1>1. latest_blocks \in [Tips -> Validator]
  BY DEF LatestBlocks
<1>2. Senders(latest_blocks, b) \in SUBSET Validator
  BY <1>1 DEF Senders
<1> QED BY <1>2, KnownSum DEF KeptScore, Senders

\* A step of the fold keeps that.
LEMMA HeavierStep ==
    ASSUME Weighted, NEW latest_blocks \in LatestBlocks, NEW F \in SUBSET Block,
           NEW b \in Block, NEW r \in Bests, BestOf(latest_blocks, F, r)
    PROVE  BestOf(latest_blocks, F \cup {b}, Heavier(r, b, KeptScore(latest_blocks, b)))
<1> PICK w : w = KeptScore(latest_blocks, b)
  OBVIOUS
<1> DEFINE score(c) == KeptScore(latest_blocks, c)
           child == [block |-> b, weight |-> w, failed |-> FALSE]
           next == Heavier(r, b, w)
           behind(c, a, u) == Behind(latest_blocks, c, a, u)
<1>1. w \in Nat /\ score(b) = w /\ b # NoBlock /\ r.weight \in Nat /\ r.failed \in BOOLEAN
  BY KeptScoreType, NoBlockAssumption DEF Bests
<1>2. \A x, z \in Nat : Less(x, z) <=> x < z
  BY SpecialAssumption DEF Less, Comparable
<1>3. \A c \in Block : score(c) \in Nat /\ id[c] \in Nat
  BY KeptScoreType, IdAssumption
<1>0. ASSUME NEW c, NEW a, NEW u
      PROVE  behind(c, a, u) <=> score(c) < u \/ (score(c) = u /\ id[a] < id[c])
  BY DEF Behind
<1> HIDE DEF score, behind
<1>4. /\ r.failed => \E c \in F : score(c) = 0
      /\ ~r.failed /\ r.block = NoBlock => F = {} /\ r.weight = 0
      /\ ~r.failed /\ r.block # NoBlock =>
             /\ r.block \in F /\ r.weight = score(r.block)
             /\ \A c \in F \ {r.block} : behind(c, r.block, r.weight)
  BY DEF BestOf, score, behind
<1>5. ASSUME NEW s, s.failed, \E c \in F \cup {b} : score(c) = 0
      PROVE  BestOf(latest_blocks, F \cup {b}, s)
  BY <1>5 DEF BestOf, score
<1>6. ASSUME NEW s, ~s.failed, s.block # NoBlock, s.block \in F \cup {b},
             s.weight = score(s.block),
             \A c \in (F \cup {b}) \ {s.block} : behind(c, s.block, s.weight)
      PROVE  BestOf(latest_blocks, F \cup {b}, s)
  BY <1>6 DEF BestOf, score, behind
<1>7. child.block = b /\ child.weight = w /\ ~child.failed
  OBVIOUS
<1>8. CASE r.failed
  <2>1. next = r
    BY <1>8 DEF Heavier
  <2> HIDE DEF next
  <2> QED BY <1>4, <1>5, <1>8, <2>1 DEF next
<1>9. CASE ~r.failed /\ w < r.weight
  <2>1. next = r
    BY <1>1, <1>2, <1>9 DEF Heavier
  <2>2. r.block # NoBlock
    BY <1>1, <1>4, <1>9
  <2>3. \A c \in (F \cup {b}) \ {r.block} : behind(c, r.block, r.weight)
    BY <1>0, <1>1, <1>4, <1>9, <2>2
  <2> HIDE DEF next
  <2> QED BY <1>4, <1>6, <1>9, <2>1, <2>2, <2>3 DEF next
<1>10. CASE ~r.failed /\ r.weight < w
  <2>1. next = child
    BY <1>1, <1>2, <1>10 DEF Heavier
  <2>2. \A c \in F : score(c) < w
    <3> SUFFICES ASSUME NEW c \in F PROVE score(c) < w
      OBVIOUS
    <3>1. r.block # NoBlock
      BY <1>4, <1>10
    <3>2. score(c) \in Nat
      BY <1>3
    <3>3. score(c) <= r.weight
      <4>1. CASE c = r.block
        BY <1>1, <1>4, <1>10, <3>1, <4>1
      <4>2. CASE c # r.block
        <5>1. behind(c, r.block, r.weight)
          BY <1>4, <1>10, <3>1, <4>2
        <5> QED BY <1>0, <1>1, <3>2, <5>1
      <4> QED BY <4>1, <4>2
    <3> QED BY <1>1, <1>10, <3>2, <3>3
  <2>3. \A c \in (F \cup {b}) \ {b} : behind(c, b, w)
    BY <1>0, <2>2
  <2> HIDE DEF next, child
  <2> QED BY <1>1, <1>6, <1>7, <2>1, <2>3 DEF next
<1>11. CASE ~r.failed /\ r.weight = w
  <2>1. ~Less(w, r.weight) /\ ~Less(r.weight, w)
    BY <1>1, <1>2, <1>11
  <2>2. CASE r.block = NoBlock
    <3>1. next = [r EXCEPT !.failed = TRUE]
      BY <1>11, <2>1, <2>2 DEF Heavier
    <3>2. next.failed
      <4>1. [r EXCEPT !.failed = TRUE].failed = TRUE
        BY DEF Bests
      <4> HIDE DEF next
      <4> QED BY <3>1, <4>1
    <3>3. score(b) = 0
      BY <1>1, <1>4, <1>11, <2>2
    <3> HIDE DEF next
    <3> QED BY <1>5, <3>2, <3>3 DEF next
  <2>3. CASE r.block # NoBlock /\ id[b] < id[r.block]
    <3>1. next = child
      BY <1>11, <2>1, <2>3 DEF Heavier
    <3>2. ASSUME NEW c \in F PROVE behind(c, b, w)
      <4>1. CASE c = r.block
        BY <1>0, <1>4, <1>11, <2>3, <4>1
      <4>2. CASE c # r.block
        <5>1. behind(c, r.block, w)
          BY <1>4, <1>11, <2>3, <4>2
        <5>2. id[b] \in Nat /\ id[c] \in Nat /\ id[r.block] \in Nat
          BY <1>3, <1>4, <1>11, <2>3
        <5>3. id[r.block] < id[c] => id[b] < id[c]
          BY <2>3, <5>2
        <5> QED BY <1>0, <5>1, <5>3
      <4> QED BY <4>1, <4>2
    <3>3. \A c \in (F \cup {b}) \ {b} : behind(c, b, w)
      BY <3>2
    <3> HIDE DEF next, child
    <3> QED BY <1>1, <1>6, <1>7, <3>1, <3>3 DEF next
  <2>4. CASE r.block # NoBlock /\ ~(id[b] < id[r.block])
    <3>1. next = r
      BY <1>11, <2>1, <2>4 DEF Heavier
    <3>2. b # r.block => behind(b, r.block, w)
      <4>1. r.block \in Block /\ id[b] \in Nat /\ id[r.block] \in Nat
        BY <1>3, <1>4, <1>11, <2>4
      <4>2. b # r.block => id[b] # id[r.block]
        BY <4>1, IdAssumption
      <4>3. b # r.block => id[r.block] < id[b]
        BY <2>4, <4>1, <4>2
      <4> QED BY <1>0, <1>1, <4>3
    <3>3. \A c \in (F \cup {b}) \ {r.block} : behind(c, r.block, r.weight)
      BY <1>4, <1>11, <2>4, <3>2
    <3> HIDE DEF next
    <3> QED BY <1>4, <1>6, <1>11, <2>4, <3>1, <3>3 DEF next
  <2> QED BY <2>2, <2>3, <2>4
<1> HIDE DEF next
<1> QED BY <1>1, <1>8, <1>9, <1>10, <1>11 DEF next

\* The fold over the blocks of a fork in one of their orders.
ForkFold(referred, order) ==
    FoldLeft(LAMBDA r, b : Heavier(r, b, SumWeightValidators(Entries(weights), referred[b])),
             NothingYet, order)

\* Its results g along the order.
Along(latest_blocks, order, n, g) ==
    /\ g[0] = NothingYet
    /\ \A i \in 0 .. n : g[i] \in Bests
    /\ \A i \in 1 .. n : g[i] = Heavier(g[i - 1], order[i], KeptScore(latest_blocks, order[i]))

\* It goes from one to the next, by the votes that were kept.
LEMMA ForkFoldAlong ==
    ASSUME Weighted, NEW latest_blocks \in LatestBlocks, NEW referred, NEW n \in Nat,
           NEW order \in [1 .. n -> Block],
           \A i \in 1 .. n : referred[order[i]] = Senders(latest_blocks, order[i])
    PROVE  \E g : Along(latest_blocks, order, n, g) /\ g[n] = ForkFold(referred, order)
<1> DEFINE weigh(b) == SumWeightValidators(Entries(weights), referred[b])
           step == [i \in 1 .. n |-> [r \in Bests |->
                       Heavier(r, order[i], KeptScore(latest_blocks, order[i]))]]
           Chooses(f) == f = [T \in SUBSET (1 .. n) |->
                                 IF T = {} THEN NothingYet
                                 ELSE Heavier(f[T \ {Max(T)}], order[Max(T)],
                                              weigh(order[Max(T)]))]
<1>1. ForkFold(referred, order) = (CHOOSE f : Chooses(f))[1 .. n]
  <2>1. DOMAIN order = 1 .. n
    OBVIOUS
  <2> QED BY <2>1 DEF ForkFold, FoldLeft, MapThenFoldSet
<1>2. \A i \in 1 .. n : weigh(order[i]) = KeptScore(latest_blocks, order[i])
  BY KnownSum, KeptScoreType
<1>3. ASSUME NEW i \in 1 .. n, NEW r \in Bests
      PROVE  /\ step[i][r] = Heavier(r, order[i], KeptScore(latest_blocks, order[i]))
             /\ step[i][r] \in Bests
  <2>1. step[i][r] = Heavier(r, order[i], KeptScore(latest_blocks, order[i]))
    OBVIOUS
  <2>2. \A b \in Block, w \in Nat : Heavier(r, b, w) \in Bests
    BY DEF Heavier, Bests
  <2>3. order[i] \in Block /\ KeptScore(latest_blocks, order[i]) \in Nat
    BY KeptScoreType
  <2> HIDE DEF step
  <2> QED BY <2>1, <2>2, <2>3
<1>4. ASSUME NEW T \in SUBSET (1 .. n), T # {} PROVE Max(T) \in 1 .. n
  <2>1. T \subseteq Int
    OBVIOUS
  <2>2. IsFiniteSet(1 .. n)
    BY FS_Interval
  <2>3. IsFiniteSet(T)
    BY <2>2, FS_Subset
  <2> QED BY <1>4, <2>1, <2>3, MaxMember
<1>5. NothingYet \in Bests
  BY DEF NothingYet, Bests, Zero
<1>6. StaysIn(n, Bests, step)
  <2> HIDE DEF step
  <2> QED BY <1>3 DEF StaysIn
<1> HIDE DEF step, weigh
<1>7. \E f : Chooses(f)
  <2>1. PICK f \in [SUBSET (1 .. n) -> Bests] : Folds(n, NothingYet, step, f)
    BY <1>5, <1>6, FoldExists
  <2>2. ASSUME NEW T \in SUBSET (1 .. n)
        PROVE  f[T] = IF T = {} THEN NothingYet
                      ELSE Heavier(f[T \ {Max(T)}], order[Max(T)], weigh(order[Max(T)]))
    <3>1. CASE T = {}
      BY <2>1, <3>1 DEF Folds
    <3>2. CASE T # {}
      <4> PICK i, s : i = Max(T) /\ s = f[T \ {Max(T)}]
        OBVIOUS
      <4>1. i \in 1 .. n /\ s \in Bests
        BY <1>4, <3>2
      <4>2. f[T] = step[i][s]
        BY <2>1, <3>2 DEF Folds
      <4>3. f[T] = Heavier(s, order[i], weigh(order[i]))
        BY <1>2, <1>3, <4>1, <4>2
      <4> QED BY <3>2, <4>3
    <3> QED BY <3>1, <3>2
  <2>3. f = [T \in SUBSET (1 .. n) |-> f[T]]
    OBVIOUS
  <2>4. Chooses(f)
    BY <2>2, <2>3
  <2> QED BY <2>4
<1>8. PICK f : Chooses(f) /\ ForkFold(referred, order) = f[1 .. n]
  <2> HIDE DEF Chooses
  <2> QED BY <1>1, <1>7
<1>9. FoldsWithin(n, Bests, NothingYet, step, f)
  <2>1. f[{}] = NothingYet
    BY <1>8
  <2>2. ASSUME NEW T \in SUBSET (1 .. n), T # {}, f[T \ {Max(T)}] \in Bests
        PROVE  f[T] = step[Max(T)][f[T \ {Max(T)}]]
    <3>1. f[T] = Heavier(f[T \ {Max(T)}], order[Max(T)], weigh(order[Max(T)]))
      BY <1>8, <2>2
    <3>2. Max(T) \in 1 .. n
      BY <1>4, <2>2
    <3> QED BY <1>2, <1>3, <2>2, <3>1, <3>2
  <2> QED BY <2>1, <2>2 DEF FoldsWithin
<1>10. /\ f[1 .. 0] = NothingYet
       /\ \A i \in 0 .. n : f[1 .. i] \in Bests
       /\ \A i \in 1 .. n : f[1 .. i] = step[i][f[1 .. (i - 1)]]
  BY <1>5, <1>6, <1>9, FoldAlong
<1> DEFINE g == [i \in 0 .. n |-> f[1 .. i]]
<1>11. 0 \in 0 .. n /\ n \in 0 .. n /\ \A i \in 1 .. n : i - 1 \in 0 .. n /\ i \in 0 .. n
  OBVIOUS
<1>12. \A i \in 0 .. n : g[i] = f[1 .. i]
  OBVIOUS
<1> HIDE DEF g
<1>13. ASSUME NEW i \in 1 .. n
       PROVE  g[i] = Heavier(g[i - 1], order[i], KeptScore(latest_blocks, order[i]))
  <2>1. g[i] = step[i][g[i - 1]] /\ g[i - 1] \in Bests
    BY <1>10, <1>11, <1>12
  <2> QED BY <1>3, <2>1
<1>14. Along(latest_blocks, order, n, g)
  BY <1>10, <1>11, <1>12, <1>13 DEF Along
<1> QED BY <1>8, <1>11, <1>12, <1>14

\* It finds the winner of them.
LEMMA ForkFoldIsBest ==
    ASSUME Weighted, NEW latest_blocks \in LatestBlocks, NEW referred, NEW n \in Nat,
           NEW order \in [1 .. n -> Block],
           \A i \in 1 .. n : referred[order[i]] = Senders(latest_blocks, order[i])
    PROVE  BestOf(latest_blocks, {order[i] : i \in 1 .. n}, ForkFold(referred, order))
<1>1. PICK g : Along(latest_blocks, order, n, g) /\ g[n] = ForkFold(referred, order)
  BY ForkFoldAlong
<1> DEFINE First(i) == {order[j] : j \in 1 .. i}
           N == {i \in Nat : i <= n => BestOf(latest_blocks, First(i), g[i])}
<1>2. 0 \in N
  <2>1. First(0) = {}
    OBVIOUS
  <2>2. ~NothingYet.failed /\ NothingYet.block = NoBlock /\ NothingYet.weight = 0
    BY DEF NothingYet, Zero
  <2>3. BestOf(latest_blocks, {}, NothingYet)
    BY <2>2 DEF BestOf
  <2> HIDE DEF First
  <2> QED BY <1>1, <2>1, <2>3 DEF Along
<1>3. ASSUME NEW i \in Nat, i \in N PROVE i + 1 \in N
  <2> SUFFICES ASSUME i + 1 <= n
               PROVE  BestOf(latest_blocks, First(i + 1), g[i + 1])
    OBVIOUS
  <2>1. i + 1 \in 1 .. n /\ (i + 1) - 1 = i /\ i \in 0 .. n
    OBVIOUS
  <2>2. BestOf(latest_blocks, First(i), g[i]) /\ g[i] \in Bests
    BY <1>1, <1>3, <2>1 DEF Along
  <2>3. g[i + 1] = Heavier(g[i], order[i + 1], KeptScore(latest_blocks, order[i + 1]))
    BY <1>1, <2>1 DEF Along
  <2>4. /\ First(i) \in SUBSET Block /\ order[i + 1] \in Block
        /\ First(i + 1) = First(i) \cup {order[i + 1]}
    BY <2>1
  <2> HIDE DEF First
  <2> QED BY <2>2, <2>3, <2>4, HeavierStep
<1>4. Nat \subseteq N
  <2> HIDE DEF N
  <2> QED BY <1>2, <1>3, NatInductionSet
<1>5. BestOf(latest_blocks, First(n), g[n])
  <2>1. n \in Nat /\ n <= n
    OBVIOUS
  <2> HIDE DEF First
  <2> QED BY <1>4, <2>1
<1> QED BY <1>1, <1>5

\* It fails if the first of them weighs nothing.
LEMMA ForkFoldFails ==
    ASSUME Weighted, NEW latest_blocks \in LatestBlocks, NEW referred, NEW n \in Nat, n # 0,
           NEW order \in [1 .. n -> Block],
           \A i \in 1 .. n : referred[order[i]] = Senders(latest_blocks, order[i]),
           KeptScore(latest_blocks, order[1]) = 0
    PROVE  ForkFold(referred, order).failed
<1>1. PICK g : Along(latest_blocks, order, n, g) /\ g[n] = ForkFold(referred, order)
  BY ForkFoldAlong
<1> DEFINE N == {i \in Nat : i + 1 <= n => g[i + 1].failed}
<1>2. 0 \in N
  <2>1. 1 \in 1 .. n /\ 1 - 1 = 0
    OBVIOUS
  <2>2. g[1] = Heavier(NothingYet, order[1], 0)
    BY <1>1, <2>1 DEF Along
  <2>3. /\ NothingYet \in Bests /\ NothingYet.weight = 0
        /\ NothingYet.block = NoBlock /\ ~NothingYet.failed
    BY DEF NothingYet, Zero, Bests
  <2>4. ~Less(0, 0)
    BY DEF Less
  <2>5. g[1] = [NothingYet EXCEPT !.failed = TRUE]
    BY <2>2, <2>3, <2>4 DEF Heavier
  <2>6. g[1].failed
    BY <2>5 DEF NothingYet
  <2> QED BY <2>6
<1>3. ASSUME NEW i \in Nat, i \in N PROVE i + 1 \in N
  <2> SUFFICES ASSUME (i + 1) + 1 <= n PROVE g[(i + 1) + 1].failed
    OBVIOUS
  <2>1. (i + 1) + 1 \in 1 .. n /\ ((i + 1) + 1) - 1 = i + 1 /\ i + 1 <= n
    OBVIOUS
  <2>2. g[i + 1].failed
    BY <1>3, <2>1
  <2>3. g[(i + 1) + 1] = Heavier(g[i + 1], order[(i + 1) + 1],
                                 KeptScore(latest_blocks, order[(i + 1) + 1]))
    BY <1>1, <2>1 DEF Along
  <2> QED BY <2>2, <2>3 DEF Heavier
<1>4. Nat \subseteq N
  <2> HIDE DEF N
  <2> QED BY <1>2, <1>3, NatInductionSet
<1>5. g[n].failed
  <2>1. n - 1 \in Nat /\ (n - 1) + 1 = n /\ n <= n
    OBVIOUS
  <2>2. n - 1 \in N
    <3> HIDE DEF N
    <3> QED BY <1>4, <2>1
  <2> QED BY <2>1, <2>2
<1> QED BY <1>1, <1>5

\* A finite set has an order, and one that begins with any of its members.
LEMMA OrderFrom ==
    ASSUME NEW S, IsFiniteSet(S)
    PROVE  /\ SetToSeqs(S) # {}
           /\ \A c \in S : \E order \in SetToSeqs(S) : order[1] = c
<1> PICK n : n = Cardinality(S)
  OBVIOUS
<1>1. n \in Nat /\ ExistsBijection(1 .. n, S)
  BY FS_CardinalityType
<1>2. PICK g : g \in Bijection(1 .. n, S)
  BY <1>1 DEF ExistsBijection
<1>3. /\ g \in [1 .. n -> S]
      /\ \A i, j \in 1 .. n : i # j => g[i] # g[j]
      /\ \A c \in S : \E i \in 1 .. n : g[i] = c
  BY <1>2 DEF Bijection, Injection, Surjection, IsInjective
<1>4. g \in SetToSeqs(S)
  BY <1>3 DEF SetToSeqs
<1>5. ASSUME NEW c \in S PROVE \E order \in SetToSeqs(S) : order[1] = c
  <2>1. PICK k \in 1 .. n : g[k] = c
    BY <1>3
  <2> DEFINE swap(i) == IF i = 1 THEN k ELSE IF i = k THEN 1 ELSE i
             order == [i \in 1 .. n |-> g[swap(i)]]
  <2>2. 1 \in 1 .. n
    BY <1>1
  <2>3. \A i \in 1 .. n : swap(i) \in 1 .. n
    BY <2>2
  <2>4. \A i, j \in 1 .. n : i # j => swap(i) # swap(j)
    BY <2>2
  <2>5. order[1] = c
    BY <2>1, <2>2
  <2> HIDE DEF swap
  <2>6. order \in [1 .. n -> S]
    BY <1>3, <2>3
  <2>7. \A i, j \in 1 .. n : i # j => order[i] # order[j]
    BY <1>3, <2>3, <2>4
  <2>8. order \in SetToSeqs(S)
    BY <2>6, <2>7 DEF SetToSeqs
  <2> QED BY <2>5, <2>8
<1> QED BY <1>4, <1>5

\* What is picked at a fork is the one that wins, in any order, or nothing.
LEMMA AtForkIsWinner ==
    ASSUME Weighted, NEW latest_blocks \in LatestBlocks, NEW S \in SUBSET Block,
           IsFiniteSet(S), NEW referred,
           \A b \in S : referred[b] = Senders(latest_blocks, b),
           NEW x \in AtFork(S, referred)
    PROVE  \/ x = NoBlock /\ (S = {} \/ \E c \in S : KeptScore(latest_blocks, c) = 0)
           \/ x \in S /\ \A c \in S \ {x} :
                            Behind(latest_blocks, c, x, KeptScore(latest_blocks, x))
<1>1. PICK order \in SetToSeqs(S) :
          x = IF ForkFold(referred, order).failed THEN NoBlock
              ELSE ForkFold(referred, order).block
  BY DEF AtFork, ForkFold
<1> PICK n : n = Cardinality(S)
  OBVIOUS
<1>2. n \in Nat /\ IsFiniteSet(1 .. n) /\ Cardinality(1 .. n) = n
  BY FS_CardinalityType, FS_Interval
<1>3. order \in [1 .. n -> S] /\ \A i, j \in 1 .. n : i # j => order[i] # order[j]
  BY DEF SetToSeqs
<1>4. {order[i] : i \in 1 .. n} = S
  <2>1. order \in Injection(1 .. n, S)
    BY <1>3 DEF Injection, IsInjective
  <2>2. order \in Surjection(1 .. n, S)
    BY <1>2, <2>1, FS_Injection
  <2> QED BY <1>3, <2>2 DEF Surjection
<1>5. /\ order \in [1 .. n -> Block]
      /\ \A i \in 1 .. n : referred[order[i]] = Senders(latest_blocks, order[i])
  BY <1>3
<1> PICK r : r = ForkFold(referred, order)
  OBVIOUS
<1>6. BestOf(latest_blocks, S, r)
  BY <1>2, <1>4, <1>5, ForkFoldIsBest
<1> QED BY <1>1, <1>6 DEF BestOf

\* At a fork one branch of which weighs nothing, nothing may be picked; and it is
\* never so that there is no outcome.
LEMMA AtForkFails ==
    ASSUME Weighted, NEW latest_blocks \in LatestBlocks, NEW S \in SUBSET Block,
           IsFiniteSet(S), NEW referred,
           \A b \in S : referred[b] = Senders(latest_blocks, b)
    PROVE  /\ AtFork(S, referred) # {}
           /\ (\E c \in S : KeptScore(latest_blocks, c) = 0) => NoBlock \in AtFork(S, referred)
<1> DEFINE outcome(order) == IF ForkFold(referred, order).failed THEN NoBlock
                             ELSE ForkFold(referred, order).block
<1>1. AtFork(S, referred) = {outcome(order) : order \in SetToSeqs(S)}
  BY DEF AtFork, ForkFold
<1>2. ASSUME NEW c \in S, KeptScore(latest_blocks, c) = 0
      PROVE  NoBlock \in AtFork(S, referred)
  <2>1. PICK order \in SetToSeqs(S) : order[1] = c
    BY OrderFrom
  <2> PICK n : n = Cardinality(S)
    OBVIOUS
  <2>2. n \in Nat /\ n # 0
    BY FS_CardinalityType, FS_EmptySet
  <2>3. order \in [1 .. n -> S]
    BY DEF SetToSeqs
  <2>4. order \in [1 .. n -> Block]
    BY <2>3
  <2>5. \A i \in 1 .. n : referred[order[i]] = Senders(latest_blocks, order[i])
    BY <2>3
  <2>6. ForkFold(referred, order).failed
    BY <1>2, <2>1, <2>2, <2>4, <2>5, ForkFoldFails
  <2>7. outcome(order) = NoBlock
    BY <2>6
  <2> HIDE DEF outcome
  <2> QED BY <1>1, <2>7
<1>3. AtFork(S, referred) # {}
  <2> HIDE DEF outcome
  <2> QED BY <1>1, OrderFrom
<1> QED BY <1>2, <1>3

\* In the tree the children of a block are all its accessible children.
LEMMA TreeChildren ==
    ASSUME Voted, NEW root \in State, NEW tree, TreeAbove(root, tree), NEW b \in tree.visited
    PROVE  /\ b \in State /\ b \in Block /\ tree.visited \subseteq State
           /\ ChildrenIn(tree, b) = Children(State, b)
           /\ ChildrenIn(tree, b) \subseteq tree.visited
           /\ \A c \in ChildrenIn(tree, b) :
                  c \in Block /\ c \notin Chain[b] /\ b \in Chain[c] /\ Chain[c] \subseteq {c} \cup Chain[b]
<1>1. /\ tree.visited = {c \in State : root \in Chain[c]}
      /\ tree.attached = tree.visited \ {root}
  BY DEF TreeAbove, IsMember
<1>2. State \subseteq Block /\ b \in State /\ b \in Block /\ root \in Chain[b]
  BY <1>1, TreeFinite
<1>3. ASSUME NEW c \in Children(State, b)
      PROVE  /\ c \in Block /\ c \notin Chain[b] /\ b \in Chain[c] /\ Chain[c] \subseteq {c} \cup Chain[b]
             /\ c \in tree.attached
  <2>1. c \in State /\ c \in Block /\ prevblock[c] = b /\ b # NoBlock
    BY <1>2, NoBlockAssumption DEF Children
  <2>2. c \notin Chain[b]
    BY <2>1, ForestAssumption
  <2>3. b \in Chain[c] /\ Chain[c] \subseteq {c} \cup Chain[b]
    BY <1>2, <2>1, ChainClosure, ChainStep DEF Grounded
  <2>4. root \in Chain[c]
    BY <1>2, <2>1, <2>3, ChainTransitive
  <2>5. c # root
    BY <1>2, <2>2
  <2> QED BY <1>1, <2>1, <2>2, <2>3, <2>4, <2>5
<1>4. ChildrenIn(tree, b) = Children(State, b)
  BY <1>1, <1>3 DEF ChildrenIn, Children
<1>5. ChildrenIn(tree, b) \subseteq tree.visited
  BY <1>1 DEF ChildrenIn
<1> QED BY <1>1, <1>2, <1>3, <1>4, <1>5

\* What collect_validators finds is what was kept on b or above it.
LEMMA CollectedIsSenders ==
    ASSUME Voted, NEW root \in State, NEW tree, TreeAbove(root, tree),
           NEW latest_blocks, NEW b \in tree.visited
    PROVE  Collected(tree, latest_blocks)[b] = Senders(latest_blocks, b)
<1> DEFINE of(c) == {latest_blocks[t] : t \in {c} \cap Tips}
           Satisfies(f) == f = [c \in tree.visited |->
                                  of(c) \cup UNION {f[k] : k \in ChildrenIn(tree, c)}]
           senders == [c \in tree.visited |-> Senders(latest_blocks, c)]
           Upper(c) == {k \in State : c \in Chain[k]}
<1>1. Collected(tree, latest_blocks) = CHOOSE f : Satisfies(f)
  BY DEF Collected
<1>2. ASSUME NEW c \in tree.visited
      PROVE  Senders(latest_blocks, c)
                = of(c) \cup UNION {Senders(latest_blocks, k) : k \in ChildrenIn(tree, c)}
  <2>1. /\ c \in State /\ c \in Block /\ ChildrenIn(tree, c) = Children(State, c)
        /\ \A k \in ChildrenIn(tree, c) : k \in Block /\ c \in Chain[k]
    BY TreeChildren
  <2>2. /\ Tips \subseteq Block /\ Tips \subseteq State
        /\ \A t \in Tips : Chain[t] \subseteq State
    BY TreeFinite
  <2>3. \A d : Senders(latest_blocks, d) = {latest_blocks[t] : t \in {u \in Tips : d \in Chain[u]}}
    BY DEF Senders, IsMember
  <2>4. ASSUME NEW t \in Tips, c \in Chain[t]
        PROVE  t \in {c} \/ \E k \in ChildrenIn(tree, c) : k \in Chain[t]
    BY <2>1, <2>2, <2>4, ChainNext DEF Children
  <2>5. ASSUME NEW t \in Tips, t \in {c} \/ \E k \in ChildrenIn(tree, c) : k \in Chain[t]
        PROVE  c \in Chain[t]
    BY <2>1, <2>2, <2>5, ChainClosure, ChainTransitive
  <2>6. {u \in Tips : c \in Chain[u]}
           = ({c} \cap Tips) \cup UNION {{u \in Tips : k \in Chain[u]} : k \in ChildrenIn(tree, c)}
    BY <2>4, <2>5
  <2> QED BY <2>3, <2>6
<1>3. Satisfies(senders)
  <2>1. ASSUME NEW c \in tree.visited
        PROVE  senders[c] = of(c) \cup UNION {senders[k] : k \in ChildrenIn(tree, c)}
    <3>1. \A k \in ChildrenIn(tree, c) : senders[k] = Senders(latest_blocks, k)
      BY TreeChildren
    <3>2. senders[c] = Senders(latest_blocks, c)
      OBVIOUS
    <3> HIDE DEF senders, of
    <3> QED BY <1>2, <3>1, <3>2
  <2>2. senders = [c \in tree.visited |-> senders[c]]
    OBVIOUS
  <2> HIDE DEF senders, of
  <2> QED BY <2>1, <2>2
<1>4. PICK f : Satisfies(f) /\ Collected(tree, latest_blocks) = f
  <2> HIDE DEF Satisfies
  <2> QED BY <1>1, <1>3
<1> DEFINE X == {T \in SUBSET State : \A c \in tree.visited :
                    Upper(c) = T => f[c] = Senders(latest_blocks, c)}
<1>5. ASSUME NEW T \in SUBSET State, \A U \in SUBSET T : U # T => U \in X
      PROVE  T \in X
  <2> SUFFICES ASSUME NEW c \in tree.visited, Upper(c) = T
               PROVE  f[c] = Senders(latest_blocks, c)
    OBVIOUS
  <2>1. ASSUME NEW k \in ChildrenIn(tree, c) PROVE f[k] = Senders(latest_blocks, k)
    <3>1. /\ c \in State /\ c \in Block /\ k \in tree.visited /\ k \in Block
          /\ k \notin Chain[c] /\ c \in Chain[k]
      BY TreeChildren
    <3>2. Upper(k) \subseteq Upper(c) /\ c \in Upper(c) /\ c \notin Upper(k)
      BY <3>1, TreeFinite, ChainClosure, ChainTransitive
    <3>3. Upper(k) \in X
      <4> HIDE DEF X, Upper
      <4> QED BY <1>5, <3>2
    <3> HIDE DEF Upper
    <3> QED BY <3>1, <3>3
  <2>2. f[c] = of(c) \cup UNION {f[k] : k \in ChildrenIn(tree, c)}
    BY <1>4
  <2> HIDE DEF of
  <2> QED BY <1>2, <2>1, <2>2
<1>6. Upper(b) \in X
  <2>1. IsFiniteSet(Upper(b)) /\ Upper(b) \in SUBSET State
    BY TreeFinite, FS_Subset
  <2>2. \A T \in SUBSET Upper(b) : (\A U \in SUBSET T : U # T => U \in X) => T \in X
    BY <1>5, <2>1
  <2> HIDE DEF X, Upper
  <2> QED BY <2>1, <2>2, FiniteStrongInduction
<1> QED BY <1>4, <1>6

\* pick_heaviest goes no further than b.
Stops(tree, b) == b = NoBlock \/ ChildrenIn(tree, b) = {}

\* The blocks it can choose of S.
Beginnings(tree, latest_blocks, S) ==
    IF Cardinality(S) = 1 THEN S ELSE AtFork(S, Collected(tree, latest_blocks))

\* f satisfies its recursion.
Picks(tree, latest_blocks, f) ==
    f = [S \in SUBSET tree.visited |->
            UNION {IF Stops(tree, b) THEN {b} ELSE f[ChildrenIn(tree, b)] :
                      b \in Beginnings(tree, latest_blocks, S)}]

\* The recursion has a solution.
LEMMA PicksExist ==
    ASSUME NEW tree, tree.attached \subseteq tree.visited, NEW latest_blocks
    PROVE  \E f : Picks(tree, latest_blocks, f)
<1> DEFINE C == SUBSET tree.visited
           out == [S \in C |-> {b \in Beginnings(tree, latest_blocks, S) : Stops(tree, b)}]
           next == [S \in C |-> {ChildrenIn(tree, b) :
                       b \in {c \in Beginnings(tree, latest_blocks, S) : ~Stops(tree, c)}}]
<1>1. \A S \in C : next[S] \subseteq C
  BY DEF ChildrenIn
<1>2. PICK f : Collects(C, out, next, f)
  <2> HIDE DEF C, out, next
  <2> QED BY <1>1, UnionRecursion
<1>3. ASSUME NEW S \in C
      PROVE  out[S] \cup UNION {f[d] : d \in next[S]}
                = UNION {IF Stops(tree, b) THEN {b} ELSE f[ChildrenIn(tree, b)] :
                            b \in Beginnings(tree, latest_blocks, S)}
  <2> PICK K : K = Beginnings(tree, latest_blocks, S)
    OBVIOUS
  <2>1. /\ out[S] = {b \in K : Stops(tree, b)}
        /\ next[S] = {ChildrenIn(tree, b) : b \in {c \in K : ~Stops(tree, c)}}
    OBVIOUS
  <2> HIDE DEF out, next
  <2> QED BY <2>1
<1>4. f = [S \in C |-> out[S] \cup UNION {f[d] : d \in next[S]}]
  BY <1>2 DEF Collects
<1>5. Picks(tree, latest_blocks, f)
  <2> HIDE DEF out, next
  <2> QED BY <1>3, <1>4 DEF Picks
<1> QED BY <1>5

\* From b the search ends at x: a leaf to which the winner leads at each fork, or
\* nothing, for a block that weighs nothing at a fork the winners lead to.
EndsAt(latest_blocks, b, x) ==
    IF x = NoBlock
    THEN \E c \in State : /\ b \in Chain[c] /\ Weightless(latest_blocks, c)
                          /\ \A a \in Chain[c] \ ({c} \cup Chain[b]) : Wins(latest_blocks, a)
    ELSE /\ x \in State /\ b \in Chain[x] /\ Children(State, x) = {}
         /\ \A a \in Chain[x] \ Chain[b] : Wins(latest_blocks, a)

\* The choice among the children of b.
LEMMA ChoiceWins ==
    ASSUME Weighted, NEW root \in State, NEW tree, TreeAbove(root, tree),
           NEW latest_blocks \in LatestBlocks, NEW b \in tree.visited,
           ChildrenIn(tree, b) # {},
           NEW x \in Beginnings(tree, latest_blocks, ChildrenIn(tree, b))
    PROVE  \/ x = NoBlock /\ \E c \in ChildrenIn(tree, b) : Weightless(latest_blocks, c)
           \/ x \in ChildrenIn(tree, b) /\ Wins(latest_blocks, x)
<1> DEFINE S == ChildrenIn(tree, b)
<1>1. Voted
  BY DEF Weighted, Inputs, Voted
<1>2. /\ S = Children(State, b) /\ S \subseteq tree.visited /\ S \subseteq Block
      /\ S \subseteq State
  BY <1>1, TreeChildren DEF Children
<1>3. IsFiniteSet(S)
  BY <1>1, <1>2, TreeFinite, FS_Subset
<1>4. \A a \in S : prevblock[a] = b
  BY <1>2 DEF Children
<1>5. \A a \in S : \A c \in State : prevblock[c] = prevblock[a] => c \in S
  BY <1>2, <1>4 DEF Children
<1> HIDE DEF S
<1>6. ASSUME NEW a \in S,
             \A c \in S \ {a} : Behind(latest_blocks, c, a, KeptScore(latest_blocks, a))
      PROVE  Wins(latest_blocks, a)
  BY <1>5, <1>6 DEF Wins, Behind
<1>7. CASE Cardinality(S) = 1
  <2>1. x \in S
    BY <1>7 DEF Beginnings, S
  <2>2. PICK y : S = {y}
    BY <1>3, <1>7, FS_Singleton
  <2>3. S \ {x} = {}
    BY <2>1, <2>2
  <2> QED BY <1>6, <2>1, <2>3 DEF S
<1>8. CASE Cardinality(S) # 1
  <2> PICK referred : referred = Collected(tree, latest_blocks)
    OBVIOUS
  <2>1. x \in AtFork(S, referred)
    BY <1>8 DEF Beginnings, S
  <2>2. \A c \in S : referred[c] = Senders(latest_blocks, c)
    BY <1>1, <1>2, CollectedIsSenders
  <2>3. \/ x = NoBlock /\ (S = {} \/ \E c \in S : KeptScore(latest_blocks, c) = 0)
        \/ x \in S /\ \A c \in S \ {x} :
                         Behind(latest_blocks, c, x, KeptScore(latest_blocks, x))
    BY <1>2, <1>3, <2>1, <2>2, AtForkIsWinner
  <2>4. S # {}
    BY DEF S
  <2>5. ASSUME NEW c \in S PROVE \E d \in State \ {c} : prevblock[d] = prevblock[c]
    <3>1. S # {c}
      BY <1>8, FS_Singleton
    <3> QED BY <1>2, <1>4, <3>1
  <2>6. \A c \in S : KeptScore(latest_blocks, c) = 0 => Weightless(latest_blocks, c)
    BY <2>5 DEF Weightless
  <2> QED BY <1>6, <2>3, <2>4, <2>6 DEF S
<1> QED BY <1>7, <1>8

\* Whatever is picked above b is an end of the search.
LEMMA PickedAbove ==
    ASSUME Weighted, NEW root \in State, NEW tree, TreeAbove(root, tree),
           NEW latest_blocks \in LatestBlocks, NEW f, Picks(tree, latest_blocks, f),
           NEW b \in tree.visited, ChildrenIn(tree, b) # {},
           NEW x \in f[ChildrenIn(tree, b)]
    PROVE  EndsAt(latest_blocks, b, x)
<1> DEFINE Upper(c) == {k \in State : c \in Chain[k]}
           X == {T \in SUBSET State : \A c \in tree.visited :
                    Upper(c) = T /\ ChildrenIn(tree, c) # {}
                       => \A y \in f[ChildrenIn(tree, c)] : EndsAt(latest_blocks, c, y)}
<1>1. Voted
  BY DEF Weighted, Inputs, Voted
<1>2. ASSUME NEW T \in SUBSET State, \A U \in SUBSET T : U # T => U \in X
      PROVE  T \in X
  <2> SUFFICES ASSUME NEW c \in tree.visited, Upper(c) = T, ChildrenIn(tree, c) # {},
                      NEW y \in f[ChildrenIn(tree, c)]
               PROVE  EndsAt(latest_blocks, c, y)
    OBVIOUS
  <2> DEFINE S == ChildrenIn(tree, c)
  <2>1. S \in SUBSET tree.visited
    BY <1>1, TreeChildren
  <2>2. PICK k \in Beginnings(tree, latest_blocks, S) :
            y \in IF Stops(tree, k) THEN {k} ELSE f[ChildrenIn(tree, k)]
    <3>1. f[S] = UNION {IF Stops(tree, k) THEN {k} ELSE f[ChildrenIn(tree, k)] :
                           k \in Beginnings(tree, latest_blocks, S)}
      BY <2>1 DEF Picks
    <3>2. y \in f[S]
      OBVIOUS
    <3> HIDE DEF S
    <3> QED BY <3>1, <3>2
  <2>3. CASE k = NoBlock /\ \E a \in S : Weightless(latest_blocks, a)
    <3>1. y = NoBlock
      BY <2>2, <2>3 DEF Stops
    <3>2. PICK a \in S : Weightless(latest_blocks, a)
      BY <2>3
    <3>3. a \in State /\ c \in Chain[a] /\ Chain[a] \subseteq {a} \cup Chain[c]
      BY <1>1, TreeChildren DEF Children
    <3> QED BY <3>1, <3>2, <3>3 DEF EndsAt
  <2>4. CASE k \in S /\ Wins(latest_blocks, k)
    <3>1. /\ k \in tree.visited /\ k \in Block /\ k \in State /\ k # NoBlock
          /\ c \in Chain[k] /\ k \notin Chain[c] /\ Chain[k] \subseteq {k} \cup Chain[c]
          /\ c \in Block /\ c \in State
          /\ ChildrenIn(tree, k) = Children(State, k)
      BY <1>1, <2>1, <2>4, TreeChildren, NoBlockAssumption
    <3>2. CASE ChildrenIn(tree, k) = {}
      <4>1. y = k
        BY <2>2, <3>2 DEF Stops
      <4> QED BY <2>4, <3>1, <3>2, <4>1 DEF EndsAt
    <3>3. CASE ChildrenIn(tree, k) # {}
      <4>1. y \in f[ChildrenIn(tree, k)]
        BY <2>2, <3>1, <3>3 DEF Stops
      <4>2. Upper(k) \subseteq Upper(c) /\ c \in Upper(c) /\ c \notin Upper(k)
        BY <1>1, <3>1, TreeFinite, ChainClosure, ChainTransitive
      <4>3. Upper(k) \in X
        <5> HIDE DEF X, Upper
        <5> QED BY <1>2, <4>2
      <4>4. EndsAt(latest_blocks, k, y)
        <5> HIDE DEF Upper
        <5> QED BY <3>1, <3>3, <4>1, <4>3
      <4>5. CASE y = NoBlock
        <5>1. PICK z \in State : /\ k \in Chain[z] /\ Weightless(latest_blocks, z)
                                 /\ \A a \in Chain[z] \ ({z} \cup Chain[k]) : Wins(latest_blocks, a)
          BY <4>4, <4>5 DEF EndsAt
        <5>2. c \in Chain[z]
          BY <1>1, <3>1, <5>1, TreeFinite, ChainTransitive
        <5>3. \A a \in Chain[z] \ ({z} \cup Chain[c]) : Wins(latest_blocks, a)
          BY <2>4, <3>1, <5>1
        <5> QED BY <4>5, <5>1, <5>2, <5>3 DEF EndsAt
      <4>6. CASE y # NoBlock
        <5>1. /\ y \in State /\ y \in Block /\ k \in Chain[y] /\ Children(State, y) = {}
              /\ \A a \in Chain[y] \ Chain[k] : Wins(latest_blocks, a)
          BY <1>1, <4>4, <4>6, TreeFinite DEF EndsAt
        <5>2. c \in Chain[y]
          BY <3>1, <5>1, ChainTransitive
        <5>3. \A a \in Chain[y] \ Chain[c] : Wins(latest_blocks, a)
          BY <2>4, <3>1, <5>1
        <5> QED BY <4>6, <5>1, <5>2, <5>3 DEF EndsAt
      <4> QED BY <4>5, <4>6
    <3> QED BY <3>2, <3>3
  <2>5. \/ k = NoBlock /\ \E a \in S : Weightless(latest_blocks, a)
        \/ k \in S /\ Wins(latest_blocks, k)
    BY <2>2, ChoiceWins
  <2> QED BY <2>3, <2>4, <2>5
<1>3. Upper(b) \in X
  <2>1. IsFiniteSet(Upper(b)) /\ Upper(b) \in SUBSET State
    BY <1>1, TreeFinite, FS_Subset
  <2>2. \A T \in SUBSET Upper(b) : (\A U \in SUBSET T : U # T => U \in X) => T \in X
    BY <1>2, <2>1
  <2> HIDE DEF X, Upper
  <2> QED BY <2>1, <2>2, FiniteStrongInduction
<1> QED BY <1>3

\* Below the root of the tree nothing is beside the chain.
LEMMA BelowRoot ==
    ASSUME Voted, OneGenesis, NEW root \in State, NEW tree, TreeAbove(root, tree),
           NEW latest_blocks, NEW a \in Chain[root]
    PROVE  Wins(latest_blocks, a)
<1>1. /\ State \subseteq Block /\ root \in Block /\ a \in Block
      /\ Tips \subseteq Block /\ \A t \in Tips : root \in Chain[t]
  BY TreeFinite, ChainTransitive DEF TreeAbove, IsMember
<1> SUFFICES ASSUME NEW c \in State, prevblock[c] = prevblock[a], c # a PROVE FALSE
  BY DEF Wins
<1>2. prevblock[a] # NoBlock
  BY <1>1 DEF OneGenesis
<1>3. PICK t \in Tips : c \in Chain[t]
  BY DEF State, Accessible, Tips
<1>4. t \in Block /\ a \in Chain[t]
  BY <1>1, <1>3, ChainTransitive
<1> QED BY <1>2, <1>3, <1>4, NoSiblingsOnChain

\* The search starts at the root of the tree.
LEMMA PickedAtRoot ==
    ASSUME Voted, NEW root \in State, NEW tree, TreeAbove(root, tree), NEW latest_blocks
    PROVE  /\ root \in tree.visited
           /\ \E f : /\ Picks(tree, latest_blocks, f)
                    /\ Picked(tree, latest_blocks)
                          = IF Stops(tree, root) THEN {root} ELSE f[ChildrenIn(tree, root)]
<1>1. PICK f : f = CHOOSE g : Picks(tree, latest_blocks, g)
  OBVIOUS
<1>2. Picked(tree, latest_blocks) = f[tree.genesis]
  BY <1>1 DEF Picked, Picks, Beginnings, Stops
<1>3. tree.attached \subseteq tree.visited /\ tree.genesis = {root} /\ root \in tree.visited
  BY TreeFinite, ChainClosure DEF TreeAbove, IsMember
<1>4. Picks(tree, latest_blocks, f)
  BY <1>1, <1>3, PicksExist
<1>5. Beginnings(tree, latest_blocks, {root}) = {root}
  BY FS_Singleton DEF Beginnings
<1>6. f[{root}] = UNION {IF Stops(tree, k) THEN {k} ELSE f[ChildrenIn(tree, k)] : k \in {root}}
  <2> PICK S : S = {root}
    OBVIOUS
  <2>1. S \in SUBSET tree.visited
    BY <1>3
  <2>2. f[S] = UNION {IF Stops(tree, k) THEN {k} ELSE f[ChildrenIn(tree, k)] :
                         k \in Beginnings(tree, latest_blocks, S)}
    BY <1>4, <2>1 DEF Picks
  <2> QED BY <1>5, <2>2
<1>7. Picked(tree, latest_blocks)
         = IF Stops(tree, root) THEN {root} ELSE f[ChildrenIn(tree, root)]
  BY <1>2, <1>3, <1>6
<1> QED BY <1>3, <1>4, <1>7

\* Without votes there is nothing to pick.
LEMMA NothingPicked ==
    ASSUME Weighted, OneGenesis, NEW latest_blocks \in LatestBlocks, Tips = {},
           NEW tips \in SetToSeqs(Tips)
    PROVE  Picked(Parsed(tips), latest_blocks) = {NoBlock}
<1> PICK tree : tree = Parsed(tips)
  OBVIOUS
<1>1. PICK f : f = CHOOSE g : Picks(tree, latest_blocks, g)
  OBVIOUS
<1>2. Picked(tree, latest_blocks) = f[tree.genesis]
  BY <1>1 DEF Picked, Picks, Beginnings, Stops
<1>3. tree.visited = {} /\ tree.attached = {} /\ tree.genesis = {}
  BY ParsedIsTree DEF Weighted, Inputs, Voted
<1>4. Picks(tree, latest_blocks, f)
  BY <1>1, <1>3, PicksExist
<1>5. f[{}] = UNION {IF Stops(tree, k) THEN {k} ELSE f[ChildrenIn(tree, k)] :
                        k \in Beginnings(tree, latest_blocks, {})}
  BY <1>3, <1>4 DEF Picks
<1>6. Beginnings(tree, latest_blocks, {}) = {NoBlock}
  <2> PICK referred : referred = Collected(tree, latest_blocks)
    OBVIOUS
  <2>1. IsFiniteSet({}) /\ Cardinality({}) = 0
    BY FS_EmptySet
  <2>2. AtFork({}, referred) # {}
    BY <2>1, AtForkFails
  <2>3. \A x \in AtFork({}, referred) : x = NoBlock
    BY <2>1, AtForkIsWinner
  <2> QED BY <2>1, <2>2, <2>3 DEF Beginnings
<1>7. Stops(tree, NoBlock)
  BY DEF Stops
<1> QED BY <1>2, <1>3, <1>5, <1>6, <1>7

\* For the votes it keeps old_ghost returns the leaf that wins at each fork, ties
\* broken by the hashes, in whatever orders its hash tables are iterated, for every
\* forest with one genesis block, all votes and all known weights; it fails only for
\* a branch that weighs nothing at a fork the winners lead to, or without votes.
THEOREM OldChoice ==
    ASSUME AllKnown, OneGenesis
    PROVE  Spec => []OldGhostHeaviest
<1>1. Init => Weighted
  BY DEF Init, Weighted, Inputs, AllKnown
<1>2. Weighted /\ [Next]_vars => Weighted'
  BY DEF Next, Start, PopLeaf, PopFork, Return, vars, Weighted, Inputs
<1>3. Weighted => OldGhostHeaviest
  <2> SUFFICES ASSUME Weighted, NEW latest_blocks \in LatestBlocks,
                      NEW x \in OldGhost(latest_blocks)
               PROVE  IF x = NoBlock THEN MayFail(latest_blocks)
                      ELSE /\ x \in State /\ Children(State, x) = {}
                           /\ \A a \in Chain[x] : Wins(latest_blocks, a)
    BY DEF OldGhostHeaviest
  <2>1. Voted
    BY DEF Weighted, Inputs, Voted
  <2>2. PICK tips \in SetToSeqs(Tips) : x \in Picked(Parsed(tips), latest_blocks)
    BY DEF OldGhost
  <2> PICK tree : tree = Parsed(tips)
    OBVIOUS
  <2>3. CASE Tips = {}
    BY <2>2, <2>3, NothingPicked DEF MayFail
  <2>4. CASE Tips # {}
    <3>1. PICK root \in State : TreeAbove(root, tree)
      BY <2>1, <2>4, ParsedIsTree
    <3>2. root \in tree.visited
      BY <2>1, <3>1, PickedAtRoot
    <3>3. PICK f : /\ Picks(tree, latest_blocks, f)
                   /\ Picked(tree, latest_blocks)
                         = IF Stops(tree, root) THEN {root} ELSE f[ChildrenIn(tree, root)]
      BY <2>1, <3>1, PickedAtRoot
    <3>4. EndsAt(latest_blocks, root, x)
      <4>1. root \in Block /\ root # NoBlock /\ ChildrenIn(tree, root) = Children(State, root)
        BY <2>1, <3>1, <3>2, TreeChildren, NoBlockAssumption
      <4>2. CASE ChildrenIn(tree, root) = {}
        <5>1. x = root
          BY <2>2, <3>3, <4>2 DEF Stops
        <5> QED BY <4>1, <4>2, <5>1, ChainClosure DEF EndsAt
      <4>3. CASE ChildrenIn(tree, root) # {}
        <5>1. x \in f[ChildrenIn(tree, root)]
          BY <2>2, <3>3, <4>1, <4>3 DEF Stops
        <5> QED BY <3>1, <3>2, <3>3, <4>3, <5>1, PickedAbove
      <4> QED BY <4>2, <4>3
    <3>5. \A a \in Chain[root] : Wins(latest_blocks, a)
      BY <2>1, <3>1, BelowRoot
    <3>6. CASE x = NoBlock
      BY <3>4, <3>5, <3>6 DEF EndsAt, MayFail
    <3>7. CASE x # NoBlock
      BY <3>4, <3>5, <3>7 DEF EndsAt
    <3> QED BY <3>6, <3>7
  <2> QED BY <2>3, <2>4
<1> QED BY <1>1, <1>2, <1>3, PTL DEF Spec

\* A branch that weighs nothing, at a fork the winners lead to from b.
Doomed(latest_blocks, b, c) ==
    /\ c \in State /\ b \in Chain[c] /\ b # c /\ Weightless(latest_blocks, c)
    /\ \A a \in Chain[c] \ ({c} \cup Chain[b]) : Wins(latest_blocks, a)

\* From b some order fails for it, at its fork or before.
LEMMA FailsAbove ==
    ASSUME Weighted, NEW root \in State, NEW tree, TreeAbove(root, tree),
           NEW latest_blocks \in LatestBlocks, NEW f, Picks(tree, latest_blocks, f),
           NEW b \in tree.visited, NEW c, Doomed(latest_blocks, b, c)
    PROVE  ChildrenIn(tree, b) # {} /\ NoBlock \in f[ChildrenIn(tree, b)]
<1> DEFINE Upper(y) == {k \in State : y \in Chain[k]}
           Fails(y) == ChildrenIn(tree, y) # {} /\ NoBlock \in f[ChildrenIn(tree, y)]
           X == {T \in SUBSET State : \A y \in tree.visited :
                    Upper(y) = T /\ Doomed(latest_blocks, y, c) => Fails(y)}
<1>1. Voted
  BY DEF Weighted, Inputs, Voted
<1>2. ASSUME NEW T \in SUBSET State, \A U \in SUBSET T : U # T => U \in X
      PROVE  T \in X
  <2> SUFFICES ASSUME NEW y \in tree.visited, Upper(y) = T, Doomed(latest_blocks, y, c)
               PROVE  Fails(y)
    OBVIOUS
  <2> DEFINE S == ChildrenIn(tree, y)
  <2>1. /\ y \in State /\ y \in Block /\ S = Children(State, y) /\ S \in SUBSET tree.visited
        /\ tree.visited \subseteq State
    BY <1>1, TreeChildren
  <2>2. c \in State /\ c \in Block /\ y \in Chain[c] /\ y # c
    BY <1>1, TreeFinite DEF Doomed
  <2>3. PICK k \in S : k \in Chain[c]
    <3>1. PICK k \in Chain[c] : prevblock[k] = y
      BY <2>2, ChainNext
    <3>2. k \in State
      BY <1>1, <2>2, <3>1, TreeFinite
    <3> QED BY <2>1, <3>1, <3>2 DEF Children
  <2>4. /\ k \in tree.visited /\ k \in Block /\ k \in State /\ k # NoBlock
        /\ y \in Chain[k] /\ k \notin Chain[y] /\ Chain[k] \subseteq {k} \cup Chain[y]
    BY <1>1, <2>1, <2>3, TreeChildren, NoBlockAssumption
  <2>5. \A z \in Beginnings(tree, latest_blocks, S) :
           (IF Stops(tree, z) THEN {z} ELSE f[ChildrenIn(tree, z)]) \subseteq f[S]
    <3> HIDE DEF S
    <3>1. f[S] = UNION {IF Stops(tree, z) THEN {z} ELSE f[ChildrenIn(tree, z)] :
                           z \in Beginnings(tree, latest_blocks, S)}
      BY <2>1 DEF Picks
    <3> QED BY <3>1
  <2>6. IsFiniteSet(S) /\ S \in SUBSET Block
    BY <1>1, <2>1, TreeFinite, FS_Subset DEF Children
  <2> PICK referred : referred = Collected(tree, latest_blocks)
    OBVIOUS
  <2>7. \A z \in S : referred[z] = Senders(latest_blocks, z)
    BY <1>1, <2>1, CollectedIsSenders
  <2>8. CASE NoBlock \in Beginnings(tree, latest_blocks, S)
    <3>1. NoBlock \in f[S]
      <4>1. Stops(tree, NoBlock)
        BY DEF Stops
      <4> HIDE DEF S
      <4> QED BY <2>5, <2>8, <4>1
    <3> QED BY <2>3, <3>1
  <2>9. CASE k # c /\ k \in Beginnings(tree, latest_blocks, S)
    <3>0. Chain[y] \subseteq Chain[k]
      BY <2>4, ChainTransitive
    <3>1. Doomed(latest_blocks, k, c)
      BY <2>2, <2>3, <2>4, <2>9, <3>0 DEF Doomed
    <3>2. Upper(k) \subseteq Upper(y) /\ y \in Upper(y) /\ y \notin Upper(k)
      BY <1>1, <2>1, <2>4, TreeFinite, ChainClosure, ChainTransitive
    <3>3. Upper(k) \in X
      <4> HIDE DEF X, Upper
      <4> QED BY <1>2, <3>2
    <3>4. Fails(k)
      <4> HIDE DEF Upper, Fails
      <4> QED BY <2>4, <3>1, <3>3
    <3>5. NoBlock \in f[S]
      <4>1. ~Stops(tree, k)
        BY <2>4, <3>4 DEF Stops
      <4> HIDE DEF S
      <4> QED BY <2>5, <2>9, <3>4, <4>1
    <3> QED BY <2>3, <3>5
  \* The branch is c itself: it is at a fork, and may come first.
  <2>10. CASE k = c
    <3>1. PICK d \in State \ {c} : prevblock[d] = prevblock[c]
      BY DEF Doomed, Weightless
    <3>2. d \in S /\ c \in S /\ d # c
      BY <2>1, <2>3, <2>10, <3>1 DEF Children
    <3>3. Cardinality(S) # 1
      BY <2>6, <3>2, FS_Singleton
    <3>4. KeptScore(latest_blocks, c) = 0
      BY DEF Doomed, Weightless
    <3>5. NoBlock \in AtFork(S, referred)
      <4> HIDE DEF S
      <4> QED BY <2>6, <2>7, <3>2, <3>4, AtForkFails
    <3>6. NoBlock \in Beginnings(tree, latest_blocks, S)
      BY <3>3, <3>5 DEF Beginnings
    <3> QED BY <2>8, <3>6
  \* The branch wins: it is what is picked, if the pick does not fail.
  <2>11. CASE k # c
    <3>1. Wins(latest_blocks, k)
      BY <2>3, <2>4, <2>11 DEF Doomed
    <3>2. CASE Cardinality(S) = 1
      <4>1. PICK z : S = {z}
        BY <2>6, <3>2, FS_Singleton
      <4>2. k \in Beginnings(tree, latest_blocks, S)
        BY <2>3, <3>2 DEF Beginnings
      <4> QED BY <2>9, <2>11, <4>2
    <3>3. CASE Cardinality(S) # 1
      <4>1. PICK x \in AtFork(S, referred) : TRUE
        <5> HIDE DEF S
        <5> QED BY <2>6, <2>7, AtForkFails
      <4>2. x \in Beginnings(tree, latest_blocks, S)
        BY <3>3 DEF Beginnings
      <4>3. \/ x = NoBlock
            \/ x \in S /\ \A z \in S \ {x} :
                             Behind(latest_blocks, z, x, KeptScore(latest_blocks, x))
        <5> HIDE DEF S
        <5> QED BY <2>6, <2>7, AtForkIsWinner
      <4>4. ASSUME x \in S, x # k,
                   \A z \in S \ {x} : Behind(latest_blocks, z, x, KeptScore(latest_blocks, x))
            PROVE  FALSE
        <5>1. Behind(latest_blocks, k, x, KeptScore(latest_blocks, x))
          BY <2>3, <4>4
        <5>2. x \in State /\ x \in Block /\ prevblock[x] = prevblock[k]
          BY <2>1, <2>3, <2>6, <4>4 DEF Children
        <5>3. \/ KeptScore(latest_blocks, x) < KeptScore(latest_blocks, k)
              \/ KeptScore(latest_blocks, x) = KeptScore(latest_blocks, k) /\ id[k] < id[x]
          BY <3>1, <4>4, <5>2 DEF Wins
        <5>4. /\ KeptScore(latest_blocks, x) \in Nat /\ KeptScore(latest_blocks, k) \in Nat
              /\ id[k] \in Nat /\ id[x] \in Nat
          BY <2>4, <5>2, KeptScoreType, IdAssumption
        <5> QED BY <5>1, <5>3, <5>4 DEF Behind
      <4>5. x = NoBlock \/ x = k
        BY <4>3, <4>4
      <4> QED BY <2>8, <2>9, <2>11, <4>2, <4>5
    <3> QED BY <3>2, <3>3
  <2> QED BY <2>10, <2>11
<1>3. Upper(b) \in X
  <2>1. IsFiniteSet(Upper(b)) /\ Upper(b) \in SUBSET State
    BY <1>1, TreeFinite, FS_Subset
  <2>2. \A T \in SUBSET Upper(b) : (\A U \in SUBSET T : U # T => U \in X) => T \in X
    BY <1>2, <2>1
  <2> HIDE DEF X, Upper
  <2> QED BY <2>1, <2>2, FiniteStrongInduction
<1> QED BY <1>3

\* Wherever old_ghost may fail, some order of its hash tables makes it fail, for every
\* forest with one genesis block, all votes and all known weights: with OldChoice,
\* it may fail in those cases and in no other.
THEOREM OldFailure ==
    ASSUME AllKnown, OneGenesis
    PROVE  Spec => []OldGhostFails
<1>1. Init => Weighted
  BY DEF Init, Weighted, Inputs, AllKnown
<1>2. Weighted /\ [Next]_vars => Weighted'
  BY DEF Next, Start, PopLeaf, PopFork, Return, vars, Weighted, Inputs
<1>3. Weighted => OldGhostFails
  <2> SUFFICES ASSUME Weighted, NEW latest_blocks \in LatestBlocks, MayFail(latest_blocks)
               PROVE  NoBlock \in OldGhost(latest_blocks)
    BY DEF OldGhostFails
  <2>1. Voted
    BY DEF Weighted, Inputs, Voted
  <2>2. PICK tips \in SetToSeqs(Tips) : TRUE
    BY <2>1, TreeFinite, OrderFrom
  <2> PICK tree : tree = Parsed(tips)
    OBVIOUS
  <2>3. Picked(tree, latest_blocks) \subseteq OldGhost(latest_blocks)
    BY DEF OldGhost
  <2>4. CASE Tips = {}
    BY <2>3, <2>4, NothingPicked
  <2>5. CASE Tips # {}
    <3>1. PICK root \in State : TreeAbove(root, tree)
      BY <2>1, <2>5, ParsedIsTree
    <3>2. root \in tree.visited
      BY <2>1, <3>1, PickedAtRoot
    <3>3. PICK f : /\ Picks(tree, latest_blocks, f)
                   /\ Picked(tree, latest_blocks)
                         = IF Stops(tree, root) THEN {root} ELSE f[ChildrenIn(tree, root)]
      BY <2>1, <3>1, PickedAtRoot
    <3>4. PICK c \in State : /\ Weightless(latest_blocks, c)
                             /\ \A a \in Chain[c] \ {c} : Wins(latest_blocks, a)
      BY <2>5 DEF MayFail
    <3>5. root \in Block /\ root # NoBlock /\ c \in Block
      BY <2>1, <3>1, <3>2, TreeChildren, TreeFinite, NoBlockAssumption
    <3>6. PICK t \in Tips : c \in Chain[t]
      BY <2>1, TreeFinite
    <3>7. t \in Block /\ root \in Chain[t]
      BY <2>1, <3>1, <3>6, TreeFinite DEF TreeAbove, IsMember
    <3>8. PICK d \in State \ {c} : prevblock[d] = prevblock[c]
      BY <3>4 DEF Weightless
    <3>9. c \notin Chain[root]
      <4> SUFFICES ASSUME c \in Chain[root] PROVE FALSE
        OBVIOUS
      <4>1. prevblock[c] # NoBlock
        BY <2>1, <3>5, <3>8, TreeFinite DEF OneGenesis
      <4>2. PICK u \in Tips : d \in Chain[u]
        BY <2>1, <3>8, TreeFinite
      <4>3. u \in Block /\ root \in Chain[u]
        BY <2>1, <3>1, <4>2, TreeFinite DEF TreeAbove, IsMember
      <4>4. c \in Chain[u]
        BY <4>3, ChainTransitive
      <4> QED BY <3>8, <4>1, <4>2, <4>3, <4>4, NoSiblingsOnChain
    <3>10. root \in Chain[c] /\ root # c
      BY <3>5, <3>6, <3>7, <3>9, ChainLinear, ChainClosure
    <3>11. Doomed(latest_blocks, root, c)
      BY <3>4, <3>10 DEF Doomed
    <3>12. ChildrenIn(tree, root) # {} /\ NoBlock \in f[ChildrenIn(tree, root)]
      BY <3>1, <3>2, <3>3, <3>11, FailsAbove
    <3>13. NoBlock \in Picked(tree, latest_blocks)
      BY <3>3, <3>5, <3>12 DEF Stops
    <3> QED BY <2>3, <3>13
  <2> QED BY <2>4, <2>5
<1> QED BY <1>1, <1>2, <1>3, PTL DEF Spec

\* The supporters of a block are the kept senders of the votes above it and those that
\* were dropped.
LEMMA KeptAndDropped ==
    ASSUME Weighted, NEW latest_blocks \in LatestBlocks, NEW c \in State
    PROVE  /\ WeightOf(Dropped(latest_blocks) \cap Supporters(c)) \in Nat
           /\ Score(c) = KeptScore(latest_blocks, c)
                            + WeightOf(Dropped(latest_blocks) \cap Supporters(c))
<1> DEFINE K == Senders(latest_blocks, c)
           D == Dropped(latest_blocks) \cap Supporters(c)
<1>1. /\ latest_blocks \in [Tips -> Validator]
      /\ \A t \in Tips : estimate[latest_blocks[t]] = t /\ t # NoBlock
  BY DEF LatestBlocks, Tips
<1>2. c \in Block
  BY TreeFinite DEF Weighted, Inputs, Voted
<1>3. Supporters(c) \in SUBSET Validator /\ Score(c) = WeightOf(Supporters(c))
  BY <1>2, ScoreIsSum DEF Supporters
<1>4. K \in SUBSET Validator /\ KeptScore(latest_blocks, c) = WeightOf(K)
  BY KeptScoreType
<1>5. K \cup D = Supporters(c) /\ K \cap D = {}
  <2>1. ASSUME NEW v \in K PROVE v \in Supporters(c) /\ v \notin Dropped(latest_blocks)
    <3>1. PICK t \in Tips : IsMember(c, t) /\ v = latest_blocks[t]
      BY DEF Senders
    <3>2. v \in Validator /\ estimate[v] = t /\ t # NoBlock
      BY <1>1, <3>1
    <3> QED BY <3>1, <3>2 DEF Supporters, Dropped
  <2>2. ASSUME NEW v \in Supporters(c), v \notin Dropped(latest_blocks) PROVE v \in K
    <3>1. v \in Validator /\ estimate[v] # NoBlock /\ IsMember(c, estimate[v])
      BY DEF Supporters
    <3>2. estimate[v] \in Tips /\ latest_blocks[estimate[v]] = v
      BY <2>2, <3>1 DEF Dropped, Tips
    <3> QED BY <3>1, <3>2 DEF Senders
  <2> QED BY <2>1, <2>2
<1> HIDE DEF K, D
<1>6. D \in SUBSET Validator
  BY <1>3, <1>5
<1>7. WeightOf(D) \in Nat /\ WeightOf(K \cup D) = WeightOf(K) + WeightOf(D)
  BY <1>4, <1>5, <1>6, WeightAdds
<1> QED BY <1>3, <1>4, <1>5, <1>7 DEF D

\* What old_ghost passes over is heavier than what it takes by no more than the
\* supporters that it has dropped, under the assumptions of OldChoice.
THEOREM ButForDropped ==
    ASSUME AllKnown, OneGenesis
    PROVE  Spec => []HeaviestButForDropped
<1>1. Init => Weighted
  BY DEF Init, Weighted, Inputs, AllKnown
<1>2. Weighted /\ [Next]_vars => Weighted'
  BY DEF Next, Start, PopLeaf, PopFork, Return, vars, Weighted, Inputs
<1>3. Weighted /\ OldGhostHeaviest => HeaviestButForDropped
  <2> SUFFICES ASSUME Weighted, OldGhostHeaviest, phase = "called",
                      NEW latest_blocks \in LatestBlocks,
                      NEW b \in OldGhost(latest_blocks) \ {NoBlock},
                      NEW a \in Chain[b], NEW c \in State, prevblock[c] = prevblock[a]
               PROVE  Score(c) <= Score(a)
                         + WeightOf(Dropped(latest_blocks) \cap Supporters(c))
    BY DEF HeaviestButForDropped
  <2>1. Wins(latest_blocks, a)
    BY DEF OldGhostHeaviest
  <2>2. KeptScore(latest_blocks, c) \in Nat /\ KeptScore(latest_blocks, a) \in Nat
    BY KeptScoreType
  <2>3. KeptScore(latest_blocks, c) <= KeptScore(latest_blocks, a)
    BY <2>1, <2>2 DEF Wins
  <2>4. a \in State
    <3>1. b \in State
      BY DEF OldGhostHeaviest
    <3> QED BY <3>1, TreeFinite DEF Weighted, Inputs, Voted
  <2>5. /\ WeightOf(Dropped(latest_blocks) \cap Supporters(a)) \in Nat
        /\ Score(a) = KeptScore(latest_blocks, a)
                         + WeightOf(Dropped(latest_blocks) \cap Supporters(a))
    BY <2>4, KeptAndDropped
  <2>6. /\ WeightOf(Dropped(latest_blocks) \cap Supporters(c)) \in Nat
        /\ Score(c) = KeptScore(latest_blocks, c)
                         + WeightOf(Dropped(latest_blocks) \cap Supporters(c))
    BY KeptAndDropped
  <2> QED BY <2>2, <2>3, <2>5, <2>6
<1> QED BY <1>1, <1>2, <1>3, OldChoice, PTL DEF Spec
=============================================================================
