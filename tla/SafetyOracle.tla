---------------------------- MODULE SafetyOracle ----------------------------
(***************************************************************************)
(* Block::safety_oracles (src/blockchain.rs): the sets of validators that  *)
(* see each other agree on a block, and weigh more than a threshold.       *)
(*                                                                         *)
(* The validators whose latest honest message contains the block are the   *)
(* nodes of a graph.  Two are neighbours if each finds, among the latest   *)
(* honest messages under its own latest message, one of the other that     *)
(* contains the block.  bron_kerbosch enumerates the maximal cliques.  Its *)
(* recursion is a set of calls, each with its arguments r, p and x: the    *)
(* innermost one, whose r holds the r of all others, is running.  A call   *)
(* reports r or loops over p, in the iteration order of a HashSet.         *)
(***************************************************************************)
EXTENDS Integers, FiniteSetsExt

CONSTANTS
    Validator,
    Views,       \* BOUND: what the validators may see, see below
    Weight,      \* Weights::weight
    threshold    \* safety_oracle_threshold

ASSUME ValidatorAssumption == IsFiniteSet(Validator)

ASSUME ViewsAssumption == Views \subseteq [Validator -> SUBSET Validator]

ASSUME WeightAssumption == Weight \in [Validator -> Nat] /\ threshold \in Nat

VARIABLES
    agreeing,   \* the senders of latest_containing_block
    seen,       \* seen[v]: the senders of the messages that contain the block
                \* among the latest honest ones in the justification of v's
    calls,      \* the calls of bron_kerbosch that have not returned
    cliques,    \* mx_clqs
    oracles,    \* the result
    phase       \* "called", "searching" or "returned"

vars == <<agreeing, seen, calls, cliques, oracles, phase>>

Call == {c \in [r : SUBSET Validator, p : SUBSET Validator, x : SUBSET Validator,
                looping : BOOLEAN] :
            c.r \cap c.p = {} /\ c.r \cap c.x = {} /\ c.p \cap c.x = {}}

-----------------------------------------------------------------------------

\* Mutant: seeing the other agree is enough.
NeighboursSeen(v) == seen[v] \cap agreeing

\* neighbours[v]
Neighbours(v) == {w \in seen[v] \cap agreeing : v \in seen[w]}

Init ==
    /\ agreeing \in SUBSET Validator
    /\ seen \in Views
    /\ calls = {} /\ cliques = {} /\ oracles = {}
    /\ phase = "called"

\* The outermost call, on the validators that are someone's neighbour.
Start ==
    /\ phase = "called"
    /\ calls' = {[r |-> {}, p |-> UNION {Neighbours(v) : v \in agreeing}, x |-> {},
                  looping |-> FALSE]}
    /\ phase' = "searching"
    /\ UNCHANGED <<agreeing, seen, cliques, oracles>>

Running(c) == c \in calls /\ \A d \in calls : d.r \subseteq c.r

\* Nothing can be added to r, and nothing was left out: r is a maximal clique.
Report(c) ==
    /\ Running(c)
    /\ ~c.looping /\ c.p = {} /\ c.x = {}
    /\ cliques' = cliques \cup {c.r}
    /\ calls' = calls \ {c}
    /\ UNCHANGED <<agreeing, seen, oracles, phase>>

\* Mutant: i is not put into x.
ExtendForgets(c, i) ==
    /\ Running(c)
    /\ i \in c.p
    /\ LET p == c.p \ {i} IN
       calls' = (calls \ {c}) \cup
           {[c EXCEPT !.p = p, !.looping = TRUE],
            [r |-> c.r \cup {i}, p |-> p \cap Neighbours(i),
             x |-> c.x \cap Neighbours(i), looping |-> FALSE]}
    /\ UNCHANGED <<agreeing, seen, cliques, oracles, phase>>

\* Mutant: i is not removed from p.
ExtendKeeps(c, i) ==
    /\ Running(c)
    /\ i \in c.p
    /\ calls' = (calls \ {c}) \cup
           {[c EXCEPT !.x = @ \cup {i}, !.looping = TRUE],
            [r |-> c.r \cup {i}, p |-> c.p \cap Neighbours(i),
             x |-> c.x \cap Neighbours(i), looping |-> FALSE]}
    /\ UNCHANGED <<agreeing, seen, cliques, oracles, phase>>

\* One round of the loop: i moves from p to x, and a call for r with i.
Extend(c, i) ==
    /\ Running(c)
    /\ i \in c.p
    /\ LET p == c.p \ {i} IN
       calls' = (calls \ {c}) \cup
           {[c EXCEPT !.p = p, !.x = @ \cup {i}, !.looping = TRUE],
            [r |-> c.r \cup {i}, p |-> p \cap Neighbours(i),
             x |-> c.x \cap Neighbours(i), looping |-> FALSE]}
    /\ UNCHANGED <<agreeing, seen, cliques, oracles, phase>>

\* The loop is over, or there was nothing to loop over.
Leave(c) ==
    /\ Running(c)
    /\ c.p = {} /\ (c.looping \/ c.x # {})
    /\ calls' = calls \ {c}
    /\ UNCHANGED <<agreeing, seen, cliques, oracles, phase>>

WeightOf(K) == MapThenSumSet(LAMBDA v : Weight[v], K)

\* Mutant: the first clique ends the search.
ReturnFirst ==
    /\ phase = "searching" /\ (calls = {} \/ cliques # {})
    /\ oracles' = {K \in cliques : WeightOf(K) > threshold}
    /\ phase' = "returned"
    /\ UNCHANGED <<agreeing, seen, calls, cliques>>

\* The cliques above the threshold.
Return ==
    /\ phase = "searching" /\ calls = {}
    /\ oracles' = {K \in cliques : WeightOf(K) > threshold}
    /\ phase' = "returned"
    /\ UNCHANGED <<agreeing, seen, calls, cliques>>

Next ==
    \/ Start
    \/ \E c \in calls : Report(c)
    \/ \E c \in calls : \E i \in c.p : Extend(c, i)
    \/ \E c \in calls : Leave(c)
    \/ Return

Spec == Init /\ [][Next]_vars

-----------------------------------------------------------------------------
(* Properties *)

TypeOK ==
    /\ agreeing \subseteq Validator
    /\ seen \in [Validator -> SUBSET Validator]
    /\ calls \subseteq Call
    /\ cliques \subseteq SUBSET Validator
    /\ oracles \subseteq cliques
    /\ phase \in {"called", "searching", "returned"}

\* v and w see each other agree.  For v = w: v builds on a message of its own
\* that contains the block.
Agree(v, w) == v \in agreeing /\ w \in agreeing /\ v \in seen[w] /\ w \in seen[v]

\* The nodes: who agrees with nobody, not even with an earlier self, is none.
Node == {v \in Validator : \E w \in Validator : Agree(v, w)}

Clique(K) == K \subseteq Node /\ \A v, w \in K : v # w => Agree(v, w)

Maximal(K) == Clique(K) /\ \A v \in Node \ K : ~Clique(K \cup {v})

\* Whatever the search reports, at any moment, is a maximal clique.
OnlyMaximal == \A K \in cliques : Maximal(K)

\* The search reports all maximal cliques.
AllMaximal == phase = "returned" => \A K \in SUBSET Validator : Maximal(K) => K \in cliques

\* The oracles answer the question that is asked of them: some validators that
\* pairwise see each other agree weigh more than the threshold.
OracleIffClique ==
    phase = "returned" =>
        (oracles # {} <=> \E K \in SUBSET Validator : Clique(K) /\ WeightOf(K) > threshold)
=============================================================================
