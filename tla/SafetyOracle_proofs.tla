------------------------- MODULE SafetyOracle_proofs -------------------------
(***************************************************************************)
(* The recursion of safety_oracles enumerates exactly the maximal cliques, *)
(* for every graph and in every iteration order, and so finds an oracle    *)
(* exactly if there is one.                                                *)
(***************************************************************************)
EXTENDS SafetyOracle, Induction_proofs

\* The validators outside K that agree with all of K.
Common(K) == {v \in Node \ K : \A w \in K : Agree(v, w)}

\* A call works on a clique; what can still be added and what was left out
\* are all that agree with it.
CallsInv == \A c \in calls : Clique(c.r) /\ c.p \cup c.x = Common(c.r)

\* The call c, or one it will make, reports K.  A loop does not report its own r.
Covers(c, K) == c.r \subseteq K /\ K \subseteq c.r \cup c.p /\ (c.looping => K # c.r)

\* No maximal clique is out of sight of the search.
CoverInv ==
    phase # "called" =>
        \A K \in SUBSET Validator : Maximal(K) => K \in cliques \/ \E c \in calls : Covers(c, K)

IInv ==
    /\ TypeOK
    /\ CallsInv
    /\ CoverInv
    /\ OnlyMaximal
    /\ phase # "searching" => calls = {}

-----------------------------------------------------------------------------
(* The graph *)

\* The neighbours of a validator are those it agrees with.
LEMMA NeighboursAgree ==
    ASSUME TypeOK, NEW v \in agreeing
    PROVE  Neighbours(v) = {w \in Validator : Agree(w, v)}
BY DEF Neighbours, Agree, TypeOK

\* The outermost call has all nodes before it.
LEMMA NodesAreNeighbours ==
    ASSUME TypeOK
    PROVE  UNION {Neighbours(v) : v \in agreeing} = Node
<1>1. ASSUME NEW v \in agreeing, NEW w \in Neighbours(v) PROVE w \in Node
  BY <1>1, NeighboursAgree DEF Node, TypeOK
<1>2. ASSUME NEW w \in Node PROVE \E v \in agreeing : w \in Neighbours(v)
  <2>1. PICK v \in Validator : Agree(w, v)
    BY DEF Node
  <2>2. v \in agreeing /\ w \in Validator
    BY <2>1 DEF Agree, Node
  <2> QED BY <2>1, <2>2, NeighboursAgree
<1> QED BY <1>1, <1>2

\* A clique to which a common neighbour is added is a clique, and what is common
\* to it is what was common before and agrees with the new one.
LEMMA CliqueGrows ==
    ASSUME NEW K, Clique(K), NEW i \in Common(K)
    PROVE  /\ Clique(K \cup {i})
           /\ Common(K \cup {i}) = {v \in Common(K) \ {i} : Agree(v, i)}
BY DEF Clique, Common, Agree

\* A clique is maximal if nothing is common to it, and not if something is.
LEMMA MaximalIffNothingCommon ==
    ASSUME NEW K, Clique(K)
    PROVE  Maximal(K) <=> Common(K) = {}
<1>1. ASSUME NEW v \in Common(K) PROVE ~Maximal(K)
  BY CliqueGrows DEF Maximal, Common
<1>2. ASSUME NEW v \in Node \ K, Clique(K \cup {v}) PROVE v \in Common(K)
  BY <1>2 DEF Clique, Common
<1> QED BY <1>1, <1>2 DEF Maximal

-----------------------------------------------------------------------------
(* The steps *)

\* The steps of the search leave the graph alone.
SameGraph == UNCHANGED <<agreeing, seen>>

\* On the same graph the same sets are cliques.
LEMMA SameGraphSameCliques ==
    ASSUME SameGraph
    PROVE  /\ Node' = Node
           /\ \A K : Clique(K)' <=> Clique(K)
           /\ \A K : Maximal(K)' <=> Maximal(K)
           /\ \A K : Common(K)' = Common(K)
BY DEF SameGraph, Node, Clique, Maximal, Common, Agree

\* The outermost call covers all cliques.
LEMMA StartInv ==
    ASSUME IInv, Start
    PROVE  IInv'
<1> DEFINE c0 == [r |-> {}, p |-> Node, x |-> {}, looping |-> FALSE]
<1>1. SameGraph /\ UNCHANGED <<cliques, oracles>> /\ phase' = "searching"
  BY DEF Start, SameGraph
<1>2. calls' = {c0}
  BY NodesAreNeighbours DEF Start, IInv
<1>3. Node \subseteq Validator
  BY DEF Node
<1>4. TypeOK'
  BY <1>1, <1>2, <1>3 DEF IInv, TypeOK, Call, SameGraph
<1>5. Clique({}) /\ Common({}) = Node
  BY DEF Clique, Common
<1>6. CallsInv'
  BY <1>1, <1>2, <1>5, SameGraphSameCliques DEF CallsInv
<1>7. ASSUME NEW K \in SUBSET Validator, Maximal(K) PROVE Covers(c0, K)
  BY <1>7 DEF Maximal, Clique, Covers
<1>8. CoverInv'
  BY <1>1, <1>2, <1>7, SameGraphSameCliques DEF CoverInv, Covers
<1>9. OnlyMaximal'
  BY <1>1, SameGraphSameCliques DEF IInv, OnlyMaximal
<1> QED BY <1>1, <1>4, <1>6, <1>8, <1>9 DEF IInv

\* What is reported is maximal, and is all the call covered.
LEMMA ReportInv ==
    ASSUME IInv, NEW c \in calls, Report(c)
    PROVE  IInv'
<1>1. SameGraph /\ UNCHANGED <<oracles, phase>>
  BY DEF Report, SameGraph
<1>2. cliques' = cliques \cup {c.r} /\ calls' = calls \ {c}
  BY DEF Report
<1>3. c \in Call /\ Clique(c.r) /\ Common(c.r) = {}
  BY DEF IInv, TypeOK, CallsInv, Report
<1>4. Maximal(c.r)
  BY <1>3, MaximalIffNothingCommon
<1>5. TypeOK'
  BY <1>1, <1>2, <1>3 DEF IInv, TypeOK, SameGraph, Call
<1>6. CallsInv'
  BY <1>1, <1>2, SameGraphSameCliques DEF IInv, CallsInv
<1>7. OnlyMaximal'
  BY <1>1, <1>2, <1>4, SameGraphSameCliques DEF IInv, OnlyMaximal
<1>8. ASSUME NEW K, Covers(c, K) PROVE K = c.r
  BY <1>8 DEF Covers, Report
<1>9. CoverInv'
  BY <1>1, <1>2, <1>8, SameGraphSameCliques DEF IInv, CoverInv, Covers
<1> QED BY <1>1, <1>2, <1>5, <1>6, <1>7, <1>9 DEF IInv

\* A call that ends without a report covered no maximal clique.
LEMMA LeaveInv ==
    ASSUME IInv, NEW c \in calls, Leave(c)
    PROVE  IInv'
<1>1. SameGraph /\ UNCHANGED <<cliques, oracles, phase>> /\ calls' = calls \ {c}
  BY DEF Leave, SameGraph
<1>2. Clique(c.r) /\ c.p = {} /\ c.x = Common(c.r) /\ (c.looping \/ c.x # {})
  BY DEF IInv, CallsInv, Leave
<1>3. ASSUME NEW K, Covers(c, K), Maximal(K) PROVE FALSE
  BY <1>2, <1>3, MaximalIffNothingCommon DEF Covers
<1>4. TypeOK'
  BY <1>1 DEF IInv, TypeOK, SameGraph
<1>5. CallsInv' /\ OnlyMaximal'
  BY <1>1, SameGraphSameCliques DEF IInv, CallsInv, OnlyMaximal
<1>6. CoverInv'
  BY <1>1, <1>3, SameGraphSameCliques DEF IInv, CoverInv, Covers
<1> QED BY <1>1, <1>4, <1>5, <1>6 DEF IInv

\* The loop and the call it makes share what the loop covered: the cliques with
\* i and those without.
LEMMA ExtendInv ==
    ASSUME IInv, NEW c \in calls, NEW i \in c.p, Extend(c, i)
    PROVE  IInv'
<1> DEFINE rest == [c EXCEPT !.p = c.p \ {i}, !.x = c.x \cup {i}, !.looping = TRUE]
           sub  == [r |-> c.r \cup {i}, p |-> (c.p \ {i}) \cap Neighbours(i),
                    x |-> c.x \cap Neighbours(i), looping |-> FALSE]
<1>1. SameGraph /\ UNCHANGED <<cliques, oracles, phase>>
  BY DEF Extend, SameGraph
<1>2. calls' = (calls \ {c}) \cup {rest, sub}
  BY DEF Extend
<1>3. c \in Call /\ Clique(c.r) /\ c.p \cup c.x = Common(c.r) /\ TypeOK
  BY DEF IInv, TypeOK, CallsInv
<1>4. i \in Common(c.r) /\ i \notin c.r /\ i \notin c.x /\ i \in Validator
  BY <1>3 DEF Call
<1>5. i \in agreeing
  BY <1>4 DEF Common, Node, Agree
<1>6. Neighbours(i) = {w \in Validator : Agree(w, i)}
  BY <1>3, <1>5, NeighboursAgree
<1>7. /\ rest.r = c.r /\ rest.p = c.p \ {i} /\ rest.x = c.x \cup {i} /\ rest.looping
      /\ rest \in Call
  BY <1>3, <1>4 DEF Call
<1>8. sub \in Call
  BY <1>3, <1>4, <1>6 DEF Call
<1>9. TypeOK'
  BY <1>1, <1>2, <1>3, <1>7, <1>8 DEF TypeOK, SameGraph
<1>10. rest.p \cup rest.x = Common(rest.r)
  BY <1>3, <1>4, <1>7
<1>11. Clique(sub.r) /\ sub.p \cup sub.x = Common(sub.r)
  <2>1. Clique(c.r \cup {i}) /\ Common(c.r \cup {i}) = {v \in Common(c.r) \ {i} : Agree(v, i)}
    BY <1>3, <1>4, CliqueGrows
  <2>2. sub.p \cup sub.x = (Common(c.r) \ {i}) \cap Neighbours(i)
    BY <1>3, <1>4
  <2>3. Common(c.r) \subseteq Validator
    BY DEF Common, Node
  <2> QED BY <2>1, <2>2, <2>3, <1>6
<1>12. CallsInv'
  BY <1>1, <1>2, <1>3, <1>7, <1>10, <1>11, SameGraphSameCliques DEF IInv, CallsInv
<1>13. OnlyMaximal'
  BY <1>1, SameGraphSameCliques DEF IInv, OnlyMaximal
<1>14. ASSUME NEW K \in SUBSET Validator, Maximal(K), Covers(c, K)
       PROVE  Covers(rest, K) \/ Covers(sub, K)
  <2>1. CASE i \in K
    <3>1. \A v \in K \ {i} : Agree(v, i)
      BY <1>14, <2>1 DEF Maximal, Clique
    <3>2. K \subseteq sub.r \cup sub.p
      BY <1>6, <1>14, <3>1 DEF Covers
    <3> QED BY <1>14, <2>1, <3>2 DEF Covers
  <2>2. CASE i \notin K
    <3>1. K # c.r
      BY <1>3, <1>4, <1>14, MaximalIffNothingCommon
    <3> QED BY <1>7, <1>14, <2>2, <3>1 DEF Covers
  <2> QED BY <2>1, <2>2
<1>15. CoverInv'
  <2> SUFFICES ASSUME phase' # "called", NEW K \in SUBSET Validator, Maximal(K)
               PROVE  K \in cliques' \/ \E d \in calls' : Covers(d, K)
    BY <1>1, SameGraphSameCliques DEF CoverInv, Covers
  <2>1. K \in cliques \/ \E d \in calls : Covers(d, K)
    BY <1>1 DEF IInv, CoverInv
  <2> QED BY <1>1, <1>2, <1>14, <2>1
<1> QED BY <1>1, <1>2, <1>9, <1>12, <1>13, <1>15 DEF IInv

\* Returning does not touch the search.
LEMMA ReturnInv ==
    ASSUME IInv, Return
    PROVE  IInv'
<1>1. SameGraph /\ UNCHANGED <<calls, cliques>> /\ calls = {} /\ phase' = "returned"
  BY DEF Return, SameGraph
<1>2. phase # "called" /\ oracles' \subseteq cliques
  BY DEF Return
<1>3. TypeOK'
  BY <1>1, <1>2 DEF IInv, TypeOK, SameGraph
<1>4. CallsInv' /\ OnlyMaximal' /\ CoverInv'
  BY <1>1, <1>2, SameGraphSameCliques DEF IInv, CallsInv, OnlyMaximal, CoverInv, Covers
<1> QED BY <1>1, <1>3, <1>4 DEF IInv

-----------------------------------------------------------------------------

\* The invariant holds in every run.
LEMMA SearchInv == Spec => []IInv
<1>1. Init => IInv
  BY ViewsAssumption DEF Init, IInv, TypeOK, CallsInv, CoverInv, OnlyMaximal
<1>2. IInv /\ [Next]_vars => IInv'
  <2> SUFFICES ASSUME IInv, [Next]_vars PROVE IInv'
    OBVIOUS
  <2>1. CASE UNCHANGED vars
    <3>1. SameGraph /\ UNCHANGED <<calls, cliques, oracles, phase>>
      BY <2>1 DEF vars, SameGraph
    <3> QED BY <3>1, SameGraphSameCliques
            DEF IInv, TypeOK, CallsInv, CoverInv, OnlyMaximal, Covers, SameGraph
  <2> QED BY <2>1, StartInv, ReportInv, ExtendInv, LeaveInv, ReturnInv DEF Next
<1> QED BY <1>1, <1>2, PTL DEF Spec

\* What the search of bron_kerbosch keeps has its types, in every run.
THEOREM SearchTypes == Spec => []TypeOK
<1>1. IInv => TypeOK
  BY DEF IInv
<1> QED BY <1>1, SearchInv, PTL

\* bron_kerbosch reports maximal cliques only, at every moment, for every set of
\* validators, every agreement between them and every iteration order.
THEOREM Cliques == Spec => []OnlyMaximal
<1>1. IInv => OnlyMaximal
  BY DEF IInv
<1> QED BY <1>1, SearchInv, PTL

\* And it reports all of them: when it returns, no maximal clique is missing.
THEOREM AllCliques == Spec => []AllMaximal
<1>1. IInv => AllMaximal
  BY DEF IInv, CoverInv, AllMaximal
<1> QED BY <1>1, SearchInv, PTL

-----------------------------------------------------------------------------
(* The oracles *)

\* A clique of finitely many validators is part of a maximal one: of the cliques
\* that contain it, take one whose complement holds no other complement.
LEMMA CliqueExtends ==
    ASSUME TypeOK, NEW K \in SUBSET Validator, Clique(K)
    PROVE  \E L \in SUBSET Validator : K \subseteq L /\ Maximal(L)
<1> DEFINE Above == {L \in SUBSET Validator : K \subseteq L /\ Clique(L)}
           T == {Validator \ L : L \in Above}
           R == StrictSubsetOrdering(Validator)
<1>1. IsWellFoundedOn(R, SUBSET Validator)
  BY ValidatorAssumption, FS_FiniteSubsetsOfFinite, FS_StrictSubsetOrderingWellFounded
<1>2. T \subseteq SUBSET Validator /\ T # {}
  OBVIOUS
<1>3. \E C \in T : \A D \in T : <<D, C>> \notin R
  <2> HIDE DEF T, R
  <2> QED BY <1>1, <1>2, WFMin
<1>4. PICK L \in Above : \A D \in T : <<D, Validator \ L>> \notin R
  BY <1>3
<1>5. ASSUME NEW v \in Node \ L, Clique(L \cup {v}) PROVE FALSE
  <2>1. v \in Validator /\ L \cup {v} \in Above
    BY <1>4, <1>5 DEF Node
  <2>2. Validator \ (L \cup {v}) \in T
    BY <2>1
  <2>3. <<Validator \ (L \cup {v}), Validator \ L>> \in R
    BY <1>5, <2>1 DEF StrictSubsetOrdering
  <2> QED BY <1>4, <2>2, <2>3
<1>6. Maximal(L)
  BY <1>4, <1>5 DEF Maximal
<1> QED BY <1>4, <1>6

\* What is returned are the reported cliques above the threshold.
Answered == phase = "returned" => oracles = {K \in cliques : WeightOf(K) > threshold}

\* Only Return gives an answer, and nothing comes after it.
LEMMA NextAnswered ==
    ASSUME IInv, Answered, [Next]_vars
    PROVE  Answered'
<1>1. CASE Start
  BY <1>1 DEF Start, Answered
<1>2. ASSUME NEW c \in calls, Report(c) \/ Leave(c) \/ \E i \in c.p : Extend(c, i)
      PROVE  Answered'
  <2>1. phase = "searching" /\ phase' = phase
    BY <1>2 DEF IInv, Report, Leave, Extend
  <2> QED BY <2>1 DEF Answered
<1>3. CASE Return
  BY <1>3 DEF Return, Answered
<1>4. CASE UNCHANGED vars
  BY <1>4 DEF vars, Answered
<1> QED BY <1>1, <1>2, <1>3, <1>4 DEF Next

\* safety_oracles is not empty exactly if some validators that pairwise see each
\* other agree weigh more than the threshold, maximal clique or not.
THEOREM OracleAnswers == Spec => []OracleIffClique
<1>1. Init => Answered
  BY DEF Init, Answered
<1>2. IInv /\ Answered => OracleIffClique
  <2> SUFFICES ASSUME IInv, Answered, phase = "returned"
               PROVE  oracles # {} <=>
                        \E K \in SUBSET Validator : Clique(K) /\ WeightOf(K) > threshold
    BY DEF OracleIffClique
  <2>1. oracles = {K \in cliques : WeightOf(K) > threshold}
    BY DEF Answered
  <2>2. ASSUME NEW K \in oracles
        PROVE  K \in SUBSET Validator /\ Clique(K) /\ WeightOf(K) > threshold
    BY <2>1 DEF IInv, TypeOK, OnlyMaximal, Maximal
  <2>3. ASSUME NEW K \in SUBSET Validator, Clique(K), WeightOf(K) > threshold
        PROVE  oracles # {}
    <3>1. PICK L \in SUBSET Validator : K \subseteq L /\ Maximal(L)
      BY <2>3, CliqueExtends DEF IInv
    <3>2. L \in cliques
      BY <3>1 DEF IInv, CoverInv
    <3>3. WeightOf(L) > threshold
      <4>1. /\ WeightOf(K) \in Nat /\ WeightOf(L) \in Nat
            /\ WeightOf(K) <= WeightOf(L)
        <5>1. IsFiniteSet(K) /\ IsFiniteSet(L)
          BY ValidatorAssumption, FS_Subset
        <5>2. Weighs(Weight, K) /\ Weighs(Weight, L)
          BY <5>1, WeightAssumption DEF Weighs
        <5>3. WeightOf(K) = SumOf(Weight, K) /\ WeightOf(L) = SumOf(Weight, L)
          BY DEF WeightOf, SumOf
        <5>4. SumOf(Weight, K) \in Nat /\ SumOf(Weight, L) \in Nat
          BY <5>2, SumIsNat
        <5>5. SumOf(Weight, K) <= SumOf(Weight, L)
          BY <3>1, <5>2, SumGrows
        <5> QED BY <5>3, <5>4, <5>5
      <4> QED BY <2>3, <4>1, WeightAssumption
    <3> QED BY <2>1, <3>2, <3>3
  <2> QED BY <2>2, <2>3
<1> QED BY <1>1, <1>2, NextAnswered, SearchInv, PTL DEF Spec
=============================================================================
