----------------------- MODULE ParallelDepends_proofs -----------------------
(***************************************************************************)
(* The parallel search computes the dependency relation, for every graph,  *)
(* and equivocates_indirect finds the equivocations at matching levels.    *)
(***************************************************************************)
EXTENDS IndirectEquivocation, Messages_proofs, Induction_proofs

\* The types hold in every run.
LEMMA InitType == Init => TypeOK
BY JustificationAssumption DEF Init, TypeOK, None, Spawned

\* Every step keeps the types.
LEMMA NextType ==
    ASSUME TypeOK, [Next]_vars
    PROVE  TypeOK'
<1>1. ASSUME NEW m \in Message, Filter(m) PROVE TypeOK'
  BY <1>1 DEF Filter, TypeOK, Less
<1>2. ASSUME NEW m \in Message, Enter(m) PROVE TypeOK'
  BY <1>2 DEF Enter, TypeOK, Less, Spawned
<1>3. ASSUME NEW m \in Message, Cancel(m) PROVE TypeOK'
  BY <1>3 DEF Cancel, TypeOK, Less
<1>4. CASE Return
  BY <1>4 DEF Return, TypeOK
<1>5. CASE UNCHANGED vars
  BY <1>5 DEF vars, TypeOK
<1> QED BY <1>1, <1>2, <1>3, <1>4, <1>5 DEF Next

-----------------------------------------------------------------------------

\* The search stays under the root.
UnderRoot ==
    \A m \in Message : Covered(m) => Depends(root, m)

\* What is found is there.
FoundIsTrue == found => Depends(root, target)

\* What was returned is what was found, and nothing is left to do then.
ResultIsFound ==
    /\ result = "depends" => found
    /\ result = "independent" => ~found /\ filtering = None /\ entering = None

IInv == TypeOK /\ Explored /\ UnderRoot /\ FoundIsTrue /\ ResultIsFound

\* A search that has nothing left to do and found nothing has entered all that
\* is under the root.
LEMMA NothingLeft ==
    ASSUME TypeOK, Explored, ~found, filtering = None, entering = None
    PROVE  ~Depends(root, target)
<1> DEFINE S == visited \ {target}
<1>1. \A m \in Message : Covered(m) => m \in visited
  BY DEF Covered, None
<1>2. \A m \in visited \cup {root} : justification[m] \subseteq S
  BY <1>1, JustificationAssumption DEF Explored, TypeOK
<1>3. S \in SUBSET Message /\ justification[root] \subseteq S /\ Closed(S)
  BY <1>2 DEF Closed, TypeOK
<1>4. Past[root] = {n \in Message : \A T \in SUBSET Message :
                      justification[root] \subseteq T /\ Closed(T) => n \in T}
  BY DEF Past, TypeOK
<1>5. Past[root] \subseteq S
  BY <1>3, <1>4
<1> QED BY <1>5 DEF Depends

\* A call starts with its root's justification covered.
LEMMA InitInv == Init => IInv
<1> SUFFICES ASSUME Init PROVE IInv
  OBVIOUS
<1>1. TypeOK
  BY InitType
<1>2. \A m \in Message : Covered(m) => m \in justification[root]
  BY DEF Init, Covered, None, Spawned
<1>3. UnderRoot
  BY <1>2, DependsRecursion DEF UnderRoot, Init
<1>4. Explored
  <2> SUFFICES ASSUME ~found, NEW n \in justification[root]
               PROVE  target \notin justification[root] /\ Covered(n)
    BY DEF Explored, Init
  <2>1. target \notin justification[root] /\ n \in Message
    BY JustificationAssumption DEF Init
  <2>2. filtering = [k \in Message |-> 0 + (IF k \in justification[root] THEN 1 ELSE 0)]
    BY <2>1 DEF Init, Spawned, None
  <2>3. filtering[n] = 1
    BY <2>1, <2>2
  <2> QED BY <2>1, <2>3 DEF Covered
<1>5. FoundIsTrue
  BY DependsRecursion DEF Init, FoundIsTrue
<1> QED BY <1>1, <1>3, <1>4, <1>5 DEF IInv, ResultIsFound, Init

\* The filter drops a message only if a branch has entered it.
LEMMA FilterInv ==
    ASSUME IInv, NEW m \in Message, Filter(m)
    PROVE  IInv'
<1>1. TypeOK' /\ TypeOK
  BY NextType DEF Next, IInv
<1>2. \A n \in Message : Covered(n) <=> Covered(n)'
  BY <1>1 DEF Filter, Covered, Less, TypeOK
<1>3. UNCHANGED <<root, target, visited, found, result>>
  BY DEF Filter
<1>4. Explored'
  BY <1>1, <1>2, <1>3, JustificationAssumption DEF IInv, Explored, TypeOK
<1>5. UnderRoot' /\ FoundIsTrue'
  BY <1>2, <1>3 DEF IInv, UnderRoot, FoundIsTrue
<1>6. ResultIsFound'
  BY <1>1, <1>3 DEF IInv, ResultIsFound, Filter, None, TypeOK
<1> QED BY <1>1, <1>4, <1>5, <1>6 DEF IInv

\* Entering a message covers its justification.
LEMMA EnterInv ==
    ASSUME IInv, NEW m \in Message, Enter(m)
    PROVE  IInv'
<1>1. TypeOK' /\ TypeOK
  BY NextType DEF Next, IInv
<1>2. /\ visited' = visited \cup {m}
      /\ UNCHANGED <<root, target, result>>
      /\ found' = (found \/ target \in justification[m])
  BY DEF Enter
<1>3. \A n \in Message : Covered(n) => Covered(n)'
  <2> SUFFICES ASSUME NEW n \in Message, Covered(n), n # m PROVE Covered(n)'
    BY <1>2 DEF Covered
  <2>1. entering'[n] = entering[n]
    BY <1>1 DEF Enter, Less, TypeOK
  <2>2. filtering'[n] >= filtering[n]
    <3>1. CASE target \in justification[m]
      BY <1>1, <3>1 DEF Enter, TypeOK
    <3>2. CASE target \notin justification[m]
      <4>1. filtering' = Spawned(filtering, m)
        BY <3>2 DEF Enter
      <4>2. filtering'[n] = filtering[n] + (IF n \in justification[m] THEN 1 ELSE 0)
        BY <4>1 DEF Spawned
      <4>3. filtering[n] \in Nat
        BY <1>1 DEF TypeOK
      <4> QED BY <4>2, <4>3
    <3> QED BY <3>1, <3>2
  <2>3. filtering[n] \in Nat /\ filtering'[n] \in Nat
    BY <1>1 DEF TypeOK
  <2> QED BY <1>2, <2>1, <2>2, <2>3 DEF Covered
<1>4. \A n \in Message : Covered(n)' => Covered(n) \/ n \in justification[m]
  BY <1>1 DEF Enter, Covered, Less, Spawned, TypeOK
<1>5. ~found' => \A n \in justification[m] : Covered(n)'
  <2> SUFFICES ASSUME ~found', NEW n \in justification[m] PROVE Covered(n)'
    OBVIOUS
  <2>1. n \in Message /\ target \notin justification[m]
    BY <1>2, JustificationAssumption
  <2>2. filtering' = Spawned(filtering, m)
    BY <2>1 DEF Enter
  <2>3. filtering'[n] = filtering[n] + 1
    BY <2>1, <2>2 DEF Spawned
  <2>4. filtering[n] \in Nat
    BY <1>1, <2>1 DEF TypeOK
  <2> QED BY <2>3, <2>4 DEF Covered
<1>6. Explored'
  <2> SUFFICES ASSUME ~found', NEW k \in visited' \cup {root'}
               PROVE  /\ target' \notin justification[k]
                      /\ \A n \in justification[k] : Covered(n)'
    BY DEF Explored
  <2>1. CASE k = m
    BY <1>2, <1>5, <2>1
  <2>2. CASE k # m
    <3>1. k \in visited \cup {root} /\ k \in Message /\ ~found
      BY <1>1, <1>2, <2>2 DEF TypeOK
    <3> QED BY <1>2, <1>3, <3>1, JustificationAssumption DEF IInv, Explored
  <2> QED BY <2>1, <2>2
<1>7. Depends(root, m)
  BY DEF IInv, UnderRoot, Enter, Covered
<1>8. \A n \in justification[m] : n \in Message /\ Depends(root, n)
  <2> SUFFICES ASSUME NEW n \in justification[m] PROVE n \in Message /\ Depends(root, n)
    OBVIOUS
  <2>1. n \in Message /\ Depends(m, n)
    BY DependsRecursion, JustificationAssumption
  <2> QED BY <1>1, <1>7, <2>1, DependsTransitive DEF TypeOK
<1>9. UnderRoot' /\ FoundIsTrue'
  BY <1>2, <1>4, <1>8 DEF IInv, UnderRoot, FoundIsTrue
<1>10. ResultIsFound'
  BY <1>1, <1>2 DEF IInv, ResultIsFound, Enter, None, TypeOK
<1> QED BY <1>1, <1>6, <1>9, <1>10 DEF IInv

\* A branch is cancelled only after the target was found.
LEMMA CancelInv ==
    ASSUME IInv, NEW m \in Message, Cancel(m)
    PROVE  IInv'
<1>1. TypeOK' /\ TypeOK
  BY NextType DEF Next, IInv
<1>2. found /\ UNCHANGED <<root, target, visited, entering, found, result>>
  BY DEF Cancel
<1>3. \A n \in Message : Covered(n)' => Covered(n)
  BY <1>1 DEF Cancel, Covered, Less, TypeOK
<1> QED BY <1>1, <1>2, <1>3
        DEF IInv, Explored, UnderRoot, FoundIsTrue, ResultIsFound

\* Returning changes the result only.
LEMMA ReturnInv ==
    ASSUME IInv, Return
    PROVE  IInv'
<1>1. TypeOK'
  BY NextType DEF Next, IInv
<1> QED BY <1>1 DEF Return, IInv, Explored, Covered, UnderRoot, FoundIsTrue, ResultIsFound

\* The invariant holds in every run.
LEMMA SearchInv == Spec => []IInv
<1>1. IInv /\ [Next]_vars => IInv'
  <2> SUFFICES ASSUME IInv, [Next]_vars PROVE IInv'
    OBVIOUS
  <2>1. CASE UNCHANGED vars
    BY <2>1, NextType
       DEF vars, IInv, Explored, Covered, UnderRoot, FoundIsTrue, ResultIsFound
  <2> QED BY <2>1, FilterInv, EnterInv, CancelInv, ReturnInv DEF Next
<1> QED BY <1>1, InitInv, PTL DEF Spec

\* The types of the search hold in every run.
THEOREM SearchTypes == Spec => []TypeOK
<1>1. IInv => TypeOK
  BY DEF IInv
<1> QED BY <1>1, SearchInv, PTL

\* Until the target is found the branches together drop nothing, whichever of
\* them entered a message first and whichever finds it visited.
THEOREM NothingDropped == Spec => []Explored
<1>1. IInv => Explored
  BY DEF IInv
<1> QED BY <1>1, SearchInv, PTL

\* Message::depends returns the dependency relation, for every message graph and
\* every interleaving of its branches.
THEOREM Correctness == Spec => []Correct
<1>1. IInv => Correct
  BY NothingLeft DEF IInv, Correct, FoundIsTrue, ResultIsFound
<1> QED BY <1>1, SearchInv, PTL

-----------------------------------------------------------------------------
(* equivocates_indirect *)

\* There are k justifications on some way from m down to n.
Way(k, m, n) ==
    \E p \in [0 .. k -> Message] :
        p[0] = m /\ p[k] = n /\ \A i \in 1 .. k : p[i] \in justification[p[i - 1]]

\* A way of one more step starts with a message of the justification.
LEMMA WayOn ==
    ASSUME NEW k \in Nat, NEW m \in Message, NEW n \in Message
    PROVE  Way(k + 1, m, n) <=> \E z \in justification[m] : Way(k, z, n)
<1>1. ASSUME Way(k + 1, m, n) PROVE \E z \in justification[m] : Way(k, z, n)
  <2>1. PICK p \in [0 .. k + 1 -> Message] :
           /\ p[0] = m /\ p[k + 1] = n
           /\ \A i \in 1 .. k + 1 : p[i] \in justification[p[i - 1]]
    BY <1>1 DEF Way
  <2> DEFINE q == [i \in 0 .. k |-> p[i + 1]]
  <2>2. q \in [0 .. k -> Message] /\ q[0] = p[1] /\ q[k] = n
    BY <2>1
  <2>3. ASSUME NEW i \in 1 .. k PROVE q[i] \in justification[q[i - 1]]
    <3>1. q[i] = p[i + 1] /\ q[i - 1] = p[(i + 1) - 1] /\ i + 1 \in 1 .. k + 1
      OBVIOUS
    <3> QED BY <2>1, <3>1
  <2>4. p[1] \in justification[m]
    <3>1. 1 \in 1 .. k + 1 /\ 1 - 1 = 0
      OBVIOUS
    <3> QED BY <2>1, <3>1
  <2> HIDE DEF q
  <2> QED BY <2>2, <2>3, <2>4 DEF Way
<1>2. ASSUME NEW z \in justification[m], Way(k, z, n) PROVE Way(k + 1, m, n)
  <2>1. PICK p \in [0 .. k -> Message] :
           /\ p[0] = z /\ p[k] = n
           /\ \A i \in 1 .. k : p[i] \in justification[p[i - 1]]
    BY <1>2 DEF Way
  <2> DEFINE q == [i \in 0 .. k + 1 |-> IF i = 0 THEN m ELSE p[i - 1]]
  <2>2. q \in [0 .. k + 1 -> Message] /\ q[0] = m /\ q[k + 1] = n
    BY <2>1
  <2>3. ASSUME NEW i \in 1 .. k + 1 PROVE q[i] \in justification[q[i - 1]]
    <3>1. CASE i = 1
      BY <1>2, <2>1, <3>1
    <3>2. CASE i # 1
      <4>1. i - 1 \in 1 .. k /\ q[i] = p[i - 1] /\ q[i - 1] = p[(i - 1) - 1]
        BY <3>2
      <4> QED BY <2>1, <4>1
    <3> QED BY <3>1, <3>2
  <2> HIDE DEF q
  <2> QED BY <2>2, <2>3 DEF Way
<1> QED BY <1>1, <1>2

\* The levels satisfy their recursion.
LEMMA Levels ==
    ASSUME NEW m \in Message
    PROVE  /\ Level[0][m] = {m}
           /\ \A k \in 1 .. Cardinality(Message) :
                 Level[k][m] = UNION {Level[k - 1][n] : n \in justification[m]}
<1> DEFINE N == Cardinality(Message)
           Falls(f) == f = [k \in 0 .. N |-> [x \in Message |->
                               IF k = 0 THEN {x}
                               ELSE UNION {f[k - 1][n] : n \in justification[x]}]]
           g == [k \in 0 .. N |-> [x \in Message |-> {n \in Message : Way(k, x, n)}]]
<1>1. N \in Nat
  BY MessageAssumption, FS_CardinalityType
<1> HIDE DEF N
<1>2. \A x \in Message : justification[x] \subseteq Message
  BY JustificationAssumption
<1>3. ASSUME NEW x \in Message PROVE g[0][x] = {x}
  <2>1. ASSUME NEW n \in Message PROVE Way(0, x, n) <=> n = x
    <3>1. Way(0, x, x)
      <4> DEFINE p == [i \in 0 .. 0 |-> x]
      <4>1. p \in [0 .. 0 -> Message] /\ p[0] = x
        OBVIOUS
      <4> HIDE DEF p
      <4> QED BY <4>1 DEF Way
    <3> QED BY <3>1 DEF Way
  <2>2. g[0][x] = {n \in Message : Way(0, x, n)}
    BY <1>1
  <2> QED BY <2>1, <2>2
<1>4. ASSUME NEW k \in 1 .. N, NEW x \in Message
      PROVE  g[k][x] = UNION {g[k - 1][n] : n \in justification[x]}
  <2>1. k - 1 \in Nat /\ k - 1 \in 0 .. N /\ k \in 0 .. N /\ (k - 1) + 1 = k
    BY <1>1
  <2>2. ASSUME NEW n \in Message
        PROVE  Way(k, x, n) <=> \E z \in justification[x] : Way(k - 1, z, n)
    BY <2>1, WayOn
  <2>3. g[k][x] = {n \in Message : Way(k, x, n)}
        /\ \A z \in justification[x] : g[k - 1][z] = {n \in Message : Way(k - 1, z, n)}
    BY <1>2, <2>1
  <2> HIDE DEF g
  <2> QED BY <1>2, <2>2, <2>3
<1>5. Falls(g)
  <2> DEFINE F(k, x) == IF k = 0 THEN {x} ELSE UNION {g[k - 1][n] : n \in justification[x]}
  <2>1. ASSUME NEW k \in 0 .. N, NEW x \in Message PROVE g[k][x] = F(k, x)
    <3>1. k = 0 \/ k \in 1 .. N
      BY <1>1
    <3> HIDE DEF g
    <3> QED BY <1>3, <1>4, <3>1
  <2>2. ASSUME NEW k \in 0 .. N PROVE g[k] = [x \in Message |-> F(k, x)]
    <3>1. g[k] = [x \in Message |-> g[k][x]]
      OBVIOUS
    <3> HIDE DEF g, F
    <3> QED BY <2>1, <3>1
  <2>3. g = [k \in 0 .. N |-> g[k]]
    OBVIOUS
  <2>4. g = [k \in 0 .. N |-> [x \in Message |-> F(k, x)]]
    <3> HIDE DEF g, F
    <3> QED BY <2>2, <2>3
  <2> HIDE DEF g
  <2> QED BY <2>4
<1>6. Level = CHOOSE f : Falls(f)
  BY DEF Level, N
<1>7. Falls(Level)
  <2> HIDE DEF Falls
  <2> QED BY <1>5, <1>6
<1>8. Level[0][m] = {m}
  BY <1>1, <1>7
<1>9. ASSUME NEW k \in 1 .. N
      PROVE  Level[k][m] = UNION {Level[k - 1][n] : n \in justification[m]}
  <2>1. k \in 0 .. N /\ k # 0
    BY <1>1
  <2>2. Level[k] = [x \in Message |-> UNION {Level[k - 1][n] : n \in justification[x]}]
    <3>1. Level[k] = [x \in Message |-> IF k = 0 THEN {x}
                                        ELSE UNION {Level[k - 1][n] : n \in justification[x]}]
      BY <1>7, <2>1
    <3> QED BY <2>1, <3>1
  <2> QED BY <2>2
<1> QED BY <1>8, <1>9 DEF N

\* How many messages are under m.
Depth(m) == Cardinality(Past[m])

\* Fewer messages are under a message than under one that it justifies, and fewer
\* than there are.
LEMMA DepthFalls ==
    ASSUME NEW m \in Message
    PROVE  /\ Depth(m) \in Nat /\ Cardinality(Message) \in Nat
           /\ Depth(m) + 1 <= Cardinality(Message)
           /\ \A n \in justification[m] : n \in Message /\ Depth(n) + 1 <= Depth(m)
<1>1. ASSUME NEW n \in Message, NEW S \in SUBSET Message, Past[n] \subseteq S, n \in S
      PROVE  Depth(n) \in Nat /\ Cardinality(S) \in Nat /\ Depth(n) + 1 <= Cardinality(S)
  <2>1. IsFiniteSet(S) /\ IsFiniteSet(Past[n]) /\ n \notin Past[n]
    BY <1>1, MessageAssumption, FS_Subset, AcyclicAssumption DEF Depends
  <2> DEFINE T == Past[n] \cup {n}
  <2>2. IsFiniteSet(T) /\ Cardinality(T) = Cardinality(Past[n]) + 1
    <3>1. Cardinality(Past[n] \cup {n}) = Cardinality(Past[n]) + 1
      BY <2>1, FS_AddElement, Zenon
    <3> QED BY <2>1, <3>1, FS_AddElement
  <2>3. T \subseteq S
    BY <1>1
  <2>4. Cardinality(T) <= Cardinality(S)
    <3> HIDE DEF T
    <3> QED BY <2>1, <2>3, FS_Subset
  <2> QED BY <2>1, <2>2, <2>4, FS_CardinalityType DEF Depth
<1>2. Depth(m) \in Nat /\ Cardinality(Message) \in Nat /\ Depth(m) + 1 <= Cardinality(Message)
  BY <1>1, PastClosed
<1>3. ASSUME NEW n \in justification[m] PROVE n \in Message /\ Depth(n) + 1 <= Depth(m)
  <2>1. n \in Message /\ n \in Past[m] /\ Past[m] \in SUBSET Message
    BY PastClosed
  <2>2. Past[n] \subseteq Past[m]
    BY <2>1, DependsTransitive, PastClosed DEF Depends
  <2>3. Depth(n) + 1 <= Cardinality(Past[m])
    BY <1>1, <2>1, <2>2
  <2> QED BY <2>1, <2>3 DEF Depth
<1> QED BY <1>2, <1>3

\* Nothing is further down than there are messages.
LEMMA LevelBound ==
    ASSUME NEW m \in Message, NEW k \in 0 .. Cardinality(Message), NEW n \in Level[k][m]
    PROVE  k <= Depth(m) /\ n \in Message
<1> DEFINE N == Cardinality(Message)
           X == {j \in Nat : j \in 0 .. N =>
                    \A x \in Message : \A y \in Level[j][x] : j <= Depth(x) /\ y \in Message}
<1>1. N \in Nat /\ \A x \in Message : Depth(x) \in Nat
  BY DepthFalls
<1>2. 0 \in X
  BY <1>1, Levels
<1>3. ASSUME NEW j \in Nat, j \in X PROVE j + 1 \in X
  <2> HIDE DEF N
  <2> SUFFICES ASSUME j + 1 \in 0 .. N, NEW x \in Message, NEW y \in Level[j + 1][x]
               PROVE  j + 1 <= Depth(x) /\ y \in Message
    OBVIOUS
  <2>1. j + 1 \in 1 .. N /\ (j + 1) - 1 = j /\ j \in 0 .. N
    BY <1>1
  <2>2. Level[j + 1][x] = UNION {Level[j][z] : z \in justification[x]}
    BY <2>1, Levels DEF N
  <2>3. PICK z \in justification[x] : y \in Level[j][z]
    BY <2>2
  <2>4. z \in Message /\ Depth(z) + 1 <= Depth(x)
    BY DepthFalls
  <2>5. j <= Depth(z) /\ y \in Message
    BY <1>3, <2>1, <2>3, <2>4
  <2> QED BY <1>1, <2>4, <2>5
<1>4. Nat \subseteq X
  <2> HIDE DEF X
  <2> QED BY <1>2, <1>3, NatInductionSet
<1>5. k \in Nat
  BY <1>1
<1> QED BY <1>4, <1>5

\* Two equivocating messages of v at matching levels below m and n.
Matching(v, m, n) ==
    \E k, l \in 0 .. Cardinality(Message) :
        /\ k \in {l, l + 1}
        /\ \E x \in Level[k][m], y \in Level[l][n] : sender[x] = v /\ Equivocates(x, y)

Reported(m, n) == {v \in Validator : Matching(v, m, n)}

\* A pair below m and n is this pair, or one below n and a message of m's
\* justification.
LEMMA MatchingStep ==
    ASSUME NEW v, NEW m \in Message, NEW n \in Message
    PROVE  Matching(v, m, n) <=> \/ v = sender[m] /\ Equivocates(m, n)
                                 \/ \E z \in justification[m] : Matching(v, n, z)
<1> DEFINE N == Cardinality(Message)
<1>1. N \in Nat /\ 0 \in 0 .. N /\ \A z \in justification[m] : z \in Message
  BY DepthFalls
<1>2. Level[0][m] = {m} /\ Level[0][n] = {n}
  BY Levels
<1>3. ASSUME Matching(v, m, n), ~(v = sender[m] /\ Equivocates(m, n))
      PROVE  \E z \in justification[m] : Matching(v, n, z)
  <2>1. PICK k \in 0 .. N, l \in 0 .. N :
           /\ k \in {l, l + 1}
           /\ \E x \in Level[k][m], y \in Level[l][n] : sender[x] = v /\ Equivocates(x, y)
    BY <1>3 DEF Matching
  <2>2. PICK x \in Level[k][m], y \in Level[l][n] : sender[x] = v /\ Equivocates(x, y)
    BY <2>1
  <2> HIDE DEF N
  <2>3. k # 0
    <3> SUFFICES ASSUME k = 0 PROVE FALSE
      OBVIOUS
    <3>1. l = 0
      BY <1>1, <2>1
    <3> QED BY <1>2, <1>3, <2>2, <3>1
  <2>4. k \in 1 .. N /\ k - 1 \in 0 .. N /\ l \in {k - 1, (k - 1) + 1}
    BY <1>1, <2>1, <2>3
  <2>5. PICK z \in justification[m] : x \in Level[k - 1][z]
    BY <2>2, <2>4, Levels DEF N
  <2>6. sender[y] = v /\ Equivocates(y, x)
    BY <2>2 DEF Equivocates
  <2>7. Matching(v, n, z)
    BY <2>2, <2>4, <2>5, <2>6 DEF Matching, N
  <2> QED BY <2>7
<1>4. ASSUME v = sender[m], Equivocates(m, n) PROVE Matching(v, m, n)
  <2>1. m \in Level[0][m] /\ n \in Level[0][n]
    BY <1>2
  <2>2. 0 \in {0, 0 + 1}
    OBVIOUS
  <2> QED BY <1>1, <1>4, <2>1, <2>2 DEF Matching
<1>5. ASSUME NEW z \in justification[m], Matching(v, n, z) PROVE Matching(v, m, n)
  <2>1. PICK k \in 0 .. N, l \in 0 .. N :
           /\ k \in {l, l + 1}
           /\ \E x \in Level[k][n], y \in Level[l][z] : sender[x] = v /\ Equivocates(x, y)
    BY <1>5 DEF Matching
  <2>2. PICK x \in Level[k][n], y \in Level[l][z] : sender[x] = v /\ Equivocates(x, y)
    BY <2>1
  <2>3. l <= Depth(z) /\ Depth(z) + 1 <= Depth(m) /\ Depth(m) + 1 <= N
        /\ Depth(z) \in Nat /\ Depth(m) \in Nat
    <3>1. z \in Message
      BY <1>1
    <3>2. l <= Depth(z)
      BY <2>2, <3>1, LevelBound
    <3> QED BY <3>1, <3>2, DepthFalls
  <2> HIDE DEF N
  <2>4. l + 1 \in 1 .. N /\ l + 1 \in 0 .. N /\ (l + 1) - 1 = l /\ l + 1 \in {k, k + 1}
    BY <1>1, <2>1, <2>3
  <2>5. y \in Level[l + 1][m]
    <3>1. Level[l + 1][m] = UNION {Level[l][w] : w \in justification[m]}
      BY <2>4, Levels DEF N
    <3> QED BY <2>2, <3>1
  <2>6. sender[y] = v /\ Equivocates(y, x)
    BY <2>2 DEF Equivocates
  <2> QED BY <2>1, <2>2, <2>4, <2>5, <2>6 DEF Matching, N
<1> QED BY <1>3, <1>4, <1>5

\* f satisfies the recursion of equivocates_indirect.
Descends(f) ==
    f = [c \in Message \X Message |->
            {v \in {sender[c[1]]} : Equivocates(c[1], c[2])}
            \cup UNION {f[<<c[2], z>>] : z \in justification[c[1]]}]

\* The recursion, pointwise.
LEMMA DescendsAt ==
    ASSUME NEW f, Descends(f), NEW m \in Message, NEW n \in Message, NEW v
    PROVE  v \in f[<<m, n>>] <=> \/ v = sender[m] /\ Equivocates(m, n)
                                 \/ \E z \in justification[m] : v \in f[<<n, z>>]
<1>1. f[<<m, n>>] = {u \in {sender[m]} : Equivocates(m, n)}
                    \cup UNION {f[<<n, z>>] : z \in justification[m]}
  <2> DEFINE G(c) == {u \in {sender[c[1]]} : Equivocates(c[1], c[2])}
                     \cup UNION {f[<<c[2], z>>] : z \in justification[c[1]]}
  <2>1. f = [c \in Message \X Message |-> G(c)]
    BY DEF Descends
  <2>2. f[<<m, n>>] = G(<<m, n>>)
    <3> HIDE DEF G
    <3> QED BY <2>1
  <2>3. <<m, n>>[1] = m /\ <<m, n>>[2] = n
    OBVIOUS
  <2> QED BY <2>2, <2>3, Zenon
<1> QED BY <1>1

\* What is reported satisfies it.
LEMMA ReportedDescends ==
    Descends([c \in Message \X Message |-> Reported(c[1], c[2])])
<1> DEFINE f == [c \in Message \X Message |-> Reported(c[1], c[2])]
           G(c) == {v \in {sender[c[1]]} : Equivocates(c[1], c[2])}
                   \cup UNION {f[<<c[2], z>>] : z \in justification[c[1]]}
<1>1. ASSUME NEW m \in Message, NEW n \in Message PROVE f[<<m, n>>] = G(<<m, n>>)
  <2>1. /\ f[<<m, n>>] = Reported(m, n) /\ sender[m] \in Validator
        /\ \A z \in justification[m] : f[<<n, z>>] = Reported(n, z)
    BY SenderAssumption, JustificationAssumption
  <2> DEFINE H == {v \in {sender[m]} : Equivocates(m, n)}
                  \cup UNION {f[<<n, z>>] : z \in justification[m]}
  <2>2. G(<<m, n>>) = H
    <3>1. <<m, n>>[1] = m /\ <<m, n>>[2] = n
      OBVIOUS
    <3> HIDE DEF f
    <3> QED BY <3>1, Zenon
  <2>3. ASSUME NEW v \in Validator PROVE v \in f[<<m, n>>] <=> v \in H
    <3> HIDE DEF f
    <3>1. Matching(v, m, n) <=> \/ v = sender[m] /\ Equivocates(m, n)
                                \/ \E z \in justification[m] : Matching(v, n, z)
      BY MatchingStep
    <3>2. \A z \in justification[m] : v \in f[<<n, z>>] <=> Matching(v, n, z)
      BY <2>1 DEF Reported
    <3>3. v \in f[<<m, n>>] <=> Matching(v, m, n)
      BY <2>1 DEF Reported
    <3> QED BY <3>1, <3>2, <3>3
  <2>4. f[<<m, n>>] \subseteq Validator /\ H \subseteq Validator
    <3> HIDE DEF f
    <3> QED BY <2>1 DEF Reported
  <2> HIDE DEF f, G, H
  <2> QED BY <2>2, <2>3, <2>4
<1>2. \A c \in Message \X Message : f[c] = G(c)
  <2>1. \A c \in Message \X Message : c = <<c[1], c[2]>> /\ c[1] \in Message /\ c[2] \in Message
    OBVIOUS
  <2> HIDE DEF f, G
  <2> QED BY <1>1, <2>1
<1>3. f = [c \in Message \X Message |-> f[c]]
  OBVIOUS
<1>4. f = [c \in Message \X Message |-> G(c)]
  <2> HIDE DEF f, G
  <2> QED BY <1>2, <1>3
<1> QED BY <1>4 DEF Descends

\* Nothing else does: each step leaves fewer messages below the two.
LEMMA DescendsOnce ==
    ASSUME NEW f, Descends(f), NEW m \in Message, NEW n \in Message
    PROVE  f[<<m, n>>] = Reported(m, n)
<1> DEFINE X == {j \in Nat : \A x, y \in Message :
                    Depth(x) + Depth(y) < j => f[<<x, y>>] = Reported(x, y)}
<1>1. 0 \in X
  BY DepthFalls
<1>2. ASSUME NEW j \in Nat, j \in X PROVE j + 1 \in X
  <2> SUFFICES ASSUME NEW x \in Message, NEW y \in Message, Depth(x) + Depth(y) < j + 1
               PROVE  f[<<x, y>>] = Reported(x, y)
    OBVIOUS
  <2>1. ASSUME NEW z \in justification[x] PROVE f[<<y, z>>] = Reported(y, z)
    <3>1. /\ z \in Message /\ Depth(z) + 1 <= Depth(x)
          /\ Depth(x) \in Nat /\ Depth(y) \in Nat
      BY DepthFalls
    <3>2. Depth(z) \in Nat
      BY <3>1, DepthFalls
    <3>3. Depth(y) + Depth(z) < j
      BY <3>1, <3>2
    <3> QED BY <1>2, <3>1, <3>3
  <2>2. ASSUME NEW v PROVE v \in f[<<x, y>>] <=> v \in Reported(x, y)
    <3>1. v \in f[<<x, y>>] <=> \/ v = sender[x] /\ Equivocates(x, y)
                                \/ \E z \in justification[x] : v \in f[<<y, z>>]
      BY DescendsAt, SMTT(30)
    <3>2. Matching(v, x, y) <=> \/ v = sender[x] /\ Equivocates(x, y)
                                \/ \E z \in justification[x] : Matching(v, y, z)
      BY MatchingStep
    <3>3. sender[x] \in Validator
      BY SenderAssumption
    <3> QED BY <2>1, <3>1, <3>2, <3>3 DEF Reported
  <2> QED BY <2>2
<1>3. Nat \subseteq X
  <2> HIDE DEF X
  <2> QED BY <1>1, <1>2, NatInductionSet
<1>4. /\ Depth(m) + Depth(n) + 1 \in Nat
      /\ Depth(m) + Depth(n) < Depth(m) + Depth(n) + 1
  BY DepthFalls
<1> QED BY <1>3, <1>4

\* equivocates_indirect returns what is reported.
LEMMA IndirectReports ==
    ASSUME NEW m \in Message, NEW n \in Message, NEW known
    PROVE  EquivocatesIndirect(m, n, known)
           = [answer |-> Reported(m, n) # {}, equivocators |-> known \cup Reported(m, n)]
<1> PICK p : p = CHOOSE f : Descends(f)
  OBVIOUS
<1>1. EquivocatesIndirect(m, n, known)
      = [answer |-> p[<<m, n>>] # {}, equivocators |-> known \cup p[<<m, n>>]]
  BY DEF EquivocatesIndirect, Descends
<1>2. Descends(p)
  BY ReportedDescends
<1>3. p[<<m, n>>] = Reported(m, n)
  BY <1>2, DescendsOnce
<1> QED BY <1>1, <1>3

\* equivocates_indirect finds the equivocations at matching levels, and no other.
LEMMA ByLevels == TypeOK => IndirectByLevels
<1> SUFFICES ASSUME TypeOK, NEW known
             PROVE  /\ EquivocatesIndirect(root, target, known).equivocators
                       = known \cup Reported(root, target)
                    /\ EquivocatesIndirect(root, target, known).answer
                       <=> Reported(root, target) # {}
  BY DEF IndirectByLevels, Reported, Matching
<1>1. EquivocatesIndirect(root, target, known)
      = [answer |-> Reported(root, target) # {},
         equivocators |-> known \cup Reported(root, target)]
  BY IndirectReports DEF TypeOK
<1>2. EquivocatesIndirect(root, target, known).equivocators = known \cup Reported(root, target)
  BY <1>1
<1>3. EquivocatesIndirect(root, target, known).answer = (Reported(root, target) # {})
  BY <1>1
<1> QED BY <1>2, <1>3, Zenon

\* equivocates_indirect reports the equivocations at equal levels, or with the first
\* message one level deeper, and no other, for every message graph.
THEOREM IndirectLevels == Spec => []IndirectByLevels
<1>1. IInv => IndirectByLevels
  BY ByLevels DEF IInv
<1> QED BY <1>1, SearchInv, PTL
=============================================================================
