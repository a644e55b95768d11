-------------------------- MODULE Induction_proofs --------------------------
(***************************************************************************)
(* Induction stated with sets in place of predicates, and what it says of  *)
(* the sums of the community modules.                                      *)
(***************************************************************************)
EXTENDS FiniteSetsExt, FiniteSetTheorems, TLAPS

\* A set of naturals that is not empty has a smallest member.
LEMMA SmallestMember ==
    ASSUME NEW N \in SUBSET Nat, N # {}
    PROVE  \E n \in N : \A k \in N : n <= k
<1>1. PICK n \in N : \A k \in N : <<k, n>> \notin OpToRel(<, Nat)
  BY NatLessThanWellFounded, WFMin
<1>2. ASSUME NEW k \in N PROVE ~(k < n)
  <2>1. k < n => <<k, n>> \in OpToRel(<, Nat)
    BY DEF OpToRel
  <2> QED BY <1>1, <2>1
<1>3. \A k \in N : n <= k
  BY <1>2
<1> QED BY <1>3

\* A set of naturals that holds 0 and the successors of its members is Nat.
LEMMA NatInductionSet ==
    ASSUME NEW N, 0 \in N, \A n \in Nat : n \in N => n + 1 \in N
    PROVE  Nat \subseteq N
<1> SUFFICES ASSUME Nat \ N # {} PROVE FALSE
  OBVIOUS
<1>1. PICK n \in Nat \ N : \A k \in Nat \ N : n <= k
  BY SmallestMember
<1>2. n # 0 /\ n - 1 \in Nat /\ (n - 1) + 1 = n /\ ~(n <= n - 1)
  BY <1>1
<1> QED BY <1>1, <1>2

\* A set of sets that holds the empty set and, with a part of S, that part and one
\* more member of S, holds S.
LEMMA FiniteInduction ==
    ASSUME NEW S, IsFiniteSet(S), NEW X, {} \in X,
           \A T \in SUBSET S : \A x \in S \ T : T \in X => T \cup {x} \in X
    PROVE  S \in X
<1> DEFINE N == {n \in Nat : \A T \in SUBSET S : Cardinality(T) = n => T \in X}
<1>1. 0 \in N
  <2>1. \A T \in SUBSET S : Cardinality(T) = 0 => T = {}
    BY FS_Subset, FS_EmptySet
  <2> QED BY <2>1
<1>2. ASSUME NEW n \in Nat, n \in N PROVE n + 1 \in N
  <2>1. ASSUME NEW T \in SUBSET S, Cardinality(T) = n + 1 PROVE T \in X
    <3>1. IsFiniteSet(T)
      BY FS_Subset
    <3>2. PICK x \in T : TRUE
      BY <2>1, <3>1, FS_EmptySet
    <3>3. Cardinality(T \ {x}) = n
      <4>1. Cardinality(T \ {x}) = Cardinality(T) - 1
        BY <3>1, FS_RemoveElement, Zenon
      <4> QED BY <2>1, <4>1
    <3>4. T \ {x} \in SUBSET S /\ x \in S \ (T \ {x})
      OBVIOUS
    <3>5. T \ {x} \in X
      BY <1>2, <3>3, <3>4
    <3>6. (T \ {x}) \cup {x} \in X
      BY <3>4, <3>5
    <3>7. (T \ {x}) \cup {x} = T
      OBVIOUS
    <3> QED BY <3>6, <3>7
  <2> QED BY <2>1
<1>3. Nat \subseteq N
  <2> HIDE DEF N
  <2> QED BY <1>1, <1>2, NatInductionSet
<1>4. Cardinality(S) \in Nat
  BY FS_CardinalityType
<1> QED BY <1>3, <1>4

\* A set of sets that holds each part of S whose smaller parts it holds, holds S.
LEMMA FiniteStrongInduction ==
    ASSUME NEW S, IsFiniteSet(S), NEW X,
           \A T \in SUBSET S : (\A U \in SUBSET T : U # T => U \in X) => T \in X
    PROVE  S \in X
<1> SUFFICES ASSUME S \notin X PROVE FALSE
  OBVIOUS
<1> DEFINE Z == {T \in SUBSET S : T \notin X}
           R == StrictSubsetOrdering(S)
<1>1. IsWellFoundedOn(R, SUBSET S)
  <2>1. FiniteSubsetsOf(S) = SUBSET S
    BY FS_FiniteSubsetsOfFinite
  <2>2. IsWellFoundedOn(R, FiniteSubsetsOf(S))
    BY FS_StrictSubsetOrderingWellFounded
  <2> QED BY <2>1, <2>2
<1>2. Z \subseteq SUBSET S /\ Z # {}
  OBVIOUS
<1>3. PICK T \in Z : \A U \in Z : <<U, T>> \notin R
  <2> HIDE DEF Z, R
  <2> QED BY <1>1, <1>2, WFMin
<1>4. ASSUME NEW U \in SUBSET T, U # T PROVE U \in X
  <2>1. <<U, T>> \in R
    BY <1>4 DEF StrictSubsetOrdering
  <2> QED BY <1>3, <2>1
<1> QED BY <1>3, <1>4

\* Of finitely many things that carry numbers one carries the largest.
LEMMA LargestMember ==
    ASSUME NEW S, IsFiniteSet(S), S # {}, NEW k, \A x \in S : k[x] \in Int
    PROVE  \E x \in S : \A y \in S : k[y] <= k[x]
<1> DEFINE X == {T \in SUBSET S : T = {} \/ \E x \in T : \A y \in T : k[y] <= k[x]}
<1>1. {} \in X
  OBVIOUS
<1>2. ASSUME NEW T \in SUBSET S, NEW z \in S \ T, T \in X PROVE T \cup {z} \in X
  <2>1. CASE T = {}
    BY <2>1
  <2>2. ASSUME NEW x \in T, \A y \in T : k[y] <= k[x] PROVE T \cup {z} \in X
    <3>1. CASE k[z] <= k[x]
      BY <2>2, <3>1
    <3>2. CASE ~(k[z] <= k[x])
      <4>1. \A y \in T \cup {z} : k[y] <= k[z]
        BY <2>2, <3>2
      <4> QED BY <4>1
    <3> QED BY <3>1, <3>2
  <2> QED BY <1>2, <2>1, <2>2
<1>3. S \in X
  <2> HIDE DEF X
  <2> QED BY <1>1, <1>2, FiniteInduction
<1> QED BY <1>3

\* f is defined on C by going on from c to next[c] until it is done.
GoesOn(C, Done, next, out, f) == f = [c \in C |-> IF c \in Done THEN out[c] ELSE f[next[c]]]

\* A function may be defined on C by going on from c to next[c] until it is done:
\* where that never ends, any value will do.
LEMMA TailRecursion ==
    ASSUME NEW C, NEW Done, NEW next, NEW out, \A c \in C \ Done : next[c] \in C
    PROVE  \E f : GoesOn(C, Done, next, out, f)
<1> DEFINE R == {out[c] : c \in C}
           Keeps(G) == /\ \A c \in C \cap Done : <<c, out[c]>> \in G
                       /\ \A c \in C \ Done : \A r \in R : <<next[c], r>> \in G => <<c, r>> \in G
           Least == {p \in C \X R : \A G \in SUBSET (C \X R) : Keeps(G) => p \in G}
           Results(c) == {r \in R : <<c, r>> \in Least}
           f == [c \in C |-> CHOOSE r : r \in Results(c)]
<1>1. Keeps(Least)
  OBVIOUS
<1>2. ASSUME NEW c \in C \cap Done PROVE f[c] = out[c]
  <2>1. <<c, out[c]>> \in Least
    BY <1>1
  <2>2. ASSUME NEW r \in R, r # out[c] PROVE <<c, r>> \notin Least
    <3> DEFINE G == (C \X R) \ {<<c, r>>}
    <3>1. Keeps(G)
      BY <2>2
    <3> QED BY <3>1
  <2>3. Results(c) = {out[c]}
    <3> HIDE DEF Least
    <3> QED BY <2>1, <2>2
  <2> HIDE DEF Results
  <2> QED BY <2>3
<1>3. ASSUME NEW c \in C \ Done PROVE f[c] = f[next[c]]
  <2>1. ASSUME NEW r \in R, <<next[c], r>> \in Least PROVE <<c, r>> \in Least
    BY <1>1, <2>1
  <2>2. ASSUME NEW r \in R, <<c, r>> \in Least, <<next[c], r>> \notin Least PROVE FALSE
    <3> DEFINE G == Least \ {<<c, r>>}
    <3>1. Keeps(G)
      <4> HIDE DEF Least
      <4> QED BY <1>1, <2>2
    <3>2. G \in SUBSET (C \X R)
      OBVIOUS
    <3>3. <<c, r>> \in G
      BY <2>2, <3>1, <3>2
    <3> QED BY <3>3
  <2>3. Results(c) = Results(next[c])
    <3> HIDE DEF Least
    <3> QED BY <2>1, <2>2
  <2>4. next[c] \in C
    OBVIOUS
  <2> HIDE DEF Results
  <2> QED BY <2>3, <2>4
<1>4. f = [c \in C |-> IF c \in Done THEN out[c] ELSE f[next[c]]]
  <2> HIDE DEF Results
  <2>1. \A c \in C : f[c] = IF c \in Done THEN out[c] ELSE f[next[c]]
    BY <1>2, <1>3
  <2>2. f = [c \in C |-> f[c]]
    OBVIOUS
  <2> HIDE DEF f
  <2> QED BY <2>1, <2>2
<1> QED BY <1>4 DEF GoesOn

\* f collects what it finds at c and after c.
Collects(C, out, next, f) == f = [c \in C |-> out[c] \cup UNION {f[d] : d \in next[c]}]

\* A function may be defined by collecting along next, whether or not that ends.
LEMMA UnionRecursion ==
    ASSUME NEW C, NEW out, NEW next, \A c \in C : next[c] \subseteq C
    PROVE  \E f : Collects(C, out, next, f)
<1> DEFINE R == UNION {out[c] : c \in C}
           Keeps(G) ==
               \A c \in C : \A r \in R :
                   r \in out[c] \/ (\E d \in next[c] : <<d, r>> \in G) => <<c, r>> \in G
           Least == {p \in C \X R : \A G \in SUBSET (C \X R) : Keeps(G) => p \in G}
           Found(c) == {r \in R : <<c, r>> \in Least}
           f == [c \in C |-> Found(c)]
<1>1. Keeps(Least)
  OBVIOUS
<1>2. ASSUME NEW c \in C, NEW r \in R, <<c, r>> \in Least, r \notin out[c],
             \A d \in next[c] : <<d, r>> \notin Least
      PROVE  FALSE
  <2> DEFINE G == Least \ {<<c, r>>}
  <2>1. ASSUME NEW b \in C, NEW s \in R, s \in out[b] \/ \E d \in next[b] : <<d, s>> \in G
        PROVE  <<b, s>> \in G
    <3> HIDE DEF Least
    <3>1. <<b, s>> \in Least
      BY <1>1, <2>1
    <3>2. <<b, s>> # <<c, r>>
      BY <1>2, <2>1
    <3> QED BY <3>1, <3>2
  <2>2. Keeps(G)
    <3> HIDE DEF G
    <3> QED BY <2>1
  <2>3. G \in SUBSET (C \X R) /\ <<c, r>> \notin G
    OBVIOUS
  <2> HIDE DEF G, Keeps
  <2> QED BY <1>2, <2>2, <2>3
<1>3. ASSUME NEW c \in C PROVE f[c] = out[c] \cup UNION {f[d] : d \in next[c]}
  <2>1. \A d \in next[c] : f[d] = Found(d)
    <3> HIDE DEF Found
    <3> QED OBVIOUS
  <2>2. f[c] = Found(c) /\ out[c] \subseteq R
    <3> HIDE DEF Found
    <3> QED OBVIOUS
  <2>3. ASSUME NEW r \in Found(c) PROVE r \in out[c] \/ \E d \in next[c] : r \in Found(d)
    <3> HIDE DEF Least
    <3> QED BY <1>2, <2>3
  <2>4. ASSUME NEW r \in out[c] \cup UNION {Found(d) : d \in next[c]} PROVE r \in Found(c)
    <3>1. r \in R /\ (r \in out[c] \/ \E d \in next[c] : <<d, r>> \in Least)
      <4>1. CASE r \in out[c]
        <5> HIDE DEF R
        <5> QED BY <2>2, <4>1
      <4>2. CASE r \notin out[c]
        <5>1. PICK d \in next[c] : r \in Found(d)
          <6> HIDE DEF Found
          <6> QED BY <2>4, <4>2
        <5> HIDE DEF Least, R
        <5> QED BY <5>1
      <4> QED BY <4>1, <4>2
    <3> HIDE DEF Least, R
    <3> QED BY <1>1, <3>1
  <2>5. Found(c) = out[c] \cup UNION {Found(d) : d \in next[c]}
    <3> HIDE DEF Found
    <3> QED BY <2>3, <2>4
  <2> HIDE DEF f, Found
  <2> QED BY <2>1, <2>2, <2>5
<1>4. f = [c \in C |-> out[c] \cup UNION {f[d] : d \in next[c]}]
  <2> HIDE DEF Found
  <2>1. f = [c \in C |-> f[c]]
    OBVIOUS
  <2> HIDE DEF f
  <2> QED BY <1>3, <2>1
<1> QED BY <1>4 DEF Collects

-----------------------------------------------------------------------------
(* Folds over a list, which the community modules define over the set of its *)
(* positions, the largest first. *)

\* The largest of finitely many numbers.
LEMMA MaxMember ==
    ASSUME NEW T, IsFiniteSet(T), T # {}, T \subseteq Int
    PROVE  Max(T) \in T
<1> DEFINE k == [x \in T |-> x]
<1>1. \E x \in T : \A y \in T : k[y] <= k[x]
  <2>1. \A x \in T : k[x] \in Int
    OBVIOUS
  <2> HIDE DEF k
  <2> QED BY <2>1, LargestMember
<1>2. \E x \in T : \A y \in T : x >= y
  BY <1>1
<1> QED BY <1>2 DEF Max

\* The positions before the last one.
LEMMA PositionsBefore ==
    ASSUME NEW i \in Nat, i # 0
    PROVE  1 .. i # {} /\ Max(1 .. i) = i /\ (1 .. i) \ {Max(1 .. i)} = 1 .. (i - 1)
<1>1. IsFiniteSet(1 .. i) /\ 1 .. i \subseteq Int /\ i \in 1 .. i
  BY FS_Interval
<1>2. Max(1 .. i) \in 1 .. i
  BY <1>1, MaxMember
<1>3. Max(1 .. i) = CHOOSE x \in 1 .. i : \A y \in 1 .. i : x >= y
  BY DEF Max
<1>4. \A y \in 1 .. i : i >= y
  OBVIOUS
<1>5. \A y \in 1 .. i : Max(1 .. i) >= y
  BY <1>1, <1>3, <1>4, Zenon
<1>6. Max(1 .. i) = i
  BY <1>1, <1>2, <1>5
<1>7. (1 .. i) \ {i} = 1 .. (i - 1)
  OBVIOUS
<1>8. 1 .. i # {}
  BY <1>1
<1>9. (1 .. i) \ {Max(1 .. i)} = 1 .. (i - 1)
  BY <1>6, <1>7
<1> QED BY <1>6, <1>8, <1>9

\* There is a step for each position, which stays in A.
StaysIn(n, A, step) == \A i \in 1 .. n : \A a \in A : step[i][a] \in A

\* f[T] takes the steps at the positions T from base on.
Folds(n, base, step, f) ==
    \A T \in SUBSET (1 .. n) :
        f[T] = IF T = {} THEN base ELSE step[Max(T)][f[T \ {Max(T)}]]

\* f takes them as long as it is in A.
FoldsWithin(n, A, base, step, f) ==
    /\ f[{}] = base
    /\ \A T \in SUBSET (1 .. n) : T # {} /\ f[T \ {Max(T)}] \in A
           => f[T] = step[Max(T)][f[T \ {Max(T)}]]

\* Steps that stay in A can be folded.
LEMMA FoldExists ==
    ASSUME NEW n \in Nat, NEW A, NEW base \in A, NEW step, StaysIn(n, A, step)
    PROVE  \E f \in [SUBSET (1 .. n) -> A] : Folds(n, base, step, f)
<1> DEFINE D == 1 .. n
           P == (SUBSET D) \X A
           Keeps(G) ==
               /\ <<{}, base>> \in G
               /\ \A T \in SUBSET D : \A a \in A :
                      T # {} /\ <<T \ {Max(T)}, a>> \in G => <<T, step[Max(T)][a]>> \in G
           Least == {p \in P : \A G \in SUBSET P : Keeps(G) => p \in G}
           X == {T \in SUBSET D : \E a \in A : \A b \in A : <<T, b>> \in Least <=> b = a}
           chosen(T) == CHOOSE a \in A : <<T, a>> \in Least
           f == [T \in SUBSET D |-> chosen(T)]
<1>1. IsFiniteSet(D)
  BY FS_Interval
<1>2. ASSUME NEW T \in SUBSET D, T # {}
      PROVE  Max(T) \in T /\ T \ {Max(T)} \in SUBSET T /\ T \ {Max(T)} # T
  <2>1. T \subseteq Int
    OBVIOUS
  <2>2. IsFiniteSet(T)
    <3> HIDE DEF D
    <3> QED BY <1>1, FS_Subset
  <2>3. Max(T) \in T
    BY <1>2, <2>1, <2>2, MaxMember
  <2> QED BY <2>3
<1>3. ASSUME NEW T \in SUBSET D, T # {}, NEW a \in A PROVE step[Max(T)][a] \in A
  <2>1. Max(T) \in D
    BY <1>2, <1>3
  <2> QED BY <2>1 DEF StaysIn
<1> HIDE DEF D
<1>4. Keeps(Least)
  BY <1>3
<1>5. {} \in X
  <2>1. <<{}, base>> \in Least
    BY <1>4
  <2>2. ASSUME NEW b \in A, b # base PROVE <<{}, b>> \notin Least
    <3> DEFINE G == Least \ {<<{}, b>>}
    <3>1. <<{}, base>> \in G
      BY <2>1, <2>2
    <3>2. ASSUME NEW T \in SUBSET D, NEW a \in A, T # {}, <<T \ {Max(T)}, a>> \in G
          PROVE  <<T, step[Max(T)][a]>> \in G
      <4> HIDE DEF Least
      <4> QED BY <1>4, <3>2
    <3>3. Keeps(G)
      <4> HIDE DEF G
      <4> QED BY <3>1, <3>2
    <3>4. G \in SUBSET P /\ <<{}, b>> \notin G
      OBVIOUS
    <3> HIDE DEF G, Keeps
    <3> QED BY <3>3, <3>4
  <2> HIDE DEF Least
  <2> QED BY <2>1, <2>2
<1>6. ASSUME NEW T \in SUBSET D, T # {}, NEW a \in A,
             \A b \in A : <<T \ {Max(T)}, b>> \in Least <=> b = a
      PROVE  \A b \in A : <<T, b>> \in Least <=> b = step[Max(T)][a]
  <2>1. <<T, step[Max(T)][a]>> \in Least
    <3> HIDE DEF Least
    <3> QED BY <1>4, <1>6
  <2>2. ASSUME NEW b \in A, b # step[Max(T)][a] PROVE <<T, b>> \notin Least
    <3> DEFINE G == Least \ {<<T, b>>}
    <3>1. <<{}, base>> \in G
      <4> HIDE DEF Least
      <4> QED BY <1>4, <1>6
    <3>2. ASSUME NEW U \in SUBSET D, NEW c \in A, U # {}, <<U \ {Max(U)}, c>> \in G
          PROVE  <<U, step[Max(U)][c]>> \in G
      <4> HIDE DEF Least
      <4>1. <<U, step[Max(U)][c]>> \in Least
        BY <1>4, <3>2
      <4>2. CASE U # T
        BY <4>1, <4>2
      <4>3. CASE U = T
        <5>1. c = a
          BY <1>6, <3>2, <4>3
        <5> QED BY <2>2, <4>1, <4>3, <5>1
      <4> QED BY <4>2, <4>3
    <3>3. Keeps(G)
      <4> HIDE DEF G
      <4> QED BY <3>1, <3>2
    <3>4. G \in SUBSET P /\ <<T, b>> \notin G
      OBVIOUS
    <3> HIDE DEF G, Keeps
    <3> QED BY <3>3, <3>4
  <2> HIDE DEF Least
  <2> QED BY <2>1, <2>2
<1>7. ASSUME NEW T \in SUBSET D, \A U \in SUBSET T : U # T => U \in X PROVE T \in X
  <2>1. CASE T = {}
    BY <1>5, <2>1
  <2>2. CASE T # {}
    <3>1. T \ {Max(T)} \in X
      <4> HIDE DEF X
      <4> QED BY <1>2, <1>7, <2>2
    <3>2. PICK a \in A : \A b \in A : <<T \ {Max(T)}, b>> \in Least <=> b = a
      <4> HIDE DEF Least
      <4> QED BY <3>1
    <3>3. \A b \in A : <<T, b>> \in Least <=> b = step[Max(T)][a]
      BY <1>6, <2>2, <3>2
    <3>4. step[Max(T)][a] \in A
      BY <1>3, <2>2
    <3> HIDE DEF Least
    <3> QED BY <3>3, <3>4
  <2> QED BY <2>1, <2>2
<1>8. ASSUME NEW T \in SUBSET D PROVE T \in X
  <2>1. IsFiniteSet(T) /\ \A V \in SUBSET T : V \in SUBSET D
    BY <1>1, FS_Subset
  <2> HIDE DEF X
  <2> QED BY <1>7, <2>1, FiniteStrongInduction
<1>9. ASSUME NEW T \in SUBSET D
      PROVE  f[T] \in A /\ \A b \in A : <<T, b>> \in Least <=> b = f[T]
  <2>1. T \in X
    BY <1>8
  <2> HIDE DEF Least
  <2>2. PICK a \in A : \A b \in A : <<T, b>> \in Least <=> b = a
    BY <2>1
  <2>3. f[T] = a
    BY <2>2
  <2> QED BY <2>2, <2>3
<1>10. f \in [SUBSET D -> A]
  <2> HIDE DEF chosen
  <2>1. f = [T \in SUBSET D |-> f[T]]
    OBVIOUS
  <2> HIDE DEF f
  <2> QED BY <1>9, <2>1
<1>11. ASSUME NEW T \in SUBSET D
       PROVE  f[T] = IF T = {} THEN base ELSE step[Max(T)][f[T \ {Max(T)}]]
  <2>1. CASE T = {}
    <3>1. <<{}, base>> \in Least
      BY <1>4
    <3> HIDE DEF f, Least
    <3> QED BY <1>9, <2>1, <3>1
  <2>2. CASE T # {}
    <3> DEFINE R == T \ {Max(T)}
    <3>1. R \in SUBSET D
      OBVIOUS
    <3>2. f[R] \in A /\ \A b \in A : <<R, b>> \in Least <=> b = f[R]
      BY <1>9, <3>1
    <3>3. \A b \in A : <<T, b>> \in Least <=> b = step[Max(T)][f[R]]
      <4> HIDE DEF f, Least
      <4>1. PICK a \in A : a = f[R]
        BY <3>2
      <4>2. \A b \in A : <<R, b>> \in Least <=> b = a
        BY <3>2, <4>1
      <4>3. \A b \in A : <<T, b>> \in Least <=> b = step[Max(T)][a]
        BY <1>6, <2>2, <4>2
      <4> QED BY <4>1, <4>3
    <3>4. step[Max(T)][f[R]] \in A
      BY <1>3, <2>2, <3>2
    <3> HIDE DEF f, Least, R
    <3> QED BY <1>9, <2>2, <3>3, <3>4 DEF R
  <2> QED BY <2>1, <2>2
<1> HIDE DEF f
<1>12. Folds(n, base, step, f)
  BY <1>11 DEF D, Folds
<1> QED BY <1>10, <1>12 DEF D

\* Whatever is a fold takes the steps one after the other.
LEMMA FoldAlong ==
    ASSUME NEW n \in Nat, NEW A, NEW base \in A, NEW step, StaysIn(n, A, step),
           NEW f, FoldsWithin(n, A, base, step, f)
    PROVE  /\ f[1 .. 0] = base
           /\ \A i \in 0 .. n : f[1 .. i] \in A
           /\ \A i \in 1 .. n : f[1 .. i] = step[i][f[1 .. (i - 1)]]
<1> DEFINE N == {i \in Nat : i <= n => f[1 .. i] \in A}
<1>1. f[1 .. 0] = base
  <2>1. 1 .. 0 = {}
    OBVIOUS
  <2> QED BY <2>1 DEF FoldsWithin
<1>2. ASSUME NEW i \in 1 .. n, f[1 .. (i - 1)] \in A
      PROVE  f[1 .. i] = step[i][f[1 .. (i - 1)]] /\ f[1 .. i] \in A
  <2>1. 1 .. i # {} /\ Max(1 .. i) = i /\ (1 .. i) \ {Max(1 .. i)} = 1 .. (i - 1)
    <3>1. i \in Nat /\ i # 0
      OBVIOUS
    <3> QED BY <3>1, PositionsBefore, Zenon
  <2>2. 1 .. i \in SUBSET (1 .. n)
    OBVIOUS
  <2>3. f[1 .. i] = step[i][f[1 .. (i - 1)]]
    BY <1>2, <2>1, <2>2, Zenon DEF FoldsWithin
  <2> QED BY <1>2, <2>3 DEF StaysIn
<1>3. Nat \subseteq N
  <2>1. 0 \in N
    BY <1>1
  <2>2. ASSUME NEW i \in Nat, i \in N PROVE i + 1 \in N
    <3>1. CASE i + 1 <= n
      <4>1. i + 1 \in 1 .. n /\ (i + 1) - 1 = i /\ f[1 .. i] \in A
        BY <2>2, <3>1
      <4> QED BY <1>2, <4>1
    <3>2. CASE ~(i + 1 <= n)
      BY <3>2
    <3> QED BY <3>1, <3>2
  <2> HIDE DEF N
  <2> QED BY <2>1, <2>2, NatInductionSet
<1>4. \A i \in 0 .. n : f[1 .. i] \in A
  BY <1>3
<1>5. ASSUME NEW i \in 1 .. n PROVE f[1 .. i] = step[i][f[1 .. (i - 1)]]
  <2>1. i - 1 \in 0 .. n
    OBVIOUS
  <2> QED BY <1>2, <1>4, <2>1
<1> QED BY <1>1, <1>4, <1>5

\* f begins with base and takes the steps one after the other, within A.
StepByStep(n, A, base, step, f) ==
    /\ f[0] = base
    /\ \A i \in 0 .. n : f[i] \in A
    /\ \A i \in 1 .. n : f[i] = step[i][f[i - 1]]

\* Steps that stay in A can be taken.
LEMMA FoldSteps ==
    ASSUME NEW n \in Nat, NEW A, NEW base \in A, NEW step, StaysIn(n, A, step)
    PROVE  \E f : StepByStep(n, A, base, step, f)
<1>1. PICK f : Folds(n, base, step, f) /\ f \in [SUBSET (1 .. n) -> A]
  BY FoldExists
<1>2. FoldsWithin(n, A, base, step, f)
  BY <1>1 DEF Folds, FoldsWithin
<1>3. /\ f[1 .. 0] = base
      /\ \A i \in 0 .. n : f[1 .. i] \in A
      /\ \A i \in 1 .. n : f[1 .. i] = step[i][f[1 .. (i - 1)]]
  BY <1>2, FoldAlong
<1> DEFINE h == [i \in 0 .. n |-> f[1 .. i]]
<1>4. h[0] = base /\ \A i \in 0 .. n : h[i] \in A
  BY <1>3
<1>5. ASSUME NEW i \in 1 .. n PROVE h[i] = step[i][h[i - 1]]
  <2>1. i \in 0 .. n /\ i - 1 \in 0 .. n
    OBVIOUS
  <2> QED BY <1>3, <2>1
<1> HIDE DEF h
<1> QED BY <1>4, <1>5 DEF StepByStep

-----------------------------------------------------------------------------
(* Sums: the sum of the weights of S counts the units of weight in S. *)

\* The sum of the community modules, with a function for the weights.
SumOf(w, S) == MapThenSumSet(LAMBDA x : w[x], S)

\* What the sum takes first.
AnyOf(S) == CHOOSE x \in S : TRUE

\* f satisfies the recursion by which the sum over S is defined.
Sums(w, S, f) ==
    f = [T \in SUBSET S |-> IF T = {} THEN 0 ELSE w[AnyOf(T)] + f[T \ {AnyOf(T)}]]

\* w gives each member of S a natural number.
Weighs(w, S) == IsFiniteSet(S) /\ \A x \in S : w[x] \in Nat

\* One unit for each unit of weight.
Units(w, S) == UNION {{x} \X (1 .. w[x]) : x \in S}

LEMMA SumOfDef == ASSUME NEW w, NEW S PROVE SumOf(w, S) = (CHOOSE f : Sums(w, S, f))[S]
BY DEF SumOf, MapThenSumSet, MapThenFoldSet, Sums, AnyOf

\* Sets that are apart.
LEMMA DisjointUnion ==
    ASSUME NEW S, IsFiniteSet(S), NEW T, IsFiniteSet(T), S \cap T = {}
    PROVE  /\ IsFiniteSet(S \cup T)
           /\ Cardinality(S \cup T) = Cardinality(S) + Cardinality(T)
<1>1. /\ IsFiniteSet(S \cup T)
      /\ Cardinality(S \cup T) = Cardinality(S) + Cardinality(T) - Cardinality(S \cap T)
  BY FS_Union
<1>2. Cardinality(S \cap T) = 0
  BY FS_EmptySet
<1>3. Cardinality(S) \in Nat /\ Cardinality(T) \in Nat
  BY FS_CardinalityType
<1> QED BY <1>1, <1>2, <1>3

\* What a member has alone is what it weighs.
LEMMA UnitsOfOne ==
    ASSUME NEW w, NEW x, w[x] \in Nat
    PROVE  IsFiniteSet({x} \X (1 .. w[x])) /\ Cardinality({x} \X (1 .. w[x])) = w[x]
<1>1. IsFiniteSet(1 .. w[x]) /\ Cardinality(1 .. w[x]) = w[x]
  <2> PICK n \in Nat : n = w[x]
    OBVIOUS
  <2>1. IsFiniteSet(1 .. n) /\ Cardinality(1 .. n) = IF 1 > n THEN 0 ELSE n - 1 + 1
    BY 1 \in Int, n \in Int, FS_Interval, Zenon
  <2> QED BY <2>1
<1>2. IsFiniteSet({x}) /\ Cardinality({x}) = 1
  BY FS_Singleton
<1>3. IsFiniteSet({x} \X (1 .. w[x])) /\ Cardinality({x} \X (1 .. w[x])) = 1 * w[x]
  BY <1>1, <1>2, FS_Product
<1> QED BY <1>3

\* One more member adds what it weighs.
LEMMA UnitsOfMore ==
    ASSUME NEW w, NEW S, IsFiniteSet(Units(w, S)), NEW x, x \notin S, w[x] \in Nat
    PROVE  /\ IsFiniteSet(Units(w, S \cup {x}))
           /\ Cardinality(Units(w, S \cup {x})) = Cardinality(Units(w, S)) + w[x]
<1> DEFINE U == Units(w, S)
           O == {x} \X (1 .. w[x])
<1>1. IsFiniteSet(U) /\ IsFiniteSet(O) /\ Cardinality(O) = w[x]
  BY UnitsOfOne
<1>2. U \cap O = {} /\ Units(w, S \cup {x}) = U \cup O
  BY DEF Units
<1>3. IsFiniteSet(U \cup O) /\ Cardinality(U \cup O) = Cardinality(U) + Cardinality(O)
  <2> HIDE DEF U, O
  <2> QED BY <1>1, <1>2, DisjointUnion
<1> QED BY <1>1, <1>2, <1>3

\* Finitely many members have finitely many units.
LEMMA UnitsFinite ==
    ASSUME NEW w, NEW S, Weighs(w, S)
    PROVE  IsFiniteSet(Units(w, S))
<1> DEFINE X == {T \in SUBSET S : IsFiniteSet(Units(w, T))}
<1>1. {} \in X
  BY FS_EmptySet DEF Units
<1>2. \A T \in SUBSET S : \A x \in S \ T : T \in X => T \cup {x} \in X
  BY UnitsOfMore DEF Weighs
<1>3. S \in X
  <2> HIDE DEF X
  <2> QED BY <1>1, <1>2, FiniteInduction DEF Weighs
<1> QED BY <1>3

\* The number of units satisfies the recursion.
LEMMA UnitsSum ==
    ASSUME NEW w, NEW S, Weighs(w, S)
    PROVE  Sums(w, S, [T \in SUBSET S |-> Cardinality(Units(w, T))])
<1> DEFINE f == [T \in SUBSET S |-> Cardinality(Units(w, T))]
           g == [T \in SUBSET S |-> IF T = {} THEN 0 ELSE w[AnyOf(T)] + f[T \ {AnyOf(T)}]]
<1>1. ASSUME NEW T \in SUBSET S PROVE f[T] = g[T]
  <2>1. CASE T = {}
    BY <2>1, FS_EmptySet DEF Units
  <2>2. CASE T # {}
    <3> DEFINE x == AnyOf(T)
               R == T \ {x}
    <3>1. x \in T
      BY <2>2 DEF AnyOf
    <3> HIDE DEF x
    <3>2. R \in SUBSET S /\ x \notin R /\ R \cup {x} = T /\ w[x] \in Nat /\ Weighs(w, R)
      BY <3>1, FS_Subset DEF Weighs
    <3>3. IsFiniteSet(Units(w, R))
      BY <3>2, UnitsFinite
    <3>4. Cardinality(Units(w, R \cup {x})) = Cardinality(Units(w, R)) + w[x]
      BY <3>2, <3>3, UnitsOfMore
    <3>5. Cardinality(Units(w, R)) \in Nat
      BY <3>3, FS_CardinalityType
    <3>6. f[T] = Cardinality(Units(w, R)) + w[x] /\ f[R] = Cardinality(Units(w, R))
      BY <3>2, <3>4
    <3>7. f[T] = w[x] + f[R]
      <4> HIDE DEF f, R
      <4> QED BY <3>2, <3>5, <3>6
    <3> QED BY <2>2, <3>7 DEF x
  <2> QED BY <2>1, <2>2
<1>2. f = g
  <2>1. DOMAIN f = SUBSET S /\ DOMAIN g = SUBSET S
    OBVIOUS
  <2> QED BY <1>1
<1> QED BY <1>2 DEF Sums

\* Nothing else does: the sum is the number of units.
LEMMA SumCountsUnits ==
    ASSUME NEW w, NEW S, Weighs(w, S)
    PROVE  SumOf(w, S) = Cardinality(Units(w, S))
<1> DEFINE c == [T \in SUBSET S |-> Cardinality(Units(w, T))]
<1>1. \E f : Sums(w, S, f)
  BY UnitsSum
<1>2. PICK f : SumOf(w, S) = f[S] /\ Sums(w, S, f)
  BY <1>1, SumOfDef
<1>3. Sums(w, S, c)
  BY UnitsSum
<1> DEFINE X == {T \in SUBSET S : f[T] = c[T]}
<1>4. ASSUME NEW T \in SUBSET S, \A U \in SUBSET T : U # T => U \in X
      PROVE  T \in X
  <2>1. CASE T = {}
    BY <1>2, <1>3, <2>1 DEF Sums
  <2>2. CASE T # {}
    <3>1. AnyOf(T) \in T
      BY <2>2 DEF AnyOf
    <3>2. T \ {AnyOf(T)} \in X
      BY <1>4, <3>1
    <3>3. f[T] = w[AnyOf(T)] + f[T \ {AnyOf(T)}]
      BY <1>2, <2>2 DEF Sums
    <3>4. c[T] = w[AnyOf(T)] + c[T \ {AnyOf(T)}]
      <4> HIDE DEF c
      <4> QED BY <1>3, <2>2 DEF Sums
    <3> QED BY <3>2, <3>3, <3>4
  <2> QED BY <2>1, <2>2
<1>5. S \in X
  <2> HIDE DEF X
  <2> QED BY <1>4, FiniteStrongInduction DEF Weighs
<1> QED BY <1>2, <1>5

\* A sum of naturals is one, and nothing for nobody.
LEMMA SumIsNat ==
    ASSUME NEW w, NEW K, Weighs(w, K)
    PROVE  SumOf(w, K) \in Nat /\ (K = {} => SumOf(w, K) = 0)
<1>1. IsFiniteSet(Units(w, K)) /\ SumOf(w, K) = Cardinality(Units(w, K))
  BY UnitsFinite, SumCountsUnits
<1>2. K = {} => Units(w, K) = {}
  BY DEF Units
<1> QED BY <1>1, <1>2, FS_CardinalityType, FS_EmptySet

\* Sums over sets that are apart add up.
LEMMA SumsAdd ==
    ASSUME NEW w, NEW K, NEW L, Weighs(w, K), Weighs(w, L), K \cap L = {}
    PROVE  SumOf(w, K \cup L) = SumOf(w, K) + SumOf(w, L)
<1> DEFINE U == Units(w, K)
           V == Units(w, L)
<1>1. IsFiniteSet(U) /\ SumOf(w, K) = Cardinality(U)
  BY UnitsFinite, SumCountsUnits
<1>2. IsFiniteSet(V) /\ SumOf(w, L) = Cardinality(V)
  BY UnitsFinite, SumCountsUnits
<1>3. Weighs(w, K \cup L)
  BY FS_Union DEF Weighs
<1>4. SumOf(w, K \cup L) = Cardinality(Units(w, K \cup L))
  BY <1>3, SumCountsUnits
<1>5. Units(w, K \cup L) = U \cup V /\ U \cap V = {}
  BY DEF Units
<1>6. Cardinality(U \cup V) = Cardinality(U) + Cardinality(V)
  <2> HIDE DEF U, V
  <2> QED BY <1>1, <1>2, <1>5, DisjointUnion
<1> QED BY <1>1, <1>2, <1>4, <1>5, <1>6

\* More members do not weigh less.
LEMMA SumGrows ==
    ASSUME NEW w, NEW K, NEW L, Weighs(w, K), Weighs(w, L), K \subseteq L
    PROVE  SumOf(w, K) <= SumOf(w, L)
<1> DEFINE U == Units(w, K)
           V == Units(w, L)
<1>1. IsFiniteSet(U) /\ SumOf(w, K) = Cardinality(U)
  BY UnitsFinite, SumCountsUnits
<1>2. IsFiniteSet(V) /\ SumOf(w, L) = Cardinality(V)
  BY UnitsFinite, SumCountsUnits
<1>3. U \subseteq V
  BY DEF Units
<1> HIDE DEF U, V
<1> QED BY <1>1, <1>2, <1>3, FS_Subset

\* One more member adds its weight.
LEMMA SumOfOneMore ==
    ASSUME NEW w, NEW S, Weighs(w, S), NEW x, x \notin S, w[x] \in Nat
    PROVE  SumOf(w, S \cup {x}) = SumOf(w, S) + w[x]
<1>1. IsFiniteSet(Units(w, S)) /\ SumOf(w, S) = Cardinality(Units(w, S))
  BY UnitsFinite, SumCountsUnits
<1>2. Weighs(w, S \cup {x})
  BY FS_AddElement DEF Weighs
<1>3. SumOf(w, S \cup {x}) = Cardinality(Units(w, S \cup {x}))
  BY <1>2, SumCountsUnits
<1> QED BY <1>1, <1>3, UnitsOfMore

\* What does not belong to the set does not count.
LEMMA SumOfSame ==
    ASSUME NEW w, NEW u, NEW S, Weighs(w, S), \A x \in S : u[x] = w[x]
    PROVE  SumOf(u, S) = SumOf(w, S)
<1>1. Weighs(u, S)
  BY DEF Weighs
<1>2. Units(u, S) = Units(w, S)
  BY DEF Units
<1> QED BY <1>1, <1>2, SumCountsUnits
=============================================================================
