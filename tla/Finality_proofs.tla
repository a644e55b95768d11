--------------------------- MODULE Finality_proofs ---------------------------
(***************************************************************************)
(* Oracles are promises, for any number of validators and of messages: a   *)
(* block with a steady oracle stays in what its members estimate, and no   *)
(* two such blocks contradict each other.                                  *)
(***************************************************************************)
EXTENDS Finality, Protocol_proofs, Induction_proofs

-----------------------------------------------------------------------------
(* Views *)

\* The views after the messages of T, when f holds those after fewer.
NextViews(v, T, f) ==
    IF T = {} THEN {latest[v]}
    ELSE UNION {{Taken(l, m) : l \in f[T \ {m}]} : m \in T}

\* It looks at f for smaller sets only.
LEMMA NextViewsLocal ==
    ASSUME NEW v, NEW T, NEW f, NEW g, \A m \in T : f[T \ {m}] = g[T \ {m}]
    PROVE  NextViews(v, T, f) = NextViews(v, T, g)
<1> DEFINE F(m) == {Taken(l, m) : l \in f[T \ {m}]}
           G(m) == {Taken(l, m) : l \in g[T \ {m}]}
<1>1. \A m \in T : F(m) = G(m)
  OBVIOUS
<1>2. {F(m) : m \in T} = {G(m) : m \in T}
  <2> HIDE DEF F, G
  <2> QED BY <1>1
<1> QED BY <1>2 DEF NextViews

\* The recursion of ViewsAfter has a solution.
LEMMA ViewsAfterExist ==
    ASSUME NEW v, NEW S, IsFiniteSet(S)
    PROVE  \E f : f = [T \in SUBSET S |-> NextViews(v, T, f)]
<1> DEFINE Solves(f, n) ==
             \A T \in SUBSET S : Cardinality(T) <= n => f[T] = NextViews(v, T, f)
           N == {n \in Nat : \E f : Solves(f, n)}
<1>1. \A T \in SUBSET S : IsFiniteSet(T) /\ Cardinality(T) \in Nat
  BY FS_Subset, FS_CardinalityType
<1>2. \A T \in SUBSET S : \A m \in T :
         T \ {m} \in SUBSET S /\ Cardinality(T \ {m}) = Cardinality(T) - 1
  BY <1>1, FS_RemoveElement, Zenon
<1>3. 0 \in N
  <2> DEFINE f == [T \in SUBSET S |-> {latest[v]}]
  <2>1. \A T \in SUBSET S : Cardinality(T) <= 0 => T = {}
    BY <1>1, FS_EmptySet
  <2>2. Solves(f, 0)
    BY <2>1 DEF NextViews
  <2> QED BY <2>2
<1>4. ASSUME NEW n \in Nat, n \in N PROVE n + 1 \in N
  <2>1. PICK f : Solves(f, n)
    BY <1>4
  <2> DEFINE g == [T \in SUBSET S |->
                     IF Cardinality(T) <= n THEN f[T] ELSE NextViews(v, T, f)]
  <2>2. ASSUME NEW T \in SUBSET S, Cardinality(T) <= n + 1
        PROVE  g[T] = NextViews(v, T, g)
    <3>1. \A m \in T : Cardinality(T \ {m}) <= n
      BY <1>1, <1>2, <2>2
    <3>2. \A m \in T : f[T \ {m}] = g[T \ {m}]
      BY <1>2, <3>1
    <3>3. NextViews(v, T, f) = NextViews(v, T, g)
      <4> HIDE DEF g
      <4> QED BY <3>2, NextViewsLocal
    <3>4. g[T] = NextViews(v, T, f)
      BY <2>1, <2>2
    <3> QED BY <3>3, <3>4
  <2>3. Solves(g, n + 1)
    <3> HIDE DEF g
    <3> QED BY <2>2
  <2>4. n + 1 \in Nat /\ \E h : Solves(h, n + 1)
    <3> HIDE DEF g, Solves
    <3> QED BY <2>3
  <2> QED BY <2>4
<1>5. Cardinality(S) \in N
  <2>1. Nat \subseteq N
    <3> HIDE DEF N
    <3> QED BY <1>3, <1>4, NatInductionSet
  <2> QED BY <1>1, <2>1
<1>6. PICK f : Solves(f, Cardinality(S))
  BY <1>5
<1>7. \A T \in SUBSET S : f[T] = NextViews(v, T, f)
  BY <1>6, FS_Subset
<1> DEFINE g == [T \in SUBSET S |-> f[T]]
<1>8. ASSUME NEW T \in SUBSET S PROVE g[T] = NextViews(v, T, g)
  <2>1. \A m \in T : f[T \ {m}] = g[T \ {m}]
    OBVIOUS
  <2>2. NextViews(v, T, f) = NextViews(v, T, g)
    <3> HIDE DEF g
    <3> QED BY <2>1, NextViewsLocal
  <2>3. g[T] = f[T]
    OBVIOUS
  <2> QED BY <1>7, <2>2, <2>3
<1>9. g = [T \in SUBSET S |-> NextViews(v, T, g)]
  <2>1. \A T \in SUBSET S : g[T] = NextViews(v, T, g)
    BY <1>8
  <2>2. g = [T \in SUBSET S |-> g[T]]
    OBVIOUS
  <2> HIDE DEF g
  <2> QED BY <2>1, <2>2
<1> QED BY <1>9

\* Whatever it takes, in whatever order, a validator ends up with a view that fits.
LEMMA ViewsFit ==
    ASSUME IInv, NEW v \in Validator, NEW S \in SUBSET created,
           NEW view \in ViewsAfter(v, S)
    PROVE  Fits(v, view)
<1>1. IsFiniteSet(S)
  BY FS_Subset DEF IInv
<1>2. PICK after : /\ ViewsAfter(v, S) = after[S]
                   /\ after = [T \in SUBSET S |-> NextViews(v, T, after)]
  <2> DEFINE after == CHOOSE f : f = [T \in SUBSET S |-> NextViews(v, T, f)]
  <2>1. after = [T \in SUBSET S |-> NextViews(v, T, after)]
    BY <1>1, ViewsAfterExist
  <2>2. ViewsAfter(v, S) = after[S]
    BY DEF ViewsAfter, NextViews
  <2> QED BY <2>1, <2>2
<1> DEFINE X == {T \in SUBSET S : \A l \in after[T] : Fits(v, l)}
<1>3. ASSUME NEW T \in SUBSET S, \A U \in SUBSET T : U # T => U \in X PROVE T \in X
  <2>1. after[T] = NextViews(v, T, after)
    BY <1>2
  <2>2. CASE T = {}
    <3>1. after[T] = {latest[v]}
      BY <2>1, <2>2 DEF NextViews
    <3>2. Fits(v, latest[v])
      BY DEF Fits, IInv, Views
    <3> QED BY <3>1, <3>2
  <2>3. CASE T # {}
    <3>1. after[T] = UNION {{Taken(l, m) : l \in after[T \ {m}]} : m \in T}
      BY <2>1, <2>3 DEF NextViews
    <3>2. ASSUME NEW m \in T, NEW l \in after[T \ {m}] PROVE Fits(v, Taken(l, m))
      <4>1. T \ {m} \in X /\ m \in created
        BY <1>3
      <4>2. View(created, l) /\ Closed(past, l)
            /\ \A n \in created : Covers(latest[v], n) => Covers(l, n)
        BY <4>1 DEF Fits
      <4>3. /\ View(created, Taken(l, m)) /\ Closed(past, Taken(l, m))
            /\ \A n \in created : Covers(l, n) => Covers(Taken(l, m), n)
        BY <4>1, <4>2, TakenClosed
      <4> QED BY <4>2, <4>3 DEF Fits
    <3>3. ASSUME NEW k \in after[T] PROVE Fits(v, k)
      <4>1. PICK m \in T : \E l \in after[T \ {m}] : k = Taken(l, m)
        BY <3>1
      <4> QED BY <3>2, <4>1
    <3> QED BY <3>3
  <2> QED BY <2>2, <2>3
<1>4. S \in X
  <2> HIDE DEF X
  <2> QED BY <1>1, <1>3, FiniteStrongInduction
<1> QED BY <1>2, <1>4
-----------------------------------------------------------------------------
(* Chains *)

LEMMA PrefixIff ==
    ASSUME NEW D, NEW s \in Seq(D), NEW t \in Seq(D)
    PROVE  IsPrefix(s, t) <=> Len(s) <= Len(t) /\ \A i \in 1 .. Len(s) : s[i] = t[i]
<1>1. ASSUME Len(s) <= Len(t)
      PROVE  /\ Len(SubSeq(t, 1, Len(s))) = Len(s)
             /\ \A i \in 1 .. Len(s) : SubSeq(t, 1, Len(s))[i] = t[i]
  BY <1>1
<1>2. SubSeq(s, 1, Len(s)) = s
  OBVIOUS
<1> QED BY <1>1, <1>2 DEF IsPrefix

\* The first i blocks of a chain.
LEMMA CutOff ==
    ASSUME NEW D, NEW s \in Seq(D), NEW i \in 0 .. Len(s)
    PROVE  /\ SubSeq(s, 1, i) \in Seq(D) /\ Len(SubSeq(s, 1, i)) = i
           /\ \A j \in 1 .. i : SubSeq(s, 1, i)[j] = s[j]
           /\ IsPrefix(SubSeq(s, 1, i), s)
<1>1. /\ SubSeq(s, 1, i) \in Seq(D) /\ Len(SubSeq(s, 1, i)) = i
      /\ \A j \in 1 .. i : SubSeq(s, 1, i)[j] = s[j]
  OBVIOUS
<1>2. IsPrefix(SubSeq(s, 1, i), s)
  <2> PICK c : c = SubSeq(s, 1, i)
    OBVIOUS
  <2>1. c \in Seq(D) /\ Len(c) = i /\ \A j \in 1 .. i : c[j] = s[j]
    BY <1>1
  <2>2. IsPrefix(c, s) <=> Len(c) <= Len(s) /\ \A j \in 1 .. Len(c) : c[j] = s[j]
    BY <2>1, PrefixIff, Zenon
  <2> QED BY <2>1, <2>2
<1> QED BY <1>1, <1>2

LEMMA PrefixTransitive ==
    ASSUME NEW D, NEW s \in Seq(D), NEW t \in Seq(D), NEW u \in Seq(D),
           IsPrefix(s, t), IsPrefix(t, u)
    PROVE  IsPrefix(s, u)
BY PrefixIff

LEMMA PrefixesIff ==
    ASSUME NEW D, NEW s \in Seq(D), NEW p
    PROVE  p \in Prefixes(s) <=> p \in Seq(D) /\ IsPrefix(p, s)
<1>1. ASSUME p \in Prefixes(s) PROVE p \in Seq(D) /\ IsPrefix(p, s)
  <2>1. PICK i \in 0 .. Len(s) : p = SubSeq(s, 1, i)
    BY <1>1 DEF Prefixes
  <2> QED BY <2>1, CutOff
<1>2. ASSUME p \in Seq(D), IsPrefix(p, s) PROVE p \in Prefixes(s)
  <2>1. Len(p) \in 0 .. Len(s) /\ SubSeq(p, 1, Len(p)) = SubSeq(s, 1, Len(p))
    BY <1>2 DEF IsPrefix
  <2>2. SubSeq(p, 1, Len(p)) = p
    BY <1>2
  <2> QED BY <2>1, <2>2 DEF Prefixes
<1> QED BY <1>1, <1>2

\* Where two chains fork: the first block that is not the same.
LEMMA Fork ==
    ASSUME NEW D, NEW s \in Seq(D), NEW t \in Seq(D), ~IsPrefix(s, t), ~IsPrefix(t, s)
    PROVE  \E i \in 1 .. Len(s) :
              /\ i <= Len(t) /\ s[i] # t[i]
              /\ \A j \in 1 .. i - 1 : s[j] = t[j]
<1> DEFINE N == {i \in 1 .. Len(s) : i <= Len(t) /\ s[i] # t[i]}
<1>1. N \in SUBSET Nat /\ N # {}
  <2>1. Len(s) \in Nat /\ Len(t) \in Nat
    OBVIOUS
  <2>2. ~(Len(s) <= Len(t) /\ \A i \in 1 .. Len(s) : s[i] = t[i])
    BY PrefixIff
  <2>3. ~(Len(t) <= Len(s) /\ \A i \in 1 .. Len(t) : t[i] = s[i])
    BY PrefixIff
  <2>4. CASE Len(s) <= Len(t)
    <3>1. PICK i \in 1 .. Len(s) : s[i] # t[i]
      BY <2>2, <2>4
    <3> QED BY <2>1, <2>4, <3>1
  <2>5. CASE ~(Len(s) <= Len(t))
    <3>1. PICK i \in 1 .. Len(t) : t[i] # s[i]
      BY <2>1, <2>3, <2>5
    <3> QED BY <2>1, <2>5, <3>1
  <2> QED BY <2>4, <2>5
<1>2. PICK i \in N : \A k \in N : i <= k
  BY <1>1, SmallestMember
<1>3. ASSUME NEW j \in 1 .. i - 1 PROVE s[j] = t[j]
  <2>1. j \in 1 .. Len(s) /\ j <= Len(t) /\ ~(i <= j)
    BY <1>2
  <2> QED BY <1>2, <2>1
<1> QED BY <1>2, <1>3
-----------------------------------------------------------------------------
(* The fork choice *)

\* A block is given by the data on its chain.
Chains == Seq(Data \cup {NoData})

\* A set of messages with one of each sender and its block.
Votes(J) ==
    /\ J \subseteq created /\ IsFiniteSet(J)
    /\ \A m \in J : sender[m] \in Validator /\ block[m] \in Chains
    /\ \A m, n \in J : sender[m] = sender[n] => m = n

\* What a majority has voted for is more than what votes for anything else.
LEMMA Outweighs ==
    ASSUME NEW J, Votes(J), NEW C \in Majorities, NEW A \in SUBSET J, NEW B \in SUBSET J,
           A \cap B = {}, \A v \in C : \E m \in A : sender[m] = v
    PROVE  Cardinality(B) \in Nat /\ Cardinality(A) \in Nat /\ Cardinality(B) < Cardinality(A)
<1>1. /\ IsFiniteSet(J) /\ IsFiniteSet(A) /\ IsFiniteSet(B) /\ IsFiniteSet(C)
      /\ IsFiniteSet(A \cup B)
  BY FS_Subset, FS_Union, ValidatorAssumption DEF Votes, Majorities
<1>2. /\ Cardinality(J) \in Nat /\ Cardinality(A) \in Nat /\ Cardinality(B) \in Nat
      /\ Cardinality(C) \in Nat /\ Cardinality(Validator) \in Nat
      /\ 2 * Cardinality(C) > Cardinality(Validator)
  BY <1>1, FS_CardinalityType, ValidatorAssumption DEF Majorities
<1>3. Cardinality(J) <= Cardinality(Validator)
  <2> DEFINE f == [m \in J |-> sender[m]]
  <2>1. f \in Injection(J, Validator)
    BY DEF Votes, Injection, IsInjective
  <2> QED BY <2>1, FS_Injection, ValidatorAssumption
<1>4. Cardinality(C) <= Cardinality(A)
  <2> DEFINE f == [v \in C |-> CHOOSE m \in A : sender[m] = v]
  <2>1. \A v \in C : f[v] \in A /\ sender[f[v]] = v
    OBVIOUS
  <2>2. f \in Injection(C, A)
    BY <2>1 DEF Injection, IsInjective
  <2> QED BY <1>1, <2>2, FS_Injection
<1>5. Cardinality(A) + Cardinality(B) <= Cardinality(J)
  <2>1. Cardinality(A \cup B) = Cardinality(A) + Cardinality(B) - Cardinality(A \cap B)
    BY <1>1, FS_Union
  <2>2. Cardinality(A \cap B) = 0
    BY FS_EmptySet
  <2>3. A \cup B \in SUBSET J
    OBVIOUS
  <2>4. Cardinality(A \cup B) <= Cardinality(J)
    BY <1>1, <2>3, FS_Subset
  <2> QED BY <1>2, <2>1, <2>2, <2>4
<1> QED BY <1>2, <1>3, <1>4, <1>5

\* optimized_ghost keeps what a majority has voted for: at the fork where a tip
\* without b leaves the chain of b, the branch of b is heavier.
LEMMA TipKeeps ==
    ASSUME NEW J, Votes(J), NEW C \in Majorities, NEW b \in Chains,
           \A v \in C : \E m \in J : sender[m] = v /\ IsPrefix(b, block[m]),
           C # {}, NEW tip \in Tips(J)
    PROVE  tip \in Chains /\ IsPrefix(b, tip)
<1> DEFINE D == Data \cup {NoData}
           state == UNION {Prefixes(block[m]) : m \in J}
<1>1. \A m \in J : block[m] \in Seq(D)
  BY DEF Votes, Chains
<1>2. /\ tip \in state
      /\ \A c \in state : /\ IsPrefix(tip, c) => c = tip
                          /\ \A i \in 1 .. Len(tip) :
                                Len(c) = i /\ Front(c) = SubSeq(tip, 1, i - 1)
                                   => Score(J, c) <= Score(J, SubSeq(tip, 1, i))
  BY DEF Tips
<1>3. tip \in Seq(D) /\ b \in Seq(D)
  BY <1>1, <1>2, PrefixesIff DEF Chains
<1>4. \A c \in Seq(D) : IsPrefix(c, b) => c \in state
  <2>1. PICK m \in J : IsPrefix(b, block[m])
    OBVIOUS
  <2>2. ASSUME NEW c \in Seq(D), IsPrefix(c, b) PROVE c \in state
    <3>1. IsPrefix(c, block[m])
      BY <1>1, <1>3, <2>1, <2>2, PrefixTransitive
    <3>2. c \in Prefixes(block[m])
      BY <1>1, <3>1, PrefixesIff
    <3> QED BY <3>2
  <2> QED BY <2>2
<1>5. ASSUME ~IsPrefix(b, tip) PROVE FALSE
  <2>1. ~IsPrefix(tip, b)
    <3>1. b \in state
      BY <1>3, <1>4, PrefixIff
    <3>2. IsPrefix(tip, b) => b = tip
      BY <1>2, <3>1
    <3> QED BY <1>3, <1>5, <3>2, PrefixIff
  <2>2. PICK i \in 1 .. Len(b) : /\ i <= Len(tip) /\ b[i] # tip[i]
                                /\ \A j \in 1 .. i - 1 : b[j] = tip[j]
    BY <1>3, <1>5, <2>1, Fork
  <2>3. PICK c, t : c = SubSeq(b, 1, i) /\ t = SubSeq(tip, 1, i)
    OBVIOUS
  <2>4. /\ c \in Seq(D) /\ Len(c) = i /\ \A j \in 1 .. i : c[j] = b[j]
        /\ t \in Seq(D) /\ Len(t) = i /\ \A j \in 1 .. i : t[j] = tip[j]
        /\ IsPrefix(c, b)
    BY <1>3, <2>2, <2>3, CutOff
  <2>5. Front(c) = SubSeq(tip, 1, i - 1)
    <3>1. i - 1 \in 0 .. Len(c) /\ i - 1 \in 0 .. Len(tip)
      BY <2>2, <2>4
    <3> PICK x, y : x = SubSeq(c, 1, i - 1) /\ y = SubSeq(tip, 1, i - 1)
      OBVIOUS
    <3>2. /\ x \in Seq(D) /\ Len(x) = i - 1 /\ \A j \in 1 .. i - 1 : x[j] = c[j]
          /\ y \in Seq(D) /\ Len(y) = i - 1 /\ \A j \in 1 .. i - 1 : y[j] = tip[j]
      BY <1>3, <2>4, <3>1, CutOff
    <3>3. \A j \in 1 .. i - 1 : x[j] = y[j]
      BY <2>2, <2>4, <3>2
    <3>4. x = y
      BY <3>2, <3>3
    <3> QED BY <2>4, <3>4 DEF Front
  <2>6. Score(J, c) <= Score(J, t)
    <3>1. c \in state
      BY <1>4, <2>4
    <3>2. i \in 1 .. Len(tip)
      BY <2>2
    <3> QED BY <1>2, <2>3, <2>4, <2>5, <3>1, <3>2
  <2> DEFINE A == {m \in J : IsPrefix(c, block[m])}
             B == {m \in J : IsPrefix(t, block[m])}
  <2>7. A \cap B = {}
    <3> SUFFICES ASSUME NEW m \in J, IsPrefix(c, block[m]), IsPrefix(t, block[m])
                 PROVE  FALSE
      OBVIOUS
    <3>1. c[i] = block[m][i] /\ t[i] = block[m][i]
      BY <1>1, <2>4, PrefixIff
    <3> QED BY <2>2, <2>4, <3>1
  <2>8. \A v \in C : \E m \in A : sender[m] = v
    <3>1. \A m \in J : IsPrefix(b, block[m]) => IsPrefix(c, block[m])
      BY <1>1, <1>3, <2>4, PrefixTransitive
    <3> QED BY <3>1
  <2>9. Cardinality(B) \in Nat /\ Cardinality(A) \in Nat /\ Cardinality(B) < Cardinality(A)
    <3> HIDE DEF A, B
    <3>1. A \in SUBSET J /\ B \in SUBSET J
      BY DEF A, B
    <3> QED BY <2>7, <2>8, <3>1, Outweighs
  <2> QED BY <2>6, <2>9 DEF Score
<1> QED BY <1>3, <1>5 DEF Chains
-----------------------------------------------------------------------------
(* The invariant *)

BlockTypes == \A m \in created : block[m] \in Chains

\* What is not a first message holds a block on a tip of its justification.
Chosen ==
    \A m \in created : justification[m] # {} =>
        \E tip \in Tips(justification[m]) : block[m] = Append(tip, NoData)

ChainInv == IInv /\ BlockTypes /\ Chosen

\* The tips of a justification stay what they are.
LEMMA TipsStay ==
    ASSUME NEW J, \A m \in J : block'[m] = block[m]
    PROVE  Tips(J)' = Tips(J)
<1>1. {Prefixes(block'[m]) : m \in J} = {Prefixes(block[m]) : m \in J}
  OBVIOUS
<1>2. \A b : {m \in J : IsPrefix(b, block'[m])} = {m \in J : IsPrefix(b, block[m])}
  OBVIOUS
<1>3. \A b : Score(J, b)' = Score(J, b)
  BY <1>2 DEF Score
<1> QED BY <1>1, <1>3 DEF Tips

\* The tips of votes are chains.
LEMMA TipsAreChains ==
    ASSUME NEW J, \A m \in J : block[m] \in Chains, NEW tip \in Tips(J)
    PROVE  tip \in Chains
<1>1. PICK m \in J : tip \in Prefixes(block[m])
  BY DEF Tips
<1> QED BY <1>1, PrefixesIff DEF Chains

\* A new message leaves the blocks of the others as they are.
LEMMA BlockAdded ==
    ASSUME ChainInv, NEW v \in Validator, NEW l, Fits(v, l), NEW J, Added(v, l, J), Basis(v, l, J),
           NEW b \in Chains, J # {} => \E tip \in Tips(J) : b = Append(tip, NoData),
           block' = [m \in created' |-> IF m = NextMessage(v) THEN b ELSE block[m]]
    PROVE  ChainInv'
<1> PICK m : m = NextMessage(v)
  OBVIOUS
<1>1. IInv'
  BY AddedInv DEF ChainInv
<1>2. /\ m \in Message /\ m \notin created /\ created' = created \cup {m}
      /\ justification'[m] = J
      /\ \A n \in Message \ {m} : justification'[n] = justification[n]
  BY AddedParts DEF ChainInv
<1>3. J \subseteq created /\ created \subseteq Message
      /\ justification \in [Message -> SUBSET created]
  BY DEF Basis, ChainInv, IInv, TypeOK
<1>4. block'[m] = b /\ \A n \in created : block'[n] = block[n]
  BY <1>2
<1>5. BlockTypes'
  <2>1. \A n \in created \cup {m} : block'[n] \in Chains
    <3> HIDE DEF Chains
    <3> QED BY <1>4 DEF ChainInv, BlockTypes
  <2> QED BY <1>2, <2>1 DEF BlockTypes, Chains
<1>6. Chosen'
  <2>1. ASSUME NEW n \in created', justification'[n] # {}
        PROVE  \E tip \in Tips(justification[n])' : block'[n] = Append(tip, NoData)
    <3> PICK K : K = justification'[n]
      OBVIOUS
    <3>1. K \subseteq created /\ \E tip \in Tips(K) : block'[n] = Append(tip, NoData)
      <4>1. CASE n = m
        BY <1>2, <1>3, <1>4, <2>1, <4>1
      <4>2. CASE n \in created
        BY <1>2, <1>3, <1>4, <2>1, <4>2 DEF ChainInv, Chosen
      <4> QED BY <1>2, <4>1, <4>2
    <3>2. Tips(K)' = Tips(K)
      BY <1>4, <3>1, TipsStay
    <3>3. Tips(justification[n])' = Tips(K)'
      OBVIOUS
    <3> QED BY <3>1, <3>2, <3>3
  <2> QED BY <2>1 DEF Chosen
<1> QED BY <1>1, <1>5, <1>6 DEF ChainInv

\* A first message has nothing to choose from.
LEMMA FirstInv ==
    ASSUME ChainInv, NEW v \in Validator, First(v)
    PROVE  ChainInv'
<1>1. Fits(v, latest[v]) /\ Added(v, latest[v], {}) /\ Basis(v, latest[v], {})
  BY StartAdds DEF First, ChainInv
<1>2. PICK d \in Data :
         block' = [m \in created' |-> IF m = NextMessage(v) THEN <<d>> ELSE block[m]]
  BY DEF First
<1>3. <<d>> \in Chains
  BY DEF Chains
<1> QED BY <1>1, <1>2, <1>3, BlockAdded

\* A later one holds a block on a tip of its justification.
LEMMA RoundInv ==
    ASSUME ChainInv, NEW v \in Validator, NEW S \in Arrivals(v), Round(v, S)
    PROVE  ChainInv'
<1>1. S \in SUBSET created
  BY DEF Arrivals
<1>2. PICK view \in ViewsAfter(v, S) :
         /\ CreateFrom(v, view)
         /\ \E tip \in Tips(JustificationFrom(v, view)) :
               block' = [m \in created' |->
                            IF m = NextMessage(v) THEN Append(tip, NoData) ELSE block[m]]
  BY DEF Round
<1> PICK J : J = JustificationFrom(v, view)
  OBVIOUS
<1>3. Fits(v, view)
  BY <1>1, ViewsFit DEF ChainInv
<1>4. Added(v, view, J) /\ Basis(v, view, J)
  BY <1>2, <1>3, CreateAdds DEF ChainInv
<1>5. PICK tip \in Tips(J) :
         block' = [m \in created' |->
                      IF m = NextMessage(v) THEN Append(tip, NoData) ELSE block[m]]
  BY <1>2
<1>6. tip \in Chains
  BY <1>4, TipsAreChains DEF Basis, ChainInv, BlockTypes
<1> PICK b : b = Append(tip, NoData)
  OBVIOUS
<1>7. b \in Chains
  BY <1>6 DEF Chains
<1> QED BY <1>3, <1>4, <1>5, <1>7, BlockAdded

\* Every step keeps the invariant.
LEMMA ChainNextInv ==
    ASSUME ChainInv, [ChainNext]_chainVars
    PROVE  ChainInv'
<1>1. CASE ChainNext
  BY <1>1, FirstInv, RoundInv DEF ChainNext
<1>2. CASE UNCHANGED chainVars
  <2>1. UNCHANGED vars /\ block' = block
    BY <1>2 DEF chainVars
  <2>2. IInv'
    BY <2>1, NextInv DEF ChainInv
  <2>3. created' = created /\ justification' = justification
    BY <2>1 DEF vars
  <2>4. BlockTypes'
    BY <2>1, <2>3 DEF ChainInv, BlockTypes
  <2>5. Chosen'
    <3>1. \A J : Tips(J)' = Tips(J)
      BY <2>1 DEF Tips, Score
    <3> QED BY <2>1, <2>3, <3>1 DEF ChainInv, Chosen
  <2> QED BY <2>2, <2>4, <2>5 DEF ChainInv
<1> QED BY <1>1, <1>2

\* The invariant holds in every run.
LEMMA ChainInvariance == ChainSpec => []ChainInv
<1>1. ChainInit => ChainInv
  BY InitInv DEF ChainInit, Init, ChainInv, BlockTypes, Chosen
<1> QED BY <1>1, ChainNextInv, PTL DEF ChainSpec
-----------------------------------------------------------------------------
(* Oracles *)

\* The latest messages L of the members of C contain b, as does some message of
\* each other member in their justifications, and no member has left b since.
Promised(o, b, C, L) ==
    /\ b \in Chains /\ C \in Majorities
    /\ \A v \in C : /\ latest[o][v] = {L[v]} /\ L[v] \in created /\ sender[L[v]] = v
                    /\ IsPrefix(b, block[L[v]])
    /\ \A v, w \in C : v # w =>
          \E n \in justification[L[v]] :
              /\ sender[n] = w /\ IsPrefix(b, block[n])
              /\ \A k \in past[L[w]] : sender[k] = w /\ n \in past[k] => IsPrefix(b, block[k])

\* The message x comes after the latest one of its sender.
Later(o, x) == \E n \in latest[o][sender[x]] : n \in past[x]

\* A promise of o is one.
LEMMA PromisesPromise ==
    ASSUME ChainInv, NEW o \in Validator, NEW p \in Promises(o)
    PROVE  \E L : Promised(o, p[1], p[2], L)
<1> PICK b, C, view : b = p[1] /\ C = p[2] /\ view = LM(past)!Honest(latest[o], {})
  OBVIOUS
<1>1. b \in Blocks /\ C \in Majorities /\ Oracle(view, b, C) /\ Steady(o, b, C)
  BY DEF Promises
<1>2. b \in Chains
  <2>1. PICK m \in created : b \in Prefixes(block[m])
    BY <1>1 DEF Blocks
  <2> QED BY <2>1, PrefixesIff DEF ChainInv, BlockTypes, Chains
<1>3. \A m \in view : latest[o][sender[m]] = {m} /\ m \in created
  <2>1. \A m \in view : latest[o][sender[m]] = {m} /\ m \in Message
    BY DEF LM!Honest
  <2> QED BY <2>1, Parts DEF ChainInv, IInv, TypeOK
<1> DEFINE L == [v \in C |-> CHOOSE m \in view : sender[m] = v /\ IsPrefix(b, block[m])]
<1>4. ASSUME NEW v \in C
      PROVE  L[v] \in view /\ sender[L[v]] = v /\ IsPrefix(b, block[L[v]])
  BY <1>1 DEF Oracle, Agreeing
<1>5. ASSUME NEW v \in C, NEW m \in view, sender[m] = v PROVE m = L[v]
  <2> HIDE DEF L
  <2>1. latest[o][v] = {m} /\ latest[o][v] = {L[v]}
    BY <1>3, <1>4, <1>5
  <2> QED BY <2>1
<1>6. ASSUME NEW v \in C, NEW w \in C, v # w
      PROVE  \E n \in justification[L[v]] :
                /\ sender[n] = w /\ IsPrefix(b, block[n])
                /\ \A k \in past[L[w]] : sender[k] = w /\ n \in past[k] => IsPrefix(b, block[k])
  <2> HIDE DEF L
  <2>1. PICK m \in Agreeing(view, v, b) : Agreeing(justification[m], w, b) # {}
    BY <1>1, <1>6 DEF Oracle, Agree
  <2>2. m = L[v]
    BY <1>5, <2>1 DEF Agreeing
  <2>3. PICK n \in justification[L[v]] : sender[n] = w /\ IsPrefix(b, block[n])
    BY <2>1, <2>2 DEF Agreeing
  <2>4. L[v] \in latest[o][v] /\ L[w] \in latest[o][w]
    BY <1>3, <1>4
  <2>5. \A k \in past[L[w]] : sender[k] = w /\ n \in past[k] => IsPrefix(b, block[k])
    BY <1>1, <1>6, <2>3, <2>4 DEF Steady, LM!Depends
  <2> QED BY <2>3, <2>5
<1>7. Promised(o, b, C, L)
  <2> HIDE DEF L
  <2> QED BY <1>1, <1>2, <1>3, <1>4, <1>6 DEF Promised
<1> QED BY <1>7

\* The messages of a justification are votes.
LEMMA Justifies ==
    ASSUME ChainInv, NEW x \in created
    PROVE  /\ Votes(justification[x])
           /\ justification[x] \subseteq past[x] /\ past[x] \subseteq created
           /\ \A n \in past[x] : past[n] \subseteq past[x] /\ past[n] # past[x]
           /\ \A n \in past[x] : \E k \in justification[x] :
                 sender[k] = sender[n] /\ (k = n \/ n \in past[k])
<1>1. /\ x \in Message /\ created \subseteq Message /\ justification[x] \subseteq created
      /\ past[x] \subseteq created /\ IsFiniteSet(created)
      /\ justification[x] \subseteq past[x]
      /\ \A n \in past[x] : past[n] \subseteq past[x]
  BY DEF ChainInv, IInv, TypeOK, Transitive
<1>2. Votes(justification[x])
  <2>1. IsFiniteSet(justification[x])
    BY <1>1, FS_Subset
  <2> QED BY <1>1, <2>1, Parts DEF Votes, ChainInv, BlockTypes, IInv, Justified
<1>3. \A n \in created : n \notin past[n]
  BY <1>1, Order DEF ChainInv, IInv, Numbered
<1>4. \A n \in past[x] : \E k \in justification[x] :
         sender[k] = sender[n] /\ (k = n \/ n \in past[k])
  BY <1>1 DEF ChainInv, IInv, Justified, Numbered
<1> QED BY <1>1, <1>2, <1>3, <1>4
\* The argument for one message x: each member v has a message in the justification
\* of x that is not older than what L[sender[x]] knows of v, and contains b.
LEMMA StepKeeps ==
    ASSUME ChainInv, NEW o \in Validator, NEW b, NEW C, NEW L, Promised(o, b, C, L),
           NEW x \in created, sender[x] \in C, Later(o, x),
           \A n \in past[x] : sender[n] \in C /\ Later(o, n) => IsPrefix(b, block[n])
    PROVE  IsPrefix(b, block[x])
<1> DEFINE w == sender[x]
           J == justification[x]
<1>1. /\ Votes(J) /\ J \subseteq past[x] /\ past[x] \subseteq created
      /\ \A n \in past[x] : past[n] \subseteq past[x]
      /\ \A n \in past[x] : \E k \in J : sender[k] = sender[n] /\ (k = n \/ n \in past[k])
  BY Justifies
<1>2. L[w] \in past[x] /\ L[w] \in created /\ latest[o][w] = {L[w]}
  BY DEF Promised, Later
<1>3. ASSUME NEW v \in C PROVE \E k \in J : sender[k] = v /\ IsPrefix(b, block[k])
  <2>1. /\ latest[o][v] = {L[v]} /\ L[v] \in created /\ sender[L[v]] = v
        /\ IsPrefix(b, block[L[v]])
    BY DEF Promised
  <2>2. CASE v = w
    <3>1. PICK k \in J : sender[k] = w /\ (k = L[w] \/ L[w] \in past[k])
      BY <1>1, <1>2, <2>1, <2>2
    <3>2. L[w] \in past[k] => Later(o, k)
      BY <1>2, <3>1 DEF Later
    <3> QED BY <1>1, <2>1, <2>2, <3>1, <3>2
  <2>3. CASE v # w
    <3>1. PICK n \in justification[L[w]] :
             /\ sender[n] = v /\ IsPrefix(b, block[n])
             /\ \A k \in past[L[v]] : sender[k] = v /\ n \in past[k] => IsPrefix(b, block[k])
      BY <2>3 DEF Promised
    <3>2. n \in past[x] /\ n \in created
      BY <1>1, <1>2, <3>1, Justifies
    <3>3. PICK k \in J : sender[k] = v /\ (k = n \/ n \in past[k])
      BY <1>1, <3>1, <3>2
    <3>4. k \in created /\ k \in past[x]
      BY <1>1
    <3>5. k = L[v] \/ k \in past[L[v]] \/ L[v] \in past[k]
      BY <2>1, <3>3, <3>4, Order DEF ChainInv, IInv, TypeOK, Numbered
    <3>6. L[v] \in past[k] => Later(o, k)
      BY <2>1, <3>3 DEF Later
    <3> QED BY <2>1, <3>1, <3>3, <3>4, <3>5, <3>6
  <2> QED BY <2>2, <2>3
<1>4. J # {} /\ C # {}
  BY <1>3
<1>5. PICK tip \in Tips(J) : block[x] = Append(tip, NoData)
  BY <1>4 DEF ChainInv, Chosen
<1>6. tip \in Chains /\ IsPrefix(b, tip) /\ b \in Chains
  BY <1>1, <1>3, <1>4, TipKeeps DEF Promised
<1>7. /\ Append(tip, NoData) \in Seq(Data \cup {NoData})
      /\ IsPrefix(tip, Append(tip, NoData))
  <2>1. /\ Append(tip, NoData) \in Seq(Data \cup {NoData})
        /\ Len(tip) <= Len(Append(tip, NoData))
        /\ \A i \in 1 .. Len(tip) : tip[i] = Append(tip, NoData)[i]
    BY <1>6 DEF Chains
  <2> QED BY <1>6, <2>1, PrefixIff DEF Chains
<1> QED BY <1>5, <1>6, <1>7, PrefixTransitive DEF Chains

\* No member ever leaves b.
LEMMA Kept ==
    ASSUME ChainInv, NEW o \in Validator, NEW b, NEW C, NEW L, Promised(o, b, C, L),
           NEW x \in created, sender[x] \in C, Later(o, x)
    PROVE  IsPrefix(b, block[x])
<1> DEFINE X == {T \in SUBSET created : \A y \in created :
                    past[y] = T /\ sender[y] \in C /\ Later(o, y) => IsPrefix(b, block[y])}
<1>1. past[x] \subseteq created /\ IsFiniteSet(past[x])
  BY Justifies, FS_Subset DEF ChainInv, IInv
<1>2. ASSUME NEW T \in SUBSET past[x], \A U \in SUBSET T : U # T => U \in X
      PROVE  T \in X
  <2>1. ASSUME NEW y \in created, past[y] = T, sender[y] \in C, Later(o, y)
        PROVE  IsPrefix(b, block[y])
    <3>1. ASSUME NEW n \in past[y], sender[n] \in C, Later(o, n) PROVE IsPrefix(b, block[n])
      <4>1. n \in created /\ past[n] \in SUBSET T /\ past[n] # T
        BY <2>1, Justifies
      <4> QED BY <1>2, <3>1, <4>1
    <3> QED BY <2>1, <3>1, StepKeeps
  <2> QED BY <1>1, <2>1
<1>3. past[x] \in X
  <2> HIDE DEF X
  <2> QED BY <1>1, <1>2, FiniteStrongInduction
<1> QED BY <1>3

-----------------------------------------------------------------------------
(* The theorems *)

\* A steady oracle is a promise: whatever its members receive, and in whatever
\* order, none estimates a block that does not contain b again.
THEOREM OraclesKept == ChainSpec => []OracleKept
<1>1. ChainInv => OracleKept
  <2> SUFFICES ASSUME ChainInv, NEW o \in Validator, NEW p \in Promises(o), NEW x \in created,
                      sender[x] \in p[2], \E n \in latest[o][sender[x]] : LM(past)!Depends(x, n)
               PROVE  IsPrefix(p[1], block[x])
    BY DEF OracleKept
  <2>1. PICK L : Promised(o, p[1], p[2], L)
    BY PromisesPromise
  <2>2. Later(o, x)
    BY DEF Later, LM!Depends
  <2> QED BY <2>1, <2>2, Kept
<1> QED BY <1>1, ChainInvariance, PTL

\* Whatever two validators hold for final is on one chain.
THEOREM NoConflicts == ChainSpec => []NoConflict
<1>1. ChainInv => NoConflict
  <2> SUFFICES ASSUME ChainInv, NEW o \in Validator, NEW q \in Validator,
                      NEW p \in Promises(o), NEW r \in Promises(q)
               PROVE  IsPrefix(p[1], r[1]) \/ IsPrefix(r[1], p[1])
    BY DEF NoConflict
  <2> PICK b, c, C, D : b = p[1] /\ C = p[2] /\ c = r[1] /\ D = r[2]
    OBVIOUS
  <2>1. PICK L, K : Promised(o, b, C, L) /\ Promised(q, c, D, K)
    BY PromisesPromise
  <2>2. PICK w \in C : w \in D
    <3>1. C \subseteq Validator /\ D \subseteq Validator
          /\ 2 * Cardinality(C) > Cardinality(Validator)
          /\ 2 * Cardinality(D) > Cardinality(Validator)
      BY <2>1 DEF Promised, Majorities
    <3>2. IsFiniteSet(C) /\ IsFiniteSet(D)
      BY <3>1, FS_Subset, ValidatorAssumption
    <3>3. /\ Cardinality(C) \in Nat /\ Cardinality(D) \in Nat
          /\ Cardinality(Validator) \in Nat
      BY <3>2, FS_CardinalityType, ValidatorAssumption
    <3>4. Cardinality(C) + Cardinality(D) > Cardinality(Validator)
      BY <3>1, <3>3
    <3> QED BY <3>1, <3>4, FS_MajoritiesIntersect, ValidatorAssumption
  <2>3. /\ latest[o][w] = {L[w]} /\ L[w] \in created /\ sender[L[w]] = w
        /\ latest[q][w] = {K[w]} /\ K[w] \in created /\ sender[K[w]] = w
        /\ IsPrefix(b, block[L[w]]) /\ IsPrefix(c, block[K[w]])
        /\ b \in Chains /\ c \in Chains
    BY <2>1, <2>2 DEF Promised
  <2>4. L[w] = K[w] \/ K[w] \in past[L[w]] \/ L[w] \in past[K[w]]
    BY <2>3, Order DEF ChainInv, IInv, TypeOK, Numbered
  <2>5. \E x \in created : IsPrefix(b, block[x]) /\ IsPrefix(c, block[x])
    <3>1. CASE L[w] = K[w]
      BY <2>3, <3>1
    <3>2. CASE K[w] \in past[L[w]]
      <4>1. Later(q, L[w])
        BY <2>3, <3>2 DEF Later
      <4>2. IsPrefix(c, block[L[w]])
        BY <2>1, <2>2, <2>3, <4>1, Kept
      <4> QED BY <2>3, <4>2
    <3>3. CASE L[w] \in past[K[w]]
      <4>1. Later(o, K[w])
        BY <2>3, <3>3 DEF Later
      <4>2. IsPrefix(b, block[K[w]])
        BY <2>1, <2>2, <2>3, <4>1, Kept
      <4> QED BY <2>3, <4>2
    <3> QED BY <2>4, <3>1, <3>2, <3>3
  <2>6. PICK t \in Chains : IsPrefix(b, t) /\ IsPrefix(c, t)
    BY <2>5 DEF ChainInv, BlockTypes
  <2>7. /\ Len(b) <= Len(t) /\ \A i \in 1 .. Len(b) : b[i] = t[i]
        /\ Len(c) <= Len(t) /\ \A i \in 1 .. Len(c) : c[i] = t[i]
    BY <2>3, <2>6, PrefixIff DEF Chains
  <2>8. IsPrefix(b, c) \/ IsPrefix(c, b)
    <3>1. Len(b) \in Nat /\ Len(c) \in Nat
      BY <2>3 DEF Chains
    <3>2. CASE Len(b) <= Len(c)
      <4>1. \A i \in 1 .. Len(b) : b[i] = c[i]
        BY <2>7, <3>1, <3>2
      <4> QED BY <2>3, <3>2, <4>1, PrefixIff DEF Chains
    <3>3. CASE Len(c) <= Len(b)
      <4>1. \A i \in 1 .. Len(c) : c[i] = b[i]
        BY <2>7, <3>1, <3>3
      <4> QED BY <2>3, <3>3, <4>1, PrefixIff DEF Chains
    <3> QED BY <3>1, <3>2, <3>3
  <2> QED BY <2>8
<1> QED BY <1>1, ChainInvariance, PTL

\* In the chain no validator equivocates, views stay closed and every estimate can
\* be reproduced: the chain takes steps that deliver and create as Protocol does.
THEOREM ChainNeverEquivocates ==
    ChainSpec => [](NoSelfEquivocation /\ ViewClosed /\ Reproducible)
<1>1. ChainInv => NoSelfEquivocation /\ ViewClosed /\ Reproducible
  BY NobodyEquivocates, ViewsClosed, Reproduces DEF ChainInv
<1> QED BY <1>1, ChainInvariance, PTL
=============================================================================
