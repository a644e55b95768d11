-------------------------- MODULE Messages_proofs --------------------------
(***************************************************************************)
(* Facts about the dependency and the equivocation relation that hold in   *)
(* every message graph.                                                    *)
(***************************************************************************)
EXTENDS Messages, TLAPS

\* The past of a message is closed and holds the message's justification.
LEMMA PastClosed ==
    ASSUME NEW m \in Message
    PROVE  /\ Past[m] \subseteq Message
           /\ justification[m] \subseteq Past[m]
           /\ Closed(Past[m])
<1>1. Past[m] = {n \in Message : \A S \in SUBSET Message :
                    justification[m] \subseteq S /\ Closed(S) => n \in S}
  BY DEF Past
<1>2. justification[m] \subseteq Message
  BY JustificationAssumption
<1>3. Closed(Past[m])
  <2> SUFFICES ASSUME NEW x \in Past[m], NEW y \in justification[x]
               PROVE  y \in Past[m]
    BY DEF Closed
  <2>1. x \in Message /\ y \in Message
    BY <1>1, JustificationAssumption
  <2>2. ASSUME NEW S \in SUBSET Message, justification[m] \subseteq S, Closed(S)
        PROVE  y \in S
    BY <1>1, <2>2 DEF Closed
  <2> QED BY <1>1, <2>1, <2>2
<1> QED BY <1>1, <1>2, <1>3

\* `depends` is transitive: what a message knows includes what it knows of.
THEOREM DependsTransitive ==
    ASSUME NEW m \in Message, NEW n \in Message, NEW k \in Message,
           Depends(m, n), Depends(n, k)
    PROVE  Depends(m, k)
<1>1. Past[m] \in SUBSET Message /\ Closed(Past[m])
  BY PastClosed
<1>2. justification[n] \subseteq Past[m]
  BY <1>1 DEF Depends, Closed
<1>3. Past[n] = {x \in Message : \A S \in SUBSET Message :
                    justification[n] \subseteq S /\ Closed(S) => x \in S}
  BY DEF Past
<1>4. k \in Past[m]
  BY <1>1, <1>2, <1>3 DEF Depends
<1> QED BY <1>4 DEF Depends

\* The recursion equation of Message::depends: n is in the justification of m
\* or in the past of a message that is.
THEOREM DependsRecursion ==
    ASSUME NEW m \in Message, NEW n \in Message
    PROVE  Depends(m, n) <=> \/ n \in justification[m]
                             \/ \E x \in justification[m] : Depends(x, n)
<1> DEFINE S == justification[m] \cup UNION {Past[x] : x \in justification[m]}
<1>1. justification[m] \subseteq Message
  BY JustificationAssumption
<1>2. \A x \in justification[m] :
        /\ Past[x] \subseteq Message
        /\ justification[x] \subseteq Past[x]
        /\ Closed(Past[x])
  BY <1>1, PastClosed
<1>3. S \in SUBSET Message
  BY <1>1, <1>2
<1>4. Closed(S)
  BY <1>2 DEF Closed
<1>5. Depends(m, n) => n \in S
  <2>1. Past[m] = {k \in Message : \A T \in SUBSET Message :
                    justification[m] \subseteq T /\ Closed(T) => k \in T}
    BY DEF Past
  <2> QED BY <1>3, <1>4, <2>1 DEF Depends
<1>6. n \in justification[m] => Depends(m, n)
  BY PastClosed DEF Depends
<1>7. ASSUME NEW x \in justification[m], Depends(x, n) PROVE Depends(m, n)
  <2>1. x \in Message /\ Depends(m, x)
    BY <1>1, PastClosed DEF Depends
  <2> QED BY <1>7, <2>1, DependsTransitive
<1> QED BY <1>5, <1>6, <1>7 DEF Depends

\* Two messages never depend on each other.
LEMMA DependsAsymmetric ==
    ASSUME NEW m \in Message, NEW n \in Message, Depends(m, n)
    PROVE  ~Depends(n, m)
BY DependsTransitive, AcyclicAssumption

\* Of two messages of one sender that do not equivocate, one knows the other.
LEMMA SameSenderCases ==
    ASSUME NEW m \in Message, NEW n \in Message, sender[m] = sender[n], m # n
    PROVE  Equivocates(m, n) \/ Depends(m, n) \/ Depends(n, m)
BY DEF Equivocates
=============================================================================
