--------------------------- MODULE Protocol_proofs ---------------------------
(***************************************************************************)
(* Validators that follow the protocol, for any number of them, of         *)
(* messages, and every order of their delivery: nobody equivocates, every  *)
(* view is closed under what its messages know, and what a message was     *)
(* estimated from can be reproduced from its justification.                *)
(*                                                                         *)
(* The messages of a validator are numbered, and the argument is about the *)
(* numbers: a message knows exactly the messages of its sender with        *)
(* smaller ones (Numbered), so `update` keeps the larger of two, and a     *)
(* view never loses what it covers.                                        *)
(***************************************************************************)
EXTENDS Protocol, Induction_proofs, SequenceTheorems

\* The messages of v that exist.
Own(v) == {m \in created : sender[m] = v}

\* m comes after n, if one validator sent both.
After(m, n) == n[2] < m[2]

\* Of one sender, a message of C knows exactly those it comes after.
Numbered(C, P) ==
    \A m, n \in C : sender[m] = sender[n] => (n \in P[m] <=> After(m, n))

\* A view holds at most one message of each validator.
View(C, l) ==
    /\ l \in [Validator -> SUBSET C]
    /\ \A v \in Validator : \A m, n \in l[v] : sender[m] = v /\ m = n

\* LatestMessages::update, with what is under the messages in P.
Update(P, l, m) == LM(P)!Updated(l, m)

\* The view u holds what l does, but the newer one of m and its sender's message.
Newer(C, l, m, u) ==
    /\ u \in [Validator -> SUBSET C]
    /\ \A v \in Validator \ {sender[m]} : u[v] = l[v]
    /\ l[sender[m]] = {} => u[sender[m]] = {m}
    /\ \A o \in l[sender[m]] :
          /\ After(m, o) => u[sender[m]] = {m}
          /\ ~After(m, o) => u[sender[m]] = {o}

\* The view holds n or a newer message of its sender.
Covers(l, n) == \E k \in l[sender[n]] : k = n \/ After(k, n)

\* The view u takes nothing but m into l, and covers it and all that l does.
CoveringUpdate(C, l, m, u) ==
    /\ View(C, u)
    /\ \A v \in Validator : u[v] \subseteq l[v] \cup {m}
    /\ Covers(u, m)
    /\ \A n \in C : Covers(l, n) => Covers(u, n)

\* Whatever is under the messages of the view is covered.
Closed(P, l) == \A v \in Validator : \A m \in l[v] : \A n \in P[m] : Covers(l, n)

-----------------------------------------------------------------------------
(* Messages and updates *)

\* A message is its sender and its number.
LEMMA Parts ==
    ASSUME NEW m \in Message
    PROVE  /\ sender[m] = m[1] /\ sender[m] \in Validator
           /\ m[2] \in 1 .. MaxOwn /\ m[2] \in Nat
           /\ m = <<sender[m], m[2]>>
  BY MaxAssumption DEF Message, sender

\* The messages of one sender are ordered.
LEMMA Order ==
    ASSUME NEW m \in Message, NEW n \in Message, NEW o \in Message
    PROVE  /\ ~(After(m, n) /\ After(n, m))
           /\ After(m, n) /\ After(n, o) => After(m, o)
           /\ sender[m] = sender[n] => m = n \/ After(m, n) \/ After(n, m)
<1>1. m[2] \in Nat /\ n[2] \in Nat /\ o[2] \in Nat
  BY Parts
<1>2. ~(After(m, n) /\ After(n, m)) /\ (After(m, n) /\ After(n, o) => After(m, o))
  BY <1>1 DEF After
<1>3. sender[m] = sender[n] => m = n \/ After(m, n) \/ After(n, m)
  <2>1. sender[m] = sender[n] /\ m[2] = n[2] => m = n
    BY Parts
  <2> QED BY <1>1, <2>1 DEF After
<1> QED BY <1>2, <1>3

\* `update` keeps the newer message.
LEMMA UpdateKeepsNewer ==
    ASSUME NEW C \in SUBSET Message, NEW P, Numbered(C, P),
           NEW l, View(C, l), NEW m \in C
    PROVE  Newer(C, l, m, Update(P, l, m))
<1> DEFINE s == sender[m]
           U == Update(P, l, m)
           new == IF l[s] = {} THEN {m}
                  ELSE {o \in l[s] : ~LM(P)!Depends(m, o)}
                       \cup {n \in {m} : \E o \in l[s] : LM(P)!Admits(o, n)}
<1>1. s \in Validator /\ l \in [Validator -> SUBSET C]
  BY Parts DEF View
<1>2. U = [l EXCEPT ![s] = new]
  BY DEF Update, LM!Updated
<1>3. new \subseteq C
  BY <1>1
<1>4. U \in [Validator -> SUBSET C] /\ U[s] = new
      /\ \A v \in Validator \ {s} : U[v] = l[v]
  BY <1>1, <1>2, <1>3
<1>5. ASSUME NEW o \in l[s]
      PROVE  (After(m, o) => new = {m}) /\ (~After(m, o) => new = {o})
  <2>1. l[s] = {o} /\ sender[o] = s /\ o \in C /\ o \in Message /\ m \in Message
    BY <1>1, <1>5 DEF View
  <2>2. LM(P)!Depends(m, o) <=> After(m, o)
    BY <2>1 DEF Numbered, LM!Depends
  <2>3. LM(P)!Depends(o, m) <=> After(o, m)
    BY <2>1 DEF Numbered, LM!Depends
  <2>4. LM(P)!Admits(o, m) <=> After(m, o)
    BY <2>1, <2>2, <2>3, Order DEF LM!Admits, LM!Equivocates
  <2> QED BY <2>1, <2>2, <2>4
<1> QED BY <1>4, <1>5 DEF Newer

\* An update leaves a view, which covers the message and all that was covered.
LEMMA UpdateCovers ==
    ASSUME NEW C \in SUBSET Message, NEW P, Numbered(C, P),
           NEW l, View(C, l), NEW m \in C
    PROVE  CoveringUpdate(C, l, m, Update(P, l, m))
<1> DEFINE s == sender[m]
<1> PICK U : U = Update(P, l, m)
  OBVIOUS
<1>1. /\ U \in [Validator -> SUBSET C]
      /\ \A v \in Validator \ {s} : U[v] = l[v]
      /\ l[s] = {} => U[s] = {m}
      /\ \A o \in l[s] : (After(m, o) => U[s] = {m}) /\ (~After(m, o) => U[s] = {o})
  <2>1. Newer(C, l, m, U)
    BY UpdateKeepsNewer
  <2> QED BY <2>1 DEF Newer
<1>2. s \in Validator /\ \A n \in C : n \in Message /\ sender[n] \in Validator
  BY Parts
<1>3. /\ l \in [Validator -> SUBSET C]
      /\ \A v \in Validator : \A o, n \in l[v] : sender[o] = v /\ o = n
  BY DEF View
<1>4. U[s] \subseteq l[s] \cup {m} /\ \A o, n \in U[s] : sender[o] = s /\ o = n
  BY <1>1, <1>2, <1>3
<1>5. View(C, U) /\ \A v \in Validator : U[v] \subseteq l[v] \cup {m}
  BY <1>1, <1>3, <1>4 DEF View
<1>6. Covers(U, m)
  <2>1. CASE l[s] = {}
    BY <1>1, <1>2, <2>1 DEF Covers
  <2>2. ASSUME NEW o \in l[s] PROVE Covers(U, m)
    BY <1>1, <1>2, <1>3, <2>2, Order DEF Covers
  <2> QED BY <2>1, <2>2
<1>7. ASSUME NEW n \in C, Covers(l, n) PROVE Covers(U, n)
  <2>1. PICK k \in l[sender[n]] : k = n \/ After(k, n)
    BY <1>7 DEF Covers
  <2>2. k \in Message /\ n \in Message /\ m \in Message
    BY <1>2, <1>3, <2>1
  <2>3. CASE sender[n] = s /\ After(m, k)
    BY <1>1, <2>1, <2>2, <2>3, Order DEF Covers
  <2>4. CASE sender[n] = s /\ ~After(m, k)
    BY <1>1, <2>1, <2>4 DEF Covers
  <2>5. CASE sender[n] # s
    BY <1>1, <1>2, <2>1, <2>5 DEF Covers
  <2> QED BY <2>3, <2>4, <2>5
<1> QED BY <1>5, <1>6, <1>7 DEF CoveringUpdate

\* Taking a message and its justification leaves a view, which covers them and all
\* that was covered.
LEMMA TakenCovers ==
    ASSUME created \subseteq Message, Numbered(created, past),
           NEW l, View(created, l), NEW m \in created, justification[m] \subseteq created,
           \A n, k \in justification[m] : sender[n] = sender[k] => n = k
    PROVE  /\ View(created, Taken(l, m))
           /\ \A v \in Validator : Taken(l, m)[v] \subseteq l[v] \cup {m} \cup justification[m]
           /\ \A n \in {m} \cup justification[m] : Covers(Taken(l, m), n)
           /\ \A n \in created : Covers(l, n) => Covers(Taken(l, m), n)
<1> PICK T, t : T = Taken(l, m) /\ t = Update(past, l, m)
  OBVIOUS
<1>1. /\ View(created, t)
      /\ \A v \in Validator : t[v] \subseteq l[v] \cup {m}
      /\ Covers(t, m)
      /\ \A n \in created : Covers(l, n) => Covers(t, n)
  <2>1. CoveringUpdate(created, l, m, t)
    BY UpdateCovers
  <2> QED BY <2>1 DEF CoveringUpdate
<1>2. \A n \in created : sender[n] \in Validator
  BY Parts
<1>3. ASSUME NEW j \in justification[m]
      PROVE  /\ View(created, Update(past, t, j))
             /\ \A v \in Validator : Update(past, t, j)[v] \subseteq t[v] \cup {j}
             /\ Covers(Update(past, t, j), j)
             /\ \A n \in created : Covers(t, n) => Covers(Update(past, t, j), n)
  <2>1. j \in created /\ View(created, t) /\ created \in SUBSET Message
    BY <1>1
  <2>2. CoveringUpdate(created, t, j, Update(past, t, j))
    BY <2>1, UpdateCovers
  <2> QED BY <2>2 DEF CoveringUpdate
<1> DEFINE Of(v) == {n \in justification[m] : sender[n] = v}
<1>4. T = [v \in Validator |->
              IF Of(v) = {} THEN t[v] ELSE UNION {Update(past, t, n)[v] : n \in Of(v)}]
  BY DEF Taken, Update
<1>5. ASSUME NEW v \in Validator, \A n \in justification[m] : sender[n] # v
      PROVE  T[v] = t[v]
  BY <1>4, <1>5
<1>6. ASSUME NEW j \in justification[m]
      PROVE  T[sender[j]] = Update(past, t, j)[sender[j]]
  <2>1. Of(sender[j]) = {j}
    OBVIOUS
  <2>2. sender[j] \in Validator
    BY <1>2
  <2>3. T[sender[j]] = UNION {Update(past, t, n)[sender[j]] : n \in Of(sender[j])}
    BY <1>4, <2>1, <2>2
  <2> QED BY <2>1, <2>3
<1>7. ASSUME NEW v \in Validator
      PROVE  /\ T[v] \subseteq created /\ T[v] \subseteq l[v] \cup {m} \cup justification[m]
             /\ \A o, n \in T[v] : sender[o] = v /\ o = n
  <2>1. CASE \A n \in justification[m] : sender[n] # v
    BY <1>1, <1>5, <2>1 DEF View
  <2>2. ASSUME NEW j \in justification[m], sender[j] = v
        PROVE  /\ T[v] \subseteq created /\ T[v] \subseteq l[v] \cup {m} \cup justification[m]
               /\ \A o, n \in T[v] : sender[o] = v /\ o = n
    <3>1. T[v] = Update(past, t, j)[v] /\ View(created, Update(past, t, j))
      BY <1>3, <1>6, <2>2
    <3>2. T[v] \subseteq t[v] \cup {j} /\ t[v] \subseteq l[v] \cup {m}
      BY <1>1, <1>3, <3>1
    <3> QED BY <3>1, <3>2 DEF View
  <2> QED BY <2>1, <2>2
<1>8. View(created, T)
  BY <1>4, <1>7 DEF View
<1>9. ASSUME NEW n \in created, Covers(t, n) PROVE Covers(T, n)
  <2>1. CASE \A j \in justification[m] : sender[j] # sender[n]
    BY <1>2, <1>5, <1>9, <2>1 DEF Covers
  <2>2. ASSUME NEW j \in justification[m], sender[j] = sender[n] PROVE Covers(T, n)
    <3>1. Covers(Update(past, t, j), n)
      BY <1>3, <1>9
    <3> QED BY <1>6, <2>2, <3>1 DEF Covers
  <2> QED BY <2>1, <2>2
<1>10. ASSUME NEW j \in justification[m] PROVE Covers(T, j)
  BY <1>3, <1>6 DEF Covers
<1> QED BY <1>1, <1>7, <1>8, <1>9, <1>10

-----------------------------------------------------------------------------
(* The invariant *)

\* The messages of v are numbered without a gap.
OwnNumbered ==
    \A v \in Validator :
        /\ IsFiniteSet(Own(v))
        /\ Own(v) = {<<v, i>> : i \in 1 .. Cardinality(Own(v))}

\* What does not exist has nothing under it.
Uncreated == \A m \in Message \ created : justification[m] = {} /\ past[m] = {}

\* A justification holds one message of each sender, and for all that is under
\* the message that one is not older.
Justified ==
    \A m \in created :
        /\ \A n, k \in justification[m] : sender[n] = sender[k] => n = k
        /\ \A n \in justification[m] : past[n] \subseteq past[m]
        /\ \A n \in past[m] : \E k \in justification[m] :
              sender[k] = sender[n] /\ (k = n \/ After(k, n))

\* What is under a message includes its justification and what is under that.
Transitive ==
    \A m \in created :
        /\ justification[m] \subseteq past[m]
        /\ \A n \in past[m] : past[n] \subseteq past[m]

Views == \A r \in Validator : View(created, latest[r]) /\ Closed(past, latest[r])

\* A validator has its newest message, and no other of its own.
OwnLatest ==
    \A v \in Validator : latest[v][v] = {m \in Own(v) : \A n \in Own(v) : ~After(n, m)}

IInv ==
    /\ TypeOK
    /\ OwnNumbered
    /\ Uncreated
    /\ Numbered(created, past)
    /\ Justified
    /\ Transitive
    /\ IsFiniteSet(created)
    /\ Views
    /\ OwnLatest

\* l is a view that v can have once it has taken more messages.
Fits(v, l) ==
    /\ View(created, l)
    /\ Closed(past, l)
    /\ \A n \in created : Covers(latest[v], n) => Covers(l, n)

\* The newest message of a validator that has any is in its state.
LEMMA OwnNewest ==
    ASSUME TypeOK, OwnNumbered, OwnLatest, NEW v \in Validator, NEW n \in Own(v)
    PROVE  \E k \in latest[v][v] : k = n \/ After(k, n)
<1> DEFINE c == Cardinality(Own(v))
<1>1. c \in Nat /\ Own(v) = {<<v, i>> : i \in 1 .. c}
  BY FS_CardinalityType DEF OwnNumbered
<1>2. PICK i \in 1 .. c : n = <<v, i>>
  BY <1>1
<1>3. <<v, c>> \in Own(v) /\ \A k \in Own(v) : k[2] \in 1 .. c
  BY <1>1, <1>2
<1>4. <<v, c>> \in latest[v][v]
  BY <1>1, <1>3 DEF OwnLatest, After
<1>5. <<v, c>> = n \/ After(<<v, c>>, n)
  BY <1>1, <1>2 DEF After
<1> QED BY <1>4, <1>5

\* The next message of a validator is new, and comes after all it has sent.
LEMMA NextIsNew ==
    ASSUME TypeOK, OwnNumbered, NEW v \in Validator, NextMessage(v) \in Message
    PROVE  /\ sender[NextMessage(v)] = v
           /\ NextMessage(v) \notin created
           /\ \A n \in Own(v) : After(NextMessage(v), n) /\ ~After(n, NextMessage(v))
           /\ IsFiniteSet(Own(v) \cup {NextMessage(v)})
           /\ Own(v) \cup {NextMessage(v)} =
                 {<<v, i>> : i \in 1 .. Cardinality(Own(v) \cup {NextMessage(v)})}
<1> DEFINE c == Cardinality(Own(v))
           m == NextMessage(v)
<1>1. /\ c \in Nat /\ IsFiniteSet(Own(v))
      /\ Own(v) = {<<v, i>> : i \in 1 .. c}
  BY FS_CardinalityType DEF OwnNumbered
<1>2. m = <<v, c + 1>>
  BY DEF NextMessage, Own
<1>3. sender[m] = v
  BY <1>2, Parts
<1>4. m \notin Own(v)
  BY <1>1, <1>2
<1>5. \A n \in Own(v) : After(m, n) /\ ~After(n, m)
  BY <1>1, <1>2 DEF After
<1>6. IsFiniteSet(Own(v) \cup {m}) /\ Cardinality(Own(v) \cup {m}) = c + 1
  BY <1>1, <1>4, FS_AddElement
<1>7. Own(v) \cup {m} = {<<v, i>> : i \in 1 .. c + 1}
  <2>1. 1 .. c + 1 = (1 .. c) \cup {c + 1}
    BY <1>1
  <2> QED BY <1>1, <1>2, <2>1
<1> QED BY <1>3, <1>4, <1>5, <1>6, <1>7 DEF Own

\* At the start nothing exists.
LEMMA InitInv == Init => IInv
<1> SUFFICES ASSUME Init PROVE IInv
  OBVIOUS
<1>1. \A v \in Validator : latest[v] = [w \in Validator |-> {}] /\ Own(v) = {}
  BY DEF Init, LM!Empty, Own
<1>2. TypeOK /\ Uncreated /\ Numbered(created, past) /\ Justified /\ Transitive
  BY <1>1 DEF Init, TypeOK, Uncreated, Numbered, Justified, Transitive, LM!Empty
<1>3. Views /\ OwnLatest
  BY <1>1 DEF Init, Views, View, Closed, OwnLatest
<1>4. OwnNumbered /\ IsFiniteSet(created)
  BY <1>1, FS_EmptySet DEF OwnNumbered, Init
<1> QED BY <1>2, <1>3, <1>4 DEF IInv

-----------------------------------------------------------------------------
(* A delivery *)

\* What is delivered leaves a view closed: the justification
\* covers what is under the message.
LEMMA TakenClosed ==
    ASSUME IInv, NEW l, View(created, l), Closed(past, l), NEW m \in created
    PROVE  /\ View(created, Taken(l, m))
           /\ Closed(past, Taken(l, m))
           /\ \A n \in created : Covers(l, n) => Covers(Taken(l, m), n)
<1> PICK T : T = Taken(l, m)
  OBVIOUS
<1>1. /\ created \subseteq Message /\ Numbered(created, past)
      /\ View(created, l) /\ Closed(past, l)
      /\ justification \in [Message -> SUBSET created] /\ past \in [Message -> SUBSET created]
  BY DEF IInv, TypeOK
<1>2. /\ \A n, k \in justification[m] : sender[n] = sender[k] => n = k
      /\ \A n \in justification[m] : past[n] \subseteq past[m]
      /\ \A n \in past[m] : \E k \in justification[m] :
            sender[k] = sender[n] /\ (k = n \/ After(k, n))
  BY DEF IInv, Justified
<1>3. m \in Message /\ justification[m] \subseteq created
  BY <1>1
<1>4. /\ View(created, T)
      /\ \A v \in Validator : T[v] \subseteq l[v] \cup {m} \cup justification[m]
      /\ \A n \in {m} \cup justification[m] : Covers(T, n)
      /\ \A n \in created : Covers(l, n) => Covers(T, n)
  BY <1>1, <1>2, <1>3, TakenCovers
<1>5. ASSUME NEW n \in past[m] PROVE Covers(T, n)
  <2>1. PICK k \in justification[m] : sender[k] = sender[n] /\ (k = n \/ After(k, n))
    BY <1>2
  <2>2. PICK o \in T[sender[n]] : o = k \/ After(o, k)
    BY <1>4, <2>1 DEF Covers
  <2>3. n \in Message /\ k \in Message /\ sender[n] \in Validator
    BY <1>1, <1>3, <2>1, Parts
  <2>4. o \in Message
    BY <1>1, <1>4, <2>2, <2>3 DEF View
  <2>5. o = n \/ After(o, n)
    BY <2>1, <2>2, <2>3, <2>4, Order
  <2> QED BY <2>5 DEF Covers
<1>6. ASSUME NEW v \in Validator, NEW o \in T[v], NEW n \in past[o] PROVE Covers(T, n)
  <2>1. o \in created /\ n \in created
    BY <1>1, <1>4, <1>6 DEF View
  <2>2. CASE o \in l[v]
    BY <1>1, <1>4, <1>6, <2>1, <2>2 DEF Closed
  <2>3. CASE o \in {m} \cup justification[m]
    BY <1>2, <1>5, <2>3
  <2> QED BY <1>4, <2>2, <2>3
<1> QED BY <1>4, <1>6 DEF Closed

\* A delivery does not touch what a validator has of its own.
LEMMA TakenOwn ==
    ASSUME IInv, NEW r \in Validator, NEW m \in created
    PROVE  Taken(latest[r], m)[r] = latest[r][r]
<1> PICK T : T = Taken(latest[r], m)
  OBVIOUS
<1>1. /\ View(created, T) /\ View(created, latest[r])
      /\ \A n \in created : Covers(latest[r], n) => Covers(T, n)
  BY TakenClosed DEF IInv, Views
<1>2. T[r] \subseteq Own(r) /\ latest[r][r] \subseteq Own(r)
  BY <1>1 DEF View, Own
<1>3. ASSUME NEW o \in latest[r][r] PROVE T[r] = {o} /\ latest[r][r] = {o}
  <2>1. o \in Own(r) /\ sender[o] = r /\ o \in created /\ \A n \in Own(r) : ~After(n, o)
    BY <1>2, <1>3 DEF IInv, OwnLatest, Own
  <2>2. PICK k \in T[r] : k = o \/ After(k, o)
    BY <1>1, <1>3, <2>1 DEF Covers
  <2>3. k = o
    BY <1>2, <2>1, <2>2
  <2> QED BY <1>1, <1>3, <2>3 DEF View
<1>4. ASSUME latest[r][r] = {} PROVE T[r] = {}
  BY <1>2, <1>4, OwnNewest DEF IInv
<1> QED BY <1>3, <1>4

\* A delivery keeps the invariant.
LEMMA DeliverInv ==
    ASSUME IInv, NEW m \in created, NEW r \in Validator, Deliver(m, r)
    PROVE  IInv'
<1> PICK T : T = Taken(latest[r], m)
  OBVIOUS
<1>1. /\ View(created, T) /\ Closed(past, T) /\ T[r] = latest[r][r]
  <2>1. View(created, latest[r]) /\ Closed(past, latest[r])
    BY DEF IInv, Views
  <2> QED BY <2>1, TakenClosed, TakenOwn
<1>2. /\ UNCHANGED <<created, justification, past>>
      /\ latest \in [Validator -> [Validator -> SUBSET created]]
      /\ latest' = [latest EXCEPT ![r] = T]
  BY DEF Deliver, IInv, TypeOK
<1>3. TypeOK'
  BY <1>1, <1>2 DEF IInv, TypeOK, View
<1>4. (OwnNumbered /\ Uncreated /\ Numbered(created, past) /\ Justified /\ Transitive
       /\ IsFiniteSet(created))'
  <2>1. OwnNumbered'
    BY <1>2 DEF IInv, OwnNumbered, Own
  <2>2. Uncreated' /\ Justified' /\ Transitive' /\ IsFiniteSet(created)'
    BY <1>2 DEF IInv, Uncreated, Justified, Transitive
  <2>3. Numbered(created, past)'
    BY <1>2 DEF IInv, Numbered
  <2> QED BY <2>1, <2>2, <2>3
<1>5. Views'
  BY <1>1, <1>2 DEF IInv, Views
<1>6. OwnLatest'
  <2>1. \A v \in Validator : latest'[v][v] = latest[v][v]
    BY <1>1, <1>2
  <2> QED BY <1>2, <2>1 DEF IInv, OwnLatest, Own
<1> QED BY <1>3, <1>4, <1>5, <1>6 DEF IInv

-----------------------------------------------------------------------------
(* A new message *)

\* Start and CreateFrom both add a message, whose justification is J, to the view l.
Added(v, l, J) ==
    LET m == NextMessage(v) IN
    /\ m \in Message
    /\ created' = created \cup {m}
    /\ justification' = [justification EXCEPT ![m] = J]
    /\ past' = [past EXCEPT ![m] = J \cup UNION {past[n] : n \in J}]
    /\ latest' = [latest EXCEPT ![v] = Update(past', l, m)]

\* J is taken from the view l, covers what is under it, and has the newest
\* message of v.
Basis(v, l, J) ==
    /\ \A n \in J : n \in l[sender[n]]
    /\ J \subseteq created
    /\ \A j \in J : \A n \in past[j] : \E k \in J :
          sender[k] = sender[n] /\ (k = n \/ After(k, n))
    /\ \A n \in Own(v) : \E k \in J : sender[k] = v /\ (k = n \/ After(k, n))

\* A first message has an empty justification.
LEMMA StartAdds ==
    ASSUME IInv, NEW v \in Validator, Start(v)
    PROVE  Fits(v, latest[v]) /\ Added(v, latest[v], {}) /\ Basis(v, latest[v], {})
<1> DEFINE m == NextMessage(v)
<1>1. Own(v) = {} /\ \A n \in created : sender[n] # v
  BY DEF Start, Own
<1>2. m = <<v, 1>> /\ m \in Message
  BY <1>1, FS_EmptySet, MaxAssumption DEF NextMessage, Own, Message
<1>3. m \notin created
  BY <1>1, <1>2, Parts
<1>4. justification[m] = {} /\ past[m] = {}
  BY <1>2, <1>3 DEF IInv, Uncreated
<1>5. /\ justification' = [justification EXCEPT ![m] = {}]
      /\ past' = [past EXCEPT ![m] = {} \cup UNION {past[n] : n \in {}}]
  BY <1>2, <1>4 DEF Start, IInv, TypeOK
<1>6. latest' = [latest EXCEPT ![v] = Update(past', latest[v], m)]
  BY DEF Start, Update
<1>7. created' = created \cup {m}
  BY DEF Start
<1>8. Added(v, latest[v], {})
  BY <1>2, <1>5, <1>6, <1>7 DEF Added
<1>9. Fits(v, latest[v])
  BY DEF Fits, IInv, Views
<1> QED BY <1>1, <1>8, <1>9 DEF Basis

\* A later message is justified by all that its sender's view holds.
LEMMA CreateAdds ==
    ASSUME IInv, NEW v \in Validator, NEW l, Fits(v, l), CreateFrom(v, l)
    PROVE  Added(v, l, JustificationFrom(v, l)) /\ Basis(v, l, JustificationFrom(v, l))
<1> PICK J : J = JustificationFrom(v, l)
  OBVIOUS
<1>1. created \subseteq Message /\ View(created, l) /\ Closed(past, l)
      /\ past \in [Message -> SUBSET created]
      /\ \A n \in created : Covers(latest[v], n) => Covers(l, n)
  BY DEF IInv, TypeOK, Fits
<1>2. \A n : n \in J <=> n \in Message /\ l[sender[n]] = {n}
  BY DEF JustificationFrom, LM!Honest
<1>3. \A w \in Validator : \A n \in l[w] : n \in J /\ sender[n] = w
  BY <1>1, <1>2 DEF View
<1>4. J \subseteq created
  BY <1>1, <1>2, Parts DEF View
<1>5. Added(v, l, J)
  BY DEF CreateFrom, Added, Update
<1>6. ASSUME NEW j \in J, NEW n \in past[j]
      PROVE  \E k \in J : sender[k] = sender[n] /\ (k = n \/ After(k, n))
  <2>1. j \in l[sender[j]] /\ j \in Message
    BY <1>2
  <2>2. sender[j] \in Validator /\ n \in created /\ sender[n] \in Validator
    BY <1>1, <1>6, <2>1, Parts
  <2>3. Covers(l, n)
    BY <1>1, <1>6, <2>1, <2>2 DEF Closed
  <2> QED BY <1>3, <2>2, <2>3 DEF Covers
<1>7. ASSUME NEW n \in Own(v)
      PROVE  \E k \in J : sender[k] = v /\ (k = n \/ After(k, n))
  <2>1. n \in created /\ sender[n] = v
    BY DEF Own
  <2>2. Covers(latest[v], n)
    BY <2>1, OwnNewest DEF IInv, Covers
  <2>3. PICK k \in l[v] : k = n \/ After(k, n)
    BY <1>1, <2>1, <2>2 DEF Covers
  <2> QED BY <1>3, <2>3
<1> QED BY <1>2, <1>4, <1>5, <1>6, <1>7 DEF Basis

\* What a new message changes, and what it leaves.
LEMMA AddedParts ==
    ASSUME IInv, NEW v \in Validator, NEW l, Fits(v, l), NEW J, Added(v, l, J), Basis(v, l, J), NEW m, m = NextMessage(v)
    PROVE  /\ m \in Message /\ m \notin created /\ sender[m] = v
           /\ created' = created \cup {m} /\ created' \subseteq Message
           /\ justification' \in [Message -> SUBSET created']
           /\ past' \in [Message -> SUBSET created']
           /\ justification'[m] = J /\ past'[m] = J \cup UNION {past[n] : n \in J}
           /\ \A n \in Message \ {m} : justification'[n] = justification[n] /\ past'[n] = past[n]
           /\ \A n \in Message : past[n] \subseteq created
           /\ \A n \in Own(v) : After(m, n) /\ ~After(n, m)
<1>1. /\ m \in Message /\ m \notin created /\ sender[m] = v
      /\ \A n \in Own(v) : After(m, n) /\ ~After(n, m)
  BY NextIsNew DEF IInv, Added
<1>2. /\ created \subseteq Message /\ J \subseteq created
      /\ justification \in [Message -> SUBSET created] /\ past \in [Message -> SUBSET created]
  BY DEF IInv, TypeOK, Basis
<1>3. /\ created' = created \cup {m}
      /\ justification' = [justification EXCEPT ![m] = J]
      /\ past' = [past EXCEPT ![m] = J \cup UNION {past[n] : n \in J}]
  BY DEF Added
<1>4. J \cup UNION {past[n] : n \in J} \subseteq created
  BY <1>2
<1> QED BY <1>1, <1>2, <1>3, <1>4

\* A new message knows all messages of its sender, and none knows it.
LEMMA AddedNumbered ==
    ASSUME IInv, NEW v \in Validator, NEW l, Fits(v, l), NEW J, Added(v, l, J), Basis(v, l, J)
    PROVE  Numbered(created', past')
<1> PICK m : m = NextMessage(v)
  OBVIOUS
<1>1. /\ m \in Message /\ m \notin created /\ sender[m] = v
      /\ created' = created \cup {m} /\ created' \subseteq Message
      /\ past'[m] = J \cup UNION {past[n] : n \in J}
      /\ \A n \in Message \ {m} : past'[n] = past[n]
      /\ \A n \in Message : past[n] \subseteq created
      /\ \A n \in Own(v) : After(m, n) /\ ~After(n, m)
  BY AddedParts
<1>2. /\ J \subseteq created
      /\ \A n \in Own(v) : \E k \in J : sender[k] = v /\ (k = n \/ After(k, n))
  BY DEF Basis
<1>3. ASSUME NEW n \in Own(v) PROVE n \in past'[m]
  <2>1. PICK k \in J : sender[k] = v /\ (k = n \/ After(k, n))
    BY <1>2
  <2>2. k = n \/ n \in past[k]
    BY <1>2, <2>1 DEF IInv, Numbered, Own
  <2> QED BY <1>1, <2>1, <2>2
<1>4. m \notin past'[m] /\ ~After(m, m)
  BY <1>1, <1>2, Order
<1>5. ASSUME NEW n \in created', NEW o \in created', sender[n] = sender[o]
      PROVE  o \in past'[n] <=> After(n, o)
  <2>1. CASE n \in created /\ o \in created
    BY <1>1, <1>5, <2>1 DEF IInv, Numbered
  <2>2. CASE n = m /\ o \in created
    BY <1>1, <1>3, <1>5, <2>2 DEF Own
  <2>3. CASE n \in created /\ o = m
    BY <1>1, <1>5, <2>3 DEF Own
  <2>4. CASE n = m /\ o = m
    BY <1>4, <2>4
  <2> QED BY <1>1, <2>1, <2>2, <2>3, <2>4
<1> QED BY <1>5 DEF Numbered

\* The sender's view stays closed, and the new message replaces its last one.
LEMMA AddedView ==
    ASSUME IInv, NEW v \in Validator, NEW l, Fits(v, l), NEW J, Added(v, l, J), Basis(v, l, J), NEW m, m = NextMessage(v)
    PROVE  /\ View(created', latest'[v]) /\ Closed(past', latest'[v])
           /\ latest'[v][v] = {m}
           /\ \A r \in Validator \ {v} : latest'[r] = latest[r]
<1> PICK C, P : C = created' /\ P = past'
  OBVIOUS
<1> PICK U : U = Update(P, l, m)
  OBVIOUS
<1>1. /\ m \in Message /\ m \notin created /\ sender[m] = v
      /\ C = created \cup {m} /\ C \in SUBSET Message
      /\ P[m] = J \cup UNION {past[n] : n \in J}
      /\ \A n \in Message \ {m} : P[n] = past[n]
      /\ \A n \in Message : past[n] \subseteq created
      /\ \A n \in Own(v) : After(m, n) /\ ~After(n, m)
  BY AddedParts
<1>2. Numbered(C, P)
  BY AddedNumbered
<1>3. View(created, l) /\ Closed(past, l)
  BY DEF Fits
<1>4. View(C, l)
  BY <1>1, <1>3 DEF View
<1>5. /\ View(C, U)
      /\ \A w \in Validator : U[w] \subseteq l[w] \cup {m}
      /\ Covers(U, m)
      /\ \A n \in C : Covers(l, n) => Covers(U, n)
  <2>1. m \in C /\ C \in SUBSET Message
    BY <1>1
  <2>2. CoveringUpdate(C, l, m, U)
    BY <1>2, <1>4, <2>1, UpdateCovers
  <2> QED BY <2>2 DEF CoveringUpdate
<1>6. latest' = [latest EXCEPT ![v] = U] /\ latest \in [Validator -> [Validator -> SUBSET created]]
  BY DEF Added, IInv, TypeOK
<1>7. ASSUME NEW n \in P[m] PROVE Covers(U, n)
  <2>1. J \subseteq created /\ \A j \in J : j \in l[sender[j]]
    BY DEF Basis
  <2>2. n \in created
    BY <1>1, <2>1
  <2>3. Covers(l, n)
    <3>1. CASE n \in J
      BY <2>1, <3>1 DEF Covers
    <3>2. ASSUME NEW j \in J, n \in past[j] PROVE Covers(l, n)
      <4>1. j \in l[sender[j]] /\ sender[j] \in Validator
        BY <1>1, <2>1, Parts
      <4> QED BY <1>3, <3>2, <4>1 DEF Closed
    <3> QED BY <1>1, <3>1, <3>2
  <2> QED BY <1>1, <1>5, <2>2, <2>3
<1>8. ASSUME NEW w \in Validator, NEW o \in U[w], NEW n \in P[o] PROVE Covers(U, n)
  <2>1. CASE o = m
    BY <1>7, <2>1
  <2>2. CASE o # m
    <3>1. o \in l[w] /\ o \in created /\ o \in Message
      BY <1>1, <1>3, <1>5, <2>2 DEF View
    <3>2. n \in past[o] /\ n \in C
      BY <1>1, <2>2, <3>1
    <3>3. Covers(l, n)
      BY <1>3, <3>1, <3>2 DEF Closed
    <3> QED BY <1>5, <3>2, <3>3
  <2> QED BY <2>1, <2>2
<1>9. U[v] = {m}
  <2>1. PICK k \in U[v] : k = m \/ After(k, m)
    BY <1>1, <1>5 DEF Covers
  <2>2. k \in Own(v) \/ k = m
    BY <1>3, <1>5, <2>1 DEF View, Own
  <2>3. k = m
    BY <1>1, <2>1, <2>2
  <2> QED BY <1>5, <2>3 DEF View
<1> QED BY <1>5, <1>6, <1>8, <1>9 DEF Closed

\* A new message keeps the invariant.
LEMMA AddedInv ==
    ASSUME IInv, NEW v \in Validator, NEW l, Fits(v, l), NEW J, Added(v, l, J), Basis(v, l, J)
    PROVE  IInv'
<1> PICK m : m = NextMessage(v)
  OBVIOUS
<1>1. /\ m \in Message /\ m \notin created /\ sender[m] = v
      /\ created' = created \cup {m} /\ created' \subseteq Message
      /\ justification' \in [Message -> SUBSET created']
      /\ past' \in [Message -> SUBSET created']
      /\ justification'[m] = J /\ past'[m] = J \cup UNION {past[n] : n \in J}
      /\ \A n \in Message \ {m} : justification'[n] = justification[n] /\ past'[n] = past[n]
      /\ \A n \in Message : past[n] \subseteq created
      /\ \A n \in Own(v) : After(m, n) /\ ~After(n, m)
  BY AddedParts
<1>2. /\ View(created', latest'[v]) /\ Closed(past', latest'[v])
      /\ latest'[v][v] = {m}
      /\ \A r \in Validator \ {v} : latest'[r] = latest[r]
  BY AddedView
<1>3. /\ J \subseteq created
      /\ \A n \in J : n \in l[sender[n]]
      /\ \A j \in J : \A n \in past[j] : \E k \in J :
            sender[k] = sender[n] /\ (k = n \/ After(k, n))
  BY DEF Basis
<1>4. Own(v)' = Own(v) \cup {m} /\ \A w \in Validator \ {v} : Own(w)' = Own(w)
  BY <1>1 DEF Own
<1>5. Views'
  <2>1. ASSUME NEW r \in Validator, r # v
        PROVE  View(created', latest'[r]) /\ Closed(past', latest'[r])
    <3>1. View(created, latest[r]) /\ Closed(past, latest[r]) /\ latest'[r] = latest[r]
      BY <1>2, <2>1 DEF IInv, Views
    <3>2. View(created', latest'[r])
      BY <1>1, <3>1 DEF View
    <3>3. \A w \in Validator : \A o \in latest[r][w] : past'[o] = past[o]
      BY <1>1, <3>1 DEF View
    <3> QED BY <3>1, <3>2, <3>3 DEF Closed
  <2> QED BY <1>2, <2>1 DEF Views
<1>6. TypeOK'
  <2>1. latest' = [w \in Validator |-> latest'[w]]
    BY DEF Added, IInv, TypeOK
  <2> QED BY <1>1, <1>5, <2>1 DEF TypeOK, Views, View
<1>7. OwnNumbered'
  <2>1. /\ IsFiniteSet(Own(v) \cup {m})
        /\ Own(v) \cup {m} = {<<v, i>> : i \in 1 .. Cardinality(Own(v) \cup {m})}
    BY NextIsNew DEF IInv, Added
  <2>2. ASSUME NEW w \in Validator
        PROVE  /\ IsFiniteSet(Own(w)')
               /\ Own(w)' = {<<w, i>> : i \in 1 .. Cardinality(Own(w)')}
    <3>1. CASE w = v
      BY <1>4, <2>1, <3>1
    <3>2. CASE w # v
      BY <1>4, <3>2 DEF IInv, OwnNumbered
    <3> QED BY <3>1, <3>2
  <2> QED BY <2>2 DEF OwnNumbered
<1>8. Uncreated'
  BY <1>1 DEF IInv, Uncreated
<1>9. Numbered(created, past)'
  <2>1. Numbered(created', past')
    BY AddedNumbered
  <2> QED BY <2>1 DEF Numbered
<1>10. Justified'
  <2>1. ASSUME NEW n \in J, NEW k \in J, sender[n] = sender[k] PROVE n = k
    <3>1. sender[n] \in Validator
      BY <1>1, <1>3, Parts
    <3> QED BY <1>3, <2>1, <3>1 DEF Fits, View
  <2>2. \A n \in J : past'[n] = past[n] /\ past[n] \subseteq past'[m]
    BY <1>1, <1>3
  <2>3. \A n \in past'[m] : \E k \in J : sender[k] = sender[n] /\ (k = n \/ After(k, n))
    BY <1>1, <1>3
  <2>4. ASSUME NEW o \in created
        PROVE  /\ \A n, k \in justification'[o] : sender[n] = sender[k] => n = k
               /\ \A n \in justification'[o] : past'[n] \subseteq past'[o]
               /\ \A n \in past'[o] : \E k \in justification'[o] :
                     sender[k] = sender[n] /\ (k = n \/ After(k, n))
    <3>1. justification'[o] = justification[o] /\ past'[o] = past[o]
          /\ justification[o] \subseteq created
      BY <1>1 DEF IInv, TypeOK
    <3>2. \A n \in created : past'[n] = past[n]
      BY <1>1
    <3> QED BY <3>1, <3>2 DEF IInv, Justified
  <2> QED BY <1>1, <2>1, <2>2, <2>3, <2>4 DEF Justified
<1>11. OwnLatest'
  <2>1. latest'[v][v] = {o \in Own(v) \cup {m} : \A n \in Own(v) \cup {m} : ~After(n, o)}
    <3>1. ~After(m, m)
      BY <1>1, Order
    <3> QED BY <1>1, <1>2, <3>1
  <2>2. \A w \in Validator \ {v} :
           latest'[w][w] = {o \in Own(w) : \A n \in Own(w) : ~After(n, o)}
    BY <1>2 DEF IInv, OwnLatest
  <2> QED BY <1>4, <2>1, <2>2 DEF OwnLatest
<1>12. Transitive' /\ IsFiniteSet(created')
  <2>1. IsFiniteSet(created')
    BY <1>1, FS_AddElement DEF IInv
  <2>2. \A n \in created : past'[n] = past[n] /\ justification'[n] = justification[n]
                          /\ past[n] \subseteq created
    BY <1>1
  <2>3. \A n \in past'[m] : past'[n] \subseteq past'[m]
    BY <1>1, <1>3, <2>2 DEF IInv, Transitive
  <2>4. justification'[m] \subseteq past'[m]
    BY <1>1
  <2>5. \A o \in created : /\ justification'[o] \subseteq past'[o]
                          /\ \A n \in past'[o] : past'[n] \subseteq past'[o]
    BY <2>2 DEF IInv, Transitive
  <2> QED BY <1>1, <2>1, <2>3, <2>4, <2>5 DEF Transitive
<1> QED BY <1>5, <1>6, <1>7, <1>8, <1>9, <1>10, <1>11, <1>12 DEF IInv

-----------------------------------------------------------------------------
(* The messages of a justification in any order *)

\* Finitely many messages of different senders, as in a justification.
Several(S) ==
    /\ S \subseteq Message
    /\ IsFiniteSet(S)
    /\ \A m, n \in S : sender[m] = sender[n] => m = n

\* The list q has the messages of S, each once.
Lists(q, S) ==
    /\ Cardinality(S) \in Nat
    /\ q \in [1 .. Cardinality(S) -> S]
    /\ \A i, j \in 1 .. Cardinality(S) : q[i] = q[j] => i = j
    /\ \A m \in S : \E i \in 1 .. Cardinality(S) : q[i] = m

\* The list q has the messages in the order of their senders.
Sorted(q, order) ==
    \A i, j \in DOMAIN q : i < j => order[sender[q[i]]] < order[sender[q[j]]]

\* Messages of different senders can be listed in any order of the senders.
LEMMA SortedList ==
    ASSUME NEW S, Several(S), NEW order \in Orders
    PROVE  \E q \in SetToSeqs(S) : Sorted(q, order)
<1> DEFINE key == [m \in S |-> order[sender[m]]]
           X == {T \in SUBSET S : \E q \in SetToSeqs(T) : Sorted(q, order)}
<1>1. /\ \A m \in S : key[m] \in Int /\ key[m] = order[sender[m]]
      /\ \A m, n \in S : m # n => key[m] # key[n]
  <2>1. \A m \in S : sender[m] \in Validator
    BY Parts DEF Several
  <2>2. Cardinality(Validator) \in Nat
    BY ValidatorAssumption, FS_CardinalityType
  <2>3. \A v \in Validator : order[v] \in Int
    BY <2>2 DEF Orders
  <2> QED BY <2>1, <2>3 DEF Orders, Several
<1> HIDE DEF key
<1>2. ASSUME NEW T \in SUBSET S, \A U \in SUBSET T : U # T => U \in X
      PROVE  \E q \in SetToSeqs(T) : Sorted(q, order)
  <2>1. CASE T = {}
    <3> DEFINE q == [i \in 1 .. 0 |-> i]
    <3>1. q \in SetToSeqs({})
      BY FS_EmptySet DEF SetToSeqs
    <3>2. Sorted(q, order)
      BY DEF Sorted
    <3> QED BY <2>1, <3>1, <3>2
  <2>2. CASE T # {}
    <3>1. IsFiniteSet(T)
      BY FS_Subset DEF Several
    <3>2. PICK x \in T : \A y \in T : key[y] <= key[x]
      BY <1>1, <2>2, <3>1, LargestMember
    <3> DEFINE U == T \ {x}
               n == Cardinality(U)
    <3>3. U \in X
      BY <1>2
    <3>4. PICK q \in SetToSeqs(U) : Sorted(q, order)
      BY <3>3
    <3>5. n \in Nat /\ Cardinality(T) = n + 1
      <4>1. IsFiniteSet(U) /\ U \cup {x} = T /\ x \notin U
        BY <3>1, FS_Subset
      <4>2. Cardinality(U \cup {x}) = Cardinality(U) + 1
        BY <4>1, FS_AddElement, Zenon
      <4> QED BY <4>1, <4>2, FS_CardinalityType
    <3>6. q \in [1 .. n -> U] /\ \A i, j \in 1 .. n : i # j => q[i] # q[j]
      BY <3>4 DEF SetToSeqs
    <3> HIDE DEF n
    <3>7. \A i, j \in 1 .. n : i < j => key[q[i]] < key[q[j]]
      <4>1. DOMAIN q = 1 .. n /\ \A i \in 1 .. n : q[i] \in S
        BY <3>6
      <4> QED BY <1>1, <3>4, <4>1 DEF Sorted
    <3> DEFINE r == [i \in 1 .. n + 1 |-> IF i = n + 1 THEN x ELSE q[i]]
    <3>8. /\ r \in [1 .. n + 1 -> T] /\ r[n + 1] = x
          /\ \A i \in 1 .. n : r[i] = q[i] /\ q[i] \in U
          /\ \A i \in 1 .. n + 1 : i = n + 1 \/ i \in 1 .. n
      BY <3>5, <3>6
    <3> HIDE DEF r
    <3>9. \A i, j \in 1 .. n + 1 : i # j => r[i] # r[j]
      BY <3>6, <3>8
    <3>10. \A i, j \in 1 .. n + 1 : i < j => key[r[i]] < key[r[j]]
      <4>1. \A i \in 1 .. n : key[q[i]] < key[x]
        BY <1>1, <3>2, <3>8
      <4>2. \A i, j \in 1 .. n + 1 : i < j => i \in 1 .. n
        BY <3>5
      <4> QED BY <3>7, <3>8, <4>1, <4>2
    <3>11. r \in SetToSeqs(T)
      BY <3>5, <3>8, <3>9 DEF SetToSeqs
    <3>12. Sorted(r, order)
      <4>1. DOMAIN r = 1 .. n + 1 /\ \A i \in 1 .. n + 1 : r[i] \in S
        BY <3>8
      <4> QED BY <1>1, <3>10, <4>1 DEF Sorted
    <3> QED BY <3>11, <3>12
  <2> QED BY <2>1, <2>2
<1>3. S \in X
  <2>1. \A T \in SUBSET S : (\A U \in SUBSET T : U # T => U \in X) => T \in X
    BY <1>2
  <2> HIDE DEF X
  <2> QED BY <2>1, FiniteStrongInduction DEF Several
<1> QED BY <1>3

\* The list of a justification has all its messages, each once.
LEMMA ListedOnce ==
    ASSUME NEW S, Several(S), NEW order \in Orders
    PROVE  Lists(Listed(S, order), S)
<1> DEFINE n == Cardinality(S)
<1>1. PICK q : q = Listed(S, order)
  OBVIOUS
<1>2. q \in SetToSeqs(S)
  BY <1>1, SortedList DEF Listed, Sorted
<1>3. n \in Nat /\ IsFiniteSet(1 .. n) /\ Cardinality(1 .. n) = n
  <2>1. n \in Nat
    BY FS_CardinalityType DEF Several
  <2> QED BY <2>1, FS_Interval
<1>4. q \in [1 .. n -> S] /\ \A i, j \in 1 .. n : i # j => q[i] # q[j]
  BY <1>2 DEF SetToSeqs
<1>5. q \in Injection(1 .. n, S)
  BY <1>4 DEF Injection, IsInjective
<1>6. q \in Surjection(1 .. n, S)
  BY <1>3, <1>5, FS_Injection DEF Several
<1>7. \A m \in S : \E i \in 1 .. n : q[i] = m
  BY <1>6 DEF Surjection
<1> QED BY <1>1, <1>3, <1>4, <1>7 DEF Lists

\* The messages of S that v sent.
SentBy(S, v) == {n \in S : sender[n] = v}

\* The view l after the updates with the messages of S, each of which goes into an
\* entry of its own.
Merged(l, S) ==
    [v \in Validator |->
        IF SentBy(S, v) = {} THEN l[v] ELSE UNION {Update(past, l, n)[v] : n \in SentBy(S, v)}]

\* An update changes the entry of the sender, and looks at no other.
LEMMA UpdateIsLocal ==
    ASSUME NEW l, NEW u, DOMAIN l = Validator, DOMAIN u = Validator, NEW n,
           sender[n] \in Validator, u[sender[n]] = l[sender[n]]
    PROVE  /\ DOMAIN Update(past, l, n) = Validator
           /\ Update(past, l, n)[sender[n]] = Update(past, u, n)[sender[n]]
           /\ \A v \in Validator \ {sender[n]} : Update(past, l, n)[v] = l[v]
  BY DEF Update, LM!Updated

\* One more message of another sender is one more update.
LEMMA MergedMore ==
    ASSUME NEW l, DOMAIN l = Validator, NEW S, S \subseteq Message,
           NEW n \in Message, \A k \in S : sender[k] # sender[n]
    PROVE  Update(past, Merged(l, S), n) = Merged(l, S \cup {n})
<1> DEFINE M == Merged(l, S)
           N == Merged(l, S \cup {n})
           U == Update(past, M, n)
<1>1. sender[n] \in Validator /\ DOMAIN M = Validator /\ DOMAIN N = Validator
  BY Parts DEF Merged
<1>2. M[sender[n]] = l[sender[n]]
  BY <1>1 DEF Merged, SentBy
<1>3. N[sender[n]] = Update(past, l, n)[sender[n]]
  <2>1. SentBy(S \cup {n}, sender[n]) = {n}
    BY DEF SentBy
  <2> QED BY <1>1, <2>1 DEF Merged
<1>4. ASSUME NEW v \in Validator, v # sender[n] PROVE N[v] = M[v]
  <2>1. SentBy(S \cup {n}, v) = SentBy(S, v)
    BY <1>4 DEF SentBy
  <2> QED BY <2>1 DEF Merged
<1>5. /\ DOMAIN U = Validator /\ U[sender[n]] = Update(past, l, n)[sender[n]]
      /\ \A v \in Validator \ {sender[n]} : U[v] = M[v]
  <2> HIDE DEF M
  <2> QED BY <1>1, <1>2, UpdateIsLocal
<1>6. \A v \in Validator : U[v] = N[v]
  BY <1>3, <1>4, <1>5
<1>7. U = [v \in Validator |-> U[v]] /\ N = [v \in Validator |-> N[v]]
  <2>1. U = [v \in Validator |-> U[v]]
    BY <1>1 DEF Update, LM!Updated
  <2>2. N = [v \in Validator |-> N[v]]
    BY DEF Merged
  <2> QED BY <2>1, <2>2
<1>8. U = N
  <2> HIDE DEF U, N
  <2> QED BY <1>6, <1>7
<1> QED BY <1>8

\* The fold over a list makes the updates with all its messages, whatever their
\* order.
LEMMA ReaddedIsMerged ==
    ASSUME NEW S, Several(S), NEW order \in Orders, NEW l, DOMAIN l = Validator,
           l = [v \in Validator |-> l[v]]
    PROVE  Readded(l, S, order) = Merged(l, S)
<1> PICK q : q = Listed(S, order)
  OBVIOUS
<1> PICK n : n = Cardinality(S)
  OBVIOUS
<1> DEFINE D == 1 .. n
           Makes(f) == f = [T \in SUBSET D |->
                               IF T = {} THEN l
                               ELSE Update(past, f[T \ {Max(T)}], q[Max(T)])]
           Of(T) == {q[i] : i \in T}
           c == [T \in SUBSET D |-> Merged(l, Of(T))]
<1>1. /\ n \in Nat /\ q \in [D -> S] /\ \A i, j \in D : q[i] = q[j] => i = j
      /\ \A m \in S : \E i \in D : q[i] = m
  BY ListedOnce DEF Lists
<1>2. IsFiniteSet(D) /\ D \subseteq Int
  BY <1>1, FS_Interval
<1>3. Readded(l, S, order) = (CHOOSE f : Makes(f))[D]
  <2>1. DOMAIN q = D
    BY <1>1
  <2> QED BY <2>1 DEF Readded, FoldLeft, MapThenFoldSet, Update
<1> HIDE DEF D
<1>4. ASSUME NEW T \in SUBSET D, T # {}
      PROVE  /\ Max(T) \in T /\ T \ {Max(T)} \in SUBSET D
             /\ c[T] = Update(past, c[T \ {Max(T)}], q[Max(T)])
  <2> PICK x : x = Max(T)
    OBVIOUS
  <2> DEFINE R == T \ {x}
  <2>1. x \in T
    <3>1. IsFiniteSet(T)
      BY <1>2, FS_Subset
    <3> QED BY <1>2, <1>4, <3>1, MaxMember
  <2>2. R \in SUBSET D /\ Of(R) \subseteq S /\ q[x] \in S /\ Of(T) = Of(R) \cup {q[x]}
    BY <1>1, <2>1
  <2>3. \A k \in Of(R) : sender[k] # sender[q[x]]
    BY <1>1, <2>1 DEF Several
  <2>4. Update(past, Merged(l, Of(R)), q[x]) = Merged(l, Of(R) \cup {q[x]})
    <3> HIDE DEF Of, R
    <3> QED BY <2>2, <2>3, MergedMore DEF Several
  <2>5. c[R] = Merged(l, Of(R)) /\ c[T] = Merged(l, Of(T))
    BY <2>2
  <2> HIDE DEF c, Of
  <2> QED BY <2>1, <2>2, <2>4, <2>5
<1>5. c[{}] = l
  <2>1. Merged(l, {}) = [v \in Validator |-> l[v]]
    BY DEF Merged, SentBy
  <2> QED BY <2>1
<1>6. Makes(c)
  <2>1. \A T \in SUBSET D : c[T] = IF T = {} THEN l
                                   ELSE Update(past, c[T \ {Max(T)}], q[Max(T)])
    <3> HIDE DEF c
    <3> QED BY <1>4, <1>5
  <2>2. c = [T \in SUBSET D |-> c[T]]
    OBVIOUS
  <2> HIDE DEF c
  <2> QED BY <2>1, <2>2
<1>7. PICK f : Makes(f) /\ Readded(l, S, order) = f[D]
  <2> HIDE DEF Makes
  <2> QED BY <1>3, <1>6
<1> DEFINE X == {T \in SUBSET D : f[T] = c[T]}
<1>8. ASSUME NEW T \in SUBSET D, \A U \in SUBSET T : U # T => U \in X
      PROVE  f[T] = c[T]
  <2>1. CASE T = {}
    <3>1. f[{}] = l
      BY <1>7
    <3> QED BY <1>5, <2>1, <3>1
  <2>2. CASE T # {}
    <3>1. Max(T) \in T /\ c[T] = Update(past, c[T \ {Max(T)}], q[Max(T)])
      BY <1>4, <2>2
    <3>2. f[T] = Update(past, f[T \ {Max(T)}], q[Max(T)])
      BY <1>7, <2>2
    <3>3. T \ {Max(T)} \in X
      BY <1>8, <3>1
    <3> HIDE DEF c
    <3> QED BY <3>1, <3>2, <3>3
  <2> QED BY <2>1, <2>2
<1>9. D \in X
  <2>1. \A T \in SUBSET D : (\A U \in SUBSET T : U # T => U \in X) => T \in X
    BY <1>8
  <2> HIDE DEF X
  <2> QED BY <1>2, <2>1, FiniteStrongInduction
<1>10. Of(D) = S
  BY <1>1
<1> QED BY <1>7, <1>9, <1>10

\* A justification is finitely many messages of different senders.
LEMMA JustificationsHold ==
    ASSUME IInv, NEW m \in Message
    PROVE  Several(justification[m]) /\ justification[m] \subseteq created
<1>1. justification[m] \subseteq created /\ created \subseteq Message /\ IsFiniteSet(created)
  BY DEF IInv, TypeOK
<1>2. IsFiniteSet(justification[m])
  BY <1>1, FS_Subset
<1>3. \A n, k \in justification[m] : sender[n] = sender[k] => n = k
  BY DEF IInv, Justified, Uncreated
<1> QED BY <1>1, <1>2, <1>3 DEF Several

\* Taken is what add_messages computes: the fold of the updates with the messages of
\* the justification, in whatever order a HashSet yields them.
LEMMA TakenIsTheLoop ==
    ASSUME IInv, NEW m \in created, NEW r \in Validator, NEW order \in Orders
    PROVE  Readded(LM(past)!Updated(latest[r], m), justification[m], order)
           = Taken(latest[r], m)
<1> PICK l : l = Update(past, latest[r], m)
  OBVIOUS
<1>1. DOMAIN l = Validator /\ l = [v \in Validator |-> l[v]]
  BY DEF Update, LM!Updated, IInv, TypeOK
<1>2. Several(justification[m])
  BY JustificationsHold DEF IInv, TypeOK
<1>3. Readded(l, justification[m], order) = Merged(l, justification[m])
  BY <1>1, <1>2, ReaddedIsMerged
<1>4. Taken(latest[r], m) = Merged(Update(past, latest[r], m), justification[m])
  BY DEF Taken, Merged, SentBy, Update
<1>5. l = LM(past)!Updated(latest[r], m)
  BY DEF Update
<1> QED BY <1>3, <1>4, <1>5

-----------------------------------------------------------------------------
(* The search through a justification *)

\* What the search takes from the queue q with the view l, and goes on with.
Found(order, q, l) ==
    IF LM(past)!UpdateSucceeds(l, Head(q)) THEN Listed(justification[Head(q)], order) ELSE << >>

NextSearch(order, q, l) == <<Tail(q) \o Found(order, q, l), Update(past, l, Head(q))>>

Searches == Seq(Message) \X [Validator -> SUBSET Message]

\* A list is a sequence of what it lists.
LEMMA ListIsSeq ==
    ASSUME NEW S, NEW q, Lists(q, S)
    PROVE  /\ q \in Seq(S)
           /\ \A m \in S : \E i \in 1 .. Len(q) : q[i] = m
<1>1. q \in Seq(S) /\ Len(q) = Cardinality(S)
  BY IsASeq DEF Lists
<1> QED BY <1>1 DEF Lists

\* The search satisfies its recursion: that has a solution, though nothing says yet
\* that it ends.
LEMMA SearchRecursion ==
    ASSUME IInv, NEW order \in Orders,
           NEW q \in Seq(Message), NEW l \in [Validator -> SUBSET Message]
    PROVE  ExtractedFrom(order)[<<q, l>>]
           = IF q = << >> THEN l ELSE ExtractedFrom(order)[NextSearch(order, q, l)]
<1> DEFINE Done == {c \in Searches : c[1] = << >>}
           next == [c \in Searches |-> NextSearch(order, c[1], c[2])]
           out == [c \in Searches |-> c[2]]
           Extracts(f) == f = [c \in Searches |-> IF c[1] = << >> THEN c[2]
                                                  ELSE f[NextSearch(order, c[1], c[2])]]
<1>1. ExtractedFrom(order) = CHOOSE f : Extracts(f)
  BY DEF ExtractedFrom, NextSearch, Found, Update, Searches
<1>2. ASSUME NEW c \in Searches, c[1] # << >>
      PROVE  NextSearch(order, c[1], c[2]) \in Searches
  <2> PICK p, u : p = c[1] /\ u = c[2]
    OBVIOUS
  <2>1. p \in Seq(Message) /\ u \in [Validator -> SUBSET Message] /\ p # << >>
    BY <1>2 DEF Searches
  <2>2. Head(p) \in Message /\ Tail(p) \in Seq(Message)
    BY <2>1
  <2>3. Found(order, p, u) \in Seq(Message)
    <3>1. Several(justification[Head(p)])
      BY <2>2, JustificationsHold
    <3>2. Listed(justification[Head(p)], order) \in Seq(justification[Head(p)])
      BY <3>1, ListedOnce, ListIsSeq
    <3>3. justification[Head(p)] \subseteq Message
      BY <3>1 DEF Several
    <3>4. Listed(justification[Head(p)], order) \in Seq(Message)
      BY <3>2, <3>3, SeqMonotonic, Zenon
    <3> QED BY <3>4 DEF Found
  <2>4. Update(past, u, Head(p)) \in [Validator -> SUBSET Message]
    <3> PICK m : m = Head(p)
      OBVIOUS
    <3>1. m \in Message /\ \A v \in Validator : u[v] \subseteq Message
      BY <2>1, <2>2
    <3> DEFINE new == IF u[sender[m]] = {} THEN {m}
                      ELSE {o \in u[sender[m]] : ~LM(past)!Depends(m, o)}
                           \cup {n \in {m} : \E o \in u[sender[m]] : LM(past)!Admits(o, n)}
    <3>2. Update(past, u, m) = [u EXCEPT ![sender[m]] = new]
      BY DEF Update, LM!Updated
    <3>3. sender[m] \in Validator => new \subseteq Message
      BY <3>1
    <3> HIDE DEF new
    <3> QED BY <2>1, <3>2, <3>3
  <2>5. Tail(p) \o Found(order, p, u) \in Seq(Message)
    BY <2>2, <2>3, ConcatProperties, Zenon
  <2>6. NextSearch(order, p, u) \in Searches
    BY <2>4, <2>5 DEF NextSearch, Searches
  <2> QED BY <2>6
<1>3. \E f : Extracts(f)
  <2> PICK C, D, n, o : C = Searches /\ D = Done /\ n = next /\ o = out
    OBVIOUS
  <2>1. \A c \in C \ D : n[c] \in C
    BY <1>2
  <2>2. PICK f : GoesOn(C, D, n, o, f)
    BY <2>1, TailRecursion
  <2>3. Extracts(f)
    <3> DEFINE g == [c \in Searches |-> IF c[1] = << >> THEN c[2]
                                        ELSE f[NextSearch(order, c[1], c[2])]]
    <3>1. \A c \in Searches : f[c] = g[c]
      BY <2>2 DEF GoesOn
    <3>2. f = [c \in Searches |-> f[c]] /\ g = [c \in Searches |-> g[c]]
      BY <2>2 DEF GoesOn
    <3>3. f = g
      <4> HIDE DEF g
      <4> QED BY <3>1, <3>2
    <3> QED BY <3>3
  <2> HIDE DEF Extracts
  <2> QED BY <2>3
<1>4. PICK f : Extracts(f) /\ ExtractedFrom(order) = f
  <2> HIDE DEF Extracts
  <2> QED BY <1>1, <1>3
<1>5. <<q, l>> \in Searches
  BY DEF Searches
<1> QED BY <1>4, <1>5

\* Along the search through the justification of m, the queue and the view hold
\* what is under m, and each message of the justification is queued or covered.
GoodSearch(m, q, l) ==
    /\ q \in Seq(past[m])
    /\ View(created, l)
    /\ \A v \in Validator : l[v] \subseteq past[m]
    /\ \A j \in justification[m] : Covers(l, j) \/ \E i \in 1 .. Len(q) : q[i] = j

\* What is under m and not covered yet.
Uncovered(m, l) == {n \in past[m] : ~Covers(l, n)}

\* The view with the messages of the justification and no others.
Reproduced(m) == [v \in Validator |-> SentBy(justification[m], v)]

\* When the queue is empty the view is the justification: it covers it, and
\* nothing under m is newer.
LEMMA SearchEnds ==
    ASSUME IInv, NEW m \in created, NEW l, GoodSearch(m, << >>, l)
    PROVE  l = Reproduced(m)
<1>1. /\ l \in [Validator -> SUBSET created]
      /\ \A v \in Validator : \A n, k \in l[v] : sender[n] = v /\ n = k
      /\ \A v \in Validator : l[v] \subseteq past[m]
      /\ \A j \in justification[m] : Covers(l, j)
  BY DEF GoodSearch, View
<1>2. /\ justification[m] \subseteq past[m] /\ past[m] \subseteq created
      /\ created \subseteq Message
      /\ \A n \in past[m] : \E k \in justification[m] :
            sender[k] = sender[n] /\ (k = n \/ After(k, n))
      /\ \A n, k \in justification[m] : sender[n] = sender[k] => n = k
  BY DEF IInv, TypeOK, Transitive, Justified
<1>3. ASSUME NEW v \in Validator, NEW j \in justification[m], sender[j] = v
      PROVE  l[v] = {j}
  <2>1. PICK k \in l[v] : k = j \/ After(k, j)
    BY <1>1, <1>3 DEF Covers
  <2>2. sender[k] = v /\ k \in past[m] /\ k \in Message /\ j \in Message
    BY <1>1, <1>2, <2>1
  <2>3. k = j \/ After(j, k)
    BY <1>2, <1>3, <2>2
  <2>4. k = j
    BY <2>1, <2>2, <2>3, Order
  <2> QED BY <1>1, <2>1, <2>4
<1>4. ASSUME NEW v \in Validator, \A j \in justification[m] : sender[j] # v
      PROVE  l[v] = {}
  BY <1>1, <1>2, <1>4
<1>5. ASSUME NEW v \in Validator PROVE l[v] = SentBy(justification[m], v)
  <2>1. CASE \A j \in justification[m] : sender[j] # v
    BY <1>4, <2>1 DEF SentBy
  <2>2. ASSUME NEW j \in justification[m], sender[j] = v
        PROVE  l[v] = SentBy(justification[m], v)
    <3>1. SentBy(justification[m], v) = {j}
      BY <1>2, <2>2 DEF SentBy
    <3> QED BY <1>3, <2>2, <3>1
  <2> QED BY <2>1, <2>2
<1> QED BY <1>1, <1>5 DEF Reproduced

\* A message that `update` takes was not covered.
LEMMA TakenIsNews ==
    ASSUME IInv, NEW l, View(created, l), NEW n \in created, LM(past)!UpdateSucceeds(l, n)
    PROVE  ~Covers(l, n)
<1>1. n \in Message /\ sender[n] \in Validator
  BY Parts DEF IInv, TypeOK
<1>2. CASE l[sender[n]] = {}
  BY <1>2 DEF Covers
<1>3. CASE l[sender[n]] # {}
  <2>1. n \notin l[sender[n]] /\ \E o \in l[sender[n]] : LM(past)!Admits(o, n)
    BY <1>3 DEF LM!UpdateSucceeds
  <2>2. PICK o \in l[sender[n]] : LM(past)!Admits(o, n)
    BY <2>1
  <2>3. l[sender[n]] = {o} /\ o \in created /\ o \in Message /\ sender[o] = sender[n]
    BY <1>1, <2>2 DEF View, IInv, TypeOK
  <2>4. (n \in past[o] <=> After(o, n)) /\ (o \in past[n] <=> After(n, o))
    BY <2>3 DEF IInv, Numbered
  <2>5. ~After(o, n)
    BY <1>1, <2>2, <2>3, <2>4, Order DEF LM!Admits, LM!Equivocates, LM!Depends
  <2> QED BY <2>1, <2>3, <2>5 DEF Covers
<1> QED BY <1>2, <1>3

\* A step of the search covers more, or has nothing to add to the queue.
LEMMA SearchGoesOn ==
    ASSUME IInv, NEW order \in Orders, NEW m \in created, NEW q, NEW l,
           GoodSearch(m, q, l), q # << >>
    PROVE  \E p, u :
              /\ NextSearch(order, q, l) = <<p, u>>
              /\ GoodSearch(m, p, u)
              /\ Uncovered(m, u) \subseteq Uncovered(m, l)
              /\ Uncovered(m, u) = Uncovered(m, l) => Len(q) = Len(p) + 1
<1> PICK h, t, f, u : h = Head(q) /\ t = Tail(q) /\ f = Found(order, q, l)
                      /\ u = Update(past, l, h)
  OBVIOUS
<1> DEFINE p == t \o f
<1>1. NextSearch(order, q, l) = <<p, u>>
  BY DEF NextSearch
<1>2. /\ q \in Seq(past[m]) /\ View(created, l)
      /\ \A v \in Validator : l[v] \subseteq past[m]
      /\ \A j \in justification[m] : Covers(l, j) \/ \E i \in 1 .. Len(q) : q[i] = j
  BY DEF GoodSearch
<1>3. /\ past[m] \subseteq created /\ created \in SUBSET Message
      /\ justification[m] \subseteq past[m]
      /\ \A n \in past[m] : past[n] \subseteq past[m] /\ justification[n] \subseteq past[n]
  BY DEF IInv, TypeOK, Transitive
<1>4. /\ h \in past[m] /\ h \in created /\ h = q[1]
      /\ t \in Seq(past[m]) /\ Len(q) \in Nat /\ Len(q) >= 1 /\ Len(t) = Len(q) - 1
      /\ \A i \in 1 .. Len(t) : t[i] = q[i + 1]
  <2>1. /\ h \in past[m] /\ h = q[1] /\ t \in Seq(past[m]) /\ Len(t) = Len(q) - 1
        /\ \A i \in 1 .. Len(t) : t[i] = q[i + 1]
    BY <1>2, HeadTailProperties
  <2>2. Len(q) \in Nat /\ Len(q) >= 1
    BY <1>2, EmptySeq, LenProperties
  <2> QED BY <1>3, <2>1, <2>2
<1>5. f \in Seq(past[m])
  <2>1. Several(justification[h]) /\ justification[h] \subseteq past[m]
    BY <1>3, <1>4, JustificationsHold
  <2>2. Listed(justification[h], order) \in Seq(justification[h])
    BY <2>1, ListedOnce, ListIsSeq
  <2>3. Listed(justification[h], order) \in Seq(past[m])
    BY <2>1, <2>2, SeqMonotonic
  <2>4. << >> \in Seq(past[m])
    BY EmptySeq
  <2> QED BY <2>3, <2>4, Zenon DEF Found
<1>6. /\ p \in Seq(past[m]) /\ Len(p) = Len(t) + Len(f)
      /\ \A i \in 1 .. Len(t) : p[i] = t[i]
      /\ Len(t) \in Nat /\ Len(f) \in Nat
  <2>1. Len(t) \in Nat /\ Len(f) \in Nat
    BY <1>4, <1>5, LenProperties
  <2>2. p \in Seq(past[m]) /\ Len(p) = Len(t) + Len(f)
        /\ \A i \in 1 .. Len(t) + Len(f) : p[i] = IF i <= Len(t) THEN t[i] ELSE f[i - Len(t)]
    BY <1>4, <1>5, ConcatProperties
  <2> QED BY <2>1, <2>2
<1> HIDE DEF p
<1>7. /\ View(created, u)
      /\ \A v \in Validator : u[v] \subseteq l[v] \cup {h}
      /\ Covers(u, h)
      /\ \A n \in created : Covers(l, n) => Covers(u, n)
  <2>1. CoveringUpdate(created, l, h, u)
    BY <1>2, <1>3, <1>4, UpdateCovers DEF IInv
  <2> QED BY <2>1 DEF CoveringUpdate
<1>8. ASSUME NEW j \in justification[m]
      PROVE  Covers(u, j) \/ \E i \in 1 .. Len(p) : p[i] = j
  <2>1. CASE Covers(l, j)
    BY <1>3, <1>7, <2>1
  <2>2. ASSUME NEW i \in 1 .. Len(q), q[i] = j
        PROVE  Covers(u, j) \/ \E k \in 1 .. Len(p) : p[k] = j
    <3>1. CASE i = 1
      BY <1>4, <1>7, <2>2, <3>1
    <3>2. CASE i # 1
      <4>1. i - 1 \in 1 .. Len(t) /\ i - 1 \in 1 .. Len(p) /\ (i - 1) + 1 = i
        BY <1>4, <1>6, <3>2
      <4>2. p[i - 1] = j
        BY <1>4, <1>6, <2>2, <4>1
      <4> QED BY <4>1, <4>2
    <3> QED BY <3>1, <3>2
  <2> QED BY <1>2, <2>1, <2>2
<1>9. GoodSearch(m, p, u)
  <2>1. \A v \in Validator : u[v] \subseteq past[m]
    BY <1>2, <1>4, <1>7
  <2> QED BY <1>6, <1>7, <1>8, <2>1 DEF GoodSearch
<1>10. Uncovered(m, u) \subseteq Uncovered(m, l)
  BY <1>3, <1>7 DEF Uncovered
<1>11. ASSUME Uncovered(m, u) = Uncovered(m, l) PROVE Len(q) = Len(p) + 1
  <2>1. Covers(l, h)
    BY <1>4, <1>7, <1>11 DEF Uncovered
  <2>2. f = << >>
    BY <1>2, <1>4, <2>1, TakenIsNews DEF Found
  <2>3. Len(f) = 0
    BY <2>2
  <2> QED BY <1>4, <1>6, <2>3
<1> QED BY <1>1, <1>9, <1>10, <1>11

\* The search through a justification finds its messages: each step covers more of
\* what is under m, or shortens the queue.
LEMMA SearchFinds ==
    ASSUME IInv, NEW order \in Orders, NEW m \in created, NEW q0, NEW l0,
           GoodSearch(m, q0, l0)
    PROVE  ExtractedFrom(order)[<<q0, l0>>] = Reproduced(m)
<1> DEFINE Ends(q, l) == ExtractedFrom(order)[<<q, l>>] = Reproduced(m)
           X == {T \in SUBSET past[m] :
                    \A q, l : GoodSearch(m, q, l) /\ Uncovered(m, l) = T => Ends(q, l)}
<1>1. ASSUME NEW q, NEW l, GoodSearch(m, q, l)
      PROVE  /\ q \in Seq(Message) /\ l \in [Validator -> SUBSET Message] /\ Len(q) \in Nat
             /\ Uncovered(m, l) \in SUBSET past[m]
  <2>1. /\ q \in Seq(past[m]) /\ l \in [Validator -> SUBSET created]
        /\ past[m] \subseteq Message /\ created \subseteq Message
    BY <1>1 DEF GoodSearch, View, IInv, TypeOK
  <2>2. q \in Seq(Message)
    BY <2>1, SeqMonotonic
  <2> QED BY <2>1, <2>2, LenProperties DEF Uncovered
<1>2. ASSUME NEW T \in SUBSET past[m], \A U \in SUBSET T : U # T => U \in X
      PROVE  T \in X
  <2> DEFINE N == {n \in Nat : \A q, l :
                      GoodSearch(m, q, l) /\ Uncovered(m, l) = T /\ Len(q) = n => Ends(q, l)}
  <2>1. ASSUME NEW q, NEW l, GoodSearch(m, q, l), Uncovered(m, l) = T, q = << >>
        PROVE  Ends(q, l)
    <3>1. ExtractedFrom(order)[<<q, l>>] = l
      BY <1>1, <2>1, SearchRecursion
    <3> QED BY <2>1, <3>1, SearchEnds
  <2>2. 0 \in N
    <3>1. ASSUME NEW q, NEW l, GoodSearch(m, q, l), Uncovered(m, l) = T, Len(q) = 0
          PROVE  Ends(q, l)
      <4>1. q = << >>
        BY <1>1, <3>1, EmptySeq
      <4> QED BY <2>1, <3>1, <4>1
    <3> HIDE DEF Ends
    <3> QED BY <3>1
  <2>3. ASSUME NEW n \in Nat, n \in N PROVE n + 1 \in N
    <3>1. ASSUME NEW q, NEW l, GoodSearch(m, q, l), Uncovered(m, l) = T, Len(q) = n + 1
          PROVE  Ends(q, l)
      <4>1. q # << >>
        BY <3>1, EmptySeq
      <4>2. PICK p, u : /\ NextSearch(order, q, l) = <<p, u>>
                        /\ GoodSearch(m, p, u)
                        /\ Uncovered(m, u) \subseteq Uncovered(m, l)
                        /\ Uncovered(m, u) = Uncovered(m, l) => Len(q) = Len(p) + 1
        BY <3>1, <4>1, SearchGoesOn
      <4>3. ExtractedFrom(order)[<<q, l>>] = ExtractedFrom(order)[<<p, u>>]
        BY <1>1, <3>1, <4>1, <4>2, SearchRecursion
      <4>4. Ends(p, u)
        <5>1. CASE Uncovered(m, u) = T
          <6>1. Len(p) = n
            BY <1>1, <3>1, <4>2, <5>1
          <6> HIDE DEF Ends
          <6> QED BY <2>3, <4>2, <5>1, <6>1
        <5>2. CASE Uncovered(m, u) # T
          <6>1. Uncovered(m, u) \in X
            BY <1>2, <3>1, <4>2, <5>2
          <6> HIDE DEF Ends
          <6> QED BY <4>2, <6>1
        <5> QED BY <5>1, <5>2
      <4> QED BY <4>3, <4>4
    <3>2. n + 1 \in Nat
      OBVIOUS
    <3> HIDE DEF Ends
    <3> QED BY <3>1, <3>2
  <2>4. Nat \subseteq N
    <3> HIDE DEF N
    <3> QED BY <2>2, <2>3, NatInductionSet
  <2>5. ASSUME NEW q, NEW l, GoodSearch(m, q, l), Uncovered(m, l) = T
        PROVE  Ends(q, l)
    <3>1. Len(q) \in N
      BY <1>1, <2>4, <2>5
    <3> HIDE DEF Ends
    <3> QED BY <2>5, <3>1
  <2> HIDE DEF Ends
  <2> QED BY <2>5
<1>3. Uncovered(m, l0) \in X
  <2> PICK S : S = Uncovered(m, l0)
    OBVIOUS
  <2>1. S \in SUBSET past[m] /\ IsFiniteSet(S)
    BY FS_Subset DEF IInv, TypeOK, Uncovered
  <2>2. \A T \in SUBSET S : (\A U \in SUBSET T : U # T => U \in X) => T \in X
    <3> HIDE DEF X
    <3> QED BY <1>2, <2>1
  <2>3. S \in X
    <3> HIDE DEF X
    <3> QED BY <2>1, <2>2, FiniteStrongInduction
  <2> QED BY <2>3
<1> HIDE DEF Ends
<1>4. Ends(q0, l0)
  BY <1>3
<1> QED BY <1>4 DEF Ends

\* What is extracted from the justification of a message is its messages.
LEMMA ExtractedIsReproduced ==
    ASSUME IInv, NEW order \in Orders, NEW m \in created
    PROVE  Extracted(justification[m], order) = Reproduced(m)
<1> PICK q, e : q = Listed(justification[m], order) /\ e = LM(past)!Empty
  OBVIOUS
<1>1. Several(justification[m]) /\ justification[m] \subseteq past[m]
  BY JustificationsHold DEF IInv, TypeOK, Transitive
<1>2. /\ q \in Seq(justification[m])
      /\ \A j \in justification[m] : \E i \in 1 .. Len(q) : q[i] = j
  BY <1>1, ListedOnce, ListIsSeq
<1>3. q \in Seq(past[m])
  BY <1>1, <1>2, SeqMonotonic
<1>4. View(created, e) /\ \A v \in Validator : e[v] \subseteq past[m]
  BY DEF View, LM!Empty
<1>5. GoodSearch(m, q, e)
  BY <1>2, <1>3, <1>4 DEF GoodSearch
<1>6. ExtractedFrom(order)[<<q, e>>] = Reproduced(m)
  BY <1>5, SearchFinds
<1> QED BY <1>6 DEF Extracted

\* A recipient gets the messages of a justification from it, and nothing else.
LEMMA Reproduces == IInv => Reproducible
<1> SUFFICES ASSUME IInv, NEW v \in Validator, NEW order \in Orders, NEW m \in latest[v][v]
             PROVE  LET just == justification[m]
                        view == Extracted(just, order)
                    IN  /\ EstimatedFrom(just, order) = just
                        /\ Readded(view, just, order) = view
  BY DEF Reproducible
<1> PICK J, R : J = justification[m] /\ R = Reproduced(m)
  OBVIOUS
<1>1. m \in created /\ created \subseteq Message
  BY DEF IInv, TypeOK
<1>2. Several(J) /\ J \subseteq created /\ Extracted(J, order) = R
  BY <1>1, JustificationsHold, ExtractedIsReproduced
<1>3. \A n \in Message : sender[n] \in Validator
  BY Parts
<1>4. /\ R = [w \in Validator |-> SentBy(J, w)]
      /\ \A j \in J : R[sender[j]] = {j} /\ sender[j] \in Validator
  BY <1>2, <1>3 DEF Reproduced, SentBy, Several
<1>5. EstimatedFrom(J, order) = J
  <2>1. ASSUME NEW n \in Message PROVE R[sender[n]] = {n} <=> n \in J
    BY <1>3, <1>4 DEF SentBy
  <2> QED BY <1>2, <2>1 DEF EstimatedFrom, LM!Honest, Several
<1>6. View(created, R)
  BY <1>2, <1>4 DEF View, SentBy, Several
<1>7. ASSUME NEW j \in J PROVE Update(past, R, j)[sender[j]] = {j}
  <2>1. j \in created /\ created \in SUBSET Message /\ Numbered(created, past)
    BY <1>1, <1>2 DEF IInv
  <2>2. Newer(created, R, j, Update(past, R, j))
    BY <1>6, <2>1, UpdateKeepsNewer
  <2>3. ~After(j, j)
    BY <2>1, Order
  <2> QED BY <1>4, <2>2, <2>3 DEF Newer
<1>8. Merged(R, J) = R
  <2>1. ASSUME NEW w \in Validator PROVE Merged(R, J)[w] = R[w]
    <3>1. CASE SentBy(J, w) = {}
      BY <3>1 DEF Merged
    <3>2. ASSUME NEW j \in SentBy(J, w) PROVE Merged(R, J)[w] = R[w]
      <4>1. j \in J /\ sender[j] = w /\ SentBy(J, w) = {j}
        BY <1>2 DEF SentBy, Several
      <4>2. Merged(R, J)[w] = Update(past, R, j)[w]
        BY <4>1 DEF Merged
      <4> QED BY <1>4, <1>7, <4>1, <4>2
    <3> QED BY <3>1, <3>2
  <2>2. Merged(R, J) = [w \in Validator |-> Merged(R, J)[w]]
    BY DEF Merged
  <2>3. R = [w \in Validator |-> R[w]]
    BY <1>4
  <2> QED BY <2>1, <2>2, <2>3
<1>9. Readded(R, J, order) = R
  <2>1. DOMAIN R = Validator /\ R = [w \in Validator |-> R[w]]
    BY <1>4
  <2>2. Readded(R, J, order) = Merged(R, J)
    BY <1>2, <2>1, ReaddedIsMerged
  <2> QED BY <1>8, <2>2
<1> QED BY <1>2, <1>5, <1>9

-----------------------------------------------------------------------------
(* The theorems *)

\* Every step keeps the invariant.
LEMMA NextInv ==
    ASSUME IInv, [Next]_vars
    PROVE  IInv'
<1>1. ASSUME NEW v \in Validator, Start(v) PROVE IInv'
  BY <1>1, StartAdds, AddedInv
<1>2. ASSUME NEW v \in Validator, Create(v) PROVE IInv'
  <2> PICK J : J = JustificationFrom(v, latest[v])
    OBVIOUS
  <2>0. Fits(v, latest[v])
    BY DEF Fits, IInv, Views
  <2>1. Added(v, latest[v], J) /\ Basis(v, latest[v], J)
    BY <1>2, <2>0, CreateAdds DEF Create
  <2> QED BY <2>0, <2>1, AddedInv
<1>3. ASSUME NEW m \in created, NEW r \in Validator, Deliver(m, r) PROVE IInv'
  BY <1>3, DeliverInv
<1>4. CASE UNCHANGED vars
  <2>1. TypeOK' /\ Uncreated' /\ Justified' /\ Transitive' /\ IsFiniteSet(created)'
    BY <1>4 DEF vars, IInv, TypeOK, Uncreated, Justified, Transitive
  <2>2. OwnNumbered' /\ OwnLatest'
    BY <1>4 DEF vars, IInv, OwnNumbered, OwnLatest, Own
  <2>3. Numbered(created, past)' /\ Views'
    BY <1>4 DEF vars, IInv, Numbered, Views, View, Closed, Covers
  <2> QED BY <2>1, <2>2, <2>3 DEF IInv
<1> QED BY <1>1, <1>2, <1>3, <1>4 DEF Next

\* The invariant holds in every run.
LEMMA Invariance == Spec => []IInv
<1> QED BY InitInv, NextInv, PTL DEF Spec

\* Messages of one sender are under one another.
LEMMA NobodyEquivocates == IInv => NoSelfEquivocation
<1> SUFFICES ASSUME IInv, NEW m \in created, NEW n \in created, LM(past)!Equivocates(m, n)
             PROVE  FALSE
  BY DEF NoSelfEquivocation
<1>1. m # n /\ sender[m] = sender[n] /\ n \notin past[m] /\ m \notin past[n]
  BY DEF LM!Equivocates, LM!Depends
<1>2. m \in Message /\ n \in Message /\ ~After(m, n) /\ ~After(n, m)
  BY <1>1 DEF IInv, TypeOK, Numbered
<1> QED BY <1>1, <1>2, Order

\* Closed, said with Depends in place of the numbers.
LEMMA ViewsClosed == IInv => ViewClosed
<1> SUFFICES ASSUME IInv, NEW r \in Validator, NEW v \in Validator,
                    NEW m \in latest[r][v], NEW n \in past[m]
             PROVE  \E k \in latest[r][sender[n]] : k = n \/ LM(past)!Depends(k, n)
  BY DEF ViewClosed
<1>1. PICK k \in latest[r][sender[n]] : k = n \/ After(k, n)
  BY DEF IInv, Views, Closed, Covers
<1>2. m \in created /\ n \in created /\ sender[n] \in Validator
  BY Parts DEF IInv, TypeOK
<1>3. k \in created /\ sender[k] = sender[n]
  BY <1>2 DEF IInv, Views, View
<1>4. After(k, n) => n \in past[k]
  BY <1>2, <1>3 DEF IInv, Numbered
<1> QED BY <1>1, <1>4 DEF LM!Depends

\* What exists, what it is justified by and what is delivered are messages that
\* were created.
THEOREM TypeCorrect == Spec => []TypeOK
<1>1. IInv => TypeOK
  BY DEF IInv
<1> QED BY <1>1, Invariance, PTL

\* A validator that follows the protocol never equivocates, whatever is delivered
\* to it, and when.
THEOREM NeverEquivocates == Spec => []NoSelfEquivocation
<1> QED BY NobodyEquivocates, Invariance, PTL

\* Whatever is under a message of a view is in the view, or under a message of
\* its sender there: one level of each justification is enough.
THEOREM ClosedViews == Spec => []ViewClosed
<1> QED BY ViewsClosed, Invariance, PTL

\* A recipient can reproduce what a message was estimated from, from its
\* justification alone and in whatever order that lists its messages: the search
\* through the justification ends with its messages, and adding them again changes
\* nothing.
THEOREM Reproduction == Spec => []Reproducible
<1> QED BY Reproduces, Invariance, PTL
=============================================================================
