------------------------ MODULE ValidatorState_proofs ------------------------
(***************************************************************************)
(* Theorems about ValidatorState, about what of it a state keeps while     *)
(* others slash the weights it reads (SharedWeights), and about the votes  *)
(* that are counted under its honest messages (VoteCount), for every       *)
(* message graph, all weights and every threshold.                         *)
(***************************************************************************)
EXTENDS SharedWeights, BatchOrder, Messages_proofs, Induction_proofs, SequenceTheorems

-----------------------------------------------------------------------------
(* LatestMessages::update *)

\* What `update` leaves at the sender of the message and at the others.
LEMMA UpdatedAt ==
    ASSUME NEW latest \in [Validator -> SUBSET Message], NEW m \in Message
    PROVE  /\ Updated(latest, m) \in [Validator -> SUBSET Message]
           /\ \A v \in Validator \ {sender[m]} : Updated(latest, m)[v] = latest[v]
           /\ latest[sender[m]] = {} => Updated(latest, m)[sender[m]] = {m}
           /\ latest[sender[m]] # {} =>
                Updated(latest, m)[sender[m]] =
                  {o \in latest[sender[m]] : ~Depends(m, o)}
                  \cup {n \in {m} : \E o \in latest[sender[m]] : Admits(o, n)}
<1>1. sender[m] \in Validator
  BY SenderAssumption
<1> QED BY <1>1 DEF Updated

\* AddLatest keeps the part of the type invariant it touches.
LEMMA AddLatestType ==
    ASSUME TypeOK, NEW m \in Message, AddLatest(m)
    PROVE  /\ latest_messages' \in [Validator -> SUBSET Message]
           /\ received' \subseteq Message
BY UpdatedAt DEF TypeOK, AddLatest

\* The latest messages of a validator stay its own, received messages.
LEMMA AddLatestReceived ==
    ASSUME TypeOK, LatestReceived, NEW m \in Message, AddLatest(m)
    PROVE  LatestReceived'
<1> SUFFICES ASSUME NEW v \in Validator, NEW n \in latest_messages'[v]
             PROVE  n \in received' /\ sender[n] = v
  BY DEF LatestReceived
<1>1. CASE v # sender[m]
  BY <1>1, UpdatedAt DEF TypeOK, LatestReceived, AddLatest
<1>2. CASE v = sender[m]
  <2>1. n \in latest_messages[v] \cup {m}
    BY <1>2, UpdatedAt DEF TypeOK, AddLatest
  <2> QED BY <1>2, <2>1 DEF LatestReceived, AddLatest
<1> QED BY <1>1, <1>2

\* Whatever was received is still latest or below a latest message.
LEMMA AddLatestNothingLost ==
    ASSUME TypeOK, LatestReceived, NothingLost, NEW m \in Message, AddLatest(m)
    PROVE  NothingLost'
<1> DEFINE s == sender[m]
           L == latest_messages[s]
           L2 == latest_messages'[s]
<1>1. s \in Validator /\ L \subseteq Message
  BY SenderAssumption DEF TypeOK
<1>2. latest_messages \in [Validator -> SUBSET Message]
  BY DEF TypeOK
<1>3. latest_messages' = Updated(latest_messages, m) /\ received' = received \cup {m}
  BY DEF AddLatest
<1>4. L # {} => L2 = {o \in L : ~Depends(m, o)} \cup {n \in {m} : \E o \in L : Admits(o, n)}
  BY <1>2, <1>3, UpdatedAt
<1>5. L = {} => L2 = {m}
  BY <1>2, <1>3, UpdatedAt
<1>6. received \subseteq Message
  BY DEF TypeOK
<1> SUFFICES ASSUME NEW n \in received'
             PROVE  \E w \in latest_messages'[sender[n]] : w = n \/ Depends(w, n)
  BY DEF NothingLost
<1>7. n \in Message
  BY <1>3, <1>6
<1>8. CASE sender[n] # s
  <2>1. n \in received /\ sender[n] \in Validator
    BY <1>3, <1>7, <1>8, SenderAssumption
  <2>2. latest_messages'[sender[n]] = latest_messages[sender[n]]
    BY <1>2, <1>3, <1>8, <2>1, UpdatedAt
  <2> QED BY <2>1, <2>2 DEF NothingLost
<1>9. CASE sender[n] = s /\ n = m
  <2>1. CASE m \in L2
    BY <1>9, <2>1
  <2>2. CASE m \notin L2
    <3>1. PICK o \in L : TRUE
      BY <1>5, <2>2
    <3>2. ~Depends(m, o) /\ ~Equivocates(m, o)
      BY <1>4, <2>2, <3>1 DEF Admits
    <3>3. o \in L2
      BY <1>4, <3>1, <3>2
    <3>4. o # m /\ sender[o] = s
      BY <1>1, <2>2, <3>1, <3>3 DEF LatestReceived
    <3>5. Depends(o, m)
      BY <1>1, <3>1, <3>2, <3>4, SameSenderCases
    <3> QED BY <1>9, <3>3, <3>5
  <2> QED BY <2>1, <2>2
<1>10. CASE sender[n] = s /\ n # m
  <2>1. PICK w \in L : w = n \/ Depends(w, n)
    BY <1>3, <1>10 DEF NothingLost
  <2>2. CASE Depends(m, w)
    <3>1. m \in L2
      BY <1>4, <2>1, <2>2 DEF Admits
    <3>2. Depends(m, n)
      BY <1>1, <1>7, <2>1, <2>2, DependsTransitive
    <3> QED BY <1>10, <3>1, <3>2
  <2>3. CASE ~Depends(m, w)
    BY <1>4, <1>10, <2>1, <2>3
  <2> QED BY <2>2, <2>3
<1> QED BY <1>8, <1>9, <1>10

\* A message that knows all that was received of its sender is the only latest.
LEMMA AddLatestNewestAlone ==
    ASSUME TypeOK, LatestReceived, NothingLost, NewestAlone,
           NEW m \in Message, AddLatest(m)
    PROVE  NewestAlone'
<1> DEFINE s == sender[m]
           L == latest_messages[s]
           L2 == latest_messages'[s]
<1>1. s \in Validator /\ L \subseteq Message
  BY SenderAssumption DEF TypeOK
<1>2. latest_messages \in [Validator -> SUBSET Message]
  BY DEF TypeOK
<1>3. latest_messages' = Updated(latest_messages, m) /\ received' = received \cup {m}
  BY DEF AddLatest
<1>4. L # {} => L2 = {o \in L : ~Depends(m, o)} \cup {n \in {m} : \E o \in L : Admits(o, n)}
  BY <1>2, <1>3, UpdatedAt
<1>5. L = {} => L2 = {m}
  BY <1>2, <1>3, UpdatedAt
<1>6. received \subseteq Message
  BY DEF TypeOK
<1> SUFFICES ASSUME NEW t \in received',
                    \A n \in received' : sender[n] = sender[t] /\ n # t => Depends(t, n)
             PROVE  latest_messages'[sender[t]] = {t}
  BY DEF NewestAlone
<1>7. t \in Message
  BY <1>3, <1>6
<1>8. CASE sender[t] # s
  <2>1. t \in received /\ sender[t] \in Validator
    BY <1>3, <1>7, <1>8, SenderAssumption
  <2>2. latest_messages'[sender[t]] = latest_messages[sender[t]]
    BY <1>2, <1>3, <1>8, <2>1, UpdatedAt
  <2> QED BY <1>3, <2>1, <2>2 DEF NewestAlone
<1>9. CASE t = m
  <2>1. \A o \in L : o # m => Depends(m, o)
    BY <1>1, <1>3, <1>9 DEF LatestReceived
  <2>2. ~Depends(m, m)
    BY AcyclicAssumption
  <2>3. CASE L = {}
    BY <1>5, <1>9, <2>3
  <2>4. CASE L = {m}
    <3>1. L2 \subseteq {m}
      BY <1>4, <2>4
    <3>2. m \in L2
      BY <1>4, <2>2, <2>4
    <3> QED BY <1>9, <3>1, <3>2
  <2>5. CASE L # {} /\ L # {m}
    <3>1. PICK o \in L : o # m
      BY <2>5
    <3>2. m \in L2
      BY <1>4, <2>1, <3>1 DEF Admits
    <3>3. L2 \subseteq {m}
      BY <1>4, <2>1, <2>5
    <3> QED BY <1>9, <3>2, <3>3
  <2> QED BY <2>3, <2>4, <2>5
<1>10. CASE sender[t] = s /\ t # m
  <2>1. t \in received /\ Depends(t, m)
    BY <1>3, <1>10
  <2>2. L = {t}
    BY <1>3, <1>10, <2>1 DEF NewestAlone
  <2>3. ~Depends(m, t)
    BY <1>7, <2>1, DependsAsymmetric
  <2>4. ~Admits(t, m)
    BY <2>1, <2>3 DEF Admits, Equivocates
  <2> QED BY <1>4, <1>10, <2>2, <2>3, <2>4
<1> QED BY <1>8, <1>9, <1>10

-----------------------------------------------------------------------------
(* The messages that reach latest_messages: Next changes them only through  *)
(* AddLatest.                                                               *)

\* A faulty_insert gives the latest messages one message or leaves them alone.
LEMMA InsertionView ==
    ASSUME NEW m \in Message, NEW out, Insertion(m, out)
    PROVE  AddLatest(m) \/ UNCHANGED <<latest_messages, received>>
BY DEF Insertion, Refuse, AlreadyIn, Accept

\* So does every step.
LEMMA NextView ==
    ASSUME Next
    PROVE  \/ UNCHANGED <<latest_messages, received>>
           \/ \E m \in Message : AddLatest(m)
<1>1. ASSUME NEW m \in Message, Update(m) PROVE AddLatest(m)
  BY <1>1 DEF Update
<1>2. ASSUME NEW m \in Message, FaultyInsert(m)
      PROVE  AddLatest(m) \/ UNCHANGED <<latest_messages, received>>
  BY <1>2, InsertionView DEF FaultyInsert
<1>3. ASSUME NEW S \in Batches, NEW fresh \in BOOLEAN, StartBatch(S, fresh)
      PROVE  UNCHANGED <<latest_messages, received>>
  BY <1>3 DEF StartBatch
<1>4. ASSUME NEW m \in Message, InsertNext(m)
      PROVE  AddLatest(m) \/ UNCHANGED <<latest_messages, received>>
  BY <1>4, InsertionView DEF InsertNext
<1> QED BY <1>1, <1>2, <1>3, <1>4 DEF Next

-----------------------------------------------------------------------------
(* Type correctness *)

\* Charging an equivocator that fits keeps the types.
LEMMA ChargeType ==
    ASSUME TypeOK, NEW v \in Validator, Fits(v), Charge(v)
    PROVE  /\ equivocators' \subseteq Validator
           /\ state_fault_weight' \in Nat
<1>1. validators_weights[v] \in Nat
  BY DEF TypeOK, Fits
<1> QED BY <1>1 DEF TypeOK, Charge

\* One faulty_insert keeps the types, as long as `out` is a set of messages.
LEMMA InsertionType ==
    ASSUME TypeOK, NEW m \in Message, NEW out \in SUBSET Message, Insertion(m, out)
    PROVE  /\ latest_messages' \in [Validator -> SUBSET Message]
           /\ received' \subseteq Message
           /\ justified' \subseteq Message
           /\ refused' \subseteq Message
           /\ equivocators' \subseteq Validator
           /\ state_fault_weight' \in Nat
<1>1. sender[m] \in Validator
  BY SenderAssumption
<1>2. CASE Refuse(m, out)
  BY <1>2 DEF TypeOK, Refuse, faultVars
<1>3. CASE AlreadyIn(m, out)
  BY <1>3 DEF TypeOK, AlreadyIn, faultVars
<1>4. CASE Accept(m, out)
  <2>1. AddLatest(m) /\ justified' = justified \cup {m} /\ refused' = out
    BY <1>4 DEF Accept
  <2>2. equivocators' \subseteq Validator /\ state_fault_weight' \in Nat
    <3>1. CASE Unlisted(m)
      BY <1>1, <1>4, <3>1, ChargeType DEF Accept
    <3>2. CASE ~Unlisted(m)
      BY <1>4, <3>2 DEF Accept, faultVars, TypeOK
    <3> QED BY <3>1, <3>2
  <2> QED BY <2>1, <2>2, AddLatestType DEF TypeOK
<1> QED BY <1>2, <1>3, <1>4 DEF Insertion

\* State::new has the types.
LEMMA InitType == Init => TypeOK
BY WeightAssumption DEF Init, TypeOK, Empty

\* Every step keeps the types.
LEMMA NextType ==
    ASSUME TypeOK, [Next]_vars
    PROVE  TypeOK'
<1>1. ASSUME NEW m \in Message, Update(m) PROVE TypeOK'
  <2>1. sender[m] \in Validator
    BY SenderAssumption
  <2>2. latest_messages' \in [Validator -> SUBSET Message] /\ received' \subseteq Message
    BY <1>1, AddLatestType DEF Update
  <2>3. equivocators' \subseteq Validator /\ state_fault_weight' \in Nat
    <3>1. CASE UNCHANGED faultVars
      BY <3>1 DEF faultVars, TypeOK
    <3>2. CASE Fits(sender[m]) /\ Charge(sender[m])
      BY <2>1, <3>2, ChargeType
    <3> QED BY <1>1, <3>1, <3>2 DEF Update
  <2> QED BY <1>1, <2>2, <2>3 DEF Update, TypeOK
<1>2. ASSUME NEW m \in Message, FaultyInsert(m) PROVE TypeOK'
  <2>1. Insertion(m, {}) /\ UNCHANGED <<todo, validators_weights>>
    BY <1>2 DEF FaultyInsert
  <2> QED BY <2>1, InsertionType DEF TypeOK
<1>3. ASSUME NEW S \in Batches, NEW fresh \in BOOLEAN, StartBatch(S, fresh)
      PROVE  TypeOK'
  <2>1. S \subseteq Message /\ Sortable(S) \subseteq Message
    BY DEF Batches, Sortable
  <2>2. \A m \in Sortable(S) : FaultWeight(m) \in Nat
    BY <2>1, SenderAssumption DEF Sortable, FaultWeight, TypeOK
  <2>3. DOMAIN todo' = Sortable(S) /\ \A m \in Sortable(S) : todo'[m] = FaultWeight(m)
    BY <1>3 DEF StartBatch
  <2>4. refused' \subseteq Message /\ justified' \subseteq Message
    BY <1>3, <2>1 DEF StartBatch, TypeOK
  <2> QED BY <1>3, <2>1, <2>2, <2>3, <2>4 DEF StartBatch, TypeOK, faultVars
<1>4. ASSUME NEW m \in Message, InsertNext(m) PROVE TypeOK'
  <2>1. /\ Insertion(m, refused)
        /\ UNCHANGED validators_weights
        /\ todo' = [n \in DOMAIN todo \ {m} |-> todo[n]]
    BY <1>4 DEF InsertNext
  <2>2. refused \in SUBSET Message
    BY DEF TypeOK
  <2>3. DOMAIN todo' \subseteq Message /\ \A n \in DOMAIN todo' : todo'[n] \in Nat
    BY <2>1 DEF TypeOK
  <2> QED BY <2>1, <2>2, <2>3, InsertionType DEF TypeOK
<1>5. CASE UNCHANGED vars
  BY <1>5 DEF vars, faultVars, TypeOK
<1> QED BY <1>1, <1>2, <1>3, <1>4, <1>5 DEF Next

\* The variables keep their types in every run.
THEOREM TypeCorrect == Spec => []TypeOK
BY InitType, NextType, PTL DEF Spec

-----------------------------------------------------------------------------
(* The latest messages in every run *)

ViewInv == TypeOK /\ LatestReceived /\ NothingLost /\ NewestAlone

\* State::new has received nothing, so its latest messages are right.
LEMMA InitView == Init => ViewInv
BY InitType DEF Init, ViewInv, LatestReceived, NothingLost, NewestAlone, Empty

\* Every step keeps the invariants of the latest messages.
LEMMA NextViewInv ==
    ASSUME ViewInv, [Next]_vars
    PROVE  ViewInv'
<1>1. TypeOK'
  BY NextType DEF ViewInv
<1>2. ASSUME UNCHANGED <<latest_messages, received>> PROVE ViewInv'
  BY <1>1, <1>2 DEF ViewInv, LatestReceived, NothingLost, NewestAlone
<1>3. ASSUME NEW m \in Message, AddLatest(m) PROVE ViewInv'
  BY <1>1, <1>3, AddLatestReceived, AddLatestNothingLost, AddLatestNewestAlone
     DEF ViewInv
<1>4. CASE UNCHANGED vars
  BY <1>2, <1>4 DEF vars
<1> QED BY <1>2, <1>3, <1>4, NextView

\* The latest messages were received, nothing received is forgotten but for a
\* message that depends on it, and a newest message stands alone, in every run.
THEOREM ViewCorrect == Spec => [](LatestReceived /\ NothingLost /\ NewestAlone)
<1>1. ViewInv => LatestReceived /\ NothingLost /\ NewestAlone
  BY DEF ViewInv
<1> QED BY <1>1, InitView, NextViewInv, PTL DEF Spec

-----------------------------------------------------------------------------
(* The accounting of equivocators *)

\* What is charged, and why: the equivocators and the fault weight change only
\* when a message that equivocates with a latest one is added and fits.
Charging(m) ==
    /\ AddLatest(m)
    /\ Equivocate(latest_messages, m) \/ Equivocate(latest_messages', m)
    /\ Fits(sender[m])
    /\ Charge(sender[m])

\* What one faulty_insert does to the fault weight: it charges the sender, if that
\* fits, or leaves it alone.
LEMMA InsertionCharges ==
    ASSUME NEW m \in Message, NEW out, Insertion(m, out)
    PROVE  Charging(m) \/ UNCHANGED faultVars
<1>1. CASE Refuse(m, out)
  BY <1>1 DEF Refuse
<1>2. CASE AlreadyIn(m, out)
  BY <1>2 DEF AlreadyIn
<1>3. CASE Accept(m, out)
  BY <1>3 DEF Accept, Charging, Unlisted
<1> QED BY <1>1, <1>2, <1>3 DEF Insertion

\* Every step charges one validator that fits, or nobody; no step slashes.
LEMMA NextCharges ==
    ASSUME Next
    PROVE  /\ UNCHANGED validators_weights
           /\ UNCHANGED faultVars \/ \E m \in Message : Charging(m)
<1>1. ASSUME NEW m \in Message, Update(m)
      PROVE  UNCHANGED validators_weights /\ (Charging(m) \/ UNCHANGED faultVars)
  BY <1>1 DEF Update, Charging
<1>2. ASSUME NEW m \in Message, FaultyInsert(m)
      PROVE  UNCHANGED validators_weights /\ (Charging(m) \/ UNCHANGED faultVars)
  BY <1>2, InsertionCharges DEF FaultyInsert
<1>3. ASSUME NEW S \in Batches, NEW fresh \in BOOLEAN, StartBatch(S, fresh)
      PROVE  UNCHANGED validators_weights /\ UNCHANGED faultVars
  BY <1>3 DEF StartBatch
<1>4. ASSUME NEW m \in Message, InsertNext(m)
      PROVE  UNCHANGED validators_weights /\ (Charging(m) \/ UNCHANGED faultVars)
  BY <1>4, InsertionCharges DEF InsertNext
<1> QED BY <1>1, <1>2, <1>3, <1>4 DEF Next

\* One faulty_insert changes nothing of the view, adds the message and lists nobody,
\* or adds it and charges its sender.
LEMMA InsertionAdds ==
    ASSUME NEW m \in Message, NEW out, Insertion(m, out)
    PROVE  \/ UNCHANGED <<latest_messages, received, equivocators>>
           \/ AddLatest(m) /\ UNCHANGED equivocators
           \/ Charging(m)
<1>1. CASE Refuse(m, out)
  BY <1>1 DEF Refuse, faultVars
<1>2. CASE AlreadyIn(m, out)
  BY <1>2 DEF AlreadyIn, faultVars
<1>3. CASE Accept(m, out)
  BY <1>3 DEF Accept, Charging, Unlisted, faultVars
<1> QED BY <1>1, <1>2, <1>3 DEF Insertion

\* Every step does so: a validator is listed only as a message of its own is added.
LEMMA NextAdds ==
    ASSUME Next
    PROVE  \/ UNCHANGED <<latest_messages, received, equivocators>>
           \/ \E m \in Message : AddLatest(m) /\ (UNCHANGED equivocators \/ Charging(m))
<1> DEFINE Same == UNCHANGED <<latest_messages, received, equivocators>>
           Adds(m) == AddLatest(m) /\ (UNCHANGED equivocators \/ Charging(m))
<1>1. ASSUME NEW m \in Message, Update(m) PROVE Adds(m)
  BY <1>1 DEF Update, Charging, faultVars
<1>2. ASSUME NEW m \in Message, FaultyInsert(m) PROVE Adds(m) \/ Same
  BY <1>2, InsertionAdds DEF FaultyInsert, Charging
<1>3. ASSUME NEW S \in Batches, NEW fresh \in BOOLEAN, StartBatch(S, fresh) PROVE Same
  BY <1>3 DEF StartBatch, faultVars
<1>4. ASSUME NEW m \in Message, InsertNext(m) PROVE Adds(m) \/ Same
  BY <1>4, InsertionAdds DEF InsertNext, Charging
<1> QED BY <1>1, <1>2, <1>3, <1>4 DEF Next

\* A charged message equivocates with one received before it.
LEMMA ChargingConflicts ==
    ASSUME ViewInv, ViewInv', NEW m \in Message, Charging(m)
    PROVE  \E n \in received : HV!Conflict(m, n)
<1>1. sender[m] \in Validator
  BY SenderAssumption
<1>2. received' = received \cup {m}
  BY DEF Charging, AddLatest
<1>3. PICK o \in received' : Equivocates(o, m)
  <2>1. CASE Equivocate(latest_messages, m)
    BY <1>1, <1>2, <2>1 DEF Equivocate, ViewInv, LatestReceived
  <2>2. CASE Equivocate(latest_messages', m)
    BY <1>1, <2>2 DEF Equivocate, ViewInv, LatestReceived
  <2> QED BY <2>1, <2>2 DEF Charging
<1>4. o \in received
  BY <1>2, <1>3 DEF Equivocates
<1> QED BY <1>3, <1>4 DEF Equivocates, HV!Conflict

-----------------------------------------------------------------------------
(* The honest view *)

\* The honest messages are the heads of what was received, less those of the listed.
HonestHeads ==
    Honest(latest_messages, equivocators)
        = {h \in HV!Heads(received) : sender[h] \notin equivocators}

\* The invariants of the latest messages make the honest ones the heads.
LEMMA HonestIsHeads == ViewInv => HonestHeads
<1> SUFFICES ASSUME ViewInv PROVE HonestHeads
  OBVIOUS
<1>1. ASSUME NEW m \in Message, latest_messages[sender[m]] = {m}
      PROVE  m \in HV!Heads(received)
  <2>1. m \in received
    BY <1>1, SenderAssumption DEF ViewInv, LatestReceived
  <2>2. \A n \in received : sender[n] = sender[m] /\ n # m => Depends(m, n)
    BY <1>1 DEF ViewInv, NothingLost
  <2> QED BY <2>1, <2>2 DEF HV!Heads
<1>2. ASSUME NEW m \in HV!Heads(received)
      PROVE  m \in Message /\ latest_messages[sender[m]] = {m}
  <2>1. m \in received /\ \A n \in received : sender[n] = sender[m] /\ n # m => Depends(m, n)
    BY <1>2 DEF HV!Heads
  <2> QED BY <2>1 DEF ViewInv, TypeOK, NewestAlone
<1> QED BY <1>1, <1>2 DEF Honest, HonestHeads

\* What Message::from_validator_state hands on refines HonestView: the messages of the
\* validators the state lists are left out, the others are a function of the set of
\* messages received, and nobody is listed whose arriving message does not
\* equivocate with one received before.
THEOREM Refinement == Spec => RefinesHonestView
<1>1. Init => HV!Init
  BY SenderAssumption DEF Init, HV!Init, Honest, Empty
<1>2. ViewInv' => HonestHeads'
  BY HonestIsHeads, PTL
<1>3. ViewInv /\ [Next]_vars => [HV!Next]_HV!vars
  <2> SUFFICES ASSUME ViewInv, [Next]_vars PROVE [HV!Next]_HV!vars
    OBVIOUS
  <2>1. ASSUME UNCHANGED <<latest_messages, received, equivocators>> PROVE UNCHANGED HV!vars
    BY <2>1 DEF HV!vars, Honest
  <2>2. ViewInv'
    BY NextViewInv
  <2>3. Honest(latest_messages, equivocators)'
            = {h \in HV!Heads(received)' : sender[h] \notin equivocators'}
    BY <1>2, <2>2 DEF HonestHeads
  <2>4. ASSUME NEW m \in Message, AddLatest(m), UNCHANGED equivocators \/ Charging(m)
        PROVE  HV!Receive(m)
    <3>1. received' = received \cup {m}
      BY <2>4 DEF AddLatest
    <3>2. CASE UNCHANGED equivocators
      BY <2>3, <3>1, <3>2 DEF HV!Receive, HV!Heads
    <3>3. CASE Charging(m)
      <4>1. \E n \in received : HV!Conflict(m, n)
        BY <2>2, <3>3, ChargingConflicts
      <4>2. equivocators' = equivocators \cup {sender[m]}
        BY <3>3 DEF Charging, Charge
      <4> QED BY <2>3, <3>1, <4>1, <4>2 DEF HV!Receive, HV!Heads
    <3> QED BY <2>4, <3>2, <3>3
  <2>5. CASE UNCHANGED vars
    BY <2>1, <2>5 DEF vars, faultVars
  <2> QED BY <2>1, <2>4, <2>5, NextAdds DEF HV!Next
<1> QED BY <1>1, <1>3, InitView, NextViewInv, PTL DEF Spec, RefinesHonestView, HV!Spec

-----------------------------------------------------------------------------
(* Whom the state charges, and how much *)

\* A charge names the sender of two received messages that equivocate.
LEMMA ChargingIsJust ==
    ASSUME ViewInv, ViewInv', NoFalseAccusation, NEW m \in Message, Charging(m)
    PROVE  NoFalseAccusation'
<1>1. received \subseteq received' /\ m \in received'
  BY DEF Charging, AddLatest
<1>2. equivocators' = equivocators \cup {sender[m]}
  BY DEF Charging, Charge
<1>3. sender[m] \in Validator
  BY SenderAssumption
<1>4. \E o \in received' : sender[o] = sender[m] /\ Equivocates(o, m)
  <2>1. CASE Equivocate(latest_messages, m)
    BY <1>1, <1>3, <2>1 DEF Equivocate, ViewInv, LatestReceived
  <2>2. CASE Equivocate(latest_messages', m)
    BY <1>3, <2>2 DEF Equivocate, ViewInv, LatestReceived
  <2> QED BY <2>1, <2>2 DEF Charging
<1> QED BY <1>1, <1>2, <1>4 DEF NoFalseAccusation

\* Nobody is listed as an equivocator who did not equivocate towards this state.
THEOREM Accusation == Spec => []NoFalseAccusation
<1> DEFINE Inv == ViewInv /\ NoFalseAccusation
<1>1. Init => Inv
  BY InitView DEF Init, NoFalseAccusation
<1>2. Inv /\ [Next]_vars => Inv'
  <2> SUFFICES ASSUME ViewInv, NoFalseAccusation, [Next]_vars PROVE Inv'
    OBVIOUS
  <2>1. ViewInv'
    BY NextViewInv
  <2>2. ASSUME UNCHANGED faultVars, received \subseteq received' PROVE NoFalseAccusation'
    BY <2>2 DEF faultVars, NoFalseAccusation
  <2>3. received \subseteq received'
    BY NextView DEF AddLatest, vars
  <2>4. CASE UNCHANGED vars
    BY <2>1, <2>2, <2>3, <2>4 DEF vars
  <2>5. CASE Next
    BY <2>1, <2>2, <2>3, <2>5, NextCharges, ChargingIsJust
  <2> QED BY <2>4, <2>5
<1>3. Inv => NoFalseAccusation
  OBVIOUS
<1> QED BY <1>1, <1>2, <1>3, PTL DEF Spec

\* Weights of validators, known or not.
Weighting(w) == w \in [Validator -> Nat \cup {Absent}]

\* What validators count for is summed over.
LEMMA CountedSum ==
    ASSUME NEW w, Weighting(w), NEW K \in SUBSET Validator
    PROVE  SumCounted(w, K) = SumOf(Counted(w), K) /\ Weighs(Counted(w), K)
<1>1. \A x \in Validator : Counted(w)[x] \in Nat
  BY DEF Counted, Weighting
<1>2. IsFiniteSet(K)
  BY ValidatorAssumption, FS_Subset
<1> QED BY <1>1, <1>2 DEF SumCounted, SumOf, Weighs

\* A sum is a natural number, and nothing for nobody.
LEMMA SumType ==
    ASSUME NEW w, Weighting(w), NEW K \in SUBSET Validator
    PROVE  SumCounted(w, K) \in Nat /\ (K = {} => SumCounted(w, K) = 0)
<1>1. SumCounted(w, K) = SumOf(Counted(w), K) /\ Weighs(Counted(w), K)
  BY CountedSum
<1> QED BY <1>1, SumIsNat

\* One more validator adds what it counts for.
LEMMA SumMore ==
    ASSUME NEW w, Weighting(w), NEW K \in SUBSET Validator, NEW v \in Validator, v \notin K
    PROVE  SumCounted(w, K \cup {v}) = SumCounted(w, K) + Counted(w)[v]
<1>1. SumCounted(w, K) = SumOf(Counted(w), K) /\ Weighs(Counted(w), K)
  BY CountedSum
<1>2. SumCounted(w, K \cup {v}) = SumOf(Counted(w), K \cup {v})
      /\ Weighs(Counted(w), K \cup {v})
  BY CountedSum
<1>3. Counted(w)[v] \in Nat
  BY <1>2 DEF Weighs
<1> QED BY <1>1, <1>2, <1>3, SumOfOneMore

\* The weights u and w are the same on K.
SameOn(u, w, K) == \A x \in K : u[x] = w[x]

\* The weight of another validator does not show.
LEMMA SumOthers ==
    ASSUME NEW w, Weighting(w), NEW u, Weighting(u), NEW K \in SUBSET Validator,
           SameOn(u, w, K)
    PROVE  SumCounted(u, K) = SumCounted(w, K)
<1>1. SumCounted(w, K) = SumOf(Counted(w), K) /\ Weighs(Counted(w), K)
  BY CountedSum
<1>2. SumCounted(u, K) = SumOf(Counted(u), K)
  BY CountedSum
<1>3. \A x \in K : Counted(u)[x] = Counted(w)[x]
  BY DEF Counted, SameOn
<1> QED BY <1>1, <1>2, <1>3, SumOfSame

\* The weight a state accounts for.
AccountInv == TypeOK /\ validators_weights = Weight /\ FaultAccounted

\* Each listed equivocator is charged once, and the total stays under thr.
THEOREM Accounting == Spec => []FaultAccounted
<1>1. Init => AccountInv
  <2> SUFFICES ASSUME Init PROVE AccountInv
    OBVIOUS
  <2>1. SumCounted(Weight, {}) = 0
    BY SumType, WeightAssumption DEF Weighting
  <2> QED BY <2>1, InitType, ThrAssumption DEF Init, AccountInv, FaultAccounted
<1>2. AccountInv /\ [Next]_vars => AccountInv'
  <2> SUFFICES ASSUME AccountInv, [Next]_vars PROVE AccountInv'
    OBVIOUS
  <2>1. TypeOK'
    BY NextType DEF AccountInv
  <2>2. validators_weights' = Weight
    BY NextCharges DEF AccountInv, vars
  <2>3. CASE UNCHANGED faultVars
    BY <2>1, <2>2, <2>3 DEF AccountInv, FaultAccounted, faultVars
  <2>4. ASSUME NEW m \in Message, Charging(m) PROVE FaultAccounted'
    <3> DEFINE v == sender[m]
    <3>1. v \in Validator /\ equivocators \in SUBSET Validator
      BY SenderAssumption DEF AccountInv, TypeOK
    <3>2. Weight[v] \in Nat /\ Weight[v] + state_fault_weight <= thr
      BY <2>4, <3>1, WeightAssumption DEF Charging, Fits, AccountInv
    <3>3. CASE v \in equivocators
      <4>1. UNCHANGED faultVars
        BY <2>4, <3>3 DEF Charging, Charge, faultVars
      <4> QED BY <4>1 DEF AccountInv, FaultAccounted, faultVars
    <3>4. CASE v \notin equivocators
      <4>1. /\ equivocators' = equivocators \cup {v}
            /\ state_fault_weight' = state_fault_weight + Weight[v]
        BY <2>4, <3>4 DEF Charging, Charge, AccountInv
      <4>2. SumCounted(Weight, equivocators \cup {v})
              = SumCounted(Weight, equivocators) + Weight[v]
        <5>1. Counted(Weight)[v] = Weight[v]
          BY <3>1, <3>2, AbsentAssumption DEF Counted
        <5>2. Weighting(Weight)
          BY WeightAssumption DEF Weighting
        <5>3. SumCounted(Weight, equivocators \cup {v})
                = SumCounted(Weight, equivocators) + Counted(Weight)[v]
          <6> HIDE DEF v
          <6> QED BY <3>1, <3>4, <5>2, SumMore
        <5> QED BY <5>1, <5>3
      <4>3. state_fault_weight \in Nat
        BY DEF AccountInv, TypeOK
      <4> QED BY <3>2, <4>1, <4>2, <4>3, ThrAssumption DEF AccountInv, FaultAccounted
    <3> QED BY <3>3, <3>4
  <2>5. UNCHANGED faultVars \/ \E m \in Message : Charging(m)
    BY NextCharges DEF vars
  <2> QED BY <2>1, <2>2, <2>3, <2>4, <2>5 DEF AccountInv
<1>3. AccountInv => FaultAccounted
  BY DEF AccountInv
<1> QED BY <1>1, <1>2, <1>3, PTL DEF Spec

-----------------------------------------------------------------------------
(* What the threshold leaves out *)

\* The list of equivocators and the fault weight only grow, so a validator the
\* threshold has no room for never fits later.
LEMMA NextGrows ==
    ASSUME TypeOK, Next
    PROVE  /\ equivocators \subseteq equivocators'
           /\ state_fault_weight <= state_fault_weight'
           /\ \A v \in Validator : ~Fits(v) => ~Fits(v)'
<1>1. equivocators \subseteq equivocators' /\ state_fault_weight <= state_fault_weight'
  <2>1. CASE UNCHANGED faultVars
    BY <2>1 DEF faultVars, TypeOK
  <2>2. ASSUME NEW m \in Message, Charging(m)
        PROVE  equivocators \subseteq equivocators' /\ state_fault_weight <= state_fault_weight'
    <3>1. validators_weights[sender[m]] \in Nat
      BY <2>2, SenderAssumption DEF Charging, Fits, TypeOK
    <3> QED BY <2>2, <3>1 DEF Charging, Charge, TypeOK
  <2> QED BY <2>1, <2>2, NextCharges
<1>2. ASSUME NEW v \in Validator, ~Fits(v) PROVE ~Fits(v)'
  <2>1. validators_weights' = validators_weights
    BY NextCharges
  <2>2. CASE validators_weights[v] = Absent
    BY <2>1, <2>2 DEF Fits
  <2>3. CASE validators_weights[v] \in Nat
    <3>1. state_fault_weight \in Nat /\ state_fault_weight' \in Nat
      BY NextType DEF TypeOK
    <3>2. validators_weights[v] # Absent
      BY <2>3, AbsentAssumption
    <3>3. ~(validators_weights[v] + state_fault_weight <= thr)
      BY <1>2, <3>2 DEF Fits
    <3> QED BY <1>1, <2>1, <2>3, <3>1, <3>3, ThrAssumption DEF Fits
  <2> QED BY <2>2, <2>3 DEF TypeOK
<1> QED BY <1>1, <1>2

\* An action that adds m and sees to it that its sender, if m equivocates with
\* another latest message, is listed or does not fit.
Handles(m) ==
    /\ AddLatest(m)
    /\ Equivocate(latest_messages', m) => sender[m] \in equivocators' \/ ~Fits(sender[m])'

\* Of the latest messages after AddLatest(m), only m is new.
LEMMA OnlyNewIsAdded ==
    ASSUME TypeOK, NEW m \in Message, AddLatest(m), NEW v \in Validator
    PROVE  latest_messages'[v] \subseteq
              latest_messages[v] \cup {n \in {m} : v = sender[m]}
BY UpdatedAt DEF TypeOK, AddLatest

\* State::update handles the message it adds.
LEMMA UpdateHandles ==
    ASSUME TypeOK, NEW m \in Message, Update(m)
    PROVE  Handles(m)
<1>1. CASE Equivocate(latest_messages', m) /\ Fits(sender[m])
  <2>1. sender[m] \in equivocators'
    BY <1>1 DEF Update, Charge
  <2> QED BY <2>1 DEF Update, Handles
<1>2. CASE ~(Equivocate(latest_messages', m) /\ Fits(sender[m]))
  <2>1. UNCHANGED faultVars /\ UNCHANGED validators_weights
    BY <1>2 DEF Update
  <2>2. Fits(sender[m])' <=> Fits(sender[m])
    BY <2>1 DEF Fits, faultVars
  <2> QED BY <1>2, <2>2 DEF Update, Handles
<1> QED BY <1>1, <1>2

\* So does faulty_insert, which looks for the equivocation before it adds m.
LEMMA InsertionHandles ==
    ASSUME TypeOK, NEW m \in Message, NEW out, Insertion(m, out)
    PROVE  Handles(m) \/ UNCHANGED latest_messages
<1>1. CASE Accept(m, out)
  <2>1. AddLatest(m)
    BY <1>1 DEF Accept
  <2>2. ASSUME Equivocate(latest_messages', m) PROVE sender[m] \in equivocators'
    <3>1. sender[m] \in Validator
      BY SenderAssumption
    <3>2. PICK o \in latest_messages'[sender[m]] : Equivocates(o, m)
      BY <2>2 DEF Equivocate
    <3>3. o # m
      BY <3>2 DEF Equivocates
    <3>4. o \in latest_messages[sender[m]]
      BY <2>1, <3>1, <3>2, <3>3, OnlyNewIsAdded
    <3>5. Equivocate(latest_messages, m)
      BY <3>2, <3>4 DEF Equivocate
    <3> QED BY <1>1, <3>5 DEF Accept, Unlisted, Charge, faultVars
  <2> QED BY <2>1, <2>2 DEF Handles
<1>2. CASE Refuse(m, out) \/ AlreadyIn(m, out)
  BY <1>2 DEF Refuse, AlreadyIn
<1> QED BY <1>1, <1>2 DEF Insertion

\* Every step adds a message and handles it, or adds none.
LEMMA NextHandles ==
    ASSUME TypeOK, Next
    PROVE  UNCHANGED latest_messages \/ \E m \in Message : Handles(m)
<1>1. ASSUME NEW m \in Message, Update(m) PROVE Handles(m)
  BY <1>1, UpdateHandles
<1>2. ASSUME NEW m \in Message, FaultyInsert(m)
      PROVE  Handles(m) \/ UNCHANGED latest_messages
  BY <1>2, InsertionHandles DEF FaultyInsert
<1>3. ASSUME NEW S \in Batches, NEW fresh \in BOOLEAN, StartBatch(S, fresh)
      PROVE  UNCHANGED latest_messages
  BY <1>3 DEF StartBatch
<1>4. ASSUME NEW m \in Message, InsertNext(m)
      PROVE  Handles(m) \/ UNCHANGED latest_messages
  BY <1>4, InsertionHandles DEF InsertNext
<1> QED BY <1>1, <1>2, <1>3, <1>4 DEF Next

\* Two latest messages of a validator never equivocate unnoticed: the validator
\* is listed, or there was and there is no room for its weight.
THEOREM Handling == Spec => []EquivocationHandled
<1> DEFINE Inv == TypeOK /\ EquivocationHandled
<1>1. Init => Inv
  BY InitType DEF Init, EquivocationHandled, Empty
<1>2. Inv /\ [Next]_vars => Inv'
  <2> SUFFICES ASSUME TypeOK, EquivocationHandled, Next PROVE Inv'
    <3>1. Inv /\ UNCHANGED vars => Inv'
      BY DEF vars, faultVars, TypeOK, EquivocationHandled, Fits
    <3> QED BY <3>1
  <2>1. TypeOK'
    BY NextType
  <2>2. SUFFICES ASSUME NEW v \in Validator,
                        NEW p \in latest_messages'[v], NEW q \in latest_messages'[v],
                        Equivocates(p, q)
                 PROVE  v \in equivocators' \/ ~Fits(v)'
    BY <2>1 DEF EquivocationHandled
  <2>3. CASE p \in latest_messages[v] /\ q \in latest_messages[v]
    BY <2>2, <2>3, NextGrows DEF EquivocationHandled
  <2>4. CASE ~(p \in latest_messages[v] /\ q \in latest_messages[v])
    <3>1. PICK m \in Message : Handles(m)
      BY <2>4, NextHandles
    <3>2. v = sender[m] /\ (p = m \/ q = m)
      BY <2>4, <3>1, OnlyNewIsAdded DEF Handles
    <3>3. Equivocates(q, p)
      BY <2>2 DEF Equivocates
    <3>4. Equivocate(latest_messages', m)
      BY <2>2, <3>2, <3>3 DEF Equivocate
    <3> QED BY <3>1, <3>2, <3>4 DEF Handles
  <2> QED BY <2>3, <2>4
<1>3. Inv => EquivocationHandled
  OBVIOUS
<1> QED BY <1>1, <1>2, <1>3, PTL DEF Spec

\* What faulty_insert refuses, and what a batch drops when it is sorted, comes
\* from a sender that is unlisted and does not fit.
LEMMA InsertionRefuses ==
    ASSUME NEW m \in Message, NEW out, Insertion(m, out)
    PROVE  \/ refused' = out
           \/ /\ refused' = out \cup {m}
              /\ sender[m] \notin equivocators
              /\ ~Fits(sender[m])
              /\ UNCHANGED faultVars
BY DEF Insertion, Refuse, AlreadyIn, Accept, Unlisted

\* A faulty insert refuses only what the threshold has no room for.
THEOREM Refusals == Spec => []RefusedUnaffordable
<1> DEFINE Inv == TypeOK /\ RefusedUnaffordable
<1>1. Init => Inv
  BY InitType DEF Init, RefusedUnaffordable
<1>2. Inv /\ [Next]_vars => Inv'
  <2> SUFFICES ASSUME TypeOK, RefusedUnaffordable, Next PROVE Inv'
    <3>1. Inv /\ UNCHANGED vars => Inv'
      BY DEF vars, faultVars, TypeOK, RefusedUnaffordable, Fits
    <3> QED BY <3>1
  <2>1. TypeOK'
    BY NextType
  \* Whoever is not listed and does not fit stays so.
  <2>2. ASSUME NEW v \in Validator, v \notin equivocators, ~Fits(v)
        PROVE  v \notin equivocators' /\ ~Fits(v)'
    <3>1. ~Fits(v)'
      BY <2>2, NextGrows
    <3>2. v \notin equivocators'
      BY <2>2, NextCharges DEF Charging, Charge, faultVars
    <3> QED BY <3>1, <3>2
  <2>3. \A m \in Message : sender[m] \in Validator
    BY SenderAssumption
  <2>4. ASSUME NEW m \in refused
        PROVE  sender[m] \notin equivocators' /\ ~Fits(sender[m])'
    BY <2>2, <2>3 DEF TypeOK, RefusedUnaffordable
  <2>5. ASSUME NEW m \in Message, Update(m) PROVE RefusedUnaffordable'
    BY <2>5 DEF Update, RefusedUnaffordable
  <2>6. ASSUME NEW m \in Message, FaultyInsert(m) PROVE RefusedUnaffordable'
    BY <2>2, <2>3, <2>6, InsertionRefuses DEF FaultyInsert, RefusedUnaffordable
  <2>7. ASSUME NEW S \in Batches, NEW fresh \in BOOLEAN, StartBatch(S, fresh)
        PROVE  RefusedUnaffordable'
    <3>1. \A m \in S \ Sortable(S) : sender[m] \notin equivocators /\ ~Fits(sender[m])
      BY AbsentAssumption DEF Sortable, FaultWeight, Unlisted, Fits
    <3>2. refused' = S \ Sortable(S) /\ S \subseteq Message
      BY <2>7 DEF StartBatch, Batches
    <3> QED BY <2>2, <2>3, <3>1, <3>2 DEF RefusedUnaffordable
  <2>8. ASSUME NEW m \in Message, InsertNext(m) PROVE RefusedUnaffordable'
    BY <2>2, <2>3, <2>4, <2>8, InsertionRefuses DEF InsertNext, RefusedUnaffordable
  <2> QED BY <2>1, <2>5, <2>6, <2>7, <2>8 DEF Next
<1>3. Inv => RefusedUnaffordable
  OBVIOUS
<1> QED BY <1>1, <1>2, <1>3, PTL DEF Spec

-----------------------------------------------------------------------------
(* BatchOrder: a batch charges the lightest first, as far as its sort could see *)

\* A step of the batch is a step of the state.
LEMMA BatchSteps == [BatchNext]_<<vars, foreseen>> => [Next]_vars
BY DEF BatchNext, InsertForeseen, Next

\* A message is sorted by the weight of its sender, if not as free.
SortedByWeight ==
    \A k \in DOMAIN todo : todo[k] # 0 => todo[k] = validators_weights[sender[k]]

\* Who was charged as foreseen weighs something, and no more than what waits.
WaitingHeavier ==
    \A v \in foreseen :
        /\ v \in Validator
        /\ validators_weights[v] \in Nat
        /\ \A k \in DOMAIN todo : validators_weights[v] <= todo[k]

BatchInv == SortedByWeight /\ WaitingHeavier /\ LightestFirst

\* Who is charged now is lighter than whoever was refused before.
LEMMA ChargedLighter ==
    ASSUME TypeOK, RefusedUnaffordable, NEW m \in Message, Charging(m), NEW r \in refused
    PROVE  \/ validators_weights[sender[r]] = Absent
           \/ validators_weights[sender[m]] <= validators_weights[sender[r]]
<1>1. sender[m] \in Validator /\ sender[r] \in Validator
  BY SenderAssumption DEF TypeOK
<1>2. /\ validators_weights[sender[m]] \in Nat
      /\ validators_weights[sender[m]] + state_fault_weight <= thr
  BY <1>1 DEF Charging, Fits, TypeOK
<1>3. CASE validators_weights[sender[r]] # Absent
  <2>1. validators_weights[sender[r]] \in Nat
    BY <1>1, <1>3 DEF TypeOK
  <2>2. ~(validators_weights[sender[r]] + state_fault_weight <= thr)
    BY <1>3 DEF RefusedUnaffordable, Fits
  <2>3. state_fault_weight \in Nat
    BY DEF TypeOK
  <2> QED BY <1>2, <2>1, <2>2, <2>3, ThrAssumption
<1> QED BY <1>3

\* The steps of a batch keep its order.
LEMMA InsertionOrder ==
    ASSUME TypeOK, RefusedUnaffordable, BatchInv, NEW m \in Message, InsertForeseen(m)
    PROVE  BatchInv'
<1>1. /\ m \in DOMAIN todo
      /\ \A n \in DOMAIN todo : todo[m] <= todo[n]
      /\ Insertion(m, refused)
      /\ todo' = [n \in DOMAIN todo \ {m} |-> todo[n]]
      /\ UNCHANGED validators_weights
      /\ foreseen' = foreseen \cup {v \in equivocators' \ equivocators : todo[m] # 0}
  BY DEF InsertForeseen, InsertNext
<1>2. DOMAIN todo' \subseteq DOMAIN todo /\ \A k \in DOMAIN todo' : todo'[k] = todo[k]
  BY <1>1
<1>3. SortedByWeight'
  BY <1>1, <1>2 DEF BatchInv, SortedByWeight
<1>4. sender[m] \in Validator /\ todo[m] \in Nat
  BY <1>1, SenderAssumption DEF TypeOK
\* Nobody is charged.
<1>5. CASE UNCHANGED faultVars
  <2>1. foreseen' = foreseen
    BY <1>1, <1>5 DEF faultVars
  <2>2. WaitingHeavier'
    BY <1>1, <1>2, <2>1 DEF BatchInv, WaitingHeavier
  <2>3. ASSUME NEW v \in foreseen, refused' = refused \cup {m}
        PROVE  \/ validators_weights[sender[m]] = Absent
               \/ validators_weights[v] <= validators_weights[sender[m]]
    <3>1. validators_weights[v] \in Nat /\ validators_weights[v] <= todo[m]
      BY <1>1 DEF BatchInv, WaitingHeavier
    <3>2. CASE todo[m] = 0
      BY <1>4, <3>1, <3>2 DEF TypeOK
    <3>3. CASE todo[m] # 0
      BY <1>1, <3>1, <3>3 DEF BatchInv, SortedByWeight
    <3> QED BY <3>2, <3>3
  <2>4. refused' = refused \/ refused' = refused \cup {m}
    BY <1>1, InsertionRefuses
  <2>5. LightestFirst'
    BY <1>1, <2>1, <2>3, <2>4 DEF BatchInv, LightestFirst
  <2> QED BY <1>3, <2>2, <2>5 DEF BatchInv
\* The sender is charged, by the weight it was sorted by or as an exception.
<1>6. CASE Charging(m) /\ ~UNCHANGED faultVars
  <2>1. refused' = refused
    BY <1>1, <1>6, InsertionRefuses
  <2>2. ASSUME NEW v \in foreseen', v \notin foreseen
        PROVE  v = sender[m] /\ todo[m] # 0
    BY <1>1, <1>6, <2>2 DEF Charging, Charge
  <2>3. validators_weights[sender[m]] \in Nat
    BY <1>4, <1>6 DEF Charging, Fits, TypeOK
  <2>4. ASSUME NEW v \in foreseen'
        PROVE  /\ v \in Validator
               /\ validators_weights[v] \in Nat
               /\ \A k \in DOMAIN todo : validators_weights[v] <= todo[k]
    <3>1. CASE v \in foreseen
      BY <3>1 DEF BatchInv, WaitingHeavier
    <3>2. CASE v \notin foreseen
      <4>1. validators_weights[v] = todo[m]
        BY <1>1, <2>2, <3>2 DEF BatchInv, SortedByWeight
      <4> QED BY <1>1, <1>4, <2>2, <2>3, <3>2, <4>1
    <3> QED BY <3>1, <3>2
  <2>5. WaitingHeavier'
    BY <1>1, <1>2, <2>4 DEF WaitingHeavier
  <2>6. ASSUME NEW r \in refused, NEW v \in foreseen'
        PROVE  \/ validators_weights[sender[r]] = Absent
               \/ validators_weights[v] <= validators_weights[sender[r]]
    <3>1. CASE v \in foreseen
      BY <3>1 DEF BatchInv, LightestFirst
    <3>2. CASE v \notin foreseen
      BY <1>6, <2>2, <3>2, ChargedLighter
    <3> QED BY <3>1, <3>2
  <2>7. LightestFirst'
    BY <1>1, <2>1, <2>6 DEF LightestFirst
  <2> QED BY <1>3, <2>5, <2>7 DEF BatchInv
<1> QED BY <1>1, <1>5, <1>6, InsertionCharges

\* A batch refuses nobody's message while it makes room for a heavier equivocator
\* that its sort could see.
THEOREM LightestCharged == BatchSpec => []LightestFirst
<1>1. BatchSpec => Spec
  BY BatchSteps, PTL DEF BatchSpec, Spec
<1>2. Init /\ foreseen = {} => BatchInv
  BY DEF Init, BatchInv, SortedByWeight, WaitingHeavier, LightestFirst
<1>3. TypeOK /\ RefusedUnaffordable /\ BatchInv /\ [BatchNext]_<<vars, foreseen>>
        => BatchInv'
  <2> SUFFICES ASSUME TypeOK, RefusedUnaffordable, BatchInv,
                      [BatchNext]_<<vars, foreseen>>
               PROVE  BatchInv'
    OBVIOUS
  <2>1. CASE UNCHANGED <<vars, foreseen>>
    BY <2>1 DEF vars, BatchInv, SortedByWeight, WaitingHeavier, LightestFirst
  <2>2. ASSUME foreseen' = {}, UNCHANGED <<todo, validators_weights>> PROVE BatchInv'
    BY <2>2 DEF BatchInv, SortedByWeight, WaitingHeavier, LightestFirst
  <2>3. ASSUME NEW m \in Message, Update(m), foreseen' = {} PROVE BatchInv'
    BY <2>2, <2>3 DEF Update
  <2>4. ASSUME NEW m \in Message, FaultyInsert(m), foreseen' = {} PROVE BatchInv'
    BY <2>2, <2>4 DEF FaultyInsert
  <2>5. ASSUME NEW S \in Batches, NEW fresh \in BOOLEAN, StartBatch(S, fresh), foreseen' = {}
        PROVE  BatchInv'
    <3>1. /\ todo' = [m \in Sortable(S) |-> FaultWeight(m)]
          /\ UNCHANGED validators_weights
      BY <2>5 DEF StartBatch
    <3>2. SortedByWeight'
      BY <3>1 DEF SortedByWeight, FaultWeight
    <3> QED BY <2>5, <3>2 DEF BatchInv, WaitingHeavier, LightestFirst
  <2>6. ASSUME NEW m \in Message, InsertForeseen(m) PROVE BatchInv'
    BY <2>6, InsertionOrder
  <2> QED BY <2>1, <2>3, <2>4, <2>5, <2>6 DEF BatchNext
<1>4. BatchInv => LightestFirst
  BY DEF BatchInv
<1> QED BY <1>1, <1>2, <1>3, <1>4, TypeCorrect, Refusals, PTL DEF BatchSpec

-----------------------------------------------------------------------------
(* SharedWeights: slashes come at any step, also between two insertions of a batch *)

\* faulty_insert_with_slash keeps the types.
LEMMA SlashType ==
    ASSUME TypeOK, NEW m \in Message, SlashingInsert(m)
    PROVE  TypeOK'
<1>1. sender[m] \in Validator
  BY SenderAssumption
<1>2. latest_messages' \in [Validator -> SUBSET Message] /\ received' \subseteq Message
  BY AddLatestType DEF SlashingInsert
<1> QED BY <1>1, <1>2 DEF SlashingInsert, TypeOK

\* Every step keeps the types.
LEMMA SharedNextType ==
    ASSUME TypeOK, [SharedNext]_vars
    PROVE  TypeOK'
<1>1. CASE [Next]_vars
  BY <1>1, NextType
<1>2. ASSUME NEW m \in Message, SlashingInsert(m) PROVE TypeOK'
  BY <1>2, SlashType
<1>3. ASSUME NEW v \in Validator, OtherSlashes(v) PROVE TypeOK'
  BY <1>3 DEF OtherSlashes, TypeOK, faultVars
<1> QED BY <1>1, <1>2, <1>3 DEF SharedNext

-----------------------------------------------------------------------------
(* Accusations *)

\* Slashing leaves the reasons of NextViewInv as they are: latest_messages
\* change through AddLatest only.
LEMMA SharedViewInv ==
    ASSUME ViewInv, [SharedNext]_vars
    PROVE  ViewInv'
<1>1. CASE [Next]_vars
  BY <1>1, NextViewInv
<1>2. TypeOK'
  BY SharedNextType DEF ViewInv
<1>3. ASSUME NEW m \in Message, SlashingInsert(m) PROVE ViewInv'
  BY <1>2, <1>3, AddLatestReceived, AddLatestNothingLost, AddLatestNewestAlone
     DEF ViewInv, SlashingInsert
<1>4. ASSUME NEW v \in Validator, OtherSlashes(v) PROVE ViewInv'
  BY <1>2, <1>4 DEF OtherSlashes, ViewInv, LatestReceived, NothingLost, NewestAlone
<1> QED BY <1>1, <1>3, <1>4 DEF SharedNext

\* faulty_insert_with_slash lists the sender of two received messages that
\* equivocate, or nobody.
LEMMA SlashIsJust ==
    ASSUME ViewInv, NoFalseAccusation, NEW m \in Message, SlashingInsert(m)
    PROVE  NoFalseAccusation'
<1>1. received \subseteq received' /\ m \in received' /\ sender[m] \in Validator
  BY SenderAssumption DEF SlashingInsert, AddLatest
<1>2. CASE UNCHANGED equivocators
  BY <1>1, <1>2 DEF NoFalseAccusation
<1>3. CASE Equivocate(latest_messages, m) /\ equivocators' = equivocators \cup {sender[m]}
  <2>1. \E o \in received' : sender[o] = sender[m] /\ Equivocates(o, m)
    BY <1>1, <1>3 DEF Equivocate, ViewInv, LatestReceived
  <2> QED BY <1>1, <1>3, <2>1 DEF NoFalseAccusation
<1> QED BY <1>2, <1>3 DEF SlashingInsert

\* Nobody is listed as an equivocator who did not equivocate towards this state,
\* whoever slashes and when.
THEOREM SharedAccusation == SharedSpec => []NoFalseAccusation
<1> DEFINE Inv == ViewInv /\ NoFalseAccusation
<1>1. Init => Inv
  BY InitView DEF Init, NoFalseAccusation
<1>2. Inv /\ [SharedNext]_vars => Inv'
  <2> SUFFICES ASSUME ViewInv, NoFalseAccusation, [SharedNext]_vars PROVE Inv'
    OBVIOUS
  <2>1. ViewInv'
    BY SharedViewInv
  <2>2. ASSUME UNCHANGED faultVars, received \subseteq received' PROVE NoFalseAccusation'
    BY <2>2 DEF faultVars, NoFalseAccusation
  <2>3. CASE UNCHANGED vars
    BY <2>1, <2>2, <2>3 DEF vars
  <2>4. CASE Next
    <3>1. received \subseteq received'
      BY <2>4, NextView DEF AddLatest
    <3> QED BY <2>1, <2>2, <2>4, <3>1, NextCharges, ChargingIsJust
  <2>5. ASSUME NEW m \in Message, SlashingInsert(m) PROVE NoFalseAccusation'
    BY <2>5, SlashIsJust
  <2>6. ASSUME NEW v \in Validator, OtherSlashes(v) PROVE NoFalseAccusation'
    BY <2>2, <2>6 DEF OtherSlashes
  <2> QED BY <2>1, <2>3, <2>4, <2>5, <2>6 DEF SharedNext
<1>3. Inv => NoFalseAccusation
  OBVIOUS
<1> QED BY <1>1, <1>2, <1>3, PTL DEF SharedSpec

-----------------------------------------------------------------------------
(* Equivocations that are not forgotten *)

\* The weights are those of the beginning, or zero since a slash.
SlashedOrNot == \A v \in Validator : validators_weights[v] \in {Weight[v], 0}

\* The weight v had before anyone slashed it has no room under the threshold.
NoRoom(v) == Weight[v] = Absent \/ Weight[v] + state_fault_weight > thr

\* Only slashes change the weights, and they make them zero.
LEMMA NextSlashedOrNot ==
    ASSUME TypeOK, SlashedOrNot, [SharedNext]_vars
    PROVE  SlashedOrNot'
<1>1. CASE UNCHANGED validators_weights
  BY <1>1 DEF SlashedOrNot
<1>2. ASSUME NEW m \in Message, SlashingInsert(m) PROVE SlashedOrNot'
  BY <1>2, SenderAssumption DEF SlashingInsert, SlashedOrNot, TypeOK
<1>3. ASSUME NEW v \in Validator, OtherSlashes(v) PROVE SlashedOrNot'
  BY <1>3 DEF OtherSlashes, SlashedOrNot, TypeOK
<1>4. CASE Next
  BY <1>1, <1>4, NextCharges
<1>5. CASE UNCHANGED vars
  BY <1>1, <1>5 DEF vars
<1> QED BY <1>2, <1>3, <1>4, <1>5 DEF SharedNext

\* A weight that does not fit now did not fit at its full value either.
UnfitHasNoRoom == \A v \in Validator : ~Fits(v) => NoRoom(v)

\* A slash takes weight away, and so does not make a validator unfit.
LEMMA UnfitIsNoRoom == TypeOK /\ SlashedOrNot => UnfitHasNoRoom
<1> SUFFICES ASSUME TypeOK, SlashedOrNot, NEW v \in Validator, ~Fits(v)
             PROVE  NoRoom(v)
  BY DEF UnfitHasNoRoom
<1>1. validators_weights[v] \in {Weight[v], 0} /\ Weight[v] \in Nat \cup {Absent}
  BY WeightAssumption DEF SlashedOrNot
<1>2. state_fault_weight \in Nat
  BY DEF TypeOK
<1>3. CASE Weight[v] = Absent
  BY <1>3 DEF NoRoom
<1>4. CASE Weight[v] \in Nat
  <2>1. validators_weights[v] \in Nat /\ validators_weights[v] <= Weight[v]
    BY <1>1, <1>4
  <2>2. validators_weights[v] # Absent
    BY <2>1, AbsentAssumption
  <2>3. ~(validators_weights[v] + state_fault_weight <= thr)
    BY <2>2 DEF Fits
  <2> QED BY <1>2, <1>4, <2>1, <2>3, ThrAssumption DEF NoRoom
<1> QED BY <1>1, <1>3, <1>4

\* No step forgets an equivocator or makes room.
LEMMA SharedGrows ==
    ASSUME TypeOK, [SharedNext]_vars, NEW v \in Validator,
           v \in equivocators \/ NoRoom(v)
    PROVE  v \in equivocators' \/ NoRoom(v)'
<1>1. state_fault_weight \in Nat /\ state_fault_weight' \in Nat
  BY SharedNextType DEF TypeOK
<1>2. equivocators \subseteq equivocators' /\ state_fault_weight <= state_fault_weight'
  <2>1. CASE Next
    BY <2>1, NextGrows
  <2>2. ASSUME NEW m \in Message, SlashingInsert(m)
        PROVE  equivocators \subseteq equivocators' /\ state_fault_weight' = state_fault_weight
    BY <2>2 DEF SlashingInsert
  <2>3. ASSUME NEW w \in Validator, OtherSlashes(w)
        PROVE  equivocators' = equivocators /\ state_fault_weight' = state_fault_weight
    BY <2>3 DEF OtherSlashes, faultVars
  <2>4. CASE UNCHANGED vars
    BY <1>1, <2>4 DEF vars, faultVars
  <2> QED BY <1>1, <2>1, <2>2, <2>3, <2>4 DEF SharedNext
<1>3. CASE NoRoom(v)
  <2>1. CASE Weight[v] = Absent
    BY <2>1 DEF NoRoom
  <2>2. CASE Weight[v] \in Nat
    BY <1>1, <1>2, <1>3, <2>2, ThrAssumption, AbsentAssumption DEF NoRoom
  <2> QED BY <2>1, <2>2, WeightAssumption
<1> QED BY <1>2, <1>3

\* faulty_insert_with_slash lists the sender of an equivocation it adds to.
LEMMA SlashHandles ==
    ASSUME TypeOK, NEW m \in Message, SlashingInsert(m)
    PROVE  Handles(m)
<1>1. AddLatest(m) /\ sender[m] \in Validator
  BY SenderAssumption DEF SlashingInsert
<1>2. ASSUME Equivocate(latest_messages', m) PROVE sender[m] \in equivocators'
  <2>1. PICK o \in latest_messages'[sender[m]] : Equivocates(o, m)
    BY <1>2 DEF Equivocate
  <2>2. o # m
    BY <2>1 DEF Equivocates
  <2>3. o \in latest_messages[sender[m]]
    BY <1>1, <2>1, <2>2, OnlyNewIsAdded
  <2>4. Equivocate(latest_messages, m)
    BY <2>1, <2>3 DEF Equivocate
  <2> QED BY <2>4 DEF SlashingInsert
<1> QED BY <1>1, <1>2 DEF Handles

\* Every step handles the message it adds.
LEMMA SharedHandles ==
    ASSUME TypeOK, [SharedNext]_vars
    PROVE  UNCHANGED latest_messages \/ \E m \in Message : Handles(m)
<1>1. ASSUME NEW v \in Validator, OtherSlashes(v) PROVE UNCHANGED latest_messages
  BY <1>1 DEF OtherSlashes
<1>2. CASE UNCHANGED vars
  BY <1>2 DEF vars
<1> QED BY <1>1, <1>2, NextHandles, SlashHandles DEF SharedNext

\* An equivocation among the latest messages is listed, or the threshold has no
\* room for the weight its sender had at first, whoever slashes and when.
THEOREM SharedHandling == SharedSpec => []HandledDespiteSlash
<1> DEFINE Inv == TypeOK /\ SlashedOrNot /\ HandledDespiteSlash
<1>1. Init => Inv
  BY InitType DEF Init, HandledDespiteSlash, SlashedOrNot, Empty
<1>2. Inv /\ [SharedNext]_vars => Inv'
  <2> SUFFICES ASSUME TypeOK, SlashedOrNot, HandledDespiteSlash, [SharedNext]_vars
               PROVE  Inv'
    OBVIOUS
  <2>1. TypeOK' /\ SlashedOrNot'
    BY SharedNextType, NextSlashedOrNot
  <2>2. UnfitHasNoRoom'
    BY <2>1, UnfitIsNoRoom, PTL
  <2>3. SUFFICES ASSUME NEW v \in Validator,
                        NEW p \in latest_messages'[v], NEW q \in latest_messages'[v],
                        Equivocates(p, q)
                 PROVE  v \in equivocators' \/ NoRoom(v)'
    BY <2>1 DEF HandledDespiteSlash, NoRoom
  <2>4. CASE p \in latest_messages[v] /\ q \in latest_messages[v]
    <3>1. v \in equivocators \/ NoRoom(v)
      BY <2>3, <2>4 DEF HandledDespiteSlash, NoRoom
    <3> QED BY <3>1, SharedGrows
  <2>5. CASE ~(p \in latest_messages[v] /\ q \in latest_messages[v])
    <3>1. PICK m \in Message : Handles(m)
      BY <2>5, SharedHandles
    <3>2. v = sender[m] /\ (p = m \/ q = m)
      BY <2>5, <3>1, OnlyNewIsAdded DEF Handles
    <3>3. Equivocates(q, p)
      BY <2>3 DEF Equivocates
    <3>4. Equivocate(latest_messages', m)
      BY <2>3, <3>2, <3>3 DEF Equivocate
    <3>5. v \in equivocators' \/ ~Fits(v)'
      BY <3>1, <3>2, <3>4 DEF Handles
    <3>6. ~Fits(v)' => NoRoom(v)'
      BY <2>2 DEF UnfitHasNoRoom
    <3> QED BY <3>5, <3>6
  <2> QED BY <2>4, <2>5
<1>3. Inv => HandledDespiteSlash
  OBVIOUS
<1> QED BY <1>1, <1>2, <1>3, PTL DEF SharedSpec

-----------------------------------------------------------------------------
(* The fault weight *)

\* Who is charged adds the same to both sides, and fits.
LEMMA ChargeCovers ==
    ASSUME TypeOK, SlashedOrNot, FaultCovered, UNCHANGED validators_weights,
           NEW v \in Validator, Fits(v), Charge(v)
    PROVE  FaultCovered'
<1> DEFINE w == validators_weights[v]
<1>1. CASE v \in equivocators
  <2>1. equivocators' = equivocators /\ state_fault_weight' = state_fault_weight
    BY <1>1 DEF Charge
  <2> QED BY <2>1 DEF FaultCovered, CurrentFaultWeight
<1>2. CASE v \notin equivocators
  <2>1. equivocators \in SUBSET Validator /\ state_fault_weight \in Nat
        /\ Weighting(validators_weights)
    BY DEF TypeOK, Weighting
  <2>2. w \in Nat /\ Counted(validators_weights)[v] = w
    BY <2>1 DEF Fits, Counted, Weighting
  <2>3. equivocators' = equivocators \cup {v} /\ state_fault_weight' = state_fault_weight + w
    BY <1>2 DEF Charge
  <2>4. /\ SumCounted(validators_weights, equivocators \cup {v})
             = SumCounted(validators_weights, equivocators) + w
        /\ SumCounted(validators_weights, equivocators) \in Nat
    <3> PICK K : K = equivocators
      OBVIOUS
    <3>1. SumCounted(validators_weights, K \cup {v})
            = SumCounted(validators_weights, K) + Counted(validators_weights)[v]
      BY <1>2, <2>1, SumMore
    <3> QED BY <2>1, <2>2, <3>1, SumType
  <2>5. CurrentFaultWeight' = CurrentFaultWeight + w /\ CurrentFaultWeight \in Nat
    BY <2>3, <2>4 DEF CurrentFaultWeight
  <2>6. w + state_fault_weight <= thr /\ CurrentFaultWeight <= state_fault_weight
    BY DEF Fits, FaultCovered
  <2> HIDE DEF w
  <2> QED BY <2>1, <2>2, <2>3, <2>5, <2>6, ThrAssumption DEF FaultCovered
<1> QED BY <1>1, <1>2

\* A slash takes weight away from what has to be covered, whether the validator
\* is listed by it, was listed before, or is not.
LEMMA SlashCovers ==
    ASSUME TypeOK, SlashedOrNot, FaultCovered, NEW v \in Validator,
           validators_weights' = [validators_weights EXCEPT ![v] = 0],
           UNCHANGED state_fault_weight,
           UNCHANGED equivocators \/ equivocators' = equivocators \cup {v}
    PROVE  FaultCovered'
<1> DEFINE others == equivocators \ {v}
<1> PICK w, u : w = validators_weights /\ u = validators_weights'
  OBVIOUS
<1>1. /\ Weighting(w) /\ Weighting(u) /\ u = [w EXCEPT ![v] = 0]
      /\ others \in SUBSET Validator /\ v \notin others
      /\ state_fault_weight \in Nat
  BY DEF TypeOK, Weighting
<1>2. Counted(w)[v] \in Nat /\ Counted(u)[v] = 0 /\ \A x \in others : u[x] = w[x]
  BY <1>1, AbsentAssumption DEF Counted, Weighting
<1> DEFINE before(K) == SumCounted(w, K)
           after(K) == SumCounted(u, K)
<1>3. /\ before(others) \in Nat
      /\ before(others \cup {v}) = before(others) + Counted(w)[v]
      /\ after(others) = before(others)
      /\ after(others \cup {v}) = after(others) + Counted(u)[v]
  <2> HIDE DEF others
  <2>1. before(others) \in Nat
    BY <1>1, SumType
  <2>2. /\ before(others \cup {v}) = before(others) + Counted(w)[v]
        /\ after(others \cup {v}) = after(others) + Counted(u)[v]
    BY <1>1, SumMore
  <2>3. after(others) = before(others)
    <3>1. \A x \in others : u[x] = w[x]
      BY <1>2
    <3>2. Weighting(w) /\ Weighting(u)
      BY <1>1
    <3> PICK K : K = others
      OBVIOUS
    <3>3. K \in SUBSET Validator /\ SameOn(u, w, K)
      BY <1>1, <3>1 DEF SameOn
    <3>4. SumCounted(u, K) = SumCounted(w, K)
      BY <3>2, <3>3, SumOthers
    <3> QED BY <3>4
  <2> QED BY <2>1, <2>2, <2>3
<1>4. after(others \cup {v}) = after(others) + 0
  BY <1>2, <1>3
<1>5. /\ CurrentFaultWeight = before(equivocators)
      /\ CurrentFaultWeight' = after(equivocators')
  BY DEF CurrentFaultWeight
<1>6. equivocators = others \/ equivocators = others \cup {v}
  OBVIOUS
<1>7. equivocators' = others \/ equivocators' = others \cup {v}
  BY <1>6
<1> HIDE DEF others, before, after
<1>8. before(others) <= CurrentFaultWeight /\ CurrentFaultWeight \in Nat
  <2>1. CurrentFaultWeight = before(others)
        \/ CurrentFaultWeight = before(others) + Counted(w)[v]
    BY <1>3, <1>5, <1>6
  <2> QED BY <1>2, <1>3, <2>1
<1>9. CurrentFaultWeight' = before(others)
  <2>1. after(others) = before(others) /\ after(others \cup {v}) = before(others)
    BY <1>3, <1>4
  <2>2. CurrentFaultWeight' \in {after(others), after(others \cup {v})}
    BY <1>5, <1>7, Zenon
  <2> QED BY <2>1, <2>2, Zenon
<1> QED BY <1>1, <1>3, <1>8, <1>9 DEF FaultCovered

\* The fault weight covers what the equivocators still weigh and stays under the
\* threshold, whoever slashes and when.
THEOREM Covering == SharedSpec => []FaultCovered
<1> DEFINE Inv == TypeOK /\ SlashedOrNot /\ FaultCovered
<1>1. Init => Inv
  <2> SUFFICES ASSUME Init PROVE Inv
    OBVIOUS
  <2>1. TypeOK /\ SlashedOrNot
    BY InitType DEF Init, SlashedOrNot
  <2>2. CurrentFaultWeight = 0 /\ state_fault_weight = 0
    <3>1. Weighting(validators_weights)
      BY <2>1 DEF TypeOK, Weighting
    <3> QED BY <3>1, SumType DEF Init, CurrentFaultWeight
  <2> QED BY <2>1, <2>2, ThrAssumption DEF FaultCovered
<1>2. Inv /\ [SharedNext]_vars => Inv'
  <2> SUFFICES ASSUME TypeOK, SlashedOrNot, FaultCovered, [SharedNext]_vars
               PROVE  FaultCovered'
    BY SharedNextType, NextSlashedOrNot
  <2>1. ASSUME UNCHANGED <<equivocators, state_fault_weight, validators_weights>>
        PROVE  FaultCovered'
    BY <2>1 DEF FaultCovered, CurrentFaultWeight
  <2>2. CASE UNCHANGED vars
    BY <2>1, <2>2 DEF vars, faultVars
  <2>3. CASE Next
    <3>1. UNCHANGED validators_weights
      BY <2>3, NextCharges
    <3>2. CASE UNCHANGED faultVars
      BY <2>1, <3>1, <3>2 DEF faultVars
    <3>3. ASSUME NEW m \in Message, Charging(m) PROVE FaultCovered'
      BY <3>1, <3>3, SenderAssumption, ChargeCovers DEF Charging
    <3> QED BY <2>3, <3>2, <3>3, NextCharges
  <2>4. ASSUME NEW m \in Message, SlashingInsert(m) PROVE FaultCovered'
    <3>1. sender[m] \in Validator /\ UNCHANGED state_fault_weight
      BY <2>4, SenderAssumption DEF SlashingInsert
    <3>2. CASE Equivocate(latest_messages, m)
      BY <2>4, <3>1, <3>2, SlashCovers DEF SlashingInsert
    <3>3. CASE ~Equivocate(latest_messages, m)
      BY <2>1, <2>4, <3>3 DEF SlashingInsert
    <3> QED BY <3>2, <3>3
  <2>5. ASSUME NEW v \in Validator, OtherSlashes(v) PROVE FaultCovered'
    BY <2>5, SlashCovers DEF OtherSlashes, faultVars
  <2> QED BY <2>2, <2>3, <2>4, <2>5 DEF SharedNext
<1>3. Inv => FaultCovered
  OBVIOUS
<1> QED BY <1>1, <1>2, <1>3, PTL DEF SharedSpec

-----------------------------------------------------------------------------
(* VoteCount: what get_vote_messages visits, and what it keeps. *)

\* What a list holds.
Members(q) == {q[i] : i \in DOMAIN q}

\* h joins the parts of q one by one.
Joins(q, h) == h = [i \in 1 .. Len(q) |-> IF i = 1 THEN q[i] ELSE h[i - 1] \o q[i]]

\* Two lists joined hold what both hold.
LEMMA JoinedMembers ==
    ASSUME NEW X, NEW p \in Seq(X), NEW q \in Seq(X)
    PROVE  Members(p \o q) = Members(p) \cup Members(q)
<1>1. /\ DOMAIN p = 1 .. Len(p) /\ DOMAIN q = 1 .. Len(q) /\ Len(p) \in Nat /\ Len(q) \in Nat
      /\ DOMAIN (p \o q) = 1 .. (Len(p) + Len(q))
      /\ \A i \in 1 .. (Len(p) + Len(q)) :
             (p \o q)[i] = IF i <= Len(p) THEN p[i] ELSE q[i - Len(p)]
  OBVIOUS
<1>2. ASSUME NEW x \in Members(p \o q) PROVE x \in Members(p) \cup Members(q)
  <2>1. PICK i \in DOMAIN (p \o q) : x = (p \o q)[i]
    BY DEF Members
  <2>2. i \in 1 .. (Len(p) + Len(q))
    BY <1>1, <2>1
  <2>3. CASE i <= Len(p)
    <3>1. i \in DOMAIN p /\ x = p[i]
      BY <1>1, <2>1, <2>2, <2>3
    <3> QED BY <3>1 DEF Members
  <2>4. CASE ~(i <= Len(p))
    <3>1. i - Len(p) \in DOMAIN q /\ x = q[i - Len(p)]
      BY <1>1, <2>1, <2>2, <2>4
    <3> QED BY <3>1 DEF Members
  <2> QED BY <2>3, <2>4
<1>3. ASSUME NEW x \in Members(p) PROVE x \in Members(p \o q)
  <2>1. PICK i \in DOMAIN p : x = p[i]
    BY <1>3 DEF Members
  <2>2. i \in DOMAIN (p \o q) /\ (p \o q)[i] = p[i]
    BY <1>1
  <2> QED BY <2>1, <2>2 DEF Members
<1>4. ASSUME NEW x \in Members(q) PROVE x \in Members(p \o q)
  <2>1. PICK i \in DOMAIN q : x = q[i]
    BY <1>4 DEF Members
  <2> PICK k : k = i + Len(p)
    OBVIOUS
  <2>2. k \in 1 .. (Len(p) + Len(q)) /\ ~(k <= Len(p)) /\ k - Len(p) = i
    BY <1>1
  <2>3. k \in DOMAIN (p \o q) /\ (p \o q)[k] = q[i]
    BY <1>1, <2>2
  <2> QED BY <2>1, <2>3 DEF Members
<1> QED BY <1>2, <1>3, <1>4

\* A list of lists that is joined holds what they hold.
LEMMA FlattenMembers ==
    ASSUME NEW X, NEW q \in Seq(Seq(X))
    PROVE  /\ FlattenSeq(q) \in Seq(X)
           /\ Members(FlattenSeq(q)) = UNION {Members(q[i]) : i \in DOMAIN q}
<1> DEFINE n == Len(q)
           step == [i \in 1 .. n |-> [a \in Seq(X) |-> a \o q[i]]]
<1>1. n \in Nat /\ DOMAIN q = 1 .. n /\ \A i \in 1 .. n : q[i] \in Seq(X)
  OBVIOUS
<1>2. CASE n = 0
  <2>1. FlattenSeq(q) = q /\ q = << >> /\ DOMAIN q = {}
    BY <1>2 DEF FlattenSeq
  <2> QED BY <2>1 DEF Members
<1>3. CASE n # 0
  <2>1. FlattenSeq(q) = (CHOOSE h : Joins(q, h))[n]
    BY <1>3 DEF FlattenSeq, Joins
  <2>2. \E h : Joins(q, h)
    <3>1. << >> \in Seq(X) /\ StaysIn(n, Seq(X), step)
      BY <1>1 DEF StaysIn
    <3>2. \E f : StepByStep(n, Seq(X), << >>, step, f)
      <4> HIDE DEF step, n
      <4>1. n \in Nat
        BY <1>1
      <4> QED BY <3>1, <4>1, FoldSteps
    <3>3. PICK f : StepByStep(n, Seq(X), << >>, step, f)
      BY <3>2, Zenon
    <3>4. /\ f[0] = << >>
          /\ \A i \in 0 .. n : f[i] \in Seq(X)
          /\ \A i \in 1 .. n : f[i] = step[i][f[i - 1]]
      <4> HIDE DEF step, n
      <4> QED BY <3>3 DEF StepByStep
    <3> DEFINE h == [i \in 1 .. n |-> f[i]]
    <3>5. ASSUME NEW i \in 1 .. n PROVE h[i] = IF i = 1 THEN q[i] ELSE h[i - 1] \o q[i]
      <4> HIDE DEF step, n
      <4>0. i \in 1 .. n /\ i - 1 \in 0 .. n
        BY <1>1
      <4>1. f[i - 1] \in Seq(X) /\ q[i] \in Seq(X)
        BY <1>1, <3>4, <4>0
      <4>2. h[i] = f[i - 1] \o q[i]
        <5>1. f[i] = step[i][f[i - 1]]
          BY <3>4, <4>0
        <5>2. step[i][f[i - 1]] = f[i - 1] \o q[i]
          BY <4>0, <4>1 DEF step
        <5> QED BY <5>1, <5>2
      <4>3. CASE i = 1
        <5>1. f[i - 1] = << >>
          BY <3>4, <4>3
        <5> QED BY <4>1, <4>2, <4>3, <5>1
      <4>4. CASE i # 1
        <5>1. i - 1 \in 1 .. n
          BY <4>0, <4>4
        <5>2. h[i - 1] = f[i - 1]
          BY <5>1
        <5> HIDE DEF h
        <5> QED BY <4>2, <4>4, <5>2
      <4> QED BY <4>3, <4>4
    <3>6. h = [i \in 1 .. n |-> h[i]]
      OBVIOUS
    <3> HIDE DEF h
    <3>7. Joins(q, h)
      BY <3>5, <3>6 DEF Joins
    <3> QED BY <3>7
  <2>3. PICK h : Joins(q, h) /\ FlattenSeq(q) = h[n]
    BY <2>1, <2>2
  <2> DEFINE Good(i) == /\ h[i] \in Seq(X)
                        /\ Members(h[i]) = UNION {Members(q[j]) : j \in 1 .. i}
             N == {k \in Nat : k + 1 <= n => Good(k + 1)}
  <2>4. 0 \in N
    <3>1. h[1] = q[1] /\ 1 .. 1 = {1} /\ 1 \in 1 .. n
      BY <1>1, <1>3, <2>3 DEF Joins
    <3> QED BY <1>1, <3>1
  <2>5. ASSUME NEW k \in Nat, k \in N PROVE k + 1 \in N
    <3> SUFFICES ASSUME (k + 1) + 1 <= n PROVE Good((k + 1) + 1)
      OBVIOUS
    <3>1. Good(k + 1)
      <4>1. k + 1 <= n
        BY <1>1
      <4> HIDE DEF Good
      <4> QED BY <2>5, <4>1
    <3> PICK i : i = (k + 1) + 1
      OBVIOUS
    <3>2. i \in 1 .. n /\ i # 1 /\ i - 1 = k + 1 /\ 1 .. i = (1 .. (k + 1)) \cup {i}
      BY <1>1
    <3>3. h[i] = h[k + 1] \o q[i] /\ q[i] \in Seq(X) /\ h[k + 1] \in Seq(X)
      BY <1>1, <2>3, <3>1, <3>2 DEF Joins
    <3>4. Members(h[i]) = Members(h[k + 1]) \cup Members(q[i])
      BY <3>3, JoinedMembers
    <3> QED BY <3>1, <3>2, <3>3, <3>4
  <2>6. n - 1 \in N
    <3>1. n - 1 \in Nat
      BY <1>1, <1>3
    <3>2. Nat \subseteq N
      <4> HIDE DEF N
      <4> QED BY <2>4, <2>5, NatInductionSet
    <3> HIDE DEF N
    <3> QED BY <3>1, <3>2
  <2>7. Good(n)
    <3>1. (n - 1) + 1 = n /\ (n - 1) + 1 <= n
      BY <1>1
    <3> HIDE DEF Good
    <3> QED BY <2>6, <3>1
  <2> QED BY <1>1, <2>3, <2>7
<1> QED BY <1>2, <1>3

\* A list of a set holds what the set does.
LEMMA OrderMembers ==
    ASSUME NEW S, IsFiniteSet(S), NEW order \in SetToSeqs(S)
    PROVE  /\ order \in Seq(S)
           /\ Members(order) = S
<1> PICK n : n = Cardinality(S)
  OBVIOUS
<1>1. n \in Nat /\ IsFiniteSet(1 .. n) /\ Cardinality(1 .. n) = n
  BY FS_CardinalityType, FS_Interval
<1>2. order \in [1 .. n -> S] /\ \A i, j \in 1 .. n : i # j => order[i] # order[j]
  BY DEF SetToSeqs
<1>3. order \in Injection(1 .. n, S)
  BY <1>2 DEF Injection, IsInjective
<1>4. order \in Surjection(1 .. n, S)
  BY <1>1, <1>3, FS_Injection
<1>5. order \in Seq(S)
  BY <1>1, <1>2
<1> QED BY <1>2, <1>4, <1>5 DEF Surjection, Members

\* The messages without justification among m and what is under it.
Leaves(m) == {n \in {m} \cup Past[m] : justification[n] = {}}

\* The search from m comes by each of these.
Finds(visits, m) == visits[m] \in Seq(Message) /\ Members(visits[m]) = Leaves(m)

\* visits satisfies the recursion at each message of T.
Searches(listed, T, visits) ==
    \A m \in T : visits[m] = IF justification[m] = {} THEN <<m>>
                             ELSE FlattenSeq([i \in DOMAIN listed[m] |-> visits[listed[m][i]]])

\* A search from several messages finds what is under each of them.
LEMMA JoinedVisits ==
    ASSUME NEW S \in SUBSET Message, NEW order \in SetToSeqs(S), NEW visits,
           \A n \in S : Finds(visits, n), NEW q,
           q = FlattenSeq([i \in DOMAIN order |-> visits[order[i]]])
    PROVE  q \in Seq(Message) /\ Members(q) = UNION {Leaves(n) : n \in S}
<1>1. IsFiniteSet(S)
  BY MessageAssumption, FS_Subset
<1>2. order \in Seq(S) /\ Members(order) = S
  BY <1>1, OrderMembers
<1> DEFINE p == [i \in DOMAIN order |-> visits[order[i]]]
<1>3. \A i \in DOMAIN order : /\ order[i] \in S /\ p[i] \in Seq(Message)
                              /\ Members(p[i]) = Leaves(order[i])
  BY <1>2 DEF Finds
<1>4. p \in Seq(Seq(Message)) /\ DOMAIN p = DOMAIN order
  <2>1. Len(order) \in Nat /\ DOMAIN order = 1 .. Len(order)
    BY <1>2
  <2>2. p \in [1 .. Len(order) -> Seq(Message)]
    BY <1>3, <2>1
  <2> QED BY <2>1, <2>2
<1> HIDE DEF p
<1>5. q = FlattenSeq(p)
  BY DEF p
<1>6. q \in Seq(Message) /\ Members(q) = UNION {Members(p[i]) : i \in DOMAIN p}
  BY <1>4, <1>5, FlattenMembers
<1>7. UNION {Members(p[i]) : i \in DOMAIN p} = UNION {Leaves(order[i]) : i \in DOMAIN order}
  BY <1>3, <1>4
<1>8. {Leaves(order[i]) : i \in DOMAIN order} = {Leaves(n) : n \in S}
  BY <1>2 DEF Members
<1> QED BY <1>6, <1>7, <1>8

\* Of finitely many messages one is in the justification of no other.
LEMMA TopMessage ==
    ASSUME NEW T \in SUBSET Message, T # {}
    PROVE  \E m \in T : \A k \in T : m \notin justification[k]
<1> DEFINE below == [m \in Message |-> Cardinality(Past[m])]
<1>1. ASSUME NEW m \in Message PROVE IsFiniteSet(Past[m]) /\ Past[m] \subseteq Message
  <2>1. Past[m] \in SUBSET Message
    BY PastClosed
  <2> QED BY <2>1, MessageAssumption, FS_Subset
<1>2. ASSUME NEW m \in T PROVE below[m] \in Int
  <2>1. Cardinality(Past[m]) \in Nat
    BY <1>1, FS_CardinalityType
  <2> QED BY <2>1
<1>3. IsFiniteSet(T)
  BY MessageAssumption, FS_Subset
<1>4. PICK m \in T : \A k \in T : below[k] <= below[m]
  <2> HIDE DEF below
  <2> QED BY <1>2, <1>3, LargestMember
<1>5. ASSUME NEW k \in T, m \in justification[k] PROVE FALSE
  <2>1. m \in Message /\ k \in Message /\ m \in Past[k]
    BY <1>5, PastClosed
  <2>2. Past[m] \subseteq Past[k]
    BY <2>1, PastClosed, DependsTransitive DEF Depends
  <2>3. m \notin Past[m]
    BY <2>1, AcyclicAssumption DEF Depends
  <2>4. Cardinality(Past[m]) <= Cardinality(Past[k]) /\ Cardinality(Past[k]) <= Cardinality(Past[m])
    BY <1>1, <1>4, <2>1, <2>2, FS_Subset
  <2>5. Cardinality(Past[m]) = Cardinality(Past[k])
    BY <1>1, <2>1, <2>4, FS_CardinalityType
  <2>6. Past[m] = Past[k]
    BY <1>1, <2>1, <2>2, <2>5, FS_Subset
  <2> QED BY <2>1, <2>3, <2>6
<1> QED BY <1>4, <1>5

\* Without the top one, a closed set stays closed.
LEMMA TopRemoved ==
    ASSUME NEW T \in SUBSET Message, Closed(T), NEW m \in T,
           \A k \in T : m \notin justification[k]
    PROVE  Closed(T \ {m}) /\ justification[m] \subseteq T \ {m}
BY DEF Closed

\* What is found from a message with a justification is found from the messages
\* of the justification.
LEMMA LeavesBelow ==
    ASSUME NEW m \in Message
    PROVE  Leaves(m) = IF justification[m] = {} THEN {m}
                       ELSE UNION {Leaves(n) : n \in justification[m]}
<1>1. justification[m] \subseteq Message /\ Past[m] \subseteq Message
  BY PastClosed, JustificationAssumption
<1>2. Past[m] = justification[m] \cup UNION {Past[x] : x \in justification[m]}
  <2>1. \A n \in Message : n \in Past[m] <=> \/ n \in justification[m]
                                             \/ \E x \in justification[m] : n \in Past[x]
    BY DependsRecursion DEF Depends
  <2>2. \A x \in justification[m] : Past[x] \subseteq Message
    BY <1>1, PastClosed
  <2> QED BY <1>1, <2>1, <2>2
<1> QED BY <1>2 DEF Leaves

\* What solves the recursion finds the votes under each message.
LEMMA SearchFinds ==
    ASSUME NEW listed \in Listings, NEW visits, Searches(listed, Message, visits)
    PROVE  \A m \in Message : Finds(visits, m)
<1> DEFINE X == {T \in SUBSET Message : Closed(T) => \A m \in T : Finds(visits, m)}
<1>1. ASSUME NEW T \in SUBSET Message, \A U \in SUBSET T : U # T => U \in X, Closed(T)
      PROVE  \A k \in T : Finds(visits, k)
  <2>1. CASE T = {}
    BY <2>1
  <2>2. CASE T # {}
    <3>1. PICK m \in T : \A k \in T : m \notin justification[k]
      BY <2>2, TopMessage
    <3>2. Closed(T \ {m}) /\ justification[m] \subseteq T \ {m}
      BY <1>1, <3>1, TopRemoved
    <3>3. T \ {m} \in X
      BY <1>1, <3>1
    <3>4. \A k \in T \ {m} : Finds(visits, k)
      BY <3>2, <3>3
    <3>5. Finds(visits, m)
      <4>1. visits[m] = IF justification[m] = {} THEN <<m>>
                        ELSE FlattenSeq([i \in DOMAIN listed[m] |-> visits[listed[m][i]]])
        BY DEF Searches
      <4>2. CASE justification[m] = {}
        <5>1. visits[m] = <<m>> /\ Leaves(m) = {m}
          BY <4>1, <4>2, LeavesBelow
        <5>2. <<m>> \in Seq(Message) /\ Members(<<m>>) = {m}
          BY DEF Members
        <5> QED BY <5>1, <5>2 DEF Finds
      <4>3. CASE justification[m] # {}
        <5> PICK order : order = listed[m]
          OBVIOUS
        <5>1. order \in SetToSeqs(justification[m])
          BY DEF Listings
        <5>2. visits[m] = FlattenSeq([i \in DOMAIN order |-> visits[order[i]]])
          BY <4>1, <4>3
        <5>3. justification[m] \in SUBSET Message /\ \A n \in justification[m] : Finds(visits, n)
          BY <3>2, <3>4
        <5>4. /\ visits[m] \in Seq(Message)
              /\ Members(visits[m]) = UNION {Leaves(n) : n \in justification[m]}
          BY <5>1, <5>2, <5>3, JoinedVisits
        <5> QED BY <4>3, <5>4, LeavesBelow DEF Finds
      <4> QED BY <4>2, <4>3
    <3> QED BY <3>4, <3>5
  <2> QED BY <2>1, <2>2
<1>2. Message \in X
  <2>1. \A T \in SUBSET Message : (\A U \in SUBSET T : U # T => U \in X) => T \in X
    BY <1>1
  <2> HIDE DEF X
  <2> QED BY <2>1, MessageAssumption, FiniteStrongInduction
<1>3. Closed(Message)
  BY JustificationAssumption DEF Closed
<1> QED BY <1>2, <1>3

\* The recursion has a solution, whatever the orders.
LEMMA SearchExists ==
    ASSUME NEW listed \in Listings
    PROVE  \E visits : Searches(listed, Message, visits)
<1> DEFINE X == {T \in SUBSET Message : Closed(T) => \E visits : Searches(listed, T, visits)}
<1>1. ASSUME NEW T \in SUBSET Message, \A U \in SUBSET T : U # T => U \in X, Closed(T)
      PROVE  \E visits : Searches(listed, T, visits)
  <2>1. CASE T = {}
    BY <2>1 DEF Searches
  <2>2. CASE T # {}
    <3>1. PICK m \in T : \A k \in T : m \notin justification[k]
      BY <2>2, TopMessage
    <3>2. Closed(T \ {m}) /\ justification[m] \subseteq T \ {m}
      BY <1>1, <3>1, TopRemoved
    <3>3. T \ {m} \in X
      BY <1>1, <3>1
    <3>4. PICK old : Searches(listed, T \ {m}, old)
      BY <3>2, <3>3
    <3> DEFINE joined(k, v) == FlattenSeq([i \in DOMAIN listed[k] |-> v[listed[k][i]]])
               new == [k \in T |-> IF k # m THEN old[k]
                                   ELSE IF justification[k] = {} THEN <<k>> ELSE joined(k, old)]
    <3>5. \A k \in T : joined(k, new) = joined(k, old)
      <4> SUFFICES ASSUME NEW k \in T PROVE joined(k, new) = joined(k, old)
        OBVIOUS
      <4>1. listed[k] \in SetToSeqs(justification[k])
        BY DEF Listings
      <4>2. IsFiniteSet(justification[k])
        BY JustificationAssumption, MessageAssumption, FS_Subset
      <4>3. \A i \in DOMAIN listed[k] : listed[k][i] \in justification[k]
        BY <4>1, <4>2, OrderMembers DEF Members
      <4>4. justification[k] \subseteq T \ {m}
        BY <1>1, <3>1 DEF Closed
      <4>5. \A i \in DOMAIN listed[k] : new[listed[k][i]] = old[listed[k][i]]
        BY <4>3, <4>4
      <4> HIDE DEF new
      <4>6. [i \in DOMAIN listed[k] |-> new[listed[k][i]]]
                = [i \in DOMAIN listed[k] |-> old[listed[k][i]]]
        BY <4>5
      <4> QED BY <4>6
    <3>6. \A k \in T : new[k] = IF justification[k] = {} THEN <<k>> ELSE joined(k, old)
      <4>1. \A k \in T \ {m} : old[k] = IF justification[k] = {} THEN <<k>> ELSE joined(k, old)
        BY <3>4 DEF Searches
      <4> HIDE DEF joined
      <4> QED BY <4>1
    <3>7. \A k \in T : new[k] = IF justification[k] = {} THEN <<k>> ELSE joined(k, new)
      <4> HIDE DEF joined, new
      <4> QED BY <3>5, <3>6
    <3> HIDE DEF new
    <3>8. Searches(listed, T, new)
      BY <3>7 DEF Searches
    <3> QED BY <3>8
  <2> QED BY <2>1, <2>2
<1>2. Message \in X
  <2>1. \A T \in SUBSET Message : (\A U \in SUBSET T : U # T => U \in X) => T \in X
    BY <1>1
  <2> HIDE DEF X
  <2> QED BY <2>1, MessageAssumption, FiniteStrongInduction
<1>3. Closed(Message)
  BY JustificationAssumption DEF Closed
<1> QED BY <1>2, <1>3

\* The search, in whatever order, comes by the votes under each message.
LEMMA VisitsFind ==
    ASSUME NEW visits \in AllVisits
    PROVE  \A m \in Message : Finds(visits, m)
<1>1. PICK listed \in Listings : visits = Visits(listed)
  BY DEF AllVisits
<1> DEFINE Solves(f) ==
        f = [m \in Message |-> IF justification[m] = {} THEN <<m>>
                               ELSE FlattenSeq([i \in DOMAIN listed[m] |-> f[listed[m][i]]])]
<1>2. visits = CHOOSE f : Solves(f)
  BY <1>1 DEF Visits
<1>3. \E f : Solves(f)
  <2>1. PICK g : Searches(listed, Message, g)
    BY SearchExists
  <2> DEFINE f == [m \in Message |-> g[m]]
             joined(m, v) == FlattenSeq([i \in DOMAIN listed[m] |-> v[listed[m][i]]])
  <2>2. \A m \in Message : joined(m, f) = joined(m, g)
    <3> SUFFICES ASSUME NEW m \in Message PROVE joined(m, f) = joined(m, g)
      OBVIOUS
    <3>1. listed[m] \in SetToSeqs(justification[m])
      BY DEF Listings
    <3>2. IsFiniteSet(justification[m]) /\ justification[m] \subseteq Message
      BY JustificationAssumption, MessageAssumption, FS_Subset
    <3>3. \A i \in DOMAIN listed[m] : listed[m][i] \in Message
      BY <3>1, <3>2, OrderMembers DEF Members
    <3>4. \A i \in DOMAIN listed[m] : f[listed[m][i]] = g[listed[m][i]]
      BY <3>3
    <3> HIDE DEF f
    <3>5. [i \in DOMAIN listed[m] |-> f[listed[m][i]]]
              = [i \in DOMAIN listed[m] |-> g[listed[m][i]]]
      BY <3>4
    <3> QED BY <3>5
  <2>3. \A m \in Message : f[m] = IF justification[m] = {} THEN <<m>> ELSE joined(m, g)
    BY <2>1 DEF Searches
  <2>4. \A m \in Message : f[m] = IF justification[m] = {} THEN <<m>> ELSE joined(m, f)
    <3> HIDE DEF f, joined
    <3> QED BY <2>2, <2>3
  <2>5. f = [m \in Message |-> f[m]]
    OBVIOUS
  <2> HIDE DEF f
  <2>6. Solves(f)
    <3> HIDE DEF joined
    <3>1. f = [m \in Message |-> IF justification[m] = {} THEN <<m>> ELSE joined(m, f)]
      BY <2>4, <2>5
    <3> QED BY <3>1 DEF joined
  <2> HIDE DEF Solves
  <2> QED BY <2>6
<1>4. Solves(visits)
  <2> HIDE DEF Solves
  <2> QED BY <1>2, <1>3
<1>5. Searches(listed, Message, visits)
  BY <1>4 DEF Searches
<1> QED BY <1>5, SearchFinds

\* The votes of B whose sender has no other vote in B.
Once(B) == {m \in B : Toggled(m) \cap B = {}}

\* What is kept of the votes B after those in seen.
KeepsVotes(B, seen, votes) ==
    /\ votes \subseteq B
    /\ Once(B) \cap seen \subseteq votes
    /\ \A m \in votes : Toggled(m) \cap votes = {}

\* B is a set of votes.
AreVotes(B) == B \subseteq Message /\ \A m \in B : justification[m] = {} /\ IsValid(m)

\* One more message keeps this.
LEMMA WithVoteKeeps ==
    ASSUME NEW B, AreVotes(B), NEW seen, NEW votes, KeepsVotes(B, seen, votes),
           NEW m \in Message, m \in B \/ ~IsValid(m)
    PROVE  KeepsVotes(B, seen \cup {m}, WithVote(votes, m))
<1>1. \A n \in B, k \in B : n \in Toggled(k) => k \in Toggled(n)
  BY DEF AreVotes, Toggled
<1>2. CASE ~IsValid(m)
  <2>1. m \notin B /\ WithVote(votes, m) = votes
    BY <1>2 DEF AreVotes, WithVote
  <2> QED BY <2>1 DEF KeepsVotes, Once
<1>3. CASE IsValid(m) /\ Toggled(m) \cap votes = {}
  <2>1. WithVote(votes, m) = votes \cup {m} /\ m \in B
    BY <1>3 DEF WithVote
  <2>2. m \notin Toggled(m)
    BY DEF Toggled
  <2>3. \A k \in votes : m \notin Toggled(k)
    BY <1>1, <1>3, <2>1 DEF KeepsVotes
  <2>4. \A k \in votes \cup {m} : Toggled(k) \cap (votes \cup {m}) = {}
    BY <1>3, <2>2, <2>3 DEF KeepsVotes
  <2> QED BY <2>1, <2>4 DEF KeepsVotes
<1>4. CASE IsValid(m) /\ Toggled(m) \cap votes # {}
  <2>1. WithVote(votes, m) = votes \ Toggled(m) /\ m \in B
    BY <1>4 DEF WithVote
  <2>2. m \notin Once(B)
    BY <1>4 DEF KeepsVotes, Once
  <2>3. \A k \in Once(B) : k \notin Toggled(m)
    BY <1>1, <2>1 DEF Once
  <2> QED BY <2>1, <2>2, <2>3 DEF KeepsVotes
<1> QED BY <1>2, <1>3, <1>4

\* So does the fold over a list of messages.
LEMMA FoldKeeps ==
    ASSUME NEW B, AreVotes(B), NEW q \in Seq(Message), \A m \in Members(q) : m \in B \/ ~IsValid(m)
    PROVE  KeepsVotes(B, Members(q), FoldLeft(WithVote, {}, q))
<1> PICK n : n = Len(q)
  OBVIOUS
<1>1. n \in Nat /\ DOMAIN q = 1 .. n /\ \A i \in 1 .. n : q[i] \in Message /\ q[i] \in Members(q)
  BY DEF Members
<1> DEFINE Counts(f) == f = [T \in SUBSET (1 .. n) |->
                               IF T = {} THEN {} ELSE WithVote(f[T \ {Max(T)}], q[Max(T)])]
           A == SUBSET Message
           step == [i \in 1 .. n |-> [a \in A |-> WithVote(a, q[i])]]
<1>2. FoldLeft(WithVote, {}, q) = (CHOOSE f : Counts(f))[1 .. n]
  BY <1>1 DEF FoldLeft, MapThenFoldSet
<1>3. ASSUME NEW i \in 1 .. n, NEW a \in A
      PROVE  step[i][a] = WithVote(a, q[i]) /\ step[i][a] \in A
  <2>1. step[i][a] = WithVote(a, q[i])
    OBVIOUS
  <2>2. WithVote(a, q[i]) \in A
    BY <1>1 DEF WithVote
  <2> QED BY <2>1, <2>2
<1>4. ASSUME NEW T \in SUBSET (1 .. n), T # {} PROVE Max(T) \in 1 .. n
  <2>1. T \subseteq Int
    OBVIOUS
  <2>2. IsFiniteSet(1 .. n)
    BY FS_Interval
  <2>3. IsFiniteSet(T)
    BY <2>2, FS_Subset
  <2> QED BY <1>4, <2>1, <2>3, MaxMember
<1>5. {} \in A
  OBVIOUS
<1>6. StaysIn(n, A, step)
  <2> HIDE DEF step, A
  <2> QED BY <1>3 DEF StaysIn
<1> HIDE DEF step, A
<1>7. \E f : Counts(f)
  <2>1. PICK f \in [SUBSET (1 .. n) -> A] : Folds(n, {}, step, f)
    BY <1>1, <1>5, <1>6, FoldExists
  <2>2. ASSUME NEW T \in SUBSET (1 .. n)
        PROVE  f[T] = IF T = {} THEN {} ELSE WithVote(f[T \ {Max(T)}], q[Max(T)])
    <3>1. CASE T = {}
      BY <2>1, <3>1 DEF Folds
    <3>2. CASE T # {}
      <4> PICK i, s : i = Max(T) /\ s = f[T \ {Max(T)}]
        OBVIOUS
      <4>1. i \in 1 .. n /\ s \in A
        BY <1>4, <2>1, <3>2
      <4>2. f[T] = step[i][s]
        BY <2>1, <3>2 DEF Folds
      <4>3. f[T] = WithVote(s, q[i])
        BY <1>3, <4>1, <4>2
      <4> QED BY <3>2, <4>3
    <3> QED BY <3>1, <3>2
  <2>3. f = [T \in SUBSET (1 .. n) |-> f[T]]
    OBVIOUS
  <2>4. Counts(f)
    BY <2>2, <2>3
  <2> QED BY <2>4
<1>8. PICK f : Counts(f) /\ FoldLeft(WithVote, {}, q) = f[1 .. n]
  <2> HIDE DEF Counts
  <2> QED BY <1>2, <1>7
<1>9. FoldsWithin(n, A, {}, step, f)
  <2>1. f[{}] = {}
    BY <1>8
  <2>2. ASSUME NEW T \in SUBSET (1 .. n), T # {}, f[T \ {Max(T)}] \in A
        PROVE  f[T] = step[Max(T)][f[T \ {Max(T)}]]
    <3>1. f[T] = WithVote(f[T \ {Max(T)}], q[Max(T)])
      BY <1>8, <2>2
    <3> QED BY <1>3, <1>4, <2>2, <3>1
  <2> QED BY <2>1, <2>2 DEF FoldsWithin
<1>10. /\ f[1 .. 0] = {}
       /\ \A i \in 0 .. n : f[1 .. i] \in A
       /\ \A i \in 1 .. n : f[1 .. i] = step[i][f[1 .. (i - 1)]]
  BY <1>1, <1>5, <1>6, <1>9, FoldAlong
<1> DEFINE First(i) == {q[j] : j \in 1 .. i}
           N == {i \in Nat : i <= n => KeepsVotes(B, First(i), f[1 .. i])}
<1>11. 0 \in N
  <2>1. First(0) = {}
    OBVIOUS
  <2> HIDE DEF First
  <2> QED BY <1>10, <2>1 DEF KeepsVotes
<1>12. ASSUME NEW i \in Nat, i \in N PROVE i + 1 \in N
  <2> SUFFICES ASSUME i + 1 <= n PROVE KeepsVotes(B, First(i + 1), f[1 .. (i + 1)])
    OBVIOUS
  <2>1. i + 1 \in 1 .. n /\ (i + 1) - 1 = i /\ i \in 0 .. n
    BY <1>1
  <2>2. KeepsVotes(B, First(i), f[1 .. i]) /\ f[1 .. i] \in A
    <3>1. i <= n
      BY <1>1
    <3> HIDE DEF First
    <3> QED BY <1>10, <1>12, <2>1, <3>1
  <2>3. f[1 .. (i + 1)] = step[i + 1][f[1 .. i]]
    BY <1>10, <2>1
  <2>4. f[1 .. (i + 1)] = WithVote(f[1 .. i], q[i + 1])
    BY <1>3, <2>1, <2>2, <2>3
  <2>5. q[i + 1] \in Message /\ (q[i + 1] \in B \/ ~IsValid(q[i + 1]))
    BY <1>1, <2>1
  <2>6. First(i + 1) = First(i) \cup {q[i + 1]}
    <3>1. 1 .. (i + 1) = (1 .. i) \cup {i + 1}
      OBVIOUS
    <3> QED BY <3>1, Zenon
  <2> HIDE DEF First
  <2> QED BY <2>2, <2>4, <2>5, <2>6, WithVoteKeeps
<1>13. Nat \subseteq N
  <2> HIDE DEF N
  <2> QED BY <1>11, <1>12, NatInductionSet
<1>14. KeepsVotes(B, First(n), f[1 .. n])
  <2>1. n \in Nat /\ n <= n
    BY <1>1
  <2> HIDE DEF First
  <2> QED BY <1>13, <2>1
<1>15. First(n) = Members(q)
  BY <1>1 DEF Members
<1> QED BY <1>8, <1>14, <1>15

\* The only vote of a validator is counted, once, and a validator that has voted
\* both ways adds at most one vote, for all messages, however many ways lead to a
\* vote and in whatever order they are followed.
THEOREM Voting == Spec => []OneVoteEach
<1>1. TypeOK => OneVoteEach
  <2> SUFFICES ASSUME TypeOK PROVE OneVoteEach
    OBVIOUS
  <2> PICK honest : honest = Honest(latest_messages, equivocators)
    OBVIOUS
  <2>1. honest \subseteq Message
    BY DEF TypeOK, Honest
  <2> DEFINE B == VotesBeneath(honest)
  <2>2. /\ UNION {Leaves(n) : n \in honest}
               = {m \in honest \cup UNION {Past[n] : n \in honest} : justification[m] = {}}
        /\ UNION {Leaves(n) : n \in honest} \subseteq Message
    <3>1. \A n \in honest : n \in Message /\ Past[n] \subseteq Message
      BY <2>1, PastClosed
    <3> QED BY <3>1 DEF Leaves
  <2>3. AreVotes(B) /\ B = {m \in UNION {Leaves(n) : n \in honest} : IsValid(m)}
    BY <2>2 DEF AreVotes, VotesBeneath
  <2> HIDE DEF B
  <2>4. ASSUME NEW order \in SetToSeqs(honest), NEW visits \in AllVisits
        PROVE  KeepsVotes(B, UNION {Leaves(n) : n \in honest}, VoteMessages(order, visits))
    <3> DEFINE q == FlattenSeq([i \in DOMAIN order |-> visits[order[i]]])
    <3>1. honest \in SUBSET Message /\ \A n \in honest : Finds(visits, n)
      BY <2>1, VisitsFind
    <3>2. q \in Seq(Message) /\ Members(q) = UNION {Leaves(n) : n \in honest}
      BY <3>1, JoinedVisits
    <3>5. VoteMessages(order, visits) = FoldLeft(WithVote, {}, q)
      BY DEF VoteMessages
    <3> HIDE DEF q
    <3>3. \A m \in Members(q) : m \in B \/ ~IsValid(m)
      BY <2>3, <3>2
    <3>4. KeepsVotes(B, Members(q), FoldLeft(WithVote, {}, q))
      BY <2>3, <3>2, <3>3, FoldKeeps
    <3> QED BY <3>2, <3>4, <3>5
  <2>5. ASSUME NEW order \in SetToSeqs(honest), NEW visits \in AllVisits, NEW votes,
               votes = VoteMessages(order, visits)
        PROVE  /\ {m \in B : Toggled(m) \cap B = {}} \subseteq votes /\ votes \subseteq B
               /\ \A m \in votes : Toggled(m) \cap votes = {}
    <3>1. KeepsVotes(B, UNION {Leaves(n) : n \in honest}, votes)
      BY <2>4, <2>5
    <3>2. B \subseteq UNION {Leaves(n) : n \in honest}
      BY <2>3
    <3> QED BY <3>1, <3>2 DEF KeepsVotes, Once
  <2> QED BY <2>5 DEF OneVoteEach, B
<1> QED BY <1>1, TypeCorrect, PTL
=============================================================================
