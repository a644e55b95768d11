--------------------------- MODULE ValidatorState ---------------------------
(***************************************************************************)
(* validator::State (src/validator.rs) and the Justification that is built *)
(* from it (src/justification.rs).  Messages reach a state through         *)
(* State::update, one by one, or through the faulty inserts of a           *)
(* Justification, one by one or in batches.  Both add them to the latest   *)
(* messages and account for the weight of the equivocators they reveal,    *)
(* never beyond the fault tolerance threshold thr.                         *)
(*                                                                         *)
(* faulty_inserts sorts a batch and then inserts it message by message.    *)
(* The loop is one action per message: the state is borrowed while it runs *)
(* (todo is not empty), so no other operation on it happens in between,    *)
(* but the weights are shared with other states (module SharedWeights).    *)
(***************************************************************************)
EXTENDS Messages, Integers, FiniteSetsExt

CONSTANTS
    thr,        \* State::thr
    Absent,     \* the weight of a validator that Weights does not know
    Weight,     \* the weights the state starts with
    MaxBatch    \* BOUND: messages given to one call of faulty_inserts

ASSUME ThrAssumption == thr \in Nat

ASSUME AbsentAssumption == Absent \notin Nat

ASSUME WeightAssumption == Weight \in [Validator -> Nat \cup {Absent}]

ASSUME MaxBatchAssumption == MaxBatch \in Nat

ASSUME ValidatorAssumption == IsFiniteSet(Validator)

VARIABLES
    latest_messages,      \* State::latest_messages
    equivocators,         \* State::equivocators
    state_fault_weight,   \* State::state_fault_weight
    validators_weights,   \* State::validators_weights
    justified,            \* the messages of the Justification being built
    todo,                 \* the messages a batch has still to insert, each with
                          \* the fault weight sort_by_faultweight gave it
    refused,              \* the messages the last faulty insert or batch has
                          \* not inserted because of the threshold
    received              \* history: the messages added to latest_messages

faultVars == <<equivocators, state_fault_weight>>

vars == <<latest_messages, faultVars, validators_weights, justified, todo,
          refused, received>>

\* No batch holds the state.
Idle == DOMAIN todo = {}

-----------------------------------------------------------------------------
(* Accounting for an equivocator. *)

\* validator_weight + state_fault_weight <= thr.  An unknown validator weighs
\* INFINITY, which is above every finite threshold.
Fits(v) ==
    /\ validators_weights[v] # Absent
    /\ validators_weights[v] + state_fault_weight <= thr

\* Mutant: charged again on every equivocation.
ChargeAgain(v) ==
    /\ equivocators' = equivocators \cup {v}
    /\ state_fault_weight' = state_fault_weight + validators_weights[v]

\* equivocators.insert, and the weight is added if the name is new.
Charge(v) ==
    /\ equivocators' = equivocators \cup {v}
    /\ state_fault_weight' =
          IF v \in equivocators THEN state_fault_weight
          ELSE state_fault_weight + validators_weights[v]

\* The state's latest messages now hold m.
AddLatest(m) ==
    /\ latest_messages' = Updated(latest_messages, m)
    /\ received' = received \cup {m}

\* A message that reveals an equivocator the state has not listed.
Unlisted(m) == Equivocate(latest_messages, m) /\ sender[m] \notin equivocators

-----------------------------------------------------------------------------
(* State::update *)

\* Mutant: the sender is charged whether or not it equivocates.
UpdateChargesAll(m) ==
    /\ Idle
    /\ AddLatest(m)
    /\ IF Fits(sender[m]) THEN Charge(sender[m]) ELSE UNCHANGED faultVars
    /\ refused' = {}
    /\ UNCHANGED <<validators_weights, justified, todo>>

\* One message of the slice given to State::update.
Update(m) ==
    /\ Idle
    /\ AddLatest(m)
    /\ IF Equivocate(latest_messages', m) /\ Fits(sender[m])
       THEN Charge(sender[m])
       ELSE UNCHANGED faultVars
    /\ refused' = {}
    /\ UNCHANGED <<validators_weights, justified, todo>>

-----------------------------------------------------------------------------
(* Justification::faulty_insert *)

\* Mutant: a message of a listed equivocator is refused like an unlisted one.
RefuseListed(m, out) ==
    /\ Equivocate(latest_messages, m)
    /\ ~Fits(sender[m])
    /\ refused' = out \cup {m}
    /\ UNCHANGED <<latest_messages, faultVars, justified, received>>

\* The equivocation would cross the threshold: nothing is inserted.
Refuse(m, out) ==
    /\ Unlisted(m)
    /\ ~Fits(sender[m])
    /\ refused' = out \cup {m}
    /\ UNCHANGED <<latest_messages, faultVars, justified, received>>

\* Justification::insert finds the message already there.
AlreadyIn(m, out) ==
    /\ m \in justified
    /\ Unlisted(m) => Fits(sender[m])
    /\ refused' = out
    /\ UNCHANGED <<latest_messages, faultVars, justified, received>>

\* Mutant: the message of a new equivocator is let in as if it were listed.
AcceptUncharged(m, out) ==
    /\ m \notin justified
    /\ justified' = justified \cup {m}
    /\ AddLatest(m)
    /\ refused' = out
    /\ UNCHANGED faultVars

\* The message enters the justification and the state.
Accept(m, out) ==
    /\ m \notin justified
    /\ Unlisted(m) => Fits(sender[m])
    /\ justified' = justified \cup {m}
    /\ AddLatest(m)
    /\ IF Unlisted(m) THEN Charge(sender[m]) ELSE UNCHANGED faultVars
    /\ refused' = out

\* One call of faulty_insert; out is what the batch has refused before.
Insertion(m, out) == Refuse(m, out) \/ AlreadyIn(m, out) \/ Accept(m, out)

FaultyInsert(m) ==
    /\ Idle
    /\ Insertion(m, {})
    /\ UNCHANGED <<todo, validators_weights>>

-----------------------------------------------------------------------------
(* Justification::faulty_inserts and Justification::from_messages *)

\* sort_by_faultweight, the weight a message is sorted by.
FaultWeight(m) == IF Unlisted(m) THEN validators_weights[sender[m]] ELSE 0

\* Mutant: a message is sorted whether its fault weight is known or not.
SortableAll(S) == S

\* sort_by_faultweight leaves out the messages whose fault weight is unknown.
Sortable(S) == {m \in S : FaultWeight(m) # Absent}

\* faulty_inserts sorts its messages and starts on them; from_messages does
\* so with an empty justification.  The weights are read at once: see README.
StartBatch(S, fresh) ==
    /\ Idle
    /\ todo' = [m \in Sortable(S) |-> FaultWeight(m)]
    /\ refused' = S \ Sortable(S)
    /\ justified' = IF fresh THEN {} ELSE justified
    /\ UNCHANGED <<latest_messages, faultVars, validators_weights, received>>

\* Mutant: the batch is inserted as it comes.
InsertAny(m) ==
    /\ m \in DOMAIN todo
    /\ Insertion(m, refused)
    /\ todo' = [n \in DOMAIN todo \ {m} |-> todo[n]]
    /\ UNCHANGED validators_weights

\* The next message of the batch, by ascending fault weight.  Equal weights
\* are ordered by the messages' hashes, which can be any order.
InsertNext(m) ==
    /\ m \in DOMAIN todo
    /\ \A n \in DOMAIN todo : todo[m] <= todo[n]
    /\ Insertion(m, refused)
    /\ todo' = [n \in DOMAIN todo \ {m} |-> todo[n]]
    /\ UNCHANGED validators_weights

-----------------------------------------------------------------------------
(* Justification::faulty_insert_with_slash *)

\* Mutant: the sender is slashed without being listed.
SlashingInsertUnlisted(m) ==
    /\ Idle
    /\ IF Equivocate(latest_messages, m)
       THEN validators_weights' = [validators_weights EXCEPT ![sender[m]] = 0]
       ELSE UNCHANGED validators_weights
    /\ AddLatest(m)
    /\ justified' = justified \cup {m}
    /\ refused' = {}
    /\ UNCHANGED <<faultVars, todo>>

\* Mutant: whoever sent a message that is inserted with slash is listed.
SlashingInsertAll(m) ==
    /\ Idle
    /\ equivocators' = equivocators \cup {sender[m]}
    /\ validators_weights' = [validators_weights EXCEPT ![sender[m]] = 0]
    /\ AddLatest(m)
    /\ justified' = justified \cup {m}
    /\ refused' = {}
    /\ UNCHANGED <<state_fault_weight, todo>>

\* Mutant: the sender is listed and its weight is left as it is.
SlashingInsertWeighty(m) ==
    /\ Idle
    /\ equivocators' = IF Equivocate(latest_messages, m)
                       THEN equivocators \cup {sender[m]} ELSE equivocators
    /\ AddLatest(m)
    /\ justified' = justified \cup {m}
    /\ refused' = {}
    /\ UNCHANGED <<state_fault_weight, validators_weights, todo>>

\* The sender of an equivocation is listed and loses its weight at once; the
\* message is inserted whatever it is.
SlashingInsert(m) ==
    /\ Idle
    /\ IF Equivocate(latest_messages, m)
       THEN /\ equivocators' = equivocators \cup {sender[m]}
            /\ validators_weights' = [validators_weights EXCEPT ![sender[m]] = 0]
       ELSE UNCHANGED <<equivocators, validators_weights>>
    /\ AddLatest(m)
    /\ justified' = justified \cup {m}
    /\ refused' = {}
    /\ UNCHANGED <<state_fault_weight, todo>>

-----------------------------------------------------------------------------

\* State::new with nothing received, Justification::empty.
Init ==
    /\ latest_messages = Empty
    /\ equivocators = {}
    /\ state_fault_weight = 0
    /\ validators_weights = Weight
    /\ justified = {}
    /\ todo = [m \in {} |-> 0]
    /\ received = {}
    /\ refused = {}

Batches == {S \in SUBSET Message : S # {} /\ Cardinality(S) <= MaxBatch}

Next ==
    \/ \E m \in Message : Update(m)
    \/ \E m \in Message : FaultyInsert(m)
    \/ \E S \in Batches, fresh \in BOOLEAN : StartBatch(S, fresh)
    \/ \E m \in Message : InsertNext(m)

\* A state that never slashes.
Spec == Init /\ [][Next]_vars

-----------------------------------------------------------------------------
(* Properties *)

TypeOK ==
    /\ latest_messages \in [Validator -> SUBSET Message]
    /\ equivocators \subseteq Validator
    /\ state_fault_weight \in Nat
    /\ validators_weights \in [Validator -> Nat \cup {Absent}]
    /\ justified \subseteq Message
    /\ DOMAIN todo \subseteq Message
    /\ \A m \in DOMAIN todo : todo[m] \in Nat
    /\ received \subseteq Message
    /\ refused \subseteq Message

\* The latest messages of a validator are its own and were received.
LatestReceived ==
    \A v \in Validator : \A m \in latest_messages[v] : m \in received /\ sender[m] = v

\* LatestMessages::update forgets a message only for one that depends on it.
NothingLost ==
    \A n \in received : \E m \in latest_messages[sender[n]] : m = n \/ Depends(m, n)

\* A sender whose messages form a chain so far has its newest message, alone,
\* as its latest one, also when the chain arrived out of order, with
\* duplicates, or after an equivocation that this message heals.
NewestAlone ==
    \A m \in received :
        (\A n \in received : sender[n] = sender[m] /\ n # m => Depends(m, n))
            => latest_messages[sender[m]] = {m}

\* State::update and faulty_insert list nobody as an equivocator who did not
\* send two messages that equivocate, and the state was given both.
NoFalseAccusation ==
    \A v \in equivocators :
        \E m, n \in received : sender[m] = v /\ Equivocates(m, n)

\* Two latest messages of a validator that equivocate are a fault the state
\* accounts for, unless that would cross the threshold: it never misses an
\* equivocation it can still see and afford.
EquivocationHandled ==
    \A v \in Validator :
        (\E m, n \in latest_messages[v] : Equivocates(m, n))
            => v \in equivocators \/ ~Fits(v)

\* What a validator without a weight adds is nothing.
Counted(w) == [v \in Validator |-> IF w[v] = Absent THEN 0 ELSE w[v]]

\* Weights::sum_weight_validators
SumCounted(w, S) == LET counted == Counted(w) IN MapThenSumSet(LAMBDA v : counted[v], S)

\* Each listed equivocator is charged exactly once, at its weight, whichever
\* of update and the faulty inserts met it first and however often its
\* messages come back; and the total stays within the threshold.
FaultAccounted ==
    /\ state_fault_weight = SumCounted(Weight, equivocators)
    /\ state_fault_weight <= thr

\* A faulty insert refuses a message only if its sender is an unlisted
\* equivocator that the threshold has, and will have, no room for.
RefusedUnaffordable ==
    \A m \in refused : sender[m] \notin equivocators /\ ~Fits(sender[m])

HV == INSTANCE HonestView WITH
          listed <- equivocators, honest <- Honest(latest_messages, equivocators)

\* The honest latest messages are those of the validators that are not listed, and
\* of these a function of the set of messages received: arrival order and
\* duplicates show only in who is listed, which is whoever sent a message that
\* equivocates with one received before.
RefinesHonestView == HV!Spec

\* "Latest messages from a validator are all their messages that are not in the
\* dependency of another of their messages" (the documentation of
\* LatestMessages).
LatestAreLatest ==
    \A v \in Validator : \A m, n \in latest_messages[v] : ~Depends(m, n)

\* "when state.thr is arbitrarily big, state.equivocators should be filled with
\* every equivocator" (the generative tests): of the senders that equivocated
\* towards this state, each is listed or does not fit under the threshold.
EveryEquivocatorListed ==
    \A m, n \in received :
        Equivocates(m, n) => sender[m] \in equivocators \/ ~Fits(sender[m])
=============================================================================
