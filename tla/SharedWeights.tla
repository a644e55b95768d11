---------------------------- MODULE SharedWeights ----------------------------
(***************************************************************************)
(* A validator state whose owner also uses faulty_insert_with_slash, and   *)
(* whose Weights are shared.  Weights is an Arc<RwLock<HashMap>>, so a     *)
(* State that was cloned, or built from another state's weights, reads and *)
(* writes the same map.  Seen from one state, the holders of the others    *)
(* can take the weight of an equivocator at any moment, also between two   *)
(* insertions of a batch that was sorted with the old weights.             *)
(***************************************************************************)
EXTENDS ValidatorState

\* Weights::insert, called by the faulty_insert_with_slash of another state
\* that received two equivocating messages of v.
OtherSlashes(v) ==
    /\ \E m, n \in Message : sender[m] = v /\ Equivocates(m, n)
    /\ validators_weights' = [validators_weights EXCEPT ![v] = 0]
    /\ UNCHANGED <<latest_messages, faultVars, justified, todo, refused, received>>

SharedNext ==
    \/ Next
    \/ \E m \in Message : SlashingInsert(m)
    \/ \E v \in Validator : OtherSlashes(v)

SharedSpec == Init /\ [][SharedNext]_vars

-----------------------------------------------------------------------------
(* Properties *)

\* What Weights says now of the weight of all listed equivocators.
CurrentFaultWeight == SumCounted(validators_weights, equivocators)

\* However often, by whom and when weights are slashed, the fault weight of the
\* state never falls below the weight its equivocators still have, and never
\* exceeds the threshold.
FaultCovered ==
    /\ CurrentFaultWeight <= state_fault_weight
    /\ state_fault_weight <= thr

\* An equivocation among the latest messages is accounted for, or there was no
\* room for the weight the sender had before anyone slashed it: a slash elsewhere
\* never makes the state forget an equivocator it listed, nor list one late.
HandledDespiteSlash ==
    \A v \in Validator :
        (\E m, n \in latest_messages[v] : Equivocates(m, n))
            => \/ v \in equivocators
               \/ Weight[v] = Absent
               \/ Weight[v] + state_fault_weight > thr

\* "his weight is null and doesn't count to the state fault weight anymore" (the
\* documentation of faulty_insert_with_slash).
SlashedUncounted == state_fault_weight = CurrentFaultWeight
=============================================================================
