-------------------------- MODULE ValidatorWeights --------------------------
(***************************************************************************)
(* Weights of src/validator.rs, the map from validators to weights, over   *)
(* the arithmetic of src/util/weight.rs.  A map is a function on the       *)
(* validators that are in it.                                              *)
(***************************************************************************)
EXTENDS WeightArithmetic, FiniteSetsExt

\* Weights::validators: those with positive weight.
Validators(weights) == {v \in DOMAIN weights : Less(Zero, weights[v])}

\* Weights::sum_weight_validators
SumWeightValidators(weights, S) ==
    MapThenFoldSet(Plus, Zero, LAMBDA v : IF v \in DOMAIN weights THEN weights[v] ELSE NaN,
                   LAMBDA T : CHOOSE v \in T : TRUE, S)

\* Weights::sum_all_weights
SumAllWeights(weights) == SumWeightValidators(weights, Validators(weights))
=============================================================================
