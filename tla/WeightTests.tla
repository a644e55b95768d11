----------------------------- MODULE WeightTests -----------------------------
(***************************************************************************)
(* The unit tests of src/util/weight.rs and of Weights in src/validator.rs *)
(* put to the definitions of WeightArithmetic and ValidatorWeights.  Some  *)
(* tests use numbers with a fraction; here they are tenths.                *)
(***************************************************************************)
EXTENDS ValidatorWeights, TLC

-----------------------------------------------------------------------------
(* src/util/weight.rs *)

addition ==
    /\ Plus(1, 1) = 2 /\ Plus(1, Infinity) = Infinity /\ Plus(1, NaN) = NaN
    /\ Plus(NaN, NaN) = NaN /\ Plus(Infinity, 1) = Infinity
    /\ Plus(Infinity, NaN) = NaN /\ Plus(Infinity, Infinity) = Infinity

substraction ==
    /\ Minus(1, 1) = 0 /\ Minus(1, Infinity) = Infinity /\ Minus(1, NaN) = NaN
    /\ Minus(NaN, NaN) = NaN /\ Minus(Infinity, 1) = Infinity
    /\ Minus(Infinity, NaN) = NaN /\ Minus(Infinity, Infinity) = NaN

equality ==
    /\ Equal(1, 1) /\ Equal(Infinity, Infinity)
    /\ ~Equal(1, Infinity)
    /\ \A a \in {1, Infinity, NaN} : ~Equal(a, NaN)

\* The pairs of weights of which a relation holds, as the tests `smaller` and, the
\* other way round, `greater` list them.
smaller ==
    {p \in {1, Infinity, NaN} \X {1, Infinity, NaN} : Less(p[1], p[2])} = {<<1, Infinity>>}

smaller_or_equal ==
    {p \in {1, Infinity, NaN} \X {1, Infinity, NaN} : AtMost(p[1], p[2])}
        = {<<1, 1>>, <<1, Infinity>>, <<Infinity, Infinity>>}

-----------------------------------------------------------------------------
(* src/validator.rs *)

\* weights_validators_...: a weight that is zero, negative or not a number leaves
\* a validator out, infinity does not.
weights_validators ==
    /\ Validators(0 :> 10 @@ 1 :> 10 @@ 2 :> 10) = {0, 1, 2}
    /\ Validators(0 :> 0 @@ 1 :> 10 @@ 2 :> 10) = {1, 2}
    /\ Validators(0 :> 10 @@ 1 :> -10 @@ 2 :> 10) = {0, 2}
    /\ Validators(0 :> NaN @@ 1 :> 10 @@ 2 :> 10) = {1, 2}
    /\ Validators(0 :> Infinity @@ 1 :> 10 @@ 2 :> 10) = {0, 1, 2}

weights_sum_weight_validators ==
    LET sum(S) == SumWeightValidators(0 :> 10 @@ 1 :> -10 @@ 2 :> 33 @@ 3 :> Infinity, S) IN
    sum({0, 1, 3}) = Infinity /\ sum({0, 1}) = 0 /\ sum({0, 2}) = 43 /\ sum({4}) = NaN

weights_sum_all_weights ==
    LET weights == 0 :> 20 @@ 1 :> -10 @@ 2 :> 33 IN
    SumAllWeights(weights) = SumWeightValidators(weights, {0, 2})

\* The answers are those that the tests assert.
ASSUME WeightTestsPass ==
    /\ addition /\ substraction /\ equality /\ smaller /\ smaller_or_equal
    /\ weights_validators /\ weights_sum_weight_validators /\ weights_sum_all_weights
=============================================================================
