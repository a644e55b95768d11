--------------------------- MODULE MCSafetyOracle ---------------------------
(***************************************************************************)
(* Four validators.  Every set of pairs that see each other, each with an  *)
(* arbitrary set of validators that see their own earlier message; and, so *)
(* that sight is not always mutual, one more validator sees all others.    *)
(***************************************************************************)
EXTENDS SafetyOracle

Pairs == {P \in SUBSET Validator : Cardinality(P) = 2}

SeenBy(E, own, all) ==
    [v \in Validator |-> {w \in Validator : \/ {v, w} \in E
                                            \/ v = w /\ v \in own
                                            \/ v \in all /\ w # v}]

MCViews == {SeenBy(E, own, all) : E \in SUBSET Pairs, own \in {{}, {"a"}, Validator},
                                  all \in {{}, {"a"}}}

\* alice's weight is that of two others.
MCWeight == [v \in Validator |-> IF v = "a" THEN 2 ELSE 1]
=============================================================================
