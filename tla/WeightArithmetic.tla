-------------------------- MODULE WeightArithmetic --------------------------
(***************************************************************************)
(* Weights as src/util/weight.rs defines them: a unit, infinity, or not a  *)
(* number.  The units are numbers that are large enough: an overflow in    *)
(* them is the unit's own affair, as is the rounding of a float.           *)
(***************************************************************************)
EXTENDS Integers

CONSTANTS Infinity, NaN

ASSUME SpecialAssumption == Infinity \notin Int /\ NaN \notin Int /\ Infinity # NaN

Unit == Int

Weights == Unit \cup {Infinity, NaN}

Zero == 0

\* PartialEq::eq
Equal(a, b) == a # NaN /\ a = b

\* partial_cmp gives an answer.
Comparable(a, b) == a # NaN /\ b # NaN

\* partial_cmp answers Less: <, and > the other way round.
Less(a, b) ==
    /\ Comparable(a, b)
    /\ a # Infinity
    /\ b = Infinity \/ a < b

\* <=
AtMost(a, b) == Less(a, b) \/ (Comparable(a, b) /\ Equal(a, b))

\* Add::add
Plus(a, b) ==
    IF NaN \in {a, b} THEN NaN
    ELSE IF Infinity \in {a, b} THEN Infinity
    ELSE a + b

\* Sub::sub.  Infinity is also what is left of a unit that infinity is taken from
\* (for a float it would be negative infinity).
Minus(a, b) ==
    IF NaN \in {a, b} \/ (a = Infinity /\ b = Infinity) THEN NaN
    ELSE IF Infinity \in {a, b} THEN Infinity
    ELSE a - b
=============================================================================
