--------------------------- MODULE MCSharedWeights ---------------------------
(***************************************************************************)
(* alice equivocates with a1 and x1; bob, who is heavier, with b1 and b2;  *)
(* carol, who does too, is not in the weights until someone slashes her.   *)
(***************************************************************************)
EXTENDS SharedWeights

MCSender ==
    [m \in Message |-> CASE m \in {"a1", "x1"} -> "alice"
                         [] m \in {"b1", "b2"} -> "bob"
                         [] OTHER -> "carol"]

MCJustification ==
    [m \in Message |-> IF m = "b2" THEN {"a1"} ELSE {}]

MCWeight == [v \in Validator |-> CASE v = "alice" -> 1 [] v = "bob" -> 2 [] OTHER -> Absent]
=============================================================================
