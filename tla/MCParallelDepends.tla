------------------------- MODULE MCParallelDepends -------------------------
(***************************************************************************)
(* Justifications that share messages: every call on every pair of         *)
(* messages.  bob equivocates with b and c, alice with a and g, carol with *)
(* e and h, at different levels.                                           *)
(***************************************************************************)
EXTENDS IndirectEquivocation

MCSender ==
    [m \in Message |-> CASE m \in {"a", "g"} -> "alice"
                         [] m \in {"b", "c"} -> "bob"
                         [] OTHER -> "carol"]

MCJustification ==
    [m \in Message |-> CASE m = "b" -> {"a"}
                         [] m = "c" -> {"a"}
                         [] m = "d" -> {"a", "b", "c"}
                         [] m = "e" -> {"b", "c", "d"}
                         [] m = "f" -> {"d", "e", "c"}
                         [] m = "h" -> {"b", "g"}
                         [] OTHER -> {}]
=============================================================================
