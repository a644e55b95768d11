-------------------------- MODULE MCValidatorState --------------------------
(***************************************************************************)
(* Three senders.  alice, the lightest, sends a chain a1, a2, equivocates  *)
(* with x1 and then sends a3, which knows both branches.  bob, heavier,    *)
(* equivocates with b1 and b2.  carol, who also equivocates, is not in the *)
(* weights.  The threshold has room for alice or for bob, not for both.    *)
(* a2 is left out of the larger run.                                       *)
(***************************************************************************)
EXTENDS BatchOrder

MCSender ==
    [m \in Message |-> CASE m \in {"a1", "a2", "a3", "x1"} -> "alice"
                         [] m \in {"b1", "b2"} -> "bob"
                         [] OTHER -> "carol"]

MCJustification ==
    [m \in Message |-> CASE m = "a2" -> {"a1"}
                         [] m = "a3" -> {"a1", "a2", "x1"} \cap Message
                         [] m = "b2" -> {"a1"}
                         [] OTHER -> {}]

MCWeight == [v \in Validator |-> CASE v = "alice" -> 1 [] v = "bob" -> 2 [] OTHER -> Absent]

\* The branches of alice and of carol are votes for opposite answers; bob's first
\* message is not one vote.
MCVote ==
    [m \in Message |-> CASE m \in {"a1", "c1"} -> "yes"
                         [] m \in {"x1", "c2"} -> "no"
                         [] OTHER -> "invalid"]
=============================================================================
