----------------------------- MODULE HonestView -----------------------------
(***************************************************************************)
(* What a validator state promises about the messages it hands to the      *)
(* estimator.  They are those of the validators that it does not list as   *)
(* equivocators, and of these they are a function of the set of messages   *)
(* received: the message of a sender that depends on every other message   *)
(* received from it, in whatever order and however often they arrived.     *)
(* The order shows in who is listed, and nowhere else.  A validator is     *)
(* listed for good, when a message of its own arrives, and only if some    *)
(* message received equivocates with that one.                             *)
(***************************************************************************)
CONSTANTS
    Message,        \* the messages that exist in the run
    sender,         \* the sender of each
    Depends(_, _)   \* the first message knows the second

VARIABLES received, listed, honest

vars == <<received, listed, honest>>

\* The members of S that know all that S holds of their sender.
Heads(S) == {m \in S : \A n \in S : sender[n] = sender[m] /\ n # m => Depends(m, n)}

\* The two messages prove that their sender equivocated.
Conflict(m, n) ==
    sender[m] = sender[n] /\ m # n /\ ~Depends(m, n) /\ ~Depends(n, m)

Init == received = {} /\ listed = {} /\ honest = {}

\* The sender of m may be listed, if m conflicts with a message received.
Receive(m) ==
    /\ received' = received \cup {m}
    /\ \/ listed' = listed
       \/ /\ \E n \in received : Conflict(m, n)
          /\ listed' = listed \cup {sender[m]}
    /\ honest' = {h \in Heads(received') : sender[h] \notin listed'}

Next == \E m \in Message : Receive(m)

Spec == Init /\ [][Next]_vars
=============================================================================
