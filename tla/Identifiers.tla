----------------------------- MODULE Identifiers -----------------------------
(***************************************************************************)
(* The identity of messages (src/message.rs, src/util/id.rs).  A message   *)
(* is equal to another if their ids are, and the id is the hash of its     *)
(* sender, its estimate and the ids of its justification in their order.   *)
(* from_validator_state lists a justification in the order in which a      *)
(* fresh HashSet yields the latest honest messages.                        *)
(*                                                                         *)
(* from_validator_state leaves the state as it is, and can be called again *)
(* on it: by a caller that lost the answer, or did not record it.  Here it *)
(* is a step of its own, and recording a message is its delivery to its    *)
(* own sender.                                                             *)
(***************************************************************************)
EXTENDS Protocol

VARIABLE listed     \* the order of the justification, for each message

idVars == <<vars, listed>>

\* m has the id of a message by v with this list.  The estimate is a function of
\* the list's members, and hashes do not collide.
HasId(m, v, list) == sender[m] = v /\ listed[m] = list

\* Message::from_validator_state.  A message with a new id is a new message.
Call(v) ==
    LET m == NextMessage(v)
        just == JustificationFrom(v, latest[v])
    IN  /\ m \in Message
        /\ Cardinality(created) < MaxCreated
        /\ just # {}
        /\ \E list \in SetToSeqs(just) :
              /\ \A n \in created : ~HasId(n, v, list)
              /\ listed' = [listed EXCEPT ![m] = list]
        /\ created' = created \cup {m}
        /\ justification' = [justification EXCEPT ![m] = just]
        /\ past' = [past EXCEPT ![m] = just \cup UNION {past[n] : n \in just}]
        /\ UNCHANGED latest

IdInit == Init /\ listed = [m \in Message |-> << >>]

IdNext ==
    \/ \E v \in Validator : Start(v) /\ UNCHANGED listed
    \/ \E v \in Validator : Call(v)
    \/ \E m \in created, r \in Validator : Deliver(m, r) /\ UNCHANGED listed

IdSpec == IdInit /\ [][IdNext]_idVars

-----------------------------------------------------------------------------
(* Properties *)

\* "The implementation MUST ensure only one unique valid representation" (the
\* documentation of Id): two messages of a sender with the same justification,
\* and so the same estimate, are one message.  Otherwise a call that is repeated
\* makes its caller an equivocator.
UniqueIds ==
    \A m, n \in created :
        sender[m] = sender[n] /\ justification[m] = justification[n] => m = n
=============================================================================
