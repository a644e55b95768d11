------------------------------ MODULE Messages ------------------------------
(***************************************************************************)
(* The messages of a run, as a graph given once and for all.  A message is *)
(* immutable, identified by the hash of its content, and Message::new      *)
(* needs the messages of its justification to exist already, so the graph  *)
(* is acyclic.  The estimate a message carries is not modelled here.       *)
(***************************************************************************)

CONSTANTS
    Message,        \* the messages that exist in the run
    Validator,      \* the names of their senders
    sender,         \* Message::sender
    justification   \* Message::justification, as a set

ASSUME SenderAssumption == sender \in [Message -> Validator]

ASSUME JustificationAssumption == justification \in [Message -> SUBSET Message]

\* A set of messages that holds the justifications of its members.
Closed(S) == \A m \in S : justification[m] \subseteq S

\* The messages the recursion of Message::depends reaches from m: the smallest
\* closed set that holds m's justification.
Past == [m \in Message |->
            {n \in Message : \A S \in SUBSET Message :
                justification[m] \subseteq S /\ Closed(S) => n \in S}]

INSTANCE LatestMessages

\* A message is built after the messages of its justification, and its hash
\* covers them.
ASSUME AcyclicAssumption == \A m \in Message : ~Depends(m, m)
=============================================================================
