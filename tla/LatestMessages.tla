--------------------------- MODULE LatestMessages ---------------------------
(***************************************************************************)
(* The relations between messages (src/message.rs), and LatestMessages and *)
(* LatestMessagesHonest (src/justification.rs): for each validator the set *)
(* of its messages that a state considers latest.                          *)
(*                                                                         *)
(* The code keeps a HashMap from validators to non-empty sets.  Here it is *)
(* a function on Validator and the empty set stands for an absent key.     *)
(* Messages are compared by their hash, so they are plain values; the      *)
(* module only needs the sender of each and the messages under its         *)
(* justification.                                                          *)
(***************************************************************************)

CONSTANTS
    Message,    \* the messages
    Validator,  \* the names of their senders
    sender,     \* Message::sender
    Past        \* Past[m]: the messages the recursion of `depends` reaches from m

\* Message::depends: n is somewhere under the justification of m.
Depends(m, n) == n \in Past[m]

\* Message::equivocates: two messages of one sender, neither of which knows
\* the other.
Equivocates(m, n) ==
    /\ m # n
    /\ sender[m] = sender[n]
    /\ ~Depends(n, m)
    /\ ~Depends(m, n)

-----------------------------------------------------------------------------

\* LatestMessages::empty
Empty == [v \in Validator |-> {}]

\* An old latest message after which `update` inserts the new message: they
\* equivocate, or the new one depends on it.
Admits(old, m) == Equivocates(m, old) \/ Depends(m, old)

\* Mutant: the new message takes the place of all others.
UpdatedReplaces(latest, m) == [latest EXCEPT ![sender[m]] = {m}]

\* Mutant: the message that came first stays.
UpdatedKeepsFirst(latest, m) ==
    [latest EXCEPT ![sender[m]] = IF @ = {} THEN {m} ELSE @]

\* Mutant: a late, older message is put back beside the newer one.
UpdatedAlwaysInserts(latest, m) ==
    [latest EXCEPT ![sender[m]] = {old \in @ : ~Depends(m, old)} \cup {m}]

\* LatestMessages::update, the map it leaves behind.  The fold goes through a
\* copy of the sender's set: it removes each message the new one depends on,
\* and inserts the new one once it met a message that admits it.
Updated(latest, m) ==
    LET old == latest[sender[m]] IN
    [latest EXCEPT ![sender[m]] =
        IF old = {} THEN {m}
        ELSE {o \in old : ~Depends(m, o)}
             \cup {n \in {m} : \E o \in old : Admits(o, n)}]

\* LatestMessages::update, the value it returns.
UpdateSucceeds(latest, m) ==
    LET old == latest[sender[m]] IN
    old = {} \/ (m \notin old /\ \E o \in old : Admits(o, m))

\* LatestMessages::equivocate
Equivocate(latest, m) == \E o \in latest[sender[m]] : Equivocates(o, m)

\* LatestMessagesHonest::from_latest_messages: the latest message of each
\* validator that has exactly one and is not a known equivocator.
Honest(latest, equivocators) ==
    {m \in Message : /\ sender[m] \notin equivocators
                     /\ latest[sender[m]] = {m}}
=============================================================================
