------------------------------ MODULE Protocol ------------------------------
(***************************************************************************)
(* Validators that exchange messages, as the generative tests drive the    *)
(* library (create_messages and add_messages in tests/generative_tests.rs).*)
(* A validator creates a message from its state                            *)
(* (Message::from_validator_state), justified by its honest latest         *)
(* messages; a recipient takes the message and then the messages of its    *)
(* justification, one level deep, into its own latest messages.            *)
(*                                                                         *)
(* Nothing is said about the network: a message may be delivered late, out *)
(* of order, more than once, or never.                                     *)
(***************************************************************************)
EXTENDS Integers, FiniteSets, Sequences, SequencesExt

CONSTANTS
    Validator,
    MaxCreated,     \* BOUND: messages created in a run
    MaxOwn          \* BOUND: messages created by one validator

ASSUME ValidatorAssumption == IsFiniteSet(Validator)

ASSUME MaxAssumption == MaxCreated \in Nat \ {0} /\ MaxOwn \in Nat \ {0}

\* The k-th message of v.  Its content is in justification, and its hash is
\* taken to be unique.
Message == Validator \X (1 .. MaxOwn)

sender == [m \in Message |-> m[1]]

VARIABLES
    created,        \* the messages that exist
    justification,  \* their justifications
    past,           \* the messages under their justifications
    latest          \* latest[v]: the latest_messages of v's State

vars == <<created, justification, past, latest>>

LM(p) == INSTANCE LatestMessages WITH Past <- p

-----------------------------------------------------------------------------
(* Message::from_validator_state *)

\* The next message of v: one more than it has created.
NextMessage(v) == <<v, Cardinality({m \in created : sender[m] = v}) + 1>>

\* Mutant: the justification leaves out the validator's own latest message.
JustificationWithoutOwn(v, view) == {m \in LM(past)!Honest(view, {}) : sender[m] # v}

\* Justification::from(LatestMessagesHonest::from_latest_messages(...)); the
\* state lists no equivocators.
JustificationFrom(v, view) == LM(past)!Honest(view, {})

\* Mutant: the message goes into its sender's state and is not handed out.
StartUnsent(v) ==
    LET m == NextMessage(v) IN
    /\ Cardinality(created) < MaxCreated
    /\ \A n \in created : sender[n] # v
    /\ latest' = [latest EXCEPT ![v] = LM(past)!Updated(@, m)]
    /\ UNCHANGED <<created, justification, past>>

\* A first message, whose justification is empty: the initial states of the
\* tests hold one of each validator that takes part.
Start(v) ==
    LET m == NextMessage(v) IN
    /\ Cardinality(created) < MaxCreated
    /\ \A n \in created : sender[n] # v
    /\ created' = created \cup {m}
    /\ latest' = [latest EXCEPT ![v] = LM(past)!Updated(@, m)]
    /\ UNCHANGED <<justification, past>>

\* create_messages, by a validator with these latest messages: the message is
\* justified by the honest ones, and becomes the newest of its sender.  The code
\* gives up (`unimplemented`) on a validator that sees two latest messages of its
\* own.
CreateFrom(v, view) ==
    LET m == NextMessage(v)
        just == JustificationFrom(v, view)
    IN  /\ m \in Message
        /\ Cardinality(created) < MaxCreated
        /\ Cardinality(view[v]) <= 1
        /\ just # {}
        /\ created' = created \cup {m}
        /\ justification' = [justification EXCEPT ![m] = just]
        /\ past' = [past EXCEPT ![m] = just \cup UNION {past[n] : n \in just}]
        /\ latest' = [latest EXCEPT ![v] = LM(past')!Updated(view, m)]

Create(v) == CreateFrom(v, latest[v])

\* Mutant: the recipient does not look into the justification.
TakenAlone(l, m) == LM(past)!Updated(l, m)

\* add_messages: the message first, then the messages of its justification, which
\* have different senders, so that they go into different entries of the map.
Taken(l, m) ==
    LET taken == LM(past)!Updated(l, m)
        Of(v) == {n \in justification[m] : sender[n] = v}
    IN  [v \in Validator |->
            IF Of(v) = {} THEN taken[v]
            ELSE UNION {LM(past)!Updated(taken, n)[v] : n \in Of(v)}]

Deliver(m, r) ==
    /\ latest' = [latest EXCEPT ![r] = Taken(@, m)]
    /\ UNCHANGED <<created, justification, past>>

-----------------------------------------------------------------------------

Init ==
    /\ created = {}
    /\ justification = [m \in Message |-> {}]
    /\ past = [m \in Message |-> {}]
    /\ latest = [v \in Validator |-> LM(past)!Empty]

Next ==
    \/ \E v \in Validator : Start(v)
    \/ \E v \in Validator : Create(v)
    \/ \E m \in created, r \in Validator : Deliver(m, r)

Spec == Init /\ [][Next]_vars

\* Every message is delivered to every validator in the end, as the tests do
\* when they pick all_receivers.
FairSpec ==
    /\ Spec
    /\ \A m \in Message, r \in Validator : WF_vars(m \in created /\ Deliver(m, r))

-----------------------------------------------------------------------------
(* LatestMessages::from(&Justification) *)

\* The orders in which a justification can list its messages: it holds one per
\* validator, in the iteration order of a HashSet.
Orders == {f \in [Validator -> 1 .. Cardinality(Validator)] :
              \A v, w \in Validator : f[v] = f[w] => v = w}

Listed(S, order) ==
    CHOOSE q \in SetToSeqs(S) :
        \A i, j \in DOMAIN q : i < j => order[sender[q[i]]] < order[sender[q[j]]]

\* The breadth-first search: the justification of a message is looked into only
\* if `update` took the message.
ExtractedFrom(order) ==
    LET extract[search \in Seq(Message) \X [Validator -> SUBSET Message]] ==
            LET queue == search[1]
                l == search[2]
                m == Head(queue)
                found == IF LM(past)!UpdateSucceeds(l, m)
                         THEN Listed(justification[m], order) ELSE << >>
            IN  IF queue = << >> THEN l
                ELSE extract[<<Tail(queue) \o found, LM(past)!Updated(l, m)>>]
    IN  extract

Extracted(S, order) == ExtractedFrom(order)[<<Listed(S, order), LM(past)!Empty>>]

\* Justification::make_estimate: the messages it makes the estimate from.
EstimatedFrom(S, order) == LM(past)!Honest(Extracted(S, order), {})

\* add_messages goes on with each message of the justification again.
Readded(l, S, order) ==
    FoldLeft(LAMBDA acc, m : LM(past)!Updated(acc, m), l, Listed(S, order))

-----------------------------------------------------------------------------
(* Properties *)

TypeOK ==
    /\ created \subseteq Message
    /\ justification \in [Message -> SUBSET created]
    /\ past \in [Message -> SUBSET created]
    /\ latest \in [Validator -> [Validator -> SUBSET created]]

\* A validator that follows the protocol never equivocates, whatever reaches it
\* in between and however stale that is: it always builds on its newest message.
NoSelfEquivocation ==
    \A m, n \in created : ~LM(past)!Equivocates(m, n)

\* A validator's view never falls behind what the messages in it know: whatever
\* is under a latest message is itself latest, or under a latest message of its
\* sender.  One level of each justification is enough for that.
ViewClosed ==
    \A r \in Validator : \A m \in UNION {latest[r][v] : v \in Validator} :
        \A n \in past[m] :
            \E k \in latest[r][sender[n]] : k = n \/ LM(past)!Depends(k, n)

\* "Recipient must be able to reproduce the estimate from its justification and
\* the justification only" (add_messages): the honest latest messages extracted
\* from a justification are those the sender made its estimate from, in whatever
\* order the justification lists them, and adding them again changes nothing.
\* (Every message is its sender's latest one for a while.)
Reproducible ==
    \A v \in Validator, order \in Orders : \A m \in latest[v][v] :
        LET just == justification[m]
            view == Extracted(just, order)
        IN  /\ EstimatedFrom(just, order) = just
            /\ Readded(view, just, order) = view

\* Once everything is delivered all validators estimate from the same messages.
SameView == \A v, w \in Validator : latest[v] = latest[w]

Convergence == <>[]SameView
=============================================================================
