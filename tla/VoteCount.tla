------------------------------ MODULE VoteCount ------------------------------
(***************************************************************************)
(* The estimator of src/tests_common/vote_count.rs: a message without a    *)
(* justification is a vote, yes or no, and the estimate counts the votes   *)
(* under the latest honest messages.  A validator that votes twice has     *)
(* equivocated, and its votes should cancel out.  The search descends into *)
(* a message once for each way that leads to it, in the order in which     *)
(* justifications list their messages.                                     *)
(***************************************************************************)
EXTENDS ValidatorState, SequencesExt

CONSTANT vote   \* the estimate of a message without justification: "yes", "no"
                \* or, where it is not one vote, "invalid"

ASSUME MessageAssumption == IsFiniteSet(Message)

ASSUME VoteAssumption == vote \in [Message -> {"yes", "no", "invalid"}]

\* VoteCount::is_valid
IsValid(m) == vote[m] # "invalid"

\* The messages that are the vote m toggled.
Toggled(m) ==
    {n \in Message : /\ justification[n] = {} /\ sender[n] = sender[m]
                     /\ {vote[m], vote[n]} = {"yes", "no"}}

\* Mutant: votes are collected whether their sender has another one or not.
WithVoteAlways(acc, m) == IF IsValid(m) THEN acc \cup {m} ELSE acc

\* A vote is found: it is added, or takes away the other vote of its sender.
WithVote(acc, m) ==
    IF ~IsValid(m) THEN acc
    ELSE IF Toggled(m) \cap acc = {} THEN acc \cup {m} ELSE acc \ Toggled(m)

\* The orders in which the justifications list their messages.
Listings == {l \in [Message -> UNION {SetToSeqs(justification[m]) : m \in Message}] :
                \A m \in Message : l[m] \in SetToSeqs(justification[m])}

\* recursor, the votes it comes by from each message, in order.
Visits(listed) ==
    LET visits[m \in Message] ==
            IF justification[m] = {} THEN <<m>>
            ELSE FlattenSeq([i \in DOMAIN listed[m] |-> visits[listed[m][i]]])
    IN  visits

AllVisits == {Visits(listed) : listed \in Listings}

\* get_vote_messages on the messages of a sequence.
VoteMessages(latest, visits) ==
    FoldLeft(WithVote, {}, FlattenSeq([i \in DOMAIN latest |-> visits[latest[i]]]))

\* VoteCount::estimate
Estimate(votes) == [yes |-> Cardinality({m \in votes : vote[m] = "yes"}),
                    no  |-> Cardinality({m \in votes : vote[m] = "no"})]

-----------------------------------------------------------------------------
(* Properties *)

\* The votes under the messages of S.
VotesBeneath(S) ==
    {m \in S \cup UNION {Past[n] : n \in S} : justification[m] = {} /\ IsValid(m)}

\* However many ways lead to a vote and in whatever order they are followed, the
\* only vote of a validator is counted, once, and a validator that has voted both
\* ways adds at most one vote to the estimate.  (It may add one: a third visit puts
\* back what the second took away.)
OneVoteEach ==
    Idle =>
        LET honest == Honest(latest_messages, equivocators)
            beneath == VotesBeneath(honest)
            once == {m \in beneath : Toggled(m) \cap beneath = {}}
        IN  \A latest \in SetToSeqs(honest), visits \in AllVisits :
                LET votes == VoteMessages(latest, visits) IN
                /\ once \subseteq votes /\ votes \subseteq beneath
                /\ \A m \in votes : Toggled(m) \cap votes = {}
=============================================================================
