---------------------------- MODULE MessageTests ----------------------------
(***************************************************************************)
(* The unit tests of src/message.rs and of LatestMessages in               *)
(* src/justification.rs, put to the definitions of Messages,               *)
(* IndirectEquivocation and VoteCount.  Each test builds a few messages;   *)
(* here they are a record of senders and one of justifications, and what   *)
(* from_validator_state makes of a state is computed.                      *)
(***************************************************************************)
EXTENDS Integers, SequencesExt

Names == 0 .. 3

\* The votes of VoteCount: validator 0 votes no, and yes as v0_prime.
Votes == [v0 |-> "no", v0_prime |-> "yes", v1 |-> "yes", v2 |-> "yes"]

Ids == [v0 |-> 0, v0_prime |-> 0, v1 |-> 1, v2 |-> 2]

NoJustification == [m \in DOMAIN Ids |-> {}]

MG(s, j) == INSTANCE Messages WITH Message <- DOMAIN s, Validator <- Names, sender <- s,
                                   justification <- j

Indirect(s, j) == INSTANCE IndirectEquivocation
    WITH Message <- DOMAIN s, Validator <- Names, sender <- s, justification <- j,
         root <- "none", target <- "none", visited <- {}, filtering <- << >>,
         entering <- << >>, found <- FALSE, result <- "none"

Count(vote) == INSTANCE VoteCount
    WITH Message <- DOMAIN Ids, Validator <- Names, sender <- Ids,
         justification <- NoJustification, vote <- vote, thr <- 0, Absent <- -1, MaxBatch <- 0,
         Weight <- [v \in Names |-> 1],
         latest_messages <- << >>, equivocators <- {}, state_fault_weight <- 0,
         validators_weights <- << >>, justified <- {}, todo <- << >>, refused <- {},
         received <- {}

\* The latest messages of a state that was updated with q.
Latest(s, j, q) ==
    FoldLeft(LAMBDA latest, m : MG(s, j)!Updated(latest, m), MG(s, j)!Empty, q)

\* from_validator_state on that state: the justification of what it returns, {}
\* for NoNewMessage.
FromState(s, j, q) == MG(s, j)!Honest(Latest(s, j, q), {})

\* The estimates of votes that from_validator_state can make.
Estimates(vote, q) ==
    {Count(vote)!Estimate(Count(vote)!VoteMessages(latest, visits)) :
        latest \in SetToSeqs(FromState(Ids, NoJustification, q)),
        visits \in Count(vote)!AllVisits}

-----------------------------------------------------------------------------
(* src/message.rs *)

message_depends ==
    LET s == [v0 |-> 0, v0_prime |-> 0, m0 |-> 0, m1 |-> 0]
        j == [v0 |-> {}, v0_prime |-> {}, m0 |-> {"v0"}, m1 |-> {"m0"}]
        depends(m, n) == MG(s, j)!Depends(m, n)
    IN  /\ FromState(s, j, <<"v0">>) = j.m0 /\ FromState(s, j, <<"v0", "m0">>) = j.m1
        /\ ~depends("v0", "v0_prime") /\ ~depends("m0", "m0") /\ ~depends("m0", "v0_prime")
        /\ depends("m0", "v0") /\ depends("m1", "m0")
        /\ ~depends("m0", "m1") /\ depends("m1", "v0")

message_equivocates ==
    LET s == [v0 |-> 0, v0_prime |-> 0, v1 |-> 1, m0 |-> 0]
        j == [v0 |-> {}, v0_prime |-> {}, v1 |-> {}, m0 |-> {"v0"}]
        equivocates(m, n) == MG(s, j)!Equivocates(m, n)
    IN  /\ FromState(s, j, <<"v0">>) = j.m0
        /\ ~equivocates("v0", "v0") /\ ~equivocates("v1", "m0") /\ ~equivocates("m0", "v1")
        /\ equivocates("v0", "v0_prime") /\ equivocates("m0", "v0_prime")

message_equivocates_indirect_direct_equivocation ==
    Indirect(Ids, NoJustification)!EquivocatesIndirect("v0", "v0_prime", {}).answer

\* Validator 1 equivocates with m1 and v1.
Semi == [s |-> [v0 |-> 0, v1 |-> 1, m1 |-> 1, m2 |-> 2],
         j |-> [v0 |-> {}, v1 |-> {}, m1 |-> {"v0"}, m2 |-> {"v0", "v1"}]]

message_equivocates_indirect_semi_direct ==
    LET indirect(m, n) == Indirect(Semi.s, Semi.j)!EquivocatesIndirect(m, n, {}).answer IN
    /\ FromState(Semi.s, Semi.j, <<"v0">>) = Semi.j.m1
    /\ FromState(Semi.s, Semi.j, <<"v0", "v1">>) = Semi.j.m2
    /\ indirect("m2", "m1") /\ ~indirect("m2", "v0") /\ ~indirect("v0", "v1")

message_equivocates_indirect_commutativity ==
    LET indirect(m, n) == Indirect(Semi.s, Semi.j)!EquivocatesIndirect(m, n, {}).answer IN
    ~indirect("m1", "m2") /\ indirect("m2", "m1")

message_equivocates_indirect_total_indirection ==
    LET s == [v0 |-> 0, v1 |-> 1, m1 |-> 1, m2 |-> 2, m3 |-> 3]
        j == [v0 |-> {}, v1 |-> {}, m1 |-> {"v0"}, m2 |-> {"v0", "v1"}, m3 |-> {"m1"}]
    IN  /\ FromState(s, j, <<"v0">>) = j.m1 /\ FromState(s, j, <<"v0", "v1">>) = j.m2
        /\ FromState(s, j, <<"m1">>) = j.m3
        /\ Indirect(s, j)!EquivocatesIndirect("m2", "m3", {}).answer

from_validator_state ==
    LET vote == [Votes EXCEPT !["v1"] = "no"]
        q == <<"v0", "v1", "v2">>
    IN  /\ FromState(Ids, NoJustification, q) = {"v0", "v1", "v2"}
        /\ Estimates(vote, q) = {[yes |-> 1, no |-> 2]}

\* The duplicate is the same message.
from_validator_state_duplicates ==
    /\ FromState(Ids, NoJustification, <<"v0_prime", "v0_prime">>) = {"v0_prime"}
    /\ Estimates(Votes, <<"v0_prime", "v0_prime">>) = {[yes |-> 1, no |-> 0]}

\* With a threshold and without: no one is listed in either.
from_validator_state_equivocator ==
    /\ FromState(Ids, NoJustification, <<"v0", "v0_prime", "v1">>) = {"v1"}
    /\ Estimates(Votes, <<"v0", "v0_prime", "v1">>) = {[yes |-> 1, no |-> 0]}

from_validator_state_only_equivocations ==
    FromState(Ids, NoJustification, <<"v0", "v0_prime">>) = {}

-----------------------------------------------------------------------------
(* src/justification.rs *)

equivocate ==
    LET s == [v0 |-> 0, v0_prime |-> 0, v0_second |-> 0]
        j == [v0 |-> {}, v0_prime |-> {}, v0_second |-> {"v0"}]
    IN  /\ FromState(s, j, <<"v0">>) = j.v0_second
        /\ MG(s, j)!Equivocate(Latest(s, j, <<"v0">>), "v0_prime")
        /\ ~MG(s, j)!Equivocate(Latest(s, j, <<"v0">>), "v0_second")

\* latest_messages_update_...: a message of a new sender, the same again, one that
\* depends on it and the other way round, and one that equivocates with it.
latest_messages_update ==
    LET s == [v0 |-> 0, after |-> 0, v0_prime |-> 0]
        j == [v0 |-> {}, after |-> {"v0"}, v0_prime |-> {}]
        succeeds(q, m) == MG(s, j)!UpdateSucceeds(Latest(s, j, q), m)
        latest(q) == Latest(s, j, q)[0]
    IN  /\ succeeds(<< >>, "v0") /\ latest(<<"v0">>) = {"v0"}
        /\ ~succeeds(<<"v0">>, "v0") /\ latest(<<"v0", "v0">>) = {"v0"}
        /\ succeeds(<<"v0">>, "after") /\ latest(<<"v0", "after">>) = {"after"}
        /\ ~succeeds(<<"after">>, "v0") /\ latest(<<"after", "v0">>) = {"after"}
        /\ succeeds(<<"v0">>, "v0_prime") /\ latest(<<"v0", "v0_prime">>) = {"v0", "v0_prime"}

\* The answers are those that the tests assert.
ASSUME MessageTestsPass ==
    /\ message_depends
    /\ message_equivocates
    /\ message_equivocates_indirect_direct_equivocation
    /\ message_equivocates_indirect_semi_direct
    /\ message_equivocates_indirect_commutativity
    /\ message_equivocates_indirect_total_indirection
    /\ from_validator_state
    /\ from_validator_state_duplicates
    /\ from_validator_state_equivocator
    /\ from_validator_state_only_equivocations
    /\ equivocate
    /\ latest_messages_update
=============================================================================
