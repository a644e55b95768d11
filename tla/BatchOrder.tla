----------------------------- MODULE BatchOrder -----------------------------
(***************************************************************************)
(* What the sort of a batch is for.  faulty_inserts (src/justification.rs) *)
(* sorts its messages once, before the first insertion; the insertions     *)
(* change what the others would be charged for.  A history variable is     *)
(* added to ValidatorState, which is left as it is.                        *)
(***************************************************************************)
EXTENDS VoteCount

VARIABLE foreseen   \* history: the validators the last batch was charged for at
                    \* a message that the sort had put at their weight

\* An insertion of the batch, and whom it charges as foreseen.
InsertForeseen(m) ==
    /\ InsertNext(m)
    /\ foreseen' = foreseen \cup {v \in equivocators' \ equivocators : todo[m] # 0}

BatchNext ==
    \/ \E m \in Message : Update(m) /\ foreseen' = {}
    \/ \E m \in Message : FaultyInsert(m) /\ foreseen' = {}
    \/ \E S \in Batches, fresh \in BOOLEAN : StartBatch(S, fresh) /\ foreseen' = {}
    \/ \E m \in Message : InsertForeseen(m)

BatchSpec == Init /\ foreseen = {} /\ [][BatchNext]_<<vars, foreseen>>

-----------------------------------------------------------------------------
(* Properties *)

\* "In ordering to insert as much messages as possible, the input messages are
\* sorted ascendingly" (faulty_inserts): a batch refuses nobody's message while it
\* makes room for a heavier equivocator, except for those equivocators that its own
\* messages reveal, which the sort has taken to be free.
LightestFirst ==
    \A m \in refused, v \in foreseen :
        \/ validators_weights[sender[m]] = Absent
        \/ validators_weights[v] <= validators_weights[sender[m]]
=============================================================================
