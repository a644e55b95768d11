------------------------------ MODULE Finality ------------------------------
(***************************************************************************)
(* Validators that agree on a chain of blocks: Protocol, with the fork     *)
(* choice of src/blockchain.rs as the estimator, and its safety oracles.   *)
(* What is asked is what safety oracles are for: whether a block that has  *)
(* one stays in what the validators estimate.                              *)
(*                                                                         *)
(* A block is the sequence of the data on its chain; the genesis block is  *)
(* the empty sequence.  Estimator::estimate puts the default data on top   *)
(* of the tip it finds, so validators on one tip make the same block, and  *)
(* the chains fork where the first blocks of the validators differ.        *)
(*                                                                         *)
(* A validator's view matters when it creates a message, so it takes what  *)
(* has reached it since the last one just before: one message of each      *)
(* other validator, or none, makes every view that Protocol's deliveries   *)
(* can make.                                                               *)
(***************************************************************************)
EXTENDS Protocol

CONSTANTS
    Data,       \* the data of the validators' first blocks
    NoData      \* D::default()

ASSUME DataAssumption == NoData \notin Data

VARIABLE block  \* Message::estimate, for the messages that exist

chainVars == <<vars, block>>

-----------------------------------------------------------------------------
(* The estimator *)

\* Block::score: each validator weighs one.
Score(just, b) == Cardinality({m \in just : IsPrefix(b, block[m])})

\* Mutant: no branch is preferred.
TipsAny(just) ==
    LET state == UNION {Prefixes(block[m]) : m \in just} IN
    {b \in state : \A c \in state : IsPrefix(b, c) => c = b}

\* The leaves between which optimized_ghost decides by their hashes: heaviest at
\* each fork, as Ghost has it.
Tips(just) ==
    LET state == UNION {Prefixes(block[m]) : m \in just} IN
    {b \in state : \A c \in state :
        /\ IsPrefix(b, c) => c = b
        /\ \A i \in 1 .. Len(b) :
              Len(c) = i /\ Front(c) = SubSeq(b, 1, i - 1)
                  => Score(just, c) <= Score(just, SubSeq(b, 1, i))}

-----------------------------------------------------------------------------
(* The validators *)

\* The first message of v holds a block on the genesis block.
First(v) ==
    /\ Start(v)
    /\ \E d \in Data :
          block' = [m \in created' |-> IF m = NextMessage(v) THEN <<d>> ELSE block[m]]

\* The sets of messages that may have reached v: one of a validator at most.
Arrivals(v) ==
    {S \in SUBSET {m \in created : sender[m] # v} :
        \A m, n \in S : sender[m] = sender[n] => m = n}

\* The tip has the smaller hash than the other: some message was built on it when
\* it had the choice.
Smaller(tip, other) ==
    \E m \in created : /\ {tip, other} \subseteq Tips(justification[m])
                       /\ Front(block[m]) = tip

\* The views v can have once it has taken the messages of S, in some order.
ViewsAfter(v, S) ==
    LET after[T \in SUBSET S] ==
            IF T = {} THEN {latest[v]}
            ELSE UNION {{Taken(l, m) : l \in after[T \ {m}]} : m \in T}
    IN  after[S]

\* v takes what has reached it and creates a message with the block it estimates.
\* The hashes break a tie.  They can be in any order, but do not change.
Round(v, S) ==
    \E view \in ViewsAfter(v, S) :
        LET tips == Tips(JustificationFrom(v, view)) IN
        /\ CreateFrom(v, view)
        /\ \E tip \in tips :
              /\ \A other \in tips \ {tip} : ~Smaller(other, tip)
              /\ block' = [m \in created' |->
                              IF m = NextMessage(v) THEN Append(tip, NoData) ELSE block[m]]

ChainInit == Init /\ block = << >>

ChainNext ==
    \/ \E v \in Validator : First(v)
    \/ \E v \in Validator : \E S \in Arrivals(v) : Round(v, S)

ChainSpec == ChainInit /\ [][ChainNext]_chainVars

-----------------------------------------------------------------------------
(* safety_oracles *)

\* The messages of S from v that contain the block b.
Agreeing(S, v, b) == {m \in S : sender[m] = v /\ IsPrefix(b, block[m])}

\* Mutant: one of the two sees the other agree.
AgreeOnce(view, v, w, b) ==
    \E m \in Agreeing(view, v, b), n \in Agreeing(view, w, b) :
        Agreeing(justification[m], w, b) # {} \/ Agreeing(justification[n], v, b) # {}

\* Two validators are neighbours: the latest message of each contains b and has,
\* in its justification, a message of the other that does.
Agree(view, v, w, b) ==
    \E m \in Agreeing(view, v, b), n \in Agreeing(view, w, b) :
        Agreeing(justification[m], w, b) # {} /\ Agreeing(justification[n], v, b) # {}

\* The sets above half of all weights, the threshold of the tests.
Majorities == {C \in SUBSET Validator : 2 * Cardinality(C) > Cardinality(Validator)}

\* What is seen makes C an oracle for b.
Oracle(view, b, C) ==
    /\ \A v \in C : Agreeing(view, v, b) # {}
    /\ \A v, w \in C : v # w => Agree(view, v, w, b)

-----------------------------------------------------------------------------
(* Properties *)

\* Since the message of w that v has seen, w has not left b, as far as o knows.
Steady(o, b, C) ==
    \A v, w \in C : \A m \in latest[o][v], k \in latest[o][w] :
        \A n \in justification[m] : \A l \in past[k] :
            v # w /\ sender[n] = w /\ sender[l] = w /\ LM(past)!Depends(l, n)
                => IsPrefix(b, block[l])

Blocks == UNION {Prefixes(block[m]) : m \in created}

\* The oracles of o that are steady.
Promises(o) ==
    LET view == LM(past)!Honest(latest[o], {}) IN
    {p \in Blocks \X Majorities : Oracle(view, p[1], p[2]) /\ Steady(o, p[1], p[2])}

\* An oracle is a promise: no member ever estimates a block that does not contain
\* b again, whatever it has received and the observer has not, provided that no
\* member had left b behind the back of another.
OracleKept ==
    \A o \in Validator : \A p \in Promises(o) : \A m \in created :
        sender[m] \in p[2] /\ (\E n \in latest[o][sender[m]] : LM(past)!Depends(m, n))
            => IsPrefix(p[1], block[m])

\* Oracles never contradict each other, whoever sees them.
NoConflict ==
    LET promised == UNION {{p[1] : p \in Promises(o)} : o \in Validator} IN
    \A b, c \in promised : IsPrefix(b, c) \/ IsPrefix(c, b)
=============================================================================
