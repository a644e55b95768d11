------------------------ MODULE IndirectEquivocation ------------------------
(***************************************************************************)
(* Message::equivocates_indirect (src/message.rs): who equivocates among   *)
(* the messages under two messages, found by descending into their         *)
(* justifications in turn.  Its documentation says that it does not find   *)
(* all equivocations; the property says which ones it does find.  It is    *)
(* asked about the two messages of a call of `depends`.                    *)
(***************************************************************************)
EXTENDS ParallelDepends, FiniteSets

ASSUME MessageAssumption == IsFiniteSet(Message)

\* Mutant: the two messages do not change places, so only one is descended into.
EquivocatesIndirectAlone(m, n, equivocators) ==
    LET pairs[c \in Message \X Message] ==
            {v \in {sender[c[1]]} : Equivocates(c[1], c[2])}
            \cup UNION {pairs[<<z, c[2]>>] : z \in justification[c[1]]}
        reported == pairs[<<m, n>>]
    IN  [answer |-> reported # {}, equivocators |-> equivocators \cup reported]

\* m.equivocates_indirect(n, equivocators): the message that was descended into
\* becomes the other one, so that the justification of each is visited.  Names
\* that are passed in do not count for the answer.
EquivocatesIndirect(m, n, equivocators) ==
    LET pairs[c \in Message \X Message] ==
            {v \in {sender[c[1]]} : Equivocates(c[1], c[2])}
            \cup UNION {pairs[<<c[2], z>>] : z \in justification[c[1]]}
        reported == pairs[<<m, n>>]
    IN  [answer |-> reported # {}, equivocators |-> equivocators \cup reported]

-----------------------------------------------------------------------------
(* Properties *)

\* The messages k justifications below m.
Level[k \in 0 .. Cardinality(Message)] ==
    [m \in Message |->
        IF k = 0 THEN {m} ELSE UNION {Level[k - 1][n] : n \in justification[m]}]

\* equivocates_indirect reports exactly the senders of two equivocating messages
\* that are at the same level below the two it is given, or with that of the
\* first one level deeper; what lies at other distances it misses.  And it adds
\* its names to those it is given.
IndirectByLevels ==
    result # "running" =>
        \A known \in {{}, {sender[root]}} :
            LET indirect == EquivocatesIndirect(root, target, known)
                reported ==
                    {v \in Validator :
                        \E k, l \in 0 .. Cardinality(Message) :
                            /\ k \in {l, l + 1}
                            /\ \E x \in Level[k][root], y \in Level[l][target] :
                                  sender[x] = v /\ Equivocates(x, y)}
            IN  /\ indirect.equivocators = known \cup reported
                /\ indirect.answer <=> reported # {}
=============================================================================
