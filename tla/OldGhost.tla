------------------------------ MODULE OldGhost ------------------------------
(***************************************************************************)
(* old_ghost of src/blockchain.rs, the first of the three fork choices: it *)
(* builds the tree of blocks from its leaves down (parse_blockchains) and  *)
(* then descends from the root to the heaviest child at each fork          *)
(* (pick_heaviest).  It reads the same latest honest messages and weights  *)
(* as the other two versions (Ghost).                                      *)
(*                                                                         *)
(* The code keeps a map from blocks to their children.  A block has one    *)
(* prevblock, so the blocks that were added to some set of children say as *)
(* much: they are `attached`.  Sequences are the orders in which a HashMap *)
(* or a HashSet yields its members; any order can occur.                   *)
(***************************************************************************)
EXTENDS Ghost, ValidatorWeights, SequencesExt

\* The blocks of the latest honest messages.
Tips == {estimate[v] : v \in Validator} \ {NoBlock}

\* latest_blocks: a HashMap keeps one of the senders of a block.
LatestBlocks ==
    {f \in [Tips -> Validator] : \A b \in Tips : estimate[f[b]] = b}

-----------------------------------------------------------------------------
(* parse_blockchains *)

\* The state of the loop: the queue of blocks and what became of those before.
Parsings == [queue : Seq(Block), visited : SUBSET Block, attached : SUBSET Block,
             genesis : SUBSET Block, was_empty : BOOLEAN]

\* Mutant: a lone block is taken for the genesis block also when others wait.
ParseChildEarly(p) ==
    LET child  == Head(p.queue)
        parent == prevblock[child]
        rest   == Tail(p.queue)
    IN  IF parent = NoBlock \/ (p.was_empty /\ p.genesis = {})
        THEN [p EXCEPT !.queue = rest, !.genesis = @ \cup {child}]
        ELSE [p EXCEPT !.queue = IF parent \in p.visited THEN rest ELSE Append(rest, parent),
                       !.visited = @ \cup {parent}, !.attached = @ \cup {child},
                       !.was_empty = TRUE]

\* One round of the loop.  The first block of the queue goes below its prevblock,
\* which is queued when it is new.  A block without a prevblock ends in `genesis`;
\* so does the block that is left when the queue has run empty before any did,
\* since all tips are above it.
ParseChild(p) ==
    LET child  == Head(p.queue)
        parent == prevblock[child]
        rest   == Tail(p.queue)
    IN  IF parent = NoBlock \/ (p.was_empty /\ p.genesis = {})
        THEN [p EXCEPT !.queue = rest, !.genesis = @ \cup {child}]
        ELSE [p EXCEPT !.queue = IF parent \in p.visited THEN rest ELSE Append(rest, parent),
                       !.visited = @ \cup {parent}, !.attached = @ \cup {child},
                       !.was_empty = p.was_empty \/ rest = << >>]

\* The loop, from a queue of the tips.
Parsed(tips) ==
    LET loop[p \in Parsings] == IF p.queue = << >> THEN p ELSE loop[ParseChild(p)]
    IN  loop[[queue |-> tips, visited |-> Range(tips), attached |-> {}, genesis |-> {},
              was_empty |-> FALSE]]

ChildrenIn(tree, b) == {c \in tree.attached : prevblock[c] = b}

-----------------------------------------------------------------------------
(* pick_heaviest *)

\* Mutant: the senders above the children are not asked for.
CollectedNear(tree, latest_blocks) ==
    [b \in tree.visited |->
        {latest_blocks[c] : c \in ({b} \cup ChildrenIn(tree, b)) \cap Tips}]

\* collect_validators: the senders that latest_blocks gives for b and the blocks
\* above it.
Collected(tree, latest_blocks) ==
    LET collect[b \in tree.visited] ==
            {latest_blocks[c] : c \in {b} \cap Tips}
            \cup UNION {collect[c] : c \in ChildrenIn(tree, b)}
    IN  collect

\* The map of the weights w.
Entries(w) == Restrict(w, {v \in Validator : w[v] # Absent})

NothingYet == [block |-> NoBlock, weight |-> Zero, failed |-> FALSE]

\* Mutant: the first child is taken whatever it weighs.
HeavierAny(best, b, w) ==
    LET child == [block |-> b, weight |-> w, failed |-> FALSE] IN
    IF best.block = NoBlock \/ Less(best.weight, w) THEN child
    ELSE IF Less(w, best.weight) \/ id[best.block] < id[b] THEN best
    ELSE child

\* Mutant: a tie goes to the child that comes later.
HeavierLater(best, b, w) ==
    LET child == [block |-> b, weight |-> w, failed |-> FALSE] IN
    IF best.failed \/ Less(w, best.weight) THEN best
    ELSE IF Less(best.weight, w) \/ best.block # NoBlock THEN child
    ELSE [best EXCEPT !.failed = TRUE]

\* One step of the fold over a fork: the child b of weight w against the best so
\* far.  Weights that are equal, or do not compare, are a tie, which goes to the
\* smaller hash; a tie with nothing, because no child came before, fails.
Heavier(best, b, w) ==
    LET child == [block |-> b, weight |-> w, failed |-> FALSE] IN
    IF best.failed \/ Less(w, best.weight) THEN best
    ELSE IF Less(best.weight, w) THEN child
    ELSE IF best.block = NoBlock THEN [best EXCEPT !.failed = TRUE]
    ELSE IF id[b] < id[best.block] THEN child ELSE best

\* The blocks the fold over the children can leave, in any of their orders; NoBlock
\* when it fails.
AtFork(blocks, referred) ==
    LET weigh(b) == SumWeightValidators(Entries(weights), referred[b])
        best(order) == FoldLeft(LAMBDA r, b : Heavier(r, b, weigh(b)), NothingYet, order)
    IN  {IF best(order).failed THEN NoBlock ELSE best(order).block :
            order \in SetToSeqs(blocks)}

\* The blocks pick_heaviest can return, NoBlock for None.  A block that is alone
\* is not weighed.
Picked(tree, latest_blocks) ==
    LET referred == Collected(tree, latest_blocks)
        pick[S \in SUBSET tree.visited] ==
            UNION {IF b = NoBlock \/ ChildrenIn(tree, b) = {} THEN {b}
                   ELSE pick[ChildrenIn(tree, b)] :
                      b \in IF Cardinality(S) = 1 THEN S ELSE AtFork(S, referred)}
    IN  pick[tree.genesis]

\* old_ghost: what it can return, NoBlock for an error.
OldGhost(latest_blocks) ==
    UNION {Picked(tree, latest_blocks) : tree \in {Parsed(tips) : tips \in SetToSeqs(Tips)}}

-----------------------------------------------------------------------------
(* Properties *)

\* Whatever the order of the tips, parse_blockchains ends with one root, below
\* which nothing forks, and with the tree of the accessible blocks above it: the
\* shortcut for a queue that has run empty drops no block that is needed.
ParsesTree ==
    phase = "called" /\ Tips # {} =>
        \A tips \in SetToSeqs(Tips) :
            LET tree == Parsed(tips) IN
            \E root \in State :
                LET above == {b \in State : IsMember(root, b)} IN
                /\ tree.genesis = {root}
                /\ tree.visited = above
                /\ tree.attached = above \ {root}
                /\ Tips \subseteq above

\* The weight below b of the votes that were kept, one for each block.
KeptScore(latest_blocks, b) ==
    WeightOf({latest_blocks[t] : t \in {c \in Tips : IsMember(b, c)}})

\* What is beside a in the tree is lighter, or as heavy and of a greater hash.
Wins(latest_blocks, a) ==
    \A c \in State \ {a} : prevblock[c] = prevblock[a] =>
        \/ KeptScore(latest_blocks, c) < KeptScore(latest_blocks, a)
        \/ KeptScore(latest_blocks, c) = KeptScore(latest_blocks, a) /\ id[a] < id[c]

\* A block at a fork that no vote, or none that weighs anything, is kept for.
Weightless(latest_blocks, c) ==
    /\ KeptScore(latest_blocks, c) = 0
    /\ \E d \in State \ {c} : prevblock[d] = prevblock[c]

\* It may fail if nobody has voted, or where the winners lead to a fork one branch
\* of which weighs nothing.
MayFail(latest_blocks) ==
    \/ Tips = {}
    \/ \E c \in State : /\ Weightless(latest_blocks, c)
                        /\ \A a \in Chain[c] \ {c} : Wins(latest_blocks, a)

\* For the votes it keeps, where several validators are on one block it keeps one
\* of them, old_ghost returns one and the same leaf in every order of its hash
\* tables, or fails where it may: the leaf that wins at each fork.
OldGhostHeaviest ==
    phase = "called" =>
        \A latest_blocks \in LatestBlocks : \A b \in OldGhost(latest_blocks) :
            IF b = NoBlock THEN MayFail(latest_blocks)
            ELSE /\ b \in State /\ Children(State, b) = {}
                 /\ \A a \in Chain[b] : Wins(latest_blocks, a)

\* Whether it fails is decided by the votes it keeps and by nothing else but the
\* order of its hash tables: wherever it may fail, as no vote, or none that weighs
\* anything, is kept for a branch its winners lead to, some order makes it fail.
OldGhostFails ==
    phase = "called" =>
        \A latest_blocks \in LatestBlocks :
            MayFail(latest_blocks) => NoBlock \in OldGhost(latest_blocks)

\* The validators that old_ghost does not count: another one is on their block.
Dropped(latest_blocks) ==
    {v \in Validator : estimate[v] # NoBlock /\ latest_blocks[estimate[v]] # v}

\* "Collects the validators that produced blocks for each side of a fork"
\* (collect_validators).  It finds the senders of the latest honest messages above a
\* branch, but of those on the same block only one; so what old_ghost passes over
\* is heavier than what it takes by no more than the supporters it has dropped.
HeaviestButForDropped ==
    phase = "called" =>
        \A latest_blocks \in LatestBlocks :
            \A b \in OldGhost(latest_blocks) \ {NoBlock} :
                \A a \in Chain[b], c \in State :
                    prevblock[c] = prevblock[a] =>
                        Score(c) <= Score(a)
                            + WeightOf(Dropped(latest_blocks) \cap Supporters(c))
=============================================================================
