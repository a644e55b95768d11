----------------------------- MODULE Blockchain -----------------------------
(***************************************************************************)
(* The blocks of src/blockchain.rs.  A block is immutable, is identified   *)
(* by the hash of its content, and points to the block before it, so the   *)
(* blocks that exist form a forest, given once and for all.  The data they *)
(* carry is not modelled.                                                  *)
(***************************************************************************)
EXTENDS Integers

CONSTANTS
    Block,
    NoBlock,     \* the prevblock of a genesis block
    prevblock,   \* Block::prevblock
    id           \* Block::id, a number in place of a hash

ASSUME NoBlockAssumption == NoBlock \notin Block

ASSUME PrevblockAssumption == prevblock \in [Block -> Block \cup {NoBlock}]

ASSUME IdAssumption ==
    /\ id \in [Block -> Nat]
    /\ \A b, c \in Block : id[b] = id[c] => b = c

\* A set of blocks that holds the blocks before its members.
Grounded(S) == \A b \in S : prevblock[b] \in S \cup {NoBlock}

\* The chain that ends in b: the smallest grounded set that holds it.
Chain == [b \in Block |->
             {a \in Block : \A S \in SUBSET Block : b \in S /\ Grounded(S) => a \in S}]

\* A block is built after the one before it, so a chain has a first block.
ASSUME ForestAssumption ==
    \A b \in Block : /\ prevblock[b] # NoBlock => b \notin Chain[prevblock[b]]
                     /\ \E g \in Chain[b] : prevblock[g] = NoBlock

\* Block::is_member: a is on the chain that ends in b.
IsMember(a, b) == a \in Chain[b]

\* find_all_accessible_blocks, from the blocks of the latest honest messages.
Accessible(tips) == UNION {Chain[b] : b \in tips}

Genesis(state) == {b \in state : prevblock[b] = NoBlock}

\* Mutant: blocks that no latest message builds on are counted in.
ChildrenAnywhere(state, b) == {c \in Block : prevblock[c] = b}

\* Block::children
Children(state, b) == {c \in state : prevblock[c] = b}
=============================================================================
