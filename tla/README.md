# core_cbc_casper in TLA+

Specifications, model-checking runs and machine-checked proofs for the CBC
Casper message library in `src/`. All definitions are translated from the code;
`PROJECT.json` lists, for each definition, the lines it models.

## The system

The library has no processes and no network of its own. A program that uses it
runs one *validator state* per validator, feeds it the messages it receives, and
asks it for new messages. The parts:

| Component | State | Operations | Modelled in |
|---|---|---|---|
| `message.rs`: `Message` | immutable: sender, justification, estimate, hash | `new`, `from_validator_state`, `depends` (parallel search), `equivocates`, `equivocates_indirect` | `LatestMessages`, `Messages`, `ParallelDepends`, `IndirectEquivocation`, `Protocol` |
| `justification.rs`: `LatestMessages`, `LatestMessagesHonest` | validator -> set of messages | `update`, `equivocate`, `from(&Justification)`, `from_latest_messages` | `LatestMessages`, `Protocol` |
| `justification.rs`: `Justification` | a list of messages without duplicates | `insert`, `from_messages`, `faulty_insert(s)`, `faulty_insert_with_slash`, `make_estimate` | `ValidatorState`, `SharedWeights`, `Protocol` |
| `validator.rs`: `State` | weights, threshold, fault weight, latest messages, equivocators | `new`, `update`, `sort_by_faultweight` | `ValidatorState` |
| `validator.rs`: `Weights` | a map behind `Arc<RwLock>`, shared by clones | `insert`, `weight`, `validators`, `sum_weight_validators`, `sum_all_weights` | `SharedWeights`, `ValidatorWeights` |
| `estimator.rs`, `blockchain.rs` | none (pure functions of the latest honest messages) | GHOST in three versions, `parse_blockchains`, safety oracles | `Blockchain`, `Ghost`, `OldGhost`, `SafetyOracle`, `Finality` |
| `util/weight.rs` | none | order, addition and subtraction with NaN and infinity | `WeightArithmetic` |
| `util/id.rs`, `util/hash.rs` | none | what a message's id is the hash of | `Identifiers` |
| `tests_common/`, `examples/ternary.rs` | none | estimators: vote count, weighted median, plurality | `VoteCount`, `Estimators` |
| `tests/generative_tests.rs` | one state per validator | `create_messages`, `add_messages`: the way a protocol uses the library | `Protocol`, `Finality` |

How they interact. `State::update` and the faulty inserts call
`LatestMessages::update` and `equivocate`, which call `Message::depends`; they
read `Weights` and change `equivocators` and `state_fault_weight`.
`from_validator_state` reduces the latest messages to the honest ones, makes them
the justification of the new message and hands them to the estimator. A recipient
goes the other way: it extracts the latest messages from a justification.
`Weights` is shared memory between states; `depends` is parallel inside.

What is hard here, and where a property looks for it (`hazards` in
`PROJECT.json` has the list with lines): messages that arrive late, twice, out of
order or not at all; equivocations noticed only by comparison with what is
latest *now*; accounting that three entry points share; batches sorted by weights
that their own insertions, or another state's slash, make stale; branches of a
parallel search that race for a shared set; a call that is repeated; scores that
are not numbers, ties, and hash-table orders in the fork choice and in the votes;
and whether a safety oracle is worth anything in a chain that goes on.

What makes each component correct:

- `depends` answers the dependency relation, whatever its branches do;
- latest messages lose nothing; of the validators that are not listed as
  equivocators, the honest ones are a function of what was received;
- equivocators are listed justly, charged once, within the threshold, and not
  forgotten; refused messages are those there is no room for;
- validators that follow the protocol do not equivocate, can reproduce each
  other's estimates, and converge when everything is delivered;
- GHOST returns a leaf that is heaviest at each fork and keeps what a majority
  voted for; its versions agree;
- safety oracles are the maximal cliques above the threshold, and a block that
  has one stays in the estimates;
- sums of weights do not depend on an order, and what is not a number wins
  nothing;
- votes count once, the median splits the weight, and of the ternary values the
  last of the heaviest wins.

## The modules

**Messages.**
`LatestMessages` has the relations between messages and the operators of
`LatestMessages` and `LatestMessagesHonest`, over a given relation `Past`. A
HashMap from validators to sets is a function to sets, an absent key the empty
set. `Updated` is the map after `update`, `UpdateSucceeds` its return value.

`Messages` is the graph of messages of a run, given once and for all by constants,
with `Past` as the closure of `justification`. Messages never change and their
hash covers their justification, so the graph is fixed and acyclic
(`AcyclicAssumption`); a state that receives the messages in any order, with
repetitions and losses, sees every history the program can produce. `Past` is
defined without recursion, as an intersection of closed sets, so that it can be
proved about.

`ParallelDepends` (extends `Messages`) is `Message::depends` as its branches run:
`Filter` reads the visited set, `Enter` inserts and recurses, `Cancel` is rayon
dropping work after a true answer, `Return` joins. Branches are counted per
message, because their answers are or-ed all the way up.

`IndirectEquivocation` (extends `ParallelDepends`) has `equivocates_indirect`, a
function of two messages, asked about the two messages of the call. The two
change places in each call. Its documentation says that it is broken;
`IndirectByLevels` says exactly what it finds: the equivocations between messages
at the same level, or with the first one level deeper.

`Identifiers` (extends `Protocol`) takes the id of a message for what it hashes:
sender, estimate, and the justification as a list, in the order that a fresh
HashSet gave it. `Call` is `from_validator_state` on its own, which can be
repeated because it leaves the state as it is.

**The validator state.**
`ValidatorState` (extends `Messages`) is one `State` and the `Justification` that
is built from it. Actions: `Update` is one message of the slice that
`State::update` folds over; `FaultyInsert` is `faulty_insert`, whose match arms
are `Refuse`, `AlreadyIn` and `Accept`; `StartBatch` and `InsertNext` are
`faulty_inserts` and `from_messages`, one step per message, in the order of
`sort_by_faultweight` (equal weights in any order, since the code breaks ties by
hash); `SlashingInsert` is `faulty_insert_with_slash`. `received` is a history
variable and `refused` records the answers of the last call. While a batch runs
the state is mutably borrowed, hence the guard `Idle`.

`HonestView` is the abstract specification of what a state promises of the messages
that `from_validator_state` hands to the estimator. They are those of the validators
that the state does not list, and of these the ones that depend on everything received
from their sender, whatever the order of arrival. Who is listed does depend on the
order: after `a1`, `x1` and `a3`, which knows both, alice is listed and has no honest
message; after `a3`, `a1` and `x1` she is not, and `a3` is honest (the run
`every_equivocator_listed`). What the promise says of it is that a validator is
listed for good, and only when a message of its own arrives that equivocates with one
received before. `ValidatorState` implements it with the state's own `equivocators`
(`RefinesHonestView`).

`SharedWeights` (extends `ValidatorState`) adds slashing, by this state and
(`OtherSlashes`) by another holder of the shared `Weights`, at any moment, also
within a batch.

`BatchOrder` (extends `VoteCount`, only so that one run can check both) adds a history
variable to the state: `foreseen`, whom the last batch charged at the weight its sort
had given the message. `LightestFirst` says what the sort, which is done once and by
the weights before the first insertion, still achieves: no message is refused while
a heavier equivocator gets the room, other than one that the batch itself
reveals.

`VoteCount` (extends `ValidatorState`) has the estimator of the tests that counts
votes: `Visits` is the way its `recursor` comes by the votes under a message, once
for each path, and `WithVote` what it does at each. It is asked for every honest
view that the state can have, and for all orders in which the justifications and
the HashSet list their members.

**The protocol.**
`Protocol` (instantiates `LatestMessages` over its own growing graph): validators
that exchange messages as `create_messages` and `add_messages` of the generative
tests do it. `Create` is `from_validator_state`; `Deliver` updates the recipient
with the message and then its justification, one level deep (`Taken`: the messages of
a justification have different senders, so that each updates an entry of its own, and
the order in which a HashSet yields them makes no difference: `TakenIsTheLoop` in
`Protocol_proofs`). Any created message can be delivered to
anyone at any time, any number of times or never.
`ExtractedFrom` is `LatestMessages::from(&Justification)`, and `EstimatedFrom`
what `make_estimate` hands to the estimator.

`Finality` (extends `Protocol`) composes `Protocol` with blocks. A message has a
block on the tip that the fork choice finds, `Tips` being `HeaviestLeaves` of
`Ghost` for unit weights and blocks that are the sequences of their data;
`Oracle` is a clique of the graph of `safety_oracles`, with the graph computed
from the justifications. A step is a whole round: a validator takes any set of
messages, one of each other validator at most, and creates its next one, since
only the view at that moment matters (`ViewsAfter`: in whatever order they are taken). The hashes that break a tie are fixed only
when a tie is met, and then kept (`Smaller`).

**The fork choice.**
`Blockchain`, `Ghost`: the forest of blocks, and
`optimized_ghost` as a loop with one action per pop of its stack, and
`mathematical_ghost` as a recursive function. `Argmax` takes the element it starts
at, which matters only for scores that are not numbers.

`OldGhost` (extends `Ghost`) has the third version: `ParseChild` is a round of the loop of
`parse_blockchains` with its shortcut for a queue that has run empty, `Collected`
and `Picked` are `collect_validators` and `pick_heaviest`. Whatever a hash table
decides is a choice: the order of the tips, which of two validators on a block
stays in `latest_blocks`, the order of the children at a fork. `KeptScore` is the weight
of the votes that stay, `Wins` and `MayFail` say which leaf is found for them and when
none may be.

`Estimators` (extends `OldGhost`) asks the weighted median of
`tests_common/integer.rs` and the plurality of `examples/ternary.rs` about the
same votes and weights, the value of a vote being the number of its block.

`SafetyOracle`: `safety_oracles` with the graph of validators that see each other
agree on a block, and the search of `bron_kerbosch` for its maximal cliques. The
recursion is a set of calls with their arguments; the innermost, whose `r` holds
all others, is the one that runs. `Extend` is a round of its loop, over `p` in any
order. Which latest messages contain the block, and which each of their
justifications shows, are inputs (`agreeing`, `seen`): `Finality` computes them.

**Weights.**
`WeightArithmetic` is `Weight<T>`: the operators of `util/weight.rs` on a unit,
infinity and NaN. `ValidatorWeights` has `Weights` on top of it, as `OldGhost`
uses it.

**The unit tests of the repository, as assumptions.**
`WeightTests` and `MessageTests` put the assertions of the unit tests of
`weight.rs`, `validator.rs`, `message.rs` and `justification.rs` to the definitions
of the modules above (`ASSUME WeightTestsPass`, `ASSUME MessageTestsPass`); TLC
evaluates them in the runs of `MCGhost`. They are no properties of the program,
but evidence that the definitions say what the code does.

`MC*` modules give the constants values. Definitions that start with "Mutant:"
are plausible bugs, used nowhere in the specifications; `PROJECT.json` says which
definition each would replace and which property then fails.

## The runs

| Run | Shows | Instance |
|---|---|---|
| `validator_state` | nothing lost, just accusations, each charged once and within the threshold, refusals justified, and the lightest of those a batch foresees charged first; refinement of `HonestView`: what the estimator gets from unlisted validators is a function of what was received; one vote for each validator | 7 messages: three equivocators, one not in the weights, one that merges its branches; batches of up to 3 |
| `shared_weights` | the fault weight covers the equivocators, and no slash makes the state forget one | 6 messages, slashes at any step, batches of 2 |
| `protocol` | no self-equivocation, closed views, reproducible estimates, convergence under fair delivery | 3 validators, 4 messages, 3 of one validator |
| `finality` | a block with a steady oracle stays in what its members estimate, and no two such blocks conflict | 3 validators, 7 messages, 3 of one validator, two branches, symmetry |
| `parallel_depends` | the answer is right in all interleavings; the call returns; what `equivocates_indirect` finds | 8 messages that share justifications, with three equivocators at different levels, all 64 calls |
| `ghost` | the loop finds the leaves of the mathematical version, those that are heaviest at each fork; majority; termination; `parse_blockchains` builds the tree, and `old_ghost` descends to the leaf that wins at each fork, the same in all orders, or fails, exactly where it may; what it passes over is heavier only by the votes it drops; the median; the ternary estimate, with every tie | a tree of 9 blocks, 3 validators, all votes, all weights 0..2 |
| `safety_oracle` | the search reports the maximal cliques, all and only; an oracle exists exactly when a clique above the threshold does | 4 validators: all sets of agreeing ones, all sets of pairs that see each other, own messages seen or not, one that sees all without being seen |

Runs that end in a counterexample, each a place where the code and its
documentation disagree:

| Run | Documentation | The code |
|---|---|---|
| `latest_are_latest` | latest messages are "not in the dependency of another of their messages" (`justification.rs:237`) | a late message that equivocates with one latest message is inserted beside another that depends on it. What is handed to the estimator is not affected (`RefinesHonestView`): that sender has two latest messages either way |
| `every_equivocator_listed` | "when state.thr is arbitrarily big, state.equivocators should be filled with every equivocator" (`generative_tests.rs:988`) | if a message that knows both branches arrives before one of them, the equivocation is never noticed |
| `slashed_uncounted` | the weight "doesn't count to the state fault weight anymore" (`justification.rs:199`) | a weight that was charged before stays counted |
| `agrees_with_mathematical` | "an optimized version of `mathematical_ghost`" (`blockchain.rs:402`) | an unknown validator makes a score NaN in one version, and adds nothing in the other |
| `unique_ids` | "The implementation MUST ensure only one unique valid representation" (`util/id.rs:36`) | the id hashes the justification in the order of a HashSet: a repeated `from_validator_state` can return a message that differs from the first in nothing but its id, and equivocates with it |

More things that came up, and are not runs:

- Without the condition `Steady` the property `OracleKept` fails in an instance of
  seven messages: an oracle that `safety_oracles` reports is no promise if a member,
  unseen by another, had left the block before.
- `vote_count.rs:148` says of a vote and its opposite that none of the pair will
  stay; a third visit puts one back, so that a validator that voted both ways can add
  one vote, and `OneVoteEach` says no more than that.
- `justification.rs:133` sorts a batch "in ordering to insert as much messages as
  possible". After `a1`, the batch of `x1`, `b1` and `b2` charges bob, who weighs 2,
  and then has no room for alice, who weighs 1: when the batch was sorted nothing of
  bob's was known, and both of his messages were taken to be free. This is the
  exception in `LightestFirst`.
- `pick_heaviest` is to "find heaviest block" (`blockchain.rs:723`) and to "break
  ties with blockhash" (`:760`), but starts from no block of weight zero. A branch
  that weighs nothing ties with that if the HashSet yields it first, and the fork
  choice fails (`:766`), although it finds the heavier branch in another order.
  `OldGhostFails` and `OldGhostHeaviest` say exactly when that can happen.
- `collect_validators` "collects the validators that produced blocks for each side of
  a fork" (`:692`), but `latest_blocks` is a HashMap with one sender for each block
  (`:618`): of two validators on one block one is not counted, and which one is up to
  the iteration order. `HeaviestButForDropped` bounds what this can do.

Bounds. The runs of the state need two branches of one sender and a message above
both (the three ways `update` compares), two equivocators that do not fit
together (the threshold decides between them), one without a weight, and batches
of three (two messages that reveal an equivocator its sort did not know, and one of
another sender; two in `shared_weights`, where a slash comes between them); the
other properties only compare pairs. `Protocol` has three validators, so that a message can tell its
recipient of a third one (with two, the justification is never news), and four
messages, three (`MaxOwn`) of one validator, so that it builds on views others have
outgrown; liveness excludes symmetry. `Finality` has seven messages, which are enough
for an oracle that is not steady to be broken, so that `OracleKept` has something to
lose; the proofs are for any number of messages.
`ParallelDepends` needs two levels of shared justifications, and equivocations at
levels that differ by none, one and two. In
`Ghost` the votes select which part of the tree is accessible, so one tree stands
for all smaller ones; weights 0..2 give ties, majorities and validators without
weight; `Estimators` also takes each validator out of the weights in turn. Four
validators in `SafetyOracle` give graphs with several overlapping maximal cliques
and cliques below, exactly at and above the threshold: alice alone or two others
weigh 2.

Deadlock is checked except in `parallel_depends`, `safety_oracle` and the
runs of `MCGhost`, which model calls that return, and in `finality`, where a run ends
when all messages that the bound allows are created.

Fairness. `Protocol` assumes that every message is delivered to every validator
in the end (weak fairness of each delivery): this is what the tests do with
`all_receivers`, and only `Convergence` needs it. `ParallelDepends` and `Ghost`
assume that a call which can take a step takes one.

## The proofs

For all message graphs, senders, weights and thresholds:

- `Messages_proofs`: `depends` is transitive (`DependsTransitive`), satisfies the
  recursion of the code (`DependsRecursion`) and is asymmetric, from the closure
  definition and acyclicity.
- `ValidatorState_proofs`, about `Spec` (no slashing):
  - `TypeCorrect`;
  - `ViewCorrect`: `LatestReceived`, `NothingLost` and `NewestAlone`. They
    are inductive together: that nothing is lost is what makes a message that
    knows everything received of its sender also know all its latest messages,
    and so replace them;
  - `Refinement`: from these three, the honest messages are the heads of what was
    received, less those of the listed (`HonestIsHeads`); a step lists the sender of the
    message it adds or nobody (`NextAdds`), and only if that message equivocates with
    one received before (`ChargingConflicts`). So each step is a `Receive` or a stutter;
  - `Accusation`, `Accounting`, `Handling`, `Refusals`: the invariants of the
    run `validator_state`. `Accounting` rests on a characterisation of what a step
    can charge (`NextCharges`); `Handling` and `Refusals` need that a validator
    which does not fit never fits later (`NextGrows`);
  - `LightestCharged`, about `BatchSpec`, whose steps are steps of `Spec`
    (`BatchSteps`): what waits in a batch was sorted by its weight or as free
    (`SortedByWeight`) and is no lighter than whoever was charged as foreseen
    (`WaitingHeavier`); and who fits is lighter than whoever did not fit before
    (`ChargedLighter`).
  - `SharedAccusation`, `SharedHandling` and `Covering`, about `SharedSpec`
    (slashes at any step, also within a batch). `SharedHandling` needs that a weight
    is what it was at first or zero (`SlashedOrNot`): what does not fit now did not
    fit at its full weight, and no step makes room (`SharedGrows`). For `Covering`,
    the shared weights are the first ones without those of some slashed validators
    (`WeightsAreSlashed`), a charge adds the same to both sides (`ChargeCovers`), and
    a slash only takes from what has to be covered (`SlashCovers`).
  - `Voting`, about `VoteCount` over finitely many messages: the search from a
    message comes by exactly the votes under it, by induction over closed sets of messages,
    of which one is always on top (`TopMessage`, `SearchFinds`), and each step
    of the fold keeps the votes that have no opposite and never leaves a vote beside
    its opposite (`WithVoteKeeps`).
- `Protocol_proofs`, for any number of validators and messages. The argument is
  about the numbers of a validator's messages.
  - `NeverEquivocates` and `ClosedViews`. A message knows exactly the messages of its
    sender with smaller numbers (`Numbered`), so `update` keeps the newer of two
    (`UpdateKeepsNewer`). That holds of the next message since the justification has
    the newest one of its sender (`OwnLatest`), which no delivery replaces
    (`TakenOwn`). Views stay closed since a justification covers all that is under
    its message (`Justified`), because it was made from a closed view: so taking one
    level of it is enough (`TakenClosed`).
  - `Reproduction`: the search of `LatestMessages::from(&Justification)` ends with
    the messages it started from. Each of its steps covers more messages or shortens
    its queue, so it ends (`SearchEnds`); what is in the queue or in the view covers
    the justification all the while, and nothing in either is from outside
    (`GoodSearch`, `SearchGoesOn`). At the end the view covers the justification, and
    nothing under the message is newer than what its justification has of the same
    sender, so they are the same. Adding them again, in any order, updates each entry
    once (`ReaddedIsMerged`).
- `ParallelDepends_proofs`: `Correctness` and `NothingDropped`. The invariant says
  that, until the target is found, whatever was entered has its justification
  covered by some branch, which is not inductive without the bounds on what
  branches work on (`UnderRoot`) and on the answer (`ResultIsFound`). When nothing
  is left to do the visited messages are a closed set without the target
  (`NothingLeft`). `IndirectLevels`: the equivocations at matching levels satisfy the
  recursion of `equivocates_indirect` (`MatchingStep`: where the two messages change
  places the levels do; `LevelBound`: no level is deeper than there are messages),
  and nothing else does, since each call has fewer messages below its two
  (`DepthFalls`, `DescendsOnce`).
- `Finality_proofs`, for any number of validators and messages, any data, any
  network, and any hashes:
  - `ChainNeverEquivocates`: the invariant of `Protocol` is kept when a round takes
    several messages before it creates one, so all that is proved of it holds;
  - `OraclesKept` and `NoConflicts`. What is inductive (`ChainInv`) is the invariant
    of `Protocol`, the types of the blocks, and `Chosen`: each message after the first
    of its sender is on a tip that was heaviest at each fork for its justification.
    The rest needs no induction over steps. If a member of a steady oracle estimates
    a block without `b`, take the first message after the view that does. All members'
    messages in its justification are at least as new as those that the other
    members showed it, by closed views, and contain `b`, by steadiness or because it
    is the first. So more than half of the weight is for `b`, and a tip that is
    heaviest at each fork is above it. Two oracles have a member in common, whose
    message contains both blocks.
- `Estimators_proofs`: weights, the fork choice, and the ternary example.
  - `WeightArithmetic`: sums do not depend on their order, NaN stays and compares
    with nothing, the other weights are totally ordered, addition keeps the order,
    and an infinite weight fits under no threshold.
  - For every forest with one genesis block and known weights, `Leaves`. The
    invariant says that what was reached or is on the stack is heaviest all the way
    down (`OnHeaviest`), and that each leaf sought is reached or above a block of the
    stack (`Sought`). It rests on the closure definition of chains (`ChainStep`,
    `ChainNext`). The run `agrees_with_mathematical` shows why weights must be known.
  - `Optimization`: the recursion of `mathematical_ghost` finds the leaves that are
    heaviest at each fork (an induction over the blocks above one), so the loop of
    `optimized_ghost` breaks its tie among the same; `Agreement`: they return the
    same block.
  - `Majority`. If the returned chain left out a block of a majority, the two
    would part at some fork (`ForkPoint`), where the branch that was taken is at
    least as heavy; but the supporters of the branches are disjoint
    (`NoSiblingsOnChain`, `BranchesApart`), so the branches would weigh more than
    all who voted. That the search ends at some leaf needs that a set of children
    has a heaviest one (`BestExists`).
  - `Parsing`: `parse_blockchains` builds the tree of the accessible blocks, whatever
    the order of the tips. Each visited block is in one place: queued, attached, or in
    `genesis`; the blocks before those attached were visited; and only a block that
    nothing else waits for ends in `genesis` though it has a prevblock (`GoodParse`).
    Each round treats one block more, so the loop ends. What it ends with is closed:
    all but the root have the block before them in it, and no set of blocks has one
    before each of its members (`SomeRoot`), so nothing needed was dropped.
  - `OldChoice`: `old_ghost` ends at the leaf that wins at each fork for the votes it
    keeps, the smaller hash in a tie, or fails where a branch weighs nothing. What `collect_validators` finds are the senders of these votes, by
    induction over the blocks above; the fold over the branches of a fork keeps the winner
    so far, or nothing after a branch without weight (`BestOf`, `HeavierStep`); the
    recursion of `pick_heaviest` has a solution (`UnionRecursion`), and ends at a leaf with
    winners all the way (`EndsAt`, `PickedAbove`). Below the root of the
    tree nothing is beside the chain (`BelowRoot`).
  - `OldFailure`: where it may fail, some order makes it fail. Each block of a fork comes
    first in some order (`OrderFrom`), and the fold does not recover from a tie with
    nothing (`ForkFoldFails`); on the way to that fork each pick is the winner, if it
    does not fail before (`FailsAbove`).
  - `ButForDropped`: the supporters of a block are the kept senders above it and those that
    were dropped (`KeptAndDropped`), so the scores differ from the kept ones by these.
  - `Splitting`: neither side of the weighted median has more than half of the weight.
    The total of a list does not depend on its order (`TotalIsCharge`), and
    the loop stops as soon as what it has taken is half (`TakesUntilDone`), so that what
    comes before is less than half, whichever way the sort put equal values.
  - `Plurality`: the ternary estimate is the last of the heaviest values, whichever of
    the three weights are equal. Also with validators that are not in the weights.
- `SafetyOracle_proofs`, for every graph: `Cliques` and `AllCliques`. The invariant
  says that a call's `p` and `x` are together what agrees with all of its `r`
  (`CallsInv`), and that each maximal clique is reported or within the reach of a
  call (`CoverInv`). `OracleAnswers`: an oracle is found exactly if some clique weighs
  more than the threshold, since a clique of finitely many validators is part of a
  maximal one (`CliqueExtends`, from the well-foundedness of the inclusion of finite
  sets).
- `Induction_proofs` has what the others need of induction. The theorems of the
  library take a predicate, so induction is stated with the set of what satisfies it
  (`NatInductionSet`, `FiniteInduction`, `FiniteStrongInduction`). A sum of weights is
  the number of their units (`SumCountsUnits`), and then sums add up by what is
  known of cardinalities (`SumsAdd`, `SumGrows`). A recursive function stands for
  *some* function that satisfies its equation, so each proof about one shows first
  that there is one: by giving it, or, for a loop, from `TailRecursion`, which does
  not ask that the loop ends, and, for a search that branches, from `UnionRecursion`. A fold
  over a list has a solution of its own (`FoldExists`), and keeps what each of its
  steps keeps (`FoldAlong`).

Assumptions: senders and justifications are functions on the messages, the graph
is acyclic, and finite for `equivocates_indirect` and for `VoteCount`; there are finitely many
validators; the threshold is a natural number, weights are naturals or unknown;
blocks form a forest in which each chain has a first block; what is not a number is
not one. TLC evaluates them all in the runs.

Model-checked only: the liveness properties, `Convergence`, `Returns` and
`Terminates`, which the provers do not reach. All invariants are proved.

## Abstractions

- Weights and the threshold are naturals in the state machines, not floats, and the
  threshold is finite; `INFINITY` for an unknown validator is the model value
  `Absent`, which never fits. `WeightArithmetic` has infinity and NaN, on integers:
  rounding and overflow are the unit's own affair. NaN thresholds and negative
  weights are left out.
- `sort_by_faultweight` takes the lock of the weights once for each message, and
  `StartBatch` reads them all at once: a slash by another state between two of these
  reads is left out. It would change the order of the insertions, and whether a
  validator that was unknown is passed over, and no property of `shared_weights` depends
  on either.
- Hashes do not collide, and their order is arbitrary. The ids of messages are
  unique, except in `Identifiers`, which is about them.
- In `Finality` all validators weigh one, nobody equivocates on purpose, and the
  blocks carry no data of their own after the first.

## Not modelled

- Lock poisoning (a thread that panics while it holds the lock of `Weights`).
- The owner of a state can reach into it (`latests_messages_as_mut`,
  `State::new` and `new_with_default_state` with arbitrary parts); only the use the
  generative tests make of it is modelled.
- A validator without a weight makes `safety_oracles` panic (`blockchain.rs:574`);
  all weights are known in `SafetyOracle`.
- Several genesis blocks: `optimized_ghost` would start at the one a HashSet
  yields first.
- Serialization, `Debug` output, and the bytes that are hashed: input, output and
  wording.
- The estimator of `tests/common/binary.rs`, the ternary one with two values, and
  the block data of the tests, which nothing depends on.

## Plan

Done: all modules and proofs above.

Left, in this order:

1. `Finality` with validators that equivocate and are listed by the others, and
   with unequal weights.
2. Several genesis blocks in `Ghost`.
