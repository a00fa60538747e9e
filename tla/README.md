# Verification of the Creditcoin legacy proof-of-work consensus engine

This directory holds TLA+ modules for the consensus engine in `src/`, the TLC
configurations that model-check them, and proofs checked by TLAPS. The code is
the reference: every definition below is read off a Rust function, named in
`PROJECT.json` under `map` with its lines.

## 1. The system

The engine is a process beside a Sawtooth validator. The validator sends it
`Update`s over a channel and answers its service calls. The engine decides
which new blocks are good, which of two chain heads to keep, and publishes a
block of its own when its miner thread has found a proof of work.

| component (source) | state | operations | talks to |
|---|---|---|---|
| miner thread (`miner/worker.rs`) | challenge, nonce, `current_difficulty` | first `recv`; hash; `try_recv`; return on `Shutdown` | two unbounded FIFO channels (`miner/channel.rs`) |
| miner (`miner/miner.rs`) | `answer`, the worker handle | `mine`, `try_create_consensus`, drop and join | channels; `get_block`; difficulty |
| node, publishing (`node/node.rs`, `guard.rs`, `state.rs`) | guards `Consensus`, `Summarized`, `Finalized` | `initialize`, `try_publish`, `on_block_commit`, `on_block_invalid` | miner; `summarize_block`, `finalize_block`, `cancel_block`, `initialize_block` |
| node, chain (`node/node.rs`, `block_ancestors.rs`, `paired_fork.rs`, `block_header.rs`) | `chain_head` | `on_block_new`, `on_block_valid` (`compare_forks`, `resolve_fork`) | `get_block`, `check_blocks`, `fail_block`, `commit_block`, `ignore_block` |
| event loop (`futures/`) | `publishing_flag`, `new_chainhead_flag`, timer | futures `updater`, `scheduler`, `committer` | update channel, node |
| engine (`engine.rs`) | configuration | `start`: node, runtime, loop | validator |
| difficulty (`work.rs`) | none | `get_difficulty`, `digest_score` | `get_block` |
| configuration (`node/config.rs`) | four settings | `load` | `get_settings` |
| payload codec (`block_consensus.rs`) | none | `serialize`, `deserialize` | - |
| service wrapper (`node/service.rs`) | none | `get_block` | validator |
| the rest (`main.rs`, `primitives/`, `utils/`, printers, macros) | none | logging, arguments, formatting | - |

There are three sources of concurrency. The miner thread runs beside the engine's
thread. The three futures of the event loop share two flags and take turns
whenever the updater sleeps. And the validator sends updates at any time.

What is hard, and what makes each part correct:

* **Miner.** The drain loop reads a channel the worker is writing to, while
  new challenges are on their way in the other. Answers must improve, none may be
  handed out twice, and an answer to an old challenge may not pass for one to
  the new challenge. The thread must be told to stop before it is joined.
* **Publishing.** `try_publish` is re-entered after every refusal and shares
  its guards with `on_block_commit`, which cancels, clears and starts over, and
  may fail at each of five calls. The guards must keep telling what the
  validator is doing; there must be no second block on a head, and no wedge.
* **Event loop.** Commits, the timer, the committer and the eager attempt come
  in orders nobody tested (three scenarios are written down as empty functions at
  `update_stream.rs:258` to `274`).
* **Chain.** `BlockValid` arrives in any order, `get_block` may fail half way
  through a walk, and forks of unequal height are walked unevenly. The head must
  not rewind or flip, growth must be accepted, more work must win.
* **Node and validator together.** `chain_head` runs ahead of the validator's
  head while commits are executed; own blocks come back as new blocks, compete
  with peers' blocks on the same head and may be rejected. The two must agree
  again when all is done, and the node must be free to publish.
* **Difficulty and configuration.** Off-by-one in how many intervals are
  counted, two retargetings with different bands on one number, a fetch that
  fails half way, settings that a node keeps from heads it has left, and
  settings read at a head that is ahead of the block mined on. Nodes on one head
  must compute the same difficulty, and know where they do not.

`PROJECT.json` lists each hazard at its line with the properties that cover it.

## 2. Modules

```
Answers <- Worker <- Miner <- MinerRefinement <- MinerProofs
   ^                   ^            |                        MCMiner
   +- AnswerBox <- AnswerBoxProofs <+
PowNode <- PowNodeProofs                                     MCPowNode
Miner, PowNode <== UpdateStream <- UpdateStreamProofs        MCUpdateStream
ForkChoice <- TreeProofs <- ForkChoiceProofs                 MCForkChoice
PowNode, ForkChoice <== Engine <- EngineProofs               MCEngine
Payload <- Difficulty <- Chain <- ChainProofs                MCChain
```

`<-` is EXTENDS. `<==` is INSTANCE: `UpdateStream` and `Engine` instantiate
`PowNodeProofs` and `ForkChoiceProofs` under the names `Nd` and `Fc`, so that
what is proved of a part can be cited where it is composed.

* **`Answers`** - challenges and answers as data. A challenge is its number in
  the order of posting and its difficulty. A hash is only its score: any number
  in `1..MaxScore` (or a miss), because which nonce gives which digest is not
  known before it is computed. `mine` stamps each challenge with the time, so no
  two are equal.
* **`Worker`** - `Worker::task` as four steps: `TakeMessage` (blocking `recv`
  and `try_recv` alike), `NextNonce` (nothing to read), `Solve`, `Miss`. Between
  any two of them the engine's thread may act. `worker.level` is
  `current_difficulty`.
* **`Miner`** - `Mine`, `TryCreateConsensus`, `DropWorker`, `Join`. The drain
  loop of `try_create_consensus` is one step: it ends when it finds the
  channel empty, its effect depends only on the last message taken, and nobody
  else reads the channel or the answer, so it takes place at that last
  `try_recv`. `yielded` is a history of what was handed out.
* **`AnswerBox`** - what the miner promises, with no threads: a box with the best
  answer so far to one challenge; a new challenge empties it, a better answer
  replaces the content, taking empties it. **`MinerRefinement`** maps `Miner` to
  it: the challenge and level are the worker's (including the `Started` it has
  sent but the engine has not read), the box is what a drain would return now.
* **`PowNode`** - the guards, and the block the validator is building for the
  node (external: `candidate`). Handlers are sets of outcomes, one for each way
  the service may answer: `TryPublish`, and `OnBlockCommit` with its steps in the
  code's order (eager attempt whose error is dropped, cancel, reload
  configuration, clear guards, `mine`, `initialize_block`), each of which may fail
  and leave the earlier ones done. `NotReady` and `Failing` say which calls may be
  refused in a run. A service with no block refuses to cancel, summarize or
  finalize: this is what the guard at `node.rs:190` is for. `Stop` is the end
  of the event loop for any reason but a publishing error.
* **`UpdateStream`** - the event loop over `Miner` and `PowNode`, both by
  `INSTANCE`. The updater goes through publish, receive and sleep; the flags and
  the timer are as in the code. `scheduler` and `committer` act only while the
  updater sleeps: all three are futures of one task, polled in turn, and the
  updater's only `await` is its 10 ms sleep. Updates the publishing half ignores
  are `Other`; `Shutdown` and a closed channel are `Stop`. `ImplementsPowNode`
  maps all of it to `PowNode` alone, whose miner may have any answer or none:
  guards and head are the same, and `running` is that the updater has not left.
* **`ForkChoice`** - a tree of blocks, chosen in the initial state with the work
  of each, so one run covers every small tree; a few blocks may be weak (below
  the difficulty their predecessor announced) or alien (no readable PoW payload).
  `on_block_new` and `on_block_valid` are operators over it, with both iterators
  and `resolve_fork` as written, uneven counting included. `lost` are the blocks
  `get_block` fails for during one handler.
* **`Engine`** - `PowNode` and `ForkChoice`, both by `INSTANCE`, and the validator
  between them. A head of the one is a block of the other. `TryPublish` is the
  timed attempt, taken between any two updates; the `OnBlock...` actions take the
  first update of the queue, as `handle_update` does. A block that is finalized is
  born on its candidate's head and announced to the node like a peer's
  (`Publishes`). The validator (external) announces blocks whose predecessor was
  checked (`Arrive`), validates (`Validate`), executes commits in the order it was
  asked for them (`Execute`) and reports each. The miner is reduced to what
  `UpdateStream` and `Miner` show of it: a fresh answer once the challenge is
  acknowledged, a stale one before; flags and timer are left to `UpdateStream`.
* **`Payload`** - the codec: a payload is its tag, the glue byte after it and its
  fields; a field is a number and the types that parse it.
* **`Difficulty`** - pure operators: `Score` (a digest is the number of leading
  zero bits of each byte), `Load`, and `GetDifficulty` with the two retargetings
  and the walk of `elapsed_time` over the payloads of a chain. The walk is not
  run step by step: `OldestRead` is where it stops, `Count` and `Fetched` follow.
* **`Chain`** - the tree of blocks that nodes with this code publish; a block is
  the chain that ends in it. Each payload is what `Mined` writes for the time, the
  configuration and the fetches that failed, each block may change settings.
  `Own` is a block of this node: on its head, with an answer to any challenge
  `posted` since it started, so also with a stale one. Of the digest of a stale
  answer nothing is known, so it passes the check or not; only a block that passes
  gets further. `Peers` is a block of a node that was started anywhere, stale answers
  included. `Judge` is `compare_forks`: any block that passes may become
  `chain_head`, a descendant or one on another branch, before its commit is asked
  for. `OnBlockCommit` takes the first commit that waits, reads the configuration at
  `chain_head` as the code does, and posts a challenge for the block committed;
  it may fail before or after the configuration is read. `Restart` starts this
  node over on whatever the validator's head is by then, with the remaining
  commits still to be reported.

Definitions whose comment starts with "Slip" are not part of a
specification. Each is a plausible mistake in the definition that follows it (or
one nearby), and `PROJECT.json` pairs it with the property that notices it.

## 3. Model checking

| run | what it shows | bounds |
|---|---|---|
| `miner` | implements `AnswerBox`; answers only improve, meet their difficulty, none is stale once acknowledged; channels stay connected; challenges arrive; drop joins | 3 challenges, scores to 3, difficulties 0 and 2 |
| `node` | whichever call of publishing fails: one block per head, `Finalized` never lies | 3 heads, 2 answers |
| `stream` | loop, node and miner, fairly scheduled: implements `PowNode`, so no head is skipped and none gets two blocks; no answer is used twice and later heads get newer ones, guards mirror the validator's block, every commit can start the next block and arms the timer, answers are never ahead, a block is published on the last head, the loop stops when told and only then | 3 heads, queue of 2, scores to 3, summarize and finalize may be refused |
| `forks` | announced blocks are checked or failed, growth accepted, equal heights by own work, no rewind, no flip | every tree of 6 blocks, works 1 and 4, one block weak or alien |
| `engine` | node and validator, any call of publishing, or `commit_block`, failing: miner and validator work on the same block, one own block per head; and while none fails: each commit is an improvement, all heads agree when nothing is outstanding, and the node may then publish | every course of 3 blocks above genesis, works 1 and 4 |
| `chain` | difficulties stay in the range of retargeting, rise and fall exactly as the pace compares with the interval, fall with time, are reset or unchanged by lost blocks, and unchanged by those out of the window; a block with an answer to its own head passes the check; a node that has seen no setting withdrawn and no failed call has the configuration of one started on its head or, while commits are outstanding, on a block they are of | every tree of 3 blocks above genesis at one pace, 2 commits outstanding, 1 change of settings, block counts 1 to 3, digests of 2 bytes of 2 bits |
| `node_wedged` (violation) | see finding 2 | one failing call |
| `stream_stale` (violation) | see finding 1 | 2 heads |
| `forks_work` (violation) | see finding 3 | 4 blocks |
| `forks_lost` (violation) | see finding 4 | 4 blocks, one lost |
| `forks_blame` (violation) | see finding 5 | 3 blocks, one lost |
| `engine_stuck` (violation) | see finding 6 | 2 blocks above genesis |

Why the bounds suffice. Three challenges give one being worked on and two
waiting, or an old answer behind two acknowledgements; scores to 3 leave room for
a second, better answer to a challenge of difficulty 2, and difficulty 0 is the
boundary of `saturating_sub`. Three heads give a commit while the previous one is still
waiting for the committer. A queue of two lets a commit follow a commit with no
sleep in between. Six blocks give forks of every shape with up to three blocks
on one side and two on the other; works 1 and 4 let one block outweigh three. In
`Engine` three blocks above genesis give an own block and two of peers, on the
same head or one above the other, with a commit still to be executed when the
next is judged. In `Chain` three blocks contain a block of each kind (neither
retargeting, adjustment, tuning, and both due at once), counts that reach past
genesis and counts that do not, and two branches with a change of settings on
one of them. Two commits outstanding put `chain_head` ahead of the block in
`BlockCommit`, and let a node start among commits. Blocks are published at one
pace, which is half the default interval and more than twice the changed one, so
that a tuning raises the difficulty on one branch and both retargetings lower it
on the other; a second pace makes ten times as many states and is left to the
proofs, which are about any times. The difficulty after the head is asked for at
further paces: back in time, and on both sides of half and of twice the default
interval. The largest difficulty is 2 and the initial ones
are 0 and 3, so that both ends are met and one is left. In the code the maximum is 255, and
a byte has 8 bits: `MaxDifficulty` and `ByteBits` are parameters. The bounds are
`MaxChallenges`, `MaxScore`, `MaxHead`, `MaxQueue`, `MaxOther`, `MaxBlock`,
`MaxOdd`, `MaxLost`, `MaxChanges`, `MaxBlocks` and `MaxWaiting`; each is in a
guard or a set of the module.

A stopped process is an explicit stuttering action (`Exited`, `Stopped`). Deadlock
is checked but in the runs of `ForkChoice`'s `forks` and of `Engine`: there the
bound on blocks lets everything come to rest, as a validator that has nothing
to tell does. `PublishesWhenQuiet` says what a rest of `Engine` must look like.

**Fairness** (`Miner!FairSpec`, `UpdateStream!Fairness`). The operating system
runs both threads: weak fairness of the updater, of drop and join, and of the
worker. `scheduler` and `committer` are enabled only during a sleep, which comes
and goes, so they need strong fairness; the code justifies it because at each
sleep `select!` polls every future, so one that is ready is not passed over for
ever. `LastHeadIsPublished` also needs the search to succeed (`SF` of
`Solve`): a random search that may go on for ever finds a better score if there
is one; `LastHeadIsPublished` excepts the head on which a refused attempt has used
up the best score. Nothing is assumed of the validator; it may stop talking at
any point. `engine_stuck` alone assumes that the validator does what it was asked
(`Engine!Working`), and that an enabled publication happens; what it refutes does
not come about even so. No fairness is assumed of peers: a network may be silent.

### Findings

1. `stream_stale`: after a commit the node may finalize the block on the new head
   with an answer to the old challenge. Until the worker has read the new
   challenge, the last message in the channel is still a `Solved` for the old
   one (`node.rs:350`, against the comment at 366). Whoever validates that block
   hashes the nonce with the new predecessor, for which it was never searched
   (`block_header.rs:64`). `FreshOnceAcknowledged`
   shows this is the only window, `AnswersAreNotAhead` that it goes one way.
2. `node_wedged`: `on_block_commit` clears the guards before
   `initialize_block`. If that call fails once, no block is being built and no
   guard says so; from then on every commit fails at `cancel_block`.
3. `forks_work`: for unequal heights the higher head's own work is left out and
   the lowest orphan counts twice (`node.rs:258` to 315), so a fork with more
   work can be ignored.
4. `forks_lost`: a `get_block` error during the ancestor walk is taken for the end
   of the chain, and the assertion at `node.rs:288` fails. In a release build,
   which has no such assertion, the head may even go back to an ancestor that is
   reported valid again: `HeadNeverRewinds` is stated, and proved, of a service
   that finds every block.
5. `forks_blame`: if the predecessor of a new block cannot be fetched, the
   predecessor is failed, not the block (`node.rs:114`, against 80).

6. `engine_stuck`: `on_block_invalid` does nothing, against the comment at
   `node.rs:163`. When the validator rejects a block of the node's own, the guard
   `Finalized` stays set and the node publishes nothing until some other
   block is committed; without peers that is never. Together with finding 1, whose
   blocks are the ones likely to be rejected, a lone node can stop for good.

Not findings, but limits of `FreshNodeAgrees`; in each of these cases two nodes that
mine on the same head may compute different difficulties:

* While commits are outstanding `chain_head` is ahead of the block in
  `BlockCommit`, and `reload_configuration` reads at `chain_head` (`node.rs:462`,
  assigned at 405): the node mines on one block with the settings of a later one.
  The property says it is always one of the outstanding blocks, and the head's
  own again when none is.
* `load` keeps a value for which the chain has no setting any more, so a node that
  has left a branch on which a setting was made, or has seen it withdrawn, keeps
  it. `diverged` marks these nodes until they are restarted.
* After a failed `commit_block` the configuration may be read at a block that is
  never committed; after a failed `reload` or `mine` it may be an older one; a node
  started among commits mines on a block that is about to be replaced. `trouble` marks these nodes,
  until the block preferred is the last one to be committed.

And a limit of `FreshAnswersPass`: it is about answers searched for the head they
are published on. Finding 1 is that others are published too.

## 4. Proofs

All are checked by `tlapm` with no step left out, for every value of the
constants that satisfies the modules' assumptions: at least one challenge, score,
head, block and place in the channel; difficulties are naturals and the work of
a block is positive (`2u64.pow(score)`); `NoConsensus` is no answer and the
named calls exist; settings are unsigned and no block count is 0. Every safety invariant and every action
property that a passing run checks is stated by a theorem.

* **`AnswerBoxProofs`** - `BoxKeepsItsPromises`. `OnlyImprovements` is not
  inductive: nothing in it bounds what the box holds now. `LevelBounds` relates
  everything handed out to the current challenge and level, and the box's content
  to all of it; together they are inductive (`BoxInv`).
* **`MinerProofs`** - `MinerImplementsAnswerBox`, and through it
  `NeverYieldsAnAnswerTwice` and `AnswersAreProofsOfWork`. The mapping needs
  `ChannelInv`: the ids on their way to the worker increase, past the one it
  works on (`ChallengesInOrder`), the latest is in the channel or with the worker
  (`LatestOnItsWay`), no `Shutdown` before the drop (`RunsUntilDropped`), and
  `answer` is empty between drains. `NoStaleAnswerOnceAcknowledged` follows from
  `LatestOnItsWay` and the box's invariant, `ChannelsStayConnected` from
  `RunsUntilDropped`.
* **`PowNodeProofs`** - `NodeTypeCorrect`, `PublishesOncePerHead` and
  `FinalizedGuardNeverLies`, whichever calls are refused or fail. `NodeOK`
  strengthens them: nothing is published above the current head, and the
  block being built is on a head with nothing published. One lemma per handler
  step shows that its every outcome keeps `NodeOK`. The lemmas are about any node
  and head, for use in the compositions: what an outcome may publish and build
  (`AttemptEffect`, `CommitEffect`), and, with a service that never fails, that
  the guards say what the validator does (`Tracks`).
* **`UpdateStreamProofs`** - `StreamInv` has a part for each of the parts composed.
  The miner's: whatever is asked for or answered was posted, and reaches its
  difficulty. The node's: `NodeOK` and `Tracks`, and the challenge of a head is
  posted before the block on it is begun (`PostedBeforeBegun`), which with the
  first gives `AnswersArePublishedInTime`. The queue's: the commits that wait are
  of later heads, in order, and `Stop` is last. The loop's: a raised flag belongs
  to a fired timer, and the loop ends for `Stop` only, which needs `Tracks`. Two
  more are inductive on top of it. `OrderInv`, for `NoAnswerTwice`: the worker is
  past every answer that was published, the challenges on their way to it go on
  from there, and what a drain would return was not published. `CommitsWait`, for
  `LoopImplementsNode`: every commit the node has not taken is in the channel, so
  that the first of them is the next head. `FinalizedIsTrue` carries a theorem of
  `PowNodeProofs` over to the loop by way of that refinement.
* **`TreeProofs`**, **`ForkChoiceProofs`** - about every tree, of any number of
  blocks and any works. `TreeProofs` has the facts about branches, heights,
  ancestor walks and sums of work. What is recursive in `ForkChoice` is written as
  recursive functions; each is shown to satisfy its equation, and an induction on
  blocks or numbers is a set that would have a least counterexample. Then: the
  orphans of a head are the blocks between the two heights (`OrphansAreBetween`),
  the uneven walk of `resolve_fork` gives an ancestor less than its descendant
  (`AncestorIsWorthLess`), each side at equal heights its own work
  (`OwnSide`), and swapping the two heads swaps what is compared
  (`ComparisonIsSymmetric`). From these follow `GrowthIsCommitted`,
  `WorkDecidesAtEqualHeight`, `HeadsDoNotFlip` and `NoRewind`. `ForkInv` is what
  they need of the state: whatever is in validation can be read, down to genesis.
  `AnnouncedJudged` and `NoRewind` assume `MaxLost = 0`, because both are false
  when fetches may fail (findings 5 and 4). `VerdictsStay` shows that a verdict
  depends only on what is below the two blocks, for a tree that grows.
* **`EngineProofs`** - `EngineInv`. Whichever of these calls fails: blocks that are not born have
  no part in anything (`TreeInv`, `BlocksInv`), an update is sent once
  (`UpdatesInv`), and a block on its way from new over valid to committed has not
  been a head nor been built on (`PathInv`): `NodeOK` alone would allow a second block on
  a head that is committed twice. These give `OneBlockOnABlock` and
  `MinerAndValidatorAgree`. While no call has failed (`trouble`): `HeadsInv` follows
  the way from the head mined on over the last commit reported to the last one asked
  for, which gives `HeadsAgree`; `OwnInv` says that while no block is being built
  one is still to be judged, or was rejected, or the node has moved on, which gives
  `PublishingGoesOn`; `PreferredInv` says that each commit asked for is preferred
  to the one before, which gives `CommitsImprove`. `PreferredInv` is about a tree to
  which blocks are added while commits wait, so it needs `VerdictsStay`.
* **`ChainProofs`** - `ChainTypeCorrect`, `FollowersAgree`, `LaterIsNotHarder`,
  `LossesResetOrDoNotMatter`, `SteadyPaceRetargets` and `FreshAnswersAlwaysPass`.
  `TypeOK` is not inductive: whether a configuration stays legal depends on the
  settings in the blocks. `ChainInv` says of every block that it is one `Mined`
  writes, with settings that are unset or legal, and of every challenge posted that
  its configuration is legal. `RetargetInRange`, `RetargetFallsWithTime` and
  `RetargetMoves` are about one retarget, whatever times it compares;
  `OldestIsOnChain` finds the block whose time is read. `FollowersAgree` rests on
  `LoadFollows` (what was loaded before makes no difference to a load while no
  setting is withdrawn) and on `AgreeInv`: the configuration is that of the last block
  it was read at, which is the head mined on or outstanding, and every setting
  it had is still there at `chain_head`, which is the last one asked for.
  `SteadyPaceRetargets` climbs from the oldest block read to the head
  (`SteadySpan`): the time measured and the time expected are equally many gaps and
  intervals, and so compare as one gap with one interval (`PacesCompare`).
  `FreshAnswersAlwaysPass` takes the miner's difficulty and the checker's
  minimum from the same block; on genesis the minimum is 0, which every score
  reaches because the scan of a digest ends (`ScoreIsNat`).

Only model-checked: liveness, which is beyond the prover (`ChallengeReachesWorker`,
`DropJoins`, `CommitRearmsTimer`, `LastHeadIsPublished`, `StopsWhenTold`). The
violations are counterexamples and are found by TLC alone.

## 5. Not modelled, and the plan

Left out for good: `main.rs`, logging, printers, hex and clock helpers (no state
of the protocol); the bytes of hashes; memory ordering of the two flags (they are
only touched by futures of one task).

Left out of the modules above: a block count of 0, for which every node panics
(`work.rs:124`); work of blocks with a score of 64 and more (`block_header.rs:44`);
a head without PoW consensus other than genesis, on which `mine` panics
(`miner.rs:50`); a startup that fails, which ends the process; clocks finer than a
second, and the rounding of `f64`; `consensus_settings_view`, which nothing calls.

Planned, in this order:

1. That `Engine` implements `PowNode` and `ForkChoice`: both would first have to
   speak of blocks in place of numbered heads, and of a tree that grows.
2. `Network` - several nodes and the same blocks in different orders: the
   preference among three forks may be cyclic (`node.rs:317`), do the nodes agree?

## 6. Running

```
tlc -config MCMiner.cfg MCMiner          # and likewise for the other .cfg files
tlapm MinerProofs.tla                    # and likewise for the other ...Proofs modules
```
