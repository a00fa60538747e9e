------------------------------- MODULE Chain --------------------------------
(***************************************************************************)
(* Difficulty and configuration of a node among nodes with the same code   *)
(* (work.rs, node/config.rs, block/, Miner::mine, the check of             *)
(* on_block_new and the commits of node.rs): blocks are published on one   *)
(* another, the node prefers some to its chain head and asks for their     *)
(* commit, and reads its configuration at every commit that is reported.   *)
(*                                                                         *)
(* A block is the chain that ends in it, above genesis, so that genesis is *)
(* the empty sequence; two blocks on one predecessor with equal payloads   *)
(* and settings are not told apart. Which nonce a block has does not       *)
(* matter, only what its digest is.                                        *)
(* Clocks are not synchronised: a block may be older than the one before.  *)
(*                                                                         *)
(* Which fork is preferred is ForkChoice's matter: any block may be that   *)
(* the chain head does not descend from. Guards are PowNode's.             *)
(***************************************************************************)
EXTENDS Difficulty, FiniteSets, Functions

CONSTANTS DigestBytes,   \* bytes of a digest
          Default,       \* PowConfig::default
          Changes,       \* what the settings on the chain may be changed to
          MaxChanges,    \* bound: blocks that change settings
          Gaps,          \* seconds between a block's timestamp and the next one's
          Spans,         \* seconds after the head for which the difficulty is asked
          MaxBlocks,     \* bound: blocks above genesis
          MaxWaiting     \* bound: commits asked for and not yet reported

(* Settings are unsigned. A block count of 0, for which the modulo of      *)
(* is_tuning_block and is_adjustment_block panics on every node, is left   *)
(* out.                                                                    *)
Legal(k, value) ==
  /\ value \in Nat
  /\ k \in {"difficulty_adjustment_block_count", "difficulty_tuning_block_count"} => value # 0

ASSUME ChainAssumption ==
  /\ DigestBytes \in Nat \ {0} /\ {MaxChanges, MaxBlocks, MaxWaiting} \subseteq Nat
  /\ DOMAIN Default = Key /\ \A k \in Key : Legal(k, Default[k])
  /\ \A c \in Changes : /\ DOMAIN c \subseteq Key
                       /\ \A k \in DOMAIN c : c[k] = Unset \/ Legal(k, c[k])
  /\ Gaps \cup Spans \subseteq Int

VARIABLES blocks,      \* those judged by the node, and genesis
          chain_head,  \* PowState::chain_head, the block preferred
          waiting,     \* blocks whose commit was asked for and is not yet reported
          committed,   \* the validator's head, of the last commit reported
          head,        \* the block mined on, of the last commit handled to the end
          config,      \* PowNode::config
          posted,      \* challenges since the node started: block, configuration
          diverged,    \* history: since the node started, a setting of its
                       \* chain head was not there at the next chain head
          trouble      \* history: a call failed or the node was started while
                       \* commits were waiting, and it has not caught up since

vars == <<blocks, chain_head, waiting, committed, head, config, posted, diverged, trouble>>
-----------------------------------------------------------------------------
Genesis == <<>>
Payloads(b) == [h \in 1..Len(b) |-> b[h].payload]

SettingsOf(b) == IF b = Genesis THEN [k \in Key |-> Unset] ELSE b[Len(b)].settings
TimeAt(b, h) == IF h = 0 THEN 0 ELSE ConsensusAt(Payloads(b), h).timestamp
Expected(b) == ConsensusAt(Payloads(b), Len(b)).expected_difficulty

FreshConfig(b) == Load(Default, SettingsOf(b))
-----------------------------------------------------------------------------
Digest == [1..DigestBytes -> 0..ByteBits]

(* Slip: a block must reach the difficulty it announces itself.            *)
OwnMinimum(b) == Expected(b)

(* The minimum for a block: what its predecessor expected, and 0 after     *)
(* genesis.                                                                *)
MinimumDifficulty(b) ==
  IF Len(b) = 1 THEN 0 ELSE ConsensusAt(Payloads(b), Len(b) - 1).expected_difficulty

IsValidProofOfWork(d, difficulty) == Score(d) >= difficulty

(* Miner::mine: the difficulty a block on b is mined with. *)
ChallengeDifficulty(b, c) == IF b = Genesis THEN c.initial_difficulty ELSE Expected(b)

AnyNonce == 0

(* The payload of an answer to the challenge posted for b at time now by a *)
(* node configured as c.                                                   *)
Mined(b, now, lost, c) ==
  Serialize(GetDifficulty(Payloads(b), Len(b), now, lost, c), now, AnyNonce)

Override(settings, change) ==
  [k \in Key |-> IF k \in DOMAIN change THEN change[k] ELSE settings[k]]

Changers == {b \in blocks \ {Genesis} : SettingsOf(b) # SettingsOf(SubSeq(b, 1, Len(b) - 1))}
ChangesLeft == IF Cardinality(Changers) < MaxChanges THEN Changes \cup {<<>>} ELSE {<<>>}

(* The digests that a block on p may have with an answer to the challenge  *)
(* posted for block on. A stale answer was searched for with another       *)
(* predecessor than it is hashed with: nothing is known of its digest.     *)
Digests(p, on, c) ==
  {d \in Digest : p = on => IsValidProofOfWork(d, ChallengeDifficulty(on, c))}

(* What the payload of a block on p may be, with an answer to a challenge  *)
(* that a node configured as c posted for block on. Miner::mine puts it    *)
(* into the challenge, from what is still the same here.                   *)
Block(p, on, c, gap, change, lost) ==
  [payload |-> Mined(on, TimeAt(on, Len(on)) + gap, lost, c),
   settings |-> Override(SettingsOf(p), change)]

Passes(b, d) == IsValidProofOfWork(d, MinimumDifficulty(b))

(* A setting of one block is not there at another. *)
Withdraws(before, after) ==
  \E k \in Key : SettingsOf(before)[k] # Unset /\ SettingsOf(after)[k] = Unset

(* compare_forks, for a valid block: it is ignored, or becomes the chain   *)
(* head before its commit is asked for, even if commit_block then fails.   *)
Judge(b) ==
  \/ UNCHANGED <<chain_head, waiting, diverged, trouble>>
  \/ /\ chain_head' = b
     /\ diverged' = (diverged \/ Withdraws(chain_head, b))
     /\ \/ /\ Len(waiting) < MaxWaiting
           /\ waiting' = Append(waiting, b)
           /\ UNCHANGED trouble
        \/ trouble' = TRUE /\ UNCHANGED waiting

(* A block is finalized, passes the check and the validator, and is judged. *)
Publish(p, on, c) ==
  /\ Cardinality(blocks) =< MaxBlocks
  /\ \E gap \in Gaps, change \in ChangesLeft, lost \in {{}, 0..Len(on)} :
       LET b == Append(p, Block(p, on, c, gap, change, lost))
       IN  /\ b \notin blocks
           /\ {d \in Digests(p, on, c) : Passes(b, d)} # {}
           /\ blocks' = blocks \cup {b}
           /\ Judge(b)
  /\ UNCHANGED <<committed, head, config, posted>>

(* This node. Whether its answer is to the challenge for the head or to an *)
(* earlier one is a matter of UpdateStream.                                *)
Own == \E challenge \in posted : Publish(head, challenge[1], challenge[2])

(* A peer, configured as a node that was started on some block. *)
Peers == \E p, on \in blocks, c \in {FreshConfig(at) : at \in blocks} : Publish(p, on, c)
-----------------------------------------------------------------------------
(* Slip: the values of a head are taken only if all of them are there.     *)
ReloadIfAll == LET s == SettingsOf(chain_head)
               IN  IF \A k \in Key : s[k] # Unset THEN Load(config, s) ELSE config

(* reload_configuration: at the chain head, which may be ahead of the      *)
(* block in BlockCommit.                                                   *)
Reload == Load(config, SettingsOf(chain_head))

(* on_block_commit from the reload on, for the first commit asked for. A   *)
(* call may fail before the reload is done, or after it in Miner::mine;    *)
(* that initialize_block may fail after that is a matter of PowNode.       *)
OnBlockCommit ==
  /\ waiting # <<>>
  /\ waiting' = Tail(waiting) /\ committed' = Head(waiting)
  /\ \/ /\ config' = Reload
        /\ head' = Head(waiting) /\ posted' = posted \cup {<<head', config'>>}
        /\ trouble' = (trouble /\ waiting # <<chain_head>>)
     \/ /\ config' \in {config, Reload}
        /\ trouble' = TRUE
        /\ UNCHANGED <<head, posted>>
  /\ UNCHANGED <<blocks, chain_head, diverged>>

(* with_config and initialize, on what the validator's head is by then. It *)
(* still reports the commits that wait.                                    *)
Restart ==
  /\ \E n \in 0..Len(waiting) :
       LET b == IF n = 0 THEN committed ELSE waiting[n]
       IN  /\ chain_head' = b /\ committed' = b /\ head' = b
           /\ config' = FreshConfig(b) /\ posted' = {<<b, config'>>}
           /\ waiting' = SubSeq(waiting, n + 1, Len(waiting))
           /\ trouble' = (n < Len(waiting))
  /\ diverged' = FALSE
  /\ UNCHANGED blocks

Init == /\ blocks = {Genesis}
        /\ chain_head = Genesis /\ committed = Genesis /\ head = Genesis
        /\ waiting = <<>>
        /\ config = FreshConfig(Genesis) /\ posted = {<<Genesis, config>>}
        /\ diverged = FALSE /\ trouble = FALSE

Next == Own \/ Peers \/ OnBlockCommit \/ Restart

Spec == Init /\ [][Next]_vars
-----------------------------------------------------------------------------
(* What the node would announce in a block mined gap seconds after its     *)
(* head.                                                                   *)
NextDifficulty(gap, lost) ==
  GetDifficulty(Payloads(head), Len(head), TimeAt(head, Len(head)) + gap, lost, config)

(* No difficulty wraps below 0, and only an initial difficulty that was    *)
(* set beyond the end of retargeting makes one that lies there.            *)
InitialDifficulties ==
  {Default.initial_difficulty} \cup
  {c.initial_difficulty : c \in {x \in Changes : "initial_difficulty" \in DOMAIN x}}

InRange(d) ==
  /\ d \in Nat
  /\ d =< MaxDifficulty \/ \E i \in InitialDifficulties : d =< i

(* However blocks and settings follow one another, and whatever cannot be  *)
(* fetched, no difficulty leaves the range that retargeting keeps to       *)
(* (work.rs:89 and 92), so that the unsigned number never wraps.           *)
TypeOK ==
  /\ \A b \in blocks : \A h \in 1..Len(b) :
       /\ IsPowAt(Payloads(b), h)
       /\ InRange(ConsensusAt(Payloads(b), h).expected_difficulty)
       /\ DOMAIN b[h].settings = Key
  /\ {chain_head, committed, head} \cup Range(waiting) \subseteq blocks
  /\ DOMAIN config = Key /\ \A k \in Key : Legal(k, config[k])
  /\ posted \subseteq blocks \X [Key -> Nat] /\ (<<head, config>> \in posted \/ trouble)
  /\ diverged \in BOOLEAN /\ trouble \in BOOLEAN

(* A chain whose blocks are equally far apart is retargeted by how this    *)
(* compares with the interval configured: elapsed_time counts as many      *)
(* intervals as it spans, also where the chain is shorter than the         *)
(* configured count (work.rs:138); the tuning reacts to any difference,    *)
(* the adjustment to less than half or more than twice the interval        *)
(* (work.rs:89 to 95 and 114 to 120), and where both are due the tuning    *)
(* does (work.rs:64).                                                      *)
SteadyPaceDecides ==
  \A gap \in Spans :
    LET interval == config.seconds_between_blocks
        tuning == IsTuningBlock(Len(head), config)
        adjusting == ~tuning /\ IsAdjustmentBlock(Len(head), config)
        d == Expected(head)
        next == NextDifficulty(gap, {})
    IN  (/\ head # Genesis
         /\ \A h \in 2..Len(head) : TimeAt(head, h) - TimeAt(head, h - 1) = gap)
          => /\ next > d <=> /\ d < MaxDifficulty
                             /\ \/ tuning /\ gap < interval
                                \/ adjusting /\ 2 * gap < interval
             /\ next < d <=> /\ d > 0
                             /\ \/ tuning /\ gap > interval
                                \/ adjusting /\ gap > 2 * interval

(* Of two blocks mined on the same head the later one never asks for more, *)
(* whichever retargeting applies (work.rs:73 to 121).                      *)
SlowerIsNeverHarder ==
  LET next == [gap \in Spans |-> NextDifficulty(gap, {})]
  IN  \A early, late \in Spans : early =< late => next[early] >= next[late]

(* A block that cannot be fetched either does not matter or makes the      *)
(* difficulty the initial one: no third value arises (work.rs:55). And it  *)
(* does not matter below the predecessors whose time the longer            *)
(* retargeting needs, one at least (work.rs:142 to 161): a node that has   *)
(* forgotten older blocks computes what everybody does.                    *)
LostBlocksReset ==
  \A gap \in Spans :
    LET next == NextDifficulty(gap, {})
    IN  \A lost \in SUBSET (0..(Len(head) - 1)) :
          /\ NextDifficulty(gap, lost) \in {next, config.initial_difficulty}
          /\ (\A i \in lost, total \in {2, config.difficulty_adjustment_block_count,
                                        config.difficulty_tuning_block_count} : Len(head) - i >= total)
               => NextDifficulty(gap, lost) = next

(* A block with an answer that was searched for its own head passes every  *)
(* peer's check: the miner takes the difficulty from the header of the     *)
(* head, the check from the predecessor of the block, also where the block *)
(* announces another one itself (miner.rs:53 to 57, node.rs:131, "use the  *)
(* lagged difficulty stored in the predecessor"). So only a block with a   *)
(* stale answer may be failed.                                             *)
FreshAnswersPass ==
  LET next == {Block(head, head, config, gap, <<>>, lost) : gap \in Gaps, lost \in {{}, 0..Len(head)}}
  IN  \A d \in Digests(head, head, config), b \in next : Passes(Append(head, b), d)

(* Two nodes that mine on the same head with no commit outstanding compute *)
(* the same difficulties: unless a setting it had read was withdrawn, the  *)
(* node's configuration is that of a node started on its head. While       *)
(* commits are outstanding it may be that of a node started on one of      *)
(* them, ahead of the head mined on, never an older one; and after a       *)
(* failed call or a start among commits it is right again as soon as the   *)
(* block preferred is the last one to be committed (node.rs:457, "on-chain *)
(* settings as of the current head height", against 405).                  *)
FreshNodeAgrees ==
  ~diverged /\ ~trouble => \E b \in {head} \cup Range(waiting) : config = FreshConfig(b)
=============================================================================
