----------------------------- MODULE Difficulty -----------------------------
(***************************************************************************)
(* The score of a digest and the difficulty expected after a block         *)
(* (work.rs), and the on-chain configuration they are computed with        *)
(* (node/config.rs).                                                       *)
(*                                                                         *)
(* Blocks are the payloads of a chain by height, without the genesis       *)
(* block, which has no PoW payload. Times are whole numbers, and so the    *)
(* comparisons with half and twice the expected time are multiplied out.   *)
(***************************************************************************)
EXTENDS Payload, FiniteSetsExt

CONSTANTS ByteBits,        \* bits of a byte
          MaxDifficulty    \* the difficulty at which retargeting stops to rise

ASSUME DifficultyAssumption == {ByteBits, MaxDifficulty} \subseteq Nat \ {0}
-----------------------------------------------------------------------------
(* A digest is the number of leading zero bits of each of its bytes. *)

(* digest_score: a byte of zeros counts in full and the scan goes on; a    *)
(* byte whose highest bit is set is passed over; any other ends it.        *)
Score(digest) ==
  LET from[i \in 1..(Len(digest) + 1)] ==
        IF i > Len(digest) THEN 0
        ELSE IF digest[i] \in {0, ByteBits} THEN digest[i] + from[i + 1]
        ELSE digest[i]
  IN  from[1]
-----------------------------------------------------------------------------
(* PowConfig, but for the timeout of the event loop. *)
Key == {"seconds_between_blocks", "difficulty_adjustment_block_count",
        "difficulty_tuning_block_count", "initial_difficulty"}

(* A setting that is not on the chain, or cannot be parsed. *)
Unset == -1

(* PowConfig::load *)
Load(config, settings) ==
  [k \in Key |-> IF settings[k] = Unset THEN config[k] ELSE settings[k]]
-----------------------------------------------------------------------------
IsPowAt(blocks, h) == h \in 1..Len(blocks) /\ IsReadable(blocks[h])
ConsensusAt(blocks, h) == Deserialize(blocks[h])

(* elapsed_time: one predecessor is always fetched, then more until total  *)
(* timestamps are at hand or one without PoW consensus has been fetched.   *)
Wanted(total) == IF total > 2 THEN total - 1 ELSE 1

OldestRead(blocks, h, total) ==
  Min({i \in 1..h : h - i =< Wanted(total) /\ \A j \in i..(h - 1) : IsPowAt(blocks, j)})

Fetched(blocks, h, total) ==
  {j \in 0..(h - 1) : h - j =< Wanted(total) /\ j >= OldestRead(blocks, h, total) - 1}

(* Slip: the block itself is not counted. *)
CountWithoutHead(blocks, h, total) == h - OldestRead(blocks, h, total)

Count(blocks, h, total) == h - OldestRead(blocks, h, total) + 1

(* Slip: a fast chain gets easier. *)
RetargetBackwards(difficulty, taken, fast, slow) ==
  IF taken > slow /\ difficulty < MaxDifficulty THEN difficulty + 1
  ELSE IF taken < fast /\ difficulty > 0 THEN difficulty - 1
  ELSE difficulty

(* Slip: there is no lower end. *)
RetargetBelowZero(difficulty, taken, fast, slow) ==
  IF taken < fast /\ difficulty < MaxDifficulty THEN difficulty + 1
  ELSE IF taken > slow THEN difficulty - 1
  ELSE difficulty

(* The comparisons of both kinds of retargeting. *)
Retarget(difficulty, taken, fast, slow) ==
  IF taken < fast /\ difficulty < MaxDifficulty THEN difficulty + 1
  ELSE IF taken > slow /\ difficulty > 0 THEN difficulty - 1
  ELSE difficulty

TimeTaken(blocks, h, now, total) ==
  now - ConsensusAt(blocks, OldestRead(blocks, h, total)).timestamp

TimeExpected(blocks, h, total, config) ==
  Count(blocks, h, total) * config.seconds_between_blocks

TuningDifficulty(blocks, h, now, config) ==
  LET total == config.difficulty_tuning_block_count
      expected == TimeExpected(blocks, h, total, config)
  IN  Retarget(ConsensusAt(blocks, h).expected_difficulty,
               TimeTaken(blocks, h, now, total), expected, expected)

AdjustmentDifficulty(blocks, h, now, config) ==
  LET total == config.difficulty_adjustment_block_count
      expected == TimeExpected(blocks, h, total, config)
  IN  Retarget(ConsensusAt(blocks, h).expected_difficulty,
               2 * TimeTaken(blocks, h, now, total), expected, 4 * expected)

IsTuningBlock(h, config) == h % config.difficulty_tuning_block_count = 0
IsAdjustmentBlock(h, config) == h % config.difficulty_adjustment_block_count = 0

(* A get_block of elapsed_time fails. *)
FetchError(blocks, h, lost, config) ==
  LET total == IF IsTuningBlock(h, config) THEN config.difficulty_tuning_block_count
               ELSE config.difficulty_adjustment_block_count
  IN  /\ IsTuningBlock(h, config) \/ IsAdjustmentBlock(h, config)
      /\ Fetched(blocks, h, total) \cap lost # {}

(* calculate_difficulty, when every fetch succeeds. *)
Calculate(blocks, h, now, config) ==
  IF IsTuningBlock(h, config) THEN TuningDifficulty(blocks, h, now, config)
  ELSE IF IsAdjustmentBlock(h, config) THEN AdjustmentDifficulty(blocks, h, now, config)
  ELSE ConsensusAt(blocks, h).expected_difficulty

(* Slip: a block that cannot be had is taken for the end of the chain. *)
GetDifficultyCutShort(blocks, h, now, lost, config) ==
  IF h = 0 THEN config.initial_difficulty
  ELSE Calculate([i \in 1..Len(blocks) |-> IF i \in lost \ {h} THEN Alien ELSE blocks[i]],
                 h, now, config)

(* get_difficulty for the block at height h, with the heights in lost out  *)
(* of reach. An error falls back to the initial difficulty.                *)
GetDifficulty(blocks, h, now, lost, config) ==
  IF h = 0 \/ FetchError(blocks, h, lost, config) THEN config.initial_difficulty
  ELSE Calculate(blocks, h, now, config)
=============================================================================
