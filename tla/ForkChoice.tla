----------------------------- MODULE ForkChoice -----------------------------
(***************************************************************************)
(* The chain half of the node (node/node.rs, block/block_ancestors.rs,     *)
(* block/paired_fork.rs): which new blocks it sends to validation, and     *)
(* which valid block it makes the chain head.                              *)
(*                                                                         *)
(* Blocks are 1..MaxBlock, 1 the genesis block. The tree they form, the    *)
(* work of each, which are weak and which carry another consensus are      *)
(* chosen in the initial state, so a run covers every small tree. A        *)
(* handler's calls of get_block fail for the blocks in `lost', chosen anew *)
(* for every handler. The work of a block is 2 to the power of its score,  *)
(* as long as that fits 64 bits.                                           *)
(***************************************************************************)
EXTENDS Integers, FiniteSets, Sequences, FiniteSetsExt

CONSTANTS MaxBlock,   \* bound: how many blocks there are
          Works,      \* the work a block may represent
          MaxOdd,     \* bound: blocks that are weak or not PoW
          MaxLost     \* bound: blocks whose get_block fails in one handler

ASSUME ForkAssumption == /\ MaxBlock \in Nat \ {0}
                         /\ Works \subseteq Nat \ {0}
                         /\ {MaxOdd, MaxLost} \subseteq Nat

VARIABLES tree,         \* what the blocks are
          chain_head,   \* PowState::chain_head
          received,     \* blocks announced by BlockNew
          checked,      \* blocks sent to validation by check_blocks
          failed        \* blocks failed by fail_block

vars == <<tree, chain_head, received, checked, failed>>
-----------------------------------------------------------------------------
Blocks == 1..MaxBlock
Genesis == 1

(* Parent, height and work of every block; the weak ones, below their      *)
(* predecessor's expected difficulty; the alien ones, without a consensus  *)
(* payload that can be read as PoW.                                        *)
Tree == [parent : [Blocks \ {Genesis} -> Blocks], height : [Blocks -> Nat],
         work : [Blocks \ {Genesis} -> Works],
         weak : SUBSET Blocks, alien : SUBSET Blocks]

Height(parent) ==
  LET h[b \in Blocks] == IF b = Genesis THEN 0 ELSE h[parent[b]] + 1 IN h

IsPow(b) == b \notin tree.alien \cup {Genesis}

(* BlockHeader::from_cow: genesis has an empty consensus, any other block  *)
(* must carry a PoW consensus that can be read.                            *)
HasHeader(b) == b = Genesis \/ IsPow(b)

(* BlockAncestors and both sides of PairedFork: the headers from b down,   *)
(* cut short by the first block that cannot be had or read.                *)
Ancestors(lost) ==
  LET walk[b \in Blocks] ==
        IF b \in lost \/ ~HasHeader(b) THEN <<>>
        ELSE IF b = Genesis THEN <<b>>
        ELSE <<b>> \o walk[tree.parent[b]]
  IN  walk

(* The same for all that is on the chain, whatever can be had of it. *)
Branch ==
  LET up[b \in Blocks] == IF b = Genesis THEN {b} ELSE {b} \cup up[tree.parent[b]]
  IN  up

WorkOf(S) == MapThenSumSet(LAMBDA b : tree.work[b], S)
-----------------------------------------------------------------------------
(* Slip: the orphans start at the head itself. *)
OrphansFromHead(b, other, lost) ==
  LET above == Ancestors(lost)[b]
      count == IF tree.height[b] > tree.height[other]
               THEN tree.height[b] - tree.height[other] ELSE 0
  IN  {above[i] : i \in {j \in 1..Len(above) : j =< count /\ IsPow(above[j])}}

(* resolve_fork. The orphans of a head are the blocks between the parent   *)
(* of the head and the height of the other head; the lowest of them, or    *)
(* the head itself, is where the paired walk starts.                       *)
Orphans(b, other, lost) ==
  LET above == Ancestors(lost)[tree.parent[b]]
      count == IF tree.height[b] > tree.height[other]
               THEN tree.height[b] - tree.height[other] ELSE 0
  IN  {above[i] : i \in {j \in 1..Len(above) : j =< count /\ IsPow(above[j])}}

Lowest(S, default) ==
  IF S = {} THEN default ELSE CHOOSE b \in S : \A c \in S : tree.height[b] =< tree.height[c]

(* Slip: the walk stops after the first pair. *)
OnePair(a, b, lost) ==
  IF a # b /\ IsPow(a) /\ IsPow(b) THEN [as |-> {a}, bs |-> {b}]
  ELSE [as |-> {}, bs |-> {}]

(* How far the paired walk goes: to a common block, a genesis block, or    *)
(* the end of either chain.                                                *)
PairedWalk(a, b, lost) ==
  LET as == Ancestors(lost)[a]
      bs == Ancestors(lost)[b]
      goesOn(n) == /\ n =< Len(as) /\ n =< Len(bs)
                   /\ as[n] # bs[n]
                   /\ IsPow(as[n]) /\ IsPow(bs[n])
      steps == {n \in Blocks : \A m \in 1..n : goesOn(m)}
  IN  [as |-> {as[n] : n \in steps}, bs |-> {bs[n] : n \in steps}]

ForkHead(b, other, lost) == Lowest(Orphans(b, other, lost), b)

(* The work compared for each head: orphans and paired blocks are two      *)
(* lists, and a block on both counts twice.                                *)
ComparedWork(cur, new, lost) ==
  LET paired == PairedWalk(ForkHead(cur, new, lost), ForkHead(new, cur, lost), lost)
  IN  [cur |-> WorkOf(Orphans(cur, new, lost)) + WorkOf(paired.as),
       new |-> WorkOf(Orphans(new, cur, lost)) + WorkOf(paired.bs)]

(* Slip: a tie switches heads. *)
ResolveTieToNew(cur, new, lost) ==
  LET work == ComparedWork(cur, new, lost)
  IN  IF work.new >= work.cur THEN "commit" ELSE "ignore"

(* Slip: the comparison is the wrong way round. *)
ResolveToLessWork(cur, new, lost) ==
  LET work == ComparedWork(cur, new, lost)
  IN  IF work.new < work.cur THEN "commit" ELSE "ignore"

ResolveFork(cur, new, lost) ==
  LET work == ComparedWork(cur, new, lost)
  IN  IF work.new > work.cur THEN "commit" ELSE "ignore"

(* The current head is not PoW: commit what descends from it directly,     *)
(* ignore what descends from another block without PoW consensus.          *)
SwitchConsensus(cur, new, lost) ==
  LET walk[b \in Blocks] ==
        IF b = Genesis THEN "ignore"
        ELSE IF tree.parent[b] = cur THEN "commit"
        ELSE IF ~IsPow(b) THEN "ignore"
        ELSE IF tree.parent[b] \in lost THEN "error"
        ELSE walk[tree.parent[b]]
  IN  walk[new]

CompareForks(cur, new, lost) ==
  IF ~IsPow(new) THEN "ignore"
  ELSE IF ~IsPow(cur) THEN SwitchConsensus(cur, new, lost)
  ELSE IF tree.parent[new] = cur THEN "commit"
  ELSE ResolveFork(cur, new, lost)

(* on_block_valid, up to its verdict. *)
Verdict(cur, new, lost) ==
  IF cur \in lost \/ new \in lost THEN "error" ELSE CompareForks(cur, new, lost)
-----------------------------------------------------------------------------
Losses == {S \in SUBSET Blocks : Cardinality(S) =< MaxLost}

(* The node starts on any head the validator may report, with the blocks   *)
(* below it judged before; a head without PoW consensus is the genesis     *)
(* block, since on any other Miner::mine panics (miner.rs:50). Blocks are  *)
(* numbered level by level. A block on genesis is never weak: the          *)
(* difficulty expected after genesis is 0 (block_header.rs:28).            *)
Levelled(parent) == \A b \in Blocks \ {Genesis} :
                      parent[b] < b /\ (b > 2 => parent[b - 1] =< parent[b])

Odds == {S \in SUBSET (Blocks \ {Genesis}) : Cardinality(S) =< MaxOdd}

Init ==
  /\ \E parent \in [Blocks \ {Genesis} -> Blocks], odd \in Odds : \E weak \in SUBSET odd :
       /\ Levelled(parent) /\ \A b \in weak : parent[b] # Genesis
       /\ \E work \in [Blocks \ {Genesis} -> Works] :
            tree = [parent |-> parent, height |-> Height(parent), work |-> work,
                    weak |-> weak, alien |-> odd \ weak]
  /\ chain_head \in {b \in Blocks : Branch[b] \cap (tree.weak \cup tree.alien) = {}}
  /\ received = Branch[chain_head] \ {Genesis}
  /\ checked = received /\ failed = {}

(* The validator announces a block once, after its predecessor passed. *)
MayReceive(b) == /\ b \notin received \cup {Genesis}
                 /\ tree.parent[b] \in checked \cup {Genesis}

(* on_block_new: the block sent to validation, or the one failed. That is  *)
(* b itself for a consensus that cannot be read or falls short, but its    *)
(* predecessor when the predecessor cannot be fetched or read.             *)
PredecessorUsable(b, lost) == tree.parent[b] \notin lost /\ HasHeader(tree.parent[b])

PassesConsensus(b, lost) == IsPow(b) /\ PredecessorUsable(b, lost) /\ b \notin tree.weak

(* Slip: the predecessor is blamed for every fault. *)
FailPredecessor(b, lost) == tree.parent[b]

FailedBlock(b, lost) ==
  IF IsPow(b) /\ ~PredecessorUsable(b, lost) THEN tree.parent[b] ELSE b

(* Slip: the predecessor is sent to validation. *)
CheckPredecessor(b, lost) ==
  /\ received' = received \cup {b}
  /\ IF PassesConsensus(b, lost)
     THEN checked' = checked \cup {tree.parent[b]} /\ UNCHANGED failed
     ELSE failed' = failed \cup {FailedBlock(b, lost)} /\ UNCHANGED checked

OnBlockNew(b, lost) ==
  /\ received' = received \cup {b}
  /\ IF PassesConsensus(b, lost)
     THEN checked' = checked \cup {b} /\ UNCHANGED failed
     ELSE failed' = failed \cup {FailedBlock(b, lost)} /\ UNCHANGED checked

BlockNew == /\ \E b \in Blocks, lost \in Losses : MayReceive(b) /\ OnBlockNew(b, lost)
            /\ UNCHANGED <<tree, chain_head>>

(* Slip: chain_head is left to the commit to assign. *)
KeepChainHead(verdict, b) == chain_head

(* chain_head is assigned before commit_block is called, and stays so if   *)
(* that call fails.                                                        *)
ChainHeadAfter(verdict, b) == IF verdict = "commit" THEN b ELSE chain_head

(* on_block_valid, of any block in validation, in any order. *)
BlockValid ==
  /\ \E b \in checked, lost \in Losses :
       chain_head' = ChainHeadAfter(Verdict(chain_head, b, lost), b)
  /\ UNCHANGED <<tree, received, checked, failed>>

(* BlockNew for a genesis block, BlockInvalid and the peers' updates       *)
(* change nothing.                                                         *)
Next == BlockNew \/ BlockValid

Spec == Init /\ [][Next]_vars
-----------------------------------------------------------------------------
(* Parents come before their children. *)
IsTree(t) == /\ t \in Tree
             /\ t.height[Genesis] = 0
             /\ \A b \in Blocks \ {Genesis} :
                  t.parent[b] < b /\ t.height[b] = t.height[t.parent[b]] + 1

TypeOK == /\ IsTree(tree)
          /\ chain_head \in checked \cup {Genesis}
          /\ checked \subseteq received /\ received \subseteq Blocks \ {Genesis}
          /\ failed \subseteq Blocks

(* What a chain is worth besides what it shares with another. *)
OwnWork(b, other) == WorkOf(Branch[b] \ Branch[other])

(* The head never goes back to one of its own ancestors, in whatever order *)
(* and however often blocks are reported valid (node.rs:318).              *)
HeadNeverRewinds ==
  [][chain_head' # chain_head => chain_head' \notin Branch[chain_head]]_vars

(* A valid block that extends the head, directly or through blocks not yet *)
(* judged, becomes the head (node.rs:240 to 244 and 252 to 339): the       *)
(* uneven counting of resolve_fork never stands in the way of growth.      *)
DescendantsAreCommitted ==
  \A b \in checked :
    chain_head \in Branch[b] \ {b} => Verdict(chain_head, b, {}) = "commit"

(* Between heads of equal height the choice is by the work the branches do *)
(* not share, counted once for every block, and a tie keeps the head.      *)
EqualHeightsByWork ==
  \A b \in checked :
    tree.height[b] = tree.height[chain_head]
      => (Verdict(chain_head, b, {}) = "commit"
            <=> OwnWork(b, chain_head) > OwnWork(chain_head, b))

(* A head that was given up is not preferred to the one that replaced it:  *)
(* no two blocks can make the head flip back and forth.                    *)
NoFlipFlop ==
  \A b \in checked :
    Verdict(chain_head, b, {}) = "commit" => Verdict(b, chain_head, {}) # "commit"

(* A block announced is sent to validation or failed, one of the two, and  *)
(* no other block is (node.rs:80, "call for validation or fail the         *)
(* block").                                                                *)
AnnouncedIsJudged ==
  /\ checked \cup failed = received
  /\ checked \cap failed = {}

(* The new fork is committed when it has the greater total work (node.rs:  *)
(* 303 to 304, "sum the total amount of work", and 317, "Commit the new    *)
(* fork if it has greater work").                                          *)
GreaterWorkIsCommitted ==
  \A b \in checked :
    OwnWork(b, chain_head) > OwnWork(chain_head, b) => Verdict(chain_head, b, {}) = "commit"

(* The two walks of resolve_fork start at the same height (debug_assert_eq *)
(* of node.rs:288).                                                        *)
ForkHeadsAligned ==
  \A b \in checked, lost \in Losses :
    (/\ Verdict(chain_head, b, lost) \in {"commit", "ignore"}
     /\ IsPow(chain_head) /\ b \notin Branch[chain_head]
     /\ tree.parent[b] # chain_head)
      => tree.height[ForkHead(chain_head, b, lost)] = tree.height[ForkHead(b, chain_head, lost)]
=============================================================================
