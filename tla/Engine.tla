------------------------------- MODULE Engine -------------------------------
(***************************************************************************)
(* Both halves of the node composed with the validator it drives           *)
(* (node/node.rs, and engine.rs around it): blocks are born, announced,    *)
(* judged, validated and committed, the node publishes its own on the head *)
(* it was told of, and those come back to it as new blocks.                *)
(*                                                                         *)
(* A head of PowNode is a block of ForkChoice. The miner is what           *)
(* UpdateStream shows of it: an answer it offers is fresh, for the latest  *)
(* challenge, once the thread has acknowledged that, and stale before. The *)
(* timer and the flags are left to UpdateStream: the node may try to       *)
(* publish between any two updates.                                        *)
(*                                                                         *)
(* Blocks of peers reach their predecessor's difficulty and carry a PoW    *)
(* consensus; ForkChoice has those that do not.                            *)
(*                                                                         *)
(* The validator is external. It announces a block when its predecessor    *)
(* has passed, answers every check, executes commits in the order they     *)
(* were asked for, and reports all of it over one channel.                 *)
(***************************************************************************)
EXTENDS Integers, Sequences, Functions

CONSTANTS MaxBlock,           \* bound: how many blocks are ever born
          Works,              \* see ForkChoice
          NotReady, Failing   \* see PowNode: calls of publishing; "commit" is
                              \* commit_block. Other calls do not fail here

ASSUME EngineAssumption ==
  /\ MaxBlock \in Nat \ {0}
  /\ Works \subseteq Nat \ {0} /\ Works # {}
  /\ NotReady \subseteq {"summarize", "finalize"}
  /\ Failing \subseteq {"summarize", "finalize", "cancel", "reload", "mine", "initialize", "commit"}

VARIABLES node, head, running,                           \* PowNode
          tree, chain_head, received, checked, failed,   \* ForkChoice
          updates,         \* Receiver<Update>
          mined,           \* the head whose challenge was posted last
          acked,           \* the miner thread has taken that challenge
          config_at,       \* the head the configuration was read at
          born,            \* blocks 1..born exist
          own,             \* those the node has published
          valid, invalid,  \* blocks the validator has validated
          commits,         \* heads it was asked to commit and has not yet
          vhead,           \* its chain head
          trouble          \* history: a call of the service has failed

chainPart == <<tree, chain_head, received, checked, failed>>
publishing == <<node, head, running, mined, acked, config_at>>
validator == <<valid, invalid, commits, vhead>>
vars == <<publishing, chainPart, updates, born, own, validator, trouble>>

Nd == INSTANCE PowNodeProofs WITH Consensus <- {"fresh", "stale"}, NoConsensus <- "none",
                                  MaxHead <- MaxBlock
Fc == INSTANCE ForkChoiceProofs WITH MaxOdd <- 0, MaxLost <- 0

Blocks == 1..MaxBlock
Genesis == 1

Update == [kind : {"BlockNew", "BlockValid", "BlockInvalid", "BlockCommit"}, block : Blocks]
BlockUpdate(kind, b) == [kind |-> kind, block |-> b]

TypeOK ==
  /\ Nd!NodeTypeOK
  /\ Fc!IsTree(tree)
  /\ {chain_head, vhead, mined, config_at, born} \subseteq Blocks
  /\ \A S \in {received, checked, failed, own, valid, invalid} : S \subseteq 2..born
  /\ updates \in Seq(Update) /\ commits \in Seq(Blocks)
  /\ {acked, trouble} \subseteq BOOLEAN
-----------------------------------------------------------------------------
(* A block is born on p and announced. *)
Bear(p, work, weak) ==
  /\ born < MaxBlock
  /\ born' = born + 1
  /\ tree' = [tree EXCEPT !.parent[born'] = p,
                          !.height[born'] = tree.height[p] + 1,
                          !.work[born'] = work,
                          !.weak = IF weak THEN @ \cup {born'} ELSE @]

(* What the miner may have when it is drained. *)
Offers ==
  {"none"} \cup (IF Nd!Drains(node) /\ born < MaxBlock
                 THEN {IF acked THEN "fresh" ELSE "stale"} ELSE {})

(* The node goes from node to n, with the updates in queue left: a block   *)
(* finalized on the way is born. One with a stale answer is a block whose  *)
(* hash nobody searched for; only after genesis is any hash good enough.   *)
Publishes(n, queue) ==
  IF n.published = node.published
  THEN updates' = queue /\ UNCHANGED <<tree, born, own>>
  ELSE \E b \in n.published \ node.published, work \in Works, weak \in BOOLEAN :
         /\ weak => b.consensus = "stale" /\ b.parent # Genesis
         /\ Bear(b.parent, work, weak)
         /\ own' = own \cup {born'}
         /\ updates' = Append(queue, BlockUpdate("BlockNew", born'))

(* The publishing timer: try_publish between two updates. *)
TryPublish ==
  /\ running
  /\ \E c \in Offers : \E o \in Nd!TryPublish(node, c) :
       /\ node' = o.node
       /\ Publishes(o.node, updates)
       /\ running' = (o.result # "Error")
       /\ trouble' = (trouble \/ o.result = "Error")
  /\ UNCHANGED <<head, mined, acked, config_at, chain_head, received, checked, failed, validator>>

Receives(kind, b) == /\ running
                     /\ updates # <<>>
                     /\ Head(updates) = BlockUpdate(kind, b)

(* get_block, check_blocks and fail_block do not fail here: ForkChoice has  *)
(* what becomes of a handler when a fetch does.                            *)
OnBlockNew(b) ==
  /\ Receives("BlockNew", b)
  /\ Fc!OnBlockNew(b, {})
  /\ updates' = Tail(updates)
  /\ UNCHANGED <<publishing, tree, chain_head, born, own, validator, trouble>>

(* A commit_block that fails leaves chain_head where it was moved to. The  *)
(* fetches and ignore_block do not fail here, see ForkChoice.              *)
OnBlockValid(b) ==
  /\ Receives("BlockValid", b)
  /\ updates' = Tail(updates)
  /\ LET verdict == Fc!Verdict(chain_head, b, {})
     IN  /\ chain_head' = Fc!ChainHeadAfter(verdict, b)
         /\ \/ /\ commits' = IF verdict = "commit" THEN Append(commits, b) ELSE commits
               /\ UNCHANGED trouble
            \/ /\ verdict = "commit" /\ "commit" \in Failing
               /\ trouble' = TRUE /\ UNCHANGED commits
  /\ UNCHANGED <<publishing, tree, received, checked, failed, born, own, valid, invalid, vhead>>

OnBlockInvalid(b) ==
  /\ Receives("BlockInvalid", b)
  /\ updates' = Tail(updates)
  /\ UNCHANGED <<publishing, chainPart, born, own, validator, trouble>>

(* The configuration is read at chain_head, which may be ahead of b. *)
OnBlockCommit(b) ==
  /\ Receives("BlockCommit", b)
  /\ head' = b
  /\ \E c \in Offers : \E o \in Nd!OnBlockCommit(node, c, b) :
       /\ node' = o.node
       /\ Publishes(o.node, Tail(updates))
       /\ mined' = IF o.mined THEN b ELSE mined
       /\ acked' = (acked /\ ~o.mined)
       /\ config_at' \in IF o.mined THEN {chain_head} ELSE {config_at, chain_head}
       /\ trouble' = (trouble \/ o.result = "Error")
  /\ UNCHANGED <<running, chain_head, received, checked, failed, validator>>

Handle == \E b \in Blocks :
            OnBlockNew(b) \/ OnBlockValid(b) \/ OnBlockInvalid(b) \/ OnBlockCommit(b)

(* The miner thread takes the latest challenge. *)
Acknowledge == /\ ~acked
               /\ acked' = TRUE
               /\ UNCHANGED <<node, head, running, mined, config_at, chainPart, updates,
                              born, own, validator, trouble>>
-----------------------------------------------------------------------------
(* The validator. *)

(* A peer's block arrives. *)
Arrive ==
  /\ \E p \in {Genesis} \cup checked, work \in Works : Bear(p, work, FALSE)
  /\ updates' = Append(updates, BlockUpdate("BlockNew", born'))
  /\ UNCHANGED <<publishing, chain_head, received, checked, failed, own, validator, trouble>>

Validate ==
  /\ \E b \in checked \ (valid \cup invalid) :
       \/ /\ tree.parent[b] \in valid \cup {Genesis}
          /\ valid' = valid \cup {b} /\ UNCHANGED invalid
          /\ updates' = Append(updates, BlockUpdate("BlockValid", b))
       \/ /\ tree.parent[b] \in valid \cup invalid \cup {Genesis}
          /\ invalid' = invalid \cup {b} /\ UNCHANGED valid
          /\ updates' = Append(updates, BlockUpdate("BlockInvalid", b))
  /\ UNCHANGED <<publishing, chainPart, born, own, commits, vhead, trouble>>

Execute ==
  /\ commits # <<>>
  /\ vhead' = Head(commits)
  /\ commits' = Tail(commits)
  /\ updates' = Append(updates, BlockUpdate("BlockCommit", vhead'))
  /\ UNCHANGED <<publishing, chainPart, born, own, valid, invalid, trouble>>

(* The engine is started on the genesis block, its challenge taken. *)
Init ==
  /\ node = Nd!Initialized /\ head = Genesis /\ running = TRUE
  /\ tree = [parent |-> [b \in Blocks \ {Genesis} |-> Genesis],
             height |-> [b \in Blocks |-> IF b = Genesis THEN 0 ELSE 1],
             work |-> [b \in Blocks \ {Genesis} |-> CHOOSE w \in Works : TRUE],
             weak |-> {}, alien |-> {}]
  /\ chain_head = Genesis /\ vhead = Genesis /\ mined = Genesis /\ config_at = Genesis
  /\ received = {} /\ checked = {} /\ failed = {}
  /\ own = {} /\ valid = {} /\ invalid = {}
  /\ updates = <<>> /\ commits = <<>>
  /\ acked = TRUE /\ trouble = FALSE
  /\ born = 1

Next == TryPublish \/ Handle \/ Acknowledge \/ Arrive \/ Validate \/ Execute

Spec == Init /\ [][Next]_vars

(* A block of the node's own is published. *)
Published == TryPublish /\ own' # own

(* The engine's and the miner's thread run, the validator does what it was *)
(* asked, and the search succeeds if nothing else happens. No block need   *)
(* ever come from a peer.                                                  *)
Working == Handle \/ Acknowledge \/ Validate \/ Execute

Fairness == WF_vars(Working) /\ WF_vars(Published)

FairSpec == Spec /\ Fairness
-----------------------------------------------------------------------------
(* Own blocks that the node itself failed or the validator did not pass. *)
Rejected == own \cap (failed \cup invalid)

Quiet == updates = <<>> /\ commits = <<>>

(* Whichever of these calls fails, the block being built extends the head  *)
(* whose challenge was posted last: the miner never works for another      *)
(* block than the one the validator is building (node.rs:199 to 210).      *)
MinesForTheCandidate ==
  Nd!Building(node) => node.candidate.parent = mined

(* At most one own block on a block, through every fork and switch of      *)
(* heads and every failure of these calls (node.rs:343 to 348).            *)
OneBlockPerHead == Nd!OneBlockPerHead

(* When no update and no commit is outstanding and no call has failed, the *)
(* node's chain_head, the validator's head, the head mined on, the one the *)
(* block being built extends and the one the configuration was read at are *)
(* one and the same (node.rs:169 to 213 and 404 to 407).                   *)
HeadsAgreeWhenQuiet ==
  (Quiet /\ ~trouble) =>
    /\ {chain_head, head, mined, config_at} = {vhead}
    /\ Nd!Building(node) => node.candidate.parent = vhead

(* The validator only moves to a head that the node's rule prefers to the  *)
(* one it leaves, however many blocks were judged while earlier commits    *)
(* were still being executed: that is what chain_head is assigned early    *)
(* for (node.rs:405). A commit_block that fails breaks it.                 *)
CommitsArePreferred ==
  [][vhead' # vhead /\ ~trouble => Fc!Verdict(vhead, vhead', {}) = "commit"]_vars

(* Publishing never stops for good: when nothing is outstanding the node   *)
(* is building a block it may publish, so that whatever happened to its    *)
(* last one (committed, or lost to another) has cleared Finalized. Only a  *)
(* call that failed, or an own block that was rejected, may end this       *)
(* (node.rs:343 to 348).                                                   *)
PublishesWhenQuiet ==
  (Quiet /\ checked = valid \cup invalid /\ ~trouble /\ Rejected = {}) =>
    Nd!Building(node) /\ ~Nd!HasGuard(node, "Finalized")

(* After a block of its own has failed the node is free to publish again   *)
(* (node.rs:163, "The block has failed, perform cleanup of consensus'      *)
(* state").                                                                *)
RejectionIsCleanedUp ==
  \A b \in Blocks : b \in Rejected ~> ~Nd!HasGuard(node, "Finalized")
-----------------------------------------------------------------------------
(* Strengthenings of the invariants, for the proofs.                       *)

New(b) == BlockUpdate("BlockNew", b)
Valid(b) == BlockUpdate("BlockValid", b)
Committed(b) == BlockUpdate("BlockCommit", b)

Waiting == Range(updates)     \* the updates in the channel
Asked == Range(commits)       \* the commits to be executed
Heads == valid \cup {Genesis} \* what may be a head

(* Blocks are born one after the other, and none on one yet to be born. *)
TreeInv == /\ Fc!IsTree(tree) /\ tree.alien = {}
           /\ born \in Blocks
           /\ \A b \in (born + 1)..MaxBlock : tree.parent[b] = Genesis

(* Only what exists is judged, what was checked validated, and what is     *)
(* valid a head.                                                           *)
BlocksInv == /\ \A S \in {received, checked, failed, own} : S \subseteq 2..born
             /\ valid \cup invalid \subseteq checked
             /\ valid \cap invalid = {}
             /\ {chain_head, vhead, head, mined, config_at} \subseteq Heads

(* An update is sent once. *)
UpdatesInv == /\ updates \in Seq(Update) /\ IsInjective(updates)
              /\ \A u \in Waiting : /\ u.block \in 2..born
                                    /\ u.kind = "BlockInvalid" => u.block \in invalid
                                    /\ u.kind \in {"BlockValid", "BlockCommit"} => u.block \in valid

(* A block goes its way from new over valid to committed once: none on its *)
(* way to be committed has been a head or built on.                        *)
OnTheWay(b) == b \in Asked \/ Valid(b) \in Waiting \/ Committed(b) \in Waiting

PathInv == /\ commits \in Seq(Blocks) /\ IsInjective(commits)
           /\ Asked \subseteq valid
           /\ \A b \in Blocks : New(b) \in Waiting => b \notin checked
           /\ \A b \in Blocks : Valid(b) \in Waiting => b \notin Asked
           /\ \A b \in Blocks : Committed(b) \in Waiting => b \notin Asked /\ Valid(b) \notin Waiting
           /\ \A b \in Blocks : OnTheWay(b) => b # head /\ Nd!IsFresh(node, b)

NodeInv == /\ Nd!NodeOK(node, MaxBlock)
           /\ running \in BOOLEAN
           /\ Nd!Building(node) => node.candidate.parent \in Heads
           /\ \A b \in node.published : b.parent \in Heads
           /\ MinesForTheCandidate

(* While nothing fails: the way from the head mined on to the chain head,  *)
(* over the commits reported and those asked for.                          *)
ReportedLast(queue, b) ==
  \E i \in 1..Len(queue) : /\ queue[i] = Committed(b)
                           /\ \A j \in (i + 1)..Len(queue) : queue[j].kind # "BlockCommit"

LastReport == \/ vhead = head /\ \A b \in Blocks : Committed(b) \notin Waiting
              \/ ReportedLast(updates, vhead)

HeadsInv == /\ mined = head
            /\ chain_head = IF commits = <<>> THEN vhead ELSE commits[Len(commits)]
            /\ LastReport
            /\ \/ config_at = chain_head \/ commits # <<>>
               \/ \E b \in Blocks : Committed(b) \in Waiting

(* And then, if no block is being built, one was published on the head and *)
(* is still to be judged, or was rejected, or the node has moved on.       *)
OwnIsJudged(b) == \/ New(b) \in Waiting
                  \/ b \in failed \cup invalid \cup (checked \ valid)
                  \/ Valid(b) \in Waiting

OwnInv == \/ Nd!Building(node)
          \/ chain_head # head
          \/ \E b \in own : tree.parent[b] = head /\ OwnIsJudged(b)

(* And every commit asked for is preferred to the one before it.           *)
PreferredInv ==
  \A i \in 1..Len(commits) :
    <<IF i = 1 THEN vhead ELSE commits[i - 1], commits[i]>> \in Fc!Preferences

EngineInv == /\ TreeInv /\ BlocksInv /\ UpdatesInv /\ PathInv /\ NodeInv
             /\ acked \in BOOLEAN /\ trouble \in BOOLEAN
             /\ ~trouble => HeadsInv /\ OwnInv /\ PreferredInv
=============================================================================
