---------------------------- MODULE UpdateStream ----------------------------
(***************************************************************************)
(* The event loop (futures/update_stream.rs, publish_future.rs, engine.rs) *)
(* composed with the node's publishing half and with the miner and its     *)
(* thread.                                                                 *)
(*                                                                         *)
(* updater, scheduler and committer are futures of one task: they never    *)
(* run at the same time, and the task is polled again only when the        *)
(* updater sleeps. The miner thread and the validator run freely.          *)
(***************************************************************************)
EXTENDS Integers, Sequences

CONSTANTS MaxHead,        \* bound: chain heads committed, the startup head included
          MaxOther,       \* bound: updates delivered that the publishing half ignores
          MaxQueue,       \* bound: updates waiting in the channel
          MaxScore, Difficulties,   \* see Answers
          NotReady, Failing         \* see PowNode

ASSUME StreamAssumption ==
  /\ MaxHead \in Nat \ {0} /\ MaxOther \in Nat /\ MaxQueue \in Nat \ {0}
  /\ MaxScore \in Nat \ {0} /\ Difficulties \subseteq Nat
  /\ NotReady \subseteq {"summarize", "finalize"}
  /\ Failing \subseteq {"summarize", "finalize", "cancel", "reload", "mine", "initialize", "commit"}

VARIABLES toWorker, toMiner, worker, answer, latest,   \* Miner
          node, head,                                  \* PowNode
          updates,              \* Receiver<Update>
          publishing_flag, new_chainhead_flag,
          timer,                \* the scheduler future: "armed" or "fired"
          updater,              \* where the updater future is
          committed, others,    \* the validator: heads committed, other updates sent
          connected             \* FALSE once the validator sent its last update

minerPart == <<toWorker, toMiner, worker, answer, latest>>
nodePart == <<node, head>>
flags == <<publishing_flag, new_chainhead_flag, timer>>
validator == <<committed, others, connected>>
vars == <<minerPart, nodePart, updates, flags, updater, validator>>

(* The loop has ended. *)
Stopping == updater \in {"drop", "join", "exited"}

Mn == INSTANCE Miner WITH MaxChallenges <- MaxHead,
                          parent <- updater, yielded <- <<>>
Nd == INSTANCE PowNodeProofs WITH Consensus <- Mn!Answer, NoConsensus <- Mn!NoAnswer,
                                  running <- ~Stopping

(* enum Update, as far as the publishing half tells updates apart. Stop is *)
(* Shutdown, or the sender's end of the channel dropped.                   *)
BlockCommit(h) == [kind |-> "BlockCommit", block |-> h]
Other == [kind |-> "Other"]
Stop == [kind |-> "Stop"]
Update == {Other, Stop} \cup {BlockCommit(h) : h \in 1..MaxHead}

TypeOK ==
  /\ Mn!WorkerTypeOK
  /\ answer \in Mn!Answer \cup {Mn!NoAnswer}
  /\ latest \in Mn!Challenge
  /\ node \in Nd!Node
  /\ head \in 1..MaxHead /\ committed \in head..MaxHead
  /\ updates \in Seq(Update) /\ Len(updates) =< MaxQueue
  /\ publishing_flag \in BOOLEAN /\ new_chainhead_flag \in BOOLEAN
  /\ timer \in {"armed", "fired"}
  /\ updater \in {"publish", "recv", "sleep", "drop", "join", "exited"}
  /\ others \in 0..MaxOther /\ connected \in BOOLEAN
-----------------------------------------------------------------------------
(* The miner as try_publish leaves it: drained, unless the node exits      *)
(* before draining.                                                        *)
Offered == IF Nd!Drains(node) THEN Mn!Drained ELSE Mn!NoAnswer
AttemptDrains == IF Nd!Drains(node) THEN Mn!DrainAnswers ELSE UNCHANGED <<toMiner, answer>>

(* update_call, first half: publish if it is time to.                      *)
SkipPublish == /\ updater = "publish"
               /\ ~publishing_flag
               /\ updater' = "recv"
               /\ UNCHANGED <<minerPart, nodePart, updates, flags, validator>>

(* Slip: an attempt that is still pending is not retried. *)
PublishOnce ==
  /\ updater = "publish"
  /\ publishing_flag
  /\ publishing_flag' = FALSE
  /\ \E o \in Nd!TryPublish(node, Offered) :
       /\ node' = o.node
       /\ updater' = IF o.result = "Error" THEN "drop" ELSE "recv"
  /\ AttemptDrains
  /\ UNCHANGED <<toWorker, worker, latest, head, updates, new_chainhead_flag, timer, validator>>

Publish ==
  /\ updater = "publish"
  /\ publishing_flag
  /\ \E o \in Nd!TryPublish(node, Offered) :
       /\ node' = o.node
       /\ publishing_flag' = (o.result # "Published")
       /\ updater' = IF o.result = "Error" THEN "drop" ELSE "recv"
  /\ AttemptDrains
  /\ UNCHANGED <<toWorker, worker, latest, head, updates, new_chainhead_flag, timer, validator>>

(* Slip: the channel is emptied, the updates behind the first are lost. *)
ReceivesAll(kind) == /\ updater = "recv"
                     /\ updates # <<>>
                     /\ Head(updates).kind = kind
                     /\ updates' = <<>>

(* update_call, second half: handle one update, or sleep.                  *)
Receives(kind) == /\ updater = "recv"
                  /\ updates # <<>>
                  /\ Head(updates).kind = kind
                  /\ updates' = Tail(updates)

(* A failed handler is logged, and the loop goes on. *)
Commit ==
  /\ Receives("BlockCommit")
  /\ head' = Head(updates).block
  /\ \E o \in Nd!OnBlockCommit(node, Offered, head') :
       /\ node' = o.node
       /\ new_chainhead_flag' = (new_chainhead_flag \/ o.result = "Restart")
       /\ publishing_flag' = (publishing_flag /\ ~o.eager)
       /\ IF o.mined
          THEN \E d \in Difficulties : Mn!SendChallenge([id |-> head', difficulty |-> d])
          ELSE UNCHANGED <<toWorker, latest>>
  /\ AttemptDrains
  /\ updater' = "publish"
  /\ UNCHANGED <<worker, timer, validator>>

Ignore == /\ Receives("Other")
          /\ updater' = "publish"
          /\ UNCHANGED <<minerPart, nodePart, flags, validator>>

Leave == /\ Receives("Stop")
         /\ updater' = "drop"
         /\ UNCHANGED <<minerPart, nodePart, flags, validator>>

Sleep == /\ updater = "recv"
         /\ updates = <<>>
         /\ updater' = "sleep"
         /\ UNCHANGED <<minerPart, nodePart, updates, flags, validator>>

(* The updater's only await is over. *)
Wake == /\ updater = "sleep"
        /\ updater' = "publish"
        /\ UNCHANGED <<minerPart, nodePart, updates, flags, validator>>

Updater == SkipPublish \/ Publish \/ Commit \/ Ignore \/ Leave \/ Sleep \/ Wake

(* The publishing timer runs out: PublishSchedulerFuture::poll. *)
Scheduler == /\ updater = "sleep"
             /\ timer = "armed"
             /\ timer' = "fired"
             /\ publishing_flag' = TRUE
             /\ UNCHANGED <<minerPart, nodePart, updates, new_chainhead_flag, updater, validator>>

(* Slip: the timer is not set again. *)
CommitterKeepingTimer ==
  /\ updater = "sleep"
  /\ new_chainhead_flag
  /\ new_chainhead_flag' = FALSE
  /\ publishing_flag' = FALSE
  /\ UNCHANGED <<minerPart, nodePart, updates, timer, updater, validator>>

(* toggle_on_reactor has seen the flag: start over for the new head. *)
Committer == /\ updater = "sleep"
             /\ new_chainhead_flag
             /\ new_chainhead_flag' = FALSE
             /\ publishing_flag' = FALSE
             /\ timer' = "armed"
             /\ UNCHANGED <<minerPart, nodePart, updates, updater, validator>>

(* Slip: the thread is joined but not told to stop. *)
DropSilently == /\ updater = "drop"
                /\ updater' = "join"
                /\ UNCHANGED <<minerPart, nodePart, updates, flags, validator>>

(* The loop is left, the node dropped with its worker, the thread joined.  *)
Drop == /\ updater = "drop"
        /\ Mn!Send(Mn!Shutdown)
        /\ updater' = "join"
        /\ UNCHANGED <<toMiner, worker, answer, latest, nodePart, updates, flags, validator>>

Join == /\ updater = "join"
        /\ worker.pc = "stopped"
        /\ updater' = "exited"
        /\ UNCHANGED <<minerPart, nodePart, updates, flags, validator>>

Exited == updater = "exited" /\ UNCHANGED vars

(* The miner thread. *)
Hashing == /\ Mn!WorkerNext
           /\ UNCHANGED <<answer, latest, nodePart, updates, flags, updater, validator>>

Solving == /\ Mn!Solve
           /\ UNCHANGED <<answer, latest, nodePart, updates, flags, updater, validator>>

(* The validator: heads are committed one after the other; what it sends   *)
(* about other blocks and peers does not touch the publishing half; its    *)
(* last words are Shutdown or a closed channel.                            *)
Deliver(update) == /\ connected
                   /\ Len(updates) < MaxQueue
                   /\ updates' = Append(updates, update)
                   /\ UNCHANGED <<minerPart, nodePart, flags, updater>>

DeliverCommit == /\ committed < MaxHead
                 /\ committed' = committed + 1
                 /\ Deliver(BlockCommit(committed'))
                 /\ UNCHANGED <<others, connected>>

DeliverOther == /\ others < MaxOther
                /\ others' = others + 1
                /\ Deliver(Other)
                /\ UNCHANGED <<committed, connected>>

DeliverStop == /\ Deliver(Stop)
               /\ connected' = FALSE
               /\ UNCHANGED <<committed, others>>

(* After PowNode::initialize: the startup head's challenge is posted, a    *)
(* block initialized on it, and update_loop has armed the timer.           *)
Init ==
  /\ \E d \in Difficulties : latest = [id |-> 1, difficulty |-> d]
  /\ toWorker = <<Mn!Update(latest)>>
  /\ toMiner = <<>>
  /\ worker = [pc |-> "recv", challenge |-> Mn!NoChallenge, level |-> 0]
  /\ answer = Mn!NoAnswer
  /\ node = Nd!Initialized
  /\ head = 1 /\ committed = 1
  /\ updates = <<>>
  /\ publishing_flag = FALSE /\ new_chainhead_flag = FALSE /\ timer = "armed"
  /\ updater = "publish"
  /\ others = 0 /\ connected = TRUE

Next == \/ Updater \/ Scheduler \/ Committer
        \/ Drop \/ Join \/ Exited
        \/ Hashing
        \/ DeliverCommit \/ DeliverOther \/ DeliverStop

Spec == Init /\ [][Next]_vars

(* The engine's thread and the miner thread are scheduled. At every sleep  *)
(* the task polls its other futures, so a timer that is due or a flag that *)
(* is set is not overlooked for ever. A random search finds an answer as   *)
(* long as there is a better one. Nothing is assumed of the validator.     *)
Fairness == /\ WF_vars(Updater) /\ SF_vars(Scheduler) /\ SF_vars(Committer)
            /\ WF_vars(Drop) /\ WF_vars(Join)
            /\ WF_vars(Hashing) /\ SF_vars(Solving)

FairSpec == Spec /\ Fairness
-----------------------------------------------------------------------------
(* To the validator the loop, the miner and its thread are a node as       *)
(* PowNode describes it, whose miner may have any answer or none: every    *)
(* head is taken in turn, and the loop ends for an error of the timed      *)
(* attempt or when told, never in a handler (update_stream.rs:117 to 154). *)
ImplementsPowNode == Nd!Spec

(* At most one block is published on a head, whichever of the timer and    *)
(* the commit handler publishes it and however they interleave with the    *)
(* miner (update_stream.rs:258).                                           *)
OneBlockPerHead == Nd!OneBlockPerHead

(* With a service that may be not ready but never fails, the guards say    *)
(* exactly what the validator is doing, whatever the timer and the miner   *)
(* do in between (guard.rs, node.rs:341 to 402).                           *)
GuardsTrackCandidate == Failing = {} => Nd!GuardsTrackCandidate

(* The next BlockCommit can start a block on the new head (node.rs:209): a *)
(* service that does not fail never finds the node calling out of order.   *)
CommitCanRestart == (Failing = {} /\ ~Stopping) => Nd!CommitCanRestart

(* No block is published with an answer to a challenge of a later head     *)
(* than it extends, nor with an answer below its challenge's difficulty.   *)
AnswersAreNotAhead ==
  \A b \in node.published :
    /\ b.consensus.challenge.id =< b.parent
    /\ b.consensus.score >= b.consensus.challenge.difficulty

(* No two blocks carry the same proof of work: a block published on a      *)
(* later head has a newer answer, to a later challenge or a better one,    *)
(* however commits, refused attempts and acknowledgements cross (the       *)
(* answer is taken, not copied: miner.rs:39; worker.rs:99 to 102).         *)
AnswersImprove ==
  \A a, b \in node.published :
    a.parent < b.parent => Mn!Newer(b.consensus, a.consensus)

(* While the service does not fail, the loop ends for the validator's last *)
(* update only: no interleaving of the flags makes the node call the       *)
(* service out of order and stop on its error (update_stream.rs:119).      *)
StopsOnlyWhenTold == (Failing = {} /\ Stopping) => ~connected

(* Every new head that is taken gets a publishing timer of its own, armed  *)
(* with the flag down (update_stream.rs:263 to 264), unless the loop ends. *)
CommitRearmsTimer ==
  new_chainhead_flag ~> (timer = "armed" /\ ~publishing_flag) \/ Stopping

(* A refusal is survived: while the service does not fail, a block is      *)
(* published on the last head, unless the loop ends, or unless refused     *)
(* attempts, each of which throws its answer away, have used up the best   *)
(* score there is (node.rs:340, 353 and 391).                              *)
LastHeadIsPublished ==
  committed = MaxHead ~> \/ head = MaxHead /\ Nd!HasGuard(node, "Finalized")
                         \/ /\ worker.challenge.id = MaxHead
                            /\ worker.level = MaxScore /\ Mn!Drained = Mn!NoAnswer
                         \/ Stopping

(* Told to stop, the engine returns: the miner thread is joined.           *)
StopsWhenTold == ~connected ~> updater = "exited"

(* A block is finalized with the current consensus, an answer to the       *)
(* challenge of the head it extends (node.rs:366).                         *)
FinalizedWithCurrentConsensus ==
  \A b \in node.published : b.consensus.challenge.id = b.parent
-----------------------------------------------------------------------------
(* Strengthenings of the invariants, for the proofs.                       *)

(* Whatever the thread works on, is asked for or has answered was posted,  *)
(* and an answer it sends reaches the difficulty it was asked for.         *)
WorkIsPosted ==
  /\ worker.pc \in {"hash", "poll"} => worker.challenge \in Mn!Challenge
  /\ worker.challenge.id =< latest.id
  /\ worker.level >= Mn!LevelBelow(worker.challenge.difficulty)
  /\ \A i \in 1..Len(toWorker) :
       toWorker[i] # Mn!Shutdown => toWorker[i].challenge.id =< latest.id
  /\ \A i \in 1..Len(toMiner) : toMiner[i] # Mn!Started =>
       /\ toMiner[i].answer.challenge.id =< latest.id
       /\ toMiner[i].answer.score >= toMiner[i].answer.challenge.difficulty

MinerInv == /\ Mn!WorkerTypeOK
            /\ latest \in Mn!Challenge
            /\ answer = Mn!NoAnswer
            /\ WorkIsPosted

(* The challenge of a head is posted before the block on it is begun. *)
PostedBeforeBegun ==
  /\ latest.id =< head
  /\ Nd!Building(node) => latest.id =< node.candidate.parent

NodeInv == /\ head \in 1..MaxHead
           /\ Nd!NodeOK(node, head)
           /\ AnswersAreNotAhead
           /\ PostedBeforeBegun
           /\ Failing = {} => Nd!Tracks(node, head)

(* The commits that wait are of later heads, in order; Stop comes last. *)
IsCommit(update) == update.kind = "BlockCommit"

CommitsInOrder ==
  /\ \A i \in 1..Len(updates) : IsCommit(updates[i]) =>
       updates[i].block \in (head + 1)..committed
  /\ \A i, j \in 1..Len(updates) :
       (i < j /\ IsCommit(updates[i]) /\ IsCommit(updates[j]))
         => updates[i].block < updates[j].block
  /\ \A i \in 1..Len(updates) : updates[i] = Stop => ~connected

QueueInv == /\ committed \in head..MaxHead
            /\ updates \in Seq(Update) /\ Len(updates) =< MaxQueue
            /\ others \in 0..MaxOther /\ connected \in BOOLEAN
            /\ CommitsInOrder

(* The publishing flag is set only by the timer of this head: once the     *)
(* timer is armed again a pending attempt is over (update_stream.rs:258).  *)
FlagOnlyAfterTimer == publishing_flag => timer = "fired"

LoopInv == /\ publishing_flag \in BOOLEAN /\ new_chainhead_flag \in BOOLEAN
           /\ timer \in {"armed", "fired"}
           /\ updater \in {"publish", "recv", "sleep", "drop", "join", "exited"}
           /\ FlagOnlyAfterTimer
           /\ StopsOnlyWhenTold

StreamInv == MinerInv /\ NodeInv /\ QueueInv /\ LoopInv

(* No commit is skipped: those the node has not taken are in the channel.  *)
CommitsWait ==
  \A h \in (head + 1)..committed :
    \E i \in 1..Len(updates) : updates[i] = BlockCommit(h)

(* The worker is past every answer that was published, and what is on its  *)
(* way to it goes on from there.                                           *)
Reached(a) == \/ a.challenge.id < worker.challenge.id
              \/ a.challenge = worker.challenge /\ a.score =< worker.level

WorkerMovesOn ==
  /\ \A b \in node.published : Reached(b.consensus)
  /\ \A i \in 1..Len(toWorker) : toWorker[i] # Mn!Shutdown =>
       worker.challenge.id < toWorker[i].challenge.id
  /\ \A i, j \in 1..Len(toWorker) :
       (i < j /\ toWorker[i] # Mn!Shutdown /\ toWorker[j] # Mn!Shutdown)
         => toWorker[i].challenge.id < toWorker[j].challenge.id

(* What a drain would return is where the worker is, and was not published. *)
DrainIsNew ==
  Mn!Drained # Mn!NoAnswer =>
    /\ Mn!Drained.challenge = worker.challenge /\ Mn!Drained.score = worker.level
    /\ \A b \in node.published : Mn!Newer(Mn!Drained, b.consensus)

(* No block is published above the one being built. *)
BuildsOnTop ==
  Nd!Building(node) => \A b \in node.published : b.parent < node.candidate.parent

OrderInv == AnswersImprove /\ WorkerMovesOn /\ DrainIsNew /\ BuildsOnTop
=============================================================================
