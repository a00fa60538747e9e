------------------------- MODULE UpdateStreamProofs -------------------------
(***************************************************************************)
(* The event loop's invariants, for every number of heads and of other     *)
(* updates, every length of the channel, every score and difficulty, and   *)
(* whichever service calls are refused or fail.                            *)
(*                                                                         *)
(* The invariant has one part for each of the parts that are composed: the *)
(* miner and its thread, the node, the channel of updates and the loop. A  *)
(* step of one part leaves the invariants of the others alone unless it    *)
(* moves the head they speak of.                                           *)
(***************************************************************************)
EXTENDS UpdateStream, SequenceTheorems, TLAPS

(* The loop's constants are as the node and the miner assume theirs to be. *)
LEMMA PartsAssumptions ==
  /\ Mn!AnswersAssumption
  /\ Nd!NodeAssumption
<1>1. Mn!NoAnswer \notin Mn!Answer
  BY DEF Mn!NoAnswer, Mn!NoChallenge, Mn!Answer, Mn!Challenge
<1>. QED
  BY <1>1, StreamAssumption DEF Mn!AnswersAssumption, Nd!NodeAssumption

(* Challenges, answers and messages, field by field. *)
LEMMA MessageFacts ==
  /\ Mn!NoAnswer \notin Mn!Answer
  /\ \A c \in Mn!Challenge : c.id \in Nat /\ c.id > 0 /\ c.difficulty \in Nat
  /\ Mn!NoChallenge.id = 0 /\ Mn!NoChallenge.difficulty = 0
  /\ \A a \in Mn!Answer : a.challenge \in Mn!Challenge /\ a.score \in Nat
  /\ \A m \in Mn!MessageToWorker \ {Mn!Shutdown} : m.challenge \in Mn!Challenge
  /\ \A m \in Mn!MessageToMiner \ {Mn!Started} : m.answer \in Mn!Answer
  /\ \A a : Mn!Solved(a) # Mn!Started /\ Mn!Solved(a).answer = a
  /\ \A c : Mn!Update(c) # Mn!Shutdown /\ Mn!Update(c).challenge = c
<1>1. Mn!NoAnswer \notin Mn!Answer
  BY PartsAssumptions DEF Nd!NodeAssumption
<1>2. /\ \A c \in Mn!Challenge : c.id \in 1..MaxHead
      /\ \A c \in Mn!Challenge : c.difficulty \in Difficulties
  BY DEF Mn!Challenge
<1>3. \A c \in Mn!Challenge : c.id \in Nat /\ c.id > 0
  BY <1>2, StreamAssumption
<1>4. \A c \in Mn!Challenge : c.difficulty \in Nat
  BY <1>2, StreamAssumption
<1>5. /\ \A a \in Mn!Answer : a.challenge \in Mn!Challenge
      /\ \A a \in Mn!Answer : a.score \in 1..MaxScore
  BY DEF Mn!Answer
<1>6. \A a \in Mn!Answer : a.score \in Nat
  BY <1>5, StreamAssumption
<1>7. Mn!NoChallenge.id = 0 /\ Mn!NoChallenge.difficulty = 0
  BY DEF Mn!NoChallenge
<1>8. /\ \A a : Mn!Solved(a) # Mn!Started /\ Mn!Solved(a).answer = a
      /\ \A c : Mn!Update(c) # Mn!Shutdown /\ Mn!Update(c).challenge = c
  BY DEF Mn!Solved, Mn!Started, Mn!Update, Mn!Shutdown
<1>9. /\ \A m \in Mn!MessageToWorker \ {Mn!Shutdown} : m.challenge \in Mn!Challenge
      /\ \A m \in Mn!MessageToMiner \ {Mn!Started} : m.answer \in Mn!Answer
  BY <1>8 DEF Mn!MessageToWorker, Mn!MessageToMiner
<1>. QED  BY <1>1, <1>3, <1>4, <1>5, <1>6, <1>7, <1>8, <1>9

(* An answer that is offered was asked for by a challenge posted, and      *)
(* reaches its difficulty.                                                 *)
OfferIsGood(c) ==
  c \in Mn!Answer => c.challenge.id =< latest.id /\ c.score >= c.challenge.difficulty

LEMMA OffersAreGood ==
  ASSUME MinerInv
  PROVE  Offered \in Mn!Answer \cup {Mn!NoAnswer} /\ OfferIsGood(Offered)
<1>1. CASE Offered = Mn!NoAnswer
  BY <1>1, MessageFacts DEF OfferIsGood
<1>2. CASE Offered # Mn!NoAnswer
  <2>1. /\ toMiner # <<>> /\ Mn!LastMessage # Mn!Started
        /\ Offered = Mn!LastMessage.answer
    BY <1>2 DEF Offered, Mn!Drained, MinerInv
  <2>2. toMiner \in Seq(Mn!MessageToMiner)
    BY DEF MinerInv, Mn!WorkerTypeOK
  <2>. DEFINE n == Len(toMiner)
  <2>3. n \in 1..Len(toMiner) /\ toMiner[n] \in Mn!MessageToMiner
    BY <2>1, <2>2
  <2>4. Mn!LastMessage = toMiner[n]
    BY DEF Mn!LastMessage
  <2>. HIDE DEF n
  <2>5. toMiner[n].answer \in Mn!Answer
    BY <2>1, <2>3, <2>4, MessageFacts
  <2>6. /\ toMiner[n].answer.challenge.id =< latest.id
        /\ toMiner[n].answer.score >= toMiner[n].answer.challenge.difficulty
    BY <2>1, <2>3, <2>4 DEF MinerInv, WorkIsPosted
  <2>. QED  BY <2>1, <2>4, <2>5, <2>6 DEF OfferIsGood
<1>. QED  BY <1>1, <1>2

(* Every block the validator has of the node has a head for its parent.    *)
LEMMA BlockTypes ==
  ASSUME NEW n, NEW h \in Nat, Nd!NodeOK(n, h)
  PROVE  /\ n \in Nd!Node
         /\ Nd!Building(n) => n.candidate.parent \in Nat
         /\ \A b \in n.published : b.parent \in Nat /\ b.consensus \in Mn!Answer
<1>1. n \in Nd!Node
  BY DEF Nd!NodeOK
<1>2. Nd!Building(n) => n.candidate.parent \in 1..MaxHead
  BY <1>1 DEF Nd!Node, Nd!Building, Nd!Candidate
<1>3. \A b \in n.published : b.parent \in 1..MaxHead /\ b.consensus \in Mn!Answer
  BY <1>1 DEF Nd!Node, Nd!Published
<1>. QED  BY <1>1, <1>2, <1>3, StreamAssumption
-----------------------------------------------------------------------------
(* What a step does not touch keeps its invariant.                         *)
LEMMA MinerStays == MinerInv /\ UNCHANGED minerPart => MinerInv'
BY DEF MinerInv, minerPart, WorkIsPosted, Mn!WorkerTypeOK

LEMMA NodeStays == NodeInv /\ UNCHANGED <<node, head, latest>> => NodeInv'
BY DEF NodeInv, AnswersAreNotAhead, PostedBeforeBegun

LEMMA QueueStays == QueueInv /\ UNCHANGED <<head, updates, validator>> => QueueInv'
BY DEF QueueInv, CommitsInOrder, validator

LEMMA LoopStays == LoopInv /\ UNCHANGED <<flags, updater, connected>> => LoopInv'
BY DEF LoopInv, FlagOnlyAfterTimer, StopsOnlyWhenTold, Stopping, flags

(* An update less in the channel. *)
LEMMA QueueReceives ==
  ASSUME QueueInv, updates # <<>>, updates' = Tail(updates), UNCHANGED <<head, validator>>
  PROVE  QueueInv'
<1>1. /\ Len(updates) \in Nat /\ Len(updates) > 0 /\ updates' \in Seq(Update)
      /\ Len(updates') = Len(updates) - 1
      /\ \A i \in 1..Len(updates') : i + 1 \in 1..Len(updates) /\ updates'[i] = updates[i + 1]
  BY DEF QueueInv
<1>2. CommitsInOrder'
  <2>1. ASSUME NEW i \in 1..Len(updates'), IsCommit(updates'[i])
        PROVE  updates'[i].block \in (head + 1)..committed
    BY <1>1, <2>1 DEF QueueInv, CommitsInOrder, IsCommit
  <2>2. ASSUME NEW i \in 1..Len(updates'), NEW j \in 1..Len(updates'), i < j,
               IsCommit(updates'[i]), IsCommit(updates'[j])
        PROVE  updates'[i].block < updates'[j].block
    BY <1>1, <2>2 DEF QueueInv, CommitsInOrder, IsCommit
  <2>3. \A i \in 1..Len(updates') : updates'[i] = Stop => ~connected
    BY <1>1 DEF QueueInv, CommitsInOrder
  <2>. QED  BY <2>1, <2>2, <2>3 DEF CommitsInOrder, IsCommit, validator
<1>3. Len(updates') =< MaxQueue
  BY <1>1, StreamAssumption DEF QueueInv
<1>. QED  BY <1>1, <1>2, <1>3 DEF QueueInv, validator

(* The first update in the channel. *)
LEMMA FirstUpdate ==
  ASSUME QueueInv, updates # <<>>
  PROVE  1 \in 1..Len(updates) /\ Head(updates) = updates[1] /\ updates[1] \in Update
BY DEF QueueInv
-----------------------------------------------------------------------------
(* The miner thread takes a message: a challenge that was posted.          *)
LEMMA MinerTakes == MinerInv /\ Mn!TakeMessage /\ UNCHANGED <<answer, latest>> => MinerInv'
<1>. SUFFICES ASSUME MinerInv, Mn!TakeMessage, UNCHANGED <<answer, latest>>
              PROVE  MinerInv'
  OBVIOUS
<1>t. Mn!WorkerTypeOK
  BY DEF MinerInv
<1>1. /\ Len(toWorker) \in Nat /\ Len(toWorker) > 0
      /\ toWorker' = Tail(toWorker)
      /\ toWorker' \in Seq(Mn!MessageToWorker)
      /\ Len(toWorker') = Len(toWorker) - 1
      /\ \A i \in 1..Len(toWorker') :
           i + 1 \in 1..Len(toWorker) /\ toWorker'[i] = toWorker[i + 1]
      /\ 1 \in 1..Len(toWorker) /\ Head(toWorker) = toWorker[1]
      /\ toWorker[1] \in Mn!MessageToWorker
  BY <1>t DEF Mn!TakeMessage, Mn!WorkerTypeOK
<1>2. \A i \in 1..Len(toWorker') :
        toWorker'[i] # Mn!Shutdown => toWorker'[i].challenge.id =< latest.id
  BY <1>1 DEF MinerInv, WorkIsPosted
<1>3. CASE Head(toWorker) # Mn!Shutdown
  <2>. DEFINE c == Head(toWorker).challenge
  <2>1. c \in Mn!Challenge /\ c.id =< latest.id
    BY <1>1, <1>3, MessageFacts DEF MinerInv, WorkIsPosted
  <2>2. /\ toMiner' = Append(toMiner, Mn!Started)
        /\ worker' = [pc |-> "hash", challenge |-> c, level |-> Mn!LevelBelow(c.difficulty)]
    BY <1>3 DEF Mn!TakeMessage, Mn!Start
  <2>. HIDE DEF c
  <2>3. c.difficulty \in Nat /\ Mn!LevelBelow(c.difficulty) \in Nat
    BY <2>1, MessageFacts DEF Mn!LevelBelow
  <2>4. toMiner' \in Seq(Mn!MessageToMiner)
    BY <1>t, <2>2 DEF Mn!WorkerTypeOK, Mn!MessageToMiner
  <2>5. Mn!WorkerTypeOK'
    BY <1>1, <2>1, <2>2, <2>3, <2>4 DEF Mn!WorkerTypeOK
  <2>6. \A i \in 1..Len(toMiner') : toMiner'[i] # Mn!Started =>
          i \in 1..Len(toMiner) /\ toMiner'[i] = toMiner[i]
    BY <1>t, <2>2 DEF Mn!WorkerTypeOK
  <2>7. Mn!LevelBelow(c.difficulty) >= Mn!LevelBelow(c.difficulty)
    BY <2>3
  <2>8. WorkIsPosted'
    BY <1>2, <2>1, <2>2, <2>6, <2>7 DEF MinerInv, WorkIsPosted
  <2>. QED  BY <2>5, <2>8 DEF MinerInv
<1>4. CASE Head(toWorker) = Mn!Shutdown
  <2>1. worker' = [worker EXCEPT !.pc = "stopped"] /\ toMiner' = toMiner
    BY <1>4 DEF Mn!TakeMessage
  <2>2. /\ worker'.challenge = worker.challenge /\ worker'.pc = "stopped"
        /\ worker'.level = worker.level
    BY <1>t, <2>1 DEF Mn!WorkerTypeOK
  <2>3. Mn!WorkerTypeOK'
    BY <1>t, <1>1, <2>1 DEF Mn!WorkerTypeOK
  <2>. QED  BY <1>2, <2>1, <2>2, <2>3 DEF MinerInv, WorkIsPosted
<1>. QED  BY <1>3, <1>4

(* It hashes: what it finds beats the level, which is never more than one  *)
(* below the difficulty.                                                   *)
LEMMA MinerHashes ==
  MinerInv /\ (Mn!NextNonce \/ Mn!Solve \/ Mn!Miss) /\ UNCHANGED <<answer, latest>> => MinerInv'
<1>. SUFFICES ASSUME MinerInv, Mn!NextNonce \/ Mn!Solve \/ Mn!Miss, UNCHANGED <<answer, latest>>
              PROVE  MinerInv'
  OBVIOUS
<1>t. Mn!WorkerTypeOK
  BY DEF MinerInv
<1>1. worker.pc \in {"hash", "poll"} /\ worker.challenge \in Mn!Challenge
  BY DEF Mn!NextNonce, Mn!Solve, Mn!Miss, MinerInv, WorkIsPosted
<1>2. CASE Mn!NextNonce \/ Mn!Miss
  <2>1. /\ toMiner' = toMiner /\ toWorker' = toWorker
        /\ worker' = [worker EXCEPT !.pc = "hash"] \/ worker' = [worker EXCEPT !.pc = "poll"]
    BY <1>2 DEF Mn!NextNonce, Mn!Miss
  <2>2. worker'.challenge = worker.challenge /\ worker'.level = worker.level
    BY <1>t, <2>1 DEF Mn!WorkerTypeOK
  <2>3. Mn!WorkerTypeOK'
    BY <1>t, <2>1 DEF Mn!WorkerTypeOK
  <2>. QED  BY <1>1, <2>1, <2>2, <2>3 DEF MinerInv, WorkIsPosted
<1>3. CASE Mn!Solve
  <2>1. PICK s \in 1..MaxScore :
          /\ s > worker.level
          /\ toMiner' = Append(toMiner,
                Mn!Solved([challenge |-> worker.challenge, score |-> s]))
          /\ worker' = [worker EXCEPT !.pc = "poll", !.level = s]
    BY <1>3 DEF Mn!Solve, Mn!Improves
  <2>. DEFINE a == [challenge |-> worker.challenge, score |-> s]
  <2>2. a \in Mn!Answer /\ a.challenge = worker.challenge /\ a.score = s /\ s \in Nat
    BY <1>1, StreamAssumption DEF Mn!Answer
  <2>. HIDE DEF a
  <2>3. toMiner' = Append(toMiner, Mn!Solved(a)) /\ toWorker' = toWorker
    BY <1>3, <2>1 DEF a, Mn!Solve
  <2>4. worker.level \in Nat /\ worker.challenge.difficulty \in Nat
    BY <1>t, <1>1, MessageFacts DEF Mn!WorkerTypeOK
  <2>5. s >= worker.challenge.difficulty /\ s >= Mn!LevelBelow(worker.challenge.difficulty)
    BY <2>1, <2>2, <2>4 DEF MinerInv, WorkIsPosted, Mn!LevelBelow
  <2>6. toMiner' \in Seq(Mn!MessageToMiner)
    BY <1>t, <2>2, <2>3 DEF Mn!WorkerTypeOK, Mn!MessageToMiner
  <2>7. /\ worker'.challenge = worker.challenge /\ worker'.level = s
        /\ Mn!WorkerTypeOK'
    BY <1>t, <2>1, <2>2, <2>3, <2>6 DEF Mn!WorkerTypeOK
  <2>8. \A i \in 1..Len(toMiner') :
          \/ i \in 1..Len(toMiner) /\ toMiner'[i] = toMiner[i]
          \/ toMiner'[i] = Mn!Solved(a)
    BY <1>t, <2>3 DEF Mn!WorkerTypeOK
  <2>9. \A i \in 1..Len(toMiner') : toMiner'[i] # Mn!Started =>
          /\ toMiner'[i].answer.challenge.id =< latest.id
          /\ toMiner'[i].answer.score >= toMiner'[i].answer.challenge.difficulty
    BY <2>2, <2>5, <2>8, MessageFacts DEF MinerInv, WorkIsPosted
  <2>. QED  BY <1>1, <2>3, <2>5, <2>7, <2>9 DEF MinerInv, WorkIsPosted
<1>. QED  BY <1>2, <1>3

(* The engine's thread drains the miner, or leaves the channel alone.      *)
LEMMA MinerDrained ==
  MinerInv /\ AttemptDrains /\ UNCHANGED <<toWorker, worker, latest>> => MinerInv'
<1>. SUFFICES ASSUME MinerInv, AttemptDrains, UNCHANGED <<toWorker, worker, latest>>
              PROVE  MinerInv'
  OBVIOUS
<1>1. CASE UNCHANGED <<toMiner, answer>>
  BY <1>1, MinerStays DEF minerPart
<1>2. CASE toMiner' = <<>> /\ answer' = Mn!NoAnswer
  BY <1>2 DEF MinerInv, WorkIsPosted, Mn!WorkerTypeOK
<1>. QED  BY <1>1, <1>2 DEF AttemptDrains, Mn!DrainAnswers

(* It posts the challenge of a head that is not before the last.           *)
LEMMA MinerPosted ==
  ASSUME MinerInv, NEW c \in Mn!Challenge, latest.id =< c.id,
         Mn!SendChallenge(c), AttemptDrains, UNCHANGED worker
  PROVE  MinerInv'
<1>t. Mn!WorkerTypeOK
  BY DEF MinerInv
<1>1. toWorker' = Append(toWorker, Mn!Update(c)) /\ latest' = c
  BY DEF Mn!SendChallenge, Mn!Send
<1>2. latest.id \in Nat /\ c.id \in Nat
  BY MessageFacts DEF MinerInv
<1>3. toWorker' \in Seq(Mn!MessageToWorker)
  BY <1>t, <1>1 DEF Mn!WorkerTypeOK, Mn!MessageToWorker
<1>4. worker.challenge.id \in Nat /\ worker.challenge.id =< c.id
  BY <1>t, <1>2, MessageFacts DEF MinerInv, WorkIsPosted, Mn!WorkerTypeOK
<1>5. \A i \in 1..Len(toWorker') : toWorker'[i] # Mn!Shutdown => toWorker'[i].challenge.id =< c.id
  <2>1. \A i \in 1..Len(toWorker') :
          \/ i \in 1..Len(toWorker) /\ toWorker'[i] = toWorker[i]
          \/ toWorker'[i] = Mn!Update(c)
    BY <1>t, <1>1 DEF Mn!WorkerTypeOK
  <2>2. \A i \in 1..Len(toWorker) : toWorker[i] # Mn!Shutdown =>
          toWorker[i].challenge.id \in Nat /\ toWorker[i].challenge.id =< latest.id
    BY <1>t, MessageFacts DEF MinerInv, WorkIsPosted, Mn!WorkerTypeOK
  <2>. QED  BY <1>2, <2>1, <2>2, MessageFacts
<1>6. /\ toMiner' \in Seq(Mn!MessageToMiner) /\ answer' = Mn!NoAnswer
      /\ \A i \in 1..Len(toMiner') : i \in 1..Len(toMiner) /\ toMiner'[i] = toMiner[i]
  <2>1. CASE UNCHANGED <<toMiner, answer>>
    BY <1>t, <2>1 DEF MinerInv, Mn!WorkerTypeOK
  <2>2. CASE toMiner' = <<>> /\ answer' = Mn!NoAnswer
    BY <2>2
  <2>. QED  BY <2>1, <2>2 DEF AttemptDrains, Mn!DrainAnswers
<1>7. \A i \in 1..Len(toMiner) : toMiner[i] # Mn!Started =>
        toMiner[i].answer.challenge.id \in Nat /\ toMiner[i].answer.challenge.id =< latest.id
  BY <1>t, MessageFacts DEF MinerInv, WorkIsPosted, Mn!WorkerTypeOK
<1>8. \A i \in 1..Len(toMiner') : toMiner'[i] # Mn!Started =>
        /\ toMiner'[i].answer.challenge.id =< c.id
        /\ toMiner'[i].answer.score >= toMiner'[i].answer.challenge.difficulty
  BY <1>2, <1>6, <1>7 DEF MinerInv, WorkIsPosted
<1>9. Mn!WorkerTypeOK'
  BY <1>t, <1>3, <1>6 DEF Mn!WorkerTypeOK
<1>. QED  BY <1>1, <1>4, <1>5, <1>6, <1>8, <1>9 DEF MinerInv, WorkIsPosted
-----------------------------------------------------------------------------
(* A block published now has an answer that was asked for by then.         *)
LEMMA PublishedInTime ==
  ASSUME MinerInv, NodeInv, NEW n, Nd!PublishesOnly(n, node, Offered)
  PROVE  \A b \in n.published :
           /\ b.consensus.challenge.id =< b.parent
           /\ b.consensus.score >= b.consensus.challenge.difficulty
<1>. SUFFICES ASSUME NEW b \in n.published
              PROVE  /\ b.consensus.challenge.id =< b.parent
                     /\ b.consensus.score >= b.consensus.challenge.difficulty
  OBVIOUS
<1>1. CASE b \in node.published
  BY <1>1 DEF NodeInv, AnswersAreNotAhead
<1>2. CASE /\ Nd!Building(node) /\ Offered \in Mn!Answer
           /\ b = [parent |-> node.candidate.parent, consensus |-> Offered]
  <2>1. b.parent = node.candidate.parent /\ b.consensus = Offered
    BY <1>2
  <2>2. head \in Nat
    BY StreamAssumption DEF NodeInv
  <2>3. node.candidate.parent \in Nat
    BY <1>2, <2>2, BlockTypes DEF NodeInv
  <2>4. Offered.challenge.id \in Nat /\ latest.id \in Nat
    BY <1>2, MessageFacts DEF MinerInv
  <2>5. Offered.challenge.id =< latest.id /\ Offered.score >= Offered.challenge.difficulty
    BY <1>2, OffersAreGood DEF OfferIsGood
  <2>6. latest.id =< node.candidate.parent
    BY <1>2 DEF NodeInv, PostedBeforeBegun
  <2>. QED  BY <2>1, <2>3, <2>4, <2>5, <2>6
<1>. QED  BY <1>1, <1>2 DEF Nd!PublishesOnly

(* An attempt to publish.                                                  *)
LEMMA NodeAttempts ==
  ASSUME MinerInv, NodeInv, NEW o \in Nd!TryPublish(node, Offered),
         node' = o.node, head' = head, latest' = latest
  PROVE  NodeInv' /\ (Failing = {} => o.result # "Error")
<1>1. head \in Nat /\ Nd!NodeOK(node, head) /\ Offered \in Mn!Answer \cup {Mn!NoAnswer}
  BY StreamAssumption, OffersAreGood DEF NodeInv
<1>2. Nd!NodeOK(o.node, head)
  BY <1>1, PartsAssumptions, Nd!TryPublishOK
<1>3. Nd!KeepsCandidate(o.node, node) /\ Nd!PublishesOnly(o.node, node, Offered)
  BY <1>1, BlockTypes, PartsAssumptions, Nd!AttemptEffect
<1>4. ASSUME Failing = {}  PROVE Nd!Tracks(o.node, head) /\ o.result # "Error"
  <2>1. Nd!Tracks(node, head)
    BY <1>4 DEF NodeInv
  <2>. QED  BY <1>1, <1>4, <2>1, PartsAssumptions, Nd!TryPublishTracks
<1>5. AnswersAreNotAhead'
  BY <1>3, PublishedInTime DEF AnswersAreNotAhead
<1>6. PostedBeforeBegun'
  BY <1>3 DEF NodeInv, PostedBeforeBegun, Nd!KeepsCandidate
<1>. QED  BY <1>2, <1>4, <1>5, <1>6 DEF NodeInv

(* The handler of BlockCommit, for a later head.                           *)
LEMMA NodeCommits ==
  ASSUME MinerInv, NodeInv, head' \in 1..MaxHead, head < head',
         NEW o \in Nd!OnBlockCommit(node, Offered, head'), node' = o.node,
         IF o.mined THEN latest'.id = head' ELSE latest' = latest
  PROVE  NodeInv'
<1>1. /\ head \in Nat /\ head' \in Nat /\ Nd!NodeOK(node, head)
      /\ Offered \in Mn!Answer \cup {Mn!NoAnswer}
  BY StreamAssumption, OffersAreGood DEF NodeInv
<1>2. Nd!NodeOK(o.node, head')
  BY <1>1, PartsAssumptions, Nd!OnLaterCommitOK
<1>3. /\ Nd!PublishesOnly(o.node, node, Offered)
      /\ o.mined \in BOOLEAN
      /\ o.mined /\ Nd!Building(o.node) => o.node.candidate.parent = head'
      /\ ~o.mined => Nd!KeepsCandidate(o.node, node)
  BY <1>1, PartsAssumptions, Nd!CommitEffect
<1>4. ASSUME Failing = {}  PROVE Nd!Tracks(o.node, head')
  <2>1. Nd!Tracks(node, head)
    BY <1>4 DEF NodeInv
  <2>. QED  BY <1>1, <1>4, <2>1, PartsAssumptions, Nd!OnBlockCommitTracks
<1>5. AnswersAreNotAhead'
  BY <1>3, PublishedInTime DEF AnswersAreNotAhead
<1>6. PostedBeforeBegun'
  <2>1. CASE o.mined
    BY <1>1, <1>3, <2>1 DEF PostedBeforeBegun
  <2>2. CASE ~o.mined
    <3>1. latest'.id \in Nat /\ latest'.id =< head'
      BY <1>1, <2>2, MessageFacts DEF MinerInv, NodeInv, PostedBeforeBegun
    <3>. QED  BY <1>3, <2>2, <3>1 DEF NodeInv, PostedBeforeBegun, Nd!KeepsCandidate
  <2>. QED  BY <2>1, <2>2
<1>. QED  BY <1>2, <1>4, <1>5, <1>6 DEF NodeInv
-----------------------------------------------------------------------------
(* The updater publishes.                                                  *)
LEMMA StreamPublish == StreamInv /\ Publish => StreamInv'
<1>. SUFFICES ASSUME StreamInv, Publish PROVE StreamInv'
  OBVIOUS
<1>. USE DEF StreamInv
<1>1. PICK o \in Nd!TryPublish(node, Offered) :
        /\ node' = o.node
        /\ publishing_flag' = (o.result # "Published")
        /\ updater' = IF o.result = "Error" THEN "drop" ELSE "recv"
  BY DEF Publish
<1>2. MinerInv'
  BY MinerDrained DEF Publish
<1>3. NodeInv' /\ (Failing = {} => o.result # "Error")
  BY <1>1, NodeAttempts DEF Publish
<1>4. QueueInv'
  BY QueueStays DEF Publish
<1>5. publishing_flag /\ timer' = timer /\ timer = "fired" /\ connected' = connected
      /\ new_chainhead_flag' = new_chainhead_flag
  BY DEF Publish, LoopInv, FlagOnlyAfterTimer, validator
<1>6. LoopInv'
  BY <1>1, <1>3, <1>5 DEF LoopInv, FlagOnlyAfterTimer, StopsOnlyWhenTold, Stopping
<1>. QED  BY <1>2, <1>3, <1>4, <1>6

(* The updater handles a BlockCommit.                                      *)
LEMMA StreamCommit == StreamInv /\ Commit => StreamInv'
<1>. SUFFICES ASSUME StreamInv, Commit PROVE StreamInv'
  OBVIOUS
<1>. USE DEF StreamInv
<1>1. /\ updates # <<>> /\ updates' = Tail(updates) /\ head' = Head(updates).block
      /\ IsCommit(Head(updates)) /\ updater' = "publish"
      /\ AttemptDrains /\ UNCHANGED <<worker, timer, validator>>
  BY DEF Commit, Receives, IsCommit
<1>2. PICK o \in Nd!OnBlockCommit(node, Offered, head') :
        /\ node' = o.node
        /\ new_chainhead_flag' = (new_chainhead_flag \/ o.result = "Restart")
        /\ publishing_flag' = (publishing_flag /\ ~o.eager)
        /\ IF o.mined
           THEN \E d \in Difficulties : Mn!SendChallenge([id |-> head', difficulty |-> d])
           ELSE UNCHANGED <<toWorker, latest>>
  BY DEF Commit
<1>3. head' \in (head + 1)..committed /\ head' = updates[1].block
      /\ head \in Nat /\ committed \in head..MaxHead
  BY <1>1, FirstUpdate, StreamAssumption DEF QueueInv, CommitsInOrder, NodeInv
<1>4. head' \in 1..MaxHead /\ head < head' /\ committed \in head'..MaxHead
  BY <1>3, StreamAssumption
<1>5. /\ IF o.mined THEN latest'.id = head' ELSE latest' = latest
      /\ MinerInv'
  <2>1. CASE o.mined
    <3>1. PICK d \in Difficulties : Mn!SendChallenge([id |-> head', difficulty |-> d])
      BY <1>2, <2>1
    <3>. DEFINE c == [id |-> head', difficulty |-> d]
    <3>2. c \in Mn!Challenge /\ c.id = head'
      BY <1>4 DEF Mn!Challenge
    <3>3. latest' = c
      BY <3>1 DEF Mn!SendChallenge
    <3>4. latest.id =< c.id
      <4>1. latest.id \in Nat /\ latest.id =< head
        BY MessageFacts DEF MinerInv, NodeInv, PostedBeforeBegun
      <4>. QED  BY <1>3, <1>4, <3>2, <4>1
    <3>. HIDE DEF c
    <3>5. MinerInv'
      BY <1>1, <3>1, <3>2, <3>4, MinerPosted DEF c
    <3>. QED  BY <2>1, <3>2, <3>3, <3>5
  <2>2. CASE ~o.mined
    BY <1>1, <1>2, <2>2, MinerDrained
  <2>. QED  BY <2>1, <2>2
<1>6. NodeInv'
  BY <1>2, <1>4, <1>5, NodeCommits
<1>7. CommitsInOrder'
  <2>1. /\ Len(updates) \in Nat /\ Len(updates) > 0
        /\ \A i \in 1..Len(updates') :
             /\ i \in Nat /\ 1 < i + 1
             /\ 1 \in 1..Len(updates) /\ i + 1 \in 1..Len(updates)
             /\ updates'[i] = updates[i + 1]
    BY <1>1 DEF QueueInv
  <2>2. IsCommit(updates[1])
    BY <1>1, FirstUpdate
  <2>3. ASSUME NEW i \in 1..Len(updates'), IsCommit(updates'[i])
        PROVE  updates'[i].block \in (head' + 1)..committed
    <3>1. updates'[i] = updates[i + 1] /\ i + 1 \in 1..Len(updates) /\ 1 < i + 1
          /\ 1 \in 1..Len(updates) /\ IsCommit(updates[i + 1])
      BY <2>1, <2>3
    <3>2. updates[i + 1].block \in (head + 1)..committed
      BY <3>1 DEF QueueInv, CommitsInOrder
    <3>3. head' < updates[i + 1].block
      BY <1>3, <2>2, <3>1 DEF QueueInv, CommitsInOrder
    <3>. QED  BY <1>3, <3>1, <3>2, <3>3
  <2>4. ASSUME NEW i \in 1..Len(updates'), NEW j \in 1..Len(updates'), i < j,
               IsCommit(updates'[i]), IsCommit(updates'[j])
        PROVE  updates'[i].block < updates'[j].block
    <3>1. i + 1 < j + 1
      BY <2>1, <2>4
    <3>. QED  BY <2>1, <2>4, <3>1 DEF QueueInv, CommitsInOrder
  <2>5. \A i \in 1..Len(updates') : updates'[i] = Stop => ~connected
    BY <2>1 DEF QueueInv, CommitsInOrder
  <2>6. connected' = connected /\ committed' = committed
    BY <1>1 DEF validator
  <2>. QED  BY <2>3, <2>4, <2>5, <2>6 DEF CommitsInOrder
<1>8. QueueInv'
  <2>1. updates' \in Seq(Update) /\ Len(updates') =< MaxQueue
    BY <1>1, StreamAssumption DEF QueueInv
  <2>. QED  BY <1>1, <1>4, <1>7, <2>1 DEF QueueInv, validator
<1>9. LoopInv'
  BY <1>1, <1>2 DEF LoopInv, FlagOnlyAfterTimer, StopsOnlyWhenTold, Stopping, validator
<1>. QED  BY <1>5, <1>6, <1>8, <1>9
-----------------------------------------------------------------------------
(* The updater's steps that leave the miner and the node alone.            *)
LEMMA StreamMoves ==
  StreamInv /\ (SkipPublish \/ Ignore \/ Sleep \/ Wake \/ Join) => StreamInv'
<1>. SUFFICES ASSUME StreamInv, SkipPublish \/ Ignore \/ Sleep \/ Wake \/ Join
              PROVE  StreamInv'
  OBVIOUS
<1>. USE DEF StreamInv
<1>1. UNCHANGED minerPart /\ UNCHANGED nodePart /\ UNCHANGED flags /\ UNCHANGED validator
  BY DEF SkipPublish, Ignore, Sleep, Wake, Join
<1>2. MinerInv'
  BY <1>1, MinerStays
<1>3. NodeInv'
  BY <1>1, NodeStays DEF minerPart, nodePart
<1>4. QueueInv'
  <2>1. CASE Ignore
    BY <1>1, <2>1, QueueReceives DEF Ignore, Receives, nodePart
  <2>2. CASE ~Ignore
    BY <1>1, <2>2, QueueStays DEF SkipPublish, Sleep, Wake, Join, nodePart
  <2>. QED  BY <2>1, <2>2
<1>5. \/ updater' \in {"recv", "publish", "sleep"}
      \/ updater = "join" /\ updater' = "exited"
  BY DEF SkipPublish, Ignore, Sleep, Wake, Join
<1>6. LoopInv'
  BY <1>1, <1>5 DEF LoopInv, FlagOnlyAfterTimer, StopsOnlyWhenTold, Stopping, flags, validator
<1>. QED  BY <1>2, <1>3, <1>4, <1>6

(* The loop is left for Stop, which is the last update there is.           *)
LEMMA StreamLeave == StreamInv /\ Leave => StreamInv'
<1>. SUFFICES ASSUME StreamInv, Leave PROVE StreamInv'
  OBVIOUS
<1>. USE DEF StreamInv
<1>1. /\ UNCHANGED minerPart /\ UNCHANGED nodePart /\ UNCHANGED flags /\ UNCHANGED validator
      /\ updates # <<>> /\ updates' = Tail(updates) /\ Head(updates).kind = "Stop"
      /\ updater' = "drop"
  BY DEF Leave, Receives
<1>2. updates[1] = Stop /\ 1 \in 1..Len(updates)
  BY <1>1, FirstUpdate DEF Update, Stop, Other, BlockCommit
<1>3. ~connected
  BY <1>2 DEF QueueInv, CommitsInOrder
<1>4. MinerInv'
  BY <1>1, MinerStays
<1>5. NodeInv'
  BY <1>1, NodeStays DEF minerPart, nodePart
<1>6. QueueInv'
  BY <1>1, QueueReceives DEF nodePart
<1>7. LoopInv'
  BY <1>1, <1>3 DEF LoopInv, FlagOnlyAfterTimer, StopsOnlyWhenTold, flags, validator
<1>. QED  BY <1>4, <1>5, <1>6, <1>7

(* The scheduler and the committer move the flags and the timer.           *)
LEMMA StreamFlags == StreamInv /\ (Scheduler \/ Committer) => StreamInv'
<1>. SUFFICES ASSUME StreamInv, Scheduler \/ Committer PROVE StreamInv'
  OBVIOUS
<1>. USE DEF StreamInv
<1>1. /\ UNCHANGED minerPart /\ UNCHANGED nodePart /\ UNCHANGED validator
      /\ updates' = updates /\ updater' = updater
  BY DEF Scheduler, Committer
<1>2. MinerInv'
  BY <1>1, MinerStays
<1>3. NodeInv'
  BY <1>1, NodeStays DEF minerPart, nodePart
<1>4. QueueInv'
  BY <1>1, QueueStays DEF nodePart
<1>5. \/ timer' = "fired" /\ publishing_flag' = TRUE /\ new_chainhead_flag' = new_chainhead_flag
      \/ timer' = "armed" /\ publishing_flag' = FALSE /\ new_chainhead_flag' = FALSE
  BY DEF Scheduler, Committer
<1>6. LoopInv'
  BY <1>1, <1>5 DEF LoopInv, FlagOnlyAfterTimer, StopsOnlyWhenTold, Stopping, validator
<1>. QED  BY <1>2, <1>3, <1>4, <1>6

(* The node is dropped, its worker told to stop.                           *)
LEMMA StreamDrop == StreamInv /\ Drop => StreamInv'
<1>. SUFFICES ASSUME StreamInv, Drop PROVE StreamInv'
  OBVIOUS
<1>. USE DEF StreamInv
<1>1. /\ toWorker' = Append(toWorker, Mn!Shutdown)
      /\ UNCHANGED <<toMiner, worker, answer, latest, nodePart, updates, flags, validator>>
      /\ updater = "drop" /\ updater' = "join"
  BY DEF Drop, Mn!Send
<1>2. MinerInv'
  <2>1. toWorker' \in Seq(Mn!MessageToWorker)
    BY <1>1 DEF MinerInv, Mn!WorkerTypeOK, Mn!MessageToWorker
  <2>2. \A i \in 1..Len(toWorker') : toWorker'[i] # Mn!Shutdown =>
          i \in 1..Len(toWorker) /\ toWorker'[i] = toWorker[i]
    BY <1>1 DEF MinerInv, Mn!WorkerTypeOK
  <2>. QED  BY <1>1, <2>1, <2>2 DEF MinerInv, WorkIsPosted, Mn!WorkerTypeOK
<1>3. NodeInv'
  BY <1>1, NodeStays DEF nodePart
<1>4. QueueInv'
  BY <1>1, QueueStays DEF nodePart
<1>5. LoopInv'
  BY <1>1 DEF LoopInv, FlagOnlyAfterTimer, StopsOnlyWhenTold, Stopping, flags, validator
<1>. QED  BY <1>2, <1>3, <1>4, <1>5

(* The miner thread runs.                                                  *)
LEMMA StreamHashes == StreamInv /\ Hashing => StreamInv'
<1>. SUFFICES ASSUME StreamInv, Hashing PROVE StreamInv'
  OBVIOUS
<1>. USE DEF StreamInv
<1>1. /\ Mn!TakeMessage \/ Mn!NextNonce \/ Mn!Solve \/ Mn!Miss
      /\ UNCHANGED <<answer, latest, nodePart, updates, flags, updater, validator>>
  BY DEF Hashing, Mn!WorkerNext
<1>2. MinerInv'
  BY <1>1, MinerTakes, MinerHashes
<1>3. NodeInv'
  BY <1>1, NodeStays DEF nodePart
<1>4. QueueInv'
  BY <1>1, QueueStays DEF nodePart
<1>5. LoopInv'
  BY <1>1, LoopStays DEF validator
<1>. QED  BY <1>2, <1>3, <1>4, <1>5

(* The validator delivers an update: a commit of a later head than any it  *)
(* has delivered, or its last words.                                       *)
LEMMA StreamDelivers ==
  StreamInv /\ (DeliverCommit \/ DeliverOther \/ DeliverStop) => StreamInv'
<1>. SUFFICES ASSUME StreamInv, DeliverCommit \/ DeliverOther \/ DeliverStop
              PROVE  StreamInv'
  OBVIOUS
<1>. USE DEF StreamInv
<1>1. PICK u \in Update :
        /\ Deliver(u)
        /\ \/ /\ u = BlockCommit(committed + 1) /\ committed' = committed + 1
              /\ committed < MaxHead /\ UNCHANGED <<others, connected>>
           \/ /\ u = Other /\ others' = others + 1
              /\ others < MaxOther /\ UNCHANGED <<committed, connected>>
           \/ u = Stop /\ connected' = FALSE /\ UNCHANGED <<committed, others>>
  <2>1. CASE DeliverCommit
    <3>1. committed + 1 \in 1..MaxHead
      BY <2>1, StreamAssumption DEF DeliverCommit, QueueInv, NodeInv
    <3>2. BlockCommit(committed + 1) \in Update
      BY <3>1 DEF Update
    <3>. QED  BY <2>1, <3>2 DEF DeliverCommit
  <2>2. CASE DeliverOther
    BY <2>2 DEF DeliverOther, Update
  <2>3. CASE DeliverStop
    BY <2>3 DEF DeliverStop, Update
  <2>. QED  BY <2>1, <2>2, <2>3
<1>2. /\ connected /\ Len(updates) < MaxQueue /\ updates' = Append(updates, u)
      /\ UNCHANGED <<minerPart, nodePart, flags, updater>>
  BY <1>1 DEF Deliver
<1>3. MinerInv'
  BY <1>2, MinerStays
<1>4. NodeInv'
  BY <1>2, NodeStays DEF minerPart, nodePart
<1>5. /\ Len(updates) \in Nat /\ updates' \in Seq(Update) /\ Len(updates') = Len(updates) + 1
      /\ \A i \in 1..Len(updates') :
           \/ i \in 1..Len(updates) /\ updates'[i] = updates[i]
           \/ i = Len(updates) + 1 /\ updates'[i] = u
  BY <1>2 DEF QueueInv
<1>6. head' = head /\ head \in Nat /\ committed \in Nat /\ committed \in head..MaxHead
      /\ committed' \in committed..MaxHead
  <2>1. committed' = committed \/ (committed < MaxHead /\ committed' = committed + 1)
    BY <1>1
  <2>2. head' = head /\ head \in Nat /\ committed \in Nat /\ committed \in head..MaxHead
    BY <1>2, StreamAssumption DEF QueueInv, NodeInv, nodePart
  <2>3. committed \in Nat /\ MaxHead \in Nat /\ committed =< MaxHead
    BY <2>2, StreamAssumption
  <2>4. committed' \in committed..MaxHead
    BY <2>1, <2>3
  <2>. QED  BY <2>2, <2>4
<1>7. IsCommit(u) => u.block = committed + 1 /\ committed' = committed + 1
  BY <1>1 DEF IsCommit, BlockCommit, Other, Stop
<1>8. CommitsInOrder'
  <2>1. ASSUME NEW i \in 1..Len(updates'), IsCommit(updates'[i])
        PROVE  updates'[i].block \in (head' + 1)..committed'
    <3>1. CASE i \in 1..Len(updates) /\ updates'[i] = updates[i]
      <4>1. updates[i].block \in (head + 1)..committed
        BY <2>1, <3>1 DEF QueueInv, CommitsInOrder
      <4>. QED  BY <1>6, <3>1, <4>1
    <3>2. CASE updates'[i] = u
      BY <1>6, <1>7, <2>1, <3>2
    <3>. QED  BY <1>5, <3>1, <3>2
  <2>2. ASSUME NEW i \in 1..Len(updates'), NEW j \in 1..Len(updates'), i < j,
               IsCommit(updates'[i]), IsCommit(updates'[j])
        PROVE  updates'[i].block < updates'[j].block
    <3>1. i \in 1..Len(updates) /\ updates'[i] = updates[i]
      BY <1>5, <2>2
    <3>2. updates[i].block \in (head + 1)..committed
      BY <2>2, <3>1 DEF QueueInv, CommitsInOrder
    <3>3. CASE j \in 1..Len(updates) /\ updates'[j] = updates[j]
      BY <2>2, <3>1, <3>3 DEF QueueInv, CommitsInOrder
    <3>4. CASE updates'[j] = u
      BY <1>6, <1>7, <2>2, <3>1, <3>2, <3>4
    <3>. QED  BY <1>5, <3>3, <3>4
  <2>3. ASSUME NEW i \in 1..Len(updates'), updates'[i] = Stop  PROVE ~connected'
    <3>1. CASE i \in 1..Len(updates) /\ updates'[i] = updates[i]
      BY <1>2, <2>3, <3>1 DEF QueueInv, CommitsInOrder
    <3>2. CASE updates'[i] = u
      BY <1>1, <2>3, <3>2 DEF Stop, Other, BlockCommit
    <3>. QED  BY <1>5, <3>1, <3>2
  <2>. QED  BY <2>1, <2>2, <2>3 DEF CommitsInOrder
<1>9. QueueInv'
  <2>1. committed' \in head'..MaxHead /\ Len(updates') =< MaxQueue
    BY <1>2, <1>5, <1>6, StreamAssumption
  <2>2. others' \in 0..MaxOther /\ connected' \in BOOLEAN
    <3>1. /\ others' = others \/ (others < MaxOther /\ others' = others + 1)
          /\ connected' = connected \/ connected' = FALSE
      BY <1>1
    <3>2. others \in 0..MaxOther /\ connected \in BOOLEAN /\ MaxOther \in Nat
      BY StreamAssumption DEF QueueInv
    <3>3. others' \in 0..MaxOther
      BY <3>1, <3>2
    <3>. QED  BY <3>1, <3>2, <3>3
  <2>. QED  BY <1>5, <1>8, <2>1, <2>2 DEF QueueInv
<1>10. LoopInv'
  BY <1>1, <1>2 DEF LoopInv, FlagOnlyAfterTimer, StopsOnlyWhenTold, Stopping, flags
<1>. QED  BY <1>3, <1>4, <1>9, <1>10
-----------------------------------------------------------------------------
(* The loop starts with the startup head's challenge posted and a block    *)
(* begun on it.                                                            *)
LEMMA StreamInit == Init => StreamInv
<1>. SUFFICES ASSUME Init PROVE StreamInv
  OBVIOUS
<1>1. PICK d \in Difficulties : latest = [id |-> 1, difficulty |-> d]
  BY DEF Init
<1>2. latest \in Mn!Challenge /\ latest.id = 1 /\ 1 \in 1..MaxHead
  BY <1>1, StreamAssumption DEF Mn!Challenge
<1>3. MinerInv
  <2>1. toWorker = <<Mn!Update(latest)>> /\ toMiner = <<>> /\ answer = Mn!NoAnswer
        /\ worker = [pc |-> "recv", challenge |-> Mn!NoChallenge, level |-> 0]
    BY DEF Init
  <2>2. Mn!WorkerTypeOK
    BY <1>2, <2>1 DEF Mn!WorkerTypeOK, Mn!MessageToWorker
  <2>3. \A i \in 1..Len(toWorker) : toWorker[i] = Mn!Update(latest)
    BY <2>1
  <2>. QED  BY <1>2, <2>1, <2>2, <2>3, MessageFacts DEF MinerInv, WorkIsPosted, Mn!LevelBelow
<1>4. NodeInv
  <2>1. /\ Nd!CandidateOn(1) \in Nd!Candidate /\ Nd!CandidateOn(1) # Nd!NoCandidate
        /\ Nd!CandidateOn(1).parent = 1
    BY <1>2, PartsAssumptions, Nd!CandidateTypes
  <2>2. /\ node \in Nd!Node /\ node.guards = {} /\ node.published = {}
        /\ node.candidate = Nd!CandidateOn(1) /\ head = 1
    BY <2>1 DEF Init, Nd!Initialized, Nd!Node
  <2>3. Nd!NodeOK(node, head)
    BY <2>1, <2>2 DEF Nd!NodeOK, Nd!HasGuard, Nd!Building
  <2>4. Nd!Tracks(node, head)
    BY <2>1, <2>2 DEF Nd!Tracks, Nd!HasGuard, Nd!Building, Nd!CandidateOn
  <2>. QED
    BY <1>2, <2>1, <2>2, <2>3, <2>4 DEF NodeInv, AnswersAreNotAhead, PostedBeforeBegun
<1>5. QueueInv
  BY <1>2, StreamAssumption DEF Init, QueueInv, CommitsInOrder
<1>6. LoopInv
  BY DEF Init, LoopInv, FlagOnlyAfterTimer, StopsOnlyWhenTold, Stopping
<1>. QED  BY <1>3, <1>4, <1>5, <1>6 DEF StreamInv

LEMMA StreamStep == StreamInv /\ [Next]_vars => StreamInv'
<1>. SUFFICES ASSUME StreamInv, [Next]_vars PROVE StreamInv'
  OBVIOUS
<1>1. CASE UNCHANGED vars
  <2>1. /\ UNCHANGED minerPart /\ UNCHANGED <<node, head, latest>>
        /\ UNCHANGED <<head, updates, validator>> /\ UNCHANGED <<flags, updater, connected>>
    BY <1>1 DEF vars, minerPart, nodePart, validator
  <2>. QED  BY <2>1, MinerStays, NodeStays, QueueStays, LoopStays DEF StreamInv
<1>2. CASE Next
  BY <1>1, <1>2, StreamPublish, StreamCommit, StreamMoves, StreamLeave, StreamFlags,
     StreamDrop, StreamHashes, StreamDelivers
  DEF Next, Updater, Exited
<1>. QED  BY <1>1, <1>2

LEMMA StreamInvHolds == Spec => []StreamInv
BY StreamInit, StreamStep, PTL DEF Spec
-----------------------------------------------------------------------------
(* Every part keeps its type, the channels' messages included.             *)
THEOREM Typing == Spec => []TypeOK
<1>1. StreamInv => TypeOK
  BY MessageFacts DEF StreamInv, MinerInv, NodeInv, QueueInv, LoopInv, TypeOK, Nd!NodeOK
<1>. QED  BY <1>1, StreamInvHolds, PTL

(* At most one block is published on a head, however the timer, the        *)
(* handler of BlockCommit and the miner interleave (update_stream.rs:258). *)
THEOREM OneBlockPerHeadHolds == Spec => []OneBlockPerHead
<1>1. StreamInv => OneBlockPerHead
  BY DEF StreamInv, NodeInv, Nd!NodeOK, OneBlockPerHead, Nd!OneBlockPerHead
<1>. QED  BY <1>1, StreamInvHolds, PTL

(* No block has an answer to the challenge of a later head than it         *)
(* extends, nor one below the difficulty asked for (node.rs:366): whatever *)
(* crosses the channels between a challenge and its answers.               *)
THEOREM AnswersArePublishedInTime == Spec => []AnswersAreNotAhead
<1>1. StreamInv => AnswersAreNotAhead
  BY DEF StreamInv, NodeInv
<1>. QED  BY <1>1, StreamInvHolds, PTL

(* With a service that never fails, the guards say exactly what the        *)
(* validator is doing (guard.rs), however often it was not ready.          *)
THEOREM GuardsNeverLie == Spec => []GuardsTrackCandidate
<1>1. StreamInv => GuardsTrackCandidate
  BY DEF StreamInv, NodeInv, Nd!Tracks, GuardsTrackCandidate, Nd!GuardsTrackCandidate
<1>. QED  BY <1>1, StreamInvHolds, PTL

(* With such a service the next BlockCommit always starts a block on the   *)
(* new head (node.rs:209): nothing has wedged the node.                    *)
THEOREM CommitAlwaysRestarts == Spec => []CommitCanRestart
<1>1. ASSUME StreamInv, Failing = {}
      PROVE  Nd!CommitCanRestart
  <2>1. Nd!Tracks(node, head) /\ head \in 1..MaxHead
    BY <1>1 DEF StreamInv, NodeInv
  <2>2. /\ \A o \in Nd!OnBlockCommit(node, Mn!NoAnswer, head) : o.result = "Restart"
        /\ Nd!OnBlockCommit(node, Mn!NoAnswer, head) # {}
    BY <1>1, <2>1, PartsAssumptions, Nd!OnBlockCommitTracks
  <2>. QED  BY <2>2 DEF Nd!CommitCanRestart
<1>2. StreamInv => CommitCanRestart
  BY <1>1 DEF CommitCanRestart
<1>. QED  BY <1>2, StreamInvHolds, PTL

(* And the loop ends for the validator's last update only: no interleaving *)
(* of the flags makes the node call the service out of order               *)
(* (update_stream.rs:119).                                                 *)
THEOREM StopsForStopOnly == Spec => []StopsOnlyWhenTold
<1>1. StreamInv => StopsOnlyWhenTold
  BY DEF StreamInv, LoopInv
<1>. QED  BY <1>1, StreamInvHolds, PTL
-----------------------------------------------------------------------------
(* Where the worker is, as numbers.                                        *)
LEMMA WorkerNumbers ==
  ASSUME MinerInv
  PROVE  /\ worker.challenge \in Mn!Challenge \cup {Mn!NoChallenge}
         /\ worker.challenge.id \in Nat /\ worker.level \in Nat
         /\ answer = Mn!NoAnswer
BY MessageFacts DEF MinerInv, Mn!WorkerTypeOK

(* Every answer published is an answer to a challenge.                     *)
LEMMA PublishedAnswers ==
  ASSUME NodeInv
  PROVE  \A b \in node.published :
           /\ b.parent \in Nat /\ b.consensus \in Mn!Answer
           /\ b.consensus.challenge.id \in Nat /\ b.consensus.score \in Nat
<1>1. head \in Nat
  BY StreamAssumption DEF NodeInv
<1>. QED  BY <1>1, BlockTypes, MessageFacts DEF NodeInv

(* What a step does not touch stays in order.                              *)
LEMMA OrderStays ==
  OrderInv /\ UNCHANGED <<toWorker, toMiner, worker, answer, node>> => OrderInv'
BY DEF OrderInv, AnswersImprove, WorkerMovesOn, Reached, DrainIsNew, BuildsOnTop,
       Mn!Drained, Mn!LastMessage

(* The worker's next challenge is later than any it has answered.          *)
LEMMA OrderTakes ==
  ASSUME MinerInv, NodeInv, OrderInv, Mn!TakeMessage, UNCHANGED <<answer, node>>
  PROVE  OrderInv'
<1>t. Mn!WorkerTypeOK
  BY DEF MinerInv
<1>1. /\ Len(toWorker) \in Nat /\ Len(toWorker) > 0
      /\ toWorker' = Tail(toWorker)
      /\ \A i \in 1..Len(toWorker') :
           /\ i + 1 \in 1..Len(toWorker) /\ toWorker'[i] = toWorker[i + 1]
           /\ i \in Nat /\ 1 < i + 1
      /\ 1 \in 1..Len(toWorker) /\ Head(toWorker) = toWorker[1]
      /\ toWorker[1] \in Mn!MessageToWorker
  BY <1>t DEF Mn!TakeMessage, Mn!WorkerTypeOK
<1>2. \A i, j \in 1..Len(toWorker') :
        (i < j /\ toWorker'[i] # Mn!Shutdown /\ toWorker'[j] # Mn!Shutdown)
          => toWorker'[i].challenge.id < toWorker'[j].challenge.id
  <2>. SUFFICES ASSUME NEW i \in 1..Len(toWorker'), NEW j \in 1..Len(toWorker'), i < j,
                       toWorker'[i] # Mn!Shutdown, toWorker'[j] # Mn!Shutdown
                PROVE  toWorker'[i].challenge.id < toWorker'[j].challenge.id
    OBVIOUS
  <2>1. i + 1 < j + 1
    BY <1>1
  <2>. QED  BY <1>1, <2>1 DEF OrderInv, WorkerMovesOn
<1>3. AnswersImprove' /\ BuildsOnTop'
  BY DEF OrderInv, AnswersImprove, BuildsOnTop
<1>4. CASE Head(toWorker) # Mn!Shutdown
  <2>. DEFINE c == Head(toWorker).challenge
  <2>1. c.id \in Nat /\ worker.challenge.id < c.id
    BY <1>1, <1>4, MessageFacts DEF OrderInv, WorkerMovesOn
  <2>2. \A i \in 1..Len(toWorker') : toWorker'[i] # Mn!Shutdown =>
          c.id < toWorker'[i].challenge.id
    BY <1>1, <1>4 DEF OrderInv, WorkerMovesOn
  <2>3. /\ toMiner' = Append(toMiner, Mn!Started)
        /\ worker' = [pc |-> "hash", challenge |-> c, level |-> Mn!LevelBelow(c.difficulty)]
    BY <1>4 DEF Mn!TakeMessage, Mn!Start
  <2>. HIDE DEF c
  <2>4. worker'.challenge = c
    BY <2>3
  <2>5. \A b \in node'.published : Reached(b.consensus)'
    <3>. SUFFICES ASSUME NEW b \in node.published  PROVE Reached(b.consensus)'
      OBVIOUS
    <3>1. b.consensus.challenge.id =< worker.challenge.id
      BY PublishedAnswers, WorkerNumbers DEF OrderInv, WorkerMovesOn, Reached
    <3>2. b.consensus.challenge.id < c.id
      BY <2>1, <3>1, PublishedAnswers, WorkerNumbers
    <3>. QED  BY <2>4, <3>2 DEF Reached
  <2>6. Mn!Drained' = Mn!NoAnswer
    BY <1>t, <2>3 DEF Mn!Drained, Mn!LastMessage, Mn!WorkerTypeOK
  <2>7. WorkerMovesOn'
    BY <1>2, <2>2, <2>4, <2>5 DEF WorkerMovesOn
  <2>. QED  BY <1>3, <2>6, <2>7 DEF OrderInv, DrainIsNew
<1>5. CASE Head(toWorker) = Mn!Shutdown
  <2>1. worker' = [worker EXCEPT !.pc = "stopped"] /\ toMiner' = toMiner
    BY <1>5 DEF Mn!TakeMessage
  <2>2. worker'.challenge = worker.challenge /\ worker'.level = worker.level
    BY <1>t, <2>1 DEF Mn!WorkerTypeOK
  <2>3. Mn!Drained' = Mn!Drained
    BY <2>1 DEF Mn!Drained, Mn!LastMessage
  <2>4. WorkerMovesOn'
    BY <1>1, <1>2, <2>2 DEF OrderInv, WorkerMovesOn, Reached
  <2>5. DrainIsNew'
    BY <2>2, <2>3 DEF OrderInv, DrainIsNew
  <2>. QED  BY <1>3, <2>4, <2>5 DEF OrderInv
<1>. QED  BY <1>4, <1>5

(* What it finds is newer than all it has answered.                        *)
LEMMA OrderHashes ==
  ASSUME MinerInv, NodeInv, OrderInv, Mn!NextNonce \/ Mn!Solve \/ Mn!Miss,
         UNCHANGED <<answer, node>>
  PROVE  OrderInv'
<1>t. Mn!WorkerTypeOK
  BY DEF MinerInv
<1>1. AnswersImprove' /\ BuildsOnTop'
  BY DEF OrderInv, AnswersImprove, BuildsOnTop
<1>2. CASE Mn!NextNonce \/ Mn!Miss
  <2>1. /\ toMiner' = toMiner /\ toWorker' = toWorker
        /\ worker' = [worker EXCEPT !.pc = "hash"] \/ worker' = [worker EXCEPT !.pc = "poll"]
    BY <1>2 DEF Mn!NextNonce, Mn!Miss
  <2>2. worker'.challenge = worker.challenge /\ worker'.level = worker.level
    BY <1>t, <2>1 DEF Mn!WorkerTypeOK
  <2>3. Mn!Drained' = Mn!Drained
    BY <2>1 DEF Mn!Drained, Mn!LastMessage
  <2>4. WorkerMovesOn' /\ DrainIsNew'
    BY <2>1, <2>2, <2>3 DEF OrderInv, WorkerMovesOn, Reached, DrainIsNew
  <2>. QED  BY <1>1, <2>4 DEF OrderInv
<1>3. CASE Mn!Solve
  <2>1. PICK s \in 1..MaxScore :
          /\ s > worker.level
          /\ toMiner' = Append(toMiner,
                Mn!Solved([challenge |-> worker.challenge, score |-> s]))
          /\ worker' = [worker EXCEPT !.pc = "poll", !.level = s]
    BY <1>3 DEF Mn!Solve, Mn!Improves
  <2>. DEFINE a == [challenge |-> worker.challenge, score |-> s]
  <2>2. a.challenge = worker.challenge /\ a.score = s /\ s \in Nat
    BY StreamAssumption
  <2>3. /\ worker'.challenge = worker.challenge /\ worker'.level = s
        /\ toWorker' = toWorker
    BY <1>t, <1>3, <2>1 DEF Mn!WorkerTypeOK, Mn!Solve
  <2>. HIDE DEF a
  <2>4. toMiner' = Append(toMiner, Mn!Solved(a))
    BY <2>1 DEF a
  <2>5. Mn!Drained' = a
    <3>1. toMiner' # <<>> /\ Mn!LastMessage' = Mn!Solved(a)
      BY <1>t, <2>4 DEF Mn!LastMessage, Mn!WorkerTypeOK
    <3>. QED  BY <3>1, MessageFacts DEF Mn!Drained
  <2>6. ASSUME NEW b \in node.published
        PROVE  Mn!Newer(a, b.consensus) /\ Reached(b.consensus)'
    <3>1. \/ b.consensus.challenge.id < worker.challenge.id
          \/ b.consensus.challenge = worker.challenge /\ b.consensus.score =< worker.level
      BY DEF OrderInv, WorkerMovesOn, Reached
    <3>2. b.consensus.score \in Nat /\ worker.level \in Nat
          /\ b.consensus.challenge.id \in Nat /\ worker.challenge.id \in Nat
      BY PublishedAnswers, WorkerNumbers
    <3>. QED  BY <2>1, <2>2, <2>3, <3>1, <3>2 DEF Mn!Newer, Reached
  <2>7. WorkerMovesOn'
    BY <2>3, <2>6 DEF OrderInv, WorkerMovesOn
  <2>8. DrainIsNew'
    BY <2>2, <2>3, <2>5, <2>6 DEF DrainIsNew
  <2>. QED  BY <1>1, <2>7, <2>8 DEF OrderInv
<1>. QED  BY <1>2, <1>3

(* An attempt publishes what was drained, which then is gone.              *)
LEMMA OrderPublishes ==
  ASSUME MinerInv, NodeInv, OrderInv, Nd!PublishesOnly(node', node, Offered),
         AttemptDrains, UNCHANGED worker
  PROVE  /\ AnswersImprove' /\ DrainIsNew'
         /\ \A b \in node'.published : Reached(b.consensus)'
<1>1. CASE Offered = Mn!NoAnswer
  <2>1. \A b \in node'.published : b \in node.published
    BY <1>1, MessageFacts DEF Nd!PublishesOnly
  <2>2. Mn!Drained' = Mn!NoAnswer \/ Mn!Drained' = Mn!Drained
    BY DEF AttemptDrains, Mn!DrainAnswers, Mn!Drained, Mn!LastMessage
  <2>. QED
    BY <2>1, <2>2 DEF OrderInv, AnswersImprove, DrainIsNew, WorkerMovesOn, Reached
<1>2. CASE Offered # Mn!NoAnswer
  <2>1. Offered = Mn!Drained /\ toMiner' = <<>> /\ answer' = Mn!NoAnswer
    BY <1>2 DEF Offered, AttemptDrains, Mn!DrainAnswers
  <2>2. Mn!Drained' = Mn!NoAnswer
    BY <2>1 DEF Mn!Drained
  <2>3. /\ Offered.challenge = worker.challenge /\ Offered.score = worker.level
        /\ \A b \in node.published : Mn!Newer(Offered, b.consensus)
    BY <1>2, <2>1 DEF OrderInv, DrainIsNew
  <2>4. ASSUME NEW b \in node'.published
        PROVE  \/ b \in node.published
               \/ /\ b.parent \in Nat /\ b.consensus = Offered
                  /\ \A a \in node.published : a.parent < b.parent
    <3>1. CASE b \in node.published
      BY <3>1
    <3>2. CASE /\ Nd!Building(node)
               /\ b = [parent |-> node.candidate.parent, consensus |-> Offered]
      <4>1. head \in Nat
        BY StreamAssumption DEF NodeInv
      <4>2. node.candidate.parent \in Nat
        BY <3>2, <4>1, BlockTypes DEF NodeInv
      <4>. QED  BY <3>2, <4>2 DEF OrderInv, BuildsOnTop
    <3>. QED  BY <3>1, <3>2 DEF Nd!PublishesOnly
  <2>5. \A b \in node'.published : Reached(b.consensus)'
    BY <2>3, <2>4, WorkerNumbers DEF OrderInv, WorkerMovesOn, Reached
  <2>6. AnswersImprove'
    <3>. SUFFICES ASSUME NEW a \in node'.published, NEW b \in node'.published,
                         a.parent < b.parent
                  PROVE  Mn!Newer(b.consensus, a.consensus)
      BY DEF AnswersImprove
    <3>1. CASE b \in node.published
      <4>1. a \in node.published
        BY <2>4, <3>1, PublishedAnswers
      <4>. QED  BY <3>1, <4>1 DEF OrderInv, AnswersImprove
    <3>2. CASE b \notin node.published
      <4>1. b.consensus = Offered
        BY <2>4, <3>2
      <4>2. a \in node.published
        <5>1. CASE a \notin node.published
          <6>1. a = b
            BY <3>2, <5>1 DEF Nd!PublishesOnly
          <6>2. b.parent \in Nat
            BY <2>4, <3>2
          <6>. QED  BY <6>1, <6>2
        <5>. QED  BY <5>1
      <4>. QED  BY <2>3, <4>1, <4>2
    <3>. QED  BY <3>1, <3>2
  <2>. QED  BY <2>2, <2>5, <2>6 DEF DrainIsNew
<1>. QED  BY <1>1, <1>2

(* The challenge of a later head is later than all on their way.           *)
LEMMA OrderPosts ==
  ASSUME MinerInv, NodeInv, OrderInv, NEW c, c.id \in Nat, head < c.id,
         toWorker' = Append(toWorker, Mn!Update(c)), UNCHANGED worker,
         \A b \in node'.published : Reached(b.consensus)'
  PROVE  WorkerMovesOn'
<1>t. Mn!WorkerTypeOK
  BY DEF MinerInv
<1>1. latest.id \in Nat /\ latest.id < c.id
  <2>1. head \in Nat /\ latest.id \in Nat /\ latest.id =< head
    BY MessageFacts, StreamAssumption DEF MinerInv, NodeInv, PostedBeforeBegun
  <2>. QED  BY <2>1
<1>2. worker.challenge.id < c.id
  BY <1>1, WorkerNumbers DEF MinerInv, WorkIsPosted
<1>3. \A i \in 1..Len(toWorker) : toWorker[i] # Mn!Shutdown => toWorker[i].challenge.id < c.id
  <2>1. \A i \in 1..Len(toWorker) : toWorker[i] # Mn!Shutdown =>
          toWorker[i].challenge.id \in Nat /\ toWorker[i].challenge.id =< latest.id
    BY <1>t, MessageFacts DEF MinerInv, WorkIsPosted, Mn!WorkerTypeOK
  <2>. QED  BY <1>1, <2>1
<1>4. \A i \in 1..Len(toWorker') :
        \/ i \in 1..Len(toWorker) /\ toWorker'[i] = toWorker[i]
        \/ i = Len(toWorker') /\ toWorker'[i].challenge = c
  BY <1>t, MessageFacts DEF Mn!WorkerTypeOK
<1>5. \A i \in 1..Len(toWorker') : toWorker'[i] # Mn!Shutdown =>
        worker.challenge.id < toWorker'[i].challenge.id
  BY <1>2, <1>4 DEF OrderInv, WorkerMovesOn
<1>6. ASSUME NEW i \in 1..Len(toWorker'), NEW j \in 1..Len(toWorker'), i < j,
             toWorker'[i] # Mn!Shutdown, toWorker'[j] # Mn!Shutdown
      PROVE  toWorker'[i].challenge.id < toWorker'[j].challenge.id
  <2>1. i # Len(toWorker')
    BY <1>6
  <2>2. i \in 1..Len(toWorker) /\ toWorker'[i] = toWorker[i]
    BY <1>4, <2>1
  <2>. QED  BY <1>3, <1>4, <1>6, <2>2 DEF OrderInv, WorkerMovesOn
<1>. QED  BY <1>5, <1>6 DEF WorkerMovesOn

(* Nothing was published on the block that is still being built.           *)
LEMMA StillOnTop ==
  ASSUME NodeInv, NodeInv', OrderInv, Nd!KeepsCandidate(node', node),
         Nd!PublishesOnly(node', node, Offered)
  PROVE  BuildsOnTop'
<1>. SUFFICES ASSUME Nd!Building(node'), NEW b \in node'.published
              PROVE  b.parent < node'.candidate.parent
  BY DEF BuildsOnTop
<1>1. Nd!Building(node) /\ node'.candidate.parent = node.candidate.parent
  BY DEF Nd!KeepsCandidate
<1>2. b.parent # node'.candidate.parent
  BY DEF NodeInv, Nd!NodeOK
<1>3. b \in node.published
  BY <1>1, <1>2 DEF Nd!PublishesOnly
<1>. QED  BY <1>1, <1>3 DEF OrderInv, BuildsOnTop

(* An attempt, and the handler of BlockCommit.                             *)
LEMMA OrderPublish ==
  ASSUME StreamInv, OrderInv, Publish  PROVE OrderInv'
<1>1. PICK o \in Nd!TryPublish(node, Offered) : node' = o.node
  BY DEF Publish
<1>2. MinerInv /\ NodeInv /\ AttemptDrains /\ UNCHANGED <<toWorker, worker>>
  BY DEF StreamInv, Publish
<1>3. node \in Nd!Node /\ Offered \in Mn!Answer \cup {Mn!NoAnswer}
  BY <1>2, OffersAreGood DEF NodeInv, Nd!NodeOK
<1>4. Nd!KeepsCandidate(o.node, node) /\ Nd!PublishesOnly(o.node, node, Offered)
  BY <1>3, PartsAssumptions, Nd!AttemptEffect
<1>5. /\ AnswersImprove' /\ DrainIsNew'
      /\ \A b \in node'.published : Reached(b.consensus)'
  BY <1>1, <1>2, <1>4, OrderPublishes
<1>6. WorkerMovesOn'
  BY <1>2, <1>5 DEF OrderInv, WorkerMovesOn
<1>7. NodeInv'
  BY StreamPublish DEF StreamInv
<1>8. BuildsOnTop'
  BY <1>1, <1>2, <1>4, <1>7, StillOnTop
<1>. QED  BY <1>5, <1>6, <1>8 DEF OrderInv

LEMMA OrderCommit ==
  ASSUME StreamInv, OrderInv, Commit  PROVE OrderInv'
<1>1. PICK o \in Nd!OnBlockCommit(node, Offered, head') :
        /\ node' = o.node
        /\ IF o.mined
           THEN \E d \in Difficulties : Mn!SendChallenge([id |-> head', difficulty |-> d])
           ELSE UNCHANGED <<toWorker, latest>>
  BY DEF Commit
<1>2. /\ MinerInv /\ NodeInv /\ QueueInv /\ AttemptDrains /\ UNCHANGED worker
      /\ updates # <<>> /\ head' = Head(updates).block /\ IsCommit(Head(updates))
  BY DEF StreamInv, Commit, Receives, IsCommit
<1>3. /\ head \in Nat /\ head' \in 1..MaxHead /\ head < head' /\ Nd!NodeOK(node, head)
      /\ Offered \in Mn!Answer \cup {Mn!NoAnswer}
  <2>1. head' \in (head + 1)..committed /\ head \in Nat /\ committed \in head..MaxHead
    BY <1>2, FirstUpdate, StreamAssumption DEF QueueInv, CommitsInOrder, NodeInv
  <2>2. head' \in 1..MaxHead /\ head < head'
    BY <2>1, StreamAssumption
  <2>. QED  BY <1>2, <2>1, <2>2, OffersAreGood DEF NodeInv
<1>4. /\ Nd!PublishesOnly(o.node, node, Offered)
      /\ o.mined \in BOOLEAN
      /\ o.mined /\ Nd!Building(o.node) => o.node.candidate.parent = head'
      /\ ~o.mined => Nd!KeepsCandidate(o.node, node)
  BY <1>3, PartsAssumptions, Nd!CommitEffect
<1>5. /\ AnswersImprove' /\ DrainIsNew'
      /\ \A b \in node'.published : Reached(b.consensus)'
  BY <1>1, <1>2, <1>4, OrderPublishes
<1>6. NodeInv'
  BY StreamCommit DEF StreamInv
<1>7. CASE o.mined
  <2>1. PICK d \in Difficulties : Mn!SendChallenge([id |-> head', difficulty |-> d])
    BY <1>1, <1>7
  <2>. DEFINE c == [id |-> head', difficulty |-> d]
  <2>2. c.id = head' /\ toWorker' = Append(toWorker, Mn!Update(c))
    BY <2>1 DEF Mn!SendChallenge, Mn!Send
  <2>. HIDE DEF c
  <2>3. WorkerMovesOn'
    BY <1>2, <1>3, <1>5, <2>2, OrderPosts
  <2>4. BuildsOnTop'
    <3>. SUFFICES ASSUME Nd!Building(node'), NEW b \in node'.published
                  PROVE  b.parent < node'.candidate.parent
      BY DEF BuildsOnTop
    <3>1. node'.candidate.parent = head' /\ head' \in Nat
      BY <1>1, <1>3, <1>4, <1>7, StreamAssumption
    <3>2. Nd!NodeOK(node', head')
      BY <1>6 DEF NodeInv
    <3>3. b.parent # node'.candidate.parent /\ b.parent =< head'
      BY <3>2 DEF Nd!NodeOK
    <3>4. b.parent \in Nat
      BY <3>1, <3>2, BlockTypes
    <3>. QED  BY <3>1, <3>3, <3>4
  <2>. QED  BY <1>5, <2>3, <2>4 DEF OrderInv
<1>8. CASE ~o.mined
  <2>1. toWorker' = toWorker
    BY <1>1, <1>8
  <2>2. WorkerMovesOn'
    BY <1>2, <1>5, <2>1 DEF OrderInv, WorkerMovesOn
  <2>3. BuildsOnTop'
    BY <1>1, <1>2, <1>4, <1>6, <1>8, StillOnTop
  <2>. QED  BY <1>5, <2>2, <2>3 DEF OrderInv
<1>. QED  BY <1>7, <1>8

(* The updater's other steps, and the drop.                                *)
LEMMA OrderStep ==
  ASSUME StreamInv, OrderInv, [Next]_vars  PROVE OrderInv'
<1>1. MinerInv /\ NodeInv
  BY DEF StreamInv
<1>2. CASE UNCHANGED <<toWorker, toMiner, worker, answer, node>>
  BY <1>2, OrderStays
<1>3. CASE Hashing
  <2>1. /\ Mn!TakeMessage \/ Mn!NextNonce \/ Mn!Solve \/ Mn!Miss
        /\ UNCHANGED <<answer, node>>
    BY <1>3 DEF Hashing, Mn!WorkerNext, nodePart
  <2>. QED  BY <1>1, <2>1, OrderTakes, OrderHashes
<1>4. CASE Drop
  <2>1. /\ toWorker' = Append(toWorker, Mn!Shutdown)
        /\ UNCHANGED <<toMiner, worker, answer, node>>
    BY <1>4 DEF Drop, Mn!Send, nodePart
  <2>2. \A i \in 1..Len(toWorker') : toWorker'[i] # Mn!Shutdown =>
          i \in 1..Len(toWorker) /\ toWorker'[i] = toWorker[i]
    BY <1>1, <2>1 DEF MinerInv, Mn!WorkerTypeOK
  <2>3. WorkerMovesOn'
    BY <2>1, <2>2 DEF OrderInv, WorkerMovesOn, Reached
  <2>. QED
    BY <2>1, <2>3 DEF OrderInv, AnswersImprove, DrainIsNew, BuildsOnTop, Mn!Drained,
                      Mn!LastMessage
<1>5. CASE Publish \/ Commit
  BY <1>5, OrderPublish, OrderCommit
<1>6. CASE \/ SkipPublish \/ Ignore \/ Leave \/ Sleep \/ Wake \/ Scheduler \/ Committer
           \/ Join \/ Exited \/ DeliverCommit \/ DeliverOther \/ DeliverStop
           \/ UNCHANGED vars
  <2>1. UNCHANGED minerPart /\ UNCHANGED nodePart
    BY <1>6 DEF SkipPublish, Ignore, Leave, Sleep, Wake, Scheduler, Committer, Join, Exited,
                DeliverCommit, DeliverOther, DeliverStop, Deliver, vars
  <2>. QED  BY <1>2, <2>1 DEF minerPart, nodePart
<1>. QED  BY <1>3, <1>4, <1>5, <1>6 DEF Next, Updater

LEMMA OrderInit == Init => OrderInv
<1>. SUFFICES ASSUME Init PROVE OrderInv
  OBVIOUS
<1>1. /\ toWorker = <<Mn!Update(latest)>> /\ toMiner = <<>> /\ answer = Mn!NoAnswer
      /\ worker.challenge = Mn!NoChallenge /\ node.published = {} /\ latest.id = 1
  BY DEF Init, Nd!Initialized
<1>2. /\ Len(toWorker) = 1
      /\ \A i \in 1..Len(toWorker) : i = 1 /\ toWorker[i].challenge = latest
  BY <1>1, MessageFacts
<1>. QED
  BY <1>1, <1>2, MessageFacts
  DEF OrderInv, AnswersImprove, WorkerMovesOn, DrainIsNew, BuildsOnTop, Mn!Drained
-----------------------------------------------------------------------------
(* No proof of work is used for two blocks, and blocks on later heads have *)
(* newer ones, whichever calls fail and however the two threads interleave *)
(* (miner.rs:39; worker.rs:99 to 102).                                     *)
THEOREM NoAnswerTwice == Spec => []AnswersImprove
<1>1. OrderInv => AnswersImprove
  BY DEF OrderInv
<1>2. StreamInv /\ OrderInv /\ [Next]_vars => OrderInv'
  BY OrderStep
<1>. QED  BY <1>1, <1>2, OrderInit, StreamInvHolds, PTL DEF Spec
-----------------------------------------------------------------------------
(* Commits wait in the channel until the node takes them.                  *)
LEMMA WaitingStays == CommitsWait /\ UNCHANGED <<head, updates, validator>> => CommitsWait'
BY DEF CommitsWait, validator

(* What is behind the first update stays.                                  *)
LEMMA BehindTheFirst ==
  ASSUME QueueInv, updates # <<>>, updates' = Tail(updates), NEW u,
         \E i \in 1..Len(updates) : updates[i] = u, Head(updates) # u
  PROVE  \E i \in 1..Len(updates') : updates'[i] = u
<1>1. PICK i \in 1..Len(updates) : updates[i] = u
  OBVIOUS
<1>2. i # 1
  BY <1>1, FirstUpdate
<1>3. i - 1 \in 1..Len(updates') /\ updates'[i - 1] = updates[i]
  BY <1>2 DEF QueueInv
<1>. QED  BY <1>1, <1>3

(* The node takes every head in turn.                                      *)
LEMMA NextHead ==
  ASSUME StreamInv, CommitsWait, Commit
  PROVE  head' = head + 1 /\ head < MaxHead
<1>1. /\ updates # <<>> /\ head' = Head(updates).block /\ IsCommit(Head(updates))
      /\ QueueInv /\ NodeInv
  BY DEF StreamInv, Commit, Receives, IsCommit
<1>2. /\ 1 \in 1..Len(updates) /\ head' = updates[1].block /\ IsCommit(updates[1])
      /\ head \in Nat /\ committed \in Nat /\ committed =< MaxHead
      /\ head' \in (head + 1)..committed
  BY <1>1, FirstUpdate, StreamAssumption DEF QueueInv, CommitsInOrder, NodeInv
<1>3. head + 1 \in (head + 1)..committed
  BY <1>2
<1>4. PICK i \in 1..Len(updates) : updates[i] = BlockCommit(head + 1)
  BY <1>3 DEF CommitsWait
<1>5. IsCommit(updates[i]) /\ updates[i].block = head + 1
  BY <1>4 DEF IsCommit, BlockCommit
<1>6. i = 1
  <2>1. SUFFICES ASSUME i # 1  PROVE FALSE
    OBVIOUS
  <2>2. 1 < i
    BY <2>1
  <2>3. updates[1].block < updates[i].block
    BY <1>1, <1>2, <1>5, <2>2 DEF QueueInv, CommitsInOrder
  <2>. QED  BY <1>2, <1>5, <2>3
<1>. QED  BY <1>2, <1>3, <1>5, <1>6, StreamAssumption

LEMMA WaitingStep ==
  ASSUME StreamInv, CommitsWait, [Next]_vars  PROVE CommitsWait'
<1>1. QueueInv /\ head \in Nat /\ committed \in Nat
  BY StreamAssumption DEF StreamInv, QueueInv, NodeInv
<1>2. CASE UNCHANGED <<head, updates, validator>>
  BY <1>2, WaitingStays
<1>3. CASE Ignore \/ Leave
  <2>1. /\ updates # <<>> /\ updates' = Tail(updates)
        /\ Head(updates).kind # "BlockCommit"
        /\ head' = head /\ committed' = committed
    BY <1>3 DEF Ignore, Leave, Receives, nodePart, validator
  <2>2. \A h : Head(updates) # BlockCommit(h)
    BY <2>1 DEF BlockCommit
  <2>. SUFFICES ASSUME NEW h \in (head + 1)..committed
                PROVE  \E i \in 1..Len(updates') : updates'[i] = BlockCommit(h)
    BY <2>1 DEF CommitsWait
  <2>3. \E i \in 1..Len(updates) : updates[i] = BlockCommit(h)
    BY DEF CommitsWait
  <2>. QED  BY <1>1, <2>1, <2>2, <2>3, BehindTheFirst
<1>4. CASE Commit
  <2>1. /\ updates # <<>> /\ updates' = Tail(updates) /\ head' = Head(updates).block
        /\ committed' = committed
    BY <1>4 DEF Commit, Receives, validator
  <2>2. head' = head + 1
    BY <1>4, NextHead
  <2>. SUFFICES ASSUME NEW h \in (head' + 1)..committed
                PROVE  \E i \in 1..Len(updates') : updates'[i] = BlockCommit(h)
    BY <2>1 DEF CommitsWait
  <2>3. h \in (head + 1)..committed /\ h # head'
    BY <1>1, <2>2
  <2>4. \E i \in 1..Len(updates) : updates[i] = BlockCommit(h)
    BY <2>3 DEF CommitsWait
  <2>5. Head(updates) # BlockCommit(h)
    BY <2>1, <2>3 DEF BlockCommit
  <2>. QED  BY <1>1, <2>1, <2>4, <2>5, BehindTheFirst
<1>5. CASE DeliverCommit \/ DeliverOther \/ DeliverStop
  <2>1. PICK u : /\ updates' = Append(updates, u) /\ head' = head
                 /\ \/ committed' = committed
                    \/ u = BlockCommit(committed') /\ committed' = committed + 1
    BY <1>5 DEF DeliverCommit, DeliverOther, DeliverStop, Deliver, nodePart
  <2>2. /\ Len(updates) \in Nat /\ Len(updates') = Len(updates) + 1
        /\ updates'[Len(updates')] = u
        /\ \A i \in 1..Len(updates) : i \in 1..Len(updates') /\ updates'[i] = updates[i]
    BY <1>1, <2>1 DEF QueueInv
  <2>. SUFFICES ASSUME NEW h \in (head + 1)..committed'
                PROVE  \E i \in 1..Len(updates') : updates'[i] = BlockCommit(h)
    BY <2>1 DEF CommitsWait
  <2>3. CASE h \in (head + 1)..committed
    <3>1. PICK i \in 1..Len(updates) : updates[i] = BlockCommit(h)
      BY <2>3 DEF CommitsWait
    <3>. QED  BY <2>2, <3>1
  <2>4. CASE h \notin (head + 1)..committed
    <3>1. h = committed' /\ u = BlockCommit(committed')
      BY <1>1, <2>1, <2>4
    <3>2. Len(updates') \in 1..Len(updates')
      BY <2>2
    <3>. QED  BY <2>2, <3>1, <3>2
  <2>. QED  BY <2>3, <2>4
<1>6. CASE \/ SkipPublish \/ Publish \/ Sleep \/ Wake \/ Scheduler \/ Committer
           \/ Drop \/ Join \/ Exited \/ Hashing \/ UNCHANGED vars
  BY <1>2, <1>6 DEF SkipPublish, Publish, Sleep, Wake, Scheduler, Committer, Drop, Join,
                    Exited, Hashing, vars, nodePart
<1>. QED  BY <1>3, <1>4, <1>5, <1>6 DEF Next, Updater

LEMMA WaitingInit == Init => CommitsWait
BY DEF Init, CommitsWait

(* Each step of the loop is a step of the node or leaves it alone.         *)
LEMMA NodeSteps ==
  ASSUME StreamInv, CommitsWait, [Next]_vars  PROVE [Nd!Next]_Nd!nodeVars
<1>1. Offered \in Mn!Answer \cup {Mn!NoAnswer}
  BY OffersAreGood DEF StreamInv
<1>2. CASE Publish
  <2>1. PICK o \in Nd!TryPublish(node, Offered) :
          /\ node' = o.node
          /\ updater' = IF o.result = "Error" THEN "drop" ELSE "recv"
    BY <1>2 DEF Publish
  <2>2. ~Stopping /\ (~Stopping)' = (o.result # "Error") /\ head' = head
    BY <1>2, <2>1 DEF Publish, Stopping
  <2>3. Nd!Publish
    BY <1>1, <2>1, <2>2 DEF Nd!Publish
  <2>. QED  BY <2>3 DEF Nd!Next
<1>3. CASE Commit
  <2>1. PICK o \in Nd!OnBlockCommit(node, Offered, head') : node' = o.node
    BY <1>3 DEF Commit
  <2>2. ~Stopping /\ (~Stopping)' = ~Stopping
    BY <1>3 DEF Commit, Receives, Stopping
  <2>3. head' = head + 1 /\ head < MaxHead
    BY <1>3, NextHead
  <2>4. Nd!Commit
    BY <1>1, <2>1, <2>2, <2>3 DEF Nd!Commit
  <2>. QED  BY <2>4 DEF Nd!Next
<1>4. CASE Leave
  <2>1. ~Stopping /\ (~Stopping)' = FALSE /\ UNCHANGED <<node, head>>
    BY <1>4 DEF Leave, Receives, Stopping, nodePart
  <2>. QED  BY <2>1 DEF Nd!Stop, Nd!Next
<1>5. CASE \/ SkipPublish \/ Ignore \/ Sleep \/ Wake \/ Scheduler \/ Committer
           \/ Drop \/ Join \/ Exited \/ Hashing
           \/ DeliverCommit \/ DeliverOther \/ DeliverStop \/ UNCHANGED vars
  <2>1. UNCHANGED <<node, head>> /\ (~Stopping)' = ~Stopping
    BY <1>5 DEF SkipPublish, Ignore, Sleep, Wake, Scheduler, Committer, Drop, Join, Exited,
                Hashing, DeliverCommit, DeliverOther, DeliverStop, Deliver, Receives,
                Stopping, vars, nodePart
  <2>. QED  BY <2>1 DEF Nd!nodeVars
<1>. QED  BY <1>2, <1>3, <1>4, <1>5 DEF Next, Updater

LEMMA NodeStarts == Init => Nd!Init
BY DEF Init, Nd!Init, Stopping

(* The loop, the miner and its thread are a node as PowNode describes it:  *)
(* whatever is proved of a node whose miner may have any answer holds of   *)
(* this one, and no head is skipped (update_stream.rs:117 to 154).         *)
THEOREM LoopImplementsNode == Spec => ImplementsPowNode
<1>1. StreamInv /\ CommitsWait /\ [Next]_vars => CommitsWait'
  BY WaitingStep
<1>2. Spec => []CommitsWait
  BY <1>1, WaitingInit, StreamInvHolds, PTL DEF Spec
<1>3. StreamInv /\ CommitsWait /\ [Next]_vars => [Nd!Next]_Nd!nodeVars
  BY NodeSteps
<1>4. Spec => Nd!Spec
  BY <1>2, <1>3, NodeStarts, StreamInvHolds, PTL DEF Spec, Nd!Spec
<1>. QED  BY <1>4 DEF ImplementsPowNode

(* One of these: while the loop believes that a block was published on     *)
(* this head, the validator has no block of the node's to cancel           *)
(* (node.rs:190 to 193), whichever calls have failed before.               *)
THEOREM FinalizedIsTrue == Spec => []Nd!FinalizedMeansNoCandidate
<1>1. Nd!Spec => []Nd!FinalizedMeansNoCandidate
  BY PartsAssumptions, Nd!FinalizedGuardNeverLies
<1>. QED  BY <1>1, LoopImplementsNode DEF ImplementsPowNode
=============================================================================
