---------------------------- MODULE MinerProofs -----------------------------
(***************************************************************************)
(* The miner's invariants and its refinement of AnswerBox, for every bound *)
(* on challenges and scores and every set of difficulties.                 *)
(***************************************************************************)
EXTENDS MinerRefinement, TLAPS

(* Challenges, answers and messages, field by field. *)
LEMMA MessageFacts ==
  /\ NoChallenge \notin Challenge
  /\ NoAnswer \notin Answer
  /\ NoChallenge.id = 0
  /\ \A c \in Challenge : c.id \in Nat /\ c.id > 0 /\ c.difficulty \in Nat
  /\ \A c : Update(c) # Shutdown /\ Update(c).challenge = c
  /\ \A a : Solved(a) # Started /\ Solved(a).answer = a
<1>1. NoChallenge \notin Challenge /\ NoChallenge.id = 0
  BY DEF NoChallenge, Challenge
<1>2. NoAnswer \notin Answer
  BY DEF NoAnswer, Answer
<1>3. \A c \in Challenge : c.id \in 1..MaxChallenges
  BY DEF Challenge
<1>4. \A c \in Challenge : c.difficulty \in Difficulties
  BY DEF Challenge
<1>5. /\ \A c \in Challenge : c.id \in Nat /\ c.id > 0
      /\ \A c \in Challenge : c.difficulty \in Nat
  <2>1. \A c \in Challenge : c.id \in Nat /\ c.id > 0
    BY <1>3, AnswersAssumption
  <2>2. \A c \in Challenge : c.difficulty \in Nat
    BY <1>4, AnswersAssumption
  <2>. QED  BY <2>1, <2>2
<1>6. \A c : Update(c) # Shutdown /\ Update(c).challenge = c
  BY DEF Update, Shutdown
<1>7. \A a : Solved(a) # Started /\ Solved(a).answer = a
  BY DEF Solved, Started
<1>. QED  BY <1>1, <1>2, <1>5, <1>6, <1>7

(* A message that is not Shutdown carries a challenge, one that is not     *)
(* Started carries an answer.                                              *)
LEMMA MessageKinds ==
  /\ \A m \in MessageToWorker \ {Shutdown} :
       m.challenge \in Challenge /\ m = Update(m.challenge)
  /\ \A m \in MessageToMiner \ {Started} :
       m.answer \in Answer /\ m = Solved(m.answer)
<1>1. \A m \in MessageToWorker \ {Shutdown} : \E c \in Challenge : m = Update(c)
  BY DEF MessageToWorker
<1>2. \A m \in MessageToMiner \ {Started} : \E a \in Answer : m = Solved(a)
  BY DEF MessageToMiner
<1>. QED  BY <1>1, <1>2, MessageFacts

(* What a drain returns is an answer or nothing. *)
LEMMA DrainedType ==
  ASSUME MinerTypeOK
  PROVE  Drained \in Answer \cup {NoAnswer}
<1>1. CASE toMiner = <<>>
  BY <1>1 DEF Drained, MinerTypeOK
<1>2. CASE toMiner # <<>>
  <2>1. LastMessage \in MessageToMiner
    BY <1>2 DEF LastMessage, MinerTypeOK, WorkerTypeOK
  <2>. QED  BY <1>2, <2>1, MessageKinds DEF Drained
<1>. QED  BY <1>1, <1>2
-----------------------------------------------------------------------------
LEMMA ChannelInvInit == Init => ChannelInv
<1>. SUFFICES ASSUME Init PROVE ChannelInv
  OBVIOUS
<1>. USE DEF Init, WorkerInit
<1>1. MinerTypeOK
  BY DEF MinerTypeOK, WorkerTypeOK, NoChallenge
<1>2. worker.challenge = latest /\ worker.pc = "recv"
  OBVIOUS
<1>. QED
  BY <1>1, <1>2 DEF ChannelInv, ChallengesInOrder, LatestOnItsWay,
     RunsUntilDropped, HashesAChallenge

(* The worker never works on a challenge that was not posted. *)
LEMMA WorkerNotAhead ==
  ASSUME ChannelInv
  PROVE  /\ latest.id \in Nat
         /\ worker.challenge.id \in Nat
         /\ worker.challenge.id =< latest.id
<1>1. latest.id \in Nat
  BY MessageFacts DEF ChannelInv, MinerTypeOK
<1>2. worker.challenge \in Challenge \cup {NoChallenge}
  BY DEF ChannelInv, MinerTypeOK, WorkerTypeOK
<1>3. worker.challenge.id \in Nat
  BY <1>2, MessageFacts
<1>4. CASE worker.challenge = latest
  BY <1>1, <1>4
<1>5. CASE \E i \in 1..Len(toWorker) : toWorker[i] = Update(latest)
  <2>1. PICK i \in 1..Len(toWorker) : toWorker[i] = Update(latest)
    BY <1>5
  <2>2. toWorker[i] # Shutdown /\ toWorker[i].challenge = latest
    BY <2>1, MessageFacts
  <2>. QED  BY <1>1, <1>3, <2>2 DEF ChannelInv, ChallengesInOrder
<1>. QED  BY <1>1, <1>3, <1>4, <1>5 DEF ChannelInv, LatestOnItsWay

(* Posting a message at the end of the channel to the worker: a challenge  *)
(* newer than the latest, or a Shutdown.                                   *)
LEMMA ChannelInvMine == ChannelInv /\ Mine => ChannelInv'
<1>. SUFFICES ASSUME ChannelInv, Mine PROVE ChannelInv'
  OBVIOUS
<1>t. MinerTypeOK /\ WorkerTypeOK
  BY DEF ChannelInv, MinerTypeOK
<1>1. PICK d \in Difficulties :
        SendChallenge([id |-> latest.id + 1, difficulty |-> d])
  BY DEF Mine
<1>. DEFINE c == [id |-> latest.id + 1, difficulty |-> d]
<1>2. latest.id \in Nat
  BY <1>t, MessageFacts DEF MinerTypeOK
<1>3. c.id = latest.id + 1 /\ c \in Challenge
  BY <1>2, AnswersAssumption DEF Mine, Challenge
<1>4. latest' = c /\ toWorker' = Append(toWorker, Update(c))
  BY <1>1 DEF SendChallenge, Send
<1>. HIDE DEF c
<1>5. /\ Len(toWorker) \in Nat
      /\ Len(toWorker') = Len(toWorker) + 1
      /\ \A i \in 1..Len(toWorker) : toWorker'[i] = toWorker[i]
      /\ toWorker'[Len(toWorker) + 1] = Update(c)
  BY <1>t, <1>4 DEF WorkerTypeOK
<1>6. Update(c) # Shutdown /\ Update(c).challenge = c /\ Update(c) \in MessageToWorker
  BY <1>3, MessageFacts DEF MessageToWorker
<1>7. /\ worker' = worker /\ toMiner' = toMiner /\ answer' = answer
      /\ parent' = parent /\ yielded' = yielded
  BY DEF Mine
<1>8. MinerTypeOK'
  BY <1>t, <1>3, <1>4, <1>6, <1>7 DEF MinerTypeOK, WorkerTypeOK
<1>9. worker.challenge.id \in Nat /\ worker.challenge.id =< latest.id
  BY WorkerNotAhead
<1>10. \A i \in 1..Len(toWorker) : toWorker[i] # Shutdown =>
          toWorker[i].challenge.id \in Nat /\ toWorker[i].challenge.id =< latest.id
  BY <1>t, MessageFacts, MessageKinds DEF ChannelInv, ChallengesInOrder, WorkerTypeOK
<1>11. ChallengesInOrder'
  <2>1. \A i \in 1..Len(toWorker') : toWorker'[i] # Shutdown =>
          /\ worker'.challenge.id < toWorker'[i].challenge.id
          /\ toWorker'[i].challenge.id =< latest'.id
    BY <1>2, <1>3, <1>4, <1>5, <1>6, <1>7, <1>9, <1>10
    DEF ChannelInv, ChallengesInOrder
  <2>2. ASSUME NEW i \in 1..Len(toWorker'), NEW j \in 1..Len(toWorker'), i < j,
               toWorker'[i] # Shutdown, toWorker'[j] # Shutdown
        PROVE  toWorker'[i].challenge.id < toWorker'[j].challenge.id
    <3>1. i \in 1..Len(toWorker)
      BY <1>5, <2>2
    <3>2. CASE j = Len(toWorker) + 1
      BY <1>2, <1>3, <1>5, <1>6, <1>10, <2>2, <3>1, <3>2
    <3>3. CASE j # Len(toWorker) + 1
      BY <1>5, <2>2, <3>1, <3>3 DEF ChannelInv, ChallengesInOrder
    <3>. QED  BY <3>2, <3>3
  <2>. QED  BY <2>1, <2>2 DEF ChallengesInOrder
<1>12. LatestOnItsWay'
  BY <1>4, <1>5 DEF LatestOnItsWay
<1>13. RunsUntilDropped'
  BY <1>5, <1>6, <1>7 DEF ChannelInv, RunsUntilDropped
<1>. QED
  BY <1>7, <1>8, <1>11, <1>12, <1>13 DEF ChannelInv, HashesAChallenge

(* Taking a challenge out of the channel keeps the order of the rest, and  *)
(* either makes it the worker's latest or leaves the latest behind it.     *)
LEMMA ChannelInvTake ==
  ChannelInv /\ TakeMessage /\ UNCHANGED <<answer, latest, parent, yielded>>
    => ChannelInv'
<1>. SUFFICES ASSUME ChannelInv, TakeMessage,
                     UNCHANGED <<answer, latest, parent, yielded>>
              PROVE  ChannelInv'
  OBVIOUS
<1>t. MinerTypeOK /\ WorkerTypeOK
  BY DEF ChannelInv, MinerTypeOK
<1>1. /\ Len(toWorker) \in Nat /\ Len(toWorker) > 0
      /\ toWorker' = Tail(toWorker)
      /\ toWorker' \in Seq(MessageToWorker)
      /\ Len(toWorker') = Len(toWorker) - 1
      /\ \A i \in 1..Len(toWorker') : toWorker'[i] = toWorker[i + 1]
      /\ Head(toWorker) = toWorker[1]
      /\ toWorker[1] \in MessageToWorker
  BY <1>t DEF TakeMessage, WorkerTypeOK
<1>2. \A i \in 1..Len(toWorker') : i + 1 \in 1..Len(toWorker)
  BY <1>1
<1>3. CASE Head(toWorker) # Shutdown
  <2>. DEFINE c == Head(toWorker).challenge
  <2>1. c \in Challenge /\ Head(toWorker) = Update(c)
    BY <1>1, <1>3, MessageKinds
  <2>. HIDE DEF c
  <2>2. /\ toMiner' = Append(toMiner, Started)
        /\ worker' = [pc |-> "hash", challenge |-> c, level |-> LevelBelow(c.difficulty)]
    BY <1>3 DEF TakeMessage, Start, c
  <2>3. c.id \in Nat /\ c.difficulty \in Nat
    BY <2>1, MessageFacts
  <2>4. LevelBelow(c.difficulty) \in Nat
    BY <2>3 DEF LevelBelow
  <2>5. MinerTypeOK'
    BY <1>t, <1>1, <2>1, <2>2, <2>4 DEF MinerTypeOK, WorkerTypeOK, MessageToMiner
  <2>6. ChallengesInOrder'
    <3>1. \A i \in 1..Len(toWorker') : toWorker'[i] # Shutdown =>
            c.id < toWorker'[i].challenge.id
      BY <1>1, <1>2, <1>3, <2>1, MessageFacts DEF ChannelInv, ChallengesInOrder
    <3>2. \A i \in 1..Len(toWorker') : toWorker'[i] # Shutdown =>
            toWorker'[i].challenge.id =< latest.id
      BY <1>1, <1>2 DEF ChannelInv, ChallengesInOrder
    <3>3. \A i, j \in 1..Len(toWorker') :
            (i < j /\ toWorker'[i] # Shutdown /\ toWorker'[j] # Shutdown)
              => toWorker'[i].challenge.id < toWorker'[j].challenge.id
      BY <1>1, <1>2 DEF ChannelInv, ChallengesInOrder
    <3>. QED  BY <2>2, <3>1, <3>2, <3>3 DEF ChallengesInOrder
  <2>7. LatestOnItsWay'
    <3>1. worker.challenge # latest
      BY <1>1, <1>3, <2>1, <2>3, WorkerNotAhead, MessageFacts
      DEF ChannelInv, ChallengesInOrder
    <3>2. PICK i \in 1..Len(toWorker) : toWorker[i] = Update(latest)
      BY <3>1 DEF ChannelInv, LatestOnItsWay
    <3>3. CASE i = 1
      BY <1>1, <2>1, <2>2, <3>2, <3>3, MessageFacts DEF LatestOnItsWay
    <3>4. CASE i # 1
      <4>1. i - 1 \in 1..Len(toWorker') /\ toWorker'[i - 1] = Update(latest)
        BY <1>1, <3>2, <3>4
      <4>. QED  BY <4>1 DEF LatestOnItsWay
    <3>. QED  BY <3>3, <3>4
  <2>8. RunsUntilDropped'
    BY <1>1, <1>2, <2>2 DEF ChannelInv, RunsUntilDropped
  <2>. QED
    BY <2>1, <2>2, <2>5, <2>6, <2>7, <2>8 DEF ChannelInv, HashesAChallenge
<1>4. CASE Head(toWorker) = Shutdown
  <2>1. worker' = [worker EXCEPT !.pc = "stopped"] /\ toMiner' = toMiner
    BY <1>4 DEF TakeMessage
  <2>2. worker'.challenge = worker.challenge /\ worker'.pc = "stopped"
    BY <1>t, <2>1 DEF WorkerTypeOK
  <2>3. MinerTypeOK'
    BY <1>t, <1>1, <2>1 DEF MinerTypeOK, WorkerTypeOK
  <2>4. ChallengesInOrder'
    BY <1>1, <1>2, <2>2 DEF ChannelInv, ChallengesInOrder
  <2>5. LatestOnItsWay'
    <3>1. CASE worker.challenge = latest
      BY <2>2, <3>1 DEF LatestOnItsWay
    <3>2. CASE worker.challenge # latest
      <4>1. PICK i \in 1..Len(toWorker) : toWorker[i] = Update(latest)
        BY <3>2 DEF ChannelInv, LatestOnItsWay
      <4>2. i # 1
        BY <1>1, <1>4, <4>1, MessageFacts
      <4>3. i - 1 \in 1..Len(toWorker') /\ toWorker'[i - 1] = Update(latest)
        BY <1>1, <4>1, <4>2
      <4>. QED  BY <4>3 DEF LatestOnItsWay
    <3>. QED  BY <3>1, <3>2
  <2>6. parent # "running"
    BY <1>1, <1>4 DEF ChannelInv, RunsUntilDropped
  <2>. QED
    BY <2>2, <2>3, <2>4, <2>5, <2>6
    DEF ChannelInv, RunsUntilDropped, HashesAChallenge
<1>. QED  BY <1>3, <1>4

(* Hashing leaves the channel to the worker and the worker's challenge     *)
(* alone.                                                                  *)
LEMMA ChannelInvHash ==
  ChannelInv /\ (NextNonce \/ Solve \/ Miss)
             /\ UNCHANGED <<answer, latest, parent, yielded>>
    => ChannelInv'
<1>. SUFFICES ASSUME ChannelInv, NextNonce \/ Solve \/ Miss,
                     UNCHANGED <<answer, latest, parent, yielded>>
              PROVE  ChannelInv'
  OBVIOUS
<1>t. MinerTypeOK /\ WorkerTypeOK
  BY DEF ChannelInv, MinerTypeOK
<1>1. worker.pc \in {"hash", "poll"} /\ worker.challenge \in Challenge
  BY DEF NextNonce, Solve, Miss, ChannelInv, HashesAChallenge
<1>2. /\ toMiner' \in Seq(MessageToMiner)
      /\ worker' \in [pc : {"hash", "poll"}, challenge : Challenge, level : Nat]
      /\ worker'.challenge = worker.challenge
  <2>1. CASE NextNonce
    BY <1>t, <1>1, <2>1 DEF NextNonce, WorkerTypeOK
  <2>2. CASE Miss
    BY <1>t, <1>1, <2>2 DEF Miss, WorkerTypeOK
  <2>3. CASE Solve
    <3>1. PICK s \in 1..MaxScore :
            /\ toMiner' = Append(toMiner,
                  Solved([challenge |-> worker.challenge, score |-> s]))
            /\ worker' = [worker EXCEPT !.pc = "poll", !.level = s]
      BY <2>3 DEF Solve
    <3>2. [challenge |-> worker.challenge, score |-> s] \in Answer /\ s \in Nat
      BY <1>1, AnswersAssumption DEF Answer
    <3>3. Solved([challenge |-> worker.challenge, score |-> s]) \in MessageToMiner
      BY <3>2 DEF MessageToMiner
    <3>4. toMiner' \in Seq(MessageToMiner)
      BY <1>t, <3>1, <3>3 DEF WorkerTypeOK
    <3>5. /\ worker' \in [pc : {"hash", "poll"}, challenge : Challenge, level : Nat]
          /\ worker'.challenge = worker.challenge
      BY <1>t, <1>1, <3>1, <3>2 DEF WorkerTypeOK
    <3>. QED  BY <3>4, <3>5
  <2>. QED  BY <2>1, <2>2, <2>3
<1>3. toWorker' = toWorker
  BY DEF NextNonce, Solve, Miss
<1>4. MinerTypeOK'
  BY <1>t, <1>2, <1>3 DEF MinerTypeOK, WorkerTypeOK
<1>. QED
  BY <1>2, <1>3, <1>4
  DEF ChannelInv, ChallengesInOrder, LatestOnItsWay, RunsUntilDropped, HashesAChallenge

(* A drain empties the other channel, and leaves no answer behind. *)
LEMMA ChannelInvDrain == ChannelInv /\ TryCreateConsensus => ChannelInv'
<1>. SUFFICES ASSUME ChannelInv, TryCreateConsensus PROVE ChannelInv'
  OBVIOUS
<1>t. MinerTypeOK /\ WorkerTypeOK
  BY DEF ChannelInv, MinerTypeOK
<1>1. /\ toMiner' = <<>> /\ answer' = NoAnswer
      /\ toWorker' = toWorker /\ worker' = worker /\ latest' = latest
      /\ parent' = parent
  BY DEF TryCreateConsensus, DrainAnswers
<1>2. yielded' \in Seq(Answer)
  BY <1>t, DrainedType DEF TryCreateConsensus, MinerTypeOK
<1>3. MinerTypeOK'
  BY <1>t, <1>1, <1>2 DEF MinerTypeOK, WorkerTypeOK
<1>. QED
  BY <1>1, <1>3
  DEF ChannelInv, ChallengesInOrder, LatestOnItsWay, RunsUntilDropped, HashesAChallenge

(* The Shutdown comes last, and the engine's thread then only waits. *)
LEMMA ChannelInvDrop == ChannelInv /\ DropWorker => ChannelInv'
<1>. SUFFICES ASSUME ChannelInv, DropWorker PROVE ChannelInv'
  OBVIOUS
<1>t. MinerTypeOK /\ WorkerTypeOK
  BY DEF ChannelInv, MinerTypeOK
<1>1. /\ toWorker' = Append(toWorker, Shutdown) /\ parent' = "joining"
      /\ toMiner' = toMiner /\ worker' = worker /\ answer' = answer
      /\ latest' = latest /\ yielded' = yielded
  BY DEF DropWorker, Send
<1>2. /\ Len(toWorker) \in Nat
      /\ Len(toWorker') = Len(toWorker) + 1
      /\ \A i \in 1..Len(toWorker) : toWorker'[i] = toWorker[i]
      /\ toWorker'[Len(toWorker) + 1] = Shutdown
      /\ toWorker' \in Seq(MessageToWorker)
  BY <1>t, <1>1 DEF WorkerTypeOK, MessageToWorker
<1>3. MinerTypeOK'
  BY <1>t, <1>1, <1>2 DEF MinerTypeOK, WorkerTypeOK
<1>4. ChallengesInOrder'
  BY <1>1, <1>2 DEF ChannelInv, ChallengesInOrder
<1>5. LatestOnItsWay'
  BY <1>1, <1>2 DEF ChannelInv, LatestOnItsWay
<1>. QED
  BY <1>1, <1>3, <1>4, <1>5 DEF ChannelInv, RunsUntilDropped, HashesAChallenge

LEMMA ChannelInvJoin == ChannelInv /\ Join => ChannelInv'
BY DEF Join, ChannelInv, MinerTypeOK, WorkerTypeOK, ChallengesInOrder,
   LatestOnItsWay, RunsUntilDropped, HashesAChallenge

LEMMA ChannelInvStep == ChannelInv /\ [Next]_minerVars => ChannelInv'
<1>. SUFFICES ASSUME ChannelInv, [Next]_minerVars PROVE ChannelInv'
  OBVIOUS
<1>1. CASE WorkerStep
  BY <1>1, ChannelInvTake, ChannelInvHash DEF WorkerStep, WorkerNext
<1>2. CASE TryCreateConsensus
  BY <1>2, ChannelInvDrain
<1>3. CASE Mine
  BY <1>3, ChannelInvMine
<1>4. CASE DropWorker
  BY <1>4, ChannelInvDrop
<1>5. CASE Join
  BY <1>5, ChannelInvJoin
<1>6. CASE UNCHANGED minerVars
  BY <1>6 DEF minerVars, ChannelInv, MinerTypeOK, WorkerTypeOK,
     ChallengesInOrder, LatestOnItsWay, RunsUntilDropped, HashesAChallenge
<1>. QED
  BY <1>1, <1>2, <1>3, <1>4, <1>5, <1>6 DEF Next, Exited
-----------------------------------------------------------------------------
(* AnswerBox, seen through the mapping, speaks of the same challenges and  *)
(* answers.                                                                *)
LEMMA SameWords ==
  /\ Box!AnswersAssumption
  /\ Box!Challenge = Challenge /\ Box!NoChallenge = NoChallenge
  /\ Box!Answer = Answer /\ Box!NoAnswer = NoAnswer
  /\ \A d : Box!LevelBelow(d) = LevelBelow(d)
<1>1. Box!AnswersAssumption
  BY AnswersAssumption DEF Box!AnswersAssumption
<1>2. Box!Challenge = Challenge /\ Box!NoChallenge = NoChallenge
  BY DEF Box!Challenge, Challenge, Box!NoChallenge, NoChallenge
<1>3. Box!Answer = Answer /\ Box!NoAnswer = NoAnswer
  BY <1>2 DEF Box!Answer, Answer, Box!NoAnswer, NoAnswer
<1>4. \A d : Box!LevelBelow(d) = LevelBelow(d)
  BY DEF Box!LevelBelow, LevelBelow
<1>. QED  BY <1>1, <1>2, <1>3, <1>4

LEMMA SameNewer ==
  ASSUME NEW a, NEW b
  PROVE  Newer(a, b) <=> Box!Newer(a, b)
BY DEF Newer, Box!Newer

LEMMA RefinementInit == Init => Box!Init
BY SameWords DEF Init, WorkerInit, Box!Init, Drained

(* Each step of the miner is a step of the box or leaves it alone. *)
LEMMA RefinementStep == ChannelInv /\ [Next]_minerVars => [Box!Next]_Box!vars
<1>. SUFFICES ASSUME ChannelInv, [Next]_minerVars PROVE [Box!Next]_Box!vars
  OBVIOUS
<1>t. MinerTypeOK /\ WorkerTypeOK /\ answer = NoAnswer
  BY DEF ChannelInv, MinerTypeOK
<1>. USE SameWords
<1>1. CASE WorkerStep /\ TakeMessage
  <2>1. /\ Len(toWorker) \in Nat /\ Len(toWorker) > 0
        /\ Head(toWorker) = toWorker[1] /\ toWorker[1] \in MessageToWorker
    BY <1>t, <1>1 DEF TakeMessage, WorkerTypeOK
  <2>2. UNCHANGED <<answer, yielded>>
    BY <1>1 DEF WorkerStep
  <2>3. CASE Head(toWorker) # Shutdown
    <3>. DEFINE c == Head(toWorker).challenge
    <3>1. c \in Challenge
      BY <2>1, <2>3, MessageKinds
    <3>2. c.id > worker.challenge.id
      BY <2>1, <2>3, <3>1, MessageFacts, WorkerNotAhead DEF ChannelInv, ChallengesInOrder
    <3>3. /\ toMiner' = Append(toMiner, Started)
          /\ worker' = [pc |-> "hash", challenge |-> c, level |-> LevelBelow(c.difficulty)]
      BY <1>1, <2>3 DEF TakeMessage, Start
    <3>. HIDE DEF c
    <3>4. Drained' = NoAnswer
      BY <1>t, <3>3 DEF Drained, LastMessage, WorkerTypeOK
    <3>5. Box!Accept
      BY <2>2, <3>1, <3>2, <3>3, <3>4 DEF Box!Accept
    <3>. QED  BY <3>5 DEF Box!Next
  <2>4. CASE Head(toWorker) = Shutdown
    <3>1. worker' = [worker EXCEPT !.pc = "stopped"] /\ toMiner' = toMiner
      BY <1>1, <2>4 DEF TakeMessage
    <3>2. worker'.challenge = worker.challenge /\ worker'.level = worker.level
      BY <1>t, <3>1 DEF WorkerTypeOK
    <3>3. Drained' = Drained
      BY <2>2, <3>1 DEF Drained, LastMessage
    <3>. QED  BY <2>2, <3>2, <3>3 DEF Box!vars
  <2>. QED  BY <2>3, <2>4
<1>2. CASE WorkerStep /\ (NextNonce \/ Miss)
  <2>1. /\ UNCHANGED <<answer, yielded, toMiner>>
        /\ worker'.challenge = worker.challenge /\ worker'.level = worker.level
    BY <1>t, <1>2 DEF WorkerStep, NextNonce, Miss, WorkerTypeOK
  <2>2. Drained' = Drained
    BY <2>1 DEF Drained, LastMessage
  <2>. QED  BY <2>1, <2>2 DEF Box!vars
<1>3. CASE WorkerStep /\ Solve
  <2>1. PICK s \in 1..MaxScore :
          /\ s > worker.level
          /\ toMiner' = Append(toMiner,
                Solved([challenge |-> worker.challenge, score |-> s]))
          /\ worker' = [worker EXCEPT !.pc = "poll", !.level = s]
    BY <1>3 DEF Solve, Improves
  <2>2. worker.challenge \in Challenge
    BY <1>3 DEF Solve, ChannelInv, HashesAChallenge
  <2>3. /\ worker'.challenge = worker.challenge /\ worker'.level = s
        /\ yielded' = yielded
    BY <1>t, <1>3, <2>1 DEF WorkerStep, WorkerTypeOK
  <2>. DEFINE a == [challenge |-> worker.challenge, score |-> s]
  <2>4. a \in Answer
    BY <2>2 DEF Answer
  <2>5. /\ toMiner' # <<>> /\ LastMessage' = Solved(a)
    BY <1>t, <2>1, <2>4 DEF LastMessage, WorkerTypeOK
  <2>6. Drained' = a
    BY <2>5, MessageFacts DEF Drained
  <2>7. Box!Improve
    BY <2>1, <2>2, <2>3, <2>6, MessageFacts DEF Box!Improve
  <2>. QED  BY <2>7 DEF Box!Next
<1>4. CASE TryCreateConsensus
  <2>1. Drained' = NoAnswer /\ worker' = worker
    BY <1>4 DEF TryCreateConsensus, DrainAnswers, Drained
  <2>2. CASE Drained = NoAnswer
    BY <1>4, <2>1, <2>2 DEF TryCreateConsensus, Box!vars
  <2>3. CASE Drained # NoAnswer
    BY <1>4, <2>1, <2>3 DEF TryCreateConsensus, Box!Take, Box!Next
  <2>. QED  BY <2>2, <2>3
<1>5. CASE Mine \/ DropWorker \/ Join \/ UNCHANGED minerVars
  <2>1. UNCHANGED <<toMiner, worker, answer, yielded>>
    BY <1>5 DEF Mine, DropWorker, Join, minerVars
  <2>2. Drained' = Drained
    BY <2>1 DEF Drained, LastMessage
  <2>. QED  BY <2>1, <2>2 DEF Box!vars
<1>. QED
  BY <1>1, <1>2, <1>3, <1>4, <1>5 DEF Next, WorkerStep, WorkerNext, Exited
-----------------------------------------------------------------------------
(* The channels keep their order for every number of challenges: what the  *)
(* worker will work on grows up to the latest challenge posted.            *)
THEOREM ChannelsInOrder == Spec => []ChannelInv
BY ChannelInvInit, ChannelInvStep, PTL DEF Spec

(* Every variable of the miner and of its worker thread keeps its type. *)
THEOREM MinerTypeCorrect == Spec => []MinerTypeOK
<1>1. ChannelInv => MinerTypeOK
  BY DEF ChannelInv
<1>. QED  BY <1>1, ChannelsInOrder, PTL

(* The miner thread, its channels and the drain implement AnswerBox. *)
THEOREM MinerImplementsAnswerBox == Spec => ImplementsAnswerBox
BY RefinementInit, RefinementStep, ChannelsInOrder, PTL
DEF Spec, ImplementsAnswerBox, Box!Spec

(* The inductive invariant: the order of the channels, and the promises of *)
(* the box the miner implements.                                           *)
THEOREM MinerInvariant == Spec => []MinerInv
<1>1. Box!Spec => []Box!BoxInv
  BY SameWords, Box!BoxKeepsItsPromises, PTL
<1>2. ChannelInv /\ Box!BoxInv => MinerInv
  BY DEF MinerInv
<1>. QED
  BY <1>1, <1>2, ChannelsInOrder, MinerImplementsAnswerBox, PTL DEF ImplementsAnswerBox

(* No answer is handed out twice, and none after a better or a later one. *)
THEOREM NeverYieldsAnAnswerTwice == Spec => []YieldsOnlyImprovements
<1>1. MinerInv => YieldsOnlyImprovements
  BY SameNewer DEF MinerInv, Box!BoxInv, YieldsOnlyImprovements, Box!OnlyImprovements
<1>. QED  BY <1>1, MinerInvariant, PTL

(* Every answer handed out reaches the difficulty its challenge asked for. *)
THEOREM AnswersAreProofsOfWork == Spec => []YieldsMeetDifficulty
<1>1. MinerInv => YieldsMeetDifficulty
  BY DEF MinerInv, Box!BoxInv, YieldsMeetDifficulty, Box!MeetsDifficulty
<1>. QED  BY <1>1, MinerInvariant, PTL

(* With nothing left in the channel to the worker, a drain returns nothing *)
(* or an answer to the latest challenge.                                   *)
THEOREM NoStaleAnswerOnceAcknowledged == Spec => []FreshOnceAcknowledged
<1>1. MinerInv => FreshOnceAcknowledged
  <2>. SUFFICES ASSUME MinerInv, toWorker = <<>>, Drained # NoAnswer
                PROVE  Drained.challenge = latest
    BY DEF FreshOnceAcknowledged
  <2>1. Drained.challenge = worker.challenge
    BY SameWords DEF MinerInv, Box!BoxInv, Box!LevelBounds
  <2>2. worker.challenge = latest
    BY DEF MinerInv, ChannelInv, LatestOnItsWay
  <2>. QED  BY <2>1, <2>2
<1>. QED  BY <1>1, MinerInvariant, PTL

(* The engine never uses a channel whose other end is gone. *)
THEOREM ChannelsStayConnected == Spec => []NeverDisconnected
<1>1. ChannelInv => NeverDisconnected
  BY DEF ChannelInv, RunsUntilDropped, NeverDisconnected
<1>. QED  BY <1>1, ChannelsInOrder, PTL
=============================================================================
