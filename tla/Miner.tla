------------------------------- MODULE Miner --------------------------------
(***************************************************************************)
(* The engine's side of the miner (miner/miner.rs) on top of the worker    *)
(* thread: it posts challenges, drains the worker's messages into `answer' *)
(* and hands the answer out as the consensus of the block to publish.      *)
(***************************************************************************)
EXTENDS Worker

VARIABLES answer,    \* RefCell<Option<Answer>>
          latest,    \* the last challenge posted by `mine'
          parent,    \* the engine's thread: "running", "joining" or "joined"
          yielded    \* history: every answer handed out, in order

minerVars == <<toWorker, toMiner, worker, answer, latest, parent, yielded>>

MinerTypeOK ==
  /\ WorkerTypeOK
  /\ answer \in Answer \cup {NoAnswer}
  /\ latest \in Challenge \cup {NoChallenge}
  /\ parent \in {"running", "joining", "joined"}
  /\ yielded \in Seq(Answer)
-----------------------------------------------------------------------------
(* The drain loop of try_create_consensus: a Solved replaces the answer, a *)
(* Started clears it, so only the last message counts. The worker may send *)
(* while the loop runs; the loop ends at an empty channel, and that moment *)
(* is the step.                                                            *)
LastMessage == toMiner[Len(toMiner)]

(* Slip: Started does not clear the answer. *)
DrainedPastStarted ==
  LET solved == {i \in 1..Len(toMiner) : toMiner[i] # Started}
  IN  IF solved = {} THEN answer
      ELSE toMiner[CHOOSE i \in solved : \A j \in solved : j =< i].answer

Drained == IF toMiner = <<>> THEN answer
           ELSE IF LastMessage = Started THEN NoAnswer
           ELSE LastMessage.answer

(* Slip: the answer is copied out, not taken. *)
DrainKeepingAnswer == /\ toMiner' = <<>>
                      /\ answer' = Drained

DrainAnswers == /\ toMiner' = <<>>
                /\ answer' = NoAnswer

TryCreateConsensus ==
  /\ parent = "running"
  /\ yielded' = IF Drained = NoAnswer THEN yielded ELSE Append(yielded, Drained)
  /\ DrainAnswers
  /\ UNCHANGED <<toWorker, worker, latest, parent>>

(* Miner::mine. The timestamp taken at 52 makes every challenge a new one; *)
(* the difficulty is the head's expected difficulty or the configured one. *)
(* When get_block fails nothing is sent: a stuttering step.                *)
SendChallenge(c) == /\ Send(Update(c))
                    /\ latest' = c

Mine ==
  /\ parent = "running"
  /\ latest.id < MaxChallenges
  /\ \E d \in Difficulties : SendChallenge([id |-> latest.id + 1, difficulty |-> d])
  /\ UNCHANGED <<toMiner, worker, answer, parent, yielded>>

(* Slip: the thread is joined but not told to stop. *)
DropSilently ==
  /\ parent = "running"
  /\ parent' = "joining"
  /\ UNCHANGED <<toWorker, toMiner, worker, answer, latest, yielded>>

(* Worker::drop: send Shutdown, then join the thread. *)
DropWorker ==
  /\ parent = "running"
  /\ Send(Shutdown)
  /\ parent' = "joining"
  /\ UNCHANGED <<toMiner, worker, answer, latest, yielded>>

Join ==
  /\ parent = "joining"
  /\ worker.pc = "stopped"
  /\ parent' = "joined"
  /\ UNCHANGED <<toWorker, toMiner, worker, answer, latest, yielded>>

WorkerStep == WorkerNext /\ UNCHANGED <<answer, latest, parent, yielded>>

Init == /\ WorkerInit
        /\ answer = NoAnswer
        /\ latest = NoChallenge
        /\ parent = "running"
        /\ yielded = <<>>

(* The process has exited. *)
Exited == parent = "joined" /\ UNCHANGED minerVars

Next == WorkerStep \/ TryCreateConsensus \/ Mine \/ DropWorker \/ Join \/ Exited

Spec == Init /\ [][Next]_minerVars

FairSpec == Spec /\ WF_minerVars(WorkerStep) /\ WF_minerVars(Join)
-----------------------------------------------------------------------------
(* The miner refines its answer and never yields one twice, nor falls back *)
(* to an earlier challenge once it has answered a later one (miner.rs:99   *)
(* to 102), however the channels, the drain and new challenges interleave. *)
YieldsOnlyImprovements ==
  \A i, j \in 1..Len(yielded) : i < j => Newer(yielded[j], yielded[i])

(* Once the worker has taken every challenge out of its channel, what a    *)
(* drain would return answers the newest challenge: no stale answer hides  *)
(* behind the Started acknowledgement.                                     *)
FreshOnceAcknowledged ==
  (toWorker = <<>> /\ Drained # NoAnswer) => Drained.challenge = latest

(* Every answer handed out is a proof of work for its own challenge: the   *)
(* level restarts one below the challenge's difficulty, never below a      *)
(* previous challenge's.                                                   *)
YieldsMeetDifficulty ==
  \A i \in 1..Len(yielded) : yielded[i].score >= yielded[i].challenge.difficulty

(* The channels stay connected while the engine uses them: the `expect's   *)
(* and the panic of channel.rs are unreachable, because the thread returns *)
(* only for the Shutdown that drop sends.                                  *)
NeverDisconnected == parent = "running" => worker.pc # "stopped"

(* A challenge posted is one the worker ends up working on, unless a later *)
(* one or the shutdown comes first.                                        *)
ChallengeReachesWorker ==
  \A n \in 1..MaxChallenges :
    latest.id = n ~> (worker.challenge.id >= n \/ worker.pc = "stopped")

(* Dropping the miner joins the thread: the engine's exit does not hang    *)
(* on a worker that hashes for ever.                                       *)
DropJoins == parent = "joining" ~> parent = "joined"
-----------------------------------------------------------------------------
(* Strengthenings of the invariants, for the proofs.                       *)

(* The ids on their way to the worker grow, past the one it works on and   *)
(* up to the latest.                                                       *)
ChallengesInOrder ==
  /\ \A i \in 1..Len(toWorker) : toWorker[i] # Shutdown =>
       /\ worker.challenge.id < toWorker[i].challenge.id
       /\ toWorker[i].challenge.id =< latest.id
  /\ \A i, j \in 1..Len(toWorker) :
       (i < j /\ toWorker[i] # Shutdown /\ toWorker[j] # Shutdown)
         => toWorker[i].challenge.id < toWorker[j].challenge.id

(* The latest challenge is with the worker or still in the channel. *)
LatestOnItsWay == \/ worker.challenge = latest
                  \/ \E i \in 1..Len(toWorker) : toWorker[i] = Update(latest)

(* No Shutdown is sent before the drop. *)
RunsUntilDropped ==
  parent = "running" => /\ worker.pc # "stopped"
                        /\ \A i \in 1..Len(toWorker) : toWorker[i] # Shutdown

(* A worker that hashes has a challenge. *)
HashesAChallenge == worker.pc \in {"hash", "poll"} => worker.challenge \in Challenge

ChannelInv == /\ MinerTypeOK
              /\ answer = NoAnswer
              /\ ChallengesInOrder
              /\ LatestOnItsWay
              /\ RunsUntilDropped
              /\ HashesAChallenge
=============================================================================
