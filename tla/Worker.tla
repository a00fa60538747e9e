------------------------------- MODULE Worker -------------------------------
(***************************************************************************)
(* The miner thread (miner/worker.rs) and the two unbounded FIFO channels  *)
(* that are its only contact with the engine's thread (miner/channel.rs).  *)
(***************************************************************************)
EXTENDS Answers

VARIABLES toWorker,   \* channel parent -> worker
          toMiner,    \* channel worker -> parent
          worker      \* the thread: where it is, its challenge, its current_difficulty

workerVars == <<toWorker, toMiner, worker>>
-----------------------------------------------------------------------------
(* enum MessageToWorker *)
Shutdown == [kind |-> "Shutdown"]
Update(c) == [kind |-> "Challenge", challenge |-> c]
MessageToWorker == {Shutdown} \cup {Update(c) : c \in Challenge}

(* enum MessageToMiner *)
Started == [kind |-> "Started"]
Solved(a) == [kind |-> "Solved", answer |-> a]
MessageToMiner == {Started} \cup {Solved(a) : a \in Answer}

WorkerTypeOK ==
  /\ toWorker \in Seq(MessageToWorker)
  /\ toMiner \in Seq(MessageToMiner)
  /\ worker \in [pc : {"recv", "hash", "poll", "stopped"},
                 challenge : Challenge \cup {NoChallenge},
                 level : Nat]
-----------------------------------------------------------------------------
(* Channel::send, by the parent. *)
Send(message) == toWorker' = Append(toWorker, message)

WorkerInit == /\ toWorker = <<>>
              /\ toMiner = <<>>
              /\ worker = [pc |-> "recv", challenge |-> NoChallenge, level |-> 0]

(* Slip: the level reached for the last challenge is kept. *)
StartAtOldLevel(c) == /\ toMiner' = Append(toMiner, Started)
                      /\ worker' = [worker EXCEPT !.pc = "hash", !.challenge = c]

(* Slip: the challenge is not acknowledged. *)
StartSilently(c) == /\ worker' = [pc |-> "hash", challenge |-> c,
                                  level |-> LevelBelow(c.difficulty)]
                    /\ UNCHANGED toMiner

(* Worker::start and the reset of current_difficulty: acknowledge the      *)
(* challenge, hash it from its own difficulty.                             *)
Start(c) == /\ toMiner' = Append(toMiner, Started)
            /\ worker' = [pc |-> "hash", challenge |-> c,
                          level |-> LevelBelow(c.difficulty)]

(* Take the next message: the first, blocking recv and the later try_recv  *)
(* treat a challenge, and a shutdown, alike. A challenge counts as taken   *)
(* with the Started that acknowledges it: a drain between the two sees     *)
(* what it would see before both.                                          *)
TakeMessage ==
  /\ worker.pc \in {"recv", "poll"}
  /\ toWorker # <<>>
  /\ toWorker' = Tail(toWorker)
  /\ \/ /\ Head(toWorker) # Shutdown
        /\ Start(Head(toWorker).challenge)
     \/ /\ Head(toWorker) = Shutdown
        /\ worker' = [worker EXCEPT !.pc = "stopped"]
        /\ UNCHANGED toMiner

(* Slip: an empty channel is taken for a closed one. *)
NextNonceOrQuit == /\ worker.pc = "poll"
                   /\ toWorker = <<>>
                   /\ worker' = [worker EXCEPT !.pc = "stopped"]
                   /\ UNCHANGED <<toWorker, toMiner>>

(* Slip: the next nonce may be hashed before the channel is looked at. *)
NextNonceUnread == /\ worker.pc = "poll"
                   /\ worker' = [worker EXCEPT !.pc = "hash"]
                   /\ UNCHANGED <<toWorker, toMiner>>

(* try_recv found nothing: go on to the next nonce. *)
NextNonce == /\ worker.pc = "poll"
             /\ toWorker = <<>>
             /\ worker' = [worker EXCEPT !.pc = "hash"]
             /\ UNCHANGED <<toWorker, toMiner>>

(* One hash with score s. Only a score above the level is an answer, and   *)
(* it becomes the new level.                                               *)
Improves(s) == s > worker.level

Solve == /\ worker.pc = "hash"
         /\ \E s \in 1..MaxScore :
              /\ Improves(s)
              /\ toMiner' = Append(toMiner,
                    Solved([challenge |-> worker.challenge, score |-> s]))
              /\ worker' = [worker EXCEPT !.pc = "poll", !.level = s]
         /\ UNCHANGED toWorker

Miss == /\ worker.pc = "hash"
        /\ worker' = [worker EXCEPT !.pc = "poll"]
        /\ UNCHANGED <<toWorker, toMiner>>

WorkerNext == TakeMessage \/ NextNonce \/ Solve \/ Miss
=============================================================================
