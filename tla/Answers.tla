------------------------------ MODULE Answers -------------------------------
(***************************************************************************)
(* Challenges and answers (miner/challenge.rs, miner/answer.rs).           *)
(*                                                                         *)
(* A challenge is its identity and the difficulty to reach; block id, peer *)
(* id, timestamp and next difficulty travel with it unread. Its identity   *)
(* is its place in the order of posting. A hash is a score in 0..MaxScore: *)
(* every nonce gives a digest and every digest a score, and which one is   *)
(* not known before it is computed.                                        *)
(***************************************************************************)
EXTENDS Integers, Sequences

CONSTANTS MaxChallenges,   \* bound: how many challenges are ever posted
          MaxScore,        \* the best score a digest can have
          Difficulties     \* the difficulties a challenge may ask for

ASSUME AnswersAssumption == /\ MaxChallenges \in Nat \ {0}
                            /\ MaxScore \in Nat \ {0}
                            /\ Difficulties \subseteq Nat

Challenge == [id : 1..MaxChallenges, difficulty : Difficulties]
NoChallenge == [id |-> 0, difficulty |-> 0]

Answer == [challenge : Challenge, score : 1..MaxScore]
NoAnswer == [challenge |-> NoChallenge, score |-> 0]

(* a was found after b: for a later challenge, or a better score for the   *)
(* same one.                                                               *)
Newer(a, b) == \/ a.challenge.id > b.challenge.id
               \/ a.challenge = b.challenge /\ a.score > b.score

(* Slip: a plain subtraction. *)
LevelBelowUnsaturated(difficulty) == difficulty - 1

(* u32::saturating_sub(1): where current_difficulty starts for a challenge. *)
LevelBelow(difficulty) == IF difficulty = 0 THEN 0 ELSE difficulty - 1
=============================================================================
