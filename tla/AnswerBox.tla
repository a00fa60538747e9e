----------------------------- MODULE AnswerBox ------------------------------
(***************************************************************************)
(* What the miner promises the engine, with no threads and no channels: a  *)
(* box that holds at most one answer, the best so far to one challenge.    *)
(* A new challenge empties it, a better answer replaces what it holds, and *)
(* taking the answer out empties it again.                                 *)
(***************************************************************************)
EXTENDS Answers

VARIABLES challenge,   \* the challenge being answered
          level,       \* the score an answer has to beat
          box,         \* the answer waiting to be taken
          handed       \* every answer taken out, in order

vars == <<challenge, level, box, handed>>

Init == /\ challenge = NoChallenge
        /\ level = 0
        /\ box = NoAnswer
        /\ handed = <<>>

Accept == \E c \in Challenge :
            /\ c.id > challenge.id
            /\ challenge' = c
            /\ level' = LevelBelow(c.difficulty)
            /\ box' = NoAnswer
            /\ UNCHANGED handed

Improve == \E s \in 1..MaxScore :
             /\ challenge # NoChallenge
             /\ s > level
             /\ level' = s
             /\ box' = [challenge |-> challenge, score |-> s]
             /\ UNCHANGED <<challenge, handed>>

Take == /\ box # NoAnswer
        /\ handed' = Append(handed, box)
        /\ box' = NoAnswer
        /\ UNCHANGED <<challenge, level>>

Next == Accept \/ Improve \/ Take

Spec == Init /\ [][Next]_vars
-----------------------------------------------------------------------------
TypeOK == /\ challenge \in Challenge \cup {NoChallenge}
          /\ level \in Nat
          /\ box \in Answer \cup {NoAnswer}
          /\ handed \in Seq(Answer)

(* An answer taken out later is newer: none is handed out twice. *)
OnlyImprovements ==
  \A i, j \in 1..Len(handed) : i < j => Newer(handed[j], handed[i])

(* An answer handed out solves its own challenge. *)
MeetsDifficulty ==
  \A i \in 1..Len(handed) : handed[i].score >= handed[i].challenge.difficulty

(* What was handed out is no better than the level reached for its         *)
(* challenge, and what is in the box is newer than all of it.              *)
LevelBounds ==
  /\ level >= LevelBelow(challenge.difficulty)
  /\ \A i \in 1..Len(handed) :
       \/ handed[i].challenge.id < challenge.id
       \/ handed[i].challenge = challenge /\ handed[i].score =< level
  /\ box # NoAnswer =>
       /\ box.challenge = challenge
       /\ box.score = level
       /\ box.score >= challenge.difficulty
       /\ \A i \in 1..Len(handed) : Newer(box, handed[i])

BoxInv == TypeOK /\ OnlyImprovements /\ MeetsDifficulty /\ LevelBounds
=============================================================================
