-------------------------- MODULE AnswerBoxProofs ---------------------------
(* The promises of AnswerBox hold for every bound and every difficulty. *)
EXTENDS AnswerBox, TLAPS

(* NoChallenge is not a challenge, and NoAnswer not an answer: their ids   *)
(* and scores are zero.                                                    *)
LEMMA NothingIsNothing == /\ NoChallenge \notin Challenge
                          /\ NoAnswer \notin Answer
                          /\ NoChallenge.difficulty = 0
                          /\ NoChallenge.id = 0
<1>1. NoChallenge \notin Challenge
  BY DEF NoChallenge, Challenge
<1>2. NoAnswer \notin Answer
  BY DEF NoAnswer, Answer
<1>. QED  BY <1>1, <1>2 DEF NoChallenge

(* A challenge is a natural id and a natural difficulty. *)
LEMMA ChallengeFields ==
  ASSUME NEW c \in Challenge
  PROVE  c.id \in Nat /\ c.id > 0 /\ c.difficulty \in Nat
<1>1. c.id \in 1..MaxChallenges
  BY DEF Challenge
<1>2. c.difficulty \in Difficulties
  BY DEF Challenge
<1>3. c.id \in Nat /\ c.id > 0
  BY <1>1, AnswersAssumption
<1>4. c.difficulty \in Nat
  BY <1>2, AnswersAssumption
<1>. QED  BY <1>3, <1>4

(* Newer is transitive: improving on what is newer than everything handed  *)
(* out is newer than everything handed out.                                *)
LEMMA NewerTransitive ==
  ASSUME NEW a \in Answer, NEW b \in Answer, NEW c \in Answer,
         Newer(a, b), Newer(b, c)
  PROVE  Newer(a, c)
BY ChallengeFields DEF Answer, Newer

LEMMA BoxInvInit == Init => BoxInv
BY AnswersAssumption DEF Init, BoxInv, TypeOK, OnlyImprovements,
   MeetsDifficulty, LevelBounds, LevelBelow, NoChallenge, NoAnswer

LEMMA BoxInvStep == BoxInv /\ [Next]_vars => BoxInv'
<1>. SUFFICES ASSUME BoxInv, [Next]_vars  PROVE BoxInv'
  OBVIOUS
<1>. USE NothingIsNothing
<1>t. TypeOK /\ OnlyImprovements /\ MeetsDifficulty /\ LevelBounds
  BY DEF BoxInv
<1>n. challenge.id \in Nat /\ challenge.difficulty \in Nat
  BY <1>t, ChallengeFields DEF TypeOK
<1>h. \A i \in 1..Len(handed) : handed[i] \in Answer
  BY <1>t DEF TypeOK
<1>1. CASE Accept
  <2>1. PICK c \in Challenge : /\ c.id > challenge.id
                               /\ challenge' = c
                               /\ level' = LevelBelow(c.difficulty)
                               /\ box' = NoAnswer
                               /\ handed' = handed
    BY <1>1 DEF Accept
  <2>2. c.id \in Nat /\ c.difficulty \in Nat
    BY ChallengeFields
  <2>3. level' \in Nat
    BY <2>1, <2>2 DEF LevelBelow
  <2>4. \A i \in 1..Len(handed) : handed[i].challenge.id < c.id
    BY <1>t, <1>n, <1>h, <2>1, <2>2, ChallengeFields DEF LevelBounds, Answer
  <2>5. LevelBounds'
    BY <2>1, <2>2, <2>3, <2>4 DEF LevelBounds, LevelBelow
  <2>. QED
    BY <1>t, <2>1, <2>3, <2>5
    DEF BoxInv, TypeOK, OnlyImprovements, MeetsDifficulty
<1>2. CASE Improve
  <2>1. PICK s \in 1..MaxScore : /\ challenge # NoChallenge
                                 /\ s > level
                                 /\ level' = s
                                 /\ box' = [challenge |-> challenge, score |-> s]
                                 /\ challenge' = challenge
                                 /\ handed' = handed
    BY <1>2 DEF Improve
  <2>2. challenge \in Challenge /\ box' \in Answer /\ level' \in Nat
    BY <1>t, <2>1, AnswersAssumption DEF TypeOK, Answer
  <2>3. s >= challenge.difficulty /\ s >= LevelBelow(challenge.difficulty)
    BY <1>t, <1>n, <2>1, AnswersAssumption DEF LevelBounds, LevelBelow, TypeOK
  <2>4. \A i \in 1..Len(handed) : /\ Newer(box', handed[i])
                                  /\ \/ handed[i].challenge.id < challenge.id
                                     \/ handed[i].challenge = challenge /\ handed[i].score =< s
    BY <1>t, <1>h, <1>n, <2>1, AnswersAssumption
    DEF LevelBounds, Newer, TypeOK, Answer
  <2>5. LevelBounds'
    BY <2>1, <2>3, <2>4 DEF LevelBounds
  <2>. QED
    BY <1>t, <2>1, <2>2, <2>5
    DEF BoxInv, TypeOK, OnlyImprovements, MeetsDifficulty
<1>3. CASE Take
  <2>1. /\ box \in Answer
        /\ handed' = Append(handed, box)
        /\ box' = NoAnswer
        /\ challenge' = challenge
        /\ level' = level
    BY <1>t, <1>3 DEF Take, TypeOK
  <2>2. /\ handed' \in Seq(Answer)
        /\ Len(handed') = Len(handed) + 1
        /\ \A i \in 1..Len(handed) : handed'[i] = handed[i]
        /\ handed'[Len(handed) + 1] = box
        /\ Len(handed) \in Nat
    BY <1>t, <2>1 DEF TypeOK
  <2>3. /\ box.challenge = challenge
        /\ box.score = level
        /\ box.score >= challenge.difficulty
        /\ \A i \in 1..Len(handed) : Newer(box, handed[i])
    BY <1>t, <2>1 DEF LevelBounds
  <2>4. OnlyImprovements'
    <3>. SUFFICES ASSUME NEW i \in 1..Len(handed'), NEW j \in 1..Len(handed'), i < j
                  PROVE  Newer(handed'[j], handed'[i])
      BY DEF OnlyImprovements
    <3>1. CASE j = Len(handed) + 1
      BY <3>1, <2>2, <2>3
    <3>2. CASE j # Len(handed) + 1
      BY <3>2, <1>t, <2>2 DEF OnlyImprovements
    <3>. QED  BY <3>1, <3>2
  <2>5. MeetsDifficulty'
    <3>. SUFFICES ASSUME NEW i \in 1..Len(handed')
                  PROVE  handed'[i].score >= handed'[i].challenge.difficulty
      BY DEF MeetsDifficulty
    <3>. QED  BY <1>t, <2>2, <2>3 DEF MeetsDifficulty
  <2>6. LevelBounds'
    <3>1. \A i \in 1..Len(handed') :
             \/ handed'[i].challenge.id < challenge.id
             \/ handed'[i].challenge = challenge /\ handed'[i].score =< level
      BY <1>t, <2>2, <2>3 DEF LevelBounds, TypeOK
    <3>. QED  BY <3>1, <1>t, <2>1 DEF LevelBounds
  <2>. QED
    BY <1>t, <2>1, <2>2, <2>4, <2>5, <2>6 DEF BoxInv, TypeOK
<1>4. CASE UNCHANGED vars
  BY <1>4 DEF vars, BoxInv, TypeOK, OnlyImprovements, MeetsDifficulty, LevelBounds
<1>. QED
  BY <1>1, <1>2, <1>3, <1>4 DEF Next

(* Whatever is taken out of the box improves on everything taken out       *)
(* before, and solves its challenge.                                       *)
THEOREM BoxKeepsItsPromises == Spec => []BoxInv
BY BoxInvInit, BoxInvStep, PTL DEF Spec
=============================================================================
