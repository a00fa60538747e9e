--------------------------- MODULE PowNodeProofs ----------------------------
(***************************************************************************)
(* The guards of the publishing half, for every number of heads, every set *)
(* of answers, and whichever service calls are refused or fail.            *)
(***************************************************************************)
EXTENDS PowNode, TLAPS

(* A block being built has a head as its parent. *)
LEMMA CandidateTypes ==
  /\ NoCandidate \in Candidate
  /\ \A h \in 1..MaxHead : CandidateOn(h) \in Candidate /\ CandidateOn(h) # NoCandidate
                           /\ CandidateOn(h).parent = h
  /\ \A c \in Candidate \ {NoCandidate} :
       c.parent \in 1..MaxHead /\ [c EXCEPT !.summarized = TRUE] \in Candidate
                               /\ [c EXCEPT !.summarized = TRUE] # NoCandidate
                               /\ [c EXCEPT !.summarized = TRUE].parent = c.parent
<1>1. NoCandidate \in Candidate
  BY DEF Candidate
<1>2. ASSUME NEW h \in 1..MaxHead
      PROVE  /\ CandidateOn(h) \in Candidate /\ CandidateOn(h) # NoCandidate
             /\ CandidateOn(h).parent = h
  <2>1. CandidateOn(h) \in [parent : 1..MaxHead, summarized : BOOLEAN]
    BY DEF CandidateOn
  <2>2. CandidateOn(h).parent = h /\ NoCandidate.parent = 0 /\ h # 0
    BY NodeAssumption DEF CandidateOn, NoCandidate
  <2>. QED  BY <2>1, <2>2 DEF Candidate
<1>3. ASSUME NEW c \in Candidate \ {NoCandidate}
      PROVE  /\ c.parent \in 1..MaxHead /\ [c EXCEPT !.summarized = TRUE] \in Candidate
             /\ [c EXCEPT !.summarized = TRUE] # NoCandidate
             /\ [c EXCEPT !.summarized = TRUE].parent = c.parent
  <2>. DEFINE d == [c EXCEPT !.summarized = TRUE]
  <2>1. c \in [parent : 1..MaxHead, summarized : BOOLEAN]
    BY DEF Candidate
  <2>2. d \in [parent : 1..MaxHead, summarized : BOOLEAN] /\ d.parent = c.parent
    BY <2>1
  <2>3. NoCandidate.parent = 0 /\ c.parent \in 1..MaxHead
    BY <2>1 DEF NoCandidate
  <2>4. c.parent # 0
    BY <2>3, NodeAssumption
  <2>. QED  BY <2>2, <2>3, <2>4 DEF Candidate
<1>. QED  BY <1>1, <1>2, <1>3

(* Setting guards other than Finalized harms nothing. *)
LEMMA GuardOK ==
  ASSUME NEW n, NEW h \in Nat, NodeOK(n, h), NEW g \in {"Consensus", "Summarized"}
  PROVE  NodeOK([n EXCEPT !.guards = @ \cup {g}], h)
<1>. DEFINE m == [n EXCEPT !.guards = @ \cup {g}]
<1>1. n \in Node
  BY DEF NodeOK
<1>2. /\ m \in Node /\ m.published = n.published /\ m.candidate = n.candidate
      /\ m.guards = n.guards \cup {g}
  BY <1>1 DEF Node, Guard
<1>. HIDE DEF m
<1>3. NodeOK(m, h)
  BY <1>1, <1>2 DEF NodeOK, HasGuard, Building
<1>. QED  BY <1>3 DEF m

LEMMA SummarizeOK ==
  ASSUME NEW n, NEW h \in Nat, NodeOK(n, h), NEW m \in Summarize(n)
  PROVE  NodeOK(m, h)
<1>1. CASE m = n
  BY <1>1
<1>2. CASE m # n
  <2>1. /\ Building(n)
        /\ m = [n EXCEPT !.guards = @ \cup {"Summarized"}, !.candidate.summarized = TRUE]
    BY <1>2 DEF Summarize
  <2>2. n \in Node /\ n.candidate \in Candidate \ {NoCandidate}
    BY <2>1 DEF NodeOK, Building, Node
  <2>. DEFINE c == [n.candidate EXCEPT !.summarized = TRUE]
  <2>3. c \in Candidate /\ c # NoCandidate /\ c.parent = n.candidate.parent
    BY <2>2, CandidateTypes
  <2>4. /\ m.candidate = c /\ m.published = n.published
        /\ m.guards = n.guards \cup {"Summarized"}
    BY <2>1, <2>2 DEF Node
  <2>. HIDE DEF c
  <2>5. m \in Node
    BY <2>1, <2>2, <2>3, <2>4 DEF Node, Guard
  <2>. QED
    BY <2>1, <2>3, <2>4, <2>5 DEF NodeOK, HasGuard, Building
<1>. QED  BY <1>1, <1>2

(* Finalizing publishes on a head on which nothing was published. *)
LEMMA FinalizeOK ==
  ASSUME NEW n, NEW h \in Nat, NodeOK(n, h),
         NEW c \in Consensus, NEW o \in Finalize(n, c)
  PROVE  NodeOK(o.node, h)
<1>1. Building(n)
  BY DEF Finalize
<1>. DEFINE b == [parent |-> n.candidate.parent, consensus |-> c]
<1>2. n \in Node /\ n.candidate \in Candidate \ {NoCandidate}
  BY <1>1 DEF NodeOK, Building, Node
<1>3. n.candidate.parent \in 1..MaxHead
  BY <1>2, CandidateTypes
<1>4. b \in Published
  BY <1>3 DEF Published
<1>5. o.node = [guards |-> (n.guards \cup {"Finalized"}) \ {"Consensus", "Summarized"},
                candidate |-> NoCandidate,
                published |-> n.published \cup {b}]
  BY <1>1 DEF Finalize
<1>6. b.parent = n.candidate.parent
  OBVIOUS
<1>. HIDE DEF b
<1>7. o.node \in Node
  BY <1>2, <1>4, <1>5, CandidateTypes DEF Node, Guard
<1>8. /\ o.node.published = n.published \cup {b}
      /\ o.node.candidate = NoCandidate
  BY <1>5
<1>. QED
  BY <1>1, <1>6, <1>7, <1>8 DEF NodeOK, Building

(* No attempt to publish breaks the node, whatever it is answered. *)
LEMMA TryPublishOK ==
  ASSUME NEW n, NEW h \in Nat, NodeOK(n, h),
         NEW c \in Consensus \cup {NoConsensus}, NEW o \in TryPublish(n, c)
  PROVE  NodeOK(o.node, h)
<1>. DEFINE m == [n EXCEPT !.guards = @ \cup {"Consensus"}]
<1>1. NodeOK(m, h)
  BY GuardOK
<1>2. CASE ~Drains(n) \/ c = NoConsensus
  BY <1>2 DEF TryPublish
<1>3. CASE ~(~Drains(n) \/ c = NoConsensus)
  <2>1. \/ o \in SummarizeRefused(m)
        \/ \E s \in Summarize(m) : o \in Refused(s, "finalize") \/ o \in Finalize(s, c)
    BY <1>3 DEF TryPublish
  <2>. HIDE DEF m
  <2>2. CASE o \in SummarizeRefused(m)
    BY <1>1, <2>2 DEF SummarizeRefused, Refused
  <2>3. CASE \E s \in Summarize(m) : o \in Refused(s, "finalize") \/ o \in Finalize(s, c)
    <3>1. PICK s \in Summarize(m) : o \in Refused(s, "finalize") \/ o \in Finalize(s, c)
      BY <2>3
    <3>2. NodeOK(s, h)
      BY <1>1, SummarizeOK
    <3>3. c \in Consensus
      BY <1>3
    <3>. QED  BY <3>1, <3>2, <3>3, FinalizeOK DEF Refused
  <2>. QED  BY <2>1, <2>2, <2>3
<1>. QED  BY <1>2, <1>3

(* The block being built afterwards, if any, extends the same head.        *)
KeepsCandidate(m, n) == Building(m) => Building(n) /\ m.candidate.parent = n.candidate.parent

(* What is published is what was, or the block being built, with answer c. *)
PublishesOnly(m, n, c) ==
  \A b \in m.published :
    \/ b \in n.published
    \/ /\ Building(n) /\ c \in Consensus
       /\ b = [parent |-> n.candidate.parent, consensus |-> c]

(* If no block is being built any more, it was published.                  *)
GivesUpToPublish(m, n) ==
  Building(n) /\ ~Building(m) => \E b \in m.published : b.parent = n.candidate.parent

(* An attempt publishes the block being built with the answer it was given,*)
(* or nothing.                                                             *)
LEMMA AttemptEffect ==
  ASSUME NEW n \in Node, NEW c \in Consensus \cup {NoConsensus}, NEW o \in TryPublish(n, c)
  PROVE  /\ KeepsCandidate(o.node, n)
         /\ PublishesOnly(o.node, n, c)
         /\ GivesUpToPublish(o.node, n)
<1>. DEFINE m == [n EXCEPT !.guards = @ \cup {"Consensus"}]
<1>1. m.candidate = n.candidate /\ m.published = n.published /\ m \in Node
  BY DEF Node, Guard
<1>2. ASSUME NEW u, u.candidate = n.candidate, u.published = n.published
      PROVE  KeepsCandidate(u, n) /\ PublishesOnly(u, n, c) /\ GivesUpToPublish(u, n)
  BY <1>2 DEF KeepsCandidate, PublishesOnly, GivesUpToPublish, Building
<1>3. CASE ~Drains(n) \/ c = NoConsensus
  BY <1>2, <1>3 DEF TryPublish
<1>4. CASE ~(~Drains(n) \/ c = NoConsensus)
  <2>1. \/ o \in SummarizeRefused(m)
        \/ \E s \in Summarize(m) : o \in Refused(s, "finalize") \/ o \in Finalize(s, c)
    BY <1>4 DEF TryPublish
  <2>. HIDE DEF m
  <2>2. CASE o \in SummarizeRefused(m)
    BY <1>1, <1>2, <2>2 DEF SummarizeRefused, Refused
  <2>3. CASE \E s \in Summarize(m) : o \in Refused(s, "finalize") \/ o \in Finalize(s, c)
    <3>1. PICK s \in Summarize(m) : o \in Refused(s, "finalize") \/ o \in Finalize(s, c)
      BY <2>3
    <3>2. s.published = n.published /\ KeepsCandidate(s, n) /\ (Building(n) => Building(s))
      <4>1. CASE s = m
        BY <1>1, <1>2, <4>1 DEF Building
      <4>2. CASE s # m
        <5>1. /\ Building(m)
              /\ s = [m EXCEPT !.guards = @ \cup {"Summarized"}, !.candidate.summarized = TRUE]
          BY <4>2 DEF Summarize
        <5>2. m.candidate \in Candidate \ {NoCandidate}
          BY <1>1, <5>1 DEF Node, Building
        <5>3. /\ s.candidate = [m.candidate EXCEPT !.summarized = TRUE]
              /\ s.published = m.published
          BY <1>1, <5>1 DEF Node
        <5>4. s.candidate.parent = m.candidate.parent /\ s.candidate # NoCandidate
          BY <5>2, <5>3, CandidateTypes
        <5>. QED  BY <1>1, <5>1, <5>3, <5>4 DEF KeepsCandidate, Building
      <4>. QED  BY <4>1, <4>2
    <3>3. CASE o \in Refused(s, "finalize")
      BY <3>2, <3>3 DEF Refused, PublishesOnly, GivesUpToPublish
    <3>4. CASE o \in Finalize(s, c)
      <4>1. /\ Building(s) /\ o.node.candidate = NoCandidate
            /\ o.node.published = s.published \cup {[parent |-> s.candidate.parent, consensus |-> c]}
        BY <3>4 DEF Finalize
      <4>2. Building(n) /\ s.candidate.parent = n.candidate.parent /\ c \in Consensus
        BY <1>4, <3>2, <4>1 DEF KeepsCandidate
      <4>. DEFINE b == [parent |-> s.candidate.parent, consensus |-> c]
      <4>3. b.parent = n.candidate.parent /\ b \in o.node.published
        BY <4>1, <4>2
      <4>4. GivesUpToPublish(o.node, n)
        BY <4>3 DEF GivesUpToPublish
      <4>. HIDE DEF b
      <4>. QED
        BY <3>2, <4>1, <4>2, <4>4 DEF KeepsCandidate, PublishesOnly, Building
    <3>. QED  BY <3>1, <3>3, <3>4
  <2>. QED  BY <2>1, <2>2, <2>3
<1>. QED  BY <1>3, <1>4

(* The end of on_block_commit leaves a good node behind, at whichever call *)
(* it stops, if nothing was published on the head k it starts on. Blocks   *)
(* are published on heads up to h before, and on heads up to g after.      *)
LEMMA RestartOK ==
  ASSUME NEW n, NEW h \in Nat, NEW g \in Nat, h =< g, NodeOK(n, h), ~Building(n),
         NEW k \in 1..MaxHead, k =< g, \A b \in n.published : b.parent # k,
         NEW e, NEW o \in Restart(n, k, e)
  PROVE  NodeOK(o.node, g)
<1>. DEFINE cleared == [n EXCEPT !.guards = {}]
            renewed == [cleared EXCEPT !.candidate = CandidateOn(k)]
<1>1. n \in Node
  BY DEF NodeOK
<1>2. /\ cleared \in Node /\ cleared.published = n.published
      /\ cleared.candidate = n.candidate /\ cleared.guards = {}
  BY <1>1 DEF Node
<1>3. /\ renewed \in Node /\ renewed.published = n.published
      /\ renewed.candidate = CandidateOn(k) /\ renewed.guards = {}
  BY <1>1, CandidateTypes DEF Node
<1>4. \/ o \in FailsIf("reload", n, FALSE)
      \/ o \in FailsIf("mine", cleared, FALSE)
      \/ o \in FailsIf("initialize", cleared, TRUE)
      \/ o = [node |-> renewed, result |-> "Restart", eager |-> e, mined |-> TRUE]
  BY DEF Restart
<1>. HIDE DEF cleared, renewed
<1>5. \A b \in n.published : b.parent \in Nat /\ b.parent =< g
  BY <1>1 DEF NodeOK, Node, Published
<1>6. NodeOK(n, g)
  BY <1>5 DEF NodeOK
<1>7. NodeOK(cleared, g)
  BY <1>2, <1>5 DEF NodeOK, HasGuard, Building
<1>8. NodeOK(renewed, g)
  BY <1>3, <1>5, CandidateTypes DEF NodeOK, HasGuard, Building
<1>9. o.node = n \/ o.node = cleared \/ o.node = renewed
  BY <1>4 DEF FailsIf, Fails
<1>. QED  BY <1>6, <1>7, <1>8, <1>9

(* Nothing is built or published on head k. *)
IsFresh(n, k) == /\ \A b \in n.published : b.parent # k
                 /\ Building(n) => n.candidate.parent # k

LEMMA OnBlockCommitOK ==
  ASSUME NEW n, NEW h \in Nat, NEW g \in Nat, h =< g, NodeOK(n, h),
         NEW k \in 1..MaxHead, k =< g, IsFresh(n, k),
         NEW c \in Consensus \cup {NoConsensus}, NEW o \in OnBlockCommit(n, c, k)
  PROVE  NodeOK(o.node, g)
<1>1. PICK m, e : /\ NodeOK(m, h) /\ o \in CancelThenRestart(m, k, e)
                  /\ \A b \in m.published : b.parent # k
  <2>1. n \in Node
    BY DEF NodeOK
  <2>2. ASSUME NEW a \in TryPublish(n, c)
        PROVE  NodeOK(a.node, h) /\ \A b \in a.node.published : b.parent # k
    <3>1. PublishesOnly(a.node, n, c)
      BY <2>1, AttemptEffect
    <3>. QED  BY <3>1, TryPublishOK DEF PublishesOnly, IsFresh
  <2>. QED  BY <2>2 DEF OnBlockCommit, IsFresh
<1>2. m \in Node
  BY <1>1 DEF NodeOK
<1>3. \A b \in m.published : b.parent \in Nat /\ b.parent =< g
  BY <1>1, <1>2 DEF NodeOK, Node, Published
<1>4. CASE HasGuard(m, "Finalized")
  BY <1>1, <1>4, RestartOK DEF CancelThenRestart, NodeOK
<1>5. CASE ~HasGuard(m, "Finalized") /\ Building(m)
  <2>. DEFINE u == [m EXCEPT !.candidate = NoCandidate]
  <2>1. /\ u \in Node /\ u.published = m.published /\ u.guards = m.guards
        /\ u.candidate = NoCandidate
    BY <1>2, CandidateTypes DEF Node
  <2>2. o \in FailsIf("cancel", m, FALSE) \/ o \in Restart(u, k, e)
    BY <1>1, <1>5 DEF CancelThenRestart
  <2>. HIDE DEF u
  <2>3. NodeOK(u, h) /\ ~Building(u)
    BY <1>1, <2>1 DEF NodeOK, Building, HasGuard
  <2>4. CASE o \in FailsIf("cancel", m, FALSE)
    <3>1. o.node = m
      BY <2>4 DEF FailsIf, Fails
    <3>2. m.candidate \in Candidate \ {NoCandidate}
      BY <1>2, <1>5 DEF Node, Building
    <3>3. m.candidate.parent \in 1..MaxHead
      BY <3>2, CandidateTypes
    <3>4. m.candidate.parent \in Nat /\ m.candidate.parent =< g
      BY <1>1, <1>5, <3>3, NodeAssumption DEF NodeOK
    <3>. QED  BY <1>1, <1>3, <3>1, <3>4 DEF NodeOK
  <2>5. CASE o \in Restart(u, k, e)
    BY <1>1, <2>1, <2>3, <2>5, RestartOK
  <2>. QED  BY <2>2, <2>4, <2>5
<1>6. CASE ~HasGuard(m, "Finalized") /\ ~Building(m)
  <2>1. o.node = m
    BY <1>1, <1>6 DEF CancelThenRestart, Fails
  <2>. QED  BY <1>1, <1>3, <1>6, <2>1 DEF NodeOK
<1>. QED  BY <1>4, <1>5, <1>6

(* A head later than all before is fresh. *)
LEMMA OnLaterCommitOK ==
  ASSUME NEW n, NEW h \in Nat, NEW k \in 1..MaxHead, h < k, NodeOK(n, h),
         NEW c \in Consensus \cup {NoConsensus}, NEW o \in OnBlockCommit(n, c, k)
  PROVE  NodeOK(o.node, k)
<1>1. n \in Node /\ k \in Nat /\ h =< k
  BY NodeAssumption DEF NodeOK
<1>2. \A b \in n.published : b.parent \in Nat
  BY <1>1 DEF Node, Published
<1>3. ASSUME Building(n)  PROVE n.candidate.parent \in Nat
  <2>1. n.candidate \in Candidate \ {NoCandidate}
    BY <1>1, <1>3 DEF Node, Building
  <2>2. n.candidate.parent \in 1..MaxHead
    BY <2>1, CandidateTypes
  <2>. QED  BY <2>2, NodeAssumption
<1>4. IsFresh(n, k)
  BY <1>2, <1>3 DEF NodeOK, IsFresh
<1>. QED  BY <1>1, <1>4, OnBlockCommitOK

-----------------------------------------------------------------------------
(* What a failed call of the handler leaves behind.                        *)
LEMMA RecordOfFailure ==
  ASSUME NEW m, NEW mined, NEW o \in Fails(m, mined)
  PROVE  o.node = m /\ o.result = "Error" /\ o.mined = mined
BY DEF Fails

(* The handler of BlockCommit: a block on the new head only once its       *)
(* challenge was posted, otherwise the block it started with.              *)
LEMMA CommitEffect ==
  ASSUME NEW n, NEW h \in Nat, NodeOK(n, h), NEW k \in 1..MaxHead,
         NEW c \in Consensus \cup {NoConsensus}, NEW o \in OnBlockCommit(n, c, k)
  PROVE  /\ PublishesOnly(o.node, n, c)
         /\ o.mined \in BOOLEAN
         /\ o.mined /\ Building(o.node) => o.node.candidate.parent = k
         /\ ~o.mined => KeepsCandidate(o.node, n)
         /\ o.result # "Error" => o.mined /\ Building(o.node)
<1>1. PICK m, e : /\ NodeOK(m, h) /\ o \in CancelThenRestart(m, k, e)
                  /\ KeepsCandidate(m, n) /\ PublishesOnly(m, n, c)
  <2>1. n \in Node
    BY DEF NodeOK
  <2>2. KeepsCandidate(n, n) /\ PublishesOnly(n, n, c)
    BY DEF KeepsCandidate, PublishesOnly
  <2>. QED  BY <2>1, <2>2, AttemptEffect, TryPublishOK DEF OnBlockCommit
<1>2. m \in Node
  BY <1>1 DEF NodeOK
<1>3. ASSUME NEW u \in Node, ~Building(u), u.published = m.published, o \in Restart(u, k, e)
      PROVE  /\ o.node.published = m.published
             /\ o.mined \in BOOLEAN
             /\ o.mined /\ Building(o.node) => o.node.candidate.parent = k
             /\ ~o.mined => ~Building(o.node)
             /\ o.result # "Error" => o.mined /\ Building(o.node)
  <2>. DEFINE cleared == [u EXCEPT !.guards = {}]
              renewed == [cleared EXCEPT !.candidate = CandidateOn(k)]
  <2>1. /\ cleared.published = u.published /\ cleared.candidate = u.candidate
        /\ renewed.published = u.published /\ renewed.candidate = CandidateOn(k)
    BY DEF Node
  <2>2. \/ o \in FailsIf("reload", u, FALSE)
        \/ o \in FailsIf("mine", cleared, FALSE)
        \/ o \in FailsIf("initialize", cleared, TRUE)
        \/ o = [node |-> renewed, result |-> "Restart", eager |-> e, mined |-> TRUE]
    BY <1>3 DEF Restart
  <2>. HIDE DEF cleared, renewed
  <2>3. \/ (o.node = u \/ o.node = cleared) /\ o.mined \in BOOLEAN /\ o.result = "Error"
        \/ o.node = renewed /\ o.mined = TRUE /\ o.result = "Restart"
    <3>1. CASE o \in FailsIf("reload", u, FALSE)
      <4>1. o \in Fails(u, FALSE)
        BY <3>1 DEF FailsIf
      <4>2. o.node = u /\ o.result = "Error" /\ o.mined = FALSE
        BY <4>1, RecordOfFailure, Zenon
      <4>. QED  BY <4>2
    <3>2. CASE o \in FailsIf("mine", cleared, FALSE)
      <4>1. o \in Fails(cleared, FALSE)
        BY <3>2 DEF FailsIf
      <4>2. o.node = cleared /\ o.result = "Error" /\ o.mined = FALSE
        BY <4>1, RecordOfFailure, Zenon
      <4>. QED  BY <4>2
    <3>3. CASE o \in FailsIf("initialize", cleared, TRUE)
      <4>1. o \in Fails(cleared, TRUE)
        BY <3>3 DEF FailsIf
      <4>2. o.node = cleared /\ o.result = "Error" /\ o.mined = TRUE
        BY <4>1, RecordOfFailure, Zenon
      <4>. QED  BY <4>2
    <3>4. CASE o = [node |-> renewed, result |-> "Restart", eager |-> e, mined |-> TRUE]
      BY <3>4
    <3>. QED  BY <2>2, <3>1, <3>2, <3>3, <3>4
  <2>4. ~Building(u) /\ ~Building(cleared)
    BY <1>3, <2>1 DEF Building
  <2>5. renewed.candidate.parent = k /\ Building(renewed)
    BY <2>1, CandidateTypes DEF Building
  <2>6. CASE (o.node = u \/ o.node = cleared) /\ o.mined \in BOOLEAN /\ o.result = "Error"
    BY <1>3, <2>1, <2>4, <2>6
  <2>7. CASE o.node = renewed /\ o.mined = TRUE
    BY <1>3, <2>1, <2>5, <2>7
  <2>. QED  BY <2>3, <2>6, <2>7
<1>4. CASE HasGuard(m, "Finalized")
  <2>1. ~Building(m) /\ o \in Restart(m, k, e)
    BY <1>1, <1>4 DEF NodeOK, CancelThenRestart
  <2>2. /\ o.node.published = m.published
        /\ o.mined \in BOOLEAN
        /\ o.mined /\ Building(o.node) => o.node.candidate.parent = k
        /\ ~o.mined => ~Building(o.node)
        /\ o.result # "Error" => o.mined /\ Building(o.node)
    BY <1>2, <1>3, <2>1
  <2>. QED  BY <1>1, <2>2 DEF PublishesOnly, KeepsCandidate
<1>5. CASE ~HasGuard(m, "Finalized") /\ Building(m)
  <2>. DEFINE u == [m EXCEPT !.candidate = NoCandidate]
  <2>1. u \in Node /\ u.published = m.published /\ ~Building(u)
    BY <1>2, CandidateTypes DEF Node, Building
  <2>2. o \in FailsIf("cancel", m, FALSE) \/ o \in Restart(u, k, e)
    BY <1>1, <1>5 DEF CancelThenRestart
  <2>. HIDE DEF u
  <2>3. CASE o \in FailsIf("cancel", m, FALSE)
    <3>1. o.node = m /\ o.result = "Error" /\ o.mined = FALSE
      <4>1. o \in Fails(m, FALSE)
        BY <2>3 DEF FailsIf
      <4>. QED  BY <4>1, RecordOfFailure, Zenon
    <3>. QED  BY <1>1, <3>1
  <2>4. CASE o \in Restart(u, k, e)
    <3>1. /\ o.node.published = m.published
          /\ o.mined \in BOOLEAN
          /\ o.mined /\ Building(o.node) => o.node.candidate.parent = k
          /\ ~o.mined => ~Building(o.node)
          /\ o.result # "Error" => o.mined /\ Building(o.node)
      BY <1>3, <2>1, <2>4
    <3>. QED  BY <1>1, <3>1 DEF PublishesOnly, KeepsCandidate
  <2>. QED  BY <2>2, <2>3, <2>4
<1>6. CASE ~HasGuard(m, "Finalized") /\ ~Building(m)
  <2>1. o.node = m /\ o.result = "Error" /\ o.mined = FALSE
    <3>1. o \in Fails(m, FALSE)
      BY <1>1, <1>6 DEF CancelThenRestart
    <3>. QED  BY <3>1, RecordOfFailure, Zenon
  <2>. QED  BY <1>1, <2>1
<1>. QED  BY <1>4, <1>5, <1>6

-----------------------------------------------------------------------------
(* With a service that never fails: GuardsTrackCandidate, of any node and  *)
(* head.                                                                   *)
Tracks(n, h) ==
  /\ n \in Node
  /\ HasGuard(n, "Finalized") <=> ~Building(n)
  /\ Building(n) => n.candidate.parent = h
  /\ HasGuard(n, "Summarized") <=> n.candidate.summarized

(* No attempt to publish is out of order then.                             *)
LEMMA TryPublishTracks ==
  ASSUME Failing = {}, NEW n, NEW h, Tracks(n, h),
         NEW c \in Consensus \cup {NoConsensus}, NEW o \in TryPublish(n, c)
  PROVE  Tracks(o.node, h) /\ o.result # "Error"
<1>. DEFINE m == [n EXCEPT !.guards = @ \cup {"Consensus"}]
<1>1. n \in Node
  BY DEF Tracks
<1>2. CASE ~Drains(n) \/ c = NoConsensus
  BY <1>2 DEF TryPublish
<1>3. CASE ~(~Drains(n) \/ c = NoConsensus)
  <2>1. \/ o \in SummarizeRefused(m)
        \/ \E s \in Summarize(m) : o \in Refused(s, "finalize") \/ o \in Finalize(s, c)
    BY <1>3 DEF TryPublish
  <2>2. /\ m.candidate = n.candidate /\ m.published = n.published /\ m \in Node
        /\ m.guards = n.guards \cup {"Consensus"}
    BY <1>1 DEF Node, Guard
  <2>. HIDE DEF m
  <2>3. Building(m) /\ Tracks(m, h) /\ c \in Consensus
    BY <1>3, <2>2 DEF Tracks, Drains, HasGuard, Building
  <2>4. CASE o \in SummarizeRefused(m)
    BY <2>3, <2>4 DEF SummarizeRefused, Refused, Refusals
  <2>5. ASSUME NEW s \in Summarize(m)
        PROVE  Building(s) /\ Tracks(s, h) /\ HasGuard(s, "Summarized")
    <3>1. CASE HasGuard(m, "Summarized")
      BY <2>3, <3>1 DEF Summarize
    <3>2. CASE ~HasGuard(m, "Summarized")
      <4>. DEFINE d == [m.candidate EXCEPT !.summarized = TRUE]
      <4>1. s = [m EXCEPT !.guards = @ \cup {"Summarized"}, !.candidate.summarized = TRUE]
        BY <2>3, <3>2 DEF Summarize
      <4>2. m.candidate \in Candidate \ {NoCandidate} /\ m.candidate \in [parent : 1..MaxHead, summarized : BOOLEAN]
        BY <2>2, <2>3 DEF Node, Building, Candidate
      <4>3. d \in Candidate /\ d # NoCandidate /\ d.parent = m.candidate.parent /\ d.summarized = TRUE
        BY <4>2, CandidateTypes
      <4>4. /\ s.candidate = d /\ s.published = m.published
            /\ s.guards = m.guards \cup {"Summarized"}
        BY <2>2, <4>1 DEF Node
      <4>. HIDE DEF d
      <4>5. s \in Node
        BY <2>2, <4>1, <4>3, <4>4 DEF Node, Guard
      <4>. QED  BY <2>3, <4>3, <4>4, <4>5 DEF Tracks, HasGuard, Building
    <3>. QED  BY <3>1, <3>2
  <2>6. CASE \E s \in Summarize(m) : o \in Refused(s, "finalize") \/ o \in Finalize(s, c)
    <3>1. PICK s \in Summarize(m) : o \in Refused(s, "finalize") \/ o \in Finalize(s, c)
      BY <2>6
    <3>2. CASE o \in Refused(s, "finalize")
      BY <2>5, <3>2 DEF Refused, Refusals
    <3>3. CASE o \in Finalize(s, c)
      <4>. DEFINE b == [parent |-> s.candidate.parent, consensus |-> c]
      <4>1. s \in Node /\ s.candidate \in Candidate \ {NoCandidate}
        BY <2>5 DEF Tracks, Node, Building
      <4>2. b \in Published
        BY <2>3, <4>1, CandidateTypes DEF Published
      <4>3. /\ o.node = [guards |-> (s.guards \cup {"Finalized"}) \ {"Consensus", "Summarized"},
                         candidate |-> NoCandidate,
                         published |-> s.published \cup {b}]
            /\ o.result = "Published"
        BY <2>5, <3>3 DEF Finalize
      <4>. HIDE DEF b
      <4>4. o.node \in Node
        BY <4>1, <4>2, <4>3, CandidateTypes DEF Node, Guard
      <4>. QED  BY <4>3, <4>4 DEF Tracks, HasGuard, Building, NoCandidate
    <3>. QED  BY <3>1, <3>2, <3>3
  <2>. QED  BY <2>1, <2>4, <2>6
<1>. QED  BY <1>2, <1>3

(* An attempt has an outcome.                                              *)
LEMMA TryPublishEnds ==
  ASSUME NEW n, NEW h, Tracks(n, h), NEW c
  PROVE  TryPublish(n, c) # {}
<1>1. CASE ~Drains(n) \/ c = NoConsensus
  BY <1>1 DEF TryPublish
<1>2. CASE ~(~Drains(n) \/ c = NoConsensus)
  <2>. DEFINE m == [n EXCEPT !.guards = @ \cup {"Consensus"}]
  <2>1. m.candidate = n.candidate /\ m \in Node
    BY DEF Tracks, Node, Guard
  <2>2. TryPublish(n, c) =
          SummarizeRefused(m)
            \cup UNION {Refused(s, "finalize") \cup Finalize(s, c) : s \in Summarize(m)}
    BY <1>2 DEF TryPublish
  <2>. HIDE DEF m
  <2>3. Building(m)
    BY <1>2, <2>1 DEF Tracks, Drains, Building
  <2>4. PICK s \in Summarize(m) : Building(s)
    <3>1. CASE HasGuard(m, "Summarized")
      BY <2>3, <3>1 DEF Summarize
    <3>2. CASE ~HasGuard(m, "Summarized")
      <4>. DEFINE s == [m EXCEPT !.guards = @ \cup {"Summarized"},
                                 !.candidate.summarized = TRUE]
      <4>1. m.candidate \in Candidate \ {NoCandidate}
        BY <2>1, <2>3 DEF Node, Building
      <4>2. s.candidate = [m.candidate EXCEPT !.summarized = TRUE]
        BY <2>1 DEF Node
      <4>3. s.candidate # NoCandidate
        BY <4>1, <4>2, CandidateTypes
      <4>4. s \in Summarize(m)
        BY <2>3, <3>2 DEF Summarize
      <4>. QED  BY <4>3, <4>4 DEF Building
    <3>. QED  BY <3>1, <3>2
  <2>5. Finalize(s, c) # {}
    BY <2>4 DEF Finalize
  <2>. QED  BY <2>2, <2>4, <2>5
<1>. QED  BY <1>1, <1>2

(* And the handler of BlockCommit always starts a block on the new head.   *)
LEMMA OnBlockCommitTracks ==
  ASSUME Failing = {}, NEW n, NEW h, Tracks(n, h), NEW k \in 1..MaxHead,
         NEW c \in Consensus \cup {NoConsensus}
  PROVE  /\ \A o \in OnBlockCommit(n, c, k) : Tracks(o.node, k) /\ o.result = "Restart"
         /\ OnBlockCommit(n, c, k) # {}
<1>1. ASSUME NEW u \in Node, NEW e
      PROVE  /\ Restart(u, k, e) # {}
             /\ \A o \in Restart(u, k, e) : Tracks(o.node, k) /\ o.result = "Restart"
  <2>. DEFINE cleared == [u EXCEPT !.guards = {}]
              renewed == [cleared EXCEPT !.candidate = CandidateOn(k)]
  <2>1. renewed \in Node /\ renewed.guards = {} /\ renewed.candidate = CandidateOn(k)
    BY CandidateTypes DEF Node
  <2>2. Restart(u, k, e) = {[node |-> renewed, result |-> "Restart", eager |-> e, mined |-> TRUE]}
    BY DEF Restart, FailsIf
  <2>. HIDE DEF renewed
  <2>3. Tracks(renewed, k)
    BY <2>1, CandidateTypes DEF Tracks, HasGuard, Building, CandidateOn
  <2>. QED  BY <2>2, <2>3
<1>2. ASSUME NEW m, Tracks(m, h), NEW e
      PROVE  /\ CancelThenRestart(m, k, e) # {}
             /\ \A o \in CancelThenRestart(m, k, e) : Tracks(o.node, k) /\ o.result = "Restart"
  <2>1. m \in Node /\ [m EXCEPT !.candidate = NoCandidate] \in Node
    BY <1>2, CandidateTypes DEF Tracks, Node
  <2>2. CASE HasGuard(m, "Finalized")
    BY <1>1, <2>1, <2>2 DEF CancelThenRestart
  <2>3. CASE ~HasGuard(m, "Finalized")
    <3>1. CancelThenRestart(m, k, e) = Restart([m EXCEPT !.candidate = NoCandidate], k, e)
      BY <1>2, <2>3 DEF CancelThenRestart, Tracks, FailsIf
    <3>. QED  BY <1>1, <2>1, <3>1
  <2>. QED  BY <2>2, <2>3
<1>3. CASE HasGuard(n, "Finalized")
  <2>. DEFINE a == [node |-> n, result |-> "Pending"]
  <2>1. OnBlockCommit(n, c, k) =
          UNION {CancelThenRestart(b.node, k, b.result = "Published") : b \in {a}}
    BY <1>3 DEF OnBlockCommit
  <2>2. a.node = n
    OBVIOUS
  <2>. HIDE DEF a
  <2>. QED  BY <1>2, <2>1, <2>2
<1>4. CASE ~HasGuard(n, "Finalized")
  <2>1. OnBlockCommit(n, c, k) =
          UNION {CancelThenRestart(a.node, k, a.result = "Published") : a \in TryPublish(n, c)}
    BY <1>4 DEF OnBlockCommit
  <2>2. ASSUME NEW a \in TryPublish(n, c)  PROVE Tracks(a.node, h)
    BY TryPublishTracks
  <2>3. TryPublish(n, c) # {}
    BY <1>4, TryPublishEnds
  <2>. QED  BY <1>2, <2>1, <2>2, <2>3
<1>. QED  BY <1>3, <1>4

-----------------------------------------------------------------------------
LEMMA NodeInvInit == Init => NodeInv
<1>. SUFFICES ASSUME Init PROVE NodeInv
  OBVIOUS
<1>1. 1 \in 1..MaxHead
  BY NodeAssumption
<1>2. node \in Node /\ node.guards = {} /\ node.published = {} /\ node.candidate = CandidateOn(1)
  BY <1>1, CandidateTypes DEF Init, Initialized, Node
<1>. QED
  BY <1>1, <1>2, CandidateTypes DEF NodeInv, NodeTypeOK, NodeOK, Init, HasGuard, Building

LEMMA NodeInvStep == NodeInv /\ [Next]_nodeVars => NodeInv'
<1>. SUFFICES ASSUME NodeInv, [Next]_nodeVars PROVE NodeInv'
  OBVIOUS
<1>. USE DEF NodeInv, NodeTypeOK
<1>1. head \in Nat /\ NodeOK(node, head)
  BY NodeAssumption
<1>2. CASE Publish
  <2>1. PICK c \in Consensus \cup {NoConsensus} :
          \E o \in TryPublish(node, c) : node' = o.node
    BY <1>2 DEF Publish
  <2>2. NodeOK(node', head)
    BY <1>1, <2>1, TryPublishOK
  <2>3. head' = head /\ running' \in BOOLEAN
    BY <1>2 DEF Publish
  <2>. QED  BY <2>2, <2>3 DEF NodeOK
<1>3. CASE Commit
  <2>1. head' = head + 1 /\ head + 1 \in 1..MaxHead /\ UNCHANGED running
    BY <1>3, NodeAssumption DEF Commit
  <2>2. PICK c \in Consensus \cup {NoConsensus} :
          \E o \in OnBlockCommit(node, c, head + 1) : node' = o.node
    BY <1>3 DEF Commit
  <2>3. NodeOK(node', head + 1)
    BY <1>1, <2>1, <2>2, OnLaterCommitOK
  <2>. QED  BY <2>1, <2>3 DEF NodeOK
<1>4. CASE UNCHANGED nodeVars
  BY <1>4 DEF nodeVars
<1>5. CASE Stop
  BY <1>5 DEF Stop
<1>. QED  BY <1>2, <1>3, <1>4, <1>5 DEF Next, Stopped

LEMMA NodeInvHolds == Spec => []NodeInv
BY NodeInvInit, NodeInvStep, PTL DEF Spec

(* The guards, the block being built and the published blocks keep their   *)
(* types, whatever the service answers.                                    *)
THEOREM NodeTypeCorrect == Spec => []NodeTypeOK
<1>1. NodeInv => NodeTypeOK
  BY DEF NodeInv
<1>. QED  BY <1>1, NodeInvHolds, PTL

(* A node never publishes twice on one chain head (node.rs:343 to 348).    *)
THEOREM PublishesOncePerHead == Spec => []OneBlockPerHead
<1>1. NodeInv => OneBlockPerHead
  BY DEF NodeInv, NodeOK, OneBlockPerHead
<1>. QED  BY <1>1, NodeInvHolds, PTL

(* While the Finalized guard is set there is no block to cancel            *)
(* (node.rs:190 to 193), whichever calls have failed before.               *)
THEOREM FinalizedGuardNeverLies == Spec => []FinalizedMeansNoCandidate
<1>1. NodeInv => FinalizedMeansNoCandidate
  BY DEF NodeInv, NodeOK, FinalizedMeansNoCandidate
<1>. QED  BY <1>1, NodeInvHolds, PTL
=============================================================================
