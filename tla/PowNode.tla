------------------------------ MODULE PowNode -------------------------------
(***************************************************************************)
(* The publishing half of the node (node/node.rs, guard.rs, state.rs): the *)
(* guards, the block the validator is building for the node, try_publish   *)
(* and the handler of BlockCommit. The handler of BlockInvalid does        *)
(* nothing, and those of BlockNew and BlockValid touch nothing here.       *)
(*                                                                         *)
(* The handlers run to completion on the engine's thread, so each is one   *)
(* step. What they ask of the validator's service can be answered in more  *)
(* than one way; a handler is therefore written as the set of outcomes it  *)
(* can have, [node, result, ...], from the node it starts with.            *)
(*                                                                         *)
(* The service is external. A block can be cancelled, summarized and       *)
(* finalized only while one is being built, and initialized only while     *)
(* none is: the order the node keeps with its guards.                      *)
(***************************************************************************)
EXTENDS Integers

CONSTANTS Consensus,     \* the answers the miner may deliver
          NoConsensus,   \* the miner has none
          MaxHead,       \* bound: how many chain heads are ever committed
          NotReady,      \* calls that may be answered with Error::BlockNotReady
          Failing        \* calls that may fail with another error

ASSUME NodeAssumption ==
  /\ NoConsensus \notin Consensus
  /\ MaxHead \in Nat \ {0}
  /\ NotReady \subseteq {"summarize", "finalize"}
  /\ Failing \subseteq {"summarize", "finalize", "cancel", "reload", "mine", "initialize", "commit"}

VARIABLES node,       \* guards, the validator's candidate block, published blocks
          head,       \* the last chain head the node was told of
          running     \* FALSE once the event loop has ended

nodeVars == <<node, head, running>>
-----------------------------------------------------------------------------
(* The block being built: the head it extends, 0 for no block. *)
NoCandidate == [parent |-> 0, summarized |-> FALSE]
Candidate == {NoCandidate} \cup [parent : 1..MaxHead, summarized : BOOLEAN]
CandidateOn(h) == [parent |-> h, summarized |-> FALSE]

Published == [parent : 1..MaxHead, consensus : Consensus]

(* enum Guard *)
Guard == {"Consensus", "Summarized", "Finalized"}

Node == [guards : SUBSET Guard, candidate : Candidate, published : SUBSET Published]

NodeTypeOK == /\ node \in Node
              /\ head \in 1..MaxHead
              /\ running \in BOOLEAN

Building(n) == n.candidate # NoCandidate
HasGuard(n, g) == g \in n.guards
-----------------------------------------------------------------------------
(* How a call on the block being built can be refused, for try_publish.    *)
Refusals(n, call) ==
  (IF call \in NotReady /\ Building(n) THEN {"Pending"} ELSE {})
    \cup (IF call \in Failing \/ ~Building(n) THEN {"Error"} ELSE {})

Refused(n, call) == {[node |-> n, result |-> r] : r \in Refusals(n, call)}

(* summarize_block, skipped when the guard says it was done. *)
Summarize(n) ==
  IF HasGuard(n, "Summarized") THEN {n}
  ELSE IF Building(n) THEN {[n EXCEPT !.guards = @ \cup {"Summarized"},
                                      !.candidate.summarized = TRUE]}
  ELSE {}

SummarizeRefused(n) ==
  IF HasGuard(n, "Summarized") THEN {} ELSE Refused(n, "summarize")

(* Slip: the Summarized guard outlives the block it was about. *)
FinalizeKeepingSummarized(n, consensus) ==
  IF Building(n)
  THEN {[node |-> [guards |-> (n.guards \cup {"Finalized"}) \ {"Consensus"},
                   candidate |-> NoCandidate,
                   published |-> n.published \cup
                      {[parent |-> n.candidate.parent, consensus |-> consensus]}],
         result |-> "Published"]}
  ELSE {}

(* finalize_block turns the block being built into a published one. *)
Finalize(n, consensus) ==
  IF Building(n)
  THEN {[node |-> [guards |-> (n.guards \cup {"Finalized"}) \ {"Consensus", "Summarized"},
                   candidate |-> NoCandidate,
                   published |-> n.published \cup
                      {[parent |-> n.candidate.parent, consensus |-> consensus]}],
         result |-> "Published"]}
  ELSE {}

(* Slip: no early exit at a height already published. *)
DrainsAlways(n) == TRUE

(* Does try_publish get as far as draining the miner? *)
Drains(n) == ~HasGuard(n, "Finalized")

(* Slip: a block is published although the miner has no answer. *)
TryPublishWithoutAnswer(n, consensus) ==
  IF ~Drains(n)
  THEN {[node |-> n, result |-> "Pending"]}
  ELSE LET m == [n EXCEPT !.guards = @ \cup {"Consensus"}]
       IN  SummarizeRefused(m)
             \cup UNION {Refused(s, "finalize") \cup Finalize(s, consensus) : s \in Summarize(m)}

TryPublish(n, consensus) ==
  IF ~Drains(n) \/ consensus = NoConsensus
  THEN {[node |-> n, result |-> "Pending"]}
  ELSE LET m == [n EXCEPT !.guards = @ \cup {"Consensus"}]
       IN  SummarizeRefused(m)
             \cup UNION {Refused(s, "finalize") \cup Finalize(s, consensus) : s \in Summarize(m)}
-----------------------------------------------------------------------------
(* on_block_commit after its eager attempt to publish. *)

Fails(m, mined) == {[node |-> m, result |-> "Error", eager |-> FALSE, mined |-> mined]}
FailsIf(call, m, mined) == IF call \in Failing THEN Fails(m, mined) ELSE {}

(* Slip: the block is initialized on the head before. *)
RestartOnStaleHead(n, h, eager) ==
  {[node |-> [n EXCEPT !.guards = {}, !.candidate = CandidateOn(h - 1)],
    result |-> "Restart", eager |-> eager, mined |-> TRUE]}

(* Slip: the guards of the head before stay. *)
RestartKeepingGuards(n, h, eager) ==
  {[node |-> [n EXCEPT !.candidate = CandidateOn(h)],
    result |-> "Restart", eager |-> eager, mined |-> TRUE]}

(* Slip: the block is initialized before the challenge is posted. *)
RestartBeforeMining(n, h, eager) ==
  LET renewed == [n EXCEPT !.guards = {}, !.candidate = CandidateOn(h)]
  IN  FailsIf("mine", renewed, FALSE)
        \cup {[node |-> renewed, result |-> "Restart", eager |-> eager, mined |-> TRUE]}

(* Configuration reloaded, guards cleared, challenge posted, block         *)
(* initialized: any of these calls may fail, with what came before done.   *)
Restart(n, h, eager) ==
  LET cleared == [n EXCEPT !.guards = {}]
  IN  FailsIf("reload", n, FALSE)
        \cup FailsIf("mine", cleared, FALSE)
        \cup FailsIf("initialize", cleared, TRUE)
        \cup {[node |-> [cleared EXCEPT !.candidate = CandidateOn(h)],
               result |-> "Restart", eager |-> eager, mined |-> TRUE]}

(* Slip: cancel_block even if there is nothing to cancel. *)
CancelAlways(n, h, eager) ==
  IF Building(n) THEN Restart([n EXCEPT !.candidate = NoCandidate], h, eager)
  ELSE Fails(n, FALSE)

(* cancel_block unless the block was just published, or had been before. *)
CancelThenRestart(n, h, eager) ==
  IF HasGuard(n, "Finalized") THEN Restart(n, h, eager)
  ELSE IF Building(n)
       THEN FailsIf("cancel", n, FALSE)
              \cup Restart([n EXCEPT !.candidate = NoCandidate], h, eager)
  ELSE Fails(n, FALSE)

(* An error of the eager attempt is dropped: only its effect remains. *)
OnBlockCommit(n, consensus, h) ==
  LET attempts == IF HasGuard(n, "Finalized") THEN {[node |-> n, result |-> "Pending"]}
                  ELSE TryPublish(n, consensus)
  IN  UNION {CancelThenRestart(a.node, h, a.result = "Published") : a \in attempts}

-----------------------------------------------------------------------------
(* The node on its own: the miner may deliver any answer, or none, at any  *)
(* attempt, and the validator commits one head after the other.            *)

(* State after PowNode::initialize: configuration loaded, challenge posted *)
(* for the startup head, a block initialized on it.                        *)
Initialized == [guards |-> {}, candidate |-> CandidateOn(1), published |-> {}]

Init == /\ node = Initialized
        /\ head = 1
        /\ running = TRUE

Publish ==
  /\ running
  /\ \E c \in Consensus \cup {NoConsensus} : \E o \in TryPublish(node, c) :
       /\ node' = o.node
       /\ running' = (o.result # "Error")
  /\ UNCHANGED head

Commit ==
  /\ running
  /\ head < MaxHead
  /\ head' = head + 1
  /\ \E c \in Consensus \cup {NoConsensus} : \E o \in OnBlockCommit(node, c, head + 1) :
       node' = o.node
  /\ UNCHANGED running

(* The validator's last update ends the event loop. *)
Stop == /\ running
        /\ running' = FALSE
        /\ UNCHANGED <<node, head>>

(* The loop has ended, for that or for a publishing error. *)
Stopped == ~running /\ UNCHANGED nodeVars

Next == Publish \/ Commit \/ Stop \/ Stopped

Spec == Init /\ [][Next]_nodeVars
-----------------------------------------------------------------------------
(* At most one block is published at a height, however often try_publish   *)
(* is retried and whichever calls are refused or fail (node.rs:343 to 348, *)
(* "If we already published at this height, exit early").                  *)
OneBlockPerHead ==
  \A a, b \in node.published : a.parent = b.parent => a = b

(* The Finalized guard never lies: while it is set no block is being       *)
(* built, so on_block_commit may skip cancel_block and initialize the next *)
(* block (node.rs:190 to 210), after any failure of any call.              *)
FinalizedMeansNoCandidate == HasGuard(node, "Finalized") => ~Building(node)

(* With a service that may be not ready but never fails, the guards say    *)
(* exactly what the validator is doing: a block is being built unless one  *)
(* was finalized, it extends the chain head, and it is summarized exactly  *)
(* when the guard says so.                                                 *)
GuardsTrackCandidate ==
  /\ HasGuard(node, "Finalized") <=> ~Building(node)
  /\ Building(node) => node.candidate.parent = head
  /\ HasGuard(node, "Summarized") <=> node.candidate.summarized

(* The next BlockCommit can start a block on the new head, if the service  *)
(* does not fail at that moment (node.rs:209, "Initialize a new block      *)
(* based on the updated chain head"): no earlier step wedged the node.     *)
CommitCanRestart ==
  running => \E o \in OnBlockCommit(node, NoConsensus, head) : o.result = "Restart"
-----------------------------------------------------------------------------
(* Strengthening of the invariants, for the proofs: of a node n that was   *)
(* last told of head h.                                                    *)
NodeOK(n, h) ==
  /\ n \in Node
  /\ HasGuard(n, "Finalized") => ~Building(n)
  /\ \A a, b \in n.published : a.parent = b.parent => a = b
  /\ \A b \in n.published : b.parent =< h
  /\ Building(n) => /\ n.candidate.parent =< h
                    /\ \A b \in n.published : b.parent # n.candidate.parent

NodeInv == NodeTypeOK /\ NodeOK(node, head)
=============================================================================
