-------------------------- MODULE MinerRefinement ---------------------------
(***************************************************************************)
(* The miner implements AnswerBox: what a drain would return is the box.   *)
(***************************************************************************)
EXTENDS Miner

Box == INSTANCE AnswerBoxProofs WITH challenge <- worker.challenge,
                                     level <- worker.level,
                                     box <- Drained,
                                     handed <- yielded

(* The thread, the two channels and the drain together behave as one box   *)
(* that holds the best answer to one challenge (worker.rs:76 to 127,       *)
(* miner.rs:26 to 40).                                                     *)
ImplementsAnswerBox == Box!Spec

(* The inductive invariant: the channel's, and the box's under the mapping. *)
MinerInv == ChannelInv /\ Box!BoxInv
=============================================================================
