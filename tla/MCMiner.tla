------------------------------ MODULE MCMiner -------------------------------
(* Miner on a small instance for TLC. *)
EXTENDS MinerRefinement

MCDifficulties == {0, 2}
=============================================================================
