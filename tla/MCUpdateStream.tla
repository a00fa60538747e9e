--------------------------- MODULE MCUpdateStream ---------------------------
(* UpdateStream on a small instance for TLC. *)
EXTENDS UpdateStream

MayNotBeReady == {"summarize", "finalize"}
NoCalls == {}
OneDifficulty == {2}
=============================================================================
