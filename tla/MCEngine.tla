------------------------------ MODULE MCEngine ------------------------------
(* Engine on a small instance for TLC. *)
EXTENDS Engine

TwoWorks == {1, 4}
OneWork == {1}
NoCalls == {}
MayNotBeReady == {"summarize", "finalize"}
AllCalls == {"summarize", "finalize", "cancel", "reload", "mine", "initialize", "commit"}
=============================================================================
