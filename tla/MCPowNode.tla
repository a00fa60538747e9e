----------------------------- MODULE MCPowNode ------------------------------
(* PowNode on a small instance for TLC. *)
EXTENDS PowNode

AllCalls == {"summarize", "finalize", "cancel", "reload", "mine", "initialize"}
MayNotBeReady == {"summarize", "finalize"}
NoCalls == {}
OnlyInitialize == {"initialize"}
=============================================================================
