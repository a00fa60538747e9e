---------------------------- MODULE MCForkChoice ----------------------------
(* ForkChoice on small trees for TLC. *)
EXTENDS ForkChoice

TwoWorks == {1, 4}
=============================================================================
