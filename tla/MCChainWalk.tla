----------------------------- MODULE MCChainWalk -----------------------------
(* The instance of ChainWalk for TLC. *)
EXTENDS ChainWalk

OneSeed == <<1>>
=============================================================================
