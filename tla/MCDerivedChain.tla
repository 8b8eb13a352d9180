--------------------------- MODULE MCDerivedChain ---------------------------
(* DerivedChain for TLC: the constants are given values in the cfg.         *)
EXTENDS DerivedChain
=============================================================================
