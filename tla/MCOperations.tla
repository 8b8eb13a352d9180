---------------------------- MODULE MCOperations ----------------------------
(* Values of the constants of Operations for TLC. *)
EXTENDS Operations

TwoNames == {"cache_clear", "confluence_rebuild"}
=============================================================================
