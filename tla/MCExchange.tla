---------------------------- MODULE MCExchange ----------------------------
(***************************************************************************)
(* Exchange for TLC.  Requests are interchangeable.                        *)
(***************************************************************************)
EXTENDS Exchange, TLC

RequestSymmetry == Permutations(Request)
=============================================================================
