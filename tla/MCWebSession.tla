---------------------------- MODULE MCWebSession ----------------------------
(* Requests are interchangeable.                                           *)
EXTENDS WebSession, TLC

Symmetry == Permutations(Request)
=============================================================================
