---------------------------- MODULE MCAppleEvent ----------------------------
(* Handlers and event queue for TLC.                                         *)
EXTENDS AppleEvent, TLC

Symmetry == Permutations(Handles)
=============================================================================
