---------------------------- MODULE MCKeyHandler ----------------------------
(* CapsLock, two more keys and a table of two: the table fills up and keys   *)
(* wait behind others.                                                       *)
EXTENDS KeyHandler
=============================================================================
