-------------------------- MODULE MCPointerHandler --------------------------
(* Limits of two polls at the shortest period.  The configurations split what  *)
(* varies: one pointer that moves; two with each kind of dwell clicking;        *)
(* pointers that come and go, with and without memory; one of a higher          *)
(* resolution that comes; one that goes while its button is held.              *)
EXTENDS PointerHandler

CONSTANTS p1, p2

MCResolution == [h \in Handles |-> IF h = p1 THEN 1 ELSE 2]

MCPollMask == Nat
MCMoves == {-1, 0, 1}
MCPositions == {-1, 0, 1, 2}

Config(at, max, click, double, hotplug, motion, left, memory) ==
    [PollMin |-> 10, PollMax |-> max, click |-> click * 10000, double |-> double * 10000,
     radiusSqr |-> 0, present |-> at, hotplug |-> hotplug, motion |-> motion, left |-> left,
     memory |-> memory]

MCSetups ==
    {Config({p2}, 10, 0, 0, {}, TRUE, BOOLEAN, FALSE),
     Config({p1, p2}, 20, 20, 0, {}, FALSE, BOOLEAN, FALSE),
     Config({p1, p2}, 20, 0, 20, {}, FALSE, BOOLEAN, FALSE),
     Config({p1, p2}, 20, 10, 20, {}, FALSE, BOOLEAN, FALSE),
     Config({p1}, 10, 0, 0, {p1, p2}, FALSE, {FALSE}, FALSE),
     Config({p1, p2}, 10, 0, 0, {p2}, FALSE, {FALSE}, TRUE),
     Config({p1}, 10, 0, 0, {p2}, TRUE, {FALSE}, FALSE),
     Config({p2}, 10, 0, 0, {p2}, FALSE, BOOLEAN, FALSE)}
=============================================================================
