---------------------------- MODULE BoundedFifo ----------------------------
(***************************************************************************)
(* What a typing context promises its reader: a first-in first-out queue of *)
(* at most Capacity keystrokes.  A keystroke offered to a full queue is     *)
(* dropped; one offered while the queue is being cleared is lost; every     *)
(* other one is kept, and reads return the kept ones in order.              *)
(*                                                                          *)
(* offers and reads flip with every offer and every completed read, so that *)
(* an implementation cannot hide either in a stuttering step.               *)
(***************************************************************************)
EXTENDS Integers, Sequences

CONSTANTS
    Entries,    \* keystrokes
    Capacity,   \* keystrokes kept at most
    None        \* what a read of an empty queue returns

VARIABLES q, clearing, offers, reads, got

fifoVars == <<q, clearing, offers, reads, got>>

FifoInit ==
    /\ q = <<>>
    /\ clearing = TRUE
    /\ offers = FALSE
    /\ reads = FALSE
    /\ got = None

Offer(e) ==
    /\ offers' = ~offers
    /\ q' = IF ~clearing /\ Len(q) < Capacity THEN Append(q, e) ELSE q
    /\ UNCHANGED <<clearing, reads, got>>

Read ==
    /\ ~clearing
    /\ reads' = ~reads
    /\ IF q = <<>>
       THEN got' = None /\ q' = q
       ELSE got' = Head(q) /\ q' = Tail(q)
    /\ UNCHANGED <<clearing, offers>>

BeginClear ==
    /\ ~clearing
    /\ clearing' = TRUE
    /\ q' = <<>>
    /\ UNCHANGED <<offers, reads, got>>

EndClear ==
    /\ clearing
    /\ clearing' = FALSE
    /\ UNCHANGED <<q, offers, reads, got>>

FifoNext ==
    \/ \E e \in Entries : Offer(e)
    \/ Read
    \/ BeginClear
    \/ EndClear

FifoSpec == FifoInit /\ [][FifoNext]_fifoVars
=============================================================================
