-------------------------- MODULE OverwritingFifo --------------------------
(***************************************************************************)
(* What the key data queue of the input library promises: a first-in        *)
(* first-out queue that always accepts, giving up its oldest entry when     *)
(* Capacity entries wait.  writes and reads flip with every write and every *)
(* completed read, so that neither can pass for a stuttering step.          *)
(***************************************************************************)
EXTENDS Integers, Sequences

CONSTANTS
    KeyDatas,   \* entries
    Capacity,   \* entries kept at most
    NotReady    \* what a read of an empty queue returns

VARIABLES q, writes, reads, got

fifoVars == <<q, writes, reads, got>>

FifoInit == q = <<>> /\ writes = FALSE /\ reads = FALSE /\ got = NotReady

Write(e) ==
    /\ q' = Append(IF Len(q) = Capacity THEN Tail(q) ELSE q, e)
    /\ writes' = ~writes
    /\ UNCHANGED <<reads, got>>

Read ==
    /\ IF q = <<>>
       THEN got' = NotReady /\ q' = q
       ELSE got' = Head(q) /\ q' = Tail(q)
    /\ reads' = ~reads
    /\ UNCHANGED writes

FifoNext == (\E e \in KeyDatas : Write(e)) \/ Read

FifoSpec == FifoInit /\ [][FifoNext]_fifoVars
=============================================================================
