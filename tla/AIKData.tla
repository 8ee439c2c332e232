------------------------------ MODULE AIKData ------------------------------
(***************************************************************************)
(* The key data ring of src/Library/OcInputLib/Keycode/AIKData.c, between   *)
(* the keyboard poll (AIKPollKeyboardHandler, TPL_NOTIFY) that writes it    *)
(* and the input protocol shims (AIKShim.c) that read it.  The shims raise  *)
(* no TPL: below TPL_NOTIFY the poll may run between any two statements of  *)
(* AIKDataReadEntry, so a read is a sequence of steps.  A write runs to its *)
(* end undisturbed.                                                         *)
(***************************************************************************)
EXTENDS Integers, Sequences

CONSTANTS
    KeyDatas,         \* AMI_EFI_KEY_DATA values, as <<Key, KeyState>> pairs
    DataBufferSize,   \* AIK_DATA_BUFFER_SIZE
    Preemption,       \* whether readers run below TPL_NOTIFY
    NotReady          \* EFI_NOT_READY

ASSUME AIKDataAssumption ==
    /\ DataBufferSize \in Nat \ {0}
    /\ Preemption \in BOOLEAN
    /\ \A e \in KeyDatas : e = <<e[1], e[2]>>
    /\ NotReady \notin KeyDatas

VARIABLES
    KeyBuffer,
    KeyBufferHead, KeyBufferTail,   \* pointers, as indices of KeyBuffer
    KeyBufferSize,
    rpc,                  \* next statement of the AIKDataReadEntry in progress
    source,               \* the entry its CopyMem copies
    keyOut, stateOut,     \* halves of *KeyData it has copied
    got,                  \* what the last call returned
    writes, reads         \* history: parity of writes and of completed reads

ringVars == <<KeyBuffer, KeyBufferHead, KeyBufferTail, KeyBufferSize>>
readVars == <<rpc, source, keyOut, stateOut, got, reads>>
dataVars == <<ringVars, readVars, writes>>

Slots == 0..(DataBufferSize - 1)
Junk == <<NotReady, NotReady>>   \* memory that holds no key data

DataInit ==
    /\ KeyBuffer = [i \in Slots |-> Junk]
    /\ KeyBufferHead = 0 /\ KeyBufferTail = 0 /\ KeyBufferSize = 0
    /\ rpc = "idle" /\ source = 0 /\ keyOut = NotReady /\ stateOut = NotReady /\ got = NotReady
    /\ writes = FALSE /\ reads = FALSE

\* A pointer incremented and wrapped at the end of the buffer.
AdvanceNoWrap(p) == p + 1
Advance(p) == IF p + 1 = DataBufferSize THEN 0 ELSE p + 1

\* The oldest entry is eaten when there is no room.
AIKDataWriteEntry(e) ==
    LET full == KeyBufferSize = DataBufferSize IN
    /\ KeyBufferTail' = IF full THEN Advance(KeyBufferTail) ELSE KeyBufferTail
    /\ KeyBufferSize' = IF full THEN KeyBufferSize ELSE KeyBufferSize + 1
    /\ KeyBuffer' = [KeyBuffer EXCEPT ![KeyBufferHead] = e]
    /\ KeyBufferHead' = Advance(KeyBufferHead)
    /\ writes' = ~writes
    /\ UNCHANGED readVars

Write(e) == (Preemption \/ rpc = "idle") /\ AIKDataWriteEntry(e)

\* AIKDataReadEntry: the test, the copy (in two halves), the decrement, the
\* increment and the wrap.
ReadTest ==
    /\ rpc = "idle"
    /\ IF KeyBufferSize = 0
       THEN got' = NotReady /\ reads' = ~reads /\ UNCHANGED <<rpc, source>>
       ELSE rpc' = "copyKey" /\ source' = KeyBufferTail /\ UNCHANGED <<got, reads>>
    /\ UNCHANGED <<ringVars, keyOut, stateOut, writes>>

At(p) == IF p \in Slots THEN KeyBuffer[p] ELSE Junk

CopyKey ==
    /\ rpc = "copyKey"
    /\ keyOut' = At(source)[1] /\ rpc' = "copyState"
    /\ UNCHANGED <<ringVars, source, stateOut, got, reads, writes>>

CopyState ==
    /\ rpc = "copyState"
    /\ stateOut' = At(source)[2] /\ rpc' = "decrement"
    /\ UNCHANGED <<ringVars, source, keyOut, got, reads, writes>>

Decrement ==
    /\ rpc = "decrement"
    /\ KeyBufferSize' = KeyBufferSize - 1 /\ rpc' = "increment"
    /\ UNCHANGED <<KeyBuffer, KeyBufferHead, KeyBufferTail, source, keyOut, stateOut, got,
                   reads, writes>>

IncrementTail ==
    /\ rpc = "increment"
    /\ KeyBufferTail' = KeyBufferTail + 1 /\ rpc' = "wrap"
    /\ UNCHANGED <<KeyBuffer, KeyBufferHead, KeyBufferSize, source, keyOut, stateOut, got,
                   reads, writes>>

WrapTail ==
    /\ rpc = "wrap"
    /\ KeyBufferTail' = IF KeyBufferTail = DataBufferSize THEN 0 ELSE KeyBufferTail
    /\ got' = <<keyOut, stateOut>> /\ reads' = ~reads
    /\ rpc' = "idle"
    /\ UNCHANGED <<KeyBuffer, KeyBufferHead, KeyBufferSize, source, keyOut, stateOut,
                   writes>>

AIKDataReadEntry ==
    ReadTest \/ CopyKey \/ CopyState \/ Decrement \/ IncrementTail \/ WrapTail

DataNext == (\E e \in KeyDatas : Write(e)) \/ AIKDataReadEntry

DataSpec == DataInit /\ [][DataNext]_dataVars

----------------------------------------------------------------------------
\* The entries that wait, oldest first.  A read takes its entry when it ends.
Count == IF rpc \in {"increment", "wrap"} THEN KeyBufferSize + 1 ELSE KeyBufferSize
First == IF rpc = "wrap" THEN KeyBufferTail - 1 ELSE KeyBufferTail
Queued == [k \in 1..Count |-> KeyBuffer[(First + k - 1) % DataBufferSize]]

Fifo == INSTANCE OverwritingFifo WITH Capacity <- DataBufferSize, q <- Queued

\* The pointers stay inside KeyBuffer (the tail is one past it only before the
\* wrap) and the size within its capacity.
DataTypeOK ==
    /\ KeyBuffer \in [Slots -> KeyDatas \cup {Junk}]
    /\ KeyBufferHead \in Slots
    /\ KeyBufferTail \in IF rpc = "wrap" THEN 1..DataBufferSize ELSE Slots
    /\ KeyBufferSize \in 0..DataBufferSize

\* Read at TPL_NOTIFY, the ring is a first-in first-out queue that gives up its
\* oldest entry to the newest ("Eat the first entry if we have no room"): no
\* shim sees an entry twice, out of order, or one that an overflow took away.
DataImplementsFifo == Fifo!FifoSpec

\* README.md of Keycode/ calls the ring "really just a ring-buffer based queue":
\* what AIKDataReadEntry returns is one of the key data that the poll stored.
RespondsWithStoredKeys == got = NotReady \/ got \in KeyDatas
=============================================================================
