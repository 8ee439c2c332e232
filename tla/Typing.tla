------------------------------- MODULE Typing -------------------------------
(***************************************************************************)
(* The typing context of src/Library/OcTypingLib/OcTypingLib.c: a ring that *)
(* HandleKeyEvent fills from the Apple event queue and OcGetNextKeystroke    *)
(* drains.  The handler runs at a raised TPL, so it is atomic; the           *)
(* application below it can be interrupted between any two of its            *)
(* statements, so its functions are sequences of steps with a program        *)
(* counter.  There is no lock.                                               *)
(***************************************************************************)
EXTENDS Integers, Sequences

CONSTANTS
    AppleKeyCodes,   \* key codes of KEY_DOWN events
    UnicodeChars,    \* characters that come with them
    Entries,         \* the pairs of both that occur
    ModifierBits,    \* bits of an APPLE_MODIFIER_MAP
    BufferSize,      \* OC_TYPING_BUFFER_SIZE
    Garbage,         \* indices a freshly allocated context may hold
    None             \* AppleKeyCode zero: no keystroke

Junk == <<None, None>>

ASSUME TypingAssumption ==
    /\ BufferSize \in Nat /\ BufferSize >= 2
    /\ Garbage \subseteq Nat /\ Garbage # {}
    /\ \A e \in Entries : /\ e = <<e[1], e[2]>>
                          /\ e[1] \in AppleKeyCodes /\ e[2] \in UnicodeChars
    /\ None \notin AppleKeyCodes

VARIABLES
    context,            \* "NULL", or "live" once allocated and registered
    ctxHead, ctxTail,   \* Head and Tail of OC_TYPING_CONTEXT
    Buffer, CurrentModifiers,
    pc,                 \* the application's next statement
    NewTail, modsOut, keyOut, charOut,       \* locals of OcGetNextKeystroke
    returned,           \* the keystroke its last call returned
    offers, reads,      \* history: parity of KEY_DOWN events and of reads
    heldModifiers       \* history: modifiers down according to the events

contextVars == <<context, ctxHead, ctxTail, Buffer, CurrentModifiers>>
readVars == <<NewTail, modsOut, keyOut, charOut, returned, reads>>
vars == <<contextVars, pc, readVars, offers, heldModifiers>>

Indices == 0..(BufferSize - 1)
Increment(i) == IF i + 1 >= BufferSize THEN 0 ELSE i + 1

Init ==
    /\ context = "NULL"
    /\ ctxHead = 0 /\ ctxTail = 0
    /\ Buffer = [i \in Indices |-> Junk]
    /\ CurrentModifiers = {}
    /\ pc = "idle"
    /\ NewTail = 0 /\ modsOut = {} /\ keyOut = None /\ charOut = None /\ returned = None
    /\ offers = FALSE /\ reads = FALSE
    /\ heldModifiers = {}

----------------------------------------------------------------------------
(* HandleKeyEvent, called for every keyboard event once registered.          *)

\* A KEY_DOWN event: dropped when the ring is full.
HandleKeyDown(e) ==
    LET NewHead == Increment(ctxHead) IN
    /\ offers' = ~offers
    /\ IF context = "live" /\ NewHead # ctxTail
       THEN ctxHead' = NewHead /\ Buffer' = [Buffer EXCEPT ![NewHead] = e]
       ELSE UNCHANGED <<ctxHead, Buffer>>
    /\ UNCHANGED <<context, ctxTail, CurrentModifiers, pc, readVars, heldModifiers>>

\* MODIFIER_DOWN and MODIFIER_UP events: applied at once, never queued.
HandleModifiersDown(m) ==
    /\ m # {} /\ m \cap heldModifiers = {}
    /\ heldModifiers' = heldModifiers \cup m
    /\ CurrentModifiers' = IF context = "live" THEN CurrentModifiers \cup m
                           ELSE CurrentModifiers
    /\ UNCHANGED <<context, ctxHead, ctxTail, Buffer, pc, readVars, offers>>

HandleModifiersUp(m) ==
    /\ m # {} /\ m \subseteq heldModifiers
    /\ heldModifiers' = heldModifiers \ m
    /\ CurrentModifiers' = IF context = "live" THEN CurrentModifiers \ m
                           ELSE CurrentModifiers
    /\ UNCHANGED <<context, ctxHead, ctxTail, Buffer, pc, readVars, offers>>

----------------------------------------------------------------------------
(* The application.                                                          *)

\* AllocatePool leaves the context uninitialised, and the handler is live
\* from RegisterHandler on: only then does OcFlushTypingBuffer initialise it.
OcRegisterTypingHandler(h, t, m) ==
    /\ pc = "idle" /\ context = "NULL"
    /\ context' = "live"
    /\ ctxHead' = h /\ ctxTail' = t /\ CurrentModifiers' = m
    /\ Buffer' = [i \in Indices |-> Junk]
    /\ pc' = "flushTail"
    /\ UNCHANGED <<readVars, offers, heldModifiers>>

\* The handler is unregistered before the context is freed.
OcUnregisterTypingHandler ==
    /\ pc = "idle" /\ context = "live"
    /\ context' = "NULL"
    /\ UNCHANGED <<ctxHead, ctxTail, Buffer, CurrentModifiers, pc, readVars, offers,
                   heldModifiers>>

OcFlushTypingBuffer ==
    /\ pc = "idle" /\ context = "live"
    /\ pc' = "flushTail"
    /\ UNCHANGED <<contextVars, readVars, offers, heldModifiers>>

FlushTail ==
    /\ pc = "flushTail"
    /\ ctxTail' = 0 /\ pc' = "flushHead"
    /\ UNCHANGED <<context, ctxHead, Buffer, CurrentModifiers, readVars, offers, heldModifiers>>

FlushHead ==
    /\ pc = "flushHead"
    /\ ctxHead' = 0 /\ pc' = "flushModifiers"
    /\ UNCHANGED <<context, ctxTail, Buffer, CurrentModifiers, readVars, offers, heldModifiers>>

FlushKeepsModifiers ==
    /\ pc = "flushModifiers"
    /\ pc' = "idle"
    /\ UNCHANGED <<contextVars, readVars, offers, heldModifiers>>

FlushModifiers ==
    /\ pc = "flushModifiers"
    /\ CurrentModifiers' = {} /\ pc' = "idle"
    /\ UNCHANGED <<context, ctxHead, ctxTail, Buffer, readVars, offers, heldModifiers>>

\* OcGetNextKeystroke takes the modifiers and tests for an empty ring ...
GetNextKeystroke ==
    /\ pc = "idle" /\ context = "live"
    /\ modsOut' = CurrentModifiers
    /\ IF ctxTail = ctxHead
       THEN /\ returned' = None /\ reads' = ~reads
            /\ UNCHANGED <<pc, NewTail, keyOut, charOut>>
       ELSE /\ NewTail' = Increment(ctxTail) /\ pc' = "readKey"
            /\ UNCHANGED <<keyOut, charOut, returned, reads>>
    /\ UNCHANGED <<contextVars, offers, heldModifiers>>

ReadKeyAfterAdvance ==
    /\ pc = "readKey"
    /\ ctxTail' = NewTail
    /\ keyOut' = Buffer[NewTail][1] /\ pc' = "readChar"
    /\ UNCHANGED <<context, ctxHead, Buffer, CurrentModifiers, NewTail, modsOut, charOut,
                   returned, reads, offers, heldModifiers>>

\* ... reads the key code and the character of the slot after Tail ...
ReadKey ==
    /\ pc = "readKey"
    /\ keyOut' = Buffer[NewTail][1] /\ pc' = "readChar"
    /\ UNCHANGED <<contextVars, NewTail, modsOut, charOut, returned, reads, offers,
                   heldModifiers>>

ReadChar ==
    /\ pc = "readChar"
    /\ charOut' = Buffer[NewTail][2] /\ pc' = "advance"
    /\ UNCHANGED <<contextVars, NewTail, modsOut, keyOut, returned, reads, offers,
                   heldModifiers>>

\* ... and gives the slot up only then.
AdvanceTail ==
    /\ pc = "advance"
    /\ ctxTail' = NewTail /\ pc' = "idle"
    /\ returned' = <<keyOut, charOut>> /\ reads' = ~reads
    /\ UNCHANGED <<context, ctxHead, Buffer, CurrentModifiers, NewTail, modsOut, keyOut,
                   charOut, offers, heldModifiers>>

Next ==
    \/ \E e \in Entries : HandleKeyDown(e)
    \/ \E m \in SUBSET ModifierBits : HandleModifiersDown(m) \/ HandleModifiersUp(m)
    \/ \E h, t \in Garbage, m \in SUBSET ModifierBits : OcRegisterTypingHandler(h, t, m)
    \/ OcUnregisterTypingHandler
    \/ OcFlushTypingBuffer \/ FlushTail \/ FlushHead \/ FlushModifiers
    \/ GetNextKeystroke \/ ReadKey \/ ReadChar \/ AdvanceTail

Spec == Init /\ [][Next]_vars

----------------------------------------------------------------------------
Clearing == context = "NULL" \/ pc \in {"flushTail", "flushHead"}

\* Keystrokes between Tail and Head, oldest first.
Count == IF ctxHead >= ctxTail THEN ctxHead - ctxTail ELSE ctxHead - ctxTail + BufferSize
Slot(k) == IF ctxTail + k < BufferSize THEN ctxTail + k ELSE ctxTail + k - BufferSize
Queued == IF Clearing THEN <<>> ELSE [k \in 1..Count |-> Buffer[Slot(k)]]

Fifo == INSTANCE BoundedFifo WITH
            Capacity <- BufferSize - 1, q <- Queued, clearing <- Clearing,
            got <- returned

TypeOK ==
    /\ context \in {"NULL", "live"}
    /\ ctxHead \in Nat /\ ctxTail \in Nat
    /\ Buffer \in [Indices -> Entries \cup {Junk}]
    /\ CurrentModifiers \subseteq ModifierBits /\ modsOut \subseteq ModifierBits
    /\ heldModifiers \subseteq ModifierBits
    /\ pc \in {"idle", "flushTail", "flushHead", "flushModifiers",
               "readKey", "readChar", "advance"}
    /\ pc # "idle" => context = "live"
    /\ NewTail \in Indices
    /\ offers \in BOOLEAN /\ reads \in BOOLEAN

\* The typing context is a bounded first-in first-out queue: key presses that
\* interrupt OcGetNextKeystroke or OcFlushTypingBuffer at any statement are
\* never reordered, torn, duplicated or invented, and one is dropped only when
\* BufferSize - 1 of them wait ("just drop any over queue length").
ImplementsFifo == Fifo!FifoSpec

\* "Handle modifiers immediately ... removes any possibility of stuck modifiers
\* if queue fills": a modifier the context reports is down according to the
\* events, whatever was dropped, flushed or never seen.
NoStuckModifiers ==
    context = "live" /\ pc \notin {"flushTail", "flushHead", "flushModifiers"}
        => CurrentModifiers \subseteq heldModifiers
=============================================================================
