---------------------------- MODULE TypingProofs ----------------------------
(***************************************************************************)
(* Proofs about the typing context, for every buffer size, every set of     *)
(* keystrokes and every content of a freshly allocated context.             *)
(*                                                                          *)
(* The inductive invariant is RingInv: once flushed, Head and Tail are      *)
(* indices, every slot between them holds a keystroke, and an interrupted   *)
(* OcGetNextKeystroke still finds in its slot what it has already read.     *)
(***************************************************************************)
EXTENDS Typing, TLAPS

Reading == pc \in {"readKey", "readChar", "advance"}

\* What TypeOK lacks to be inductive and to imply the refinement.
RingInv ==
    /\ ~Clearing => ctxHead \in Indices /\ ctxTail \in Indices
    /\ pc = "flushHead" => ctxTail = 0
    /\ Reading => ctxTail # ctxHead /\ NewTail = Increment(ctxTail)
    /\ pc \in {"readChar", "advance"} => keyOut = Buffer[NewTail][1]
    /\ pc = "advance" => charOut = Buffer[NewTail][2]
    /\ ~Clearing => \A k \in 1..Count : Buffer[Slot(k)] \in Entries

\* Every field of OC_TYPING_CONTEXT keeps its type; in particular
\* HandleKeyEvent only ever stores within Buffer, even when it runs between
\* RegisterHandler and OcFlushTypingBuffer on uninitialised indices.
THEOREM Typing_TypeOK == Spec => []TypeOK
<1> USE TypingAssumption DEF TypeOK, Indices
<1>1. Init => TypeOK
  <2> SUFFICES ASSUME Init PROVE TypeOK
    OBVIOUS
  <2>1. 0 \in Indices /\ Buffer \in [Indices -> Entries \cup {Junk}]
    BY DEF Init
  <2>2. offers \in BOOLEAN /\ reads \in BOOLEAN
    BY Zenon DEF Init
  <2> QED
    BY <2>1, <2>2 DEF Init
<1>2. TypeOK /\ [Next]_vars => TypeOK'
  <2> SUFFICES ASSUME TypeOK, [Next]_vars PROVE TypeOK'
    OBVIOUS
  <2>1. ASSUME NEW e \in Entries, HandleKeyDown(e) PROVE TypeOK'
    <3>1. Increment(ctxHead) \in Indices
      BY DEF Increment
    <3> QED
      BY <2>1, <3>1 DEF HandleKeyDown, readVars
  <2>2. ASSUME NEW m \in SUBSET ModifierBits,
               HandleModifiersDown(m) \/ HandleModifiersUp(m)
        PROVE  TypeOK'
    BY <2>2 DEF HandleModifiersDown, HandleModifiersUp, readVars
  <2>3. ASSUME NEW h \in Garbage, NEW t \in Garbage, NEW m \in SUBSET ModifierBits,
               OcRegisterTypingHandler(h, t, m)
        PROVE  TypeOK'
    BY <2>3 DEF OcRegisterTypingHandler, readVars
  <2>4. CASE OcUnregisterTypingHandler
    BY <2>4 DEF OcUnregisterTypingHandler, readVars
  <2>5. CASE OcFlushTypingBuffer
    BY <2>5 DEF OcFlushTypingBuffer, contextVars, readVars
  <2>6. CASE FlushTail
    BY <2>6 DEF FlushTail, readVars
  <2>7. CASE FlushHead
    BY <2>7 DEF FlushHead, readVars
  <2>8. CASE FlushModifiers
    BY <2>8 DEF FlushModifiers, readVars
  <2>9. CASE GetNextKeystroke
    <3>1. Increment(ctxTail) \in Indices
      BY DEF Increment
    <3>2. CASE ctxTail = ctxHead
      BY <2>9, <3>2 DEF GetNextKeystroke, contextVars
    <3>3. CASE ctxTail # ctxHead
      BY <2>9, <3>1, <3>3 DEF GetNextKeystroke, contextVars
    <3> QED
      BY <3>2, <3>3
  <2>10. CASE ReadKey \/ ReadChar
    BY <2>10 DEF ReadKey, ReadChar, contextVars
  <2>11. CASE AdvanceTail
    BY <2>11 DEF AdvanceTail
  <2>12. CASE UNCHANGED vars
    BY <2>12 DEF vars, contextVars, readVars
  <2> QED
    BY <2>1, <2>2, <2>3, <2>4, <2>5, <2>6, <2>7, <2>8, <2>9, <2>10, <2>11, <2>12 DEF Next
<1> QED
  BY <1>1, <1>2, PTL DEF Spec

----------------------------------------------------------------------------
\* The ring arithmetic both the invariant and the refinement rest on: storing
\* at NewHead makes the queue one longer, and giving up NewTail shifts it.
LEMMA Put_Count ==
    ASSUME ctxHead \in Indices, ctxTail \in Indices, Increment(ctxHead) # ctxTail,
           ctxHead' = Increment(ctxHead), ctxTail' = ctxTail
    PROVE  /\ Count \in Nat /\ Count < BufferSize - 1
           /\ Count' = Count + 1
           /\ Slot(Count + 1) = Increment(ctxHead)
           /\ \A k \in 1..(Count + 1) : Slot(k)' = Slot(k)
           /\ \A k \in 1..Count : Slot(k) \in Indices /\ Slot(k) # Increment(ctxHead)
<1> USE TypingAssumption DEF Indices, Increment, Count, Slot
<1>1. Count \in Nat /\ Count < BufferSize - 1 /\ Count' = Count + 1
  OBVIOUS
<1>2. Slot(Count + 1) = Increment(ctxHead)
  OBVIOUS
<1>3. ASSUME NEW k \in 1..Count
      PROVE  Slot(k) \in Indices /\ Slot(k) # Increment(ctxHead)
  OBVIOUS
<1>4. ASSUME NEW k \in 1..(Count + 1) PROVE Slot(k)' = Slot(k)
  OBVIOUS
<1> QED
  BY ONLY <1>1, <1>2, <1>3, <1>4

LEMMA Full_Count ==
    ASSUME ctxHead \in Indices, ctxTail \in Indices, Increment(ctxHead) = ctxTail
    PROVE  Count = BufferSize - 1
  BY TypingAssumption DEF Indices, Increment, Count

LEMMA Take_Count ==
    ASSUME ctxHead \in Indices, ctxTail \in Indices, ctxHead # ctxTail,
           ctxHead' = ctxHead, ctxTail' = Increment(ctxTail)
    PROVE  /\ Count \in Nat /\ Count > 0
           /\ Count' = Count - 1
           /\ Slot(1) = Increment(ctxTail)
           /\ \A k \in 1..(Count - 1) : Slot(k)' = Slot(k + 1)
  BY TypingAssumption DEF Indices, Increment, Count, Slot

\* Count and the slots it covers, in a flushed context.
LEMMA Ring_Slots ==
    ASSUME ctxHead \in Indices, ctxTail \in Indices
    PROVE  /\ Count \in Nat
           /\ Count = 0 <=> ctxHead = ctxTail
           /\ \A k \in 1..Count : Slot(k) \in Indices
  BY TypingAssumption DEF Indices, Count, Slot

\* RingInv holds in every reachable state: what OcGetNextKeystroke has read of
\* its slot stays true of the slot until it advances Tail.
THEOREM Typing_RingInv == Spec => []RingInv
<1> USE TypingAssumption DEF Clearing, Reading
<1>1. Init => RingInv
  BY DEF Init, RingInv
<1>2. TypeOK /\ RingInv /\ [Next]_vars => RingInv'
  <2> SUFFICES ASSUME TypeOK, RingInv, [Next]_vars PROVE RingInv'
    OBVIOUS
  <2>1. ASSUME NEW e \in Entries, HandleKeyDown(e) PROVE RingInv'
    <3>0. UNCHANGED <<context, pc, ctxTail, NewTail, keyOut, charOut>>
      BY <2>1 DEF HandleKeyDown, readVars
    <3>1. CASE Clearing
      <4>1. ~Reading
        BY <3>1 DEF TypeOK
      <4> QED
        BY <3>0, <3>1, <4>1 DEF RingInv
    <3>2. CASE ~Clearing /\ Increment(ctxHead) = ctxTail
      <4>1. UNCHANGED <<ctxHead, Buffer>>
        BY <2>1, <3>2 DEF HandleKeyDown
      <4> QED
        BY <3>0, <4>1 DEF RingInv, Count, Slot
    <3>3. CASE ~Clearing /\ Increment(ctxHead) # ctxTail
      <4>1. ctxHead' = Increment(ctxHead) /\ Buffer' = [Buffer EXCEPT ![ctxHead'] = e]
        BY <2>1, <3>3 DEF HandleKeyDown, TypeOK
      <4>2. ctxHead \in Indices /\ ctxTail \in Indices /\ ctxHead' \in Indices
        BY <3>3, <4>1 DEF RingInv, Indices, Increment
      <4>3. \A i \in Indices : Buffer'[i] = IF i = ctxHead' THEN e ELSE Buffer[i]
        BY <4>1, <4>2 DEF TypeOK
      <4>4. \A k \in (1..Count)' : Buffer'[Slot(k)'] \in Entries
        <5>1. ctxTail' = ctxTail
          BY <3>0
        <5>2. /\ Count \in Nat /\ Count' = Count + 1 /\ Slot(Count + 1) = ctxHead'
              /\ \A k \in 1..(Count + 1) : Slot(k)' = Slot(k)
              /\ \A k \in 1..Count : Slot(k) \in Indices /\ Slot(k) # ctxHead'
          BY <3>3, <4>1, <4>2, <5>1, Put_Count
        <5>3. SUFFICES ASSUME NEW k \in 1..(Count + 1) PROVE Buffer'[Slot(k)'] \in Entries
          BY <5>2
        <5>4. CASE k = Count + 1
          BY <4>2, <4>3, <5>2, <5>4
        <5>5. CASE k # Count + 1
          <6>1. k \in 1..Count
            BY <5>2, <5>5
          <6>2. Buffer[Slot(k)] \in Entries
            BY <3>3, <6>1 DEF RingInv
          <6> QED
            BY <4>3, <5>2, <6>1, <6>2
        <5> QED
          BY <5>4, <5>5
      <4>5. Reading => /\ ctxTail' # ctxHead' /\ NewTail' = Increment(ctxTail')
                       /\ Buffer'[NewTail'] = Buffer[NewTail]
        <5> SUFFICES ASSUME Reading
                     PROVE  /\ ctxTail' # ctxHead' /\ NewTail' = Increment(ctxTail')
                            /\ Buffer'[NewTail'] = Buffer[NewTail]
          OBVIOUS
        <5>1. NewTail # ctxHead' /\ NewTail \in Indices
          BY <4>1, <4>2 DEF RingInv, TypeOK, Increment, Indices
        <5> QED
          BY <3>0, <3>3, <4>1, <4>3, <5>1 DEF RingInv
      <4> QED
        BY <3>0, <3>3, <4>1, <4>2, <4>4, <4>5 DEF RingInv
    <3> QED
      BY <3>1, <3>2, <3>3
  <2>2. ASSUME NEW m \in SUBSET ModifierBits,
               HandleModifiersDown(m) \/ HandleModifiersUp(m)
        PROVE  RingInv'
    BY <2>2 DEF HandleModifiersDown, HandleModifiersUp, readVars, RingInv, Count, Slot
  <2>3. ASSUME NEW h \in Garbage, NEW t \in Garbage, NEW m \in SUBSET ModifierBits,
               OcRegisterTypingHandler(h, t, m)
        PROVE  RingInv'
    BY <2>3 DEF OcRegisterTypingHandler, readVars, RingInv
  <2>4. CASE OcUnregisterTypingHandler
    BY <2>4 DEF OcUnregisterTypingHandler, readVars, RingInv
  <2>5. CASE OcFlushTypingBuffer
    BY <2>5 DEF OcFlushTypingBuffer, contextVars, readVars, RingInv
  <2>6. CASE FlushTail
    BY <2>6 DEF FlushTail, readVars, RingInv
  <2>7. CASE FlushHead
    BY <2>7 DEF FlushHead, readVars, RingInv, Count, Indices
  <2>8. CASE FlushModifiers
    BY <2>8 DEF FlushModifiers, readVars, RingInv, Count, Slot
  <2>9. CASE GetNextKeystroke
    BY <2>9 DEF GetNextKeystroke, contextVars, RingInv, Count, Slot
  <2>10. CASE ReadKey \/ ReadChar
    BY <2>10 DEF ReadKey, ReadChar, contextVars, RingInv, Count, Slot
  <2>11. CASE AdvanceTail
    <3>1. ~Clearing /\ ctxTail' = Increment(ctxTail) /\ ctxTail # ctxHead
          /\ UNCHANGED <<context, ctxHead, Buffer>> /\ pc' = "idle"
      BY <2>11 DEF AdvanceTail, RingInv, TypeOK
    <3>2. ctxHead \in Indices /\ ctxTail \in Indices /\ ctxTail' \in Indices
      BY <3>1 DEF RingInv, Indices, Increment
    <3> QED
      BY <3>1, <3>2, Take_Count DEF RingInv
  <2>12. CASE UNCHANGED vars
    BY <2>12 DEF vars, contextVars, readVars, RingInv, Count, Slot
  <2> QED
    BY <2>1, <2>2, <2>3, <2>4, <2>5, <2>6, <2>7, <2>8, <2>9, <2>10, <2>11, <2>12 DEF Next
<1> QED
  BY <1>1, <1>2, Typing_TypeOK, PTL DEF Spec

----------------------------------------------------------------------------
\* No modifier is reported that the event stream has not put down: neither a
\* full ring nor a flush in the middle of events leaves one stuck.
THEOREM Typing_NoStuckModifiers == Spec => []NoStuckModifiers
<1>1. Init => NoStuckModifiers
  BY DEF Init, NoStuckModifiers
<1>2. TypeOK /\ NoStuckModifiers /\ [Next]_vars => NoStuckModifiers'
  <2> SUFFICES ASSUME TypeOK, NoStuckModifiers, [Next]_vars PROVE NoStuckModifiers'
    OBVIOUS
  <2> USE DEF NoStuckModifiers
  <2>1. ASSUME NEW e \in Entries, HandleKeyDown(e) PROVE NoStuckModifiers'
    BY <2>1 DEF HandleKeyDown
  <2>2. ASSUME NEW m \in SUBSET ModifierBits,
               HandleModifiersDown(m) \/ HandleModifiersUp(m)
        PROVE  NoStuckModifiers'
    BY <2>2 DEF HandleModifiersDown, HandleModifiersUp
  <2>3. ASSUME NEW h \in Garbage, NEW t \in Garbage, NEW m \in SUBSET ModifierBits,
               OcRegisterTypingHandler(h, t, m)
        PROVE  NoStuckModifiers'
    BY <2>3 DEF OcRegisterTypingHandler
  <2>4. CASE OcUnregisterTypingHandler
    BY <2>4 DEF OcUnregisterTypingHandler
  <2>5. CASE OcFlushTypingBuffer \/ FlushTail \/ FlushHead \/ FlushModifiers
    BY <2>5 DEF OcFlushTypingBuffer, FlushTail, FlushHead, FlushModifiers
  <2>6. CASE GetNextKeystroke \/ ReadKey \/ ReadChar \/ AdvanceTail
    BY <2>6 DEF GetNextKeystroke, ReadKey, ReadChar, AdvanceTail, contextVars, TypeOK
  <2>7. CASE UNCHANGED vars
    BY <2>7 DEF vars, contextVars
  <2> QED
    BY <2>1, <2>2, <2>3, <2>4, <2>5, <2>6, <2>7 DEF Next
<1> QED
  BY <1>1, <1>2, Typing_TypeOK, PTL DEF Spec

----------------------------------------------------------------------------
LEMMA Queued_Live ==
    ASSUME ~Clearing, ctxHead \in Indices, ctxTail \in Indices
    PROVE  /\ Queued = [k \in 1..Count |-> Buffer[Slot(k)]]
           /\ Len(Queued) = Count /\ Count \in Nat
           /\ Queued = <<>> <=> ctxHead = ctxTail
<1>1. Count \in Nat /\ (Count = 0 <=> ctxHead = ctxTail)
  BY Ring_Slots
<1>2. Queued = [k \in 1..Count |-> Buffer[Slot(k)]]
  BY DEF Queued
<1> QED
  BY <1>1, <1>2

\* Every step of the typing context is a step of the abstract queue or leaves
\* it unchanged.
LEMMA Typing_Step ==
    ASSUME TypeOK, RingInv, RingInv', [Next]_vars
    PROVE  [Fifo!FifoNext]_(Fifo!fifoVars)
<1> USE TypingAssumption DEF Clearing, Reading
<1>1. ASSUME NEW e \in Entries, HandleKeyDown(e) PROVE Fifo!Offer(e)
  <2>0. /\ UNCHANGED <<context, pc, ctxTail, reads, returned>>
        /\ offers' = ~offers
    BY <1>1 DEF HandleKeyDown, readVars
  <2>1. Clearing' = Clearing
    BY <2>0
  <2>2. Queued' = IF ~Clearing /\ Len(Queued) < BufferSize - 1
                  THEN Append(Queued, e) ELSE Queued
    <3>1. CASE Clearing
      BY <2>1, <3>1 DEF Queued
    <3>2. CASE ~Clearing /\ Increment(ctxHead) = ctxTail
      <4>1. ctxHead \in Indices /\ ctxTail \in Indices
        BY <3>2 DEF RingInv
      <4>2. Len(Queued) = BufferSize - 1
        BY <3>2, <4>1, Queued_Live, Full_Count
      <4>3. UNCHANGED <<ctxHead, Buffer>>
        BY <1>1, <3>2 DEF HandleKeyDown
      <4>4. Queued' = Queued
        BY <2>0, <2>1, <4>3 DEF Queued, Count, Slot
      <4> QED
        BY <4>2, <4>4
    <3>3. CASE ~Clearing /\ Increment(ctxHead) # ctxTail
      <4>1. ctxHead' = Increment(ctxHead) /\ Buffer' = [Buffer EXCEPT ![ctxHead'] = e]
        BY <1>1, <3>3 DEF HandleKeyDown, TypeOK
      <4>2. ctxHead \in Indices /\ ctxTail \in Indices /\ ctxHead' \in Indices
        BY <3>3, <4>1 DEF RingInv, Indices, Increment
      <4>3. \A i \in Indices : Buffer'[i] = IF i = ctxHead' THEN e ELSE Buffer[i]
        BY <4>1, <4>2 DEF TypeOK
      <4>4. ctxTail' = ctxTail
        BY <2>0
      <4>5. /\ Count \in Nat /\ Count < BufferSize - 1 /\ Count' = Count + 1
            /\ Slot(Count + 1) = ctxHead'
            /\ \A k \in 1..(Count + 1) : Slot(k)' = Slot(k)
            /\ \A k \in 1..Count : Slot(k) \in Indices /\ Slot(k) # ctxHead'
        BY <3>3, <4>1, <4>2, <4>4, Put_Count
      <4>6. Queued = [k \in 1..Count |-> Buffer[Slot(k)]] /\ Len(Queued) = Count
        BY <3>3, <4>2, Queued_Live
      <4>7. Queued' = [k \in 1..(Count + 1) |-> Buffer'[Slot(k)']]
        BY <2>1, <3>3, <4>5 DEF Queued
      <4>8. ASSUME NEW k \in 1..(Count + 1)
            PROVE  Buffer'[Slot(k)'] = IF k = Count + 1 THEN e ELSE Buffer[Slot(k)]
        BY <4>2, <4>3, <4>5
      <4>9. Append(Queued, e) = [k \in 1..(Count + 1) |->
                                    IF k = Count + 1 THEN e ELSE Buffer[Slot(k)]]
        BY <4>5, <4>6
      <4>10. Queued' = Append(Queued, e)
        BY ONLY <4>7, <4>8, <4>9
      <4> QED
        BY <3>3, <4>5, <4>6, <4>10
    <3> QED
      BY <3>1, <3>2, <3>3
  <2> QED
    BY <2>0, <2>1, <2>2 DEF Fifo!Offer
<1>2. CASE AdvanceTail
  <2>1. /\ ~Clearing /\ ~Clearing' /\ ctxTail' = Increment(ctxTail) /\ ctxTail # ctxHead
        /\ UNCHANGED <<context, ctxHead, Buffer, offers>> /\ reads' = ~reads
        /\ returned' = <<keyOut, charOut>>
        /\ keyOut = Buffer[NewTail][1] /\ charOut = Buffer[NewTail][2]
        /\ NewTail = Increment(ctxTail)
    BY <1>2 DEF AdvanceTail, RingInv, TypeOK
  <2>2. ctxHead \in Indices /\ ctxTail \in Indices
    BY <2>1 DEF RingInv
  <2>3. /\ Count \in Nat /\ Count > 0 /\ Count' = Count - 1 /\ Slot(1) = NewTail
        /\ \A k \in 1..(Count - 1) : Slot(k)' = Slot(k + 1)
    BY <2>1, <2>2, Take_Count
  <2>4. Queued = [k \in 1..Count |-> Buffer[Slot(k)]] /\ Len(Queued) = Count
    BY <2>1, <2>2, Queued_Live
  <2>5. Queued' = [k \in 1..(Count - 1) |-> Buffer[Slot(k + 1)]]
    <3>1. Queued' = [k \in 1..(Count - 1) |-> Buffer'[Slot(k)']]
      BY <2>1, <2>3 DEF Queued
    <3> QED
      BY <2>1, <2>3, <3>1
  <2>6. Buffer[NewTail] \in Entries
    BY <2>1, <2>3 DEF RingInv
  <2>7. returned' = Head(Queued)
    <3>1. Buffer[NewTail] = <<Buffer[NewTail][1], Buffer[NewTail][2]>>
      BY <2>6
    <3>2. Head(Queued) = Buffer[NewTail]
      BY <2>3, <2>4
    <3> QED
      BY <2>1, <3>1, <3>2
  <2>8. Queued' = Tail(Queued) /\ Queued # <<>>
    BY <2>3, <2>4, <2>5
  <2> QED
    BY <2>1, <2>7, <2>8 DEF Fifo!Read, Fifo!FifoNext
<1>3. CASE GetNextKeystroke
  <2>1. ~Clearing /\ ~Clearing' /\ UNCHANGED <<Queued, Clearing, offers>>
    BY <1>3 DEF GetNextKeystroke, contextVars, Queued, Count, Slot, TypeOK
  <2>2. ctxHead \in Indices /\ ctxTail \in Indices
    BY <2>1 DEF RingInv
  <2>3. CASE ctxTail = ctxHead
    <3>1. Queued = <<>>
      BY <2>1, <2>2, <2>3, Queued_Live
    <3> QED
      BY <1>3, <2>1, <2>3, <3>1 DEF GetNextKeystroke, Fifo!Read, Fifo!FifoNext
  <2>4. CASE ctxTail # ctxHead
    BY <1>3, <2>1, <2>4 DEF GetNextKeystroke, Fifo!fifoVars
  <2> QED
    BY <2>3, <2>4
<1>4. ASSUME NEW h \in Garbage, NEW t \in Garbage, NEW m \in SUBSET ModifierBits,
             OcRegisterTypingHandler(h, t, m)
      PROVE  UNCHANGED Fifo!fifoVars
  BY <1>4 DEF OcRegisterTypingHandler, readVars, Queued, Fifo!fifoVars
<1>5. CASE OcUnregisterTypingHandler
  BY <1>5 DEF OcUnregisterTypingHandler, readVars, Queued, TypeOK, Fifo!FifoNext,
              Fifo!BeginClear
<1>6. CASE OcFlushTypingBuffer
  BY <1>6 DEF OcFlushTypingBuffer, contextVars, readVars, Queued, Fifo!FifoNext,
              Fifo!BeginClear
<1>7. CASE FlushTail
  BY <1>7 DEF FlushTail, readVars, Queued, Fifo!fifoVars
<1>8. CASE FlushHead
  <2>1. /\ Clearing /\ ~Clearing' /\ ctxHead' = 0 /\ ctxTail' = 0
        /\ UNCHANGED <<offers, reads, returned>>
    BY <1>8 DEF FlushHead, readVars, RingInv, TypeOK
  <2>2. Queued = <<>> /\ Queued' = <<>>
    <3>1. Count' = 0
      BY <2>1 DEF Count
    <3> QED
      BY <2>1, <3>1 DEF Queued
  <2> QED
    BY <2>1, <2>2 DEF Fifo!FifoNext, Fifo!EndClear
<1>9. CASE FlushModifiers
  BY <1>9 DEF FlushModifiers, readVars, Queued, Count, Slot, Fifo!fifoVars
<1>10. CASE ReadKey \/ ReadChar
  BY <1>10 DEF ReadKey, ReadChar, contextVars, Queued, Count, Slot, TypeOK, Fifo!fifoVars
<1>11. ASSUME NEW m \in SUBSET ModifierBits, HandleModifiersDown(m) \/ HandleModifiersUp(m)
       PROVE  UNCHANGED Fifo!fifoVars
  BY <1>11 DEF HandleModifiersDown, HandleModifiersUp, readVars, Queued, Count, Slot,
               Fifo!fifoVars
<1>12. CASE UNCHANGED vars
  BY <1>12 DEF vars, contextVars, readVars, Queued, Count, Slot, Fifo!fifoVars
<1> QED
  BY <1>1, <1>2, <1>3, <1>4, <1>5, <1>6, <1>7, <1>8, <1>9, <1>10, <1>11, <1>12
     DEF Next, Fifo!FifoNext

\* The ring of OcTypingLib.c implements the bounded first-in first-out queue,
\* although OcGetNextKeystroke and OcFlushTypingBuffer run without a lock and
\* HandleKeyEvent may interrupt them at every statement.
THEOREM Typing_ImplementsFifo == Spec => ImplementsFifo
<1>1. Init => Fifo!FifoInit
  BY DEF Init, Queued, Clearing, Fifo!FifoInit
<1>2. TypeOK /\ RingInv /\ RingInv' /\ [Next]_vars => [Fifo!FifoNext]_(Fifo!fifoVars)
  BY Typing_Step
<1> QED
  BY <1>1, <1>2, Typing_TypeOK, Typing_RingInv, PTL
     DEF Spec, ImplementsFifo, Fifo!FifoSpec
=============================================================================
