---------------------------- MODULE AIKPollProofs ----------------------------
(***************************************************************************)
(* Proofs about the keyboard poll, for any number of slots, keys, reports    *)
(* and polls, any threshold and any translation tables.                      *)
(*                                                                           *)
(* NoStuckKey is not inductive: while AIKTargetRefresh walks the slots, the   *)
(* ones it has not reached are one poll older than the bound allows.  A slot  *)
(* it visits either holds a key that has not expired, or loses its key to     *)
(* the one above, which comes one slot down.                                 *)
(***************************************************************************)
EXTENDS AIKPoll, TLAPS

Late(i) == IF pc = "refresh" /\ i >= Index THEN 1 ELSE 0

SlotInv ==
    \A i \in ActiveSlots :
        /\ Keys[i] \in KeyCodes
        /\ KeyCounters[i] <= Counter
        /\ Age(i) + i <= Threshold + TargetBufferSize - 2 + Late(i)

ModifierInv ==
    /\ ModifierCounter <= Counter
    /\ Modifiers # {} => Counter - ModifierCounter
                             < Threshold + (IF pc = "refresh" THEN 1 ELSE 0)
    /\ pc = "idle" => submitted.mods = Modifiers

IInv == TypeOK /\ KeysDistinct /\ SlotInv /\ ModifierInv

LEMMA Threshold_Type == Threshold \in Nat /\ Threshold >= 1 /\ KeyForgotThreshold <= Threshold
  BY AIKPollAssumption DEF Threshold

LEMMA AIKPoll_Init == Init => IInv
  <1> SUFFICES ASSUME Init PROVE IInv
    OBVIOUS
  <1>0. {} \in ModifierMaps /\ ActiveSlots = {}
    <2>1. {} \in ModifierMaps
      BY DEF ModifierMaps
    <2>2. ActiveSlots = {}
      BY DEF Init, ActiveSlots
    <2> QED
      BY <2>1, <2>2
  <1>1. TypeOK
    <2>1. /\ Keys \in [TargetSlots -> KeyCodes \cup {UsbHidUndefined}]
          /\ KeyCounters \in [TargetSlots -> Nat]
          /\ NumberOfKeys \in 0..TargetBufferSize
          /\ ModifierCounter \in Nat /\ Counter \in Nat /\ Index \in Nat
      BY AIKPollAssumption DEF Init, TargetSlots
    <2>2. submitted \in [mods : ModifierMaps, keys : SUBSET KeyCodes]
      BY <1>0 DEF Init
    <2> QED
      BY <1>0, <2>1, <2>2, Zenon DEF Init, TypeOK
  <1>2. KeysDistinct /\ SlotInv
    BY <1>0 DEF KeysDistinct, SlotInv
  <1>3. ModifierInv
    BY DEF Init, ModifierInv
  <1> QED
    BY <1>1, <1>2, <1>3 DEF IInv

LEMMA AIKPoll_Step == IInv /\ [Next]_vars => IInv'
  <1> SUFFICES ASSUME IInv, [Next]_vars PROVE IInv'
    OBVIOUS
  <1> USE AIKPollAssumption, Threshold_Type
  <1>0. TypeOK /\ KeysDistinct /\ SlotInv /\ ModifierInv
    BY DEF IInv
  <1>1. CASE UNCHANGED vars \/ PollReentered
    BY <1>0, <1>1 DEF PollReentered, vars, counterVars, handlerVars, IInv, TypeOK, KeysDistinct,
         SlotInv, ModifierInv, ActiveSlots, Age, Late
  <1>2. CASE PollBegin
    <2>1. TypeOK'
      BY <1>0, <1>2 DEF PollBegin, TypeOK
    <2>2. KeysDistinct'
      BY <1>0, <1>2 DEF PollBegin, KeysDistinct, ActiveSlots
    <2>3. SlotInv'
      BY <1>0, <1>2 DEF PollBegin, TypeOK, SlotInv, ActiveSlots, TargetSlots, Age, Late
    <2>4. ModifierInv'
      BY <1>0, <1>2 DEF PollBegin, TypeOK, ModifierInv
    <2> QED
      BY <2>1, <2>2, <2>3, <2>4 DEF IInv
  <1>3. CASE RefreshKey
    <2>1. CASE Expired(KeyCounters[Index])
      <3>1. /\ pc = "refresh" /\ Index < NumberOfKeys
            /\ Index \in ActiveSlots
            /\ NumberOfKeys' = NumberOfKeys - 1 /\ Index' = Index + 1
            /\ UNCHANGED <<Modifiers, ModifierCounter, Counter, InPollKeyboardEvent, pc,
                           submitted, grabbed>>
        BY <1>0, <1>3, <2>1 DEF RefreshKey, TypeOK, ActiveSlots
      <3>2. /\ Keys' = [i \in TargetSlots |->
                           IF Index <= i /\ i + 1 < NumberOfKeys THEN Keys[i + 1] ELSE Keys[i]]
            /\ KeyCounters' = [i \in TargetSlots |->
                           IF Index <= i /\ i + 1 < NumberOfKeys THEN KeyCounters[i + 1]
                           ELSE KeyCounters[i]]
        BY <1>3, <2>1 DEF RefreshKey
      <3>3. ASSUME NEW i \in ActiveSlots'
            PROVE  /\ i \in TargetSlots /\ i \in ActiveSlots
                   /\ i < Index => Keys'[i] = Keys[i] /\ KeyCounters'[i] = KeyCounters[i]
                   /\ i >= Index => /\ i + 1 \in ActiveSlots /\ i + 1 \in TargetSlots
                                    /\ Keys'[i] = Keys[i + 1]
                                    /\ KeyCounters'[i] = KeyCounters[i + 1]
        BY <1>0, <3>1, <3>2 DEF TypeOK, ActiveSlots, TargetSlots
      <3>4. TypeOK'
        <4>1. Keys' \in [TargetSlots -> KeyCodes \cup {UsbHidUndefined}]
          BY <1>0, <3>2 DEF TypeOK, TargetSlots
        <4>2. KeyCounters' \in [TargetSlots -> Nat]
          BY <1>0, <3>2 DEF TypeOK, TargetSlots
        <4> QED
          BY <1>0, <3>1, <4>1, <4>2 DEF TypeOK
      <3>5. KeysDistinct'
        BY <1>0, <3>1, <3>3 DEF TypeOK, KeysDistinct, ActiveSlots
      <3>6. SlotInv'
        <4> SUFFICES ASSUME NEW i \in ActiveSlots'
                     PROVE  /\ Keys'[i] \in KeyCodes
                            /\ KeyCounters'[i] <= Counter'
                            /\ Age(i)' + i <= Threshold + TargetBufferSize - 2 + Late(i)'
          BY DEF SlotInv
        <4>1. i \in Int /\ KeyCounters[i] \in Nat /\ Counter \in Nat /\ Index \in Nat
          BY <1>0, <3>3 DEF TypeOK, TargetSlots
        <4>2. CASE i < Index
          BY <1>0, <3>1, <3>3, <4>1, <4>2 DEF SlotInv, Age, Late
        <4>3. CASE i >= Index
          <5>1. KeyCounters[i + 1] \in Nat
            BY <1>0, <3>3, <4>3 DEF TypeOK
          <5> QED
            BY <1>0, <3>1, <3>3, <4>1, <4>3, <5>1 DEF SlotInv, Age, Late
        <4> QED
          BY <4>1, <4>2, <4>3
      <3>7. ModifierInv'
        BY <1>0, <3>1 DEF ModifierInv
      <3> QED
        BY <3>4, <3>5, <3>6, <3>7 DEF IInv
    <2>2. CASE ~Expired(KeyCounters[Index])
      <3>1. /\ pc = "refresh" /\ Index < NumberOfKeys
            /\ Index \in ActiveSlots
            /\ Index' = Index + 1
            /\ UNCHANGED <<Keys, KeyCounters, NumberOfKeys, Modifiers, ModifierCounter,
                           Counter, InPollKeyboardEvent, pc, submitted, grabbed>>
        BY <1>0, <1>3, <2>2 DEF RefreshKey, TypeOK, ActiveSlots
      <3>2. TypeOK' /\ KeysDistinct' /\ ModifierInv'
        BY <1>0, <3>1 DEF TypeOK, KeysDistinct, ModifierInv, ActiveSlots
      <3>3. SlotInv'
        <4> SUFFICES ASSUME NEW i \in ActiveSlots
                     PROVE  Age(i)' + i <= Threshold + TargetBufferSize - 2 + Late(i)'
          BY <1>0, <3>1 DEF SlotInv, ActiveSlots
        <4>1. i \in Nat /\ i < TargetBufferSize /\ KeyCounters[i] \in Nat /\ Counter \in Nat
              /\ Index \in Nat
          BY <1>0 DEF TypeOK, ActiveSlots, TargetSlots
        <4>2. CASE i = Index
          BY <2>2, <3>1, <4>1, <4>2 DEF Age, Late, Expired
        <4>3. CASE i # Index
          BY <1>0, <3>1, <4>1, <4>3 DEF SlotInv, Age, Late
        <4> QED
          BY <4>2, <4>3
      <3> QED
        BY <3>2, <3>3 DEF IInv
    <2> QED
      BY <2>1, <2>2
  <1>4. CASE RefreshModifiers
    <2>1. TypeOK'
      BY <1>0, <1>4 DEF RefreshModifiers, TypeOK, ModifierMaps
    <2>2. KeysDistinct'
      BY <1>0, <1>4 DEF RefreshModifiers, KeysDistinct, ActiveSlots
    <2>3. SlotInv'
      BY <1>0, <1>4 DEF RefreshModifiers, TypeOK, SlotInv, ActiveSlots, TargetSlots, Age, Late
    <2>4. ModifierInv'
      BY <1>0, <1>4 DEF RefreshModifiers, TypeOK, ModifierInv, Expired
    <2> QED
      BY <2>1, <2>2, <2>3, <2>4 DEF IInv
  <1>5. ASSUME NEW e \in KeyDatas, GrabKey(e)
        PROVE  IInv'
    <2> DEFINE Key == TranslateKey(e)
    <2>0. /\ pc = "grab" /\ pc' \in {"grab", "submit"} /\ Index' = Index + 1
          /\ Modifiers' = TranslateModifiers(e) /\ ModifierCounter' = Counter
          /\ WriteNoKey(Key) \/ WriteKnownKey(Key) \/ WriteNewKey(Key)
          /\ UNCHANGED <<Counter, InPollKeyboardEvent, submitted>>
      BY <1>5 DEF GrabKey, AIKTargetWriteEntry, NextGrab
    <2>a. /\ Key \in KeyCodes \cup {UsbHidUndefined}
          /\ TranslateModifiers(e) \in ModifierMaps
      BY AIKTranslateAssumption
    <2> HIDE DEF Key
    <2>1. ModifierInv'
      BY <1>0, <2>0 DEF TypeOK, ModifierInv
    <2>2. /\ pc' \in {"idle", "refresh", "grab", "submit"} /\ Index' \in Nat
          /\ Modifiers' \in ModifierMaps /\ ModifierCounter' \in Nat /\ Counter' \in Nat
          /\ InPollKeyboardEvent' \in BOOLEAN /\ (InPollKeyboardEvent' <=> pc' # "idle")
          /\ submitted' \in [mods : ModifierMaps, keys : SUBSET KeyCodes]
      BY <1>0, <2>0, <2>a DEF TypeOK
    <2>3. CASE WriteNoKey(Key)
      <3>1. TypeOK'
        BY <1>0, <2>2, <2>3 DEF WriteNoKey, TypeOK
      <3>2. KeysDistinct'
        BY <1>0, <2>3 DEF WriteNoKey, KeysDistinct, ActiveSlots
      <3>3. SlotInv'
        BY <1>0, <2>0, <2>3 DEF WriteNoKey, TypeOK, SlotInv, ActiveSlots, Age, Late
      <3> QED
        BY <2>1, <3>1, <3>2, <3>3 DEF IInv
    <2>4. CASE WriteKnownKey(Key)
      <3>0. PICK i \in KnownSlots(Key) : KeyCounters' = [KeyCounters EXCEPT ![i] = Counter]
        BY <2>4 DEF WriteKnownKey
      <3>1. i \in ActiveSlots /\ Key \in KeyCodes /\ grabbed' = grabbed \cup {Key}
            /\ UNCHANGED <<Keys, NumberOfKeys>>
        BY <2>4, <2>a, <3>0 DEF WriteKnownKey, KnownSlots
      <3>2. TypeOK'
        BY <1>0, <2>2, <3>0, <3>1 DEF TypeOK
      <3>3. KeysDistinct'
        BY <1>0, <3>1 DEF KeysDistinct, ActiveSlots
      <3>4. SlotInv'
        <4> SUFFICES ASSUME NEW j \in ActiveSlots
                     PROVE  /\ KeyCounters'[j] <= Counter
                            /\ Counter - KeyCounters'[j] + j <= Threshold + TargetBufferSize - 2
          BY <1>0, <2>0, <3>1 DEF SlotInv, ActiveSlots, Age, Late
        <4>1. j \in TargetSlots /\ j \in Nat /\ j < TargetBufferSize
              /\ KeyCounters[j] \in Nat /\ Counter \in Nat
          BY <1>0 DEF TypeOK, ActiveSlots, TargetSlots
        <4>2. CASE j = i
          BY <1>0, <3>0, <4>1, <4>2 DEF TypeOK
        <4>3. CASE j # i
          BY <1>0, <2>0, <3>0, <4>1, <4>3 DEF TypeOK, SlotInv, Age, Late
        <4> QED
          BY <4>2, <4>3
      <3> QED
        BY <2>1, <3>2, <3>3, <3>4 DEF IInv
    <2>5. CASE WriteNewKey(Key)
      <3>0. PICK i \in InsertIndex :
                /\ Keys' = [Keys EXCEPT ![i] = Key]
                /\ KeyCounters' = [KeyCounters EXCEPT ![i] = Counter]
        BY <2>5 DEF WriteNewKey
      <3>1. /\ Key \in KeyCodes /\ KnownSlots(Key) = {} /\ grabbed' = grabbed \cup {Key}
            /\ NumberOfKeys' = IF NumberOfKeys < TargetBufferSize THEN NumberOfKeys + 1
                               ELSE NumberOfKeys
        BY <2>5, <2>a DEF WriteNewKey
      <3>2. i \in TargetSlots /\ i \in Nat /\ i < TargetBufferSize
        BY <1>0, <3>0 DEF InsertIndex, OldestSlots, TypeOK, ActiveSlots, TargetSlots
      <3>3. NumberOfKeys' \in 0..TargetBufferSize
        BY <1>0, <3>1 DEF TypeOK
      <3>4. ASSUME NEW j \in ActiveSlots', j # i
            PROVE  j \in ActiveSlots
        BY <1>0, <3>0, <3>1, <3>4 DEF InsertIndex, TypeOK, ActiveSlots
      <3>5. TypeOK'
        BY <1>0, <2>2, <3>0, <3>1, <3>2, <3>3 DEF TypeOK
      <3>6. KeysDistinct'
        <4> SUFFICES ASSUME NEW j \in ActiveSlots', NEW k \in ActiveSlots',
                            Keys'[j] = Keys'[k]
                     PROVE  j = k
          BY DEF KeysDistinct
        <4>1. ASSUME NEW x \in ActiveSlots', x # i
              PROVE  x \in ActiveSlots /\ Keys'[x] = Keys[x] /\ Keys[x] # Key
          <5>1. x \in ActiveSlots
            BY <3>4, <4>1
          <5>2. Keys[x] # Key
            BY <3>1, <5>1 DEF KnownSlots
          <5>3. x \in TargetSlots
            BY <1>0, <5>1 DEF TypeOK, ActiveSlots, TargetSlots
          <5> QED
            BY <1>0, <3>0, <4>1, <5>1, <5>2, <5>3 DEF TypeOK
        <4>2. Keys'[i] = Key
          BY <1>0, <3>0, <3>2 DEF TypeOK
        <4> QED
          BY <1>0, <4>1, <4>2 DEF KeysDistinct
      <3>7. SlotInv'
        <4> SUFFICES ASSUME NEW j \in ActiveSlots'
                     PROVE  /\ Keys'[j] \in KeyCodes
                            /\ KeyCounters'[j] <= Counter
                            /\ Counter - KeyCounters'[j] + j <= Threshold + TargetBufferSize - 2
          BY <2>0 DEF SlotInv, Age, Late
        <4>1. j \in TargetSlots /\ j \in Nat /\ j < TargetBufferSize /\ Counter \in Nat
          <5>1. j \in 0..(NumberOfKeys' - 1)
            BY DEF ActiveSlots
          <5>2. Counter \in Nat
            BY <1>0 DEF TypeOK
          <5>3. NumberOfKeys' \in Int /\ NumberOfKeys' <= TargetBufferSize
            BY <3>3
          <5>4. \A n \in Int : n <= TargetBufferSize =>
                    \A k \in 0..(n - 1) : k \in Nat /\ k < TargetBufferSize
            OBVIOUS
          <5>5. j \in Nat /\ j < TargetBufferSize
            BY <5>1, <5>3, <5>4
          <5> QED
            BY <5>2, <5>5 DEF TargetSlots
        <4>2. CASE j = i
          BY <1>0, <3>0, <3>1, <4>1, <4>2 DEF TypeOK
        <4>3. CASE j # i
          <5>1. j \in ActiveSlots /\ Keys'[j] = Keys[j] /\ KeyCounters'[j] = KeyCounters[j]
            BY <1>0, <3>0, <3>4, <4>1, <4>3 DEF TypeOK
          <5> QED
            BY <1>0, <2>0, <4>1, <5>1 DEF SlotInv, Age, Late
        <4> QED
          BY <4>2, <4>3
      <3> QED
        BY <2>1, <3>5, <3>6, <3>7 DEF IInv
    <2> QED
      BY <2>0, <2>3, <2>4, <2>5
  <1>6. CASE GrabFiltered \/ GrabNothing
    <2>0. /\ pc = "grab" /\ pc' \in {"grab", "submit"} /\ Index' \in Nat
          /\ UNCHANGED <<counterVars, InPollKeyboardEvent, submitted, grabbed>>
      BY <1>0, <1>6 DEF GrabFiltered, GrabNothing, NextGrab, TypeOK
    <2>1. TypeOK'
      BY <1>0, <2>0 DEF counterVars, TypeOK
    <2>2. KeysDistinct'
      BY <1>0, <2>0 DEF counterVars, KeysDistinct, ActiveSlots
    <2>3. SlotInv'
      BY <1>0, <2>0 DEF counterVars, SlotInv, ActiveSlots, Age, Late
    <2>4. ModifierInv'
      BY <1>0, <2>0 DEF counterVars, ModifierInv
    <2> QED
      BY <2>1, <2>2, <2>3, <2>4 DEF IInv
  <1>7. CASE AIKTargetSubmit
    <2>0. /\ pc = "submit" /\ pc' = "idle" /\ InPollKeyboardEvent' = FALSE
          /\ submitted' = [mods |-> Modifiers, keys |-> {Keys[i] : i \in ActiveSlots}]
          /\ UNCHANGED <<counterVars, Index, grabbed>>
      BY <1>7 DEF AIKTargetSubmit
    <2>1. TypeOK'
      <3>1. {Keys[i] : i \in ActiveSlots} \in SUBSET KeyCodes
        BY <1>0 DEF SlotInv
      <3>2. submitted' \in [mods : ModifierMaps, keys : SUBSET KeyCodes]
        BY <1>0, <2>0, <3>1 DEF TypeOK
      <3> QED
        BY <1>0, <2>0, <3>2 DEF counterVars, TypeOK
    <2>2. KeysDistinct'
      BY <1>0, <2>0 DEF counterVars, KeysDistinct, ActiveSlots
    <2>3. SlotInv'
      BY <1>0, <2>0 DEF counterVars, SlotInv, ActiveSlots, Age, Late
    <2>4. ModifierInv'
      BY <1>0, <2>0 DEF counterVars, ModifierInv
    <2> QED
      BY <2>1, <2>2, <2>3, <2>4 DEF IInv
  <1> QED
    BY <1>1, <1>2, <1>3, <1>4, <1>5, <1>6, <1>7 DEF Next

\* The target's fields always have their types, and the number of keys never
\* passes AIK_TARGET_BUFFER_SIZE.
THEOREM AIKPoll_TypeOK == Spec => []TypeOK
  <1>1. IInv => TypeOK
    BY DEF IInv
  <1> QED
    BY <1>1, AIKPoll_Init, AIKPoll_Step, PTL DEF Spec

\* AIKTargetWriteEntry and AIKTargetRefresh never leave a key in two slots.
THEOREM AIKPoll_KeysDistinct == Spec => []KeysDistinct
  <1>1. IInv => KeysDistinct
    BY DEF IInv
  <1> QED
    BY <1>1, AIKPoll_Init, AIKPoll_Step, PTL DEF Spec

\* A key is submitted for at most TargetBufferSize - 1 polls more than the
\* threshold after its last report, for every buffer size and threshold.
THEOREM AIKPoll_NoStuckKey == Spec => []NoStuckKey
  <1>1. IInv => NoStuckKey
    BY AIKPollAssumption, Threshold_Type
       DEF IInv, TypeOK, TargetSlots, ActiveSlots, SlotInv, NoStuckKey, Age, Late
  <1> QED
    BY <1>1, AIKPoll_Init, AIKPoll_Step, PTL DEF Spec

\* Submitted modifiers were reported within the threshold.
THEOREM AIKPoll_NoStuckModifier == Spec => []NoStuckModifier
  <1>1. IInv => NoStuckModifier
    BY Threshold_Type DEF IInv, TypeOK, ModifierInv, NoStuckModifier
  <1> QED
    BY <1>1, AIKPoll_Init, AIKPoll_Step, PTL DEF Spec
=============================================================================
