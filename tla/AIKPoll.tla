------------------------------ MODULE AIKPoll ------------------------------
(***************************************************************************)
(* The keyboard poll of src/Library/OcInputLib/Keycode: AIKPollKeyboard-    *)
(* Handler (AIK.c), the key filter (AIKSource.c), the translation           *)
(* (AIKTranslate.c) and the target that remembers which keys are down       *)
(* (AIKTarget.c).  Firmware reports presses only, so the target counts polls *)
(* and forgets a key it has not seen for KeyForgotThreshold of them.        *)
(***************************************************************************)
EXTENDS AIKData

CONSTANTS
    KeyCodes,             \* APPLE_KEY_CODE values
    UsbHidUndefined,      \* no key
    Ps2KeyToUsb,          \* key code of each valid PS/2 report, numpad settled
    AsciiToUsb,           \* [UsbCode, ShiftState] of each UnicodeChar
    ScanCodeToUsb,        \* key code of each ScanCode
    ModifierRemap,        \* mModifierRemap: shift state bit to modifier
    TargetBufferSize,     \* AIK_TARGET_BUFFER_SIZE
    PollLimit,            \* AIK_KEY_POLL_LIMIT
    KeyForgotThreshold,
    MaxPolls              \* bound: polls in a behaviour

ASSUME AIKPollAssumption ==
    /\ TargetBufferSize \in Nat \ {0} /\ PollLimit \in Nat \ {0}
    /\ KeyForgotThreshold \in Nat /\ MaxPolls \in Nat
    /\ UsbHidUndefined \notin KeyCodes

VARIABLES
    Keys, KeyCounters, NumberOfKeys,    \* of AIK_TARGET
    Modifiers, ModifierCounter, Counter,
    InPollKeyboardEvent,
    pc, Index,            \* the handler's next statement, its loop index
    submitted,            \* what the key map database was given last
    grabbed               \* history: keys this poll, or the last one, has seen

counterVars == <<Keys, KeyCounters, NumberOfKeys, Modifiers, ModifierCounter, Counter>>
handlerVars == <<InPollKeyboardEvent, pc, Index, submitted, grabbed>>
vars == <<dataVars, counterVars, handlerVars>>

TargetSlots == 0..(TargetBufferSize - 1)
ActiveSlots == 0..(NumberOfKeys - 1)
ModifierMaps == SUBSET {ModifierRemap[m] : m \in DOMAIN ModifierRemap}

Init ==
    /\ DataInit
    /\ Keys = [i \in TargetSlots |-> UsbHidUndefined]
    /\ KeyCounters = [i \in TargetSlots |-> 0]
    /\ NumberOfKeys = 0
    /\ Modifiers = {} /\ ModifierCounter = 0 /\ Counter = 0
    /\ InPollKeyboardEvent = FALSE /\ pc = "idle" /\ Index = 0
    /\ submitted = [mods |-> {}, keys |-> {}]
    /\ grabbed = {}

----------------------------------------------------------------------------
(* AIKTranslate.  A report is a pair: the key, with its PS/2 code (0 when    *)
(* there is none), its character and its scan code; and the shift state,     *)
(* with its EFI_SHIFT_STATE_VALID bit.                                       *)

TranslateKey(e) ==
    LET k == e[1] IN
    IF k.ps2 # 0 THEN Ps2KeyToUsb[k.ps2]
    ELSE IF AsciiToUsb[k.uni].UsbCode # UsbHidUndefined THEN AsciiToUsb[k.uni].UsbCode
    ELSE ScanCodeToUsb[k.scan]

\* The character's own shift state is added to a valid shift state, and
\* stands in for an invalid one.
TranslateModifiers(e) ==
    LET guess == AsciiToUsb[e[1].uni].ShiftState
        state == IF e[2].valid THEN e[2].pressed \cup guess ELSE guess
    IN  {ModifierRemap[m] : m \in state}

ASSUME AIKTranslateAssumption ==
    \A e \in KeyDatas : /\ TranslateKey(e) \in KeyCodes \cup {UsbHidUndefined}
                        /\ TranslateModifiers(e) \in ModifierMaps

----------------------------------------------------------------------------
(* AIKTargetWriteEntry.                                                      *)

\* The slot a new key goes to: the first free one, or the first of the oldest.
OldestSlots == {i \in ActiveSlots : \A j \in ActiveSlots : KeyCounters[i] <= KeyCounters[j]}
InsertFirst == IF NumberOfKeys < TargetBufferSize THEN {NumberOfKeys} ELSE {0}
InsertIndex == IF NumberOfKeys < TargetBufferSize THEN {NumberOfKeys}
               ELSE {i \in OldestSlots : \A j \in OldestSlots : i <= j}

KnownSlotsButLast(Key) == {i \in ActiveSlots : Keys[i] = Key /\ i + 1 < NumberOfKeys}
KnownSlots(Key) == {i \in ActiveSlots : Keys[i] = Key}

\* Only a modifier or an unsupported key.
WriteNoKey(Key) ==
    /\ Key = UsbHidUndefined
    /\ UNCHANGED <<Keys, KeyCounters, NumberOfKeys, grabbed>>

WriteKnownKey(Key) ==
    /\ Key # UsbHidUndefined
    /\ \E i \in KnownSlots(Key) : KeyCounters' = [KeyCounters EXCEPT ![i] = Counter]
    /\ grabbed' = grabbed \cup {Key}
    /\ UNCHANGED <<Keys, NumberOfKeys>>

WriteNewKey(Key) ==
    /\ Key # UsbHidUndefined /\ KnownSlots(Key) = {}
    /\ \E i \in InsertIndex :
           /\ Keys' = [Keys EXCEPT ![i] = Key]
           /\ KeyCounters' = [KeyCounters EXCEPT ![i] = Counter]
    /\ NumberOfKeys' = IF NumberOfKeys < TargetBufferSize THEN NumberOfKeys + 1
                       ELSE NumberOfKeys
    /\ grabbed' = grabbed \cup {Key}

AIKTargetWriteEntry(e) ==
    LET Key == TranslateKey(e) IN
    /\ Modifiers' = TranslateModifiers(e)
    /\ ModifierCounter' = Counter
    /\ WriteNoKey(Key) \/ WriteKnownKey(Key) \/ WriteNewKey(Key)
    /\ UNCHANGED Counter

----------------------------------------------------------------------------
(* AIKPollKeyboardHandler.  Of the ring it only writes, so the readers that   *)
(* AIKData models make no difference to it and are left out here.            *)

\* "Timer handlers may not always be serialised": the second of two returns.
PollReentered == InPollKeyboardEvent /\ UNCHANGED vars

PollBegin ==
    /\ ~InPollKeyboardEvent
    /\ Counter < MaxPolls
    /\ InPollKeyboardEvent' = TRUE
    /\ Counter' = Counter + 1
    /\ pc' = "refresh" /\ Index' = 0 /\ grabbed' = {}
    /\ UNCHANGED <<dataVars, Keys, KeyCounters, NumberOfKeys, Modifiers, ModifierCounter,
                   submitted>>

\* One turn of the loop of AIKTargetRefresh.  The entries after a removed one
\* move down, and the loop goes on with the next index all the same.
ExpiredLate(counter) == counter + KeyForgotThreshold < Counter
Expired(counter) == counter + KeyForgotThreshold <= Counter

RefreshKey ==
    /\ pc = "refresh" /\ Index < NumberOfKeys
    /\ IF Expired(KeyCounters[Index])
       THEN LET Shift(f) == [i \in TargetSlots |->
                                IF Index <= i /\ i + 1 < NumberOfKeys THEN f[i + 1] ELSE f[i]]
            IN  /\ Keys' = Shift(Keys)
                /\ KeyCounters' = Shift(KeyCounters)
                /\ NumberOfKeys' = NumberOfKeys - 1
       ELSE UNCHANGED <<Keys, KeyCounters, NumberOfKeys>>
    /\ Index' = Index + 1
    /\ UNCHANGED <<dataVars, Modifiers, ModifierCounter, Counter, InPollKeyboardEvent, pc,
                   submitted, grabbed>>

RefreshModifiers ==
    /\ pc = "refresh" /\ Index >= NumberOfKeys
    /\ Modifiers' = IF Expired(ModifierCounter) THEN {} ELSE Modifiers
    /\ pc' = "grab" /\ Index' = 0
    /\ UNCHANGED <<dataVars, Keys, KeyCounters, NumberOfKeys, ModifierCounter, Counter,
                   InPollKeyboardEvent, submitted, grabbed>>

\* Whether the loop over AIKSourceGrabEfiKey goes on after a key.
NextGrab == /\ Index' = Index + 1
            /\ pc' = IF Index + 1 < PollLimit THEN "grab" ELSE "submit"

GrabKey(e) ==
    /\ pc = "grab"
    /\ AIKDataWriteEntry(e)
    /\ AIKTargetWriteEntry(e)
    /\ NextGrab
    /\ UNCHANGED <<InPollKeyboardEvent, submitted>>

\* A report that KeyFiltering discards (EFI_UNSUPPORTED) uses up a turn.
GrabFiltered ==
    /\ pc = "grab"
    /\ NextGrab
    /\ UNCHANGED <<dataVars, counterVars, InPollKeyboardEvent, submitted, grabbed>>

\* No key is waiting.
GrabNothing ==
    /\ pc = "grab" /\ pc' = "submit"
    /\ UNCHANGED <<dataVars, counterVars, InPollKeyboardEvent, Index, submitted, grabbed>>

AIKTargetSubmit ==
    /\ pc = "submit"
    /\ submitted' = [mods |-> Modifiers, keys |-> {Keys[i] : i \in ActiveSlots}]
    /\ InPollKeyboardEvent' = FALSE /\ pc' = "idle"
    /\ UNCHANGED <<dataVars, counterVars, Index, grabbed>>

Next ==
    \/ PollReentered \/ PollBegin \/ RefreshKey \/ RefreshModifiers
    \/ \E e \in KeyDatas : GrabKey(e)
    \/ GrabFiltered \/ GrabNothing \/ AIKTargetSubmit

Spec == Init /\ [][Next]_vars

----------------------------------------------------------------------------
Age(i) == Counter - KeyCounters[i]
Threshold == IF KeyForgotThreshold = 0 THEN 1 ELSE KeyForgotThreshold

TypeOK ==
    /\ Keys \in [TargetSlots -> KeyCodes \cup {UsbHidUndefined}]
    /\ KeyCounters \in [TargetSlots -> Nat]
    /\ NumberOfKeys \in 0..TargetBufferSize
    /\ Modifiers \in ModifierMaps
    /\ ModifierCounter \in Nat /\ Counter \in Nat
    /\ pc \in {"idle", "refresh", "grab", "submit"}
    /\ InPollKeyboardEvent \in BOOLEAN /\ (InPollKeyboardEvent <=> pc # "idle")
    /\ Index \in Nat
    /\ submitted \in [mods : ModifierMaps, keys : SUBSET KeyCodes]
    /\ grabbed \subseteq KeyCodes

\* No key is held twice: AIKTargetWriteEntry, AIKTargetRefresh's shifting and
\* the replacement of the oldest key keep the active keys distinct.
KeysDistinct ==
    \A i, j \in ActiveSlots : Keys[i] = Keys[j] => i = j

\* No key sticks: a key the database is given was seen by one of the last
\* Threshold + TargetBufferSize - 1 polls, although AIKTargetRefresh passes over
\* the neighbour of each key it removes and so may keep an expired key for
\* several polls.  Every such reprieve moves the key one slot down.
NoStuckKey ==
    pc = "idle" => \A i \in ActiveSlots :
        Age(i) + i <= Threshold + TargetBufferSize - 2

\* A modifier the database is given was reported within the threshold: "we still
\* need to reset modifiers after time".
NoStuckModifier ==
    pc = "idle" /\ submitted.mods # {} => Counter - ModifierCounter < Threshold

\* Every key a poll sees is submitted by that poll: replacing the oldest key
\* never displaces one of the same poll, as long as AIK_KEY_POLL_LIMIT is no
\* more than AIK_TARGET_BUFFER_SIZE.
SeenKeysSubmitted == pc = "idle" => grabbed \subseteq submitted.keys
=============================================================================
