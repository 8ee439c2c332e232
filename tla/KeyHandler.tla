----------------------------- MODULE KeyHandler -----------------------------
(***************************************************************************)
(* The keystroke poll of src/Library/OcAppleEventLib/KeyHandler.c.  Every    *)
(* 10 ms, at TPL_CALLBACK, it reads the keys held from the key map           *)
(* aggregator, compares them with the table of keys it knows and queues      *)
(* KEY_UP, KEY_DOWN and modifier events.  The aggregator is asked twice, for *)
(* the number of keys and for the keys; keyboard drivers (TPL_NOTIFY) may    *)
(* change them in between.  The rest of a poll works on its own copy.        *)
(***************************************************************************)
EXTENDS Integers, Sequences, FiniteSets, SequencesExt

CONSTANTS
    KeyCodes,             \* keys, CLock among them
    CLock,                \* AppleHidUsbKbUsageKeyCLock
    Letters,              \* keys that IS_APPLE_KEY_LETTER holds for
    ModifierBits, Shift,  \* bits of an APPLE_MODIFIER_MAP, APPLE_MODIFIERS_SHIFT
    NoKey,                \* key code 0
    InfoSize,             \* ARRAY_SIZE (mKeyStrokeInfo)
    mKeyInitialDelay, mKeySubsequentDelay,
    MaxHeld,              \* bound: keys held at a time
    Draining, MaxConIn,   \* whether ConIn is emptied; bound: what it holds
    AllocationsFail       \* whether allocations may fail

ASSUME KeyHandlerAssumption ==
    /\ CLock \in KeyCodes /\ Shift \in ModifierBits /\ NoKey \notin KeyCodes
    /\ InfoSize \in Nat \ {0} /\ mKeyInitialDelay \in Nat
    /\ mKeySubsequentDelay \in Nat \ {0}   \* InternalSetKeyBehaviour sees to it
    /\ MaxHeld \in Nat /\ MaxConIn \in Nat
    /\ Draining \in BOOLEAN /\ AllocationsFail \in BOOLEAN

VARIABLES
    held, heldMods,                  \* what the aggregator would return
    conIn,                           \* keystrokes waiting in gST->ConIn
    mKeyStrokePollEvent,             \* the timer exists
    mKeyStrokeInfo, mModifiers, mPreviousModifiers, mCLockOn, mCLockChanged,
    size,                            \* key count the poll was told, 0 between polls
    events,                          \* queued by the poll that has just ended
    clientKeys, clientMods,          \* history: what the events say is down
    starved,                         \* history: an allocation has failed
    lastDown,                        \* history: the key last reported down, its
                                     \* polls since, and whether it repeated
    capsSpent                        \* history: this press of CapsLock has toggled it
inputVars == <<held, heldMods>>
tableVars == <<mKeyStrokeInfo, mModifiers, mPreviousModifiers, mCLockOn, mCLockChanged>>
clientVars == <<events, clientKeys, clientMods, starved, lastDown, capsSpent>>
vars == <<inputVars, conIn, mKeyStrokePollEvent, tableVars, size, clientVars>>

Slots == 1..InfoSize
Empty == [code |-> NoKey, strokes |-> 0, current |-> FALSE]
ModifierMaps == SUBSET ModifierBits
None == [key |-> NoKey, polls |-> 0, repeated |-> FALSE]

Init ==
    /\ held = <<>> /\ heldMods = {} /\ conIn = 0
    /\ mKeyStrokePollEvent = FALSE
    /\ mKeyStrokeInfo = [i \in Slots |-> Empty]
    /\ mModifiers = {} /\ mPreviousModifiers = {}
    /\ mCLockOn = FALSE /\ mCLockChanged = FALSE
    /\ size = 0
    /\ events = <<>> /\ clientKeys = {} /\ clientMods = {} /\ starved = FALSE
    /\ lastDown = None /\ capsSpent = FALSE

----------------------------------------------------------------------------
(* The keyboards.  A key may appear anywhere in the aggregator's list.       *)

KeyPressed(k, i) ==
    /\ k \notin Range(held) /\ Len(held) < MaxHeld /\ i <= Len(held) + 1
    /\ held' = InsertAt(held, i, k)
    /\ conIn' = IF conIn < MaxConIn THEN conIn + 1 ELSE conIn
    /\ UNCHANGED <<heldMods, mKeyStrokePollEvent, tableVars, size, clientVars>>

KeyReleased(k) ==
    /\ k \in Range(held)
    /\ held' = Remove(held, k)
    /\ capsSpent' = (capsSpent /\ k # CLock)
    /\ UNCHANGED <<heldMods, conIn, mKeyStrokePollEvent, tableVars, size, events,
                   clientKeys, clientMods, starved, lastDown>>

ModifierToggled(m) ==
    /\ heldMods' = IF m \in heldMods THEN heldMods \ {m} ELSE heldMods \cup {m}
    /\ UNCHANGED <<held, conIn, mKeyStrokePollEvent, tableVars, size, clientVars>>

----------------------------------------------------------------------------
(* InternalGetCurrentKeyStroke, step by step, over a table t.                *)

Codes(t) == {t[i].code : i \in Slots} \ {NoKey}
NoCurrent(t) == [i \in Slots |-> [t[i] EXCEPT !.current = FALSE]]

\* InternalGetAndRemoveReleasedKeys: the table's keys that are not held, in table order.
Released(t, keys) == SelectSeq([i \in Slots |-> t[i].code],
                               LAMBDA c : c # NoKey /\ c \notin Range(keys))
KeepReleased(t, keys) == t
RemoveReleased(t, keys) ==
    [i \in Slots |-> IF t[i].code \in Range(keys) THEN t[i] ELSE Empty]
CLockReleased(keys) == mCLockChanged /\ CLock \notin Range(keys)

\* InternalIsCLockOn, after the released keys have gone.
IsCLockOnEveryPoll(t, keys) ==
    IF CLock \in Range(keys) /\ CLock \notin Codes(t) THEN ~mCLockOn ELSE mCLockOn
IsCLockOn(t, keys) ==
    IF CLock \in Range(keys) /\ CLock \notin Codes(t) /\ ~mCLockChanged
    THEN ~mCLockOn ELSE mCLockOn

\* The keys before the first new one count a stroke; that one is inserted, if
\* there is a free slot, and is the current stroke; the ones after it wait.
FirstNew(t, keys) ==
    LET new == {n \in 1..Len(keys) : keys[n] \notin Codes(t)} IN
    IF new = {} THEN Len(keys) + 1 ELSE CHOOSE n \in new : \A m \in new : n <= m

\* Past the initial delay only the position in the repeat period matters.
NextStroke(n) == IF n + 1 = mKeyInitialDelay + mKeySubsequentDelay THEN mKeyInitialDelay
                 ELSE n + 1

Counted(t, keys) ==
    [i \in Slots |-> IF t[i].code \in Range(SubSeq(keys, 1, FirstNew(t, keys) - 1))
                     THEN [t[i] EXCEPT !.strokes = NextStroke(@)] ELSE t[i]]

InsertIntoBusy(t, key) ==
    [i \in Slots |-> IF t[i].code = NoKey /\ \A j \in 1..(i - 1) : t[j].code # NoKey
                     THEN [code |-> key, strokes |-> 0, current |-> TRUE] ELSE t[i]]
Insert(t, key) ==
    [i \in Slots |-> IF t[i].code = NoKey /\ \A j \in 1..(i - 1) : t[j].code # NoKey
                     THEN [code |-> key, strokes |-> 0, current |-> TRUE]
                     ELSE [t[i] EXCEPT !.current = FALSE]]

Stroke(t, keys) ==
    IF FirstNew(t, keys) <= Len(keys) THEN Insert(Counted(t, keys), keys[FirstNew(t, keys)])
    ELSE Counted(t, keys)

\* InternalGetCurrentStroke.
CurrentStroke(t) == {i \in Slots : t[i].current /\ \A j \in 1..(i - 1) : ~t[j].current}

AcceptAfterDelay(n) == n >= mKeyInitialDelay /\ (n - mKeyInitialDelay) % mKeySubsequentDelay = 0
AcceptStroke(n) == IF n < mKeyInitialDelay THEN n = 0
                   ELSE (n - mKeyInitialDelay) % mKeySubsequentDelay = 0

----------------------------------------------------------------------------
(* InternalKeyStrokePollNotifyFunction.                                      *)

KeyEvent(type, key, mods, shifted) ==
    [type |-> type, key |-> key, mods |-> mods, shifted |-> shifted]
ModifierEvent(type, mods) == KeyEvent(type, NoKey, mods, FALSE)
ModifierEvents(old, new) ==
    (IF old \subseteq new THEN <<>> ELSE <<ModifierEvent("MODIFIER_UP", old \ new)>>)
    \o (IF new \subseteq old THEN <<>> ELSE <<ModifierEvent("MODIFIER_DOWN", new \ old)>>)

\* What the client makes of one event.
After(keys, e) == CASE e.type = "KEY_DOWN" -> keys \cup {e.key}
                    [] e.type = "KEY_UP"   -> keys \ {e.key}
                    [] OTHER               -> keys
AfterMods(mods, e) == CASE e.type = "MODIFIER_DOWN" -> mods \cup e.mods
                        [] e.type = "MODIFIER_UP"   -> mods \ e.mods
                        [] OTHER                    -> mods

\* Any event can be lost to a failed allocation; what the client makes of the
\* others is not followed from then on.
Queue(all, lost) ==
    /\ starved' = (starved \/ lost)
    /\ events' = IF starved' THEN <<>> ELSE all
    /\ clientKeys' = IF starved' THEN {} ELSE FoldLeft(After, clientKeys, all)
    /\ clientMods' = IF starved' THEN {} ELSE FoldLeft(AfterMods, clientMods, all)

\* The rest of the poll, once the keys and modifiers are read.
HandleStrokes(keys, Modifiers) ==
    LET changed  == mModifiers # Modifiers
        t1       == IF changed THEN NoCurrent(mKeyStrokeInfo) ELSE mKeyStrokeInfo
        t2       == RemoveReleased(t1, keys)
        ups      == Released(t1, keys) \o (IF CLockReleased(keys) THEN <<CLock>> ELSE <<>>)
        CLockOn  == IsCLockOn(t2, keys)
        upMods   == Modifiers \cup (IF CLockOn THEN {Shift} ELSE {})
        t3       == Stroke(t2, keys)
        cur      == CurrentStroke(t3)
        accepted == {i \in cur : AcceptStroke(t3[i].strokes)}
        downKey  == t3[CHOOSE i \in accepted : TRUE].code
        success  == accepted # {} \/ (cur = {} /\ changed)
        Shifted(key) == (key \in Letters /\ CLockOn) # (Shift \in Modifiers)
        all == [n \in 1..Len(ups) |-> KeyEvent("KEY_UP", ups[n], upMods, Shift \in upMods)]
               \o [n \in 1..Cardinality(accepted) |->
                      KeyEvent("KEY_DOWN", downKey, Modifiers, Shifted(downKey))]
               \o (IF success THEN ModifierEvents(mPreviousModifiers, Modifiers) ELSE <<>>)
    IN
    /\ mKeyStrokeInfo' = t3
    /\ mCLockOn' = CLockOn
    /\ mCLockChanged' = ((mCLockChanged /\ ~CLockReleased(keys)) \/ CLockOn # mCLockOn)
    /\ mModifiers' = IF cur # {} \/ changed THEN Modifiers ELSE mModifiers
    /\ mPreviousModifiers' = IF success THEN Modifiers ELSE mPreviousModifiers
    /\ \E lost \in {FALSE, AllocationsFail /\ all # <<>>} : Queue(all, lost)
    /\ conIn' = IF ~Draining THEN conIn
                ELSE IF conIn > Len(keys) THEN conIn - Len(keys) - 1 ELSE 0
    /\ lastDown' = IF starved' THEN None
                   ELSE IF accepted # {}
                   THEN [key |-> downKey, polls |-> 0, repeated |-> lastDown.key = downKey]
                   ELSE IF cur # {} THEN [lastDown EXCEPT !.polls = @ + 1]
                   ELSE None
    /\ capsSpent' = (CLockOn # mCLockOn \/ (capsSpent /\ keys = held))
    /\ size' = 0
    /\ UNCHANGED <<inputVars, mKeyStrokePollEvent>>

\* The first GetKeyStrokes call, without a buffer: it succeeds when no key is
\* held, and else reports how many are.
PollCount ==
    /\ mKeyStrokePollEvent /\ size = 0
    /\ IF held = <<>> THEN HandleStrokes(<<>>, heldMods)
       ELSE /\ size' = Len(held) /\ events' = <<>>
            /\ UNCHANGED <<inputVars, conIn, mKeyStrokePollEvent, tableVars, clientKeys,
                           clientMods, starved, lastDown, capsSpent>>

\* The second call, with a buffer of that size.
Fits(s, n) == Len(s) <= n
PollKeys == size > 0 /\ Fits(held, size) /\ HandleStrokes(held, heldMods)

\* EFI_BUFFER_TOO_SMALL, after which no key and no modifier counts as held.
PollTooSmall == size > 0 /\ ~Fits(held, size) /\ HandleStrokes(<<>>, {})

\* No memory for the keys: the same.
PollNoMemory == size > 0 /\ AllocationsFail /\ HandleStrokes(<<>>, {})

\* ok: the timer can be created.  What is known of the keys is kept.
EventCreateKeyStrokePollEvent(ok) ==
    /\ ~mKeyStrokePollEvent
    /\ mKeyStrokePollEvent' = ok
    /\ UNCHANGED <<inputVars, conIn, tableVars, size, clientVars>>

EventCancelKeyStrokePollEvent ==
    /\ mKeyStrokePollEvent /\ size = 0
    /\ mKeyStrokePollEvent' = FALSE
    /\ UNCHANGED <<inputVars, conIn, tableVars, size, clientVars>>

Poll == PollCount \/ PollKeys \/ PollTooSmall

Next ==
    \/ \E k \in KeyCodes : KeyReleased(k) \/ \E i \in 1..MaxHeld : KeyPressed(k, i)
    \/ \E m \in ModifierBits : ModifierToggled(m)
    \/ Poll \/ PollNoMemory
    \/ \E ok \in BOOLEAN : EventCreateKeyStrokePollEvent(ok)
    \/ EventCancelKeyStrokePollEvent

Spec == Init /\ [][Next]_vars

\* The timer is periodic: while it exists, polls happen and come to their end.
LiveSpec == Spec /\ WF_vars(Poll)

----------------------------------------------------------------------------
Tracked == Codes(mKeyStrokeInfo)

Infos == [code : KeyCodes \cup {NoKey}, current : BOOLEAN,
          strokes : 0..(mKeyInitialDelay + mKeySubsequentDelay - 1)]

\* The table holds a key once, free slots hold nothing, and at most one key is the
\* current stroke ("cancel all previous inputs"): InternalGetCurrentStroke finds
\* the newest key and only that one repeats.
TypeOK ==
    /\ mKeyStrokeInfo \in [Slots -> Infos]
    /\ \A i \in Slots : mKeyStrokeInfo[i].code = NoKey => mKeyStrokeInfo[i] = Empty
    /\ \A i, j \in Slots : mKeyStrokeInfo[i].code = mKeyStrokeInfo[j].code
                               => i = j \/ mKeyStrokeInfo[i].code = NoKey
    /\ Cardinality({i \in Slots : mKeyStrokeInfo[i].current}) <= 1
    /\ {mModifiers, mPreviousModifiers} \subseteq ModifierMaps
    /\ {mCLockOn, mCLockChanged, mKeyStrokePollEvent} \subseteq BOOLEAN
    /\ size \in 0..MaxHeld

\* InternalGetCurrentKeyStroke reports modifiers as changed exactly when the
\* poll function sends them: mModifiers and mPreviousModifiers agree after every
\* poll, although a different condition guards each.  Unless an event was lost,
\* MODIFIER_UP and MODIFIER_DOWN events add up to that set, and KEY_DOWN and
\* KEY_UP events to the table: a key enters it with a KEY_DOWN and leaves it with
\* a KEY_UP, through full tables, several keys pressed at once, failed reads and
\* stopped timers.
EventsAddUp ==
    /\ mModifiers = mPreviousModifiers
    /\ ~starved => clientMods = mModifiers /\ clientKeys = Tracked

KeyUps == {n \in 1..Len(events) : events[n].type = "KEY_UP"}
KeyDowns == {n \in 1..Len(events) : events[n].type = "KEY_DOWN"}

\* A key that is not CapsLock is released once, and only after it was pressed.
\* (CapsLock is both in the table and in mCLockChanged: it is released twice.)
ReleasedOnce ==
    [][size' = 0 /\ ~starved' /\ events' # events =>
         \A n \in KeyUps' : events'[n].key # CLock =>
             /\ events'[n].key \in clientKeys
             /\ \A m \in KeyUps' : events'[m].key = events'[n].key => m = n]_vars

\* CapsLock toggles once for a press, however long it is held, with the table
\* full and with other new keys ahead of it in the list.  Only a failed read of
\* the keys (EFI_BUFFER_TOO_SMALL, no memory) makes it count as pressed anew.
CapsTogglesOnce == [][mCLockOn' # mCLockOn => ~capsSpent]_vars


\* Once the keys stay as they are, the table ends up with exactly these keys,
\* although a poll takes in one new key at most ("CHECKME: is it intentional?"),
\* provided they fit.
KeysSettle ==
    (<>[][UNCHANGED inputVars]_vars /\ <>[]mKeyStrokePollEvent)
        => <>[](Tracked = Range(held) \/ Len(held) > InfoSize)
=============================================================================
