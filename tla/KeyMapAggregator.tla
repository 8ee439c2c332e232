-------------------------- MODULE KeyMapAggregator --------------------------
(***************************************************************************)
(* The Apple key map database and aggregator of                            *)
(* src/Library/OcAppleKeyMapLib/OcAppleKeyMapLib.c.                        *)
(*                                                                         *)
(* Keyboard drivers create key sets in the database and overwrite them from *)
(* timer handlers at TPL_NOTIFY.  GetKeyStrokes walks all sets and collects *)
(* the distinct keys in a scratch buffer that every caller shares.  It      *)
(* takes no lock and raises no TPL, so a walk is a sequence of steps here:  *)
(* writers may run between any two of them, and so may a whole walk of a    *)
(* reader of a higher TPL.                                                  *)
(***************************************************************************)
EXTENDS Integers, Sequences, FiniteSets, SequencesExt

CONSTANTS
    KeyCodes,          \* key codes a driver can report
    ModifierBits,      \* bits of an APPLE_MODIFIER_MAP
    Readers,           \* TPLs from which GetKeyStrokes is called (integers)
    BufferLengths,     \* lengths drivers ask for in CreateKeyStrokesBuffer
    CallerSizes,       \* per reader, the buffer sizes it passes to GetKeyStrokes
    Queries,           \* queries made of ContainsKeyStrokes
    FirstIndex,        \* 3000 in the code
    DbKeyCodesSize,    \* ARRAY_SIZE (DbKeyCodes) in ContainsKeyStrokes
    MaxCreates,        \* bound: successful creations in a behaviour
    MaxTotalLength     \* bound: largest KeyCodeBufferLength explored

ASSUME KeyMapAssumption ==
    /\ Readers \subseteq Int /\ IsFiniteSet(Readers)
    /\ BufferLengths \subseteq Nat \ {0}
    /\ CallerSizes \in [Readers -> SUBSET Nat]
    /\ FirstIndex \in Nat /\ DbKeyCodesSize \in Nat
    /\ MaxCreates \in Nat /\ MaxTotalLength \in Nat
    /\ 0 \notin KeyCodes

VARIABLES
    NextKeyStrokeIndex,
    KeyCodeBuffer,       \* the scratch buffer's slots, or NULL
    KeyCodeBufferLength,
    KeyStrokesInfoList,  \* the key sets, in list order
    walk,                \* the GetKeyStrokes call in progress, per reader
    result               \* what the call that returned in the last step gave

vars == <<NextKeyStrokeIndex, KeyCodeBuffer, KeyCodeBufferLength,
          KeyStrokesInfoList, walk, result>>

NULL == <<>>                     \* no buffer has length 0: lengths start at 1
ModifierMaps == SUBSET ModifierBits
KeySeqs(n) == UNION {[1..m -> KeyCodes] : m \in 0..n}
Capacity == Len(KeyCodeBuffer)

\* The keys the database holds, in all sets.
HeldKeys == UNION {Range(KeyStrokesInfoList[i].KeyCodes) :
                       i \in 1..Len(KeyStrokesInfoList)}
HeldModifiers == UNION {KeyStrokesInfoList[i].Modifiers :
                            i \in 1..Len(KeyStrokesInfoList)}

\* seen and quiet are history: the keys held at some time since the call
\* began, and whether no set was written since then.
Idle == [active |-> FALSE]
Walks == [active : {TRUE}, size : Nat, entry : Nat, index : Nat \cup {-1},
          num : Nat, mods : ModifierMaps, seen : SUBSET KeyCodes,
          quiet : BOOLEAN]

NoResult == [call |-> "none"]

Init ==
    /\ NextKeyStrokeIndex = FirstIndex
    /\ KeyCodeBuffer = NULL
    /\ KeyCodeBufferLength = 0
    /\ KeyStrokesInfoList = <<>>
    /\ walk = [r \in Readers |-> Idle]
    /\ result = NoResult

NoWalk == \A r \in Readers : ~walk[r].active

----------------------------------------------------------------------------
(* The database protocol.  Sets are created and removed by drivers that     *)
(* start and stop, which no walk is in the middle of.                       *)

InternalGetKeyStrokesByIndex(Index) ==
    {i \in 1..Len(KeyStrokesInfoList) : KeyStrokesInfoList[i].Index = Index}

TotalLength(BufferLength) == KeyCodeBufferLength + BufferLength

IndexFromCount == FirstIndex + Len(KeyStrokesInfoList)
NewIndex == NextKeyStrokeIndex

\* The scratch buffer is freed and its recorded length raised before the two
\* allocations; outcome says which of them succeed.
InternalCreateKeyStrokesBuffer(BufferLength, outcome) ==
    LET TotalBufferLength == TotalLength(BufferLength) IN
    /\ NoWalk
    /\ TotalBufferLength <= MaxTotalLength
    /\ NextKeyStrokeIndex < FirstIndex + MaxCreates
    /\ KeyCodeBufferLength' = TotalBufferLength
    /\ KeyCodeBuffer' = IF outcome = "no buffer" THEN NULL
                        ELSE [i \in 1..TotalBufferLength |-> 0]
    /\ IF outcome = "created"
       THEN /\ KeyStrokesInfoList' = Append(KeyStrokesInfoList,
                   [Index |-> NewIndex, Modifiers |-> {},
                    KeyCodeBufferLength |-> BufferLength, KeyCodes |-> <<>>])
            /\ NextKeyStrokeIndex' = NextKeyStrokeIndex + 1
       ELSE UNCHANGED <<KeyStrokesInfoList, NextKeyStrokeIndex>>
    /\ result' = NoResult
    /\ UNCHANGED walk

\* The scratch buffer is neither shrunk nor reallocated.
InternalRemoveKeyStrokesBuffer(Index) ==
    /\ NoWalk
    /\ \E i \in InternalGetKeyStrokesByIndex(Index) :
           /\ KeyCodeBufferLength' =
                  KeyCodeBufferLength - KeyStrokesInfoList[i].KeyCodeBufferLength
           /\ KeyStrokesInfoList' = RemoveAt(KeyStrokesInfoList, i)
    /\ result' = NoResult
    /\ UNCHANGED <<NextKeyStrokeIndex, KeyCodeBuffer, walk>>

Fits(i, n) == KeyStrokesInfoList[i].KeyCodeBufferLength >= n

\* A timer handler at TPL_NOTIFY stores the keys of its set; the walks in
\* progress see the new contents from here on.
InternalSetKeyStrokeBufferKeys(Index, Modifiers, Codes) ==
    /\ \E i \in InternalGetKeyStrokesByIndex(Index) :
           /\ Fits(i, Len(Codes))
           /\ KeyStrokesInfoList' = [KeyStrokesInfoList EXCEPT
                  ![i].Modifiers = Modifiers, ![i].KeyCodes = Codes]
    /\ walk' = [r \in Readers |->
                  IF walk[r].active
                  THEN [walk[r] EXCEPT !.seen = @ \cup Range(Codes), !.quiet = FALSE]
                  ELSE Idle]
    /\ result' = NoResult
    /\ UNCHANGED <<NextKeyStrokeIndex, KeyCodeBuffer, KeyCodeBufferLength>>

\* An unknown index, or more keys than the set was created for.
DatabaseCallFails(Index, n) ==
    /\ result' = NoResult
    /\ \A i \in InternalGetKeyStrokesByIndex(Index) : ~Fits(i, n)
    /\ UNCHANGED <<NextKeyStrokeIndex, KeyCodeBuffer, KeyCodeBufferLength,
                   KeyStrokesInfoList, walk>>

----------------------------------------------------------------------------
(* The aggregator protocol.                                                 *)

\* A reader runs only while no reader of a higher TPL does.
MayRun(r) == \A q \in Readers : q > r => ~walk[q].active

GetKeyStrokesBegin(r, size) ==
    /\ MayRun(r) /\ ~walk[r].active
    /\ walk' = [walk EXCEPT ![r] =
            [active |-> TRUE, size |-> size, entry |-> 1, index |-> -1, num |-> 0,
             mods |-> {}, seen |-> HeldKeys, quiet |-> TRUE]]
    /\ result' = NoResult
    /\ UNCHANGED <<NextKeyStrokeIndex, KeyCodeBuffer, KeyCodeBufferLength,
                   KeyStrokesInfoList>>

\* DbModifiers |= KeyStrokesInfo->Modifiers, on reaching a list entry.
GetKeyStrokesEntry(r) ==
    /\ MayRun(r) /\ walk[r].active
    /\ walk[r].entry <= Len(KeyStrokesInfoList) /\ walk[r].index = -1
    /\ walk' = [walk EXCEPT ![r].index = 0,
                  ![r].mods = @ \cup KeyStrokesInfoList[walk[r].entry].Modifiers]
    /\ result' = NoResult
    /\ UNCHANGED <<NextKeyStrokeIndex, KeyCodeBuffer, KeyCodeBufferLength,
                   KeyStrokesInfoList>>

StoredBeforeLast(num, Key) == \E j \in 1..(num - 1) : j <= Capacity /\ KeyCodeBuffer[j] = Key
Stored(num, Key) == \E j \in 1..num : j <= Capacity /\ KeyCodeBuffer[j] = Key

\* One key of the entry: stored in the next scratch slot unless it is already
\* there; past the last key, on to the next entry.  With no scratch buffer
\* the store goes through a NULL pointer.
GetKeyStrokesKey(r) ==
    LET w == walk[r]
        codes == KeyStrokesInfoList[w.entry].KeyCodes
        Key == codes[w.index + 1]
        stored == Stored(w.num, Key)
    IN
    /\ MayRun(r) /\ w.active
    /\ w.entry <= Len(KeyStrokesInfoList) /\ w.index >= 0
    /\ IF w.index >= Len(codes)
       THEN /\ walk' = [walk EXCEPT ![r].entry = @ + 1, ![r].index = -1]
            /\ UNCHANGED KeyCodeBuffer
       ELSE /\ walk' = [walk EXCEPT ![r].index = @ + 1,
                          ![r].num = IF stored THEN @ ELSE @ + 1]
            /\ KeyCodeBuffer' =
                   IF stored \/ w.num >= Capacity THEN KeyCodeBuffer
                   ELSE [KeyCodeBuffer EXCEPT ![w.num + 1] = Key]
    /\ result' = NoResult
    /\ UNCHANGED <<NextKeyStrokeIndex, KeyCodeBufferLength, KeyStrokesInfoList>>

\* The first num keys of the scratch buffer.  Without one they are read
\* through a NULL pointer: stale is what the platform has there.
ScratchSlots(num, stale) ==
    [j \in 1..num |-> IF j <= Capacity THEN KeyCodeBuffer[j] ELSE stale]
ScratchKeys(num, stale) == ScratchSlots(num, stale)

GetKeyStrokesReturn(r, stale) ==
    LET w == walk[r]
        fits == w.num <= w.size
    IN
    /\ MayRun(r) /\ w.active /\ w.entry > Len(KeyStrokesInfoList)
    /\ KeyCodeBuffer # NULL => stale = 0
    /\ walk' = [walk EXCEPT ![r] = Idle]
    /\ result' = [call |-> "GetKeyStrokes", num |-> w.num, size |-> w.size,
                  status |-> IF fits THEN "EFI_SUCCESS" ELSE "EFI_BUFFER_TOO_SMALL",
                  mods |-> IF fits THEN w.mods ELSE {},
                  keys |-> IF fits THEN ScratchKeys(w.num, stale) ELSE <<>>,
                  seen |-> w.seen, quiet |-> w.quiet]
    /\ UNCHANGED <<NextKeyStrokeIndex, KeyCodeBuffer, KeyCodeBufferLength,
                   KeyStrokesInfoList>>

OcKeyMapHasKeys(Keys, CheckKeys, ExactMatch) ==
    /\ ExactMatch => Len(Keys) = Len(CheckKeys)
    /\ \A c \in 1..Len(CheckKeys) : \E k \in 1..Len(Keys) : CheckKeys[c] = Keys[k]

\* Distinct keys of the database in the order an undisturbed walk meets them.
Aggregate ==
    FoldLeft(LAMBDA buf, info :
                FoldLeft(LAMBDA b, k : IF k \in Range(b) THEN b ELSE Append(b, k),
                         buf, info.KeyCodes),
             <<>>, KeyStrokesInfoList)

\* The status InternalContainsKeyStrokes returns.  "return FALSE" leaves the
\* function with the value 0, which is EFI_SUCCESS.
ContainsStatus(Modifiers, Codes, ExactMatch) ==
    LET DbKeyCodes == Aggregate
        DbModifiers == HeldModifiers
    IN  CASE Len(DbKeyCodes) > DbKeyCodesSize -> "EFI_BUFFER_TOO_SMALL"
          [] Len(DbKeyCodes) <= DbKeyCodesSize
             /\ (IF ExactMatch THEN DbModifiers # Modifiers
                 ELSE ~(Modifiers \subseteq DbModifiers)) -> "EFI_SUCCESS"
          [] OTHER -> IF OcKeyMapHasKeys(DbKeyCodes, Codes, ExactMatch)
                      THEN "EFI_SUCCESS" ELSE "EFI_NOT_FOUND"

\* A query that nothing preempts (its walk is the one modelled above).
InternalContainsKeyStrokes(Modifiers, Codes, ExactMatch) ==
    /\ NoWalk /\ (KeyCodeBuffer # NULL \/ HeldKeys = {})
    /\ result' = [call |-> "Contains", mods |-> Modifiers, keys |-> Codes,
                  exact |-> ExactMatch,
                  status |-> ContainsStatus(Modifiers, Codes, ExactMatch)]
    /\ LET DbKeyCodes == Aggregate IN
       KeyCodeBuffer' = [j \in 1..Capacity |->
            IF j <= Len(DbKeyCodes) THEN DbKeyCodes[j] ELSE KeyCodeBuffer[j]]
    /\ UNCHANGED <<NextKeyStrokeIndex, KeyCodeBufferLength, KeyStrokesInfoList, walk>>

----------------------------------------------------------------------------
Indices == FirstIndex..(FirstIndex + MaxCreates)
MaxLength == CHOOSE n \in BufferLengths : \A m \in BufferLengths : m <= n

Next ==
    \/ \E n \in BufferLengths, o \in {"created", "no info", "no buffer"} :
           InternalCreateKeyStrokesBuffer(n, o)
    \/ \E i \in Indices : InternalRemoveKeyStrokesBuffer(i)
    \/ \E i \in Indices, m \in ModifierMaps, c \in KeySeqs(MaxLength) :
           InternalSetKeyStrokeBufferKeys(i, m, c)
    \/ \E i \in Indices, n \in 0..(MaxLength + 1) : DatabaseCallFails(i, n)
    \/ \E r \in Readers : \E n \in CallerSizes[r] : GetKeyStrokesBegin(r, n)
    \/ \E r \in Readers : GetKeyStrokesEntry(r) \/ GetKeyStrokesKey(r)
    \/ \E r \in Readers, k \in KeyCodes \cup {0} : GetKeyStrokesReturn(r, k)
    \/ \E q \in Queries : InternalContainsKeyStrokes(q.mods, q.keys, q.exact)

Spec == Init /\ [][Next]_vars

----------------------------------------------------------------------------
Infos == [Index : Nat, Modifiers : ModifierMaps, KeyCodeBufferLength : BufferLengths,
          KeyCodes : KeySeqs(MaxLength)]

\* The recorded length covers all sets of the list together, and the buffer
\* allocated covers the recorded length: "KeyCodeBufferLength -=" in
\* RemoveKeyStrokesBuffer never goes below zero.
LengthAccounting ==
    /\ KeyCodeBufferLength >= FoldLeft(LAMBDA n, info : n + info.KeyCodeBufferLength,
                                       0, KeyStrokesInfoList)
    /\ KeyCodeBuffer # NULL => Capacity >= KeyCodeBufferLength

\* A driver's index names its own key set for good: no two sets share one and
\* SetKeyStrokeBufferKeys of a stale index finds nothing.
IndicesUnique ==
    \A i, j \in 1..Len(KeyStrokesInfoList) :
        /\ KeyStrokesInfoList[i].Index < NextKeyStrokeIndex
        /\ i # j => KeyStrokesInfoList[i].Index # KeyStrokesInfoList[j].Index

\* Every field of KEY_MAP_AGGREGATOR_DATA has its type, a set holds no more keys
\* than its KeyCodes array has slots, lengths add up and indices are unique.
TypeOK ==
    /\ NextKeyStrokeIndex \in Indices
    /\ KeyCodeBuffer \in Seq(KeyCodes \cup {0})
    /\ KeyCodeBufferLength \in Nat
    /\ KeyStrokesInfoList \in Seq(Infos)
    /\ \A i \in 1..Len(KeyStrokesInfoList) :
           Len(KeyStrokesInfoList[i].KeyCodes) <= KeyStrokesInfoList[i].KeyCodeBufferLength
    /\ \A r \in Readers : walk[r] = Idle \/ walk[r] \in Walks
    /\ LengthAccounting /\ IndicesUnique



\* Without a write in between the protocol's answers are exact.  GetKeyStrokes
\* returns each pressed key once and the modifiers of all sets, nested calls of
\* higher TPL readers notwithstanding, and asks for exactly that many slots when
\* the caller's buffer is too small.  ContainsKeyStrokes, whenever the modifiers
\* queried match, answers the question its documentation asks of the keys:
\* contained, or the same set.
QuietCallIsExact ==
    /\ (result.call = "GetKeyStrokes" /\ result.quiet /\ KeyCodeBuffer # NULL)
        => /\ result.num = Cardinality(result.seen)
           /\ result.status = "EFI_SUCCESS" =>
                  /\ Range(result.keys) = result.seen /\ result.num <= result.size
                  /\ result.mods = HeldModifiers
    /\ (result.call = "Contains" /\ Len(Aggregate) <= DbKeyCodesSize
         /\ (IF result.exact THEN result.mods = HeldModifiers
             ELSE result.mods \subseteq HeldModifiers))
        => (result.status = "EFI_SUCCESS") =
               IF result.exact THEN Range(result.keys) = HeldKeys
               ELSE Range(result.keys) \subseteq HeldKeys
=============================================================================
