----------------------------- MODULE MCAIKPoll -----------------------------
(* Reports of the characters in Chars; of Escape, which has only a scan      *)
(* code; of an upper case letter with a PS/2 code, whose firmware reports no  *)
(* shift state; and of a modifier alone.                                     *)
EXTENDS AIKPoll, TLC

CONSTANTS Chars, upper, none, escCode, upperCode, leftShift, leftGui, modLeftShift, modLeftGui

MCCodes == {<<c>> : c \in Chars \cup {escCode, upperCode}}
MCAsciiToUsb == [c \in Chars \cup {upper, none} |->
    [UsbCode |-> IF c \in Chars THEN <<c>> ELSE UsbHidUndefined,
     ShiftState |-> IF c = upper THEN {leftShift} ELSE {}]]
MCScanCodeToUsb == <<<<escCode>>>> @@ (0 :> UsbHidUndefined)
MCPs2KeyToUsb == <<<<upperCode>>>>
MCModifierRemap == (leftShift :> modLeftShift) @@ (leftGui :> modLeftGui)

Report(ps2, uni, scan, valid, pressed) ==
    <<[ps2 |-> ps2, uni |-> uni, scan |-> scan], [valid |-> valid, pressed |-> pressed]>>
MCKeyDatas ==
    {Report(0, c, 0, TRUE, {}) : c \in Chars} \cup
    {Report(0, none, 1, TRUE, {}), Report(1, upper, 0, FALSE, {}),
     Report(0, none, 0, TRUE, {leftGui})}

CharSymmetry == Permutations(Chars)
=============================================================================
