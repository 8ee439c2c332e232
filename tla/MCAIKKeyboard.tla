--------------------------- MODULE MCAIKKeyboard ---------------------------
(* All three protocols of AIKSource.c; a press of one key in two different   *)
(* states.                                                                   *)
EXTENDS AIKKeyboard

CONSTANTS a, plain, shifted

MCProtocols == <<"AmiKeycode", "TextInput", "TextInputEx">>
MCKeyDatas == {<<a, plain>>, <<a, shifted>>}
=============================================================================
