----------------------------- MODULE MCAIKData -----------------------------
(* Three keyboard reports; a press of one key in two different states.       *)
EXTENDS AIKData

CONSTANTS a, b, plain, shifted

MCKeyDatas == {<<a, plain>>, <<b, plain>>, <<a, shifted>>}
=============================================================================
