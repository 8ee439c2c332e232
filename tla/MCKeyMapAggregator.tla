------------------------- MODULE MCKeyMapAggregator -------------------------
(* Two readers, at TPL_APPLICATION (4) and TPL_CALLBACK (8), over key sets   *)
(* of up to two keys.  The buffer of the second may be too small.            *)
EXTENDS KeyMapAggregator

KeySymmetry == Permutations(KeyCodes)

MCCallerSizes == [r \in Readers |-> IF r = 8 THEN {1} ELSE {2}]

MCQueries == [mods : ModifierMaps, exact : BOOLEAN,
              keys : {s \in KeySeqs(2) : IsInjective(s)}]
=============================================================================
