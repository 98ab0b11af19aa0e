--------------------------- MODULE MCPrefixCache ---------------------------
(* A small prefix cache for TLC: two chunk contents, prompts of up to      *)
(* three chunks, snapshots of one or two units of memory.                  *)
EXTENDS PrefixCache, TLC

CONSTANTS Small, Large

MCStates == {Small, Large}

MCBytes(s) == IF s = Large THEN 2 ELSE 1

Symmetry == Permutations(Chunks)

============================================================================
