---------------------------- MODULE MCRegistryFs ----------------------------
(***************************************************************************)
(* The registry of fs/header.c: versions, a default type and a request     *)
(* that is narrowed to uint16_t.  Two backends have version 1, one has 2;  *)
(* 65537 narrows to 1.                                                    *)
(***************************************************************************)
EXTENDS Registry, TLC

CONSTANTS t1, t2, t3, h1, h2, v1, v1x, v2

MCThreads == {t1, t2, t3}
MCObjects == {h1, h2}
MCTypes == {v1, v1x, v2}
MCDefault == -1
MCRequests == {MCDefault, 2, 65537}
MCKeyOf == [ty \in MCTypes |-> IF ty = v2 THEN 2 ELSE 1]
MCKeyFor == [r \in MCRequests |-> r % 65536]

MCSymmetry == Permutations(MCThreads) \cup Permutations(MCObjects)
=============================================================================
