---------------------------- MODULE MCFileWriter -----------------------------
(***************************************************************************)
(* Three versions, two types of version 2, and an unsigned of three bits   *)
(* whose largest number is the version that -1 converts to.                *)
(***************************************************************************)
EXTENDS FileWriter, TLC

CONSTANTS t1, t2, w1, w2, v1, v2, v2b, vmax, aes

MCThreads == {t1, t2}
MCWriters == {w1, w2}
MCTypes == {v1, v2, v2b, vmax}
MCCiphers == {aes}
MCVersion == [ty \in MCTypes |-> IF ty = v1 THEN 1 ELSE IF ty = vmax THEN 7 ELSE 2]
MCRequests == {-1, 1, 2}
MCSymmetry == Permutations(MCThreads) \cup Permutations(MCWriters) \cup Permutations({v2, v2b})
=============================================================================
