----------------------------- MODULE MCScopedUse -----------------------------
(***************************************************************************)
(* Two key derivations of one name and one without derive(), two sources   *)
(* of random numbers, and an int of three bits: sizes that fit, that are   *)
(* narrowed to a negative number, to 0, and to a smaller one.              *)
(***************************************************************************)
EXTENDS ScopedUse, TLC

CONSTANTS t1, t2, kdf, kdf2, empty, rand, rand2

MCThreads == {t1, t2}
MCKdfTypes == {kdf, kdf2, empty}
MCRandTypes == {rand, rand2}
MCComplete == {kdf, kdf2, rand, rand2}
MCNameOf == [ty \in MCKdfTypes \cup MCRandTypes |->
               IF ty \in MCRandTypes THEN "rand" ELSE IF ty = empty THEN "" ELSE "sha1"]
MCSizes == {0, 3, 5, 8, 10}
MCSymmetry == Permutations(MCThreads) \cup Permutations({kdf, kdf2}) \cup Permutations(MCRandTypes)
=============================================================================
