--------------------------- MODULE MCCipherContext ---------------------------
(***************************************************************************)
(* An AEAD type of OpenSSL with a short key, a type of the program's with  *)
(* the same name that is no AEAD and takes the longer key, and one that    *)
(* lacks its alloc_ctx().  Lengths of 0, of an IV shorter than the type's, *)
(* and of one too long.                                                    *)
(***************************************************************************)
EXTENDS CipherContext, TLC

CONSTANTS t1, t2, c1, c2, gcm, own, empty, k2, k3

MCThreads == {t1, t2}
MCCtxs == {c1, c2}
MCTypes == {gcm, own, empty}
MCComplete == {gcm, own}
MCNameOf == [ty \in MCTypes |-> IF ty = empty THEN "none" ELSE "aes-256-gcm"]
MCOpenssl == {gcm}
MCAead == {gcm}
MCKeySize == [ty \in MCTypes |-> IF ty = gcm THEN 2 ELSE 3]
MCIvSize == [ty \in MCTypes |-> 2]
MCKeys == {k2, k3}
MCSizeOf == [k \in MCKeys |-> IF k = k3 THEN 3 ELSE 2]
MCIvSizes == {0, 1, 3}
MCSymmetry == Permutations(MCThreads) \cup Permutations(MCCtxs)
=============================================================================
