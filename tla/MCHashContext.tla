--------------------------- MODULE MCHashContext ----------------------------
(***************************************************************************)
(* A type of OpenSSL, one of the program with the same name, one with a    *)
(* name of its own, and one that lacks its alloc_ctx().                    *)
(***************************************************************************)
EXTENDS HashContext, TLC

CONSTANTS t1, t2, c1, c2, sha1, own, md5, empty

MCThreads == {t1, t2}
MCCtxs == {c1, c2}
MCTypes == {sha1, own, md5, empty}
MCComplete == {sha1, own, md5}
MCOpenssl == {sha1}
MCNameOf == [ty \in MCTypes |-> IF ty = empty THEN "none" ELSE IF ty = md5 THEN "md5" ELSE "sha1"]
MCSymmetry == Permutations(MCThreads) \cup Permutations(MCCtxs)
=============================================================================
