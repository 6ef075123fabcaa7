-------------------------- MODULE MCKeystoreDarwin --------------------------
(***************************************************************************)
(* Three threads on one description: every race the lock has to order.     *)
(* One payload fits the callers' buffer, the other does not.               *)
(***************************************************************************)
EXTENDS KeystoreDarwin, TLC

CONSTANTS t1, t2, t3, d1, p1, p2, x1, x2, x3

MCThreads == {t1, t2, t3}
MCDescs == {d1}
MCPayloads == {p1, p2}
MCLength == [p \in MCPayloads |-> IF p = p1 THEN 1 ELSE 2]
MCBuffers == {1}
MCDatas == {x1, x2, x3}
MCSymmetry == Permutations(MCThreads) \cup Permutations(MCDatas)
=============================================================================
