---------------------------- MODULE MCFileCreate ----------------------------
(***************************************************************************)
(* Pages of 4 bytes and a 16-value "uint32_t": the size 13 rounds up to 16 *)
(* and wraps to 0.                                                         *)
(***************************************************************************)
EXTENDS FileCreate, TLC

CONSTANTS t1, t2, f1, tty, x1, x2, aes, nosuch

MCThreads == {t1, t2}
MCFds == {f1, tty}
MCDevices == {tty}
MCFiles == {x1, x2}
MCCiphers == {aes}
MCNames == {aes, nosuch}
MCSizes == {0, 5, 13}

MCSymmetry == Permutations(MCThreads) \cup Permutations(Files)
=============================================================================
