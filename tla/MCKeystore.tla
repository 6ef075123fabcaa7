----------------------------- MODULE MCKeystore ------------------------------
(***************************************************************************)
(* Of keystore-darwin.c three threads on one description, as in            *)
(* MCKeystoreDarwin.                                                       *)
(*                                                                         *)
(* Of keystore-linux.c two threads: while one is between its two system    *)
(* calls, the other may remove, add and update keys as often as it likes.  *)
(* Two descriptions, so that a serial number can be used again under the   *)
(* other one, and three serial numbers: one for each description and one   *)
(* that is out of date.  They are named as the data of the other keystore, *)
(* so that one symmetry serves both.                                       *)
(***************************************************************************)
EXTENDS Keystores, MCKeystoreDarwin

CONSTANT d2

MCLinuxThreads == {t1, t2}
MCLinuxDescs == {d1, d2}
=============================================================================
