------------------------------ MODULE MCCipher -------------------------------
(***************************************************************************)
(* The contexts as in MCCipherContext.  Of the data: blocks of two bytes   *)
(* and ints of four bits, and sizes of nothing, less than a block, more    *)
(* than a block, one that is a negative int and one that is no int.        *)
(***************************************************************************)
EXTENDS Ciphers, MCCipherContext

MCDataSizes == {0, 1, 3, 9, 17}
=============================================================================
