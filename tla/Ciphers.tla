------------------------------- MODULE Ciphers -------------------------------
(***************************************************************************)
(* The two sides of the cipher contexts: how they come and go, with what   *)
(* keys (CipherContext), and the data that passes through one of them      *)
(* after an init that returned 0 (CipherData).                             *)
(***************************************************************************)
EXTENDS CipherContext

CONSTANTS BlockSize, IntMod, DataSizes, MaxGiven

VARIABLES
  side, kind, mode, iv, big, had, have, pad, padding, phase, buf, held, tag, last,
  given, taken, out, sealed, got

data == <<kind, mode, iv, big, had, have, pad, padding, phase, buf, held, tag, last,
          given, taken, out, sealed, got>>

Data == INSTANCE CipherData WITH Sizes <- DataSizes

ASSUME CiphersAssumption == Data!CipherDataAssumption

SideInit ==
  /\ side \in {"context", "data"}
  /\ Init /\ Data!Init
  /\ side = "context" => kind = "block" /\ mode = "encrypt" /\ iv /\ big /\ had.lo = 0

SideNext ==
  /\ UNCHANGED side
  /\ \/ side = "context" /\ Next /\ UNCHANGED data
     \/ side = "data" /\ Data!Next /\ UNCHANGED vars

SideSpec == SideInit /\ [][SideNext]_<<side, vars, data>>

-----------------------------------------------------------------------------
(***************************************************************************)
(* The lengths the caller is told, as CipherData.OutputLengthRight.        *)
(***************************************************************************)
OutputLengthRight == Data!OutputLengthRight

(***************************************************************************)
(* Nothing is lost or made up, as CipherData.DataConserved.                *)
(***************************************************************************)
DataConserved == Data!DataConserved

(***************************************************************************)
(* What an AEAD tag vouches for, as CipherData.TagsCoverTheMessage.        *)
(***************************************************************************)
TagsCoverTheMessage == Data!TagsCoverTheMessage
=============================================================================
