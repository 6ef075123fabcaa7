------------------------------ MODULE Keystores ------------------------------
(***************************************************************************)
(* The keystore of a program whose build has a backend (one for BSD has    *)
(* none): cfe_keystore_set_default() has set it before main().  The calls  *)
(* of keystore.c go to that backend, and to no other.                      *)
(***************************************************************************)
EXTENDS KeystoreDarwin

CONSTANTS
  LinuxThreads,   \* the threads and the key descriptions of the Linux build
  LinuxDescs,
  Serials,        \* the serial numbers the kernel gives to keys
  NoKey           \* -1 as a key_serial_t

VARIABLES backend, ring, contents, linuxPc, linuxDesc, linuxLen, key, answer, seen

linuxVars == <<ring, contents, linuxPc, linuxDesc, linuxLen, key, answer, seen>>

Linux == INSTANCE KeystoreLinux
           WITH Threads <- LinuxThreads, Descs <- LinuxDescs,
                pc <- linuxPc, desc <- linuxDesc, len <- linuxLen

ASSUME KeystoresAssumption == Linux!KeystoreLinuxAssumption

BackendInit == backend \in {"darwin", "linux"} /\ Init /\ Linux!Init

BackendNext ==
  \/ backend = "darwin" /\ Next /\ UNCHANGED <<backend, linuxVars>>
  \/ backend = "linux" /\ Linux!Next /\ UNCHANGED <<backend, vars>>

BackendSpec == BackendInit /\ [][BackendNext]_<<backend, vars, linuxVars>>

-----------------------------------------------------------------------------
(***************************************************************************)
(* The answers of the Linux keystore, as KeystoreLinux.AnswersWereTrue.    *)
(***************************************************************************)
AnswersWereTrue == Linux!AnswersWereTrue

(***************************************************************************)
(* What a removal may take away, as KeystoreLinux.OnlyRequestedKeysVanish. *)
(***************************************************************************)
OnlyRequestedKeysVanish == Linux!OnlyRequestedKeysVanish
=============================================================================
