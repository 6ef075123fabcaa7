------------------------------ MODULE MCStartup ------------------------------
(***************************************************************************)
(* Two threads in main(), and a program whose constructor may take one     *)
(* name of the ciphers, of the hashes and of the headers.                  *)
(***************************************************************************)
EXTENDS Startup

CONSTANTS t1, t2

MCMainThreads == {t1, t2}
MCClashes == {<<"cipher", "aes-gcm-256">>, <<"hash", "sha1">>, <<"header", 1>>}
=============================================================================
