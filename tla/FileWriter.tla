----------------------------- MODULE FileWriter ------------------------------
(***************************************************************************)
(* The writers' registry of fs/filewriter.c together with the cipher       *)
(* registry it calls.  cfe_filewriter_create() takes a reference of each   *)
(* and stores the type in the writer; the cipher goes to alloc(), and the  *)
(* only one there is (filewriter-v1.c) does not keep it: writer->cipher    *)
(* stays NULL and the reference is lost.  Locked sections are one step;    *)
(* the decrements, which take no lock, are steps of their own.             *)
(***************************************************************************)
EXTENDS Integers, FiniteSets

CONSTANTS
  Threads,
  Writers,    \* the writers there is memory for
  Types,      \* struct cfe_filewriter_type
  Ciphers,    \* struct cfe_cipher_type, each with a name of its own
  Version,    \* type->version, an unsigned
  Requests,   \* versions that callers ask for, ints
  UIntMod,    \* 2^32
  NoType

DEFAULT == -1   \* CFE_FILEWRITER_VERSION_DEFAULT

ASSUME FileWriterAssumption ==
  /\ IsFiniteSet(Threads) /\ IsFiniteSet(Writers)
  /\ Threads \cap Writers = {}
  /\ UIntMod \in Nat \ {0}
  /\ Version \in [Types -> 0..UIntMod - 1]
  /\ Requests \subseteq Int
  /\ NoType \notin Types \cup Ciphers
  /\ Types \cap Ciphers = {}

VARIABLES
  listed,    \* writer_list and the list of ciphers
  refcnt,    \* the counter of every type and cipher
  default,   \* writer_default
  pc,
  want,      \* argument `version'
  type,      \* local variable `type'
  ctype,     \* local variable `ctype'
  writer,    \* writer->type of every writer, NoType while it is free memory
  lost       \* history: the cipher referred to for a writer; no pointer has it

vars == <<listed, refcnt, default, pc, want, type, ctype, writer, lost>>
registries == <<listed, refcnt, default>>
created == <<writer, lost>>

Init ==
  /\ listed = {}
  /\ refcnt = [ty \in Types \cup Ciphers |-> 0]
  /\ default = NoType
  /\ pc = [t \in Threads |-> "idle"]
  /\ want = [t \in Threads |-> DEFAULT]
  /\ type = [t \in Threads |-> NoType]
  /\ ctype = [t \in Threads |-> NoType]
  /\ writer = [w \in Writers |-> NoType]
  /\ lost = [w \in Writers |-> NoType]

Goto(t, from, to) == pc[t] = from /\ pc' = [pc EXCEPT ![t] = to]
Inc(ty) == refcnt' = [refcnt EXCEPT ![ty] = @ + 1]
Dec(ty) == refcnt' = [refcnt EXCEPT ![ty] = @ - 1]
UNCHANGED_calls == UNCHANGED <<pc, want, type, ctype, created>>

-----------------------------------------------------------------------------
(***************************************************************************)
(* Registrations.  A refused call changes nothing but errno.               *)
(***************************************************************************)
\* The comparison is one of unsigned numbers: version is converted.
cfe_filewriter_find(version) ==
  {ty \in listed \cap Types : Version[ty] = version % UIntMod}

\* Mutant: the first type registered stays the default.
NewestFirst(ty) == IF default = NoType THEN ty ELSE default

Newest(ty) ==
  IF default = NoType \/ (Version[default] < Version[ty]) THEN ty ELSE default

cfe_filewriter_register(ty) ==
  /\ cfe_filewriter_find(Version[ty]) = {}
  /\ refcnt' = [refcnt EXCEPT ![ty] = 1]
  /\ listed' = listed \cup {ty}
  /\ default' = Newest(ty)
  /\ UNCHANGED_calls

cfe_filewriter_unregister(ty) ==
  /\ default # ty
  /\ refcnt[ty] = 1
  /\ listed' = listed \ {ty}
  /\ UNCHANGED <<refcnt, default>> /\ UNCHANGED_calls

cfe_cipher_register(c) ==
  /\ c \notin listed
  /\ refcnt' = [refcnt EXCEPT ![c] = 1]
  /\ listed' = listed \cup {c}
  /\ UNCHANGED default /\ UNCHANGED_calls

\* Mutant: the counter is not tested.
unregister_unchecked(c) ==
  /\ c \in listed
  /\ listed' = listed \ {c}
  /\ UNCHANGED <<refcnt, default>> /\ UNCHANGED_calls

cfe_cipher_unregister(c) ==
  /\ refcnt[c] = 1
  /\ listed' = listed \ {c}
  /\ UNCHANGED <<refcnt, default>> /\ UNCHANGED_calls

-----------------------------------------------------------------------------
(***************************************************************************)
(* cfe_filewriter_create(version, cipher, blocksize)                       *)
(***************************************************************************)
\* Bound: no more calls run than there is memory for writers.
MemoryLeft == Cardinality({t \in Threads : pc[t] # "idle"})
            < Cardinality({w \in Writers : writer[w] = NoType})

Answers(version) ==
  IF version = DEFAULT THEN {default} \ {NoType} ELSE cfe_filewriter_find(version)

TypeRef(t, version) ==
  /\ Goto(t, "idle", "cipher")
  /\ MemoryLeft
  /\ \E ty \in Answers(version) : Inc(ty) /\ type' = [type EXCEPT ![t] = ty]
  /\ want' = [want EXCEPT ![t] = version]
  /\ UNCHANGED <<listed, default, ctype, created>>

CipherRef(t, c) ==
  /\ Goto(t, "cipher", "alloc")
  /\ c \in listed
  /\ Inc(c)
  /\ ctype' = [ctype EXCEPT ![t] = c]
  /\ UNCHANGED <<listed, default, want, type, created>>

CipherUnknown(t, c) ==
  /\ Goto(t, "cipher", "put")
  /\ c \notin listed
  /\ UNCHANGED <<registries, want, type, ctype, created>>

\* type->alloc() succeeds.  It stores no cipher, create() only the type, and
\* both local variables are gone with the return.
AllocDone(t, w) ==
  /\ Goto(t, "alloc", "idle")
  /\ writer[w] = NoType
  /\ writer' = [writer EXCEPT ![w] = type[t]]
  /\ lost' = [lost EXCEPT ![w] = ctype[t]]
  /\ type' = [type EXCEPT ![t] = NoType]
  /\ ctype' = [ctype EXCEPT ![t] = NoType]
  /\ UNCHANGED <<registries, want>>

AllocNull(t) ==
  /\ Goto(t, "alloc", "put")
  /\ UNCHANGED <<registries, want, type, ctype, created>>

\* The end of every call that fails: type first, then the cipher if there is one.
TypePut(t) ==
  /\ Goto(t, "put", IF ctype[t] = NoType THEN "idle" ELSE "put_cipher")
  /\ Dec(type[t])
  /\ type' = [type EXCEPT ![t] = NoType]
  /\ UNCHANGED <<listed, default, want, ctype, created>>

\* Mutant: the cipher of a failed allocation is not put.
CipherPutForgotten(t) ==
  /\ Goto(t, "put_cipher", "idle")
  /\ ctype' = [ctype EXCEPT ![t] = NoType]
  /\ UNCHANGED <<registries, want, type, created>>

CipherPut(t) ==
  /\ Goto(t, "put_cipher", "idle")
  /\ Dec(ctype[t])
  /\ ctype' = [ctype EXCEPT ![t] = NoType]
  /\ UNCHANGED <<listed, default, want, type, created>>

Next ==
  \/ \E ty \in Types : cfe_filewriter_register(ty) \/ cfe_filewriter_unregister(ty)
  \/ \E c \in Ciphers : cfe_cipher_register(c) \/ cfe_cipher_unregister(c)
  \/ \E t \in Threads, version \in Requests : TypeRef(t, version)
  \/ \E t \in Threads, c \in Ciphers : CipherRef(t, c) \/ CipherUnknown(t, c)
  \/ \E t \in Threads, w \in Writers : AllocDone(t, w)
  \/ \E t \in Threads : AllocNull(t) \/ TypePut(t) \/ CipherPut(t)

Spec == Init /\ [][Next]_vars

-----------------------------------------------------------------------------
Owners == Threads \cup Writers
TypeUsers == [o \in Owners |-> IF o \in Writers THEN writer[o] ELSE type[o]]
CipherUsers == [o \in Owners |-> IF o \in Writers THEN lost[o] ELSE ctype[o]]
Holders(users, ty) == {o \in Owners : users[o] = ty}

(***************************************************************************)
(* Every variable has a value of its type.                                 *)
(***************************************************************************)
TypeOK ==
  /\ listed \subseteq Types \cup Ciphers
  /\ refcnt \in [Types \cup Ciphers -> Int]
  /\ default \in Types \cup {NoType}
  /\ pc \in [Threads -> {"idle", "cipher", "alloc", "put", "put_cipher"}]
  /\ want \in [Threads -> Requests \cup {DEFAULT}]
  /\ type \in [Threads -> Types \cup {NoType}]
  /\ ctype \in [Threads -> Ciphers \cup {NoType}]
  /\ writer \in [Writers -> Types \cup {NoType}]
  /\ lost \in [Writers -> Ciphers \cup {NoType}]

(***************************************************************************)
(* A type is counted once for each writer of it and each call that holds   *)
(* it; a cipher once for each call that holds it and once, for ever, for   *)
(* each create() that succeeded, whose reference nobody can put.  However  *)
(* a create fails, with one or two references in hand, it leaves none.     *)
(***************************************************************************)
RefsBalanced ==
  \A ty \in Types \cup Ciphers :
    LET users == IF ty \in Types THEN TypeUsers ELSE CipherUsers
    IN \/ refcnt[ty] = 0 /\ ty \notin listed /\ Holders(users, ty) = {}
       \/ refcnt[ty] = 1 + Cardinality(Holders(users, ty))

(***************************************************************************)
(* The default is never older than a listed type, in whatever order types  *)
(* came and went, and a create that asks for a version gets that version.  *)
(* A type of version 2^32 - 1 can be had as the default only: its number,  *)
(* as an int, is the -1 that asks for the default.                         *)
(***************************************************************************)
GetsWhatItAsked ==
  /\ \A ty \in listed \cap Types : default # NoType /\ Version[ty] <= Version[default]
  /\ \A t \in Threads : pc[t] \in {"cipher", "alloc"} /\ want[t] # DEFAULT =>
       Version[type[t]] = want[t] % UIntMod

(***************************************************************************)
(* One successful create() pins two plugins for good: its writer keeps its *)
(* type, which stays registered, and so does the cipher, though no writer  *)
(* and no call refers to it any more.  There is no call to undo either.    *)
(***************************************************************************)
PinnedForGood ==
  [][\A w \in Writers : writer[w] # NoType =>
       /\ writer'[w] = writer[w] /\ writer[w] \in listed'
       /\ lost'[w] = lost[w] /\ lost[w] \in listed']_vars

(***************************************************************************)
(* Both registries keep the promise of RegistryAbs: the default is the     *)
(* newest and stays, and a type is not unregistered under its users, which *)
(* for a cipher are the running calls and the lost references.  (The       *)
(* abstract registry lets any owner release; PinnedForGood says that a     *)
(* writer and a lost reference never do.)                                  *)
(***************************************************************************)
TypeRegistry == INSTANCE RegistryAbs
  WITH KeyOf <- Version, HasDefault <- TRUE,
       listed <- listed \cap Types, users <- TypeUsers, newest <- default
CipherRegistry == INSTANCE RegistryAbs
  WITH Types <- Ciphers, KeyOf <- [c \in Ciphers |-> c], HasDefault <- FALSE,
       listed <- listed \cap Ciphers, users <- CipherUsers, newest <- NoType
ImplementsRegistries == TypeRegistry!Spec /\ CipherRegistry!Spec
=============================================================================
