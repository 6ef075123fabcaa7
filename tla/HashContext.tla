----------------------------- MODULE HashContext -----------------------------
(***************************************************************************)
(* Hash types and contexts: crypto/hash.c and its backend                  *)
(* crypto/hash-openssl.c.  Looking a type up and counting it, registering  *)
(* and unregistering are one step each, being sections under alg_lock      *)
(* (RegistryProofs proves that such sections implement single steps); the  *)
(* decrements, which take no lock, are steps of their own.                 *)
(***************************************************************************)
EXTENDS Integers, FiniteSets

CONSTANTS
  Threads,
  Ctxs,       \* the contexts there is memory for
  Types,      \* struct cfe_hash_type of the backends and of the program
  Complete,   \* those with a name, a digestsize and an alloc_ctx()
  Openssl,    \* those of hash-openssl.c
  NameOf,     \* type->name
  NoType

ASSUME HashContextAssumption ==
  /\ Complete \subseteq Types
  /\ Openssl \subseteq Complete
  /\ IsFiniteSet(Threads) /\ IsFiniteSet(Ctxs)
  /\ Threads \cap Ctxs = {}
  /\ NoType \notin Types

VARIABLES
  listed,   \* the types on alg_list
  refcnt,   \* type->refcnt
  pc,
  type,     \* local variable `type' of the running call
  ctype,    \* ctx->type of every context, NoType when it is free
  digest,   \* its EVP_MD_CTX: "open" from an init to the finalize, or "closed"
  crashed   \* the process died

vars == <<listed, refcnt, pc, type, ctype, digest, crashed>>
contexts == <<ctype, digest>>

Init ==
  /\ listed = {}
  /\ refcnt = [ty \in Types |-> 0]
  /\ pc = [t \in Threads |-> "idle"]
  /\ type = [t \in Threads |-> NoType]
  /\ ctype = [c \in Ctxs |-> NoType]
  /\ digest = [c \in Ctxs |-> "closed"]
  /\ crashed = FALSE

Goto(t, from, to) == ~crashed /\ pc[t] = from /\ pc' = [pc EXCEPT ![t] = to]
Return(t) == pc' = [pc EXCEPT ![t] = "idle"] /\ type' = [type EXCEPT ![t] = NoType]

find_alg(name) == {ty \in listed : NameOf[ty] = name}

-----------------------------------------------------------------------------
(***************************************************************************)
(* Types.  A registration that is refused (EINVAL, EBUSY) changes nothing. *)
(***************************************************************************)
Enlist(ty) ==
  /\ ~crashed
  /\ find_alg(NameOf[ty]) = {}
  /\ refcnt' = [refcnt EXCEPT ![ty] = 1]
  /\ listed' = listed \cup {ty}
  /\ UNCHANGED <<pc, type, contexts, crashed>>

\* Mutant: nothing is asked of the type.
register_unchecked(ty) == Enlist(ty)

cfe_hash_register(ty) == ty \in Complete /\ Enlist(ty)

\* Mutant: the counter is not looked at.
unregister_unchecked(ty) ==
  /\ ~crashed
  /\ listed' = listed \ {ty}
  /\ UNCHANGED <<refcnt, pc, type, contexts, crashed>>

cfe_hash_unregister(ty) ==
  /\ ~crashed
  /\ refcnt[ty] = 1
  /\ listed' = listed \ {ty}
  /\ UNCHANGED <<refcnt, pc, type, contexts, crashed>>

-----------------------------------------------------------------------------
(***************************************************************************)
(* cfe_hash_alloc_ctx(algname) and cfe_hash_destroy_ctx(ctx)               *)
(***************************************************************************)
\* Bound: no more allocations run than there are free contexts.
MemoryLeft == Cardinality({t \in Threads : pc[t] = "alloc"})
            < Cardinality({c \in Ctxs : ctype[c] = NoType})

AllocRef(t, name) ==
  /\ Goto(t, "idle", "alloc")
  /\ MemoryLeft
  /\ \E ty \in find_alg(name) :
       /\ refcnt' = [refcnt EXCEPT ![ty] = @ + 1]
       /\ type' = [type EXCEPT ![t] = ty]
  /\ UNCHANGED <<listed, contexts, crashed>>

\* The callback gives a zeroed context, and ctx->type is set.
AllocDone(t, c) ==
  /\ ~crashed /\ pc[t] = "alloc"
  /\ ctype[c] = NoType
  /\ ctype' = [ctype EXCEPT ![c] = type[t]]
  /\ Return(t)
  /\ UNCHANGED <<listed, refcnt, digest, crashed>>

\* Mutant: NULL is returned at once.
AllocNullForgets(t) ==
  /\ ~crashed /\ pc[t] = "alloc"
  /\ type[t] \notin Openssl
  /\ Return(t)
  /\ UNCHANGED <<listed, refcnt, contexts, crashed>>

\* A callback of the program returns NULL.
AllocNull(t) ==
  /\ Goto(t, "alloc", "put")
  /\ type[t] \notin Openssl
  /\ UNCHANGED <<listed, refcnt, type, contexts, crashed>>

\* openssl_alloc_ctx() without memory returns &octx->base of a NULL octx,
\* which passes `if (!ctx)' and is written to.
OpensslNoMemory(t) ==
  /\ ~crashed /\ pc[t] = "alloc"
  /\ type[t] \in Openssl
  /\ crashed' = TRUE
  /\ UNCHANGED <<listed, refcnt, pc, type, contexts>>

openssl_destroy_ctx(c) ==
  /\ ctype' = [ctype EXCEPT ![c] = NoType]
  /\ digest' = [digest EXCEPT ![c] = "closed"]

Destroy(t, c) ==
  /\ Goto(t, "idle", "put")
  /\ ctype[c] # NoType
  /\ type' = [type EXCEPT ![t] = ctype[c]]
  /\ openssl_destroy_ctx(c)
  /\ UNCHANGED <<listed, refcnt, crashed>>

\* The cfe_atomic_dec() of a failed allocation and of destroy.
Put(t) ==
  /\ ~crashed /\ pc[t] = "put"
  /\ refcnt' = [refcnt EXCEPT ![type[t]] = @ - 1]
  /\ Return(t)
  /\ UNCHANGED <<listed, contexts, crashed>>

-----------------------------------------------------------------------------
(***************************************************************************)
(* The calls on a context.  cfe_hash_ctx_digestsize() reads the type only. *)
(* Nothing keeps an update or a finalize off a digest that is closed: the  *)
(* process dies in OpenSSL, which goes through a pointer to no digest.     *)
(***************************************************************************)
Live(c) == ~crashed /\ ctype[c] # NoType
Digest(c, state) == digest' = [digest EXCEPT ![c] = state] /\ UNCHANGED crashed
Dies == crashed' = TRUE /\ UNCHANGED digest
OnlyDigest == UNCHANGED <<listed, refcnt, pc, type, ctype>>

\* EVP_DigestInit_ex() starts a digest, or fails; a failure leaves none.
openssl_generic_ctx_init(c) == \E result \in {"open", "closed"} : Digest(c, result)

cfe_hash_ctx_init(c) == Live(c) /\ openssl_generic_ctx_init(c) /\ OnlyDigest

openssl_generic_ctx_update(c) ==
  \/ digest[c] = "open" /\ Digest(c, "open")
  \/ digest[c] = "closed" /\ Dies

cfe_hash_ctx_update(c) == Live(c) /\ openssl_generic_ctx_update(c) /\ OnlyDigest

\* EVP_DigestFinal() cleans the context up, whether it fails or not.
openssl_generic_ctx_finalize(c) ==
  \/ digest[c] = "open" /\ Digest(c, "closed")
  \/ digest[c] = "closed" /\ Dies

cfe_hash_ctx_finalize(c) == Live(c) /\ openssl_generic_ctx_finalize(c) /\ OnlyDigest

-----------------------------------------------------------------------------
Step(t) ==
  \/ (\E c \in Ctxs : AllocDone(t, c)) \/ AllocNull(t) \/ OpensslNoMemory(t)
  \/ Put(t)

Next ==
  \/ \E ty \in Types : cfe_hash_register(ty) \/ cfe_hash_unregister(ty)
  \/ \E t \in Threads, ty \in Types : AllocRef(t, NameOf[ty])
  \/ \E t \in Threads, c \in Ctxs : Destroy(t, c)
  \/ \E t \in Threads : Step(t)
  \/ \E c \in Ctxs : cfe_hash_ctx_init(c) \/ cfe_hash_ctx_update(c) \/ cfe_hash_ctx_finalize(c)

Spec == Init /\ [][Next]_vars

-----------------------------------------------------------------------------
Owners == Threads \cup Ctxs
Users == [o \in Owners |-> IF o \in Ctxs THEN ctype[o] ELSE type[o]]
Holders(ty) == {o \in Owners : Users[o] = ty}

(***************************************************************************)
(* Every variable has a value of its type.                                 *)
(***************************************************************************)
TypeOK ==
  /\ listed \subseteq Types
  /\ refcnt \in [Types -> Int]
  /\ pc \in [Threads -> {"idle", "alloc", "put"}]
  /\ type \in [Threads -> Types \cup {NoType}]
  /\ ctype \in [Ctxs -> Types \cup {NoType}]
  /\ digest \in [Ctxs -> {"closed", "open"}]
  /\ crashed \in BOOLEAN

(***************************************************************************)
(* The counter of a type is the list's reference, one for each context and *)
(* one for each allocation or destruction that is running; a callback that *)
(* returns NULL gives its reference back.                                  *)
(***************************************************************************)
RefsBalanced ==
  \A ty \in Types :
    \/ refcnt[ty] = 0 /\ ty \notin listed /\ Holders(ty) = {}
    \/ refcnt[ty] = 1 + Cardinality(Holders(ty))

(***************************************************************************)
(* alloc_ctx() is called without a lock through the pointer of a type that *)
(* was found by name: it has that callback, and it is still registered.    *)
(***************************************************************************)
CallbackExists ==
  \A t \in Threads : pc[t] = "alloc" => type[t] \in Complete \cap listed

(***************************************************************************)
(* The calls implement the promise of a registry: a type that a context or *)
(* a running call uses cannot be unregistered, and names are unique.       *)
(***************************************************************************)
Abs == INSTANCE RegistryAbs
         WITH KeyOf <- NameOf, HasDefault <- FALSE, users <- Users, newest <- NoType
ImplementsRegistry == Abs!Spec
=============================================================================
