---------------------------- MODULE CipherContext ----------------------------
(***************************************************************************)
(* Cipher types and contexts: crypto/cipher.c over crypto/cipher-openssl.c.*)
(* A context is made by the alloc_ctx() of its type, keyed by an init that *)
(* makes three calls of OpenSSL in a row, and destroyed by its type; a     *)
(* type stays registered while a context, a caller of cfe_cipher_ref() or  *)
(* a running call has a reference.                                         *)
(*                                                                         *)
(* The registry appears as RegistryAbs shows it: a lookup with its         *)
(* increment, a registration and an unregistration are one step each       *)
(* (RegistryProofs proves that the locked ones implement that).  Decrements*)
(* are steps of their own, as they are in the code.  OpenSSL is external.  *)
(***************************************************************************)
EXTENDS Integers, FiniteSets

CONSTANTS
  Threads,
  Ctxs,       \* the contexts there is memory for
  Types,      \* struct cfe_cipher_type of the backends and of the program
  Complete,   \* those with a name, a blocksize and an alloc_ctx()
  NameOf,     \* type->name
  Openssl,    \* the types of cipher-openssl.c, and
  Aead,       \* ... those with CIPHER_TYPE_AEAD
  KeySize,    \* type->keysize
  IvSize,     \* type->ivsize
  Keys,       \* keys that callers have, and
  SizeOf,     \* ... their lengths
  IvSizes,    \* lengths that callers pass with an initialisation vector, or NULL
  NoType, NoCtx, NoKey

Modes == {"encrypt", "decrypt"}

ASSUME CipherContextAssumption ==
  /\ IsFiniteSet(Threads) /\ IsFiniteSet(Ctxs)
  /\ Complete \subseteq Types
  /\ Openssl \subseteq Complete
  /\ Aead \subseteq Types
  /\ KeySize \in [Types -> Nat]
  /\ IvSize \in [Types -> Nat]
  /\ SizeOf \in [Keys -> Nat]
  /\ IvSizes \subseteq Nat
  /\ NoType \notin Types
  /\ NoCtx \notin Ctxs
  /\ NoKey \notin Keys

VARIABLES
  listed,   \* the registered types
  refcnt,   \* type->refcnt
  kept,     \* what cfe_cipher_ref() gave a thread and it has not put
  pc,
  type,     \* local variable `type' of the running call
  ctx,      \* its argument `ctx'
  asked,    \* its arguments mode, key and isize
  ctype,    \* ctx->type of every context, NoType when it is free
  evp,      \* the EVP_CIPHER_CTX in it: mode, key and IV length
  agreed,   \* the arguments of the last init that returned 0
  crashed   \* the process died

registry == <<listed, refcnt>>
contexts == <<ctype, evp, agreed>>
locals == <<type, ctx, asked>>
vars == <<listed, refcnt, kept, pc, type, ctx, asked, ctype, evp, agreed, crashed>>

Nothing == [mode |-> "encrypt", key |-> NoKey, iv |-> 0]

Init ==
  /\ listed = {}
  /\ refcnt = [ty \in Types |-> 0]
  /\ kept = [t \in Threads |-> NoType]
  /\ pc = [t \in Threads |-> "idle"]
  /\ type = [t \in Threads |-> NoType]
  /\ ctx = [t \in Threads |-> NoCtx]
  /\ asked = [t \in Threads |-> Nothing]
  /\ ctype = [c \in Ctxs |-> NoType]
  /\ evp = [c \in Ctxs |-> Nothing]
  /\ agreed = [c \in Ctxs |-> Nothing]
  /\ crashed = FALSE

Set(f, x, v) == [f EXCEPT ![x] = v]
Goto(t, from, to) == ~crashed /\ pc[t] = from /\ pc' = Set(pc, t, to)
Return(t) == /\ pc' = Set(pc, t, "idle")
             /\ type' = Set(type, t, NoType)
             /\ ctx' = Set(ctx, t, NoCtx)
             /\ asked' = Set(asked, t, Nothing)
Inc(ty) == refcnt' = [refcnt EXCEPT ![ty] = @ + 1]
Dec(ty) == refcnt' = [refcnt EXCEPT ![ty] = @ - 1]

find_alg(name) == {ty \in listed : NameOf[ty] = name}

-----------------------------------------------------------------------------
(***************************************************************************)
(* The registry.  A registration that is refused changes nothing.          *)
(***************************************************************************)
cfe_cipher_register(ty) ==
  /\ ~crashed
  /\ ty \in Complete
  /\ find_alg(NameOf[ty]) = {}
  /\ listed' = listed \cup {ty}
  /\ refcnt' = Set(refcnt, ty, 1)
  /\ UNCHANGED <<kept, pc, locals, contexts, crashed>>

\* Mutant: the counter is not looked at.
unregister_unchecked(ty) ==
  /\ ~crashed
  /\ ty \in listed
  /\ listed' = listed \ {ty}
  /\ UNCHANGED <<refcnt, kept, pc, locals, contexts, crashed>>

cfe_cipher_unregister(ty) ==
  /\ ~crashed
  /\ refcnt[ty] = 1
  /\ listed' = listed \ {ty}
  /\ UNCHANGED <<refcnt, kept, pc, locals, contexts, crashed>>

\* A thread keeps one type at most.
cfe_cipher_ref(t, name) ==
  /\ Goto(t, "idle", "idle")
  /\ kept[t] = NoType
  /\ \E ty \in find_alg(name) : Inc(ty) /\ kept' = Set(kept, t, ty)
  /\ UNCHANGED <<listed, locals, contexts, crashed>>

cfe_cipher_put(t) ==
  /\ Goto(t, "idle", "idle")
  /\ kept[t] # NoType
  /\ Dec(kept[t])
  /\ kept' = Set(kept, t, NoType)
  /\ UNCHANGED <<listed, locals, contexts, crashed>>

-----------------------------------------------------------------------------
(***************************************************************************)
(* cfe_cipher_alloc_ctx(algname)                                           *)
(***************************************************************************)
\* Bound: no more allocations run than there are free contexts.
MemoryLeft == Cardinality({t \in Threads : pc[t] = "alloc"})
            < Cardinality({c \in Ctxs : ctype[c] = NoType})

AllocRef(t, name) ==
  /\ Goto(t, "idle", "alloc")
  /\ MemoryLeft
  /\ \E ty \in find_alg(name) : Inc(ty) /\ type' = Set(type, t, ty)
  /\ UNCHANGED <<listed, kept, ctx, asked, contexts, crashed>>

\* type->alloc_ctx() gives a zeroed context, and ctx->type is set.
AllocDone(t, c) ==
  /\ ~crashed /\ pc[t] = "alloc"
  /\ ctype[c] = NoType
  /\ ctype' = Set(ctype, c, type[t])
  /\ evp' = Set(evp, c, Nothing)
  /\ agreed' = Set(agreed, c, Nothing)
  /\ Return(t)
  /\ UNCHANGED <<registry, kept, crashed>>

\* Mutant: the reference of a failed allocation is not put.
AllocNullForgets(t) ==
  /\ ~crashed /\ pc[t] = "alloc"
  /\ type[t] \notin Openssl
  /\ Return(t)
  /\ UNCHANGED <<registry, kept, contexts, crashed>>

\* alloc_ctx() returns NULL, as one that is not of cipher-openssl.c may.
AllocNull(t) ==
  /\ Goto(t, "alloc", "put")
  /\ type[t] \notin Openssl
  /\ UNCHANGED <<registry, kept, locals, contexts, crashed>>

\* openssl_alloc_ctx() without memory: &octx->base of a NULL octx is not NULL,
\* `base' being the last member, so `if (!ctx)' is passed and ctx->type written.
OpensslNoMemory(t) ==
  /\ Goto(t, "alloc", "idle")
  /\ type[t] \in Openssl
  /\ crashed' = TRUE
  /\ UNCHANGED <<registry, kept, locals, contexts>>

\* The cfe_cipher_put() at the end of a failed allocation, and of destroy.
Put(t) ==
  /\ ~crashed /\ pc[t] = "put"
  /\ Dec(type[t])
  /\ Return(t)
  /\ UNCHANGED <<listed, kept, contexts, crashed>>

\* Callers give a context to one thread at a time.
Available(c) == ctype[c] # NoType /\ \A t \in Threads : ctx[t] # c

(***************************************************************************)
(* cfe_cipher_destroy_ctx(ctx)                                             *)
(***************************************************************************)
Destroy(t, c) ==
  /\ Goto(t, "idle", "put")
  /\ Available(c)
  /\ type' = Set(type, t, ctype[c])
  /\ ctype' = Set(ctype, c, NoType)
  /\ evp' = Set(evp, c, Nothing)
  /\ agreed' = Set(agreed, c, Nothing)
  /\ UNCHANGED <<registry, kept, ctx, asked, crashed>>

-----------------------------------------------------------------------------
(***************************************************************************)
(* cfe_cipher_ctx_init(ctx, mode, key, ksize, iv, isize).  An init that is *)
(* refused by these checks has no other effect than errno.  The isize that *)
(* comes with a NULL iv is not checked, and passed on all the same.        *)
(***************************************************************************)
Accepts(ty, key, iv, isize) == (iv => isize <= IvSize[ty]) /\ SizeOf[key] = KeySize[ty]

InitCall(t, c, mode, key, iv, isize) ==
  /\ Goto(t, "idle", "reset")
  /\ Available(c)
  /\ Accepts(ctype[c], key, iv, isize)
  /\ ctx' = Set(ctx, t, c)
  /\ asked' = Set(asked, t, [mode |-> mode, key |-> key, iv |-> isize])
  /\ UNCHANGED <<registry, kept, type, contexts, crashed>>

\* The first EVP_CipherInit_ex(): the cipher is set anew, whatever key the
\* context had is wiped, the IV has the length the cipher prescribes.
AfterReset(t) == [mode |-> asked[t].mode, key |-> NoKey, iv |-> IvSize[ctype[ctx[t]]]]

\* Mutant: only the mode is changed before the IV length and the key.
InitResetMode(t) ==
  /\ Goto(t, "reset", IF ctype[ctx[t]] \in Aead THEN "ivlen" ELSE "key")
  /\ evp' = [evp EXCEPT ![ctx[t]].mode = asked[t].mode]
  /\ UNCHANGED <<registry, kept, locals, ctype, agreed, crashed>>

InitReset(t) ==
  /\ Goto(t, "reset", IF ctype[ctx[t]] \in Aead THEN "ivlen" ELSE "key")
  /\ evp' = Set(evp, ctx[t], AfterReset(t))
  /\ UNCHANGED <<registry, kept, locals, ctype, agreed, crashed>>

\* EVP_CTRL_GCM_SET_IVLEN, which refuses a length of 0.
InitIvLen(t) ==
  /\ Goto(t, "ivlen", "key")
  /\ asked[t].iv > 0
  /\ evp' = [evp EXCEPT ![ctx[t]].iv = asked[t].iv]
  /\ UNCHANGED <<registry, kept, locals, ctype, agreed, crashed>>

\* The second EVP_CipherInit_ex() takes the key, and the init returns 0.
InitKey(t) ==
  /\ ~crashed /\ pc[t] = "key"
  /\ evp' = [evp EXCEPT ![ctx[t]].key = asked[t].key]
  /\ agreed' = Set(agreed, ctx[t], asked[t])
  /\ Return(t)
  /\ UNCHANGED <<registry, kept, ctype, crashed>>

\* OpenSSL reports a failure: return 1.  The first call may have wiped the key.
InitFails(t) ==
  /\ ~crashed /\ pc[t] \in {"reset", "ivlen", "key"}
  /\ evp' = IF pc[t] = "reset" THEN Set(evp, ctx[t], AfterReset(t)) ELSE evp
  /\ Return(t)
  /\ UNCHANGED <<registry, kept, ctype, agreed, crashed>>

-----------------------------------------------------------------------------
Call(t) ==
  \/ cfe_cipher_put(t)
  \/ \E ty \in Types : cfe_cipher_ref(t, NameOf[ty]) \/ AllocRef(t, NameOf[ty])
  \/ \E c \in Ctxs : Destroy(t, c)
  \/ \E c \in Ctxs, mode \in Modes, key \in Keys, iv \in BOOLEAN, isize \in IvSizes :
       InitCall(t, c, mode, key, iv, isize)

Step(t) ==
  \/ (\E c \in Ctxs : AllocDone(t, c)) \/ AllocNull(t) \/ Put(t)
  \/ InitReset(t) \/ InitIvLen(t) \/ InitKey(t) \/ InitFails(t)

\* While calloc() finds memory for OpenSSL's contexts ...
Next ==
  \/ \E ty \in Types : cfe_cipher_register(ty) \/ cfe_cipher_unregister(ty)
  \/ \E t \in Threads : Call(t) \/ Step(t)

Spec == Init /\ [][Next]_vars

\* ... and when it does not.
NextNoMemory == Next \/ \E t \in Threads : OpensslNoMemory(t)
SpecNoMemory == Init /\ [][NextNoMemory]_vars

-----------------------------------------------------------------------------
(***************************************************************************)
(* Every variable has a value of its type.                                 *)
(***************************************************************************)
Params == [mode : Modes, key : Keys \cup {NoKey}, iv : Nat]
TypeOK ==
  /\ listed \subseteq Types
  /\ refcnt \in [Types -> Int]
  /\ kept \in [Threads -> Types \cup {NoType}]
  /\ pc \in [Threads -> {"idle", "alloc", "put", "reset", "ivlen", "key"}]
  /\ type \in [Threads -> Types \cup {NoType}]
  /\ ctx \in [Threads -> Ctxs \cup {NoCtx}]
  /\ asked \in [Threads -> Params]
  /\ ctype \in [Ctxs -> Types \cup {NoType}]
  /\ evp \in [Ctxs -> Params]
  /\ agreed \in [Ctxs -> Params]
  /\ crashed \in BOOLEAN

\* A reference is a thread's own, that of its running call, or a context's.
Owners == ({"kept", "call"} \X Threads) \cup ({"ctx"} \X Ctxs)
Users == [o \in Owners |-> IF o[1] = "kept" THEN kept[o[2]]
                           ELSE IF o[1] = "call" THEN type[o[2]]
                           ELSE ctype[o[2]]]
Holders(ty) == {o \in Owners : Users[o] = ty}

(***************************************************************************)
(* The counter of a type that was ever registered is the list's reference, *)
(* one for each context, one for each caller of cfe_cipher_ref() and one   *)
(* for each running allocation or destruction: three kinds of owners put   *)
(* through one counter and none is forgotten on a failure.                 *)
(***************************************************************************)
RefsBalanced ==
  \A ty \in Types :
    \/ refcnt[ty] = 0 /\ ty \notin listed /\ Holders(ty) = {}
    \/ refcnt[ty] = 1 + Cardinality(Holders(ty))

(***************************************************************************)
(* The calls implement the promise of a registry: the type of a context,   *)
(* whose ops every call goes through, and a type that a caller keeps or a  *)
(* call uses cannot be unregistered.                                       *)
(***************************************************************************)
Abs == INSTANCE RegistryAbs
         WITH KeyOf <- NameOf, HasDefault <- FALSE,
              users <- Users, newest <- NoType
ImplementsRegistry == Abs!Spec

(***************************************************************************)
(* cfe_cipher_ctx_init() is all or nothing: a context that has a key has   *)
(* the mode, the key and (AEAD) the IV length of one and the same init,    *)
(* the last that returned 0.  An init that fails half way leaves no key    *)
(* rather than the old key with the new mode or IV length.                 *)
(***************************************************************************)
InitIsAllOrNothing ==
  \A c \in Ctxs :
    evp[c].key # NoKey =>
      /\ evp[c].key = agreed[c].key
      /\ evp[c].mode = agreed[c].mode
      /\ ctype[c] \in Aead => evp[c].iv = agreed[c].iv

(***************************************************************************)
(* A caller tells a failed allocation by a NULL pointer (check_cipher.c    *)
(* asserts `ctx' different from NULL and goes on): cfe_cipher_alloc_ctx()  *)
(* returns, and does not take the NULL of calloc() for a context.          *)
(***************************************************************************)
AllocFailureIsSeen == ~crashed
=============================================================================
