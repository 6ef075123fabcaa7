---------------------------- MODULE CipherProofs -----------------------------
(***************************************************************************)
(* Proofs about Ciphers.                                                   *)
(*                                                                         *)
(* Contexts, for any threads, contexts, types and keys.  References: every *)
(* step is one of the moves of UserCounts or touches none.  Keys: a        *)
(* context belongs to one call at a time, and from the first of the three  *)
(* calls of OpenSSL to the last it has no key.                             *)
(*                                                                         *)
(* Data, for any block size and any sizes of data: OpenSSL buffers less    *)
(* than a block and holds one back of decryptions only (ContextInv), what  *)
(* was written are whole blocks until the finalize (Flow) and add up after *)
(* it (Whole), a tag is that of the message (TagInv), and one half of the  *)
(* caller's size_t is what it was (LengthInv).                             *)
(***************************************************************************)
EXTENDS Ciphers, UserCounts

Initialising == {"reset", "ivlen", "key"}

\* What a call has at each of its steps, and that it has a context alone.
LocalsInv ==
  \A t \in Threads :
    /\ pc[t] \in {"alloc", "put"} <=> type[t] # NoType
    /\ pc[t] \in Initialising <=> ctx[t] # NoCtx
    /\ pc[t] \in Initialising => ctype[ctx[t]] # NoType /\ asked[t].key \in Keys
    /\ \A u \in Threads : ctx[t] # NoCtx /\ ctx[t] = ctx[u] => t = u

\* Half an init: no key, and what has been set is what was asked for.
HalfInit ==
  \A t \in Threads :
    /\ pc[t] \in {"ivlen", "key"} => /\ evp[ctx[t]].key = NoKey
                                     /\ evp[ctx[t]].mode = asked[t].mode
    /\ pc[t] = "key" /\ ctype[ctx[t]] \in Aead => evp[ctx[t]].iv = asked[t].iv

KeyInv == LocalsInv /\ HalfInit /\ InitIsAllOrNothing

Count == Kept(Owners, Types, Users, refcnt, listed)

IInv == TypeOK /\ KeyInv /\ Count

\* What every step is shown to do.
Good == Count' /\ [Abs!Next]_(Abs!absVars)

-----------------------------------------------------------------------------
(***************************************************************************)
(* Keys.                                                                   *)
(***************************************************************************)
LEMMA InitialTypes == Init => TypeOK /\ KeyInv
<1> SUFFICES ASSUME Init PROVE TypeOK /\ KeyInv
  OBVIOUS
<1>1. crashed \in BOOLEAN
  BY Zenon DEF Init
<1>2. TypeOK
  BY <1>1 DEF Init, TypeOK, Params, Nothing, Modes
<1> QED
  BY <1>2 DEF Init, KeyInv, LocalsInv, HalfInit, InitIsAllOrNothing, Initialising, Nothing

LEMMA RegistryTypes ==
  ASSUME TypeOK, KeyInv,
         \/ \E ty \in Types : cfe_cipher_register(ty) \/ cfe_cipher_unregister(ty)
         \/ \E t \in Threads : cfe_cipher_put(t) \/ \E name : cfe_cipher_ref(t, name)
  PROVE  (TypeOK /\ KeyInv)'
<1>1. UNCHANGED <<pc, locals, contexts, crashed>>
  BY DEF cfe_cipher_register, cfe_cipher_unregister, cfe_cipher_ref, cfe_cipher_put, Goto, Set,
         TypeOK
<1>2. KeyInv'
  BY <1>1 DEF KeyInv, LocalsInv, HalfInit, InitIsAllOrNothing, locals, contexts
<1>3. listed' \subseteq Types /\ refcnt' \in [Types -> Int] /\ kept' \in [Threads -> Types \cup {NoType}]
  BY DEF cfe_cipher_register, cfe_cipher_unregister, cfe_cipher_ref, cfe_cipher_put, Goto, Set,
         TypeOK, Inc, Dec, find_alg
<1> QED
  BY <1>1, <1>2, <1>3 DEF TypeOK, locals, contexts

LEMMA AllocTypes ==
  ASSUME TypeOK, KeyInv, NEW t \in Threads,
         \/ \E name : AllocRef(t, name)
         \/ AllocNull(t) \/ Put(t)
  PROVE  (TypeOK /\ KeyInv)'
<1> USE DEF TypeOK, KeyInv, LocalsInv, HalfInit, InitIsAllOrNothing, Initialising, Set, Goto,
            registry, contexts, locals
<1>1. ASSUME NEW name, AllocRef(t, name) PROVE (TypeOK /\ KeyInv)'
  <2>1. PICK ty \in Types : Inc(ty) /\ type' = [type EXCEPT ![t] = ty]
    BY <1>1 DEF AllocRef, find_alg
  <2> QED
    BY <1>1, <2>1, CipherContextAssumption DEF AllocRef, Inc
<1>2. CASE AllocNull(t)
  BY <1>2 DEF AllocNull
<1>3. CASE Put(t)
  BY <1>3 DEF Put, Return, Dec, Params, Nothing, Modes
<1> QED
  BY <1>1, <1>2, <1>3

LEMMA ContextTypes ==
  ASSUME TypeOK, KeyInv, NEW t \in Threads, NEW c \in Ctxs, AllocDone(t, c) \/ Destroy(t, c)
  PROVE  (TypeOK /\ KeyInv)'
<1> USE DEF TypeOK, KeyInv, LocalsInv, HalfInit, InitIsAllOrNothing, Initialising, Set, Goto,
            registry
<1>1. \A u \in Threads : ctx[u] # c
  BY CipherContextAssumption DEF AllocDone, Destroy, Available
<1>2. Nothing \in Params /\ Nothing.key = NoKey
  BY DEF Nothing, Params, Modes
<1>3. CASE AllocDone(t, c)
  BY <1>1, <1>2, <1>3, CipherContextAssumption DEF AllocDone, Return
<1>4. CASE Destroy(t, c)
  BY <1>1, <1>2, <1>4, CipherContextAssumption DEF Destroy, Available
<1> QED
  BY <1>3, <1>4

LEMMA InitCallTypes ==
  ASSUME TypeOK, KeyInv, NEW t \in Threads, NEW c \in Ctxs, NEW how \in Modes, NEW key \in Keys,
         NEW ivec, NEW isize \in IvSizes, InitCall(t, c, how, key, ivec, isize)
  PROVE  (TypeOK /\ KeyInv)'
<1> USE DEF TypeOK, KeyInv, LocalsInv, HalfInit, InitIsAllOrNothing, Initialising, Set, Goto,
            registry, contexts
<1>1. [mode |-> how, key |-> key, iv |-> isize] \in Params
  BY CipherContextAssumption DEF Params
<1> QED
  BY <1>1, CipherContextAssumption DEF InitCall, Available

LEMMA InitStepTypes ==
  ASSUME TypeOK, KeyInv, NEW t \in Threads,
         InitReset(t) \/ InitIvLen(t) \/ InitKey(t) \/ InitFails(t)
  PROVE  (TypeOK /\ KeyInv)'
<1> USE DEF TypeOK, KeyInv, LocalsInv, HalfInit, InitIsAllOrNothing, Initialising, Set, Goto,
            registry, locals
<1>1. /\ ctx[t] \in Ctxs /\ ctype[ctx[t]] \in Types /\ asked[t] \in Params
      /\ \A u \in Threads \ {t} : ctx[u] # ctx[t]
  BY DEF InitReset, InitIvLen, InitKey, InitFails
<1>2. AfterReset(t) \in Params /\ AfterReset(t).key = NoKey /\ AfterReset(t).mode = asked[t].mode
  BY <1>1, CipherContextAssumption DEF AfterReset, Params
<1>3. CASE InitReset(t)
  BY <1>1, <1>2, <1>3 DEF InitReset
<1>4. CASE InitIvLen(t)
  BY <1>1, <1>4, SMTT(30) DEF InitIvLen, Params
<1>5. CASE InitKey(t)
  BY <1>1, <1>5 DEF InitKey, Return, Params, Nothing, Modes
<1>6. CASE InitFails(t)
  BY <1>1, <1>2, <1>6 DEF InitFails, Return, Params, Nothing, Modes
<1> QED
  BY <1>3, <1>4, <1>5, <1>6

-----------------------------------------------------------------------------
(***************************************************************************)
(* References.                                                             *)
(***************************************************************************)
LEMMA OwnersAreFinite == IsFiniteSet(Owners)
<1>1. IsFiniteSet({"kept", "call"}) /\ IsFiniteSet({"ctx"})
  <2>1. IsFiniteSet({"kept"}) /\ IsFiniteSet({"call"}) /\ IsFiniteSet({"ctx"})
    BY FS_Singleton
  <2>2. {"kept", "call"} = {"kept"} \cup {"call"}
    OBVIOUS
  <2>3. IsFiniteSet({"kept"} \cup {"call"})
    BY <2>1, FS_Union
  <2> QED
    BY <2>1, <2>2, <2>3
<1>2. IsFiniteSet({"kept", "call"} \X Threads) /\ IsFiniteSet({"ctx"} \X Ctxs)
  BY <1>1, CipherContextAssumption, FS_Product
<1> QED
  BY <1>2, FS_Union DEF Owners

LEMMA OwnersAre ==
  /\ \A o \in Owners : \/ \E t \in Threads : o = <<"kept", t>> \/ o = <<"call", t>>
                       \/ \E c \in Ctxs : o = <<"ctx", c>>
  /\ \A t \in Threads : <<"kept", t>> \in Owners /\ <<"call", t>> \in Owners
  /\ \A c \in Ctxs : <<"ctx", c>> \in Owners
<1>1. \A o \in Owners :
        \/ \E t \in Threads : o = <<"kept", t>> \/ o = <<"call", t>>
        \/ \E c \in Ctxs : o = <<"ctx", c>>
  <2> TAKE o \in Owners
  <2>1. CASE o \in {"kept", "call"} \X Threads
    BY <2>1
  <2>2. CASE o \in {"ctx"} \X Ctxs
    BY <2>2
  <2> QED
    BY <2>1, <2>2 DEF Owners
<1>2. \A t \in Threads : <<"kept", t>> \in Owners /\ <<"call", t>> \in Owners
  BY DEF Owners
<1>3. \A c \in Ctxs : <<"ctx", c>> \in Owners
  BY DEF Owners
<1> QED
  BY <1>1, <1>2, <1>3

LEMMA UsersAre ==
  /\ \A t \in Threads : Users[<<"kept", t>>] = kept[t] /\ Users[<<"call", t>>] = type[t]
  /\ \A c \in Ctxs : Users[<<"ctx", c>>] = ctype[c]
  BY OwnersAre DEF Users

LEMMA UsersAreNext ==
  /\ \A t \in Threads : Users'[<<"kept", t>>] = kept'[t] /\ Users'[<<"call", t>>] = type'[t]
  /\ \A c \in Ctxs : Users'[<<"ctx", c>>] = ctype'[c]
  BY OwnersAre DEF Users

LEMMA UsersFun == Users = [o \in Owners |-> Users[o]]
  BY DEF Users

\* An assignment of users that is right at every owner is the new one.
LEMMA UsersBecome ==
  ASSUME NEW v, v = [o \in Owners |-> v[o]], \A o \in Owners : Users'[o] = v[o]
  PROVE  Users' = v
  BY DEF Users

LEMMA QuietCount ==
  ASSUME Count, UNCHANGED <<listed, refcnt, kept, type, ctype>>
  PROVE  Good
<1>1. Users' = Users
  BY DEF Users
<1> QED
  BY <1>1 DEF Count, Good, Abs!absVars

LEMMA CipherInit == Init => Count /\ Abs!Init
<1> SUFFICES ASSUME Init PROVE Count /\ Abs!Init
  OBVIOUS
<1>1. \A o \in Owners : Users[o] = NoType
  <2>1. /\ \A t \in Threads : kept[t] = NoType /\ type[t] = NoType
        /\ \A c \in Ctxs : ctype[c] = NoType
    BY DEF Init
  <2>2. /\ \A u \in Threads : Users[<<"kept", u>>] = NoType /\ Users[<<"call", u>>] = NoType
        /\ \A c \in Ctxs : Users[<<"ctx", c>>] = NoType
    BY <2>1, UsersAre
  <2> TAKE o \in Owners
  <2>3. CASE \E u \in Threads : o = <<"kept", u>> \/ o = <<"call", u>>
    BY <2>2, <2>3
  <2>4. CASE \E c \in Ctxs : o = <<"ctx", c>>
    BY <2>2, <2>4
  <2> QED
    BY <2>3, <2>4, OwnersAre
<1>2. Users = [o \in Owners |-> NoType]
  BY <1>1 DEF Users
<1>3. \A ty \in Types : UserSet(Owners, Users, ty) = {}
  BY <1>1, CipherContextAssumption DEF UserSet
<1> QED
  BY <1>1, <1>2, <1>3, CipherContextAssumption
  DEF Init, Count, Kept, Balanced, UsedAreListed, Abs!Init

LEMMA RegisterStep ==
  ASSUME TypeOK, Count, NEW ty \in Types, cfe_cipher_register(ty)
  PROVE  Good
<1> USE DEF cfe_cipher_register, find_alg, Set, locals, contexts
<1>0. ty \notin listed /\ \A other \in listed : NameOf[other] # NameOf[ty]
  OBVIOUS
<1>1. Users' = Users
  BY DEF Users
<1>2. \A x \in Types : refcnt'[x] = IF x = ty THEN 1 ELSE refcnt[x]
  BY DEF TypeOK
<1>3. Count'
  <2>1. /\ Kept(Owners, Types, Users, refcnt, listed)
        /\ \A x \in Types : x \in listed' <=> x \in listed \/ x = ty
    BY DEF Count
  <2>2. Kept(Owners, Types, Users, refcnt', listed')
    BY ONLY <1>0, <1>2, <2>1, Enlisting, ty \in Types
  <2> QED
    BY <1>1, <2>2 DEF Count
<1>4. Abs!Register(ty)
  BY <1>0, <1>1 DEF Abs!Register
<1> QED
  BY <1>3, <1>4 DEF Good, Abs!Next

LEMMA UnregisterStep ==
  ASSUME TypeOK, Count, NEW ty \in Types, cfe_cipher_unregister(ty)
  PROVE  Good
<1> USE DEF cfe_cipher_unregister, locals, contexts
<1>1. Users' = Users
  BY DEF Users
<1>2. \A o \in Owners : Users[o] # ty
  BY OneIsUnused, OwnersAreFinite DEF Count
<1>3. Count'
  BY <1>1, Delisting, OwnersAreFinite DEF Count
<1>4. Abs!Unregister(ty)
  BY <1>1, <1>2, CipherContextAssumption DEF Abs!Unregister
<1> QED
  BY <1>3, <1>4 DEF Good, Abs!Next

\* A reference for the thread itself, or for its running call.
LEMMA TakeStep ==
  ASSUME TypeOK, Count, NEW o \in Owners, NEW ty \in Types, ty \in listed, Users[o] = NoType,
         refcnt' = [refcnt EXCEPT ![ty] = @ + 1], UNCHANGED listed,
         Users' = [Users EXCEPT ![o] = ty]
  PROVE  Good
<1>1. /\ Users'[o] = ty /\ \A p \in Owners \ {o} : Users'[p] = Users[p]
      /\ \A x \in Types : refcnt'[x] = IF x = ty THEN refcnt[x] + 1 ELSE refcnt[x]
  BY DEF TypeOK, Users
<1>2. Users[o] \notin Types /\ Kept(Owners, Types, Users, refcnt, listed)
  BY CipherContextAssumption DEF Count
<1>3. Kept(Owners, Types, Users', refcnt', listed)
  BY ONLY <1>1, <1>2, Taking, OwnersAreFinite, o \in Owners, ty \in Types, ty \in listed
<1>4. Abs!Acquire(o, ty)
  BY DEF Abs!Acquire
<1> QED
  BY <1>3, <1>4 DEF Good, Count, Abs!Next

LEMMA DropStep ==
  ASSUME TypeOK, Count, NEW o \in Owners, Users[o] \in Types,
         refcnt' = [refcnt EXCEPT ![Users[o]] = @ - 1], UNCHANGED listed,
         Users' = [Users EXCEPT ![o] = NoType]
  PROVE  Good
<1>1. /\ Users'[o] = NoType /\ \A p \in Owners \ {o} : Users'[p] = Users[p]
      /\ \A x \in Types : refcnt'[x] = IF x = Users[o] THEN refcnt[x] - 1 ELSE refcnt[x]
  <2>1. Users'[o] = NoType /\ \A p \in Owners \ {o} : Users'[p] = Users[p]
    BY DEF Users
  <2>2. \A x \in Types : refcnt'[x] = IF x = Users[o] THEN refcnt[x] - 1 ELSE refcnt[x]
    BY DEF TypeOK
  <2> QED
    BY <2>1, <2>2
<1>2. NoType \notin Types /\ Kept(Owners, Types, Users, refcnt, listed)
  BY CipherContextAssumption DEF Count
<1>3. Kept(Owners, Types, Users', refcnt', listed)
  BY ONLY <1>1, <1>2, Dropping, OwnersAreFinite, o \in Owners, Users[o] \in Types
<1>4. Abs!Release(o)
  BY <1>2 DEF Abs!Release
<1> QED
  BY <1>3, <1>4 DEF Good, Count, Abs!Next

LEMMA HandStep ==
  ASSUME TypeOK, Count, NEW o \in Owners, NEW p \in Owners, o # p,
         Users[o] \in Types, Users[p] = NoType, UNCHANGED <<listed, refcnt>>,
         Users' = [Users EXCEPT ![p] = Users[o], ![o] = NoType]
  PROVE  Good
<1>1. /\ Users'[p] = Users[o] /\ Users'[o] = NoType
      /\ \A q \in Owners \ {o, p} : Users'[q] = Users[q]
  BY DEF Users
<1>2. NoType \notin Types
  BY CipherContextAssumption
<1>3. Count'
  <2>1. Kept(Owners, Types, Users, refcnt, listed) /\ Users[p] \notin Types /\ Users'[o] \notin Types
    BY <1>1, <1>2 DEF Count
  <2>2. Kept(Owners, Types, Users', refcnt, listed)
    BY ONLY <1>1, <2>1, Handing, OwnersAreFinite, o \in Owners, p \in Owners, Users[o] \in Types
  <2> QED
    BY <2>2 DEF Count
<1>4. Abs!Hand(o, p)
  BY <1>2 DEF Abs!Hand
<1> QED
  BY <1>3, <1>4 DEF Good, Abs!Next

\* The steps of the calls, by the owner they are about.
LEMMA KeptUsers ==
  ASSUME TypeOK, NEW t \in Threads, NEW ty, kept' = [kept EXCEPT ![t] = ty],
         UNCHANGED <<type, ctype>>
  PROVE  Users' = [Users EXCEPT ![<<"kept", t>>] = ty]
<1> DEFINE v == [Users EXCEPT ![<<"kept", t>>] = ty]
<1>1. v = [o \in Owners |-> v[o]]
  BY UsersFun
<1>2. ASSUME NEW u \in Threads
      PROVE  /\ Users'[<<"kept", u>>] = v[<<"kept", u>>]
             /\ Users'[<<"call", u>>] = v[<<"call", u>>]
  <2>1. v[<<"kept", u>>] = IF u = t THEN ty ELSE Users[<<"kept", u>>]
    BY OwnersAre DEF Users
  <2>2. v[<<"call", u>>] = Users[<<"call", u>>]
    BY OwnersAre DEF Users
  <2> QED
    BY <2>1, <2>2, UsersAre, UsersAreNext DEF TypeOK
<1>3. ASSUME NEW c \in Ctxs PROVE Users'[<<"ctx", c>>] = v[<<"ctx", c>>]
  <2>1. v[<<"ctx", c>>] = Users[<<"ctx", c>>]
    BY OwnersAre DEF Users
  <2> QED
    BY <2>1, UsersAre, UsersAreNext
<1>4. \A o \in Owners : Users'[o] = v[o]
  <2> HIDE DEF v
  <2> TAKE o \in Owners
  <2>1. CASE \E u \in Threads : o = <<"kept", u>> \/ o = <<"call", u>>
    BY <1>2, <2>1
  <2>2. CASE \E d \in Ctxs : o = <<"ctx", d>>
    BY <1>3, <2>2
  <2> QED
    BY <2>1, <2>2, OwnersAre
<1> QED
  BY <1>1, <1>4, UsersBecome

LEMMA CallUsers ==
  ASSUME TypeOK, NEW t \in Threads, NEW ty, type' = [type EXCEPT ![t] = ty],
         UNCHANGED <<kept, ctype>>
  PROVE  Users' = [Users EXCEPT ![<<"call", t>>] = ty]
<1> DEFINE v == [Users EXCEPT ![<<"call", t>>] = ty]
<1>1. v = [o \in Owners |-> v[o]]
  BY UsersFun
<1>2. ASSUME NEW u \in Threads
      PROVE  /\ Users'[<<"kept", u>>] = v[<<"kept", u>>]
             /\ Users'[<<"call", u>>] = v[<<"call", u>>]
  <2>1. v[<<"call", u>>] = IF u = t THEN ty ELSE Users[<<"call", u>>]
    BY OwnersAre DEF Users
  <2>2. v[<<"kept", u>>] = Users[<<"kept", u>>]
    BY OwnersAre DEF Users
  <2> QED
    BY <2>1, <2>2, UsersAre, UsersAreNext DEF TypeOK
<1>3. ASSUME NEW c \in Ctxs PROVE Users'[<<"ctx", c>>] = v[<<"ctx", c>>]
  <2>1. v[<<"ctx", c>>] = Users[<<"ctx", c>>]
    BY OwnersAre DEF Users
  <2> QED
    BY <2>1, UsersAre, UsersAreNext
<1>4. \A o \in Owners : Users'[o] = v[o]
  <2> HIDE DEF v
  <2> TAKE o \in Owners
  <2>1. CASE \E u \in Threads : o = <<"kept", u>> \/ o = <<"call", u>>
    BY <1>2, <2>1
  <2>2. CASE \E d \in Ctxs : o = <<"ctx", d>>
    BY <1>3, <2>2
  <2> QED
    BY <2>1, <2>2, OwnersAre
<1> QED
  BY <1>1, <1>4, UsersBecome

LEMMA ContextUsers ==
  ASSUME TypeOK, NEW t \in Threads, NEW c \in Ctxs, NEW ty, NEW tz,
         type' = [type EXCEPT ![t] = ty], ctype' = [ctype EXCEPT ![c] = tz], UNCHANGED kept
  PROVE  Users' = [Users EXCEPT ![<<"ctx", c>>] = tz, ![<<"call", t>>] = ty]
<1> DEFINE v == [Users EXCEPT ![<<"ctx", c>>] = tz, ![<<"call", t>>] = ty]
<1>1. v = [o \in Owners |-> v[o]]
  BY UsersFun
<1>2. ASSUME NEW u \in Threads
      PROVE  /\ Users'[<<"kept", u>>] = v[<<"kept", u>>]
             /\ Users'[<<"call", u>>] = v[<<"call", u>>]
  <2>1. v[<<"call", u>>] = IF u = t THEN ty ELSE Users[<<"call", u>>]
    BY OwnersAre DEF Users
  <2>2. v[<<"kept", u>>] = Users[<<"kept", u>>]
    BY OwnersAre DEF Users
  <2> QED
    BY <2>1, <2>2, UsersAre, UsersAreNext DEF TypeOK
<1>3. ASSUME NEW d \in Ctxs PROVE Users'[<<"ctx", d>>] = v[<<"ctx", d>>]
  <2>1. v[<<"ctx", d>>] = IF d = c THEN tz ELSE Users[<<"ctx", d>>]
    BY OwnersAre DEF Users
  <2> QED
    BY <2>1, UsersAre, UsersAreNext DEF TypeOK
<1>4. \A o \in Owners : Users'[o] = v[o]
  <2> HIDE DEF v
  <2> TAKE o \in Owners
  <2>1. CASE \E u \in Threads : o = <<"kept", u>> \/ o = <<"call", u>>
    BY <1>2, <2>1
  <2>2. CASE \E d \in Ctxs : o = <<"ctx", d>>
    BY <1>3, <2>2
  <2> QED
    BY <2>1, <2>2, OwnersAre
<1> QED
  BY <1>1, <1>4, UsersBecome

-----------------------------------------------------------------------------
(***************************************************************************)
(* The steps of the calls.                                                 *)
(***************************************************************************)
LEMMA KeptStep ==
  ASSUME TypeOK, Count, NEW t \in Threads,
         cfe_cipher_put(t) \/ \E name : cfe_cipher_ref(t, name)
  PROVE  Good
<1> DEFINE o == <<"kept", t>>
<1>1. o \in Owners /\ Users[o] = kept[t]
  BY OwnersAre, UsersAre
<1>2. ASSUME NEW name, cfe_cipher_ref(t, name) PROVE Good
  <2>0. PICK ty \in find_alg(name) : Inc(ty) /\ kept' = Set(kept, t, ty)
    BY <1>2 DEF cfe_cipher_ref
  <2>1. /\ ty \in listed /\ ty \in Types /\ Users[o] = NoType /\ UNCHANGED listed
        /\ refcnt' = [refcnt EXCEPT ![ty] = @ + 1]
    BY <1>1, <1>2, <2>0 DEF cfe_cipher_ref, Inc, find_alg, TypeOK
  <2>2. Users' = [Users EXCEPT ![o] = ty]
    BY <1>2, <2>0, KeptUsers DEF cfe_cipher_ref, Set, locals, contexts
  <2> HIDE DEF o
  <2> QED
    BY <1>1, <2>1, <2>2, TakeStep
<1>3. CASE cfe_cipher_put(t)
  <2>1. /\ Users[o] \in Types /\ UNCHANGED listed
        /\ refcnt' = [refcnt EXCEPT ![Users[o]] = @ - 1]
    BY <1>1, <1>3 DEF cfe_cipher_put, Dec, TypeOK
  <2>2. Users' = [Users EXCEPT ![o] = NoType]
    BY <1>3, KeptUsers DEF cfe_cipher_put, Set, locals, contexts
  <2> HIDE DEF o
  <2> QED
    BY <1>1, <2>1, <2>2, DropStep
<1> QED
  BY <1>2, <1>3

LEMMA CallStep ==
  ASSUME TypeOK, KeyInv, Count, NEW t \in Threads,
         Put(t) \/ \E name : AllocRef(t, name)
  PROVE  Good
<1> DEFINE o == <<"call", t>>
<1>1. o \in Owners /\ Users[o] = type[t]
  BY OwnersAre, UsersAre
<1>2. ASSUME NEW name, AllocRef(t, name) PROVE Good
  <2>0. PICK ty \in find_alg(name) : Inc(ty) /\ type' = Set(type, t, ty)
    BY <1>2 DEF AllocRef
  <2>1. /\ ty \in listed /\ ty \in Types /\ Users[o] = NoType /\ UNCHANGED listed
        /\ refcnt' = [refcnt EXCEPT ![ty] = @ + 1]
    BY <1>1, <1>2, <2>0 DEF AllocRef, Inc, Goto, KeyInv, LocalsInv, find_alg, TypeOK
  <2>2. Users' = [Users EXCEPT ![o] = ty]
    BY <1>2, <2>0, CallUsers DEF AllocRef, Set, contexts
  <2> HIDE DEF o
  <2> QED
    BY <1>1, <2>1, <2>2, TakeStep
<1>3. CASE Put(t)
  <2>1. /\ Users[o] \in Types /\ UNCHANGED listed
        /\ refcnt' = [refcnt EXCEPT ![Users[o]] = @ - 1]
    BY <1>1, <1>3 DEF Put, Dec, TypeOK, KeyInv, LocalsInv
  <2>2. Users' = [Users EXCEPT ![o] = NoType]
    BY <1>3, CallUsers DEF Put, Return, Set, contexts
  <2> HIDE DEF o
  <2> QED
    BY <1>1, <2>1, <2>2, DropStep
<1> QED
  BY <1>2, <1>3

\* A call and a context hand each other the reference, which is not counted.
LEMMA ContextStep ==
  ASSUME TypeOK, KeyInv, Count, NEW t \in Threads, NEW c \in Ctxs, AllocDone(t, c) \/ Destroy(t, c)
  PROVE  Good
<1> DEFINE o == <<"call", t>>
           p == <<"ctx", c>>
<1>1. o \in Owners /\ p \in Owners /\ o # p /\ Users[o] = type[t] /\ Users[p] = ctype[c]
  BY OwnersAre, UsersAre
<1>2. CASE AllocDone(t, c)
  <2>1. Users[o] \in Types /\ Users[p] = NoType /\ UNCHANGED <<listed, refcnt>>
    BY <1>1, <1>2 DEF AllocDone, TypeOK, KeyInv, LocalsInv, registry
  <2>2. Users' = [Users EXCEPT ![p] = Users[o], ![o] = NoType]
    <3>1. /\ type' = [type EXCEPT ![t] = NoType] /\ ctype' = [ctype EXCEPT ![c] = type[t]]
          /\ UNCHANGED kept
      BY <1>2 DEF AllocDone, Return, Set
    <3>2. Users' = [Users EXCEPT ![p] = type[t], ![o] = NoType]
      BY ONLY <3>1, ContextUsers, TypeOK, t \in Threads, c \in Ctxs
    <3> QED
      BY <1>1, <3>2
  <2> HIDE DEF o, p
  <2> QED
    BY <1>1, <2>1, <2>2, HandStep
<1>3. CASE Destroy(t, c)
  <2>1. Users[p] \in Types /\ Users[o] = NoType /\ UNCHANGED <<listed, refcnt>>
    BY <1>1, <1>3 DEF Destroy, Goto, Available, TypeOK, KeyInv, LocalsInv, registry
  <2>2. Users' = [Users EXCEPT ![o] = Users[p], ![p] = NoType]
    <3>1. /\ type' = [type EXCEPT ![t] = ctype[c]] /\ ctype' = [ctype EXCEPT ![c] = NoType]
          /\ UNCHANGED kept
      BY <1>3 DEF Destroy, Set
    <3>2. Users' = [Users EXCEPT ![p] = NoType, ![o] = ctype[c]]
      BY ONLY <3>1, ContextUsers, TypeOK, t \in Threads, c \in Ctxs
    <3>3. Users' = [Users EXCEPT ![o] = ctype[c], ![p] = NoType]
      BY <1>1, <3>2, UsersFun
    <3> QED
      BY <1>1, <3>3
  <2> HIDE DEF o, p
  <2> QED
    BY <1>1, <2>1, <2>2, HandStep
<1> QED
  BY <1>2, <1>3

LEMMA QuietStep ==
  ASSUME TypeOK, KeyInv, Count, NEW t \in Threads,
         \/ AllocNull(t) \/ InitReset(t) \/ InitIvLen(t) \/ InitKey(t) \/ InitFails(t)
         \/ \E c \in Ctxs, how \in Modes, key \in Keys, ivec \in BOOLEAN, isize \in IvSizes :
              InitCall(t, c, how, key, ivec, isize)
  PROVE  Good
<1>1. CASE InitKey(t) \/ InitFails(t)
  <2>1. type[t] = NoType
    BY <1>1 DEF InitKey, InitFails, KeyInv, LocalsInv
  <2>2. type' = type
    BY <1>1, <2>1 DEF InitKey, InitFails, Return, Set, TypeOK
  <2>3. UNCHANGED <<listed, refcnt, kept, ctype>>
    BY <1>1 DEF InitKey, InitFails, registry
  <2> QED
    BY <2>2, <2>3, QuietCount
<1>2. CASE \/ AllocNull(t) \/ InitReset(t) \/ InitIvLen(t)
           \/ \E c \in Ctxs, how \in Modes, key \in Keys, ivec \in BOOLEAN, isize \in IvSizes :
                InitCall(t, c, how, key, ivec, isize)
  <2>1. UNCHANGED <<listed, refcnt, kept, type, ctype>>
    BY <1>2 DEF AllocNull, InitReset, InitIvLen, InitCall, registry, locals, contexts
  <2> QED
    BY <2>1, QuietCount
<1> QED
  BY <1>1, <1>2

LEMMA CipherStep == IInv /\ [Next]_vars => IInv' /\ Good
<1> SUFFICES ASSUME IInv, [Next]_vars PROVE IInv' /\ Good
  OBVIOUS
<1> USE DEF IInv, Good
<1>1. ASSUME NEW ty \in Types, cfe_cipher_register(ty) \/ cfe_cipher_unregister(ty)
      PROVE  IInv' /\ Good
  <2>1. (TypeOK /\ KeyInv)'
    BY <1>1, RegistryTypes
  <2>2. Good
    BY <1>1, RegisterStep, UnregisterStep
  <2> QED
    BY <2>1, <2>2
<1>2. ASSUME NEW t \in Threads, Call(t) \/ Step(t)
      PROVE  IInv' /\ Good
  <2>1. (TypeOK /\ KeyInv)'
    <3>1. CASE Call(t)
      <4>1. CASE cfe_cipher_put(t) \/ \E name : cfe_cipher_ref(t, name)
        BY <4>1, RegistryTypes
      <4>2. CASE \E name : AllocRef(t, name)
        BY <4>2, AllocTypes
      <4>3. CASE \E c \in Ctxs : Destroy(t, c)
        BY <4>3, ContextTypes
      <4>4. CASE \E c \in Ctxs, how \in Modes, key \in Keys, ivec \in BOOLEAN, isize \in IvSizes :
                   InitCall(t, c, how, key, ivec, isize)
        BY <4>4, InitCallTypes
      <4> QED
        BY <3>1, <4>1, <4>2, <4>3, <4>4 DEF Call
    <3>2. CASE Step(t)
      BY <3>2, AllocTypes, ContextTypes, InitStepTypes DEF Step
    <3> QED
      BY <1>2, <3>1, <3>2
  <2>2. Good
    BY <1>2, KeptStep, CallStep, ContextStep, QuietStep DEF Call, Step
  <2> QED
    BY <2>1, <2>2
<1>3. CASE UNCHANGED vars
  <2>1. UNCHANGED <<listed, refcnt, kept, pc, type, ctx, asked, ctype, evp, agreed, crashed>>
    BY <1>3 DEF vars
  <2>2. (TypeOK /\ KeyInv)'
    BY <2>1 DEF TypeOK, KeyInv, LocalsInv, HalfInit, InitIsAllOrNothing
  <2> QED
    BY <2>1, <2>2, QuietCount
<1> QED
  BY <1>1, <1>2, <1>3 DEF Next

LEMMA CipherInductive == Spec => []IInv
<1>1. Init => IInv
  BY InitialTypes, CipherInit DEF IInv
<1>2. IInv /\ [Next]_vars => IInv'
  BY CipherStep
<1> QED
  BY <1>1, <1>2, PTL DEF Spec

-----------------------------------------------------------------------------
(***************************************************************************)
(* Every variable of the cipher contexts keeps its type.                   *)
(***************************************************************************)
THEOREM CipherTypeCorrect == Spec => []TypeOK
  BY CipherInductive, PTL DEF IInv

(***************************************************************************)
(* Callers, contexts and running calls put what they took through one      *)
(* counter, failed allocations included.                                   *)
(***************************************************************************)
THEOREM CipherRefsBalanced == Spec => []RefsBalanced
<1>1. IInv => RefsBalanced
  BY DEF IInv, Count, Kept, Balanced, UserSet, RefsBalanced, Holders
<1> QED
  BY <1>1, CipherInductive, PTL

(***************************************************************************)
(* cfe_cipher_ctx_init() leaves the key, the mode and the IV length of one *)
(* init, or no key, wherever OpenSSL fails.                                *)
(***************************************************************************)
THEOREM KeysAreAllOrNothing == Spec => []InitIsAllOrNothing
  BY CipherInductive, PTL DEF IInv, KeyInv

(***************************************************************************)
(* crypto/cipher.c implements the registry that its contexts rely on.      *)
(***************************************************************************)
THEOREM CipherImplements == Spec => ImplementsRegistry
<1>1. IInv /\ [Next]_vars => [Abs!Next]_(Abs!absVars)
  BY CipherStep DEF Good
<1>2. Init => Abs!Init
  BY CipherInit
<1> QED
  BY <1>1, <1>2, CipherInductive, PTL DEF Spec, ImplementsRegistry, Abs!Spec

-----------------------------------------------------------------------------
(***************************************************************************)
(* The data.                                                               *)
(***************************************************************************)
\* Whole blocks: a \div b of them in a bytes.
LEMMA Blocks ==
  ASSUME NEW b \in Nat \ {0}, NEW a \in Nat
  PROVE  /\ a \div b \in Nat /\ (a \div b) * b \in Nat
         /\ (a \div b) * b <= a /\ a < (a \div b) * b + b
<1>1. a \div b \in Nat
  BY Z3
<1>2. (a \div b) * b <= a /\ a < (a \div b) * b + b
  BY Z3
<1>3. \A q \in Nat : q * b \in Nat
  OBVIOUS
<1> QED
  BY <1>1, <1>2, <1>3

LEMMA BlockCount ==
  ASSUME NEW b \in Nat \ {0}, NEW k \in Nat, NEW r \in Nat, r < b
  PROVE  (k * b + r) \div b = k /\ (k * b + r) % b = r
  BY Z3

\* What (int) does to a size: what is lost are multiples of 2^32.
LEMMA DataNumbers ==
  /\ BlockSize \in Nat \ {0} /\ IntMod \in Nat \ {0} /\ DataSizes \subseteq Nat
  /\ \A n \in Nat : Data!AsInt(n) >= 0 =>
       Data!AsInt(n) \in Nat /\ \E k \in Nat : n = Data!AsInt(n) + k * IntMod
<1>1. BlockSize \in Nat \ {0} /\ IntMod \in Nat \ {0} /\ DataSizes \subseteq Nat
  BY CiphersAssumption DEF Data!CipherDataAssumption
<1>2. ASSUME NEW n \in Nat, Data!AsInt(n) >= 0
      PROVE  Data!AsInt(n) \in Nat /\ \E k \in Nat : n = Data!AsInt(n) + k * IntMod
  <2>1. n % IntMod \in 0..IntMod - 1
    BY <1>1, Z3
  <2>2. Data!AsInt(n) = n % IntMod
    BY <1>1, <1>2, <2>1 DEF Data!AsInt
  <2>3. n \div IntMod \in Nat
    BY <1>1, Blocks
  <2>4. n = (n % IntMod) + (n \div IntMod) * IntMod
    BY <1>1, Z3
  <2> QED
    BY <2>1, <2>2, <2>3, <2>4
<1> QED
  BY <1>1, <1>2

KeptOf(h) == IF h THEN BlockSize ELSE 0

\* The state of the context in OpenSSL: less than a block is buffered, and only
\* a decryption by blocks holds one back.
ContextInv ==
  /\ kind \in {"block", "aead"} /\ mode \in {"encrypt", "decrypt"}
  /\ pad \in {0, 1} /\ padding \in BOOLEAN /\ held \in BOOLEAN
  /\ buf \in Nat /\ buf < BlockSize
  /\ held => kind = "block" /\ mode = "decrypt"
  /\ kind = "aead" => buf = 0
  /\ ~Data!Finalized => (padding <=> pad = 1)

\* What was written are whole blocks, and what was not is held.
Flow ==
  /\ out + buf + KeptOf(held) = taken["data"]
  /\ kind = "block" => \E k \in Nat : out = k * BlockSize

Whole ==
  IF kind = "aead" THEN out = taken["data"]
  ELSE IF ~padding THEN out + KeptOf(held) = taken["data"] /\ taken["data"] % BlockSize = 0
  ELSE IF mode = "encrypt" THEN out = (taken["data"] \div BlockSize + 1) * BlockSize
  ELSE /\ taken["data"] % BlockSize = 0
       /\ out \in taken["data"] - BlockSize .. taken["data"] - 1

CountInv ==
  /\ given \in [Data!Parts -> Nat] /\ taken \in [Data!Parts -> Nat] /\ out \in Nat
  /\ \A part \in Data!Parts : \E k \in Nat : given[part] = taken[part] + k * IntMod
  /\ ~Data!Finalized => Flow
  /\ phase = "final" => Whole

\* Tags belong to the message whose finalize returned 0, and to all of it.
TagInv ==
  /\ kind = "aead" /\ phase = "final" => sealed = taken
  /\ \A covered \in got : kind = "aead" /\ phase = "final" /\ covered = taken

\* No call stores to the other half of the caller's size_t.
LengthInv ==
  /\ had \in [lo : Nat, hi : Nat] /\ have \in [lo : Nat, hi : Nat]
  /\ IF big THEN have.lo = had.lo ELSE have.hi = had.hi
  /\ Data!OutputLengthRight

DataInv == ContextInv /\ CountInv /\ TagInv /\ LengthInv

\* What OpenSSL writes and holds back of n bytes more.
LEMMA PassAddsUp ==
  ASSUME ContextInv, NEW n \in Nat
  PROVE  /\ Data!Pass(n).made \in Nat
         /\ Data!Pass(n).buf \in Nat /\ Data!Pass(n).buf < BlockSize
         /\ Data!Pass(n).held \in BOOLEAN
         /\ Data!Pass(n).held => kind = "block" /\ mode = "decrypt"
         /\ kind = "aead" => Data!Pass(n).buf = 0
         /\ n = 0 => Data!Pass(n).buf = buf /\ Data!Pass(n).held = held
         /\ kind = "block" => \E k \in Nat : Data!Pass(n).made = k * BlockSize
         /\ Data!Pass(n).made + Data!Pass(n).buf + KeptOf(Data!Pass(n).held)
              = buf + n + KeptOf(held)
<1> DEFINE whole == ((buf + n) \div BlockSize) * BlockSize
           rest == buf + n - whole
<1>0. BlockSize \in Nat \ {0} /\ buf \in Nat /\ buf + n \in Nat
  BY DataNumbers DEF ContextInv
<1>1. /\ (buf + n) \div BlockSize \in Nat /\ whole \in Nat
      /\ rest \in Nat /\ rest < BlockSize
  BY <1>0, Blocks
<1>2. Data!Kept = KeptOf(held)
  BY DEF Data!Kept, KeptOf
<1>3. KeptOf(held) \in Nat /\ \E k \in Nat : KeptOf(held) = k * BlockSize
  <2>1. 0 = 0 * BlockSize /\ BlockSize = 1 * BlockSize
    BY <1>0
  <2> QED
    BY <1>0, <2>1 DEF KeptOf
<1>4. PICK w \in Nat : whole = w * BlockSize
  BY <1>1
<1>5. PICK h \in Nat : KeptOf(held) = h * BlockSize
  BY <1>3
<1>6. CASE kind = "aead" \/ n = 0
  <2>1. Data!Pass(n) = [made |-> n, buf |-> buf, held |-> held]
    BY <1>6 DEF Data!Pass
  <2>2. kind = "block" => n = 0 * BlockSize
    BY <1>0, <1>6
  <2> QED
    BY <1>0, <1>3, <2>1, <2>2 DEF ContextInv
<1>7. CASE ~(kind = "aead" \/ n = 0) /\ (mode = "encrypt" \/ pad = 0)
  <2>1. Data!Pass(n) = [made |-> whole, buf |-> rest, held |-> held]
    BY <1>7 DEF Data!Pass
  <2> HIDE DEF whole
  <2>2. whole + rest + KeptOf(held) = buf + n + KeptOf(held)
    BY <1>0, <1>1, <1>3
  <2> HIDE DEF rest
  <2> QED
    BY <1>1, <1>4, <1>7, <2>1, <2>2 DEF ContextInv
<1>8. CASE ~(kind = "aead" \/ n = 0) /\ ~(mode = "encrypt" \/ pad = 0)
  <2>0. kind = "block" /\ mode = "decrypt" /\ n # 0
    BY <1>8 DEF ContextInv
  <2>1. CASE rest = 0
    <3>1. Data!Pass(n) = [made |-> KeptOf(held) + whole - BlockSize, buf |-> 0, held |-> TRUE]
      BY <1>2, <1>8, <2>1 DEF Data!Pass
    <3>2. whole = buf + n /\ whole # 0
      <4> HIDE DEF whole
      <4> QED
        BY <1>0, <1>1, <2>0, <2>1
    <3>3. PICK v \in Nat : w = v + 1
      <4>1. w # 0
        BY <1>0, <1>4, <3>2
      <4>2. w - 1 \in Nat /\ w = (w - 1) + 1
        BY <4>1
      <4> QED
        BY <4>2
    <3>4. KeptOf(held) + whole - BlockSize = (h + v) * BlockSize
      BY <1>0, <1>4, <1>5, <3>3, Z3
    <3>5. (h + v) * BlockSize \in Nat
      BY <1>0
    <3>6. /\ Data!Pass(n).made = KeptOf(held) + whole - BlockSize
          /\ Data!Pass(n).buf = 0 /\ Data!Pass(n).held = TRUE
          /\ KeptOf(Data!Pass(n).held) = BlockSize
      BY <3>1 DEF KeptOf
    <3> HIDE DEF whole
    <3>7. KeptOf(held) + whole - BlockSize + 0 + BlockSize = buf + n + KeptOf(held)
      BY <1>0, <1>1, <1>3, <3>2
    <3>8. Data!Pass(n).made \in Nat /\ \E k \in Nat : Data!Pass(n).made = k * BlockSize
      <4>1. h + v \in Nat
        OBVIOUS
      <4> QED
        BY <3>4, <3>5, <3>6, <4>1
    <3>9. Data!Pass(n).made + Data!Pass(n).buf + KeptOf(Data!Pass(n).held)
            = buf + n + KeptOf(held)
      BY <3>6, <3>7
    <3>10. Data!Pass(n).buf = 0 /\ 0 \in Nat /\ 0 < BlockSize /\ kind # "aead"
      BY <1>0, <2>0, <3>6
    <3>11. Data!Pass(n).held \in BOOLEAN
      BY <3>6, Zenon
    <3> QED
      BY <2>0, <3>8, <3>9, <3>10, <3>11, Zenon
  <2>2. CASE rest # 0
    <3>1. Data!Pass(n) = [made |-> KeptOf(held) + whole, buf |-> rest, held |-> FALSE]
      BY <1>2, <1>8, <2>2 DEF Data!Pass
    <3>2. KeptOf(held) + whole = (h + w) * BlockSize
      BY <1>0, <1>4, <1>5, Z3
    <3>3. KeptOf(held) + whole \in Nat /\ h + w \in Nat
      BY <1>1, <1>3
    <3>4. /\ Data!Pass(n).made = KeptOf(held) + whole
          /\ Data!Pass(n).buf = rest /\ Data!Pass(n).held = FALSE
          /\ KeptOf(Data!Pass(n).held) = 0
      BY <3>1 DEF KeptOf
    <3> HIDE DEF whole
    <3>5. KeptOf(held) + whole + rest + 0 = buf + n + KeptOf(held)
      BY <1>0, <1>1, <1>3
    <3> HIDE DEF rest
    <3> QED
      BY <1>1, <2>0, <3>2, <3>3, <3>4, <3>5
  <2> QED
    BY <2>1, <2>2
<1> QED
  BY <1>6, <1>7, <1>8

\* *olen after a call that wrote n bytes: the other half stays.
LEMMA StoreIsRead ==
  ASSUME LengthInv, NEW n \in Nat
  PROVE  /\ Data!StoreInt(have, n) \in [lo : Nat, hi : Nat]
         /\ IF big THEN Data!StoreInt(have, n).lo = had.lo ELSE Data!StoreInt(have, n).hi = had.hi
         /\ Data!Value(Data!StoreInt(have, n)) =
              IF big THEN n * IntMod + had.lo ELSE had.hi * IntMod + n
<1>1. have \in [lo : Nat, hi : Nat] /\ IntMod \in Nat
  BY DataNumbers DEF LengthInv
<1>2. PICK v : v = Data!StoreInt(have, n)
  OBVIOUS
<1>3. CASE big
  <2>1. v \in [lo : Nat, hi : Nat] /\ v.lo = had.lo /\ v.hi = n
    BY <1>1, <1>2, <1>3 DEF Data!StoreInt, LengthInv
  <2>2. Data!Value(v) = n * IntMod + had.lo
    BY <2>1 DEF Data!Value
  <2> QED
    BY <1>2, <1>3, <2>1, <2>2
<1>4. CASE ~big
  <2>1. v \in [lo : Nat, hi : Nat] /\ v.hi = had.hi /\ v.lo = n
    BY <1>1, <1>2, <1>4 DEF Data!StoreInt, LengthInv
  <2>2. Data!Value(v) = had.hi * IntMod + n
    BY <2>1 DEF Data!Value
  <2> QED
    BY <1>2, <1>4, <2>1, <2>2
<1> QED
  BY <1>3, <1>4

\* A call that tells the caller of no bytes, or fails and may store a 0.
LEMMA LengthKept ==
  ASSUME LengthInv, UNCHANGED <<big, had>>,
         have' = have \/ have' = Data!StoreInt(have, 0),
         last'.ret # 0 \/ last'.made = Data!None
  PROVE  LengthInv'
<1>1. /\ have' \in [lo : Nat, hi : Nat]
      /\ IF big THEN have'.lo = had.lo ELSE have'.hi = had.hi
  BY StoreIsRead DEF LengthInv
<1>2. Data!OutputLengthRight'
  BY DEF Data!OutputLengthRight
<1> QED
  BY <1>1, <1>2 DEF LengthInv

\* A call that returned 0 and wrote n bytes.
LEMMA LengthTold ==
  ASSUME LengthInv, UNCHANGED <<big, had>>, NEW n \in Nat,
         have' = Data!StoreInt(have, n), last'.made = n
  PROVE  LengthInv'
<1>1. /\ have' \in [lo : Nat, hi : Nat]
      /\ IF big THEN have'.lo = had.lo ELSE have'.hi = had.hi
      /\ Data!Value(have') = IF big THEN n * IntMod + had.lo ELSE had.hi * IntMod + n
  BY StoreIsRead
<1>2. Data!Value(have)' = Data!Value(have')
  BY DEF Data!Value
<1>3. Data!OutputLengthRight'
  BY <1>1, <1>2 DEF Data!OutputLengthRight
<1> QED
  BY <1>1, <1>3 DEF LengthInv

\* What a message begins with.
LEMMA FreshAddsUp ==
  /\ Data!Amount(0) \in [Data!Parts -> Nat]
  /\ \A part \in Data!Parts :
       Data!Amount(0)[part] = 0 /\ \E k \in Nat : 0 = 0 + k * IntMod
  /\ 0 + 0 + KeptOf(FALSE) = Data!Amount(0)["data"]
  /\ \E k \in Nat : 0 = k * BlockSize
  /\ 0 < BlockSize
<1>1. 0 = 0 + 0 * IntMod /\ 0 = 0 * BlockSize /\ 0 < BlockSize
  BY DataNumbers
<1> QED
  BY <1>1 DEF Data!Amount, Data!Parts, KeptOf

LEMMA DataInit == Data!Init => DataInv
<1> SUFFICES ASSUME Data!Init PROVE DataInv
  OBVIOUS
<1> USE DEF Data!Init
<1>1. ContextInv
  <2>1. padding <=> pad = 1
    OBVIOUS
  <2> QED
    BY <2>1, FreshAddsUp DEF ContextInv, Data!Kinds, Data!Modes
<1>2. CountInv
  BY FreshAddsUp DEF CountInv, Flow
<1>3. LengthInv
  <2>1. had \in [lo : Nat, hi : Nat]
    OBVIOUS
  <2> QED
    BY <2>1 DEF LengthInv, Data!OutputLengthRight
<1>4. TagInv
  BY DEF TagInv
<1> QED
  BY <1>1, <1>2, <1>3, <1>4 DEF DataInv

LEMMA DataInitStep ==
  ASSUME DataInv, NEW m \in Data!Modes, NEW i \in BOOLEAN, Data!cfe_cipher_ctx_init(m, i)
  PROVE  DataInv'
<1> USE DEF DataInv, Data!cfe_cipher_ctx_init
<1>1. ContextInv'
  <2>1. padding' <=> pad' = 1
    OBVIOUS
  <2> QED
    BY <2>1, FreshAddsUp DEF ContextInv, Data!Modes
<1>2. CountInv'
  BY FreshAddsUp DEF CountInv, Flow, Data!Finalized
<1>3. LengthInv'
  BY LengthKept
<1>4. TagInv'
  BY DEF TagInv
<1> QED
  BY <1>1, <1>2, <1>3, <1>4

\* Calls that pass no data and change no mode.
StillData == UNCHANGED <<kind, mode, big, had, have, held, buf, taken, given, out>>

LEMMA CountKept ==
  ASSUME CountInv, StillData, padding' = padding, phase' = phase
  PROVE  CountInv'
  BY DEF CountInv, Flow, Whole, StillData, Data!Finalized

LEMMA ContextKept ==
  ASSUME ContextInv, UNCHANGED <<kind, mode, pad, padding, held, buf, phase>>
  PROVE  ContextInv'
  BY DEF ContextInv, Data!Finalized

LEMMA PaddingStep ==
  ASSUME DataInv, NEW on \in {0, 1, 2}, Data!cfe_cipher_ctx_set_padding(on)
  PROVE  DataInv'
<1> USE DEF DataInv
<1>1. /\ pad' = Data!PaddingArgument(on)
      /\ padding' = IF Data!Finalized THEN padding ELSE on # 0
      /\ UNCHANGED <<kind, mode, big, had, have, phase, last, given, taken, out, buf, held,
                     sealed, got>>
  BY DEF Data!cfe_cipher_ctx_set_padding, Data!message, Data!openssl
<1>2. /\ pad' \in {0, 1} /\ padding' \in BOOLEAN
      /\ ~Data!Finalized => (padding' <=> pad' = 1)
      /\ Data!Finalized => padding' = padding
  <2>1. pad' = IF on # 0 THEN 1 ELSE 0
    BY <1>1 DEF Data!PaddingArgument
  <2>2. CASE Data!Finalized
    <3>1. padding' = padding
      BY <1>1, <2>2
    <3> QED
      BY <2>1, <2>2, <3>1 DEF ContextInv
  <2>3. CASE ~Data!Finalized /\ on # 0
    <3>1. padding' = TRUE /\ pad' = 1
      BY <1>1, <2>1, <2>3
    <3> QED
      BY <2>3, <3>1
  <2>4. CASE ~Data!Finalized /\ on = 0
    <3>1. padding' = FALSE /\ pad' = 0
      BY <1>1, <2>1, <2>4
    <3>2. ~padding' /\ padding' \in BOOLEAN
      BY <3>1, Zenon
    <3>3. pad' # 1 /\ pad' \in {0, 1}
      BY <3>1
    <3> QED
      BY <2>4, <3>2, <3>3
  <2> QED
    BY <2>2, <2>3, <2>4
<1>3. ContextInv'
  BY <1>1, <1>2 DEF ContextInv, Data!Finalized
<1>4. CountInv'
  <2>1. CASE Data!Finalized
    <3>1. padding' = padding
      BY <1>2, <2>1
    <3> QED
      BY <1>1, <3>1, CountKept DEF StillData
  <2>2. CASE ~Data!Finalized
    BY <1>1, <2>2 DEF CountInv, Flow, Data!Finalized
  <2> QED
    BY <2>1, <2>2
<1>5. LengthInv' /\ TagInv'
  BY <1>1 DEF LengthInv, TagInv, Data!OutputLengthRight, Data!Value
<1> QED
  BY <1>3, <1>4, <1>5

LEMMA RefusedStep ==
  ASSUME DataInv, Data!Refused
  PROVE  DataInv'
<1> USE DEF DataInv
<1>1. /\ last' = [ret |-> 1, made |-> Data!None]
      /\ UNCHANGED <<kind, mode, big, had, have, pad, padding, phase, given, taken, out, buf, held,
                     sealed, got>>
  BY DEF Data!Refused, Data!message, Data!openssl
<1>2. ContextInv' /\ CountInv'
  BY <1>1, CountKept, ContextKept DEF StillData
<1>3. LengthInv' /\ TagInv'
  BY <1>1, LengthKept DEF TagInv
<1> QED
  BY <1>2, <1>3

LEMMA AadStep ==
  ASSUME DataInv, NEW n \in DataSizes, Data!cfe_cipher_ctx_set_aad(n)
  PROVE  DataInv'
<1> USE DEF DataInv
<1>1. CASE kind = "block"
  BY <1>1, RefusedStep DEF Data!cfe_cipher_ctx_set_aad
<1>2. CASE kind # "block"
  <2> DEFINE size == Data!AsInt(n)
  <2>0. kind = "aead" /\ n \in Nat
    BY <1>2, DataNumbers DEF ContextInv
  <2>1. PICK ok \in IF phase = "over" THEN BOOLEAN ELSE {Data!TakesAad(size)} :
          /\ last' = [ret |-> Data!Failed(Data!Status(ok)), made |-> Data!None]
          /\ IF ok /\ ~Data!Finalized
               THEN /\ given' = Data!Plus(given, "aad", n)
                    /\ taken' = Data!Plus(taken, "aad", size)
               ELSE UNCHANGED <<given, taken>>
    BY <1>2 DEF Data!cfe_cipher_ctx_set_aad, Data!openssl_generic_ctx_set_aad
  <2>2. UNCHANGED <<kind, mode, big, had, have, pad, padding, phase, buf, held, out, sealed, got>>
    BY <1>2 DEF Data!cfe_cipher_ctx_set_aad, Data!openssl_generic_ctx_set_aad, Data!message
  <2>3. last'.made = Data!None
    BY <2>1
  <2>4. ContextInv' /\ LengthInv'
    BY <2>2, <2>3, ContextKept, LengthKept
  <2>5. CASE ok /\ ~Data!Finalized
    <3>1. ok = Data!TakesAad(size) /\ phase \notin {"over", "final"}
      BY <2>1, <2>5 DEF Data!Finalized
    <3>2. size >= 0
      BY <2>5, <3>1 DEF Data!TakesAad, Data!Takes
    <3>3. size \in Nat /\ \E k \in Nat : n = size + k * IntMod
      BY <2>0, <3>2, DataNumbers
    <3> HIDE DEF size
    <3>4. /\ given' = [given EXCEPT !["aad"] = @ + n]
          /\ taken' = [taken EXCEPT !["aad"] = @ + size]
      BY <2>1, <2>5 DEF Data!Plus
    <3>5. /\ given \in [Data!Parts -> Nat] /\ taken \in [Data!Parts -> Nat]
          /\ "aad" \in Data!Parts /\ "data" \in Data!Parts /\ Flow
      BY <2>5 DEF CountInv, Data!Parts
    <3>6. /\ given' \in [Data!Parts -> Nat] /\ taken' \in [Data!Parts -> Nat]
          /\ given'["aad"] = given["aad"] + n /\ taken'["aad"] = taken["aad"] + size
          /\ given'["data"] = given["data"] /\ taken'["data"] = taken["data"]
      BY <2>0, <3>3, <3>4, <3>5
    <3>7. \A part \in Data!Parts : \E k \in Nat : given'[part] = taken'[part] + k * IntMod
      <4>1. \E k \in Nat : given'["data"] = taken'["data"] + k * IntMod
        BY <3>5, <3>6 DEF CountInv
      <4>2. \E k \in Nat : given'["aad"] = taken'["aad"] + k * IntMod
        <5>1. PICK i \in Nat : given["aad"] = taken["aad"] + i * IntMod
          BY <3>5 DEF CountInv
        <5>2. PICK j \in Nat : n = size + j * IntMod
          BY <3>3
        <5>3. given["aad"] + n = taken["aad"] + size + (i + j) * IntMod
          <6>1. (i + j) * IntMod = i * IntMod + j * IntMod
            BY DataNumbers, Z3
          <6>2. /\ i * IntMod \in Nat /\ j * IntMod \in Nat /\ taken["aad"] \in Nat
            BY <3>5, DataNumbers
          <6> QED
            BY <3>3, <5>1, <5>2, <6>1, <6>2
        <5> QED
          BY <3>6, <5>3
      <4> QED
        BY <4>1, <4>2 DEF Data!Parts
    <3>8. Flow' /\ phase' # "final"
      BY <2>2, <3>1, <3>5, <3>6 DEF Flow
    <3>9. CountInv'
      BY <2>2, <3>6, <3>7, <3>8 DEF CountInv
    <3>10. TagInv'
      BY <2>2, <3>1 DEF TagInv
    <3> QED
      BY <2>4, <3>9, <3>10
  <2>6. CASE ~(ok /\ ~Data!Finalized)
    <3>1. UNCHANGED <<given, taken>>
      BY <2>1, <2>6
    <3> QED
      BY <2>2, <2>4, <3>1, CountKept DEF StillData, TagInv
  <2> QED
    BY <2>5, <2>6
<1> QED
  BY <1>1, <1>2

LEMMA TagStep ==
  ASSUME DataInv,
         \/ \E v \in {"good", "bad"} : Data!cfe_cipher_ctx_set_tag(v)
         \/ Data!cfe_cipher_ctx_get_tag
  PROVE  DataInv'
<1> USE DEF DataInv
<1>1. CASE Data!Refused
  BY <1>1, RefusedStep
<1>2. CASE \E v \in {"good", "bad"} : Data!openssl_generic_ctx_set_tag(v)
  <2>1. /\ last'.made = Data!None
        /\ UNCHANGED <<kind, mode, big, had, have, pad, padding, phase, given, taken, out, buf,
                       held, sealed, got>>
    BY <1>2 DEF Data!openssl_generic_ctx_set_tag, Data!message, Data!openssl
  <2> QED
    BY <2>1, CountKept, ContextKept, LengthKept DEF StillData, TagInv
<1>3. CASE kind = "aead" /\ Data!openssl_generic_ctx_get_tag
  <2> DEFINE ret == Data!Failed(Data!Status(mode = "encrypt" /\ phase = "final"))
  <2>1. /\ last'.made = Data!None
        /\ got' = IF ret = 0 THEN got \cup {sealed} ELSE got
        /\ UNCHANGED <<kind, mode, big, had, have, pad, padding, phase, given, taken, out, buf,
                       held, sealed>>
    BY <1>3 DEF Data!openssl_generic_ctx_get_tag, Data!message, Data!openssl
  <2>2. ret = 0 => phase = "final"
    BY DEF Data!Failed, Data!Status
  <2> HIDE DEF ret
  <2>3. TagInv'
    BY <1>3, <2>1, <2>2 DEF TagInv
  <2> QED
    BY <2>1, <2>3, CountKept, ContextKept, LengthKept DEF StillData
<1> QED
  BY <1>1, <1>2, <1>3 DEF Data!cfe_cipher_ctx_set_tag, Data!cfe_cipher_ctx_get_tag

LEMMA UpdateStep ==
  ASSUME DataInv, NEW n \in DataSizes, Data!cfe_cipher_ctx_update(n)
  PROVE  DataInv'
<1> USE DEF DataInv
<1> DEFINE size == Data!AsInt(n)
           after == Data!Pass(size)
<1>0. n \in Nat /\ Data!Failed(1) = 0 /\ Data!Failed(0) = 1
  BY DataNumbers DEF Data!Failed
<1>1. UNCHANGED <<kind, mode, big, had, pad, padding, tag, sealed, got>>
  BY DEF Data!cfe_cipher_ctx_update, Data!message
<1>2. CASE Data!Takes(size)
  <2>1. /\ last' = [ret |-> 0, made |-> after.made]
        /\ have' = Data!StoreInt(have, after.made)
        /\ buf' = after.buf /\ held' = after.held
        /\ phase' = IF size = 0 THEN phase ELSE IF Data!Finalized THEN "over" ELSE "data"
        /\ IF Data!Finalized THEN UNCHANGED <<given, taken, out>>
           ELSE /\ given' = Data!Plus(given, "data", n)
                /\ taken' = Data!Plus(taken, "data", size)
                /\ out' = out + after.made
    BY <1>0, <1>2 DEF Data!cfe_cipher_ctx_update
  <2>2. /\ size >= 0
        /\ kind = "aead" => phase # "final"
    BY <1>2 DEF Data!Takes
  <2>3. size \in Nat /\ \E k \in Nat : n = size + k * IntMod
    BY <1>0, <2>2, DataNumbers
  <2> HIDE DEF size
  <2>4. /\ after.made \in Nat
        /\ after.buf \in Nat /\ after.buf < BlockSize
        /\ after.held \in BOOLEAN
        /\ after.held => kind = "block" /\ mode = "decrypt"
        /\ kind = "aead" => after.buf = 0
        /\ size = 0 => after.buf = buf /\ after.held = held
        /\ kind = "block" => \E k \in Nat : after.made = k * BlockSize
        /\ after.made + after.buf + KeptOf(after.held) = buf + size + KeptOf(held)
    BY <2>3, PassAddsUp
  <2> HIDE DEF after
  <2>5. Data!Finalized' = Data!Finalized
    BY <2>1 DEF Data!Finalized
  <2>6. phase' = "final" => kind = "block" /\ phase = "final" /\ buf' = buf /\ held' = held
    BY <2>1, <2>2, <2>4 DEF ContextInv
  <2>7. ContextInv'
    BY <1>1, <2>1, <2>4, <2>5 DEF ContextInv
  <2>8. LengthInv'
    BY <1>1, <2>1, <2>4, LengthTold
  <2>9. TagInv'
    <3>1. kind' = "aead" => phase' # "final"
      BY <1>1, <2>6
    <3>2. got' = {}
      <4>1. \A covered \in got : kind = "aead" /\ phase = "final"
        BY DEF TagInv
      <4>2. ~(kind = "aead" /\ phase = "final")
        BY <2>2
      <4> QED
        BY <1>1, <4>1, <4>2
    <3> QED
      BY <3>1, <3>2 DEF TagInv
  <2>10. CASE Data!Finalized
    <3>1. UNCHANGED <<given, taken, out>>
      BY <2>1, <2>10
    <3>2. phase' = "final" => Whole'
      BY <1>1, <2>6, <3>1 DEF Whole, CountInv
    <3>3. CountInv'
      BY <2>5, <2>10, <3>1, <3>2 DEF CountInv
    <3> QED
      BY <2>7, <2>8, <2>9, <3>3
  <2>11. CASE ~Data!Finalized
    <3>1. /\ given' = [given EXCEPT !["data"] = @ + n]
          /\ taken' = [taken EXCEPT !["data"] = @ + size]
          /\ out' = out + after.made
      BY <2>1, <2>11 DEF Data!Plus
    <3>2. /\ given \in [Data!Parts -> Nat] /\ taken \in [Data!Parts -> Nat] /\ out \in Nat
          /\ "aad" \in Data!Parts /\ "data" \in Data!Parts /\ Flow
      BY <2>11 DEF CountInv, Data!Parts
    <3>3. /\ given' \in [Data!Parts -> Nat] /\ taken' \in [Data!Parts -> Nat] /\ out' \in Nat
          /\ given'["data"] = given["data"] + n /\ taken'["data"] = taken["data"] + size
          /\ given'["aad"] = given["aad"] /\ taken'["aad"] = taken["aad"]
      BY <1>0, <2>3, <2>4, <3>1, <3>2
    <3>4. \A part \in Data!Parts : \E k \in Nat : given'[part] = taken'[part] + k * IntMod
      <4>1. \E k \in Nat : given'["aad"] = taken'["aad"] + k * IntMod
        BY <3>2, <3>3 DEF CountInv
      <4>2. \E k \in Nat : given'["data"] = taken'["data"] + k * IntMod
        <5>1. PICK i \in Nat : given["data"] = taken["data"] + i * IntMod
          BY <3>2 DEF CountInv
        <5>2. PICK j \in Nat : n = size + j * IntMod
          BY <2>3
        <5>3. given["data"] + n = taken["data"] + size + (i + j) * IntMod
          <6>1. (i + j) * IntMod = i * IntMod + j * IntMod
            BY DataNumbers, Z3
          <6>2. i * IntMod \in Nat /\ j * IntMod \in Nat /\ taken["data"] \in Nat
            BY <3>2, DataNumbers
          <6> QED
            BY <2>3, <5>1, <5>2, <6>1, <6>2
        <5> QED
          BY <3>3, <5>3
      <4> QED
        BY <4>1, <4>2 DEF Data!Parts
    <3>5. out' + buf' + KeptOf(held)' = taken'["data"]
      <4>1. KeptOf(held) \in Nat /\ KeptOf(after.held) \in Nat /\ buf \in Nat
        BY DataNumbers DEF KeptOf, ContextInv
      <4>2. KeptOf(held)' = KeptOf(after.held) /\ buf' = after.buf
        BY <2>1 DEF KeptOf
      <4>3. out + buf + KeptOf(held) = taken["data"]
        BY <3>2 DEF Flow
      <4> QED
        BY <2>3, <2>4, <3>1, <3>2, <3>3, <4>1, <4>2, <4>3
    <3>6. kind = "block" => \E k \in Nat : out' = k * BlockSize
      <4> SUFFICES ASSUME kind = "block" PROVE \E k \in Nat : out' = k * BlockSize
        OBVIOUS
      <4>1. PICK i \in Nat : out = i * BlockSize
        BY <3>2 DEF Flow
      <4>2. PICK j \in Nat : after.made = j * BlockSize
        BY <2>4
      <4>3. i * BlockSize + j * BlockSize = (i + j) * BlockSize
        BY DataNumbers, Z3
      <4> QED
        BY <3>1, <4>1, <4>2, <4>3
    <3>7. phase' # "final"
      BY <2>1, <2>11 DEF Data!Finalized
    <3>8. CountInv'
      BY <1>1, <3>3, <3>4, <3>5, <3>6, <3>7 DEF CountInv, Flow
    <3> QED
      BY <2>7, <2>8, <2>9, <3>8
  <2> QED
    BY <2>10, <2>11
<1>3. CASE ~Data!Takes(size)
  <2>1. /\ last'.ret = 1
        /\ have' = have \/ have' = Data!StoreInt(have, 0)
        /\ UNCHANGED <<phase, given, buf, held, taken, out>>
    BY <1>0, <1>3 DEF Data!cfe_cipher_ctx_update, Data!openssl
  <2>2. CountInv'
    BY <1>1, <2>1 DEF CountInv, Flow, Whole, Data!Finalized
  <2> QED
    BY <1>1, <2>1, <2>2, ContextKept, LengthKept DEF TagInv
<1> QED
  BY <1>2, <1>3

LEMMA FinalCases ==
  ASSUME ContextInv, NEW o \in Data!Final
  PROVE  /\ o.status \in {0, 1} /\ o.made \in Nat
         /\ o.status = 0 => o.made = 0
         /\ o.status = 1 /\ kind = "aead" => o.made = 0 /\ ~Data!Finalized
         /\ o.status = 1 /\ kind = "block" /\ pad = 0 => o.made = 0 /\ buf = 0
         /\ o.status = 1 /\ kind = "block" /\ pad # 0 /\ mode = "encrypt" => o.made = BlockSize
         /\ o.status = 1 /\ kind = "block" /\ pad # 0 /\ mode # "encrypt" =>
              buf = 0 /\ held /\ o.made < BlockSize
<1>0. BlockSize \in Nat \ {0} /\ kind \in {"block", "aead"} /\ mode \in {"encrypt", "decrypt"}
  BY DataNumbers DEF ContextInv
<1>1. CASE kind = "aead"
  BY <1>1 DEF Data!Final
<1>2. CASE kind = "block" /\ pad = 0
  BY <1>2 DEF Data!Final
<1>3. CASE kind = "block" /\ pad # 0 /\ mode = "encrypt"
  BY <1>0, <1>3 DEF Data!Final
<1>4. CASE kind = "block" /\ pad # 0 /\ mode # "encrypt"
  <2>1. CASE o = [status |-> 0, made |-> 0]
    BY <1>4, <2>1
  <2>2. CASE o # [status |-> 0, made |-> 0]
    <3>1. /\ buf = 0 /\ held
          /\ \E n \in 0..BlockSize - 1 : o = [status |-> 1, made |-> n]
      BY <1>4, <2>2 DEF Data!Final
    <3>2. PICK n \in 0..BlockSize - 1 : o = [status |-> 1, made |-> n]
      BY <3>1
    <3>3. o.status = 1 /\ o.made = n /\ n \in Nat /\ n < BlockSize
      BY <1>0, <3>2
    <3> QED
      BY <1>4, <3>1, <3>3
  <2> QED
    BY <2>1, <2>2
<1> QED
  BY <1>0, <1>1, <1>2, <1>3, <1>4

LEMMA FinalizeStep ==
  ASSUME DataInv, Data!cfe_cipher_ctx_finalize
  PROVE  DataInv'
<1> USE DEF DataInv
<1>0. /\ BlockSize \in Nat \ {0} /\ buf \in Nat /\ buf < BlockSize /\ held \in BOOLEAN
      /\ kind \in {"block", "aead"} /\ mode \in {"encrypt", "decrypt"}
  BY DataNumbers DEF ContextInv
<1>1. PICK o \in Data!Final :
        /\ last' = [ret |-> Data!Failed(o.status), made |-> o.made]
        /\ have' \in IF o.status = 1 THEN {Data!StoreInt(have, o.made)}
                     ELSE {have, Data!StoreInt(have, 0)}
        /\ phase' = IF Data!Failed(o.status) = 0 THEN IF Data!Finalized THEN "over" ELSE "final"
                    ELSE IF Data!Spoils THEN "over" ELSE phase
        /\ out' = IF Data!Finalized THEN out ELSE out + o.made
        /\ sealed' = IF kind = "aead" /\ o.status = 1 THEN taken ELSE sealed
  BY DEF Data!cfe_cipher_ctx_finalize
<1>2. UNCHANGED <<kind, mode, big, had, pad, padding, buf, held, tag, given, taken, got>>
  BY DEF Data!cfe_cipher_ctx_finalize, Data!message
<1>3. /\ o.status \in {0, 1} /\ o.made \in Nat
      /\ o.status = 0 => o.made = 0
      /\ o.status = 1 /\ kind = "aead" => o.made = 0 /\ ~Data!Finalized
      /\ o.status = 1 /\ kind = "block" /\ pad = 0 => o.made = 0 /\ buf = 0
      /\ o.status = 1 /\ kind = "block" /\ pad # 0 /\ mode = "encrypt" => o.made = BlockSize
      /\ o.status = 1 /\ kind = "block" /\ pad # 0 /\ mode # "encrypt" =>
           buf = 0 /\ held /\ o.made < BlockSize
  BY FinalCases
<1>4. CASE o.status = 0
  <2>1. last'.ret = 1 /\ have' \in {have, Data!StoreInt(have, 0)}
    BY <1>1, <1>4 DEF Data!Failed
  <2>2. /\ sealed' = sealed
        /\ phase' = phase \/ (phase' = "over" /\ kind = "aead" /\ phase # "final")
    BY <1>1, <1>4 DEF Data!Failed, Data!Spoils
  <2>3. out' = out
    BY <1>1, <1>3, <1>4 DEF CountInv
  <2>4. ContextInv'
    BY <1>2, <2>2 DEF ContextInv, Data!Finalized
  <2>5. CountInv'
    BY <1>2, <2>2, <2>3 DEF CountInv, Flow, Whole, Data!Finalized
  <2>6. TagInv'
    <3>1. phase' # phase => got = {}
      BY <2>2 DEF TagInv
    <3> QED
      BY <1>2, <2>2, <3>1 DEF TagInv
  <2> QED
    BY <1>2, <2>1, <2>4, <2>5, <2>6, LengthKept
<1>5. CASE o.status = 1
  <2>1. /\ last'.made = o.made /\ have' = Data!StoreInt(have, o.made)
        /\ phase' = IF Data!Finalized THEN "over" ELSE "final"
    BY <1>1, <1>5 DEF Data!Failed
  <2>2. LengthInv'
    BY <1>2, <1>3, <2>1, LengthTold
  <2>3. ContextInv'
    BY <1>2, <2>1 DEF ContextInv, Data!Finalized
  <2>4. CASE Data!Finalized
    <3>1. kind = "block" /\ phase' = "over" /\ out' = out /\ sealed' = sealed
      BY <1>0, <1>1, <1>3, <1>5, <2>1, <2>4
    <3>2. CountInv'
      BY <1>2, <3>1 DEF CountInv, Data!Finalized
    <3>3. TagInv'
      <4>1. got = {}
        BY <3>1 DEF TagInv
      <4> QED
        BY <1>2, <3>1, <4>1 DEF TagInv
    <3> QED
      BY <2>2, <2>3, <3>2, <3>3
  <2>5. CASE ~Data!Finalized
    <3>1. phase' = "final" /\ out' = out + o.made /\ phase # "final"
      BY <1>1, <2>1, <2>5 DEF Data!Finalized
    <3>2. TagInv'
      <4>1. got = {}
        BY <3>1 DEF TagInv
      <4>2. kind = "aead" => sealed' = taken
        BY <1>1, <1>5
      <4> QED
        BY <1>2, <4>1, <4>2 DEF TagInv
    <3>3. /\ Flow /\ out \in Nat /\ taken["data"] \in Nat
          /\ out + buf + KeptOf(held) = taken["data"]
      BY <2>5 DEF CountInv, Flow, Data!Parts
    <3>4. (padding <=> pad = 1) /\ pad \in {0, 1}
      BY <2>5 DEF ContextInv
    <3>5. /\ KeptOf(held) \in Nat
          /\ held => KeptOf(held) = BlockSize
          /\ ~held => KeptOf(held) = 0
      BY <1>0 DEF KeptOf
    <3>6. Whole'
      <4>1. CASE kind = "aead"
        <5>1. ~held /\ buf = 0 /\ o.made = 0
          BY <1>3, <1>5, <4>1 DEF ContextInv
        <5>2. out' = taken["data"]
          BY <3>1, <3>3, <3>5, <5>1
        <5> QED
          BY <1>2, <4>1, <5>2 DEF Whole
      <4>2. CASE kind = "block"
        <5>1. PICK k \in Nat : out = k * BlockSize
          BY <3>3, <4>2 DEF Flow
        <5>2. CASE ~padding
          <6>1. buf = 0 /\ o.made = 0
            <7>1. pad = 0
              BY <3>4, <5>2
            <7> QED
              BY <1>3, <1>5, <4>2, <7>1
          <6>2. out' = out /\ out + KeptOf(held) = taken["data"]
            BY <3>1, <3>3, <3>5, <6>1
          <6>3. PICK h \in Nat : KeptOf(held) = h * BlockSize
            <7>1. 0 = 0 * BlockSize /\ BlockSize = 1 * BlockSize
              BY <1>0
            <7> QED
              BY <1>0, <3>5, <7>1
          <6>4. taken["data"] = (k + h) * BlockSize + 0
            BY <1>0, <5>1, <6>2, <6>3, Z3
          <6>5. taken["data"] % BlockSize = 0
            <7>1. k + h \in Nat /\ 0 < BlockSize
              BY <1>0
            <7> QED
              BY <1>0, <6>4, <7>1, BlockCount
          <6>6. KeptOf(held)' = KeptOf(held)
            BY <1>2 DEF KeptOf
          <6> QED
            BY <1>2, <4>2, <5>2, <6>2, <6>5, <6>6 DEF Whole
        <5>3. CASE padding /\ mode = "encrypt"
          <6>1. o.made = BlockSize /\ ~held
            BY <1>3, <1>5, <3>4, <4>2, <5>3 DEF ContextInv
          <6>2. taken["data"] = k * BlockSize + buf
            <7>1. taken["data"] = out + buf
              BY <1>0, <3>3, <3>5, <6>1
            <7> QED
              BY <5>1, <7>1
          <6>3. taken["data"] \div BlockSize = k
            BY <1>0, <6>2, BlockCount
          <6>4. out' = (k + 1) * BlockSize
            BY <1>0, <3>1, <5>1, <6>1, Z3
          <6> QED
            BY <1>2, <4>2, <5>3, <6>3, <6>4 DEF Whole
        <5>4. CASE padding /\ mode # "encrypt"
          <6>1. buf = 0 /\ held /\ o.made < BlockSize
            <7>1. pad # 0 /\ mode # "encrypt"
              BY <3>4, <5>4
            <7> QED
              BY <1>3, <1>5, <4>2, <7>1
          <6>2. out + BlockSize = taken["data"]
            <7>1. KeptOf(held) = BlockSize
              BY <6>1 DEF KeptOf
            <7>2. out + 0 + BlockSize = taken["data"]
              BY <3>3, <6>1, <7>1
            <7> QED
              BY <1>0, <3>3, <7>2
          <6>3. taken["data"] = (k + 1) * BlockSize + 0
            BY <1>0, <5>1, <6>2, Z3
          <6>4. taken["data"] % BlockSize = 0
            <7>1. k + 1 \in Nat /\ 0 < BlockSize
              BY <1>0
            <7> QED
              BY <1>0, <6>3, <7>1, BlockCount
          <6>5. out' \in taken["data"] - BlockSize .. taken["data"] - 1
            BY <1>0, <1>3, <3>1, <3>3, <6>1, <6>2
          <6> QED
            BY <1>2, <4>2, <5>4, <6>4, <6>5 DEF Whole
        <5> QED
          BY <5>2, <5>3, <5>4
      <4> QED
        BY <1>0, <4>1, <4>2
    <3>7. CountInv'
      BY <1>2, <1>3, <3>1, <3>3, <3>6 DEF CountInv, Data!Finalized
    <3> QED
      BY <2>2, <2>3, <3>2, <3>7
  <2> QED
    BY <2>4, <2>5
<1> QED
  BY <1>3, <1>4, <1>5

LEMMA DataStep ==
  ASSUME DataInv, [Data!Next]_(Data!vars)
  PROVE  DataInv'
<1>1. CASE UNCHANGED Data!vars
  <2>1. UNCHANGED <<kind, mode, big, had, have, pad, padding, phase, buf, held, tag, last, given,
                    taken, out, sealed, got>>
    BY <1>1 DEF Data!vars
  <2>2. ContextInv' /\ CountInv'
    BY <2>1, ContextKept, CountKept DEF DataInv, StillData
  <2>3. LengthInv' /\ TagInv'
    BY <2>1 DEF DataInv, LengthInv, TagInv, Data!OutputLengthRight, Data!Value
  <2> QED
    BY <2>2, <2>3 DEF DataInv
<1> QED
  BY <1>1, DataInitStep, UpdateStep, FinalizeStep, PaddingStep, AadStep, TagStep DEF Data!Next

LEMMA DataInvariance == Data!Spec => []DataInv
  BY DataInit, DataStep, PTL DEF Data!Spec

(***************************************************************************)
(* Where cipher-openssl.c has OpenSSL store an int through the address of  *)
(* the caller's size_t: what the caller reads after any call that returned *)
(* 0, for every size of the data and either byte order.  It is the number  *)
(* of bytes written on a little-endian machine when the upper half was 0.  *)
(***************************************************************************)
THEOREM LengthIsRight == Data!Spec => []OutputLengthRight
<1>1. DataInv => OutputLengthRight
  BY DEF DataInv, LengthInv, OutputLengthRight
<1> QED
  BY <1>1, DataInvariance, PTL

(***************************************************************************)
(* Through openssl_generic_ctx_update() and _finalize(), for every block   *)
(* size, every size of the data and every order of the calls, the bytes of *)
(* a message add up, but for multiples of 2^32 that a cast loses.          *)
(***************************************************************************)
THEOREM BytesAddUp == Data!Spec => []DataConserved
<1>1. DataInv => DataConserved
  <2> SUFFICES ASSUME DataInv PROVE DataConserved
    OBVIOUS
  <2>1. ASSUME NEW part \in Data!Parts
        PROVE  taken[part] <= given[part] /\ (given[part] - taken[part]) % IntMod = 0
    <3>1. PICK k \in Nat : given[part] = taken[part] + k * IntMod
      BY DEF DataInv, CountInv
    <3>2. taken[part] \in Nat /\ IntMod \in Nat \ {0} /\ k * IntMod \in Nat
      BY DataNumbers DEF DataInv, CountInv
    <3>3. given[part] - taken[part] = k * IntMod + 0
      BY <3>1, <3>2
    <3>4. (given[part] - taken[part]) % IntMod = 0
      <4>1. 0 < IntMod
        BY <3>2
      <4> QED
        BY <3>2, <3>3, <4>1, BlockCount
    <3> QED
      BY <3>1, <3>2, <3>4
  <2>2. Data!Kept = KeptOf(held)
    BY DEF Data!Kept, KeptOf
  <2> QED
    BY <2>1, <2>2 DEF DataInv, CountInv, Flow, Whole, DataConserved, Data!DataConserved
<1> QED
  BY <1>1, DataInvariance, PTL

(***************************************************************************)
(* cfe_cipher_ctx_finalize() and _get_tag() return 0 for no tag of another *)
(* message, nor of a part of the data or of the AAD of this one, in any    *)
(* order of the calls.                                                     *)
(***************************************************************************)
THEOREM TagsVouchForAll == Data!Spec => []TagsCoverTheMessage
<1>1. DataInv => TagsCoverTheMessage
  BY DEF DataInv, TagInv, TagsCoverTheMessage, Data!TagsCoverTheMessage
<1> QED
  BY <1>1, DataInvariance, PTL
=============================================================================
