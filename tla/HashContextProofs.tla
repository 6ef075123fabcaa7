------------------------- MODULE HashContextProofs --------------------------
(***************************************************************************)
(* Proofs about HashContext, for any threads, contexts and types.  Every   *)
(* step of the calls is one of the moves of UserCounts or touches no       *)
(* reference; that move is also the step of RegistryAbs it implements.     *)
(***************************************************************************)
EXTENDS HashContext, UserCounts

\* A call has a type between its first and its last step.
CallsHaveTypes == \A t \in Threads : pc[t] = "idle" <=> type[t] = NoType

Count == Kept(Owners, Types, Users, refcnt, listed)

IInv == TypeOK /\ CallsHaveTypes /\ Count /\ listed \subseteq Complete

\* What every step is shown to do.
Good == IInv' /\ [Abs!Next]_(Abs!absVars)

LEMMA OwnersAreFinite == IsFiniteSet(Owners)
  BY HashContextAssumption, FS_Union DEF Owners

LEMMA UsersAre ==
  /\ \A c \in Ctxs : c \in Owners /\ Users[c] = ctype[c]
  /\ \A t \in Threads : t \in Owners /\ Users[t] = type[t]
  BY HashContextAssumption DEF Owners, Users

LEMMA UsersAreNext ==
  /\ \A c \in Ctxs : Users'[c] = ctype'[c]
  /\ \A t \in Threads : Users'[t] = type'[t]
  BY HashContextAssumption DEF Owners, Users

LEMMA UsersFun == Users = [o \in Owners |-> Users[o]] /\ Users' = [o \in Owners |-> Users'[o]]
  BY DEF Users

\* A call that leaves types, counters and users alone.
LEMMA QuietCount ==
  ASSUME Count, UNCHANGED <<listed, refcnt, type, ctype>>
  PROVE  Count' /\ UNCHANGED Abs!absVars
<1>1. Users' = Users
  BY DEF Users
<1> QED
  BY <1>1 DEF Count, Abs!absVars

-----------------------------------------------------------------------------
LEMMA HashInit == Init => IInv /\ Abs!Init
<1> SUFFICES ASSUME Init PROVE IInv /\ Abs!Init
  OBVIOUS
<1>1. Users = [o \in Owners |-> NoType]
  BY DEF Init, Users, Owners
<1>2. \A ty \in Types : UserSet(Owners, Users, ty) = {}
  BY <1>1, HashContextAssumption DEF UserSet
<1>3. Count
  BY <1>1, <1>2, HashContextAssumption DEF Init, Count, Kept, Balanced, UsedAreListed
<1>4. TypeOK
  <2>1. crashed \in BOOLEAN
    BY Zenon DEF Init
  <2> QED
    BY <2>1 DEF Init, TypeOK
<1>5. CallsHaveTypes /\ listed \subseteq Complete
  BY DEF Init, CallsHaveTypes
<1>6. Abs!Init
  BY <1>1 DEF Init, Abs!Init
<1> QED
  BY <1>3, <1>4, <1>5, <1>6 DEF IInv

LEMMA RegisterStep ==
  ASSUME IInv, NEW ty \in Types, cfe_hash_register(ty)
  PROVE  Good
<1> USE DEF contexts, IInv, cfe_hash_register, Enlist, find_alg
<1>1. ty \notin listed /\ \A other \in listed : NameOf[other] # NameOf[ty]
  OBVIOUS
<1>2. Users' = Users
  BY DEF Users
<1>3. \A x \in Types : refcnt'[x] = IF x = ty THEN 1 ELSE refcnt[x]
  BY DEF TypeOK
<1>4. Count'
  <2>1. /\ Kept(Owners, Types, Users, refcnt, listed)
        /\ \A x \in Types : x \in listed' <=> x \in listed \/ x = ty
    BY DEF Count
  <2> HIDE DEF contexts, IInv, cfe_hash_register, Enlist, find_alg
  <2>2. Kept(Owners, Types, Users, refcnt', listed')
    BY <1>1, <1>3, <2>1, Enlisting
  <2> QED
    BY <1>2, <2>2 DEF Count
<1>5. Abs!Register(ty)
  BY <1>1, <1>2 DEF Abs!Register
<1> QED
  BY <1>4, <1>5 DEF Good, TypeOK, CallsHaveTypes, Abs!Next

LEMMA UnregisterStep ==
  ASSUME IInv, NEW ty \in Types, cfe_hash_unregister(ty)
  PROVE  Good
<1> USE DEF contexts, IInv, cfe_hash_unregister
<1>1. Users' = Users
  BY DEF Users
<1>2. \A o \in Owners : Users[o] # ty
  BY OneIsUnused, OwnersAreFinite DEF Count
<1>3. Count'
  BY <1>1, Delisting, OwnersAreFinite DEF Count
<1>4. Abs!Unregister(ty)
  BY <1>1, <1>2, HashContextAssumption DEF Abs!Unregister
<1> QED
  BY <1>3, <1>4 DEF Good, TypeOK, CallsHaveTypes, Abs!Next

LEMMA AllocRefStep ==
  ASSUME IInv, NEW t \in Threads, NEW name, AllocRef(t, name)
  PROVE  Good
<1> USE DEF contexts, IInv, AllocRef, Goto
<1>1. PICK ty \in find_alg(name) : /\ refcnt' = [refcnt EXCEPT ![ty] = @ + 1]
                                   /\ type' = [type EXCEPT ![t] = ty]
  OBVIOUS
<1>2. ty \in listed /\ ty \in Types
  BY <1>1 DEF find_alg, TypeOK
<1>3. Users' = [Users EXCEPT ![t] = ty] /\ Users[t] = NoType
  <2>1. Users[t] = NoType
    BY UsersAre DEF CallsHaveTypes
  <2>2. Users' = [Users EXCEPT ![t] = ty]
    <3>1. type'[t] = ty /\ \A u \in Threads \ {t} : type'[u] = type[u]
      BY <1>1 DEF TypeOK
    <3>2. ctype' = ctype
      OBVIOUS
    <3> HIDE DEF contexts, IInv, AllocRef, Goto
    <3>3. t \in Owners /\ Users'[t] = ty
      BY <3>1, UsersAre, UsersAreNext
    <3>4. \A o \in Owners \ {t} : Users'[o] = Users[o]
      BY <3>1, <3>2, UsersAre, UsersAreNext DEF Owners
    <3> QED
      BY <3>3, <3>4, OneBecomes, UsersFun
  <2> QED
    BY <2>1, <2>2
<1>4. \A x \in Types : refcnt'[x] = IF x = ty THEN refcnt[x] + 1 ELSE refcnt[x]
  BY <1>1 DEF TypeOK
<1>5. t \in Owners /\ Users'[t] = ty /\ \A p \in Owners \ {t} : Users'[p] = Users[p]
  BY <1>3 DEF Users, Owners
<1>6. Count'
  <2> HIDE DEF AllocRef, Goto
  <2>0. Users[t] \notin Types /\ Kept(Owners, Types, Users, refcnt, listed)
    BY <1>3, HashContextAssumption DEF Count
  <2> HIDE DEF IInv
  <2>1. Kept(Owners, Types, Users', refcnt', listed)
    BY <1>2, <1>4, <1>5, <2>0, Taking, OwnersAreFinite
  <2> QED
    BY <2>1 DEF Count, AllocRef
<1>7. Abs!Acquire(t, ty)
  BY <1>2, <1>3 DEF Abs!Acquire
<1>8. TypeOK'
  BY <1>1, <1>2 DEF TypeOK
<1>9. CallsHaveTypes'
  BY <1>1, <1>2, HashContextAssumption DEF CallsHaveTypes, TypeOK
<1> QED
  BY <1>2, <1>5, <1>6, <1>7, <1>8, <1>9 DEF Good, Abs!Next

LEMMA AllocDoneStep ==
  ASSUME IInv, NEW t \in Threads, NEW c \in Ctxs, AllocDone(t, c)
  PROVE  Good
<1> USE DEF contexts, IInv, AllocDone, Return
<1>1. Users' = [Users EXCEPT ![c] = Users[t], ![t] = NoType]
  BY HashContextAssumption DEF Users, Owners, TypeOK
<1>2. /\ t \in Owners /\ c \in Owners /\ t # c
      /\ Users[t] \in Types /\ Users[c] = NoType
  BY UsersAre, HashContextAssumption DEF CallsHaveTypes, TypeOK
<1>3. /\ Users'[c] = Users[t] /\ Users'[t] = NoType
      /\ \A q \in Owners \ {t, c} : Users'[q] = Users[q]
  BY <1>1, <1>2 DEF Users
<1>4. Count'
  BY <1>2, <1>3, Handing, OwnersAreFinite, HashContextAssumption DEF Count
<1>5. Abs!Hand(t, c)
  BY <1>1, <1>2, HashContextAssumption DEF Abs!Hand
<1>6. TypeOK' /\ CallsHaveTypes'
  BY <1>2 DEF TypeOK, CallsHaveTypes
<1> QED
  BY <1>2, <1>4, <1>5, <1>6 DEF Good, TypeOK, Abs!Next

LEMMA AllocNullStep ==
  ASSUME IInv, NEW t \in Threads, AllocNull(t) \/ OpensslNoMemory(t)
  PROVE  Good
  BY QuietCount
  DEF IInv, contexts, AllocNull, OpensslNoMemory, Goto, Good, TypeOK, CallsHaveTypes

LEMMA DestroyStep ==
  ASSUME IInv, NEW t \in Threads, NEW c \in Ctxs, Destroy(t, c)
  PROVE  Good
<1> USE DEF contexts, IInv, Destroy, Goto, openssl_destroy_ctx
<1>1. /\ t \in Owners /\ c \in Owners /\ t # c
      /\ Users[c] \in Types /\ Users[t] = NoType
  BY UsersAre, HashContextAssumption DEF CallsHaveTypes, TypeOK
<1>2. Users' = [Users EXCEPT ![t] = Users[c], ![c] = NoType]
  BY HashContextAssumption DEF Users, Owners, TypeOK
<1>3. /\ Users'[t] = Users[c] /\ Users'[c] = NoType
      /\ \A q \in Owners \ {t, c} : Users'[q] = Users[q]
  BY <1>1, <1>2 DEF Users
<1>4. Count'
  BY <1>1, <1>3, Handing, OwnersAreFinite, HashContextAssumption DEF Count
<1>5. Abs!Hand(c, t)
  BY <1>1, <1>2, HashContextAssumption DEF Abs!Hand
<1>6. TypeOK' /\ CallsHaveTypes'
  BY <1>1, HashContextAssumption DEF TypeOK, CallsHaveTypes
<1> QED
  BY <1>1, <1>4, <1>5, <1>6 DEF Good, Abs!Next

LEMMA PutStep ==
  ASSUME IInv, NEW t \in Threads, Put(t)
  PROVE  Good
<1> USE DEF contexts, IInv, Put, Return
<1>1. t \in Owners /\ Users[t] = type[t] /\ type[t] \in Types
  BY UsersAre DEF CallsHaveTypes, TypeOK
<1>2. Users' = [Users EXCEPT ![t] = NoType]
  BY HashContextAssumption DEF Users, Owners, TypeOK
<1>3. Users'[t] = NoType /\ \A q \in Owners \ {t} : Users'[q] = Users[q]
  BY <1>1, <1>2 DEF Users
<1>4. \A x \in Types : refcnt'[x] = IF x = Users[t] THEN refcnt[x] - 1 ELSE refcnt[x]
  BY <1>1 DEF TypeOK
<1>5. Count'
  <2> HIDE DEF Put, Return
  <2>1. Kept(Owners, Types, Users', refcnt', listed)
    BY <1>1, <1>3, <1>4, Dropping, OwnersAreFinite, HashContextAssumption DEF Count
  <2> QED
    BY <2>1 DEF Count, Put
<1>6. Abs!Release(t)
  BY <1>1, <1>2, HashContextAssumption DEF Abs!Release
<1>7. TypeOK' /\ CallsHaveTypes'
  BY <1>1 DEF TypeOK, CallsHaveTypes
<1> QED
  BY <1>1, <1>5, <1>6, <1>7 DEF Good, contexts, Abs!Next

\* The calls on a context change its digest only, and only of one that is live.
LEMMA DigestStep ==
  ASSUME IInv, NEW c \in Ctxs,
         cfe_hash_ctx_init(c) \/ cfe_hash_ctx_update(c) \/ cfe_hash_ctx_finalize(c)
  PROVE  Good
<1>1. /\ ctype[c] # NoType /\ OnlyDigest
      /\ digest' \in [Ctxs -> {"closed", "open"}] /\ crashed' \in BOOLEAN
  BY DEF cfe_hash_ctx_init, cfe_hash_ctx_update, cfe_hash_ctx_finalize, Live,
         openssl_generic_ctx_init, openssl_generic_ctx_update, openssl_generic_ctx_finalize,
         Digest, Dies, IInv, TypeOK
<1> QED
  BY <1>1, QuietCount
  DEF IInv, OnlyDigest, Good, TypeOK, CallsHaveTypes

LEMMA HashStep == IInv /\ [Next]_vars => Good
<1> SUFFICES ASSUME IInv, [Next]_vars PROVE Good
  OBVIOUS
<1>1. CASE Next
  BY <1>1, RegisterStep, UnregisterStep, AllocRefStep, AllocDoneStep, AllocNullStep,
     DestroyStep, PutStep, DigestStep DEF Next, Step
<1>2. CASE UNCHANGED vars
  BY <1>2, QuietCount DEF vars, contexts, IInv, Good, TypeOK, CallsHaveTypes
<1> QED
  BY <1>1, <1>2

LEMMA HashInductive == Spec => []IInv
<1>1. IInv /\ [Next]_vars => IInv'
  BY HashStep DEF Good
<1> QED
  BY <1>1, HashInit, PTL DEF Spec

-----------------------------------------------------------------------------
(***************************************************************************)
(* Every variable of the hash registry and of its contexts keeps its type. *)
(***************************************************************************)
THEOREM HashTypeCorrect == Spec => []TypeOK
  BY HashInductive, PTL DEF IInv

(***************************************************************************)
(* type->refcnt is one plus the contexts and calls that use the type: the  *)
(* failed allocations and the destructions of hash.c give back exactly     *)
(* what they had.                                                          *)
(***************************************************************************)
THEOREM HashRefsBalanced == Spec => []RefsBalanced
<1>1. IInv => RefsBalanced
  BY DEF IInv, Count, Kept, Balanced, UserSet, RefsBalanced, Holders
<1> QED
  BY <1>1, HashInductive, PTL

(***************************************************************************)
(* The alloc_ctx() of hash.c is never called through a missing pointer or  *)
(* of a type that is unregistered meanwhile.                               *)
(***************************************************************************)
THEOREM HashCallbackExists == Spec => []CallbackExists
<1>1. IInv => CallbackExists
  <2> SUFFICES ASSUME IInv, NEW t \in Threads, pc[t] = "alloc"
               PROVE  type[t] \in Complete \cap listed
    BY DEF CallbackExists
  <2>1. type[t] \in Types /\ t \in Owners /\ Users[t] = type[t]
    BY UsersAre DEF IInv, CallsHaveTypes, TypeOK
  <2> QED
    BY <2>1 DEF IInv, Count, Kept, UsedAreListed
<1> QED
  BY <1>1, HashInductive, PTL

(***************************************************************************)
(* hash.c with its contexts implements the registry its callers rely on.   *)
(***************************************************************************)
THEOREM HashImplements == Spec => ImplementsRegistry
<1>1. IInv /\ [Next]_vars => [Abs!Next]_(Abs!absVars)
  BY HashStep DEF Good
<1> QED
  BY <1>1, HashInit, HashInductive, PTL DEF Spec, ImplementsRegistry, Abs!Spec
=============================================================================
