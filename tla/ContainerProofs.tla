--------------------------- MODULE ContainerProofs ---------------------------
(***************************************************************************)
(* Proofs about Containers (the lists and the hlists of list.h and, from   *)
(* CfeRef, the reference counts of ref.h), and about ScopedUse, which      *)
(* counts references too.                                                  *)
(*                                                                         *)
(* ScopedUse, for any threads, types, sizes and widths of an int.          *)
(* References: as in HashContextProofs, by the moves of UserCounts, here   *)
(* for both lists at once.  Bytes: narrowing a size to int gives the size  *)
(* itself when it is below half the range, and never more.                 *)
(*                                                                         *)
(* CfeRef, for any threads and any finite set of references.  The counter  *)
(* is the number of references, so the decrement that finds 0 is the one   *)
(* that takes the last of them away, and as only an owner may take or put  *)
(* references no other call is under way then.                             *)
(*                                                                         *)
(* The lists, for any finite sets of heads and entries.  The invariant is  *)
(* about a sequence of entries for each head.  Its pointers form a ring    *)
(* (lists) or a line (hlists) through these entries, which are on no other *)
(* list, and the pointers of an entry on no list lead to itself or         *)
(* nowhere.  One lemma says what becomes of a ring or a line when a node   *)
(* is put in at any place, and one when a node is taken out; every         *)
(* function is an instance of them.  What connects them to the model,      *)
(* which knows no sequences but only walks along the pointers, is that the *)
(* walk along a ring or a line is the sequence.  It can be no longer than  *)
(* there are entries, so it comes to its end, and there is no first step   *)
(* at which it differs from the sequence.                                  *)
(*                                                                         *)
(* The loop over a list.  It has visited the first k of the entries that   *)
(* were there, and the other ones are the first of those that it has       *)
(* ahead.  A body that takes its own entry out leaves what is ahead        *)
(* alone, because the loop has read the pointer to it before.              *)
(***************************************************************************)
EXTENDS Containers, ScopedUse, UserCounts, SequenceTheorems, WellFoundedInduction

-----------------------------------------------------------------------------
(***************************************************************************)
(* Key derivation and random numbers.                                      *)
(***************************************************************************)
\* A call has a type between its first and its last step.
CallsHaveTypes == \A t \in Threads : pc[t] = "idle" <=> type[t] = NoType

Count == Kept(Threads, Types, type, refcnt, listed)

IInv == TypeOK /\ CallsHaveTypes /\ Count /\ listed \subseteq Complete /\ FillsTheBuffer

\* What every step is shown to do.
ScopedGood == IInv' /\ [Kdf!Next]_(Kdf!absVars) /\ [Rand!Next]_(Rand!absVars)

\* A size narrowed to int.
LEMMA Narrowed ==
  ASSUME NEW n \in Nat
  PROVE  /\ AsInt(n) \in Int
         /\ AsInt(n) <= n
         /\ 2 * n < IntMod => AsInt(n) = n
<1>1. IntMod \in Nat /\ IntMod > 0
  BY ScopedUseAssumption
<1>2. n % IntMod \in 0..(IntMod - 1)
  BY <1>1
<1>3. n % IntMod <= n
  BY <1>1
<1>4. 2 * n < IntMod => n % IntMod = n
  BY <1>1
<1> QED
  BY <1>1, <1>2, <1>3, <1>4 DEF AsInt

\* What the callbacks of the two backends return and fill.
LEMMA Filled ==
  ASSUME NEW n \in Nat, NEW a \in openssl_rand_get(n) \cup openssl_pbkdf(n)
  PROVE  /\ a \in [ret : {0, 1}, filled : Nat]
         /\ a.filled <= n
         /\ a.ret = 0 /\ 2 * n < IntMod => a.filled = n
<1> DEFINE k == AsInt(n)
<1>1. k \in Int /\ k <= n /\ (2 * n < IntMod => k = n)
  BY Narrowed
<1> HIDE DEF k
<1>2. PICK o \in OpensslFills(k) : a = [ret |-> IF o.status # 1 THEN 1 ELSE 0, filled |-> o.filled]
  BY DEF openssl_rand_get, openssl_pbkdf, k
<1>3. /\ o.filled \in Nat /\ o.filled <= n
      /\ o.status = 1 => o.filled = IF k > 0 THEN k ELSE 0
  BY <1>1, <1>2 DEF OpensslFills
<1> QED
  BY <1>1, <1>2, <1>3

\* A type belongs to one list, and NoType to none.
LEMMA ListsApart ==
  /\ NoType \notin KdfTypes /\ NoType \notin RandTypes
  /\ \A ty \in KdfTypes : ty \in Types /\ ty \notin RandTypes
  /\ \A ty \in RandTypes : ty \in Types /\ ty \notin KdfTypes
  BY ScopedUseAssumption DEF Types

-----------------------------------------------------------------------------
LEMMA ScopedInit == Init => IInv /\ Kdf!Init /\ Rand!Init
<1> SUFFICES ASSUME Init PROVE IInv /\ Kdf!Init /\ Rand!Init
  OBVIOUS
<1>1. \A ty \in Types : UserSet(Threads, type, ty) = {}
  BY ScopedUseAssumption DEF Init, UserSet
<1>2. Count
  BY <1>1, ScopedUseAssumption DEF Init, Count, Kept, Balanced, UsedAreListed
<1>3. TypeOK /\ CallsHaveTypes /\ listed \subseteq Complete
  BY DEF Init, TypeOK, CallsHaveTypes, Nothing
<1>4. FillsTheBuffer
  BY DEF Init, FillsTheBuffer, Nothing
<1>5. Kdf!Init /\ Rand!Init
  BY ListsApart DEF Init, Kdf!Init, Rand!Init, UsersOf
<1> QED
  BY <1>2, <1>3, <1>4, <1>5 DEF IInv

LEMMA RegisterStep ==
  ASSUME IInv, NEW ty \in Types, cfe_pbkdf_register(ty) \/ cfe_rand_register(ty)
  PROVE  ScopedGood
<1> USE DEF IInv, Enlist, find_alg
<1>1. /\ ty \in Complete /\ ty \notin listed
      /\ refcnt' = [refcnt EXCEPT ![ty] = 1] /\ listed' = listed \cup {ty}
      /\ UNCHANGED <<pc, type, size, answer>>
  BY DEF cfe_pbkdf_register, cfe_rand_register
<1>2. \A x \in Types : refcnt'[x] = IF x = ty THEN 1 ELSE refcnt[x]
  BY <1>1 DEF TypeOK
<1>3. Count'
  BY <1>1, <1>2, Enlisting DEF Count
<1>4. TypeOK' /\ CallsHaveTypes' /\ FillsTheBuffer' /\ listed' \subseteq Complete
  BY <1>1 DEF TypeOK, CallsHaveTypes, FillsTheBuffer
<1>5. CASE cfe_pbkdf_register(ty)
  <2>1. Kdf!Register(ty) /\ ty \in KdfTypes
    BY <1>1, <1>5 DEF cfe_pbkdf_register, Kdf!Register, UsersOf
  <2>2. UNCHANGED Rand!absVars
    BY <1>1, <2>1, ListsApart DEF Rand!absVars, UsersOf
  <2> QED
    BY <1>3, <1>4, <2>1, <2>2 DEF ScopedGood, Kdf!Next
<1>6. CASE cfe_rand_register(ty)
  <2>1. Rand!Register(ty) /\ ty \in RandTypes
    BY <1>1, <1>6 DEF cfe_rand_register, Rand!Register, UsersOf
  <2>2. UNCHANGED Kdf!absVars
    BY <1>1, <2>1, ListsApart DEF Kdf!absVars, UsersOf
  <2> QED
    BY <1>3, <1>4, <2>1, <2>2 DEF ScopedGood, Rand!Next
<1> QED
  BY <1>5, <1>6

LEMMA UnregisterStep ==
  ASSUME IInv, NEW ty \in Types, cfe_pbkdf_unregister(ty) \/ cfe_rand_unregister(ty)
  PROVE  ScopedGood
<1> USE DEF IInv, Delist
<1>1. refcnt[ty] = 1 /\ listed' = listed \ {ty} /\ UNCHANGED <<refcnt, pc, type, size, answer>>
  BY DEF cfe_pbkdf_unregister, cfe_rand_unregister
<1>2. \A t \in Threads : type[t] # ty
  BY <1>1, OneIsUnused, ScopedUseAssumption DEF Count
<1>3. Count'
  BY <1>1, Delisting, ScopedUseAssumption DEF Count
<1>4. TypeOK' /\ CallsHaveTypes' /\ FillsTheBuffer' /\ listed' \subseteq Complete
  BY <1>1 DEF TypeOK, CallsHaveTypes, FillsTheBuffer
<1>5. CASE cfe_pbkdf_unregister(ty)
  <2>1. Kdf!Unregister(ty) /\ ty \in KdfTypes
    BY <1>1, <1>2, <1>5, ListsApart DEF cfe_pbkdf_unregister, Kdf!Unregister, UsersOf
  <2>2. UNCHANGED Rand!absVars
    BY <1>1, <2>1, ListsApart DEF Rand!absVars, UsersOf
  <2> QED
    BY <1>3, <1>4, <2>1, <2>2 DEF ScopedGood, Kdf!Next
<1>6. CASE cfe_rand_unregister(ty)
  <2>1. Rand!Unregister(ty) /\ ty \in RandTypes
    BY <1>1, <1>2, <1>6, ListsApart DEF cfe_rand_unregister, Rand!Unregister, UsersOf
  <2>2. UNCHANGED Kdf!absVars
    BY <1>1, <2>1, ListsApart DEF Kdf!absVars, UsersOf
  <2> QED
    BY <1>3, <1>4, <2>1, <2>2 DEF ScopedGood, Rand!Next
<1> QED
  BY <1>5, <1>6

LEMMA RefStep ==
  ASSUME IInv, NEW t \in Threads, NEW n \in Sizes, NEW algs \in {KdfTypes, RandTypes}, NEW name,
         Ref(t, algs, name, n)
  PROVE  ScopedGood
<1> USE DEF IInv, Ref
<1>1. PICK ty \in find_alg(algs, name) : /\ refcnt' = [refcnt EXCEPT ![ty] = @ + 1]
                                         /\ type' = [type EXCEPT ![t] = ty]
  OBVIOUS
<1>2. ty \in listed /\ ty \in algs /\ ty \in Types /\ type[t] = NoType /\ n \in Nat
  BY <1>1, ScopedUseAssumption DEF find_alg, TypeOK, CallsHaveTypes
<1>3. \A x \in Types : refcnt'[x] = IF x = ty THEN refcnt[x] + 1 ELSE refcnt[x]
  BY <1>1 DEF TypeOK
<1>4. type'[t] = ty /\ \A p \in Threads \ {t} : type'[p] = type[p]
  BY <1>1 DEF TypeOK
<1>5. Count'
  <2>1. type[t] \notin Types /\ Kept(Threads, Types, type, refcnt, listed)
    BY <1>2, ScopedUseAssumption DEF Count
  <2> HIDE DEF IInv, Ref
  <2>2. Kept(Threads, Types, type', refcnt', listed)
    BY <1>2, <1>3, <1>4, <2>1, Taking, ScopedUseAssumption
  <2> QED
    BY <2>2 DEF Count, Ref
<1>6. TypeOK'
  BY <1>1, <1>2 DEF TypeOK, Nothing
<1>7. CallsHaveTypes'
  BY <1>1, <1>2, ScopedUseAssumption DEF CallsHaveTypes, TypeOK
<1>8. FillsTheBuffer'
  BY <1>2 DEF FillsTheBuffer, TypeOK, Nothing
<1>9. CASE algs = KdfTypes
  <2>1. Kdf!Acquire(t, ty) /\ ty \in KdfTypes
    <3>1. UsersOf(KdfTypes)' = [UsersOf(KdfTypes) EXCEPT ![t] = ty]
      <4>1. UsersOf(KdfTypes)'[t] = ty
        BY <1>2, <1>4, <1>9 DEF UsersOf
      <4>2. \A p \in Threads \ {t} : UsersOf(KdfTypes)'[p] = UsersOf(KdfTypes)[p]
        BY <1>4 DEF UsersOf
      <4>3. /\ UsersOf(KdfTypes) = [p \in Threads |-> UsersOf(KdfTypes)[p]]
            /\ UsersOf(KdfTypes)' = [p \in Threads |-> UsersOf(KdfTypes)'[p]]
        BY DEF UsersOf
      <4> HIDE DEF IInv, Ref
      <4> QED
        BY <4>1, <4>2, <4>3, OneBecomes
    <3>2. UsersOf(KdfTypes)[t] = NoType /\ ty \in listed \cap KdfTypes /\ UNCHANGED listed
      BY <1>2, <1>9, ListsApart DEF UsersOf
    <3> QED
      BY <3>1, <3>2 DEF Kdf!Acquire
  <2>2. UNCHANGED Rand!absVars
    BY <1>1, <1>2, <2>1, ListsApart DEF Rand!absVars, UsersOf, TypeOK
  <2> QED
    BY <1>5, <1>6, <1>7, <1>8, <2>1, <2>2 DEF ScopedGood, Kdf!Next
<1>10. CASE algs = RandTypes
  <2>1. Rand!Acquire(t, ty) /\ ty \in RandTypes
    <3>1. UsersOf(RandTypes)' = [UsersOf(RandTypes) EXCEPT ![t] = ty]
      <4>1. UsersOf(RandTypes)'[t] = ty
        BY <1>2, <1>4, <1>10 DEF UsersOf
      <4>2. \A p \in Threads \ {t} : UsersOf(RandTypes)'[p] = UsersOf(RandTypes)[p]
        BY <1>4 DEF UsersOf
      <4>3. /\ UsersOf(RandTypes) = [p \in Threads |-> UsersOf(RandTypes)[p]]
            /\ UsersOf(RandTypes)' = [p \in Threads |-> UsersOf(RandTypes)'[p]]
        BY DEF UsersOf
      <4> HIDE DEF IInv, Ref
      <4> QED
        BY <4>1, <4>2, <4>3, OneBecomes
    <3>2. UsersOf(RandTypes)[t] = NoType /\ ty \in listed \cap RandTypes /\ UNCHANGED listed
      BY <1>2, <1>10, ListsApart DEF UsersOf
    <3> QED
      BY <3>1, <3>2 DEF Rand!Acquire
  <2>2. UNCHANGED Kdf!absVars
    BY <1>1, <1>2, <2>1, ListsApart DEF Kdf!absVars, UsersOf, TypeOK
  <2> QED
    BY <1>5, <1>6, <1>7, <1>8, <2>1, <2>2 DEF ScopedGood, Rand!Next
<1> QED
  BY <1>9, <1>10

LEMMA CallbackStep ==
  ASSUME IInv, NEW t \in Threads, Callback(t)
  PROVE  ScopedGood
<1> USE DEF IInv, Callback
<1>1. PICK a \in openssl_rand_get(size[t]) \cup openssl_pbkdf(size[t]) :
        answer' = [answer EXCEPT ![t] = a]
  OBVIOUS
<1>2. size[t] \in Nat
  BY DEF TypeOK
<1>3. /\ a \in [ret : {0, 1}, filled : Nat] /\ a.filled <= size[t]
      /\ a.ret = 0 /\ 2 * size[t] < IntMod => a.filled = size[t]
  BY <1>2, Filled
<1>4. TypeOK' /\ CallsHaveTypes'
  BY <1>1, <1>3 DEF TypeOK, CallsHaveTypes
<1>5. FillsTheBuffer'
  BY <1>1, <1>3 DEF FillsTheBuffer, TypeOK
<1>6. UNCHANGED Kdf!absVars /\ UNCHANGED Rand!absVars
  BY DEF Kdf!absVars, Rand!absVars, UsersOf
<1> QED
  BY <1>4, <1>5, <1>6 DEF ScopedGood, Count

LEMMA PutStep ==
  ASSUME IInv, NEW t \in Threads, Put(t)
  PROVE  ScopedGood
<1> USE DEF IInv, Put
<1>1. type[t] \in Types
  BY DEF CallsHaveTypes, TypeOK
<1>2. type'[t] = NoType /\ \A p \in Threads \ {t} : type'[p] = type[p]
  BY DEF TypeOK
<1>3. \A x \in Types : refcnt'[x] = IF x = type[t] THEN refcnt[x] - 1 ELSE refcnt[x]
  BY <1>1 DEF TypeOK
<1>4. Count'
  <2>1. type'[t] \notin Types /\ Kept(Threads, Types, type, refcnt, listed)
    BY <1>2, ScopedUseAssumption DEF Count
  <2> HIDE DEF IInv, Put
  <2>2. Kept(Threads, Types, type', refcnt', listed)
    BY <1>1, <1>2, <1>3, <2>1, Dropping, ScopedUseAssumption
  <2> QED
    BY <2>2 DEF Count, Put
<1>5. TypeOK' /\ CallsHaveTypes'
  BY <1>1 DEF TypeOK, CallsHaveTypes
<1>6. FillsTheBuffer'
  BY DEF FillsTheBuffer, TypeOK
<1>7. CASE type[t] \in KdfTypes
  <2>1. Kdf!Release(t)
    BY <1>7, ListsApart DEF Kdf!Release, UsersOf, TypeOK
  <2>2. UNCHANGED Rand!absVars
    BY <1>7, ListsApart DEF Rand!absVars, UsersOf, TypeOK
  <2> QED
    BY <1>4, <1>5, <1>6, <2>1, <2>2 DEF ScopedGood, Kdf!Next
<1>8. CASE type[t] \in RandTypes
  <2>1. Rand!Release(t)
    BY <1>8, ListsApart DEF Rand!Release, UsersOf, TypeOK
  <2>2. UNCHANGED Kdf!absVars
    BY <1>8, ListsApart DEF Kdf!absVars, UsersOf, TypeOK
  <2> QED
    BY <1>4, <1>5, <1>6, <2>1, <2>2 DEF ScopedGood, Rand!Next
<1> QED
  BY <1>1, <1>7, <1>8 DEF Types

LEMMA ScopedStep == IInv /\ [Next]_vars => ScopedGood
<1> SUFFICES ASSUME IInv, [Next]_vars PROVE ScopedGood
  OBVIOUS
<1>1. CASE Next
  BY <1>1, RegisterStep, UnregisterStep, RefStep, CallbackStep, PutStep
  DEF Next, cfe_pbkdf_derive, cfe_rand_get
<1>2. CASE UNCHANGED vars
  BY <1>2 DEF vars, IInv, ScopedGood, TypeOK, CallsHaveTypes, Count, FillsTheBuffer,
              Kdf!absVars, Rand!absVars, UsersOf
<1> QED
  BY <1>1, <1>2

LEMMA ScopedInductive == Spec => []IInv
<1>1. IInv /\ [Next]_vars => IInv'
  BY ScopedStep DEF ScopedGood
<1> QED
  BY <1>1, ScopedInit, PTL DEF Spec

-----------------------------------------------------------------------------
(***************************************************************************)
(* Every variable of the key derivation and random number calls keeps its  *)
(* type.                                                                   *)
(***************************************************************************)
THEOREM ScopedTypeCorrect == Spec => []TypeOK
  BY ScopedInductive, PTL DEF IInv

(***************************************************************************)
(* cfe_pbkdf_derive() and cfe_rand_get() give back the reference they took,*)
(* whatever the callback returned.                                         *)
(***************************************************************************)
THEOREM ScopedRefsBalanced == Spec => []RefsBalanced
<1>1. IInv => RefsBalanced
  BY DEF IInv, Count, Kept, Balanced, UserSet, RefsBalanced, Holders
<1> QED
  BY <1>1, ScopedInductive, PTL

(***************************************************************************)
(* A callback that runs outside the lock belongs to a type that is still   *)
(* registered and is there to be called.                                   *)
(***************************************************************************)
THEOREM ScopedCallbackExists == Spec => []CallbackExists
<1>1. IInv => CallbackExists
  BY DEF IInv, CallsHaveTypes, TypeOK, Count, Kept, UsedAreListed, CallbackExists
<1> QED
  BY <1>1, ScopedInductive, PTL

(***************************************************************************)
(* The size_t that OpenSSL takes as an int never makes a call write beyond *)
(* the buffer, nor report a short one below half the range of int.         *)
(***************************************************************************)
THEOREM BuffersAreFilled == Spec => []FillsTheBuffer
  BY ScopedInductive, PTL DEF IInv

(***************************************************************************)
(* pbkdf.c and rand.c implement the registry their callers rely on.        *)
(***************************************************************************)
THEOREM ScopedImplements == Spec => ImplementsRegistries
<1>1. IInv /\ [Next]_vars => [Kdf!Next]_(Kdf!absVars) /\ [Rand!Next]_(Rand!absVars)
  BY ScopedStep DEF ScopedGood
<1> QED
  BY <1>1, ScopedInit, ScopedInductive, PTL
  DEF Spec, ImplementsRegistries, Kdf!Spec, Rand!Spec

-----------------------------------------------------------------------------
(***************************************************************************)
(* Reference counts.                                                       *)
(***************************************************************************)
\* Before the constructor nobody can be releasing the object.
NothingBeforeInit == life = "none" => \A t \in Sharers : phase[t] = "idle"

RefIInv == RefTypeOK /\ CountsHeld /\ HeldIsLive /\ ReleasedOnce /\ NothingBeforeInit

\* References can be counted, and there are none when the count is 0.
LEMMA HeldCount ==
  ASSUME NEW S \in SUBSET Refs
  PROVE  /\ IsFiniteSet(S)
         /\ Cardinality(S) \in Nat
         /\ Cardinality(S) = 0 <=> S = {}
<1>1. IsFiniteSet(S)
  BY CfeRefAssumption, FS_Subset
<1> QED
  BY <1>1, FS_CardinalityType, FS_EmptySet

\* Putting some of the held references takes as many from their number.
LEMMA PutCount ==
  ASSUME NEW some \in SUBSET Held
  PROVE  Cardinality(Held \ some) = Cardinality(Held) - Cardinality(some)
<1>1. Held \in SUBSET Refs /\ Held \cap some = some
  BY DEF Held
<1>2. IsFiniteSet(Held)
  BY <1>1, HeldCount
<1> QED
  BY <1>1, <1>2, FS_Difference

-----------------------------------------------------------------------------
LEMMA RefInitially == RefInit => RefIInv
<1> SUFFICES ASSUME RefInit PROVE RefIInv
  OBVIOUS
<1>1. Held = {}
  BY DEF RefInit, Held
<1>2. CountsHeld
  BY <1>1, FS_EmptySet DEF RefInit, CountsHeld
<1> QED
  BY <1>1, <1>2 DEF RefInit, RefIInv, RefTypeOK, HeldIsLive, ReleasedOnce, NothingBeforeInit

LEMMA InitCallStep ==
  ASSUME RefIInv, NEW t \in Sharers, NEW r \in Refs, cfe_ref_init(t, r)
  PROVE  RefIInv'
<1> USE DEF RefIInv, cfe_ref_init
<1>1. Held = {} /\ \A u \in Sharers : phase[u] = "idle"
  BY DEF HeldIsLive, NothingBeforeInit
<1>2. Held' = {r}
  BY <1>1, CfeRefAssumption DEF Held, RefTypeOK
<1>3. CountsHeld'
  BY <1>2, FS_Singleton DEF CountsHeld
<1> QED
  BY <1>1, <1>2, <1>3, CfeRefAssumption
  DEF RefTypeOK, HeldIsLive, ReleasedOnce, NothingBeforeInit

LEMMA GetStep ==
  ASSUME RefIInv, NEW t \in Sharers, NEW r \in Refs, cfe_ref_get(t, r)
  PROVE  RefIInv'
<1> USE DEF RefIInv, cfe_ref_get
<1>1. Held # {} /\ r \notin Held
  BY CfeRefAssumption DEF Held, Owned
<1>2. Held' = Held \cup {r}
  BY CfeRefAssumption DEF Held, RefTypeOK
<1>3. Cardinality(Held \cup {r}) = Cardinality(Held) + 1
  BY <1>1, HeldCount, FS_AddElement DEF Held
<1>4. CountsHeld'
  BY <1>2, <1>3 DEF CountsHeld
<1> QED
  BY <1>1, <1>2, <1>4, CfeRefAssumption
  DEF RefTypeOK, HeldIsLive, ReleasedOnce, NothingBeforeInit

LEMMA PassStep ==
  ASSUME RefIInv, NEW t \in Sharers, NEW u \in Sharers, NEW r \in Refs, Pass(t, u, r)
  PROVE  RefIInv'
<1> USE DEF RefIInv, Pass
<1>1. Held' = Held
  BY CfeRefAssumption DEF Held, RefTypeOK
<1> QED
  BY <1>1 DEF RefTypeOK, CountsHeld, HeldIsLive, ReleasedOnce, NothingBeforeInit

\* The step that matters: the count is 0 exactly when nothing is held.
LEMMA SubStep ==
  ASSUME RefIInv, NEW t \in Sharers, NEW some \in SUBSET Refs, cfe_ref_sub(t, some)
  PROVE  RefIInv'
<1> USE DEF RefIInv, cfe_ref_sub
<1>1. some \in SUBSET Held /\ Held # {}
  BY CfeRefAssumption DEF Held, Owned
<1>2. Held' = Held \ some
  BY CfeRefAssumption, <1>1 DEF Held, RefTypeOK
<1>3. CountsHeld'
  BY <1>1, <1>2, PutCount DEF CountsHeld
<1>4. count' \in Nat /\ (count' = 0 <=> Held' = {})
  <2>1. Held' \in SUBSET Refs
    BY <1>2 DEF Held
  <2> QED
    BY <1>2, <1>3, <2>1, HeldCount DEF CountsHeld
<1>5. RefTypeOK'
  BY <1>4 DEF RefTypeOK
<1>6. life = "live" /\ \A u \in Sharers : phase[u] = "idle"
  BY <1>1 DEF HeldIsLive
<1>7. phase' = [phase EXCEPT ![t] = IF Held' = {} THEN "release" ELSE "idle"]
  BY <1>4 DEF sub_and_test
<1>8. HeldIsLive' /\ ReleasedOnce' /\ NothingBeforeInit'
  BY <1>6, <1>7 DEF HeldIsLive, ReleasedOnce, NothingBeforeInit, RefTypeOK
<1> QED
  BY <1>3, <1>5, <1>8

LEMMA ReleaseStep ==
  ASSUME RefIInv, NEW t \in Sharers, Release(t)
  PROVE  RefIInv'
<1> USE DEF RefIInv, Release
<1>1. Held' = Held /\ Held = {}
  BY DEF Held, HeldIsLive
<1> QED
  BY <1>1 DEF RefTypeOK, CountsHeld, HeldIsLive, ReleasedOnce, NothingBeforeInit

LEMMA RefNextStep == RefIInv /\ [RefNext]_refVars => RefIInv'
<1> SUFFICES ASSUME RefIInv, [RefNext]_refVars PROVE RefIInv'
  OBVIOUS
<1>1. CASE RefNext
  BY <1>1, InitCallStep, GetStep, PassStep, SubStep, ReleaseStep DEF RefNext
<1>2. CASE UNCHANGED refVars
  BY <1>2 DEF refVars, RefIInv, RefTypeOK, CountsHeld, Held, HeldIsLive, ReleasedOnce,
              NothingBeforeInit
<1> QED
  BY <1>1, <1>2

LEMMA RefInductive == RefSpec => []RefIInv
  BY RefInitially, RefNextStep, PTL DEF RefSpec

-----------------------------------------------------------------------------
(***************************************************************************)
(* The counter of ref.h never goes below 0 and every variable keeps its    *)
(* type.                                                                   *)
(***************************************************************************)
THEOREM RefTypeCorrect == RefSpec => []RefTypeOK
  BY RefInductive, PTL DEF RefIInv

(***************************************************************************)
(* cfe_ref_get() and cfe_ref_sub() keep the counter the number of          *)
(* references, for any number of threads.                                  *)
(***************************************************************************)
THEOREM RefsAreCounted == RefSpec => []CountsHeld
  BY RefInductive, PTL DEF RefIInv

(***************************************************************************)
(* cfe_ref_sub() never releases an object that somebody has a reference of.*)
(***************************************************************************)
THEOREM HeldObjectsLive == RefSpec => []HeldIsLive
  BY RefInductive, PTL DEF RefIInv

(***************************************************************************)
(* release() is called by one thread only, and on an object not yet freed. *)
(***************************************************************************)
THEOREM NoDoubleRelease == RefSpec => []ReleasedOnce
  BY RefInductive, PTL DEF RefIInv

(***************************************************************************)
(* Together: the release callback runs once, for the last reference.       *)
(***************************************************************************)
THEOREM ReleaseComesLast == RefSpec => []ReleaseIsLast
  BY RefInductive, PTL DEF RefIInv, ReleaseIsLast

-----------------------------------------------------------------------------
(***************************************************************************)
(* Sequences without repetition, and the rings of pointers they stand for. *)
(***************************************************************************)
Elements(q) == {q[i] : i \in 1..Len(q)}
NoneTwice(q) == \A i, j \in 1..Len(q) : q[i] = q[j] => i = j

\* The nodes of a list in the order of its pointers, its head at both ends.
Cell(h, q, i) == IF i \in 1..Len(q) THEN q[i] ELSE h

Ring(nx, pv, h, q) ==
  \A i \in 0..Len(q) : nx[Cell(h, q, i)] = Cell(h, q, i + 1) /\ pv[Cell(h, q, i + 1)] = Cell(h, q, i)

-----------------------------------------------------------------------------
LEMMA CellsAre ==
  ASSUME NEW E, NEW q \in Seq(E), NEW h, h \notin E
  PROVE  /\ Len(q) \in Nat
         /\ Cell(h, q, 0) = h /\ Cell(h, q, Len(q) + 1) = h
         /\ \A i \in 1..Len(q) : Cell(h, q, i) = q[i] /\ q[i] \in E
         /\ Elements(q) \subseteq E
         /\ \A i \in 0..Len(q) + 1 : Cell(h, q, i) \in {h} \cup Elements(q)
<1>1. Len(q) \in Nat /\ \A i \in 1..Len(q) : q[i] \in E
  BY ElementOfSeq, LenProperties
<1> QED
  BY <1>1 DEF Cell, Elements

LEMMA CellsApart ==
  ASSUME NEW E, NEW q \in Seq(E), NEW h, h \notin E, NoneTwice(q)
  PROVE  /\ \A i, j \in 0..Len(q) : Cell(h, q, i) = Cell(h, q, j) => i = j
         /\ \A i, j \in 1..Len(q) + 1 : Cell(h, q, i) = Cell(h, q, j) => i = j
<1>1. /\ Len(q) \in Nat /\ Cell(h, q, 0) = h /\ Cell(h, q, Len(q) + 1) = h
      /\ \A i \in 1..Len(q) : Cell(h, q, i) = q[i] /\ q[i] # h
  BY CellsAre
<1>2. ASSUME NEW i \in 0..Len(q), NEW j \in 0..Len(q), Cell(h, q, i) = Cell(h, q, j) PROVE i = j
  <2>1. i = 0 \/ i \in 1..Len(q)
    BY <1>1
  <2>2. j = 0 \/ j \in 1..Len(q)
    BY <1>1
  <2> QED
    BY <1>1, <1>2, <2>1, <2>2 DEF NoneTwice
<1>3. ASSUME NEW i \in 1..Len(q) + 1, NEW j \in 1..Len(q) + 1, Cell(h, q, i) = Cell(h, q, j)
      PROVE  i = j
  <2>1. i = Len(q) + 1 \/ i \in 1..Len(q)
    BY <1>1
  <2>2. j = Len(q) + 1 \/ j \in 1..Len(q)
    BY <1>1
  <2> QED
    BY <1>1, <1>3, <2>1, <2>2 DEF NoneTwice
<1> QED
  BY <1>2, <1>3

\* Pointers of other nodes do not matter.
Agree(nx, pv, nx2, pv2, S) == \A x \in S : nx2[x] = nx[x] /\ pv2[x] = pv[x]

LEMMA RingFrame ==
  ASSUME NEW E, NEW q \in Seq(E), NEW h, h \notin E, NEW nx, NEW pv, NEW nx2, NEW pv2,
         Ring(nx, pv, h, q), Agree(nx, pv, nx2, pv2, {h} \cup Elements(q))
  PROVE  Ring(nx2, pv2, h, q)
<1> SUFFICES ASSUME NEW i \in 0..Len(q)
             PROVE  /\ nx2[Cell(h, q, i)] = Cell(h, q, i + 1)
                    /\ pv2[Cell(h, q, i + 1)] = Cell(h, q, i)
  BY DEF Ring
<1>1. Cell(h, q, i) \in {h} \cup Elements(q) /\ Cell(h, q, i + 1) \in {h} \cup Elements(q)
  BY CellsAre
<1> QED
  BY <1>1 DEF Ring, Agree

\* q2 is q with e after its first k elements.
Longer(q, k, e, q2) ==
  /\ Len(q2) = Len(q) + 1
  /\ \A i \in 1..Len(q2) : q2[i] = IF i <= k THEN q[i] ELSE IF i = k + 1 THEN e ELSE q[i - 1]

LEMMA LongerIs ==
  ASSUME NEW E, NEW q \in Seq(E), NEW q2 \in Seq(E), NEW e \in E, NEW k \in 0..Len(q),
         NoneTwice(q), e \notin Elements(q), Longer(q, k, e, q2), NEW h, h \notin E
  PROVE  /\ NoneTwice(q2) /\ Elements(q2) = Elements(q) \cup {e}
         /\ \A i \in 0..k : Cell(h, q2, i) = Cell(h, q, i)
         /\ Cell(h, q2, k + 1) = e
         /\ \A i \in k + 2..Len(q) + 2 : Cell(h, q2, i) = Cell(h, q, i - 1)
<1>1. /\ Len(q) \in Nat /\ Len(q2) = Len(q) + 1
      /\ \A i \in 1..k : q2[i] = q[i]
      /\ q2[k + 1] = e
      /\ \A i \in k + 2..Len(q) + 1 : q2[i] = q[i - 1]
  BY LenProperties DEF Longer
<1>2. \A i \in 1..Len(q) : q[i] # e
  BY DEF Elements
<1>3. NoneTwice(q2)
  <2>0. \A i, j \in 1..Len(q2) : i < j \/ j < i \/ i = j
    BY <1>1
  <2> SUFFICES ASSUME NEW i \in 1..Len(q2), NEW j \in 1..Len(q2), q2[i] = q2[j], i < j PROVE FALSE
    BY <2>0 DEF NoneTwice
  <2>1. CASE j <= k
    BY <1>1, <2>1 DEF NoneTwice
  <2>2. CASE j = k + 1
    BY <1>1, <1>2, <2>2
  <2>3. CASE j > k + 1 /\ i <= k
    <3>1. q2[i] = q[i] /\ q2[j] = q[j - 1] /\ i \in 1..Len(q) /\ j - 1 \in 1..Len(q) /\ i # j - 1
      BY <1>1, <2>3
    <3> QED
      BY <3>1 DEF NoneTwice
  <2>4. CASE j > k + 1 /\ i = k + 1
    <3>1. q2[i] = e /\ q2[j] = q[j - 1] /\ j - 1 \in 1..Len(q)
      BY <1>1, <2>4
    <3> QED
      BY <1>2, <3>1
  <2>5. CASE j > k + 1 /\ i > k + 1
    <3>1. /\ q2[i] = q[i - 1] /\ q2[j] = q[j - 1] /\ i - 1 \in 1..Len(q) /\ j - 1 \in 1..Len(q)
          /\ i - 1 # j - 1
      BY <1>1, <2>5
    <3> QED
      BY <3>1 DEF NoneTwice
  <2> QED
    BY <1>1, <2>1, <2>2, <2>3, <2>4, <2>5
<1>4. Elements(q2) = Elements(q) \cup {e}
  <2>1. ASSUME NEW i \in 1..Len(q2) PROVE q2[i] \in Elements(q) \cup {e}
    <3>1. CASE i <= k
      BY <1>1, <3>1 DEF Elements
    <3>2. CASE i = k + 1
      BY <1>1, <3>2
    <3>3. CASE i > k + 1
      <4>1. q2[i] = q[i - 1] /\ i - 1 \in 1..Len(q)
        BY <1>1, <3>3
      <4> QED
        BY <4>1 DEF Elements
    <3> QED
      BY <1>1, <3>1, <3>2, <3>3
  <2>2. ASSUME NEW i \in 1..Len(q) PROVE q[i] \in Elements(q2)
    <3>1. CASE i <= k
      <4>1. q2[i] = q[i] /\ i \in 1..Len(q2)
        BY <1>1, <3>1
      <4> QED
        BY <4>1 DEF Elements
    <3>2. CASE i > k
      <4>1. i + 1 \in k + 2..Len(q) + 1 /\ (i + 1) - 1 = i /\ i + 1 \in 1..Len(q2)
        BY <1>1, <3>2
      <4>2. q2[i + 1] = q[i]
        BY <1>1, <4>1
      <4> QED
        BY <4>1, <4>2 DEF Elements
    <3> QED
      BY <1>1, <3>1, <3>2
  <2>3. e \in Elements(q2)
    <3>1. k + 1 \in 1..Len(q2)
      BY <1>1
    <3> QED
      BY <1>1, <3>1 DEF Elements
  <2>4. \A x \in Elements(q2) : x \in Elements(q) \cup {e}
    BY <2>1 DEF Elements
  <2>5. \A x \in Elements(q) : x \in Elements(q2)
    BY <2>2 DEF Elements
  <2> QED
    BY <2>3, <2>4, <2>5
<1>5. \A i \in 0..k : Cell(h, q2, i) = Cell(h, q, i)
  BY <1>1 DEF Cell
<1>6. Cell(h, q2, k + 1) = e
  BY <1>1 DEF Cell
<1>7. \A i \in k + 2..Len(q) + 2 : Cell(h, q2, i) = Cell(h, q, i - 1)
  BY <1>1 DEF Cell
<1> QED
  BY <1>3, <1>4, <1>5, <1>6, <1>7

\* __list_add() between two neighbours of a list.
LinksIn(nx, pv, nx2, pv2, h, q, k, e) ==
  /\ nx2[e] = Cell(h, q, k + 1) /\ nx2[Cell(h, q, k)] = e
  /\ pv2[Cell(h, q, k + 1)] = e /\ pv2[e] = Cell(h, q, k)
  /\ \A x \in {h} \cup Elements(q) : /\ x # Cell(h, q, k) => nx2[x] = nx[x]
                                     /\ x # Cell(h, q, k + 1) => pv2[x] = pv[x]

LEMMA RingInsert ==
  ASSUME NEW E, NEW q \in Seq(E), NEW q2 \in Seq(E), NEW e \in E, NEW k \in 0..Len(q),
         NoneTwice(q), e \notin Elements(q), Longer(q, k, e, q2), NEW h, h \notin E,
         NEW nx, NEW pv, NEW nx2, NEW pv2, Ring(nx, pv, h, q),
         LinksIn(nx, pv, nx2, pv2, h, q, k, e)
  PROVE  Ring(nx2, pv2, h, q2)
<1> DEFINE p == Cell(h, q, k)
           n == Cell(h, q, k + 1)
           N == {h} \cup Elements(q)
<1>1. /\ Len(q) \in Nat /\ Len(q2) = Len(q) + 1
      /\ \A i \in 0..Len(q) + 1 : Cell(h, q, i) # e /\ Cell(h, q, i) \in N
  BY CellsAre DEF Longer
<1>3. /\ nx2[e] = n /\ nx2[p] = e /\ pv2[e] = p /\ pv2[n] = e
      /\ \A x \in N : x # e /\ x # p => nx2[x] = nx[x]
      /\ \A x \in N : x # e /\ x # n => pv2[x] = pv[x]
  BY DEF LinksIn
<1> HIDE DEF p, n
<1>4. /\ \A i \in 0..k : Cell(h, q2, i) = Cell(h, q, i)
      /\ Cell(h, q2, k + 1) = e
      /\ \A i \in k + 2..Len(q) + 2 : Cell(h, q2, i) = Cell(h, q, i - 1)
  BY LongerIs
<1> SUFFICES ASSUME NEW i \in 0..Len(q2)
             PROVE  /\ nx2[Cell(h, q2, i)] = Cell(h, q2, i + 1)
                    /\ pv2[Cell(h, q2, i + 1)] = Cell(h, q2, i)
  BY DEF Ring
<1>5. CASE i < k
  <2>1. /\ i \in 0..k /\ i + 1 \in 0..k /\ i \in 0..Len(q) /\ k \in 0..Len(q) /\ i # k
        /\ i + 1 \in 1..Len(q) + 1 /\ k + 1 \in 1..Len(q) + 1 /\ i + 1 # k + 1
    BY <1>1, <1>5
  <2>2. Cell(h, q, i) # p /\ Cell(h, q, i + 1) # n
    BY <2>1, CellsApart DEF p, n
  <2>3. Cell(h, q, i) # e /\ Cell(h, q, i) \in N /\ Cell(h, q, i + 1) # e /\ Cell(h, q, i + 1) \in N
    BY <1>1, <2>1
  <2>4. nx[Cell(h, q, i)] = Cell(h, q, i + 1) /\ pv[Cell(h, q, i + 1)] = Cell(h, q, i)
    BY <2>1 DEF Ring
  <2>5. Cell(h, q2, i) = Cell(h, q, i) /\ Cell(h, q2, i + 1) = Cell(h, q, i + 1)
    BY <1>4, <2>1
  <2> QED
    BY <1>3, <2>2, <2>3, <2>4, <2>5
<1>6. CASE i = k
  <2>1. Cell(h, q2, i) = p /\ Cell(h, q2, i + 1) = e
    BY <1>1, <1>4, <1>6 DEF p
  <2> QED
    BY <1>3, <2>1
<1>7. CASE i = k + 1
  <2>1. k + 2 \in k + 2..Len(q) + 2 /\ (k + 2) - 1 = k + 1 /\ i + 1 = k + 2
    BY <1>1, <1>7
  <2>2. Cell(h, q2, i) = e /\ Cell(h, q2, i + 1) = n
    BY <1>4, <1>7, <2>1 DEF n
  <2> QED
    BY <1>3, <2>2
<1>8. CASE i > k + 1
  <2>1. /\ i \in k + 2..Len(q) + 2 /\ i + 1 \in k + 2..Len(q) + 2 /\ (i + 1) - 1 = i
        /\ i - 1 \in 0..Len(q) /\ (i - 1) + 1 = i /\ k \in 0..Len(q) /\ i - 1 # k
        /\ i \in 1..Len(q) + 1 /\ k + 1 \in 1..Len(q) + 1 /\ i # k + 1
    BY <1>1, <1>8
  <2>2. Cell(h, q, i - 1) # p /\ Cell(h, q, i) # n
    BY <2>1, CellsApart DEF p, n
  <2>3. Cell(h, q, i - 1) # e /\ Cell(h, q, i - 1) \in N /\ Cell(h, q, i) # e /\ Cell(h, q, i) \in N
    BY <1>1, <2>1
  <2>4. nx[Cell(h, q, i - 1)] = Cell(h, q, i) /\ pv[Cell(h, q, i)] = Cell(h, q, i - 1)
    BY <2>1 DEF Ring
  <2>5. Cell(h, q2, i) = Cell(h, q, i - 1) /\ Cell(h, q2, i + 1) = Cell(h, q, i)
    BY <1>4, <2>1
  <2> QED
    BY <1>3, <2>2, <2>3, <2>4, <2>5
<1> QED
  BY <1>1, <1>5, <1>6, <1>7, <1>8

\* q2 is q without its element k.
Shorter(q, k, q2) ==
  /\ Len(q2) = Len(q) - 1
  /\ \A i \in 1..Len(q2) : q2[i] = IF i < k THEN q[i] ELSE q[i + 1]

LEMMA ShorterIs ==
  ASSUME NEW E, NEW q \in Seq(E), NEW q2 \in Seq(E), NEW k \in 1..Len(q),
         NoneTwice(q), Shorter(q, k, q2), NEW h, h \notin E
  PROVE  /\ NoneTwice(q2) /\ Elements(q2) = Elements(q) \ {q[k]}
         /\ \A i \in 0..k - 1 : Cell(h, q2, i) = Cell(h, q, i)
         /\ \A i \in k..Len(q) : Cell(h, q2, i) = Cell(h, q, i + 1)
<1>1. /\ Len(q) \in Nat /\ Len(q2) = Len(q) - 1
      /\ \A i \in 1..k - 1 : q2[i] = q[i]
      /\ \A i \in k..Len(q) - 1 : q2[i] = q[i + 1]
  BY LenProperties DEF Shorter
<1>2. NoneTwice(q2)
  <2> SUFFICES ASSUME NEW i \in 1..Len(q2), NEW j \in 1..Len(q2), q2[i] = q2[j], i < j PROVE FALSE
    BY <1>1 DEF NoneTwice
  <2>1. CASE j < k
    BY <1>1, <2>1 DEF NoneTwice
  <2>2. CASE j >= k /\ i < k
    <3>1. q2[i] = q[i] /\ q2[j] = q[j + 1] /\ i \in 1..Len(q) /\ j + 1 \in 1..Len(q) /\ i # j + 1
      BY <1>1, <2>2
    <3> QED
      BY <3>1 DEF NoneTwice
  <2>3. CASE i >= k
    <3>1. /\ q2[i] = q[i + 1] /\ q2[j] = q[j + 1] /\ i + 1 \in 1..Len(q) /\ j + 1 \in 1..Len(q)
          /\ i + 1 # j + 1
      BY <1>1, <2>3
    <3> QED
      BY <3>1 DEF NoneTwice
  <2> QED
    BY <1>1, <2>1, <2>2, <2>3
<1>3. Elements(q2) = Elements(q) \ {q[k]}
  <2>1. ASSUME NEW i \in 1..Len(q2) PROVE q2[i] \in Elements(q) \ {q[k]}
    <3>1. CASE i < k
      <4>1. q2[i] = q[i] /\ i \in 1..Len(q) /\ i # k
        BY <1>1, <3>1
      <4> QED
        BY <4>1 DEF Elements, NoneTwice
    <3>2. CASE i >= k
      <4>1. q2[i] = q[i + 1] /\ i + 1 \in 1..Len(q) /\ i + 1 # k
        BY <1>1, <3>2
      <4> QED
        BY <4>1 DEF Elements, NoneTwice
    <3> QED
      BY <1>1, <3>1, <3>2
  <2>2. ASSUME NEW i \in 1..Len(q), i # k PROVE q[i] \in Elements(q2)
    <3>1. CASE i < k
      <4>1. q2[i] = q[i] /\ i \in 1..Len(q2)
        BY <1>1, <3>1
      <4> QED
        BY <4>1 DEF Elements
    <3>2. CASE i > k
      <4>1. i - 1 \in k..Len(q) - 1 /\ (i - 1) + 1 = i /\ i - 1 \in 1..Len(q2)
        BY <1>1, <3>2
      <4>2. q2[i - 1] = q[i]
        BY <1>1, <4>1
      <4> QED
        BY <4>1, <4>2 DEF Elements
    <3> QED
      BY <1>1, <2>2, <3>1, <3>2
  <2>3. \A x \in Elements(q2) : x \in Elements(q) \ {q[k]}
    BY <2>1 DEF Elements
  <2>4. \A x \in Elements(q) : x # q[k] => x \in Elements(q2)
    BY <2>2 DEF Elements
  <2> QED
    BY <2>3, <2>4
<1>4. \A i \in 0..k - 1 : Cell(h, q2, i) = Cell(h, q, i)
  BY <1>1 DEF Cell
<1>5. \A i \in k..Len(q) : Cell(h, q2, i) = Cell(h, q, i + 1)
  BY <1>1 DEF Cell
<1> QED
  BY <1>2, <1>3, <1>4, <1>5

\* __list_del() of the neighbours of an entry.
LinksOut(nx, pv, nx2, pv2, h, q, k) ==
  /\ nx2[Cell(h, q, k - 1)] = Cell(h, q, k + 1) /\ pv2[Cell(h, q, k + 1)] = Cell(h, q, k - 1)
  /\ \A x \in {h} \cup Elements(q) : /\ x # Cell(h, q, k - 1) => nx2[x] = nx[x]
                                     /\ x # Cell(h, q, k + 1) => pv2[x] = pv[x]

LEMMA RingDelete ==
  ASSUME NEW E, NEW q \in Seq(E), NEW q2 \in Seq(E), NEW k \in 1..Len(q),
         NoneTwice(q), Shorter(q, k, q2), NEW h, h \notin E,
         NEW nx, NEW pv, NEW nx2, NEW pv2, Ring(nx, pv, h, q),
         LinksOut(nx, pv, nx2, pv2, h, q, k)
  PROVE  Ring(nx2, pv2, h, q2)
<1> DEFINE p == Cell(h, q, k - 1)
           n == Cell(h, q, k + 1)
           N == {h} \cup Elements(q)
<1>1. /\ Len(q) \in Nat /\ Len(q2) = Len(q) - 1
      /\ \A i \in 0..Len(q) + 1 : Cell(h, q, i) \in N
  BY CellsAre DEF Shorter
<1>3. /\ nx2[p] = n /\ pv2[n] = p
      /\ \A x \in N : x # p => nx2[x] = nx[x]
      /\ \A x \in N : x # n => pv2[x] = pv[x]
  BY DEF LinksOut
<1> HIDE DEF p, n
<1>4. /\ \A i \in 0..k - 1 : Cell(h, q2, i) = Cell(h, q, i)
      /\ \A i \in k..Len(q) : Cell(h, q2, i) = Cell(h, q, i + 1)
  BY ShorterIs
<1> SUFFICES ASSUME NEW i \in 0..Len(q2)
             PROVE  /\ nx2[Cell(h, q2, i)] = Cell(h, q2, i + 1)
                    /\ pv2[Cell(h, q2, i + 1)] = Cell(h, q2, i)
  BY DEF Ring
<1>5. CASE i < k - 1
  <2>1. /\ i \in 0..k - 1 /\ i + 1 \in 0..k - 1 /\ i \in 0..Len(q) /\ k - 1 \in 0..Len(q) /\ i # k - 1
        /\ i + 1 \in 1..Len(q) + 1 /\ k + 1 \in 1..Len(q) + 1 /\ i + 1 # k + 1
    BY <1>1, <1>5
  <2>2. Cell(h, q, i) # p /\ Cell(h, q, i + 1) # n
    BY <2>1, CellsApart DEF p, n
  <2>3. Cell(h, q, i) \in N /\ Cell(h, q, i + 1) \in N
    BY <1>1, <2>1
  <2>4. nx[Cell(h, q, i)] = Cell(h, q, i + 1) /\ pv[Cell(h, q, i + 1)] = Cell(h, q, i)
    BY <2>1 DEF Ring
  <2>5. Cell(h, q2, i) = Cell(h, q, i) /\ Cell(h, q2, i + 1) = Cell(h, q, i + 1)
    BY <1>4, <2>1
  <2> QED
    BY <1>3, <2>2, <2>3, <2>4, <2>5
<1>6. CASE i = k - 1
  <2>1. i \in 0..k - 1 /\ i + 1 = k /\ k \in k..Len(q)
    BY <1>1, <1>6
  <2>2. Cell(h, q2, i) = p /\ Cell(h, q2, i + 1) = n
    BY <1>4, <1>6, <2>1 DEF p, n
  <2> QED
    BY <1>3, <2>2
<1>7. CASE i > k - 1
  <2>1. /\ i \in k..Len(q) /\ i + 1 \in k..Len(q) /\ i + 1 \in 0..Len(q) /\ k - 1 \in 0..Len(q)
        /\ i + 1 # k - 1 /\ (i + 1) + 1 \in 1..Len(q) + 1 /\ k + 1 \in 1..Len(q) + 1
        /\ (i + 1) + 1 # k + 1 /\ (i + 1) + 1 \in 0..Len(q) + 1 /\ i + 1 \in 0..Len(q) + 1
    BY <1>1, <1>7
  <2>2. Cell(h, q, i + 1) # p /\ Cell(h, q, (i + 1) + 1) # n
    BY <2>1, CellsApart DEF p, n
  <2>3. Cell(h, q, i + 1) \in N /\ Cell(h, q, (i + 1) + 1) \in N
    BY <1>1, <2>1
  <2>4. /\ nx[Cell(h, q, i + 1)] = Cell(h, q, (i + 1) + 1)
        /\ pv[Cell(h, q, (i + 1) + 1)] = Cell(h, q, i + 1)
    BY <2>1 DEF Ring
  <2>5. Cell(h, q2, i) = Cell(h, q, i + 1) /\ Cell(h, q2, i + 1) = Cell(h, q, (i + 1) + 1)
    BY <1>4, <2>1
  <2> QED
    BY <1>3, <2>2, <2>3, <2>4, <2>5
<1> QED
  BY <1>1, <1>5, <1>6, <1>7

\* __list_splice() of a list that is not empty.
LinksAll(nx, pv, nx2, pv2, p, h, q) ==
  /\ nx2[h] = p[1] /\ nx2[p[Len(p)]] = Cell(h, q, 1)
  /\ pv2[p[1]] = h /\ pv2[Cell(h, q, 1)] = p[Len(p)]
  /\ \A x \in {h} \cup Elements(p) \cup Elements(q) :
       /\ x # h /\ x # p[Len(p)] => nx2[x] = nx[x]
       /\ x # p[1] /\ x # Cell(h, q, 1) => pv2[x] = pv[x]

LEMMA RingSplice ==
  ASSUME NEW E, NEW p \in Seq(E), NEW q \in Seq(E), NoneTwice(p), NoneTwice(q), p # << >>,
         Elements(p) \cap Elements(q) = {}, NEW g, NEW h, g \notin E, h \notin E,
         NEW nx, NEW pv, NEW nx2, NEW pv2, Ring(nx, pv, g, p), Ring(nx, pv, h, q),
         LinksAll(nx, pv, nx2, pv2, p, h, q)
  PROVE  /\ Ring(nx2, pv2, h, p \o q)
         /\ NoneTwice(p \o q) /\ Elements(p \o q) = Elements(p) \cup Elements(q)
<1> DEFINE m == Len(p)
           n == Len(q)
           r == p \o q
           first == p[1]
           last == p[m]
           at1 == Cell(h, q, 1)
           N == {h} \cup Elements(p) \cup Elements(q)
<1>1. /\ m \in Nat \ {0} /\ n \in Nat /\ Len(r) = m + n
      /\ \A i \in 1..m : r[i] = p[i]
      /\ \A i \in m + 1..m + n : r[i] = q[i - m]
  BY ConcatProperties, LenProperties, EmptySeq
<1>2. /\ \A i \in 1..m : p[i] \in E /\ p[i] \in N /\ p[i] # h /\ p[i] \in Elements(p)
      /\ \A i \in 1..n : q[i] \in E /\ q[i] \in N /\ q[i] # h /\ q[i] \in Elements(q)
      /\ \A i \in 1..m, j \in 1..n : p[i] # q[j]
  <2>1. \A i \in 1..m : p[i] \in E /\ p[i] \in Elements(p)
    BY ElementOfSeq DEF Elements
  <2>2. \A i \in 1..n : q[i] \in E /\ q[i] \in Elements(q)
    BY ElementOfSeq DEF Elements
  <2> QED
    BY <2>1, <2>2
<1>3. \A i \in 1..m, j \in 0..n + 1 : p[i] # Cell(h, q, j) /\ Cell(h, q, j) \in N
  BY <1>1, <1>2 DEF Cell
<1>4. /\ Cell(h, r, 0) = h
      /\ \A i \in 1..m : Cell(h, r, i) = p[i]
      /\ \A i \in m + 1..m + n + 1 : Cell(h, r, i) = Cell(h, q, i - m)
  <2> HIDE DEF r, m, n
  <2>1. Cell(h, r, 0) = h
    BY <1>1 DEF Cell
  <2>2. \A i \in 1..m : Cell(h, r, i) = p[i]
    BY <1>1 DEF Cell
  <2>3. ASSUME NEW i \in m + 1..m + n + 1 PROVE Cell(h, r, i) = Cell(h, q, i - m)
    <3>1. CASE i = m + n + 1
      <4>1. i \notin 1..Len(r) /\ i - m = n + 1 /\ i - m \notin 1..n
        BY <1>1, <3>1
      <4> QED
        BY <4>1 DEF Cell, n
    <3>2. CASE i # m + n + 1
      <4>1. i \in 1..Len(r) /\ i - m \in 1..n /\ i \in m + 1..m + n
        BY <1>1, <3>2
      <4> QED
        BY <1>1, <4>1 DEF Cell, n
    <3> QED
      BY <3>1, <3>2
  <2> QED
    BY <2>1, <2>2, <2>3
<1>5. /\ first \in N /\ last \in N /\ at1 \in N /\ first # at1 /\ last # h /\ last # at1
      /\ 1 \in 1..m /\ m \in 1..m /\ 1 \in 0..n + 1
  BY <1>1, <1>2, <1>3
<1>6. /\ nx2[h] = first /\ nx2[last] = at1 /\ pv2[first] = h /\ pv2[at1] = last
      /\ \A x \in N : x # h /\ x # last => nx2[x] = nx[x]
      /\ \A x \in N : x # first /\ x # at1 => pv2[x] = pv[x]
  BY <1>5 DEF LinksAll
<1>7. \A i \in 1..m : Cell(g, p, i) = p[i]
  BY <1>1 DEF Cell
<1> HIDE DEF r, m, n, first, last, at1
<1>8. ASSUME NEW i \in 0..Len(r)
      PROVE  /\ nx2[Cell(h, r, i)] = Cell(h, r, i + 1)
             /\ pv2[Cell(h, r, i + 1)] = Cell(h, r, i)
  <2>1. CASE i = 0
    <3>1. Cell(h, r, i) = h /\ Cell(h, r, i + 1) = first
      BY <1>1, <1>4, <1>5, <2>1 DEF first
    <3> QED
      BY <1>6, <3>1
  <2>2. CASE i # 0 /\ i < m
    <3>1. /\ i \in 1..m /\ i + 1 \in 1..m /\ i # m /\ i + 1 # 1 /\ i \in 0..m
          /\ 1 \in 1..m /\ m \in 1..m
      BY <1>1, <2>2
    <3>2. p[i] # last /\ p[i + 1] # first
      BY <3>1 DEF NoneTwice, m, first, last
    <3>3. p[i] # h /\ p[i + 1] # at1 /\ p[i] \in N /\ p[i + 1] \in N
      BY <1>2, <1>3, <1>5, <3>1 DEF at1
    <3>4. nx[Cell(g, p, i)] = Cell(g, p, i + 1) /\ pv[Cell(g, p, i + 1)] = Cell(g, p, i)
      BY <3>1 DEF Ring, m
    <3>5. nx[p[i]] = p[i + 1] /\ pv[p[i + 1]] = p[i]
      BY <1>7, <3>1, <3>4
    <3>6. Cell(h, r, i) = p[i] /\ Cell(h, r, i + 1) = p[i + 1]
      BY <1>4, <3>1
    <3> QED
      BY <1>6, <3>2, <3>3, <3>5, <3>6
  <2>3. CASE i = m
    <3>1. i \in 1..m /\ i + 1 \in m + 1..m + n + 1 /\ (i + 1) - m = 1
      BY <1>1, <2>3
    <3>2. Cell(h, r, i) = last /\ Cell(h, r, i + 1) = at1
      BY <1>4, <2>3, <3>1 DEF last, at1
    <3> QED
      BY <1>6, <3>2
  <2>4. CASE i > m
    <3> DEFINE j == i - m
    <3>1. /\ j \in 1..n /\ j \in 0..n /\ j \in 0..n + 1 /\ j + 1 \in 0..n + 1 /\ j + 1 # 1
          /\ j + 1 \in 1..n + 1 /\ 1 \in 1..n + 1
          /\ i \in m + 1..m + n + 1 /\ i + 1 \in m + 1..m + n + 1 /\ (i + 1) - m = j + 1
      BY <1>1, <2>4
    <3>2. Cell(h, r, i) = Cell(h, q, j) /\ Cell(h, r, i + 1) = Cell(h, q, j + 1)
      BY <1>4, <3>1
    <3> HIDE DEF j
    <3>3. Cell(h, q, j) = q[j]
      BY <3>1 DEF Cell, n
    <3>4. Cell(h, q, j) # h /\ Cell(h, q, j) # last /\ Cell(h, q, j) \in N
      BY <1>2, <1>3, <1>5, <3>1, <3>3 DEF last
    <3>5. Cell(h, q, j + 1) # first /\ Cell(h, q, j + 1) \in N
      BY <1>3, <1>5, <3>1 DEF first
    <3>6. Cell(h, q, j + 1) # at1
      BY <3>1, CellsApart DEF n, at1
    <3>7. nx[Cell(h, q, j)] = Cell(h, q, j + 1) /\ pv[Cell(h, q, j + 1)] = Cell(h, q, j)
      BY <3>1 DEF Ring, n
    <3> QED
      BY <1>6, <3>2, <3>4, <3>5, <3>6, <3>7
  <2> QED
    BY <1>1, <2>1, <2>2, <2>3, <2>4
<1>9. NoneTwice(r)
  <2> SUFFICES ASSUME NEW i \in 1..Len(r), NEW j \in 1..Len(r), r[i] = r[j], i < j PROVE FALSE
    BY <1>1 DEF NoneTwice
  <2>1. CASE j <= m
    <3>1. i \in 1..m /\ j \in 1..m /\ i # j
      BY <1>1, <2>1
    <3> QED
      BY <1>1, <3>1 DEF NoneTwice, m
  <2>2. CASE i <= m /\ j > m
    <3>1. i \in 1..m /\ j \in m + 1..m + n /\ j - m \in 1..n
      BY <1>1, <2>2
    <3> QED
      BY <1>1, <1>2, <3>1
  <2>3. CASE i > m
    <3>1. i \in m + 1..m + n /\ j \in m + 1..m + n /\ i - m \in 1..n /\ j - m \in 1..n /\ i - m # j - m
      BY <1>1, <2>3
    <3> QED
      BY <1>1, <3>1 DEF NoneTwice, n
  <2> QED
    BY <1>1, <2>1, <2>2, <2>3
<1>10. Elements(r) = Elements(p) \cup Elements(q)
  <2>1. ASSUME NEW i \in 1..Len(r) PROVE r[i] \in Elements(p) \cup Elements(q)
    <3>1. CASE i <= m
      BY <1>1, <1>2, <3>1
    <3>2. CASE i > m
      <4>1. i \in m + 1..m + n /\ i - m \in 1..n
        BY <1>1, <3>2
      <4> QED
        BY <1>1, <1>2, <4>1
    <3> QED
      BY <1>1, <3>1, <3>2
  <2>2. ASSUME NEW i \in 1..m PROVE p[i] \in Elements(r)
    <3>1. i \in 1..Len(r)
      BY <1>1
    <3> QED
      BY <1>1, <3>1 DEF Elements
  <2>3. ASSUME NEW i \in 1..n PROVE q[i] \in Elements(r)
    <3>1. i + m \in 1..Len(r) /\ i + m \in m + 1..m + n /\ (i + m) - m = i
      BY <1>1
    <3>2. r[i + m] = q[i]
      BY <1>1, <3>1
    <3> QED
      BY <3>1, <3>2 DEF Elements
  <2>4. \A x \in Elements(r) : x \in Elements(p) \cup Elements(q)
    BY <2>1 DEF Elements
  <2>5. \A x \in Elements(p) \cup Elements(q) : x \in Elements(r)
    BY <2>2, <2>3 DEF Elements, m, n
  <2> QED
    BY <2>4, <2>5
<1> QED
  BY <1>8, <1>9, <1>10 DEF Ring, r

-----------------------------------------------------------------------------
(***************************************************************************)
(* A walk along the pointers of a list finds its sequence.                 *)
(***************************************************************************)
LEMMA LeastNumber ==
  ASSUME NEW S, S \subseteq Nat, S # {}
  PROVE  \E i \in S : \A j \in S : i <= j
<1>1. PICK i \in S : \A j \in S : ~(<<j, i>> \in OpToRel(<, Nat))
  BY NatLessThanWellFounded, WFMin
<1>2. ASSUME NEW j \in S PROVE i <= j
  <2>1. ~(<<j, i>> \in {ss \in Nat \X Nat : ss[1] < ss[2]})
    BY <1>1 DEF OpToRel
  <2> QED
    BY <2>1
<1> QED
  BY <1>2

\* A list is not longer than there are nodes.
LEMMA LengthBounded ==
  ASSUME NEW E, NEW N, IsFiniteSet(N), E \subseteq N, NEW q \in Seq(E), NoneTwice(q),
         NEW h, h \notin E, h \in N
  PROVE  Cardinality(N) \in Nat /\ Len(q) + 1 <= Cardinality(N)
<1> DEFINE f == [i \in 0..Len(q) |-> Cell(h, q, i)]
<1>1. Len(q) \in Nat /\ \A i \in 0..Len(q) : Cell(h, q, i) \in N
  BY CellsAre
<1>2. f \in Injection(0..Len(q), N)
  <2>1. f \in [0..Len(q) -> N]
    BY <1>1
  <2>2. \A i, j \in 0..Len(q) : f[i] = f[j] => i = j
    BY CellsApart
  <2> QED
    BY <2>1, <2>2 DEF Injection, IsInjective
<1> HIDE DEF f
<1>3. Cardinality(0..Len(q)) <= Cardinality(N)
  BY <1>2, FS_Injection
<1>4. Cardinality(0..Len(q)) = Len(q) + 1
  BY <1>1, FS_Interval
<1> QED
  BY <1>3, <1>4, FS_CardinalityType

LEMMA Quotient ==
  ASSUME NEW m \in Nat \ {0}, NEW k \in Nat, NEW r \in Nat, r < m
  PROVE  (k * m + r) % m = r
  BY Z3

LEMMA Around ==
  ASSUME NEW m \in Nat \ {0}, NEW i \in Nat
  PROVE  /\ i % m \in 0..m - 1 /\ 0 % m = 0
         /\ (i + 1) % m = IF i % m = m - 1 THEN 0 ELSE (i % m) + 1
<1> DEFINE k == i \div m
           r == i % m
<1>1. k \in Nat /\ r \in Nat /\ r < m /\ i = k * m + r
  BY Z3
<1>2. 0 % m = 0
  BY Quotient
<1> HIDE DEF k, r
<1>3. CASE r = m - 1
  <2>1. i + 1 = (k + 1) * m + 0
    BY <1>1, <1>3
  <2>2. ((k + 1) * m + 0) % m = 0
    BY <1>1, Quotient
  <2> QED
    BY <1>1, <1>2, <1>3, <2>1, <2>2 DEF r
<1>4. CASE r # m - 1
  <2>1. i + 1 = k * m + (r + 1) /\ r + 1 \in Nat /\ r + 1 < m
    BY <1>1, <1>4
  <2>2. (k * m + (r + 1)) % m = r + 1
    BY <1>1, <2>1, Quotient
  <2> QED
    BY <1>1, <1>2, <1>4, <2>1, <2>2 DEF r
<1> QED
  BY <1>3, <1>4

\* The nodes that a walk of n steps meets, as a recursive function.
Steps(node, ptr, h, n) ==
  node = [i \in 0..n |-> IF i = 0 THEN h
                         ELSE LET from == node[i - 1] IN IF from = NULL THEN NULL ELSE ptr[from]]

LEMMA StepsExist ==
  ASSUME NEW E, NEW q \in Seq(E), NEW h, h \notin E, NULL \notin E, h # NULL, NEW ptr,
         \A i \in 0..Len(q) : ptr[Cell(h, q, i)] = Cell(h, q, i + 1), NEW n \in Nat
  PROVE  \E node : Steps(node, ptr, h, n)
<1> DEFINE m == Len(q) + 1
           node == [i \in 0..n |-> Cell(h, q, i % m)]
<1>1. /\ Len(q) \in Nat /\ m \in Nat \ {0}
      /\ Cell(h, q, 0) = h /\ Cell(h, q, m) = h /\ \A i \in 0..m : Cell(h, q, i) # NULL
  BY CellsAre
<1>2. ASSUME NEW i \in 0..n
      PROVE  node[i] = IF i = 0 THEN h
                       ELSE LET from == node[i - 1] IN IF from = NULL THEN NULL ELSE ptr[from]
  <2>1. CASE i = 0
    <3>1. 0 % m = 0
      BY <1>1, Around
    <3> QED
      BY <1>1, <2>1, <3>1
  <2>2. CASE i # 0
    <3>1. i - 1 \in Nat /\ i - 1 \in 0..n /\ (i - 1) + 1 = i
      BY <2>2
    <3> DEFINE j == (i - 1) % m
    <3> HIDE DEF m
    <3>2. j \in 0..m - 1 /\ i % m = IF j = m - 1 THEN 0 ELSE j + 1
      <4>1. ((i - 1) + 1) % m = IF (i - 1) % m = m - 1 THEN 0 ELSE ((i - 1) % m) + 1
        BY <1>1, <3>1, Around
      <4>2. (i - 1) % m \in 0..m - 1
        BY <1>1, <3>1, Around
      <4> QED
        BY <3>1, <4>1, <4>2
    <3>3. node[i] = Cell(h, q, i % m) /\ node[i - 1] = Cell(h, q, j)
      BY <3>1
    <3> HIDE DEF j, node
    <3>4. j \in 0..Len(q) /\ j \in 0..m
      BY <1>1, <3>2 DEF m
    <3>5. ptr[Cell(h, q, j)] = Cell(h, q, j + 1) /\ Cell(h, q, j) # NULL
      BY <1>1, <3>4
    <3>6. Cell(h, q, j + 1) = Cell(h, q, i % m)
      BY <1>1, <3>2
    <3> QED
      BY <2>2, <3>3, <3>5, <3>6
  <2> QED
    BY <2>1, <2>2
<1>3. Steps(node, ptr, h, n)
  <2> DEFINE F == [i \in 0..n |-> IF i = 0 THEN h
                     ELSE LET from == node[i - 1] IN IF from = NULL THEN NULL ELSE ptr[from]]
  <2>1. node = F
    BY <1>2
  <2> HIDE DEF node
  <2> QED
    BY <2>1 DEF Steps
<1> QED
  BY <1>3

LEMMA StepsAre ==
  ASSUME NEW E, NEW q \in Seq(E), NEW h, h \notin E, NULL \notin E, h # NULL, NEW ptr,
         \A i \in 0..Len(q) : ptr[Cell(h, q, i)] = Cell(h, q, i + 1),
         NEW n \in Nat, Len(q) + 1 <= n, NEW node, Steps(node, ptr, h, n)
  PROVE  \A i \in 0..Len(q) + 1 : node[i] = Cell(h, q, i)
<1> DEFINE Wrong == {i \in 0..Len(q) + 1 : node[i] # Cell(h, q, i)}
<1>1. /\ Len(q) \in Nat /\ Cell(h, q, 0) = h
      /\ \A i \in 0..Len(q) + 1 : Cell(h, q, i) # NULL
  BY CellsAre
<1>2. \A i \in 0..n : node[i] = IF i = 0 THEN h
                                ELSE IF node[i - 1] = NULL THEN NULL ELSE ptr[node[i - 1]]
  BY DEF Steps
<1>3. ASSUME Wrong # {} PROVE FALSE
  <2>1. Wrong \subseteq Nat
    BY <1>1
  <2>2. PICK i \in Wrong : \A j \in Wrong : i <= j
    BY <1>3, <2>1, LeastNumber
  <2>3. i \in 0..Len(q) + 1 /\ node[i] # Cell(h, q, i)
    OBVIOUS
  <2>4. i # 0
    BY <1>1, <1>2, <2>3
  <2>5. i - 1 \in 0..Len(q) /\ i - 1 \in 0..Len(q) + 1 /\ i \in 0..n /\ (i - 1) + 1 = i /\ ~(i <= i - 1)
    BY <1>1, <2>3, <2>4
  <2>6. i - 1 \notin Wrong
    BY <2>2, <2>5
  <2>7. node[i - 1] = Cell(h, q, i - 1)
    BY <2>5, <2>6
  <2>8. ptr[Cell(h, q, i - 1)] = Cell(h, q, i) /\ Cell(h, q, i - 1) # NULL
    BY <1>1, <2>5
  <2> QED
    BY <1>2, <2>3, <2>4, <2>5, <2>7, <2>8
<1> QED
  BY <1>3

\* What the least return to the head makes of a walk.
LEMMA WalkIs ==
  ASSUME NEW q \in Seq(Entries), NEW h \in Heads, NoneTwice(q), NEW ptr,
         \A i \in 0..Len(q) : ptr[Cell(h, q, i)] = Cell(h, q, i + 1)
  PROVE  List!Walk(ptr, h) = q
<1> DEFINE n == Cardinality(List!Nodes) + 1
           node == CHOOSE f : Steps(f, ptr, h, n)
           returns == {i \in 1..n : node[i] = h}
           back == CHOOSE i \in returns : \A j \in returns : i <= j
<1>1. /\ h \notin Entries /\ NULL \notin Entries /\ h # NULL /\ IsFiniteSet(List!Nodes)
      /\ Entries \subseteq List!Nodes /\ h \in List!Nodes
  BY ContainersAssumption DEF List!ListAssumption, List!Nodes, List!IsFiniteSet, IsFiniteSet
<1>2. Cardinality(List!Nodes) \in Nat /\ Len(q) + 1 <= Cardinality(List!Nodes)
  BY <1>1, LengthBounded
<1>3. n \in Nat /\ Len(q) + 1 <= n /\ Len(q) \in Nat
  BY <1>2, LenProperties
<1> HIDE DEF n
<1>4. Steps(node, ptr, h, n)
  BY <1>1, <1>3, StepsExist
<1> HIDE DEF node
<1>5. \A i \in 0..Len(q) + 1 : node[i] = Cell(h, q, i)
  BY <1>1, <1>3, <1>4, StepsAre
<1>6. \A i \in 1..Len(q) : node[i] = q[i] /\ q[i] # h
  BY <1>1, <1>3, <1>5, CellsAre
<1>7. node[Len(q) + 1] = h
  BY <1>1, <1>3, <1>5, CellsAre
<1>8. Len(q) + 1 \in returns /\ \A j \in returns : Len(q) + 1 <= j
  BY <1>3, <1>6, <1>7
<1>9. returns \subseteq Nat
  BY <1>3
<1>10. \A i \in returns : (\A j \in returns : i <= j) => i = Len(q) + 1
  BY <1>3, <1>8, <1>9
<1>11. back = Len(q) + 1
  BY <1>8, <1>10
<1>12. returns # {}
  BY <1>8
<1>13. [i \in 1..back - 1 |-> node[i]] = q
  <2> HIDE DEF back
  <2>1. back - 1 = Len(q)
    BY <1>3, <1>11
  <2>2. q \in [1..Len(q) -> Entries]
    BY LenProperties
  <2>3. q = [i \in 1..Len(q) |-> q[i]]
    BY <2>2
  <2> QED
    BY <1>6, <2>1, <2>3
<1>14. List!Walk(ptr, h) = IF returns = {} THEN <<NULL>> ELSE [i \in 1..back - 1 |-> node[i]]
  BY DEF List!Walk, node, Steps, n, List!Cardinality, Cardinality
<1> QED
  BY <1>12, <1>13, <1>14

-----------------------------------------------------------------------------
(***************************************************************************)
(* What the operators on sequences that ListAbs uses make.                 *)
(***************************************************************************)
LEMMA ReverseIs ==
  ASSUME NEW E, NEW q \in Seq(E), NEW h, h \notin E, NEW nx, NEW pv, Ring(nx, pv, h, q),
         NoneTwice(q)
  PROVE  /\ List!Reverse(q) \in Seq(E) /\ Len(List!Reverse(q)) = Len(q)
         /\ NoneTwice(List!Reverse(q))
         /\ \A i \in 0..Len(q) :
              pv[Cell(h, List!Reverse(q), i)] = Cell(h, List!Reverse(q), i + 1)
<1> DEFINE m == Len(q)
           r == List!Reverse(q)
<1>1. m \in Nat /\ \A i \in 1..m : q[i] \in E
  BY LenProperties, ElementOfSeq
<1>2. r = [i \in 1..m |-> q[(m - i) + 1]]
  BY DEF List!Reverse
<1> HIDE DEF m, r
<1>3. \A i \in 1..m : (m - i) + 1 \in 1..m /\ r[i] = q[(m - i) + 1]
  BY <1>1, <1>2
<1>4. r \in [1..m -> E]
  BY <1>1, <1>2, <1>3
<1>5. r \in Seq(E) /\ Len(r) = m
  BY <1>1, <1>4, <1>2
<1>6. NoneTwice(r)
  <2> SUFFICES ASSUME NEW i \in 1..m, NEW j \in 1..m, r[i] = r[j] PROVE i = j
    BY <1>5 DEF NoneTwice
  <2>1. (m - i) + 1 = (m - j) + 1
    BY <1>3 DEF NoneTwice, m
  <2> QED
    BY <1>1, <2>1
<1>7. ASSUME NEW i \in 0..m + 1 PROVE Cell(h, r, i) = Cell(h, q, (m - i) + 1)
  <2>1. CASE i \in 1..m
    BY <1>3, <1>5, <2>1 DEF Cell, m
  <2>2. CASE i \notin 1..m
    <3>1. (m - i) + 1 \notin 1..m
      BY <1>1, <2>2
    <3> QED
      BY <1>5, <2>2, <3>1 DEF Cell, m
  <2> QED
    BY <2>1, <2>2
<1>8. ASSUME NEW i \in 0..m PROVE pv[Cell(h, r, i)] = Cell(h, r, i + 1)
  <2>1. /\ i \in 0..m + 1 /\ i + 1 \in 0..m + 1 /\ m - i \in 0..m
        /\ (m - (i + 1)) + 1 = m - i
    BY <1>1
  <2>2. Cell(h, r, i) = Cell(h, q, (m - i) + 1) /\ Cell(h, r, i + 1) = Cell(h, q, m - i)
    BY <1>7, <2>1
  <2>3. pv[Cell(h, q, (m - i) + 1)] = Cell(h, q, m - i)
    BY <2>1 DEF Ring, m
  <2> QED
    BY <2>2, <2>3
<1> QED
  BY <1>5, <1>6, <1>8 DEF m, r

LEMMA RemoveAtIs ==
  ASSUME NEW E, NEW q \in Seq(E), NEW k \in 1..Len(q)
  PROVE  /\ List!Abs!RemoveAt(q, k) \in Seq(E)
         /\ Shorter(q, k, List!Abs!RemoveAt(q, k))
<1> DEFINE m == Len(q)
           a == SubSeq(q, 1, k - 1)
           b == SubSeq(q, k + 1, m)
           r == a \o b
<1>1. m \in Nat /\ \A i \in 1..m : q[i] \in E
  BY LenProperties, ElementOfSeq
<1>2. \A i \in 1..k - 1 : q[i] \in E
  BY <1>1
<1>3. \A i \in k + 1..m : q[i] \in E
  BY <1>1
<1>4. a \in Seq(E) /\ Len(a) = k - 1 /\ \A i \in 1..k - 1 : a[i] = q[i]
  <2>1. a \in Seq(E) /\ (Len(a) = IF 1 <= k - 1 THEN (k - 1) - 1 + 1 ELSE 0)
        /\ \A i \in 1..(k - 1) - 1 + 1 : a[i] = q[1 + i - 1]
    BY <1>1, <1>2, SubSeqProperties
  <2> HIDE DEF a
  <2>2. \A i \in 1..k - 1 : i \in 1..(k - 1) - 1 + 1 /\ 1 + i - 1 = i
    BY <1>1
  <2> QED
    BY <1>1, <2>1, <2>2
<1>5. b \in Seq(E) /\ Len(b) = m - k /\ \A i \in 1..m - k : b[i] = q[k + i]
  <2>1. b \in Seq(E) /\ (Len(b) = IF k + 1 <= m THEN m - (k + 1) + 1 ELSE 0)
        /\ \A i \in 1..m - (k + 1) + 1 : b[i] = q[(k + 1) + i - 1]
    BY <1>1, <1>3, SubSeqProperties
  <2> HIDE DEF b
  <2>2. \A i \in 1..m - k : i \in 1..m - (k + 1) + 1 /\ (k + 1) + i - 1 = k + i
    BY <1>1
  <2> QED
    BY <1>1, <2>1, <2>2
<1> HIDE DEF a, b
<1>6. r \in Seq(E) /\ Len(r) = m - 1
      /\ \A i \in 1..m - 1 : r[i] = IF i <= k - 1 THEN a[i] ELSE b[i - (k - 1)]
  BY <1>1, <1>4, <1>5, ConcatProperties
<1> HIDE DEF r
<1>7. ASSUME NEW i \in 1..m - 1 PROVE r[i] = IF i < k THEN q[i] ELSE q[i + 1]
  <2>1. CASE i < k
    BY <1>1, <1>4, <1>6, <2>1
  <2>2. CASE ~(i < k)
    <3>1. i - (k - 1) \in 1..m - k /\ k + (i - (k - 1)) = i + 1 /\ ~(i <= k - 1)
      BY <1>1, <2>2
    <3>2. b[i - (k - 1)] = q[i + 1]
      BY <1>5, <3>1
    <3> QED
      BY <1>6, <2>2, <3>1, <3>2
  <2> QED
    BY <2>1, <2>2
<1>8. List!Abs!RemoveAt(q, k) = r
  BY DEF List!Abs!RemoveAt, r, a, b, m
<1> QED
  BY <1>1, <1>6, <1>7, <1>8 DEF Shorter, m

LEMMA WithoutIs ==
  ASSUME NEW E, NEW q \in Seq(E), NoneTwice(q), NEW e
  PROVE  /\ e \notin Elements(q) => List!Abs!Without(q, e) = q
         /\ \A k \in 1..Len(q) : q[k] = e => /\ List!Abs!Without(q, e) \in Seq(E)
                                             /\ Shorter(q, k, List!Abs!Without(q, e))
<1>1. List!Abs!ToSet(q) = Elements(q)
  BY LenProperties DEF List!Abs!ToSet, Elements
<1>2. ASSUME NEW k \in 1..Len(q), q[k] = e
      PROVE  List!Abs!Without(q, e) = List!Abs!RemoveAt(q, k)
  <2>1. (CHOOSE i \in 1..Len(q) : q[i] = e) = k
    BY <1>2 DEF NoneTwice
  <2>2. e \in Elements(q)
    BY <1>2 DEF Elements
  <2> QED
    BY <1>1, <2>1, <2>2 DEF List!Abs!Without
<1>3. e \notin Elements(q) => List!Abs!Without(q, e) = q
  BY <1>1 DEF List!Abs!Without
<1> QED
  BY <1>2, <1>3, RemoveAtIs

LEMMA PushIs ==
  ASSUME NEW E, NEW q \in Seq(E), NEW e \in E
  PROVE  /\ <<e>> \o q \in Seq(E) /\ Longer(q, 0, e, <<e>> \o q)
         /\ Append(q, e) \in Seq(E) /\ Longer(q, Len(q), e, Append(q, e))
<1>1. Len(q) \in Nat /\ \A i \in 1..Len(q) : q[i] \in E
  BY LenProperties, ElementOfSeq
<1>2. <<e>> \in Seq(E) /\ Len(<<e>>) = 1 /\ <<e>>[1] = e
  OBVIOUS
<1>3. /\ <<e>> \o q \in Seq(E) /\ Len(<<e>> \o q) = 1 + Len(q)
      /\ \A i \in 1..1 + Len(q) : (<<e>> \o q)[i] = IF i <= 1 THEN <<e>>[i] ELSE q[i - 1]
  BY <1>1, <1>2, ConcatProperties
<1>4. Longer(q, 0, e, <<e>> \o q)
  BY <1>1, <1>2, <1>3 DEF Longer
<1>5. /\ Append(q, e) \in Seq(E) /\ Len(Append(q, e)) = Len(q) + 1
      /\ \A i \in 1..Len(q) : Append(q, e)[i] = q[i]
      /\ Append(q, e)[Len(q) + 1] = e
  BY <1>1, AppendProperties
<1>6. Longer(q, Len(q), e, Append(q, e))
  BY <1>1, <1>5 DEF Longer
<1> QED
  BY <1>3, <1>4, <1>5, <1>6

-----------------------------------------------------------------------------
(***************************************************************************)
(* The pointers of all lists, given the sequence of each head.             *)
(***************************************************************************)
Nodes == Heads \cup Entries
On(s, e) == \E h \in Heads : e \in Elements(s[h])

Shape(nx, pv, st, s) ==
  /\ nx \in [Nodes -> Nodes \cup {NULL}] /\ pv \in [Nodes -> Nodes \cup {NULL}] /\ st \subseteq Heads
  /\ s \in [Heads -> Seq(Entries)]
  /\ \A h \in Heads : NoneTwice(s[h])
  /\ \A h \in st : s[h] = << >>
  /\ \A h \in Heads \ st : Ring(nx, pv, h, s[h])
  /\ \A g, h \in Heads : g # h => Elements(s[g]) \cap Elements(s[h]) = {}

\* An entry on no list is initialised or has NULL pointers, x excepted.
Off(nx, pv, s, x) ==
  \A e \in Entries : ~On(s, e) /\ e # x => nx[e] = pv[e] /\ nx[e] \in {e, NULL}

LEMMA NodesDiffer ==
  /\ Heads \cap Entries = {} /\ NULL \notin Heads /\ NULL \notin Entries
  /\ \A h \in Heads : h \notin Entries /\ h \in Nodes
  /\ Entries \subseteq Nodes
BY ContainersAssumption DEF List!ListAssumption, Nodes

LEMMA CellsOf ==
  ASSUME NEW nx, NEW pv, NEW st, NEW s, Shape(nx, pv, st, s), NEW h \in Heads
  PROVE  /\ s[h] \in Seq(Entries) /\ NoneTwice(s[h]) /\ Len(s[h]) \in Nat
         /\ Cell(h, s[h], 0) = h /\ Cell(h, s[h], Len(s[h]) + 1) = h
         /\ \A i \in 1..Len(s[h]) : /\ Cell(h, s[h], i) = s[h][i]
                                    /\ s[h][i] \in Elements(s[h]) /\ s[h][i] \in Entries
         /\ \A i \in 0..Len(s[h]) + 1 : /\ Cell(h, s[h], i) \in {h} \cup Elements(s[h])
                                        /\ Cell(h, s[h], i) \in Nodes
         /\ Elements(s[h]) \subseteq Entries
<1>1. s[h] \in Seq(Entries) /\ NoneTwice(s[h])
  BY DEF Shape
<1>2. /\ Len(s[h]) \in Nat
      /\ Cell(h, s[h], 0) = h /\ Cell(h, s[h], Len(s[h]) + 1) = h
      /\ \A i \in 1..Len(s[h]) : Cell(h, s[h], i) = s[h][i] /\ s[h][i] \in Entries
      /\ \A i \in 0..Len(s[h]) + 1 : Cell(h, s[h], i) \in {h} \cup Elements(s[h])
      /\ Elements(s[h]) \subseteq Entries
  BY <1>1, CellsAre, NodesDiffer
<1>3. \A i \in 1..Len(s[h]) : s[h][i] \in Elements(s[h])
  BY DEF Elements
<1> QED
  BY <1>1, <1>2, <1>3, NodesDiffer

Unlisted(s, A) == \A x \in A : ~On(s, x)

\* Lists that do not hold the nodes that are written keep their shape.
LEMMA OneListChanged ==
  ASSUME NEW nx, NEW pv, NEW st, NEW s, Shape(nx, pv, st, s), NEW h \in Heads \ st,
         NEW q2 \in Seq(Entries), NoneTwice(q2), NEW A, A \subseteq Entries,
         Unlisted(s, A), Elements(q2) \subseteq Elements(s[h]) \cup A,
         NEW nx2 \in [Nodes -> Nodes \cup {NULL}], NEW pv2 \in [Nodes -> Nodes \cup {NULL}],
         Ring(nx2, pv2, h, q2),
         Agree(nx, pv, nx2, pv2, Nodes \ ({h} \cup A \cup Elements(s[h]))),
         NEW s2, s2 = [s EXCEPT ![h] = q2]
  PROVE  Shape(nx2, pv2, st, s2)
<1>1. s \in [Heads -> Seq(Entries)] /\ st \subseteq Heads /\ h \in Heads /\ h \notin st
  BY DEF Shape
<1>2. s2 \in [Heads -> Seq(Entries)] /\ s2[h] = q2 /\ \A g \in Heads : g # h => s2[g] = s[g]
  BY <1>1
<1>3. \A g \in Heads : NoneTwice(s2[g])
  BY <1>2 DEF Shape
<1>4. \A g \in st : s2[g] = << >>
  BY <1>1, <1>2 DEF Shape
<1>5. ASSUME NEW g \in Heads, g # h
      PROVE  Elements(s[g]) \cap ({h} \cup A \cup Elements(s[h])) = {}
  <2>1. Elements(s[g]) \cap Elements(s[h]) = {} /\ \A x \in A : x \notin Elements(s[g])
    BY <1>5 DEF Shape, On, Unlisted
  <2>2. h \notin Elements(s[g])
    BY <1>5, CellsOf, NodesDiffer
  <2> QED
    BY <2>1, <2>2
<1>6. ASSUME NEW g \in Heads \ st PROVE Ring(nx2, pv2, g, s2[g])
  <2>1. CASE g = h
    BY <1>2, <2>1
  <2>2. CASE g # h
    <3>1. Ring(nx, pv, g, s[g]) /\ s[g] \in Seq(Entries) /\ g \notin Entries
      BY NodesDiffer DEF Shape
    <3>2. ASSUME NEW x \in {g} \cup Elements(s[g]) PROVE nx2[x] = nx[x] /\ pv2[x] = pv[x]
      <4>1. Elements(s[g]) \subseteq Nodes /\ Elements(s[h]) \subseteq Entries /\ g \in Nodes /\ g \notin A
        BY <1>1, CellsOf, NodesDiffer
      <4>2. x \in Nodes /\ x \notin {h} \cup A \cup Elements(s[h])
        BY <1>5, <2>2, <3>1, <4>1
      <4> QED
        BY <4>2 DEF Agree
    <3>3. Ring(nx2, pv2, g, s[g])
      BY <3>1, <3>2, RingFrame DEF Agree
    <3> QED
      BY <1>2, <2>2, <3>3
  <2> QED
    BY <2>1, <2>2
<1>7. ASSUME NEW g \in Heads, NEW k \in Heads, g # k
      PROVE  Elements(s2[g]) \cap Elements(s2[k]) = {}
  <2>1. CASE g = h
    BY <1>2, <1>5, <1>7, <2>1
  <2>2. CASE k = h
    BY <1>2, <1>5, <1>7, <2>2
  <2>3. CASE g # h /\ k # h
    BY <1>2, <1>7, <2>3 DEF Shape
  <2> QED
    BY <2>1, <2>2, <2>3
<1> QED
  BY <1>1, <1>2, <1>3, <1>4, <1>6, <1>7 DEF Shape

\* Two pointers are assigned.
Assigned(f, a, u, b, v) == [f EXCEPT ![a] = u, ![b] = v]

LEMMA TwoPointers ==
  ASSUME NEW f \in [Nodes -> Nodes \cup {NULL}], NEW a \in Nodes, NEW b \in Nodes,
         NEW u \in Nodes, NEW v \in Nodes
  PROVE  /\ Assigned(f, a, u, b, v) \in [Nodes -> Nodes \cup {NULL}]
         /\ a # b => Assigned(f, a, u, b, v)[a] = u
         /\ Assigned(f, a, u, b, v)[b] = v
         /\ \A x \in Nodes : x \notin {a, b} => Assigned(f, a, u, b, v)[x] = f[x]
<1>1. PICK g : g = [f EXCEPT ![a] = u]
  OBVIOUS
<1>2. g \in [Nodes -> Nodes \cup {NULL}] /\ g[a] = u /\ \A x \in Nodes : x # a => g[x] = f[x]
  BY <1>1
<1>3. PICK h : h = [g EXCEPT ![b] = v]
  OBVIOUS
<1>4. h \in [Nodes -> Nodes \cup {NULL}] /\ h[b] = v /\ \A x \in Nodes : x # b => h[x] = g[x]
  BY <1>2, <1>3
<1>5. h = Assigned(f, a, u, b, v)
  BY <1>1, <1>3 DEF Assigned
<1> QED
  BY <1>2, <1>4, <1>5

\* __list_add() of an entry that is on no list.
LEMMA Inserted ==
  ASSUME NEW nx, NEW pv, NEW st, NEW s, Shape(nx, pv, st, s), NEW e \in Entries, ~On(s, e),
         Off(nx, pv, s, e), NEW h \in Heads \ st, NEW k \in 0..Len(s[h]),
         NEW q2 \in Seq(Entries), Longer(s[h], k, e, q2), NEW nx2, NEW pv2,
         nx2 = Assigned(nx, e, Cell(h, s[h], k + 1), Cell(h, s[h], k), e),
         pv2 = Assigned(pv, Cell(h, s[h], k + 1), e, e, Cell(h, s[h], k))
  PROVE  /\ Shape(nx2, pv2, st, [s EXCEPT ![h] = q2])
         /\ Off(nx2, pv2, [s EXCEPT ![h] = q2], NULL)
<1> DEFINE p == Cell(h, s[h], k)
           n == Cell(h, s[h], k + 1)
           s2 == [s EXCEPT ![h] = q2]
<1>1. /\ s \in [Heads -> Seq(Entries)] /\ s[h] \in Seq(Entries) /\ NoneTwice(s[h])
      /\ Len(s[h]) \in Nat /\ h \in Heads /\ h \notin Entries /\ h \in Nodes /\ Entries \subseteq Nodes
      /\ nx \in [Nodes -> Nodes \cup {NULL}] /\ pv \in [Nodes -> Nodes \cup {NULL}]
      /\ Ring(nx, pv, h, s[h]) /\ e \notin Elements(s[h])
  BY NodesDiffer, CellsOf DEF Shape, On
<1>2. k \in 0..Len(s[h]) + 1 /\ k + 1 \in 0..Len(s[h]) + 1
  BY <1>1
<1>3. p \in {h} \cup Elements(s[h]) /\ n \in {h} \cup Elements(s[h]) /\ p \in Nodes /\ n \in Nodes
  BY <1>1, <1>2, CellsOf
<1> HIDE DEF p, n
<1>4. /\ nx2 \in [Nodes -> Nodes \cup {NULL}] /\ pv2 \in [Nodes -> Nodes \cup {NULL}]
      /\ \A x \in Nodes : x \notin {e, p, n} => nx2[x] = nx[x] /\ pv2[x] = pv[x]
  <2>1. nx2 = Assigned(nx, e, n, p, e) /\ pv2 = Assigned(pv, n, e, e, p)
    BY DEF p, n
  <2>2. e \in Nodes /\ e \in Nodes \cup {NULL} /\ p \in Nodes \cup {NULL} /\ n \in Nodes \cup {NULL}
    BY <1>1, <1>3
  <2>3. nx2 \in [Nodes -> Nodes \cup {NULL}] /\ \A x \in Nodes : x \notin {e, p, n} => nx2[x] = nx[x]
    <3>1. nx \in [Nodes -> Nodes \cup {NULL}] /\ e \in Nodes /\ p \in Nodes /\ n \in Nodes
      BY <1>1, <1>3, <2>2
    <3> QED
      BY <2>1, <3>1, TwoPointers
  <2>4. pv2 \in [Nodes -> Nodes \cup {NULL}] /\ \A x \in Nodes : x \notin {e, p, n} => pv2[x] = pv[x]
    <3>1. pv \in [Nodes -> Nodes \cup {NULL}] /\ e \in Nodes /\ p \in Nodes /\ n \in Nodes
      BY <1>1, <1>3, <2>2
    <3> QED
      BY <2>1, <3>1, TwoPointers
  <2> QED
    BY <2>3, <2>4
<1>5. Ring(nx2, pv2, h, q2)
  <2>1. /\ nx2[e] = n /\ nx2[p] = e /\ pv2[n] = e /\ pv2[e] = p
        /\ \A x \in {h} \cup Elements(s[h]) : /\ x # p => nx2[x] = nx[x]
                                              /\ x # n => pv2[x] = pv[x]
    <3>1. nx2 = Assigned(nx, e, n, p, e) /\ pv2 = Assigned(pv, n, e, e, p)
      BY DEF p, n
    <3>2. p # e /\ n # e /\ e \in Nodes /\ p \in Nodes /\ n \in Nodes
      BY <1>1, <1>3
    <3>3. \A x \in {h} \cup Elements(s[h]) : x # e /\ x \in Nodes
      BY <1>1, CellsOf
    <3>4. nx2[e] = n /\ nx2[p] = e /\ \A x \in Nodes : x \notin {e, p} => nx2[x] = nx[x]
      <4>1. nx \in [Nodes -> Nodes \cup {NULL}]
        BY <1>1
      <4>2. PICK g : g = [nx EXCEPT ![e] = n]
        OBVIOUS
      <4>3. /\ g \in [Nodes -> Nodes \cup {NULL}] /\ g[e] = n
            /\ \A x \in Nodes : x # e => g[x] = nx[x]
        BY <3>2, <4>1, <4>2
      <4>4. nx2 = [g EXCEPT ![p] = e]
        BY <3>1, <4>2 DEF Assigned
      <4> QED
        BY <3>2, <4>3, <4>4
    <3>5. pv2[n] = e /\ pv2[e] = p /\ \A x \in Nodes : x \notin {n, e} => pv2[x] = pv[x]
      <4>1. pv \in [Nodes -> Nodes \cup {NULL}]
        BY <1>1
      <4>2. PICK g : g = [pv EXCEPT ![n] = e]
        OBVIOUS
      <4>3. /\ g \in [Nodes -> Nodes \cup {NULL}] /\ g[n] = e
            /\ \A x \in Nodes : x # n => g[x] = pv[x]
        BY <3>2, <4>1, <4>2
      <4>4. pv2 = [g EXCEPT ![e] = p]
        BY <3>1, <4>2 DEF Assigned
      <4> QED
        BY <3>2, <4>3, <4>4
    <3> QED
      BY <3>3, <3>4, <3>5
  <2> QED
    <3>1. LinksIn(nx, pv, nx2, pv2, h, s[h], k, e)
      BY <2>1 DEF p, n, LinksIn
    <3> QED
      BY <1>1, <3>1, RingInsert
<1>6. NoneTwice(q2) /\ Elements(q2) = Elements(s[h]) \cup {e}
  BY <1>1, LongerIs
<1>7. Shape(nx2, pv2, st, s2)
  <2>1. {e} \subseteq Entries /\ Unlisted(s, {e})
    BY DEF Unlisted
  <2>2. Agree(nx, pv, nx2, pv2, Nodes \ ({h} \cup {e} \cup Elements(s[h])))
    BY <1>3, <1>4 DEF Agree
  <2> QED
    BY <1>4, <1>5, <1>6, <2>1, <2>2, OneListChanged DEF s2
<1>8. s2[h] = q2 /\ \A g \in Heads : g # h => s2[g] = s[g]
  BY <1>1
<1> HIDE DEF s2
<1>9. ASSUME NEW x \in Entries, ~On(s2, x) PROVE nx2[x] = pv2[x] /\ nx2[x] \in {x, NULL}
  <2>1. x # e /\ x \notin Elements(s[h]) /\ ~On(s, x)
    <3>1. x \notin Elements(q2)
      BY <1>1, <1>8, <1>9 DEF On
    <3>2. ASSUME NEW g \in Heads PROVE x \notin Elements(s[g])
      BY <1>6, <1>8, <1>9, <3>1 DEF On
    <3> QED
      BY <1>1, <1>6, <3>1, <3>2 DEF On
  <2>2. x \notin {e, p, n} /\ x \in Nodes
    BY <1>1, <1>3, <2>1
  <2> QED
    BY <1>4, <2>1, <2>2 DEF Off
<1> QED
  BY <1>7, <1>9 DEF Off, s2

Out(s, e) == [h \in Heads |-> List!Abs!Without(s[h], e)]

\* One pointer is assigned.
Pointed(f, a, u) == [f EXCEPT ![a] = u]

\* __list_del() of the neighbours of an entry whose pointers are valid.
LEMMA Unlinked ==
  ASSUME NEW nx, NEW pv, NEW st, NEW s, Shape(nx, pv, st, s), Off(nx, pv, s, NULL),
         NEW e \in Entries, nx[e] # NULL, NEW nx2, NEW pv2,
         nx2 = Pointed(nx, pv[e], nx[e]), pv2 = Pointed(pv, nx[e], pv[e])
  PROVE  Shape(nx2, pv2, st, Out(s, e)) /\ ~On(Out(s, e), e) /\ Off(nx2, pv2, Out(s, e), e)
<1> DEFINE r == [h \in Heads |-> List!Abs!Without(s[h], e)]
<1>1. /\ s \in [Heads -> Seq(Entries)] /\ \A h \in Heads : s[h] \in Seq(Entries) /\ NoneTwice(s[h])
      /\ nx \in [Nodes -> Nodes \cup {NULL}] /\ pv \in [Nodes -> Nodes \cup {NULL}]
      /\ e \in Nodes /\ e # NULL
  BY NodesDiffer DEF Shape
<1>2. \A h \in Heads : e \notin Elements(s[h]) => List!Abs!Without(s[h], e) = s[h]
  BY <1>1, WithoutIs
<1>3. CASE ~On(s, e)
  <2>1. nx[e] = e /\ pv[e] = e
    BY <1>1, <1>3 DEF Off
  <2>2. nx2 = nx /\ pv2 = pv
    BY <1>1, <2>1 DEF Pointed
  <2>3. r = s
    <3>1. \A h \in Heads : r[h] = s[h]
      BY <1>2, <1>3 DEF On
    <3> QED
      BY <1>1, <3>1
  <2> QED
    BY <1>3, <2>2, <2>3, NodesDiffer DEF Off, Out
<1>4. CASE On(s, e)
  <2>1. PICK h \in Heads : e \in Elements(s[h])
    BY <1>4 DEF On
  <2>2. PICK k \in 1..Len(s[h]) : s[h][k] = e
    BY <2>1 DEF Elements
  <2> DEFINE q2 == List!Abs!Without(s[h], e)
             p == Cell(h, s[h], k - 1)
             n == Cell(h, s[h], k + 1)
  <2>3. q2 \in Seq(Entries) /\ Shorter(s[h], k, q2)
    BY <1>1, <2>2, WithoutIs
  <2>4. r = [s EXCEPT ![h] = q2]
    <3>1. \A g \in Heads : g # h => e \notin Elements(s[g])
      BY <2>1 DEF Shape
    <3>2. \A g \in Heads : g # h => r[g] = s[g]
      BY <1>2, <3>1
    <3> QED
      BY <1>1, <3>2
  <2>5. h \notin st
    <3>1. h \in st => Elements(s[h]) = {}
      <4>1. h \in st => Len(s[h]) = 0
        BY EmptySeq DEF Shape
      <4> QED
        BY <4>1 DEF Elements
    <3> QED
      BY <2>1, <3>1
  <2>6. /\ Len(s[h]) \in Nat /\ k - 1 \in 0..Len(s[h]) /\ (k - 1) + 1 = k /\ k \in 0..Len(s[h])
        /\ k - 1 \in 0..Len(s[h]) + 1 /\ k + 1 \in 0..Len(s[h]) + 1 /\ Cell(h, s[h], k) = e
    BY <1>1, <2>2, LenProperties, CellsOf
  <2>7. nx[e] = n /\ pv[e] = p
    <3>1. Ring(nx, pv, h, s[h])
      BY <2>5 DEF Shape
    <3>2. /\ nx[Cell(h, s[h], k)] = Cell(h, s[h], k + 1)
          /\ pv[Cell(h, s[h], (k - 1) + 1)] = Cell(h, s[h], k - 1)
      BY <2>6, <3>1 DEF Ring
    <3> QED
      BY <2>6, <3>2
  <2>8. p \in {h} \cup Elements(s[h]) /\ n \in {h} \cup Elements(s[h]) /\ p \in Nodes /\ n \in Nodes
    BY <2>6, CellsOf
  <2>9. nx2 = Pointed(nx, p, n) /\ pv2 = Pointed(pv, n, p)
    BY <2>7
  <2>10. /\ h \notin Entries /\ h \in Nodes /\ Entries \subseteq Nodes /\ Ring(nx, pv, h, s[h])
         /\ s[h] \in Seq(Entries) /\ NoneTwice(s[h])
    BY <1>1, <2>5, NodesDiffer DEF Shape
  <2> HIDE DEF q2
  <2>11. Ring(nx2, pv2, h, q2)
    <3>1. /\ nx2[p] = n /\ pv2[n] = p
          /\ \A x \in {h} \cup Elements(s[h]) : /\ x # p => nx2[x] = nx[x]
                                                /\ x # n => pv2[x] = pv[x]
      <4>1. \A x \in {h} \cup Elements(s[h]) : x \in Nodes
        BY <2>10, CellsOf
      <4>2. nx \in [Nodes -> Nodes \cup {NULL}] /\ pv \in [Nodes -> Nodes \cup {NULL}]
        BY <1>1
      <4> HIDE DEF p, n
      <4>3. nx2[p] = n /\ \A x \in Nodes : x # p => nx2[x] = nx[x]
        BY <2>8, <2>9, <4>2 DEF Pointed
      <4>4. pv2[n] = p /\ \A x \in Nodes : x # n => pv2[x] = pv[x]
        BY <2>8, <2>9, <4>2 DEF Pointed
      <4> QED
        BY <4>1, <4>3, <4>4
    <3> QED
      <4>1. LinksOut(nx, pv, nx2, pv2, h, s[h], k)
        BY <3>1 DEF p, n, LinksOut
      <4> QED
        BY <2>2, <2>3, <2>10, <4>1, RingDelete
  <2>12. NoneTwice(q2) /\ Elements(q2) = Elements(s[h]) \ {e}
    BY <2>2, <2>3, <2>10, ShorterIs
  <2> HIDE DEF p, n
  <2>13. /\ nx2 \in [Nodes -> Nodes \cup {NULL}] /\ pv2 \in [Nodes -> Nodes \cup {NULL}]
         /\ \A x \in Nodes : x \notin {p, n} => nx2[x] = nx[x] /\ pv2[x] = pv[x]
    <3>1. nx2 \in [Nodes -> Nodes \cup {NULL}]
      <4>1. nx \in [Nodes -> Nodes \cup {NULL}] /\ n \in Nodes \cup {NULL}
        BY <1>1, <2>8
      <4> QED
        BY <2>9, <4>1 DEF Pointed
    <3>2. \A x \in Nodes : x # p => nx2[x] = nx[x]
      <4>1. nx \in [Nodes -> Nodes \cup {NULL}]
        BY <1>1
      <4> QED
        BY <2>9, <4>1 DEF Pointed
    <3>3. pv2 \in [Nodes -> Nodes \cup {NULL}]
      <4>1. pv \in [Nodes -> Nodes \cup {NULL}] /\ p \in Nodes \cup {NULL}
        BY <1>1, <2>8
      <4> QED
        BY <2>9, <4>1 DEF Pointed
    <3>4. \A x \in Nodes : x # n => pv2[x] = pv[x]
      <4>1. pv \in [Nodes -> Nodes \cup {NULL}]
        BY <1>1
      <4> QED
        BY <2>9, <4>1 DEF Pointed
    <3> QED
      BY <3>1, <3>2, <3>3, <3>4
  <2> HIDE DEF r
  <2>14. \A g \in Heads : r[g] = IF g = h THEN q2 ELSE s[g]
    BY <1>1, <2>4
  <2>15. \A x : On(r, x) <=> On(s, x) /\ x # e
    <3>1. \A g \in Heads : g # h => e \notin Elements(s[g])
      BY <2>1 DEF Shape
    <3> QED
      BY <2>12, <2>14, <3>1 DEF On
  <2>16. Shape(nx2, pv2, st, r)
    <3>1. {} \subseteq Entries /\ Unlisted(s, {})
      BY DEF Unlisted
    <3>2. Elements(q2) \subseteq Elements(s[h]) \cup {}
      BY <2>12
    <3>3. Agree(nx, pv, nx2, pv2, Nodes \ ({h} \cup {} \cup Elements(s[h])))
      BY <2>8, <2>13 DEF Agree
    <3> QED
      BY <2>3, <2>4, <2>5, <2>11, <2>12, <2>13, <3>1, <3>2, <3>3, OneListChanged
  <2>17. Off(nx2, pv2, r, e)
    <3> SUFFICES ASSUME NEW x \in Entries, ~On(r, x), x # e
                 PROVE  nx2[x] = pv2[x] /\ nx2[x] \in {x, NULL}
      BY DEF Off
    <3>1. ~On(s, x)
      BY <2>15
    <3>2. x \notin {p, n} /\ x \in Nodes /\ x # NULL
      BY <2>8, <2>10, <3>1, NodesDiffer DEF On
    <3> QED
      BY <2>13, <3>1, <3>2 DEF Off
  <2> QED
    BY <2>15, <2>16, <2>17 DEF r, Out
<1> QED
  BY <1>3, <1>4

LEMMA EmptyIs ==
  /\ << >> \in Seq(Entries) /\ NoneTwice(<< >>) /\ Elements(<< >>) = {} /\ Len(<< >>) = 0
  /\ \A h : Cell(h, << >>, 0) = h /\ Cell(h, << >>, 1) = h
BY EmptySeq DEF NoneTwice, Elements, Cell

\* list_empty()
LEMMA EmptyTells ==
  ASSUME NEW nx, NEW pv, NEW st, NEW s, Shape(nx, pv, st, s), NEW h \in Heads \ st
  PROVE  nx[h] = h <=> s[h] = << >>
<1>1. nx[h] = Cell(h, s[h], 1)
  <2>1. 0 \in 0..Len(s[h]) /\ Cell(h, s[h], 0) = h /\ 0 + 1 = 1
    BY CellsOf
  <2>2. nx[Cell(h, s[h], 0)] = Cell(h, s[h], 0 + 1)
    BY <2>1 DEF Ring, Shape
  <2> QED
    BY <2>1, <2>2
<1>2. ASSUME s[h] # << >> PROVE Cell(h, s[h], 1) # h
  <2>1. 1 \in 1..Len(s[h])
    BY <1>2, CellsOf, EmptySeq
  <2> QED
    BY <2>1, CellsOf, NodesDiffer
<1> QED
  BY <1>1, <1>2, EmptyIs

\* The pointers of an entry on no list are set.
LEMMA PutOff ==
  ASSUME NEW nx, NEW pv, NEW st, NEW s, Shape(nx, pv, st, s), NEW e \in Entries, ~On(s, e),
         Off(nx, pv, s, e), NEW v \in {e, NULL}, NEW nx2, NEW pv2,
         nx2 = [nx EXCEPT ![e] = v], pv2 = [pv EXCEPT ![e] = v]
  PROVE  Shape(nx2, pv2, st, s) /\ Off(nx2, pv2, s, NULL)
<1>1. /\ nx \in [Nodes -> Nodes \cup {NULL}] /\ pv \in [Nodes -> Nodes \cup {NULL}] /\ e \in Nodes
  BY NodesDiffer DEF Shape
<1>2. /\ nx2 \in [Nodes -> Nodes \cup {NULL}] /\ pv2 \in [Nodes -> Nodes \cup {NULL}]
      /\ nx2[e] = v /\ pv2[e] = v
      /\ \A x \in Nodes : x # e => nx2[x] = nx[x] /\ pv2[x] = pv[x]
  BY <1>1
<1>3. ASSUME NEW g \in Heads \ st PROVE Ring(nx2, pv2, g, s[g])
  <2>1. Ring(nx, pv, g, s[g]) /\ s[g] \in Seq(Entries) /\ g \notin Entries
    BY NodesDiffer DEF Shape
  <2>2. ASSUME NEW x \in {g} \cup Elements(s[g]) PROVE nx2[x] = nx[x] /\ pv2[x] = pv[x]
    <3>1. x \in Nodes /\ x # e
      BY CellsOf, NodesDiffer DEF On
    <3> QED
      BY <1>2, <3>1
  <2> QED
    BY <2>1, <2>2, RingFrame DEF Agree
<1>4. Shape(nx2, pv2, st, s)
  BY <1>2, <1>3 DEF Shape
<1>5. ASSUME NEW x \in Entries, ~On(s, x) PROVE nx2[x] = pv2[x] /\ nx2[x] \in {x, NULL}
  <2>1. CASE x = e
    BY <1>2, <2>1
  <2>2. CASE x # e
    <3>1. x \in Nodes
      BY NodesDiffer
    <3> QED
      BY <1>2, <1>5, <2>2, <3>1 DEF Off
  <2> QED
    BY <2>1, <2>2
<1> QED
  BY <1>4, <1>5 DEF Off

\* INIT_LIST_HEAD() of a head whose list was spliced away.
LEMMA HeadReset ==
  ASSUME NEW nx, NEW pv, NEW st, NEW s, Shape(nx, pv, st, s), Off(nx, pv, s, NULL), NEW g \in st,
         NEW nx2, NEW pv2, nx2 = [nx EXCEPT ![g] = g], pv2 = [pv EXCEPT ![g] = g]
  PROVE  Shape(nx2, pv2, st \ {g}, s) /\ Off(nx2, pv2, s, NULL)
<1>1. /\ nx \in [Nodes -> Nodes \cup {NULL}] /\ pv \in [Nodes -> Nodes \cup {NULL}]
      /\ g \in Heads /\ g \in Nodes /\ st \subseteq Heads /\ s[g] = << >>
  BY NodesDiffer DEF Shape
<1>2. /\ nx2 \in [Nodes -> Nodes \cup {NULL}] /\ pv2 \in [Nodes -> Nodes \cup {NULL}]
      /\ nx2[g] = g /\ pv2[g] = g
      /\ \A x \in Nodes : x # g => nx2[x] = nx[x] /\ pv2[x] = pv[x]
  BY <1>1
<1>3. ASSUME NEW h \in Heads \ (st \ {g}) PROVE Ring(nx2, pv2, h, s[h])
  <2>1. CASE h = g
    <3>1. ASSUME NEW i \in 0..0
          PROVE  nx2[Cell(g, << >>, i)] = Cell(g, << >>, i + 1) /\ pv2[Cell(g, << >>, i + 1)] = Cell(g, << >>, i)
      <4>1. i = 0 /\ i + 1 = 1
        OBVIOUS
      <4> QED
        BY <1>2, <4>1, EmptyIs
    <3>2. Ring(nx2, pv2, g, << >>)
      BY <3>1, EmptyIs DEF Ring
    <3> QED
      BY <1>1, <2>1, <3>2
  <2>2. CASE h # g
    <3>1. Ring(nx, pv, h, s[h]) /\ s[h] \in Seq(Entries) /\ h \notin Entries
      BY <2>2, NodesDiffer DEF Shape
    <3>2. ASSUME NEW x \in {h} \cup Elements(s[h]) PROVE nx2[x] = nx[x] /\ pv2[x] = pv[x]
      <4>1. x \in Nodes /\ x # g
        BY <1>1, <2>2, CellsOf, NodesDiffer
      <4> QED
        BY <1>2, <4>1
    <3> QED
      BY <3>1, <3>2, RingFrame DEF Agree
  <2> QED
    BY <2>1, <2>2
<1>4. Shape(nx2, pv2, st \ {g}, s)
  BY <1>1, <1>2, <1>3 DEF Shape
<1>5. \A x \in Entries : x \in Nodes /\ x # g /\ x # NULL
  BY <1>1, NodesDiffer
<1> QED
  BY <1>2, <1>4, <1>5 DEF Off

\* __list_splice() of a list that is not empty.
\* The stores of list_splice(), and what becomes of the sequences.
Splices(nx, pv, nx2, pv2, g, h) ==
  /\ nx2 = [nx EXCEPT ![h] = nx[g], ![pv[g]] = nx[h]]
  /\ pv2 = [pv EXCEPT ![nx[g]] = h, ![nx[h]] = pv[g]]

Emptied(s, g, h) == [s EXCEPT ![h] = s[g] \o @, ![g] = << >>]

LEMMA Spliced ==
  ASSUME NEW nx, NEW pv, NEW st, NEW s, Shape(nx, pv, st, s), Off(nx, pv, s, NULL),
         NEW g \in Heads \ st, NEW h \in Heads \ st, g # h, s[g] # << >>, NEW nx2, NEW pv2,
         Splices(nx, pv, nx2, pv2, g, h)
  PROVE  Shape(nx2, pv2, st \cup {g}, Emptied(s, g, h)) /\ Off(nx2, pv2, Emptied(s, g, h), NULL)
<1> USE DEF Splices, Emptied
<1> DEFINE s2 == Emptied(s, g, h)
           p == s[g]
           q == s[h]
           m == Len(p)
           first == p[1]
           last == p[m]
           at1 == Cell(h, q, 1)
           r == p \o q
<1>1. /\ p \in Seq(Entries) /\ NoneTwice(p) /\ m \in Nat \ {0} /\ 1 \in 1..m /\ m \in 1..m
      /\ q \in Seq(Entries) /\ NoneTwice(q) /\ Len(q) \in Nat /\ g \in Heads /\ h \in Heads
      /\ Elements(p) \cap Elements(q) = {} /\ Ring(nx, pv, g, p) /\ Ring(nx, pv, h, q)
      /\ nx \in [Nodes -> Nodes \cup {NULL}] /\ pv \in [Nodes -> Nodes \cup {NULL}]
      /\ s \in [Heads -> Seq(Entries)] /\ st \subseteq Heads
  BY EmptySeq, LenProperties DEF Shape
<1>2. /\ first \in Elements(p) /\ last \in Elements(p) /\ at1 \in {h} \cup Elements(q)
      /\ Elements(p) \subseteq Entries /\ Elements(q) \subseteq Entries
  <2>1. 1 \in 0..Len(q) + 1
    BY <1>1
  <2> QED
    BY <1>1, <2>1, CellsOf
<1>3. nx[g] = first /\ pv[g] = last /\ nx[h] = at1
  <2>1. /\ 0 \in 0..m /\ 0 + 1 = 1 /\ Cell(g, p, 0) = g /\ Cell(g, p, 1) = first
        /\ m \in 0..m /\ Cell(g, p, m + 1) = g /\ Cell(g, p, m) = last
        /\ 0 \in 0..Len(q) /\ Cell(h, q, 0) = h
    BY <1>1, CellsOf
  <2>2. nx[Cell(g, p, 0)] = Cell(g, p, 0 + 1) /\ pv[Cell(g, p, m + 1)] = Cell(g, p, m)
    BY <1>1, <2>1 DEF Ring
  <2>3. nx[Cell(h, q, 0)] = Cell(h, q, 0 + 1)
    BY <1>1, <2>1 DEF Ring
  <2> QED
    BY <2>1, <2>2, <2>3
<1> HIDE DEF first, last, at1
<1>4. /\ nx2 = [nx EXCEPT ![h] = first, ![last] = at1] /\ pv2 = [pv EXCEPT ![first] = h, ![at1] = last]
  BY <1>3
<1>5. /\ g \in Nodes /\ h \in Nodes /\ first \in Nodes /\ last \in Nodes /\ at1 \in Nodes
      /\ g \notin Entries /\ h \notin Entries /\ h # last /\ first # at1 /\ Entries \subseteq Nodes
  BY <1>1, <1>2, NodesDiffer
<1>6. /\ nx2 \in [Nodes -> Nodes \cup {NULL}] /\ pv2 \in [Nodes -> Nodes \cup {NULL}]
      /\ nx2[h] = first /\ nx2[last] = at1 /\ pv2[first] = h /\ pv2[at1] = last
      /\ \A x \in Nodes : x # h /\ x # last => nx2[x] = nx[x]
      /\ \A x \in Nodes : x # first /\ x # at1 => pv2[x] = pv[x]
  <2> DEFINE V == Nodes \cup {NULL}
  <2>0. first \in V /\ at1 \in V /\ h \in V /\ last \in V /\ nx \in [Nodes -> V] /\ pv \in [Nodes -> V]
    BY <1>1, <1>5
  <2> HIDE DEF V
  <2>1. /\ nx2 \in [Nodes -> V] /\ nx2[h] = first /\ nx2[last] = at1
        /\ \A x \in Nodes : x # h /\ x # last => nx2[x] = nx[x]
    <3>1. nx2 = [nx EXCEPT ![h] = first, ![last] = at1]
      BY <1>4
    <3>2. nx2 \in [Nodes -> V]
      BY <2>0, <3>1
    <3>3. nx2[h] = first /\ nx2[last] = at1
      BY <1>5, <2>0, <3>1
    <3>4. \A x \in Nodes : x # h /\ x # last => nx2[x] = nx[x]
      BY <1>5, <2>0, <3>1
    <3> QED
      BY <3>2, <3>3, <3>4
  <2>2. /\ pv2 \in [Nodes -> V] /\ pv2[first] = h /\ pv2[at1] = last
        /\ \A x \in Nodes : x # first /\ x # at1 => pv2[x] = pv[x]
    <3>1. pv2 = [pv EXCEPT ![first] = h, ![at1] = last]
      BY <1>4
    <3>2. pv2 \in [Nodes -> V]
      BY <2>0, <3>1
    <3>3. pv2[first] = h /\ pv2[at1] = last
      BY <1>5, <2>0, <3>1
    <3>4. \A x \in Nodes : x # first /\ x # at1 => pv2[x] = pv[x]
      BY <1>5, <2>0, <3>1
    <3> QED
      BY <3>2, <3>3, <3>4
  <2> QED
    BY <2>1, <2>2 DEF V
<1>7. Ring(nx2, pv2, h, r) /\ NoneTwice(r) /\ Elements(r) = Elements(p) \cup Elements(q)
  <2>1. \A x \in {h} \cup Elements(p) \cup Elements(q) : x \in Nodes
    BY <1>2, <1>5
  <2>2. LinksAll(nx, pv, nx2, pv2, p, h, q)
    BY <1>6, <2>1 DEF LinksAll, first, last, at1
  <2> HIDE DEF p, q
  <2> QED
    BY <1>1, <1>5, <2>2, RingSplice DEF p
<1>8. r \in Seq(Entries)
  BY <1>1, ConcatProperties
<1>9. s2[h] = r /\ s2[g] = << >> /\ \A x \in Heads : x # h /\ x # g => s2[x] = s[x]
  BY <1>1
<1>10. s2 \in [Heads -> Seq(Entries)]
  BY <1>1, <1>8, <1>9, EmptyIs
<1>11. \A x \in Heads : NoneTwice(s2[x])
  BY <1>7, <1>9, EmptyIs DEF Shape
<1>12. \A x \in st \cup {g} : s2[x] = << >>
  BY <1>1, <1>9 DEF Shape
<1> HIDE DEF p, q, r
<1>13. ASSUME NEW k \in Heads, k # h, k # g
       PROVE  /\ Elements(s[k]) \cap Elements(p) = {} /\ Elements(s[k]) \cap Elements(q) = {}
              /\ Elements(s[k]) \subseteq Entries
  <2>1. \A j \in Heads : k # j => Elements(s[k]) \cap Elements(s[j]) = {}
    BY DEF Shape
  <2>2. Elements(s[k]) \subseteq Entries
    BY CellsOf
  <2> QED
    BY <1>1, <1>13, <2>1, <2>2 DEF p, q
<1>14. ASSUME NEW k \in Heads \ (st \cup {g}) PROVE Ring(nx2, pv2, k, s2[k])
  <2>1. CASE k = h
    BY <1>7, <1>9, <2>1
  <2>2. CASE k # h
    <3>1. Ring(nx, pv, k, s[k]) /\ s[k] \in Seq(Entries) /\ k \notin Entries /\ k \in Nodes
      BY NodesDiffer DEF Shape
    <3>2. ASSUME NEW x \in {k} \cup Elements(s[k]) PROVE nx2[x] = nx[x] /\ pv2[x] = pv[x]
      <4>1. x \in Nodes /\ x # h /\ x # last /\ x # first /\ x # at1
        BY <1>2, <1>5, <1>13, <2>2, <3>1
      <4> QED
        BY <1>6, <4>1
    <3>3. Agree(nx, pv, nx2, pv2, {k} \cup Elements(s[k]))
      BY <3>2 DEF Agree
    <3>4. Ring(nx2, pv2, k, s[k])
      BY <3>1, <3>3, RingFrame
    <3> QED
      BY <1>9, <2>2, <3>4
  <2> QED
    BY <2>1, <2>2
<1>15. ASSUME NEW j \in Heads, NEW k \in Heads, j # k
       PROVE  Elements(s2[j]) \cap Elements(s2[k]) = {}
  <2>1. \A x \in Heads : x # h /\ x # g => Elements(s2[x]) \cap Elements(s2[h]) = {}
    BY <1>7, <1>9, <1>13
  <2>2. Elements(s2[g]) = {}
    BY <1>9, EmptyIs
  <2>3. CASE j # h /\ k # h /\ j # g /\ k # g
    BY <1>9, <1>15, <2>3 DEF Shape
  <2> QED
    BY <1>15, <2>1, <2>2, <2>3
<1>16. Shape(nx2, pv2, st \cup {g}, s2)
  BY <1>1, <1>6, <1>10, <1>11, <1>12, <1>14, <1>15 DEF Shape
<1>17. ASSUME NEW x \in Entries, ~On(s2, x) PROVE nx2[x] = pv2[x] /\ nx2[x] \in {x, NULL}
  <2>1. x \notin Elements(p) /\ x \notin Elements(q)
    BY <1>1, <1>7, <1>9, <1>17 DEF On
  <2>2. \A k \in Heads : x \notin Elements(s[k])
    BY <1>9, <1>17, <2>1 DEF On, p, q
  <2>3. x \in Nodes /\ x # h /\ x # last /\ x # first /\ x # at1 /\ x # NULL
    BY <1>2, <1>5, <2>1, NodesDiffer
  <2> QED
    BY <1>6, <2>2, <2>3 DEF Off, On
<1> QED
  BY <1>16, <1>17 DEF Off

-----------------------------------------------------------------------------
(***************************************************************************)
(* What each function of list.h does to lists that have their shape.       *)
(***************************************************************************)
Good(heap, st, s, x) == Shape(heap.next, heap.prev, st, s) /\ Off(heap.next, heap.prev, s, x)

LEMMA AddIs ==
  ASSUME NEW heap, NEW st, NEW s, NEW e \in Entries, Good(heap, st, s, e), ~On(s, e),
         NEW h \in Heads \ st
  PROVE  /\ Good(List!list_add(heap, e, h), st, [s EXCEPT ![h] = <<e>> \o s[h]], NULL)
         /\ Good(List!list_add_tail(heap, e, h), st, [s EXCEPT ![h] = Append(s[h], e)], NULL)
<1> DEFINE nx == heap.next
           pv == heap.prev
           a == List!list_add(heap, e, h)
           b == List!list_add_tail(heap, e, h)
<1>1. Shape(nx, pv, st, s) /\ Off(nx, pv, s, e)
  BY DEF Good
<1>2. a.next = [nx EXCEPT ![e] = nx[h], ![h] = e] /\ a.prev = [pv EXCEPT ![nx[h]] = e, ![e] = h]
  BY DEF List!list_add, List!LinkBetween
<1>3. b.next = [nx EXCEPT ![e] = h, ![pv[h]] = e] /\ b.prev = [pv EXCEPT ![h] = e, ![e] = pv[h]]
  BY DEF List!list_add_tail, List!LinkBetween
<1> HIDE DEF nx, pv, a, b
<1>4. /\ Len(s[h]) \in Nat /\ s[h] \in Seq(Entries)
      /\ Cell(h, s[h], 0) = h /\ Cell(h, s[h], Len(s[h]) + 1) = h
  BY <1>1, CellsOf
<1>5. nx[h] = Cell(h, s[h], 0 + 1) /\ pv[h] = Cell(h, s[h], Len(s[h]))
  <2>1. Ring(nx, pv, h, s[h]) /\ 0 \in 0..Len(s[h]) /\ Len(s[h]) \in 0..Len(s[h])
    BY <1>1, <1>4 DEF Shape
  <2>2. /\ nx[Cell(h, s[h], 0)] = Cell(h, s[h], 0 + 1)
        /\ pv[Cell(h, s[h], Len(s[h]) + 1)] = Cell(h, s[h], Len(s[h]))
    BY <2>1 DEF Ring
  <2> QED
    BY <1>4, <2>2
<1>6. /\ <<e>> \o s[h] \in Seq(Entries) /\ Longer(s[h], 0, e, <<e>> \o s[h])
      /\ Append(s[h], e) \in Seq(Entries) /\ Longer(s[h], Len(s[h]), e, Append(s[h], e))
  BY <1>4, PushIs
<1>7. Good(a, st, [s EXCEPT ![h] = <<e>> \o s[h]], NULL)
  <2> DEFINE k == 0
             q2 == <<e>> \o s[h]
             an == a.next
             ap == a.prev
  <2>1. k \in 0..Len(s[h]) /\ q2 \in Seq(Entries) /\ Longer(s[h], k, e, q2)
    BY <1>4, <1>6
  <2>2. /\ an = Assigned(nx, e, Cell(h, s[h], k + 1), Cell(h, s[h], k), e)
        /\ ap = Assigned(pv, Cell(h, s[h], k + 1), e, e, Cell(h, s[h], k))
    BY <1>2, <1>4, <1>5 DEF Assigned
  <2> HIDE DEF k, q2, an, ap
  <2>3. /\ Shape(an, ap, st, [s EXCEPT ![h] = q2])
        /\ Off(an, ap, [s EXCEPT ![h] = q2], NULL)
    BY <1>1, <2>1, <2>2, Inserted
  <2> QED
    BY <2>3 DEF Good, an, ap, q2
<1>8. Good(b, st, [s EXCEPT ![h] = Append(s[h], e)], NULL)
  <2> DEFINE k == Len(s[h])
             q2 == Append(s[h], e)
             bn == b.next
             bp == b.prev
  <2>1. k \in 0..Len(s[h]) /\ q2 \in Seq(Entries) /\ Longer(s[h], k, e, q2)
    BY <1>4, <1>6
  <2>2. /\ bn = Assigned(nx, e, Cell(h, s[h], k + 1), Cell(h, s[h], k), e)
        /\ bp = Assigned(pv, Cell(h, s[h], k + 1), e, e, Cell(h, s[h], k))
    BY <1>3, <1>4, <1>5 DEF Assigned
  <2> HIDE DEF k, q2, bn, bp
  <2>3. /\ Shape(bn, bp, st, [s EXCEPT ![h] = q2])
        /\ Off(bn, bp, [s EXCEPT ![h] = q2], NULL)
    BY <1>1, <2>1, <2>2, Inserted
  <2> QED
    BY <2>3 DEF Good, bn, bp, q2
<1> QED
  BY <1>7, <1>8 DEF a, b

LEMMA UnlinkIs ==
  ASSUME NEW heap, NEW st, NEW s, NEW e \in Entries, Good(heap, st, s, NULL), heap.next[e] # NULL
  PROVE  Good(List!Unlink(heap, e), st, Out(s, e), e) /\ ~On(Out(s, e), e)
<1> DEFINE nx == heap.next
           pv == heap.prev
           un == List!Unlink(heap, e).next
           up == List!Unlink(heap, e).prev
<1>1. Shape(nx, pv, st, s) /\ Off(nx, pv, s, NULL) /\ nx[e] # NULL
  BY DEF Good
<1>2. un = Pointed(nx, pv[e], nx[e]) /\ up = Pointed(pv, nx[e], pv[e])
  BY DEF List!Unlink, List!UnlinkBetween, Pointed
<1> HIDE DEF nx, pv, un, up
<1>3. Shape(un, up, st, Out(s, e)) /\ ~On(Out(s, e), e) /\ Off(un, up, Out(s, e), e)
  BY <1>1, <1>2, Unlinked
<1> QED
  BY <1>3 DEF Good, un, up

LEMMA PutOffIs ==
  ASSUME NEW heap, NEW st, NEW s, NEW e \in Entries, Good(heap, st, s, e), ~On(s, e),
         NEW v \in {e, NULL}, NEW heap2,
         heap2 = [next |-> [heap.next EXCEPT ![e] = v], prev |-> [heap.prev EXCEPT ![e] = v]]
  PROVE  Good(heap2, st, s, NULL)
<1> DEFINE nx == heap.next
           pv == heap.prev
           nx2 == heap2.next
           pv2 == heap2.prev
<1>1. Shape(nx, pv, st, s) /\ Off(nx, pv, s, e)
  BY DEF Good
<1>2. nx2 = [nx EXCEPT ![e] = v] /\ pv2 = [pv EXCEPT ![e] = v]
  OBVIOUS
<1> HIDE DEF nx, pv, nx2, pv2
<1>3. Shape(nx2, pv2, st, s) /\ Off(nx2, pv2, s, NULL)
  BY <1>1, <1>2, PutOff
<1> QED
  BY <1>3 DEF Good, nx2, pv2

LEMMA HeadResetIs ==
  ASSUME NEW heap, NEW st, NEW s, NEW g \in st, Good(heap, st, s, NULL)
  PROVE  Good(List!INIT_LIST_HEAD(heap, g), st \ {g}, s, NULL)
<1> DEFINE nx == heap.next
           pv == heap.prev
           heap2 == List!INIT_LIST_HEAD(heap, g)
           nx2 == heap2.next
           pv2 == heap2.prev
<1>1. Shape(nx, pv, st, s) /\ Off(nx, pv, s, NULL)
  BY DEF Good
<1>2. nx2 = [nx EXCEPT ![g] = g] /\ pv2 = [pv EXCEPT ![g] = g]
  BY DEF List!INIT_LIST_HEAD
<1> HIDE DEF nx, pv, nx2, pv2
<1>3. Shape(nx2, pv2, st \ {g}, s) /\ Off(nx2, pv2, s, NULL)
  BY <1>1, <1>2, HeadReset
<1> QED
  BY <1>3 DEF Good, nx2, pv2

LEMMA SpliceIs ==
  ASSUME NEW heap, NEW st, NEW s, Good(heap, st, s, NULL), NEW g \in Heads \ st,
         NEW h \in Heads \ st, g # h, ~List!list_empty(heap, g)
  PROVE  Good(List!SpliceAfter(heap, g, h), st \cup {g},
              [s EXCEPT ![h] = s[g] \o @, ![g] = << >>], NULL)
<1> DEFINE nx == heap.next
           pv == heap.prev
           heap2 == List!SpliceAfter(heap, g, h)
           nx2 == heap2.next
           pv2 == heap2.prev
           s2 == [s EXCEPT ![h] = s[g] \o @, ![g] = << >>]
<1>1. Shape(nx, pv, st, s) /\ Off(nx, pv, s, NULL)
  BY DEF Good
<1>2. Splices(nx, pv, nx2, pv2, g, h)
  BY DEF List!SpliceAfter, Splices
<1>3. nx[g] # g
  BY DEF List!list_empty
<1> HIDE DEF nx, pv, nx2, pv2, s2
<1>4. s[g] # << >>
  BY <1>1, <1>3, EmptyTells
<1>5. s2 = Emptied(s, g, h)
  BY DEF s2, Emptied
<1>6. Shape(nx2, pv2, st \cup {g}, s2) /\ Off(nx2, pv2, s2, NULL)
  BY <1>1, <1>2, <1>4, <1>5, Spliced
<1> QED
  BY <1>6 DEF Good, nx2, pv2, s2

-----------------------------------------------------------------------------
(***************************************************************************)
(* The invariant of the lists: they are the sequences that walks find.     *)
(***************************************************************************)
ListInv == Good(List!Heap, lstale, List!Seqs, NULL)

LEMMA WalksAre ==
  ASSUME NEW nx, NEW pv, NEW st, NEW s, Shape(nx, pv, st, s)
  PROVE  [h \in Heads |-> IF h \in st THEN << >> ELSE List!Walk(nx, h)] = s
<1>1. ASSUME NEW h \in Heads, h \notin st PROVE List!Walk(nx, h) = s[h]
  <2>1. Ring(nx, pv, h, s[h]) /\ s[h] \in Seq(Entries) /\ NoneTwice(s[h])
    BY <1>1 DEF Shape
  <2>2. \A i \in 0..Len(s[h]) : nx[Cell(h, s[h], i)] = Cell(h, s[h], i + 1)
    BY <2>1 DEF Ring
  <2> QED
    BY <2>1, <2>2, WalkIs
<1>2. s \in [Heads -> Seq(Entries)] /\ \A h \in st : s[h] = << >>
  BY DEF Shape
<1> QED
  BY <1>1, <1>2

LEMMA ListNow ==
  ASSUME NEW s, Good(List!Heap, lstale, s, NULL)
  PROVE  List!Seqs = s
<1>1. Shape(lnext, lprev, lstale, s)
  BY DEF Good, List!Heap
<1> QED
  BY <1>1, WalksAre DEF List!Seqs

LEMMA ListThen ==
  ASSUME NEW heap, NEW s, Good(heap, lstale', s, NULL), List!Store(heap)
  PROVE  ListInv' /\ List!Seqs' = s
<1>1. Shape(lnext', lprev', lstale', s) /\ Off(lnext', lprev', s, NULL)
  BY DEF Good, List!Store
<1>2. [h \in Heads |-> IF h \in lstale' THEN << >> ELSE List!Walk(lnext', h)] = s
  BY <1>1, WalksAre
<1>3. List!Seqs' = [h \in Heads |-> IF h \in lstale' THEN << >> ELSE List!Walk(lnext', h)]
  BY DEF List!Seqs
<1>4. List!Heap'.next = lnext' /\ List!Heap'.prev = lprev'
  BY DEF List!Heap
<1> QED
  BY <1>1, <1>2, <1>3, <1>4 DEF ListInv, Good

LEMMA ListLinked ==
  ASSUME ListInv, NEW e
  PROVE  List!Linked(e) <=> On(List!Seqs, e)
<1>1. Shape(lnext, lprev, lstale, List!Seqs)
  BY DEF ListInv, Good, List!Heap
<1>2. \A h \in Heads \ lstale : List!Walk(lnext, h) = List!Seqs[h]
  BY DEF List!Seqs
<1>3. \A h \in Heads : List!ToSet(List!Seqs[h]) = Elements(List!Seqs[h])
  <2> TAKE h \in Heads
  <2>1. List!Seqs[h] \in Seq(Entries)
    BY <1>1, CellsOf
  <2> QED
    BY <2>1, LenProperties DEF List!ToSet, Elements
<1>4. \A h \in lstale : Elements(List!Seqs[h]) = {}
  BY <1>1, EmptyIs DEF Shape
<1> QED
  BY <1>2, <1>3, <1>4 DEF List!Linked, List!Usable, On

\* The calls, one by one: the invariant, and what becomes of the sequences.
LEMMA ListFacts ==
  ASSUME ListInv
  PROVE  /\ List!Seqs \in [Heads -> Seq(Entries)] /\ lstale \subseteq Heads
         /\ Good(List!Heap, lstale, List!Seqs, NULL)
         /\ List!Heap.next = lnext /\ List!Heap.prev = lprev
         /\ List!Usable = Heads \ lstale
         /\ \A e \in Entries : /\ Good(List!Heap, lstale, List!Seqs, e)
                               /\ On(List!Seqs, e) => lnext[e] # NULL
                               /\ ~On(List!Seqs, e) => List!Abs!Removed(e) = List!Seqs
                               /\ List!Abs!Removed(e) = Out(List!Seqs, e)
<1> DEFINE s == List!Seqs
<1>1. List!Heap.next = lnext /\ List!Heap.prev = lprev
  BY DEF List!Heap
<1> HIDE DEF s
<1>2. Shape(lnext, lprev, lstale, s) /\ Off(lnext, lprev, s, NULL) /\ Good(List!Heap, lstale, s, NULL)
  BY <1>1 DEF ListInv, Good, s
<1>3. s \in [Heads -> Seq(Entries)] /\ lstale \subseteq Heads
  BY <1>2 DEF Shape
<1>4. ASSUME NEW e \in Entries
      PROVE  /\ Good(List!Heap, lstale, s, e)
             /\ On(s, e) => lnext[e] # NULL
             /\ ~On(s, e) => List!Abs!Removed(e) = s
             /\ List!Abs!Removed(e) = Out(s, e)
  <2>4. Good(List!Heap, lstale, s, e)
    <3>1. Off(lnext, lprev, s, e)
      BY <1>2, NodesDiffer DEF Off
    <3> QED
      BY <1>1, <1>2, <3>1 DEF Good
  <2>5. ASSUME On(s, e) PROVE lnext[e] # NULL
    <3>1. PICK h \in Heads : e \in Elements(s[h])
      BY <2>5 DEF On
    <3>2. PICK k \in 1..Len(s[h]) : s[h][k] = e
      BY <3>1 DEF Elements
    <3>3. h \notin lstale
      BY <1>2, <3>1, EmptyIs DEF Shape
    <3>4. /\ k \in 0..Len(s[h]) /\ k + 1 \in 0..Len(s[h]) + 1 /\ Cell(h, s[h], k) = e
          /\ Cell(h, s[h], k + 1) \in Nodes
      BY <1>2, <3>2, CellsOf
    <3>5. Ring(lnext, lprev, h, s[h])
      BY <1>2, <3>3 DEF Shape
    <3>6. lnext[e] = Cell(h, s[h], k + 1)
      BY <3>4, <3>5 DEF Ring
    <3> QED
      BY <3>4, <3>6, NodesDiffer DEF Nodes
  <2>6. List!Abs!Removed(e) = Out(s, e)
    BY DEF List!Abs!Removed, Out, s
  <2>7. ASSUME ~On(s, e) PROVE List!Abs!Removed(e) = s
    <3>1. ASSUME NEW h \in Heads PROVE List!Abs!Without(s[h], e) = s[h]
      <4>1. s[h] \in Seq(Entries) /\ NoneTwice(s[h])
        BY <1>2 DEF Shape
      <4>2. e \notin Elements(s[h])
        BY <2>7 DEF On
      <4> QED
        BY <4>1, <4>2, WithoutIs
    <3>2. Out(s, e) = s
      BY <1>3, <3>1 DEF Out
    <3> QED
      BY <2>6, <3>2
  <2> QED
    BY <2>4, <2>5, <2>6, <2>7
<1> QED
  BY <1>1, <1>2, <1>3, <1>4 DEF List!Usable, s

LEMMA ListInitialise ==
  ASSUME ListInv, NEW e \in Entries, List!Initialise(e)
  PROVE  ListInv' /\ List!Seqs' = List!Seqs
<1> DEFINE s == List!Seqs
           heap == List!INIT_LIST_HEAD(List!Heap, e)
<1>1. lnext[e] = NULL /\ List!Store(heap) /\ lstale' = lstale
  BY DEF List!Initialise, List!Loose
<1>2. ~On(s, e) /\ Good(List!Heap, lstale, s, e)
  BY <1>1, ListFacts
<1>3. heap = [next |-> [List!Heap.next EXCEPT ![e] = e], prev |-> [List!Heap.prev EXCEPT ![e] = e]]
  BY DEF List!INIT_LIST_HEAD
<1>4. e \in {e, NULL}
  OBVIOUS
<1> HIDE DEF s, heap
<1>5. Good(heap, lstale', s, NULL)
  BY <1>1, <1>2, <1>3, <1>4, PutOffIs
<1> QED
  BY <1>1, <1>5, ListThen DEF s

LEMMA ListReinitialise ==
  ASSUME ListInv, NEW g \in Heads, List!Reinitialise(g)
  PROVE  ListInv' /\ List!Seqs' = List!Seqs
<1> DEFINE s == List!Seqs
           heap == List!INIT_LIST_HEAD(List!Heap, g)
<1>1. g \in lstale /\ List!Store(heap) /\ lstale' = lstale \ {g}
  BY DEF List!Reinitialise
<1>2. Good(List!Heap, lstale, s, NULL)
  BY ListFacts
<1>3. Good(heap, lstale', s, NULL)
  BY <1>1, <1>2, HeadResetIs
<1> HIDE DEF s, heap
<1> QED
  BY <1>1, <1>3, ListThen DEF s

LEMMA ListAdd ==
  ASSUME ListInv, NEW e \in Entries, NEW h \in List!Usable
  PROVE  /\ List!Add(e, h) => ListInv' /\ List!Abs!PutFirst(e, h)
         /\ List!AddTail(e, h) => ListInv' /\ List!Abs!PutLast(e, h)
<1> DEFINE s == List!Seqs
           first == List!list_add(List!Heap, e, h)
           last == List!list_add_tail(List!Heap, e, h)
<1>1. h \in Heads \ lstale /\ Good(List!Heap, lstale, s, e)
      /\ (~On(s, e) => List!Abs!Removed(e) = s)
  BY ListFacts
<1>2. List!Linked(e) <=> On(s, e)
  BY ListLinked
<1> HIDE DEF s
<1>3. ~On(s, e) => /\ Good(first, lstale, [s EXCEPT ![h] = <<e>> \o s[h]], NULL)
                   /\ Good(last, lstale, [s EXCEPT ![h] = Append(s[h], e)], NULL)
  BY <1>1, AddIs
<1> HIDE DEF first, last
<1>4. ASSUME List!Add(e, h) PROVE ListInv' /\ List!Abs!PutFirst(e, h)
  <2> DEFINE s2 == [s EXCEPT ![h] = <<e>> \o s[h]]
  <2>1. ~On(s, e) /\ List!Store(first) /\ lstale' = lstale
    BY <1>2, <1>4 DEF List!Add, first
  <2>2. Good(first, lstale', s2, NULL)
    BY <1>3, <2>1
  <2> HIDE DEF s2
  <2>3. ListInv' /\ List!Seqs' = s2
    BY <2>1, <2>2, ListThen
  <2> QED
    BY <1>1, <2>1, <2>3 DEF List!Abs!PutFirst, s2
<1>5. ASSUME List!AddTail(e, h) PROVE ListInv' /\ List!Abs!PutLast(e, h)
  <2> DEFINE s2 == [s EXCEPT ![h] = Append(s[h], e)]
  <2>1. ~On(s, e) /\ List!Store(last) /\ lstale' = lstale
    BY <1>2, <1>5 DEF List!AddTail, last
  <2>2. Good(last, lstale', s2, NULL)
    BY <1>3, <2>1
  <2> HIDE DEF s2
  <2>3. ListInv' /\ List!Seqs' = s2
    BY <2>1, <2>2, ListThen
  <2> QED
    BY <1>1, <2>1, <2>3 DEF List!Abs!PutLast, s2
<1> QED
  BY <1>4, <1>5

LEMMA ListDelete ==
  ASSUME ListInv, NEW e \in Entries
  PROVE  List!Delete(e) \/ List!DeleteInit(e) => ListInv' /\ List!Abs!Delete(e)
<1> DEFINE s == List!Seqs
           r == Out(s, e)
           u == List!Unlink(List!Heap, e)
<1>1. Good(List!Heap, lstale, s, NULL) /\ List!Heap.next = lnext /\ List!Abs!Removed(e) = r
  BY ListFacts
<1> HIDE DEF s
<1>2. lnext[e] # NULL => Good(u, lstale, r, e) /\ ~On(r, e)
  BY <1>1, UnlinkIs
<1> HIDE DEF r
<1>3. ASSUME NEW v \in {e, NULL}, lnext[e] # NULL, lstale' = lstale,
             List!Store([next |-> [u.next EXCEPT ![e] = v], prev |-> [u.prev EXCEPT ![e] = v]])
      PROVE  ListInv' /\ List!Abs!Delete(e)
  <2> DEFINE heap == [next |-> [u.next EXCEPT ![e] = v], prev |-> [u.prev EXCEPT ![e] = v]]
  <2>1. heap = [next |-> [u.next EXCEPT ![e] = v], prev |-> [u.prev EXCEPT ![e] = v]] /\ List!Store(heap)
    BY <1>3
  <2> HIDE DEF heap, u
  <2>2. Good(heap, lstale', r, NULL)
    BY <1>2, <1>3, <2>1, PutOffIs
  <2>3. ListInv' /\ List!Seqs' = r
    BY <2>1, <2>2, ListThen
  <2> QED
    BY <1>1, <2>3 DEF List!Abs!Delete
<1>4. ASSUME List!Delete(e) PROVE ListInv' /\ List!Abs!Delete(e)
  <2>1. /\ lnext[e] # NULL /\ lstale' = lstale
        /\ List!Store([next |-> [u.next EXCEPT ![e] = NULL], prev |-> [u.prev EXCEPT ![e] = NULL]])
    BY <1>4 DEF List!Delete, List!Loose, List!list_del
  <2> QED
    BY <1>3, <2>1
<1>5. ASSUME List!DeleteInit(e) PROVE ListInv' /\ List!Abs!Delete(e)
  <2>1. /\ lnext[e] # NULL /\ lstale' = lstale
        /\ List!Store([next |-> [u.next EXCEPT ![e] = e], prev |-> [u.prev EXCEPT ![e] = e]])
    BY <1>5 DEF List!DeleteInit, List!Loose, List!list_del_init, List!INIT_LIST_HEAD
  <2> QED
    BY <1>3, <2>1
<1> QED
  BY <1>4, <1>5

LEMMA ListMove ==
  ASSUME ListInv, NEW e \in Entries, NEW h \in List!Usable
  PROVE  /\ List!Move(e, h) => ListInv' /\ List!Abs!PutFirst(e, h)
         /\ List!MoveTail(e, h) => ListInv' /\ List!Abs!PutLast(e, h)
<1> DEFINE s == List!Seqs
           r == Out(s, e)
           u == List!Unlink(List!Heap, e)
           first == List!list_add(u, e, h)
           last == List!list_add_tail(u, e, h)
<1>1. h \in Heads \ lstale /\ Good(List!Heap, lstale, s, NULL) /\ List!Heap.next = lnext
      /\ List!Abs!Removed(e) = r
  BY ListFacts
<1> HIDE DEF s
<1>2. lnext[e] # NULL => Good(u, lstale, r, e) /\ ~On(r, e)
  BY <1>1, UnlinkIs
<1> HIDE DEF r, u
<1>3. lnext[e] # NULL => /\ Good(first, lstale, [r EXCEPT ![h] = <<e>> \o r[h]], NULL)
                         /\ Good(last, lstale, [r EXCEPT ![h] = Append(r[h], e)], NULL)
  BY <1>1, <1>2, AddIs
<1> HIDE DEF first, last
<1>4. ASSUME List!Move(e, h) PROVE ListInv' /\ List!Abs!PutFirst(e, h)
  <2> DEFINE s2 == [r EXCEPT ![h] = <<e>> \o r[h]]
  <2>1. lnext[e] # NULL /\ List!Store(first) /\ lstale' = lstale
    BY <1>4 DEF List!Move, List!Loose, List!list_move, first, u
  <2>2. Good(first, lstale', s2, NULL)
    BY <1>3, <2>1
  <2> HIDE DEF s2
  <2>3. ListInv' /\ List!Seqs' = s2
    BY <2>1, <2>2, ListThen
  <2> QED
    BY <1>1, <2>1, <2>3 DEF List!Abs!PutFirst, s2
<1>5. ASSUME List!MoveTail(e, h) PROVE ListInv' /\ List!Abs!PutLast(e, h)
  <2> DEFINE s2 == [r EXCEPT ![h] = Append(r[h], e)]
  <2>1. lnext[e] # NULL /\ List!Store(last) /\ lstale' = lstale
    BY <1>5 DEF List!MoveTail, List!Loose, List!list_move_tail, last, u
  <2>2. Good(last, lstale', s2, NULL)
    BY <1>3, <2>1
  <2> HIDE DEF s2
  <2>3. ListInv' /\ List!Seqs' = s2
    BY <2>1, <2>2, ListThen
  <2> QED
    BY <1>1, <2>1, <2>3 DEF List!Abs!PutLast, s2
<1> QED
  BY <1>4, <1>5

LEMMA ListSplice ==
  ASSUME ListInv, NEW g \in List!Usable, NEW h \in List!Usable
  PROVE  List!Splice(g, h) \/ List!SpliceInit(g, h) => ListInv' /\ List!Abs!Splice(g, h)
<1> DEFINE s == List!Seqs
           s2 == [s EXCEPT ![h] = s[g] \o @, ![g] = << >>]
           heap == List!SpliceAfter(List!Heap, g, h)
           st == lstale \cup {g}
<1>1. /\ g \in Heads \ lstale /\ h \in Heads \ lstale /\ Good(List!Heap, lstale, s, NULL)
      /\ List!Heap.next = lnext /\ s \in [Heads -> Seq(Entries)] /\ lstale \subseteq Heads
  BY ListFacts
<1> HIDE DEF s
<1>2. List!list_empty(List!Heap, g) <=> s[g] = << >>
  <2>1. Shape(lnext, lprev, lstale, s)
    BY <1>1 DEF Good, List!Heap
  <2> QED
    BY <1>1, <2>1, EmptyTells DEF List!list_empty
<1>3. ASSUME g # h, s[g] = << >> PROVE s2 = s
  <2>1. s[g] \o s[h] = s[h]
    BY <1>1, <1>3, ConcatEmptySeq
  <2> QED
    BY <1>1, <1>3, <2>1
<1>4. ASSUME g # h, s[g] # << >> PROVE Good(heap, st, s2, NULL)
  BY <1>1, <1>2, <1>4, SpliceIs
<1> HIDE DEF s2, heap, st
<1>5. ASSUME g # h, s[g] # << >>
      PROVE  Good(List!INIT_LIST_HEAD(heap, g), lstale, s2, NULL)
  <2>1. g \in st /\ st \ {g} = lstale
    BY <1>1 DEF st
  <2>2. Good(heap, st, s2, NULL)
    BY <1>4, <1>5
  <2>3. Good(List!INIT_LIST_HEAD(heap, g), st \ {g}, s2, NULL)
    BY <2>1, <2>2, HeadResetIs
  <2> QED
    BY <2>1, <2>3
<1>6. ASSUME List!Splice(g, h) PROVE ListInv' /\ List!Abs!Splice(g, h)
  <2> DEFINE next2 == List!list_splice(List!Heap, g, h)
  <2>1. g # h /\ List!Store(next2)
        /\ lstale' = IF List!list_empty(List!Heap, g) THEN lstale ELSE st
    BY <1>6 DEF List!Splice, st
  <2>2. next2 = IF List!list_empty(List!Heap, g) THEN List!Heap ELSE heap
    BY DEF List!list_splice, heap
  <2> HIDE DEF next2
  <2>3. Good(next2, lstale', s2, NULL)
    <3>1. CASE s[g] = << >>
      BY <1>1, <1>2, <1>3, <2>1, <2>2, <3>1
    <3>2. CASE s[g] # << >>
      BY <1>2, <1>4, <2>1, <2>2, <3>2
    <3> QED
      BY <3>1, <3>2
  <2>4. ListInv' /\ List!Seqs' = s2
    BY <2>1, <2>3, ListThen
  <2> QED
    BY <2>1, <2>4 DEF List!Abs!Splice, s2, s
<1>7. ASSUME List!SpliceInit(g, h) PROVE ListInv' /\ List!Abs!Splice(g, h)
  <2> DEFINE next2 == List!list_splice_init(List!Heap, g, h)
  <2>1. g # h /\ List!Store(next2) /\ lstale' = lstale
    BY <1>7 DEF List!SpliceInit
  <2>2. next2 = IF List!list_empty(List!Heap, g) THEN List!Heap ELSE List!INIT_LIST_HEAD(heap, g)
    BY DEF List!list_splice_init, heap
  <2> HIDE DEF next2
  <2>3. Good(next2, lstale', s2, NULL)
    <3>1. CASE s[g] = << >>
      BY <1>1, <1>2, <1>3, <2>1, <2>2, <3>1
    <3>2. CASE s[g] # << >>
      BY <1>2, <1>5, <2>1, <2>2, <3>2
    <3> QED
      BY <3>1, <3>2
  <2>4. ListInv' /\ List!Seqs' = s2
    BY <2>1, <2>3, ListThen
  <2> QED
    BY <2>1, <2>4 DEF List!Abs!Splice, s2, s
<1> QED
  BY <1>6, <1>7

LEMMA ListStart ==
  ASSUME List!Init
  PROVE  ListInv /\ List!Abs!Init
<1> DEFINE s == [h \in Heads |-> << >>]
<1>1. /\ lnext = [n \in Nodes |-> IF n \in Heads THEN n ELSE NULL]
      /\ lprev = [n \in Nodes |-> IF n \in Heads THEN n ELSE NULL]
      /\ lstale = {}
  BY DEF List!Init, List!Nodes, Nodes
<1>2. /\ lnext \in [Nodes -> Nodes \cup {NULL}] /\ lprev \in [Nodes -> Nodes \cup {NULL}]
      /\ s \in [Heads -> Seq(Entries)] /\ \A h \in Heads : s[h] = << >>
  BY <1>1, EmptyIs
<1> HIDE DEF s
<1>3. ASSUME NEW h \in Heads PROVE Ring(lnext, lprev, h, s[h])
  <2>1. lnext[h] = h /\ lprev[h] = h
    BY <1>1, NodesDiffer
  <2>2. ASSUME NEW i \in 0..0
        PROVE  /\ lnext[Cell(h, << >>, i)] = Cell(h, << >>, i + 1)
               /\ lprev[Cell(h, << >>, i + 1)] = Cell(h, << >>, i)
    <3>1. i = 0 /\ i + 1 = 1
      OBVIOUS
    <3> QED
      BY <2>1, <3>1, EmptyIs
  <2>3. Ring(lnext, lprev, h, << >>)
    BY <2>2, EmptyIs DEF Ring
  <2> QED
    BY <1>2, <2>3
<1>4. \A h \in Heads : NoneTwice(s[h]) /\ Elements(s[h]) = {}
  BY <1>2, EmptyIs
<1>5. Shape(lnext, lprev, lstale, s)
  BY <1>1, <1>2, <1>3, <1>4 DEF Shape
<1>6. Off(lnext, lprev, s, NULL)
  <2>1. \A e \in Entries : lnext[e] = NULL /\ lprev[e] = NULL
    BY <1>1, NodesDiffer
  <2> QED
    BY <2>1 DEF Off
<1>7. Good(List!Heap, lstale, s, NULL)
  BY <1>5, <1>6 DEF Good, List!Heap
<1>8. List!Seqs = s
  BY <1>7, ListNow
<1> QED
  BY <1>7, <1>8 DEF ListInv, List!Abs!Init, s

LEMMA ListStep ==
  ASSUME ListInv, List!Next \/ UNCHANGED list
  PROVE  ListInv'
<1>1. CASE UNCHANGED list
  <2>1. List!Heap' = List!Heap /\ List!Seqs' = List!Seqs /\ lstale' = lstale
    BY <1>1 DEF list, List!Heap, List!Seqs
  <2> QED
    BY <2>1 DEF ListInv
<1>2. CASE \E e \in Entries : List!Initialise(e) \/ List!Delete(e) \/ List!DeleteInit(e)
  BY <1>2, ListInitialise, ListDelete
<1>3. CASE \E h \in Heads : List!Reinitialise(h)
  BY <1>3, ListReinitialise
<1>4. CASE \E e \in Entries, h \in List!Usable :
             List!Add(e, h) \/ List!AddTail(e, h) \/ List!Move(e, h) \/ List!MoveTail(e, h)
  BY <1>4, ListAdd, ListMove
<1>5. CASE \E g, h \in List!Usable : List!Splice(g, h) \/ List!SpliceInit(g, h)
  BY <1>5, ListSplice
<1> QED
  BY <1>1, <1>2, <1>3, <1>4, <1>5 DEF List!Next

LEMMA ListCalls ==
  ASSUME ListInv
  PROVE  List!EachCall
<1>1. \A e \in Entries, h \in List!Usable :
        /\ List!Add(e, h) \/ List!Move(e, h) => List!Abs!PutFirst(e, h)
        /\ List!AddTail(e, h) \/ List!MoveTail(e, h) => List!Abs!PutLast(e, h)
  BY ListAdd, ListMove
<1>2. \A e \in Entries :
        /\ List!Delete(e) \/ List!DeleteInit(e) => List!Abs!Delete(e)
        /\ List!Initialise(e) => UNCHANGED List!Seqs
  BY ListDelete, ListInitialise
<1>3. \A g, h \in List!Usable : List!Splice(g, h) \/ List!SpliceInit(g, h) => List!Abs!Splice(g, h)
  BY ListSplice
<1>4. \A h \in Heads : List!Reinitialise(h) => UNCHANGED List!Seqs
  BY ListReinitialise
<1> QED
  BY <1>1, <1>2, <1>3, <1>4 DEF List!EachCall

LEMMA ListPointers ==
  ASSUME ListInv
  PROVE  List!NoStalePointers /\ List!WalksAgree
<1> DEFINE s == List!Seqs
<1> HIDE DEF s
<1>1. Shape(lnext, lprev, lstale, s) /\ Off(lnext, lprev, s, NULL)
  BY DEF ListInv, Good, List!Heap, s
<1>2. \A h \in lstale : Elements(s[h]) = {}
  BY <1>1, EmptyIs DEF Shape
<1>3. ASSUME NEW h \in Heads \ lstale, NEW i \in 0..Len(s[h]) + 1
      PROVE  LET n == Cell(h, s[h], i)
             IN /\ lnext[n] \in Nodes \ lstale /\ lprev[n] \in Nodes \ lstale
  <2>1. /\ Len(s[h]) \in Nat /\ Elements(s[h]) \subseteq Entries
        /\ \A j \in 0..Len(s[h]) + 1 : Cell(h, s[h], j) \in {h} \cup Elements(s[h])
        /\ Cell(h, s[h], 0) = h /\ Cell(h, s[h], Len(s[h]) + 1) = h
    BY <1>1, CellsOf
  <2>2. \A j \in 0..Len(s[h]) + 1 : Cell(h, s[h], j) \in Nodes \ lstale
    BY <1>1, <2>1, NodesDiffer DEF Shape
  <2>3. Ring(lnext, lprev, h, s[h])
    BY <1>1 DEF Shape
  <2>4. PICK j \in 0..Len(s[h]) : Cell(h, s[h], j) = Cell(h, s[h], i)
    <3>1. CASE i = Len(s[h]) + 1
      <4>1. 0 \in 0..Len(s[h])
        BY <2>1
      <4> QED
        BY <2>1, <3>1, <4>1
    <3>2. CASE i # Len(s[h]) + 1
      <4>1. i \in 0..Len(s[h])
        BY <2>1, <3>2
      <4> QED
        BY <4>1
    <3> QED
      BY <3>1, <3>2
  <2>5. PICK k \in 0..Len(s[h]) : Cell(h, s[h], k + 1) = Cell(h, s[h], i)
    <3>1. CASE i = 0
      <4>1. Len(s[h]) \in 0..Len(s[h])
        BY <2>1
      <4> QED
        BY <2>1, <3>1, <4>1
    <3>2. CASE i # 0
      <4>1. i - 1 \in 0..Len(s[h]) /\ (i - 1) + 1 = i
        BY <2>1, <3>2
      <4> QED
        BY <4>1
    <3> QED
      BY <3>1, <3>2
  <2>6. /\ lnext[Cell(h, s[h], j)] = Cell(h, s[h], j + 1)
        /\ lprev[Cell(h, s[h], k + 1)] = Cell(h, s[h], k)
    BY <2>3 DEF Ring
  <2>7. j + 1 \in 0..Len(s[h]) + 1 /\ k \in 0..Len(s[h]) + 1
    BY <2>1
  <2> QED
    BY <2>2, <2>4, <2>5, <2>6, <2>7
<1>4. ASSUME NEW h \in Heads \ lstale, NEW i \in 0..Len(s[h]) + 1
      PROVE  LET n == Cell(h, s[h], i)
             IN \E j, k \in 0..Len(s[h]) + 1 :
                  lnext[n] = Cell(h, s[h], j) /\ lprev[n] = Cell(h, s[h], k)
  <2>1. /\ Len(s[h]) \in Nat /\ Cell(h, s[h], 0) = h /\ Cell(h, s[h], Len(s[h]) + 1) = h
    BY <1>1, CellsOf
  <2>2. \A m \in 0..Len(s[h]) : /\ lnext[Cell(h, s[h], m)] = Cell(h, s[h], m + 1)
                                /\ lprev[Cell(h, s[h], m + 1)] = Cell(h, s[h], m)
    BY <1>1 DEF Shape, Ring
  <2>3. CASE i = Len(s[h]) + 1
    <3>1. 0 \in 0..Len(s[h]) /\ Len(s[h]) \in 0..Len(s[h])
      BY <2>1
    <3>2. lnext[Cell(h, s[h], i)] = Cell(h, s[h], 0 + 1)
      BY <2>1, <2>2, <2>3, <3>1
    <3>3. lprev[Cell(h, s[h], i)] = Cell(h, s[h], Len(s[h]))
      BY <2>2, <2>3, <3>1
    <3>4. 0 + 1 \in 0..Len(s[h]) + 1 /\ Len(s[h]) \in 0..Len(s[h]) + 1
      BY <2>1
    <3> QED
      BY <3>2, <3>3, <3>4
  <2>4. CASE i = 0
    <3>1. 0 \in 0..Len(s[h]) /\ Len(s[h]) \in 0..Len(s[h])
      BY <2>1
    <3>2. lnext[Cell(h, s[h], i)] = Cell(h, s[h], 0 + 1)
      BY <2>2, <2>4, <3>1
    <3>3. lprev[Cell(h, s[h], i)] = Cell(h, s[h], Len(s[h]))
      BY <2>1, <2>2, <2>4, <3>1
    <3>4. 0 + 1 \in 0..Len(s[h]) + 1 /\ Len(s[h]) \in 0..Len(s[h]) + 1
      BY <2>1
    <3> QED
      BY <3>2, <3>3, <3>4
  <2>5. CASE i # 0 /\ i # Len(s[h]) + 1
    <3>1. i \in 0..Len(s[h]) /\ i - 1 \in 0..Len(s[h]) /\ (i - 1) + 1 = i
      BY <2>1, <2>5
    <3>2. lnext[Cell(h, s[h], i)] = Cell(h, s[h], i + 1)
      BY <2>2, <3>1
    <3>3. lprev[Cell(h, s[h], i)] = Cell(h, s[h], i - 1)
      BY <2>2, <3>1
    <3>4. i + 1 \in 0..Len(s[h]) + 1 /\ i - 1 \in 0..Len(s[h]) + 1
      BY <2>1, <3>1
    <3> QED
      BY <3>2, <3>3, <3>4
  <2> QED
    BY <2>3, <2>4, <2>5
<1>5. ASSUME NEW n \in (Entries \cup Heads) \ lstale, lnext[n] # NULL
      PROVE  /\ lnext[n] \in Nodes \ lstale /\ lnext[lnext[n]] # NULL
             /\ lprev[n] \in Nodes \ lstale /\ lprev[lprev[n]] # NULL
  <2>1. CASE \E h \in Heads \ lstale : \E i \in 0..Len(s[h]) + 1 : n = Cell(h, s[h], i)
    <3>1. PICK h \in Heads \ lstale : \E i \in 0..Len(s[h]) + 1 : n = Cell(h, s[h], i)
      BY <2>1
    <3>2. PICK i \in 0..Len(s[h]) + 1 : n = Cell(h, s[h], i)
      BY <3>1
    <3>3. PICK j \in 0..Len(s[h]) + 1, k \in 0..Len(s[h]) + 1 :
            lnext[n] = Cell(h, s[h], j) /\ lprev[n] = Cell(h, s[h], k)
      BY <1>4, <3>2
    <3>4. lnext[n] \in Nodes \ lstale /\ lprev[n] \in Nodes \ lstale
      BY <1>3, <3>2
    <3>5. lnext[lnext[n]] \in Nodes /\ lprev[lprev[n]] \in Nodes
      BY <1>3, <3>3
    <3>6. NULL \notin Nodes
      BY NodesDiffer DEF Nodes
    <3> QED
      BY <3>4, <3>5, <3>6
  <2>2. CASE n \in Heads
    <3>1. 0 \in 0..Len(s[n]) + 1 /\ Cell(n, s[n], 0) = n
      BY <1>1, <2>2, CellsOf
    <3> QED
      BY <2>1, <2>2, <3>1
  <2>3. CASE n \in Entries /\ On(s, n)
    <3>1. PICK h \in Heads : n \in Elements(s[h])
      BY <2>3 DEF On
    <3>2. h \notin lstale
      BY <1>2, <3>1
    <3>3. PICK k \in 1..Len(s[h]) : s[h][k] = n
      BY <3>1 DEF Elements
    <3>4. Cell(h, s[h], k) = n /\ k \in 0..Len(s[h]) + 1
      BY <1>1, <3>3, CellsOf
    <3> QED
      BY <2>1, <3>2, <3>4
  <2>4. CASE n \in Entries /\ ~On(s, n)
    <3>1. n # NULL /\ n \in Nodes
      BY <2>4, NodesDiffer
    <3>2. lnext[n] = n /\ lprev[n] = n
      BY <1>1, <1>5, <2>4, <3>1 DEF Off
    <3> QED
      BY <3>1, <3>2
  <2> QED
    BY <2>2, <2>3, <2>4
<1>6. List!NoStalePointers
  BY <1>5 DEF List!NoStalePointers, List!Loose, List!Nodes, Nodes
<1>7. ASSUME NEW h \in Heads \ lstale
      PROVE  /\ List!Walk(lnext, h) # <<NULL>>
             /\ List!Walk(lprev, h) = List!Reverse(List!Walk(lnext, h))
  <2>1. Ring(lnext, lprev, h, s[h]) /\ s[h] \in Seq(Entries) /\ NoneTwice(s[h])
    BY <1>1 DEF Shape
  <2>2. \A i \in 0..Len(s[h]) : lnext[Cell(h, s[h], i)] = Cell(h, s[h], i + 1)
    BY <2>1 DEF Ring
  <2>3. List!Walk(lnext, h) = s[h]
    BY <2>1, <2>2, WalkIs
  <2> DEFINE r == List!Reverse(s[h])
  <2>4. /\ r \in Seq(Entries) /\ Len(r) = Len(s[h]) /\ NoneTwice(r)
        /\ \A i \in 0..Len(s[h]) : lprev[Cell(h, r, i)] = Cell(h, r, i + 1)
    BY <2>1, NodesDiffer, ReverseIs
  <2> HIDE DEF r
  <2>5. List!Walk(lprev, h) = r
    BY <2>4, WalkIs
  <2>6. s[h] # <<NULL>>
    <3>1. ASSUME s[h] = <<NULL>> PROVE FALSE
      <4>1. Len(s[h]) = 1 /\ s[h][1] = NULL
        BY <3>1
      <4>2. s[h][1] \in Entries
        BY <2>1, <4>1, ElementOfSeq
      <4> QED
        BY <4>1, <4>2, NodesDiffer
    <3> QED
      BY <3>1
  <2> QED
    BY <2>3, <2>5, <2>6 DEF r
<1>8. List!WalksAgree
  BY <1>7 DEF List!WalksAgree, List!Usable
<1> QED
  BY <1>6, <1>8

-----------------------------------------------------------------------------
(***************************************************************************)
(* The loop.  Its list is a list like any other.                           *)
(***************************************************************************)
LEMMA LoopCalls ==
  /\ Loop!Usable = List!Usable
  /\ \A h : Loop!Walk(lnext, h) = List!Walk(lnext, h)
  /\ \A e : /\ Loop!Initialise(e) <=> List!Initialise(e)
            /\ Loop!Delete(e) <=> List!Delete(e)
            /\ Loop!DeleteInit(e) <=> List!DeleteInit(e)
            /\ Loop!Reinitialise(e) <=> List!Reinitialise(e)
  /\ \A e, h : /\ Loop!Add(e, h) <=> List!Add(e, h)
               /\ Loop!AddTail(e, h) <=> List!AddTail(e, h)
               /\ Loop!Move(e, h) <=> List!Move(e, h)
               /\ Loop!MoveTail(e, h) <=> List!MoveTail(e, h)
               /\ Loop!Splice(e, h) <=> List!Splice(e, h)
               /\ Loop!SpliceInit(e, h) <=> List!SpliceInit(e, h)
<1>1. Loop!Usable = List!Usable
  BY DEF Loop!Usable, List!Usable
<1>2. \A h : Loop!Walk(lnext, h) = List!Walk(lnext, h)
  BY DEF Loop!Walk, List!Walk, Loop!Nodes, List!Nodes, Loop!Cardinality, List!Cardinality
<1>3. \A e : Loop!Linked(e) <=> List!Linked(e)
  BY <1>1, <1>2 DEF Loop!Linked, List!Linked, Loop!ToSet, List!ToSet
<1>4. Loop!Heap = List!Heap /\ \A e : Loop!Loose(e) <=> List!Loose(e)
  BY DEF Loop!Heap, List!Heap, Loop!Loose, List!Loose
<1>5. \A h, a, b, c : /\ Loop!LinkBetween(h, a, b, c) = List!LinkBetween(h, a, b, c)
                      /\ Loop!INIT_LIST_HEAD(h, a) = List!INIT_LIST_HEAD(h, a)
                      /\ Loop!Unlink(h, a) = List!Unlink(h, a)
                      /\ Loop!SpliceAfter(h, a, b) = List!SpliceAfter(h, a, b)
                      /\ Loop!list_empty(h, a) <=> List!list_empty(h, a)
                      /\ Loop!Store(h) <=> List!Store(h)
  BY DEF Loop!LinkBetween, List!LinkBetween, Loop!INIT_LIST_HEAD, List!INIT_LIST_HEAD, Loop!Unlink,
     List!Unlink, Loop!UnlinkBetween, List!UnlinkBetween, Loop!SpliceAfter, List!SpliceAfter,
     Loop!list_empty, List!list_empty, Loop!Store, List!Store
<1>6. \A e : /\ Loop!Initialise(e) <=> List!Initialise(e)
             /\ Loop!Reinitialise(e) <=> List!Reinitialise(e)
  BY <1>4, <1>5 DEF Loop!Initialise, List!Initialise, Loop!Reinitialise, List!Reinitialise
<1>7. \A e : Loop!Delete(e) <=> List!Delete(e)
  BY <1>4, <1>5 DEF Loop!Delete, List!Delete, Loop!list_del, List!list_del
<1>8. \A e : Loop!DeleteInit(e) <=> List!DeleteInit(e)
  BY <1>4, <1>5 DEF Loop!DeleteInit, List!DeleteInit, Loop!list_del_init, List!list_del_init
<1>9. \A e, h : /\ Loop!Add(e, h) <=> List!Add(e, h)
                /\ Loop!AddTail(e, h) <=> List!AddTail(e, h)
  BY <1>3, <1>4, <1>5 DEF Loop!Add, List!Add, Loop!AddTail, List!AddTail, Loop!list_add, List!list_add,
     Loop!list_add_tail, List!list_add_tail
<1>10. \A e, h : /\ Loop!Move(e, h) <=> List!Move(e, h)
                 /\ Loop!MoveTail(e, h) <=> List!MoveTail(e, h)
  BY <1>4, <1>5 DEF Loop!Move, List!Move, Loop!MoveTail, List!MoveTail, Loop!list_move, List!list_move,
     Loop!list_move_tail, List!list_move_tail, Loop!list_add, List!list_add,
     Loop!list_add_tail, List!list_add_tail
<1>11. \A e, h : /\ Loop!Splice(e, h) <=> List!Splice(e, h)
                 /\ Loop!SpliceInit(e, h) <=> List!SpliceInit(e, h)
  BY <1>4, <1>5 DEF Loop!Splice, List!Splice, Loop!SpliceInit, List!SpliceInit, Loop!list_splice,
     List!list_splice, Loop!list_splice_init, List!list_splice_init
<1> QED
  BY <1>1, <1>2, <1>6, <1>7, <1>8, <1>9, <1>10, <1>11

-----------------------------------------------------------------------------
(***************************************************************************)
(* What a loop has behind it and what it has ahead: the entries sn it has  *)
(* visited have the first k of those that were there in them, and the rest *)
(* is what it finds from the place j on in the list q, before all others.  *)
(***************************************************************************)
Trail(sn, st, k) ==
  /\ sn \in Seq(Entries) /\ NoneTwice(sn) /\ k \in 0..Len(st)
  /\ \A i \in 1..Len(st) : st[i] \in Elements(sn) <=> i <= k
  /\ \A i, j \in 1..Len(st), x, y \in 1..Len(sn) :
       sn[x] = st[i] /\ sn[y] = st[j] => (i < j <=> x < y)

Ahead(q, j, k, sn, st) ==
  /\ Len(st) - k <= Len(q) + 1 - j
  /\ \A i \in j..Len(q) : /\ q[i] \notin Elements(sn)
                          /\ i + k < j + Len(st) => q[i] = st[i - j + k + 1]
                          /\ i + k >= j + Len(st) => q[i] \notin Elements(st)

LEMMA TrailStarts ==
  ASSUME NEW q \in Seq(Entries), NoneTwice(q)
  PROVE  Trail(<< >>, q, 0) /\ Ahead(q, 1, 0, << >>, q)
<1>1. Len(q) \in Nat
  OBVIOUS
<1>2. \A i \in 1..Len(q) : i - 1 + 0 + 1 = i
  BY <1>1
<1>3. Trail(<< >>, q, 0)
  BY <1>1, EmptyIs DEF Trail
<1>4. \A i \in 1..Len(q) : q[i] = q[i - 1 + 0 + 1] /\ ~(i + 0 >= 1 + Len(q))
  BY <1>1, <1>2
<1> QED
  BY <1>1, <1>3, <1>4, EmptyIs DEF Ahead

LEMMA TrailGrows ==
  ASSUME NEW q \in Seq(Entries), NoneTwice(q), NEW st \in Seq(Entries), NoneTwice(st), NEW sn, NEW k,
         NEW j \in 1..Len(q), Trail(sn, st, k), Ahead(q, j, k, sn, st)
  PROVE  /\ Append(sn, q[j]) \in Seq(Entries)
         /\ \E k2 \in 0..Len(st) : /\ Trail(Append(sn, q[j]), st, k2)
                                   /\ Ahead(q, j + 1, k2, Append(sn, q[j]), st)
<1> DEFINE e == q[j]
           sn2 == Append(sn, e)
           m == Len(sn)
           d == Len(st)
<1>1. /\ sn \in Seq(Entries) /\ m \in Nat /\ d \in Nat /\ Len(q) \in Nat /\ k \in 0..d /\ e \in Entries
      /\ j \in j..Len(q)
  BY LenProperties, ElementOfSeq DEF Trail
<1>2. /\ sn2 \in Seq(Entries) /\ Len(sn2) = m + 1 /\ sn2[m + 1] = e
      /\ \A x \in 1..m : sn2[x] = sn[x]
  BY <1>1, AppendProperties
<1>3. e \notin Elements(sn)
  BY <1>1 DEF Ahead
<1>4. \A i \in j + 1..Len(q) : q[i] # e /\ i \in j..Len(q)
  BY <1>1 DEF NoneTwice
<1> HIDE DEF e
<1> HIDE DEF sn2
<1>5. Elements(sn2) = Elements(sn) \cup {e}
  <2>1. \A x \in 1..m + 1 : x \in 1..m \/ x = m + 1
    BY <1>1
  <2>2. m + 1 \in 1..m + 1 /\ \A x \in 1..m : x \in 1..m + 1
    BY <1>1
  <2>3. ASSUME NEW c \in Elements(sn2) PROVE c \in Elements(sn) \cup {e}
    <3>1. PICK x \in 1..m + 1 : c = sn2[x]
      BY <1>2, <2>3 DEF Elements
    <3> QED
      BY <1>2, <2>1, <3>1 DEF Elements
  <2>4. ASSUME NEW c \in Elements(sn) PROVE c \in Elements(sn2)
    <3>1. PICK x \in 1..m : c = sn[x]
      BY <2>4 DEF Elements
    <3> QED
      BY <1>2, <2>2, <3>1 DEF Elements
  <2>5. e \in Elements(sn2)
    BY <1>2, <2>2 DEF Elements
  <2> QED
    BY <2>3, <2>4, <2>5
<1>6. NoneTwice(sn2)
  <2>1. \A x \in 1..m : sn2[x] # e
    BY <1>2, <1>3 DEF Elements
  <2>2. \A x \in 1..m + 1 : x \in 1..m \/ x = m + 1
    BY <1>1
  <2>3. NoneTwice(sn)
    BY DEF Trail
  <2> QED
    BY <1>2, <2>1, <2>2, <2>3 DEF NoneTwice
<1>7. CASE k < d
  <2>1. e = st[k + 1] /\ k + 1 \in 1..d
    <3>1. j + k < j + d /\ j - j + k + 1 = k + 1 /\ k + 1 \in 1..d
      BY <1>1, <1>7
    <3>2. q[j] = st[j - j + k + 1]
      BY <1>1, <3>1 DEF Ahead
    <3> QED
      BY <3>1, <3>2 DEF e
  <2>2. \A i \in 1..d : st[i] = e <=> i = k + 1
    BY <2>1 DEF NoneTwice
  <2>3. ASSUME NEW i \in 1..d PROVE st[i] \in Elements(sn2) <=> i <= k + 1
    <3>1. st[i] \in Elements(sn) <=> i <= k
      BY DEF Trail
    <3> QED
      BY <1>1, <1>5, <2>2, <3>1
  <2>4. ASSUME NEW i \in 1..d, NEW l \in 1..d, NEW x \in 1..m + 1, NEW y \in 1..m + 1,
               sn2[x] = st[i], sn2[y] = st[l]
        PROVE  i < l <=> x < y
    <3>1. \A z \in 1..m, o \in 1..d : sn2[z] = st[o] => o <= k
      BY <1>2, <2>3 DEF Trail, Elements
    <3>2. \A o \in 1..d : sn2[m + 1] = st[o] => o = k + 1
      BY <1>2, <2>2
    <3>3. CASE x \in 1..m /\ y \in 1..m
      BY <1>2, <2>4, <3>3 DEF Trail
    <3>4. CASE x \in 1..m /\ y = m + 1
      BY <1>1, <2>4, <3>1, <3>2, <3>4
    <3>5. CASE x = m + 1 /\ y \in 1..m
      BY <1>1, <2>4, <3>1, <3>2, <3>5
    <3>6. CASE x = m + 1 /\ y = m + 1
      BY <1>1, <2>4, <3>2, <3>6
    <3> QED
      BY <1>1, <3>3, <3>4, <3>5, <3>6
  <2>5. Trail(sn2, st, k + 1)
    BY <1>1, <1>2, <1>6, <2>1, <2>3, <2>4 DEF Trail
  <2>6. ASSUME NEW i \in j + 1..Len(q)
        PROVE  /\ q[i] \notin Elements(sn2)
               /\ i + (k + 1) < (j + 1) + d => q[i] = st[i - (j + 1) + (k + 1) + 1]
               /\ i + (k + 1) >= (j + 1) + d => q[i] \notin Elements(st)
    <3>1. q[i] \notin Elements(sn) /\ i \in j..Len(q) /\ q[i] # e
      BY <1>4 DEF Ahead
    <3>2. /\ i + k < j + d => q[i] = st[i - j + k + 1]
          /\ i + k >= j + d => q[i] \notin Elements(st)
      BY <3>1 DEF Ahead
    <3>3. i - (j + 1) + (k + 1) + 1 = i - j + k + 1
      BY <1>1
    <3> QED
      BY <1>1, <1>5, <3>1, <3>2, <3>3
  <2>7. d - (k + 1) <= Len(q) + 1 - (j + 1)
    BY <1>1 DEF Ahead
  <2>8. Ahead(q, j + 1, k + 1, sn2, st)
    BY <2>6, <2>7 DEF Ahead
  <2> QED
    BY <1>1, <1>2, <1>7, <2>1, <2>5, <2>8 DEF sn2, e
<1>8. CASE k = d
  <2>1. e \notin Elements(st)
    <3>1. j + k >= j + d
      BY <1>1, <1>8
    <3> QED
      BY <1>1, <3>1 DEF Ahead, e
  <2>2. \A i \in 1..d : st[i] # e
    BY <2>1 DEF Elements
  <2>3. ASSUME NEW i \in 1..d PROVE st[i] \in Elements(sn2) <=> i <= k
    BY <1>5, <2>2 DEF Trail
  <2>4. ASSUME NEW i \in 1..d, NEW l \in 1..d, NEW x \in 1..m + 1, NEW y \in 1..m + 1,
               sn2[x] = st[i], sn2[y] = st[l]
        PROVE  i < l <=> x < y
    <3>1. x \in 1..m /\ y \in 1..m
      BY <1>1, <1>2, <2>2, <2>4
    <3> QED
      BY <1>2, <2>4, <3>1 DEF Trail
  <2>5. Trail(sn2, st, k)
    BY <1>1, <1>2, <1>6, <2>3, <2>4 DEF Trail
  <2>6. ASSUME NEW i \in j + 1..Len(q)
        PROVE  /\ q[i] \notin Elements(sn2) /\ q[i] \notin Elements(st)
               /\ ~(i + k < (j + 1) + d)
    <3>1. q[i] \notin Elements(sn) /\ i \in j..Len(q) /\ q[i] # e
      BY <1>4 DEF Ahead
    <3>2. i + k >= j + d /\ ~(i + k < (j + 1) + d)
      BY <1>1, <1>8
    <3>3. q[i] \notin Elements(st)
      BY <3>1, <3>2 DEF Ahead
    <3> QED
      BY <1>5, <3>1, <3>2, <3>3
  <2>7. d - k <= Len(q) + 1 - (j + 1)
    BY <1>1, <1>8
  <2>8. Ahead(q, j + 1, k, sn2, st)
    BY <2>6, <2>7 DEF Ahead
  <2> QED
    BY <1>1, <1>2, <2>5, <2>8 DEF sn2, e
<1> QED
  BY <1>1, <1>7, <1>8

\* The entry that was visited is taken out of the list.
LEMMA AheadOfGone ==
  ASSUME NEW q \in Seq(Entries), NEW q2 \in Seq(Entries), NEW j \in 1..Len(q), Shorter(q, j, q2),
         NEW h \in Heads, NEW sn, NEW st \in Seq(Entries), NEW k \in 0..Len(st), Ahead(q, j + 1, k, sn, st)
  PROVE  Ahead(q2, j, k, sn, st) /\ j \in 1..Len(q2) + 1 /\ Cell(h, q2, j) = Cell(h, q, j + 1)
<1>1. Len(q) \in Nat /\ Len(st) \in Nat /\ Len(q2) = Len(q) - 1
  BY DEF Shorter
<1>2. \A i \in j..Len(q2) : q2[i] = q[i + 1]
  BY <1>1 DEF Shorter
<1>3. ASSUME NEW i \in j..Len(q2)
      PROVE  /\ q2[i] \notin Elements(sn)
             /\ i + k < j + Len(st) => q2[i] = st[i - j + k + 1]
             /\ i + k >= j + Len(st) => q2[i] \notin Elements(st)
  <2>1. i + 1 \in j + 1..Len(q) /\ (i + 1) - (j + 1) + k + 1 = i - j + k + 1
    BY <1>1
  <2>2. /\ q[i + 1] \notin Elements(sn)
        /\ (i + 1) + k < (j + 1) + Len(st) => q[i + 1] = st[(i + 1) - (j + 1) + k + 1]
        /\ (i + 1) + k >= (j + 1) + Len(st) => q[i + 1] \notin Elements(st)
    BY <2>1 DEF Ahead
  <2> QED
    BY <1>1, <1>2, <2>1, <2>2
<1>4. Len(st) - k <= Len(q2) + 1 - j
  BY <1>1 DEF Ahead
<1>5. Ahead(q2, j, k, sn, st)
  BY <1>3, <1>4 DEF Ahead
<1>6. j \in 1..Len(q2) => j + 1 \in 1..Len(q)
  BY <1>1
<1>7. j \notin 1..Len(q2) => j + 1 \notin 1..Len(q)
  BY <1>1
<1>8. Cell(h, q2, j) = Cell(h, q, j + 1)
  BY <1>1, <1>2, <1>6, <1>7 DEF Cell
<1>9. j \in 1..Len(q2) + 1
  BY <1>1
<1> QED
  BY <1>5, <1>8, <1>9

\* An entry that was not met is added at either end.
LEMMA AheadOfFront ==
  ASSUME NEW q \in Seq(Entries), NEW q2 \in Seq(Entries), NEW e, Longer(q, 0, e, q2),
         NEW j \in 1..Len(q) + 1, NEW h \in Heads, NEW sn, NEW st \in Seq(Entries),
         NEW k \in 0..Len(st), Ahead(q, j, k, sn, st)
  PROVE  Ahead(q2, j + 1, k, sn, st) /\ j + 1 \in 1..Len(q2) + 1 /\ Cell(h, q2, j + 1) = Cell(h, q, j)
<1>1. Len(q) \in Nat /\ Len(st) \in Nat /\ Len(q2) = Len(q) + 1
  BY DEF Longer
<1>2. \A i \in 2..Len(q2) : q2[i] = q[i - 1]
  BY <1>1 DEF Longer
<1>3. ASSUME NEW i \in j + 1..Len(q2)
      PROVE  /\ q2[i] \notin Elements(sn)
             /\ i + k < (j + 1) + Len(st) => q2[i] = st[i - (j + 1) + k + 1]
             /\ i + k >= (j + 1) + Len(st) => q2[i] \notin Elements(st)
  <2>1. i - 1 \in j..Len(q) /\ i - (j + 1) + k + 1 = (i - 1) - j + k + 1 /\ i \in 2..Len(q2)
    BY <1>1
  <2>2. /\ q[i - 1] \notin Elements(sn)
        /\ (i - 1) + k < j + Len(st) => q[i - 1] = st[(i - 1) - j + k + 1]
        /\ (i - 1) + k >= j + Len(st) => q[i - 1] \notin Elements(st)
    BY <2>1 DEF Ahead
  <2> QED
    BY <1>1, <1>2, <2>1, <2>2
<1>4. Len(st) - k <= Len(q2) + 1 - (j + 1)
  BY <1>1 DEF Ahead
<1>5. Ahead(q2, j + 1, k, sn, st)
  BY <1>3, <1>4 DEF Ahead
<1>6. Cell(h, q2, j + 1) = Cell(h, q, j)
  <2>1. CASE j \in 1..Len(q)
    <3>1. j + 1 \in 1..Len(q2) /\ j + 1 \in 2..Len(q2) /\ (j + 1) - 1 = j
      BY <1>1, <2>1
    <3>2. q2[j + 1] = q[(j + 1) - 1]
      BY <1>2, <3>1
    <3> QED
      BY <2>1, <3>1, <3>2 DEF Cell
  <2>2. CASE j = Len(q) + 1
    <3>1. j \notin 1..Len(q) /\ j + 1 \notin 1..Len(q2)
      BY <1>1, <2>2
    <3> QED
      BY <3>1 DEF Cell
  <2> QED
    BY <1>1, <2>1, <2>2
<1>7. j + 1 \in 1..Len(q2) + 1
  BY <1>1
<1> QED
  BY <1>5, <1>6, <1>7

LEMMA AheadOfBack ==
  ASSUME NEW q \in Seq(Entries), NEW q2 \in Seq(Entries), NEW e, Longer(q, Len(q), e, q2),
         NEW j \in 1..Len(q) + 1, NEW h \in Heads, NEW sn, NEW st \in Seq(Entries),
         NEW k \in 0..Len(st), Ahead(q, j, k, sn, st), e \notin Elements(sn), e \notin Elements(st)
  PROVE  \E j2 \in 1..Len(q2) + 1 : Ahead(q2, j2, k, sn, st) /\ Cell(h, q2, j2) = Cell(h, q, j)
<1>1. Len(q) \in Nat /\ Len(st) \in Nat /\ Len(q2) = Len(q) + 1
  BY DEF Longer
<1>2. q2[Len(q) + 1] = e /\ \A i \in 1..Len(q) : q2[i] = q[i]
  BY <1>1 DEF Longer
<1>3. Len(st) - k <= Len(q) + 1 - j
  BY DEF Ahead
<1>4. CASE j \in 1..Len(q)
  <2>1. ASSUME NEW i \in j..Len(q2)
        PROVE  /\ q2[i] \notin Elements(sn)
               /\ i + k < j + Len(st) => q2[i] = st[i - j + k + 1]
               /\ i + k >= j + Len(st) => q2[i] \notin Elements(st)
    <3>1. CASE i = Len(q) + 1
      <4>1. ~(i + k < j + Len(st))
        BY <1>1, <1>3, <3>1
      <4> QED
        BY <1>2, <3>1, <4>1
    <3>2. CASE i \in j..Len(q)
      <4>1. i \in 1..Len(q)
        BY <1>1, <3>2
      <4> QED
        BY <1>2, <3>2, <4>1 DEF Ahead
    <3> QED
      BY <1>1, <3>1, <3>2
  <2>2. Len(st) - k <= Len(q2) + 1 - j
    BY <1>1, <1>3
  <2>3. Ahead(q2, j, k, sn, st)
    BY <2>1, <2>2 DEF Ahead
  <2>4. j \in 1..Len(q2) /\ j \in 1..Len(q2) + 1
    BY <1>1, <1>4
  <2>5. Cell(h, q2, j) = Cell(h, q, j)
    BY <1>2, <1>4, <2>4 DEF Cell
  <2> QED
    BY <2>3, <2>4, <2>5
<1>5. CASE j = Len(q) + 1
  <2> DEFINE j2 == Len(q2) + 1
  <2>1. j2 \in 1..Len(q2) + 1 /\ j2 \notin 1..Len(q2) /\ j \notin 1..Len(q) /\ j2..Len(q2) = {}
    BY <1>1, <1>5
  <2>2. Len(st) - k <= Len(q2) + 1 - j2
    BY <1>1, <1>3, <1>5
  <2> HIDE DEF j2
  <2>3. Ahead(q2, j2, k, sn, st)
    BY <2>1, <2>2 DEF Ahead
  <2>4. Cell(h, q2, j2) = Cell(h, q, j)
    BY <2>1 DEF Cell
  <2> QED
    BY <2>1, <2>3, <2>4
<1> QED
  BY <1>1, <1>4, <1>5

\* Nothing is ahead: the whole of the list has been visited.
LEMMA NoneAhead ==
  ASSUME NEW q \in Seq(Entries), NEW sn, NEW st \in Seq(Entries), NEW k \in 0..Len(st),
         Ahead(q, Len(q) + 1, k, sn, st)
  PROVE  k = Len(st)
<1>1. Len(q) \in Nat /\ Len(st) \in Nat /\ Len(st) - k <= Len(q) + 1 - (Len(q) + 1)
  BY DEF Ahead
<1> QED
  BY <1>1

-----------------------------------------------------------------------------
(***************************************************************************)
(* The invariant of the loop, on the list q it runs over.                  *)
(***************************************************************************)
\* In the body: it is at the entry p, and has read the one behind it, m.
AtBody(h, q, p, m, sn, st) ==
  \E j \in 1..Len(q), k \in 0..Len(st) :
    p = q[j] /\ m = Cell(h, q, j + 1) /\ Trail(sn, st, k) /\ Ahead(q, j, k, sn, st)

\* After the body: what is ahead starts at m.
AtStep(h, q, m, sn, st) ==
  \E j \in 1..Len(q) + 1, k \in 0..Len(st) :
    m = Cell(h, q, j) /\ Trail(sn, st, k) /\ Ahead(q, j, k, sn, st)

LoopInv ==
  /\ wpc \in {"out", "body", "step"}
  /\ part # "loop" => wpc = "out"
  /\ wstart \in Seq(Entries) /\ NoneTwice(wstart)
  /\ wpc = "out" => Trail(wseen, wstart, Len(wstart))
  /\ wpc # "out" => whead \in Heads \ lstale /\ wpos \in Entries
  /\ wpc = "body" => AtBody(whead, List!Seqs[whead], wpos, wn, wseen, wstart)
  /\ wpc = "step" => AtStep(whead, List!Seqs[whead], wn, wseen, wstart)

LEMMA LoopStart ==
  ASSUME Loop!WalkInit
  PROVE  LoopInv
<1>1. wpc = "out" /\ wseen = << >> /\ wstart = << >>
  BY DEF Loop!WalkInit
<1>2. Trail(<< >>, << >>, 0)
  BY EmptyIs, TrailStarts
<1> QED
  BY <1>1, <1>2, EmptyIs DEF LoopInv

\* The pointers of a list that is walked.
LEMMA OnTheWay ==
  ASSUME ListInv, NEW h \in Heads \ lstale
  PROVE  LET q == List!Seqs[h]
         IN /\ q \in Seq(Entries) /\ NoneTwice(q) /\ Len(q) \in Nat
            /\ List!Walk(lnext, h) = q
            /\ \A i \in 0..Len(q) : lnext[Cell(h, q, i)] = Cell(h, q, i + 1)
            /\ Cell(h, q, 0) = h /\ Cell(h, q, Len(q) + 1) = h
            /\ \A i \in 1..Len(q) : Cell(h, q, i) = q[i] /\ q[i] \in Entries /\ q[i] # h
            /\ lnext[h] = h <=> q = << >>
<1> DEFINE s == List!Seqs
<1>1. List!Walk(lnext, h) = s[h]
  BY DEF List!Seqs
<1> HIDE DEF s
<1>2. Shape(lnext, lprev, lstale, s)
  BY DEF ListInv, Good, List!Heap, s
<1>3. Ring(lnext, lprev, h, s[h])
  BY <1>2 DEF Shape
<1>4. h \notin Entries
  BY NodesDiffer
<1> QED
  BY <1>1, <1>2, <1>3, <1>4, CellsOf, EmptyTells DEF Ring, s

LEMMA LoopBegin ==
  ASSUME ListInv, LoopInv, part = "loop", part' = part, NEW h \in Heads, Loop!Begin(h)
  PROVE  LoopInv'
<1> DEFINE q == List!Seqs[h]
<1>1. /\ h \in Heads \ lstale /\ whead' = h /\ wpos' = lnext[h] /\ wn' = lnext[lnext[h]]
      /\ wpc' = IF lnext[h] = h THEN "out" ELSE "body"
      /\ wseen' = << >> /\ wstart' = Loop!Walk(lnext, h)
      /\ lnext' = lnext /\ lprev' = lprev /\ lstale' = lstale
  BY DEF Loop!Begin, Loop!Usable, Loop!vars
<1>2. List!Seqs' = List!Seqs
  BY <1>1 DEF List!Seqs
<1>3. List!Seqs'[whead'] = q
  BY <1>1, <1>2
<1> HIDE DEF q
<1>4. /\ q \in Seq(Entries) /\ NoneTwice(q) /\ Len(q) \in Nat /\ List!Walk(lnext, h) = q
      /\ \A i \in 0..Len(q) : lnext[Cell(h, q, i)] = Cell(h, q, i + 1)
      /\ Cell(h, q, 0) = h
      /\ \A i \in 1..Len(q) : Cell(h, q, i) = q[i] /\ q[i] \in Entries
      /\ lnext[h] = h <=> q = << >>
  BY <1>1, OnTheWay DEF q
<1>5. wstart' = q
  BY <1>1, <1>4, LoopCalls
<1>6. Trail(<< >>, q, 0) /\ Ahead(q, 1, 0, << >>, q)
  BY <1>4, TrailStarts
<1>7. CASE q = << >>
  <2>1. wpc' = "out" /\ Len(wstart') = 0
    BY <1>1, <1>4, <1>5, <1>7
  <2> QED
    BY <1>1, <1>4, <1>5, <1>6, <2>1 DEF LoopInv
<1>8. CASE q # << >>
  <2>1. 1 \in 1..Len(q) /\ 0 \in 0..Len(q) /\ 1 \in 0..Len(q)
    BY <1>4, <1>8, EmptySeq
  <2>2. lnext[h] = q[1]
    <3>1. lnext[Cell(h, q, 0)] = Cell(h, q, 0 + 1)
      BY <1>4, <2>1
    <3>2. 0 + 1 = 1
      OBVIOUS
    <3> QED
      BY <1>4, <2>1, <3>1, <3>2
  <2>3. lnext[q[1]] = Cell(h, q, 1 + 1)
    BY <1>4, <2>1
  <2>4. wpc' = "body" /\ wpos' = q[1] /\ wn' = Cell(h, q, 1 + 1)
    BY <1>1, <1>4, <1>8, <2>2, <2>3
  <2>5. 0 \in 0..Len(q)
    BY <1>4
  <2>6. AtBody(h, q, wpos', wn', << >>, q)
    BY <1>6, <2>1, <2>4, <2>5 DEF AtBody
  <2>7. AtBody(whead', List!Seqs'[whead'], wpos', wn', wseen', wstart')
    BY <1>1, <1>3, <1>5, <2>6
  <2>8. wpos' \in Entries
    BY <1>4, <2>1, <2>4
  <2> QED
    BY <1>1, <1>4, <1>5, <2>4, <2>7, <2>8 DEF LoopInv
<1> QED
  BY <1>7, <1>8

LEMMA LoopAdvance ==
  ASSUME ListInv, LoopInv, part = "loop", part' = part, Loop!Advance
  PROVE  LoopInv'
<1> DEFINE q == List!Seqs[whead]
<1>1. /\ wpc = "step" /\ wpos' = wn /\ wn' = lnext[wn] /\ wpc' = IF wn = whead THEN "out" ELSE "body"
      /\ lnext' = lnext /\ lprev' = lprev /\ lstale' = lstale
      /\ whead' = whead /\ wseen' = wseen /\ wstart' = wstart
  BY DEF Loop!Advance, Loop!vars
<1>2. List!Seqs' = List!Seqs
  BY <1>1 DEF List!Seqs
<1>3. List!Seqs'[whead'] = q
  BY <1>1, <1>2
<1>4. /\ whead \in Heads \ lstale /\ wstart \in Seq(Entries) /\ NoneTwice(wstart)
      /\ AtStep(whead, q, wn, wseen, wstart)
  BY <1>1 DEF LoopInv
<1> HIDE DEF q
<1>5. /\ q \in Seq(Entries) /\ Len(q) \in Nat
      /\ \A i \in 0..Len(q) : lnext[Cell(whead, q, i)] = Cell(whead, q, i + 1)
      /\ Cell(whead, q, Len(q) + 1) = whead
      /\ \A i \in 1..Len(q) : Cell(whead, q, i) = q[i] /\ q[i] \in Entries /\ q[i] # whead
  BY <1>4, OnTheWay DEF q
<1>6. PICK j \in 1..Len(q) + 1, k \in 0..Len(wstart) :
        wn = Cell(whead, q, j) /\ Trail(wseen, wstart, k) /\ Ahead(q, j, k, wseen, wstart)
  BY <1>4 DEF AtStep
<1>7. CASE j = Len(q) + 1
  <2>1. wpc' = "out"
    BY <1>1, <1>5, <1>6, <1>7
  <2>2. k = Len(wstart)
    BY <1>4, <1>5, <1>6, <1>7, NoneAhead
  <2> QED
    BY <1>1, <1>4, <1>6, <2>1, <2>2 DEF LoopInv
<1>8. CASE j \in 1..Len(q)
  <2>1. wpc' = "body" /\ wpos' = q[j]
    BY <1>1, <1>5, <1>6, <1>8
  <2>2. wn' = Cell(whead, q, j + 1)
    BY <1>1, <1>5, <1>6, <1>8
  <2>3. AtBody(whead, q, wpos', wn', wseen, wstart)
    BY <1>6, <1>8, <2>1, <2>2 DEF AtBody
  <2>4. AtBody(whead', List!Seqs'[whead'], wpos', wn', wseen', wstart')
    BY <1>1, <1>3, <2>3
  <2>5. wpos' \in Entries
    BY <1>5, <1>8, <2>1
  <2> QED
    BY <1>1, <1>4, <2>1, <2>4, <2>5 DEF LoopInv
<1> QED
  BY <1>5, <1>7, <1>8

LEMMA LoopAdds ==
  ASSUME ListInv, LoopInv, part = "loop", part' = part, NEW e \in Entries, Loop!BodyAdds(e)
  PROVE  ListInv' /\ LoopInv'
<1> DEFINE s == List!Seqs
           q == s[whead]
           q2 == s'[whead]
<1>1. /\ wpc = "step" /\ e \notin Loop!ToSet(wstart) /\ e \notin Loop!ToSet(wseen)
      /\ Loop!Add(e, whead) \/ Loop!AddTail(e, whead)
      /\ wpc' = wpc /\ whead' = whead /\ wpos' = wpos /\ wn' = wn /\ wseen' = wseen /\ wstart' = wstart
  BY DEF Loop!BodyAdds, Loop!loop
<1>2. /\ whead \in Heads \ lstale /\ wpos \in Entries
      /\ wstart \in Seq(Entries) /\ NoneTwice(wstart)
      /\ AtStep(whead, q, wn, wseen, wstart)
  BY <1>1 DEF LoopInv
<1>3. List!Add(e, whead) \/ List!AddTail(e, whead)
  BY <1>1, LoopCalls
<1>4. whead \in List!Usable /\ s \in [Heads -> Seq(Entries)]
  BY <1>2, ListFacts
<1>5. ~On(s, e) /\ lstale' = lstale
  <2>1. List!Linked(e) <=> On(s, e)
    BY ListLinked
  <2> QED
    BY <1>3, <2>1 DEF List!Add, List!AddTail
<1>6. List!Abs!Removed(e) = s
  BY <1>5, ListFacts
<1>7. /\ List!Add(e, whead) => ListInv' /\ List!Abs!PutFirst(e, whead)
      /\ List!AddTail(e, whead) => ListInv' /\ List!Abs!PutLast(e, whead)
  BY <1>4, ListAdd
<1>8. ListInv' /\ (q2 = <<e>> \o q \/ q2 = Append(q, e))
  <2>1. CASE List!Add(e, whead)
    <3>1. s' = [s EXCEPT ![whead] = <<e>> \o @]
      BY <1>6, <1>7, <2>1 DEF List!Abs!PutFirst
    <3> QED
      BY <1>2, <1>4, <1>7, <2>1, <3>1
  <2>2. CASE List!AddTail(e, whead)
    <3>1. s' = [s EXCEPT ![whead] = Append(@, e)]
      BY <1>6, <1>7, <2>2 DEF List!Abs!PutLast
    <3> QED
      BY <1>2, <1>4, <1>7, <2>2, <3>1
  <2> QED
    BY <1>3, <2>1, <2>2
<1>9. q \in Seq(Entries) /\ Len(q) \in Nat
  BY <1>2, OnTheWay
<1>10. List!Seqs'[whead'] = q2
  BY <1>1
<1> HIDE DEF q, q2, s
<1>11. PICK j \in 1..Len(q) + 1, k \in 0..Len(wstart) :
         wn = Cell(whead, q, j) /\ Trail(wseen, wstart, k) /\ Ahead(q, j, k, wseen, wstart)
  BY <1>2 DEF AtStep
<1>12. e \notin Elements(wseen) /\ e \notin Elements(wstart)
  <2>1. wseen \in Seq(Entries)
    BY <1>11 DEF Trail
  <2> QED
    BY <1>1, <1>2, <2>1, LenProperties DEF Loop!ToSet, Elements
<1>13. \E j2 \in 1..Len(q2) + 1 : Ahead(q2, j2, k, wseen, wstart) /\ Cell(whead, q2, j2) = Cell(whead, q, j)
  <2>1. CASE q2 = <<e>> \o q
    <3>1. q2 \in Seq(Entries) /\ Longer(q, 0, e, q2)
      BY <1>9, <2>1, PushIs
    <3> QED
      BY <1>2, <1>9, <1>11, <3>1, AheadOfFront
  <2>2. CASE q2 = Append(q, e)
    <3>1. q2 \in Seq(Entries) /\ Longer(q, Len(q), e, q2)
      BY <1>9, <2>2, PushIs
    <3> QED
      BY <1>2, <1>9, <1>11, <1>12, <3>1, AheadOfBack
  <2> QED
    BY <1>8, <2>1, <2>2
<1>14. AtStep(whead, q2, wn, wseen, wstart)
  BY <1>11, <1>13 DEF AtStep
<1>15. AtStep(whead', List!Seqs'[whead'], wn', wseen', wstart')
  BY <1>1, <1>10, <1>14
<1> QED
  BY <1>1, <1>2, <1>5, <1>8, <1>15 DEF LoopInv

\* There are no more visits than entries.
LEMMA VisitsBounded ==
  ASSUME NEW sn \in Seq(Entries), NoneTwice(sn)
  PROVE  ~(Len(sn) > Loop!MaxSeen)
<1>1. IsFiniteSet(Entries)
  <2>1. IsFiniteSet(Heads \cup Entries)
    BY ContainersAssumption DEF List!ListAssumption, List!IsFiniteSet, IsFiniteSet
  <2> QED
    BY <2>1, FS_Subset
<1>2. Len(sn) \in Nat /\ sn \in [1..Len(sn) -> Entries]
  BY LenProperties
<1>3. sn \in Injection(1..Len(sn), Entries)
  BY <1>2 DEF Injection, IsInjective, NoneTwice
<1>4. Cardinality(1..Len(sn)) <= Cardinality(Entries)
  BY <1>1, <1>3, FS_Injection
<1>5. Cardinality(1..Len(sn)) = Len(sn) /\ Cardinality(Entries) \in Nat
  <2>1. Cardinality(1..Len(sn)) = IF 1 > Len(sn) THEN 0 ELSE Len(sn) - 1 + 1
    BY <1>2, FS_Interval
  <2>2. Cardinality(Entries) \in Nat
    BY <1>1, FS_CardinalityType
  <2> QED
    BY <1>2, <2>1, <2>2
<1>6. Loop!MaxSeen = Cardinality(Entries)
  BY DEF Loop!MaxSeen, Loop!Cardinality, Cardinality
<1> QED
  BY <1>2, <1>4, <1>5, <1>6

\* What the body may do to the list: the rest of it stays.
LEMMA BodyCalls ==
  ASSUME ListInv, NEW h \in Heads \ lstale, NEW e \in Entries,
         \/ UNCHANGED list
         \/ List!Delete(e) \/ List!DeleteInit(e)
         \/ \E other \in List!Usable \ {h} : List!Move(e, other) \/ List!MoveTail(e, other)
  PROVE  /\ ListInv' /\ lstale' = lstale
         /\ List!Seqs'[h] \in {List!Seqs[h], List!Abs!Without(List!Seqs[h], e)}
<1> DEFINE s == List!Seqs
<1>1. /\ s \in [Heads -> Seq(Entries)] /\ List!Usable = Heads \ lstale
      /\ List!Abs!Removed(e) = Out(s, e)
  BY ListFacts
<1>2. Out(s, e)[h] = List!Abs!Without(s[h], e)
  BY DEF Out
<1> HIDE DEF s
<1>3. CASE UNCHANGED list
  <2>1. ListInv'
    BY <1>3, ListStep
  <2>2. s' = s /\ lstale' = lstale
    BY <1>3 DEF list, List!Seqs, s
  <2> QED
    BY <2>1, <2>2 DEF s
<1>4. CASE List!Delete(e) \/ List!DeleteInit(e)
  <2>1. ListInv' /\ List!Abs!Delete(e)
    BY <1>4, ListDelete
  <2>2. lstale' = lstale
    BY <1>4 DEF List!Delete, List!DeleteInit
  <2>3. s' = Out(s, e)
    BY <1>1, <2>1 DEF List!Abs!Delete, s
  <2> QED
    BY <1>2, <2>1, <2>2, <2>3 DEF s
<1>5. CASE \E other \in List!Usable \ {h} : List!Move(e, other) \/ List!MoveTail(e, other)
  <2>1. PICK other \in List!Usable \ {h} : List!Move(e, other) \/ List!MoveTail(e, other)
    BY <1>5
  <2>2. lstale' = lstale
    BY <2>1 DEF List!Move, List!MoveTail
  <2>3. ListInv' /\ (List!Abs!PutFirst(e, other) \/ List!Abs!PutLast(e, other))
    BY <2>1, ListMove
  <2>4. PICK x : s' = [Out(s, e) EXCEPT ![other] = x]
    BY <1>1, <2>3 DEF List!Abs!PutFirst, List!Abs!PutLast, s
  <2>5. [Out(s, e) EXCEPT ![other] = x][h] = Out(s, e)[h]
    BY <2>1 DEF Out
  <2>6. s'[h] = Out(s, e)[h]
    BY <2>4, <2>5
  <2> QED
    BY <1>2, <2>2, <2>3, <2>6 DEF s
<1> QED
  BY <1>3, <1>4, <1>5

LEMMA LoopBody ==
  ASSUME ListInv, LoopInv, part = "loop", part' = part, Loop!Body
  PROVE  ListInv' /\ LoopInv'
<1> DEFINE q == List!Seqs[whead]
           q2 == List!Seqs'[whead]
           sn2 == Append(wseen, wpos)
<1>1. /\ wpc = "body" /\ wpc' = "step"
      /\ wseen' = IF Len(wseen) > Loop!MaxSeen THEN wseen ELSE sn2
      /\ whead' = whead /\ wpos' = wpos /\ wn' = wn /\ wstart' = wstart
      /\ \/ UNCHANGED list
         \/ Loop!Delete(wpos) \/ Loop!DeleteInit(wpos)
         \/ \E other \in Loop!Usable \ {whead} : Loop!Move(wpos, other) \/ Loop!MoveTail(wpos, other)
  BY DEF Loop!Body, Loop!vars, list
<1>2. /\ whead \in Heads \ lstale /\ wpos \in Entries
      /\ wstart \in Seq(Entries) /\ NoneTwice(wstart)
      /\ AtBody(whead, q, wpos, wn, wseen, wstart)
  BY <1>1 DEF LoopInv
<1>3. /\ q \in Seq(Entries) /\ NoneTwice(q) /\ Len(q) \in Nat
      /\ \A i \in 1..Len(q) : q[i] \in Entries
  BY <1>2, OnTheWay
<1>4. List!Seqs'[whead'] = q2
  BY <1>1
<1>5. \/ UNCHANGED list
      \/ List!Delete(wpos) \/ List!DeleteInit(wpos)
      \/ \E other \in List!Usable \ {whead} : List!Move(wpos, other) \/ List!MoveTail(wpos, other)
  BY <1>1, LoopCalls
<1> HIDE DEF q, q2
<1>6. PICK j \in 1..Len(q), k \in 0..Len(wstart) :
        wpos = q[j] /\ wn = Cell(whead, q, j + 1) /\ Trail(wseen, wstart, k) /\ Ahead(q, j, k, wseen, wstart)
  BY <1>2 DEF AtBody
<1>7. ListInv' /\ lstale' = lstale /\ q2 \in {q, List!Abs!Without(q, wpos)}
  BY <1>2, <1>3, <1>5, <1>6, BodyCalls DEF q, q2
<1>8. wseen' = sn2
  <2>1. wseen \in Seq(Entries) /\ NoneTwice(wseen)
    BY <1>6 DEF Trail
  <2> QED
    BY <1>1, <2>1, VisitsBounded
<1>9. PICK k2 \in 0..Len(wstart) : Trail(sn2, wstart, k2) /\ Ahead(q, j + 1, k2, sn2, wstart)
  BY <1>2, <1>3, <1>6, TrailGrows
<1> HIDE DEF sn2
<1>10. \E j2 \in 1..Len(q2) + 1 : Ahead(q2, j2, k2, sn2, wstart) /\ Cell(whead, q2, j2) = wn
  <2>1. CASE q2 = q
    <3>1. j + 1 \in 1..Len(q2) + 1
      BY <1>3, <2>1
    <3> QED
      BY <1>6, <1>9, <2>1, <3>1
  <2>2. CASE q2 = List!Abs!Without(q, wpos)
    <3>1. q2 \in Seq(Entries) /\ Shorter(q, j, q2)
      BY <1>3, <1>6, <2>2, WithoutIs
    <3> QED
      BY <1>2, <1>3, <1>6, <1>9, <3>1, AheadOfGone
  <2> QED
    BY <1>7, <2>1, <2>2
<1>11. AtStep(whead, q2, wn, sn2, wstart)
  BY <1>9, <1>10 DEF AtStep
<1>12. AtStep(whead', List!Seqs'[whead'], wn', wseen', wstart')
  BY <1>1, <1>4, <1>8, <1>11
<1> QED
  BY <1>1, <1>2, <1>7, <1>12 DEF LoopInv

LEMMA LoopStep ==
  ASSUME ListInv, LoopInv, PartNext
  PROVE  ListInv' /\ LoopInv'
<1>1. part' = part
  BY DEF PartNext
<1>2. CASE part # "loop"
  <2>1. (List!Next \/ UNCHANGED list) /\ UNCHANGED loop
    BY <1>2 DEF PartNext
  <2>2. ListInv'
    BY <2>1, ListStep
  <2>3. wpc = "out" /\ wpc' = wpc /\ wseen' = wseen /\ wstart' = wstart
    BY <1>2, <2>1 DEF LoopInv, loop
  <2> QED
    BY <1>1, <2>2, <2>3 DEF LoopInv
<1>3. CASE part = "loop"
  <2>1. Loop!WalkNext
    BY <1>3 DEF PartNext
  <2>2. CASE wpc = "out" /\ Loop!Next /\ UNCHANGED Loop!loop
    <3>1. List!Next
      BY <2>2, LoopCalls DEF Loop!Next, List!Next
    <3>2. ListInv'
      BY <3>1, ListStep
    <3>3. wpc' = "out" /\ wseen' = wseen /\ wstart' = wstart
      BY <2>2 DEF Loop!loop
    <3> QED
      BY <1>1, <1>3, <2>2, <3>2, <3>3 DEF LoopInv
  <2>3. CASE \E h \in Heads : Loop!Begin(h)
    <3>1. PICK h \in Heads : Loop!Begin(h)
      BY <2>3
    <3>2. UNCHANGED list
      BY <3>1 DEF Loop!Begin, Loop!vars, list
    <3> QED
      BY <1>1, <1>3, <3>1, <3>2, LoopBegin, ListStep
  <2>4. CASE Loop!Body
    BY <1>1, <1>3, <2>4, LoopBody
  <2>5. CASE Loop!Advance
    <3>1. UNCHANGED list
      BY <2>5 DEF Loop!Advance, Loop!vars, list
    <3> QED
      BY <1>1, <1>3, <2>5, <3>1, LoopAdvance, ListStep
  <2>6. CASE \E e \in Entries : Loop!BodyAdds(e)
    BY <1>1, <1>3, <2>6, LoopAdds
  <2> QED
    BY <2>1, <2>2, <2>3, <2>4, <2>5, <2>6 DEF Loop!WalkNext
<1> QED
  BY <1>2, <1>3

\* The loop, and the lists in it and outside, while another container is used, too.
LEMMA ListAndLoopInvariant == PartSpec => [](ListInv /\ LoopInv)
<1>1. PartInit => ListInv /\ LoopInv
  BY ListStart, LoopStart DEF PartInit
<1>2. ListInv /\ LoopInv /\ [PartNext]_<<part, list, loop, hlist, refVars>> => ListInv' /\ LoopInv'
  <2>1. ASSUME ListInv, LoopInv, UNCHANGED <<part, list, loop, hlist, refVars>> PROVE ListInv' /\ LoopInv'
    <3>1. /\ part' = part /\ lnext' = lnext /\ lprev' = lprev /\ lstale' = lstale
          /\ wpc' = wpc /\ whead' = whead /\ wpos' = wpos /\ wn' = wn /\ wseen' = wseen /\ wstart' = wstart
      BY <2>1 DEF list, loop
    <3>2. ListInv'
      BY <2>1, ListStep
    <3>3. List!Seqs' = List!Seqs
      BY <3>1 DEF List!Seqs
    <3> QED
      BY <2>1, <3>1, <3>2, <3>3 DEF LoopInv
  <2> QED
    BY <2>1, LoopStep
<1> QED
  BY <1>1, <1>2, PTL DEF PartSpec

LEMMA ListInvariant == PartSpec => []ListInv
<1>1. ListInv /\ LoopInv => ListInv
  OBVIOUS
<1> QED
  BY <1>1, ListAndLoopInvariant, PTL

(***************************************************************************)
(* The two walks along the pointers of list.h always end and agree, and no *)
(* pointer in use leads to an entry that was taken out or to a head whose  *)
(* list was spliced away, in and out of a loop, for any number of heads    *)
(* and entries.                                                            *)
(***************************************************************************)
THEOREM ListPointersLeadOn == PartSpec => []PointersLeadOn
<1>1. ListInv => PointersLeadOn
  BY ListPointers DEF PointersLeadOn
<1> QED
  BY <1>1, ListInvariant, PTL

(***************************************************************************)
(* Each function of list.h is the operation on sequences that its comment  *)
(* describes.                                                              *)
(***************************************************************************)
THEOREM ListsImplementSequences == PartSpec => ListsAreSequences
<1>1. PartInit => List!Abs!Init
  BY ListStart DEF PartInit
<1>2. ListInv => [part = "list" => List!EachCall]_list
  BY ListCalls
<1> QED
  BY <1>1, <1>2, ListInvariant, PTL DEF PartSpec, ListsAreSequences

(***************************************************************************)
(* While a loop runs, its variables point to an entry and to an entry or   *)
(* the head of its list; they are never NULL.                              *)
(***************************************************************************)
THEOREM LoopTypeCorrect == PartSpec => []Loop!WalkTypeOK
<1>1. ASSUME ListInv, LoopInv PROVE Loop!WalkTypeOK
  <2>1. \E k \in 0..Len(wstart) : Trail(wseen, wstart, k)
    <3>1. Len(wstart) \in 0..Len(wstart)
      BY <1>1, LenProperties DEF LoopInv
    <3> QED
      BY <1>1, <3>1 DEF LoopInv, AtBody, AtStep
  <2>2. Loop!ToSet(wseen) \subseteq Entries
    <3>1. wseen \in Seq(Entries)
      BY <2>1 DEF Trail
    <3> QED
      BY <3>1, LenProperties, ElementOfSeq DEF Loop!ToSet
  <2>3. ASSUME wpc # "out" PROVE wn \in Entries \cup {whead}
    <3> DEFINE q == List!Seqs[whead]
    <3>1. whead \in Heads \ lstale
      BY <1>1, <2>3 DEF LoopInv
    <3>2. q \in Seq(Entries)
      BY <1>1, <3>1, OnTheWay
    <3> HIDE DEF q
    <3>3. \A i \in 1..Len(q) : q[i] \in Entries
      BY <3>2, ElementOfSeq
    <3>4. \E i : wn = Cell(whead, q, i)
      BY <1>1, <2>3 DEF LoopInv, AtBody, AtStep, q
    <3> QED
      BY <3>3, <3>4 DEF Cell
  <2> QED
    BY <1>1, <2>2, <2>3 DEF Loop!WalkTypeOK, LoopInv
<1> QED
  BY <1>1, ListAndLoopInvariant, PTL

(***************************************************************************)
(* A list_for_each_safe() runs its body for every entry that was on the    *)
(* list when it began, once and in their order, even when the body takes   *)
(* the entry it is at out of the list or adds new ones at either end, for  *)
(* any number of entries.                                                  *)
(***************************************************************************)
THEOREM LoopVisitsEachOnce == PartSpec => []VisitsEachOnce
<1>1. ASSUME NEW k \in 0..Len(wstart), wstart \in Seq(Entries), Trail(wseen, wstart, k),
             wpc = "out" => k = Len(wstart)
      PROVE  VisitsEachOnce
  <2>1. /\ wseen \in Seq(Entries) /\ NoneTwice(wseen)
        /\ DOMAIN wseen = 1..Len(wseen) /\ DOMAIN wstart = 1..Len(wstart)
    BY <1>1, LenProperties DEF Trail
  <2>2. Loop!IsInjective(wseen)
    BY <2>1 DEF Loop!IsInjective, NoneTwice
  <2>3. Loop!ToSet(wseen) = Elements(wseen)
    BY <2>1 DEF Loop!ToSet, Elements
  <2>4. Loop!Behind(k)
    BY <1>1, <2>1, <2>3 DEF Loop!Behind, Trail
  <2>5. \A i, j \in DOMAIN wstart, x, y \in DOMAIN wseen :
          wseen[x] = wstart[i] /\ wseen[y] = wstart[j] => (i < j <=> x < y)
    BY <1>1, <2>1 DEF Trail
  <2> QED
    BY <1>1, <2>2, <2>4, <2>5 DEF VisitsEachOnce, Loop!VisitsEachOnce
<1>2. LoopInv => VisitsEachOnce
  <2> SUFFICES ASSUME LoopInv PROVE \E k \in 0..Len(wstart) : Trail(wseen, wstart, k)
                                                             /\ (wpc = "out" => k = Len(wstart))
    BY <1>1 DEF LoopInv
  <2>1. CASE wpc = "out"
    <3>1. Len(wstart) \in 0..Len(wstart)
      BY LenProperties DEF LoopInv
    <3> QED
      BY <2>1, <3>1 DEF LoopInv
  <2>2. CASE wpc = "body"
    BY <2>2 DEF LoopInv, AtBody
  <2>3. CASE wpc = "step"
    BY <2>3 DEF LoopInv, AtStep
  <2> QED
    BY <2>1, <2>2, <2>3 DEF LoopInv
<1> QED
  BY <1>2, ListAndLoopInvariant, PTL

-----------------------------------------------------------------------------
(***************************************************************************)
(* The hlists: the pointers of a list lead from its head to NULL.          *)
(***************************************************************************)
Stop(h, q, i) == IF i = 0 THEN h ELSE IF i \in 1..Len(q) THEN q[i] ELSE NULL

Line(ax, pp, h, q) ==
  \A i \in 0..Len(q) : /\ ax[Stop(h, q, i)] = Stop(h, q, i + 1)
                       /\ i # Len(q) => pp[Stop(h, q, i + 1)] = Stop(h, q, i)

LEMMA StopsAre ==
  ASSUME NEW q \in Seq(Entries), NEW h \in Heads
  PROVE  /\ Len(q) \in Nat /\ Stop(h, q, 0) = h /\ Stop(h, q, Len(q) + 1) = NULL
         /\ \A i \in 1..Len(q) : Stop(h, q, i) = q[i] /\ q[i] \in Entries /\ q[i] \in Elements(q)
         /\ Elements(q) \subseteq Entries
         /\ \A i \in 0..Len(q) : Stop(h, q, i) \in {h} \cup Elements(q) /\ Stop(h, q, i) = Cell(h, q, i)
         /\ \A i \in 1..Len(q) + 1 : Stop(h, q, i) \in Elements(q) \cup {NULL}
<1>1. Len(q) \in Nat /\ \A i \in 1..Len(q) : q[i] \in Entries /\ q[i] \in Elements(q)
  BY LenProperties, ElementOfSeq DEF Elements
<1>2. Elements(q) \subseteq Entries
  BY <1>1 DEF Elements
<1> QED
  BY <1>1, <1>2 DEF Stop, Cell

LEMMA StopsApart ==
  ASSUME NEW q \in Seq(Entries), NEW h \in Heads, NoneTwice(q)
  PROVE  \A i, j \in 0..Len(q) + 1 : Stop(h, q, i) = Stop(h, q, j) => i = j
<1>1. /\ Len(q) \in Nat /\ Stop(h, q, 0) = h /\ Stop(h, q, Len(q) + 1) = NULL
      /\ \A i \in 1..Len(q) : Stop(h, q, i) = q[i] /\ q[i] \in Entries
  BY StopsAre
<1> TAKE i, j \in 0..Len(q) + 1
<1>2. /\ i = 0 \/ i \in 1..Len(q) \/ i = Len(q) + 1
      /\ j = 0 \/ j \in 1..Len(q) \/ j = Len(q) + 1
  BY <1>1
<1>3. CASE i \in 1..Len(q) /\ j \in 1..Len(q)
  BY <1>1, <1>3 DEF NoneTwice
<1> QED
  BY <1>1, <1>2, <1>3, NodesDiffer

\* Pointers of other nodes do not matter.
LEMMA LineFrame ==
  ASSUME NEW q \in Seq(Entries), NEW h \in Heads, NEW ax, NEW pp, NEW ax2, NEW pp2,
         Line(ax, pp, h, q), \A x \in {h} \cup Elements(q) : ax2[x] = ax[x],
         \A x \in Elements(q) : pp2[x] = pp[x]
  PROVE  Line(ax2, pp2, h, q)
<1> SUFFICES ASSUME NEW i \in 0..Len(q)
             PROVE  /\ ax2[Stop(h, q, i)] = Stop(h, q, i + 1)
                    /\ i # Len(q) => pp2[Stop(h, q, i + 1)] = Stop(h, q, i)
  BY DEF Line
<1>1. Stop(h, q, i) \in {h} \cup Elements(q)
  BY StopsAre
<1>2. i # Len(q) => Stop(h, q, i + 1) \in Elements(q)
  <2>1. i # Len(q) => i + 1 \in 1..Len(q)
    BY StopsAre
  <2> QED
    BY <2>1, StopsAre
<1> QED
  BY <1>1, <1>2 DEF Line

\* An entry e after the first k of a list.
Joins(ax, pp, ax2, pp2, h, q, k, e) ==
  /\ ax2[e] = Stop(h, q, k + 1) /\ ax2[Stop(h, q, k)] = e
  /\ pp2[e] = Stop(h, q, k) /\ (k # Len(q) => pp2[Stop(h, q, k + 1)] = e)
  /\ \A x \in {h} \cup Elements(q) : x # Stop(h, q, k) => ax2[x] = ax[x]
  /\ \A x \in Elements(q) : x # Stop(h, q, k + 1) => pp2[x] = pp[x]

LEMMA LineInsert ==
  ASSUME NEW q \in Seq(Entries), NEW q2 \in Seq(Entries), NEW e \in Entries, NEW k \in 0..Len(q),
         NoneTwice(q), e \notin Elements(q), Longer(q, k, e, q2), NEW h \in Heads,
         NEW ax, NEW pp, NEW ax2, NEW pp2, Line(ax, pp, h, q), Joins(ax, pp, ax2, pp2, h, q, k, e)
  PROVE  Line(ax2, pp2, h, q2)
<1> DEFINE m == Len(q)
           p == Stop(h, q, k)
           n == Stop(h, q, k + 1)
<1>1. m \in Nat /\ Len(q2) = m + 1
  BY StopsAre DEF Longer
<1>2. /\ \A i \in 0..k : Stop(h, q2, i) = Stop(h, q, i)
      /\ Stop(h, q2, k + 1) = e
      /\ \A i \in k + 2..m + 2 : Stop(h, q2, i) = Stop(h, q, i - 1)
  <2>1. /\ \A i \in 1..k : q2[i] = q[i]
        /\ q2[k + 1] = e
        /\ \A i \in k + 2..m + 1 : q2[i] = q[i - 1]
    BY <1>1 DEF Longer
  <2>2. \A i \in 0..k : Stop(h, q2, i) = Stop(h, q, i)
    BY <1>1, <2>1 DEF Stop
  <2>3. Stop(h, q2, k + 1) = e
    BY <1>1, <2>1 DEF Stop
  <2>4. \A i \in k + 2..m + 2 : Stop(h, q2, i) = Stop(h, q, i - 1)
    BY <1>1, <2>1 DEF Stop
  <2> QED
    BY <2>2, <2>3, <2>4
<1>3. /\ ax2[e] = n /\ ax2[p] = e /\ pp2[e] = p /\ (k # m => pp2[n] = e)
      /\ \A i \in 0..m : i # k => ax2[Stop(h, q, i)] = ax[Stop(h, q, i)]
      /\ \A i \in 1..m : i # k + 1 => pp2[Stop(h, q, i)] = pp[Stop(h, q, i)]
  <2>1. \A i \in 0..m : i # k => Stop(h, q, i) # p /\ Stop(h, q, i) \in {h} \cup Elements(q)
    BY <1>1, StopsAre, StopsApart
  <2>2. \A i \in 1..m : i # k + 1 => Stop(h, q, i) # n /\ Stop(h, q, i) \in Elements(q)
    BY <1>1, StopsAre, StopsApart
  <2> HIDE DEF p, n, m
  <2> QED
    BY <2>1, <2>2 DEF Joins, p, n, m
<1> HIDE DEF p, n
<1> SUFFICES ASSUME NEW i \in 0..Len(q2)
             PROVE  /\ ax2[Stop(h, q2, i)] = Stop(h, q2, i + 1)
                    /\ i # Len(q2) => pp2[Stop(h, q2, i + 1)] = Stop(h, q2, i)
  BY DEF Line
<1>4. \A j \in 0..m : /\ ax[Stop(h, q, j)] = Stop(h, q, j + 1)
                      /\ j # m => pp[Stop(h, q, j + 1)] = Stop(h, q, j)
  BY DEF Line
<1> HIDE DEF m
<1>5. CASE i < k
  <2>1. i \in 0..k /\ i + 1 \in 0..k /\ i \in 0..m /\ i # k /\ i + 1 \in 1..m /\ i + 1 # k + 1 /\ i # m
    BY <1>1, <1>5 DEF m
  <2>2. Stop(h, q2, i) = Stop(h, q, i) /\ Stop(h, q2, i + 1) = Stop(h, q, i + 1)
    BY <1>2, <2>1
  <2>3. ax2[Stop(h, q, i)] = ax[Stop(h, q, i)] /\ pp2[Stop(h, q, i + 1)] = pp[Stop(h, q, i + 1)]
    BY <1>3, <2>1
  <2> QED
    BY <1>4, <2>1, <2>2, <2>3
<1>6. CASE i = k
  <2>1. Stop(h, q2, i) = p /\ Stop(h, q2, i + 1) = e
    BY <1>2, <1>6 DEF p
  <2> QED
    BY <1>3, <2>1
<1>7. CASE i = k + 1
  <2>1. k + 2 \in k + 2..m + 2 /\ (k + 2) - 1 = k + 1 /\ i + 1 = k + 2 /\ (i # Len(q2) => k # m)
    BY <1>1, <1>7 DEF m
  <2>2. Stop(h, q2, i) = e /\ Stop(h, q2, i + 1) = n
    BY <1>2, <1>7, <2>1 DEF n
  <2> QED
    BY <1>3, <2>1, <2>2
<1>8. CASE i > k + 1
  <2> DEFINE j == i - 1
  <2>1. /\ i \in k + 2..m + 2 /\ i + 1 \in k + 2..m + 2 /\ (i + 1) - 1 = i /\ j + 1 = i
        /\ j \in 0..m /\ j # k /\ (i # Len(q2) => i \in 1..m /\ i # k + 1 /\ j # m)
    BY <1>1, <1>8 DEF m
  <2>2. Stop(h, q2, i) = Stop(h, q, j) /\ Stop(h, q2, i + 1) = Stop(h, q, i)
    BY <1>2, <2>1
  <2> HIDE DEF j
  <2>3. /\ ax2[Stop(h, q, j)] = ax[Stop(h, q, j)]
        /\ i # Len(q2) => pp2[Stop(h, q, i)] = pp[Stop(h, q, i)]
    BY <1>3, <2>1
  <2>4. ax[Stop(h, q, j)] = Stop(h, q, i) /\ (i # Len(q2) => pp[Stop(h, q, i)] = Stop(h, q, j))
    BY <1>4, <2>1
  <2> QED
    BY <2>2, <2>3, <2>4
<1> QED
  BY <1>1, <1>5, <1>6, <1>7, <1>8

\* Element k of a list is taken out.
Parts(ax, pp, ax2, pp2, h, q, k) ==
  /\ ax2[Stop(h, q, k - 1)] = Stop(h, q, k + 1)
  /\ k # Len(q) => pp2[Stop(h, q, k + 1)] = Stop(h, q, k - 1)
  /\ \A x \in {h} \cup Elements(q) : x # Stop(h, q, k - 1) => ax2[x] = ax[x]
  /\ \A x \in Elements(q) : x # Stop(h, q, k + 1) => pp2[x] = pp[x]

LEMMA LineDelete ==
  ASSUME NEW q \in Seq(Entries), NEW q2 \in Seq(Entries), NEW k \in 1..Len(q),
         NoneTwice(q), Shorter(q, k, q2), NEW h \in Heads,
         NEW ax, NEW pp, NEW ax2, NEW pp2, Line(ax, pp, h, q), Parts(ax, pp, ax2, pp2, h, q, k)
  PROVE  Line(ax2, pp2, h, q2)
<1> DEFINE m == Len(q)
           p == Stop(h, q, k - 1)
           n == Stop(h, q, k + 1)
<1>1. m \in Nat /\ Len(q2) = m - 1
  BY StopsAre DEF Shorter
<1>2. /\ \A i \in 0..k - 1 : Stop(h, q2, i) = Stop(h, q, i)
      /\ \A i \in k..m : Stop(h, q2, i) = Stop(h, q, i + 1)
  <2>1. /\ \A i \in 1..k - 1 : q2[i] = q[i]
        /\ \A i \in k..m - 1 : q2[i] = q[i + 1]
    BY <1>1 DEF Shorter
  <2>2. \A i \in 0..k - 1 : Stop(h, q2, i) = Stop(h, q, i)
    BY <1>1, <2>1 DEF Stop
  <2>3. \A i \in k..m : Stop(h, q2, i) = Stop(h, q, i + 1)
    BY <1>1, <2>1 DEF Stop
  <2> QED
    BY <2>2, <2>3
<1>3. /\ ax2[p] = n /\ (k # m => pp2[n] = p)
      /\ \A i \in 0..m : i # k - 1 => ax2[Stop(h, q, i)] = ax[Stop(h, q, i)]
      /\ \A i \in 1..m : i # k + 1 => pp2[Stop(h, q, i)] = pp[Stop(h, q, i)]
  <2>1. \A i \in 0..m : i # k - 1 => Stop(h, q, i) # p /\ Stop(h, q, i) \in {h} \cup Elements(q)
    BY <1>1, StopsAre, StopsApart
  <2>2. \A i \in 1..m : i # k + 1 => Stop(h, q, i) # n /\ Stop(h, q, i) \in Elements(q)
    BY <1>1, StopsAre, StopsApart
  <2> HIDE DEF p, n, m
  <2> QED
    BY <2>1, <2>2 DEF Parts, p, n, m
<1> HIDE DEF p, n
<1> SUFFICES ASSUME NEW i \in 0..Len(q2)
             PROVE  /\ ax2[Stop(h, q2, i)] = Stop(h, q2, i + 1)
                    /\ i # Len(q2) => pp2[Stop(h, q2, i + 1)] = Stop(h, q2, i)
  BY DEF Line
<1>4. \A j \in 0..m : /\ ax[Stop(h, q, j)] = Stop(h, q, j + 1)
                      /\ j # m => pp[Stop(h, q, j + 1)] = Stop(h, q, j)
  BY DEF Line
<1> HIDE DEF m
<1>5. CASE i < k - 1
  <2>1. /\ i \in 0..k - 1 /\ i + 1 \in 0..k - 1 /\ i \in 0..m /\ i # k - 1 /\ i + 1 \in 1..m
        /\ i + 1 # k + 1 /\ i # m
    BY <1>1, <1>5 DEF m
  <2>2. Stop(h, q2, i) = Stop(h, q, i) /\ Stop(h, q2, i + 1) = Stop(h, q, i + 1)
    BY <1>2, <2>1
  <2>3. ax2[Stop(h, q, i)] = ax[Stop(h, q, i)] /\ pp2[Stop(h, q, i + 1)] = pp[Stop(h, q, i + 1)]
    BY <1>3, <2>1
  <2> QED
    BY <1>4, <2>1, <2>2, <2>3
<1>6. CASE i = k - 1
  <2>1. i \in 0..k - 1 /\ i + 1 = k /\ k \in k..m /\ (i # Len(q2) => k # m)
    BY <1>1, <1>6 DEF m
  <2>2. Stop(h, q2, i) = p /\ Stop(h, q2, i + 1) = n
    BY <1>2, <1>6, <2>1 DEF p, n
  <2> QED
    BY <1>3, <2>1, <2>2
<1>7. CASE i > k - 1
  <2> DEFINE j == i + 1
  <2>1. /\ i \in k..m /\ j \in k..m /\ j \in 0..m /\ j # k - 1 /\ j = i + 1
        /\ (i # Len(q2) => j + 1 \in 1..m /\ j + 1 # k + 1 /\ j # m)
    BY <1>1, <1>7 DEF m
  <2>2. Stop(h, q2, i) = Stop(h, q, j) /\ Stop(h, q2, i + 1) = Stop(h, q, j + 1)
    BY <1>2, <2>1
  <2> HIDE DEF j
  <2>3. /\ ax2[Stop(h, q, j)] = ax[Stop(h, q, j)]
        /\ i # Len(q2) => pp2[Stop(h, q, j + 1)] = pp[Stop(h, q, j + 1)]
    BY <1>3, <2>1
  <2>4. ax[Stop(h, q, j)] = Stop(h, q, j + 1) /\ (i # Len(q2) => pp[Stop(h, q, j + 1)] = Stop(h, q, j))
    BY <1>4, <2>1
  <2> QED
    BY <2>2, <2>3, <2>4
<1> QED
  BY <1>1, <1>5, <1>6, <1>7

\* The walk of Hlist!Walk() as a recursive function.
Visits(node, ax, h, n) ==
  node = [i \in 0..n |-> IF i = 0 THEN ax[h]
                         ELSE IF node[i - 1] = NULL THEN NULL ELSE ax[node[i - 1]]]

LEMMA VisitsExist ==
  ASSUME NEW q \in Seq(Entries), NEW h \in Heads, NEW ax, NEW pp, Line(ax, pp, h, q), NEW n \in Nat
  PROVE  \E node : Visits(node, ax, h, n)
<1> DEFINE m == Len(q)
           node == [i \in 0..n |-> IF i <= m THEN Stop(h, q, i + 1) ELSE NULL]
<1>1. m \in Nat /\ Stop(h, q, 0) = h /\ Stop(h, q, m + 1) = NULL
  BY StopsAre
<1>2. \A i \in 0..m : ax[Stop(h, q, i)] = Stop(h, q, i + 1)
  BY DEF Line
<1>3. \A i \in 1..m : Stop(h, q, i) # NULL
  BY StopsAre, NodesDiffer
<1> HIDE DEF m
<1>4. ASSUME NEW i \in 0..n
      PROVE  node[i] = IF i = 0 THEN ax[h] ELSE IF node[i - 1] = NULL THEN NULL ELSE ax[node[i - 1]]
  <2>1. CASE i = 0
    <3>1. 0 \in 0..m /\ 0 + 1 = 1 /\ node[i] = Stop(h, q, 0 + 1)
      BY <1>1, <2>1
    <3> QED
      BY <1>1, <1>2, <2>1, <3>1
  <2>2. CASE i # 0 /\ i <= m
    <3>1. i \in 1..m /\ i \in 0..m /\ i - 1 \in 0..n /\ i - 1 <= m /\ (i - 1) + 1 = i
      BY <1>1, <2>2
    <3>2. node[i - 1] = Stop(h, q, i) /\ node[i] = Stop(h, q, i + 1)
      BY <3>1
    <3> HIDE DEF node
    <3> QED
      BY <1>2, <1>3, <2>2, <3>1, <3>2
  <2>3. CASE i = m + 1
    <3>1. i # 0 /\ i - 1 \in 0..n /\ i - 1 <= m /\ (i - 1) + 1 = m + 1 /\ ~(i <= m)
      BY <1>1, <2>3
    <3>2. node[i - 1] = Stop(h, q, m + 1) /\ node[i] = NULL
      BY <3>1
    <3> HIDE DEF node
    <3> QED
      BY <1>1, <3>1, <3>2
  <2>4. CASE i > m + 1
    <3>1. i # 0 /\ i - 1 \in 0..n /\ ~(i - 1 <= m) /\ ~(i <= m)
      BY <1>1, <2>4
    <3>2. node[i - 1] = NULL /\ node[i] = NULL
      BY <3>1
    <3> HIDE DEF node
    <3> QED
      BY <3>1, <3>2
  <2> QED
    BY <1>1, <2>1, <2>2, <2>3, <2>4
<1>5. Visits(node, ax, h, n)
  <2> DEFINE F == [i \in 0..n |-> IF i = 0 THEN ax[h]
                                  ELSE IF node[i - 1] = NULL THEN NULL ELSE ax[node[i - 1]]]
  <2>1. node = F
    BY <1>4
  <2> HIDE DEF node
  <2> QED
    BY <2>1 DEF Visits
<1> QED
  BY <1>5

LEMMA VisitsAre ==
  ASSUME NEW q \in Seq(Entries), NEW h \in Heads, NEW ax, NEW pp, Line(ax, pp, h, q),
         NEW n \in Nat, Len(q) <= n, NEW node, Visits(node, ax, h, n)
  PROVE  \A i \in 0..Len(q) : node[i] = Stop(h, q, i + 1)
<1> DEFINE Wrong == {i \in 0..Len(q) : node[i] # Stop(h, q, i + 1)}
<1>1. Len(q) \in Nat /\ Stop(h, q, 0) = h /\ \A i \in 1..Len(q) : Stop(h, q, i) # NULL
  BY StopsAre, NodesDiffer
<1>2. \A i \in 0..n : node[i] = IF i = 0 THEN ax[h]
                                ELSE IF node[i - 1] = NULL THEN NULL ELSE ax[node[i - 1]]
  BY DEF Visits
<1>3. \A i \in 0..Len(q) : ax[Stop(h, q, i)] = Stop(h, q, i + 1)
  BY DEF Line
<1>4. ASSUME Wrong # {} PROVE FALSE
  <2>1. Wrong \subseteq Nat
    BY <1>1
  <2>2. PICK i \in Wrong : \A j \in Wrong : i <= j
    BY <1>4, <2>1, LeastNumber
  <2>3. i \in 0..Len(q) /\ node[i] # Stop(h, q, i + 1)
    OBVIOUS
  <2>4. i # 0
    <3>1. 0 \in 0..n /\ 0 \in 0..Len(q)
      BY <1>1
    <3>2. node[0] = Stop(h, q, 0 + 1)
      BY <1>1, <1>2, <1>3, <3>1
    <3> QED
      BY <2>3, <3>2
  <2>5. i - 1 \in 0..Len(q) /\ i \in 1..Len(q) /\ i \in 0..n /\ (i - 1) + 1 = i /\ ~(i <= i - 1)
    BY <1>1, <2>3, <2>4
  <2>6. i - 1 \notin Wrong
    BY <2>2, <2>5
  <2>7. node[i - 1] = Stop(h, q, i)
    BY <2>5, <2>6
  <2>8. ax[Stop(h, q, i)] = Stop(h, q, i + 1) /\ Stop(h, q, i) # NULL
    BY <1>1, <1>3, <2>3, <2>5
  <2> QED
    BY <1>2, <2>3, <2>4, <2>5, <2>7, <2>8
<1> QED
  BY <1>4

\* A list is not longer than there are entries.
LEMMA LineBounded ==
  ASSUME NEW q \in Seq(Entries), NoneTwice(q)
  PROVE  Cardinality(Entries) \in Nat /\ Len(q) <= Cardinality(Entries)
<1>1. IsFiniteSet(Entries)
  <2>1. IsFiniteSet(Heads \cup Entries)
    BY ContainersAssumption DEF Hlist!HlistAssumption, Hlist!IsFiniteSet, IsFiniteSet
  <2> QED
    BY <2>1, FS_Subset
<1>2. Len(q) \in Nat /\ q \in [1..Len(q) -> Entries]
  BY LenProperties
<1>3. q \in Injection(1..Len(q), Entries)
  BY <1>2 DEF Injection, IsInjective, NoneTwice
<1>4. Cardinality(1..Len(q)) <= Cardinality(Entries)
  BY <1>1, <1>3, FS_Injection
<1>5. Cardinality(1..Len(q)) = Len(q)
  BY <1>2, FS_Interval
<1> QED
  BY <1>1, <1>4, <1>5, FS_CardinalityType

WalkOf(ax, h) ==
  LET node == CHOOSE f : Visits(f, ax, h, Cardinality(Entries) + 1)
      ends == {i \in 0..Cardinality(Entries) : node[i] = NULL}
  IN IF ends = {} THEN <<NULL>>
     ELSE [i \in 1..(CHOOSE i \in ends : \A j \in ends : i <= j) |-> node[i - 1]]

LEMMA HlistWalkIs ==
  ASSUME NEW q \in Seq(Entries), NEW h \in Heads, NoneTwice(q), NEW ax, NEW pp, Line(ax, pp, h, q)
  PROVE  WalkOf(ax, h) = q
<1> DEFINE n == Cardinality(Entries) + 1
           node == CHOOSE f : Visits(f, ax, h, n)
           ends == {i \in 0..Cardinality(Entries) : node[i] = NULL}
           end == CHOOSE i \in ends : \A j \in ends : i <= j
<1>1. Cardinality(Entries) \in Nat /\ Len(q) <= Cardinality(Entries) /\ Len(q) \in Nat
  BY LineBounded, LenProperties
<1>2. n \in Nat /\ Len(q) <= n
  BY <1>1
<1> HIDE DEF n
<1>3. Visits(node, ax, h, n)
  BY <1>2, VisitsExist
<1> HIDE DEF node
<1>4. \A i \in 0..Len(q) : node[i] = Stop(h, q, i + 1)
  BY <1>2, <1>3, VisitsAre
<1>5. ASSUME NEW i \in 1..Len(q) PROVE node[i - 1] = q[i] /\ node[i - 1] # NULL
  <2>1. i - 1 \in 0..Len(q) /\ (i - 1) + 1 = i
    BY <1>1
  <2>2. Stop(h, q, i) = q[i] /\ q[i] \in Entries
    BY StopsAre
  <2> QED
    BY <1>4, <2>1, <2>2, NodesDiffer
<1>6. node[Len(q)] = NULL
  <2>1. Len(q) \in 0..Len(q)
    BY <1>1
  <2> QED
    BY <1>4, <2>1, StopsAre
<1>7. Len(q) \in ends /\ \A j \in ends : Len(q) <= j
  <2>1. ASSUME NEW j \in ends, j < Len(q) PROVE FALSE
    <3>1. j + 1 \in 1..Len(q) /\ (j + 1) - 1 = j
      BY <1>1, <2>1
    <3> QED
      BY <1>5, <3>1
  <2> QED
    BY <1>1, <1>6, <2>1
<1>8. \A i \in ends : (\A j \in ends : i <= j) => i = Len(q)
  BY <1>1, <1>7
<1>9. end = Len(q)
  BY <1>7, <1>8
<1>10. [i \in 1..end |-> node[i - 1]] = q
  <2> HIDE DEF end
  <2>1. q \in [1..Len(q) -> Entries]
    BY LenProperties
  <2>2. q = [i \in 1..Len(q) |-> q[i]]
    BY <2>1
  <2> QED
    BY <1>5, <1>9, <2>2
<1>11. ends # {}
  BY <1>7
<1>12. WalkOf(ax, h) = IF ends = {} THEN <<NULL>> ELSE [i \in 1..end |-> node[i - 1]]
  BY DEF WalkOf, node, n
<1> QED
  BY <1>10, <1>11, <1>12

LEMMA HlistWalksAre ==
  /\ \A h \in Heads : Hlist!Walk(h) = WalkOf(at, h)
  /\ Hlist!Seqs = [h \in Heads |-> WalkOf(at, h)]
  /\ Hlist!Seqs' = [h \in Heads |-> WalkOf(at', h)]
BY DEF Hlist!Seqs, Hlist!Walk, WalkOf, Visits, Hlist!Cardinality, Cardinality

-----------------------------------------------------------------------------
(***************************************************************************)
(* The pointers of all hlists, given the sequence of each head.            *)
(***************************************************************************)
Firm(ax, pp, s) ==
  /\ ax \in [Heads \cup Entries -> Entries \cup {NULL}]
  /\ pp \in [Entries -> Nodes \cup {NULL}]
  /\ s \in [Heads -> Seq(Entries)]
  /\ \A h \in Heads : NoneTwice(s[h]) /\ Line(ax, pp, h, s[h])
  /\ \A g, h \in Heads : g # h => Elements(s[g]) \cap Elements(s[h]) = {}

\* An entry on no list is initialised, or appears to be listed, x excepted.
Bare(ax, pp, gn, s, x) ==
  /\ gn \subseteq Entries
  /\ \A e \in Entries : On(s, e) => e \notin gn
  /\ \A e \in Entries \ gn : ~On(s, e) /\ e # x => pp[e] \in {NULL, e} /\ ax[e] = NULL

Apart(ax, pp, ax2, pp2, h, S) ==
  /\ \A x \in Nodes : x \notin {h} \cup S => ax2[x] = ax[x]
  /\ \A x \in Entries : x \notin S => pp2[x] = pp[x]

LEMMA HlistFrame ==
  ASSUME NEW ax, NEW pp, NEW s, Firm(ax, pp, s), NEW h \in Heads,
         NEW q2 \in Seq(Entries), NoneTwice(q2), NEW A, A \subseteq Entries,
         Unlisted(s, A), Elements(q2) \subseteq Elements(s[h]) \cup A,
         NEW ax2 \in [Heads \cup Entries -> Entries \cup {NULL}],
         NEW pp2 \in [Entries -> Nodes \cup {NULL}], Line(ax2, pp2, h, q2),
         Apart(ax, pp, ax2, pp2, h, A \cup Elements(s[h])),
         NEW s2, s2 = [s EXCEPT ![h] = q2]
  PROVE  Firm(ax2, pp2, s2)
<1>1. s \in [Heads -> Seq(Entries)]
  BY DEF Firm
<1>2. s2 \in [Heads -> Seq(Entries)] /\ s2[h] = q2 /\ \A g \in Heads : g # h => s2[g] = s[g]
  BY <1>1
<1>3. ASSUME NEW g \in Heads, g # h
      PROVE  /\ Elements(s[g]) \cap ({h} \cup A \cup Elements(s[h])) = {}
             /\ Elements(s[g]) \subseteq Entries
  <2>1. Elements(s[g]) \cap Elements(s[h]) = {} /\ \A x \in A : x \notin Elements(s[g])
    BY <1>3 DEF Firm, On, Unlisted
  <2>2. Elements(s[g]) \subseteq Entries
    BY <1>1, StopsAre
  <2> QED
    BY <2>1, <2>2, NodesDiffer
<1>4. ASSUME NEW g \in Heads PROVE NoneTwice(s2[g]) /\ Line(ax2, pp2, g, s2[g])
  <2>1. CASE g = h
    BY <1>2, <2>1
  <2>2. CASE g # h
    <3>1. Line(ax, pp, g, s[g]) /\ s[g] \in Seq(Entries) /\ NoneTwice(s[g])
      BY DEF Firm
    <3>2. g \in Nodes /\ g \notin {h} \cup A \cup Elements(s[h]) /\ Elements(s[h]) \subseteq Entries
      BY <1>1, <2>2, StopsAre, NodesDiffer
    <3>3. \A x \in {g} \cup Elements(s[g]) : ax2[x] = ax[x]
      BY <1>3, <2>2, <3>2, NodesDiffer DEF Apart
    <3>4. \A x \in Elements(s[g]) : pp2[x] = pp[x]
      BY <1>3, <2>2 DEF Apart
    <3>5. Line(ax2, pp2, g, s[g])
      BY <3>1, <3>3, <3>4, LineFrame
    <3> QED
      BY <1>2, <2>2, <3>1, <3>5
  <2> QED
    BY <2>1, <2>2
<1>5. ASSUME NEW g \in Heads, NEW k \in Heads, g # k
      PROVE  Elements(s2[g]) \cap Elements(s2[k]) = {}
  <2>1. CASE g = h
    BY <1>2, <1>3, <1>5, <2>1
  <2>2. CASE k = h
    BY <1>2, <1>3, <1>5, <2>2
  <2>3. CASE g # h /\ k # h
    BY <1>2, <1>5, <2>3 DEF Firm
  <2> QED
    BY <2>1, <2>2, <2>3
<1> QED
  BY <1>2, <1>4, <1>5 DEF Firm

\* What every function that adds an entry stores.
Adds(ax, pp, ax2, pp2, p, n, e) ==
  /\ ax2 \in [Heads \cup Entries -> Entries \cup {NULL}] /\ pp2 \in [Entries -> Nodes \cup {NULL}]
  /\ ax2[e] = n /\ ax2[p] = e /\ pp2[e] = p /\ (n # NULL => pp2[n] = e)
  /\ \A x \in Nodes : x # e /\ x # p => ax2[x] = ax[x]
  /\ \A x \in Entries : x # e /\ x # n => pp2[x] = pp[x]

LEMMA HlistInserted ==
  ASSUME NEW ax, NEW pp, NEW gn, NEW s, Firm(ax, pp, s), Bare(ax, pp, gn, s, NULL),
         NEW e \in Entries, ~On(s, e), NEW h \in Heads, NEW k \in 0..Len(s[h]),
         NEW q2 \in Seq(Entries), Longer(s[h], k, e, q2), NEW ax2, NEW pp2,
         Adds(ax, pp, ax2, pp2, Stop(h, s[h], k), Stop(h, s[h], k + 1), e)
  PROVE  /\ Firm(ax2, pp2, [s EXCEPT ![h] = q2])
         /\ Bare(ax2, pp2, gn \ {e}, [s EXCEPT ![h] = q2], NULL)
<1> DEFINE q == s[h]
           p == Stop(h, q, k)
           n == Stop(h, q, k + 1)
           s2 == [s EXCEPT ![h] = q2]
<1>1. /\ s \in [Heads -> Seq(Entries)] /\ q \in Seq(Entries) /\ NoneTwice(q) /\ Line(ax, pp, h, q)
      /\ Len(q) \in Nat /\ Elements(q) \subseteq Entries /\ h \notin Entries /\ h \in Nodes
      /\ Entries \subseteq Nodes /\ NULL \notin Nodes /\ e \notin Elements(q)
  <2>1. s \in [Heads -> Seq(Entries)] /\ NoneTwice(q) /\ Line(ax, pp, h, q)
    BY DEF Firm
  <2>2. q \in Seq(Entries)
    BY <2>1
  <2>3. Len(q) \in Nat /\ Elements(q) \subseteq Entries
    BY <2>2, StopsAre
  <2> QED
    BY <2>1, <2>2, <2>3, NodesDiffer DEF On, Nodes
<1>2. /\ p \in {h} \cup Elements(q) /\ n \in Elements(q) \cup {NULL}
      /\ (k # Len(q) => n # NULL)
  <2>1. k \in 0..Len(q) /\ k + 1 \in 1..Len(q) + 1 /\ (k # Len(q) => k + 1 \in 1..Len(q))
    BY <1>1
  <2> HIDE DEF q
  <2> QED
    BY <1>1, <2>1, StopsAre, NodesDiffer
<1> HIDE DEF p, n, q
<1>3. Adds(ax, pp, ax2, pp2, p, n, e)
  BY DEF p, n, q
<1>4. Joins(ax, pp, ax2, pp2, h, q, k, e)
  <2>1. \A x \in {h} \cup Elements(q) : x \in Nodes /\ x # e
    BY <1>1
  <2>2. \A x \in Elements(q) : x \in Entries /\ x # e
    BY <1>1
  <2> QED
    BY <1>2, <1>3, <2>1, <2>2 DEF Joins, Adds, p, n
<1>5. Longer(q, k, e, q2) /\ k \in 0..Len(q)
  BY DEF q
<1>6. Line(ax2, pp2, h, q2)
  BY <1>1, <1>4, <1>5, LineInsert
<1>7. NoneTwice(q2) /\ Elements(q2) = Elements(q) \cup {e}
  BY <1>1, <1>5, LongerIs
<1>8. /\ \A x \in Nodes : x \notin {h} \cup ({e} \cup Elements(q)) => ax2[x] = ax[x]
      /\ \A x \in Entries : x \notin {e} \cup Elements(q) => pp2[x] = pp[x]
      /\ ax2 \in [Heads \cup Entries -> Entries \cup {NULL}] /\ pp2 \in [Entries -> Nodes \cup {NULL}]
  BY <1>2, <1>3, NodesDiffer DEF Adds
<1>9. {e} \subseteq Entries /\ Unlisted(s, {e})
  BY DEF Unlisted
<1>10. Firm(ax2, pp2, s2)
  <2>1. Apart(ax, pp, ax2, pp2, h, {e} \cup Elements(s[h]))
    BY <1>8 DEF Apart, q
  <2>2. Elements(q2) \subseteq Elements(s[h]) \cup {e}
    BY <1>7 DEF q
  <2> QED
    BY <1>6, <1>7, <1>8, <1>9, <2>1, <2>2, HlistFrame
<1>11. s2[h] = q2 /\ \A g \in Heads : g # h => s2[g] = s[g]
  BY <1>1
<1> HIDE DEF s2
<1>12. \A x : On(s2, x) <=> On(s, x) \/ x = e
  BY <1>7, <1>11 DEF On, q
<1>13. ASSUME NEW x \in Entries \ (gn \ {e}), ~On(s2, x) PROVE pp2[x] \in {NULL, x} /\ ax2[x] = NULL
  <2>1. x # e /\ ~On(s, x) /\ x \in Entries \ gn /\ x # NULL
    BY <1>12, <1>13, NodesDiffer
  <2>2. x \notin Elements(q)
    BY <2>1 DEF On, q
  <2>3. ax2[x] = ax[x] /\ pp2[x] = pp[x]
    BY <1>1, <1>8, <2>1, <2>2
  <2> QED
    BY <2>1, <2>3 DEF Bare
<1>14. Bare(ax2, pp2, gn \ {e}, s2, NULL)
  <2>1. gn \ {e} \subseteq Entries /\ \A x \in Entries : On(s2, x) => x \notin gn \ {e}
    BY <1>12 DEF Bare
  <2> QED
    BY <1>13, <2>1 DEF Bare
<1> QED
  BY <1>10, <1>14 DEF s2

\* __hlist_del() of an entry that is on a list.
Takes(ax, pp, ax2, pp2, p, n) ==
  /\ ax2 \in [Heads \cup Entries -> Entries \cup {NULL}] /\ pp2 \in [Entries -> Nodes \cup {NULL}]
  /\ ax2[p] = n /\ (n # NULL => pp2[n] = p)
  /\ \A x \in Nodes : x # p => ax2[x] = ax[x]
  /\ \A x \in Entries : x # n => pp2[x] = pp[x]

LEMMA HlistTaken ==
  ASSUME NEW ax, NEW pp, NEW gn, NEW s, Firm(ax, pp, s), Bare(ax, pp, gn, s, NULL),
         NEW e \in Entries, On(s, e), NEW ax2, NEW pp2, Takes(ax, pp, ax2, pp2, pp[e], ax[e])
  PROVE  /\ Firm(ax2, pp2, Out(s, e)) /\ ~On(Out(s, e), e) /\ e \notin gn
         /\ Bare(ax2, pp2, gn, Out(s, e), e)
<1>1. /\ s \in [Heads -> Seq(Entries)] /\ Entries \subseteq Nodes /\ NULL \notin Nodes
      /\ \A g \in Heads : s[g] \in Seq(Entries) /\ NoneTwice(s[g]) /\ Elements(s[g]) \subseteq Entries
  <2>1. s \in [Heads -> Seq(Entries)] /\ \A g \in Heads : NoneTwice(s[g])
    BY DEF Firm
  <2>2. \A g \in Heads : s[g] \in Seq(Entries)
    BY <2>1
  <2>3. \A g \in Heads : Elements(s[g]) \subseteq Entries
    BY <2>2, StopsAre
  <2> QED
    BY <2>1, <2>2, <2>3, NodesDiffer DEF Nodes
<1>2. PICK h \in Heads : e \in Elements(s[h])
  BY DEF On
<1>3. PICK k \in 1..Len(s[h]) : s[h][k] = e
  BY <1>2 DEF Elements
<1> DEFINE q == s[h]
           q2 == List!Abs!Without(q, e)
           r == Out(s, e)
           p == Stop(h, q, k - 1)
           n == Stop(h, q, k + 1)
<1>4. q2 \in Seq(Entries) /\ Shorter(q, k, q2)
  BY <1>1, <1>3, WithoutIs
<1>5. /\ Len(q) \in Nat /\ Stop(h, q, k) = e /\ k - 1 \in 0..Len(q) /\ (k - 1) + 1 = k
      /\ k \in 0..Len(q) /\ k - 1 # Len(q) /\ Line(ax, pp, h, q)
      /\ k + 1 \in 1..Len(q) + 1 /\ (k # Len(q) => k + 1 \in 1..Len(q))
  <2>1. Len(q) \in Nat /\ Stop(h, q, k) = e
    BY <1>1, <1>3, StopsAre
  <2>2. Line(ax, pp, h, q)
    BY DEF Firm
  <2> HIDE DEF q
  <2>3. k \in 1..Len(q)
    BY DEF q
  <2> QED
    BY <2>1, <2>2, <2>3
<1>6. ax[e] = n /\ pp[e] = p
  <2>1. ax[Stop(h, q, k)] = Stop(h, q, k + 1) /\ pp[Stop(h, q, (k - 1) + 1)] = Stop(h, q, k - 1)
    BY <1>5 DEF Line
  <2> QED
    BY <1>5, <2>1
<1>7. r = [s EXCEPT ![h] = q2]
  <2>1. \A g \in Heads : g # h => e \notin Elements(s[g])
    BY <1>2 DEF Firm
  <2>2. \A g \in Heads : g # h => List!Abs!Without(s[g], e) = s[g]
    BY <1>1, <2>1, WithoutIs
  <2> QED
    BY <1>1, <2>2 DEF Out
<1>8. NoneTwice(q2) /\ Elements(q2) = Elements(q) \ {e}
  BY <1>1, <1>3, <1>4, NodesDiffer, ShorterIs
<1> HIDE DEF q2, r
<1>9. p \in {h} \cup Elements(q) /\ n \in Elements(q) \cup {NULL} /\ (k # Len(q) => n # NULL)
  <2>1. q \in Seq(Entries)
    BY <1>1
  <2> HIDE DEF q
  <2> QED
    BY <1>5, <2>1, StopsAre, NodesDiffer
<1> HIDE DEF q, p, n
<1>10. Takes(ax, pp, ax2, pp2, p, n)
  BY <1>6
<1>11. Parts(ax, pp, ax2, pp2, h, q, k)
  <2>1. \A x \in {h} \cup Elements(q) : x \in Nodes
    BY <1>1, NodesDiffer DEF q
  <2>2. \A x \in Elements(q) : x \in Entries
    BY <1>1 DEF q
  <2> QED
    BY <1>9, <1>10, <2>1, <2>2 DEF Parts, Takes, p, n
<1>12. q \in Seq(Entries) /\ NoneTwice(q) /\ k \in 1..Len(q)
  BY <1>1 DEF q
<1>13. Line(ax2, pp2, h, q2)
  BY <1>4, <1>5, <1>11, <1>12, LineDelete
<1>14. /\ \A x \in Nodes : x \notin {h} \cup ({} \cup Elements(q)) => ax2[x] = ax[x]
       /\ \A x \in Entries : x \notin {} \cup Elements(q) => pp2[x] = pp[x]
       /\ ax2 \in [Heads \cup Entries -> Entries \cup {NULL}] /\ pp2 \in [Entries -> Nodes \cup {NULL}]
  BY <1>9, <1>10, NodesDiffer DEF Takes
<1>15. {} \subseteq Entries /\ Unlisted(s, {}) /\ Elements(q2) \subseteq Elements(q) \cup {}
  BY <1>8 DEF Unlisted
<1>16. Firm(ax2, pp2, r)
  <2>1. Apart(ax, pp, ax2, pp2, h, {} \cup Elements(s[h]))
    BY <1>14 DEF Apart, q
  <2>2. Elements(q2) \subseteq Elements(s[h]) \cup {}
    BY <1>15 DEF q
  <2>3. r = [s EXCEPT ![h] = q2]
    BY <1>7
  <2> QED
    BY <1>4, <1>8, <1>13, <1>14, <1>15, <2>1, <2>2, <2>3, HlistFrame
<1>17. \A g \in Heads : r[g] = IF g = h THEN q2 ELSE s[g]
  BY <1>1, <1>7
<1>18. \A x : On(r, x) <=> On(s, x) /\ x # e
  <2>1. \A g \in Heads : g # h => e \notin Elements(s[g])
    BY <1>2 DEF Firm
  <2> QED
    BY <1>8, <1>17, <2>1 DEF On, q
<1>19. ASSUME NEW x \in Entries \ gn, ~On(r, x), x # e PROVE pp2[x] \in {NULL, x} /\ ax2[x] = NULL
  <2>1. ~On(s, x) /\ x # NULL
    BY <1>18, <1>19, NodesDiffer
  <2>2. x \notin Elements(q) /\ x # h /\ x \in Nodes
    BY <1>1, <2>1, NodesDiffer DEF On, q
  <2>3. ax2[x] = ax[x] /\ pp2[x] = pp[x]
    BY <1>14, <2>2
  <2> QED
    BY <2>1, <2>3 DEF Bare
<1>20. Bare(ax2, pp2, gn, r, e)
  <2>1. gn \subseteq Entries /\ \A x \in Entries : On(r, x) => x \notin gn
    BY <1>18 DEF Bare
  <2> QED
    BY <1>19, <2>1 DEF Bare
<1>21. e \notin gn
  BY DEF Bare
<1> QED
  BY <1>16, <1>18, <1>20, <1>21 DEF r

LEMMA HlistPutOff ==
  ASSUME NEW ax, NEW pp, NEW gn, NEW s, Firm(ax, pp, s), NEW e \in Entries, ~On(s, e),
         Bare(ax, pp, gn, s, e),
         NEW ax2 \in [Heads \cup Entries -> Entries \cup {NULL}], NEW pp2 \in [Entries -> Nodes \cup {NULL}],
         ax2[e] = NULL, pp2[e] \in {NULL, e},
         \A x \in Nodes : x # e => ax2[x] = ax[x], \A x \in Entries : x # e => pp2[x] = pp[x]
  PROVE  Firm(ax2, pp2, s) /\ Bare(ax2, pp2, gn \ {e}, s, NULL)
<1>1. s \in [Heads -> Seq(Entries)]
  BY DEF Firm
<1>2. ASSUME NEW g \in Heads PROVE Line(ax2, pp2, g, s[g])
  <2>1. Line(ax, pp, g, s[g]) /\ s[g] \in Seq(Entries) /\ Elements(s[g]) \subseteq Entries
    BY <1>1, StopsAre DEF Firm
  <2>2. e \notin Elements(s[g]) /\ g # e /\ g \in Nodes /\ Entries \subseteq Nodes
    BY NodesDiffer DEF On
  <2>3. \A x \in {g} \cup Elements(s[g]) : ax2[x] = ax[x]
    BY <2>1, <2>2
  <2>4. \A x \in Elements(s[g]) : pp2[x] = pp[x]
    BY <2>1, <2>2
  <2> QED
    BY <2>1, <2>3, <2>4, LineFrame
<1>3. Firm(ax2, pp2, s)
  BY <1>2 DEF Firm
<1>4. ASSUME NEW x \in Entries \ (gn \ {e}), ~On(s, x) PROVE pp2[x] \in {NULL, x} /\ ax2[x] = NULL
  <2>1. x \in Nodes
    BY NodesDiffer
  <2> QED
    BY <1>4, <2>1 DEF Bare
<1>5. gn \ {e} \subseteq Entries /\ \A x \in Entries : On(s, x) => x \notin gn \ {e}
  BY DEF Bare
<1> QED
  BY <1>3, <1>4, <1>5 DEF Bare

\* What hlist_move_list() stores.
Moves(ax, pp, ax2, pp2, g, h) ==
  /\ ax2 \in [Heads \cup Entries -> Entries \cup {NULL}] /\ pp2 \in [Entries -> Nodes \cup {NULL}]
  /\ ax2[h] = ax[g] /\ ax2[g] = NULL /\ (ax[g] # NULL => pp2[ax[g]] = h)
  /\ \A x \in Nodes : x # g /\ x # h => ax2[x] = ax[x]
  /\ \A x \in Entries : x # ax[g] => pp2[x] = pp[x]

LEMMA HlistMoved ==
  ASSUME NEW ax, NEW pp, NEW gn, NEW s, Firm(ax, pp, s), Bare(ax, pp, gn, s, NULL),
         NEW g \in Heads, NEW h \in Heads, g # h, ax[h] = NULL,
         NEW ax2, NEW pp2, Moves(ax, pp, ax2, pp2, g, h)
  PROVE  /\ Firm(ax2, pp2, Emptied(s, g, h))
         /\ Bare(ax2, pp2, gn, Emptied(s, g, h), NULL)
<1> DEFINE s2 == Emptied(s, g, h)
<1> USE DEF Moves, Emptied
<1> DEFINE q == s[g]
<1>1. /\ s \in [Heads -> Seq(Entries)] /\ q \in Seq(Entries) /\ NoneTwice(q) /\ Line(ax, pp, g, q)
      /\ s[h] \in Seq(Entries) /\ Line(ax, pp, h, s[h])
  <2>1. s \in [Heads -> Seq(Entries)] /\ NoneTwice(q) /\ Line(ax, pp, g, q) /\ Line(ax, pp, h, s[h])
    BY DEF Firm
  <2> QED
    BY <2>1
<1>2. s[h] = << >>
  <2>1. 0 \in 0..Len(s[h]) /\ Stop(h, s[h], 0) = h /\ 0 + 1 = 1 /\ Len(s[h]) \in Nat
    BY <1>1, StopsAre
  <2>2. ax[Stop(h, s[h], 0)] = Stop(h, s[h], 0 + 1)
    BY <1>1, <2>1 DEF Line
  <2>3. Stop(h, s[h], 1) = NULL
    BY <2>1, <2>2
  <2>4. ASSUME s[h] # << >> PROVE FALSE
    <3>1. 1 \in 1..Len(s[h])
      BY <1>1, <2>4, EmptySeq
    <3>2. Stop(h, s[h], 1) \in Entries
      BY <1>1, <3>1, StopsAre
    <3> QED
      BY <2>3, <3>2, NodesDiffer
  <2> QED
    BY <2>4
<1>3. s2[h] = q /\ s2[g] = << >> /\ \A x \in Heads : x # g /\ x # h => s2[x] = s[x]
  <2>1. q \o s[h] = q
    BY <1>1, <1>2, ConcatEmptySeq
  <2> QED
    BY <1>1, <2>1
<1>4. s2 \in [Heads -> Seq(Entries)]
  BY <1>1, <1>3, EmptyIs
<1>5. /\ Len(q) \in Nat /\ Stop(g, q, 0) = g /\ Elements(q) \subseteq Entries
      /\ \A i \in 1..Len(q) : Stop(g, q, i) = q[i] /\ q[i] \in Entries
      /\ Stop(g, q, Len(q) + 1) = NULL
  BY <1>1, StopsAre
<1>6. ax[g] = Stop(g, q, 1)
  <2>1. 0 \in 0..Len(q) /\ 0 + 1 = 1
    BY <1>5
  <2>2. ax[Stop(g, q, 0)] = Stop(g, q, 0 + 1)
    BY <1>1, <2>1 DEF Line
  <2> QED
    BY <1>5, <2>1, <2>2
<1> HIDE DEF q
<1>7. Line(ax2, pp2, h, q)
  <2> SUFFICES ASSUME NEW i \in 0..Len(q)
               PROVE  /\ ax2[Stop(h, q, i)] = Stop(h, q, i + 1)
                      /\ i # Len(q) => pp2[Stop(h, q, i + 1)] = Stop(h, q, i)
    BY DEF Line
  <2>1. \A j \in 1..Len(q) + 1 : Stop(h, q, j) = Stop(g, q, j)
    BY <1>5 DEF Stop
  <2>2. Stop(h, q, 0) = h
    BY DEF Stop
  <2>3. CASE i = 0
    <3>1. 1 \in 1..Len(q) + 1 /\ i + 1 = 1 /\ (i # Len(q) => 1 \in 1..Len(q))
      BY <1>5, <2>3
    <3>2. Stop(h, q, i + 1) = ax[g]
      BY <1>6, <2>1, <3>1
    <3>3. i # Len(q) => ax[g] # NULL
      BY <1>5, <1>6, <3>1, NodesDiffer
    <3> QED
      BY <2>2, <2>3, <3>2, <3>3
  <2>4. CASE i # 0
    <3>1. /\ i \in 1..Len(q) /\ i \in 1..Len(q) + 1 /\ i + 1 \in 1..Len(q) + 1
          /\ (i # Len(q) => i + 1 \in 1..Len(q)) /\ 1 \in 1..Len(q) /\ i + 1 # 1
          /\ 1 \in 0..Len(q) + 1 /\ i + 1 \in 0..Len(q) + 1
      BY <1>5, <2>4
    <3>2. ax[Stop(g, q, i)] = Stop(g, q, i + 1) /\ (i # Len(q) => pp[Stop(g, q, i + 1)] = Stop(g, q, i))
      BY <1>1, <3>1 DEF Line
    <3>3. Stop(g, q, i) \in Entries /\ Stop(g, q, i) \in Nodes /\ Stop(g, q, i) # g /\ Stop(g, q, i) # h
      BY <1>5, <3>1, NodesDiffer
    <3>4. i # Len(q) => Stop(g, q, i + 1) \in Entries
      BY <1>5, <3>1
    <3>5. Stop(g, q, i + 1) # ax[g]
      BY <1>1, <1>6, <3>1, StopsApart
    <3>6. Stop(h, q, i) = Stop(g, q, i) /\ Stop(h, q, i + 1) = Stop(g, q, i + 1)
      BY <2>1, <3>1
    <3> QED
      BY <3>2, <3>3, <3>4, <3>5, <3>6
  <2> QED
    BY <2>3, <2>4
<1>8. Line(ax2, pp2, g, << >>)
  <2>1. Len(<< >>) = 0 /\ Stop(g, << >>, 0) = g /\ Stop(g, << >>, 1) = NULL
    BY EmptyIs DEF Stop
  <2>2. ASSUME NEW i \in 0..0
        PROVE  /\ ax2[Stop(g, << >>, i)] = Stop(g, << >>, i + 1)
               /\ i # 0 => pp2[Stop(g, << >>, i + 1)] = Stop(g, << >>, i)
    <3>1. i = 0 /\ i + 1 = 1
      OBVIOUS
    <3> QED
      BY <2>1, <3>1
  <2> QED
    BY <2>1, <2>2 DEF Line
<1>9. ax[g] \in Elements(q) \cup {NULL}
  <2>1. 1 \in 1..Len(q) + 1
    BY <1>5
  <2> QED
    BY <1>1, <1>6, <2>1, StopsAre
<1>10. ASSUME NEW k \in Heads PROVE NoneTwice(s2[k]) /\ Line(ax2, pp2, k, s2[k])
  <2>1. CASE k = h
    BY <1>1, <1>3, <1>7, <2>1
  <2>2. CASE k = g
    BY <1>3, <1>8, <2>2, EmptyIs
  <2>3. CASE k # g /\ k # h
    <3>1. Line(ax, pp, k, s[k]) /\ NoneTwice(s[k]) /\ Elements(s[k]) \cap Elements(q) = {}
      BY <2>3 DEF Firm, q
    <3>2. s[k] \in Seq(Entries) /\ Elements(s[k]) \subseteq Entries
      BY <1>1, StopsAre
    <3>3. \A x \in {k} \cup Elements(s[k]) : ax2[x] = ax[x]
      BY <2>3, <3>2, NodesDiffer
    <3>4. \A x \in Elements(s[k]) : pp2[x] = pp[x]
      BY <1>9, <3>1, <3>2, NodesDiffer
    <3>5. Line(ax2, pp2, k, s[k])
      BY <3>1, <3>2, <3>3, <3>4, LineFrame
    <3> QED
      BY <1>3, <2>3, <3>1, <3>5
  <2> QED
    BY <2>1, <2>2, <2>3
<1>11. ASSUME NEW j \in Heads, NEW k \in Heads, j # k
       PROVE  Elements(s2[j]) \cap Elements(s2[k]) = {}
  <2>1. \A x \in Heads : x # h /\ x # g => Elements(s2[x]) \cap Elements(s2[h]) = {}
    BY <1>3 DEF Firm, q
  <2>2. Elements(s2[g]) = {}
    BY <1>3, EmptyIs
  <2>3. CASE j # h /\ k # h /\ j # g /\ k # g
    BY <1>3, <1>11, <2>3 DEF Firm
  <2> QED
    BY <1>11, <2>1, <2>2, <2>3
<1>12. Firm(ax2, pp2, s2)
  BY <1>4, <1>10, <1>11 DEF Firm
<1>13. \A x : On(s2, x) <=> On(s, x)
  <2>1. Elements(s[h]) = {} /\ Elements(s2[g]) = {} /\ Elements(s2[h]) = Elements(s[g])
    BY <1>2, <1>3, EmptyIs DEF q
  <2> QED
    BY <1>3, <2>1 DEF On
<1>14. ASSUME NEW x \in Entries \ gn, ~On(s2, x) PROVE pp2[x] \in {NULL, x} /\ ax2[x] = NULL
  <2>1. ~On(s, x) /\ x # NULL /\ x \in Nodes /\ x # g /\ x # h
    BY <1>13, <1>14, NodesDiffer
  <2>2. x # ax[g]
    BY <1>9, <2>1 DEF On, q
  <2> QED
    BY <2>1, <2>2 DEF Bare
<1>15. gn \subseteq Entries /\ \A x \in Entries : On(s2, x) => x \notin gn
  BY <1>13 DEF Bare
<1> QED
  BY <1>12, <1>14, <1>15 DEF Bare

LEMMA InsertAtIs ==
  ASSUME NEW E, NEW q \in Seq(E), NEW e \in E, NEW k \in 0..Len(q)
  PROVE  /\ Hlist!Abs!InsertAt(q, k + 1, e) \in Seq(E)
         /\ Longer(q, k, e, Hlist!Abs!InsertAt(q, k + 1, e))
<1> DEFINE m == Len(q)
           a == SubSeq(q, 1, k)
           b == SubSeq(q, k + 1, m)
           c == a \o <<e>>
           r == c \o b
<1>1. m \in Nat /\ \A i \in 1..m : q[i] \in E
  BY LenProperties, ElementOfSeq
<1>2. \A i \in 1..k : q[i] \in E
  BY <1>1
<1>3. \A i \in k + 1..m : q[i] \in E
  BY <1>1
<1>4. a \in Seq(E) /\ Len(a) = k /\ \A i \in 1..k : a[i] = q[i]
  <2>1. a \in Seq(E) /\ (Len(a) = IF 1 <= k THEN k - 1 + 1 ELSE 0)
        /\ \A i \in 1..k - 1 + 1 : a[i] = q[1 + i - 1]
    BY <1>1, <1>2, SubSeqProperties
  <2> HIDE DEF a
  <2>2. \A i \in 1..k : i \in 1..k - 1 + 1 /\ 1 + i - 1 = i
    BY <1>1
  <2> QED
    BY <1>1, <2>1, <2>2
<1>5. b \in Seq(E) /\ Len(b) = m - k /\ \A i \in 1..m - k : b[i] = q[k + i]
  <2>1. b \in Seq(E) /\ (Len(b) = IF k + 1 <= m THEN m - (k + 1) + 1 ELSE 0)
        /\ \A i \in 1..m - (k + 1) + 1 : b[i] = q[(k + 1) + i - 1]
    BY <1>1, <1>3, SubSeqProperties
  <2> HIDE DEF b
  <2>2. \A i \in 1..m - k : i \in 1..m - (k + 1) + 1 /\ (k + 1) + i - 1 = k + i
    BY <1>1
  <2> QED
    BY <1>1, <2>1, <2>2
<1>6. <<e>> \in Seq(E) /\ Len(<<e>>) = 1 /\ <<e>>[1] = e
  OBVIOUS
<1> HIDE DEF a, b
<1>7. c \in Seq(E) /\ Len(c) = k + 1
      /\ \A i \in 1..k + 1 : c[i] = IF i <= k THEN a[i] ELSE <<e>>[i - k]
  BY <1>1, <1>4, <1>6, ConcatProperties
<1>8. c[k + 1] = e /\ \A i \in 1..k : c[i] = q[i]
  <2>1. k + 1 \in 1..k + 1 /\ (k + 1) - k = 1 /\ ~(k + 1 <= k)
    BY <1>1
  <2>2. c[k + 1] = <<e>>[(k + 1) - k]
    BY <1>7, <2>1
  <2>3. c[k + 1] = e
    BY <1>6, <2>1, <2>2
  <2>4. \A i \in 1..k : i \in 1..k + 1 /\ i <= k
    BY <1>1
  <2> QED
    BY <1>4, <1>7, <2>3, <2>4
<1> HIDE DEF c
<1>9. r \in Seq(E) /\ Len(r) = Len(c) + Len(b)
      /\ \A i \in 1..Len(c) + Len(b) : r[i] = IF i <= Len(c) THEN c[i] ELSE b[i - Len(c)]
  <2>1. c \in Seq(E) /\ b \in Seq(E)
    BY <1>5, <1>7
  <2> QED
    BY <2>1, ConcatProperties
<1> HIDE DEF r
<1>10. Len(r) = m + 1 /\ \A i \in 1..m + 1 : r[i] = IF i <= k + 1 THEN c[i] ELSE b[i - (k + 1)]
  <2>1. Len(c) + Len(b) = m + 1 /\ Len(c) = k + 1
    BY <1>1, <1>5, <1>7
  <2> QED
    BY <1>9, <2>1
<1>11. ASSUME NEW i \in 1..m + 1
       PROVE  r[i] = IF i <= k THEN q[i] ELSE IF i = k + 1 THEN e ELSE q[i - 1]
  <2>1. CASE i <= k
    BY <1>1, <1>8, <1>10, <2>1
  <2>2. CASE i = k + 1
    BY <1>1, <1>8, <1>10, <2>2
  <2>3. CASE i > k + 1
    <3>1. i - (k + 1) \in 1..m - k /\ k + (i - (k + 1)) = i - 1 /\ ~(i <= k + 1) /\ ~(i <= k) /\ i # k + 1
      BY <1>1, <2>3
    <3>2. b[i - (k + 1)] = q[i - 1]
      BY <1>5, <3>1
    <3> QED
      BY <1>10, <3>1, <3>2
  <2> QED
    BY <1>1, <2>1, <2>2, <2>3
<1>12. Hlist!Abs!InsertAt(q, k + 1, e) = r
  <2>1. (k + 1) - 1 = k
    BY <1>1
  <2> QED
    BY <2>1 DEF Hlist!Abs!InsertAt, r, c, a, b, m
<1> QED
  BY <1>1, <1>9, <1>10, <1>11, <1>12 DEF Longer, m

-----------------------------------------------------------------------------
(***************************************************************************)
(* The invariant of the hlists, and their calls one by one.                *)
(***************************************************************************)
HlistInv == Firm(at, pprev, Hlist!Seqs) /\ Bare(at, pprev, gone, Hlist!Seqs, NULL)

LEMMA HlistNow ==
  ASSUME NEW s, Firm(at, pprev, s)
  PROVE  Hlist!Seqs = s
<1>1. s \in [Heads -> Seq(Entries)]
  BY DEF Firm
<1>2. \A h \in Heads : WalkOf(at, h) = s[h]
  BY <1>1, HlistWalkIs DEF Firm
<1> QED
  BY <1>1, <1>2, HlistWalksAre

LEMMA HlistThen ==
  ASSUME NEW s, Firm(at', pprev', s), Bare(at', pprev', gone', s, NULL)
  PROVE  HlistInv' /\ Hlist!Seqs' = s
<1>1. s \in [Heads -> Seq(Entries)]
  BY DEF Firm
<1>2. \A h \in Heads : WalkOf(at', h) = s[h]
  BY <1>1, HlistWalkIs DEF Firm
<1>3. Hlist!Seqs' = s
  BY <1>1, <1>2, HlistWalksAre
<1> QED
  BY <1>3 DEF HlistInv

LEMMA HlistFacts ==
  ASSUME HlistInv
  PROVE  /\ Hlist!Seqs \in [Heads -> Seq(Entries)]
         /\ at \in [Heads \cup Entries -> Entries \cup {NULL}] /\ pprev \in [Entries -> Nodes \cup {NULL}]
         /\ gone \subseteq Entries
         /\ \A e : Hlist!Linked(e) <=> On(Hlist!Seqs, e)
         /\ \A e \in Entries : /\ Bare(at, pprev, gone, Hlist!Seqs, e)
                               /\ On(Hlist!Seqs, e) => /\ pprev[e] \in Nodes /\ e \notin gone
                                                       /\ at[pprev[e]] = e /\ pprev[e] # e /\ at[e] # e
                                                       /\ at[e] # NULL => pprev[at[e]] = e
                               /\ ~On(Hlist!Seqs, e) => Hlist!Abs!Removed(e) = Hlist!Seqs
                               /\ Hlist!Abs!Removed(e) = Out(Hlist!Seqs, e)
<1> DEFINE s == Hlist!Seqs
<1>1. Firm(at, pprev, s) /\ Bare(at, pprev, gone, s, NULL)
  BY DEF HlistInv
<1>2. \A h \in Heads : Hlist!Walk(h) = s[h]
  BY HlistWalksAre
<1> HIDE DEF s
<1>3. s \in [Heads -> Seq(Entries)]
  BY <1>1 DEF Firm
<1>4. ASSUME NEW e PROVE Hlist!Linked(e) <=> On(s, e)
  <2>1. \A h \in Heads : Hlist!ToSet(s[h]) = Elements(s[h])
    <3> TAKE h \in Heads
    <3>1. s[h] \in Seq(Entries)
      BY <1>3
    <3> QED
      BY <3>1, LenProperties DEF Hlist!ToSet, Elements
  <2> QED
    BY <1>2, <2>1 DEF Hlist!Linked, On
<1>5. ASSUME NEW e \in Entries PROVE Bare(at, pprev, gone, s, e)
  BY <1>1, NodesDiffer DEF Bare
<1>6. ASSUME NEW e \in Entries, On(s, e)
      PROVE  /\ pprev[e] \in Nodes /\ e \notin gone /\ at[pprev[e]] = e /\ pprev[e] # e /\ at[e] # e
             /\ at[e] # NULL => pprev[at[e]] = e
  <2>1. PICK h \in Heads : e \in Elements(s[h])
    BY <1>6 DEF On
  <2>2. PICK k \in 1..Len(s[h]) : s[h][k] = e
    BY <2>1 DEF Elements
  <2> DEFINE q == s[h]
  <2>3. q \in Seq(Entries) /\ Line(at, pprev, h, q) /\ NoneTwice(q)
    BY <1>1, <1>3 DEF Firm
  <2> HIDE DEF q
  <2>4. k \in 1..Len(q) /\ q[k] = e
    BY <2>2 DEF q
  <2>5. /\ Len(q) \in Nat /\ Stop(h, q, k) = e
        /\ k - 1 \in 0..Len(q) /\ (k - 1) + 1 = k /\ k - 1 # Len(q) /\ k \in 0..Len(q)
        /\ k \in 0..Len(q) + 1 /\ k - 1 \in 0..Len(q) + 1 /\ k + 1 \in 0..Len(q) + 1
    BY <2>3, <2>4, StopsAre
  <2>6. /\ at[Stop(h, q, k - 1)] = e /\ pprev[e] = Stop(h, q, k - 1)
        /\ at[e] = Stop(h, q, k + 1) /\ (k # Len(q) => pprev[Stop(h, q, k + 1)] = e)
    <3>1. /\ at[Stop(h, q, k - 1)] = Stop(h, q, (k - 1) + 1)
          /\ pprev[Stop(h, q, (k - 1) + 1)] = Stop(h, q, k - 1)
      BY <2>3, <2>5 DEF Line
    <3>2. /\ at[Stop(h, q, k)] = Stop(h, q, k + 1)
          /\ k # Len(q) => pprev[Stop(h, q, k + 1)] = Stop(h, q, k)
      BY <2>3, <2>5 DEF Line
    <3> QED
      BY <2>5, <3>1, <3>2
  <2>7. Stop(h, q, k - 1) # e /\ Stop(h, q, k + 1) # e
    <3>1. k - 1 # k /\ k + 1 # k
      BY <2>5
    <3> QED
      BY <2>3, <2>5, <3>1, StopsApart
  <2>8. Stop(h, q, k - 1) \in Nodes
    <3>1. Stop(h, q, k - 1) \in {h} \cup Elements(q) /\ Elements(q) \subseteq Entries
      BY <2>3, <2>5, StopsAre
    <3> QED
      BY <3>1, NodesDiffer
  <2>9. k = Len(q) => Stop(h, q, k + 1) = NULL
    BY <2>3, StopsAre
  <2>10. e \notin gone
    BY <1>1, <1>6 DEF Bare
  <2> QED
    BY <2>6, <2>7, <2>8, <2>9, <2>10
<1>7. ASSUME NEW e \in Entries PROVE Hlist!Abs!Removed(e) = Out(s, e)
  <2>1. \A h \in Heads : Hlist!Abs!Without(s[h], e) = List!Abs!Without(s[h], e)
    BY DEF Hlist!Abs!Without, List!Abs!Without, Hlist!Abs!RemoveAt, List!Abs!RemoveAt,
           Hlist!Abs!ToSet, List!Abs!ToSet
  <2>2. Hlist!Abs!Removed(e) = [h \in Heads |-> Hlist!Abs!Without(s[h], e)]
    BY DEF Hlist!Abs!Removed, s
  <2> QED
    BY <2>1, <2>2 DEF Out
<1>8. ASSUME NEW e \in Entries, ~On(s, e) PROVE Out(s, e) = s
  <2>1. ASSUME NEW h \in Heads PROVE List!Abs!Without(s[h], e) = s[h]
    <3>1. s[h] \in Seq(Entries) /\ NoneTwice(s[h])
      BY <1>1, <1>3 DEF Firm
    <3>2. e \notin Elements(s[h])
      BY <1>8 DEF On
    <3> QED
      BY <3>1, <3>2, WithoutIs
  <2> QED
    BY <1>3, <2>1 DEF Out
<1>9. at \in [Heads \cup Entries -> Entries \cup {NULL}] /\ pprev \in [Entries -> Nodes \cup {NULL}]
      /\ gone \subseteq Entries
  BY <1>1 DEF Firm, Bare
<1> QED
  BY <1>3, <1>4, <1>5, <1>6, <1>7, <1>8, <1>9 DEF s

LEMMA HlistInitialise ==
  ASSUME HlistInv, NEW e \in Entries, Hlist!Initialise(e)
  PROVE  HlistInv' /\ Hlist!Seqs' = Hlist!Seqs
<1> DEFINE s == Hlist!Seqs
<1>1. Firm(at, pprev, s) /\ Bare(at, pprev, gone, s, e)
  BY HlistFacts DEF HlistInv
<1>2. ~On(s, e) /\ gone' = gone \ {e} /\ at' = [at EXCEPT ![e] = NULL] /\ pprev' = [pprev EXCEPT ![e] = NULL]
  BY HlistFacts DEF Hlist!Initialise, Hlist!Store, Hlist!INIT_HLIST_NODE, Hlist!Heap
<1>3. /\ at \in [Heads \cup Entries -> Entries \cup {NULL}] /\ pprev \in [Entries -> Nodes \cup {NULL}]
      /\ e \in Heads \cup Entries
  BY HlistFacts
<1>4. /\ at' \in [Heads \cup Entries -> Entries \cup {NULL}] /\ at'[e] = NULL
      /\ \A x \in Nodes : x # e => at'[x] = at[x]
  BY <1>2, <1>3 DEF Nodes
<1>5. /\ pprev' \in [Entries -> Nodes \cup {NULL}] /\ pprev'[e] \in {NULL, e}
      /\ \A x \in Entries : x # e => pprev'[x] = pprev[x]
  BY <1>2, <1>3
<1>6. ~On(s, e) /\ gone' = gone \ {e}
  BY <1>2
<1> HIDE DEF s
<1>7. Firm(at', pprev', s) /\ Bare(at', pprev', gone \ {e}, s, NULL)
  BY <1>1, <1>4, <1>5, <1>6, HlistPutOff
<1>8. Bare(at', pprev', gone', s, NULL)
  BY <1>6, <1>7
<1> QED
  BY <1>7, <1>8, HlistThen DEF s

LEMMA HlistAddFake ==
  ASSUME HlistInv, NEW e \in Entries, Hlist!AddFake(e)
  PROVE  HlistInv' /\ Hlist!Seqs' = Hlist!Seqs
<1> DEFINE s == Hlist!Seqs
<1>1. Firm(at, pprev, s) /\ Bare(at, pprev, gone, s, e) /\ Bare(at, pprev, gone, s, NULL)
  BY HlistFacts DEF HlistInv
<1>2. e \notin gone /\ pprev[e] = NULL /\ gone' = gone /\ e # NULL
      /\ at' = at /\ pprev' = [pprev EXCEPT ![e] = e]
  BY NodesDiffer DEF Hlist!AddFake, Hlist!Store, Hlist!hlist_add_fake, Hlist!hlist_unhashed, Hlist!Heap,
     Hlist!PointBack
<1>3. /\ at \in [Heads \cup Entries -> Entries \cup {NULL}] /\ pprev \in [Entries -> Nodes \cup {NULL}]
      /\ (On(s, e) => pprev[e] \in Nodes)
  BY HlistFacts
<1> HIDE DEF s
<1>4. ~On(s, e) /\ at[e] = NULL
  <2>1. ~On(s, e)
    BY <1>2, <1>3, NodesDiffer DEF Nodes
  <2> QED
    BY <1>1, <1>2, <2>1 DEF Bare
<1>5. /\ pprev' \in [Entries -> Nodes \cup {NULL}] /\ pprev'[e] \in {NULL, e}
      /\ \A x \in Entries : x # e => pprev'[x] = pprev[x]
  BY <1>2, <1>3, NodesDiffer
<1>6. /\ at' \in [Heads \cup Entries -> Entries \cup {NULL}] /\ at'[e] = NULL
      /\ \A x \in Nodes : x # e => at'[x] = at[x]
  BY <1>2, <1>3, <1>4
<1>7. Firm(at', pprev', s) /\ Bare(at', pprev', gone \ {e}, s, NULL)
  BY <1>1, <1>4, <1>5, <1>6, HlistPutOff
<1>8. gone \ {e} = gone'
  BY <1>2
<1> QED
  BY <1>7, <1>8, HlistThen DEF s

\* __hlist_del() of an entry that is on a list.
LEMMA HlistUnlink ==
  ASSUME HlistInv, NEW e \in Entries, On(Hlist!Seqs, e)
  PROVE  LET u == Hlist!Unlink(Hlist!Heap, e)
             r == Out(Hlist!Seqs, e)
         IN Firm(u.at, u.pprev, r) /\ ~On(r, e) /\ Bare(u.at, u.pprev, gone, r, e)
<1> DEFINE s == Hlist!Seqs
           u == Hlist!Unlink(Hlist!Heap, e)
           ua == u.at
           up == u.pprev
<1>1. Firm(at, pprev, s) /\ Bare(at, pprev, gone, s, NULL)
  BY DEF HlistInv
<1>2. /\ at \in [Heads \cup Entries -> Entries \cup {NULL}] /\ pprev \in [Entries -> Nodes \cup {NULL}]
      /\ pprev[e] \in Nodes /\ at[e] \in Entries \cup {NULL}
  <2>1. /\ at \in [Heads \cup Entries -> Entries \cup {NULL}] /\ pprev \in [Entries -> Nodes \cup {NULL}]
        /\ pprev[e] \in Nodes
    BY HlistFacts
  <2> QED
    BY <2>1
<1>3. /\ ua = [at EXCEPT ![pprev[e]] = at[e]]
      /\ up = IF at[e] = NULL THEN pprev ELSE [pprev EXCEPT ![at[e]] = pprev[e]]
  BY DEF Hlist!Unlink, Hlist!Heap, Hlist!Point, Hlist!PointBack
<1> HIDE DEF ua, up, u, s
<1>4. /\ ua \in [Heads \cup Entries -> Entries \cup {NULL}] /\ ua[pprev[e]] = at[e]
      /\ \A x \in Nodes : x # pprev[e] => ua[x] = at[x]
  BY <1>2, <1>3 DEF Nodes
<1>5. /\ up \in [Entries -> Nodes \cup {NULL}] /\ (at[e] # NULL => up[at[e]] = pprev[e])
      /\ \A x \in Entries : x # at[e] => up[x] = pprev[x]
  <2>1. CASE at[e] = NULL
    BY <1>2, <1>3, <2>1
  <2>2. CASE at[e] # NULL
    <3>1. at[e] \in Entries /\ up = [pprev EXCEPT ![at[e]] = pprev[e]]
      BY <1>2, <1>3, <2>2
    <3> QED
      BY <1>2, <3>1
  <2> QED
    BY <2>1, <2>2
<1>6. Takes(at, pprev, ua, up, pprev[e], at[e])
  BY <1>4, <1>5 DEF Takes
<1>7. On(s, e)
  BY DEF s
<1>8. Firm(ua, up, Out(s, e)) /\ ~On(Out(s, e), e) /\ Bare(ua, up, gone, Out(s, e), e)
  BY <1>1, <1>6, <1>7, HlistTaken
<1> QED
  BY <1>8 DEF ua, up, u, s

LEMMA HlistDelete ==
  ASSUME HlistInv, NEW e \in Entries
  PROVE  Hlist!Delete(e) => HlistInv' /\ Hlist!Abs!Delete(e)
<1> DEFINE s == Hlist!Seqs
           u == Hlist!Unlink(Hlist!Heap, e)
<1> SUFFICES ASSUME Hlist!Delete(e) PROVE HlistInv' /\ Hlist!Seqs' = Out(s, e)
  BY HlistFacts DEF Hlist!Abs!Delete
<1>1. e \notin gone /\ pprev[e] # NULL /\ at' = u.at /\ pprev' = u.pprev /\ gone' = gone \cup {e}
  BY DEF Hlist!Delete, Hlist!Store
<1>2. CASE On(s, e)
  <2>1. Firm(at', pprev', Out(s, e)) /\ ~On(Out(s, e), e) /\ Bare(at', pprev', gone, Out(s, e), e)
    BY <1>1, <1>2, HlistUnlink
  <2>2. Bare(at', pprev', gone', Out(s, e), NULL)
    <3> HIDE DEF s
    <3>1. gone' \subseteq Entries /\ \A x \in Entries : On(Out(s, e), x) => x \notin gone'
      BY <1>1, <2>1 DEF Bare
    <3>2. \A x \in Entries \ gone' : x \in Entries \ gone /\ x # e
      BY <1>1
    <3> QED
      BY <2>1, <3>1, <3>2 DEF Bare
  <2> QED
    BY <2>1, <2>2, HlistThen
<1>3. CASE ~On(s, e)
  <2>1. /\ Firm(at, pprev, s) /\ Bare(at, pprev, gone, s, NULL) /\ Out(s, e) = s /\ e # NULL
        /\ at \in [Heads \cup Entries -> Entries \cup {NULL}]
    BY <1>3, HlistFacts, NodesDiffer DEF HlistInv
  <2>2. pprev[e] = e /\ at[e] = NULL
    <3> HIDE DEF s
    <3> QED
      BY <1>1, <1>3, <2>1 DEF Bare
  <2>3. u.at = [at EXCEPT ![e] = NULL] /\ u.pprev = pprev
    BY <2>2 DEF Hlist!Unlink, Hlist!Heap, Hlist!Point, Hlist!PointBack
  <2>4. at' = at /\ pprev' = pprev
    BY <1>1, <2>1, <2>2, <2>3
  <2>5. Bare(at, pprev, gone', s, NULL)
    <3> HIDE DEF s
    <3> QED
      BY <1>1, <1>3, <2>1 DEF Bare
  <2>6. Firm(at', pprev', s) /\ Bare(at', pprev', gone', s, NULL)
    BY <2>1, <2>4, <2>5
  <2> QED
    BY <2>1, <2>6, HlistThen
<1> QED
  BY <1>2, <1>3

LEMMA HlistDeleteInit ==
  ASSUME HlistInv, NEW e \in Entries
  PROVE  Hlist!DeleteInit(e) => HlistInv' /\ Hlist!Abs!Delete(e)
<1> DEFINE s == Hlist!Seqs
           u == Hlist!Unlink(Hlist!Heap, e)
           ua == u.at
           up == u.pprev
<1> SUFFICES ASSUME Hlist!DeleteInit(e) PROVE HlistInv' /\ Hlist!Seqs' = Out(s, e)
  BY HlistFacts DEF Hlist!Abs!Delete
<1>1. e \notin gone /\ gone' = gone
  BY DEF Hlist!DeleteInit
<1>2. /\ Firm(at, pprev, s) /\ Bare(at, pprev, gone, s, NULL) /\ Bare(at, pprev, gone, s, e)
      /\ (~On(s, e) => Out(s, e) = s) /\ e # NULL /\ (On(s, e) => pprev[e] \in Nodes)
      /\ at \in [Heads \cup Entries -> Entries \cup {NULL}] /\ pprev \in [Entries -> Nodes \cup {NULL}]
      /\ NULL \notin Nodes
  BY HlistFacts, NodesDiffer DEF HlistInv, Nodes
<1>3. CASE pprev[e] = NULL
  <2>1. at' = at /\ pprev' = pprev
    BY <1>3 DEF Hlist!DeleteInit, Hlist!Store, Hlist!hlist_del_init, Hlist!hlist_unhashed, Hlist!Heap
  <2>2. ~On(s, e)
    BY <1>2, <1>3
  <2>3. Firm(at', pprev', s) /\ Bare(at', pprev', gone', s, NULL)
    BY <1>1, <1>2, <2>1
  <2> QED
    BY <1>2, <2>2, <2>3, HlistThen
<1>4. CASE pprev[e] # NULL
  <2>1. at' = [ua EXCEPT ![e] = NULL] /\ pprev' = [up EXCEPT ![e] = NULL]
    BY <1>4 DEF Hlist!DeleteInit, Hlist!Store, Hlist!hlist_del_init, Hlist!hlist_unhashed, Hlist!Heap,
       Hlist!INIT_HLIST_NODE
  <2>2. Firm(ua, up, Out(s, e)) /\ ~On(Out(s, e), e) /\ Bare(ua, up, gone, Out(s, e), e)
    <3>1. CASE On(s, e)
      BY <3>1, HlistUnlink
    <3>2. CASE ~On(s, e)
      <4>1. pprev[e] = e /\ at[e] = NULL
        <5> HIDE DEF s
        <5> QED
          BY <1>1, <1>2, <1>4, <3>2 DEF Bare
      <4>2. ua = [at EXCEPT ![e] = NULL] /\ up = pprev
        BY <4>1 DEF Hlist!Unlink, Hlist!Heap, Hlist!Point, Hlist!PointBack
      <4>3. ua = at
        BY <1>2, <4>1, <4>2
      <4> QED
        BY <1>2, <3>2, <4>2, <4>3
    <3> QED
      BY <3>1, <3>2
  <2> DEFINE r == Out(s, e)
  <2> HIDE DEF s, u, ua, up, r
  <2>3. Firm(ua, up, r) /\ ~On(r, e) /\ Bare(ua, up, gone, r, e)
    BY <2>2 DEF r
  <2>4. ua \in [Heads \cup Entries -> Entries \cup {NULL}] /\ up \in [Entries -> Nodes \cup {NULL}]
        /\ e \in Heads \cup Entries
    BY <2>3 DEF Firm
  <2>5. /\ at' \in [Heads \cup Entries -> Entries \cup {NULL}] /\ at'[e] = NULL
        /\ \A x \in Nodes : x # e => at'[x] = ua[x]
    BY <2>1, <2>4 DEF Nodes
  <2>6. /\ pprev' \in [Entries -> Nodes \cup {NULL}] /\ pprev'[e] \in {NULL, e}
        /\ \A x \in Entries : x # e => pprev'[x] = up[x]
    BY <2>1, <2>4
  <2>7. Firm(at', pprev', r) /\ Bare(at', pprev', gone \ {e}, r, NULL)
    BY <2>3, <2>5, <2>6, HlistPutOff
  <2>8. gone \ {e} = gone'
    BY <1>1
  <2> QED
    BY <2>7, <2>8, HlistThen DEF r
<1> QED
  BY <1>3, <1>4

\* The two pointers that meet between two neighbours.
LEMMA HlistNeighbours ==
  ASSUME NEW ax, NEW pp, NEW s, Firm(ax, pp, s), NEW h \in Heads, NEW k \in 0..Len(s[h])
  PROVE  /\ ax[Stop(h, s[h], k)] = Stop(h, s[h], k + 1)
         /\ Stop(h, s[h], k) \in {h} \cup Elements(s[h]) /\ Stop(h, s[h], k) \in Nodes
         /\ Stop(h, s[h], k + 1) \in Elements(s[h]) \cup {NULL}
         /\ Elements(s[h]) \subseteq Entries
         /\ Stop(h, s[h], k + 1) # NULL => pp[Stop(h, s[h], k + 1)] = Stop(h, s[h], k)
<1>1. s[h] \in Seq(Entries) /\ Line(ax, pp, h, s[h])
  BY DEF Firm
<1>2. /\ Stop(h, s[h], k) \in {h} \cup Elements(s[h]) /\ Elements(s[h]) \subseteq Entries
      /\ Stop(h, s[h], Len(s[h]) + 1) = NULL
  BY <1>1, StopsAre
<1>3. Stop(h, s[h], k + 1) \in Elements(s[h]) \cup {NULL}
  <2>1. Len(s[h]) \in Nat
    BY <1>1, StopsAre
  <2>2. k + 1 \in 1..Len(s[h]) + 1
    BY <2>1
  <2> QED
    BY <1>1, <2>2, StopsAre
<1>4. /\ ax[Stop(h, s[h], k)] = Stop(h, s[h], k + 1)
      /\ k # Len(s[h]) => pp[Stop(h, s[h], k + 1)] = Stop(h, s[h], k)
  BY <1>1 DEF Line
<1>5. Stop(h, s[h], k + 1) # NULL => k # Len(s[h])
  BY <1>2
<1>6. Stop(h, s[h], k) \in Nodes
  BY <1>2, NodesDiffer
<1> QED
  BY <1>2, <1>3, <1>4, <1>5, <1>6

LEMMA HlistAdded ==
  ASSUME HlistInv, NEW e \in Entries, ~On(Hlist!Seqs, e), NEW h \in Heads,
         NEW k \in 0..Len(Hlist!Seqs[h]), NEW q2 \in Seq(Entries), Longer(Hlist!Seqs[h], k, e, q2),
         Adds(at, pprev, at', pprev', Stop(h, Hlist!Seqs[h], k), Stop(h, Hlist!Seqs[h], k + 1), e),
         gone' = gone \ {e}
  PROVE  HlistInv' /\ Hlist!Seqs' = [Hlist!Seqs EXCEPT ![h] = q2]
<1> DEFINE s == Hlist!Seqs
<1>1. Firm(at, pprev, s) /\ Bare(at, pprev, gone, s, NULL)
  BY DEF HlistInv
<1> HIDE DEF s
<1>2. ~On(s, e) /\ k \in 0..Len(s[h]) /\ Longer(s[h], k, e, q2)
      /\ Adds(at, pprev, at', pprev', Stop(h, s[h], k), Stop(h, s[h], k + 1), e)
  BY DEF s
<1>3. Firm(at', pprev', [s EXCEPT ![h] = q2]) /\ Bare(at', pprev', gone \ {e}, [s EXCEPT ![h] = q2], NULL)
  BY <1>1, <1>2, HlistInserted
<1>4. Bare(at', pprev', gone', [s EXCEPT ![h] = q2], NULL)
  BY <1>3
<1> QED
  BY <1>3, <1>4, HlistThen DEF s

\* The stores of the three functions, in whatever order.
LEMMA HlistLinks ==
  ASSUME NEW ax \in [Heads \cup Entries -> Entries \cup {NULL}], NEW pp \in [Entries -> Nodes \cup {NULL}],
         NEW e \in Entries, NEW p \in Nodes, NEW n \in Entries \cup {NULL}, p # e, n # e,
         NEW ax2, NEW pp2, ax2 = [[ax EXCEPT ![e] = n] EXCEPT ![p] = e],
         pp2 = [(IF n = NULL THEN pp ELSE [pp EXCEPT ![n] = e]) EXCEPT ![e] = p]
  PROVE  Adds(ax, pp, ax2, pp2, p, n, e)
<1>1. e \in Heads \cup Entries /\ p \in Heads \cup Entries /\ e \in Nodes
  BY NodesDiffer DEF Nodes
<1>2. ax2 \in [Heads \cup Entries -> Entries \cup {NULL}]
  BY <1>1
<1>3. ax2[e] = n /\ ax2[p] = e
  BY <1>1
<1>4. \A x \in Nodes : x # e /\ x # p => ax2[x] = ax[x]
  BY <1>1 DEF Nodes
<1> DEFINE pb == IF n = NULL THEN pp ELSE [pp EXCEPT ![n] = e]
<1>5. /\ pb \in [Entries -> Nodes \cup {NULL}] /\ (n # NULL => pb[n] = e)
      /\ \A x \in Entries : x # n => pb[x] = pp[x]
  <2>1. CASE n = NULL
    BY <2>1
  <2>2. CASE n # NULL
    <3>1. n \in Entries /\ pb = [pp EXCEPT ![n] = e]
      BY <2>2
    <3> QED
      BY <1>1, <3>1
  <2> QED
    BY <2>1, <2>2
<1>6. pp2 = [pb EXCEPT ![e] = p]
  OBVIOUS
<1> HIDE DEF pb
<1>7. pp2 \in [Entries -> Nodes \cup {NULL}] /\ pp2[e] = p /\ \A x \in Entries : x # e => pp2[x] = pb[x]
  BY <1>5, <1>6
<1>8. n # NULL => pp2[n] = e
  BY <1>5, <1>7
<1> QED
  BY <1>2, <1>3, <1>4, <1>5, <1>7, <1>8 DEF Adds

LEMMA HlistAddHead ==
  ASSUME HlistInv, NEW e \in Entries, NEW h \in Heads
  PROVE  Hlist!AddHead(e, h) => HlistInv' /\ Hlist!Abs!PutFirst(e, h)
<1> DEFINE s == Hlist!Seqs
           q2 == <<e>> \o s[h]
<1> SUFFICES ASSUME Hlist!AddHead(e, h) PROVE HlistInv' /\ Hlist!Seqs' = [s EXCEPT ![h] = q2]
  <2>1. Hlist!AddHead(e, h) => Hlist!Abs!Removed(e) = s
    BY HlistFacts DEF Hlist!AddHead
  <2> QED
    BY <2>1 DEF Hlist!Abs!PutFirst
<1>1. Firm(at, pprev, s) /\ ~On(s, e) /\ s[h] \in Seq(Entries) /\ gone' = gone \ {e}
  BY HlistFacts DEF Hlist!AddHead, HlistInv
<1>2. /\ at \in [Heads \cup Entries -> Entries \cup {NULL}] /\ pprev \in [Entries -> Nodes \cup {NULL}]
      /\ e # NULL /\ h # e /\ h \in Nodes
  BY HlistFacts, NodesDiffer
<1>3. /\ at' = [[at EXCEPT ![e] = at[h]] EXCEPT ![h] = e]
      /\ pprev' = [(IF at[h] = NULL THEN pprev ELSE [pprev EXCEPT ![at[h]] = e]) EXCEPT ![e] = h]
  <2>1. /\ at' = Hlist!hlist_add_head(Hlist!Heap, e, h).at
        /\ pprev' = Hlist!hlist_add_head(Hlist!Heap, e, h).pprev
    BY DEF Hlist!AddHead, Hlist!Store
  <2>2. CASE at[h] = NULL
    BY <1>2, <2>1, <2>2 DEF Hlist!hlist_add_head, Hlist!Heap, Hlist!Point, Hlist!PointBack
  <2>3. CASE at[h] # NULL
    BY <1>2, <2>1, <2>3 DEF Hlist!hlist_add_head, Hlist!Heap, Hlist!Point, Hlist!PointBack
  <2> QED
    BY <2>2, <2>3
<1> HIDE DEF s
<1>4. 0 \in 0..Len(s[h]) /\ 0 + 1 = 1 /\ Stop(h, s[h], 0) = h
  BY <1>1, StopsAre
<1>5. /\ at[h] = Stop(h, s[h], 0 + 1) /\ at[h] \in Elements(s[h]) \cup {NULL}
      /\ Elements(s[h]) \subseteq Entries
  BY <1>1, <1>4, HlistNeighbours
<1>6. at[h] # e /\ at[h] \in Entries \cup {NULL}
  BY <1>1, <1>2, <1>5 DEF On
<1>7. Adds(at, pprev, at', pprev', h, at[h], e)
  BY <1>2, <1>3, <1>6, HlistLinks
<1>8. Adds(at, pprev, at', pprev', Stop(h, s[h], 0), Stop(h, s[h], 0 + 1), e)
  BY <1>4, <1>5, <1>7
<1>9. q2 \in Seq(Entries) /\ Longer(s[h], 0, e, q2)
  BY <1>1, PushIs
<1> HIDE DEF q2
<1>10. 0 \in 0..Len(Hlist!Seqs[h]) /\ Longer(Hlist!Seqs[h], 0, e, q2) /\ ~On(Hlist!Seqs, e)
       /\ Adds(at, pprev, at', pprev', Stop(h, Hlist!Seqs[h], 0), Stop(h, Hlist!Seqs[h], 0 + 1), e)
  BY <1>1, <1>4, <1>8, <1>9 DEF s
<1>11. HlistInv' /\ Hlist!Seqs' = [Hlist!Seqs EXCEPT ![h] = q2]
  BY <1>1, <1>9, <1>10, HlistAdded
<1> QED
  BY <1>11 DEF s

\* Which sequence an entry is put into, and where.
LEMMA PlaceIs ==
  ASSUME HlistInv, NEW e \in Entries, NEW h \in Heads, NEW i \in 1..Len(Hlist!Seqs[h]),
         NEW offset \in {0, 1}, NEW n, n = Hlist!Seqs[h][i]
  PROVE  Hlist!Abs!Place(e, n, offset)
           <=> Hlist!Seqs' = [Hlist!Seqs EXCEPT ![h] = Hlist!Abs!InsertAt(@, i + offset, e)]
<1> DEFINE s == Hlist!Seqs
           spot(q) == CHOOSE j \in 1..Len(q) : q[j] = n
           put(g) == IF n \in Hlist!Abs!ToSet(s[g]) THEN Hlist!Abs!InsertAt(s[g], spot(s[g]) + offset, e)
                     ELSE s[g]
<1>1. /\ s \in [Heads -> Seq(Entries)] /\ NoneTwice(s[h])
      /\ \A g \in Heads : g # h => Elements(s[g]) \cap Elements(s[h]) = {}
  BY DEF HlistInv, Firm
<1>2. \A g \in Heads : Hlist!Abs!ToSet(s[g]) = Elements(s[g])
  <2>1. \A g \in Heads : s[g] \in Seq(Entries)
    BY <1>1
  <2> QED
    BY <2>1, LenProperties DEF Hlist!Abs!ToSet, Elements
<1>3. Hlist!Abs!Place(e, n, offset) <=> Hlist!Seqs' = [g \in Heads |-> put(g)]
  BY DEF Hlist!Abs!Place
<1> HIDE DEF s
<1>4. i \in 1..Len(s[h]) /\ s[h][i] = n
  BY DEF s
<1>5. n \in Elements(s[h]) /\ \A g \in Heads : g # h => n \notin Elements(s[g])
  BY <1>1, <1>4 DEF Elements
<1>6. spot(s[h]) = i
  BY <1>1, <1>4 DEF NoneTwice
<1> HIDE DEF spot
<1>7. put(h) = Hlist!Abs!InsertAt(s[h], i + offset, e) /\ \A g \in Heads : g # h => put(g) = s[g]
  BY <1>2, <1>5, <1>6
<1> HIDE DEF put
<1>8. [g \in Heads |-> put(g)] = [s EXCEPT ![h] = Hlist!Abs!InsertAt(@, i + offset, e)]
  BY <1>1, <1>7
<1> QED
  BY <1>3, <1>8 DEF s

LEMMA HlistAddBefore ==
  ASSUME HlistInv, NEW e \in Entries, NEW n \in Entries
  PROVE  Hlist!AddBefore(e, n) => HlistInv' /\ Hlist!Abs!PutBefore(e, n)
<1> DEFINE s == Hlist!Seqs
           p == pprev[n]
<1> SUFFICES ASSUME Hlist!AddBefore(e, n) PROVE HlistInv' /\ Hlist!Abs!Place(e, n, 0)
  BY DEF Hlist!Abs!PutBefore
<1>1. /\ Firm(at, pprev, s) /\ s \in [Heads -> Seq(Entries)] /\ ~On(s, e) /\ On(s, n)
      /\ gone' = gone \ {e}
  BY HlistFacts DEF Hlist!AddBefore, HlistInv
<1>2. /\ at \in [Heads \cup Entries -> Entries \cup {NULL}] /\ pprev \in [Entries -> Nodes \cup {NULL}]
      /\ e # NULL /\ n # NULL /\ n # e
  BY <1>1, HlistFacts, NodesDiffer
<1> HIDE DEF s
<1>3. PICK h \in Heads : n \in Elements(s[h])
  BY <1>1 DEF On
<1>4. PICK i \in 1..Len(s[h]) : s[h][i] = n
  BY <1>3 DEF Elements
<1>5. /\ s[h] \in Seq(Entries) /\ i - 1 \in 0..Len(s[h]) /\ (i - 1) + 1 = i /\ i + 0 = i
      /\ Stop(h, s[h], i) = n
  BY <1>1, <1>4, StopsAre
<1>6. /\ Stop(h, s[h], (i - 1) + 1) = n
      /\ Stop(h, s[h], i - 1) \in {h} \cup Elements(s[h]) /\ Stop(h, s[h], i - 1) \in Nodes
      /\ pprev[Stop(h, s[h], (i - 1) + 1)] = Stop(h, s[h], i - 1)
  <2>1. Stop(h, s[h], (i - 1) + 1) = n
    BY <1>5
  <2>2. Stop(h, s[h], (i - 1) + 1) # NULL
    BY <1>2, <2>1
  <2> QED
    BY <1>1, <1>5, <2>1, <2>2, HlistNeighbours
<1>7. p = Stop(h, s[h], i - 1) /\ p \in Nodes /\ p # e /\ p # NULL
  <2>1. p = Stop(h, s[h], i - 1)
    BY <1>6
  <2>2. e \notin Elements(s[h]) /\ e # h
    BY <1>1, NodesDiffer DEF On
  <2> QED
    BY <1>6, <2>1, <2>2, NodesDiffer DEF Nodes
<1>8. /\ at' = [[at EXCEPT ![e] = n] EXCEPT ![p] = e]
      /\ pprev' = [[pprev EXCEPT ![e] = p] EXCEPT ![n] = e]
  <2>1. /\ at' = Hlist!hlist_add_before(Hlist!Heap, e, n).at
        /\ pprev' = Hlist!hlist_add_before(Hlist!Heap, e, n).pprev
    BY DEF Hlist!AddBefore, Hlist!Store
  <2> QED
    BY <1>2, <2>1 DEF Hlist!hlist_add_before, Hlist!Heap, Hlist!Point, Hlist!PointBack
<1> HIDE DEF p
<1>9. pprev' = [(IF n = NULL THEN pprev ELSE [pprev EXCEPT ![n] = e]) EXCEPT ![e] = p]
  <2>1. pprev' = [[pprev EXCEPT ![n] = e] EXCEPT ![e] = p]
    BY <1>2, <1>8
  <2> QED
    BY <1>2, <2>1
<1>10. Adds(at, pprev, at', pprev', p, n, e)
  <2>1. at' = [[at EXCEPT ![e] = n] EXCEPT ![p] = e]
    BY <1>8
  <2> QED
    BY <1>2, <1>7, <1>9, <2>1, HlistLinks
<1> DEFINE q2 == Hlist!Abs!InsertAt(s[h], i, e)
<1>11. q2 \in Seq(Entries) /\ Longer(s[h], i - 1, e, q2)
  <2>1. /\ Hlist!Abs!InsertAt(s[h], (i - 1) + 1, e) \in Seq(Entries)
        /\ Longer(s[h], i - 1, e, Hlist!Abs!InsertAt(s[h], (i - 1) + 1, e))
    BY <1>5, InsertAtIs
  <2> QED
    BY <1>5, <2>1
<1> HIDE DEF q2
<1>12. Adds(at, pprev, at', pprev', Stop(h, s[h], i - 1), Stop(h, s[h], (i - 1) + 1), e)
  BY <1>6, <1>7, <1>10
<1>13. HlistInv' /\ Hlist!Seqs' = [Hlist!Seqs EXCEPT ![h] = q2]
  <2>1. i - 1 \in 0..Len(Hlist!Seqs[h]) /\ Longer(Hlist!Seqs[h], i - 1, e, q2) /\ ~On(Hlist!Seqs, e)
        /\ Adds(at, pprev, at', pprev', Stop(h, Hlist!Seqs[h], i - 1),
                Stop(h, Hlist!Seqs[h], (i - 1) + 1), e)
    BY <1>1, <1>5, <1>11, <1>12 DEF s
  <2> QED
    BY <1>1, <1>11, <2>1, HlistAdded
<1>14. Hlist!Seqs' = [Hlist!Seqs EXCEPT ![h] = Hlist!Abs!InsertAt(@, i + 0, e)]
  BY <1>5, <1>13 DEF q2, s
<1>15. Hlist!Abs!Place(e, n, 0)
  <2>1. i \in 1..Len(Hlist!Seqs[h]) /\ n = Hlist!Seqs[h][i] /\ 0 \in {0, 1}
    BY <1>4 DEF s
  <2> QED
    BY <1>14, <2>1, PlaceIs
<1> QED
  BY <1>13, <1>15

LEMMA HlistAddAfter ==
  ASSUME HlistInv, NEW e \in Entries, NEW n \in Entries
  PROVE  Hlist!AddAfter(e, n) => HlistInv' /\ Hlist!Abs!PutAfter(e, n)
<1> DEFINE s == Hlist!Seqs
           b == at[n]
<1> SUFFICES ASSUME Hlist!AddAfter(e, n) PROVE HlistInv' /\ Hlist!Abs!Place(e, n, 1)
  BY DEF Hlist!Abs!PutAfter
<1>1. /\ Firm(at, pprev, s) /\ s \in [Heads -> Seq(Entries)] /\ ~On(s, e) /\ On(s, n)
      /\ gone' = gone \ {e}
  BY HlistFacts DEF Hlist!AddAfter, HlistInv
<1>2. /\ at \in [Heads \cup Entries -> Entries \cup {NULL}] /\ pprev \in [Entries -> Nodes \cup {NULL}]
      /\ e # NULL /\ n # NULL /\ n # e /\ n \in Nodes /\ b \in Entries \cup {NULL}
      /\ e \in Heads \cup Entries /\ n \in Heads \cup Entries
  BY <1>1, HlistFacts, NodesDiffer
<1> HIDE DEF s
<1>3. PICK h \in Heads : n \in Elements(s[h])
  BY <1>1 DEF On
<1>4. PICK i \in 1..Len(s[h]) : s[h][i] = n
  BY <1>3 DEF Elements
<1>5. s[h] \in Seq(Entries) /\ i \in 0..Len(s[h]) /\ Stop(h, s[h], i) = n
  BY <1>1, <1>4, StopsAre
<1>6. b = Stop(h, s[h], i + 1) /\ b \in Elements(s[h]) \cup {NULL}
  BY <1>1, <1>5, HlistNeighbours
<1>7. b # e
  BY <1>1, <1>2, <1>6 DEF On
<1>8. /\ at' = [[at EXCEPT ![e] = b] EXCEPT ![n] = e]
      /\ pprev' = IF b = NULL THEN [pprev EXCEPT ![e] = n] ELSE [[pprev EXCEPT ![e] = n] EXCEPT ![b] = e]
  <2> DEFINE linked == Hlist!PointBack(Hlist!Point(Hlist!Point(Hlist!Heap, e, b), n, e), e, n)
  <2>1. /\ at' = Hlist!PointBack(linked, linked.at[e], e).at
        /\ pprev' = Hlist!PointBack(linked, linked.at[e], e).pprev
    BY DEF Hlist!AddAfter, Hlist!Store, Hlist!hlist_add_after, Hlist!Heap
  <2>2. linked.at = [[at EXCEPT ![e] = b] EXCEPT ![n] = e] /\ linked.pprev = [pprev EXCEPT ![e] = n]
    BY <1>2 DEF Hlist!Heap, Hlist!Point, Hlist!PointBack
  <2>3. linked = [at |-> linked.at, pprev |-> linked.pprev]
    BY <1>2 DEF Hlist!Heap, Hlist!Point, Hlist!PointBack
  <2> HIDE DEF b
  <2>4. linked.at[e] = b
    BY <1>2, <2>2
  <2> HIDE DEF linked
  <2>5. CASE b = NULL
    BY <2>1, <2>2, <2>4, <2>5 DEF Hlist!PointBack
  <2>6. CASE b # NULL
    <3>1. Hlist!PointBack(linked, b, e) = [linked EXCEPT !.pprev[b] = e]
      BY <2>6 DEF Hlist!PointBack
    <3>2. /\ [linked EXCEPT !.pprev[b] = e].at = linked.at
          /\ [linked EXCEPT !.pprev[b] = e].pprev = [linked.pprev EXCEPT ![b] = e]
      BY <2>3
    <3> QED
      BY <2>1, <2>2, <2>4, <2>6, <3>1, <3>2
  <2> QED
    BY <2>5, <2>6
<1> HIDE DEF b
<1>9. pprev' = [(IF b = NULL THEN pprev ELSE [pprev EXCEPT ![b] = e]) EXCEPT ![e] = n]
  <2>1. CASE b = NULL
    BY <1>8, <2>1
  <2>2. CASE b # NULL
    <3>1. pprev' = [[pprev EXCEPT ![b] = e] EXCEPT ![e] = n]
      BY <1>2, <1>7, <1>8, <2>2
    <3> QED
      BY <2>2, <3>1
  <2> QED
    BY <2>1, <2>2
<1>10. Adds(at, pprev, at', pprev', n, b, e)
  <2>1. at' = [[at EXCEPT ![e] = b] EXCEPT ![n] = e]
    BY <1>8
  <2> QED
    BY <1>2, <1>7, <1>9, <2>1, HlistLinks
<1> DEFINE q2 == Hlist!Abs!InsertAt(s[h], i + 1, e)
<1>11. q2 \in Seq(Entries) /\ Longer(s[h], i, e, q2)
  BY <1>5, InsertAtIs
<1> HIDE DEF q2
<1>12. Adds(at, pprev, at', pprev', Stop(h, s[h], i), Stop(h, s[h], i + 1), e)
  BY <1>5, <1>6, <1>10
<1>13. HlistInv' /\ Hlist!Seqs' = [Hlist!Seqs EXCEPT ![h] = q2]
  <2>1. i \in 0..Len(Hlist!Seqs[h]) /\ Longer(Hlist!Seqs[h], i, e, q2) /\ ~On(Hlist!Seqs, e)
        /\ Adds(at, pprev, at', pprev', Stop(h, Hlist!Seqs[h], i), Stop(h, Hlist!Seqs[h], i + 1), e)
    BY <1>1, <1>5, <1>11, <1>12 DEF s
  <2> QED
    BY <1>1, <1>11, <2>1, HlistAdded
<1>14. Hlist!Seqs' = [Hlist!Seqs EXCEPT ![h] = Hlist!Abs!InsertAt(@, i + 1, e)]
  BY <1>13 DEF q2, s
<1>15. Hlist!Abs!Place(e, n, 1)
  <2>1. i \in 1..Len(Hlist!Seqs[h]) /\ n = Hlist!Seqs[h][i] /\ 1 \in {0, 1}
    BY <1>4 DEF s
  <2> QED
    BY <1>14, <2>1, PlaceIs
<1> QED
  BY <1>13, <1>15

LEMMA HlistMoveList ==
  ASSUME HlistInv, NEW g \in Heads, NEW h \in Heads
  PROVE  Hlist!MoveList(g, h) => HlistInv' /\ Hlist!Abs!Splice(g, h)
<1> DEFINE s == Hlist!Seqs
           s2 == [s EXCEPT ![h] = s[g] \o @, ![g] = << >>]
           b == at[g]
<1> SUFFICES ASSUME Hlist!MoveList(g, h) PROVE HlistInv' /\ Hlist!Seqs' = s2
  BY DEF Hlist!Abs!Splice, Hlist!MoveList
<1>1. /\ Firm(at, pprev, s) /\ Bare(at, pprev, gone, s, NULL) /\ g # h /\ at[h] = NULL /\ gone' = gone
  BY DEF Hlist!MoveList, HlistInv
<1>2. /\ at \in [Heads \cup Entries -> Entries \cup {NULL}] /\ pprev \in [Entries -> Nodes \cup {NULL}]
      /\ g \in Heads \cup Entries /\ h \in Heads \cup Entries /\ h \in Nodes /\ b \in Entries \cup {NULL}
  BY HlistFacts DEF Nodes
<1>3. /\ at' = [[at EXCEPT ![h] = b] EXCEPT ![g] = NULL]
      /\ pprev' = IF b = NULL THEN pprev ELSE [pprev EXCEPT ![b] = h]
  <2>1. at' = Hlist!hlist_move_list(Hlist!Heap, g, h).at /\ pprev' = Hlist!hlist_move_list(Hlist!Heap, g, h).pprev
    BY DEF Hlist!MoveList, Hlist!Store
  <2>2. CASE b = NULL
    BY <2>1, <2>2 DEF Hlist!hlist_move_list, Hlist!Heap, Hlist!Point, Hlist!PointBack
  <2>3. CASE b # NULL
    BY <2>1, <2>3 DEF Hlist!hlist_move_list, Hlist!Heap, Hlist!Point, Hlist!PointBack
  <2> QED
    BY <2>2, <2>3
<1>4. b = at[g]
  OBVIOUS
<1> HIDE DEF b, s
<1>5. at' \in [Heads \cup Entries -> Entries \cup {NULL}] /\ at'[h] = b /\ at'[g] = NULL
  BY <1>1, <1>2, <1>3
<1>6. \A x \in Nodes : x # g /\ x # h => at'[x] = at[x]
  BY <1>2, <1>3 DEF Nodes
<1>7. /\ pprev' \in [Entries -> Nodes \cup {NULL}] /\ (b # NULL => pprev'[b] = h)
      /\ \A x \in Entries : x # b => pprev'[x] = pprev[x]
  <2>1. CASE b = NULL
    BY <1>2, <1>3, <2>1
  <2>2. CASE b # NULL
    <3>1. b \in Entries /\ pprev' = [pprev EXCEPT ![b] = h]
      BY <1>2, <1>3, <2>2
    <3> QED
      BY <1>2, <3>1
  <2> QED
    BY <2>1, <2>2
<1>8. Firm(at', pprev', s2) /\ Bare(at', pprev', gone, s2, NULL)
  <2>1. /\ at' \in [Heads \cup Entries -> Entries \cup {NULL}] /\ pprev' \in [Entries -> Nodes \cup {NULL}]
        /\ at'[h] = at[g] /\ at'[g] = NULL /\ (at[g] # NULL => pprev'[at[g]] = h)
        /\ \A x \in Entries : x # at[g] => pprev'[x] = pprev[x]
    BY <1>4, <1>5, <1>7
  <2>2. s2 = Emptied(s, g, h)
    BY DEF Emptied
  <2> HIDE DEF s2
  <2>3. Firm(at, pprev, s) /\ Bare(at, pprev, gone, s, NULL) /\ g # h /\ at[h] = NULL
    BY <1>1
  <2>4. Moves(at, pprev, at', pprev', g, h)
    BY <1>6, <2>1 DEF Moves
  <2> QED
    BY <2>2, <2>3, <2>4, HlistMoved
<1>9. Bare(at', pprev', gone', s2, NULL)
  BY <1>1, <1>8
<1> HIDE DEF s2
<1> QED
  BY <1>8, <1>9, HlistThen

LEMMA HlistStart ==
  ASSUME Hlist!Init
  PROVE  HlistInv /\ Hlist!Abs!Init
<1> DEFINE s == [h \in Heads |-> << >>]
<1>1. /\ at = [c \in Heads \cup Entries |-> NULL] /\ pprev = [e \in Entries |-> NULL] /\ gone = {}
  BY DEF Hlist!Init, Hlist!Cells
<1>2. /\ at \in [Heads \cup Entries -> Entries \cup {NULL}] /\ pprev \in [Entries -> Nodes \cup {NULL}]
      /\ s \in [Heads -> Seq(Entries)] /\ \A h \in Heads : s[h] = << >>
  BY <1>1, EmptyIs
<1>3. (\A h \in Heads : at[h] = NULL) /\ (\A e \in Entries : at[e] = NULL /\ pprev[e] = NULL)
  BY <1>1
<1> HIDE DEF s
<1>4. ASSUME NEW h \in Heads PROVE Line(at, pprev, h, s[h])
  <2>1. Stop(h, << >>, 0) = h /\ Stop(h, << >>, 1) = NULL
    BY EmptyIs DEF Stop
  <2>2. ASSUME NEW i \in 0..0
        PROVE  /\ at[Stop(h, << >>, i)] = Stop(h, << >>, i + 1)
               /\ i # 0 => pprev[Stop(h, << >>, i + 1)] = Stop(h, << >>, i)
    <3>1. i = 0 /\ i + 1 = 1
      OBVIOUS
    <3> QED
      BY <1>3, <2>1, <3>1
  <2>3. Line(at, pprev, h, << >>)
    BY <2>2, EmptyIs DEF Line
  <2> QED
    BY <1>2, <2>3
<1>5. \A h \in Heads : NoneTwice(s[h]) /\ Elements(s[h]) = {}
  BY <1>2, EmptyIs
<1>6. Firm(at, pprev, s)
  BY <1>2, <1>4, <1>5 DEF Firm
<1>7. Bare(at, pprev, gone, s, NULL)
  BY <1>1, <1>3, <1>5 DEF Bare, On
<1>8. Hlist!Seqs = s
  BY <1>6, HlistNow
<1> QED
  BY <1>6, <1>7, <1>8 DEF HlistInv, Hlist!Abs!Init, s

LEMMA HlistStep ==
  ASSUME HlistInv, Hlist!Next \/ UNCHANGED hlist
  PROVE  HlistInv'
<1>1. CASE UNCHANGED hlist
  <2>1. at' = at /\ pprev' = pprev /\ gone' = gone
    BY <1>1 DEF hlist
  <2>2. Firm(at', pprev', Hlist!Seqs) /\ Bare(at', pprev', gone', Hlist!Seqs, NULL)
    BY <2>1 DEF HlistInv
  <2> QED
    BY <2>2, HlistThen
<1>2. CASE \E e \in Entries : Hlist!Initialise(e) \/ Hlist!Delete(e) \/ Hlist!DeleteInit(e) \/ Hlist!AddFake(e)
  BY <1>2, HlistInitialise, HlistDelete, HlistDeleteInit, HlistAddFake
<1>3. CASE \E e \in Entries, h \in Heads : Hlist!AddHead(e, h)
  BY <1>3, HlistAddHead
<1>4. CASE \E e, n \in Entries : Hlist!AddBefore(e, n) \/ Hlist!AddAfter(e, n)
  BY <1>4, HlistAddBefore, HlistAddAfter
<1>5. CASE \E g, h \in Heads : Hlist!MoveList(g, h)
  BY <1>5, HlistMoveList
<1> QED
  BY <1>1, <1>2, <1>3, <1>4, <1>5 DEF Hlist!Next

LEMMA HlistCalls ==
  ASSUME HlistInv
  PROVE  Hlist!EachCall
<1>1. \A e \in Entries :
        /\ Hlist!Delete(e) \/ Hlist!DeleteInit(e) => Hlist!Abs!Delete(e)
        /\ Hlist!Initialise(e) \/ Hlist!AddFake(e) => UNCHANGED Hlist!Seqs
  BY HlistInitialise, HlistDelete, HlistDeleteInit, HlistAddFake
<1>2. \A e \in Entries, h \in Heads : Hlist!AddHead(e, h) => Hlist!Abs!PutFirst(e, h)
  BY HlistAddHead
<1>3. \A e, n \in Entries :
        /\ Hlist!AddBefore(e, n) => Hlist!Abs!PutBefore(e, n)
        /\ Hlist!AddAfter(e, n) => Hlist!Abs!PutAfter(e, n)
  BY HlistAddBefore, HlistAddAfter
<1>4. \A g, h \in Heads : Hlist!MoveList(g, h) => Hlist!Abs!Splice(g, h)
  BY HlistMoveList
<1> QED
  BY <1>1, <1>2, <1>3, <1>4 DEF Hlist!EachCall

LEMMA HlistPointers ==
  ASSUME HlistInv
  PROVE  Hlist!BackPointersExact /\ Hlist!UnhashedTells
<1> DEFINE s == Hlist!Seqs
<1>1. Firm(at, pprev, s) /\ Bare(at, pprev, gone, s, NULL) /\ s \in [Heads -> Seq(Entries)]
  BY HlistFacts DEF HlistInv
<1>2. \A h \in Heads : Hlist!Walk(h) = s[h]
  BY HlistWalksAre
<1>3. \A e : Hlist!Linked(e) <=> On(s, e)
  BY HlistFacts
<1>4. \A e \in Entries : On(s, e) => pprev[e] \in Nodes /\ e \notin gone /\ at[pprev[e]] = e
  BY HlistFacts
<1> HIDE DEF s
<1>5. ASSUME NEW h \in Heads
      PROVE  Hlist!Walk(h) # <<NULL>> /\ (at[h] # NULL => pprev[at[h]] = h)
  <2>1. s[h] \in Seq(Entries)
    BY <1>1
  <2>2. s[h] # <<NULL>>
    <3> SUFFICES ASSUME s[h] = <<NULL>> PROVE FALSE
      OBVIOUS
    <3>1. Len(s[h]) = 1 /\ s[h][1] = NULL
      OBVIOUS
    <3>2. s[h][1] \in Entries
      BY <2>1, <3>1, ElementOfSeq
    <3> QED
      BY <3>1, <3>2, NodesDiffer
  <2>3. 0 \in 0..Len(s[h]) /\ Stop(h, s[h], 0) = h
    BY <2>1, StopsAre
  <2>4. /\ at[Stop(h, s[h], 0)] = Stop(h, s[h], 0 + 1)
        /\ Stop(h, s[h], 0 + 1) # NULL => pprev[Stop(h, s[h], 0 + 1)] = Stop(h, s[h], 0)
    BY <1>1, <2>3, HlistNeighbours
  <2> QED
    BY <1>2, <2>2, <2>3, <2>4
<1>6. Hlist!BackPointersExact
  BY <1>3, <1>4, <1>5 DEF Hlist!BackPointersExact
<1>7. ASSUME NEW e \in Entries \ gone
      PROVE  pprev[e] # NULL <=> On(s, e) \/ (pprev[e] = e /\ at[e] = NULL)
  <2>1. CASE On(s, e)
    BY <1>4, <2>1, NodesDiffer DEF Nodes
  <2>2. CASE ~On(s, e)
    BY <1>1, <2>2, NodesDiffer DEF Bare
  <2> QED
    BY <2>1, <2>2
<1>8. Hlist!UnhashedTells
  BY <1>3, <1>7 DEF Hlist!UnhashedTells, Hlist!hlist_unhashed, Hlist!Heap, Hlist!Fake
<1> QED
  BY <1>6, <1>8

\* The hlists while another container is used, too.
LEMMA HlistInvariant == PartSpec => []HlistInv
<1>1. PartInit => HlistInv
  BY HlistStart DEF PartInit
<1>2. HlistInv /\ [PartNext]_<<part, list, loop, hlist, refVars>> => HlistInv'
  BY HlistStep DEF PartNext
<1> QED
  BY <1>1, <1>2, PTL DEF PartSpec

(***************************************************************************)
(* Every hlist ends, each of its entries points back to the one pointer    *)
(* that leads to it, and hlist_unhashed() tells whether an entry is on a   *)
(* list unless it was taken out by the plain hlist_del(), for any number   *)
(* of heads and entries.                                                   *)
(***************************************************************************)
THEOREM HlistPointersExact == PartSpec => []BackPointersExact
<1>1. HlistInv => BackPointersExact
  BY HlistPointers DEF BackPointersExact
<1> QED
  BY <1>1, HlistInvariant, PTL

(***************************************************************************)
(* Each hlist function of list.h is the operation on sequences that its    *)
(* name says: first, before or after the entry it is given, one entry out, *)
(* or a whole list to another head.                                        *)
(***************************************************************************)
THEOREM HlistsImplementSequences == PartSpec => HlistsAreSequences
<1>1. PartInit => Hlist!Abs!Init
  BY HlistStart DEF PartInit
<1>2. HlistInv => [part = "hlist" => Hlist!EachCall]_hlist
  BY HlistCalls
<1> QED
  BY <1>1, <1>2, HlistInvariant, PTL DEF PartSpec, HlistsAreSequences
=============================================================================
