------------------------------ MODULE ScopedUse ------------------------------
(***************************************************************************)
(* Key derivation and random numbers: crypto/pbkdf.c and crypto/rand.c with*)
(* their OpenSSL backends.  Both look a type up under the read lock, run   *)
(* its callback with a reference and no lock, and drop the reference.  The *)
(* locked sections are one step each, as in HashContext.                   *)
(***************************************************************************)
EXTENDS Integers, FiniteSets

CONSTANTS
  Threads,
  KdfTypes,   \* struct cfe_pbkdf_type, on the alg_list of pbkdf.c
  RandTypes,  \* struct cfe_rand_type, on the alg_list of rand.c
  Complete,   \* those with a derive() or get(), and (rand) a name
  NameOf,     \* type->name
  RAND,       \* "rand", the one name cfe_rand_get() asks for
  Sizes,      \* how many bytes callers ask for
  IntMod,     \* 2^32: OpenSSL takes these sizes as int
  NoType

Types == KdfTypes \cup RandTypes

ASSUME ScopedUseAssumption ==
  /\ KdfTypes \cap RandTypes = {}
  /\ IsFiniteSet(Threads)
  /\ Complete \subseteq Types
  /\ NoType \notin Types
  /\ Sizes \subseteq Nat
  /\ IntMod \in Nat \ {0} /\ IntMod % 2 = 0

VARIABLES
  listed,   \* the registered types of both lists
  refcnt,   \* type->refcnt
  pc,
  type,     \* local variable `type' of the running call
  size,     \* its argument olen, or size
  answer    \* what it returns, and how much of the buffer it has filled

vars == <<listed, refcnt, pc, type, size, answer>>

Nothing == [ret |-> 1, filled |-> 0]

Init ==
  /\ listed = {}
  /\ refcnt = [ty \in Types |-> 0]
  /\ pc = [t \in Threads |-> "idle"]
  /\ type = [t \in Threads |-> NoType]
  /\ size = [t \in Threads |-> 0]
  /\ answer = [t \in Threads |-> Nothing]

-----------------------------------------------------------------------------
(***************************************************************************)
(* The registries.  A refused call changes nothing but errno.              *)
(***************************************************************************)
find_alg(list, name) == {ty \in listed \cap list : NameOf[ty] = name}

Enlist(list, ty) ==
  /\ find_alg(list, NameOf[ty]) = {}
  /\ refcnt' = [refcnt EXCEPT ![ty] = 1]
  /\ listed' = listed \cup {ty}
  /\ UNCHANGED <<pc, type, size, answer>>

Delist(ty) ==
  /\ refcnt[ty] = 1
  /\ listed' = listed \ {ty}
  /\ UNCHANGED <<refcnt, pc, type, size, answer>>

cfe_pbkdf_register(ty) == ty \in Complete \cap KdfTypes /\ Enlist(KdfTypes, ty)
cfe_rand_register(ty) == ty \in Complete \cap RandTypes /\ Enlist(RandTypes, ty)

cfe_pbkdf_unregister(ty) == ty \in KdfTypes /\ Delist(ty)
cfe_rand_unregister(ty) == ty \in RandTypes /\ Delist(ty)

-----------------------------------------------------------------------------
(***************************************************************************)
(* cfe_pbkdf_derive(algname, ..., out, olen) and cfe_rand_get(buffer, size)*)
(* up to the callback.  A call with no buffer (rand: of no size), or for a *)
(* name that is not listed, fails and changes nothing but errno.           *)
(***************************************************************************)
Ref(t, list, name, n) ==
  /\ pc[t] = "idle" /\ pc' = [pc EXCEPT ![t] = "callback"]
  /\ \E ty \in find_alg(list, name) :
       /\ refcnt' = [refcnt EXCEPT ![ty] = @ + 1]
       /\ type' = [type EXCEPT ![t] = ty]
  /\ size' = [size EXCEPT ![t] = n]
  /\ answer' = [answer EXCEPT ![t] = Nothing]
  /\ UNCHANGED listed

cfe_pbkdf_derive(t, name, n) == Ref(t, KdfTypes, name, n)
cfe_rand_get(t, n) == n # 0 /\ Ref(t, RandTypes, RAND, n)

\* size_t to int.
AsInt(n) == LET low == n % IntMod IN IF 2 * low < IntMod THEN low ELSE low - IntMod

\* RAND_bytes() and PKCS5_PBKDF2_HMAC() for an int: 1 when the buffer is
\* filled; what they return for no bytes or less is up to them.
OpensslFills(n) ==
  {[status |-> 0, filled |-> 0]} \cup
  (IF n > 0 THEN {[status |-> 1, filled |-> n]}
            ELSE {[status |-> 1, filled |-> 0], [status |-> -1, filled |-> 0]})

\* Mutant: the status of OpenSSL is tested against -1.
rand_fails_at_minus_one(n) ==
  {[ret |-> IF o.status = -1 THEN 1 ELSE 0, filled |-> o.filled] : o \in OpensslFills(AsInt(n))}

openssl_rand_get(n) ==
  {[ret |-> IF o.status # 1 THEN 1 ELSE 0, filled |-> o.filled] : o \in OpensslFills(AsInt(n))}

openssl_pbkdf(n) ==
  {[ret |-> IF o.status # 1 THEN 1 ELSE 0, filled |-> o.filled] : o \in OpensslFills(AsInt(n))}

Callback(t) ==
  /\ pc[t] = "callback" /\ pc' = [pc EXCEPT ![t] = "put"]
  /\ \E a \in IF type[t] \in KdfTypes THEN openssl_pbkdf(size[t]) ELSE openssl_rand_get(size[t]) :
       answer' = [answer EXCEPT ![t] = a]
  /\ UNCHANGED <<listed, refcnt, type, size>>

\* Mutant: the reference is dropped by a call that succeeded only.
PutAfterSuccess(t) ==
  /\ pc[t] = "put" /\ pc' = [pc EXCEPT ![t] = "idle"]
  /\ refcnt' = IF answer[t].ret = 0 THEN [refcnt EXCEPT ![type[t]] = @ - 1] ELSE refcnt
  /\ type' = [type EXCEPT ![t] = NoType]
  /\ UNCHANGED <<listed, size, answer>>

Put(t) ==
  /\ pc[t] = "put" /\ pc' = [pc EXCEPT ![t] = "idle"]
  /\ refcnt' = [refcnt EXCEPT ![type[t]] = @ - 1]
  /\ type' = [type EXCEPT ![t] = NoType]
  /\ UNCHANGED <<listed, size, answer>>

Next ==
  \/ \E ty \in Types : cfe_pbkdf_register(ty) \/ cfe_pbkdf_unregister(ty)
                       \/ cfe_rand_register(ty) \/ cfe_rand_unregister(ty)
  \/ \E t \in Threads, n \in Sizes :
       cfe_rand_get(t, n) \/ \E ty \in KdfTypes : cfe_pbkdf_derive(t, NameOf[ty], n)
  \/ \E t \in Threads : Callback(t) \/ Put(t)

Spec == Init /\ [][Next]_vars

-----------------------------------------------------------------------------
Holders(ty) == {t \in Threads : type[t] = ty}

(***************************************************************************)
(* Every variable has a value of its type.                                 *)
(***************************************************************************)
TypeOK ==
  /\ listed \subseteq Types
  /\ refcnt \in [Types -> Int]
  /\ pc \in [Threads -> {"idle", "callback", "put"}]
  /\ type \in [Threads -> Types \cup {NoType}]
  /\ size \in [Threads -> Nat]
  /\ answer \in [Threads -> [ret : {0, 1}, filled : Nat]]

(***************************************************************************)
(* The counter of a type is the list's reference and one for each call     *)
(* that runs in its callback, whether that call fails or not.              *)
(***************************************************************************)
RefsBalanced ==
  \A ty \in Types :
    \/ refcnt[ty] = 0 /\ ty \notin listed /\ Holders(ty) = {}
    \/ refcnt[ty] = 1 + Cardinality(Holders(ty))

(***************************************************************************)
(* The pointer that is called without a lock is there, and its type is     *)
(* registered until the call is over: a plugin cannot be unloaded while    *)
(* somebody derives a key in it.                                           *)
(***************************************************************************)
CallbackExists ==
  \A t \in Threads : pc[t] = "callback" => type[t] \in Complete \cap listed

(***************************************************************************)
(* No call writes more than the buffer holds, however large the size is    *)
(* that was narrowed to int, and a call for fewer than 2^31 bytes that     *)
(* returns 0 has filled the whole of it.                                   *)
(***************************************************************************)
FillsTheBuffer ==
  \A t \in Threads :
    /\ answer[t].filled <= size[t]
    /\ pc[t] # "callback" /\ answer[t].ret = 0 /\ 2 * size[t] < IntMod
         => answer[t].filled = size[t]

(***************************************************************************)
(* Both lists are registries: names are unique in each, and a type that a  *)
(* call uses cannot be unregistered.                                       *)
(***************************************************************************)
UsersOf(list) == [t \in Threads |-> IF type[t] \in list THEN type[t] ELSE NoType]
Kdf == INSTANCE RegistryAbs
         WITH Owners <- Threads, Types <- KdfTypes, KeyOf <- NameOf, HasDefault <- FALSE,
              listed <- listed \cap KdfTypes, users <- UsersOf(KdfTypes), newest <- NoType
Rand == INSTANCE RegistryAbs
          WITH Owners <- Threads, Types <- RandTypes, KeyOf <- NameOf, HasDefault <- FALSE,
               listed <- listed \cap RandTypes, users <- UsersOf(RandTypes), newest <- NoType
ImplementsRegistries == Kdf!Spec /\ Rand!Spec
=============================================================================
