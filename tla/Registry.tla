------------------------------ MODULE Registry ------------------------------
(***************************************************************************)
(* The type registry of libcfe.  Six files of the library hold one, all of *)
(* the same shape: a list of types, a pthread rwlock over the list and a   *)
(* counter in each type (fs/header.c, fs/filewriter.c, crypto/cipher.c,    *)
(* crypto/hash.c, crypto/pbkdf.c, crypto/rand.c).  A call looks a type up  *)
(* and takes a reference under the read lock, runs a callback of the type  *)
(* with no lock at all, and drops the reference with no lock either.       *)
(*                                                                         *)
(* The definitions follow fs/header.c, the registry with every feature     *)
(* (versions, a default type, a narrowing request); the others are the     *)
(* instances without DEFAULT among the Requests (crypto: a key is a name)  *)
(* and without Objects (pbkdf, rand: the reference lives for one call).    *)
(***************************************************************************)
EXTENDS Integers, FiniteSets

CONSTANTS
  Threads,   \* the threads that call into the registry
  Objects,   \* the headers (contexts, writers) there is memory for
  Types,     \* the type structures the backends may register
  Requests,  \* what a caller may ask for: versions, or names
  DEFAULT,   \* CFE_HEADER_VERSION_DEFAULT
  KeyOf,     \* type->version, or type->name
  KeyFor,    \* the key a request is compared as: the int narrowed to uint16_t
  IntMod,    \* 2^32: cfe_atomic_get() returns an int out of a long
  NoType,    \* the NULL type pointer
  NoThread   \* nobody holds the write lock

Owners == Threads \cup Objects
HasDefault == DEFAULT \in Requests

ASSUME SetsAssumption ==
  /\ IsFiniteSet(Threads)
  /\ IsFiniteSet(Objects)
  /\ Threads \cap Objects = {}
  /\ NoType \notin Types
  /\ NoThread \notin Threads
ASSUME KeysAssumption ==
  /\ KeyOf \in [Types -> Nat]
  /\ KeyFor \in [Requests -> Nat]
\* Fewer references than the int that cfe_atomic_get() returns can tell apart.
ASSUME WidthAssumption ==
  /\ IntMod \in Nat
  /\ Cardinality(Owners) < IntMod

VARIABLES
  link,      \* type->next: "zero" (static storage), "linked", or "self"
  refcnt,    \* type->refcnt.counter, a long
  default,   \* header_default
  writer,    \* header_lock, held for writing by ...
  readers,   \* ... and for reading by
  pc,        \* where each thread is in the call it makes
  type,      \* its argument or local variable `type'
  want,      \* its argument `version'
  object     \* header->type of every live object, NoType when there is none

lockVars == <<writer, readers>>
typeVars == <<link, refcnt, default>>
vars == <<link, refcnt, default, writer, readers, pc, type, want, object>>

Labels == {"idle",
           "reg_lock", "reg_find", "reg_add",
           "unreg_lock", "unreg_check", "unreg_del", "wr_unlock",
           "get_lock", "get_find", "get_inc", "rd_unlock",
           "alloc", "free", "put"}

Init ==
  /\ link = [ty \in Types |-> "zero"]
  /\ refcnt = [ty \in Types |-> 0]
  /\ default = NoType
  /\ writer = NoThread
  /\ readers = {}
  /\ pc = [t \in Threads |-> "idle"]
  /\ type = [t \in Threads |-> NoType]
  /\ want \in [Threads -> {DEFAULT}]
  /\ object = [c \in Objects |-> NoType]

(***************************************************************************)
(* pthread_rwlock_wrlock, _rdlock, _unlock.                                *)
(***************************************************************************)
WrLock(t) == writer = NoThread /\ readers = {} /\ writer' = t /\ UNCHANGED readers
RdLock(t) == writer = NoThread /\ readers' = readers \cup {t} /\ UNCHANGED writer
WrUnlock(t) == writer' = NoThread /\ UNCHANGED readers
RdUnlock(t) == readers' = readers \ {t} /\ UNCHANGED writer

Goto(t, from, to) == pc[t] = from /\ pc' = [pc EXCEPT ![t] = to]
Return(t) == /\ pc' = [pc EXCEPT ![t] = "idle"]
             /\ type' = [type EXCEPT ![t] = NoType]
             /\ want' = [want EXCEPT ![t] = DEFAULT]

\* cfe_header_find(): the listed types with that key.
Listed == {ty \in Types : link[ty] = "linked"}
Find(key) == {ty \in Listed : KeyOf[ty] = key}

AtomicGet(v) == v % IntMod

-----------------------------------------------------------------------------
(***************************************************************************)
(* cfe_header_register(type)                                               *)
(***************************************************************************)
CallRegister(t, ty) ==
  /\ Goto(t, "idle", "reg_lock")
  /\ type' = [type EXCEPT ![t] = ty]
  /\ UNCHANGED <<typeVars, lockVars, want, object>>

RegLock(t) ==
  /\ Goto(t, "reg_lock", "reg_find")
  /\ WrLock(t)
  /\ UNCHANGED <<typeVars, type, want, object>>

RegBusy(t) ==
  /\ Goto(t, "reg_find", "wr_unlock")
  /\ Find(KeyOf[type[t]]) # {}
  /\ UNCHANGED <<typeVars, lockVars, type, want, object>>

RegFree(t) ==
  /\ Goto(t, "reg_find", "reg_add")
  /\ Find(KeyOf[type[t]]) = {}
  /\ UNCHANGED <<typeVars, lockVars, type, want, object>>

\* Mutant: the last type registered is the default.
NewestLast(ty) == IF HasDefault THEN ty ELSE default

\* The default moves to a type that is newer than it.
Newest(ty) ==
  IF HasDefault /\ (default = NoType \/ KeyOf[default] < KeyOf[ty])
    THEN ty ELSE default

RegAdd(t) ==
  /\ Goto(t, "reg_add", "wr_unlock")
  /\ refcnt' = [refcnt EXCEPT ![type[t]] = 1]
  /\ link' = [link EXCEPT ![type[t]] = "linked"]
  /\ default' = Newest(type[t])
  /\ UNCHANGED <<lockVars, type, want, object>>

(***************************************************************************)
(* cfe_header_unregister(type)                                             *)
(***************************************************************************)
CallUnregister(t, ty) ==
  /\ Goto(t, "idle", "unreg_lock")
  /\ type' = [type EXCEPT ![t] = ty]
  /\ UNCHANGED <<typeVars, lockVars, want, object>>

UnregLock(t) ==
  /\ Goto(t, "unreg_lock", "unreg_check")
  /\ WrLock(t)
  /\ UNCHANGED <<typeVars, type, want, object>>

\* Mutants: the counter is not looked at, or compared the wrong way round.
InUseDefaultOnly(ty) == default = ty
InUseAboveOne(ty) == default = ty \/ AtomicGet(refcnt[ty]) > 1

InUse(ty) == default = ty \/ AtomicGet(refcnt[ty]) # 1

UnregBusy(t) ==
  /\ Goto(t, "unreg_check", "wr_unlock")
  /\ InUse(type[t])
  /\ UNCHANGED <<typeVars, lockVars, type, want, object>>

UnregFree(t) ==
  /\ Goto(t, "unreg_check", "unreg_del")
  /\ ~InUse(type[t])
  /\ UNCHANGED <<typeVars, lockVars, type, want, object>>

\* list_del_init(): the node ends up pointing at itself.
UnregDel(t) ==
  /\ Goto(t, "unreg_del", "wr_unlock")
  /\ link' = [link EXCEPT ![type[t]] = "self"]
  /\ UNCHANGED <<refcnt, default, lockVars, type, want, object>>

\* The label `unlock' of both calls.
WriteReturn(t) ==
  /\ pc[t] = "wr_unlock"
  /\ WrUnlock(t)
  /\ Return(t)
  /\ UNCHANGED <<typeVars, object>>

-----------------------------------------------------------------------------
(***************************************************************************)
(* cfe_header_create(version, fd, size), up to the callback.               *)
(***************************************************************************)
CallCreate(t, r) ==
  /\ Goto(t, "idle", "get_lock")
  /\ want' = [want EXCEPT ![t] = r]
  /\ UNCHANGED <<typeVars, lockVars, type, object>>

\* Mutant: a lookup without the read lock.
GetLockNone(t) ==
  /\ Goto(t, "get_lock", "get_find")
  /\ UNCHANGED <<typeVars, lockVars, type, want, object>>

GetLock(t) ==
  /\ Goto(t, "get_lock", "get_find")
  /\ RdLock(t)
  /\ UNCHANGED <<typeVars, type, want, object>>

\* What the lookup of a request may return.
Answers(r) ==
  IF r = DEFAULT /\ HasDefault
    THEN {default} \ {NoType}
    ELSE Find(KeyFor[r])

GetFound(t) ==
  /\ Goto(t, "get_find", "get_inc")
  /\ \E ty \in Answers(want[t]) : type' = [type EXCEPT ![t] = ty]
  /\ UNCHANGED <<typeVars, lockVars, want, object>>

GetMissing(t) ==
  /\ Goto(t, "get_find", "rd_unlock")
  /\ Answers(want[t]) = {}
  /\ UNCHANGED <<typeVars, lockVars, type, want, object>>

\* Mutant: a lookup that takes no reference.
GetIncNone(t) ==
  /\ Goto(t, "get_inc", "rd_unlock")
  /\ UNCHANGED <<typeVars, lockVars, type, want, object>>

GetInc(t) ==
  /\ Goto(t, "get_inc", "rd_unlock")
  /\ refcnt' = [refcnt EXCEPT ![type[t]] = @ + 1]
  /\ UNCHANGED <<link, default, lockVars, type, want, object>>

GetUnlock(t) ==
  /\ Goto(t, "rd_unlock", "alloc")
  /\ type[t] # NoType
  /\ RdUnlock(t)
  /\ UNCHANGED <<typeVars, type, want, object>>

\* Mutant: ENOSYS is returned with the lock held.
GetNoSysLocked(t) ==
  /\ pc[t] = "rd_unlock"
  /\ type[t] = NoType
  /\ Return(t)
  /\ UNCHANGED <<typeVars, lockVars, object>>

\* No such type: errno = ENOSYS.
GetNoSys(t) ==
  /\ pc[t] = "rd_unlock"
  /\ type[t] = NoType
  /\ RdUnlock(t)
  /\ Return(t)
  /\ UNCHANGED <<typeVars, object>>

\* type->alloc() succeeds, and header->type keeps the reference.
AllocDone(t, c) ==
  /\ pc[t] = "alloc"
  /\ object[c] = NoType
  /\ object' = [object EXCEPT ![c] = type[t]]
  /\ Return(t)
  /\ UNCHANGED <<typeVars, lockVars>>

\* Mutant: a failed alloc() that returns without dropping the reference.
AllocFailedForgets(t) ==
  /\ pc[t] = "alloc"
  /\ Return(t)
  /\ UNCHANGED <<typeVars, lockVars, object>>

\* type->alloc() fails (or, with no object to keep, derive() and get() return).
AllocFailed(t) ==
  /\ Goto(t, "alloc", "put")
  /\ UNCHANGED <<typeVars, lockVars, type, want, object>>

(***************************************************************************)
(* cfe_header_close(header): the type is saved, the object is freed by a   *)
(* callback of that type, and the reference is dropped after it.           *)
(***************************************************************************)
CallClose(t, c) ==
  /\ Goto(t, "idle", "free")
  /\ object[c] # NoType
  /\ type' = [type EXCEPT ![t] = object[c]]
  /\ object' = [object EXCEPT ![c] = NoType]
  /\ UNCHANGED <<typeVars, lockVars, want>>

FreeDone(t) ==
  /\ Goto(t, "free", "put")
  /\ UNCHANGED <<typeVars, lockVars, type, want, object>>

\* The last line of both calls: no lock is held.
Put(t) ==
  /\ pc[t] = "put"
  /\ refcnt' = [refcnt EXCEPT ![type[t]] = @ - 1]
  /\ Return(t)
  /\ UNCHANGED <<link, default, lockVars, object>>

-----------------------------------------------------------------------------
Call(t) ==
  \/ \E ty \in Types : CallRegister(t, ty) \/ CallUnregister(t, ty)
  \/ \E r \in Requests : CallCreate(t, r)
  \/ \E c \in Objects : CallClose(t, c)

\* The steps of a call once it is made, the type's callbacks included.
Step(t) ==
  \/ RegLock(t) \/ RegBusy(t) \/ RegFree(t) \/ RegAdd(t)
  \/ UnregLock(t) \/ UnregBusy(t) \/ UnregFree(t) \/ UnregDel(t)
  \/ WriteReturn(t)
  \/ GetLock(t) \/ GetFound(t) \/ GetMissing(t) \/ GetInc(t)
  \/ GetUnlock(t) \/ GetNoSys(t)
  \/ (\E c \in Objects : AllocDone(t, c)) \/ AllocFailed(t)
  \/ FreeDone(t) \/ Put(t)

Next == \E t \in Threads : Call(t) \/ Step(t)

Spec == Init /\ [][Next]_vars

\* A call that was made runs on, and the backends' callbacks return.
Fairness == \A t \in Threads : WF_vars(Step(t))

FairSpec == Spec /\ Fairness

-----------------------------------------------------------------------------
(***************************************************************************)
(* The references there are.  A thread owns one from the increment to the  *)
(* decrement or to the return that leaves it in an object.                 *)
(***************************************************************************)
Holding == {"rd_unlock", "alloc", "free", "put"}
Users == [o \in Owners |-> IF o \in Objects THEN object[o]
                           ELSE IF pc[o] \in Holding THEN type[o]
                           ELSE NoType]
Holders(ty) == {o \in Owners : Users[o] = ty}

WriteLocked == {"reg_find", "reg_add", "unreg_check", "unreg_del", "wr_unlock"}
ReadLocked == {"get_find", "get_inc", "rd_unlock"}

(***************************************************************************)
(* Every variable has a value of its type.                                 *)
(***************************************************************************)
TypeOK ==
  /\ link \in [Types -> {"zero", "linked", "self"}]
  /\ refcnt \in [Types -> Int]
  /\ default \in Types \cup {NoType}
  /\ writer \in Threads \cup {NoThread}
  /\ readers \in SUBSET Threads
  /\ pc \in [Threads -> Labels]
  /\ type \in [Threads -> Types \cup {NoType}]
  /\ want \in [Threads -> Requests \cup {DEFAULT}]
  /\ object \in [Objects -> Types \cup {NoType}]

(***************************************************************************)
(* The counter of a type is the list's own reference and one for each      *)
(* object and call that still uses the type, at every step of every        *)
(* interleaving: increments under the read lock, unlocked decrements, the  *)
(* failed allocation, the reset to 1 by a second registration.             *)
(***************************************************************************)
CountsReferences ==
  \A ty \in Types :
    refcnt[ty] = IF link[ty] = "zero" THEN 0 ELSE 1 + Cardinality(Holders(ty))

(***************************************************************************)
(* A type that a live object or a running alloc/free callback needs is on  *)
(* the list, and so is one that a lookup has found and not yet counted:    *)
(* unregister() never succeeds under anybody's feet.                       *)
(***************************************************************************)
NoDanglingType ==
  /\ \A c \in Objects : object[c] # NoType => object[c] \in Listed
  /\ \A t \in Threads :
       pc[t] \in Holding \cup {"get_inc"} /\ type[t] # NoType => type[t] \in Listed

(***************************************************************************)
(* The node list_del_init() is about to unlink was initialised (a type     *)
(* that was never registered holds two NULL pointers there), is not the    *)
(* default and has no user.                                                *)
(***************************************************************************)
UnlinkIsSafe ==
  \A t \in Threads :
    pc[t] = "unreg_del" =>
      /\ link[type[t]] # "zero"
      /\ default # type[t]
      /\ Holders(type[t]) = {}

(***************************************************************************)
(* Two listed types never have the same version (name), whichever threads  *)
(* race to register them: a lookup has at most one answer.                 *)
(***************************************************************************)
UniqueKeys ==
  \A ty1, ty2 \in Listed : KeyOf[ty1] = KeyOf[ty2] => ty1 = ty2

(***************************************************************************)
(* header_default, once there is one, is on the list and no listed type is *)
(* newer; it is NULL only while the list is empty.                         *)
(***************************************************************************)
DefaultIsNewest ==
  HasDefault =>
    IF default = NoType THEN Listed = {}
    ELSE default \in Listed /\ \A ty \in Listed : KeyOf[ty] <= KeyOf[default]

(***************************************************************************)
(* When the read lock is dropped, what the lookup found is still what a    *)
(* lookup of the same request would find, and if it found nothing there is *)
(* still nothing to find.                                                  *)
(***************************************************************************)
LookupIsCurrent ==
  \A t \in Threads :
    pc[t] = "rd_unlock" =>
      Answers(want[t]) = IF type[t] = NoType THEN {} ELSE {type[t]}

(***************************************************************************)
(* What the registry promises, with every call in one step.                *)
(***************************************************************************)
Abs == INSTANCE RegistryAbs WITH listed <- Listed, users <- Users, newest <- default
AbsSpec == Abs!Spec
=============================================================================
