--------------------------- MODULE RegistryProofs ---------------------------
(***************************************************************************)
(* Proofs about Registry, for any finite number of threads and objects and *)
(* any set of types.  The argument: (1) the lock excludes, so (2) what a   *)
(* locked call has read stays true until it unlocks; (3) an inductive      *)
(* count of references makes the test `refcnt # 1' of unregister() decide  *)
(* whether there is a user; (4) so a used type is never unlinked.          *)
(***************************************************************************)
EXTENDS Registry, FiniteSetTheorems, TLAPS

-----------------------------------------------------------------------------
(***************************************************************************)
(* The parts of the inductive invariant.                                   *)
(***************************************************************************)
LockInv ==
  /\ \A t \in Threads : pc[t] \in WriteLocked <=> writer = t
  /\ \A t \in Threads : pc[t] \in ReadLocked <=> t \in readers
  /\ writer # NoThread => readers = {}

HasArgument == {"reg_lock", "reg_find", "reg_add", "unreg_lock", "unreg_check",
                "unreg_del", "get_inc", "alloc", "free", "put"}
ArgInv ==
  \A t \in Threads :
    /\ pc[t] \in HasArgument => type[t] \in Types
    /\ pc[t] \in {"idle", "get_lock", "get_find"} => type[t] = NoType

\* What a call has read under the lock, it still relies on.
RegInv ==
  \A t \in Threads : pc[t] = "reg_add" => Find(KeyOf[type[t]]) = {}
UnregInv ==
  \A t \in Threads : pc[t] = "unreg_del" => ~InUse(type[t])
FoundInv ==
  \A t \in Threads : pc[t] = "get_inc" => Answers(want[t]) = {type[t]}

CtlInv == TypeOK /\ LockInv /\ ArgInv
DataInv == CountsReferences /\ NoDanglingType /\ UniqueKeys /\ DefaultIsNewest
ReadInv == RegInv /\ UnregInv /\ FoundInv /\ LookupIsCurrent
IInv == CtlInv /\ DataInv /\ ReadInv

-----------------------------------------------------------------------------
(***************************************************************************)
(* Lemmas about the operators.                                             *)
(***************************************************************************)

\* cfe_atomic_get(): below the int's range the truncated counter is 1 only if
\* the counter is.
LEMMA AtomicGetOne ==
  ASSUME NEW n \in Nat, n < IntMod, AtomicGet(1 + n) = 1
  PROVE  n = 0
<1>1. CASE 1 + n < IntMod
  BY <1>1, WidthAssumption DEF AtomicGet
<1>2. CASE 1 + n = IntMod
  BY <1>2, WidthAssumption DEF AtomicGet
<1> QED
  BY <1>1, <1>2, WidthAssumption

\* There are finitely many owners, so the holders of a type can be counted.
LEMMA OwnersFinite ==
  IsFiniteSet(Owners) /\ Cardinality(Owners) \in Nat
<1>1. IsFiniteSet(Owners)
  BY SetsAssumption, FS_Union DEF Owners
<1> QED
  BY <1>1, FS_CardinalityType

UserSet(u, ty) == {o \in Owners : u[o] = ty}

\* The users of a type in any assignment are finitely many, and none if nobody
\* uses it.
LEMMA UserSetCount ==
  ASSUME NEW u, NEW ty
  PROVE  /\ IsFiniteSet(UserSet(u, ty))
         /\ Cardinality(UserSet(u, ty)) \in Nat
         /\ Cardinality(UserSet(u, ty)) <= Cardinality(Owners)
         /\ Cardinality(UserSet(u, ty)) = 0 <=> UserSet(u, ty) = {}
<1>1. UserSet(u, ty) \subseteq Owners
  BY DEF UserSet
<1>2. IsFiniteSet(UserSet(u, ty)) /\ Cardinality(UserSet(u, ty)) <= Cardinality(Owners)
  BY <1>1, OwnersFinite, FS_Subset
<1> QED
  BY <1>2, FS_CardinalityType, FS_EmptySet

\* Adding a holder that was not one, removing one that was.
LEMMA HolderCount ==
  ASSUME NEW u, NEW ty, NEW o
  PROVE  /\ o \notin UserSet(u, ty) =>
              Cardinality(UserSet(u, ty) \cup {o}) = Cardinality(UserSet(u, ty)) + 1
         /\ o \in UserSet(u, ty) =>
              Cardinality(UserSet(u, ty) \ {o}) = Cardinality(UserSet(u, ty)) - 1
  BY UserSetCount, FS_AddElement, FS_RemoveElement

-----------------------------------------------------------------------------
(***************************************************************************)
(* The control part: types, the lock, the arguments.                       *)
(***************************************************************************)
LEMMA CtlInit == Init => CtlInv
  BY SetsAssumption
  DEF Init, CtlInv, TypeOK, LockInv, ArgInv, Labels, WriteLocked, ReadLocked, HasArgument

\* Each call keeps the types.
LEMMA TypeStep ==
  ASSUME TypeOK, ArgInv, Next
  PROVE  TypeOK'
<1> SUFFICES ASSUME NEW t \in Threads, Call(t) \/ Step(t)
             PROVE  TypeOK'
  BY DEF Next
<1> USE DEF TypeOK, Labels, Goto, Return, typeVars, lockVars
<1>1. ASSUME NEW ty \in Types, CallRegister(t, ty) PROVE TypeOK'
  BY <1>1 DEF CallRegister
<1>2. ASSUME NEW ty \in Types, CallUnregister(t, ty) PROVE TypeOK'
  BY <1>2 DEF CallUnregister
<1>3. ASSUME NEW r \in Requests, CallCreate(t, r) PROVE TypeOK'
  BY <1>3 DEF CallCreate
<1>4. ASSUME NEW c \in Objects, CallClose(t, c) PROVE TypeOK'
  BY <1>4 DEF CallClose
<1>5. CASE RegLock(t)
  BY <1>5 DEF RegLock, WrLock
<1>6. CASE RegBusy(t)
  BY <1>6 DEF RegBusy
<1>7. CASE RegFree(t)
  BY <1>7 DEF RegFree
<1>8. CASE RegAdd(t)
  BY <1>8 DEF RegAdd, Newest, ArgInv, HasArgument
<1>9. CASE UnregLock(t)
  BY <1>9 DEF UnregLock, WrLock
<1>10. CASE UnregBusy(t)
  BY <1>10 DEF UnregBusy
<1>11. CASE UnregFree(t)
  BY <1>11 DEF UnregFree
<1>12. CASE UnregDel(t)
  BY <1>12 DEF UnregDel, ArgInv, HasArgument
<1>13. CASE WriteReturn(t)
  BY <1>13 DEF WriteReturn, WrUnlock
<1>14. CASE GetLock(t)
  BY <1>14 DEF GetLock, RdLock
<1>15. CASE GetFound(t)
  BY <1>15 DEF GetFound, Answers, Find, Listed
<1>16. CASE GetMissing(t)
  BY <1>16 DEF GetMissing
<1>17. CASE GetInc(t)
  BY <1>17 DEF GetInc, ArgInv, HasArgument
<1>18. CASE GetUnlock(t)
  BY <1>18 DEF GetUnlock, RdUnlock
<1>19. CASE GetNoSys(t)
  BY <1>19 DEF GetNoSys, RdUnlock
<1>20. ASSUME NEW c \in Objects, AllocDone(t, c) PROVE TypeOK'
  BY <1>20 DEF AllocDone
<1>21. CASE AllocFailed(t)
  BY <1>21 DEF AllocFailed
<1>22. CASE FreeDone(t)
  BY <1>22 DEF FreeDone
<1>23. CASE Put(t)
  BY <1>23 DEF Put, ArgInv, HasArgument
<1> QED
  BY <1>1, <1>2, <1>3, <1>4, <1>5, <1>6, <1>7, <1>8, <1>9, <1>10, <1>11, <1>12,
     <1>13, <1>14, <1>15, <1>16, <1>17, <1>18, <1>19, <1>20, <1>21, <1>22, <1>23
     DEF Call, Step

\* Nobody reads while somebody writes, and the lock is held exactly in the
\* locked sections.
LEMMA LockStep ==
  ASSUME TypeOK, LockInv, Next
  PROVE  LockInv'
<1> SUFFICES ASSUME NEW t \in Threads, Call(t) \/ Step(t)
             PROVE  LockInv'
  BY DEF Next
<1> USE SetsAssumption DEF TypeOK, LockInv, Labels, WriteLocked, ReadLocked,
            Goto, Return, typeVars, lockVars
<1>1. ASSUME NEW ty \in Types, CallRegister(t, ty) PROVE LockInv'
  BY <1>1 DEF CallRegister
<1>2. ASSUME NEW ty \in Types, CallUnregister(t, ty) PROVE LockInv'
  BY <1>2 DEF CallUnregister
<1>3. ASSUME NEW r \in Requests, CallCreate(t, r) PROVE LockInv'
  BY <1>3 DEF CallCreate
<1>4. ASSUME NEW c \in Objects, CallClose(t, c) PROVE LockInv'
  BY <1>4 DEF CallClose
<1>5. CASE RegLock(t)
  BY <1>5 DEF RegLock, WrLock
<1>6. CASE RegBusy(t)
  BY <1>6 DEF RegBusy
<1>7. CASE RegFree(t)
  BY <1>7 DEF RegFree
<1>8. CASE RegAdd(t)
  BY <1>8 DEF RegAdd
<1>9. CASE UnregLock(t)
  BY <1>9 DEF UnregLock, WrLock
<1>10. CASE UnregBusy(t)
  BY <1>10 DEF UnregBusy
<1>11. CASE UnregFree(t)
  BY <1>11 DEF UnregFree
<1>12. CASE UnregDel(t)
  BY <1>12 DEF UnregDel
<1>13. CASE WriteReturn(t)
  BY <1>13 DEF WriteReturn, WrUnlock
<1>14. CASE GetLock(t)
  BY <1>14 DEF GetLock, RdLock
<1>15. CASE GetFound(t)
  BY <1>15 DEF GetFound
<1>16. CASE GetMissing(t)
  BY <1>16 DEF GetMissing
<1>17. CASE GetInc(t)
  BY <1>17 DEF GetInc
<1>18. CASE GetUnlock(t)
  BY <1>18 DEF GetUnlock, RdUnlock
<1>19. CASE GetNoSys(t)
  BY <1>19 DEF GetNoSys, RdUnlock
<1>20. ASSUME NEW c \in Objects, AllocDone(t, c) PROVE LockInv'
  BY <1>20 DEF AllocDone
<1>21. CASE AllocFailed(t)
  BY <1>21 DEF AllocFailed
<1>22. CASE FreeDone(t)
  BY <1>22 DEF FreeDone
<1>23. CASE Put(t)
  BY <1>23 DEF Put
<1> QED
  BY <1>1, <1>2, <1>3, <1>4, <1>5, <1>6, <1>7, <1>8, <1>9, <1>10, <1>11, <1>12,
     <1>13, <1>14, <1>15, <1>16, <1>17, <1>18, <1>19, <1>20, <1>21, <1>22, <1>23
     DEF Call, Step

\* A call that needs its type has one; one that has not looked it up has none.
LEMMA ArgStep ==
  ASSUME TypeOK, ArgInv, Next
  PROVE  ArgInv'
<1> SUFFICES ASSUME NEW t \in Threads, Call(t) \/ Step(t)
             PROVE  ArgInv'
  BY DEF Next
<1> USE SetsAssumption DEF TypeOK, ArgInv, Labels, HasArgument,
            Goto, Return, typeVars, lockVars
<1>1. ASSUME NEW ty \in Types, CallRegister(t, ty) PROVE ArgInv'
  BY <1>1 DEF CallRegister
<1>2. ASSUME NEW ty \in Types, CallUnregister(t, ty) PROVE ArgInv'
  BY <1>2 DEF CallUnregister
<1>3. ASSUME NEW r \in Requests, CallCreate(t, r) PROVE ArgInv'
  BY <1>3 DEF CallCreate
<1>4. ASSUME NEW c \in Objects, CallClose(t, c) PROVE ArgInv'
  BY <1>4 DEF CallClose
<1>5. CASE RegLock(t)
  BY <1>5 DEF RegLock
<1>6. CASE RegBusy(t)
  BY <1>6 DEF RegBusy
<1>7. CASE RegFree(t)
  BY <1>7 DEF RegFree
<1>8. CASE RegAdd(t)
  BY <1>8 DEF RegAdd
<1>9. CASE UnregLock(t)
  BY <1>9 DEF UnregLock
<1>10. CASE UnregBusy(t)
  BY <1>10 DEF UnregBusy
<1>11. CASE UnregFree(t)
  BY <1>11 DEF UnregFree
<1>12. CASE UnregDel(t)
  BY <1>12 DEF UnregDel
<1>13. CASE WriteReturn(t)
  BY <1>13 DEF WriteReturn
<1>14. CASE GetLock(t)
  BY <1>14 DEF GetLock
<1>15. CASE GetFound(t)
  BY <1>15 DEF GetFound, Answers, Find, Listed
<1>16. CASE GetMissing(t)
  BY <1>16 DEF GetMissing
<1>17. CASE GetInc(t)
  BY <1>17 DEF GetInc
<1>18. CASE GetUnlock(t)
  BY <1>18 DEF GetUnlock
<1>19. CASE GetNoSys(t)
  BY <1>19 DEF GetNoSys
<1>20. ASSUME NEW c \in Objects, AllocDone(t, c) PROVE ArgInv'
  BY <1>20 DEF AllocDone
<1>21. CASE AllocFailed(t)
  BY <1>21 DEF AllocFailed
<1>22. CASE FreeDone(t)
  BY <1>22 DEF FreeDone
<1>23. CASE Put(t)
  BY <1>23 DEF Put
<1> QED
  BY <1>1, <1>2, <1>3, <1>4, <1>5, <1>6, <1>7, <1>8, <1>9, <1>10, <1>11, <1>12,
     <1>13, <1>14, <1>15, <1>16, <1>17, <1>18, <1>19, <1>20, <1>21, <1>22, <1>23
     DEF Call, Step


-----------------------------------------------------------------------------
(***************************************************************************)
(* What a step does to the references and the list: nothing, or one of     *)
(* five things.                                                            *)
(***************************************************************************)
Quiet == Users' = Users /\ UNCHANGED typeVars
Add(t) == RegAdd(t) /\ Users' = Users
Unlink(t) == UnregDel(t) /\ Users' = Users
Take(t) == GetInc(t) /\ Users[t] = NoType /\ Users' = [Users EXCEPT ![t] = type[t]]
Move(o, p) ==
  /\ Users[o] \in Types
  /\ Users[p] = NoType
  /\ Users' = [Users EXCEPT ![p] = Users[o], ![o] = NoType]
  /\ UNCHANGED typeVars
Drop(t) == Put(t) /\ Users[t] = type[t] /\ Users' = [Users EXCEPT ![t] = NoType]
Effect ==
  \/ Quiet
  \/ \E t \in Threads : Add(t) \/ Unlink(t) \/ Take(t) \/ Drop(t)
  \/ \E o, p \in Owners : Move(o, p)

\* Every owner (a live header, a running call) uses a type or none.
LEMMA UsersType ==
  ASSUME TypeOK
  PROVE  Users \in [Owners -> Types \cup {NoType}]
  BY DEF TypeOK, Users, Owners

\* Every step has one of these effects.
LEMMA StepEffect ==
  ASSUME CtlInv, Next
  PROVE  Effect
<1> SUFFICES ASSUME NEW t \in Threads, Call(t) \/ Step(t)
             PROVE  Effect
  BY DEF Next
<1> USE SetsAssumption DEF CtlInv, TypeOK, Labels, Goto, Return, typeVars,
     lockVars, Owners, Holding, Quiet, Users
<1>1. ASSUME NEW ty \in Types, CallRegister(t, ty) PROVE Effect
  BY <1>1 DEF CallRegister, Effect
<1>2. ASSUME NEW ty \in Types, CallUnregister(t, ty) PROVE Effect
  BY <1>2 DEF CallUnregister, Effect
<1>3. ASSUME NEW r \in Requests, CallCreate(t, r) PROVE Effect
  BY <1>3 DEF CallCreate, Effect
<1>4. ASSUME NEW c \in Objects, CallClose(t, c) PROVE Effect
  BY <1>4 DEF CallClose, Move, Effect, ArgInv
<1>5. CASE RegLock(t)
  BY <1>5 DEF RegLock, Effect
<1>6. CASE RegBusy(t)
  BY <1>6 DEF RegBusy, Effect
<1>7. CASE RegFree(t)
  BY <1>7 DEF RegFree, Effect
<1>8. CASE RegAdd(t)
  BY <1>8 DEF RegAdd, Add, Effect
<1>9. CASE UnregLock(t)
  BY <1>9 DEF UnregLock, Effect
<1>10. CASE UnregBusy(t)
  BY <1>10 DEF UnregBusy, Effect
<1>11. CASE UnregFree(t)
  BY <1>11 DEF UnregFree, Effect
<1>12. CASE UnregDel(t)
  BY <1>12 DEF UnregDel, Unlink, Effect
<1>13. CASE WriteReturn(t)
  BY <1>13 DEF WriteReturn, Effect
<1>14. CASE GetLock(t)
  BY <1>14 DEF GetLock, Effect
<1>15. CASE GetFound(t)
  BY <1>15 DEF GetFound, Effect
<1>16. CASE GetMissing(t)
  BY <1>16 DEF GetMissing, ArgInv, Effect
<1>17. CASE GetInc(t)
  <2>1. t \in Owners /\ t \notin Objects /\ type[t] \in Types
    BY <1>17 DEF GetInc, ArgInv, HasArgument
  <2>2. Users[t] = NoType
    BY <1>17, <2>1 DEF GetInc
  <2>3. Users' = [Users EXCEPT ![t] = type[t]]
    BY <1>17, <2>1 DEF GetInc
  <2> QED
    BY <1>17, <2>2, <2>3 DEF Take, Effect
<1>18. CASE GetUnlock(t)
  BY <1>18 DEF GetUnlock, Effect
<1>19. CASE GetNoSys(t)
  BY <1>19 DEF GetNoSys, Effect
<1>20. ASSUME NEW c \in Objects, AllocDone(t, c) PROVE Effect
  <2>1. /\ t \in Owners /\ c \in Owners /\ t # c /\ t \notin Objects
        /\ type[t] \in Types /\ UNCHANGED typeVars
    BY <1>20 DEF AllocDone, ArgInv, HasArgument
  <2>2. Users[t] = type[t] /\ Users[c] = NoType
    BY <1>20, <2>1 DEF AllocDone
  <2>3. Users' = [Users EXCEPT ![c] = type[t], ![t] = NoType]
    BY <1>20, <2>1 DEF AllocDone
  <2> QED
    BY <2>1, <2>2, <2>3 DEF Move, Effect
<1>21. CASE AllocFailed(t)
  BY <1>21 DEF AllocFailed, Effect
<1>22. CASE FreeDone(t)
  BY <1>22 DEF FreeDone, Effect
<1>23. CASE Put(t)
  <2>1. t \in Owners /\ t \notin Objects
    OBVIOUS
  <2>2. Users[t] = type[t]
    BY <1>23, <2>1 DEF Put
  <2>3. Users' = [Users EXCEPT ![t] = NoType]
    BY <1>23, <2>1 DEF Put
  <2> QED
    BY <1>23, <2>2, <2>3 DEF Drop, Effect
<1> QED
  BY <1>1, <1>2, <1>3, <1>4, <1>5, <1>6, <1>7, <1>8, <1>9, <1>10, <1>11, <1>12,
     <1>13, <1>14, <1>15, <1>16, <1>17, <1>18, <1>19, <1>20, <1>21, <1>22, <1>23
     DEF Call, Step

-----------------------------------------------------------------------------
(***************************************************************************)
(* The data part, by the effect of the step.                               *)
(***************************************************************************)

\* Holders() counts the users of a type.
LEMMA HoldersAreUsers ==
  /\ \A ty : Holders(ty) = UserSet(Users, ty)
  /\ \A ty : Holders(ty)' = UserSet(Users', ty)
  BY DEF Holders, UserSet

UsersListed == \A o \in Owners : Users[o] # NoType => Users[o] \in Listed

\* What a header or a call uses is on header_list.
LEMMA UsersAreListed ==
  ASSUME CtlInv, NoDanglingType
  PROVE  UsersListed
  BY DEF CtlInv, TypeOK, NoDanglingType, UsersListed, Users, Owners

\* A counter that reads 1 belongs to a registered type that nobody uses.
LEMMA CountOfOne ==
  ASSUME CtlInv, CountsReferences, NEW ty \in Types, AtomicGet(refcnt[ty]) = 1
  PROVE  refcnt[ty] = 1 /\ link[ty] # "zero" /\ Holders(ty) = {}
<1>1. CASE link[ty] = "zero"
  BY <1>1, WidthAssumption, OwnersFinite, UserSetCount DEF CountsReferences, AtomicGet
<1>2. CASE link[ty] # "zero"
  <2>1. refcnt[ty] = 1 + Cardinality(Holders(ty))
    BY <1>2 DEF CountsReferences
  <2>2. Cardinality(Holders(ty)) \in Nat /\ Cardinality(Holders(ty)) < IntMod
    BY UserSetCount, HoldersAreUsers, OwnersFinite, WidthAssumption
  <2>3. Cardinality(Holders(ty)) = 0
    BY <2>1, <2>2, AtomicGetOne
  <2> QED
    BY <1>2, <2>1, <2>3, UserSetCount, HoldersAreUsers
<1> QED
  BY <1>1, <1>2

\* A type that is about to be added is not on the list, so nobody uses it.
LEMMA AddedIsFresh ==
  ASSUME CtlInv, DataInv, RegInv, NEW t \in Threads, RegAdd(t)
  PROVE  /\ type[t] \in Types
         /\ type[t] \notin Listed
         /\ Holders(type[t]) = {}
<1>1. type[t] \in Types /\ type[t] \notin Listed
  BY DEF CtlInv, ArgInv, HasArgument, RegAdd, Goto, RegInv, Find, Listed
<1>2. Holders(type[t]) = {}
  BY <1>1, SetsAssumption, UsersAreListed DEF DataInv, UsersListed, Holders
<1> QED
  BY <1>1, <1>2

\* A type that is about to be unlinked is unused and is not the default.
LEMMA UnlinkedIsFree ==
  ASSUME CtlInv, DataInv, UnregInv, NEW t \in Threads, pc[t] = "unreg_del"
  PROVE  /\ type[t] \in Types /\ type[t] # default /\ refcnt[type[t]] = 1
         /\ link[type[t]] # "zero" /\ Holders(type[t]) = {}
<1>1. type[t] \in Types
  BY DEF CtlInv, ArgInv, HasArgument
<1>2. type[t] # default /\ AtomicGet(refcnt[type[t]]) = 1
  BY DEF UnregInv, InUse
<1> QED
  BY <1>1, <1>2, CountOfOne DEF DataInv

\* The counter follows the references.
LEMMA CountStep ==
  ASSUME CtlInv, DataInv, RegInv, UnregInv, FoundInv, Effect
  PROVE  CountsReferences'
<1> SUFFICES ASSUME NEW ty \in Types
             PROVE  refcnt'[ty] = IF link'[ty] = "zero" THEN 0
                                  ELSE 1 + Cardinality(UserSet(Users', ty))
  BY HoldersAreUsers DEF CountsReferences
<1> DEFINE Count(u) == Cardinality(UserSet(u, ty))
<1>a. refcnt[ty] = IF link[ty] = "zero" THEN 0 ELSE 1 + Count(Users)
  BY HoldersAreUsers DEF DataInv, CountsReferences
<1>b. Users \in [Owners -> Types \cup {NoType}] /\ NoType # ty /\ Threads \subseteq Owners
  BY UsersType, SetsAssumption DEF CtlInv, Owners
<1>c. Count(Users) \in Nat
  BY UserSetCount
<1> HIDE DEF Count
<1>1. CASE Quiet
  BY <1>1, <1>a DEF Quiet, typeVars, Count
<1>2. ASSUME NEW t \in Threads, Add(t)
      PROVE  refcnt'[ty] = IF link'[ty] = "zero" THEN 0 ELSE 1 + Count(Users')
  <2>1. CASE type[t] = ty
    <3>1. UserSet(Users, ty) = {}
      BY <1>2, <2>1, AddedIsFresh, HoldersAreUsers DEF Add
    <3>2. Count(Users') = 0
      BY <1>2, <3>1, UserSetCount DEF Add, Count
    <3> QED
      BY <1>2, <2>1, <3>2 DEF Add, RegAdd, CtlInv, TypeOK
  <2>2. CASE type[t] # ty
    BY <1>2, <2>2, <1>a DEF Add, RegAdd, CtlInv, TypeOK
  <2> QED
    BY <2>1, <2>2
<1>3. ASSUME NEW t \in Threads, Unlink(t)
      PROVE  refcnt'[ty] = IF link'[ty] = "zero" THEN 0 ELSE 1 + Count(Users')
  <2>1. link[type[t]] # "zero"
    BY <1>3, UnlinkedIsFree DEF Unlink, UnregDel, Goto
  <2>2. link'[ty] = "zero" <=> link[ty] = "zero"
    BY <1>3, <2>1 DEF Unlink, UnregDel, CtlInv, TypeOK
  <2> QED
    BY <1>3, <2>2, <1>a DEF Unlink, UnregDel
<1>4. ASSUME NEW t \in Threads, Take(t)
      PROVE  refcnt'[ty] = IF link'[ty] = "zero" THEN 0 ELSE 1 + Count(Users')
  <2>1. type[t] \in Types /\ link[type[t]] = "linked"
    BY <1>4, SetsAssumption
    DEF Take, GetInc, Goto, DataInv, NoDanglingType, Listed, CtlInv, ArgInv, HasArgument
  <2>2. Count(Users') = Count(Users) + (IF type[t] = ty THEN 1 ELSE 0)
    <3>1. t \notin UserSet(Users, ty)
      BY <1>4, <1>b DEF Take, UserSet
    <3>2. UserSet(Users', ty) =
            IF type[t] = ty THEN UserSet(Users, ty) \cup {t} ELSE UserSet(Users, ty)
      BY <1>4, <1>b DEF Take, UserSet
    <3> QED
      BY <3>1, <3>2, <1>c, HolderCount DEF Count
  <2>3. refcnt'[ty] = refcnt[ty] + (IF type[t] = ty THEN 1 ELSE 0)
    BY <1>4, <2>1, <1>a, <1>c DEF Take, GetInc, CtlInv, TypeOK
  <2>4. link' = link
    BY <1>4 DEF Take, GetInc
  <2> QED
    BY <2>1, <2>2, <2>3, <2>4, <1>a, <1>c
<1>5. ASSUME NEW t \in Threads, Drop(t)
      PROVE  refcnt'[ty] = IF link'[ty] = "zero" THEN 0 ELSE 1 + Count(Users')
  <2>1. type[t] \in Types /\ link[type[t]] = "linked"
    BY <1>5, SetsAssumption
    DEF Drop, Put, DataInv, NoDanglingType, Listed, CtlInv, ArgInv, HasArgument, Holding
  <2>2. Count(Users') = Count(Users) - (IF type[t] = ty THEN 1 ELSE 0)
    <3>1. t \in UserSet(Users, ty) <=> type[t] = ty
      BY <1>5, <1>b DEF Drop, UserSet
    <3>2. UserSet(Users', ty) =
            IF type[t] = ty THEN UserSet(Users, ty) \ {t} ELSE UserSet(Users, ty)
      BY <1>5, <1>b DEF Drop, UserSet
    <3> QED
      BY <3>1, <3>2, <1>c, HolderCount DEF Count
  <2>3. refcnt'[ty] = refcnt[ty] - (IF type[t] = ty THEN 1 ELSE 0)
    BY <1>5, <2>1, <1>a, <1>c DEF Drop, Put, CtlInv, TypeOK
  <2>4. link' = link
    BY <1>5 DEF Drop, Put
  <2> QED
    BY <2>1, <2>2, <2>3, <2>4, <1>a, <1>c
<1>6. ASSUME NEW o \in Owners, NEW p \in Owners, Move(o, p)
      PROVE  refcnt'[ty] = IF link'[ty] = "zero" THEN 0 ELSE 1 + Count(Users')
  <2>1. UNCHANGED <<link, refcnt>>
    BY <1>6 DEF Move, typeVars
  <2>2. CASE Users[o] = ty
    <3>1. o \in UserSet(Users, ty) /\ p \notin UserSet(Users, ty)
      BY <1>6, <1>b, <2>2 DEF Move, UserSet
    <3>2. UserSet(Users', ty) = (UserSet(Users, ty) \cup {p}) \ {o}
      BY <1>6, <1>b, <2>2 DEF Move, UserSet
    <3>3. Cardinality(UserSet(Users, ty) \cup {p}) = Count(Users) + 1
      BY <3>1, HolderCount DEF Count
    <3>4. IsFiniteSet(UserSet(Users, ty) \cup {p})
      BY UserSetCount, FS_AddElement
    <3>5. Count(Users') = (Count(Users) + 1) - 1
      BY <3>1, <3>2, <3>3, <3>4, FS_RemoveElement DEF Count
    <3> QED
      BY <2>1, <3>5, <1>a, <1>c
  <2>3. CASE Users[o] # ty
    <3>1. UserSet(Users', ty) = UserSet(Users, ty)
      BY <1>6, <1>b, <2>3 DEF Move, UserSet
    <3> QED
      BY <2>1, <3>1, <1>a DEF Count
  <2> QED
    BY <2>2, <2>3
<1> QED
  BY <1>1, <1>2, <1>3, <1>4, <1>5, <1>6 DEF Effect, Count

\* The list and the default change in two ways only.
LEMMA ListEffect ==
  ASSUME CtlInv, Effect
  PROVE  \/ UNCHANGED <<link, default>>
         \/ \E t \in Threads :
              /\ RegAdd(t) /\ Listed' = Listed \cup {type[t]} /\ default' = Newest(type[t])
         \/ \E t \in Threads :
              /\ UnregDel(t) /\ Listed' = Listed \ {type[t]} /\ default' = default
<1>1. CASE Quiet
  BY <1>1 DEF Quiet, typeVars
<1>2. ASSUME NEW t \in Threads, Add(t)
      PROVE  RegAdd(t) /\ Listed' = Listed \cup {type[t]} /\ default' = Newest(type[t])
  BY <1>2 DEF Add, RegAdd, Goto, Listed, CtlInv, TypeOK, ArgInv, HasArgument
<1>3. ASSUME NEW t \in Threads, Unlink(t)
      PROVE  UnregDel(t) /\ Listed' = Listed \ {type[t]} /\ default' = default
  BY <1>3 DEF Unlink, UnregDel, Listed, CtlInv, TypeOK
<1>4. ASSUME NEW t \in Threads, Take(t) \/ Drop(t)
      PROVE  UNCHANGED <<link, default>>
  BY <1>4 DEF Take, GetInc, Drop, Put
<1>5. ASSUME NEW o \in Owners, NEW p \in Owners, Move(o, p)
      PROVE  UNCHANGED <<link, default>>
  BY <1>5 DEF Move, typeVars
<1> QED
  BY <1>1, <1>2, <1>3, <1>4, <1>5 DEF Effect

\* cfe_header_register() adds a type only if no listed one has its version.
LEMMA UniqueStep ==
  ASSUME CtlInv, DataInv, RegInv, Effect
  PROVE  UniqueKeys'
<1>1. CASE UNCHANGED <<link, default>>
  BY <1>1 DEF DataInv, UniqueKeys, Listed
<1>2. ASSUME NEW t \in Threads, RegAdd(t), Listed' = Listed \cup {type[t]}
      PROVE  UniqueKeys'
  <2>1. \A ty \in Listed : KeyOf[ty] # KeyOf[type[t]]
    BY <1>2 DEF RegAdd, Goto, RegInv, Find, Listed
  <2> QED
    BY <1>2, <2>1 DEF DataInv, UniqueKeys
<1>3. ASSUME NEW t \in Threads, Listed' = Listed \ {type[t]}
      PROVE  UniqueKeys'
  BY <1>3 DEF DataInv, UniqueKeys
<1> QED
  BY <1>1, <1>2, <1>3, ListEffect

\* header_default moves with list_add_tail() and only to a newer type, and
\* list_del_init() never takes it.
LEMMA DefaultStep ==
  ASSUME CtlInv, DataInv, UnregInv, Effect
  PROVE  DefaultIsNewest'
<1>1. CASE UNCHANGED <<link, default>>
  BY <1>1 DEF DataInv, DefaultIsNewest, Listed
<1>2. ASSUME NEW t \in Threads, RegAdd(t), Listed' = Listed \cup {type[t]},
             default' = Newest(type[t])
      PROVE  DefaultIsNewest'
  <2>1. type[t] \in Types /\ type[t] # NoType
    BY <1>2, SetsAssumption DEF RegAdd, Goto, CtlInv, ArgInv, HasArgument
  <2>2. \A ty \in Listed \cup {type[t]} : ty \in Types /\ KeyOf[ty] \in Nat
    BY <2>1, KeysAssumption DEF Listed
  <2> QED
    BY <1>2, <2>1, <2>2, SetsAssumption DEF DataInv, DefaultIsNewest, Newest
<1>3. ASSUME NEW t \in Threads, UnregDel(t), Listed' = Listed \ {type[t]}, default' = default
      PROVE  DefaultIsNewest'
  <2>1. type[t] # default
    BY <1>3, UnlinkedIsFree DEF UnregDel, Goto
  <2> QED
    BY <1>3, <2>1 DEF DataInv, DefaultIsNewest
<1> QED
  BY <1>1, <1>2, <1>3, ListEffect

\* Nothing that is used leaves the list.
LEMMA UsersListedStep ==
  ASSUME CtlInv, DataInv, RegInv, UnregInv, Effect
  PROVE  UsersListed'
<1>1. UsersListed
  BY UsersAreListed DEF DataInv
<1>2. CASE Quiet
  BY <1>1, <1>2 DEF Quiet, typeVars, UsersListed, Listed
<1>3. ASSUME NEW t \in Threads, Add(t) PROVE UsersListed'
  <2>1. Listed \subseteq Listed'
    BY <1>3 DEF Add, RegAdd, Listed, CtlInv, TypeOK
  <2> QED
    BY <1>1, <1>3, <2>1 DEF Add, UsersListed
<1>4. ASSUME NEW t \in Threads, Unlink(t) PROVE UsersListed'
  <2>1. Listed' = Listed \ {type[t]}
    BY <1>4 DEF Unlink, UnregDel, Listed, CtlInv, TypeOK
  <2>2. \A o \in Owners : Users[o] # type[t]
    BY <1>4, UnlinkedIsFree DEF Unlink, UnregDel, Goto, Holders
  <2> QED
    BY <1>1, <1>4, <2>1, <2>2 DEF Unlink, UsersListed
<1>5. ASSUME NEW t \in Threads, Take(t) PROVE UsersListed'
  <2>1. type[t] \in Listed
    BY <1>5, SetsAssumption
    DEF Take, GetInc, Goto, DataInv, NoDanglingType, CtlInv, ArgInv, HasArgument
  <2>2. Listed' = Listed
    BY <1>5 DEF Take, GetInc, Listed
  <2> QED
    BY <1>1, <1>5, <2>1, <2>2, UsersType DEF Take, UsersListed, CtlInv
<1>6. ASSUME NEW t \in Threads, Drop(t) PROVE UsersListed'
  <2>1. Listed' = Listed
    BY <1>6 DEF Drop, Put, Listed
  <2> QED
    BY <1>1, <1>6, <2>1, UsersType DEF Drop, UsersListed, CtlInv
<1>7. ASSUME NEW o \in Owners, NEW p \in Owners, Move(o, p) PROVE UsersListed'
  <2>1. Listed' = Listed
    BY <1>7 DEF Move, typeVars, Listed
  <2> QED
    BY <1>1, <1>7, <2>1, UsersType, SetsAssumption DEF Move, UsersListed, CtlInv
<1> QED
  BY <1>2, <1>3, <1>4, <1>5, <1>6, <1>7 DEF Effect

-----------------------------------------------------------------------------
(***************************************************************************)
(* What a locked call has read stays true.                                 *)
(***************************************************************************)

\* A step of one thread leaves the others where they are.
LEMMA OthersStay ==
  ASSUME CtlInv, NEW t \in Threads, Call(t) \/ Step(t), NEW u \in Threads, u # t
  PROVE  pc'[u] = pc[u] /\ type'[u] = type[u] /\ want'[u] = want[u]
  BY DEF CtlInv, TypeOK, Call, Step, Goto, Return, CallRegister, RegLock, RegBusy, RegFree,
     RegAdd, CallUnregister, UnregLock, UnregBusy, UnregFree, UnregDel, WriteReturn,
     CallCreate, GetLock, GetFound, GetMissing, GetInc, GetUnlock, GetNoSys, AllocDone,
     AllocFailed, CallClose, FreeDone, Put

\* How a thread gets to the places where it relies on what it has read.
LEMMA Arrives ==
  ASSUME CtlInv, NEW t \in Threads, Call(t) \/ Step(t)
  PROVE  /\ pc'[t] = "reg_add" => RegFree(t)
         /\ pc'[t] = "unreg_del" => UnregFree(t)
         /\ pc'[t] = "get_inc" => GetFound(t)
         /\ pc'[t] = "rd_unlock" => GetInc(t) \/ GetMissing(t)
  BY DEF CtlInv, TypeOK, Call, Step, Goto, Return, CallRegister, RegLock, RegBusy, RegFree,
     RegAdd, CallUnregister, UnregLock, UnregBusy, UnregFree, UnregDel, WriteReturn,
     CallCreate, GetLock, GetFound, GetMissing, GetInc, GetUnlock, GetNoSys, AllocDone,
     AllocFailed, CallClose, FreeDone, Put

\* The list is not changed by another thread while a thread is in a locked
\* section, nor by a lookup; while it writes, no other thread counts up.
LEMMA LockProtects ==
  ASSUME CtlInv, NEW t \in Threads, Call(t) \/ Step(t),
         NEW u \in Threads, u # t, pc[u] \in WriteLocked \cup ReadLocked
  PROVE  /\ UNCHANGED <<link, default>>
         /\ pc[u] \in WriteLocked => refcnt' = refcnt \/ Put(t)
<1>1. pc[t] \notin WriteLocked
  BY SetsAssumption DEF CtlInv, LockInv, WriteLocked
<1>2. pc[u] \in WriteLocked => pc[t] \notin ReadLocked
  BY SetsAssumption DEF CtlInv, LockInv
<1> QED
  BY <1>1, <1>2
  DEF WriteLocked, ReadLocked, Call, Step, Goto, typeVars, CallRegister, RegLock, RegBusy,
     RegFree, RegAdd, CallUnregister, UnregLock, UnregBusy, UnregFree, UnregDel, WriteReturn,
     CallCreate, GetLock, GetFound, GetMissing, GetInc, GetUnlock, GetNoSys, AllocDone,
     AllocFailed, CallClose, FreeDone, Put

\* What register() has found not to be there stays away until it is added: the
\* write lock is held.
LEMMA RegInvStep ==
  ASSUME CtlInv, RegInv, NEW t \in Threads, Call(t) \/ Step(t)
  PROVE  RegInv'
<1> SUFFICES ASSUME NEW u \in Threads, pc'[u] = "reg_add"
             PROVE  Find(KeyOf[type[u]])' = {}
  BY DEF RegInv
<1>1. CASE u = t
  BY <1>1, Arrives DEF RegFree, typeVars, Find, Listed
<1>2. CASE u # t
  <2>1. pc[u] = "reg_add" /\ type'[u] = type[u]
    BY <1>2, OthersStay
  <2>2. UNCHANGED <<link, default>>
    BY <1>2, <2>1, LockProtects DEF WriteLocked
  <2> QED
    BY <2>1, <2>2 DEF RegInv, Find, Listed
<1> QED
  BY <1>1, <1>2

\* An unlocked decrement cannot disturb unregister(): with the counter at 1
\* there is no reference to drop.
LEMMA UnregInvStep ==
  ASSUME CtlInv, DataInv, UnregInv, NEW t \in Threads, Call(t) \/ Step(t)
  PROVE  UnregInv'
<1> SUFFICES ASSUME NEW u \in Threads, pc'[u] = "unreg_del"
             PROVE  ~InUse(type[u])'
  BY DEF UnregInv
<1>1. CASE u = t
  BY <1>1, Arrives DEF UnregFree, typeVars, InUse, AtomicGet
<1>2. CASE u # t
  <2>1. pc[u] = "unreg_del" /\ type'[u] = type[u]
    BY <1>2, OthersStay
  <2>2. /\ UNCHANGED <<link, default>>
        /\ refcnt' = refcnt \/ Put(t)
    BY <1>2, <2>1, LockProtects DEF WriteLocked
  <2>3. Holders(type[u]) = {} /\ type[u] \in Types
    BY <2>1, UnlinkedIsFree
  <2>4. Put(t) => type[t] # type[u]
    BY <2>3, SetsAssumption DEF Holders, Users, Put, Holding, Owners
  <2>5. Put(t) => refcnt'[type[u]] = refcnt[type[u]]
    BY <2>3, <2>4 DEF Put, CtlInv, TypeOK
  <2> QED
    BY <2>1, <2>2, <2>5 DEF UnregInv, InUse, AtomicGet
<1> QED
  BY <1>1, <1>2

\* A lookup has at most one answer.
LEMMA OneAnswer ==
  ASSUME UniqueKeys, NEW r, NEW ty \in Answers(r)
  PROVE  Answers(r) = {ty}
  BY DEF UniqueKeys, Answers, Find, Listed

\* What create() has found stays listed until it is counted: the read lock is
\* held.
LEMMA FoundInvStep ==
  ASSUME CtlInv, DataInv, FoundInv, NEW t \in Threads, Call(t) \/ Step(t)
  PROVE  FoundInv'
<1> SUFFICES ASSUME NEW u \in Threads, pc'[u] = "get_inc"
             PROVE  Answers(want[u])' = {type'[u]}
  BY DEF FoundInv
<1>1. CASE u = t
  <2>1. GetFound(t)
    BY <1>1, Arrives
  <2>2. type'[t] \in Answers(want[t])
    BY <2>1 DEF GetFound, CtlInv, TypeOK
  <2>3. Answers(want[t]) = {type'[t]}
    BY <2>2, OneAnswer DEF DataInv
  <2> QED
    BY <1>1, <2>1, <2>3 DEF GetFound, typeVars, Answers, Find, Listed
<1>2. CASE u # t
  <2>1. pc[u] = "get_inc" /\ type'[u] = type[u] /\ want'[u] = want[u]
    BY <1>2, OthersStay
  <2>2. UNCHANGED <<link, default>>
    BY <1>2, <2>1, LockProtects DEF ReadLocked
  <2> QED
    BY <2>1, <2>2 DEF FoundInv, Answers, Find, Listed
<1> QED
  BY <1>1, <1>2

\* The answer of a lookup stays right until the read lock is dropped.
LEMMA LookupStep ==
  ASSUME CtlInv, FoundInv, LookupIsCurrent, NEW t \in Threads, Call(t) \/ Step(t)
  PROVE  LookupIsCurrent'
<1> SUFFICES ASSUME NEW u \in Threads, pc'[u] = "rd_unlock"
             PROVE  Answers(want[u])' = IF type'[u] = NoType THEN {} ELSE {type'[u]}
  BY DEF LookupIsCurrent
<1>1. CASE u = t
  <2>1. CASE GetInc(t)
    BY <1>1, <2>1, SetsAssumption
    DEF GetInc, Goto, FoundInv, Answers, Find, Listed, CtlInv, ArgInv, HasArgument
  <2>2. CASE GetMissing(t)
    BY <1>1, <2>2 DEF GetMissing, Goto, typeVars, Answers, Find, Listed, CtlInv, ArgInv
  <2> QED
    BY <1>1, <2>1, <2>2, Arrives
<1>2. CASE u # t
  <2>1. pc[u] = "rd_unlock" /\ type'[u] = type[u] /\ want'[u] = want[u]
    BY <1>2, OthersStay
  <2>2. UNCHANGED <<link, default>>
    BY <1>2, <2>1, LockProtects DEF ReadLocked
  <2> QED
    BY <2>1, <2>2 DEF LookupIsCurrent, Answers, Find, Listed
<1> QED
  BY <1>1, <1>2

-----------------------------------------------------------------------------
(***************************************************************************)
(* The inductive invariant.                                                *)
(***************************************************************************)
\* The static initialisers satisfy the invariant.
LEMMA IInvInit == Init => IInv
<1> SUFFICES ASSUME Init PROVE IInv
  OBVIOUS
<1>1. CtlInv
  BY CtlInit
<1>2. Listed = {} /\ default = NoType
  BY DEF Init, Listed
<1>3. DataInv
  BY <1>2, SetsAssumption
  DEF Init, DataInv, CountsReferences, NoDanglingType, UniqueKeys, DefaultIsNewest, Holding
<1>4. ReadInv
  BY DEF Init, ReadInv, RegInv, UnregInv, FoundInv, LookupIsCurrent
<1> QED
  BY <1>1, <1>3, <1>4 DEF IInv

\* Every step of a call keeps it.
LEMMA IInvNext == IInv /\ [Next]_vars => IInv'
<1> SUFFICES ASSUME IInv, [Next]_vars PROVE IInv'
  OBVIOUS
<1>1. CASE Next
  <2> USE DEF IInv
  <2>1. CtlInv'
    BY <1>1, TypeStep, LockStep, ArgStep DEF CtlInv
  <2>2. Effect
    BY <1>1, StepEffect
  <2>3. CountsReferences' /\ UniqueKeys' /\ DefaultIsNewest' /\ UsersListed'
    BY <2>2, CountStep, UniqueStep, DefaultStep, UsersListedStep DEF ReadInv
  <2>4. ReadInv'
    BY <1>1, RegInvStep, UnregInvStep, FoundInvStep, LookupStep DEF Next, ReadInv
  <2>5. NoDanglingType'
    <3>1. \A c \in Objects : object'[c] # NoType => object'[c] \in Listed'
      BY <2>3 DEF UsersListed, Users, Owners
    <3>2. \A t \in Threads : pc'[t] \in Holding /\ type'[t] # NoType => type'[t] \in Listed'
      BY <2>3, SetsAssumption DEF UsersListed, Users, Owners
    <3>3. \A t \in Threads : pc'[t] = "get_inc" => type'[t] \in Listed'
      BY <2>3, <2>4 DEF ReadInv, FoundInv, Answers, Find, DefaultIsNewest
    <3> QED
      BY <3>1, <3>2, <3>3 DEF NoDanglingType
  <2> QED
    BY <2>1, <2>3, <2>4, <2>5 DEF DataInv
<1>2. CASE UNCHANGED vars
  <2> USE <1>2 DEF vars, IInv
  <2>1. CtlInv'
    BY DEF CtlInv, TypeOK, LockInv, ArgInv
  <2>2. Listed' = Listed /\ Users' = Users
    BY DEF Listed, Users
  <2>3. CountsReferences'
    BY <2>2, HoldersAreUsers DEF DataInv, CountsReferences
  <2>4. NoDanglingType' /\ UniqueKeys' /\ DefaultIsNewest'
    BY <2>2 DEF DataInv, NoDanglingType, UniqueKeys, DefaultIsNewest
  <2>5. ReadInv'
    BY <2>2 DEF ReadInv, RegInv, UnregInv, FoundInv, LookupIsCurrent, InUse, Answers, Find,
                AtomicGet
  <2> QED
    BY <2>1, <2>3, <2>4, <2>5 DEF DataInv
<1> QED
  BY <1>1, <1>2

\* So it holds in every state.
LEMMA Invariance == Spec => []IInv
  BY IInvInit, IInvNext, PTL DEF Spec

(***************************************************************************)
(* Type correctness, for any threads, objects, types and requests.         *)
(***************************************************************************)
THEOREM TypeCorrect == Spec => []TypeOK
<1>1. IInv => TypeOK
  BY DEF IInv, CtlInv
<1> QED
  BY <1>1, Invariance, PTL

(***************************************************************************)
(* cfe_header_register/_unregister/_create/_close keep the counter of      *)
(* every type equal to one plus the number of its users.                   *)
(***************************************************************************)
THEOREM ReferencesCounted == Spec => []CountsReferences
<1>1. IInv => CountsReferences
  BY DEF IInv, DataInv
<1> QED
  BY <1>1, Invariance, PTL

(***************************************************************************)
(* A type that an object, a callback or a lookup depends on stays on the   *)
(* list.                                                                   *)
(***************************************************************************)
THEOREM UsedTypesStay == Spec => []NoDanglingType
<1>1. IInv => NoDanglingType
  BY DEF IInv, DataInv
<1> QED
  BY <1>1, Invariance, PTL

(***************************************************************************)
(* unregister() unlinks a node that was linked once, that is not the       *)
(* default and that nobody uses: the check under the write lock still      *)
(* holds at the list_del_init().                                           *)
(***************************************************************************)
THEOREM UnlinkedUnused == Spec => []UnlinkIsSafe
<1>1. IInv => UnlinkIsSafe
  BY UnlinkedIsFree DEF IInv, DataInv, ReadInv, UnlinkIsSafe
<1> QED
  BY <1>1, Invariance, PTL

(***************************************************************************)
(* No two listed types have one key, whichever threads race to register.   *)
(***************************************************************************)
THEOREM KeysAreUnique == Spec => []UniqueKeys
<1>1. IInv => UniqueKeys
  BY DEF IInv, DataInv
<1> QED
  BY <1>1, Invariance, PTL

(***************************************************************************)
(* The default is listed, and no listed type is newer.                     *)
(***************************************************************************)
THEOREM DefaultIsTheNewest == Spec => []DefaultIsNewest
<1>1. IInv => DefaultIsNewest
  BY DEF IInv, DataInv
<1> QED
  BY <1>1, Invariance, PTL

(***************************************************************************)
(* What a lookup found is the only answer as long as it holds the lock.    *)
(***************************************************************************)
THEOREM LookupsAreExact == Spec => []LookupIsCurrent
<1>1. IInv => LookupIsCurrent
  BY DEF IInv, ReadInv
<1> QED
  BY <1>1, Invariance, PTL

-----------------------------------------------------------------------------
(***************************************************************************)
(* Refinement.                                                             *)
(***************************************************************************)
\* An empty header_list is the empty set of types.
LEMMA AbsInit == Init => Abs!Init
  BY DEF Init, Abs!Init, Listed, Users, Owners, Holding

\* Every step is a step of the abstract registry, or changes nothing it sees.
LEMMA AbsStep == IInv /\ [Next]_vars => [Abs!Next]_<<Listed, Users, default>>
<1> SUFFICES ASSUME IInv, [Next]_vars
             PROVE  [Abs!Next]_<<Listed, Users, default>>
  OBVIOUS
<1>1. CASE UNCHANGED vars
  BY <1>1 DEF vars, Listed, Users
<1>2. CASE Next
  <2>1. CtlInv /\ DataInv /\ ReadInv /\ Effect
    BY <1>2, StepEffect DEF IInv
  <2>2. Users \in [Owners -> Types \cup {NoType}] /\ Threads \subseteq Owners
    BY <2>1, UsersType DEF CtlInv, Owners
  <2>3. CASE Quiet
    BY <2>3 DEF Quiet, typeVars, Listed
  <2>4. ASSUME NEW t \in Threads, Add(t) PROVE Abs!Next
    <3>1. type[t] \in Types /\ Find(KeyOf[type[t]]) = {}
      BY <2>1, <2>4 DEF Add, RegAdd, Goto, CtlInv, ArgInv, HasArgument, ReadInv, RegInv
    <3>2. \A other \in Listed : KeyOf[other] # KeyOf[type[t]]
      BY <3>1 DEF Find
    <3>3. Listed' = Listed \cup {type[t]}
      BY <2>1, <2>4, <3>1 DEF Add, RegAdd, Listed, CtlInv, TypeOK
    <3>4. default' = IF HasDefault /\ \A other \in Listed : KeyOf[other] < KeyOf[type[t]]
                       THEN type[t] ELSE default
      <4>1. \A ty \in Listed \cup {type[t]} : ty \in Types /\ KeyOf[ty] \in Nat
        BY <3>1, KeysAssumption DEF Listed
      <4> QED
        BY <2>1, <2>4, <4>1 DEF Add, RegAdd, Newest, DataInv, DefaultIsNewest
    <3>5. Abs!Register(type[t])
      BY <2>4, <3>2, <3>3, <3>4 DEF Abs!Register, Add
    <3> QED
      BY <3>1, <3>5 DEF Abs!Next
  <2>5. ASSUME NEW t \in Threads, Unlink(t) PROVE Abs!Next
    <3>1. type[t] \in Types /\ type[t] # default /\ Holders(type[t]) = {}
      BY <2>1, <2>5, UnlinkedIsFree DEF Unlink, UnregDel, Goto, ReadInv
    <3>2. Listed' = Listed \ {type[t]} /\ default' = default
      BY <2>1, <2>5, <3>1 DEF Unlink, UnregDel, Listed, CtlInv, TypeOK
    <3>3. Abs!Unregister(type[t])
      BY <2>5, <3>1, <3>2 DEF Abs!Unregister, Unlink, Holders
    <3> QED
      BY <3>1, <3>3 DEF Abs!Next
  <2>6. ASSUME NEW t \in Threads, Take(t) PROVE Abs!Next
    <3>1. type[t] \in Types /\ type[t] \in Listed
      BY <2>1, <2>6, SetsAssumption
      DEF Take, GetInc, Goto, CtlInv, ArgInv, HasArgument, DataInv, NoDanglingType
    <3>2. Listed' = Listed /\ default' = default
      BY <2>6 DEF Take, GetInc, Listed
    <3>3. Abs!Acquire(t, type[t])
      BY <2>6, <3>1, <3>2 DEF Abs!Acquire, Take
    <3> QED
      BY <2>2, <3>1, <3>3 DEF Abs!Next
  <2>7. ASSUME NEW t \in Threads, Drop(t) PROVE Abs!Next
    <3>1. type[t] \in Types
      BY <2>1, <2>7 DEF Drop, Put, CtlInv, ArgInv, HasArgument
    <3>2. Listed' = Listed /\ default' = default
      BY <2>7 DEF Drop, Put, Listed
    <3>3. Abs!Release(t)
      BY <2>7, <3>1, <3>2, SetsAssumption DEF Abs!Release, Drop
    <3> QED
      BY <2>2, <3>3 DEF Abs!Next
  <2>8. ASSUME NEW o \in Owners, NEW p \in Owners, Move(o, p) PROVE Abs!Next
    <3>1. Listed' = Listed /\ default' = default
      BY <2>8 DEF Move, typeVars, Listed
    <3>2. Abs!Hand(o, p)
      BY <2>8, <3>1, SetsAssumption DEF Abs!Hand, Move
    <3> QED
      BY <3>2 DEF Abs!Next
  <2> QED
    BY <2>1, <2>3, <2>4, <2>5, <2>6, <2>7, <2>8 DEF Effect
<1> QED
  BY <1>1, <1>2

(***************************************************************************)
(* The registry with its lock and counters implements the promise in which *)
(* every call is one step and a used type is never withdrawn.              *)
(***************************************************************************)
THEOREM RegistryImplements == Spec => AbsSpec
  BY AbsInit, AbsStep, Invariance, PTL DEF Spec, AbsSpec, Abs!Spec, Abs!absVars
=============================================================================
