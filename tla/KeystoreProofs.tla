--------------------------- MODULE KeystoreProofs ---------------------------
(***************************************************************************)
(* Proofs about the keystores, for any threads, descriptions and payloads. *)
(*                                                                         *)
(* macOS: whatever a call does to the dictionary is one of six effects on  *)
(* stored values, owned values and retain counts; the counts balance       *)
(* through each.  What is retained keeps its bytes, and with that and the  *)
(* lock every step is a step of the abstract map.                          *)
(*                                                                         *)
(* Linux: a serial number that a call has in hand is either still linked   *)
(* under the call's description or dead for good, and then the call has    *)
(* been running when the key went (SerialInv).                             *)
(*                                                                         *)
(* The start: a constructor finds a name taken only if the program has     *)
(* taken it (OwnerInv), and until main() only the loader can be between    *)
(* the test and the assignment of the keystore, in main() a thread only if *)
(* the build has no backend (SetterInv).                                   *)
(***************************************************************************)
EXTENDS Keystores, Startup, UserCounts

Nulls == {"remove_lock_null", "remove_null", "remove_unlock_null", "remove_release_null"}
WriteLocked == {"add_remove", "add_value", "add_unlock", "remove_value", "remove_unlock"}
ReadLocked == {"read_get", "read_retain", "read_unlock"}

\* A pc inside a locked section has the lock, and a writer is alone.
LockInv ==
  /\ \A t \in Threads : pc[t] \in WriteLocked => writer = t
  /\ \A t \in Threads : pc[t] \in ReadLocked => t \in readers
  /\ writer # NoThread => readers = {}

\* What a call has at each of its steps.
ArgInv ==
  \A t \in Threads :
    /\ pc[t] \notin Nulls
    /\ pc[t] \in {"add_data", "add_lock", "add_remove", "add_value", "add_unlock", "add_release"} =>
         payload[t] \in Payloads
    /\ pc[t] \in {"add_lock", "add_remove", "add_value", "add_unlock", "add_release",
                  "read_retain", "read_copy", "read_release"} => data[t] \in Datas

\* What a call has seen under the lock, and relies on.
FoundInv ==
  \A t \in Threads :
    /\ pc[t] = "read_retain" => store[desc[t]] = data[t]
    /\ pc[t] = "add_value" => store[desc[t]] = NoData

\* What a thread owns a retain of.
Owned == [t \in Threads |-> IF Owns(t) THEN data[t] ELSE NoData]

Counted ==
  \A x \in Datas : retain[x] = Cardinality(UserSet(Descs, store, x))
                             + Cardinality(UserSet(Threads, Owned, x))

\* What is retained has its bytes, and those of an add are its payload.
BytesInv ==
  /\ \A x \in Datas : retain[x] > 0 => bytes[x] \in Payloads
  /\ \A t \in Threads : pc[t] \in {"add_lock", "add_remove", "add_value"} =>
       bytes[data[t]] = payload[t]

CtlInv == TypeOK /\ LockInv /\ ArgInv
IInv == CtlInv /\ FoundInv /\ Counted /\ BytesInv /\ NeverReadsFreed

-----------------------------------------------------------------------------
(***************************************************************************)
(* The effects of a step.                                                  *)
(***************************************************************************)
Still == UNCHANGED <<store, retain, bytes>> /\ \A u \in Threads : Owned'[u] = Owned[u]

Makes(t, x) ==
  /\ retain[x] = 0 /\ payload[t] \in Payloads /\ Owned[t] = NoData /\ Owned'[t] = x
  /\ retain' = [retain EXCEPT ![x] = 1] /\ bytes' = [bytes EXCEPT ![x] = payload[t]]
  /\ UNCHANGED store /\ \A u \in Threads \ {t} : Owned'[u] = Owned[u]

Unstores(d) ==
  /\ store[d] \in Datas /\ Release(store[d]) /\ store' = [store EXCEPT ![d] = NoData]
  /\ \A u \in Threads : Owned'[u] = Owned[u]

Stores(d, x) ==
  /\ store[d] = NoData /\ retain[x] > 0 /\ store' = [store EXCEPT ![d] = x]
  /\ retain' = [retain EXCEPT ![x] = @ + 1]
  /\ UNCHANGED bytes /\ \A u \in Threads : Owned'[u] = Owned[u]

Shares(t, x) ==
  /\ Owned[t] = NoData /\ Owned'[t] = x /\ retain[x] > 0
  /\ retain' = [retain EXCEPT ![x] = @ + 1]
  /\ UNCHANGED <<store, bytes>> /\ \A u \in Threads \ {t} : Owned'[u] = Owned[u]

LetsGo(t, x) ==
  /\ Owned[t] = x /\ Owned'[t] = NoData /\ Release(x)
  /\ UNCHANGED store /\ \A u \in Threads \ {t} : Owned'[u] = Owned[u]

Effect(t) ==
  \/ Still
  \/ \E d \in Descs : Unstores(d)
  \/ \E x \in Datas : Makes(t, x) \/ Shares(t, x) \/ LetsGo(t, x)
  \/ \E d \in Descs, x \in Datas : Stores(d, x)

\* What is stored, owned or just found is retained.
LEMMA Alive ==
  ASSUME TypeOK, Counted
  PROVE  /\ \A d \in Descs : store[d] \in Datas => retain[store[d]] > 0
         /\ \A t \in Threads : Owned[t] \in Datas => retain[Owned[t]] > 0
<1>1. \A x : /\ Cardinality(UserSet(Descs, store, x)) \in Nat
             /\ Cardinality(UserSet(Threads, Owned, x)) \in Nat
             /\ Cardinality(UserSet(Descs, store, x)) = 0 <=> UserSet(Descs, store, x) = {}
             /\ Cardinality(UserSet(Threads, Owned, x)) = 0 <=> UserSet(Threads, Owned, x) = {}
  BY UsersCounted, KeystoreDarwinAssumption
<1>2. \A d \in Descs : store[d] \in Datas => retain[store[d]] > 0
  <2> TAKE d \in Descs
  <2> HAVE store[d] \in Datas
  <2>1. UserSet(Descs, store, store[d]) # {}
    BY DEF UserSet
  <2> QED
    BY <1>1, <2>1 DEF Counted
<1>3. \A t \in Threads : Owned[t] \in Datas => retain[Owned[t]] > 0
  <2> TAKE t \in Threads
  <2> HAVE Owned[t] \in Datas
  <2>1. UserSet(Threads, Owned, Owned[t]) # {}
    BY DEF UserSet
  <2> QED
    BY <1>1, <2>1 DEF Counted
<1> QED
  BY <1>2, <1>3

LEMMA OwnedAre ==
  \A t \in Threads : Owned[t] = IF Owns(t) THEN data[t] ELSE NoData
  BY DEF Owned

LEMMA OwnedNext ==
  \A t \in Threads : Owned'[t] = IF Owns(t)' THEN data'[t] ELSE NoData
  BY DEF Owned

LEMMA FoundAlive ==
  ASSUME TypeOK, ArgInv, FoundInv, Counted, NEW t \in Threads, pc[t] = "read_retain"
  PROVE  data[t] \in Datas /\ retain[data[t]] > 0
<1>1. data[t] \in Datas /\ store[desc[t]] = data[t] /\ desc[t] \in Descs
  BY DEF ArgInv, FoundInv, TypeOK
<1> QED
  BY <1>1, Alive

\* What a step does to the locals of other threads: nothing.
LEMMA OthersKept ==
  ASSUME TypeOK, NEW t \in Threads, Step(t) \/ \E d \in Descs : Call(t, d),
         NEW u \in Threads, u # t
  PROVE  /\ pc'[u] = pc[u] /\ desc'[u] = desc[u] /\ payload'[u] = payload[u]
         /\ data'[u] = data[u] /\ out'[u] = out[u]
<1> USE DEF TypeOK, Goto, Set
<1>1. CASE \E d \in Descs : Call(t, d)
  BY <1>1 DEF Call, CallInvalid, CallRemove, CallAdd, CallRead
<1>2. CASE AddData(t) \/ AddNoMemory(t) \/ AddLock(t) \/ AddRemove(t) \/ AddValue(t)
           \/ AddUnlock(t) \/ ReleaseData(t)
  BY <1>2 DEF AddData, AddNoMemory, AddLock, AddRemove, AddValue, AddUnlock, ReleaseData
<1>3. CASE RemoveLock(t) \/ Remove(t) \/ RemoveUnlock(t)
  BY <1>3 DEF RemoveLock, Remove, RemoveUnlock
<1>4. CASE \/ ReadNoMemory(t) \/ ReadLock(t) \/ ReadGet(t) \/ ReadRetain(t) \/ ReadUnlock(t)
           \/ ReadCopy(t) \/ ReadNoSpace(t)
  BY <1>4 DEF ReadNoMemory, ReadLock, ReadGet, ReadRetain, ReadUnlock, ReadCopy, ReadNoSpace
<1> QED
  BY <1>1, <1>2, <1>3, <1>4 DEF Step

-----------------------------------------------------------------------------
(***************************************************************************)
(* The lock, the locals and the effect of every step.                      *)
(***************************************************************************)
LEMMA Initially == Init => IInv
<1> SUFFICES ASSUME Init PROVE IInv
  OBVIOUS
<1> USE KeystoreDarwinAssumption
<1>1. desc \in [Threads -> Descs]
  <2>1. (CHOOSE d \in Descs : TRUE) \in Descs
    OBVIOUS
  <2> QED
    BY <2>1 DEF Init
<1>2. TypeOK
  BY <1>1 DEF Init, TypeOK, Labels
<1>3. LockInv /\ ArgInv /\ FoundInv
  BY DEF Init, LockInv, ArgInv, FoundInv, WriteLocked, ReadLocked, Nulls
<1>4. BytesInv /\ NeverReadsFreed
  BY DEF Init, BytesInv, NeverReadsFreed
<1>5. \A x \in Datas : UserSet(Descs, store, x) = {} /\ UserSet(Threads, Owned, x) = {}
  BY DEF Init, UserSet, Owned, Owns
<1>6. \A x \in Datas : /\ Cardinality(UserSet(Descs, store, x)) = 0
                       /\ Cardinality(UserSet(Threads, Owned, x)) = 0
  BY <1>5, FS_EmptySet
<1>7. \A x \in Datas : retain[x] = 0
  BY DEF Init
<1>8. Counted
  BY <1>6, <1>7 DEF Counted
<1> QED
  BY <1>2, <1>3, <1>4, <1>8 DEF IInv, CtlInv

\* A dictionary that drops a value, or has none to drop.
LEMMA RemoveEffect ==
  ASSUME TypeOK, NEW d \in Descs, RemoveValue(d), \A u \in Threads : Owned'[u] = Owned[u]
  PROVE  Still \/ Unstores(d)
  BY DEF RemoveValue, Still, Unstores, TypeOK, Set

LEMMA EffectOfStep ==
  ASSUME TypeOK, ArgInv, FoundInv, Counted, NEW t \in Threads,
         Step(t) \/ \E d \in Descs : Call(t, d)
  PROVE  Effect(t)
<1> USE KeystoreDarwinAssumption DEF Goto, Set
<1>1. \A u \in Threads \ {t} : Owned'[u] = Owned[u]
  <2> TAKE u \in Threads \ {t}
  <2>1. pc'[u] = pc[u] /\ data'[u] = data[u]
    BY OthersKept
  <2> QED
    BY <2>1, OwnedAre, OwnedNext DEF Owns
<1>2. /\ Owned[t] = IF Owns(t) THEN data[t] ELSE NoData
      /\ Owned'[t] = IF Owns(t)' THEN data'[t] ELSE NoData
  BY OwnedAre, OwnedNext
<1>3. desc[t] \in Descs /\ pc \in [Threads -> Labels] /\ data \in [Threads -> Datas \cup {NoData}]
  BY DEF TypeOK
<1>4. CASE \E d \in Descs : Call(t, d)
  BY <1>1, <1>2, <1>3, <1>4
     DEF Call, CallInvalid, CallAdd, CallRemove, CallRead, Effect, Still, Owns, dictVars
<1>5. CASE AddData(t)
  <2>1. PICK x \in Datas : /\ retain[x] = 0
                           /\ retain' = [retain EXCEPT ![x] = 1]
                           /\ bytes' = [bytes EXCEPT ![x] = payload[t]]
                           /\ data' = [data EXCEPT ![t] = x]
    BY <1>5 DEF AddData
  <2>2. Owned[t] = NoData /\ Owned'[t] = x
    BY <1>2, <1>3, <1>5, <2>1 DEF AddData, Owns
  <2>3. payload[t] \in Payloads
    BY <1>5 DEF AddData, ArgInv
  <2> QED
    BY <1>1, <1>5, <2>1, <2>2, <2>3 DEF AddData, Effect, Makes
<1>6. CASE AddNoMemory(t) \/ AddLock(t) \/ AddUnlock(t)
  BY <1>1, <1>2, <1>3, <1>6
     DEF AddNoMemory, AddLock, AddUnlock, Effect, Still, Owns, dictVars
<1>7. CASE AddRemove(t) \/ Remove(t)
  <2>1. Owned'[t] = Owned[t]
    BY <1>2, <1>3, <1>7 DEF AddRemove, Remove, Owns
  <2>2. RemoveValue(desc[t])
    BY <1>7 DEF AddRemove, Remove
  <2> QED
    BY <1>1, <1>3, <2>1, <2>2, RemoveEffect DEF Effect
<1>8. CASE AddValue(t)
  <2>1. store[desc[t]] = NoData /\ data[t] \in Datas
    BY <1>8 DEF AddValue, FoundInv, ArgInv
  <2>2. Owned'[t] = data[t] /\ Owned[t] = data[t]
    BY <1>2, <1>3, <1>8, <2>1 DEF AddValue, Owns
  <2>3. retain[data[t]] > 0
    BY <2>1, <2>2, Alive
  <2> QED
    BY <1>1, <1>3, <1>8, <2>1, <2>2, <2>3 DEF AddValue, Effect, Stores
<1>9. CASE ReleaseData(t)
  <2>1. data[t] \in Datas
    BY <1>9 DEF ReleaseData, ArgInv
  <2>2. Owned[t] = data[t] /\ Owned'[t] = NoData
    BY <1>2, <1>3, <1>9, <2>1 DEF ReleaseData, Owns
  <2> QED
    BY <1>1, <1>9, <2>1, <2>2 DEF ReleaseData, Effect, LetsGo
<1>10. CASE RemoveLock(t) \/ RemoveUnlock(t)
  BY <1>1, <1>2, <1>3, <1>10 DEF RemoveLock, RemoveUnlock, Effect, Still, Owns, dictVars
<1>11. CASE ReadNoMemory(t) \/ ReadLock(t)
  BY <1>1, <1>2, <1>3, <1>11 DEF ReadNoMemory, ReadLock, Effect, Still, Owns, dictVars
<1>12. CASE ReadGet(t)
  BY <1>1, <1>2, <1>3, <1>12 DEF ReadGet, Effect, Still, Owns, dictVars
<1>13. CASE ReadRetain(t)
  <2>1. data[t] \in Datas /\ retain[data[t]] > 0
    BY <1>13, FoundAlive DEF ReadRetain
  <2>2. Owned[t] = NoData /\ Owned'[t] = data[t]
    BY <1>2, <1>3, <1>13, <2>1 DEF ReadRetain, Owns
  <2> QED
    BY <1>1, <1>13, <2>1, <2>2 DEF ReadRetain, Effect, Shares
<1>14. CASE ReadUnlock(t)
  BY <1>1, <1>2, <1>3, <1>14 DEF ReadUnlock, Effect, Still, Owns, dictVars
<1>15. CASE ReadCopy(t) \/ ReadNoSpace(t)
  BY <1>1, <1>2, <1>3, <1>15 DEF ReadCopy, ReadNoSpace, Effect, Still, Owns, dictVars
<1> QED
  BY <1>4, <1>5, <1>6, <1>7, <1>8, <1>9, <1>10, <1>11, <1>12, <1>13, <1>14, <1>15 DEF Step

\* Retain counts stay numbers: what is released was retained.
LEMMA RetainStep ==
  ASSUME TypeOK, Counted, NEW t \in Threads, Effect(t)
  PROVE  retain' \in [Datas -> Nat]
<1>1. \A x \in Datas : retain[x] \in Nat
  BY DEF TypeOK
<1>2. CASE Still
  BY <1>2 DEF Still, TypeOK
<1>3. CASE \E x \in Datas : Makes(t, x) \/ Shares(t, x)
  BY <1>1, <1>3 DEF Makes, Shares, TypeOK
<1>4. CASE \E d \in Descs, x \in Datas : Stores(d, x)
  BY <1>1, <1>4 DEF Stores, TypeOK
<1>5. CASE \E d \in Descs : Unstores(d)
  <2>1. PICK d \in Descs : Unstores(d)
    BY <1>5
  <2>2. retain[store[d]] > 0 /\ store[d] \in Datas
    BY <2>1, Alive DEF Unstores
  <2> QED
    BY <1>1, <2>1, <2>2 DEF Unstores, Release, TypeOK
<1>6. CASE \E x \in Datas : LetsGo(t, x)
  <2>1. PICK x \in Datas : LetsGo(t, x)
    BY <1>6
  <2>2. retain[x] > 0
    BY <2>1, Alive DEF LetsGo
  <2> QED
    BY <1>1, <2>1, <2>2 DEF LetsGo, Release, TypeOK
<1> QED
  BY <1>2, <1>3, <1>4, <1>5, <1>6 DEF Effect

LEMMA TypeStep ==
  ASSUME TypeOK, ArgInv, NEW t \in Threads, Step(t) \/ \E d \in Descs : Call(t, d),
         retain' \in [Datas -> Nat]
  PROVE  TypeOK'
<1> USE KeystoreDarwinAssumption DEF TypeOK, Goto, Set, lockVars, dictVars, WrLock, WrUnlock,
                                     RdLock, RdUnlock, Release, RemoveValue
<1>0. pc' \in [Threads -> Labels]
  <2>1. CASE \E d \in Descs : Call(t, d)
    BY <2>1 DEF Call, CallInvalid, CallAdd, CallRemove, CallRead, Labels
  <2>2. CASE AddData(t) \/ AddNoMemory(t) \/ AddLock(t) \/ AddRemove(t) \/ AddValue(t)
             \/ AddUnlock(t) \/ ReleaseData(t)
    BY <2>2 DEF AddData, AddNoMemory, AddLock, AddRemove, AddValue, AddUnlock, ReleaseData, Labels
  <2>3. CASE RemoveLock(t) \/ Remove(t) \/ RemoveUnlock(t)
    BY <2>3 DEF RemoveLock, Remove, RemoveUnlock, Labels
  <2>4. CASE \/ ReadNoMemory(t) \/ ReadLock(t) \/ ReadGet(t) \/ ReadRetain(t) \/ ReadUnlock(t)
             \/ ReadCopy(t) \/ ReadNoSpace(t)
    BY <2>4 DEF ReadNoMemory, ReadLock, ReadGet, ReadRetain, ReadUnlock, ReadCopy, ReadNoSpace, Labels
  <2> QED
    BY <2>1, <2>2, <2>3, <2>4 DEF Step
<1>1. CASE \E d \in Descs : Call(t, d)
  BY <1>0, <1>1 DEF Call, CallInvalid, CallAdd, CallRemove, CallRead
<1>2. CASE AddData(t)
  <2>1. payload[t] \in Payloads
    BY <1>2 DEF AddData, ArgInv
  <2>2. bytes' \in [Datas -> Payloads \cup {Absent}]
    BY <1>2, <2>1 DEF AddData
  <2>3. data' \in [Threads -> Datas \cup {NoData}]
    BY <1>2 DEF AddData
  <2> QED
    BY <1>0, <1>2, <2>2, <2>3 DEF AddData
<1>3. CASE AddNoMemory(t) \/ AddLock(t) \/ AddUnlock(t)
  BY <1>0, <1>3 DEF AddNoMemory, AddLock, AddUnlock
<1>4. CASE AddRemove(t) \/ Remove(t)
  BY <1>0, <1>4 DEF AddRemove, Remove
<1>5. CASE AddValue(t)
  BY <1>0, <1>5 DEF AddValue
<1>6. CASE ReleaseData(t)
  BY <1>0, <1>6 DEF ReleaseData
<1>7. CASE RemoveLock(t) \/ RemoveUnlock(t)
  BY <1>0, <1>7 DEF RemoveLock, RemoveUnlock
<1>8. CASE ReadNoMemory(t) \/ ReadLock(t) \/ ReadUnlock(t)
  BY <1>0, <1>8 DEF ReadNoMemory, ReadLock, ReadUnlock
<1>9. CASE ReadGet(t) \/ ReadRetain(t)
  BY <1>0, <1>9 DEF ReadGet, ReadRetain
<1>10. CASE ReadNoSpace(t)
  BY <1>0, <1>10 DEF ReadNoSpace
<1>11. CASE ReadCopy(t)
  <2>0. data[t] \in Datas /\ bytes[data[t]] \in Payloads \cup {Absent}
    BY <1>11 DEF ReadCopy, ArgInv
  <2>1. out' \in [Threads -> Payloads \cup {Absent, None}]
    BY <1>11, <2>0 DEF ReadCopy
  <2>2. len' \in [Threads -> Nat]
    <3>1. bytes[data[t]] # Absent => Length[bytes[data[t]]] \in Nat
      BY <2>0
    <3> QED
      BY <1>11, <3>1 DEF ReadCopy
  <2> QED
    BY <1>0, <1>11, <2>1, <2>2 DEF ReadCopy
<1> QED
  BY <1>1, <1>2, <1>3, <1>4, <1>5, <1>6, <1>7, <1>8, <1>9, <1>10, <1>11 DEF Step

LEMMA LockStep ==
  ASSUME TypeOK, LockInv, ArgInv, NEW t \in Threads, Step(t) \/ \E d \in Descs : Call(t, d)
  PROVE  LockInv'
<1> USE KeystoreDarwinAssumption
    DEF TypeOK, LockInv, WriteLocked, ReadLocked, Goto, Set, lockVars, WrLock, WrUnlock,
        RdLock, RdUnlock
<1>1. CASE \E d \in Descs : Call(t, d)
  BY <1>1 DEF Call, CallInvalid, CallAdd, CallRemove, CallRead
<1>2. CASE AddData(t) \/ AddNoMemory(t) \/ ReadNoMemory(t) \/ ReleaseData(t)
  BY <1>2 DEF AddData, AddNoMemory, ReadNoMemory, ReleaseData
<1>3. CASE AddLock(t) \/ RemoveLock(t)
  BY <1>3 DEF AddLock, RemoveLock
<1>4. CASE AddRemove(t) \/ AddValue(t) \/ Remove(t)
  BY <1>4 DEF AddRemove, AddValue, Remove
<1>5. CASE AddUnlock(t)
  BY <1>5 DEF AddUnlock
<1>6. CASE RemoveUnlock(t)
  <2>1. pc[t] = "remove_unlock" /\ pc' = [pc EXCEPT ![t] = "idle"]
    BY <1>6 DEF RemoveUnlock, ArgInv, Nulls
  <2>2. writer = t /\ readers = {}
    BY <2>1
  <2>3. writer' = NoThread /\ readers' = {}
    BY <1>6, <2>2 DEF RemoveUnlock
  <2>4. \A u \in Threads : pc[u] \in WriteLocked => u = t
    BY <2>2
  <2> QED
    BY <2>1, <2>2, <2>3, <2>4
<1>7. CASE ReadLock(t) \/ ReadGet(t) \/ ReadRetain(t)
  BY <1>7 DEF ReadLock, ReadGet, ReadRetain
<1>8. CASE ReadUnlock(t)
  BY <1>8 DEF ReadUnlock
<1>9. CASE ReadCopy(t) \/ ReadNoSpace(t)
  BY <1>9 DEF ReadCopy, ReadNoSpace
<1> QED
  BY <1>1, <1>2, <1>3, <1>4, <1>5, <1>6, <1>7, <1>8, <1>9 DEF Step

LEMMA ArgStep ==
  ASSUME TypeOK, ArgInv, NEW t \in Threads, Step(t) \/ \E d \in Descs : Call(t, d)
  PROVE  ArgInv'
<1> USE KeystoreDarwinAssumption DEF TypeOK, ArgInv, Nulls, Goto, Set, dictVars
<1>1. CASE \E d \in Descs : Call(t, d)
  BY <1>1 DEF Call, CallInvalid, CallAdd, CallRemove, CallRead
<1>2. CASE AddData(t)
  BY <1>2 DEF AddData
<1>3. CASE AddNoMemory(t) \/ AddLock(t) \/ AddRemove(t) \/ AddValue(t) \/ AddUnlock(t)
  BY <1>3 DEF AddNoMemory, AddLock, AddRemove, AddValue, AddUnlock
<1>4. CASE ReleaseData(t)
  BY <1>4 DEF ReleaseData
<1>5. CASE RemoveLock(t) \/ Remove(t) \/ RemoveUnlock(t)
  BY <1>5 DEF RemoveLock, Remove, RemoveUnlock
<1>6. CASE ReadNoMemory(t) \/ ReadLock(t) \/ ReadRetain(t)
  BY <1>6 DEF ReadNoMemory, ReadLock, ReadRetain
<1>7. CASE ReadGet(t)
  BY <1>7 DEF ReadGet
<1>8. CASE ReadUnlock(t)
  BY <1>8 DEF ReadUnlock
<1>9. CASE ReadCopy(t) \/ ReadNoSpace(t)
  BY <1>9 DEF ReadCopy, ReadNoSpace
<1> QED
  BY <1>1, <1>2, <1>3, <1>4, <1>5, <1>6, <1>7, <1>8, <1>9 DEF Step


-----------------------------------------------------------------------------
(***************************************************************************)
(* The counts balance through every effect.                                *)
(***************************************************************************)
LEMMA CountedStep ==
  ASSUME TypeOK, Counted, NEW t \in Threads, Effect(t)
  PROVE  Counted'
<1> DEFINE D(x) == Cardinality(UserSet(Descs, store, x))
           T(x) == Cardinality(UserSet(Threads, Owned, x))
           DD(x) == Cardinality(UserSet(Descs, store', x))
           TT(x) == Cardinality(UserSet(Threads, Owned', x))
<1> USE KeystoreDarwinAssumption
<1>1. \A x \in Datas : retain[x] = D(x) + T(x)
  BY DEF Counted
<1>2. \A x : D(x) \in Nat /\ T(x) \in Nat /\ DD(x) \in Nat /\ TT(x) \in Nat
  BY UsersCounted
<1>3. SUFFICES \A x \in Datas : retain'[x] = DD(x) + TT(x)
  BY DEF Counted
<1>4. /\ \A x \in Datas : retain[x] \in Nat
      /\ DOMAIN retain = Datas /\ DOMAIN store = Descs
      /\ \A d \in Descs : store[d] \in Datas \cup {NoData}
  BY DEF TypeOK
<1>5. ASSUME \A u \in Threads : Owned'[u] = Owned[u]
      PROVE  \A x : TT(x) = T(x)
  BY <1>5, SameUsers
<1>6. ASSUME UNCHANGED store PROVE \A x : DD(x) = D(x)
  BY <1>6
<1>7. CASE Still
  BY <1>1, <1>5, <1>6, <1>7 DEF Still
<1>8. CASE \E x \in Datas : Makes(t, x) \/ Shares(t, x)
  <2>1. PICK x \in Datas : Makes(t, x) \/ Shares(t, x)
    BY <1>8
  <2>2. /\ Owned[t] # x /\ Owned'[t] = x
        /\ \A u \in Threads \ {t} : Owned'[u] = Owned[u]
    BY <2>1 DEF Makes, Shares
  <2>3. TT(x) = T(x) + 1
    <3>1. \A u \in Threads \ {t} : Owned'[u] = x <=> Owned[u] = x
      BY <2>2
    <3> QED
      BY <2>2, <3>1, OneMore
  <2>4. \A y \in Datas \ {x} : TT(y) = T(y)
    <3> TAKE y \in Datas \ {x}
    <3>1. Owned[t] # y /\ Owned'[t] # y
      BY <2>1 DEF Makes, Shares
    <3>2. \A u \in Threads : Owned'[u] = y <=> Owned[u] = y
      BY <2>2, <3>1
    <3> QED
      BY <3>2, SameUsers
  <2>5. /\ retain'[x] = retain[x] + 1 /\ UNCHANGED store
        /\ \A y \in Datas \ {x} : retain'[y] = retain[y]
    BY <1>4, <2>1 DEF Makes, Shares
  <2> HIDE DEF D, T, DD, TT
  <2> QED
    BY <1>1, <1>2, <1>4, <1>6, <2>3, <2>4, <2>5
<1>9. CASE \E x \in Datas : LetsGo(t, x)
  <2>1. PICK x \in Datas : LetsGo(t, x)
    BY <1>9
  <2>2. /\ Owned[t] = x /\ Owned'[t] = NoData /\ x # NoData
        /\ \A u \in Threads \ {t} : Owned'[u] = Owned[u]
    BY <2>1 DEF LetsGo
  <2>3. T(x) = TT(x) + 1
    BY <2>2, OneMore
  <2>4. \A y \in Datas \ {x} : TT(y) = T(y)
    <3> TAKE y \in Datas \ {x}
    <3>2. \A u \in Threads : Owned'[u] = y <=> Owned[u] = y
      BY <2>2
    <3> QED
      BY <3>2, SameUsers
  <2>5. /\ retain'[x] = retain[x] - 1 /\ UNCHANGED store
        /\ \A y \in Datas \ {x} : retain'[y] = retain[y]
    BY <1>4, <2>1 DEF LetsGo, Release
  <2> HIDE DEF D, T, DD, TT
  <2> QED
    BY <1>1, <1>2, <1>4, <1>6, <2>3, <2>4, <2>5
<1>10. CASE \E d \in Descs : Unstores(d)
  <2>1. PICK d \in Descs : Unstores(d)
    BY <1>10
  <2> DEFINE x == store[d]
  <2>2. /\ x \in Datas /\ store'[d] = NoData
        /\ \A e \in Descs \ {d} : store'[e] = store[e]
    BY <1>4, <2>1 DEF Unstores
  <2>3. D(x) = DD(x) + 1
    BY <2>2, OneMore
  <2>4. \A y \in Datas \ {x} : DD(y) = D(y)
    <3> TAKE y \in Datas \ {x}
    <3>2. \A e \in Descs : store'[e] = y <=> store[e] = y
      BY <2>2
    <3> QED
      BY <3>2, SameUsers
  <2>5. /\ retain'[x] = retain[x] - 1
        /\ \A y \in Datas \ {x} : retain'[y] = retain[y]
        /\ \A u \in Threads : Owned'[u] = Owned[u]
    BY <1>4, <2>1 DEF Unstores, Release
  <2> HIDE DEF D, T, DD, TT, x
  <2> QED
    BY <1>1, <1>2, <1>4, <1>5, <2>2, <2>3, <2>4, <2>5
<1>11. CASE \E d \in Descs, x \in Datas : Stores(d, x)
  <2>1. PICK d \in Descs, x \in Datas : Stores(d, x)
    BY <1>11
  <2>2. /\ store[d] = NoData /\ store'[d] = x /\ x # NoData
        /\ \A e \in Descs \ {d} : store'[e] = store[e]
    BY <1>4, <2>1 DEF Stores
  <2>3. DD(x) = D(x) + 1
    BY <2>2, OneMore
  <2>4. \A y \in Datas \ {x} : DD(y) = D(y)
    <3> TAKE y \in Datas \ {x}
    <3>2. \A e \in Descs : store'[e] = y <=> store[e] = y
      BY <2>2
    <3> QED
      BY <3>2, SameUsers
  <2>5. /\ retain'[x] = retain[x] + 1
        /\ \A y \in Datas \ {x} : retain'[y] = retain[y]
        /\ \A u \in Threads : Owned'[u] = Owned[u]
    BY <1>4, <2>1 DEF Stores
  <2> HIDE DEF D, T, DD, TT
  <2> QED
    BY <1>1, <1>2, <1>4, <1>5, <2>3, <2>4, <2>5
<1> QED
  BY <1>7, <1>8, <1>9, <1>10, <1>11 DEF Effect

\* Whoever keeps a retained CFData keeps its contents.
LEMMA Stable ==
  ASSUME TypeOK, NEW t \in Threads, Effect(t), NEW x \in Datas, retain[x] > 0, retain'[x] > 0
  PROVE  bytes'[x] = bytes[x]
<1>1. retain \in [Datas -> Nat] /\ bytes \in [Datas -> Payloads \cup {Absent}]
  BY DEF TypeOK
<1>2. ASSUME NEW y \in Datas, Release(y) PROVE bytes'[x] = bytes[x]
  BY <1>1, <1>2 DEF Release, Set
<1>3. CASE \E y \in Datas : Makes(t, y)
  BY <1>1, <1>3 DEF Makes
<1>4. CASE \E y \in Datas : Shares(t, y) \/ LetsGo(t, y)
  BY <1>2, <1>4 DEF Shares, LetsGo
<1>5. CASE Still \/ (\E d \in Descs : Unstores(d)) \/ \E d \in Descs, y \in Datas : Stores(d, y)
  BY <1>2, <1>5 DEF Still, Unstores, Stores
<1> QED
  BY <1>3, <1>4, <1>5 DEF Effect

\* What a thread owns before and after a step is retained before and after it.
LEMMA OwnedStaysRetained ==
  ASSUME TypeOK, Counted, Counted', NEW u \in Threads, Owned[u] \in Datas, Owned'[u] = Owned[u]
  PROVE  retain[Owned[u]] > 0 /\ retain'[Owned[u]] > 0
<1>1. retain[Owned[u]] > 0
  BY Alive
<1>2. UserSet(Threads, Owned', Owned[u]) # {}
  BY DEF UserSet
<1>3. Cardinality(UserSet(Threads, Owned', Owned[u])) \in Nat \ {0}
  BY <1>2, UsersCounted, KeystoreDarwinAssumption
<1>4. Cardinality(UserSet(Descs, store', Owned[u])) \in Nat
  BY UsersCounted, KeystoreDarwinAssumption
<1> QED
  BY <1>1, <1>3, <1>4 DEF Counted

\* Nobody writes the dictionary while another thread has the lock.
LEMMA StoreKept ==
  ASSUME TypeOK, LockInv, NEW t \in Threads, Step(t) \/ \E d \in Descs : Call(t, d),
         NEW u \in Threads, u # t, pc[u] \in WriteLocked \cup ReadLocked
  PROVE  store' = store
<1>1. ~(writer = t /\ readers = {})
  BY DEF LockInv
<1>2. pc[t] \notin WriteLocked
  BY <1>1, KeystoreDarwinAssumption DEF LockInv, TypeOK
<1>3. CASE \E d \in Descs : Call(t, d)
  BY <1>3 DEF Call, CallInvalid, CallAdd, CallRemove, CallRead, dictVars
<1>4. CASE AddRemove(t) \/ AddValue(t) \/ Remove(t)
  BY <1>2, <1>4 DEF AddRemove, AddValue, Remove, Goto, WriteLocked
<1>5. CASE AddData(t) \/ AddNoMemory(t) \/ AddLock(t) \/ AddUnlock(t) \/ ReleaseData(t)
           \/ RemoveLock(t) \/ RemoveUnlock(t)
  BY <1>5 DEF AddData, AddNoMemory, AddLock, AddUnlock, ReleaseData, RemoveLock, RemoveUnlock,
              dictVars
<1>6. CASE \/ ReadNoMemory(t) \/ ReadLock(t) \/ ReadGet(t) \/ ReadRetain(t) \/ ReadUnlock(t)
           \/ ReadCopy(t) \/ ReadNoSpace(t)
  BY <1>6 DEF ReadNoMemory, ReadLock, ReadGet, ReadRetain, ReadUnlock, ReadCopy, ReadNoSpace, dictVars
<1> QED
  BY <1>3, <1>4, <1>5, <1>6 DEF Step

LEMMA FoundStep ==
  ASSUME TypeOK, LockInv, ArgInv, FoundInv, NEW t \in Threads,
         Step(t) \/ \E d \in Descs : Call(t, d)
  PROVE  FoundInv'
<1> SUFFICES ASSUME NEW u \in Threads
             PROVE  /\ pc'[u] = "read_retain" => store'[desc'[u]] = data'[u]
                    /\ pc'[u] = "add_value" => store'[desc'[u]] = NoData
  BY DEF FoundInv
<1>1. CASE u # t
  <2>1. pc'[u] = pc[u] /\ desc'[u] = desc[u] /\ data'[u] = data[u]
    BY <1>1, OthersKept
  <2>2. pc[u] \in {"read_retain", "add_value"} => store' = store
    BY <1>1, StoreKept DEF WriteLocked, ReadLocked
  <2> QED
    BY <2>1, <2>2 DEF FoundInv
<1>2. CASE u = t
  <2> USE DEF TypeOK, Goto, Set
  <2>1. CASE \E d \in Descs : Call(t, d)
    BY <1>2, <2>1 DEF Call, CallInvalid, CallAdd, CallRemove, CallRead
  <2>2. CASE AddRemove(t)
    BY <1>2, <2>2 DEF AddRemove, RemoveValue
  <2>3. CASE ReadGet(t)
    BY <1>2, <2>3 DEF ReadGet, dictVars
  <2>4. CASE AddData(t) \/ AddNoMemory(t) \/ AddLock(t) \/ AddValue(t) \/ AddUnlock(t)
             \/ ReleaseData(t)
    BY <1>2, <2>4 DEF AddData, AddNoMemory, AddLock, AddValue, AddUnlock, ReleaseData
  <2>5. CASE RemoveLock(t) \/ Remove(t) \/ RemoveUnlock(t)
    <3>1. pc'[t] \in {"remove_value", "remove_null", "remove_unlock", "idle", "remove_release_null"}
      BY <2>5 DEF RemoveLock, Remove, RemoveUnlock
    <3> QED
      BY <1>2, <3>1
  <2>6. CASE \/ ReadNoMemory(t) \/ ReadLock(t) \/ ReadRetain(t) \/ ReadUnlock(t)
             \/ ReadCopy(t) \/ ReadNoSpace(t)
    <3>1. pc'[t] \in {"read_get", "read_unlock", "idle", "read_copy", "read_release"}
      BY <2>6 DEF ReadNoMemory, ReadLock, ReadRetain, ReadUnlock, ReadCopy, ReadNoSpace
    <3> QED
      BY <1>2, <3>1
  <2> QED
    BY <2>1, <2>2, <2>3, <2>4, <2>5, <2>6 DEF Step
<1> QED
  BY <1>1, <1>2

LEMMA BytesStep ==
  ASSUME TypeOK, LockInv, ArgInv, FoundInv, Counted, BytesInv, Counted', TypeOK',
         NEW t \in Threads, Step(t) \/ \E d \in Descs : Call(t, d)
  PROVE  BytesInv'
<1>0. Effect(t)
  BY EffectOfStep
<1>1. \A x \in Datas : retain'[x] > 0 => bytes'[x] \in Payloads
  <2> TAKE x \in Datas
  <2> HAVE retain'[x] > 0
  <2>1. CASE retain[x] > 0
    BY <1>0, <2>1, Stable DEF BytesInv
  <2>2. CASE ~(retain[x] > 0)
    <3>0. retain[x] = 0 /\ DOMAIN retain = Datas /\ DOMAIN bytes = Datas
          /\ (\A y \in Datas : retain[y] \in Nat)
      BY <2>2 DEF TypeOK
    <3>1. CASE Still
      BY <3>0, <3>1 DEF Still
    <3>2. CASE \E d \in Descs : Unstores(d)
      BY <3>0, <3>2 DEF Unstores, Release
    <3>3. CASE \E y \in Datas : LetsGo(t, y)
      BY <3>0, <3>3 DEF LetsGo, Release
    <3>4. CASE \E y \in Datas : Shares(t, y)
      BY <3>0, <3>4 DEF Shares
    <3>5. CASE \E d \in Descs, y \in Datas : Stores(d, y)
      BY <3>0, <3>5 DEF Stores
    <3>6. CASE \E y \in Datas : Makes(t, y)
      BY <3>0, <3>6 DEF Makes
    <3> QED
      BY <1>0, <3>1, <3>2, <3>3, <3>4, <3>5, <3>6 DEF Effect
  <2> QED
    BY <2>1, <2>2
<1>2. ASSUME NEW u \in Threads, pc'[u] \in {"add_lock", "add_remove", "add_value"},
             pc[u] \in {"add_lock", "add_remove", "add_value"},
             data'[u] = data[u], payload'[u] = payload[u]
      PROVE  bytes'[data'[u]] = payload'[u]
  <2>1. data[u] \in Datas
    BY <1>2 DEF ArgInv
  <2>2. Owned[u] = data[u] /\ Owned'[u] = data[u]
    <3>1. data[u] # NoData
      BY <2>1, KeystoreDarwinAssumption
    <3>2. Owns(u) /\ Owns(u)'
      BY <1>2, <3>1 DEF Owns
    <3> QED
      BY <1>2, <3>2, OwnedAre, OwnedNext
  <2>3. bytes'[data[u]] = bytes[data[u]]
    BY <1>0, <2>1, <2>2, OwnedStaysRetained, Stable
  <2> QED
    BY <1>2, <2>3 DEF BytesInv
<1>3. ASSUME NEW u \in Threads, pc'[u] \in {"add_lock", "add_remove", "add_value"}
      PROVE  bytes'[data'[u]] = payload'[u]
  <2>1. CASE u # t
    BY <1>2, <1>3, <2>1, OthersKept
  <2>2. CASE u = t /\ AddData(t)
    BY <2>2 DEF AddData, TypeOK, Set
  <2>3. CASE u = t /\ (AddLock(t) \/ AddRemove(t))
    <3>1. pc[t] \in {"add_lock", "add_remove"} /\ data'[t] = data[t] /\ payload'[t] = payload[t]
      BY <2>3 DEF AddLock, AddRemove, Goto
    <3> QED
      BY <1>2, <1>3, <2>3, <3>1
  <2>4. CASE u = t /\ ~(AddData(t) \/ AddLock(t) \/ AddRemove(t))
    <3> USE DEF TypeOK, Goto
    <3>1. CASE \E d \in Descs : Call(t, d)
      BY <1>3, <2>4, <3>1 DEF Call, CallInvalid, CallAdd, CallRemove, CallRead
    <3>2. CASE AddNoMemory(t) \/ AddValue(t) \/ AddUnlock(t) \/ ReleaseData(t)
      BY <1>3, <2>4, <3>2 DEF AddNoMemory, AddValue, AddUnlock, ReleaseData
    <3>3. CASE RemoveLock(t) \/ Remove(t) \/ RemoveUnlock(t)
      BY <1>3, <2>4, <3>3 DEF RemoveLock, Remove, RemoveUnlock
    <3>4. CASE \/ ReadNoMemory(t) \/ ReadLock(t) \/ ReadGet(t) \/ ReadRetain(t) \/ ReadUnlock(t)
               \/ ReadCopy(t) \/ ReadNoSpace(t)
      BY <1>3, <2>4, <3>4 DEF ReadNoMemory, ReadLock, ReadGet, ReadRetain, ReadUnlock, ReadCopy, ReadNoSpace
    <3> QED
      BY <2>4, <3>1, <3>2, <3>3, <3>4 DEF Step
  <2> QED
    BY <2>1, <2>2, <2>3, <2>4
<1> QED
  BY <1>1, <1>3 DEF BytesInv

LEMMA ReadStep ==
  ASSUME TypeOK, ArgInv, Counted, BytesInv, NeverReadsFreed,
         NEW t \in Threads, Step(t) \/ \E d \in Descs : Call(t, d)
  PROVE  NeverReadsFreed'
<1> SUFFICES ASSUME NEW u \in Threads PROVE out'[u] # Absent
  BY DEF NeverReadsFreed
<1> USE KeystoreDarwinAssumption DEF NeverReadsFreed
<1>1. CASE u # t
  BY <1>1, OthersKept
<1>2. CASE u = t /\ ReadCopy(t)
  <2>1. data[t] \in Datas /\ pc[t] = "read_copy"
    BY <1>2 DEF ReadCopy, ArgInv, Goto
  <2>2. Owned[t] = data[t]
    BY <2>1, OwnedAre DEF Owns
  <2>3. bytes[data[t]] \in Payloads
    BY <2>1, <2>2, Alive DEF BytesInv
  <2>4. out' \in {out, [out EXCEPT ![t] = bytes[data[t]]]}
    BY <1>2 DEF ReadCopy, Set
  <2> QED
    BY <1>2, <2>3, <2>4 DEF TypeOK
<1>3. CASE u = t /\ \E d \in Descs : Call(t, d)
  BY <1>3 DEF Call, CallInvalid, CallAdd, CallRemove, CallRead, Set, TypeOK
<1>4. CASE u = t /\ Step(t) /\ ~ReadCopy(t)
  <2>1. UNCHANGED out \/ out' = [out EXCEPT ![t] = None]
    BY <1>4 DEF Step, AddData, AddNoMemory, AddLock, AddRemove, AddValue, AddUnlock, ReleaseData,
                RemoveLock, Remove, RemoveUnlock, ReadNoMemory, ReadLock, ReadGet, ReadRetain,
                ReadUnlock, ReadNoSpace, Set
  <2> QED
    BY <1>4, <2>1 DEF TypeOK
<1> QED
  BY <1>1, <1>2, <1>3, <1>4

-----------------------------------------------------------------------------
(***************************************************************************)
(* The inductive invariant.                                                *)
(***************************************************************************)
LEMMA Inductive == IInv /\ [Next]_vars => IInv'
<1> SUFFICES ASSUME IInv, [Next]_vars PROVE IInv'
  OBVIOUS
<1> USE DEF IInv, CtlInv
<1>1. ASSUME NEW t \in Threads, Step(t) \/ \E d \in Descs : Call(t, d)
      PROVE  IInv'
  <2>1. Effect(t)
    BY <1>1, EffectOfStep
  <2>2. TypeOK'
    BY <1>1, <2>1, RetainStep, TypeStep
  <2>3. LockInv' /\ ArgInv' /\ FoundInv'
    BY <1>1, LockStep, ArgStep, FoundStep
  <2>4. Counted'
    BY <2>1, CountedStep
  <2>5. BytesInv' /\ NeverReadsFreed'
    BY <1>1, <2>2, <2>4, BytesStep, ReadStep
  <2> QED
    BY <2>2, <2>3, <2>4, <2>5
<1>2. CASE UNCHANGED vars
  <2> USE <1>2 DEF vars
  <2>1. TypeOK' /\ LockInv' /\ ArgInv' /\ FoundInv'
    BY DEF TypeOK, LockInv, ArgInv, FoundInv
  <2>2. Owned' = Owned
    BY DEF Owned, Owns
  <2>3. Counted' /\ BytesInv' /\ NeverReadsFreed'
    BY <2>2 DEF Counted, BytesInv, NeverReadsFreed
  <2> QED
    BY <2>1, <2>3
<1> QED
  BY <1>1, <1>2 DEF Next

LEMMA Invariance == Spec => []IInv
  BY Initially, Inductive, PTL DEF Spec

\* Every variable of keystore-darwin.c has a value of its type, always.
THEOREM KeystoreTypeCorrect == Spec => []TypeOK
<1>1. IInv => TypeOK
  BY DEF IInv, CtlInv
<1> QED
  BY <1>1, Invariance, PTL

\* However many threads call add_key, remove_key and read_key, and whoever
\* interrupts whom: no CFData leaks and none is released twice.
THEOREM RetainsBalance == Spec => []RetainsBalanced
<1>1. IInv => RetainsBalanced
  <2> SUFFICES ASSUME IInv, NEW x \in Datas
               PROVE  retain[x] = Cardinality({d \in Descs : store[d] = x})
                                + Cardinality({t \in Threads : Owns(t) /\ data[t] = x})
    BY DEF RetainsBalanced
  <2>1. x # NoData
    BY KeystoreDarwinAssumption
  <2>2. \A t \in Threads : Owned[t] = x <=> (Owns(t) /\ data[t] = x)
    BY <2>1, OwnedAre
  <2>3. UserSet(Threads, Owned, x) = {t \in Threads : Owns(t) /\ data[t] = x}
    BY <2>2 DEF UserSet
  <2>4. UserSet(Descs, store, x) = {d \in Descs : store[d] = x}
    BY DEF UserSet
  <2> QED
    BY <2>3, <2>4 DEF IInv, Counted
<1> QED
  BY <1>1, Invariance, PTL

\* read_key() copies its payload after it has unlocked, and never copies one
\* that was freed in the meantime.
THEOREM ReadsAreAlive == Spec => []NeverReadsFreed
<1>1. IInv => NeverReadsFreed
  BY DEF IInv
<1> QED
  BY <1>1, Invariance, PTL

-----------------------------------------------------------------------------
(***************************************************************************)
(* Every step is a step of the abstract map, or changes nothing there.     *)
(***************************************************************************)
Rec(op, d, p, done, a) == [op |-> op, desc |-> d, payload |-> p, done |-> done, answer |-> a]

Found(t) == IF data[t] = NoData THEN Absent ELSE bytes[data[t]]
Slot(d) == IF store[d] = NoData THEN Absent ELSE bytes[store[d]]
Replaces(t, d) == pc[t] = "add_value" /\ desc[t] = d

AddWaits == {"add_data", "add_lock", "add_remove"}
AddDone == {"add_value", "add_unlock", "add_release"}
RemoveWaits == {"remove_lock", "remove_value"}
ReadWaits == {"read_lock", "read_get"}
ReadDone == {"read_retain", "read_unlock", "read_copy", "read_release"}

LEMMA CallsAre ==
  \A t \in Threads :
    /\ pc[t] = "idle" => Calls[t] = NoCall
    /\ pc[t] \in AddWaits => Calls[t] = Rec("add", desc[t], payload[t], FALSE, None)
    /\ pc[t] \in AddDone => Calls[t] = Rec("add", desc[t], payload[t], TRUE, None)
    /\ pc[t] \in RemoveWaits => Calls[t] = Rec("remove", desc[t], None, FALSE, None)
    /\ pc[t] = "remove_unlock" => Calls[t] = Rec("remove", desc[t], None, TRUE, None)
    /\ pc[t] \in ReadWaits => Calls[t] = Rec("read", desc[t], None, FALSE, None)
    /\ pc[t] \in ReadDone => Calls[t] = Rec("read", desc[t], None, TRUE, Found(t))
<1> TAKE t \in Threads
<1>1. pc[t] = "idle" => Calls[t] = NoCall
  BY DEF Calls
<1>2. pc[t] \in AddWaits => Calls[t] = Rec("add", desc[t], payload[t], FALSE, None)
  BY DEF Calls, Rec, AddWaits
<1>3. pc[t] \in AddDone => Calls[t] = Rec("add", desc[t], payload[t], TRUE, None)
  BY DEF Calls, Rec, AddDone
<1>4. pc[t] \in RemoveWaits => Calls[t] = Rec("remove", desc[t], None, FALSE, None)
  BY DEF Calls, Rec, RemoveWaits
<1>5. pc[t] = "remove_unlock" => Calls[t] = Rec("remove", desc[t], None, TRUE, None)
  BY DEF Calls, Rec
<1>6. pc[t] \in ReadWaits => Calls[t] = Rec("read", desc[t], None, FALSE, None)
  BY DEF Calls, Rec, ReadWaits
<1>7. pc[t] \in ReadDone => Calls[t] = Rec("read", desc[t], None, TRUE, Found(t))
  BY DEF Calls, Rec, ReadDone, Found
<1> QED
  BY <1>1, <1>2, <1>3, <1>4, <1>5, <1>6, <1>7

LEMMA CallsNext ==
  \A t \in Threads :
    /\ pc'[t] = "idle" => Calls'[t] = NoCall
    /\ pc'[t] \in AddWaits => Calls'[t] = Rec("add", desc'[t], payload'[t], FALSE, None)
    /\ pc'[t] \in AddDone => Calls'[t] = Rec("add", desc'[t], payload'[t], TRUE, None)
    /\ pc'[t] \in RemoveWaits => Calls'[t] = Rec("remove", desc'[t], None, FALSE, None)
    /\ pc'[t] = "remove_unlock" => Calls'[t] = Rec("remove", desc'[t], None, TRUE, None)
    /\ pc'[t] \in ReadWaits => Calls'[t] = Rec("read", desc'[t], None, FALSE, None)
    /\ pc'[t] \in ReadDone => Calls'[t] = Rec("read", desc'[t], None, TRUE, Found(t)')
<1> TAKE t \in Threads
<1>1. pc'[t] = "idle" => Calls'[t] = NoCall
  BY DEF Calls
<1>2. pc'[t] \in AddWaits => Calls'[t] = Rec("add", desc'[t], payload'[t], FALSE, None)
  BY DEF Calls, Rec, AddWaits
<1>3. pc'[t] \in AddDone => Calls'[t] = Rec("add", desc'[t], payload'[t], TRUE, None)
  BY DEF Calls, Rec, AddDone
<1>4. pc'[t] \in RemoveWaits => Calls'[t] = Rec("remove", desc'[t], None, FALSE, None)
  BY DEF Calls, Rec, RemoveWaits
<1>5. pc'[t] = "remove_unlock" => Calls'[t] = Rec("remove", desc'[t], None, TRUE, None)
  BY DEF Calls, Rec
<1>6. pc'[t] \in ReadWaits => Calls'[t] = Rec("read", desc'[t], None, FALSE, None)
  BY DEF Calls, Rec, ReadWaits
<1>7. pc'[t] \in ReadDone => Calls'[t] = Rec("read", desc'[t], None, TRUE, Found(t)')
  BY DEF Calls, Rec, ReadDone, Found
<1> QED
  BY <1>1, <1>2, <1>3, <1>4, <1>5, <1>6, <1>7

\* The payload of a description: that of the add in its gap, or the stored one.
LEMMA KeysAre ==
  ASSUME LockInv, NEW d \in Descs
  PROVE  /\ \A t \in Threads : Replaces(t, d) => Keys[d] = payload[t]
         /\ (\A t \in Threads : ~Replaces(t, d)) => Keys[d] = Slot(d)
<1>1. \A t, u \in Threads : Replaces(t, d) /\ Replaces(u, d) => t = u
  BY DEF Replaces, LockInv, WriteLocked
<1>2. ASSUME NEW t \in Threads, Replaces(t, d) PROVE Keys[d] = payload[t]
  <2>1. (CHOOSE u \in Threads : pc[u] = "add_value" /\ desc[u] = d) = t
    BY <1>1, <1>2 DEF Replaces
  <2> QED
    BY <1>2, <2>1 DEF Keys, Replaces
<1>3. ASSUME \A t \in Threads : ~Replaces(t, d) PROVE Keys[d] = Slot(d)
  BY <1>3 DEF Keys, Replaces, Slot
<1> QED
  BY <1>2, <1>3

LEMMA KeysNext ==
  ASSUME LockInv', NEW d \in Descs
  PROVE  /\ \A t \in Threads : Replaces(t, d)' => Keys'[d] = payload'[t]
         /\ (\A t \in Threads : ~Replaces(t, d)') => Keys'[d] = Slot(d)'
<1>1. \A t, u \in Threads : Replaces(t, d)' /\ Replaces(u, d)' => t = u
  BY DEF Replaces, LockInv, WriteLocked
<1>2. ASSUME NEW t \in Threads, Replaces(t, d)' PROVE Keys'[d] = payload'[t]
  <2>1. (CHOOSE u \in Threads : pc'[u] = "add_value" /\ desc'[u] = d) = t
    BY <1>1, <1>2 DEF Replaces
  <2> QED
    BY <1>2, <2>1 DEF Keys, Replaces
<1>3. ASSUME \A t \in Threads : ~Replaces(t, d)' PROVE Keys'[d] = Slot(d)'
  BY <1>3 DEF Keys, Replaces, Slot
<1> QED
  BY <1>2, <1>3

\* A payload that stays in the dictionary stays what it is.
LEMMA SlotKept ==
  ASSUME TypeOK, Counted, TypeOK', Counted', NEW t \in Threads, Effect(t),
         NEW d \in Descs, store'[d] = store[d]
  PROVE  Slot(d)' = Slot(d) /\ (store[d] # NoData => bytes'[store[d]] = bytes[store[d]])
<1>1. CASE store[d] = NoData
  BY <1>1 DEF Slot
<1>2. CASE store[d] # NoData
  <2>1. store[d] \in Datas /\ retain[store[d]] > 0
    BY <1>2, Alive DEF TypeOK
  <2>2. UserSet(Descs, store', store[d]) # {}
    BY DEF UserSet
  <2>3. Cardinality(UserSet(Descs, store', store[d])) \in Nat \ {0}
    BY <2>2, UsersCounted, KeystoreDarwinAssumption
  <2>4. Cardinality(UserSet(Threads, Owned', store[d])) \in Nat
    BY UsersCounted, KeystoreDarwinAssumption
  <2>5. retain'[store[d]] > 0
    BY <2>1, <2>3, <2>4 DEF Counted
  <2> QED
    BY <2>1, <2>5, Stable DEF Slot
<1> QED
  BY <1>1, <1>2

\* What a read has found is what it copies, whatever the others do.
LEMMA FoundKept ==
  ASSUME IInv, Counted', TypeOK', NEW t \in Threads, Step(t) \/ \E d \in Descs : Call(t, d),
         NEW u \in Threads, pc[u] \in ReadDone, data'[u] = data[u],
         \/ u # t /\ pc'[u] = pc[u]
         \/ pc'[u] \in {"read_unlock", "read_copy", "read_release"} /\ store' = store
  PROVE  Found(u)' = Found(u)
<1> USE DEF IInv, CtlInv
<1>0. Effect(t)
  BY EffectOfStep
<1>1. CASE data[u] = NoData
  BY <1>1 DEF Found
<1>2. CASE data[u] # NoData /\ pc[u] = "read_retain"
  <2>1. store' = store
    BY <1>2, StoreKept DEF ReadLocked
  <2>2. store[desc[u]] = data[u] /\ desc[u] \in Descs
    BY <1>2 DEF FoundInv, TypeOK
  <2> QED
    BY <1>0, <1>2, <2>1, <2>2, SlotKept DEF Found
<1>3. CASE data[u] # NoData /\ pc[u] \in {"read_unlock", "read_copy", "read_release"}
  <2>1. Owned[u] = data[u] /\ Owned'[u] = data[u] /\ data[u] \in Datas
    BY <1>3, OwnedAre, OwnedNext DEF Owns, TypeOK
  <2> QED
    BY <1>0, <1>3, <2>1, OwnedStaysRetained, Stable DEF Found
<1> QED
  BY <1>1, <1>2, <1>3 DEF ReadDone

LEMMA OtherCalls ==
  ASSUME IInv, IInv', NEW t \in Threads, Step(t) \/ \E d \in Descs : Call(t, d),
         NEW u \in Threads, u # t
  PROVE  Calls'[u] = Calls[u]
<1> USE DEF IInv, CtlInv
<1>1. pc'[u] = pc[u] /\ desc'[u] = desc[u] /\ payload'[u] = payload[u] /\ data'[u] = data[u]
  BY OthersKept
<1>2. pc[u] \in ReadDone => Found(u)' = Found(u)
  BY <1>1, FoundKept
<1>3. pc[u] \in {"idle", "remove_unlock"} \cup AddWaits \cup AddDone \cup RemoveWaits
                \cup ReadWaits \cup ReadDone
  BY DEF TypeOK, ArgInv, Labels, Nulls, AddWaits, AddDone, RemoveWaits, ReadWaits, ReadDone
<1> HIDE DEF IInv, CtlInv
<1> QED
  BY <1>1, <1>2, <1>3, CallsAre, CallsNext

LEMMA CallsNextIs ==
  ASSUME IInv, IInv', NEW t \in Threads, Step(t) \/ \E d \in Descs : Call(t, d)
  PROVE  Calls' = [Calls EXCEPT ![t] = Calls'[t]]
<1>1. \A u \in Threads \ {t} : Calls'[u] = Calls[u]
  BY OtherCalls
<1>2. /\ Calls = [u \in Threads |-> Calls[u]]
      /\ Calls' = [u \in Threads |-> Calls'[u]]
  BY DEF Calls
<1> HIDE DEF Calls
<1> QED
  BY <1>1, <1>2

\* A step that neither writes the dictionary nor opens or closes the gap of
\* an add leaves the map alone.
LEMMA KeysKept ==
  ASSUME IInv, IInv', NEW t \in Threads, Step(t) \/ \E d \in Descs : Call(t, d),
         UNCHANGED store, pc[t] # "add_value", pc'[t] # "add_value"
  PROVE  Keys' = Keys
<1>0. TypeOK /\ Counted /\ TypeOK' /\ Counted' /\ LockInv /\ LockInv' /\ ArgInv /\ FoundInv
  BY DEF IInv, CtlInv
<1>1. ASSUME NEW d \in Descs PROVE Keys'[d] = Keys[d]
  <2>1. \A u \in Threads : /\ Replaces(u, d)' <=> Replaces(u, d)
                           /\ Replaces(u, d) => payload'[u] = payload[u]
    BY <1>0, OthersKept DEF Replaces
  <2>2. CASE \E u \in Threads : Replaces(u, d)
    <3>1. PICK u \in Threads : Replaces(u, d)
      BY <2>2
    <3> QED
      BY <1>0, <2>1, <3>1, KeysAre, KeysNext
  <2>3. CASE \A u \in Threads : ~Replaces(u, d)
    <3>1. Slot(d)' = Slot(d)
      BY <1>0, EffectOfStep, SlotKept
    <3> QED
      BY <1>0, <2>1, <2>3, <3>1, KeysAre, KeysNext
  <2> QED
    BY <2>2, <2>3
<1>2. /\ Keys = [d \in Descs |-> Keys[d]]
      /\ Keys' = [d \in Descs |-> Keys'[d]]
  BY DEF Keys
<1> HIDE DEF Keys
<1> QED
  BY <1>1, <1>2

\* Outside the gap of an add, what a writer sees stored is the map.
LEMMA WriterSeesKeys ==
  ASSUME IInv, NEW t \in Threads, pc[t] \in WriteLocked
  PROVE  /\ pc[t] # "add_value" => \A d \in Descs : Keys[d] = Slot(d)
         /\ pc[t] = "add_value" => /\ Keys[desc[t]] = payload[t]
                                   /\ \A d \in Descs \ {desc[t]} : Keys[d] = Slot(d)
<1>1. LockInv /\ desc[t] \in Descs
  BY DEF IInv, CtlInv, TypeOK
<1>2. \A u \in Threads : pc[u] = "add_value" => u = t
  BY <1>1 DEF LockInv, WriteLocked
<1> QED
  BY <1>1, <1>2, KeysAre DEF Replaces

LEMMA WriterLeavesKeys ==
  ASSUME IInv', NEW t \in Threads, pc'[t] \in WriteLocked
  PROVE  /\ pc'[t] # "add_value" => \A d \in Descs : Keys'[d] = Slot(d)'
         /\ pc'[t] = "add_value" => /\ Keys'[desc'[t]] = payload'[t]
                                    /\ \A d \in Descs \ {desc'[t]} : Keys'[d] = Slot(d)'
<1>1. LockInv' /\ desc'[t] \in Descs
  BY DEF IInv, CtlInv, TypeOK
<1>2. \A u \in Threads : pc'[u] = "add_value" => u = t
  BY <1>1 DEF LockInv, WriteLocked
<1> QED
  BY <1>1, <1>2, KeysNext DEF Replaces

\* Removing the old value is the step of the add, and of the remove.
LEMMA RemovalIsIt ==
  ASSUME IInv, IInv', NEW t \in Threads, AddRemove(t) \/ Remove(t)
  PROVE  Keys' = [Keys EXCEPT ![desc[t]] = IF AddRemove(t) THEN payload[t] ELSE Absent]
<1>0. TypeOK /\ Counted /\ TypeOK' /\ Counted' /\ ArgInv /\ FoundInv /\ desc[t] \in Descs
  BY DEF IInv, CtlInv, TypeOK
<1>1. /\ RemoveValue(desc[t]) /\ UNCHANGED <<desc, payload>> /\ Step(t)
      /\ AddRemove(t) => pc[t] = "add_remove" /\ pc'[t] = "add_value"
      /\ Remove(t) => pc[t] = "remove_value" /\ pc'[t] = "remove_unlock"
  BY <1>0 DEF AddRemove, Remove, Goto, Step, TypeOK
<1>2. /\ store'[desc[t]] = NoData
      /\ \A d \in Descs \ {desc[t]} : store'[d] = store[d]
  BY <1>0, <1>1 DEF RemoveValue, Set, TypeOK
<1>3. \A d \in Descs \ {desc[t]} : Slot(d)' = Slot(d)
  BY <1>0, <1>1, <1>2, EffectOfStep, SlotKept
<1>4. \A d \in Descs : Keys[d] = Slot(d)
  BY <1>1, WriterSeesKeys DEF WriteLocked
<1>5. \A d \in Descs \ {desc[t]} : Keys'[d] = Keys[d]
  BY <1>0, <1>1, <1>3, <1>4, WriterLeavesKeys DEF WriteLocked
<1>6. Keys'[desc[t]] = IF AddRemove(t) THEN payload[t] ELSE Absent
  <2>1. CASE AddRemove(t)
    BY <1>1, <2>1, WriterLeavesKeys DEF WriteLocked
  <2>2. CASE ~AddRemove(t)
    <3>1. pc'[t] = "remove_unlock"
      BY <1>1, <2>2
    <3>2. Keys'[desc[t]] = Slot(desc[t])'
      BY <1>0, <1>1, <3>1, WriterLeavesKeys DEF WriteLocked
    <3> QED
      BY <1>1, <1>2, <2>2, <3>2 DEF Slot
  <2> QED
    BY <2>1, <2>2
<1>7. /\ Keys = [d \in Descs |-> Keys[d]]
      /\ Keys' = [d \in Descs |-> Keys'[d]]
  BY DEF Keys
<1> HIDE DEF Keys
<1> QED
  BY <1>0, <1>5, <1>6, <1>7

\* Adding the new value closes the gap: nobody sees it.
LEMMA AddingIsUnseen ==
  ASSUME IInv, IInv', NEW t \in Threads, AddValue(t)
  PROVE  Keys' = Keys
<1>0. /\ TypeOK /\ Counted /\ TypeOK' /\ Counted' /\ ArgInv /\ FoundInv /\ BytesInv
      /\ desc[t] \in Descs
  BY DEF IInv, CtlInv, TypeOK
<1>1. /\ pc[t] = "add_value" /\ pc'[t] = "add_unlock" /\ Step(t)
      /\ UNCHANGED <<bytes, desc, payload, data>>
      /\ store[desc[t]] = NoData
      /\ store' = [store EXCEPT ![desc[t]] = data[t]]
  BY <1>0 DEF AddValue, Goto, Step, TypeOK, FoundInv, Set
<1>2. /\ store'[desc[t]] = data[t] /\ data[t] \in Datas
      /\ \A d \in Descs \ {desc[t]} : store'[d] = store[d]
  BY <1>0, <1>1 DEF TypeOK, ArgInv
<1>3. \A d \in Descs \ {desc[t]} : Slot(d)' = Slot(d)
  BY <1>0, <1>1, <1>2, EffectOfStep, SlotKept
<1>4. bytes[data[t]] = payload[t]
  BY <1>0, <1>1 DEF BytesInv
<1>5. Slot(desc[t])' = payload[t]
  BY <1>1, <1>2, <1>4, KeystoreDarwinAssumption DEF Slot
<1>6. \A d \in Descs : Keys'[d] = Keys[d]
  BY <1>1, <1>3, <1>5, WriterSeesKeys, WriterLeavesKeys DEF WriteLocked
<1>7. /\ Keys = [d \in Descs |-> Keys[d]]
      /\ Keys' = [d \in Descs |-> Keys'[d]]
  BY DEF Keys
<1> HIDE DEF Keys
<1> QED
  BY <1>6, <1>7

LEMMA NobodyCalls == /\ Abs!NoCall = Rec("none", None, None, FALSE, None)
                     /\ NoCall = Rec("none", None, None, FALSE, None)
  BY DEF Abs!NoCall, Abs!CallOf, NoCall, Rec

\* Making a call.
LEMMA InvokeStep ==
  ASSUME IInv, IInv', NEW t \in Threads, NEW d \in Descs, Call(t, d), ~CallInvalid(t)
  PROVE  Abs!Invoke(t)
<1> USE KeystoreDarwinAssumption
<1>0. TypeOK
  BY DEF IInv, CtlInv
<1>1. pc[t] = "idle" /\ UNCHANGED store /\ pc'[t] # "add_value"
  BY <1>0 DEF Call, CallAdd, CallRemove, CallRead, Goto, dictVars, TypeOK
<1>2. Keys' = Keys
  BY <1>1, KeysKept
<1>3. Calls[t] = Abs!NoCall
  BY <1>1, CallsAre, NobodyCalls
<1>4. \E op \in {"add", "remove", "read"}, p \in Payloads \cup {None} :
        (op = "add" <=> p # None) /\ Calls'[t] = Rec(op, d, p, FALSE, None)
  <2>1. ASSUME NEW p \in Payloads, CallAdd(t, d, p)
        PROVE  Calls'[t] = Rec("add", d, p, FALSE, None)
    <3>1. pc'[t] = "add_data" /\ desc'[t] = d /\ payload'[t] = p
      BY <1>0, <2>1 DEF CallAdd, Goto, Set, TypeOK
    <3> QED
      BY <3>1, CallsNext DEF AddWaits
  <2>2. ASSUME CallRemove(t, d) PROVE Calls'[t] = Rec("remove", d, None, FALSE, None)
    <3>1. pc'[t] = "remove_lock" /\ desc'[t] = d
      BY <1>0, <2>2 DEF CallRemove, Goto, Set, TypeOK
    <3> QED
      BY <3>1, CallsNext DEF RemoveWaits
  <2>3. ASSUME NEW n \in Buffers, CallRead(t, d, n)
        PROVE  Calls'[t] = Rec("read", d, None, FALSE, None)
    <3>1. pc'[t] = "read_lock" /\ desc'[t] = d
      BY <1>0, <2>3 DEF CallRead, Goto, Set, TypeOK
    <3> QED
      BY <3>1, CallsNext DEF ReadWaits
  <2> QED
    BY <2>1, <2>2, <2>3 DEF Call
<1>5. PICK op \in {"add", "remove", "read"}, p \in Payloads \cup {None} :
        (op = "add" <=> p # None) /\ Calls'[t] = Rec(op, d, p, FALSE, None)
  BY <1>4
<1>6. Abs!CallOf(op, d, p, FALSE, None) = Rec(op, d, p, FALSE, None)
  BY DEF Abs!CallOf, Rec
<1>7. Calls' = [Calls EXCEPT ![t] = Abs!CallOf(op, d, p, FALSE, None)]
  BY <1>5, <1>6, CallsNextIs
<1> QED
  BY <1>2, <1>3, <1>5, <1>7 DEF Abs!Invoke

\* The step at which a call takes effect.
LEMMA EffectiveStep ==
  ASSUME IInv, IInv', NEW t \in Threads, AddRemove(t) \/ Remove(t) \/ ReadGet(t)
  PROVE  Abs!AddKey(t) \/ Abs!RemoveKey(t) \/ Abs!ReadKey(t)
<1>0. TypeOK /\ ArgInv /\ LockInv /\ LockInv' /\ Step(t) /\ desc[t] \in Descs
  BY DEF IInv, CtlInv, Step, TypeOK
<1>1. CASE AddRemove(t)
  <2>1. /\ pc[t] = "add_remove" /\ pc'[t] = "add_value"
        /\ desc'[t] = desc[t] /\ payload'[t] = payload[t]
    BY <1>0, <1>1 DEF AddRemove, Goto, TypeOK
  <2>2. /\ Calls[t] = Rec("add", desc[t], payload[t], FALSE, None)
        /\ Calls'[t] = Rec("add", desc[t], payload[t], TRUE, None)
    BY <2>1, CallsAre, CallsNext DEF AddWaits, AddDone
  <2>3. Calls'[t] = Abs!Done(Calls[t], None)
    BY <2>2 DEF Abs!Done, Abs!CallOf, Rec
  <2>4. Keys' = [Keys EXCEPT ![Calls[t].desc] = Calls[t].payload]
    BY <1>1, <2>2, RemovalIsIt DEF Rec
  <2>5. Calls[t].op = "add" /\ Calls[t].done = FALSE
    BY <2>2 DEF Rec
  <2>6. Calls' = [Calls EXCEPT ![t] = Abs!Done(Calls[t], None)]
    BY <1>0, <2>3, CallsNextIs
  <2> QED
    BY <2>4, <2>5, <2>6 DEF Abs!AddKey, Abs!Pending
<1>2. CASE Remove(t) /\ ~AddRemove(t)
  <2>1. pc[t] = "remove_value" /\ pc'[t] = "remove_unlock" /\ desc'[t] = desc[t]
    BY <1>0, <1>2 DEF Remove, Goto, TypeOK
  <2>2. /\ Calls[t] = Rec("remove", desc[t], None, FALSE, None)
        /\ Calls'[t] = Rec("remove", desc[t], None, TRUE, None)
    BY <2>1, CallsAre, CallsNext DEF RemoveWaits
  <2>3. Calls'[t] = Abs!Done(Calls[t], None)
    BY <2>2 DEF Abs!Done, Abs!CallOf, Rec
  <2>4. Keys' = [Keys EXCEPT ![Calls[t].desc] = Absent]
    BY <1>2, <2>2, RemovalIsIt DEF Rec
  <2>5. Calls[t].op = "remove" /\ Calls[t].done = FALSE
    BY <2>2 DEF Rec
  <2>6. Calls' = [Calls EXCEPT ![t] = Abs!Done(Calls[t], None)]
    BY <1>0, <2>3, CallsNextIs
  <2> QED
    BY <2>4, <2>5, <2>6 DEF Abs!RemoveKey, Abs!Pending
<1>3. CASE ReadGet(t)
  <2>1. /\ pc[t] = "read_get" /\ pc'[t] \in {"read_unlock", "read_retain"}
        /\ desc'[t] = desc[t] /\ data'[t] = store[desc[t]] /\ UNCHANGED <<store, bytes>>
    BY <1>0, <1>3 DEF ReadGet, Goto, Set, dictVars, TypeOK
  <2>2. Keys' = Keys
    BY <1>0, <2>1, KeysKept
  <2>3. Keys[desc[t]] = Slot(desc[t])
    <3>1. \A u \in Threads : pc[u] # "add_value"
      BY <1>0, <2>1, KeystoreDarwinAssumption DEF LockInv, WriteLocked, ReadLocked
    <3> QED
      BY <1>0, <3>1, KeysAre DEF Replaces
  <2>4. Found(t)' = Keys[desc[t]]
    BY <2>1, <2>3 DEF Found, Slot
  <2>5. /\ Calls[t] = Rec("read", desc[t], None, FALSE, None)
        /\ Calls'[t] = Rec("read", desc[t], None, TRUE, Keys[desc[t]])
    BY <2>1, <2>4, CallsAre, CallsNext DEF ReadWaits, ReadDone
  <2>6. Calls'[t] = Abs!Done(Calls[t], Keys[Calls[t].desc])
    <3>1. Calls[t].desc = desc[t]
      BY <2>5 DEF Rec
    <3> QED
      BY <2>5, <3>1 DEF Abs!Done, Abs!CallOf, Rec
  <2>7. Calls[t].op = "read" /\ Calls[t].done = FALSE
    BY <2>5 DEF Rec
  <2>8. Calls' = [Calls EXCEPT ![t] = Abs!Done(Calls[t], Keys[Calls[t].desc])]
    BY <1>0, <2>6, CallsNextIs
  <2> QED
    BY <2>2, <2>7, <2>8 DEF Abs!ReadKey, Abs!Pending
<1> QED
  BY <1>1, <1>2, <1>3

\* Returning, and giving up for want of memory.
LEMMA ReturnStep ==
  ASSUME IInv, IInv', NEW t \in Threads,
         \/ ReleaseData(t) \/ RemoveUnlock(t) \/ (ReadUnlock(t) /\ data[t] = NoData)
         \/ AddNoMemory(t) \/ ReadNoMemory(t)
  PROVE  Abs!Return(t) \/ Abs!Refuse(t)
<1>0. TypeOK /\ ArgInv /\ Step(t)
  BY DEF IInv, CtlInv, Step
<1>1. pc'[t] = "idle"
  BY <1>0 DEF ReleaseData, RemoveUnlock, ReadUnlock, AddNoMemory, ReadNoMemory, Goto, TypeOK,
              ArgInv, Nulls
<1>2. /\ pc[t] \in {"add_release", "read_release", "remove_unlock", "read_unlock",
                    "add_data", "read_lock"}
      /\ UNCHANGED store
  BY <1>0 DEF ReleaseData, RemoveUnlock, ReadUnlock, AddNoMemory, ReadNoMemory, Goto, ArgInv,
              Nulls, dictVars
<1>3. Keys' = Keys
  BY <1>0, <1>1, <1>2, KeysKept
<1>4. Calls' = [Calls EXCEPT ![t] = Abs!NoCall]
  <2>1. Calls'[t] = Abs!NoCall
    BY <1>1, CallsNext, NobodyCalls
  <2> QED
    BY <1>0, <2>1, CallsNextIs
<1>5. CASE pc[t] = "add_data"
  <2>1. Calls[t] = Rec("add", desc[t], payload[t], FALSE, None)
    BY <1>5, CallsAre DEF AddWaits
  <2>2. Calls[t].op = "add" /\ Calls[t].done = FALSE
    BY <2>1 DEF Rec
  <2> QED
    BY <1>3, <1>4, <2>2 DEF Abs!Refuse, Abs!Pending
<1>6. CASE pc[t] = "read_lock"
  <2>1. Calls[t] = Rec("read", desc[t], None, FALSE, None)
    BY <1>6, CallsAre DEF ReadWaits
  <2>2. Calls[t].op = "read" /\ Calls[t].done = FALSE
    BY <2>1 DEF Rec
  <2> QED
    BY <1>3, <1>4, <2>2 DEF Abs!Refuse, Abs!Pending
<1>7. CASE pc[t] \notin {"add_data", "read_lock"}
  <2>1. \E op, p, a : Calls[t] = Rec(op, desc[t], p, TRUE, a)
    BY <1>2, <1>7, CallsAre DEF AddDone, ReadDone
  <2>2. Calls[t].done = TRUE
    BY <2>1 DEF Rec
  <2> QED
    BY <1>3, <1>4, <2>2 DEF Abs!Return
<1> QED
  BY <1>5, <1>6, <1>7

\* What a caller does not see.
LEMMA HiddenStep ==
  ASSUME IInv, IInv', NEW t \in Threads,
         \/ AddData(t) \/ AddLock(t) \/ AddValue(t) \/ AddUnlock(t)
         \/ RemoveLock(t)
         \/ ReadLock(t) \/ ReadRetain(t) \/ (ReadUnlock(t) /\ data[t] # NoData)
         \/ ReadCopy(t) \/ ReadNoSpace(t)
  PROVE  Keys' = Keys /\ Calls' = Calls
<1>0. TypeOK /\ ArgInv /\ Step(t) /\ Counted' /\ TypeOK'
  BY DEF IInv, CtlInv, Step
<1>1. Keys' = Keys
  <2>1. CASE AddValue(t)
    BY <2>1, AddingIsUnseen
  <2>2. CASE ~AddValue(t)
    <3>1. UNCHANGED store /\ pc[t] # "add_value" /\ pc'[t] # "add_value"
      BY <1>0, <2>2 DEF AddData, AddLock, AddUnlock, RemoveLock, ReadLock, ReadRetain,
         ReadUnlock, ReadCopy, ReadNoSpace, Goto, dictVars, TypeOK
    <3> QED
      BY <1>0, <3>1, KeysKept
  <2> QED
    BY <2>1, <2>2
<1>2. desc'[t] = desc[t] /\ payload'[t] = payload[t]
  BY DEF AddData, AddLock, AddValue, AddUnlock, RemoveLock, ReadLock, ReadRetain, ReadUnlock,
         ReadCopy, ReadNoSpace
<1>3. Calls'[t] = Calls[t]
  <2>1. CASE AddData(t) \/ AddLock(t)
    <3>1. pc[t] \in AddWaits /\ pc'[t] \in AddWaits
      BY <1>0, <2>1 DEF AddData, AddLock, Goto, TypeOK, AddWaits
    <3> QED
      BY <1>2, <3>1, CallsAre, CallsNext
  <2>2. CASE AddValue(t) \/ AddUnlock(t)
    <3>1. pc[t] \in AddDone /\ pc'[t] \in AddDone
      BY <1>0, <2>2 DEF AddValue, AddUnlock, Goto, TypeOK, AddDone
    <3> QED
      BY <1>2, <3>1, CallsAre, CallsNext
  <2>3. CASE RemoveLock(t)
    <3>1. pc[t] \in RemoveWaits /\ pc'[t] \in RemoveWaits
      BY <1>0, <2>3 DEF RemoveLock, Goto, TypeOK, ArgInv, Nulls, RemoveWaits
    <3> QED
      BY <1>2, <3>1, CallsAre, CallsNext
  <2>4. CASE ReadLock(t)
    <3>1. pc[t] \in ReadWaits /\ pc'[t] \in ReadWaits
      BY <1>0, <2>4 DEF ReadLock, Goto, TypeOK, ReadWaits
    <3> QED
      BY <1>2, <3>1, CallsAre, CallsNext
  <2>5. CASE ReadRetain(t) \/ (ReadUnlock(t) /\ data[t] # NoData) \/ ReadCopy(t) \/ ReadNoSpace(t)
    <3>1. /\ pc[t] \in ReadDone /\ pc'[t] \in {"read_unlock", "read_copy", "read_release"}
          /\ data'[t] = data[t] /\ UNCHANGED store
      BY <1>0, <2>5 DEF ReadRetain, ReadUnlock, ReadCopy, ReadNoSpace, Goto, TypeOK, ReadDone,
                        dictVars
    <3>2. Found(t)' = Found(t)
      BY <1>0, <3>1, FoundKept
    <3>3. pc'[t] \in ReadDone
      BY <3>1 DEF ReadDone
    <3> QED
      BY <1>2, <3>1, <3>2, <3>3, CallsAre, CallsNext
  <2> QED
    BY <2>1, <2>2, <2>3, <2>4, <2>5
<1>4. Calls' = [Calls EXCEPT ![t] = Calls[t]]
  BY <1>0, <1>3, CallsNextIs
<1>5. Calls = [u \in Threads |-> Calls[u]]
  BY DEF Calls
<1> QED
  BY <1>1, <1>4, <1>5

LEMMA AbsStep == IInv /\ IInv' /\ [Next]_vars => [Abs!Next]_(Abs!absVars)
<1> SUFFICES ASSUME IInv, IInv', [Next]_vars PROVE [Abs!Next]_(Abs!absVars)
  OBVIOUS
<1>1. ASSUME NEW t \in Threads, Step(t) \/ \E d \in Descs : Call(t, d)
      PROVE  [Abs!Next]_(Abs!absVars)
  <2>0. CASE CallInvalid(t)
    <3>1. pc' = pc
      BY <2>0 DEF CallInvalid, Goto, IInv, CtlInv, TypeOK
    <3> QED
      BY <2>0, <3>1 DEF CallInvalid, dictVars, Abs!absVars, Keys, Calls
  <2>1. CASE ~CallInvalid(t) /\ \E d \in Descs : Call(t, d)
    BY <2>1, InvokeStep DEF Abs!Next
  <2>2. CASE AddRemove(t) \/ Remove(t) \/ ReadGet(t)
    BY <2>2, EffectiveStep DEF Abs!Next
  <2>3. CASE \/ ReleaseData(t) \/ RemoveUnlock(t) \/ (ReadUnlock(t) /\ data[t] = NoData)
             \/ AddNoMemory(t) \/ ReadNoMemory(t)
    BY <2>3, ReturnStep DEF Abs!Next
  <2>4. CASE \/ AddData(t) \/ AddLock(t) \/ AddValue(t) \/ AddUnlock(t)
             \/ RemoveLock(t)
             \/ ReadLock(t) \/ ReadRetain(t) \/ (ReadUnlock(t) /\ data[t] # NoData)
             \/ ReadCopy(t) \/ ReadNoSpace(t)
    BY <2>4, HiddenStep DEF Abs!absVars
  <2> QED
    <3>1. Step(t) \/ \E d \in Descs : Call(t, d)
      BY <1>1
    <3>2. ASSUME Step(t)
          PROVE  \/ AddRemove(t) \/ Remove(t) \/ ReadGet(t)
                 \/ ReleaseData(t) \/ RemoveUnlock(t) \/ ReadUnlock(t) \/ AddNoMemory(t)
                 \/ ReadNoMemory(t) \/ AddData(t) \/ AddLock(t) \/ AddValue(t) \/ AddUnlock(t)
                 \/ RemoveLock(t) \/ ReadLock(t) \/ ReadRetain(t)
                 \/ ReadCopy(t) \/ ReadNoSpace(t)
      BY <3>2 DEF Step
    <3> QED
      BY <2>0, <2>1, <2>2, <2>3, <2>4, <3>1, <3>2
<1>2. CASE UNCHANGED vars
  BY <1>2 DEF vars, Abs!absVars, Keys, Calls
<1> QED
  BY <1>1, <1>2 DEF Next

LEMMA AbsInit == Init => Abs!Init
<1> SUFFICES ASSUME Init PROVE Abs!Init
  OBVIOUS
<1>1. Keys = [d \in Descs |-> Absent]
  BY DEF Init, Keys
<1>2. Calls = [t \in Threads |-> Abs!NoCall]
  BY NobodyCalls DEF Init, Calls
<1> QED
  BY <1>1, <1>2 DEF Abs!Init

\* Whatever runs at once, each call of add_key, remove_key and read_key takes
\* effect and gets its answer in one step, as on a plain map.
THEOREM KeystoreImplementsMap == Spec => ImplementsMap
<1>1. IInv /\ [Next]_vars => [Abs!Next]_(Abs!absVars)
  BY Inductive, AbsStep
<1> QED
  BY <1>1, AbsInit, Invariance, PTL DEF Spec, ImplementsMap, Abs!Spec

-----------------------------------------------------------------------------
(***************************************************************************)
(* The Linux keystore.                                                     *)
(***************************************************************************)
\* A serial number has a payload as long as it is linked, under one name.
RingInv ==
  /\ \A d, e \in LinuxDescs : ring[d] = ring[e] /\ ring[d] # NoKey => d = e
  /\ \A d \in LinuxDescs : ring[d] # NoKey => contents[ring[d]] # Absent

\* The serial number of a call between its two system calls: it is still that
\* of its description, or it is dead and the call has seen the key go.
SerialInv(t) ==
  linuxPc[t] \in {"invalidate", "read"} =>
    /\ key[t] \in Serials
    /\ \/ ring[linuxDesc[t]] = key[t]
       \/ /\ contents[key[t]] = Absent /\ Absent \in seen[t]
          /\ \A d \in LinuxDescs : ring[d] # key[t]

SeesNow(t) == linuxPc[t] # "idle" => Linux!Keys[linuxDesc[t]] \in seen[t]
AnswerWasTrue(t) == answer[t] # None => answer[t] \in seen[t]

LinuxInv ==
  /\ Linux!TypeOK /\ RingInv
  /\ \A t \in LinuxThreads : SerialInv(t) /\ SeesNow(t) /\ AnswerWasTrue(t)

KeyOf(d) == IF ring[d] = NoKey THEN Absent ELSE contents[ring[d]]

LEMMA LinuxConstants ==
  /\ LinuxDescs # {} /\ NoKey \notin Serials
  /\ Length \in [Payloads -> Nat] /\ Buffers \subseteq Nat
  /\ Absent \notin Payloads /\ None \notin Payloads \cup {Absent}
  BY KeystoresAssumption DEF Linux!KeystoreLinuxAssumption

LEMMA LinuxKeysAre ==
  \A d \in LinuxDescs : Linux!Keys[d] = KeyOf(d) /\ Linux!Keys'[d] = KeyOf(d)'
  BY DEF Linux!Keys, KeyOf

LEMMA LinuxInit == Linux!Init => LinuxInv
<1> SUFFICES ASSUME Linux!Init PROVE LinuxInv
  OBVIOUS
<1> USE DEF Linux!Init
<1>1. (CHOOSE d \in LinuxDescs : TRUE) \in LinuxDescs
  BY LinuxConstants
<1>2. Linux!TypeOK
  BY <1>1 DEF Linux!TypeOK
<1>3. \A t \in LinuxThreads : linuxPc[t] = "idle" /\ answer[t] = None
  OBVIOUS
<1> QED
  BY <1>2, <1>3, LinuxConstants DEF LinuxInv, RingInv, SerialInv, SeesNow, AnswerWasTrue

\* What the bookkeeping does for a call that runs.
LEMMA LinuxObserved ==
  ASSUME Linux!TypeOK, Linux!Observe, NEW t \in LinuxThreads
  PROVE  /\ seen[t] \subseteq seen'[t]
         /\ linuxPc[t] # "idle" =>
              \A d \in LinuxDescs : linuxDesc[t] = d => KeyOf(d)' \in seen'[t]
         /\ linuxPc[t] = "idle" => seen'[t] = seen[t]
  BY LinuxKeysAre DEF Linux!Observe, Linux!TypeOK

\* The kernel's part, and the calls' own part, of the types.
KernelType ==
  /\ ring \in [LinuxDescs -> Serials \cup {NoKey}]
  /\ contents \in [Serials -> Payloads \cup {Absent}]

CallsType ==
  /\ linuxPc \in [LinuxThreads -> {"idle", "remove_find", "invalidate", "read_find", "read"}]
  /\ linuxDesc \in [LinuxThreads -> LinuxDescs]
  /\ linuxLen \in [LinuxThreads -> Nat]
  /\ key \in [LinuxThreads -> Serials \cup {NoKey}]
  /\ answer \in [LinuxThreads -> Payloads \cup {Absent, None}]

\* A step that keeps the record of what the running calls see.
LEMMA ObservedStep ==
  ASSUME LinuxInv, KernelType', CallsType', RingInv', \A u \in LinuxThreads : SerialInv(u)',
         Linux!Observe, linuxDesc' = linuxDesc,
         \A u \in LinuxThreads : linuxPc[u] = "idle" => linuxPc'[u] = "idle",
         \A u \in LinuxThreads : answer'[u] \in {answer[u], None} \/ answer'[u] \in seen'[u]
  PROVE  LinuxInv'
<1> USE DEF LinuxInv
<1>0. Linux!TypeOK /\ linuxDesc \in [LinuxThreads -> LinuxDescs]
  BY DEF Linux!TypeOK
<1>1. \A u \in LinuxThreads :
        /\ seen[u] \subseteq seen'[u]
        /\ linuxPc[u] # "idle" =>
             \A d \in LinuxDescs : linuxDesc[u] = d => KeyOf(d)' \in seen'[u]
  BY <1>0, LinuxObserved
<1>2. Linux!TypeOK'
  <2>1. \A d \in LinuxDescs : KeyOf(d)' \in Payloads \cup {Absent}
    BY DEF KernelType, KeyOf
  <2>2. seen \in [LinuxThreads -> SUBSET (Payloads \cup {Absent})]
    BY DEF Linux!TypeOK
  <2>3. seen' \in [LinuxThreads -> SUBSET (Payloads \cup {Absent})]
    BY <1>0, <2>1, <2>2, LinuxKeysAre DEF Linux!Observe
  <2> QED
    BY <2>3 DEF Linux!TypeOK, KernelType, CallsType
<1>3. \A u \in LinuxThreads : AnswerWasTrue(u)'
  BY <1>1 DEF AnswerWasTrue
<1>4. ASSUME NEW u \in LinuxThreads PROVE SeesNow(u)'
  <2>1. PICK d \in LinuxDescs : linuxDesc[u] = d
    BY <1>0
  <2>2. linuxPc[u] # "idle" => KeyOf(d)' \in seen'[u]
    BY <1>1, <2>1
  <2> QED
    BY <2>1, <2>2, LinuxKeysAre DEF SeesNow
<1> QED
  BY <1>2, <1>3, <1>4

\* A call begins: it sees the keys as they are.
LEMMA BeginStep ==
  ASSUME LinuxInv, NEW t \in LinuxThreads, NEW d \in LinuxDescs,
         NEW label \in {"remove_find", "read_find"}, Linux!Begin(t, label, d),
         linuxLen' \in [LinuxThreads -> Nat], UNCHANGED <<ring, contents, key>>
  PROVE  LinuxInv'
<1> USE DEF LinuxInv, Linux!Begin, Linux!Goto, Linux!Set
<1>0. KeyOf(d) \in Payloads \cup {Absent}
  BY DEF KeyOf, Linux!TypeOK
<1>1. Linux!TypeOK' /\ RingInv'
  BY <1>0, LinuxKeysAre DEF Linux!TypeOK, RingInv
<1>2. \A e \in LinuxDescs : Linux!Keys'[e] = Linux!Keys[e]
  BY LinuxKeysAre DEF KeyOf
<1>3. /\ linuxPc'[t] = label /\ linuxDesc'[t] = d /\ answer'[t] = None /\ seen'[t] = {Linux!Keys[d]}
      /\ \A u \in LinuxThreads \ {t} : /\ linuxPc'[u] = linuxPc[u] /\ linuxDesc'[u] = linuxDesc[u]
                                       /\ answer'[u] = answer[u] /\ seen'[u] = seen[u]
  BY DEF Linux!TypeOK
<1>4. ASSUME NEW u \in LinuxThreads PROVE SerialInv(u)' /\ SeesNow(u)' /\ AnswerWasTrue(u)'
  <2>1. SerialInv(u) /\ SeesNow(u) /\ AnswerWasTrue(u) /\ linuxDesc[u] \in LinuxDescs
    BY DEF Linux!TypeOK
  <2> QED
    BY <1>2, <1>3, <2>1 DEF SerialInv, SeesNow, AnswerWasTrue
<1> QED
  BY <1>1, <1>4

\* The system calls that only look.
LEMMA LookStep ==
  ASSUME LinuxInv, NEW t \in LinuxThreads, CallsType', Linux!Observe,
         UNCHANGED <<ring, contents, linuxDesc>>,
         \A u \in LinuxThreads \ {t} : /\ linuxPc'[u] = linuxPc[u] /\ key'[u] = key[u]
                                       /\ answer'[u] = answer[u],
         linuxPc[t] # "idle",
         \/ linuxPc'[t] = "idle" /\ answer'[t] \in seen'[t]
         \/ answer'[t] = answer[t] /\ key'[t] \in Serials /\ ring[linuxDesc[t]] = key'[t]
  PROVE  LinuxInv'
<1> USE DEF LinuxInv
<1>1. KernelType' /\ RingInv'
  BY DEF KernelType, RingInv, Linux!TypeOK
<1>2. ASSUME NEW u \in LinuxThreads PROVE SerialInv(u)'
  <2>1. SerialInv(u) /\ seen[u] \subseteq seen'[u]
    BY LinuxObserved
  <2> QED
    BY <2>1 DEF SerialInv
<1> QED
  BY <1>1, <1>2, ObservedStep

\* What is stored now has been seen by the call that runs.
LEMMA NowIsSeen ==
  ASSUME LinuxInv, Linux!Observe, NEW t \in LinuxThreads, linuxPc[t] # "idle",
         UNCHANGED <<ring, contents>>
  PROVE  KeyOf(linuxDesc[t]) \in seen'[t]
<1>1. PICK d \in LinuxDescs : linuxDesc[t] = d
  BY DEF LinuxInv, Linux!TypeOK
<1>2. KeyOf(d)' \in seen'[t] /\ KeyOf(d)' = KeyOf(d)
  BY <1>1, LinuxObserved DEF LinuxInv, KeyOf
<1> QED
  BY <1>1, <1>2

LEMMA FindStep ==
  ASSUME LinuxInv, NEW t \in LinuxThreads,
         \/ Linux!RemoveFind(t) \/ Linux!ReadFind(t)
         \/ Linux!RemoveMissing(t) \/ Linux!ReadMissing(t)
  PROVE  LinuxInv'
<1> USE DEF LinuxInv, Linux!TypeOK, Linux!kernel, Linux!Set, Linux!ks_linux_find_key, Linux!Goto
<1>1. ASSUME NEW from \in {"remove_find", "read_find"}, NEW to \in {"invalidate", "read"},
             Linux!Find(t, from, to)
      PROVE  LinuxInv'
  <2>1. CallsType' /\ Linux!Observe /\ UNCHANGED <<ring, contents, linuxDesc>>
    BY <1>1 DEF Linux!Find, CallsType
  <2>2. /\ linuxPc[t] # "idle" /\ answer'[t] = answer[t] /\ key'[t] \in Serials
        /\ ring[linuxDesc[t]] = key'[t]
        /\ \A u \in LinuxThreads \ {t} : /\ linuxPc'[u] = linuxPc[u] /\ key'[u] = key[u]
                                         /\ answer'[u] = answer[u]
    BY <1>1 DEF Linux!Find
  <2> QED
    BY <2>1, <2>2, LookStep
<1>2. ASSUME NEW from \in {"remove_find", "read_find"}, Linux!FindNothing(t, from)
      PROVE  LinuxInv'
  <2>1. CallsType' /\ Linux!Observe /\ UNCHANGED <<ring, contents, linuxDesc>>
    BY <1>2 DEF Linux!FindNothing, Linux!Answer, CallsType
  <2>2. /\ linuxPc[t] # "idle" /\ linuxPc'[t] = "idle" /\ answer'[t] = Absent
        /\ ring[linuxDesc[t]] = NoKey
        /\ \A u \in LinuxThreads \ {t} : /\ linuxPc'[u] = linuxPc[u] /\ key'[u] = key[u]
                                         /\ answer'[u] = answer[u]
    BY <1>2 DEF Linux!FindNothing, Linux!Answer
  <2>3. answer'[t] \in seen'[t]
    BY <2>1, <2>2, NowIsSeen DEF KeyOf
  <2> QED
    BY <2>1, <2>2, <2>3, LookStep
<1> QED
  BY <1>1, <1>2 DEF Linux!RemoveFind, Linux!ReadFind, Linux!RemoveMissing, Linux!ReadMissing

\* keyctl_read(), and a serial number that is out of date.
LEMMA UseStep ==
  ASSUME LinuxInv, NEW t \in LinuxThreads,
         Linux!Read(t) \/ Linux!ReadFails(t) \/ Linux!InvalidateFails(t)
  PROVE  LinuxInv'
<1> USE DEF LinuxInv, Linux!TypeOK, Linux!kernel, Linux!Set
<1>0. linuxPc[t] \in {"read", "invalidate"}
  BY DEF Linux!Read, Linux!ReadFails, Linux!InvalidateFails
<1>1. /\ key[t] \in Serials
      /\ \/ ring[linuxDesc[t]] = key[t]
         \/ contents[key[t]] = Absent /\ Absent \in seen[t]
  BY <1>0 DEF SerialInv
<1>2. /\ Linux!Observe /\ UNCHANGED <<ring, contents, linuxDesc, key>>
      /\ linuxPc' = [linuxPc EXCEPT ![t] = "idle"]
      /\ answer' = [answer EXCEPT ![t] = contents[key[t]]]
  BY DEF Linux!Read, Linux!ReadFails, Linux!InvalidateFails, Linux!Answer
<1>3. linuxLen' \in [LinuxThreads -> Nat]
  <2>1. CASE Linux!Read(t)
    <3>1. /\ contents[key[t]] \in Payloads
          /\ linuxLen' = [linuxLen EXCEPT ![t] = Length[contents[key[t]]]]
      BY <1>1, <2>1 DEF Linux!Read
    <3> QED
      BY <3>1, LinuxConstants
  <2>2. CASE ~Linux!Read(t)
    BY <2>2 DEF Linux!ReadFails, Linux!InvalidateFails
  <2> QED
    BY <2>1, <2>2
<1>4. CallsType'
  BY <1>1, <1>2, <1>3 DEF CallsType
<1>5. contents[key[t]] \in seen'[t]
  <2>1. CASE ring[linuxDesc[t]] = key[t]
    <3>1. KeyOf(linuxDesc[t]) = contents[key[t]]
      BY <1>1, <2>1, LinuxConstants DEF KeyOf
    <3> QED
      BY <1>0, <1>2, <3>1, NowIsSeen
  <2>2. CASE contents[key[t]] = Absent /\ Absent \in seen[t]
    BY <1>2, <2>2, LinuxObserved
  <2> QED
    BY <1>1, <2>1, <2>2
<1> QED
  BY <1>0, <1>2, <1>4, <1>5, LookStep

\* A removal: only the key of its own description has that serial number.
LEMMA InvalidateStep ==
  ASSUME LinuxInv, NEW t \in LinuxThreads, Linux!Invalidate(t)
  PROVE  /\ LinuxInv'
         /\ \A d \in LinuxDescs : KeyOf(d)' = IF d = linuxDesc[t] THEN Absent ELSE KeyOf(d)
<1> USE DEF LinuxInv, Linux!TypeOK, Linux!Invalidate, Linux!Answer, Linux!Set
<1>1. key[t] \in Serials /\ ring[linuxDesc[t]] = key[t] /\ linuxDesc[t] \in LinuxDescs
  BY DEF SerialInv
<1>2. /\ \A d \in LinuxDescs : ring'[d] = IF d = linuxDesc[t] THEN NoKey ELSE ring[d]
      /\ \A d \in LinuxDescs : ring'[d] # key[t]
      /\ \A s \in Serials : contents'[s] = IF s = key[t] THEN Absent ELSE contents[s]
      /\ KernelType'
  BY <1>1, LinuxConstants DEF RingInv, KernelType
<1>3. \A d \in LinuxDescs : KeyOf(d)' = IF d = linuxDesc[t] THEN Absent ELSE KeyOf(d)
  BY <1>1, <1>2 DEF RingInv, KeyOf
<1>4. RingInv'
  BY <1>2 DEF RingInv
<1>5. CallsType'
  BY DEF CallsType
<1>6. ASSUME NEW u \in LinuxThreads PROVE SerialInv(u)'
  <2>1. SerialInv(u) /\ seen[u] \subseteq seen'[u]
    BY LinuxObserved
  <2>2. CASE linuxPc'[u] \in {"invalidate", "read"} /\ key[u] = key[t]
    <3>1. linuxPc[u] \in {"invalidate", "read"} /\ ring[linuxDesc[u]] = key[t]
      BY <1>1, <2>1, <2>2 DEF SerialInv
    <3>2. linuxDesc[u] = linuxDesc[t]
      BY <1>1, <3>1, LinuxConstants DEF RingInv
    <3>3. Absent \in seen'[u]
      BY <1>1, <1>3, <3>1, <3>2, LinuxObserved
    <3> QED
      BY <1>1, <1>2, <2>2, <3>3 DEF SerialInv
  <2>3. CASE linuxPc'[u] \in {"invalidate", "read"} /\ key[u] # key[t]
    <3>1. linuxPc[u] \in {"invalidate", "read"}
      BY <2>3
    <3>2. ring[linuxDesc[u]] = key[u] => linuxDesc[u] # linuxDesc[t]
      BY <1>1, <2>3
    <3> QED
      BY <1>1, <1>2, <2>1, <2>3, <3>1, <3>2, LinuxConstants DEF SerialInv
  <2>4. CASE linuxPc'[u] \notin {"invalidate", "read"}
    BY <2>4 DEF SerialInv
  <2> QED
    BY <2>2, <2>3, <2>4
<1>7. answer'[t] \in seen'[t]
  BY <1>1, <1>3, LinuxObserved
<1> QED
  BY <1>2, <1>3, <1>4, <1>5, <1>6, <1>7, ObservedStep

\* A key is added, or updated in place: none vanishes.
LEMMA AddStep ==
  ASSUME LinuxInv, NEW t \in LinuxThreads, NEW d \in LinuxDescs, NEW p \in Payloads,
         Linux!AddKey(t, d, p)
  PROVE  /\ LinuxInv'
         /\ \A e \in LinuxDescs : KeyOf(e)' = IF e = d THEN p ELSE KeyOf(e)
<1> USE DEF LinuxInv, Linux!TypeOK, Linux!AddKey, Linux!Fresh, Linux!Set
<1>1. PICK s \in Serials : /\ ring[d] = s \/ (ring[d] = NoKey /\ Linux!Fresh(s))
                           /\ \A e \in LinuxDescs : ring'[e] = IF e = d THEN s ELSE ring[e]
                           /\ \A q \in Serials : contents'[q] = IF q = s THEN p ELSE contents[q]
                           /\ KernelType'
  BY DEF KernelType
<1>2. \A e \in LinuxDescs \ {d} : ring[e] # s
  BY <1>1, LinuxConstants DEF RingInv
<1>3. \A e \in LinuxDescs : KeyOf(e)' = IF e = d THEN p ELSE KeyOf(e)
  BY <1>1, <1>2, LinuxConstants DEF KeyOf
<1>4. RingInv'
  BY <1>1, <1>2, LinuxConstants DEF RingInv
<1>5. CallsType'
  BY DEF CallsType
<1>6. ASSUME NEW u \in LinuxThreads PROVE SerialInv(u)'
  <2>1. SerialInv(u) /\ seen[u] \subseteq seen'[u] /\ linuxDesc[u] \in LinuxDescs
    BY LinuxObserved
  <2>2. CASE ring[linuxDesc[u]] = key[u]
    BY <1>1, <2>1, <2>2, LinuxConstants DEF SerialInv
  <2>3. CASE ring[linuxDesc[u]] # key[u] /\ linuxPc[u] \in {"invalidate", "read"}
    <3>1. contents[key[u]] = Absent /\ Absent \in seen[u] /\ \A e \in LinuxDescs : ring[e] # key[u]
      BY <2>1, <2>3 DEF SerialInv
    <3>2. key[u] # s
      BY <1>1, <2>3, <3>1
    <3> QED
      BY <1>1, <2>1, <2>3, <3>1, <3>2 DEF SerialInv
  <2> QED
    BY <2>2, <2>3 DEF SerialInv
<1> QED
  BY <1>1, <1>3, <1>4, <1>5, <1>6, ObservedStep

LEMMA LinuxStep ==
  ASSUME LinuxInv, [Linux!Next]_(Linux!vars)
  PROVE  LinuxInv'
<1>1. CASE UNCHANGED Linux!vars
  BY <1>1, LinuxKeysAre
     DEF Linux!vars, LinuxInv, Linux!TypeOK, RingInv, SerialInv, SeesNow, AnswerWasTrue, KeyOf
<1>2. ASSUME NEW t \in LinuxThreads, Linux!Step(t) PROVE LinuxInv'
  BY <1>2, FindStep, UseStep, InvalidateStep DEF Linux!Step
<1>3. ASSUME NEW t \in LinuxThreads, NEW d \in LinuxDescs, Linux!Call(t, d) PROVE LinuxInv'
  <2>1. CASE Linux!CallRemove(t, d)
    <3>1. linuxLen' \in [LinuxThreads -> Nat]
      BY <2>1 DEF Linux!CallRemove, LinuxInv, Linux!TypeOK
    <3> QED
      BY <2>1, <3>1, BeginStep DEF Linux!CallRemove, Linux!kernel
  <2>2. ASSUME NEW n \in Buffers, Linux!CallRead(t, d, n) PROVE LinuxInv'
    <3>1. linuxLen' \in [LinuxThreads -> Nat]
      BY <2>2, LinuxConstants DEF Linux!CallRead, Linux!Set, LinuxInv, Linux!TypeOK
    <3> QED
      BY <2>2, <3>1, BeginStep DEF Linux!CallRead, Linux!kernel
  <2> QED
    BY <1>3, <2>1, <2>2, AddStep DEF Linux!Call
<1> QED
  BY <1>1, <1>2, <1>3 DEF Linux!Next

LEMMA LinuxInvariance == Linux!Spec => []LinuxInv
  BY LinuxInit, LinuxStep, PTL DEF Linux!Spec

(***************************************************************************)
(* Although ks_linux_read_key() and ks_linux_remove_key() find a serial    *)
(* number in one system call and use it in another, what they answer was   *)
(* the case at some moment of the call.                                    *)
(***************************************************************************)
THEOREM LinuxAnswersWereTrue == Linux!Spec => []AnswersWereTrue
<1>1. LinuxInv => AnswersWereTrue
  BY DEF LinuxInv, AnswerWasTrue, AnswersWereTrue, Linux!AnswersWereTrue
<1> QED
  BY <1>1, LinuxInvariance, PTL

(***************************************************************************)
(* A serial number that is out of date never takes away another key than   *)
(* the one that ks_linux_remove_key() was called for.                      *)
(***************************************************************************)
THEOREM LinuxKeysVanishOnRequest == Linux!Spec => OnlyRequestedKeysVanish
<1> DEFINE Lost(d) == Linux!Keys[d] # Absent /\ Linux!Keys'[d] = Absent
           Asked(d) == \E t \in LinuxThreads : linuxPc[t] = "invalidate" /\ linuxDesc[t] = d
<1>1. ASSUME LinuxInv, [Linux!Next]_(Linux!vars), NEW d \in LinuxDescs, Lost(d) PROVE Asked(d)
  <2>1. KeyOf(d) # Absent /\ KeyOf(d)' = Absent
    BY <1>1, LinuxKeysAre
  <2>2. ~UNCHANGED <<ring, contents>>
    BY <2>1 DEF KeyOf
  <2>3. PICK t \in LinuxThreads : \/ Linux!Invalidate(t)
                                  \/ \E e \in LinuxDescs, p \in Payloads : Linux!AddKey(t, e, p)
    BY <1>1, <2>2 DEF Linux!Next, Linux!Step, Linux!Call, Linux!CallRemove, Linux!CallRead,
       Linux!RemoveFind, Linux!RemoveMissing, Linux!ReadFind, Linux!ReadMissing, Linux!Find,
       Linux!FindNothing, Linux!Read, Linux!ReadFails, Linux!InvalidateFails, Linux!kernel,
       Linux!vars
  <2>4. CASE Linux!Invalidate(t)
    <3>1. linuxDesc[t] = d
      BY <1>1, <2>1, <2>4, InvalidateStep
    <3> QED
      BY <2>4, <3>1 DEF Linux!Invalidate
  <2>5. ASSUME NEW e \in LinuxDescs, NEW p \in Payloads, Linux!AddKey(t, e, p) PROVE FALSE
    BY <1>1, <2>1, <2>5, AddStep, LinuxConstants
  <2> QED
    BY <2>3, <2>4, <2>5
<1>2. LinuxInv /\ [Linux!Next]_(Linux!vars) =>
        [\A d \in LinuxDescs : Lost(d) => Asked(d)]_(Linux!vars)
  BY <1>1
<1> QED
  BY <1>2, LinuxInvariance, PTL
     DEF Linux!Spec, OnlyRequestedKeysVanish, Linux!OnlyRequestedKeysVanish

-----------------------------------------------------------------------------
(***************************************************************************)
(* The start, for any threads and any names that the program may take.     *)
(***************************************************************************)
Elements(s) == {s[i] : i \in DOMAIN s}
NoneTwice(s) == \A i, j \in DOMAIN s : s[i] = s[j] => i = j

\* The names of a constructor that runs: the rest of them is still to come.
LeftInv ==
  /\ left \in Seq(Names) /\ NoneTwice(left)
  /\ left # << >> => current \in Registrars
  /\ current \in Registrars => Elements(left) \subseteq Elements(Offers(current))
  /\ Len(left) + failures <= Len(Offers("cipher"))

\* What a constructor has been through is taken, and by the library unless ...
OwnerInv ==
  \A c \in Registrars : \A n \in Elements(Offers(c)) :
    IF c \in waiting \/ n \in Elements(left)
    THEN owner[n] # Library
    ELSE /\ owner[n] # NULL
         /\ \/ owner[n] = Library
            \/ c = "hash"
            \/ current = c /\ failures > 0
            \/ phase = "aborted"

FailureInv ==
  failures > 0 => current \in Registrars /\ \E n \in Names : owner[n] = Program

\* Who is between the test and the assignment of the keystore, and what is set.
SetterInv ==
  /\ \A t \in MainThreads :
       setting[t] # NULL => setting[t] = t /\ phase = "main" /\ ~built
  /\ setting[Loader] \in {Library, Program, NULL}
  /\ setting[Loader] = Library <=> current = "keystore"
  /\ setting[Loader] = Program <=> current = "program"
  /\ setting[Loader] # NULL => keystore = NULL
  /\ phase # "main" => keystore \in {Library, Program, NULL}
  /\ "keystore" \in waiting => keystore # Library /\ built
  /\ "keystore" \notin waiting => \/ keystore = Library
                                  \/ current = "keystore"
                                  \/ phase = "aborted"
                                  \/ ~built

PhaseInv ==
  /\ current # NULL => phase = "start" /\ current \notin waiting
  /\ phase = "main" => waiting = {}

StartInv == StartTypeOK /\ LeftInv /\ OwnerInv /\ FailureInv /\ SetterInv /\ PhaseInv
            /\ AbortsForAReason


-----------------------------------------------------------------------------
LEMMA OffersAre ==
  ASSUME NEW c \in Registrars
  PROVE  /\ Offers(c) \in Seq(Names) /\ NoneTwice(Offers(c))
         /\ Len(Offers(c)) \in Nat /\ Len(Offers(c)) <= Len(Offers("cipher"))
         /\ \A n \in Elements(Offers(c)) : n[1] = c /\ n \in Names
<1>1. c \in {"cipher", "hash", "pbkdf", "rand", "header", "writer"}
  BY DEF Registrars
<1>2. Len(Offers("cipher")) = 6
  BY DEF Offers
<1>3. /\ NoneTwice(Offers(c)) /\ Len(Offers(c)) \in 1..6
      /\ \A i \in DOMAIN Offers(c) : Offers(c)[i][1] = c
  <2>1. CASE c = "cipher" BY <2>1 DEF Offers, NoneTwice
  <2>2. CASE c = "hash" BY <2>2 DEF Offers, NoneTwice
  <2>3. CASE c = "pbkdf" BY <2>3 DEF Offers, NoneTwice
  <2>4. CASE c = "rand" BY <2>4 DEF Offers, NoneTwice
  <2>5. CASE c = "header" BY <2>5 DEF Offers, NoneTwice
  <2>6. CASE c = "writer" BY <2>6 DEF Offers, NoneTwice
  <2> QED
    BY <1>1, <2>1, <2>2, <2>3, <2>4, <2>5, <2>6
<1>4. \A n \in Elements(Offers(c)) : n[1] = c /\ n \in Names
  BY <1>3 DEF Elements, Names
<1>5. Offers(c) = [i \in 1..Len(Offers(c)) |-> Offers(c)[i]]
  <2>1. CASE c = "cipher" BY <2>1 DEF Offers
  <2>2. CASE c = "hash" BY <2>2 DEF Offers
  <2>3. CASE c = "pbkdf" BY <2>3 DEF Offers
  <2>4. CASE c = "rand" BY <2>4 DEF Offers
  <2>5. CASE c = "header" BY <2>5 DEF Offers
  <2>6. CASE c = "writer" BY <2>6 DEF Offers
  <2> QED
    BY <1>1, <2>1, <2>2, <2>3, <2>4, <2>5, <2>6
<1>6. \A i \in 1..Len(Offers(c)) : Offers(c)[i] \in Names
  <2>1. DOMAIN Offers(c) = 1..Len(Offers(c))
    BY <1>5
  <2> QED
    BY <1>4, <2>1 DEF Elements
<1>7. Offers(c) \in Seq(Names)
  BY <1>3, <1>5, <1>6
<1> QED
  <2>1. Len(Offers(c)) \in Nat /\ Len(Offers(c)) <= Len(Offers("cipher"))
    BY <1>2, <1>3
  <2> QED
    BY <1>3, <1>4, <1>7, <2>1, Zenon

LEMMA NamesAre ==
  /\ \A n \in Names : \E c \in Registrars : n \in Elements(Offers(c))
  /\ \A c \in Registrars : Elements(Offers(c)) \subseteq Names
  /\ \A c, d \in Registrars : \A n \in Elements(Offers(c)) :
       n \in Elements(Offers(d)) => c = d
<1>1. \A n \in Names : \E c \in Registrars : n \in Elements(Offers(c))
  BY DEF Names, Elements
<1> QED
  BY <1>1, OffersAre

\* One name less.
LEMMA TailIs ==
  ASSUME NEW s \in Seq(Names), NoneTwice(s), s # << >>
  PROVE  /\ Tail(s) \in Seq(Names) /\ NoneTwice(Tail(s))
         /\ Len(s) \in Nat /\ Len(Tail(s)) = Len(s) - 1
         /\ Head(s) \in Elements(s) /\ Head(s) \in Names
         /\ Elements(Tail(s)) = Elements(s) \ {Head(s)}
<1>1. /\ Len(s) \in Nat \ {0} /\ Tail(s) \in Seq(Names) /\ Len(Tail(s)) = Len(s) - 1
      /\ DOMAIN s = 1..Len(s) /\ DOMAIN Tail(s) = 1..(Len(s) - 1)
      /\ \A i \in DOMAIN Tail(s) : Tail(s)[i] = s[i + 1]
      /\ Head(s) = s[1]
  OBVIOUS
<1>2. NoneTwice(Tail(s))
  BY <1>1 DEF NoneTwice
<1>3. Head(s) \in Elements(s) /\ Head(s) \in Names
  BY <1>1 DEF Elements
<1>4. \A n \in Elements(Tail(s)) : n \in Elements(s) /\ n # Head(s)
  BY <1>1 DEF Elements, NoneTwice
<1>5. \A n \in Elements(s) : n # Head(s) => n \in Elements(Tail(s))
  <2> SUFFICES ASSUME NEW i \in DOMAIN s, s[i] # Head(s) PROVE s[i] \in Elements(Tail(s))
    BY DEF Elements
  <2>1. i # 1 /\ i - 1 \in DOMAIN Tail(s) /\ Tail(s)[i - 1] = s[i]
    BY <1>1
  <2> QED
    BY <2>1 DEF Elements
<1> QED
  BY <1>1, <1>2, <1>3, <1>4, <1>5

LEMMA ConstructorsAre ==
  /\ "keystore" \notin Registrars /\ "program" \notin Registrars
  /\ NULL \notin Registrars /\ NULL # "keystore" /\ NULL # "program"
  /\ Library # Program /\ NULL # Library /\ NULL # Program
  /\ {Loader, Library, Program, NULL} \cap MainThreads = {}
  BY StartupAssumption DEF Registrars, Constructors

LEMMA StartInitially == StartInit => StartInv
<1> SUFFICES ASSUME StartInit PROVE StartInv
  OBVIOUS
<1>1. StartTypeOK
  <2>1. 0 \in 0..Len(Offers("cipher"))
    BY OffersAre DEF Registrars
  <2>2. waiting \subseteq Constructors \cup {"program"}
    BY DEF StartInit, Constructors
  <2> QED
    BY <2>1, <2>2, ConstructorsAre DEF StartInit, StartTypeOK
<1>2. LeftInv
  BY ConstructorsAre, OffersAre DEF StartInit, LeftInv, NoneTwice, Registrars
<1>3. OwnerInv
  BY ConstructorsAre, NamesAre DEF StartInit, OwnerInv, Constructors
<1>4. SetterInv
  BY ConstructorsAre DEF StartInit, SetterInv, Constructors
<1> QED
  BY <1>1, <1>2, <1>3, <1>4 DEF StartInit, StartInv, FailureInv, PhaseInv, AbortsForAReason


\* The next constructor of the library is called.
LEMMA BeginsStep == ASSUME StartInv, built' = built, NEW c \in Constructors, Begin(c) PROVE StartInv'
<1> USE DEF StartInv
<1>1. c \in Registrars /\ phase = "start" /\ current = NULL /\ c \in waiting /\ left' = Offers(c)
  BY DEF Begin, Run
<1>2. StartTypeOK'
  <2>1. failures' \in 0..Len(Offers("cipher"))
    BY <1>1, OffersAre DEF Begin, Registrars
  <2> QED
    BY <1>1, <2>1, ConstructorsAre DEF Begin, Run, StartTypeOK, Constructors
<1>3. LeftInv'
  BY <1>1, OffersAre DEF Begin, LeftInv
<1>4. OwnerInv'
  <2> SUFFICES ASSUME NEW d \in Registrars, NEW n \in Elements(Offers(d))
               PROVE  IF d \in waiting' \/ n \in Elements(left')
                      THEN owner'[n] # Library
                      ELSE /\ owner'[n] # NULL
                           /\ \/ owner'[n] = Library
                              \/ d = "hash"
                              \/ current' = d /\ failures' > 0
                              \/ phase' = "aborted"
    BY DEF OwnerInv
  <2>1. owner' = owner /\ failures' = 0 /\ phase' = phase
    BY DEF Begin
  <2>2. n \in Elements(left') <=> d = c
    BY <1>1, NamesAre
  <2>3. d \in waiting' <=> d \in waiting /\ d # c
    BY DEF Begin, Run
  <2>4. n \notin Elements(left)
    BY <1>1, ConstructorsAre DEF LeftInv, Elements
  <2>5. ~(failures > 0)
    BY <1>1, ConstructorsAre DEF FailureInv
  <2> QED
    BY <1>1, <2>1, <2>2, <2>3, <2>4, <2>5, ConstructorsAre DEF OwnerInv
<1>5. FailureInv' /\ PhaseInv' /\ AbortsForAReason'
  BY <1>1, ConstructorsAre DEF FailureInv, PhaseInv, AbortsForAReason, Begin, Run
<1>6. SetterInv'
  BY <1>1, ConstructorsAre DEF SetterInv, Begin, Run
<1> QED
  BY <1>2, <1>3, <1>4, <1>5, <1>6

\* One name is registered, or found taken.
LEMMA RegisterStep == ASSUME StartInv, built' = built, Register PROVE StartInv'
<1> USE DEF StartInv
<1> DEFINE h == Head(left)
<1>1. current \in Registrars /\ phase = "start" /\ current \notin waiting
  BY ConstructorsAre DEF Register, LeftInv, PhaseInv
<1>2. /\ left' \in Seq(Names) /\ NoneTwice(left')
      /\ Len(left) \in Nat /\ Len(left') = Len(left) - 1
      /\ h \in Elements(left) /\ h \in Names
      /\ Elements(left') = Elements(left) \ {h}
  BY TailIs DEF Register, LeftInv
<1>3. h \in Elements(Offers(current))
  BY <1>1, <1>2 DEF LeftInv
<1>4. UNCHANGED <<phase, waiting, current, keystore, setting>>
  BY DEF Register
<1>5. \/ owner[h] = NULL /\ owner' = [owner EXCEPT ![h] = Library] /\ failures' = failures
      \/ owner[h] # NULL /\ owner' = owner /\ failures' = failures + 1
  BY DEF Register
<1>6. owner[h] # Library /\ owner \in [Names -> {Library, Program, NULL}]
  BY <1>1, <1>2, <1>3 DEF OwnerInv, StartTypeOK
<1>7. failures \in Nat /\ Len(left) + failures <= 6 /\ Len(Offers("cipher")) = 6
  BY DEF StartTypeOK, LeftInv, Offers
<1>14. failures' = failures \/ failures' = failures + 1
  BY <1>5
<1>15. failures' \in 0..6 /\ Len(left') + failures' <= 6 /\ Len(left') \in Nat
  <2>1. \A f, g, k, l \in Int : /\ f \in Nat /\ k + f <= 6 /\ k \in Nat /\ l = k - 1 /\ l \in Nat
                               /\ (g = f \/ g = f + 1)
                               => g \in 0..6 /\ l + g <= 6
    OBVIOUS
  <2>2. Len(left') \in Nat
    BY <1>2
  <2>3. failures' \in Int
    BY <1>7, <1>14
  <2> QED
    BY <1>2, <1>7, <1>14, <2>1, <2>2, <2>3
<1>8. LeftInv'
  <2>1. Len(left') + failures' <= Len(Offers("cipher"))
    BY <1>7, <1>15
  <2>2. current' \in Registrars /\ Elements(left') \subseteq Elements(Offers(current'))
    BY <1>1, <1>2, <1>4 DEF LeftInv
  <2> QED
    BY <1>2, <2>1, <2>2 DEF LeftInv
<1>9. StartTypeOK'
  <2>1. failures' \in 0..Len(Offers("cipher"))
    BY <1>7, <1>15
  <2>2. owner' \in [Names -> {Library, Program, NULL}]
    BY <1>5, <1>6
  <2> QED
    BY <1>1, <1>4, <2>1, <2>2, ConstructorsAre DEF StartTypeOK
<1>10. \A n \in Names : owner[n] = Program => owner'[n] = Program
  BY <1>5, <1>6, ConstructorsAre
<1>11. FailureInv'
  BY <1>1, <1>2, <1>4, <1>5, <1>6, <1>7, <1>10, ConstructorsAre DEF FailureInv
<1>12. OwnerInv'
  <2> SUFFICES ASSUME NEW d \in Registrars, NEW n \in Elements(Offers(d))
               PROVE  IF d \in waiting' \/ n \in Elements(left')
                      THEN owner'[n] # Library
                      ELSE /\ owner'[n] # NULL
                           /\ \/ owner'[n] = Library
                              \/ d = "hash"
                              \/ current' = d /\ failures' > 0
                              \/ phase' = "aborted"
    BY DEF OwnerInv
  <2>1. n \in Names
    BY NamesAre
  <2>2. CASE n = h
    <3>1. d = current /\ n \notin Elements(left')
      BY <1>1, <1>2, <1>3, <2>2, NamesAre
    <3>2. \/ owner'[n] = Library
          \/ owner'[n] = Program /\ failures' > 0
      BY <1>2, <1>5, <1>6, <1>7, <2>2
    <3> QED
      BY <1>1, <1>4, <3>1, <3>2, ConstructorsAre
  <2>3. CASE n # h
    <3>1. owner'[n] = owner[n] /\ (n \in Elements(left') <=> n \in Elements(left))
      BY <1>2, <1>5, <1>6, <2>1, <2>3
    <3>2. failures > 0 => failures' > 0
      BY <1>5, <1>7
    <3> QED
      BY <1>4, <3>1, <3>2 DEF OwnerInv
  <2> QED
    BY <2>2, <2>3
<1>13. SetterInv' /\ PhaseInv' /\ AbortsForAReason'
  BY <1>1, <1>4 DEF SetterInv, PhaseInv, AbortsForAReason
<1> QED
  BY <1>8, <1>9, <1>11, <1>12, <1>13

\* A constructor of the library is through, or stops the process.
LEMMA EndStep == ASSUME StartInv, built' = built, End PROVE StartInv'
<1> USE DEF StartInv
<1>1. /\ current \in Registrars /\ left = << >> /\ current' = NULL /\ failures' = 0
      /\ phase = "start" /\ phase' \in {"start", "aborted"}
      /\ UNCHANGED <<waiting, left, owner, keystore, setting>>
      /\ current # NULL /\ current \notin waiting
  BY ConstructorsAre DEF End, PhaseInv
<1>2. phase' = "start" => current = "hash" \/ ~(failures > 0)
  BY DEF End, Aborts
<1>3. phase' = "aborted" => failures > 0
  BY DEF End
<1>4. StartTypeOK'
  <2>1. 0 \in 0..Len(Offers("cipher"))
    BY OffersAre DEF Registrars
  <2> QED
    BY <1>1, <2>1, ConstructorsAre DEF StartTypeOK, SetterInv
<1>5. LeftInv'
  <2>1. Len(left) + 0 <= Len(Offers("cipher"))
    BY <1>1, OffersAre DEF Registrars
  <2> QED
    BY <1>1, <2>1, ConstructorsAre DEF LeftInv
<1>6. OwnerInv'
  BY <1>1, <1>2, ConstructorsAre DEF OwnerInv
<1>7. FailureInv' /\ PhaseInv' /\ AbortsForAReason'
  BY <1>1, <1>3 DEF FailureInv, PhaseInv, AbortsForAReason
<1>8. SetterInv'
  BY <1>1, ConstructorsAre DEF SetterInv
<1> QED
  BY <1>4, <1>5, <1>6, <1>7, <1>8


\* What the names rely on when no constructor registers before or after.
LEMMA NamesKept ==
  ASSUME StartInv, built' = built, current \notin Registrars, current' \notin Registrars,
         UNCHANGED <<left, failures, owner>>,
         phase = "aborted" => phase' = "aborted",
         \A c \in Registrars : c \in waiting' <=> c \in waiting
  PROVE  LeftInv' /\ OwnerInv' /\ FailureInv'
<1>1. LeftInv'
  BY DEF StartInv, LeftInv
<1>2. OwnerInv'
  BY DEF StartInv, OwnerInv
<1>3. FailureInv'
  BY DEF StartInv, FailureInv
<1> QED
  BY <1>1, <1>2, <1>3

\* The assignment: before main() only the loader gets to it.
LEMMA LoaderAssigns ==
  ASSUME StartInv, built' = built, AssignDefault(Loader)
  PROVE  /\ StartInv'
         /\ keystore = NULL /\ owner' = owner
<1> USE DEF StartInv
<1>1. /\ setting[Loader] \in {Library, Program}
      /\ setting' = [setting EXCEPT ![Loader] = NULL]
      /\ keystore' = setting[Loader] /\ current' = NULL /\ keystore = NULL
      /\ UNCHANGED <<phase, waiting, left, failures, owner>>
  <2>1. /\ setting[Loader] # NULL /\ setting' = [setting EXCEPT ![Loader] = NULL]
        /\ keystore' = setting[Loader] /\ current' = NULL
        /\ UNCHANGED <<phase, waiting, left, failures, owner>>
    BY DEF AssignDefault
  <2>2. current # NULL
    BY <2>1 DEF StartTypeOK
  <2>3. phase = "start"
    BY <2>2 DEF PhaseInv
  <2>4. setting[Loader] \in {Library, Program}
    BY <2>1 DEF SetterInv, StartTypeOK
  <2> QED
    BY <2>1, <2>4 DEF SetterInv
<1>2. /\ current \in {"keystore", "program"}
      /\ current = "keystore" <=> setting[Loader] = Library
  BY <1>1, ConstructorsAre DEF SetterInv
<1>3. phase = "start" /\ current \notin waiting /\ current # NULL /\ current \notin Registrars
  BY <1>2, ConstructorsAre DEF PhaseInv
<1>4. LeftInv' /\ OwnerInv' /\ FailureInv'
  BY <1>1, <1>3, NamesKept, ConstructorsAre
<1>5. setting'[Loader] = NULL /\ \A m \in MainThreads : setting'[m] = setting[m]
  BY <1>1, ConstructorsAre DEF StartTypeOK
<1>6. StartTypeOK'
  <2>1. setting' \in [MainThreads \cup {Loader} -> {Library, Program, NULL} \cup MainThreads]
    BY <1>1 DEF StartTypeOK
  <2>2. left = << >>
    BY <1>3 DEF LeftInv
  <2> QED
    BY <1>1, <1>5, <2>1, <2>2 DEF StartTypeOK
<1>7. SetterInv'
  BY <1>1, <1>2, <1>3, <1>5, ConstructorsAre DEF SetterInv
<1>8. PhaseInv' /\ AbortsForAReason'
  BY <1>1, <1>3 DEF PhaseInv, AbortsForAReason
<1> QED
  BY <1>1, <1>4, <1>6, <1>7, <1>8

\* What nobody changes in main() but the threads that set a keystore.
LEMMA MainKept ==
  ASSUME StartInv, phase = "main",
         UNCHANGED <<built, phase, waiting, left, current, failures, owner>>
  PROVE  LeftInv' /\ OwnerInv' /\ FailureInv' /\ PhaseInv' /\ AbortsForAReason'
<1>1. current \notin Registrars
  BY ConstructorsAre DEF StartInv, StartTypeOK
<1>2. LeftInv' /\ OwnerInv' /\ FailureInv'
  BY <1>1, NamesKept
<1> QED
  BY <1>2 DEF StartInv, PhaseInv, AbortsForAReason

\* In main() a thread gets to it only if the build has no backend.
LEMMA ThreadAssigns ==
  ASSUME StartInv, built' = built, NEW t \in MainThreads, AssignDefault(t)
  PROVE  StartInv' /\ ~built /\ keystore' = t /\ owner' = owner
<1> USE DEF StartInv
<1>1. /\ setting[t] = t /\ phase = "main" /\ ~built
      /\ setting' = [setting EXCEPT ![t] = NULL] /\ keystore' = t /\ t # Loader
      /\ UNCHANGED <<phase, waiting, left, current, failures, owner>>
  BY ConstructorsAre DEF AssignDefault, SetterInv
<1>2. LeftInv' /\ OwnerInv' /\ FailureInv' /\ PhaseInv' /\ AbortsForAReason'
  BY <1>1, MainKept
<1>3. current = NULL /\ setting[Loader] = NULL /\ waiting = {}
  BY <1>1 DEF StartTypeOK, PhaseInv
<1>4. /\ setting' \in [MainThreads \cup {Loader} -> {Library, Program, NULL} \cup MainThreads]
      /\ setting'[Loader] = NULL
      /\ \A m \in MainThreads : setting'[m] # NULL => setting'[m] = setting[m]
  BY <1>1, <1>3 DEF StartTypeOK
<1>5. StartTypeOK'
  BY <1>1, <1>3, <1>4 DEF StartTypeOK
<1>6. SetterInv'
  BY <1>1, <1>3, <1>4, ConstructorsAre DEF SetterInv
<1> QED
  BY <1>1, <1>2, <1>5, <1>6

\* A call in main() gets past the test only if no keystore is set.
LEMMA ThreadTests ==
  ASSUME StartInv, built' = built, NEW t \in MainThreads, CallSetDefault(t)
  PROVE  /\ StartInv' /\ keystore' = keystore /\ owner' = owner
         /\ keystore # NULL => setting' = setting
<1> USE DEF StartInv
<1>1. /\ phase = "main" /\ t # Loader
      /\ UNCHANGED <<phase, waiting, left, current, failures, owner, keystore>>
      /\ setting' = IF keystore = NULL THEN [setting EXCEPT ![t] = t] ELSE setting
  BY ConstructorsAre DEF CallSetDefault, TestDefault
<1>2. LeftInv' /\ OwnerInv' /\ FailureInv' /\ PhaseInv' /\ AbortsForAReason'
  BY <1>1, MainKept
<1>3. current = NULL /\ setting[Loader] = NULL /\ waiting = {}
  BY <1>1 DEF StartTypeOK, PhaseInv
<1>4. CASE keystore # NULL
  BY <1>1, <1>2, <1>4 DEF StartTypeOK, SetterInv
<1>5. CASE keystore = NULL
  <2>1. ~built
    BY <1>1, <1>3, <1>5, ConstructorsAre DEF SetterInv
  <2>2. /\ setting' \in [MainThreads \cup {Loader} -> {Library, Program, NULL} \cup MainThreads]
        /\ setting'[Loader] = NULL
        /\ \A m \in MainThreads : setting'[m] = setting[m] \/ setting'[m] = m
    BY <1>1, <1>3, <1>5 DEF StartTypeOK
  <2>3. StartTypeOK'
    BY <1>1, <1>3, <2>2 DEF StartTypeOK
  <2>4. SetterInv'
    BY <1>1, <1>3, <2>1, <2>2, ConstructorsAre DEF SetterInv
  <2> QED
    BY <1>1, <1>2, <1>5, <2>3, <2>4
<1> QED
  BY <1>4, <1>5

\* The keystore's constructor tests, and goes on or stops the process.
LEMMA KeystoreStep == ASSUME StartInv, built' = built, BeginKeystore PROVE StartInv'
<1> USE DEF StartInv
<1>1. /\ phase = "start" /\ current = NULL /\ "keystore" \in waiting
      /\ waiting' = waiting \ {"keystore"}
      /\ UNCHANGED <<left, failures, owner, keystore>>
  BY DEF BeginKeystore, Run
<1>2. setting[Loader] = NULL /\ left = << >> /\ keystore # Library
  BY <1>1, ConstructorsAre DEF SetterInv, StartTypeOK
<1>3. /\ \/ /\ keystore = NULL /\ setting' = [setting EXCEPT ![Loader] = Library]
            /\ current' = "keystore" /\ phase' = "start"
         \/ /\ keystore # NULL /\ setting' = setting /\ current' = NULL /\ phase' = "aborted"
  BY <1>1 DEF BeginKeystore, TestDefault
<1>4. LeftInv' /\ OwnerInv' /\ FailureInv'
  BY <1>1, <1>3, NamesKept, ConstructorsAre
<1>5. CASE keystore = NULL
  <2>1. /\ setting' \in [MainThreads \cup {Loader} -> {Library, Program, NULL} \cup MainThreads]
        /\ setting'[Loader] = Library /\ \A m \in MainThreads : setting'[m] = setting[m]
    BY <1>3, <1>5, ConstructorsAre DEF StartTypeOK
  <2>2. StartTypeOK'
    BY <1>1, <1>3, <1>5, <2>1, ConstructorsAre DEF StartTypeOK, Constructors
  <2>3. SetterInv'
    BY <1>1, <1>3, <1>5, <2>1, ConstructorsAre DEF SetterInv
  <2> QED
    BY <1>1, <1>3, <1>4, <1>5, <2>2, <2>3 DEF PhaseInv, AbortsForAReason
<1>6. CASE keystore # NULL
  <2>1. StartTypeOK'
    BY <1>1, <1>2, <1>3, <1>6 DEF StartTypeOK
  <2>2. SetterInv'
    <3>1. \A m \in MainThreads : setting[m] = NULL
      BY <1>1 DEF SetterInv
    <3> QED
      BY <1>1, <1>2, <1>3, <1>6, <3>1, ConstructorsAre DEF SetterInv
  <2>3. keystore = Program
    BY <1>1, <1>2, <1>6 DEF SetterInv
  <2> QED
    BY <1>1, <1>3, <1>4, <1>6, <2>1, <2>2, <2>3 DEF PhaseInv, AbortsForAReason
<1> QED
  BY <1>5, <1>6

LEMMA NoDictionaryStep == ASSUME StartInv, built' = built, NoDictionary PROVE StartInv'
<1> USE DEF StartInv
<1>1. /\ phase = "start" /\ current = NULL /\ "keystore" \in waiting
      /\ waiting' = waiting \ {"keystore"} /\ phase' = "aborted"
      /\ UNCHANGED <<left, current, failures, owner, keystore, setting>>
  BY DEF NoDictionary, Run
<1>2. setting[Loader] = NULL /\ keystore \in {Program, NULL} /\ built
  BY <1>1, ConstructorsAre DEF SetterInv, StartTypeOK
<1>3. LeftInv' /\ OwnerInv' /\ FailureInv'
  BY <1>1, NamesKept, ConstructorsAre
<1>4. StartTypeOK'
  BY <1>1 DEF StartTypeOK
<1>5. SetterInv'
  BY <1>1, <1>2, ConstructorsAre DEF SetterInv
<1>6. AbortsForAReason' /\ PhaseInv'
  BY <1>1, <1>2 DEF AbortsForAReason, PhaseInv, StartTypeOK
<1> QED
  BY <1>3, <1>4, <1>5, <1>6

\* The program takes names that are free, and may go on to set a keystore.
LEMMA ProgramStep ==
  ASSUME StartInv, built' = built, ProgramBegins
  PROVE  /\ StartInv' /\ keystore' = keystore
         /\ \A n \in Names : owner[n] # NULL => owner'[n] = owner[n]
<1> USE DEF StartInv
<1>1. /\ phase = "start" /\ current = NULL /\ "program" \in waiting
      /\ waiting' = waiting \ {"program"}
      /\ UNCHANGED <<phase, left, failures, keystore>>
  BY DEF ProgramBegins, Run
<1>2. setting[Loader] = NULL /\ left = << >>
  BY <1>1, ConstructorsAre DEF SetterInv, StartTypeOK
<1>3. PICK mine \in SUBSET Clashes :
        owner' = [n \in Names |-> IF n \in mine /\ owner[n] = NULL THEN Program ELSE owner[n]]
  BY DEF ProgramBegins
<1>4. /\ owner' \in [Names -> {Library, Program, NULL}]
      /\ \A n \in Names : owner[n] # NULL => owner'[n] = owner[n]
      /\ \A n \in Names : owner[n] = NULL => owner'[n] \in {NULL, Program}
  BY <1>3 DEF StartTypeOK
<1>5. \/ setting' = setting
      \/ keystore = NULL /\ setting' = [setting EXCEPT ![Loader] = Program]
  BY DEF ProgramBegins, TestDefault
<1>6. /\ setting' \in [MainThreads \cup {Loader} -> {Library, Program, NULL} \cup MainThreads]
      /\ \A m \in MainThreads : setting'[m] = setting[m]
      /\ \/ setting'[Loader] = NULL
         \/ setting'[Loader] = Program /\ keystore = NULL
  BY <1>2, <1>5, ConstructorsAre DEF StartTypeOK
<1>7. current' = IF setting'[Loader] = NULL THEN NULL ELSE "program"
  BY DEF ProgramBegins
<1>8. StartTypeOK'
  BY <1>1, <1>2, <1>4, <1>6, <1>7, ConstructorsAre DEF StartTypeOK
<1>9. SetterInv'
  BY <1>1, <1>6, <1>7, ConstructorsAre DEF SetterInv
<1>10. LeftInv'
  BY <1>1, <1>2, <1>7, ConstructorsAre DEF LeftInv
<1>11. FailureInv' /\ PhaseInv' /\ AbortsForAReason'
  BY <1>1, <1>7, ConstructorsAre DEF FailureInv, PhaseInv, AbortsForAReason
<1>12. OwnerInv'
  <2> SUFFICES ASSUME NEW d \in Registrars, NEW n \in Elements(Offers(d))
               PROVE  IF d \in waiting' \/ n \in Elements(left')
                      THEN owner'[n] # Library
                      ELSE /\ owner'[n] # NULL
                           /\ \/ owner'[n] = Library
                              \/ d = "hash"
                              \/ current' = d /\ failures' > 0
                              \/ phase' = "aborted"
    BY DEF OwnerInv
  <2>1. n \in Names /\ n \notin Elements(left) /\ (d \in waiting' <=> d \in waiting)
    BY <1>1, <1>2, NamesAre, ConstructorsAre DEF Elements
  <2>2. CASE owner[n] = NULL
    BY <1>1, <1>4, <2>1, <2>2, ConstructorsAre DEF OwnerInv
  <2>3. CASE owner[n] # NULL
    <3>1. owner'[n] = owner[n]
      BY <1>4, <2>1, <2>3
    <3>2. current # d
      BY <1>1, ConstructorsAre
    <3> QED
      BY <1>1, <2>1, <3>1, <3>2 DEF OwnerInv
  <2> QED
    BY <2>2, <2>3
<1> QED
  BY <1>1, <1>4, <1>8, <1>9, <1>10, <1>11, <1>12

LEMMA EnterStep == ASSUME StartInv, built' = built, EnterMain PROVE StartInv'
<1> USE DEF StartInv
<1>1. /\ phase = "start" /\ current = NULL /\ waiting = {} /\ phase' = "main"
      /\ UNCHANGED <<waiting, left, current, failures, owner, keystore, setting>>
  BY DEF EnterMain
<1>2. LeftInv' /\ OwnerInv' /\ FailureInv'
  BY <1>1, NamesKept, ConstructorsAre
<1>3. StartTypeOK'
  BY <1>1 DEF StartTypeOK
<1>4. SetterInv'
  BY <1>1 DEF SetterInv
<1> QED
  BY <1>1, <1>2, <1>3, <1>4 DEF PhaseInv, AbortsForAReason

LEMMA StartInductive == StartInv /\ [StartNext]_startVars => StartInv'
<1>1. ASSUME StartInv, UNCHANGED startVars PROVE StartInv'
  BY <1>1 DEF startVars, StartInv, StartTypeOK, LeftInv, OwnerInv, FailureInv, SetterInv, PhaseInv,
     AbortsForAReason
<1>2. ASSUME StartInv, built' = built, LoaderStep PROVE StartInv'
  BY <1>2, BeginsStep, RegisterStep, EndStep, KeystoreStep, NoDictionaryStep, ProgramStep,
     EnterStep DEF LoaderStep
<1> QED
  BY <1>1, <1>2, ThreadTests, LoaderAssigns, ThreadAssigns DEF StartNext

LEMMA StartInvariance == StartSpec => []StartInv
  BY StartInitially, StartInductive, PTL DEF StartSpec

(***************************************************************************)
(* Every variable of the start keeps its type, one constructor runs at a   *)
(* time, and `ret' never counts more than the names of a constructor.      *)
(***************************************************************************)
THEOREM StartTypeCorrect == StartSpec => []StartTypeOK
<1>1. StartInv => StartTypeOK
  BY DEF StartInv
<1> QED
  BY <1>1, StartInvariance, PTL

(***************************************************************************)
(* In whatever order the constructors of the backends run, and whatever    *)
(* the program's own constructor has taken, main() finds every type and    *)
(* the keystore of a build that has one, or the process was aborted for a  *)
(* reason.                                                                 *)
(***************************************************************************)
THEOREM StartFindsEverything == StartSpec => []StartIsRight
<1>1. ASSUME StartInv PROVE StartIsRight
  <2>1. ASSUME phase = "main", built PROVE keystore = Library
    BY <1>1, <2>1, ConstructorsAre DEF StartInv, PhaseInv, SetterInv
  <2>2. ASSUME phase = "main", NEW c \in Registrars, NEW i \in DOMAIN Offers(c)
        PROVE  owner[Offers(c)[i]] \in {Library} \cup (IF c = "hash" THEN {Program} ELSE {})
    <3> DEFINE n == Offers(c)[i]
    <3>1. n \in Elements(Offers(c)) /\ n \in Names
      BY NamesAre DEF Elements
    <3>2. waiting = {} /\ left = << >> /\ current = NULL
      BY <1>1, <2>2, ConstructorsAre DEF StartInv, PhaseInv, LeftInv
    <3>3. n \notin Elements(left) /\ c \notin waiting /\ current # c
      BY <3>2, ConstructorsAre DEF Elements
    <3>4. owner[n] # NULL /\ (owner[n] = Library \/ c = "hash")
      BY <1>1, <2>2, <3>1, <3>3 DEF StartInv, OwnerInv
    <3>5. owner[n] \in {Library, Program}
      BY <1>1, <3>1, <3>4 DEF StartInv, StartTypeOK
    <3> QED
      BY <3>4, <3>5
  <2> QED
    BY <1>1, <2>1, <2>2 DEF StartIsRight, MainFindsEverything, StartInv
<1> QED
  BY <1>1, StartInvariance, PTL

(***************************************************************************)
(* The types that the constructors have registered are never replaced, nor *)
(* is the keystore that cfe_keystore_set_default() has set where the build *)
(* has a backend, though its test and its assignment are apart and take no *)
(* lock; elsewhere a keystore is replaced only by threads that were        *)
(* between the two when it was set.                                        *)
(***************************************************************************)
THEOREM ReplacementsAreRaces == StartSpec => ReplacedOnlyInARace
<1> DEFINE Stays ==
      /\ keystore # NULL =>
           /\ Between' \subseteq Between
           /\ keystore' # keystore => ~built /\ keystore' \in Between \ {Loader}
      /\ \A n \in Names : owner[n] # NULL => owner'[n] = owner[n]
<1>1. ASSUME StartInv, built' = built, LoaderStep PROVE Stays
  <2>1. CASE \E c \in Constructors : Begin(c)
    BY <2>1 DEF Begin, Between
  <2>2. CASE Register
    <3>1. owner \in [Names -> {Library, Program, NULL}] /\ UNCHANGED <<keystore, setting>>
      BY <1>1, <2>2 DEF StartInv, StartTypeOK, Register
    <3>2. \/ owner[Head(left)] = NULL /\ owner' = [owner EXCEPT ![Head(left)] = Library]
          \/ owner[Head(left)] # NULL /\ owner' = owner
      BY <2>2 DEF Register
    <3> QED
      BY <3>1, <3>2 DEF Between
  <2>3. CASE End \/ NoDictionary \/ EnterMain
    BY <2>3 DEF End, NoDictionary, EnterMain, Between
  <2>4. CASE BeginKeystore
    BY <2>4 DEF BeginKeystore, TestDefault, Between
  <2>5. CASE ProgramBegins
    <3>1. keystore # NULL => setting' = setting
      BY <2>5 DEF ProgramBegins, TestDefault
    <3> QED
      BY <1>1, <2>5, <3>1, ProgramStep DEF Between
  <2> QED
    BY <1>1, <2>1, <2>2, <2>3, <2>4, <2>5 DEF LoaderStep
<1>2. ASSUME StartInv, built' = built, AssignDefault(Loader) PROVE Stays
  BY <1>2, LoaderAssigns
<1>3. ASSUME StartInv, built' = built, NEW t \in MainThreads, AssignDefault(t) PROVE Stays
  <2>1. ~built /\ keystore' = t /\ owner' = owner /\ t # Loader
    BY <1>3, ThreadAssigns, ConstructorsAre
  <2>2. t \in Between /\ Between' \subseteq Between
    BY <1>3 DEF StartInv, StartTypeOK, AssignDefault, Between
  <2> QED
    BY <2>1, <2>2
<1>4. ASSUME StartInv, built' = built, NEW t \in MainThreads, CallSetDefault(t) PROVE Stays
  BY <1>4, ThreadTests DEF Between
<1>5. StartInv /\ [StartNext]_startVars => [Stays]_startVars
  BY <1>1, <1>2, <1>3, <1>4 DEF StartNext
<1> QED
  BY <1>5, StartInvariance, PTL DEF StartSpec, ReplacedOnlyInARace
=============================================================================
