--------------------------- MODULE KeystoreDarwin ---------------------------
(***************************************************************************)
(* keystore-darwin.c: keys in a CFMutableDictionary under a rwlock.  The   *)
(* payload is a CFData with a retain count; a reader retains it under the  *)
(* read lock and copies it out after the lock is gone, while a writer may  *)
(* replace or remove the key.  CoreFoundation and the rwlock are external. *)
(***************************************************************************)
EXTENDS Integers, FiniteSets

CONSTANTS
  Threads,
  Descs,      \* key descriptions
  Payloads,   \* key payloads
  Length,     \* the length of a payload
  Buffers,    \* the buffer lengths callers pass to read_key
  Datas,      \* the CFData objects there is memory for
  NoData,     \* the NULL CFDataRef
  NoThread,
  Absent,     \* no key of that description
  None        \* no payload argument

ASSUME KeystoreDarwinAssumption ==
  /\ IsFiniteSet(Threads) /\ IsFiniteSet(Descs) /\ Descs # {}
  /\ NoData \notin Datas
  /\ NoThread \notin Threads
  /\ Length \in [Payloads -> Nat \ {0}]
  /\ Buffers \subseteq Nat
  /\ Absent \notin Payloads
  /\ None \notin Payloads \cup {Absent}

VARIABLES
  store,     \* the dictionary: the CFData of each description
  retain,    \* retain count of each CFData, 0 when it is freed
  bytes,     \* the contents of each CFData, lost when it is freed
  writer,    \* store_lock, held for writing by ...
  readers,   \* ... and for reading by
  pc,
  desc,      \* argument: the description
  payload,   \* argument of add_key
  len,       \* argument *len of read_key, and its result
  data,      \* local variable _data
  out,       \* what read_key has copied out
  crashed    \* the process died

Labels == {"idle",
           "add_data", "add_lock", "add_remove", "add_value", "add_unlock", "add_release",
           "remove_lock", "remove_value", "remove_unlock",
           "remove_lock_null", "remove_null", "remove_unlock_null", "remove_release_null",
           "read_lock", "read_get", "read_retain", "read_unlock", "read_copy",
           "read_release"}

lockVars == <<writer, readers>>
dictVars == <<store, retain, bytes>>
vars == <<store, retain, bytes, writer, readers, pc, desc, payload, len, data,
          out, crashed>>

Init ==
  /\ store = [d \in Descs |-> NoData]
  /\ retain = [x \in Datas |-> 0]
  /\ bytes = [x \in Datas |-> Absent]
  /\ writer = NoThread
  /\ readers = {}
  /\ pc = [t \in Threads |-> "idle"]
  /\ desc \in [Threads -> {CHOOSE d \in Descs : TRUE}]
  /\ payload = [t \in Threads |-> None]
  /\ len = [t \in Threads |-> 0]
  /\ data = [t \in Threads |-> NoData]
  /\ out = [t \in Threads |-> None]
  /\ crashed = FALSE

Goto(t, from, to) == ~crashed /\ pc[t] = from /\ pc' = [pc EXCEPT ![t] = to]
Set(f, t, v) == [f EXCEPT ![t] = v]

WrLock(t) == writer = NoThread /\ readers = {} /\ writer' = t /\ UNCHANGED readers
WrUnlock(t) == writer' = NoThread /\ UNCHANGED readers
RdLock(t) == writer = NoThread /\ readers' = readers \cup {t} /\ UNCHANGED writer
RdUnlock(t) == readers' = readers \ {t} /\ UNCHANGED writer

\* CFRelease(): the last release frees the contents.
Release(x) ==
  /\ retain' = [retain EXCEPT ![x] = @ - 1]
  /\ bytes' = IF retain[x] = 1 THEN Set(bytes, x, Absent) ELSE bytes

\* CFDictionaryRemoveValue(): the dictionary releases the value it had.
RemoveValue(d) ==
  /\ store' = Set(store, d, NoData)
  /\ IF store[d] = NoData THEN UNCHANGED <<retain, bytes>> ELSE Release(store[d])

-----------------------------------------------------------------------------
\* Any of the three calls with a NULL or empty argument returns at once, the
\* latter two with EINVAL, and does nothing.
CallInvalid(t) ==
  /\ Goto(t, "idle", "idle")
  /\ UNCHANGED <<dictVars, lockVars, desc, payload, len, data, out, crashed>>

(***************************************************************************)
(* ks_darwin_add_key(desc, payload, len)                                   *)
(***************************************************************************)
CallAdd(t, d, p) ==
  /\ Goto(t, "idle", "add_data")
  /\ desc' = Set(desc, t, d)
  /\ payload' = Set(payload, t, p)
  /\ UNCHANGED <<dictVars, lockVars, len, data, out, crashed>>

AddData(t) ==
  /\ Goto(t, "add_data", "add_lock")
  /\ \E x \in Datas :
       /\ retain[x] = 0
       /\ retain' = Set(retain, x, 1)
       /\ bytes' = Set(bytes, x, payload[t])
       /\ data' = Set(data, t, x)
  /\ UNCHANGED <<store, lockVars, desc, payload, len, out, crashed>>

\* CFStringCreateWithCString() or CFDataCreate() returned NULL: ENOMEM.
AddNoMemory(t) ==
  /\ Goto(t, "add_data", "idle")
  /\ payload' = Set(payload, t, None)
  /\ UNCHANGED <<dictVars, lockVars, desc, len, data, out, crashed>>

AddLock(t) ==
  /\ Goto(t, "add_lock", "add_remove")
  /\ WrLock(t)
  /\ UNCHANGED <<dictVars, desc, payload, len, data, out, crashed>>

\* Mutant: the old value is not removed first.
AddRemoveNothing(t) ==
  /\ Goto(t, "add_remove", "add_value")
  /\ UNCHANGED <<dictVars, lockVars, desc, payload, len, data, out, crashed>>

AddRemove(t) ==
  /\ Goto(t, "add_remove", "add_value")
  /\ RemoveValue(desc[t])
  /\ UNCHANGED <<lockVars, desc, payload, len, data, out, crashed>>

\* CFDictionaryAddValue() retains the value, unless the key is there already.
AddValue(t) ==
  /\ Goto(t, "add_value", "add_unlock")
  /\ IF store[desc[t]] = NoData
       THEN /\ store' = Set(store, desc[t], data[t])
            /\ retain' = [retain EXCEPT ![data[t]] = @ + 1]
       ELSE UNCHANGED <<store, retain>>
  /\ UNCHANGED <<bytes, lockVars, desc, payload, len, data, out, crashed>>

AddUnlock(t) ==
  /\ Goto(t, "add_unlock", "add_release")
  /\ WrUnlock(t)
  /\ UNCHANGED <<dictVars, desc, payload, len, data, out, crashed>>

\* The last CFRelease(_data) of add_key, and of read_key, which then return.
ReleaseData(t) ==
  /\ Goto(t, "add_release", "idle") \/ Goto(t, "read_release", "idle")
  /\ Release(data[t])
  /\ data' = Set(data, t, NoData)
  /\ payload' = Set(payload, t, None)
  /\ out' = Set(out, t, None)
  /\ UNCHANGED <<store, lockVars, desc, len, crashed>>

-----------------------------------------------------------------------------
(***************************************************************************)
(* ks_darwin_remove_key(desc)                                              *)
(***************************************************************************)
CallRemove(t, d) ==
  /\ Goto(t, "idle", "remove_lock")
  /\ desc' = Set(desc, t, d)
  /\ UNCHANGED <<dictVars, lockVars, payload, len, data, out, crashed>>

\* CFStringCreateWithCString() returned NULL: a warning is logged and the call
\* goes on with no string.
CallRemoveNoString(t, d) ==
  /\ Goto(t, "idle", "remove_lock_null")
  /\ desc' = Set(desc, t, d)
  /\ UNCHANGED <<dictVars, lockVars, payload, len, data, out, crashed>>

RemoveLock(t) ==
  /\ \/ Goto(t, "remove_lock", "remove_value")
     \/ Goto(t, "remove_lock_null", "remove_null")
  /\ WrLock(t)
  /\ UNCHANGED <<dictVars, desc, payload, len, data, out, crashed>>

Remove(t) ==
  /\ Goto(t, "remove_value", "remove_unlock")
  /\ RemoveValue(desc[t])
  /\ UNCHANGED <<lockVars, desc, payload, len, data, out, crashed>>

\* CFDictionaryRemoveValue(store, NULL): no key is NULL, nothing is removed.
RemoveNull(t) ==
  /\ Goto(t, "remove_null", "remove_unlock_null")
  /\ UNCHANGED <<dictVars, lockVars, desc, payload, len, data, out, crashed>>

RemoveUnlock(t) ==
  /\ \/ Goto(t, "remove_unlock", "idle")
     \/ Goto(t, "remove_unlock_null", "remove_release_null")
  /\ WrUnlock(t)
  /\ UNCHANGED <<dictVars, desc, payload, len, data, out, crashed>>

\* CFRelease(NULL) stops the process.
ReleaseNull(t) ==
  /\ Goto(t, "remove_release_null", "idle")
  /\ crashed' = TRUE
  /\ UNCHANGED <<dictVars, lockVars, desc, payload, len, data, out>>

-----------------------------------------------------------------------------
(***************************************************************************)
(* ks_darwin_read_key(desc, buffer, len)                                   *)
(***************************************************************************)
CallRead(t, d, n) ==
  /\ Goto(t, "idle", "read_lock")
  /\ desc' = Set(desc, t, d)
  /\ len' = Set(len, t, n)
  /\ UNCHANGED <<dictVars, lockVars, payload, data, out, crashed>>

\* CFStringCreateWithCString() returned NULL before the lock is asked for: ENOMEM.
ReadNoMemory(t) ==
  /\ Goto(t, "read_lock", "idle")
  /\ UNCHANGED <<dictVars, lockVars, desc, payload, len, data, out, crashed>>

ReadLock(t) ==
  /\ Goto(t, "read_lock", "read_get")
  /\ RdLock(t)
  /\ UNCHANGED <<dictVars, desc, payload, len, data, out, crashed>>

ReadGet(t) ==
  /\ Goto(t, "read_get", IF store[desc[t]] = NoData THEN "read_unlock" ELSE "read_retain")
  /\ data' = Set(data, t, store[desc[t]])
  /\ UNCHANGED <<dictVars, lockVars, desc, payload, len, out, crashed>>

\* Mutant: the payload is not retained under the lock.
ReadRetainNone(t) ==
  /\ Goto(t, "read_retain", "read_unlock")
  /\ UNCHANGED <<dictVars, lockVars, desc, payload, len, data, out, crashed>>

ReadRetain(t) ==
  /\ Goto(t, "read_retain", "read_unlock")
  /\ retain' = [retain EXCEPT ![data[t]] = @ + 1]
  /\ UNCHANGED <<store, bytes, lockVars, desc, payload, len, data, out, crashed>>

\* ENOENT when there was no value.
ReadUnlock(t) ==
  /\ Goto(t, "read_unlock", IF data[t] = NoData THEN "idle" ELSE "read_copy")
  /\ RdUnlock(t)
  /\ UNCHANGED <<dictVars, desc, payload, len, data, out, crashed>>

\* The bytes as they are now, NULL if they were freed; none without a buffer.
ReadCopy(t) ==
  /\ Goto(t, "read_copy", "read_release")
  /\ bytes[data[t]] # Absent => Length[bytes[data[t]]] <= len[t]
  /\ out' \in {out, Set(out, t, bytes[data[t]])}
  /\ len' = Set(len, t, IF bytes[data[t]] = Absent THEN 0 ELSE Length[bytes[data[t]]])
  /\ UNCHANGED <<dictVars, lockVars, desc, payload, data, crashed>>

\* Mutant: ENOSPC is returned without CFRelease(_data).
ReadNoSpaceLeaks(t) ==
  /\ Goto(t, "read_copy", "idle")
  /\ bytes[data[t]] # Absent /\ Length[bytes[data[t]]] > len[t]
  /\ UNCHANGED <<dictVars, lockVars, desc, payload, len, data, out, crashed>>

\* ENOSPC
ReadNoSpace(t) ==
  /\ Goto(t, "read_copy", "read_release")
  /\ bytes[data[t]] # Absent /\ Length[bytes[data[t]]] > len[t]
  /\ UNCHANGED <<dictVars, lockVars, desc, payload, len, data, out, crashed>>

-----------------------------------------------------------------------------
Call(t, d) ==
  \/ CallInvalid(t) \/ CallRemove(t, d)
  \/ \E p \in Payloads : CallAdd(t, d, p)
  \/ \E n \in Buffers : CallRead(t, d, n)

Step(t) ==
  \/ AddData(t) \/ AddNoMemory(t) \/ AddLock(t) \/ AddRemove(t) \/ AddValue(t)
  \/ AddUnlock(t) \/ ReleaseData(t)
  \/ RemoveLock(t) \/ Remove(t) \/ RemoveUnlock(t)
  \/ ReadNoMemory(t) \/ ReadLock(t) \/ ReadGet(t) \/ ReadRetain(t) \/ ReadUnlock(t)
  \/ ReadCopy(t) \/ ReadNoSpace(t)

\* With memory for the strings of remove_key ...
Next == \E t \in Threads : Step(t) \/ \E d \in Descs : Call(t, d)
Spec == Init /\ [][Next]_vars

\* ... and without.
NextNoMemory ==
  \/ Next
  \/ \E t \in Threads : RemoveNull(t) \/ ReleaseNull(t)
  \/ \E t \in Threads, d \in Descs : CallRemoveNoString(t, d)
SpecNoMemory == Init /\ [][NextNoMemory]_vars

-----------------------------------------------------------------------------
(***************************************************************************)
(* Every variable has a value of its type.                                 *)
(***************************************************************************)
TypeOK ==
  /\ store \in [Descs -> Datas \cup {NoData}]
  /\ retain \in [Datas -> Nat]
  /\ bytes \in [Datas -> Payloads \cup {Absent}]
  /\ writer \in Threads \cup {NoThread}
  /\ readers \subseteq Threads
  /\ pc \in [Threads -> Labels]
  /\ desc \in [Threads -> Descs]
  /\ payload \in [Threads -> Payloads \cup {None}]
  /\ len \in [Threads -> Nat]
  /\ data \in [Threads -> Datas \cup {NoData}]
  /\ out \in [Threads -> Payloads \cup {Absent, None}]
  /\ crashed \in BOOLEAN

\* The threads that own a retain of their _data.
Owns(t) == pc[t] \in {"add_lock", "add_remove", "add_value", "add_unlock",
                      "add_release", "read_unlock", "read_copy", "read_release"} /\ data[t] # NoData

(***************************************************************************)
(* The retain count of every CFData is one for each key that has it and    *)
(* one for each running call that owns one: nothing leaks, nothing is      *)
(* released twice, whichever calls race.                                   *)
(***************************************************************************)
RetainsBalanced ==
  \A x \in Datas :
    retain[x] = Cardinality({d \in Descs : store[d] = x})
              + Cardinality({t \in Threads : Owns(t) /\ data[t] = x})

(***************************************************************************)
(* read_key() never copies a payload that a concurrent add_key() or        *)
(* remove_key() has freed.                                                 *)
(***************************************************************************)
NeverReadsFreed == \A t \in Threads : out[t] # Absent

(***************************************************************************)
(* The map a caller sees: while a writer is between the removal and the    *)
(* insertion of add_key(), the key already has its new payload.            *)
(***************************************************************************)
Keys == [d \in Descs |->
          IF \E t \in Threads : pc[t] = "add_value" /\ desc[t] = d
            THEN payload[CHOOSE t \in Threads : pc[t] = "add_value" /\ desc[t] = d]
          ELSE IF store[d] = NoData THEN Absent ELSE bytes[store[d]]]

NoCall == [op |-> "none", desc |-> None, payload |-> None, done |-> FALSE, answer |-> None]

\* The calls as a caller sees them: an add has taken effect once it has
\* removed the old value, a read once it has looked its key up.
Calls == [t \in Threads |->
  LET adds == pc[t] \in {"add_data", "add_lock", "add_remove", "add_value",
                         "add_unlock", "add_release"}
      reads == pc[t] \in {"read_lock", "read_get", "read_retain", "read_unlock",
                          "read_copy", "read_release"}
      done == pc[t] \notin {"add_data", "add_lock", "add_remove", "remove_lock",
                            "remove_value", "read_lock", "read_get"}
  IN IF pc[t] = "idle" THEN NoCall
     ELSE [op |-> IF adds THEN "add" ELSE IF reads THEN "read" ELSE "remove",
           desc |-> desc[t],
           payload |-> IF adds THEN payload[t] ELSE None,
           done |-> done,
           answer |-> IF ~(reads /\ done) THEN None
                      ELSE IF data[t] = NoData THEN Absent ELSE bytes[data[t]]]]

Abs == INSTANCE KeystoreAbs WITH keys <- Keys, call <- Calls

(***************************************************************************)
(* Every call takes effect in one step, once: no reader sees the gap that  *)
(* add_key() leaves between removing the old value and adding the new one, *)
(* the new one is added always, and the payload that read_key() copies     *)
(* after it has unlocked is the one it found.                              *)
(***************************************************************************)
ImplementsMap == Abs!Spec

(***************************************************************************)
(* "Key '%s' will NOT be deleted": a remove_key() that could not make its  *)
(* string returns without deleting the key.                                *)
(***************************************************************************)
RemoveNeverCrashes == ~crashed
=============================================================================
