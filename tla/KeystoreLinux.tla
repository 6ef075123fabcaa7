---------------------------- MODULE KeystoreLinux ----------------------------
(***************************************************************************)
(* keystore-linux.c: keys in the user keyring of the kernel.  Each system  *)
(* call is atomic, but reading and removing take two of them, one to find  *)
(* the serial number of a description and one to use it, and the key may   *)
(* be invalidated, added again or updated in between.  There is no lock.   *)
(***************************************************************************)
EXTENDS Integers

CONSTANTS
  Threads,
  Descs,      \* key descriptions
  Payloads,   \* key payloads
  Length,     \* the length of a payload
  Buffers,    \* the buffer lengths callers pass to read_key
  Serials,    \* the serial numbers the kernel gives to keys
  NoKey,      \* -1 as a key_serial_t
  Absent,     \* no key of that description
  None        \* no answer yet

\* What the kernel and the callers promise.
KeystoreLinuxAssumption ==
  /\ Descs # {}
  /\ NoKey \notin Serials
  /\ Length \in [Payloads -> Nat]
  /\ Buffers \subseteq Nat
  /\ Absent \notin Payloads
  /\ None \notin Payloads \cup {Absent}

VARIABLES
  ring,      \* the serial number linked under each description
  contents,  \* the payload of every serial number, Absent when it has none
  pc,
  desc,      \* argument `desc'
  len,       \* argument `*len' of read_key, and its result
  key,       \* local variable `key'
  answer,    \* what the thread's last call said of the description: Absent, or
             \* a payload (its length at least, its bytes if the buffer is long)
  seen       \* what was stored under desc[t] at any time during t's last call

kernel == <<ring, contents>>
vars == <<ring, contents, pc, desc, len, key, answer, seen>>

Keys == [d \in Descs |-> IF ring[d] = NoKey THEN Absent ELSE contents[ring[d]]]

Init ==
  /\ ring = [d \in Descs |-> NoKey]
  /\ contents = [s \in Serials |-> Absent]
  /\ pc = [t \in Threads |-> "idle"]
  /\ desc \in [Threads -> {CHOOSE d \in Descs : TRUE}]
  /\ len = [t \in Threads |-> 0]
  /\ key = [t \in Threads |-> NoKey]
  /\ answer = [t \in Threads |-> None]
  /\ seen = [t \in Threads |-> {}]

Goto(t, from, to) == pc[t] = from /\ pc' = [pc EXCEPT ![t] = to]
Set(f, t, v) == [f EXCEPT ![t] = v]

\* Bookkeeping of every step: a running call has seen the keys of its time.
Observe ==
  seen' = [t \in Threads |-> IF pc[t] = "idle" THEN seen[t]
                             ELSE seen[t] \cup {Keys'[desc[t]]}]

Begin(t, label, d) ==
  /\ Goto(t, "idle", label)
  /\ desc' = Set(desc, t, d)
  /\ answer' = Set(answer, t, None)
  /\ seen' = Set(seen, t, {Keys[d]})

Answer(t, v) ==
  /\ pc' = [pc EXCEPT ![t] = "idle"]
  /\ answer' = Set(answer, t, v)
  /\ Observe

-----------------------------------------------------------------------------
(***************************************************************************)
(* ks_linux_add_key(desc, payload, len): add_key(2) updates the key of     *)
(* that description in place, makes one, or fails and changes nothing.     *)
(***************************************************************************)
\* The kernel numbers a new key as no key that somebody still has in hand.
Fresh(s) ==
  /\ \A d \in Descs : ring[d] # s
  /\ \A t \in Threads : pc[t] # "idle" => key[t] # s

AddKey(t, d, p) ==
  /\ pc[t] = "idle"
  /\ IF ring[d] # NoKey
       THEN contents' = Set(contents, ring[d], p) /\ UNCHANGED ring
       ELSE \E s \in Serials : /\ Fresh(s)
                               /\ ring' = Set(ring, d, s)
                               /\ contents' = Set(contents, s, p)
  /\ Observe
  /\ UNCHANGED <<pc, desc, len, key, answer>>

-----------------------------------------------------------------------------
\* Mutant: the serial number is remembered from one call to the next.
cached_key(t) == IF key[t] # NoKey THEN key[t] ELSE ring[desc[t]]

(***************************************************************************)
(* ks_linux_find_key(): request_key() of the user type.                    *)
(***************************************************************************)
ks_linux_find_key(t) == ring[desc[t]]

Find(t, from, to) ==
  /\ Goto(t, from, to)
  /\ ks_linux_find_key(t) # NoKey
  /\ key' = Set(key, t, ks_linux_find_key(t))
  /\ UNCHANGED <<kernel, desc, len, answer>>
  /\ Observe

FindNothing(t, from) ==
  /\ pc[t] = from
  /\ ks_linux_find_key(t) = NoKey
  /\ key' = Set(key, t, NoKey)
  /\ UNCHANGED <<kernel, desc, len>>
  /\ Answer(t, Absent)

(***************************************************************************)
(* ks_linux_remove_key(desc)                                               *)
(***************************************************************************)
CallRemove(t, d) ==
  /\ Begin(t, "remove_find", d)
  /\ UNCHANGED <<kernel, len, key>>

RemoveFind(t) == Find(t, "remove_find", "invalidate")
RemoveMissing(t) == FindNothing(t, "remove_find")

\* keyctl_invalidate(): the key is gone for every search from now on.
Invalidate(t) ==
  /\ pc[t] = "invalidate"
  /\ contents[key[t]] # Absent
  /\ contents' = Set(contents, key[t], Absent)
  /\ ring' = [d \in Descs |-> IF ring[d] = key[t] THEN NoKey ELSE ring[d]]
  /\ Answer(t, Absent)
  /\ UNCHANGED <<desc, len, key>>

\* It was invalidated before: a notice is logged.
InvalidateFails(t) ==
  /\ pc[t] = "invalidate"
  /\ contents[key[t]] = Absent
  /\ UNCHANGED <<kernel, desc, len, key>>
  /\ Answer(t, Absent)

(***************************************************************************)
(* ks_linux_read_key(desc, buffer, len)                                    *)
(***************************************************************************)
CallRead(t, d, n) ==
  /\ Begin(t, "read_find", d)
  /\ len' = Set(len, t, n)
  /\ UNCHANGED <<kernel, key>>

ReadFind(t) == Find(t, "read_find", "read")
ReadMissing(t) == FindNothing(t, "read_find")

\* keyctl_read() returns the length of the payload, even one that is more than
\* the buffer holds, and that is what *len becomes.
Read(t) ==
  /\ pc[t] = "read"
  /\ contents[key[t]] # Absent
  /\ len' = Set(len, t, Length[contents[key[t]]])
  /\ UNCHANGED <<kernel, desc, key>>
  /\ Answer(t, contents[key[t]])

\* keyctl_read() returned -1.
ReadFails(t) ==
  /\ pc[t] = "read"
  /\ contents[key[t]] = Absent
  /\ UNCHANGED <<kernel, desc, len, key>>
  /\ Answer(t, Absent)

-----------------------------------------------------------------------------
Call(t, d) ==
  \/ CallRemove(t, d)
  \/ \E p \in Payloads : AddKey(t, d, p)
  \/ \E n \in Buffers : CallRead(t, d, n)

Step(t) ==
  \/ RemoveFind(t) \/ RemoveMissing(t) \/ Invalidate(t) \/ InvalidateFails(t)
  \/ ReadFind(t) \/ ReadMissing(t) \/ Read(t) \/ ReadFails(t)

Next == \E t \in Threads : Step(t) \/ \E d \in Descs : Call(t, d)

Spec == Init /\ [][Next]_vars

-----------------------------------------------------------------------------
(***************************************************************************)
(* Every variable has a value of its type.                                 *)
(***************************************************************************)
TypeOK ==
  /\ ring \in [Descs -> Serials \cup {NoKey}]
  /\ contents \in [Serials -> Payloads \cup {Absent}]
  /\ pc \in [Threads -> {"idle", "remove_find", "invalidate", "read_find", "read"}]
  /\ desc \in [Threads -> Descs]
  /\ len \in [Threads -> Nat]
  /\ key \in [Threads -> Serials \cup {NoKey}]
  /\ answer \in [Threads -> Payloads \cup {Absent, None}]
  /\ seen \in [Threads -> SUBSET (Payloads \cup {Absent})]

(***************************************************************************)
(* What a call answers was the case at some moment while it ran: a payload *)
(* that read_key() returns was stored then, a key it does not find, or     *)
(* that remove_key() is done with, was absent then.  The serial number may *)
(* be out of date by the second system call, the answer is not wrong.      *)
(***************************************************************************)
AnswersWereTrue == \A t \in Threads : answer[t] # None => answer[t] \in seen[t]

(***************************************************************************)
(* A key vanishes only while remove_key() runs for its own description:    *)
(* a serial number that is out of date never takes another key along.      *)
(***************************************************************************)
OnlyRequestedKeysVanish ==
  [][\A d \in Descs :
       Keys[d] # Absent /\ Keys'[d] = Absent =>
         \E t \in Threads : pc[t] = "invalidate" /\ desc[t] = d]_vars
=============================================================================
