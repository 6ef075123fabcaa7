------------------------------- MODULE CfeRef --------------------------------
(***************************************************************************)
(* Reference counts: include/cfe/ref.h over include/cfe/atomic.h, for one  *)
(* object that several threads share.  Each atomic operation is one step;  *)
(* the release callback is a step after the decrement that found 0.        *)
(***************************************************************************)
EXTENDS Integers, FiniteSets

CONSTANTS
  Sharers,   \* the threads that share the object
  Refs,      \* Bound: as many references are there at once
  Nobody     \* who owns a reference that is not there

ASSUME CfeRefAssumption ==
  /\ IsFiniteSet(Refs)
  /\ Nobody \notin Sharers

VARIABLES
  count,    \* ref->refcount.counter
  owner,    \* the thread each reference belongs to
  life,     \* the object: "none", "live" after cfe_ref_init(), "freed"
  phase     \* "release" from the decrement to the callback, or "idle"

refVars == <<count, owner, life, phase>>

Owned(t) == {r \in Refs : owner[r] = t}
Held == {r \in Refs : owner[r] # Nobody}

RefInit ==
  /\ count = 0
  /\ owner = [r \in Refs |-> Nobody]
  /\ life = "none"
  /\ phase = [t \in Sharers |-> "idle"]

\* The constructor of the object; its caller has the first reference.
cfe_ref_init(t, r) ==
  /\ life = "none" /\ phase[t] = "idle"
  /\ life' = "live"
  /\ count' = 1
  /\ owner' = [owner EXCEPT ![r] = t]
  /\ UNCHANGED phase

\* A thread that has a reference takes another, for itself or for the thread
\* it passes the object to.
cfe_ref_get(t, r) ==
  /\ phase[t] = "idle" /\ Owned(t) # {} /\ owner[r] = Nobody
  /\ count' = count + 1
  /\ owner' = [owner EXCEPT ![r] = t]
  /\ UNCHANGED <<life, phase>>

\* The object is passed on together with a reference.
Pass(t, u, r) ==
  /\ phase[t] = "idle" /\ owner[r] = t
  /\ owner' = [owner EXCEPT ![r] = u]
  /\ UNCHANGED <<count, life, phase>>

\* Mutant: a comparison that is off by one.
sub_and_test_one(n) == count - n <= 1

\* cfe_atomic_sub_and_test(v, n) tests the new value.
sub_and_test(n) == count - n = 0

\* cfe_ref_sub() of references it has; cfe_ref_put() is that of one.
cfe_ref_sub(t, some) ==
  /\ phase[t] = "idle"
  /\ some \subseteq Owned(t) /\ some # {}
  /\ count' = count - Cardinality(some)
  /\ owner' = [r \in Refs |-> IF r \in some THEN Nobody ELSE owner[r]]
  /\ phase' = [phase EXCEPT ![t] = IF sub_and_test(Cardinality(some)) THEN "release" ELSE "idle"]
  /\ UNCHANGED life

\* release(ref)
Release(t) ==
  /\ phase[t] = "release" /\ phase' = [phase EXCEPT ![t] = "idle"]
  /\ life' = "freed"
  /\ UNCHANGED <<count, owner>>

RefNext ==
  \/ \E t \in Sharers, r \in Refs : cfe_ref_init(t, r) \/ cfe_ref_get(t, r)
  \/ \E t, u \in Sharers, r \in Refs : Pass(t, u, r)
  \/ \E t \in Sharers, some \in SUBSET Refs : cfe_ref_sub(t, some)
  \/ \E t \in Sharers : Release(t)

RefSpec == RefInit /\ [][RefNext]_refVars

-----------------------------------------------------------------------------
(***************************************************************************)
(* Every variable has a value of its type.                                 *)
(***************************************************************************)
RefTypeOK ==
  /\ count \in Nat
  /\ owner \in [Refs -> Sharers \cup {Nobody}]
  /\ life \in {"none", "live", "freed"}
  /\ phase \in [Sharers -> {"idle", "release"}]

(***************************************************************************)
(* The counter is the number of references there are, whoever has taken,   *)
(* passed on and put them, one by one or several at once.                  *)
(***************************************************************************)
CountsHeld == count = Cardinality(Held)

(***************************************************************************)
(* While anybody has a reference the object lives and nobody is about to   *)
(* release it: cfe_ref_sub() calls release() for the last one only.        *)
(***************************************************************************)
HeldIsLive == Held # {} => life = "live" /\ \A t \in Sharers : phase[t] = "idle"

(***************************************************************************)
(* No two threads ever release the object, and none after it was freed.    *)
(***************************************************************************)
ReleasedOnce ==
  /\ \A t, u \in Sharers : phase[t] = "release" /\ phase[u] = "release" => t = u
  /\ \A t \in Sharers : phase[t] = "release" => life = "live"

(***************************************************************************)
(* release() runs once, for the last reference and on a live object: both  *)
(* of the above.                                                           *)
(***************************************************************************)
ReleaseIsLast == HeldIsLive /\ ReleasedOnce
=============================================================================
