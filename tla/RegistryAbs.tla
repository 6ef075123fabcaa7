---------------------------- MODULE RegistryAbs -----------------------------
(***************************************************************************)
(* What a libcfe type registry promises its callers: a set of registered   *)
(* types, no two with one key, and for every owner (an object, or a call   *)
(* that is running) the type it uses.  There are no locks and no counters: *)
(* a type that somebody uses, or that is the default, stays registered.    *)
(***************************************************************************)
EXTENDS Integers

CONSTANTS Owners, Types, KeyOf, NoType, HasDefault

VARIABLES
  listed,   \* the registered types
  users,    \* the type each owner uses
  newest    \* the type a request for the default gets

absVars == <<listed, users, newest>>

Init ==
  /\ listed = {}
  /\ users = [o \in Owners |-> NoType]
  /\ newest = NoType

Register(ty) ==
  /\ \A other \in listed : KeyOf[other] # KeyOf[ty]
  /\ listed' = listed \cup {ty}
  /\ newest' = IF HasDefault /\ \A other \in listed : KeyOf[other] < KeyOf[ty]
                 THEN ty ELSE newest
  /\ UNCHANGED users

Unregister(ty) ==
  /\ ty # newest
  /\ \A o \in Owners : users[o] # ty
  /\ listed' = listed \ {ty}
  /\ UNCHANGED <<users, newest>>

\* Only a registered type can be acquired.
Acquire(o, ty) ==
  /\ users[o] = NoType
  /\ ty \in listed
  /\ users' = [users EXCEPT ![o] = ty]
  /\ UNCHANGED <<listed, newest>>

\* A call leaves its type in the object it made, or takes it out of one.
Hand(o, p) ==
  /\ users[o] # NoType
  /\ users[p] = NoType
  /\ users' = [users EXCEPT ![p] = users[o], ![o] = NoType]
  /\ UNCHANGED <<listed, newest>>

Release(o) ==
  /\ users[o] # NoType
  /\ users' = [users EXCEPT ![o] = NoType]
  /\ UNCHANGED <<listed, newest>>

Next ==
  \/ \E ty \in Types : Register(ty) \/ Unregister(ty)
  \/ \E o \in Owners, ty \in Types : Acquire(o, ty)
  \/ \E o, p \in Owners : Hand(o, p)
  \/ \E o \in Owners : Release(o)

Spec == Init /\ [][Next]_absVars
=============================================================================
