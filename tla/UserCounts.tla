----------------------------- MODULE UserCounts ------------------------------
(***************************************************************************)
(* How a registry of libcfe counts references, without regard to whose it  *)
(* is: S are the owners, T the types, u what each owner uses, r the        *)
(* counters, l the list.  Five moves change them (a type is put on the     *)
(* list or taken off, an owner takes, hands over or drops a type), and     *)
(* none of them upsets the balance.                                        *)
(***************************************************************************)
EXTENDS Integers, FiniteSets, FiniteSetTheorems, TLAPS

UserSet(S, u, ty) == {o \in S : u[o] = ty}

\* The counter of a type is the list's reference and one for each user.
Balanced(S, T, u, r, l) ==
  \A ty \in T : \/ r[ty] = 0 /\ ty \notin l /\ UserSet(S, u, ty) = {}
                \/ r[ty] = 1 + Cardinality(UserSet(S, u, ty))

\* What somebody uses is on the list.
UsedAreListed(S, T, u, l) == \A o \in S : u[o] \in T => u[o] \in l

Kept(S, T, u, r, l) == Balanced(S, T, u, r, l) /\ UsedAreListed(S, T, u, l)

-----------------------------------------------------------------------------
\* The owners of S, with what one or two of them use assigned.
LEMMA OneBecomes ==
  ASSUME NEW S, NEW u, u = [o \in S |-> u[o]], NEW v, v = [o \in S |-> v[o]],
         NEW x \in S, \A p \in S \ {x} : v[p] = u[p]
  PROVE  v = [u EXCEPT ![x] = v[x]]
  OBVIOUS

LEMMA TwoBecome ==
  ASSUME NEW S, NEW u, u = [o \in S |-> u[o]], NEW v, v = [o \in S |-> v[o]],
         NEW x \in S, NEW y \in S, x # y, \A p \in S \ {x, y} : v[p] = u[p]
  PROVE  v = [u EXCEPT ![x] = v[x], ![y] = v[y]]
<1>1. PICK w : w = [u EXCEPT ![x] = v[x]]
  OBVIOUS
<1>2. w = [o \in S |-> w[o]] /\ w[x] = v[x] /\ \A p \in S \ {x} : w[p] = u[p]
  BY <1>1
<1>3. \A p \in S \ {y} : v[p] = w[p]
  BY <1>2
<1>4. v = [w EXCEPT ![y] = v[y]]
  BY <1>2, <1>3, OneBecomes
<1> QED
  BY <1>1, <1>4

\* The users of a type can be counted.
LEMMA UsersCounted ==
  ASSUME NEW S, IsFiniteSet(S), NEW u, NEW ty
  PROVE  /\ IsFiniteSet(UserSet(S, u, ty))
         /\ Cardinality(UserSet(S, u, ty)) \in Nat
         /\ Cardinality(UserSet(S, u, ty)) = 0 <=> UserSet(S, u, ty) = {}
<1>1. UserSet(S, u, ty) \subseteq S
  BY DEF UserSet
<1>2. IsFiniteSet(UserSet(S, u, ty))
  BY <1>1, FS_Subset
<1> QED
  BY <1>2, FS_CardinalityType, FS_EmptySet

\* A new user, or one less.
LEMMA OneMore ==
  ASSUME NEW S, IsFiniteSet(S), NEW u, NEW v, NEW ty, NEW o \in S,
         u[o] # ty, v[o] = ty, \A p \in S \ {o} : v[p] = ty <=> u[p] = ty
  PROVE  Cardinality(UserSet(S, v, ty)) = Cardinality(UserSet(S, u, ty)) + 1
<1>1. UserSet(S, v, ty) = UserSet(S, u, ty) \cup {o} /\ o \notin UserSet(S, u, ty)
  BY DEF UserSet
<1>2. IsFiniteSet(UserSet(S, u, ty))
  BY UsersCounted
<1> QED
  BY <1>1, <1>2, FS_AddElement

LEMMA SameUsers ==
  ASSUME NEW S, NEW u, NEW v, NEW ty, \A p \in S : v[p] = ty <=> u[p] = ty
  PROVE  UserSet(S, v, ty) = UserSet(S, u, ty)
  BY DEF UserSet

\* A user leaves its type to another one.
LEMMA SameNumber ==
  ASSUME NEW S, IsFiniteSet(S), NEW u, NEW v, NEW ty, NEW o \in S, NEW p \in S,
         u[o] = ty, u[p] # ty, v[o] # ty, v[p] = ty,
         \A q \in S \ {o, p} : v[q] = u[q]
  PROVE  Cardinality(UserSet(S, v, ty)) = Cardinality(UserSet(S, u, ty))
<1>1. UserSet(S, v, ty) = (UserSet(S, u, ty) \ {o}) \cup {p}
  BY DEF UserSet
<1>2. IsFiniteSet(UserSet(S, u, ty)) /\ o \in UserSet(S, u, ty) /\ p \notin UserSet(S, u, ty)
  BY UsersCounted DEF UserSet
<1>3. /\ IsFiniteSet(UserSet(S, u, ty) \ {o})
      /\ Cardinality(UserSet(S, u, ty) \ {o}) = Cardinality(UserSet(S, u, ty)) - 1
  BY <1>2, FS_RemoveElement
<1>4. Cardinality((UserSet(S, u, ty) \ {o}) \cup {p}) = Cardinality(UserSet(S, u, ty) \ {o}) + 1
  BY <1>2, <1>3, FS_AddElement
<1>5. Cardinality(UserSet(S, u, ty)) \in Nat
  BY UsersCounted
<1> QED
  BY <1>1, <1>3, <1>4, <1>5

-----------------------------------------------------------------------------
(***************************************************************************)
(* The five moves, and one that is about other types.                      *)
(***************************************************************************)
LEMMA NothingMoves ==
  ASSUME NEW S, NEW T, NEW u, NEW r, NEW l, Kept(S, T, u, r, l), NEW v, NEW q, NEW m,
         \A o \in S : v[o] = u[o] \/ (v[o] \notin T /\ u[o] \notin T),
         \A ty \in T : q[ty] = r[ty] /\ (ty \in m <=> ty \in l)
  PROVE  Kept(S, T, v, q, m)
<1>1. \A ty \in T : UserSet(S, v, ty) = UserSet(S, u, ty)
  BY SameUsers
<1> QED
  BY <1>1 DEF Kept, Balanced, UsedAreListed

LEMMA Enlisting ==
  ASSUME NEW S, NEW T, NEW u, NEW r, NEW l, Kept(S, T, u, r, l),
         NEW x \in T, x \notin l, NEW q, NEW m,
         \A ty \in T : q[ty] = IF ty = x THEN 1 ELSE r[ty],
         \A ty \in T : ty \in m <=> ty \in l \/ ty = x
  PROVE  Kept(S, T, u, q, m)
<1>1. UserSet(S, u, x) = {}
  BY DEF Kept, UsedAreListed, UserSet
<1>2. q[x] = 1 + Cardinality(UserSet(S, u, x))
  BY <1>1, FS_EmptySet
<1> QED
  BY <1>2 DEF Kept, Balanced, UsedAreListed

\* The test of unregister() tells whether anybody uses the type.
LEMMA OneIsUnused ==
  ASSUME NEW S, IsFiniteSet(S), NEW T, NEW u, NEW r, NEW l, Kept(S, T, u, r, l),
         NEW x \in T, r[x] = 1
  PROVE  \A o \in S : u[o] # x
<1>1. Cardinality(UserSet(S, u, x)) = 0
  BY UsersCounted DEF Kept, Balanced
<1>2. UserSet(S, u, x) = {}
  BY <1>1, UsersCounted
<1> QED
  BY <1>2 DEF UserSet

LEMMA Delisting ==
  ASSUME NEW S, IsFiniteSet(S), NEW T, NEW u, NEW r, NEW l, Kept(S, T, u, r, l),
         NEW x \in T, r[x] = 1, NEW m,
         \A ty \in T : ty \in m <=> ty \in l /\ ty # x
  PROVE  Kept(S, T, u, r, m)
<1>1. \A o \in S : u[o] # x
  BY OneIsUnused
<1> QED
  BY <1>1 DEF Kept, Balanced, UsedAreListed

LEMMA Taking ==
  ASSUME NEW S, IsFiniteSet(S), NEW T, NEW u, NEW r, NEW l, Kept(S, T, u, r, l),
         NEW o \in S, u[o] \notin T, NEW x \in T, x \in l, NEW v, NEW q,
         v[o] = x, \A p \in S \ {o} : v[p] = u[p],
         \A ty \in T : q[ty] = IF ty = x THEN r[ty] + 1 ELSE r[ty]
  PROVE  Kept(S, T, v, q, l)
<1>1. Cardinality(UserSet(S, v, x)) = Cardinality(UserSet(S, u, x)) + 1
  BY OneMore
<1>2. \A ty \in T \ {x} : UserSet(S, v, ty) = UserSet(S, u, ty)
  BY DEF UserSet
<1>3. r[x] = 1 + Cardinality(UserSet(S, u, x)) /\ Cardinality(UserSet(S, u, x)) \in Nat
  BY UsersCounted DEF Kept, Balanced
<1>4. Balanced(S, T, v, q, l)
  BY <1>1, <1>2, <1>3 DEF Kept, Balanced
<1>5. UsedAreListed(S, T, v, l)
  BY DEF Kept, UsedAreListed
<1> QED
  BY <1>4, <1>5 DEF Kept

LEMMA Handing ==
  ASSUME NEW S, IsFiniteSet(S), NEW T, NEW u, NEW r, NEW l, Kept(S, T, u, r, l),
         NEW o \in S, NEW p \in S, u[o] \in T, u[p] \notin T, NEW v,
         v[p] = u[o], v[o] \notin T, \A q \in S \ {o, p} : v[q] = u[q]
  PROVE  Kept(S, T, v, r, l)
<1>1. Cardinality(UserSet(S, v, u[o])) = Cardinality(UserSet(S, u, u[o]))
  BY SameNumber
<1>2. \A ty \in T \ {u[o]} : UserSet(S, v, ty) = UserSet(S, u, ty)
  BY DEF UserSet
<1>3. u[o] \in l
  BY DEF Kept, UsedAreListed
<1>4. r[u[o]] = 1 + Cardinality(UserSet(S, u, u[o]))
  BY <1>3 DEF Kept, Balanced
<1>5. Balanced(S, T, v, r, l)
  BY <1>1, <1>2, <1>4 DEF Kept, Balanced
<1>6. UsedAreListed(S, T, v, l)
  BY <1>3 DEF Kept, UsedAreListed
<1> QED
  BY <1>5, <1>6 DEF Kept

LEMMA Dropping ==
  ASSUME NEW S, IsFiniteSet(S), NEW T, NEW u, NEW r, NEW l, Kept(S, T, u, r, l),
         NEW o \in S, u[o] \in T, NEW v, NEW q,
         v[o] \notin T, \A p \in S \ {o} : v[p] = u[p],
         \A ty \in T : q[ty] = IF ty = u[o] THEN r[ty] - 1 ELSE r[ty]
  PROVE  Kept(S, T, v, q, l)
<1>1. Cardinality(UserSet(S, u, u[o])) = Cardinality(UserSet(S, v, u[o])) + 1
  BY OneMore
<1>2. \A ty \in T \ {u[o]} : UserSet(S, v, ty) = UserSet(S, u, ty)
  BY DEF UserSet
<1>3. /\ r[u[o]] = 1 + Cardinality(UserSet(S, u, u[o]))
      /\ Cardinality(UserSet(S, v, u[o])) \in Nat
  BY UsersCounted DEF Kept, Balanced, UsedAreListed
<1>4. Balanced(S, T, v, q, l)
  BY <1>1, <1>2, <1>3 DEF Kept, Balanced
<1>5. UsedAreListed(S, T, v, l)
  BY DEF Kept, UsedAreListed
<1> QED
  BY <1>4, <1>5 DEF Kept
=============================================================================
