-------------------------- MODULE FileWriterProofs --------------------------
(***************************************************************************)
(* Proofs about FileWriter, for any threads, writers, types and ciphers.   *)
(* A create holds references in two registries at once; each of its steps  *)
(* is a move of UserCounts in one of them and none in the other, or hands  *)
(* the one to the writer and leaves the other, lost, in its name.          *)
(***************************************************************************)
EXTENDS FileWriter, UserCounts

\* What a call holds at each of its steps; a writer stands for a lost cipher.
HeldByCalls ==
  /\ \A t \in Threads :
       /\ type[t] = NoType <=> pc[t] \in {"idle", "put_cipher"}
       /\ pc[t] \in {"idle", "cipher"} => ctype[t] = NoType
       /\ pc[t] \in {"alloc", "put_cipher"} => ctype[t] # NoType
  /\ \A w \in Writers : writer[w] = NoType <=> lost[w] = NoType

CountTypes == Kept(Owners, Types, TypeUsers, refcnt, listed)
CountCiphers == Kept(Owners, Ciphers, CipherUsers, refcnt, listed)

\* The default is a registered type.
DefaultIsListed == default # NoType => default \in listed

IInv ==
  /\ TypeOK /\ HeldByCalls /\ CountTypes /\ CountCiphers
  /\ DefaultIsListed /\ GetsWhatItAsked

\* What every step is shown to do.
Good ==
  /\ IInv'
  /\ [TypeRegistry!Next]_(TypeRegistry!absVars)
  /\ [CipherRegistry!Next]_(CipherRegistry!absVars)

LEMMA OwnersAreFinite == IsFiniteSet(Owners)
  BY FileWriterAssumption, FS_Union DEF Owners

LEMMA UsersAre ==
  /\ \A w \in Writers : /\ w \in Owners /\ w \notin Threads
                        /\ TypeUsers[w] = writer[w] /\ CipherUsers[w] = lost[w]
  /\ \A t \in Threads : /\ t \in Owners /\ t \notin Writers
                        /\ TypeUsers[t] = type[t] /\ CipherUsers[t] = ctype[t]
  BY FileWriterAssumption DEF Owners, TypeUsers, CipherUsers

LEMMA UsersFun ==
  /\ TypeUsers = [o \in Owners |-> TypeUsers[o]]
  /\ CipherUsers = [o \in Owners |-> CipherUsers[o]]
  BY DEF TypeUsers, CipherUsers

LEMMA UsersAreNext ==
  /\ \A w \in Writers : TypeUsers'[w] = writer'[w] /\ CipherUsers'[w] = lost'[w]
  /\ \A t \in Threads : TypeUsers'[t] = type'[t] /\ CipherUsers'[t] = ctype'[t]
  BY FileWriterAssumption DEF Owners, TypeUsers, CipherUsers

LEMMA UsersFunNext ==
  /\ TypeUsers' = [o \in Owners |-> TypeUsers'[o]]
  /\ CipherUsers' = [o \in Owners |-> CipherUsers'[o]]
  BY DEF TypeUsers, CipherUsers

LEMMA Apart ==
  /\ NoType \notin Types /\ NoType \notin Ciphers
  /\ \A ty \in Types : ty \notin Ciphers
  /\ \A ty \in Types : Version[ty] \in Int /\ Version[ty] % UIntMod = Version[ty]
<1>1. \A ty \in Types : Version[ty] \in 0..UIntMod - 1
  BY FileWriterAssumption
<1> QED
  BY <1>1, FileWriterAssumption

\* A registry that a step does not touch.
LEMMA TypesRest ==
  ASSUME CountTypes, UNCHANGED <<type, default, writer>>,
         \A ty \in Types : refcnt'[ty] = refcnt[ty] /\ (ty \in listed' <=> ty \in listed)
  PROVE  CountTypes' /\ UNCHANGED TypeRegistry!absVars
<1>1. TypeUsers' = TypeUsers /\ listed' \cap Types = listed \cap Types
  BY DEF TypeUsers
<1> QED
  BY <1>1, NothingMoves DEF CountTypes, TypeRegistry!absVars

LEMMA CiphersRest ==
  ASSUME CountCiphers, UNCHANGED <<ctype, lost>>,
         \A c \in Ciphers : refcnt'[c] = refcnt[c] /\ (c \in listed' <=> c \in listed)
  PROVE  CountCiphers' /\ UNCHANGED CipherRegistry!absVars
<1>1. CipherUsers' = CipherUsers /\ listed' \cap Ciphers = listed \cap Ciphers
  BY DEF CipherUsers
<1> QED
  BY <1>1, NothingMoves DEF CountCiphers, CipherRegistry!absVars

-----------------------------------------------------------------------------
LEMMA WriterInit == Init => IInv /\ TypeRegistry!Init /\ CipherRegistry!Init
<1> SUFFICES ASSUME Init PROVE IInv /\ TypeRegistry!Init /\ CipherRegistry!Init
  OBVIOUS
<1>1. /\ TypeUsers = [o \in Owners |-> NoType]
      /\ CipherUsers = [o \in Owners |-> NoType]
  BY DEF Init, TypeUsers, CipherUsers, Owners
<1>2. /\ \A ty \in Types : UserSet(Owners, TypeUsers, ty) = {}
      /\ \A ty \in Ciphers : UserSet(Owners, CipherUsers, ty) = {}
  BY <1>1, Apart DEF UserSet
<1>3. CountTypes /\ CountCiphers
  BY <1>1, <1>2, Apart DEF Init, CountTypes, CountCiphers, Kept, Balanced, UsedAreListed
<1>4. TypeOK /\ HeldByCalls /\ DefaultIsListed /\ GetsWhatItAsked
  BY DEF Init, TypeOK, HeldByCalls, DefaultIsListed, GetsWhatItAsked
<1>5. TypeRegistry!Init /\ CipherRegistry!Init
  BY <1>1 DEF Init, TypeRegistry!Init, CipherRegistry!Init
<1> QED
  BY <1>3, <1>4, <1>5 DEF IInv

LEMMA RegisterStep ==
  ASSUME IInv, NEW ty \in Types, cfe_filewriter_register(ty)
  PROVE  Good
<1> USE DEF IInv, cfe_filewriter_register, cfe_filewriter_find, UNCHANGED_calls, created
<1>1. ty \notin listed /\ \A other \in listed \cap Types : Version[other] # Version[ty]
  BY Apart
<1>2. CountCiphers' /\ UNCHANGED CipherRegistry!absVars
  BY CiphersRest, Apart DEF TypeOK
<1>3. \A x \in Types : refcnt'[x] = IF x = ty THEN 1 ELSE refcnt[x]
  BY DEF TypeOK
<1>4. TypeUsers' = TypeUsers
  BY DEF TypeUsers
<1>5. CountTypes'
  <2>1. /\ Kept(Owners, Types, TypeUsers, refcnt, listed)
        /\ \A x \in Types : x \in listed' <=> x \in listed \/ x = ty
    BY DEF CountTypes
  <2> HIDE DEF IInv, cfe_filewriter_register, cfe_filewriter_find, UNCHANGED_calls, created
  <2>2. Kept(Owners, Types, TypeUsers, refcnt', listed')
    BY <1>1, <1>3, <2>1, Enlisting
  <2> QED
    BY <1>4, <2>2 DEF CountTypes
<1>6. default' = IF \A other \in listed \cap Types : Version[other] < Version[ty]
                   THEN ty ELSE default
  BY <1>1, Apart DEF Newest, DefaultIsListed, GetsWhatItAsked, TypeOK
<1>7. TypeRegistry!Register(ty)
  BY <1>1, <1>4, <1>6 DEF TypeRegistry!Register
<1>8. DefaultIsListed' /\ GetsWhatItAsked'
  BY Apart DEF Newest, DefaultIsListed, GetsWhatItAsked, TypeOK
<1>9. TypeOK' /\ HeldByCalls'
  BY DEF TypeOK, HeldByCalls, Newest
<1> QED
  BY <1>2, <1>5, <1>7, <1>8, <1>9 DEF Good, TypeRegistry!Next

LEMMA UnregisterStep ==
  ASSUME IInv, NEW ty \in Types, cfe_filewriter_unregister(ty)
  PROVE  Good
<1> USE DEF IInv, cfe_filewriter_unregister, UNCHANGED_calls, created
<1>1. CountCiphers' /\ UNCHANGED CipherRegistry!absVars
  BY CiphersRest, Apart
<1>2. TypeUsers' = TypeUsers
  BY DEF TypeUsers
<1>3. \A o \in Owners : TypeUsers[o] # ty
  BY OneIsUnused, OwnersAreFinite DEF CountTypes
<1>4. CountTypes'
  BY <1>2, Delisting, OwnersAreFinite DEF CountTypes
<1>5. TypeRegistry!Unregister(ty)
  BY <1>2, <1>3 DEF TypeRegistry!Unregister
<1>6. DefaultIsListed' /\ GetsWhatItAsked' /\ TypeOK' /\ HeldByCalls'
  BY DEF DefaultIsListed, GetsWhatItAsked, TypeOK, HeldByCalls
<1> QED
  BY <1>1, <1>4, <1>5, <1>6 DEF Good, TypeRegistry!Next

LEMMA CipherRegisterStep ==
  ASSUME IInv, NEW c \in Ciphers, cfe_cipher_register(c)
  PROVE  Good
<1> USE DEF IInv, cfe_cipher_register, UNCHANGED_calls, created
<1>1. CountTypes' /\ UNCHANGED TypeRegistry!absVars
  BY TypesRest, Apart DEF TypeOK
<1>2. \A x \in Ciphers : refcnt'[x] = IF x = c THEN 1 ELSE refcnt[x]
  BY DEF TypeOK
<1>3. CipherUsers' = CipherUsers
  BY DEF CipherUsers
<1>4. CountCiphers'
  BY <1>2, <1>3, Enlisting DEF CountCiphers
<1>5. CipherRegistry!Register(c)
  BY <1>3 DEF CipherRegistry!Register
<1>6. DefaultIsListed' /\ GetsWhatItAsked' /\ TypeOK' /\ HeldByCalls'
  BY Apart DEF DefaultIsListed, GetsWhatItAsked, TypeOK, HeldByCalls
<1> QED
  BY <1>1, <1>4, <1>5, <1>6 DEF Good, CipherRegistry!Next

LEMMA CipherUnregisterStep ==
  ASSUME IInv, NEW c \in Ciphers, cfe_cipher_unregister(c)
  PROVE  Good
<1> USE DEF IInv, cfe_cipher_unregister, UNCHANGED_calls, created
<1>1. CountTypes' /\ UNCHANGED TypeRegistry!absVars
  BY TypesRest, Apart
<1>2. CipherUsers' = CipherUsers
  BY DEF CipherUsers
<1>3. \A o \in Owners : CipherUsers[o] # c
  BY OneIsUnused, OwnersAreFinite DEF CountCiphers
<1>4. CountCiphers'
  BY <1>2, Delisting, OwnersAreFinite DEF CountCiphers
<1>5. CipherRegistry!Unregister(c)
  BY <1>2, <1>3, Apart DEF CipherRegistry!Unregister
<1>6. DefaultIsListed' /\ GetsWhatItAsked' /\ TypeOK' /\ HeldByCalls'
  BY Apart DEF DefaultIsListed, GetsWhatItAsked, TypeOK, HeldByCalls
<1> QED
  BY <1>1, <1>4, <1>5, <1>6 DEF Good, CipherRegistry!Next

LEMMA TypeRefStep ==
  ASSUME IInv, NEW t \in Threads, NEW version \in Requests, TypeRef(t, version)
  PROVE  Good
<1> USE DEF IInv, TypeRef, Goto, Inc, created
<1>1. PICK ty \in Answers(version) : /\ refcnt' = [refcnt EXCEPT ![ty] = @ + 1]
                                     /\ type' = [type EXCEPT ![t] = ty]
  OBVIOUS
<1>2. ty \in listed /\ ty \in Types /\ type[t] = NoType /\ TypeUsers[t] = NoType
  BY UsersAre DEF Answers, cfe_filewriter_find, DefaultIsListed, TypeOK, HeldByCalls
<1>3. CountCiphers' /\ UNCHANGED CipherRegistry!absVars
  BY <1>1, <1>2, CiphersRest, Apart DEF TypeOK
<1>4. TypeUsers' = [TypeUsers EXCEPT ![t] = ty]
  <2>1. type'[t] = ty /\ \A u \in Threads \ {t} : type'[u] = type[u]
    BY <1>1 DEF TypeOK
  <2>2. writer' = writer
    OBVIOUS
  <2> HIDE DEF IInv, TypeRef, Goto, Inc
  <2>3. t \in Owners /\ TypeUsers'[t] = ty
    BY <2>1, UsersAre, UsersAreNext
  <2>4. \A o \in Owners \ {t} : TypeUsers'[o] = TypeUsers[o]
    BY <2>1, <2>2, UsersAre, UsersAreNext DEF Owners
  <2> QED
    BY <2>3, <2>4, OneBecomes, UsersFun, UsersFunNext
<1>5. /\ t \in Owners /\ TypeUsers'[t] = ty
      /\ \A p \in Owners \ {t} : TypeUsers'[p] = TypeUsers[p]
      /\ \A x \in Types : refcnt'[x] = IF x = ty THEN refcnt[x] + 1 ELSE refcnt[x]
  BY <1>1, <1>4 DEF TypeUsers, Owners, TypeOK
<1>6. CountTypes'
  <2>1. TypeUsers[t] \notin Types /\ Kept(Owners, Types, TypeUsers, refcnt, listed)
    BY <1>2, Apart DEF CountTypes
  <2> HIDE DEF IInv, TypeRef, Goto
  <2>2. Kept(Owners, Types, TypeUsers', refcnt', listed)
    BY <1>2, <1>5, <2>1, Taking, OwnersAreFinite
  <2> QED
    BY <2>2 DEF CountTypes, TypeRef
<1>7. TypeRegistry!Acquire(t, ty)
  BY <1>2, <1>4 DEF TypeRegistry!Acquire
<1>8. TypeOK'
  BY <1>1, <1>2 DEF TypeOK
<1>9. HeldByCalls' /\ DefaultIsListed'
  BY <1>1, <1>2, Apart DEF TypeOK, HeldByCalls, DefaultIsListed
<1>10. GetsWhatItAsked'
  BY <1>1, <1>2, Apart DEF TypeOK, GetsWhatItAsked, Answers, cfe_filewriter_find
<1> QED
  BY <1>2, <1>3, <1>5, <1>6, <1>7, <1>8, <1>9, <1>10 DEF Good, TypeRegistry!Next

LEMMA CipherRefStep ==
  ASSUME IInv, NEW t \in Threads, NEW c \in Ciphers, CipherRef(t, c)
  PROVE  Good
<1> USE DEF IInv, CipherRef, Goto, Inc, created
<1>1. CountTypes' /\ UNCHANGED TypeRegistry!absVars
  BY TypesRest, Apart DEF TypeOK
<1>2. CipherUsers' = [CipherUsers EXCEPT ![t] = c] /\ CipherUsers[t] = NoType
  <2>1. CipherUsers[t] = NoType
    BY UsersAre DEF HeldByCalls
  <2>2. CipherUsers' = [CipherUsers EXCEPT ![t] = c]
    BY FileWriterAssumption DEF CipherUsers, Owners, TypeOK
  <2> QED
    BY <2>1, <2>2
<1>3. /\ t \in Owners /\ CipherUsers'[t] = c
      /\ \A p \in Owners \ {t} : CipherUsers'[p] = CipherUsers[p]
      /\ \A x \in Ciphers : refcnt'[x] = IF x = c THEN refcnt[x] + 1 ELSE refcnt[x]
  BY <1>2 DEF CipherUsers, Owners, TypeOK
<1>4. CountCiphers'
  <2>1. /\ CipherUsers[t] \notin Ciphers /\ c \in listed
        /\ Kept(Owners, Ciphers, CipherUsers, refcnt, listed)
    BY <1>2, Apart DEF CountCiphers
  <2> HIDE DEF IInv, CipherRef, Goto
  <2>2. Kept(Owners, Ciphers, CipherUsers', refcnt', listed)
    BY <1>3, <2>1, Taking, OwnersAreFinite
  <2> QED
    BY <2>2 DEF CountCiphers, CipherRef
<1>5. CipherRegistry!Acquire(t, c)
  BY <1>2 DEF CipherRegistry!Acquire
<1>6. TypeOK' /\ HeldByCalls' /\ DefaultIsListed'
  BY Apart DEF TypeOK, HeldByCalls, DefaultIsListed
<1>7. GetsWhatItAsked'
  BY DEF TypeOK, GetsWhatItAsked
<1> QED
  BY <1>1, <1>3, <1>4, <1>5, <1>6, <1>7 DEF Good, CipherRegistry!Next

\* A cipher that is not there, and an alloc() that returns NULL.
LEMMA FailStep ==
  ASSUME IInv, NEW t \in Threads,
         AllocNull(t) \/ \E c \in Ciphers : CipherUnknown(t, c)
  PROVE  Good
<1>1. /\ pc[t] \in {"cipher", "alloc"} /\ pc' = [pc EXCEPT ![t] = "put"]
      /\ UNCHANGED <<listed, refcnt, default, want, type, ctype, writer, lost>>
  BY DEF AllocNull, CipherUnknown, Goto, registries, created
<1>2. CountTypes' /\ CountCiphers' /\ UNCHANGED <<TypeRegistry!absVars, CipherRegistry!absVars>>
  BY <1>1, TypesRest, CiphersRest DEF IInv
<1>3. TypeOK' /\ HeldByCalls' /\ DefaultIsListed' /\ GetsWhatItAsked'
  BY <1>1 DEF IInv, TypeOK, HeldByCalls, DefaultIsListed, GetsWhatItAsked
<1> QED
  BY <1>2, <1>3 DEF IInv, Good

LEMMA AllocDoneStep ==
  ASSUME IInv, NEW t \in Threads, NEW w \in Writers, AllocDone(t, w)
  PROVE  Good
<1> USE DEF IInv, AllocDone, Goto, registries, created
<1>1. /\ type[t] \in Types /\ ctype[t] \in Ciphers
      /\ writer[w] = NoType /\ lost[w] = NoType
  BY DEF TypeOK, HeldByCalls
<1>2. /\ t \in Owners /\ w \in Owners /\ t # w
      /\ TypeUsers[t] \in Types /\ TypeUsers[w] = NoType
      /\ CipherUsers[t] \in Ciphers /\ CipherUsers[w] = NoType
  BY <1>1, UsersAre
<1>3. TypeUsers' = [TypeUsers EXCEPT ![w] = TypeUsers[t], ![t] = NoType]
  <2>1. type'[t] = NoType /\ \A u \in Threads \ {t} : type'[u] = type[u]
    BY DEF TypeOK
  <2>2. writer'[w] = type[t] /\ \A x \in Writers \ {w} : writer'[x] = writer[x]
    BY DEF TypeOK
  <2> HIDE DEF IInv, AllocDone, Goto, registries
  <2>3. TypeUsers'[w] = TypeUsers[t] /\ TypeUsers'[t] = NoType
    BY <2>1, <2>2, UsersAre, UsersAreNext
  <2>4. \A o \in Owners \ {w, t} : TypeUsers'[o] = TypeUsers[o]
    BY <2>1, <2>2, UsersAre, UsersAreNext DEF Owners
  <2> QED
    BY <1>2, <2>3, <2>4, TwoBecome, UsersFun, UsersFunNext
<1>4. CipherUsers' = [CipherUsers EXCEPT ![w] = CipherUsers[t], ![t] = NoType]
  <2>1. ctype'[t] = NoType /\ \A u \in Threads \ {t} : ctype'[u] = ctype[u]
    BY DEF TypeOK
  <2>2. lost'[w] = ctype[t] /\ \A x \in Writers \ {w} : lost'[x] = lost[x]
    BY DEF TypeOK
  <2> HIDE DEF IInv, AllocDone, Goto, registries
  <2>3. CipherUsers'[w] = CipherUsers[t] /\ CipherUsers'[t] = NoType
    BY <2>1, <2>2, UsersAre, UsersAreNext
  <2>4. \A o \in Owners \ {w, t} : CipherUsers'[o] = CipherUsers[o]
    BY <2>1, <2>2, UsersAre, UsersAreNext DEF Owners
  <2> QED
    BY <1>2, <2>3, <2>4, TwoBecome, UsersFun, UsersFunNext
<1>5. CountTypes'
  <2>1. /\ TypeUsers'[w] = TypeUsers[t] /\ TypeUsers'[t] = NoType
        /\ \A q \in Owners \ {t, w} : TypeUsers'[q] = TypeUsers[q]
    BY <1>2, <1>3 DEF TypeUsers
  <2> QED
    BY <1>2, <2>1, Handing, OwnersAreFinite, Apart DEF CountTypes
<1>6. CountCiphers'
  <2>1. /\ CipherUsers'[w] = CipherUsers[t] /\ CipherUsers'[t] = NoType
        /\ \A q \in Owners \ {t, w} : CipherUsers'[q] = CipherUsers[q]
    BY <1>2, <1>4 DEF CipherUsers
  <2> QED
    BY <1>2, <2>1, Handing, OwnersAreFinite, Apart DEF CountCiphers
<1>7. TypeRegistry!Hand(t, w) /\ CipherRegistry!Hand(t, w)
  BY <1>2, <1>3, <1>4, Apart DEF TypeRegistry!Hand, CipherRegistry!Hand
<1>8. TypeOK' /\ HeldByCalls' /\ DefaultIsListed' /\ GetsWhatItAsked'
  BY <1>1 DEF TypeOK, HeldByCalls, DefaultIsListed, GetsWhatItAsked
<1> QED
  BY <1>2, <1>5, <1>6, <1>7, <1>8 DEF Good, TypeRegistry!Next, CipherRegistry!Next

LEMMA TypePutStep ==
  ASSUME IInv, NEW t \in Threads, TypePut(t)
  PROVE  Good
<1> USE DEF IInv, TypePut, Goto, Dec, created
<1>1. type[t] \in Types /\ t \in Owners /\ TypeUsers[t] = type[t]
  BY UsersAre DEF TypeOK, HeldByCalls
<1>2. CountCiphers' /\ UNCHANGED CipherRegistry!absVars
  BY <1>1, CiphersRest, Apart DEF TypeOK
<1>3. TypeUsers' = [TypeUsers EXCEPT ![t] = NoType]
  <2>1. type'[t] = NoType /\ \A u \in Threads \ {t} : type'[u] = type[u]
    BY DEF TypeOK
  <2>2. writer' = writer
    OBVIOUS
  <2> HIDE DEF IInv, TypePut, Goto, Dec
  <2>3. t \in Owners /\ TypeUsers'[t] = NoType
    BY <2>1, UsersAre, UsersAreNext
  <2>4. \A o \in Owners \ {t} : TypeUsers'[o] = TypeUsers[o]
    BY <2>1, <2>2, UsersAre, UsersAreNext DEF Owners
  <2> QED
    BY <2>3, <2>4, OneBecomes, UsersFun, UsersFunNext
<1>4. /\ TypeUsers'[t] = NoType /\ \A p \in Owners \ {t} : TypeUsers'[p] = TypeUsers[p]
      /\ \A x \in Types : refcnt'[x] = IF x = TypeUsers[t] THEN refcnt[x] - 1 ELSE refcnt[x]
  BY <1>1, <1>3 DEF TypeUsers, TypeOK
<1>5. CountTypes'
  <2>1. NoType \notin Types /\ Kept(Owners, Types, TypeUsers, refcnt, listed)
    BY Apart DEF CountTypes
  <2> HIDE DEF IInv, TypePut, Goto
  <2>2. Kept(Owners, Types, TypeUsers', refcnt', listed)
    BY <1>1, <1>4, <2>1, Dropping, OwnersAreFinite
  <2> QED
    BY <2>2 DEF CountTypes, TypePut
<1>6. TypeRegistry!Release(t)
  BY <1>1, <1>3, Apart DEF TypeRegistry!Release
<1>7. TypeOK' /\ HeldByCalls' /\ DefaultIsListed' /\ GetsWhatItAsked'
  BY <1>1, Apart DEF TypeOK, HeldByCalls, DefaultIsListed, GetsWhatItAsked
<1> QED
  BY <1>1, <1>2, <1>5, <1>6, <1>7 DEF Good, TypeRegistry!Next

LEMMA CipherPutStep ==
  ASSUME IInv, NEW t \in Threads, CipherPut(t)
  PROVE  Good
<1> USE DEF IInv, CipherPut, Goto, Dec, created
<1>1. ctype[t] \in Ciphers /\ t \in Owners /\ CipherUsers[t] = ctype[t]
  BY UsersAre DEF TypeOK, HeldByCalls
<1>2. CountTypes' /\ UNCHANGED TypeRegistry!absVars
  BY <1>1, TypesRest, Apart DEF TypeOK
<1>3. CipherUsers' = [CipherUsers EXCEPT ![t] = NoType]
  BY UsersAre, FileWriterAssumption DEF CipherUsers, Owners, TypeOK
<1>4. /\ CipherUsers'[t] = NoType
      /\ \A p \in Owners \ {t} : CipherUsers'[p] = CipherUsers[p]
      /\ \A x \in Ciphers : refcnt'[x] = IF x = CipherUsers[t] THEN refcnt[x] - 1 ELSE refcnt[x]
  BY <1>1, <1>3 DEF CipherUsers, TypeOK
<1>5. CountCiphers'
  <2>1. NoType \notin Ciphers /\ Kept(Owners, Ciphers, CipherUsers, refcnt, listed)
    BY Apart DEF CountCiphers
  <2> HIDE DEF IInv, CipherPut, Goto
  <2>2. Kept(Owners, Ciphers, CipherUsers', refcnt', listed)
    BY <1>1, <1>4, <2>1, Dropping, OwnersAreFinite
  <2> QED
    BY <2>2 DEF CountCiphers, CipherPut
<1>6. CipherRegistry!Release(t)
  BY <1>1, <1>3, Apart DEF CipherRegistry!Release
<1>7. TypeOK' /\ HeldByCalls' /\ DefaultIsListed' /\ GetsWhatItAsked'
  BY <1>1, Apart DEF TypeOK, HeldByCalls, DefaultIsListed, GetsWhatItAsked
<1> QED
  BY <1>1, <1>2, <1>5, <1>6, <1>7 DEF Good, CipherRegistry!Next

LEMMA WriterStep == IInv /\ [Next]_vars => Good
<1> SUFFICES ASSUME IInv, [Next]_vars PROVE Good
  OBVIOUS
<1>1. CASE Next
  BY <1>1, RegisterStep, UnregisterStep, CipherRegisterStep, CipherUnregisterStep,
     TypeRefStep, CipherRefStep, FailStep, AllocDoneStep, TypePutStep, CipherPutStep
  DEF Next
<1>2. CASE UNCHANGED vars
  <2>1. CountTypes' /\ CountCiphers' /\ UNCHANGED <<TypeRegistry!absVars, CipherRegistry!absVars>>
    BY <1>2, TypesRest, CiphersRest DEF IInv, vars
  <2> QED
    BY <1>2, <2>1 DEF vars, IInv, Good, TypeOK, HeldByCalls, DefaultIsListed, GetsWhatItAsked
<1> QED
  BY <1>1, <1>2

LEMMA WriterInductive == Spec => []IInv
<1>1. IInv /\ [Next]_vars => IInv'
  BY WriterStep DEF Good
<1> QED
  BY <1>1, WriterInit, PTL DEF Spec

-----------------------------------------------------------------------------
(***************************************************************************)
(* Every variable of the writers' registry keeps its type.                 *)
(***************************************************************************)
THEOREM WriterTypeCorrect == Spec => []TypeOK
  BY WriterInductive, PTL DEF IInv

(***************************************************************************)
(* cfe_filewriter_create() gives back one or two references when it fails; *)
(* when it does not, the one is its writer's and the other, lost, is still *)
(* counted.                                                                *)
(***************************************************************************)
THEOREM WriterRefsBalanced == Spec => []RefsBalanced
<1>1. IInv => RefsBalanced
  BY Apart DEF IInv, CountTypes, CountCiphers, Kept, Balanced, UserSet, RefsBalanced, Holders
<1> QED
  BY <1>1, WriterInductive, PTL

(***************************************************************************)
(* writer_default is the newest type at any time, and a version that is    *)
(* asked for is the version that is used.                                  *)
(***************************************************************************)
THEOREM VersionsAreExact == Spec => []GetsWhatItAsked
  BY WriterInductive, PTL DEF IInv

(***************************************************************************)
(* The type of a writer that was created stays registered, and so does the *)
(* cipher that nothing refers to any more, in every step there is.         *)
(***************************************************************************)
LEMMA WritersStay ==
  ASSUME IInv, [Next]_vars, NEW w \in Writers, writer[w] # NoType
  PROVE  writer'[w] = writer[w] /\ lost'[w] = lost[w]
<1>1. ASSUME NEW t \in Threads, NEW x \in Writers, AllocDone(t, x)
      PROVE  writer'[w] = writer[w] /\ lost'[w] = lost[w]
  BY <1>1 DEF AllocDone, IInv, TypeOK
<1>2. UNCHANGED created \/ \E t \in Threads, x \in Writers : AllocDone(t, x)
  BY DEF Next, vars, created, UNCHANGED_calls, cfe_filewriter_register,
     cfe_filewriter_unregister, cfe_cipher_register, cfe_cipher_unregister,
     TypeRef, CipherRef, CipherUnknown, AllocNull, TypePut, CipherPut
<1> QED
  BY <1>1, <1>2 DEF created

THEOREM CreationPins == Spec => PinnedForGood
<1> DEFINE Stays(w) == writer[w] # NoType =>
       /\ writer'[w] = writer[w] /\ writer[w] \in listed'
       /\ lost'[w] = lost[w] /\ lost[w] \in listed'
<1>1. ASSUME IInv, [Next]_vars, NEW w \in Writers PROVE Stays(w)
  <2> SUFFICES ASSUME writer[w] # NoType PROVE Stays(w)
    OBVIOUS
  <2>1. writer'[w] = writer[w] /\ lost'[w] = lost[w]
    BY <1>1, WritersStay
  <2>2. IInv'
    BY <1>1, WriterStep DEF Good
  <2>3. writer[w] \in Types /\ lost[w] \in Ciphers
    BY <1>1 DEF IInv, TypeOK, HeldByCalls
  <2>4. TypeUsers'[w] = writer[w] /\ CipherUsers'[w] = lost[w] /\ w \in Owners
    BY <2>1, UsersAre, UsersAreNext
  <2>5. writer[w] \in listed' /\ lost[w] \in listed'
    BY <2>2, <2>3, <2>4 DEF IInv, CountTypes, CountCiphers, Kept, UsedAreListed
  <2> QED
    BY <2>1, <2>5
<1>2. IInv /\ [Next]_vars => [\A w \in Writers : Stays(w)]_vars
  BY <1>1
<1> QED
  BY <1>2, WriterInductive, PTL DEF Spec, PinnedForGood

(***************************************************************************)
(* filewriter.c implements a registry with a default, and in its calls     *)
(* uses that of the ciphers as its promise allows; a lost reference is an  *)
(* owner there, one that by the theorem before never releases.             *)
(***************************************************************************)
THEOREM WriterImplements == Spec => ImplementsRegistries
<1>1. IInv /\ [Next]_vars => /\ [TypeRegistry!Next]_(TypeRegistry!absVars)
                             /\ [CipherRegistry!Next]_(CipherRegistry!absVars)
  BY WriterStep DEF Good
<1> QED
  BY <1>1, WriterInit, WriterInductive, PTL
  DEF Spec, ImplementsRegistries, TypeRegistry!Spec, CipherRegistry!Spec
=============================================================================
