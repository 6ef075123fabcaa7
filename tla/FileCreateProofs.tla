--------------------------- MODULE FileCreateProofs ---------------------------
(***************************************************************************)
(* Proofs about FileCreate, for any finite number of threads and files,    *)
(* any ciphers, names and sizes, and any page size that divides the range  *)
(* of uint32_t.                                                            *)
(*                                                                         *)
(* A file belongs to the one call that has it in hand (InHand, FilesApart) *)
(* and has at each label what the call has done for it so far (Stage);     *)
(* what WriterNew leaves is then right about every created file            *)
(* (LiveIsComplete).  The counters follow the calls and the created files  *)
(* step by step, a cipher that is not registered has no user, and a file   *)
(* that two calls ever worked on at once is known to be one (RacingKnown,  *)
(* PastStat).                                                              *)
(***************************************************************************)
EXTENDS FileCreate, UserCounts

\* Where a call has a cfe_file.
Holding == {"header_ref", "header_new", "fallocate", "mmap", "header_free", "header_put",
            "file_free", "writer_ref", "cipher_ref", "writer_new", "writer_put", "cipher_put"}

\* The header is mapped and the writer may come: the way to success, and back.
WriterStage == {"writer_ref", "cipher_ref", "writer_new", "writer_put", "cipher_put"}

InHand(t) ==
  /\ pc[t] \in Holding <=> file[t] # NoFile
  /\ pc[t] # "idle" => args[t] \in [fd : Fds, name : Names, size : Sizes, ident : Nat]
  /\ pc[t] \in Holding => /\ header[file[t]].fd = args[t].fd
                          /\ header[file[t]].want = args[t].size

\* What a call has at each label.
Stage(t) ==
  /\ pc[t] \in {"fallocate", "mmap"} \cup WriterStage =>
       Msize(t) = normalize_headersize(args[t].size)
  /\ pc[t] \in WriterStage => header[file[t]].map = "mapped" /\ Msize(t) > 0
  /\ posix /\ pc[t] \in {"mmap"} \cup WriterStage => Msize(t) <= fsize[args[t].fd]
  /\ pc[t] \in {"writer_new", "cipher_put"} => ctype[t] \in Ciphers
  /\ pc[t] = "writer_put" => ctype[t] \in Ciphers \cup {NoCipher}

\* Every error path that a known cipher can take has an errno.
HasErrno(t) ==
  /\ pc[t] \in {"header_free", "header_put", "file_free", "writer_put"} =>
       errno[t] # "stale" \/ ctype[t] = NoCipher
  /\ pc[t] = "cipher_put" => errno[t] # "stale"
  /\ pc[t] = "idle" /\ ret[t] = "NULL" /\ errno[t] = "stale" => ctype[t] = NoCipher

\* Where key_ident points: at the prefix, or past it.
Ident(t) ==
  /\ pc[t] = "ident" => idents[t] = args[t].ident
  /\ pc[t] \notin {"idle", "ident"} => idents[t] = args[t].ident - 1
  /\ pc[t] = "idle" /\ ret[t] # "none" =>
       \/ idents[t] = args[t].ident - 1
       \/ idents[t] = args[t].ident /\ ret[t] = "NULL" /\ errno[t] = "EINVAL"

CallIsRight(t) == InHand(t) /\ Stage(t) /\ HasErrno(t) /\ Ident(t)
CallsAreRight == \A t \in Threads : CallIsRight(t)

FilesApart ==
  \A t, u \in Threads : t # u /\ file[t] = file[u] => file[t] = NoFile

\* What every created file has.
LiveIsComplete ==
  \A x \in Live :
    /\ header[x].fd \in Fds /\ header[x].want \in Sizes
    /\ header[x].msize = normalize_headersize(header[x].want)
    /\ header[x].msize > 0 /\ header[x].map = "mapped"
    /\ header[x].lost \in Ciphers
    /\ posix => header[x].msize <= fsize[header[x].fd]

\* Who uses a cipher that is not registered?  Nobody.
UsersAreListed ==
  \A c \in Ciphers \ listed :
    CipherUsers(c) = {} /\ \A x \in Live : header[x].lost # c

RacingKnown == Racing \subseteq raced

\* Where it has found the file empty.
PastLabels == {"file_new"} \cup Holding

\* A call past fstat() is the first on its file, or raced with another.
PastStat ==
  posix => \A t \in Threads : \A x \in Live :
    pc[t] \in PastLabels /\ header[x].fd = args[t].fd => args[t].fd \in raced

IInv ==
  /\ TypeOK /\ CallsAreRight /\ FilesApart /\ LiveIsComplete
  /\ RefsBalanced /\ UsersAreListed
  /\ RacingKnown /\ PastStat /\ OneHeaderPerFile

\* The clause of Next about every step.
Frame == raced' = raced \cup Racing' /\ posix' = posix

Headers == [fd : Fds \cup {NoFd}, want : Nat, msize : Nat,
            map : {"none", "mapped", "failed"}, lost : Ciphers \cup {NoCipher}]

-----------------------------------------------------------------------------
(***************************************************************************)
(* A size that was normalized is a number of whole pages, and enough       *)
(* unless it has wrapped to 0.                                             *)
(***************************************************************************)
LEMMA WholePages ==
  ASSUME NEW p \in Nat \ {0}, NEW k \in Nat, NEW n \in Nat, n < k * p, NEW q \in Nat,
         q = (n + p - 1) \div p
  PROVE  q \in Nat /\ q <= k /\ n <= q * p
<1>1. q * p <= n + p - 1 /\ n + p - 1 < q * p + p
  BY Z3
<1>2. n <= q * p
  BY <1>1
<1>3. ASSUME q > k PROVE FALSE
  <2>1. q >= k + 1
    BY <1>3
  <2>2. q * p >= (k + 1) * p
    BY <2>1, Z3
  <2>3. (k + 1) * p = k * p + p
    BY Z3
  <2> QED
    BY <1>1, <2>2, <2>3
<1> QED
  BY <1>2, <1>3

LEMMA NormalizeIsNat ==
  ASSUME NEW size \in Nat
  PROVE  normalize_headersize(size) \in Nat
<1> DEFINE q == (size + PageSize - 1) \div PageSize
<1>1. PageSize \in Nat \ {0} /\ U32 \in Nat \ {0}
  BY FileCreateAssumption
<1>2. q \in Nat
  BY <1>1, Z3
<1> HIDE DEF q
<1>3. q * PageSize \in Nat
  BY <1>1, <1>2
<1>4. \A m \in Nat : m % U32 \in Nat
  BY <1>1
<1> QED
  BY <1>1, <1>3, <1>4 DEF normalize_headersize, q

LEMMA NormalizeCovers ==
  ASSUME NEW size \in Sizes, normalize_headersize(size) > 0
  PROVE  /\ normalize_headersize(size) % PageSize = 0
         /\ normalize_headersize(size) >= PageSize
         /\ normalize_headersize(size) >= size
<1> DEFINE q == (size + PageSize - 1) \div PageSize
           k == U32 \div PageSize
<1>1. PageSize \in Nat \ {0} /\ U32 \in Nat \ {0} /\ size \in Nat /\ size < U32
  BY FileCreateAssumption
<1>2. k \in Nat /\ U32 = k * PageSize
  BY <1>1, FileCreateAssumption, Z3
<1> HIDE DEF k
<1>3. q \in Nat
  BY <1>1, Z3
<1>4. q <= k /\ size <= q * PageSize
  BY <1>1, <1>2, <1>3, WholePages
<1>5. size = 0 => normalize_headersize(size) = PageSize % U32
  BY DEF normalize_headersize
<1>6. size # 0 => normalize_headersize(size) = (q * PageSize) % U32
  BY DEF normalize_headersize
<1> HIDE DEF q
<1>7. PageSize % PageSize = 0 /\ \A j \in Nat : (j * PageSize) % PageSize = 0
  BY <1>1, Z3
<1>8. \A m \in Nat : m < U32 => m % U32 = m
  BY <1>1
<1>9. U32 % U32 = 0
  BY <1>1
<1>10. k >= 1 /\ U32 >= PageSize
  BY <1>1, <1>2, Z3
<1>11. CASE size = 0
  <2>1. PageSize # U32
    BY <1>5, <1>9, <1>11
  <2>2. normalize_headersize(size) = PageSize
    BY <1>1, <1>5, <1>8, <1>10, <1>11, <2>1
  <2> QED
    BY <1>1, <1>7, <1>11, <2>2
<1>12. CASE size # 0
  <2>1. q # k
    BY <1>2, <1>6, <1>9, <1>12
  <2>2. q * PageSize < k * PageSize /\ q * PageSize \in Nat
    BY <1>1, <1>2, <1>3, <1>4, <2>1, Z3
  <2>3. normalize_headersize(size) = q * PageSize
    BY <1>2, <1>6, <1>8, <1>12, <2>2
  <2>4. q >= 1
    BY <1>1, <1>3, <1>4, <1>12
  <2>5. q * PageSize >= PageSize
    BY <1>1, <1>3, <2>4, Z3
  <2> QED
    BY <1>3, <1>4, <1>7, <2>3, <2>5
<1> QED
  BY <1>11, <1>12

-----------------------------------------------------------------------------
(***************************************************************************)
(* How many there are, when one comes or goes.                             *)
(***************************************************************************)
In(b) == IF b THEN 1 ELSE 0

\* Two sets of threads that agree on all but one.
LEMMA OneApart ==
  ASSUME NEW A, NEW B, NEW S, NEW s, A \subseteq S, B \subseteq S, IsFiniteSet(S),
         \A u \in S \ {s} : u \in A <=> u \in B
  PROVE  /\ Cardinality(A) \in Nat /\ Cardinality(B) \in Nat
         /\ Cardinality(B) = Cardinality(A) + In(s \in B) - In(s \in A)
<1>1. IsFiniteSet(A) /\ IsFiniteSet(B)
  BY FS_Subset
<1>2. Cardinality(A) \in Nat /\ Cardinality(B) \in Nat
  BY <1>1, FS_CardinalityType
<1>3. CASE s \in A <=> s \in B
  <2>1. A = B
    BY <1>3
  <2> QED
    BY <1>2, <2>1 DEF In
<1>4. CASE s \in A /\ s \notin B
  <2>1. B = A \ {s}
    BY <1>4
  <2> QED
    BY <1>1, <1>2, <1>4, <2>1, FS_RemoveElement DEF In
<1>5. CASE s \notin A /\ s \in B
  <2>1. B = A \cup {s}
    BY <1>5
  <2> QED
    BY <1>1, <1>2, <1>5, <2>1, FS_AddElement DEF In
<1> QED
  BY <1>3, <1>4, <1>5

-----------------------------------------------------------------------------
\* A header is written, and no other.
Others(g, h, x) == \A y \in Files \ {x} : g[y] = h[y]

-----------------------------------------------------------------------------
(***************************************************************************)
(* The steps of a call that create no file.                                *)
(***************************************************************************)
\* The step is one of t alone, and on the file that t has in hand.
OnlyCallOf(t) ==
  /\ \A u \in Threads \ {t} : /\ pc'[u] = pc[u] /\ args'[u] = args[u] /\ file'[u] = file[u]
                              /\ ctype'[u] = ctype[u] /\ errno'[u] = errno[u] /\ ret'[u] = ret[u]
                              /\ idents'[u] = idents[u]
  /\ \A x \in Files : x # file[t] /\ x # file'[t] => header'[x] = header[x]
  /\ \/ file'[t] = file[t]
     \/ file[t] = NoFile /\ file'[t] \in Unused
     \/ file[t] # NoFile /\ file'[t] = NoFile /\ header'[file[t]].fd = NoFd
  /\ \A f \in Fds : fsize'[f] >= fsize[f]

\* A call that passes fstat() finds no created file there.
PassesStat(t) ==
  pc'[t] \in PastLabels =>
    /\ args'[t] = args[t]
    /\ pc[t] \in PastLabels \/ (posix => \A x \in Live : header[x].fd # args[t].fd)

\* The created files stay as they are.
LEMMA LiveStays ==
  ASSUME NEW t \in Threads, IInv, OnlyCallOf(t)
  PROVE  Live' = Live /\ \A x \in Live : header'[x] = header[x]
<1> USE DEF OnlyCallOf
<1>1. NoFile \notin Files
  BY FileCreateAssumption
<1>2. ASSUME NEW x \in Live PROVE x \in Live' /\ header'[x] = header[x]
  BY <1>1 DEF Live, Unused
<1>3. ASSUME NEW x \in Live' PROVE x \in Live
  BY <1>1 DEF Live, Unused
<1> QED
  BY <1>2, <1>3

\* And the other calls.
LEMMA OthersStay ==
  ASSUME NEW t \in Threads, IInv, TypeOK', OnlyCallOf(t), posix' = posix
  PROVE  FilesApart' /\ \A u \in Threads \ {t} : CallIsRight(u)'
<1> USE DEF OnlyCallOf, IInv
<1>1. NoFile \notin Files /\ NoFd \notin Fds
  BY FileCreateAssumption
<1>2. \A u \in Threads : InHand(u) /\ Stage(u) /\ HasErrno(u) /\ Ident(u)
  BY DEF CallsAreRight, CallIsRight
<1>3. \A u \in Threads \ {t} : file[u] # NoFile =>
        file[u] \notin Unused /\ file[u] # file[t] /\ file[u] # file'[t]
  <2> SUFFICES ASSUME NEW u \in Threads \ {t}, file[u] # NoFile
               PROVE  file[u] \notin Unused /\ file[u] # file[t] /\ file[u] # file'[t]
    OBVIOUS
  <2>1. pc[u] \in Holding /\ pc[u] # "idle"
    BY <1>2 DEF InHand, Holding
  <2>2. header[file[u]].fd \in Fds
    BY <1>2, <2>1 DEF InHand
  <2>3. file[u] \notin Unused
    BY <1>1, <2>2 DEF Unused
  <2>4. file[u] # file[t]
    BY DEF FilesApart
  <2> QED
    BY <2>3, <2>4
<1>4. FilesApart'
  BY <1>3 DEF FilesApart
<1>5. ASSUME NEW u \in Threads \ {t} PROVE CallIsRight(u)'
  <2>1. file[u] # NoFile => file[u] \in Files /\ header'[file[u]] = header[file[u]]
    BY <1>3 DEF TypeOK
  <2>2. InHand(u)' /\ HasErrno(u)' /\ Ident(u)'
    BY <1>2, <2>1 DEF InHand, HasErrno, Ident
  <2>3. Stage(u)'
    <3>1. CASE pc[u] \in Holding
      <4>1. file[u] \in Files /\ header'[file[u]] = header[file[u]] /\ args[u].fd \in Fds
        BY <1>2, <2>1, <3>1 DEF InHand, Holding
      <4>2. Msize(u) \in Nat /\ Msize(u)' = Msize(u)
        BY <4>1 DEF Msize, TypeOK
      <4>3. Msize(u) <= fsize[args[u].fd] => Msize(u) <= fsize'[args[u].fd]
        <5>1. fsize[args[u].fd] \in Nat /\ fsize'[args[u].fd] >= fsize[args[u].fd]
          BY <4>1 DEF TypeOK
        <5>2. fsize'[args[u].fd] \in Nat
          BY <4>1 DEF TypeOK
        <5> QED
          BY <4>2, <5>1, <5>2
      <4> QED
        BY <1>2, <4>1, <4>2, <4>3 DEF Stage
    <3>2. CASE pc[u] \notin Holding
      BY <1>2, <3>2 DEF Stage, Holding, WriterStage
    <3> QED
      BY <3>1, <3>2
  <2> QED
    BY <2>2, <2>3 DEF CallIsRight
<1> QED
  BY <1>4, <1>5

\* What a step of a call that creates no file leaves of the invariant.
LEMMA LiveStep ==
  ASSUME NEW t \in Threads, IInv, Frame, TypeOK', OnlyCallOf(t), PassesStat(t),
         listed' = listed, \A c \in Ciphers \ listed : t \notin CipherUsers(c)'
  PROVE  LiveIsComplete' /\ UsersAreListed' /\ RacingKnown' /\ PastStat' /\ OneHeaderPerFile'
<1> USE DEF IInv, OnlyCallOf
<1>0. Live' = Live /\ \A x \in Live : header'[x] = header[x]
  BY LiveStays
<1>1. raced \subseteq raced' /\ posix' = posix /\ RacingKnown'
  BY DEF Frame, RacingKnown
<1>2. LiveIsComplete'
  <2> SUFFICES ASSUME NEW x \in Live
               PROVE  /\ header[x].fd \in Fds /\ header[x].want \in Sizes
                      /\ header[x].msize = normalize_headersize(header[x].want)
                      /\ header[x].msize > 0 /\ header[x].map = "mapped"
                      /\ header[x].lost \in Ciphers
                      /\ posix' => header[x].msize <= fsize'[header[x].fd]
    BY <1>0 DEF LiveIsComplete
  <2>1. header[x].fd \in Fds /\ (posix => header[x].msize <= fsize[header[x].fd])
    BY DEF LiveIsComplete
  <2>2. header[x].msize \in Nat
    BY DEF TypeOK, Live
  <2>3. /\ fsize[header[x].fd] \in Nat /\ fsize'[header[x].fd] \in Nat
        /\ fsize'[header[x].fd] >= fsize[header[x].fd]
    BY <2>1 DEF TypeOK
  <2>4. posix' => header[x].msize <= fsize'[header[x].fd]
    BY <1>1, <2>1, <2>2, <2>3
  <2> QED
    BY <2>4 DEF LiveIsComplete
<1>3. UsersAreListed'
  BY <1>0 DEF UsersAreListed, CipherUsers
<1>4. PastStat'
  BY <1>0, <1>1 DEF PastStat, PassesStat
<1>5. OneHeaderPerFile'
  BY <1>0, <1>1 DEF OneHeaderPerFile
<1> QED
  BY <1>1, <1>2, <1>3, <1>4, <1>5

LiveFor(c) == {x \in Live : header[x].lost = c}

\* The counters follow the step.
Counts(t) ==
  /\ headerRefs' = headerRefs + In(t \in HeaderUsers') - In(t \in HeaderUsers)
  /\ writerRefs' = writerRefs + In(t \in WriterUsers') - In(t \in WriterUsers)
  /\ \A c \in Ciphers :
       cipherRefs'[c] = cipherRefs[c] + In(t \in CipherUsers(c)') - In(t \in CipherUsers(c))

LEMMA CountStep ==
  ASSUME NEW t \in Threads, IInv, OnlyCallOf(t), Counts(t)
  PROVE  RefsBalanced'
<1> USE DEF IInv, OnlyCallOf, Counts
<1>0. Live' = Live /\ \A x \in Live : header'[x] = header[x]
  BY LiveStays
<1>1. IsFiniteSet(Threads) /\ IsFiniteSet(Files)
  BY FileCreateAssumption
<1>2. \A b : In(b) \in Nat
  BY DEF In
<1>3. Cardinality(Live) \in Nat /\ \A c \in Ciphers : Cardinality(LiveFor(c)) \in Nat
  <2>1. Live \subseteq Files /\ \A c \in Ciphers : LiveFor(c) \subseteq Files
    BY DEF Live, LiveFor
  <2> QED
    BY <1>1, <2>1, FS_Subset, FS_CardinalityType
<1>4. /\ Cardinality(HeaderUsers) \in Nat /\ Cardinality(HeaderUsers') \in Nat
      /\ Cardinality(HeaderUsers') =
           Cardinality(HeaderUsers) + In(t \in HeaderUsers') - In(t \in HeaderUsers)
  <2>1. \A u \in Threads \ {t} : u \in HeaderUsers <=> u \in HeaderUsers'
    BY DEF HeaderUsers
  <2>2. HeaderUsers \subseteq Threads /\ HeaderUsers' \subseteq Threads
    BY DEF HeaderUsers
  <2> QED
    BY <1>1, <2>1, <2>2, OneApart
<1>5. /\ Cardinality(WriterUsers) \in Nat /\ Cardinality(WriterUsers') \in Nat
      /\ Cardinality(WriterUsers') =
           Cardinality(WriterUsers) + In(t \in WriterUsers') - In(t \in WriterUsers)
  <2>1. \A u \in Threads \ {t} : u \in WriterUsers <=> u \in WriterUsers'
    BY DEF WriterUsers
  <2>2. WriterUsers \subseteq Threads /\ WriterUsers' \subseteq Threads
    BY DEF WriterUsers
  <2> QED
    BY <1>1, <2>1, <2>2, OneApart
<1>6. ASSUME NEW c \in Ciphers
      PROVE  /\ Cardinality(CipherUsers(c)) \in Nat /\ Cardinality(CipherUsers(c)') \in Nat
             /\ Cardinality(CipherUsers(c)') =
                  Cardinality(CipherUsers(c)) + In(t \in CipherUsers(c)') - In(t \in CipherUsers(c))
  <2>1. \A u \in Threads \ {t} : u \in CipherUsers(c) <=> u \in CipherUsers(c)'
    BY DEF CipherUsers
  <2>2. CipherUsers(c) \subseteq Threads /\ CipherUsers(c)' \subseteq Threads
    BY DEF CipherUsers
  <2> QED
    BY <1>1, <2>1, <2>2, OneApart
<1>7. \A c \in Ciphers : {x \in Live' : header'[x].lost = c} = LiveFor(c)
  BY <1>0 DEF LiveFor
<1>8. /\ headerRefs = 1 + Cardinality(HeaderUsers) + Cardinality(Live)
      /\ writerRefs = 1 + Cardinality(WriterUsers) + Cardinality(Live)
      /\ \A c \in Ciphers :
           cipherRefs[c] = 1 + Cardinality(CipherUsers(c)) + Cardinality(LiveFor(c))
  BY DEF RefsBalanced, LiveFor
<1>9. headerRefs' = 1 + Cardinality(HeaderUsers') + Cardinality(Live')
  BY <1>0, <1>2, <1>3, <1>4, <1>8
<1>10. writerRefs' = 1 + Cardinality(WriterUsers') + Cardinality(Live')
  BY <1>0, <1>2, <1>3, <1>5, <1>8
<1>11. ASSUME NEW c \in Ciphers
       PROVE  cipherRefs'[c] = 1 + Cardinality(CipherUsers(c)')
                                 + Cardinality({x \in Live' : header'[x].lost = c})
  <2>1. cipherRefs[c] = 1 + Cardinality(CipherUsers(c)) + Cardinality(LiveFor(c))
    BY <1>8
  <2>2. cipherRefs'[c] = cipherRefs[c] + In(t \in CipherUsers(c)') - In(t \in CipherUsers(c))
    OBVIOUS
  <2>3. cipherRefs'[c] = 1 + Cardinality(CipherUsers(c)') + Cardinality(LiveFor(c))
    BY <1>2, <1>3, <1>6, <2>1, <2>2
  <2> QED
    BY <1>7, <2>3
<1> QED
  BY <1>9, <1>10, <1>11 DEF RefsBalanced

\* All of it: such a step needs to be looked at for its own call only.
LEMMA CallStep ==
  ASSUME NEW t \in Threads, IInv, Frame, TypeOK', OnlyCallOf(t), PassesStat(t), Counts(t),
         listed' = listed, \A c \in Ciphers \ listed : t \notin CipherUsers(c)',
         CallIsRight(t)'
  PROVE  IInv'
<1>1. FilesApart' /\ \A u \in Threads \ {t} : CallIsRight(u)'
  BY OthersStay DEF Frame
<1>2. CallsAreRight'
  BY <1>1 DEF CallsAreRight
<1> QED
  BY <1>1, <1>2, LiveStep, CountStep DEF IInv

-----------------------------------------------------------------------------
(***************************************************************************)
(* The steps, one by one.                                                  *)
(***************************************************************************)
LEMMA RacedType == Frame /\ TypeOK => raced' \subseteq Fds /\ posix' \in BOOLEAN
  BY DEF Frame, TypeOK, Racing

\* Where a thread is among the users of the counters.
LEMMA UsersAre ==
  ASSUME NEW t \in Threads
  PROVE  /\ t \in HeaderUsers <=> pc[t] \in Holding \ {"header_ref", "file_free"}
         /\ t \in WriterUsers <=> pc[t] \in {"cipher_ref", "writer_new", "writer_put"}
         /\ \A c : t \in CipherUsers(c) <=>
                     pc[t] \in {"writer_new", "writer_put", "cipher_put"} /\ ctype[t] = c
  BY DEF HeaderUsers, WriterUsers, CipherUsers, Holding

LEMMA UsersWillBe ==
  ASSUME NEW t \in Threads
  PROVE  /\ t \in HeaderUsers' <=> pc'[t] \in Holding \ {"header_ref", "file_free"}
         /\ t \in WriterUsers' <=> pc'[t] \in {"cipher_ref", "writer_new", "writer_put"}
         /\ \A c : t \in CipherUsers(c)' <=>
                     pc'[t] \in {"writer_new", "writer_put", "cipher_put"} /\ ctype'[t] = c
  BY DEF HeaderUsers, WriterUsers, CipherUsers, Holding

\* One field of one file is assigned.
SetMsize(h, x, v) == [h EXCEPT ![x].msize = v]

LEMMA MsizeChanges ==
  ASSUME NEW h \in [Files -> Headers], NEW x \in Files, NEW v \in Nat
  PROVE  LET g == SetMsize(h, x, v) IN
         /\ g \in [Files -> Headers] /\ Others(g, h, x) /\ g[x].msize = v
         /\ g[x].fd = h[x].fd /\ g[x].want = h[x].want
         /\ g[x].map = h[x].map /\ g[x].lost = h[x].lost
<1> DEFINE g == SetMsize(h, x, v)
<1>1. h[x] \in Headers
  OBVIOUS
<1>2. PICK r : r = [h[x] EXCEPT !.msize = v]
  OBVIOUS
<1>3. g = [h EXCEPT ![x] = r]
  BY <1>2 DEF SetMsize
<1> HIDE DEF g
<1>4. r \in Headers /\ r.msize = v
      /\ r.fd = h[x].fd /\ r.want = h[x].want /\ r.map = h[x].map /\ r.lost = h[x].lost
  BY <1>1, <1>2 DEF Headers
<1> QED
  <2>1. /\ g \in [Files -> Headers] /\ g[x] = r
        /\ Others(g, h, x)
    BY <1>3, <1>4 DEF Others
  <2> QED
    BY <2>1, <1>4 DEF g

SetMap(h, x, v) == [h EXCEPT ![x].map = v]

LEMMA MapChanges ==
  ASSUME NEW h \in [Files -> Headers], NEW x \in Files, NEW v \in {"none", "mapped", "failed"}
  PROVE  LET g == SetMap(h, x, v) IN
         /\ g \in [Files -> Headers] /\ Others(g, h, x) /\ g[x].map = v
         /\ g[x].fd = h[x].fd /\ g[x].want = h[x].want
         /\ g[x].msize = h[x].msize /\ g[x].lost = h[x].lost
<1> DEFINE g == SetMap(h, x, v)
<1>1. h[x] \in Headers
  OBVIOUS
<1>2. PICK r : r = [h[x] EXCEPT !.map = v]
  OBVIOUS
<1>3. g = [h EXCEPT ![x] = r]
  BY <1>2 DEF SetMap
<1> HIDE DEF g
<1>4. r \in Headers /\ r.map = v
      /\ r.fd = h[x].fd /\ r.want = h[x].want /\ r.msize = h[x].msize /\ r.lost = h[x].lost
  BY <1>1, <1>2 DEF Headers
<1> QED
  <2>1. /\ g \in [Files -> Headers] /\ g[x] = r
        /\ Others(g, h, x)
    BY <1>3, <1>4 DEF Others
  <2> QED
    BY <2>1, <1>4 DEF g

SetLost(h, x, v) == [h EXCEPT ![x].lost = v]

LEMMA LostChanges ==
  ASSUME NEW h \in [Files -> Headers], NEW x \in Files, NEW v \in Ciphers \cup {NoCipher}
  PROVE  LET g == SetLost(h, x, v) IN
         /\ g \in [Files -> Headers] /\ Others(g, h, x) /\ g[x].lost = v
         /\ g[x].fd = h[x].fd /\ g[x].want = h[x].want
         /\ g[x].msize = h[x].msize /\ g[x].map = h[x].map
<1> DEFINE g == SetLost(h, x, v)
<1>1. h[x] \in Headers
  OBVIOUS
<1>2. PICK r : r = [h[x] EXCEPT !.lost = v]
  OBVIOUS
<1>3. g = [h EXCEPT ![x] = r]
  BY <1>2 DEF SetLost
<1> HIDE DEF g
<1>4. r \in Headers /\ r.lost = v
      /\ r.fd = h[x].fd /\ r.want = h[x].want /\ r.msize = h[x].msize /\ r.map = h[x].map
  BY <1>1, <1>2 DEF Headers
<1> QED
  <2>1. /\ g \in [Files -> Headers] /\ g[x] = r
        /\ Others(g, h, x)
    BY <1>3, <1>4 DEF Others
  <2> QED
    BY <2>1, <1>4 DEF g

\* A step away from the registries.
Quiet(t) ==
  /\ UNCHANGED registries
  /\ pc[t] \notin {"cipher_ref", "writer_new", "writer_put", "cipher_put"}
  /\ pc'[t] \notin {"cipher_ref", "writer_new", "writer_put", "cipher_put"}
  /\ pc[t] \in Holding \ {"header_ref", "file_free"} <=> pc'[t] \in Holding \ {"header_ref", "file_free"}

LEMMA QuietCounts ==
  ASSUME NEW t \in Threads, TypeOK, Quiet(t)
  PROVE  Counts(t) /\ listed' = listed /\ \A c \in Ciphers : t \notin CipherUsers(c)'
<1>1. /\ headerRefs' = headerRefs /\ writerRefs' = writerRefs /\ cipherRefs' = cipherRefs /\ listed' = listed
      /\ headerRefs \in Int /\ writerRefs \in Int /\ \A c \in Ciphers : cipherRefs[c] \in Int
  BY DEF Quiet, registries, TypeOK
<1>2. /\ t \in HeaderUsers <=> t \in HeaderUsers'
      /\ t \notin WriterUsers /\ t \notin WriterUsers'
      /\ \A c : t \notin CipherUsers(c) /\ t \notin CipherUsers(c)'
  BY UsersAre, UsersWillBe DEF Quiet
<1>3. In(t \in HeaderUsers') = In(t \in HeaderUsers)
  BY <1>2 DEF In
<1>4. /\ In(t \in WriterUsers') = 0 /\ In(t \in WriterUsers) = 0
      /\ \A c : In(t \in CipherUsers(c)') = 0 /\ In(t \in CipherUsers(c)) = 0
  BY <1>2 DEF In
<1>5. In(t \in HeaderUsers) \in Int
  BY DEF In
<1> QED
  BY <1>1, <1>2, <1>3, <1>4, <1>5 DEF Counts

LEMMA CallIs == IInv => \A t \in Threads : CallIsRight(t)
  BY DEF IInv, CallsAreRight

\* Between the check of key_ident and the return nothing moves it.
LEMMA IdentStays ==
  ASSUME IInv, NEW t \in Threads, pc[t] \notin {"idle", "ident"}, pc'[t] \notin {"idle", "ident"},
         idents' = idents, args' = args
  PROVE  Ident(t)'
  BY CallIs DEF CallIsRight, Ident

LEMMA ConstantsApart ==
  /\ NoFile \notin Files /\ NoFd \notin Fds /\ NoCipher \notin Names /\ Ciphers \subseteq Names
  /\ Sizes \subseteq Nat
<1>1. Sizes \subseteq 0..(U32 - 1) /\ U32 \in Nat
  BY FileCreateAssumption
<1> QED
  BY <1>1, FileCreateAssumption

LEMMA SetIdentStep ==
  ASSUME IInv, Frame, NEW t \in Threads, SetIdent(t)
  PROVE  IInv' /\ OnlyCallOf(t)
<1> USE DEF IInv, SetIdent, registries
<1>1. TypeOK'
  BY RacedType DEF TypeOK
<1>2. OnlyCallOf(t) /\ PassesStat(t)
  BY DEF OnlyCallOf, PassesStat, PastLabels, TypeOK
<1>3. Counts(t) /\ \A c \in Ciphers : t \notin CipherUsers(c)'
  BY UsersAre, UsersWillBe DEF Counts, In, TypeOK
<1>4. CallIsRight(t)'
  BY CallIs DEF CallIsRight, InHand, Stage, HasErrno, Ident, Holding, WriterStage, TypeOK
<1> QED
  BY <1>1, <1>2, <1>3, <1>4, CallStep

LEMMA CallCreateStep ==
  ASSUME IInv, Frame, NEW t \in Threads, NEW f \in Fds, NEW name \in Names, NEW size \in Sizes,
         CallCreate(t, f, name, size)
  PROVE  IInv' /\ OnlyCallOf(t)
<1> USE DEF IInv, CallCreate, Begin, Goto, SetErrno, registries
<1>1. TypeOK'
  BY RacedType, ConstantsApart DEF TypeOK, Labels
<1>2. OnlyCallOf(t) /\ PassesStat(t)
  BY DEF OnlyCallOf, PassesStat, PastLabels, Holding, TypeOK
<1>3. Counts(t) /\ listed' = listed /\ \A c \in Ciphers : t \notin CipherUsers(c)'
  <2>1. Quiet(t)
    BY DEF Quiet, TypeOK, Holding
  <2> QED
    BY <2>1, QuietCounts
<1>4. CallIsRight(t)'
  BY CallIs, SMTT(30) DEF CallIsRight, InHand, Stage, HasErrno, Ident, Holding, WriterStage,
     TypeOK
<1> QED
  BY <1>1, <1>2, <1>3, <1>4, CallStep

LEMMA BadArgumentsStep ==
  ASSUME IInv, Frame, NEW t \in Threads, BadArguments(t)
  PROVE  IInv' /\ OnlyCallOf(t)
<1> USE DEF IInv, BadArguments, Begin, NoArgs, SetErrno, registries
<1>1. TypeOK'
  BY RacedType DEF TypeOK
<1>2. OnlyCallOf(t) /\ PassesStat(t)
  BY DEF OnlyCallOf, PassesStat, PastLabels, Holding, TypeOK
<1>3. Counts(t) /\ listed' = listed /\ \A c \in Ciphers : t \notin CipherUsers(c)'
  <2>1. Quiet(t)
    BY DEF Quiet, TypeOK, Holding
  <2> QED
    BY <2>1, QuietCounts
<1>4. CallIsRight(t)'
  BY CallIs, SMTT(30) DEF CallIsRight, InHand, Stage, HasErrno, Ident, Holding, WriterStage,
     TypeOK
<1> QED
  BY <1>1, <1>2, <1>3, <1>4, CallStep

LEMMA StripIdentStep ==
  ASSUME IInv, Frame, NEW t \in Threads, StripIdent(t)
  PROVE  IInv' /\ OnlyCallOf(t)
<1> USE DEF IInv, StripIdent, Goto, registries, caller
<1>1. TypeOK'
  BY RacedType DEF TypeOK, Labels
<1>2. OnlyCallOf(t)
  BY DEF OnlyCallOf, TypeOK
<1>3. PassesStat(t)
  BY DEF PassesStat, PastLabels, Holding, TypeOK
<1>4. Counts(t) /\ listed' = listed /\ \A c \in Ciphers : t \notin CipherUsers(c)'
  <2>1. Quiet(t)
    BY DEF Quiet, TypeOK, Holding
  <2> QED
    BY <2>1, QuietCounts
<1>5. CallIsRight(t)'
  BY CallIs DEF CallIsRight, InHand, Stage, HasErrno, Ident, Holding, WriterStage, TypeOK
<1> QED
  BY <1>1, <1>2, <1>3, <1>4, <1>5, CallStep

LEMMA BadIdentStep ==
  ASSUME IInv, Frame, NEW t \in Threads, BadIdent(t)
  PROVE  IInv' /\ OnlyCallOf(t)
<1> USE DEF IInv, BadIdent, Return, NoArgs, SetErrno, registries, caller
<1>1. TypeOK'
  BY RacedType DEF TypeOK, Labels
<1>2. OnlyCallOf(t)
  <2>1. file[t] = NoFile
    BY CallIs DEF CallIsRight, InHand, Holding
  <2> QED
    BY <2>1 DEF OnlyCallOf, TypeOK
<1>3. PassesStat(t)
  BY DEF PassesStat, PastLabels, Holding, TypeOK
<1>4. Counts(t) /\ listed' = listed /\ \A c \in Ciphers : t \notin CipherUsers(c)'
  <2>1. Quiet(t)
    BY DEF Quiet, TypeOK, Holding
  <2> QED
    BY <2>1, QuietCounts
<1>5. CallIsRight(t)'
  BY CallIs DEF CallIsRight, InHand, Stage, HasErrno, Ident, Holding, WriterStage, TypeOK
<1> QED
  BY <1>1, <1>2, <1>3, <1>4, <1>5, CallStep

LEMMA StatEmptyStep ==
  ASSUME IInv, Frame, NEW t \in Threads, StatEmpty(t)
  PROVE  IInv' /\ OnlyCallOf(t)
<1> USE DEF IInv, StatEmpty, Goto, registries, caller
<1>1. TypeOK'
  BY RacedType DEF TypeOK, Labels
<1>2. OnlyCallOf(t)
  BY DEF OnlyCallOf, TypeOK
<1>3. PassesStat(t)
  <2>1. args[t].fd \in Fds /\ fsize[args[t].fd] = 0 /\ args' = args
    BY CallIs DEF CallIsRight, InHand
  <2>2. \A x \in Live : header[x].msize > 0 /\ (posix => header[x].msize <= fsize[header[x].fd])
    BY DEF LiveIsComplete
  <2>3. \A x \in Live : header[x].msize \in Nat
    BY DEF TypeOK, Live
  <2>4. posix => \A x \in Live : header[x].fd # args[t].fd
    BY <2>1, <2>2, <2>3
  <2> QED
    BY <2>1, <2>4 DEF PassesStat
<1>4. Counts(t) /\ listed' = listed /\ \A c \in Ciphers : t \notin CipherUsers(c)'
  <2>1. Quiet(t)
    BY DEF Quiet, TypeOK, Holding
  <2> QED
    BY <2>1, QuietCounts
<1>5. CallIsRight(t)'
  <2>1. Ident(t)'
    BY IdentStays DEF TypeOK
  <2>2. InHand(t)' /\ Stage(t)' /\ HasErrno(t)'
    BY CallIs DEF CallIsRight, InHand, Stage, HasErrno, Holding, WriterStage, TypeOK
  <2> QED
    BY <2>1, <2>2 DEF CallIsRight
<1> QED
  BY <1>1, <1>2, <1>3, <1>4, <1>5, CallStep

LEMMA StatRefusedStep ==
  ASSUME IInv, Frame, NEW t \in Threads, StatRefused(t)
  PROVE  IInv' /\ OnlyCallOf(t)
<1> USE DEF IInv, StatRefused, Return, NoArgs, SetErrno, registries, caller
<1>1. TypeOK'
  BY RacedType DEF TypeOK, Labels
<1>2. OnlyCallOf(t)
  <2>1. file[t] = NoFile
    BY CallIs DEF CallIsRight, InHand, Holding
  <2> QED
    BY <2>1 DEF OnlyCallOf, TypeOK
<1>3. PassesStat(t)
  BY DEF PassesStat, PastLabels, Holding, TypeOK
<1>4. Counts(t) /\ listed' = listed /\ \A c \in Ciphers : t \notin CipherUsers(c)'
  <2>1. Quiet(t)
    BY DEF Quiet, TypeOK, Holding
  <2> QED
    BY <2>1, QuietCounts
<1>5. CallIsRight(t)'
  BY CallIs DEF CallIsRight, InHand, Stage, HasErrno, Ident, Holding, WriterStage, TypeOK
<1> QED
  BY <1>1, <1>2, <1>3, <1>4, <1>5, CallStep

LEMMA StatFailsStep ==
  ASSUME IInv, Frame, NEW t \in Threads, StatFails(t)
  PROVE  IInv' /\ OnlyCallOf(t)
<1> USE DEF IInv, StatFails, Return, NoArgs, SetErrno, registries, caller
<1>1. TypeOK'
  BY RacedType DEF TypeOK, Labels
<1>2. OnlyCallOf(t)
  <2>1. file[t] = NoFile
    BY CallIs DEF CallIsRight, InHand, Holding
  <2> QED
    BY <2>1 DEF OnlyCallOf, TypeOK
<1>3. PassesStat(t)
  BY DEF PassesStat, PastLabels, Holding, TypeOK
<1>4. Counts(t) /\ listed' = listed /\ \A c \in Ciphers : t \notin CipherUsers(c)'
  <2>1. Quiet(t)
    BY DEF Quiet, TypeOK, Holding
  <2> QED
    BY <2>1, QuietCounts
<1>5. CallIsRight(t)'
  BY CallIs DEF CallIsRight, InHand, Stage, HasErrno, Ident, Holding, WriterStage, TypeOK
<1> QED
  BY <1>1, <1>2, <1>3, <1>4, <1>5, CallStep

LEMMA FileNoMemoryStep ==
  ASSUME IInv, Frame, NEW t \in Threads, FileNoMemory(t)
  PROVE  IInv' /\ OnlyCallOf(t)
<1> USE DEF IInv, FileNoMemory, Return, NoArgs, SetErrno, registries, caller
<1>1. TypeOK'
  BY RacedType DEF TypeOK, Labels
<1>2. OnlyCallOf(t)
  <2>1. file[t] = NoFile
    BY CallIs DEF CallIsRight, InHand, Holding
  <2> QED
    BY <2>1 DEF OnlyCallOf, TypeOK
<1>3. PassesStat(t)
  BY DEF PassesStat, PastLabels, Holding, TypeOK
<1>4. Counts(t) /\ listed' = listed /\ \A c \in Ciphers : t \notin CipherUsers(c)'
  <2>1. Quiet(t)
    BY DEF Quiet, TypeOK, Holding
  <2> QED
    BY <2>1, QuietCounts
<1>5. CallIsRight(t)'
  BY CallIs DEF CallIsRight, InHand, Stage, HasErrno, Ident, Holding, WriterStage, TypeOK
<1> QED
  BY <1>1, <1>2, <1>3, <1>4, <1>5, CallStep

LEMMA HeaderRefStep ==
  ASSUME IInv, Frame, NEW t \in Threads, HeaderRef(t)
  PROVE  IInv' /\ OnlyCallOf(t)
<1> USE DEF IInv, HeaderRef, Goto, registries, caller
<1>1. TypeOK'
  BY RacedType DEF TypeOK, Labels
<1>2. OnlyCallOf(t)
  BY DEF OnlyCallOf, TypeOK
<1>3. PassesStat(t)
  BY DEF PassesStat, PastLabels, Holding, TypeOK
<1>4. Counts(t) /\ listed' = listed /\ \A c \in Ciphers \ listed : t \notin CipherUsers(c)'
  BY UsersAre, UsersWillBe DEF Counts, In, TypeOK, Holding
<1>5. CallIsRight(t)'
  <2>1. Ident(t)'
    BY IdentStays DEF TypeOK
  <2>2. InHand(t)' /\ Stage(t)' /\ HasErrno(t)'
    BY CallIs DEF CallIsRight, InHand, Stage, HasErrno, Msize, Holding, WriterStage, TypeOK
  <2> QED
    BY <2>1, <2>2 DEF CallIsRight
<1> QED
  BY <1>1, <1>2, <1>3, <1>4, <1>5, CallStep

LEMMA HeaderNewStep ==
  ASSUME IInv, Frame, NEW t \in Threads, HeaderNew(t)
  PROVE  IInv' /\ OnlyCallOf(t)
<1> USE DEF IInv, HeaderNew, Goto, registries, caller
<1>0. file[t] \in Files /\ args[t].fd \in Fds /\ args[t].size \in Nat
  BY CallIs, ConstantsApart DEF CallIsRight, InHand, Holding, TypeOK
<1>1. /\ header' \in [Files -> Headers] /\ Others(header', header, file[t])
      /\ header'[file[t]].fd = header[file[t]].fd /\ header'[file[t]].want = header[file[t]].want
      /\ header'[file[t]].map = header[file[t]].map
      /\ header'[file[t]].lost = header[file[t]].lost
      /\ header'[file[t]].msize = normalize_headersize(args[t].size)
  <2>1. header \in [Files -> Headers] /\ normalize_headersize(args[t].size) \in Nat
    BY <1>0, NormalizeIsNat DEF TypeOK, Headers
  <2>2. header' = SetMsize(header, file[t], normalize_headersize(args[t].size))
    BY DEF SetMsize
  <2> HIDE DEF IInv, HeaderNew, Goto, registries, caller
  <2> QED
    BY <1>0, <2>1, <2>2, MsizeChanges
<1>2. TypeOK'
  BY <1>0, <1>1, RacedType DEF TypeOK, Labels, Headers
<1>3. OnlyCallOf(t)
  BY <1>0, <1>1 DEF OnlyCallOf, Others, TypeOK
<1>4. PassesStat(t)
  BY DEF PassesStat, PastLabels, Holding, TypeOK
<1>5. Counts(t) /\ listed' = listed /\ \A c \in Ciphers \ listed : t \notin CipherUsers(c)'
  <2>1. Quiet(t)
    BY DEF Quiet, TypeOK, Holding
  <2> QED
    BY <2>1, QuietCounts
<1>6. CallIsRight(t)'
  <2>1. Ident(t)'
    BY IdentStays DEF TypeOK
  <2>2. InHand(t)' /\ Stage(t)' /\ HasErrno(t)'
    BY <1>0, <1>1, CallIs
       DEF CallIsRight, InHand, Stage, HasErrno, Msize, Holding, WriterStage, TypeOK
  <2> QED
    BY <2>1, <2>2 DEF CallIsRight
<1> QED
  BY <1>2, <1>3, <1>4, <1>5, <1>6, CallStep

LEMMA HeaderNoMemoryStep ==
  ASSUME IInv, Frame, NEW t \in Threads, HeaderNoMemory(t)
  PROVE  IInv' /\ OnlyCallOf(t)
<1> USE DEF IInv, HeaderNoMemory, Goto, SetErrno, registries, caller
<1>1. TypeOK'
  BY RacedType DEF TypeOK, Labels
<1>2. OnlyCallOf(t)
  BY DEF OnlyCallOf, TypeOK
<1>3. PassesStat(t)
  BY DEF PassesStat, PastLabels, Holding, TypeOK
<1>4. Counts(t) /\ listed' = listed /\ \A c \in Ciphers \ listed : t \notin CipherUsers(c)'
  <2>1. Quiet(t)
    BY DEF Quiet, TypeOK, Holding
  <2> QED
    BY <2>1, QuietCounts
<1>5. CallIsRight(t)'
  <2>1. Ident(t)'
    BY IdentStays DEF TypeOK
  <2>2. InHand(t)' /\ Stage(t)' /\ HasErrno(t)'
    BY CallIs DEF CallIsRight, InHand, Stage, HasErrno, Msize, Holding, WriterStage, TypeOK
  <2> QED
    BY <2>1, <2>2 DEF CallIsRight
<1> QED
  BY <1>1, <1>2, <1>3, <1>4, <1>5, CallStep

LEMMA HeaderPutStep ==
  ASSUME IInv, Frame, NEW t \in Threads, HeaderPut(t)
  PROVE  IInv' /\ OnlyCallOf(t)
<1> USE DEF IInv, HeaderPut, Goto, registries, caller
<1>1. TypeOK'
  BY RacedType DEF TypeOK, Labels
<1>2. OnlyCallOf(t)
  BY DEF OnlyCallOf, TypeOK
<1>3. PassesStat(t)
  BY DEF PassesStat, PastLabels, Holding, TypeOK
<1>4. Counts(t) /\ listed' = listed /\ \A c \in Ciphers \ listed : t \notin CipherUsers(c)'
  BY UsersAre, UsersWillBe DEF Counts, In, TypeOK, Holding
<1>5. CallIsRight(t)'
  <2>1. Ident(t)'
    BY IdentStays DEF TypeOK
  <2>2. InHand(t)' /\ Stage(t)' /\ HasErrno(t)'
    BY CallIs DEF CallIsRight, InHand, Stage, HasErrno, Msize, Holding, WriterStage, TypeOK
  <2> QED
    BY <2>1, <2>2 DEF CallIsRight
<1> QED
  BY <1>1, <1>2, <1>3, <1>4, <1>5, CallStep

LEMMA MapStep ==
  ASSUME IInv, Frame, NEW t \in Threads, Map(t)
  PROVE  IInv' /\ OnlyCallOf(t)
<1> USE DEF IInv, Map, Goto, registries, caller
<1>0. file[t] \in Files /\ args[t].fd \in Fds /\ args[t].size \in Nat
  BY CallIs, ConstantsApart DEF CallIsRight, InHand, Holding, TypeOK
<1>1. /\ header' \in [Files -> Headers] /\ Others(header', header, file[t])
      /\ header'[file[t]].fd = header[file[t]].fd /\ header'[file[t]].want = header[file[t]].want
      /\ header'[file[t]].msize = header[file[t]].msize
      /\ header'[file[t]].lost = header[file[t]].lost
      /\ header'[file[t]].map = "mapped"
  <2>1. header \in [Files -> Headers] /\ "mapped" \in {"none", "mapped", "failed"}
    BY DEF TypeOK, Headers
  <2>2. header' = SetMap(header, file[t], "mapped")
    BY DEF SetMap
  <2> HIDE DEF IInv, Map, Goto, registries, caller
  <2> QED
    BY <1>0, <2>1, <2>2, MapChanges
<1>2. TypeOK'
  BY <1>0, <1>1, RacedType DEF TypeOK, Labels, Headers
<1>3. OnlyCallOf(t)
  BY <1>0, <1>1 DEF OnlyCallOf, Others, TypeOK
<1>4. PassesStat(t)
  BY DEF PassesStat, PastLabels, Holding, TypeOK
<1>5. Counts(t) /\ listed' = listed /\ \A c \in Ciphers \ listed : t \notin CipherUsers(c)'
  <2>1. Quiet(t)
    BY DEF Quiet, TypeOK, Holding
  <2> QED
    BY <2>1, QuietCounts
<1>6. CallIsRight(t)'
  <2>1. InHand(t) /\ Stage(t) /\ Msize(t)' = Msize(t) /\ Msize(t) > 0
    BY <1>0, <1>1, CallIs DEF CallIsRight, Msize
  <2>2. InHand(t)' /\ HasErrno(t)'
    BY <1>0, <1>1, <2>1 DEF InHand, HasErrno, Holding, TypeOK
  <2>3. Stage(t)'
    BY <1>0, <1>1, <2>1 DEF Frame, Stage, WriterStage, TypeOK
  <2>4. Ident(t)'
    BY IdentStays DEF TypeOK
  <2> QED
    BY <2>4, <2>2, <2>3 DEF CallIsRight
<1> QED
  BY <1>2, <1>3, <1>4, <1>5, <1>6, CallStep

LEMMA MapFailsStep ==
  ASSUME IInv, Frame, NEW t \in Threads, MapFails(t)
  PROVE  IInv' /\ OnlyCallOf(t)
<1> USE DEF IInv, MapFails, Goto, SetErrno, registries, caller
<1>0. file[t] \in Files /\ args[t].fd \in Fds /\ args[t].size \in Nat
  BY CallIs, ConstantsApart DEF CallIsRight, InHand, Holding, TypeOK
<1>1. /\ header' \in [Files -> Headers] /\ Others(header', header, file[t])
      /\ header'[file[t]].fd = header[file[t]].fd /\ header'[file[t]].want = header[file[t]].want
      /\ header'[file[t]].msize = header[file[t]].msize
      /\ header'[file[t]].lost = header[file[t]].lost
      /\ header'[file[t]].map = "failed"
  <2>1. header \in [Files -> Headers] /\ "failed" \in {"none", "mapped", "failed"}
    BY DEF TypeOK, Headers
  <2>2. header' = SetMap(header, file[t], "failed")
    BY DEF SetMap
  <2> HIDE DEF IInv, MapFails, Goto, SetErrno, registries, caller
  <2> QED
    BY <1>0, <2>1, <2>2, MapChanges
<1>2. TypeOK'
  BY <1>0, <1>1, RacedType DEF TypeOK, Labels, Headers
<1>3. OnlyCallOf(t)
  BY <1>0, <1>1 DEF OnlyCallOf, Others, TypeOK
<1>4. PassesStat(t)
  BY DEF PassesStat, PastLabels, Holding, TypeOK
<1>5. Counts(t) /\ listed' = listed /\ \A c \in Ciphers \ listed : t \notin CipherUsers(c)'
  <2>1. Quiet(t)
    BY DEF Quiet, TypeOK, Holding
  <2> QED
    BY <2>1, QuietCounts
<1>6. CallIsRight(t)'
  <2>1. Ident(t)'
    BY IdentStays DEF TypeOK
  <2>2. InHand(t)' /\ Stage(t)' /\ HasErrno(t)'
    BY <1>0, <1>1, CallIs
       DEF CallIsRight, InHand, Stage, HasErrno, Msize, Holding, WriterStage, TypeOK
  <2> QED
    BY <2>1, <2>2 DEF CallIsRight
<1> QED
  BY <1>2, <1>3, <1>4, <1>5, <1>6, CallStep

LEMMA HeaderFreeStep ==
  ASSUME IInv, Frame, NEW t \in Threads, HeaderFree(t)
  PROVE  IInv' /\ OnlyCallOf(t)
<1> USE DEF IInv, HeaderFree, Goto, SetErrno, registries, caller
<1>0. file[t] \in Files /\ args[t].fd \in Fds /\ args[t].size \in Nat
  BY CallIs, ConstantsApart DEF CallIsRight, InHand, Holding, TypeOK
<1>1. /\ header' \in [Files -> Headers] /\ Others(header', header, file[t])
      /\ header'[file[t]].fd = header[file[t]].fd /\ header'[file[t]].want = header[file[t]].want
      /\ header'[file[t]].msize = header[file[t]].msize
      /\ header'[file[t]].lost = header[file[t]].lost
      /\ header'[file[t]].map = "none"
  <2>1. header \in [Files -> Headers] /\ "none" \in {"none", "mapped", "failed"}
    BY DEF TypeOK, Headers
  <2>2. header' = SetMap(header, file[t], "none")
    BY DEF SetMap
  <2> HIDE DEF IInv, HeaderFree, Goto, SetErrno, registries, caller
  <2> QED
    BY <1>0, <2>1, <2>2, MapChanges
<1>2. TypeOK'
  BY <1>0, <1>1, RacedType DEF TypeOK, Labels, Headers
<1>3. OnlyCallOf(t)
  BY <1>0, <1>1 DEF OnlyCallOf, Others, TypeOK
<1>4. PassesStat(t)
  BY DEF PassesStat, PastLabels, Holding, TypeOK
<1>5. Counts(t) /\ listed' = listed /\ \A c \in Ciphers \ listed : t \notin CipherUsers(c)'
  <2>1. Quiet(t)
    BY DEF Quiet, TypeOK, Holding
  <2> QED
    BY <2>1, QuietCounts
<1>6. CallIsRight(t)'
  <2>1. Ident(t)'
    BY IdentStays DEF TypeOK
  <2>2. InHand(t)' /\ Stage(t)' /\ HasErrno(t)'
    BY <1>0, <1>1, CallIs
       DEF CallIsRight, InHand, Stage, HasErrno, Msize, Holding, WriterStage, TypeOK
  <2> QED
    BY <2>1, <2>2 DEF CallIsRight
<1> QED
  BY <1>2, <1>3, <1>4, <1>5, <1>6, CallStep

\* posix_fallocate() never makes a file smaller.
LEMMA ExtendGrows ==
  ASSUME fsize \in [Fds -> Nat], NEW f \in Fds, NEW n \in Int, Extend(f, n)
  PROVE  /\ fsize' \in [Fds -> Nat] /\ \A g \in Fds : fsize'[g] >= fsize[g]
         /\ fsize'[f] >= n
<1>1. PICK k : k = (IF fsize[f] < n THEN n ELSE fsize[f])
  OBVIOUS
<1>2. fsize[f] \in Nat
  OBVIOUS
<1>3. k \in Nat /\ k >= fsize[f] /\ k >= n
  BY <1>1, <1>2
<1>4. fsize' = [fsize EXCEPT ![f] = k]
  BY <1>1 DEF Extend
<1>5. \A g \in Fds : fsize'[g] = IF g = f THEN k ELSE fsize[g]
  BY <1>4
<1>6. \A g \in Fds : fsize[g] \in Nat
  OBVIOUS
<1>7. fsize' \in [Fds -> Nat]
  BY <1>3, <1>4
<1> QED
  BY <1>3, <1>5, <1>6, <1>7

LEMMA AllocateStep ==
  ASSUME IInv, Frame, NEW t \in Threads, Allocate(t)
  PROVE  IInv' /\ OnlyCallOf(t)
<1> USE DEF IInv, Allocate, Goto, registries, caller
<1>0. /\ file[t] \in Files /\ args[t].fd \in Fds /\ InHand(t) /\ Stage(t)
      /\ Msize(t) \in Nat /\ Msize(t)' = Msize(t)
  BY CallIs DEF CallIsRight, InHand, Holding, TypeOK, Msize
<1>1. /\ fsize' \in [Fds -> Nat] /\ \A f \in Fds : fsize'[f] >= fsize[f]
      /\ posix => fsize'[args[t].fd] >= Msize(t)
  <2>1. fsize \in [Fds -> Nat] /\ \A f \in Fds : fsize[f] >= fsize[f]
    BY DEF TypeOK
  <2>2. CASE posix
    <3>1. Extend(args[t].fd, Msize(t))
      BY <2>2
    <3> QED
      BY <1>0, <2>1, <3>1, ExtendGrows
  <2>3. CASE ~posix
    BY <2>1, <2>3
  <2> QED
    BY <2>2, <2>3
<1>2. TypeOK'
  BY <1>1, RacedType DEF TypeOK, Labels
<1>3. OnlyCallOf(t)
  BY <1>1 DEF OnlyCallOf, TypeOK
<1>4. PassesStat(t)
  BY DEF PassesStat, PastLabels, Holding, TypeOK
<1>5. Counts(t) /\ listed' = listed /\ \A c \in Ciphers \ listed : t \notin CipherUsers(c)'
  <2>1. Quiet(t)
    BY DEF Quiet, TypeOK, Holding
  <2> QED
    BY <2>1, QuietCounts
<1>6. CallIsRight(t)'
  <2>1. InHand(t)' /\ HasErrno(t)'
    BY <1>0 DEF InHand, HasErrno, Holding, TypeOK
  <2>2. fsize'[args[t].fd] \in Nat
    BY <1>0, <1>1
  <2>3. Stage(t)'
    BY <1>0, <1>1, <2>2 DEF Frame, Stage, WriterStage, TypeOK
  <2>4. Ident(t)'
    BY IdentStays DEF TypeOK
  <2> QED
    BY <2>4, <2>1, <2>3 DEF CallIsRight
<1> QED
  BY <1>2, <1>3, <1>4, <1>5, <1>6, CallStep

LEMMA AllocateFailsStep ==
  ASSUME IInv, Frame, NEW t \in Threads, AllocateFails(t)
  PROVE  IInv' /\ OnlyCallOf(t)
<1> USE DEF IInv, AllocateFails, Goto, SetErrno, registries, caller
<1>0. /\ file[t] \in Files /\ args[t].fd \in Fds /\ InHand(t)
      /\ Msize(t) \in Nat /\ PageSize \in Nat
  BY CallIs, FileCreateAssumption DEF CallIsRight, InHand, Holding, TypeOK, Msize
<1>1. fsize' \in [Fds -> Nat] /\ \A f \in Fds : fsize'[f] >= fsize[f]
  <2>1. fsize \in [Fds -> Nat] /\ \A f \in Fds : fsize[f] >= fsize[f]
    BY DEF TypeOK
  <2>2. CASE UNCHANGED fsize
    BY <2>1, <2>2
  <2>3. CASE ~UNCHANGED fsize
    <3>1. PICK n \in {0, Msize(t) - PageSize} : Extend(args[t].fd, n)
      BY <2>3
    <3>2. n \in Int
      BY <1>0
    <3> QED
      BY <1>0, <2>1, <3>1, <3>2, ExtendGrows
  <2> QED
    BY <2>2, <2>3
<1>2. \E e \in {"EINVAL", "ENOSPC", "-1"} : errno' = [errno EXCEPT ![t] = e]
  OBVIOUS
<1>3. TypeOK'
  BY <1>1, <1>2, RacedType DEF TypeOK, Labels
<1>4. OnlyCallOf(t)
  BY <1>1, <1>2 DEF OnlyCallOf, TypeOK
<1>5. PassesStat(t)
  BY DEF PassesStat, PastLabels, Holding, TypeOK
<1>6. Counts(t) /\ listed' = listed /\ \A c \in Ciphers \ listed : t \notin CipherUsers(c)'
  <2>1. Quiet(t)
    BY DEF Quiet, TypeOK, Holding
  <2> QED
    BY <2>1, QuietCounts
<1>7. CallIsRight(t)'
  <2>1. Ident(t)'
    BY IdentStays DEF TypeOK
  <2>2. InHand(t)' /\ Stage(t)' /\ HasErrno(t)'
    BY <1>0, <1>2 DEF CallIsRight, InHand, Stage, HasErrno, Holding, WriterStage, TypeOK
  <2> QED
    BY <2>1, <2>2 DEF CallIsRight
<1> QED
  BY <1>3, <1>4, <1>5, <1>6, <1>7, CallStep

LEMMA FileNewStep ==
  ASSUME IInv, Frame, NEW t \in Threads, FileNew(t)
  PROVE  IInv' /\ OnlyCallOf(t)
<1> USE DEF IInv, FileNew, Goto, registries, caller
<1>0. /\ file[t] = NoFile /\ args[t] \in [fd : Fds, name : Names, size : Sizes, ident : Nat]
      /\ args[t].size \in Nat /\ args[t].fd \in Fds
  BY CallIs, ConstantsApart DEF CallIsRight, InHand, Holding
<1>1. PICK x \in Unused : /\ file' = [file EXCEPT ![t] = x]
                          /\ header' = [header EXCEPT ![x] = Fresh(args[t].fd, args[t].size)]
  OBVIOUS
<1>2. x \in Files /\ x # NoFile /\ file'[t] = x
  BY <1>1, ConstantsApart DEF Unused, TypeOK
<1>3. /\ header'[x].fd = args[t].fd /\ header'[x].want = args[t].size
      /\ header' \in [Files -> Headers] /\ Others(header', header, x)
  BY <1>0, <1>1, <1>2 DEF Fresh, Headers, Others, TypeOK
<1>4. TypeOK'
  BY <1>1, <1>2, <1>3, RacedType DEF TypeOK, Labels, Headers
<1>5. OnlyCallOf(t)
  BY <1>0, <1>1, <1>2, <1>3 DEF OnlyCallOf, Others, TypeOK
<1>6. PassesStat(t)
  BY DEF PassesStat, PastLabels, Holding, TypeOK
<1>7. Counts(t) /\ listed' = listed /\ \A c \in Ciphers \ listed : t \notin CipherUsers(c)'
  <2>1. Quiet(t)
    BY DEF Quiet, TypeOK, Holding
  <2> QED
    BY <2>1, QuietCounts
<1>8. CallIsRight(t)'
  <2>1. Ident(t)'
    BY IdentStays DEF TypeOK
  <2>2. InHand(t)' /\ Stage(t)' /\ HasErrno(t)'
    BY <1>0, <1>2, <1>3, CallIs
       DEF CallIsRight, InHand, Stage, HasErrno, Holding, WriterStage, TypeOK
  <2> QED
    BY <2>1, <2>2 DEF CallIsRight
<1> QED
  BY <1>4, <1>5, <1>6, <1>7, <1>8, CallStep

LEMMA FileFreeStep ==
  ASSUME IInv, Frame, NEW t \in Threads, FileFree(t)
  PROVE  IInv' /\ OnlyCallOf(t)
<1> USE DEF IInv, FileFree, Return, NoArgs, registries
<1>0. file[t] \in Files /\ file[t] # NoFile
  BY CallIs DEF CallIsRight, InHand, Holding, TypeOK
<1>1. /\ header'[file[t]].fd = NoFd
      /\ header' \in [Files -> Headers] /\ Others(header', header, file[t])
  BY <1>0 DEF Blank, Fresh, Headers, Others, TypeOK
<1>2. TypeOK'
  BY <1>1, RacedType DEF TypeOK, Labels, Headers
<1>3. OnlyCallOf(t)
  BY <1>0, <1>1 DEF OnlyCallOf, Others, TypeOK
<1>4. PassesStat(t)
  BY DEF PassesStat, PastLabels, Holding, TypeOK
<1>5. Counts(t) /\ listed' = listed /\ \A c \in Ciphers \ listed : t \notin CipherUsers(c)'
  <2>1. Quiet(t)
    BY DEF Quiet, TypeOK, Holding
  <2> QED
    BY <2>1, QuietCounts
<1>6. CallIsRight(t)'
  BY CallIs DEF CallIsRight, InHand, Stage, HasErrno, Ident, Holding, WriterStage, TypeOK
<1> QED
  BY <1>2, <1>3, <1>4, <1>5, <1>6, CallStep

LEMMA WriterRefStep ==
  ASSUME IInv, Frame, NEW t \in Threads, WriterRef(t)
  PROVE  IInv' /\ OnlyCallOf(t)
<1> USE DEF IInv, WriterRef, Goto, registries, caller
<1>1. TypeOK'
  BY RacedType DEF TypeOK, Labels
<1>2. OnlyCallOf(t)
  BY DEF OnlyCallOf, TypeOK
<1>3. PassesStat(t)
  BY DEF PassesStat, PastLabels, Holding, TypeOK
<1>4. Counts(t) /\ listed' = listed /\ \A c \in Ciphers \ listed : t \notin CipherUsers(c)'
  BY UsersAre, UsersWillBe DEF Counts, In, TypeOK, Holding
<1>5. CallIsRight(t)'
  <2>1. Ident(t)'
    BY IdentStays DEF TypeOK
  <2>2. InHand(t)' /\ Stage(t)' /\ HasErrno(t)'
    BY CallIs DEF Frame, CallIsRight, InHand, Stage, HasErrno, Msize, Holding, WriterStage, TypeOK
  <2> QED
    BY <2>1, <2>2 DEF CallIsRight
<1> QED
  BY <1>1, <1>2, <1>3, <1>4, <1>5, CallStep

LEMMA CipherRefStep ==
  ASSUME IInv, Frame, NEW t \in Threads, CipherRef(t)
  PROVE  IInv' /\ OnlyCallOf(t)
<1> USE DEF IInv, CipherRef, Goto, registries, caller
<1>0. args[t].name \in listed /\ args[t].name \in Ciphers
  BY DEF TypeOK
<1>1. TypeOK'
  BY <1>0, RacedType DEF TypeOK, Labels
<1>2. OnlyCallOf(t)
  BY DEF OnlyCallOf, TypeOK
<1>3. PassesStat(t)
  BY DEF PassesStat, PastLabels, Holding, TypeOK
<1>4. Counts(t) /\ listed' = listed /\ \A c \in Ciphers \ listed : t \notin CipherUsers(c)'
  <2>1. pc'[t] = "writer_new" /\ ctype'[t] = args[t].name /\ pc[t] = "cipher_ref"
    BY DEF TypeOK
  <2>2. \A c \in Ciphers : t \notin CipherUsers(c) /\ (t \in CipherUsers(c)' <=> c = args[t].name)
    BY <2>1, UsersAre, UsersWillBe
  <2>3. \A c \in Ciphers : cipherRefs'[c] = cipherRefs[c] + (IF c = args[t].name THEN 1 ELSE 0)
    BY <1>0 DEF TypeOK
  <2>4. \A c \in Ciphers :
          cipherRefs'[c] = cipherRefs[c] + In(t \in CipherUsers(c)') - In(t \in CipherUsers(c))
    BY <2>2, <2>3 DEF In, TypeOK
  <2>5. /\ headerRefs' = headerRefs + In(t \in HeaderUsers') - In(t \in HeaderUsers)
        /\ writerRefs' = writerRefs + In(t \in WriterUsers') - In(t \in WriterUsers)
    BY <2>1, UsersAre, UsersWillBe DEF In, TypeOK, Holding
  <2> QED
    BY <1>0, <2>2, <2>4, <2>5 DEF Counts
<1>5. CallIsRight(t)'
  <2>1. Ident(t)'
    BY IdentStays DEF TypeOK
  <2>2. InHand(t)' /\ Stage(t)' /\ HasErrno(t)'
    BY <1>0, CallIs
       DEF Frame, CallIsRight, InHand, Stage, HasErrno, Msize, Holding, WriterStage, TypeOK
  <2> QED
    BY <2>1, <2>2 DEF CallIsRight
<1> QED
  BY <1>1, <1>2, <1>3, <1>4, <1>5, CallStep

LEMMA CipherUnknownStep ==
  ASSUME IInv, Frame, NEW t \in Threads, CipherUnknown(t)
  PROVE  IInv' /\ OnlyCallOf(t)
<1> USE DEF IInv, CipherUnknown, Goto, registries, caller
<1>1. TypeOK'
  BY RacedType DEF TypeOK, Labels
<1>2. OnlyCallOf(t)
  BY DEF OnlyCallOf, TypeOK
<1>3. PassesStat(t)
  BY DEF PassesStat, PastLabels, Holding, TypeOK
<1>4. Counts(t) /\ listed' = listed /\ \A c \in Ciphers \ listed : t \notin CipherUsers(c)'
  BY ConstantsApart, UsersAre, UsersWillBe DEF Counts, In, TypeOK, Holding
<1>5. CallIsRight(t)'
  <2>1. Ident(t)'
    BY IdentStays DEF TypeOK
  <2>2. InHand(t)' /\ Stage(t)' /\ HasErrno(t)'
    BY CallIs DEF Frame, CallIsRight, InHand, Stage, HasErrno, Msize, Holding, WriterStage, TypeOK
  <2> QED
    BY <2>1, <2>2 DEF CallIsRight
<1> QED
  BY <1>1, <1>2, <1>3, <1>4, <1>5, CallStep

LEMMA WriterNoMemoryStep ==
  ASSUME IInv, Frame, NEW t \in Threads, WriterNoMemory(t)
  PROVE  IInv' /\ OnlyCallOf(t)
<1> USE DEF IInv, WriterNoMemory, Goto, SetErrno, registries, caller
<1>1. TypeOK'
  BY RacedType DEF TypeOK, Labels
<1>2. OnlyCallOf(t)
  BY DEF OnlyCallOf, TypeOK
<1>3. PassesStat(t)
  BY DEF PassesStat, PastLabels, Holding, TypeOK
<1>4. Counts(t) /\ listed' = listed /\ \A c \in Ciphers \ listed : t \notin CipherUsers(c)'
  <2>1. \A c \in Ciphers : t \in CipherUsers(c)' <=> t \in CipherUsers(c)
    BY UsersAre, UsersWillBe DEF TypeOK
  <2>2. Counts(t) /\ listed' = listed
    BY <2>1, UsersAre, UsersWillBe DEF Counts, In, TypeOK, Holding
  <2> QED
    BY <2>1, <2>2 DEF UsersAreListed
<1>5. CallIsRight(t)'
  <2>1. Ident(t)'
    BY IdentStays DEF TypeOK
  <2>2. InHand(t)' /\ Stage(t)' /\ HasErrno(t)'
    BY CallIs DEF Frame, CallIsRight, InHand, Stage, HasErrno, Msize, Holding, WriterStage, TypeOK
  <2> QED
    BY <2>1, <2>2 DEF CallIsRight
<1> QED
  BY <1>1, <1>2, <1>3, <1>4, <1>5, CallStep

LEMMA WriterPutStep ==
  ASSUME IInv, Frame, NEW t \in Threads, WriterPut(t)
  PROVE  IInv' /\ OnlyCallOf(t)
<1> USE DEF IInv, WriterPut, Goto, registries, caller
<1>0. /\ pc[t] = "writer_put" /\ ctype[t] \in Ciphers \cup {NoCipher}
      /\ \/ ctype[t] = NoCipher /\ pc' = [pc EXCEPT ![t] = "header_free"]
         \/ ctype[t] \in Ciphers /\ pc' = [pc EXCEPT ![t] = "cipher_put"]
  BY CallIs, ConstantsApart DEF CallIsRight, Stage
<1>1. TypeOK'
  BY <1>0, RacedType DEF TypeOK, Labels
<1>2. OnlyCallOf(t)
  BY DEF OnlyCallOf, TypeOK
<1>3. PassesStat(t)
  BY DEF PassesStat, PastLabels, Holding, TypeOK
<1>4. Counts(t) /\ listed' = listed /\ \A c \in Ciphers \ listed : t \notin CipherUsers(c)'
  <2>1. \A c \in Ciphers : t \in CipherUsers(c)' <=> t \in CipherUsers(c)
    BY <1>0, ConstantsApart, UsersAre, UsersWillBe DEF TypeOK
  <2>2. Counts(t) /\ listed' = listed
    BY <1>0, <2>1, UsersAre, UsersWillBe DEF Counts, In, TypeOK, Holding
  <2> QED
    BY <2>1, <2>2 DEF UsersAreListed
<1>5. CallIsRight(t)'
  <2>1. Ident(t)'
    BY IdentStays DEF TypeOK
  <2>2. InHand(t)' /\ Stage(t)' /\ HasErrno(t)'
    BY <1>0, CallIs, ConstantsApart
       DEF Frame, CallIsRight, InHand, Stage, HasErrno, Msize, Holding, WriterStage, TypeOK
  <2> QED
    BY <2>1, <2>2 DEF CallIsRight
<1> QED
  BY <1>1, <1>2, <1>3, <1>4, <1>5, CallStep

LEMMA CipherPutStep ==
  ASSUME IInv, Frame, NEW t \in Threads, CipherPut(t)
  PROVE  IInv' /\ OnlyCallOf(t)
<1> USE DEF IInv, CipherPut, Goto, registries, caller
<1>0. pc[t] = "cipher_put" /\ ctype[t] \in Ciphers
  BY CallIs DEF CallIsRight, Stage
<1>1. TypeOK'
  BY <1>0, RacedType DEF TypeOK, Labels
<1>2. OnlyCallOf(t)
  BY DEF OnlyCallOf, TypeOK
<1>3. PassesStat(t)
  BY DEF PassesStat, PastLabels, Holding, TypeOK
<1>4. Counts(t) /\ listed' = listed /\ \A c \in Ciphers : t \notin CipherUsers(c)'
  <2>1. pc'[t] = "header_free" /\ pc[t] = "cipher_put"
    BY DEF TypeOK
  <2>2. \A c \in Ciphers : t \notin CipherUsers(c)' /\ (t \in CipherUsers(c) <=> c = ctype[t])
    BY <2>1, UsersAre, UsersWillBe
  <2>3. \A c \in Ciphers : cipherRefs'[c] = cipherRefs[c] - (IF c = ctype[t] THEN 1 ELSE 0)
    BY <1>0 DEF TypeOK
  <2>4. \A c \in Ciphers :
          cipherRefs'[c] = cipherRefs[c] + In(t \in CipherUsers(c)') - In(t \in CipherUsers(c))
    BY <2>2, <2>3 DEF In, TypeOK
  <2>5. /\ headerRefs' = headerRefs + In(t \in HeaderUsers') - In(t \in HeaderUsers)
        /\ writerRefs' = writerRefs + In(t \in WriterUsers') - In(t \in WriterUsers)
    BY <2>1, UsersAre, UsersWillBe DEF In, TypeOK, Holding
  <2> QED
    BY <1>0, <2>2, <2>4, <2>5 DEF Counts
<1>5. CallIsRight(t)'
  <2>1. Ident(t)'
    BY IdentStays DEF TypeOK
  <2>2. InHand(t)' /\ Stage(t)' /\ HasErrno(t)'
    BY CallIs DEF CallIsRight, InHand, Stage, HasErrno, Msize, Holding, WriterStage, TypeOK
  <2> QED
    BY <2>1, <2>2 DEF CallIsRight
<1> QED
  BY <1>1, <1>2, <1>3, <1>4, <1>5, CallStep

-----------------------------------------------------------------------------
(***************************************************************************)
(* The step that creates a file.                                           *)
(***************************************************************************)
\* The file of the call joins the created ones, with the cipher of the call.
LEMMA CreatesFile ==
  ASSUME IInv, Frame, NEW t \in Threads, WriterNew(t)
  PROVE  /\ ctype[t] \in Ciphers /\ file[t] \in Files /\ header'[file[t]].lost = ctype[t]
         /\ pc[t] = "writer_new" /\ pc'[t] = "idle"
         /\ \A u \in Threads \ {t} : pc'[u] = pc[u] /\ ctype'[u] = ctype[u]
         /\ file[t] \notin Live /\ Live' = Live \cup {file[t]}
         /\ \A x \in Live : header'[x] = header[x]
<1> USE DEF IInv, WriterNew, Return, NoArgs, registries
<1> DEFINE new == file[t]
<1>0. /\ InHand(t) /\ Stage(t) /\ pc[t] = "writer_new" /\ pc'[t] = "idle"
      /\ new \in Files /\ new # NoFile /\ args[t].fd \in Fds /\ args[t].size \in Sizes
      /\ header[new].fd = args[t].fd /\ header[new].want = args[t].size
      /\ header[new].msize = normalize_headersize(args[t].size)
      /\ header[new].map = "mapped" /\ header[new].msize > 0
      /\ posix => header[new].msize <= fsize[args[t].fd]
      /\ ctype[t] \in Ciphers /\ t \in CipherUsers(ctype[t])
      /\ file'[t] = NoFile /\ ret'[t] = "file"
      /\ raced \subseteq raced' /\ posix' = posix
  BY CallIs DEF CallIsRight, InHand, Stage, Msize, Holding, WriterStage, TypeOK, CipherUsers, Frame
<1>2. /\ header' \in [Files -> Headers] /\ Others(header', header, new)
      /\ header'[new].fd = header[new].fd /\ header'[new].want = header[new].want
      /\ header'[new].msize = header[new].msize /\ header'[new].map = header[new].map
      /\ header'[new].lost = ctype[t]
  <2>1. header \in [Files -> Headers]
    BY DEF TypeOK, Headers
  <2>2. header' = SetLost(header, new, ctype[t])
    BY DEF SetLost
  <2> HIDE DEF IInv, WriterNew, Return, NoArgs, registries
  <2> QED
    BY <1>0, <2>1, <2>2, LostChanges
<1> HIDE DEF new
<1>3. \A u \in Threads \ {t} : /\ pc'[u] = pc[u] /\ args'[u] = args[u] /\ file'[u] = file[u]
                               /\ ctype'[u] = ctype[u] /\ errno'[u] = errno[u] /\ ret'[u] = ret[u]
                              /\ idents'[u] = idents[u]
                               /\ file[u] # new
  BY <1>0 DEF TypeOK, FilesApart, new
<1>4. new \notin Live /\ Live' = Live \cup {new} /\ \A x \in Live : header'[x] = header[x]
  <2>1. new \notin Live
    BY DEF Live, new
  <2>2. new \in Live'
    BY <1>0, <1>2, <1>3, ConstantsApart DEF Live
  <2>3. ASSUME NEW x \in Live PROVE x \in Live' /\ header'[x] = header[x]
    BY <1>0, <1>2, <1>3, <2>1, ConstantsApart DEF Live, Others
  <2>4. ASSUME NEW x \in Live', x # new PROVE x \in Live
    <3>1. x \in Files /\ header[x].fd # NoFd /\ \A u \in Threads \ {t} : file[u] # x
      BY <1>2, <1>3, <2>4 DEF Live, Others
    <3> QED
      BY <2>4, <3>1 DEF Live, new
  <2> QED
    BY <2>1, <2>2, <2>3, <2>4
<1> QED
  BY <1>0, <1>2, <1>3, <1>4 DEF new

LEMMA WriterNewStep ==
  ASSUME IInv, Frame, NEW t \in Threads, WriterNew(t)
  PROVE  IInv'
<1> USE DEF IInv, WriterNew, Return, NoArgs, registries
<1> DEFINE new == file[t]
<1>0. /\ InHand(t) /\ Stage(t) /\ pc[t] = "writer_new" /\ pc'[t] = "idle"
      /\ new \in Files /\ new # NoFile /\ args[t].fd \in Fds /\ args[t].size \in Sizes
      /\ header[new].fd = args[t].fd /\ header[new].want = args[t].size
      /\ header[new].msize = normalize_headersize(args[t].size)
      /\ header[new].map = "mapped" /\ header[new].msize > 0
      /\ posix => header[new].msize <= fsize[args[t].fd]
      /\ ctype[t] \in Ciphers /\ t \in CipherUsers(ctype[t])
      /\ file'[t] = NoFile /\ ret'[t] = "file"
      /\ raced \subseteq raced' /\ posix' = posix
  BY CallIs DEF CallIsRight, InHand, Stage, Msize, Holding, WriterStage, TypeOK, CipherUsers, Frame
<1>1. ctype[t] \in listed
  BY <1>0 DEF UsersAreListed
<1>2. /\ header' \in [Files -> Headers] /\ Others(header', header, new)
      /\ header'[new].fd = header[new].fd /\ header'[new].want = header[new].want
      /\ header'[new].msize = header[new].msize /\ header'[new].map = header[new].map
      /\ header'[new].lost = ctype[t]
  <2>1. header \in [Files -> Headers]
    BY DEF TypeOK, Headers
  <2>2. header' = SetLost(header, new, ctype[t])
    BY DEF SetLost
  <2> HIDE DEF IInv, WriterNew, Return, NoArgs, registries
  <2> QED
    BY <1>0, <2>1, <2>2, LostChanges
<1> HIDE DEF new
<1>3. \A u \in Threads \ {t} : /\ pc'[u] = pc[u] /\ args'[u] = args[u] /\ file'[u] = file[u]
                               /\ ctype'[u] = ctype[u] /\ errno'[u] = errno[u] /\ ret'[u] = ret[u]
                               /\ idents'[u] = idents[u]
                               /\ file[u] # new
  BY <1>0 DEF TypeOK, FilesApart, new
<1>4. new \notin Live /\ Live' = Live \cup {new} /\ \A x \in Live : header'[x] = header[x]
  BY CreatesFile DEF new
<1>5. TypeOK'
  BY <1>2, RacedType DEF TypeOK, Labels, Headers
<1>6. CallsAreRight' /\ FilesApart'
  <2>1. FilesApart'
    BY <1>0, <1>3 DEF FilesApart
  <2>2. CallIsRight(t)'
    <3>1. Ident(t)'
      <4>1. idents[t] = args[t].ident - 1 /\ args'[t].ident = args[t].ident /\ idents' = idents
        BY <1>0, CallIs DEF CallIsRight, Ident, TypeOK
      <4> QED
        BY <1>0, <4>1 DEF Ident, TypeOK
    <3>2. InHand(t)' /\ Stage(t)' /\ HasErrno(t)'
      BY <1>0 DEF InHand, Stage, HasErrno, Holding, WriterStage
    <3> QED
      BY <3>1, <3>2 DEF CallIsRight
  <2>3. ASSUME NEW u \in Threads \ {t} PROVE CallIsRight(u)'
    <3>1. InHand(u) /\ Stage(u) /\ HasErrno(u) /\ Ident(u)
      BY CallIs DEF CallIsRight
    <3>2. file[u] # NoFile => header'[file[u]] = header[file[u]]
      BY <1>2, <1>3 DEF Others, TypeOK
    <3>3. pc[u] \in Holding => header'[file[u]] = header[file[u]]
      BY <3>1, <3>2 DEF InHand
    <3>4. InHand(u)' /\ HasErrno(u)' /\ Ident(u)'
      BY <1>3, <3>1, <3>3 DEF InHand, HasErrno, Ident
    <3>5. Stage(u)'
      BY <1>0, <1>3, <3>1, <3>3 DEF Stage, Msize, Holding, WriterStage
    <3> QED
      BY <3>4, <3>5 DEF CallIsRight
  <2> QED
    BY <2>1, <2>2, <2>3 DEF CallsAreRight
<1>7. LiveIsComplete'
  BY <1>0, <1>2, <1>4 DEF LiveIsComplete
<1>8. RefsBalanced'
  <2>1. IsFiniteSet(Threads) /\ IsFiniteSet(Files)
    BY FileCreateAssumption
  <2>2. IsFiniteSet(Live) /\ \A c \in Ciphers : IsFiniteSet(LiveFor(c))
    <3>1. Live \subseteq Files /\ \A c \in Ciphers : LiveFor(c) \subseteq Files
      BY DEF Live, LiveFor
    <3> QED
      BY <2>1, <3>1, FS_Subset
  <2>3. /\ Cardinality(Live) \in Nat /\ Cardinality(Live') = Cardinality(Live) + 1
        /\ \A c \in Ciphers : Cardinality(LiveFor(c)) \in Nat
    BY <1>4, <2>2, FS_AddElement, FS_CardinalityType
  <2>4. ASSUME NEW A, NEW B, A \subseteq Threads, B = A \ {t}, t \in A
        PROVE  Cardinality(A) \in Nat /\ Cardinality(B) = Cardinality(A) - 1
    BY <2>1, <2>4, FS_Subset, FS_RemoveElement, FS_CardinalityType
  <2>5. /\ HeaderUsers \subseteq Threads /\ HeaderUsers' = HeaderUsers \ {t} /\ t \in HeaderUsers
        /\ WriterUsers \subseteq Threads /\ WriterUsers' = WriterUsers \ {t} /\ t \in WriterUsers
    BY <1>0, <1>3 DEF HeaderUsers, WriterUsers
  <2>6. /\ Cardinality(HeaderUsers) \in Nat
        /\ Cardinality(HeaderUsers') = Cardinality(HeaderUsers) - 1
        /\ Cardinality(WriterUsers) \in Nat
        /\ Cardinality(WriterUsers') = Cardinality(WriterUsers) - 1
    BY <2>4, <2>5
  <2>7. /\ headerRefs' = 1 + Cardinality(HeaderUsers') + Cardinality(Live')
        /\ writerRefs' = 1 + Cardinality(WriterUsers') + Cardinality(Live')
    BY <2>3, <2>6 DEF RefsBalanced
  <2>8. ASSUME NEW c \in Ciphers
        PROVE  cipherRefs'[c] = 1 + Cardinality(CipherUsers(c)')
                                  + Cardinality({x \in Live' : header'[x].lost = c})
    <3>1. cipherRefs'[c] = 1 + Cardinality(CipherUsers(c)) + Cardinality(LiveFor(c))
      BY DEF RefsBalanced, LiveFor
    <3>2. CASE c = ctype[t]
      <4>1. {x \in Live' : header'[x].lost = c} = LiveFor(c) \cup {new} /\ new \notin LiveFor(c)
        BY <1>2, <1>4, <3>2 DEF LiveFor
      <4>2. /\ CipherUsers(c) \subseteq Threads /\ CipherUsers(c)' = CipherUsers(c) \ {t}
            /\ t \in CipherUsers(c)
        BY <1>0, <1>3, <3>2 DEF CipherUsers
      <4>3. Cardinality(LiveFor(c) \cup {new}) = Cardinality(LiveFor(c)) + 1
        BY <2>2, <4>1, FS_AddElement
      <4>4. /\ Cardinality(CipherUsers(c)) \in Nat
            /\ Cardinality(CipherUsers(c)') = Cardinality(CipherUsers(c)) - 1
        BY <2>4, <4>2
      <4>5. Cardinality(LiveFor(c)) \in Nat
        BY <2>3
      <4>6. cipherRefs'[c] = 1 + Cardinality(CipherUsers(c)') + Cardinality(LiveFor(c) \cup {new})
        BY <3>1, <4>3, <4>4, <4>5
      <4> QED
        BY <4>1, <4>6
    <3>3. CASE c # ctype[t]
      <4>1. {x \in Live' : header'[x].lost = c} = LiveFor(c)
        BY <1>2, <1>4, <3>3 DEF LiveFor
      <4>2. CipherUsers(c)' = CipherUsers(c)
        BY <1>0, <1>3, <3>3 DEF CipherUsers
      <4> QED
        BY <3>1, <4>1, <4>2
    <3> QED
      BY <3>2, <3>3
  <2> QED
    BY <2>7, <2>8 DEF RefsBalanced
<1>9. UsersAreListed'
  <2> SUFFICES ASSUME NEW c \in Ciphers \ listed
               PROVE  CipherUsers(c)' = {} /\ \A x \in Live' : header'[x].lost # c
    BY DEF UsersAreListed
  <2>1. CipherUsers(c) = {} /\ \A x \in Live : header[x].lost # c
    BY DEF UsersAreListed
  <2>2. CipherUsers(c)' \subseteq CipherUsers(c)
    BY <1>0, <1>3 DEF CipherUsers
  <2> QED
    BY <1>1, <1>2, <1>4, <2>1, <2>2
<1>10. RacingKnown'
  BY DEF Frame, RacingKnown
<1>11. PastStat'
  <2> SUFFICES ASSUME posix, NEW u \in Threads, NEW x \in Live',
                      pc'[u] \in PastLabels, header'[x].fd = args'[u].fd
               PROVE  args'[u].fd \in raced'
    BY <1>0 DEF PastStat
  <2>1. u # t /\ pc[u] \in PastLabels /\ args'[u] = args[u]
    BY <1>0, <1>3 DEF PastLabels, Holding
  <2>2. CASE x \in Live
    BY <1>0, <1>4, <2>1, <2>2 DEF PastStat
  <2>3. CASE x = new
    <3>1. args[u].fd = args[t].fd
      BY <1>0, <1>2, <2>1, <2>3
    <3>2. pc[u] # "idle" /\ pc[t] # "idle"
      BY <1>0, <2>1 DEF PastLabels, Holding
    <3>3. args[t].fd \in Racing
      BY <1>0, <2>1, <3>1, <3>2 DEF Racing
    <3> QED
      BY <1>0, <2>1, <3>1, <3>3 DEF RacingKnown
  <2> QED
    BY <1>4, <2>2, <2>3
<1>12. OneHeaderPerFile'
  <2>1. posix => \A x \in Live : header[x].fd = args[t].fd => args[t].fd \in raced
    <3>1. pc[t] \in PastLabels
      BY <1>0 DEF PastLabels, Holding
    <3> QED
      BY <3>1 DEF PastStat
  <2> SUFFICES ASSUME posix, NEW x \in Live', NEW y \in Live', header'[x].fd = header'[y].fd,
                      header'[x].fd \notin raced'
               PROVE  x = y
    BY <1>0 DEF OneHeaderPerFile
  <2>2. CASE x \in Live /\ y \in Live
    BY <1>0, <1>4, <2>2 DEF OneHeaderPerFile
  <2>3. CASE x = new /\ y \in Live
    BY <1>0, <1>2, <1>4, <2>1, <2>3
  <2>4. CASE x \in Live /\ y = new
    BY <1>0, <1>2, <1>4, <2>1, <2>4
  <2> QED
    BY <1>4, <2>2, <2>3, <2>4
<1> QED
  BY <1>5, <1>6, <1>7, <1>8, <1>9, <1>10, <1>11, <1>12

-----------------------------------------------------------------------------
(***************************************************************************)
(* The rest of the program, and no step at all.                            *)
(***************************************************************************)
\* No call moves.
LEMMA NoCallStep ==
  ASSUME IInv, Frame, TypeOK', UsersAreListed',
         UNCHANGED <<fsize, idents, headerRefs, writerRefs, pc, args, file, ctype, errno, ret, header>>,
         \A c \in Ciphers : \/ cipherRefs'[c] = cipherRefs[c]
                            \/ cipherRefs'[c] = 1 /\ CipherUsers(c) = {} /\ LiveFor(c) = {}
  PROVE  IInv'
<1> USE DEF IInv
<1>1. Live' = Live /\ raced \subseteq raced' /\ posix' = posix /\ RacingKnown'
  BY DEF Live, Frame, RacingKnown
<1>2. CallsAreRight' /\ FilesApart'
  <2>1. \A t \in Threads : CallIsRight(t)'
    BY <1>1, CallIs DEF CallIsRight, InHand, Stage, HasErrno, Ident, Msize
  <2> QED
    BY <2>1 DEF CallsAreRight, FilesApart
<1>3. LiveIsComplete' /\ PastStat' /\ OneHeaderPerFile'
  BY <1>1 DEF LiveIsComplete, PastStat, OneHeaderPerFile
<1>4. RefsBalanced'
  <2>1. HeaderUsers' = HeaderUsers /\ WriterUsers' = WriterUsers
    BY DEF HeaderUsers, WriterUsers
  <2>2. ASSUME NEW c \in Ciphers
        PROVE  cipherRefs'[c] = 1 + Cardinality(CipherUsers(c)')
                                  + Cardinality({x \in Live' : header'[x].lost = c})
    <3>1. CipherUsers(c)' = CipherUsers(c) /\ {x \in Live' : header'[x].lost = c} = LiveFor(c)
      BY <1>1 DEF CipherUsers, LiveFor
    <3>2. cipherRefs[c] = 1 + Cardinality(CipherUsers(c)) + Cardinality(LiveFor(c))
      BY DEF RefsBalanced, LiveFor
    <3>3. CASE cipherRefs'[c] = cipherRefs[c]
      BY <3>1, <3>2, <3>3
    <3>4. CASE cipherRefs'[c] = 1 /\ CipherUsers(c) = {} /\ LiveFor(c) = {}
      <4>1. 1 = 1 + Cardinality({}) + Cardinality({})
        BY FS_EmptySet
      <4> QED
        BY <3>1, <3>4, <4>1
    <3> QED
      BY <3>3, <3>4
  <2> QED
    BY <1>1, <2>1, <2>2 DEF RefsBalanced
<1> QED
  BY <1>1, <1>2, <1>3, <1>4

\* The counter says when nobody uses the cipher.
LEMMA GoneIsUnused ==
  ASSUME IInv, NEW c \in Ciphers, CipherGone(c)
  PROVE  CipherUsers(c) = {} /\ LiveFor(c) = {}
<1> USE DEF IInv, CipherGone
<1>1. IsFiniteSet(CipherUsers(c)) /\ IsFiniteSet(LiveFor(c))
  <2>1. CipherUsers(c) \subseteq Threads /\ LiveFor(c) \subseteq Files
    BY DEF CipherUsers, LiveFor, Live
  <2> QED
    BY <2>1, FS_Subset, FileCreateAssumption
<1>2. 1 = 1 + Cardinality(CipherUsers(c)) + Cardinality(LiveFor(c))
  BY DEF RefsBalanced, LiveFor
<1>3. Cardinality(CipherUsers(c)) \in Nat /\ Cardinality(LiveFor(c)) \in Nat
  BY <1>1, FS_CardinalityType
<1>4. Cardinality(CipherUsers(c)) = 0 /\ Cardinality(LiveFor(c)) = 0
  BY <1>2, <1>3
<1> QED
  BY <1>1, <1>4, FS_EmptySet

LEMMA CipherGoneStep ==
  ASSUME IInv, Frame, NEW c \in Ciphers, CipherGone(c)
  PROVE  IInv'
<1> USE DEF IInv, CipherGone, caller
<1>1. TypeOK'
  BY RacedType DEF TypeOK
<1>2. CipherUsers(c) = {} /\ LiveFor(c) = {}
  BY GoneIsUnused
<1>3. UsersAreListed'
  <2>1. Live' = Live
    BY DEF Live
  <2>2. \A d \in Ciphers : CipherUsers(d)' = CipherUsers(d)
    BY DEF CipherUsers
  <2> SUFFICES ASSUME NEW d \in Ciphers \ listed'
               PROVE  CipherUsers(d) = {} /\ \A x \in Live : header[x].lost # d
    BY <2>1, <2>2 DEF UsersAreListed
  <2>3. CASE d = c
    BY <1>2, <2>3 DEF LiveFor
  <2>4. CASE d # c
    BY <2>4 DEF UsersAreListed
  <2> QED
    BY <2>3, <2>4
<1> QED
  BY <1>1, <1>3, NoCallStep

LEMMA CipherBackStep ==
  ASSUME IInv, Frame, NEW c \in Ciphers, CipherBack(c)
  PROVE  IInv'
<1> USE DEF IInv, CipherBack, caller
<1>1. TypeOK'
  BY RacedType DEF TypeOK
<1>2. CipherUsers(c) = {} /\ LiveFor(c) = {}
  BY DEF UsersAreListed, LiveFor
<1>3. UsersAreListed'
  BY DEF UsersAreListed, CipherUsers, Live
<1>4. \A d \in Ciphers : cipherRefs'[d] = IF d = c THEN 1 ELSE cipherRefs[d]
  BY DEF TypeOK
<1> QED
  BY <1>1, <1>2, <1>3, <1>4, NoCallStep

LEMMA NothingHappens ==
  ASSUME IInv, UNCHANGED vars
  PROVE  IInv'
<1> USE DEF IInv, vars
<1>1. TypeOK' /\ FilesApart'
  BY DEF TypeOK, FilesApart
<1>2. Live' = Live /\ Racing' = Racing
  BY DEF Live, Racing
<1>3. CallsAreRight'
  <2>1. \A t \in Threads : CallIsRight(t)'
    BY CallIs DEF CallIsRight, InHand, Stage, HasErrno, Ident, Msize
  <2> QED
    BY <2>1 DEF CallsAreRight
<1>4. /\ HeaderUsers' = HeaderUsers /\ WriterUsers' = WriterUsers
      /\ \A c \in Ciphers : CipherUsers(c)' = CipherUsers(c)
  BY DEF HeaderUsers, WriterUsers, CipherUsers
<1>5. RefsBalanced'
  BY <1>2, <1>4 DEF RefsBalanced
<1> QED
  BY <1>1, <1>2, <1>3, <1>4, <1>5
     DEF LiveIsComplete, UsersAreListed, RacingKnown, PastStat, OneHeaderPerFile

-----------------------------------------------------------------------------
(***************************************************************************)
(* The invariant.                                                          *)
(***************************************************************************)
LEMMA FileCreateInit == Init => IInv
<1> SUFFICES ASSUME Init PROVE IInv
  OBVIOUS
<1> USE DEF Init
<1>1. TypeOK
  BY DEF TypeOK, Labels, Blank, Fresh, NoArgs
<1>2. \A t \in Threads : pc[t] = "idle" /\ file[t] = NoFile /\ ret[t] = "none"
  OBVIOUS
<1>3. CallsAreRight
  BY <1>2 DEF CallsAreRight, CallIsRight, InHand, Stage, HasErrno, Ident, Holding, WriterStage
<1>4. Live = {} /\ Racing = {}
  BY DEF Live, Racing, Blank, Fresh
<1>5. HeaderUsers = {} /\ WriterUsers = {} /\ \A c : CipherUsers(c) = {}
  BY <1>2 DEF HeaderUsers, WriterUsers, CipherUsers
<1>6. RefsBalanced
  <2>1. Cardinality({}) = 0
    BY FS_EmptySet
  <2>2. \A c : {x \in Live : header[x].lost = c} = {}
    BY <1>4
  <2>3. /\ headerRefs = 1 + 0 + 0 /\ writerRefs = 1 + 0 + 0
        /\ \A c \in Ciphers : cipherRefs[c] = 1 + 0 + 0
    OBVIOUS
  <2> QED
    BY <1>4, <1>5, <2>1, <2>2, <2>3 DEF RefsBalanced
<1> QED
  BY <1>1, <1>2, <1>3, <1>4, <1>5, <1>6
     DEF IInv, FilesApart, LiveIsComplete, UsersAreListed, RacingKnown, PastStat, OneHeaderPerFile

LEMMA StepKeepsIInv ==
  ASSUME IInv, Frame, NEW t \in Threads, Step(t)
  PROVE  IInv' /\ (OnlyCallOf(t) \/ WriterNew(t))
  BY StripIdentStep, BadIdentStep, StatEmptyStep, StatRefusedStep, StatFailsStep, FileNewStep, FileNoMemoryStep,
     HeaderRefStep, HeaderNewStep, HeaderNoMemoryStep, AllocateStep, AllocateFailsStep, MapStep,
     MapFailsStep, HeaderFreeStep, HeaderPutStep, WriterRefStep, CipherRefStep, CipherUnknownStep,
     WriterNewStep, WriterNoMemoryStep, WriterPutStep, CipherPutStep, FileFreeStep
     DEF Step

LEMMA FileCreateStep == IInv /\ [Next]_vars => IInv'
<1> SUFFICES ASSUME IInv, [Next]_vars PROVE IInv'
  OBVIOUS
<1>1. CASE UNCHANGED vars
  BY <1>1, NothingHappens
<1>2. CASE Next
  <2>1. Frame
    BY <1>2 DEF Next, Frame
  <2>2. ASSUME NEW t \in Threads, Step(t) PROVE IInv'
    BY <2>1, <2>2, StepKeepsIInv
  <2>3. ASSUME NEW t \in Threads, Caller(t) PROVE IInv'
    BY <2>1, <2>3, SetIdentStep, BadArgumentsStep, CallCreateStep DEF Caller
  <2>4. ASSUME NEW c \in Ciphers, CipherGone(c) \/ CipherBack(c) PROVE IInv'
    BY <2>1, <2>4, CipherGoneStep, CipherBackStep
  <2> QED
    BY <1>2, <2>2, <2>3, <2>4 DEF Next
<1> QED
  BY <1>1, <1>2

(***************************************************************************)
(* The inductive invariant of cfe_create(), through every failure of it    *)
(* and of what it calls.                                                   *)
(***************************************************************************)
THEOREM FileCreateInductive == Spec => []IInv
  BY FileCreateInit, FileCreateStep, PTL DEF Spec

-----------------------------------------------------------------------------
(***************************************************************************)
(* What follows.                                                           *)
(***************************************************************************)
(***************************************************************************)
(* Every variable of cfe_create() keeps a value of its type.               *)
(***************************************************************************)
THEOREM FileCreateType == Spec => []TypeOK
<1>1. IInv => TypeOK
  BY DEF IInv
<1> QED
  BY <1>1, FileCreateInductive, PTL

(***************************************************************************)
(* The reference counters of the header type, of the writer type and of    *)
(* every cipher type are 1, and one for each created file and each call    *)
(* between the increment and the decrement: no error path of cfe_create()  *)
(* and of what it calls drops a reference twice or forgets one.            *)
(***************************************************************************)
THEOREM ReferencesAreBalanced == Spec => []RefsBalanced
<1>1. IInv => RefsBalanced
  BY DEF IInv
<1> QED
  BY <1>1, FileCreateInductive, PTL

(***************************************************************************)
(* A created file has a mapped header of whole pages that is as large as   *)
(* params->header_size asked for, although normalize_headersize() may wrap.*)
(***************************************************************************)
THEOREM MappingIsLargeEnough == Spec => []MappingCoversRequest
<1>1. ASSUME IInv PROVE MappingCoversRequest
  <2> SUFFICES ASSUME NEW x \in Live
               PROVE  /\ header[x].map = "mapped"
                      /\ header[x].msize % PageSize = 0
                      /\ header[x].msize >= PageSize
                      /\ header[x].msize >= header[x].want
    BY DEF MappingCoversRequest
  <2>1. /\ header[x].want \in Sizes /\ header[x].map = "mapped" /\ header[x].msize > 0
        /\ header[x].msize = normalize_headersize(header[x].want)
    BY <1>1 DEF IInv, LiveIsComplete
  <2> QED
    BY <2>1, NormalizeCovers
<1> QED
  BY <1>1, FileCreateInductive, PTL

(***************************************************************************)
(* Built with posix_fallocate(), cfe_header_v1_alloc() maps nothing past   *)
(* the end of the file.                                                    *)
(***************************************************************************)
THEOREM MappingStaysInside == Spec => []MappingInsideFile
<1>1. IInv => MappingInsideFile
  BY DEF IInv, MappingInsideFile, LiveIsComplete
<1> QED
  BY <1>1, FileCreateInductive, PTL

(***************************************************************************)
(* cfe_create() returns NULL with errno set, or the cipher was unknown.    *)
(***************************************************************************)
THEOREM FailuresHaveErrno == Spec => []FailureSetsErrno
<1>1. ASSUME IInv PROVE FailureSetsErrno
  <2>1. \A t \in Threads : HasErrno(t)
    BY <1>1, CallIs DEF CallIsRight
  <2> QED
    BY <2>1 DEF FailureSetsErrno, HasErrno
<1> QED
  BY <1>1, FileCreateInductive, PTL

(***************************************************************************)
(* However a call ends, it has moved params->key_ident past one "cfe:", or *)
(* it said EINVAL and left it alone.                                       *)
(***************************************************************************)
THEOREM KeyIdentIsSpent == Spec => []KeyIdentMovesOnce
<1>1. ASSUME IInv PROVE KeyIdentMovesOnce
  <2>1. \A t \in Threads : Ident(t)
    BY <1>1, CallIs DEF CallIsRight
  <2> QED
    BY <2>1 DEF KeyIdentMovesOnce, Ident
<1> QED
  BY <1>1, FileCreateInductive, PTL

(***************************************************************************)
(* Two calls that never overlapped do not both write a header into one     *)
(* file: the fstat() check of do_create() sees what the first has left.    *)
(***************************************************************************)
THEOREM HeaderIsAlone == Spec => []OneHeaderPerFile
<1>1. IInv => OneHeaderPerFile
  BY DEF IInv
<1> QED
  BY <1>1, FileCreateInductive, PTL

-----------------------------------------------------------------------------
(***************************************************************************)
(* The registry of the ciphers, as cfe_create() uses it: who uses what     *)
(* after a step.                                                           *)
(***************************************************************************)
LEMMA CipherOwnersAre ==
  /\ \A o \in CipherOwners : \/ \E u \in Threads : o = <<"call", u>>
                             \/ \E x \in Files : o = <<"file", x>>
  /\ \A u \in Threads : <<"call", u>> \in CipherOwners
  /\ \A x \in Files : <<"file", x>> \in CipherOwners
<1>1. ASSUME NEW o \in CipherOwners
      PROVE  (\E u \in Threads : o = <<"call", u>>) \/ (\E x \in Files : o = <<"file", x>>)
  <2>1. CASE o \in {"call"} \X Threads
    BY <2>1
  <2>2. CASE o \in {"file"} \X Files
    BY <2>2
  <2> QED
    BY <2>1, <2>2 DEF CipherOwners
<1> QED
  BY <1>1 DEF CipherOwners

LEMMA UsingIs ==
  /\ \A u \in Threads : CipherUsing[<<"call", u>>] = CallUses(u)
  /\ \A x \in Files : CipherUsing[<<"file", x>>] = FileUses(x)
  BY CipherOwnersAre DEF CipherUsing

LEMMA UsingWillBe ==
  /\ \A u \in Threads : CipherUsing'[<<"call", u>>] = CallUses(u)'
  /\ \A x \in Files : CipherUsing'[<<"file", x>>] = FileUses(x)'
  BY CipherOwnersAre DEF CipherUsing

LEMMA UsingFun ==
  /\ CipherUsing = [o \in CipherOwners |-> CipherUsing[o]]
  /\ CipherUsing' = [o \in CipherOwners |-> CipherUsing'[o]]
  BY DEF CipherUsing

\* Only one call uses another cipher than before, or none does.
LEMMA OneCallUses ==
  ASSUME NEW t \in Threads, \A u \in Threads \ {t} : CallUses(u)' = CallUses(u),
         \A x \in Files : FileUses(x)' = FileUses(x)
  PROVE  CipherUsing' = [CipherUsing EXCEPT ![<<"call", t>>] = CallUses(t)']
<1>1. <<"call", t>> \in CipherOwners /\ CipherUsing'[<<"call", t>>] = CallUses(t)'
  BY CipherOwnersAre, UsingWillBe
<1>2. ASSUME NEW o \in CipherOwners \ {<<"call", t>>} PROVE CipherUsing'[o] = CipherUsing[o]
  <2>1. CASE \E u \in Threads : o = <<"call", u>>
    <3>1. PICK u \in Threads \ {t} : o = <<"call", u>>
      BY <1>2, <2>1
    <3>2. CallUses(u)' = CallUses(u)
      OBVIOUS
    <3> QED
      BY <3>1, <3>2, UsingIs, UsingWillBe
  <2>2. CASE \E x \in Files : o = <<"file", x>>
    BY <2>2, UsingIs, UsingWillBe
  <2> QED
    BY <2>1, <2>2, CipherOwnersAre
<1>3. CipherUsing' = [CipherUsing EXCEPT ![<<"call", t>>] = CipherUsing'[<<"call", t>>]]
  BY <1>1, <1>2, UsingFun, OneBecomes
<1> QED
  BY <1>1, <1>3

\* A step of one call: the created files and the other calls keep their ciphers.
LEMMA OthersUse ==
  ASSUME NEW t \in Threads, IInv, OnlyCallOf(t)
  PROVE  /\ \A u \in Threads \ {t} : CallUses(u)' = CallUses(u)
         /\ \A x \in Files : FileUses(x)' = FileUses(x)
<1>1. \A u \in Threads \ {t} : CallUses(u)' = CallUses(u)
  BY DEF OnlyCallOf, CallUses
<1>2. Live' = Live /\ \A x \in Live : header'[x] = header[x]
  BY LiveStays
<1> QED
  BY <1>1, <1>2 DEF FileUses

\* Most steps of a call are nothing to the registry.
LEMMA StillUses ==
  ASSUME IInv, NEW t \in Threads, Caller(t) \/ Step(t),
         ~CipherRef(t), ~CipherPut(t), ~WriterNew(t)
  PROVE  listed' = listed /\ CallUses(t)' = CallUses(t)
<1> DEFINE S == {"writer_new", "writer_put", "cipher_put"}
<1>0. pc \in [Threads -> Labels] /\ ctype \in [Threads -> Ciphers \cup {NoCipher, "unset"}]
  BY DEF IInv, TypeOK
<1>1. CASE Caller(t)
  <2>1. listed' = listed /\ pc[t] = "idle" /\ pc'[t] \in {"idle", "ident"}
    BY <1>0, <1>1 DEF Caller, SetIdent, CallCreate, BadArguments, Begin, Goto, registries
  <2> QED
    BY <2>1 DEF CallUses
<1>2. CASE StripIdent(t) \/ BadIdent(t) \/ StatEmpty(t) \/ StatRefused(t)
           \/ StatFails(t) \/ FileNew(t) \/ FileNoMemory(t) \/ HeaderRef(t) \/ HeaderNew(t) \/ HeaderNoMemory(t)
  <2>1. listed' = listed /\ pc[t] \notin S /\ pc'[t] \notin S
    BY <1>0, <1>2
       DEF StripIdent, BadIdent, StatEmpty, StatRefused, StatFails, FileNew, FileNoMemory, HeaderRef,
           HeaderNew, HeaderNoMemory, Goto, Return, NoArgs, registries
  <2> QED
    BY <2>1 DEF CallUses
<1>3. CASE Allocate(t) \/ AllocateFails(t) \/ Map(t) \/ MapFails(t) \/ HeaderFree(t)
           \/ HeaderPut(t) \/ WriterRef(t) \/ FileFree(t)
  <2>1. listed' = listed /\ pc[t] \notin S /\ pc'[t] \notin S
    BY <1>0, <1>3
       DEF Allocate, AllocateFails, Map, MapFails, HeaderFree, HeaderPut, WriterRef, FileFree,
           Goto, Return, NoArgs, registries
  <2> QED
    BY <2>1 DEF CallUses
<1>4. CASE CipherUnknown(t)
  <2>1. listed' = listed /\ pc[t] = "cipher_ref" /\ pc'[t] = "writer_put" /\ ctype'[t] = NoCipher
    BY <1>0, <1>4 DEF CipherUnknown, Goto, registries
  <2> QED
    BY <2>1 DEF CallUses
<1>5. CASE WriterNoMemory(t)
  <2>1. listed' = listed /\ pc[t] = "writer_new" /\ pc'[t] = "writer_put" /\ ctype'[t] = ctype[t]
    BY <1>0, <1>5 DEF WriterNoMemory, Goto, registries
  <2> QED
    BY <2>1 DEF CallUses
<1>6. CASE WriterPut(t)
  <2>1. /\ listed' = listed /\ pc[t] = "writer_put" /\ ctype'[t] = ctype[t]
        /\ pc'[t] = "cipher_put" \/ (pc'[t] = "header_free" /\ ctype[t] = NoCipher)
    BY <1>0, <1>6 DEF WriterPut, Goto
  <2> QED
    BY <2>1 DEF CallUses
<1> QED
  BY <1>1, <1>2, <1>3, <1>4, <1>5, <1>6 DEF Step

\* Each step is one of the registry, or none.
LEMMA CallFollows ==
  ASSUME IInv, Frame, NEW t \in Threads, Caller(t) \/ Step(t)
  PROVE  [CipherRegistry!Next]_(CipherRegistry!absVars)
<1> DEFINE o == <<"call", t>>
<1>0. /\ pc \in [Threads -> Labels] /\ ctype \in [Threads -> Ciphers \cup {NoCipher, "unset"}]
      /\ listed \subseteq Ciphers /\ NoCipher \notin Ciphers
      /\ o \in CipherOwners /\ CipherUsing[o] = CallUses(t)
  BY ConstantsApart, CipherOwnersAre, UsingIs DEF IInv, TypeOK
<1>1. OnlyCallOf(t) \/ WriterNew(t)
  <2>1. CASE Caller(t)
    BY <2>1, SetIdentStep, BadArgumentsStep, CallCreateStep DEF Caller
  <2> QED
    BY <2>1, StepKeepsIInv
<1>2. CASE OnlyCallOf(t)
  <2>1. CipherUsing' = [CipherUsing EXCEPT ![o] = CallUses(t)']
    BY <1>2, OthersUse, OneCallUses
  <2>2. CASE CipherRef(t)
    <3>1. PICK c \in Ciphers : c = args[t].name
      BY <1>0, <2>2 DEF CipherRef
    <3>2. pc[t] = "cipher_ref" /\ pc'[t] = "writer_new" /\ ctype'[t] = c /\ c \in listed /\ listed' = listed
      BY <1>0, <2>2, <3>1 DEF CipherRef, Goto
    <3>3. CallUses(t) = NoCipher /\ CallUses(t)' = c
      BY <3>2 DEF CallUses
    <3>4. CipherRegistry!Acquire(o, c)
      BY <1>0, <2>1, <3>2, <3>3 DEF CipherRegistry!Acquire
    <3> QED
      BY <1>0, <3>4 DEF CipherRegistry!Next
  <2>3. CASE CipherPut(t)
    <3>1. /\ pc[t] = "cipher_put" /\ pc'[t] = "header_free" /\ ctype[t] \in Ciphers
          /\ listed' = listed
      BY <1>0, <2>3, CallIs DEF CipherPut, Goto, CallIsRight, Stage
    <3>2. CallUses(t) # NoCipher /\ CallUses(t)' = NoCipher
      BY <1>0, <3>1 DEF CallUses
    <3>3. CipherRegistry!Release(o)
      BY <1>0, <2>1, <3>1, <3>2 DEF CipherRegistry!Release
    <3> QED
      BY <1>0, <3>3 DEF CipherRegistry!Next
  <2>4. CASE ~CipherRef(t) /\ ~CipherPut(t) /\ ~WriterNew(t)
    <3>1. listed' = listed /\ CallUses(t)' = CallUses(t)
      BY <2>4, StillUses
    <3>2. CipherUsing' = CipherUsing
      BY <1>0, <2>1, <3>1, UsingFun
    <3> QED
      BY <3>1, <3>2 DEF CipherRegistry!absVars
  <2>5. ~WriterNew(t) \/ ~OnlyCallOf(t)
    <3>1. ASSUME WriterNew(t) PROVE ~OnlyCallOf(t)
      BY <3>1, CreatesFile, LiveStays
    <3> QED
      BY <3>1
  <2> QED
    BY <1>2, <2>2, <2>3, <2>4, <2>5
<1>3. CASE WriterNew(t)
  <2> DEFINE p == <<"file", file[t]>>
  <2>1. /\ ctype[t] \in Ciphers /\ file[t] \in Files /\ header'[file[t]].lost = ctype[t]
        /\ pc[t] = "writer_new" /\ pc'[t] = "idle"
        /\ \A u \in Threads \ {t} : pc'[u] = pc[u] /\ ctype'[u] = ctype[u]
        /\ file[t] \notin Live /\ Live' = Live \cup {file[t]}
        /\ \A x \in Live : header'[x] = header[x]
    BY <1>3, CreatesFile
  <2>2. p \in CipherOwners /\ CipherUsing[p] = NoCipher
    BY <2>1, CipherOwnersAre, UsingIs DEF FileUses
  <2>3. CipherUsing'[p] = ctype[t] /\ CipherUsing'[o] = NoCipher
    BY <2>1, UsingWillBe DEF FileUses, CallUses
  <2>4. CipherUsing[o] = ctype[t] /\ o # p
    BY <1>0, <2>1 DEF CallUses
  <2>5. ASSUME NEW q \in CipherOwners \ {p, o} PROVE CipherUsing'[q] = CipherUsing[q]
    <3>1. CASE \E u \in Threads : q = <<"call", u>>
      <4>1. PICK u \in Threads \ {t} : q = <<"call", u>>
        BY <2>5, <3>1
      <4>2. CallUses(u)' = CallUses(u)
        BY <2>1 DEF CallUses
      <4> QED
        BY <4>1, <4>2, UsingIs, UsingWillBe
    <3>2. CASE \E x \in Files : q = <<"file", x>>
      <4>1. PICK x \in Files \ {file[t]} : q = <<"file", x>>
        BY <2>5, <3>2
      <4>2. FileUses(x)' = FileUses(x)
        BY <2>1 DEF FileUses
      <4> QED
        BY <4>1, <4>2, UsingIs, UsingWillBe
    <3> QED
      BY <3>1, <3>2, CipherOwnersAre
  <2>6. CipherUsing' = [CipherUsing EXCEPT ![p] = CipherUsing'[p], ![o] = CipherUsing'[o]]
    <3> HIDE DEF o, p
    <3> QED
      BY <1>0, <2>2, <2>4, <2>5, UsingFun, TwoBecome
  <2>7. listed' = listed
    BY <1>3 DEF WriterNew, registries
  <2>8. CipherRegistry!Hand(o, p)
    <3> HIDE DEF o, p
    <3> QED
      BY <1>0, <2>1, <2>2, <2>3, <2>4, <2>6, <2>7 DEF CipherRegistry!Hand
  <2> QED
    BY <1>0, <2>2, <2>8 DEF CipherRegistry!Next
<1> QED
  BY <1>1, <1>2, <1>3

\* What the rest of the program does leaves every user its cipher.
LEMMA RestUses ==
  ASSUME UNCHANGED <<pc, ctype, file, header>>
  PROVE  CipherUsing' = CipherUsing
<1>1. Live' = Live
  BY DEF Live
<1>2. \A u \in Threads : CallUses(u)' = CallUses(u)
  BY DEF CallUses
<1>3. \A x \in Files : FileUses(x)' = FileUses(x)
  BY <1>1 DEF FileUses
<1>4. \A o \in CipherOwners : CipherUsing'[o] = CipherUsing[o]
  BY <1>2, <1>3, CipherOwnersAre, UsingIs, UsingWillBe
<1> QED
  BY <1>4, UsingFun

LEMMA RestFollows ==
  ASSUME IInv, NEW c \in Ciphers, CipherGone(c) \/ CipherBack(c)
  PROVE  CipherRegistry!Next
<1>0. listed \subseteq Ciphers /\ NoCipher \notin Ciphers
  BY ConstantsApart DEF IInv, TypeOK
<1>1. CipherUsing' = CipherUsing
  BY RestUses DEF CipherGone, CipherBack
<1>2. CASE CipherGone(c)
  <2>1. CipherUsers(c) = {} /\ LiveFor(c) = {}
    BY <1>2, GoneIsUnused
  <2>2. \A u \in Threads : CallUses(u) # c
    BY <1>0, <2>1 DEF CallUses, CipherUsers
  <2>3. \A x \in Files : FileUses(x) # c
    BY <1>0, <2>1 DEF FileUses, LiveFor
  <2>4. \A o \in CipherOwners : CipherUsing[o] # c
    BY <2>2, <2>3, CipherOwnersAre, UsingIs
  <2>5. listed' = listed \ {c} /\ c # NoCipher
    BY <1>0, <1>2 DEF CipherGone
  <2>6. CipherRegistry!Unregister(c)
    BY <1>1, <2>4, <2>5 DEF CipherRegistry!Unregister
  <2> QED
    BY <2>6 DEF CipherRegistry!Next
<1>3. CASE CipherBack(c)
  <2>1. c \notin listed /\ listed' = listed \cup {c}
    BY <1>3 DEF CipherBack
  <2>2. CipherRegistry!Register(c)
    BY <1>0, <1>1, <2>1 DEF CipherRegistry!Register
  <2> QED
    BY <2>2 DEF CipherRegistry!Next
<1> QED
  BY <1>2, <1>3

LEMMA FollowsStep ==
  ASSUME IInv, [Next]_vars
  PROVE  [CipherRegistry!Next]_(CipherRegistry!absVars)
<1>1. CASE UNCHANGED vars
  BY <1>1, RestUses DEF vars, CipherRegistry!absVars
<1>2. CASE Next
  <2>1. Frame
    BY <1>2 DEF Next, Frame
  <2>2. ASSUME NEW t \in Threads, Caller(t) \/ Step(t)
        PROVE  [CipherRegistry!Next]_(CipherRegistry!absVars)
    BY <2>1, <2>2, CallFollows
  <2>3. ASSUME NEW c \in Ciphers, CipherGone(c) \/ CipherBack(c)
        PROVE  [CipherRegistry!Next]_(CipherRegistry!absVars)
    BY <2>3, RestFollows
  <2> QED
    BY <1>2, <2>2, <2>3 DEF Next
<1> QED
  BY <1>1, <1>2

(***************************************************************************)
(* Every step of cfe_create(), in any interleaving and on every failure    *)
(* path, is one that RegistryAbs allows: with what FileCreate says of the  *)
(* rest of the program, a cipher is unregistered only when no call uses it *)
(* and no created file has lost a reference of it, and only a registered   *)
(* one is taken.                                                           *)
(***************************************************************************)
THEOREM FileCreateUsesRegistry == Spec => UsesCipherRegistry
  BY FileCreateInductive, FollowsStep, PTL DEF Spec, UsesCipherRegistry
=============================================================================
