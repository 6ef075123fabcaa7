----------------------------- MODULE FileCreate -----------------------------
(***************************************************************************)
(* cfe_create() (open.c) and everything it calls: the version 1 header     *)
(* (fs/header-v1.c), the file writer (fs/filewriter.c, fs/filewriter-v1.c) *)
(* and the preallocation (fcntl.c), made by several threads at once.       *)
(*                                                                         *)
(* The three registries it uses appear as RegistryAbs shows them, a lookup *)
(* in one step; RegistryProofs proves that the locked ones implement that. *)
(* The header and writer types of version 1 are the defaults: constructors *)
(* register them before any call, or abort, and a default type cannot be   *)
(* unregistered.  A file that was created is never closed: the library has *)
(* no function for it.                                                     *)
(***************************************************************************)
EXTENDS Integers, FiniteSets

CONSTANTS
  Threads,
  Fds,          \* descriptors, of a file each
  Devices,      \* those that are not of a regular file
  Files,        \* the struct cfe_file there is memory for
  Ciphers,      \* the cipher types of the backends
  Names,        \* what params->cipher may name, known ciphers or not
  Sizes,        \* what params->header_size may be
  PageSize,
  U32,          \* 2^32, the modulus of uint32_t
  MaxIdents,    \* bound: "cfe:" prefixes a caller puts before a key's name
  NoFile,       \* the NULL file pointer
  NoCipher,     \* the NULL cipher type pointer
  NoFd

ASSUME FileCreateAssumption ==
  /\ Ciphers \subseteq Names
  /\ NoCipher \notin Names
  /\ NoFile \notin Files
  /\ NoFd \notin Fds /\ Devices \subseteq Fds
  /\ IsFiniteSet(Threads) /\ IsFiniteSet(Files)
  /\ PageSize \in Nat \ {0}
  /\ U32 \in Nat \ {0}
  /\ U32 % PageSize = 0
  /\ Sizes \subseteq 0..(U32 - 1)
  /\ MaxIdents \in Nat

VARIABLES
  posix,       \* whether the library was built with HAVE_POSIX_FALLOCATE
  raced,       \* files on which two calls have been running at once
  fsize,       \* st_size of every file
  idents,      \* how many "cfe:" prefixes params->key_ident still has
  headerRefs,  \* refcnt of the version 1 header type
  writerRefs,  \* refcnt of the version 1 writer type
  listed,      \* the cipher types that are registered
  cipherRefs,  \* refcnt of every cipher type
  pc,          \* where each thread is in cfe_create()
  args,        \* the thread's fd, params->cipher and params->header_size, and
               \* (history) the prefixes of key_ident at the call
  file,        \* the cfe_file the thread has in hand
  ctype,       \* local variable of cfe_filewriter_create(), "unset" before
  errno,       \* "stale" until the call sets it
  ret,         \* what the last call of the thread returned
  header       \* per cfe_file: its header's fd, wanted size, msize, mapping,
               \* and (history) the cipher whose reference was taken for its
               \* writer and lost: writer->cipher stays NULL

caller == <<idents, args, ret>>
registries == <<headerRefs, writerRefs, listed, cipherRefs>>
vars == <<posix, raced, fsize, idents, headerRefs, writerRefs, listed, cipherRefs, pc, args,
          file, ctype, errno, ret, header>>

Labels == {"idle", "ident", "stat", "file_new", "header_ref", "header_new",
           "fallocate", "mmap", "header_free", "header_put", "file_free",
           "writer_ref", "cipher_ref", "writer_new", "writer_put", "cipher_put"}

\* A cfe_file of which only the request is known.
Fresh(fd, want) ==
  [fd |-> fd, want |-> want, msize |-> 0, map |-> "none", lost |-> NoCipher]
Blank == Fresh(NoFd, 0)

\* Between calls; with the prefixes that the last one found.
NoArgs(n) == [fd |-> NoFd, name |-> NoCipher, size |-> 0, ident |-> n]

Init ==
  /\ posix \in BOOLEAN
  /\ raced = {}
  /\ fsize = [f \in Fds |-> 0]
  /\ idents = [t \in Threads |-> 1]
  /\ headerRefs = 1
  /\ writerRefs = 1
  /\ listed = Ciphers
  /\ cipherRefs = [c \in Ciphers |-> 1]
  /\ pc = [t \in Threads |-> "idle"]
  /\ args \in [Threads -> {NoArgs(0)}]
  /\ file = [t \in Threads |-> NoFile]
  /\ ctype = [t \in Threads |-> "unset"]
  /\ errno = [t \in Threads |-> "stale"]
  /\ ret = [t \in Threads |-> "none"]
  /\ header = [x \in Files |-> Blank]

Goto(t, from, to) == pc[t] = from /\ pc' = [pc EXCEPT ![t] = to]
SetErrno(t, e) == errno' = [errno EXCEPT ![t] = e]

\* `return NULL' and `return file' of cfe_create().
Return(t, result) ==
  /\ pc' = [pc EXCEPT ![t] = "idle"]
  /\ ret' = [ret EXCEPT ![t] = result]
  /\ file' = [file EXCEPT ![t] = NoFile]
  /\ args' = [args EXCEPT ![t] = NoArgs(args[t].ident)]
  /\ UNCHANGED idents

\* What a call starts from: none of its results yet.
Begin(t, arguments) ==
  /\ args' = [args EXCEPT ![t] = arguments]
  /\ ctype' = [ctype EXCEPT ![t] = "unset"]
  /\ UNCHANGED <<fsize, idents, registries, file, header>>

-----------------------------------------------------------------------------
(***************************************************************************)
(* The caller.                                                             *)
(***************************************************************************)
\* Between calls it may point key_ident at a key name again.
SetIdent(t) ==
  /\ pc[t] = "idle"
  /\ \E n \in 0..MaxIdents : idents' = [idents EXCEPT ![t] = n]
  /\ ret' = [ret EXCEPT ![t] = "none"]
  /\ UNCHANGED <<fsize, registries, pc, args, file, ctype, errno, header>>

\* A call whose arguments pass the first check of cfe_create().
CallCreate(t, f, name, size) ==
  /\ Goto(t, "idle", "ident")
  /\ Begin(t, [fd |-> f, name |-> name, size |-> size, ident |-> idents[t]])
  /\ SetErrno(t, "stale")
  /\ UNCHANGED ret

\* A call with a negative fd, or without params or a key_ident.
BadArguments(t) ==
  /\ pc[t] = "idle"
  /\ Begin(t, NoArgs(idents[t]))
  /\ SetErrno(t, "EINVAL")
  /\ ret' = [ret EXCEPT ![t] = "NULL"]
  /\ UNCHANGED pc

\* cfe_cipher_unregister() and _register() by another part of the program.
CipherGone(c) ==
  /\ c \in listed
  /\ cipherRefs[c] = 1
  /\ listed' = listed \ {c}
  /\ UNCHANGED <<fsize, headerRefs, writerRefs, cipherRefs, caller, pc, file,
                 ctype, errno, header>>

CipherBack(c) ==
  /\ c \notin listed
  /\ listed' = listed \cup {c}
  /\ cipherRefs' = [cipherRefs EXCEPT ![c] = 1]
  /\ UNCHANGED <<fsize, headerRefs, writerRefs, caller, pc, file, ctype, errno, header>>

-----------------------------------------------------------------------------
(***************************************************************************)
(* cfe_create(): the checks.                                               *)
(***************************************************************************)
\* Mutant: a copy of the pointer is moved.
StripCopy(t) ==
  /\ Goto(t, "ident", "stat")
  /\ idents[t] > 0
  /\ UNCHANGED <<fsize, idents, registries, args, file, ctype, errno, ret, header>>

\* key_ident += 4 changes the caller's parameters, whatever comes after it.
StripIdent(t) ==
  /\ Goto(t, "ident", "stat")
  /\ idents[t] > 0
  /\ idents' = [idents EXCEPT ![t] = @ - 1]
  /\ UNCHANGED <<fsize, registries, args, file, ctype, errno, ret, header>>

\* Mutant: a wrong key_ident is refused without errno.
BadIdentSilent(t) ==
  /\ pc[t] = "ident"
  /\ idents[t] = 0
  /\ Return(t, "NULL")
  /\ UNCHANGED <<fsize, registries, ctype, errno, header>>

BadIdent(t) ==
  /\ pc[t] = "ident"
  /\ idents[t] = 0
  /\ SetErrno(t, "EINVAL")
  /\ Return(t, "NULL")
  /\ UNCHANGED <<fsize, registries, ctype, header>>

\* Mutant: st_size is not looked at.
StatIgnored(t) ==
  /\ Goto(t, "stat", "file_new")
  /\ UNCHANGED <<fsize, caller, registries, file, ctype, errno, header>>

StatEmpty(t) ==
  /\ Goto(t, "stat", "file_new")
  /\ args[t].fd \notin Devices /\ fsize[args[t].fd] = 0
  /\ UNCHANGED <<fsize, caller, registries, file, ctype, errno, header>>

StatRefused(t) ==
  /\ pc[t] = "stat"
  /\ args[t].fd \in Devices \/ fsize[args[t].fd] # 0
  /\ SetErrno(t, "EINVAL")
  /\ Return(t, "NULL")
  /\ UNCHANGED <<fsize, registries, ctype, header>>

\* fstat() fails with an errno of its own: a descriptor that is not open, EIO...
StatFails(t) ==
  /\ pc[t] = "stat"
  /\ SetErrno(t, "EBADF")
  /\ Return(t, "NULL")
  /\ UNCHANGED <<fsize, registries, ctype, header>>

(***************************************************************************)
(* do_create() and cfe_file_new().                                         *)
(***************************************************************************)
Live == {x \in Files : header[x].fd # NoFd /\ \A t \in Threads : file[t] # x}
Unused == {x \in Files : header[x].fd = NoFd}

FileNew(t) ==
  /\ Goto(t, "file_new", "header_ref")
  /\ \E x \in Unused :
       /\ file' = [file EXCEPT ![t] = x]
       /\ header' = [header EXCEPT ![x] = Fresh(args[t].fd, args[t].size)]
  /\ UNCHANGED <<fsize, caller, registries, ctype, errno>>

FileNoMemory(t) ==
  /\ pc[t] = "file_new"
  /\ SetErrno(t, "ENOMEM")
  /\ Return(t, "NULL")
  /\ UNCHANGED <<fsize, registries, ctype, header>>

(***************************************************************************)
(* cfe_header_create(DEFAULT, fd, size), the size normalized on the way,   *)
(* and cfe_header_v1_alloc().                                              *)
(***************************************************************************)
HeaderRef(t) ==
  /\ Goto(t, "header_ref", "header_new")
  /\ headerRefs' = headerRefs + 1
  /\ UNCHANGED <<fsize, caller, writerRefs, listed, cipherRefs, file, ctype, errno, header>>

\* Mutant: pagesize - 1 is not added before the mask.
round_down_headersize(size) ==
  (IF size = 0 THEN PageSize ELSE (size \div PageSize) * PageSize) % U32

\* Rounded up to whole pages, then cut down to the 32 bits of the result.
normalize_headersize(size) ==
  (IF size = 0 THEN PageSize
   ELSE ((size + PageSize - 1) \div PageSize) * PageSize) % U32

HeaderNew(t) ==
  /\ Goto(t, "header_new", "fallocate")
  /\ header' = [header EXCEPT ![file[t]].msize = normalize_headersize(args[t].size)]
  /\ UNCHANGED <<fsize, caller, registries, file, ctype, errno>>

HeaderNoMemory(t) ==
  /\ Goto(t, "header_new", "header_put")
  /\ SetErrno(t, "ENOMEM")
  /\ UNCHANGED <<fsize, caller, registries, file, ctype, header>>

Msize(t) == header[file[t]].msize

Extend(f, n) == fsize' = [fsize EXCEPT ![f] = IF @ < n THEN n ELSE @]

\* Mutant: the file is mapped without being extended.
AllocateNothing(t) ==
  /\ Goto(t, "fallocate", "mmap")
  /\ UNCHANGED <<fsize, caller, registries, file, ctype, errno, header>>

\* posix_fallocate() extends the file and refuses an empty range;
\* F_PREALLOCATE reserves blocks and leaves the size alone.
Allocate(t) ==
  /\ Goto(t, "fallocate", "mmap")
  /\ posix => Msize(t) > 0
  /\ IF posix THEN Extend(args[t].fd, Msize(t)) ELSE UNCHANGED fsize
  /\ UNCHANGED <<caller, registries, file, ctype, errno, header>>

\* posix_fallocate() returns its error, and may have grown the file by then;
\* fcntl() returns -1, which becomes errno.
AllocateFails(t) ==
  /\ Goto(t, "fallocate", "header_free")
  /\ IF ~posix
       THEN SetErrno(t, "-1") /\ UNCHANGED fsize
     ELSE IF Msize(t) = 0
       THEN SetErrno(t, "EINVAL") /\ UNCHANGED fsize
     ELSE /\ SetErrno(t, "ENOSPC")
          /\ \E n \in {0, Msize(t) - PageSize} : Extend(args[t].fd, n)
  /\ UNCHANGED <<caller, registries, file, ctype, header>>

\* mmap() may map past the end of a file, but not an empty range.
Map(t) ==
  /\ Goto(t, "mmap", "writer_ref")
  /\ Msize(t) > 0
  /\ header' = [header EXCEPT ![file[t]].map = "mapped"]
  /\ UNCHANGED <<fsize, caller, registries, file, ctype, errno>>

\* header->mapping keeps MAP_FAILED, which is not NULL.
MapFails(t) ==
  /\ Goto(t, "mmap", "header_free")
  /\ header' = [header EXCEPT ![file[t]].map = "failed"]
  /\ SetErrno(t, IF Msize(t) = 0 THEN "EINVAL" ELSE "ENOMEM")
  /\ UNCHANGED <<fsize, caller, registries, file, ctype>>

\* cfe_header_v1_free(): munmap() of MAP_FAILED fails, and says so in errno.
HeaderFree(t) ==
  /\ Goto(t, "header_free", "header_put")
  /\ header' = [header EXCEPT ![file[t]].map = "none"]
  /\ IF header[file[t]].map = "failed" THEN SetErrno(t, "EINVAL") ELSE UNCHANGED errno
  /\ UNCHANGED <<fsize, caller, registries, file, ctype>>

HeaderPut(t) ==
  /\ Goto(t, "header_put", "file_free")
  /\ headerRefs' = headerRefs - 1
  /\ UNCHANGED <<fsize, caller, writerRefs, listed, cipherRefs, file, ctype, errno, header>>

(***************************************************************************)
(* cfe_filewriter_create(DEFAULT, cipher, blocksize).                      *)
(***************************************************************************)
WriterRef(t) ==
  /\ Goto(t, "writer_ref", "cipher_ref")
  /\ writerRefs' = writerRefs + 1
  /\ UNCHANGED <<fsize, caller, headerRefs, listed, cipherRefs, file, ctype, errno, header>>

CipherRef(t) ==
  /\ Goto(t, "cipher_ref", "writer_new")
  /\ args[t].name \in listed
  /\ ctype' = [ctype EXCEPT ![t] = args[t].name]
  /\ cipherRefs' = [cipherRefs EXCEPT ![args[t].name] = @ + 1]
  /\ UNCHANGED <<fsize, caller, headerRefs, writerRefs, listed, file, errno, header>>

\* cfe_cipher_ref() sets no errno when it finds nothing.
CipherUnknown(t) ==
  /\ Goto(t, "cipher_ref", "writer_put")
  /\ args[t].name \notin listed
  /\ ctype' = [ctype EXCEPT ![t] = NoCipher]
  /\ UNCHANGED <<fsize, caller, registries, file, errno, header>>

\* alloc() keeps no cipher, and create() stores the type alone: when ctype goes
\* out of scope nothing points to the reference any more.
WriterNew(t) ==
  /\ pc[t] = "writer_new"
  /\ header' = [header EXCEPT ![file[t]].lost = ctype[t]]
  /\ Return(t, "file")
  /\ UNCHANGED <<fsize, registries, ctype, errno>>

WriterNoMemory(t) ==
  /\ Goto(t, "writer_new", "writer_put")
  /\ SetErrno(t, "ENOMEM")
  /\ UNCHANGED <<fsize, caller, registries, file, ctype, header>>

\* Mutant: the second failure forgets the cipher.
WriterPutOnly(t) ==
  /\ Goto(t, "writer_put", "header_free")
  /\ writerRefs' = writerRefs - 1
  /\ UNCHANGED <<fsize, caller, headerRefs, listed, cipherRefs, file, ctype, errno, header>>

\* Both failures drop the writer type; only the second has a cipher to drop.
WriterPut(t) ==
  /\ Goto(t, "writer_put", IF ctype[t] = NoCipher THEN "header_free" ELSE "cipher_put")
  /\ writerRefs' = writerRefs - 1
  /\ UNCHANGED <<fsize, caller, headerRefs, listed, cipherRefs, file, ctype, errno, header>>

CipherPut(t) ==
  /\ Goto(t, "cipher_put", "header_free")
  /\ cipherRefs' = [cipherRefs EXCEPT ![ctype[t]] = @ - 1]
  /\ UNCHANGED <<fsize, caller, headerRefs, writerRefs, listed, file, ctype, errno, header>>

(***************************************************************************)
(* cfe_file_free(): a header that was made is closed by cfe_header_close() *)
(* (header_free and header_put above) before the file's memory goes.       *)
(***************************************************************************)
FileFree(t) ==
  /\ pc[t] = "file_free"
  /\ header' = [header EXCEPT ![file[t]] = Blank]
  /\ Return(t, "NULL")
  /\ UNCHANGED <<fsize, registries, ctype, errno>>

-----------------------------------------------------------------------------
Step(t) ==
  \/ StripIdent(t) \/ BadIdent(t) \/ StatEmpty(t) \/ StatRefused(t)
  \/ StatFails(t) \/ FileNew(t) \/ FileNoMemory(t)
  \/ HeaderRef(t) \/ HeaderNew(t) \/ HeaderNoMemory(t)
  \/ Allocate(t) \/ AllocateFails(t) \/ Map(t) \/ MapFails(t)
  \/ HeaderFree(t) \/ HeaderPut(t)
  \/ WriterRef(t) \/ CipherRef(t) \/ CipherUnknown(t)
  \/ WriterNew(t) \/ WriterNoMemory(t) \/ WriterPut(t) \/ CipherPut(t)
  \/ FileFree(t)

Caller(t) ==
  \/ SetIdent(t) \/ BadArguments(t)
  \/ \E f \in Fds, name \in Names, size \in Sizes : CallCreate(t, f, name, size)

Racing == {f \in Fds : \E t, u \in Threads :
              t # u /\ \A v \in {t, u} : pc[v] # "idle" /\ args[v].fd = f}

Next ==
  /\ \/ \E t \in Threads : Caller(t) \/ Step(t)
     \/ \E c \in Ciphers : CipherGone(c) \/ CipherBack(c)
  /\ raced' = raced \cup Racing'
  /\ UNCHANGED posix

Spec == Init /\ [][Next]_vars

-----------------------------------------------------------------------------
(***************************************************************************)
(* Every variable has a value of its type.                                 *)
(***************************************************************************)
TypeOK ==
  /\ posix \in BOOLEAN
  /\ raced \subseteq Fds
  /\ fsize \in [Fds -> Nat]
  /\ idents \in [Threads -> Nat]
  /\ headerRefs \in Int
  /\ writerRefs \in Int
  /\ listed \subseteq Ciphers
  /\ cipherRefs \in [Ciphers -> Int]
  /\ pc \in [Threads -> Labels]
  /\ args \in [Threads -> [fd : Fds \cup {NoFd}, name : Names \cup {NoCipher}, size : Nat,
                         ident : Nat]]
  /\ file \in [Threads -> Files \cup {NoFile}]
  /\ ctype \in [Threads -> Ciphers \cup {NoCipher, "unset"}]
  /\ errno \in [Threads -> {"stale", "EINVAL", "EBADF", "ENOMEM", "ENOSPC", "-1"}]
  /\ ret \in [Threads -> {"none", "NULL", "file"}]
  /\ header \in [Files -> [fd : Fds \cup {NoFd}, want : Nat, msize : Nat,
                           map : {"none", "mapped", "failed"},
                           lost : Ciphers \cup {NoCipher}]]

\* The calls between the increment and the decrement of a counter.
HeaderUsers ==
  {t \in Threads : pc[t] \in {"header_new", "fallocate", "mmap", "header_free", "header_put",
                             "writer_ref", "cipher_ref", "writer_new", "writer_put", "cipher_put"}}
WriterUsers == {t \in Threads : pc[t] \in {"cipher_ref", "writer_new", "writer_put"}}
CipherUsers(c) ==
  {t \in Threads : pc[t] \in {"writer_new", "writer_put", "cipher_put"} /\ ctype[t] = c}

(***************************************************************************)
(* The three counters are the calls between their increments and           *)
(* decrements and, for good, one for each created file: for the cipher     *)
(* that is a reference nobody can put, as no pointer to it is left.  None  *)
(* of the error paths of cfe_create(), cfe_header_create() and             *)
(* cfe_filewriter_create() drops a reference twice or forgets one.         *)
(***************************************************************************)
RefsBalanced ==
  /\ headerRefs = 1 + Cardinality(HeaderUsers) + Cardinality(Live)
  /\ writerRefs = 1 + Cardinality(WriterUsers) + Cardinality(Live)
  /\ \A c \in Ciphers :
       cipherRefs[c] = 1 + Cardinality(CipherUsers(c))
                         + Cardinality({x \in Live : header[x].lost = c})

(***************************************************************************)
(* To the registry of the ciphers a call is an owner while it has a        *)
(* reference, and so is, for good, what a created file has lost: a cipher  *)
(* that is taken is listed, a call that fails gives it back, and neither   *)
(* under a call nor after a success can it be unregistered.                *)
(***************************************************************************)
CallUses(t) == IF pc[t] \in {"writer_new", "writer_put", "cipher_put"} THEN ctype[t] ELSE NoCipher
FileUses(x) == IF x \in Live THEN header[x].lost ELSE NoCipher
CipherOwners == ({"call"} \X Threads) \cup ({"file"} \X Files)
CipherUsing ==
  [o \in CipherOwners |-> IF o[1] = "call" THEN CallUses(o[2]) ELSE FileUses(o[2])]
CipherRegistry == INSTANCE RegistryAbs
                    WITH Owners <- CipherOwners, Types <- Ciphers, KeyOf <- [c \in Ciphers |-> c],
                         NoType <- NoCipher, HasDefault <- FALSE,
                         users <- CipherUsing, newest <- NoCipher
UsesCipherRegistry == [][CipherRegistry!Next]_(CipherRegistry!absVars)

(***************************************************************************)
(* The header of a created file is mapped, in whole pages, and at least as *)
(* large as was asked for.  A size whose rounding wraps to 0 in uint32_t   *)
(* has to fail, and fails only because posix_fallocate() and mmap() refuse *)
(* an empty range.                                                         *)
(***************************************************************************)
MappingCoversRequest ==
  \A x \in Live :
    /\ header[x].map = "mapped"
    /\ header[x].msize % PageSize = 0
    /\ header[x].msize >= PageSize
    /\ header[x].msize >= header[x].want

(***************************************************************************)
(* The mapping lies inside the file.  Only the posix_fallocate() build     *)
(* extends the file to what cfe_header_v1_alloc() maps.                    *)
(***************************************************************************)
MappingInsideFile ==
  posix => \A x \in Live : header[x].msize <= fsize[header[x].fd]

(***************************************************************************)
(* A call that returned NULL has set errno, unless the cipher was unknown  *)
(* (cfe_cipher_ref() sets none and cfe_filewriter_create() adds none).     *)
(***************************************************************************)
FailureSetsErrno ==
  \A t \in Threads :
    pc[t] = "idle" /\ ret[t] = "NULL" /\ errno[t] = "stale" => ctype[t] = NoCipher

(***************************************************************************)
(* A call that gets past the check of key_ident has moved it by one        *)
(* "cfe:", however it ends, and one that does not has left it alone and    *)
(* says EINVAL.  So after ENOMEM, ENOSPC or a failed fstat() the same      *)
(* params do not serve for a second try, unless the name has two prefixes. *)
(***************************************************************************)
KeyIdentMovesOnce ==
  \A t \in Threads :
    pc[t] = "idle" /\ ret[t] # "none" =>
      \/ idents[t] = args[t].ident - 1
      \/ idents[t] = args[t].ident /\ ret[t] = "NULL" /\ errno[t] = "EINVAL"

(***************************************************************************)
(* A file on which no two calls were ever running at once has at most one  *)
(* header: the second cfe_create() finds st_size # 0.  Only the            *)
(* posix_fallocate() build makes the file larger.                          *)
(***************************************************************************)
OneHeaderPerFile ==
  posix => \A x, y \in Live :
             header[x].fd = header[y].fd /\ header[x].fd \notin raced => x = y
=============================================================================
