# libcfe: a TLA+ verification project

libcfe is a C library for encrypted files.  A file starts with a header that is
mapped into memory, a writer fills it, and ciphers, hashes, key derivations and
random number sources come from backends (OpenSSL, or the program's own) that
register themselves.  Keys are kept in a keystore of the operating system.

The library has no threads of its own.  It is called from any thread of the
program, and what is hard about it is what several callers share: the lists of
types with their locks, the reference counters that are incremented under a
lock and decremented without one, the keystore, and the files.  Paths below are
relative to the repository's root (`src/open.c` is the file `open.c` of its
directory `src`).

## Inventory

| component | files | state | operations | correct when |
|---|---|---|---|---|
| header registry | `src/fs/header.c` | `header_list`, `header_lock`, `header_default`, `type->next`, `type->refcnt`; `header->type` | register, unregister, create, close | a type in use is listed; one listed type per version; counter = 1 + users; default = newest |
| filewriter registry | `src/fs/filewriter.c` | the same for writers, a reference to a cipher type, which is lost when `create` succeeds | register, unregister, create | as above, for two counters of two registries; a caller gets the version it asks for; what a created writer pins stays registered |
| file creation | `src/open.c`, `src/fcntl.c`, `src/fs/header-v1.c`, `src/fs/header-internal.h`, `src/fs/filewriter-v1.c` | `struct cfe_file`, the mapping, the size of the file | `cfe_create` (`cfe_open` returns ENOSYS) | every failure gives back everything it took, says why in `errno` and leaves `key_ident` where the check left it; the mapping holds the header asked for and is inside the file; a file gets one header |
| lists | `include/cfe/list.h` | `next`, `prev`; `first`, `pprev` | all of `list_head` and `hlist`, and the loops that allow deletion | both walks agree; each function is the sequence operation of its name; a loop visits each entry once |
| cipher contexts | `src/crypto/cipher.c`, `cipher-openssl.c` | `alg_list`, counters, `ctx->type`, the `EVP_CIPHER_CTX` | ref, put, register, unregister, alloc, init, reset, destroy; update, finalize, padding, AAD, tags | as the registry; an init that fails leaves no half-keyed context; the bytes of a message add up; a tag covers its message |
| hash contexts | `src/crypto/hash.c`, `hash-openssl.c` | the same with a digest | register, unregister, alloc, init, update, finalize, destroy | as the registry; no callback of an absent or incomplete type is called |
| key derivation, random numbers | `src/crypto/pbkdf*.c`, `rand*.c` | two registries | register, unregister, derive, get | the type stays for the time of the call; the buffer is filled and not overfilled |
| keystore, macOS | `src/keystore-darwin.c` | a dictionary, a rwlock, retain counts | add, read, remove | an atomic map; no retain is lost; nothing freed is read |
| keystore, Linux | `src/keystore-linux.c` | the kernel's user keyring; no lock | add, read, remove as one or two system calls | an answer was true at some moment of the call; only requested keys vanish |
| keystore front end, start-up | `src/keystore.c`, the constructors of the backends | the pointer `keystore`, what is registered | set_default, and three calls that pass on | where there is a backend, set once, before `main`; without one, replaced in a race only; in `main` everything is there |
| reference counts | `include/cfe/ref.h`, `include/cfe/atomic.h` | a counter | init, get, sub, put | released once, when the last reference goes |
| utilities, logging, compiler support | `include/cfe/utils.h`, `src/log.c`, `include/cfe/compiler*.h` | none | `next_pow2_*`, output, attributes | |

How they interact: `cfe_create` calls the header registry, then the filewriter
registry, which calls the cipher registry; each of the three gives a reference.
The header and the writer keep a pointer to their type; nothing keeps one to the
cipher: `cfe_filewriter_v1_alloc` ignores its argument (`filewriter-v1.c:72-83`)
and `cfe_filewriter_create` stores the type alone (`filewriter.c:119`), so that
reference stays counted and can never be put.  Registries and objects meet in
callbacks of a type (`alloc`, `free`, `destroy`, `derive`), which run after the
registry's lock is gone: what keeps the type's code alive is the reference
alone.  The backends register in constructors, before `main`.

Hard behaviours: threads between a lookup and the use of what it found; counters
dropped without a lock while `unregister` tests them; partial failure in a call
that takes four things in turn; a check of `st_size` long before the file is
extended; keystore reads made of two system calls, or of a copy after the
unlock; allocation failures that the code handles in an unusual way; sizes
narrowed to `int` and rounding near the end of `uint32_t`; calls on a cipher
context (init, AAD, update, finalize, tag) in every order, as nothing in the
library asks for one; constructors in every order. There is no persistence
protocol, no messages and no timers, so there is nothing to say of crashes and
restarts.  `PROJECT.json` lists the hazards at their lines with the properties
that cover them.

## Modules

| module | models | in |
|---|---|---|
| `Registry` | one registry with its rwlock, step by step | `header.c`; the shape of all six registries |
| `RegistryAbs` | what a registry promises: every call's effect in one step | specification of the above, and of the four below it |
| `FileWriter` | the writers' registry over the cipher registry | `filewriter.c`, `cipher.c` |
| `HashContext` | hash types and contexts | `hash.c`, `hash-openssl.c` |
| `CipherContext` | cipher types, references, contexts, keying | `cipher.c`, `cipher-openssl.c` |
| `ScopedUse` | the calls that hold a type only while they run | `pbkdf*.c`, `rand*.c` |
| `CipherData` | the bytes and tags that go through one context | `cipher.c`, `cipher-openssl.c` |
| `FileCreate` | `cfe_create` from its checks to the writer, threads interleaved | `open.c`, `fcntl.c`, `header-v1.c`, `filewriter*.c` |
| `CfeList`, `CfeHlist`, `ListAbs` | pointers; sequences | `list.h` |
| `ListWalk` | a loop over a list that its body changes | `list.h` |
| `CfeRef` | one counter, several threads | `ref.h`, `atomic.h` |
| `Containers` | the lists with the loop over them, the hlists and the counter, which share no state | `include/cfe` |
| `KeystoreDarwin`, `KeystoreAbs` | dictionary and rwlock; a linearizable map | `keystore-darwin.c` |
| `KeystoreLinux` | system calls on a keyring | `keystore-linux.c` |
| `Startup` | constructors, `cfe_keystore_set_default` | `keystore.c`, the constructors of all backends |
| `Keystores` | the two backends, of which a build has one at most | `keystore.c` |
| `Ciphers` | the two sides of a cipher context | |
| `UserCounts` | lemmas on counters and their users, for every registry | |
| `RegistryProofs`, `FileWriterProofs`, `HashContextProofs`, `FileCreateProofs` | the theorems about the module they are named after | |
| `CipherProofs` | the theorems about `CipherContext` and `CipherData` | |
| `ContainerProofs` | the theorems about `Containers` with `CfeRef`, and about `ScopedUse`, whose references are counted too | |
| `KeystoreProofs` | the theorems about both keystores and `Startup` | |

`MC*` modules give the constants small values.  Three modules compose components
that share no state, so that one run checks and one theorem speaks of them:
`Containers` picks one of the four containers in its initial state, `Keystores`
one of the two keystores (a build has one of them, or on BSD none), and
`Ciphers` one of the two sides of a cipher context.  The parts that are not
picked stay in their initial states.

A locked section is one step in all modules but `Registry` and
`KeystoreDarwin`; the test and the assignment of `cfe_keystore_set_default`,
which takes no lock, are two steps in `Startup`.  What justifies it is
`RegistryImplements`, a theorem: the registry with its lock, step by step,
implements the one in which each call is a step.  Decrements are
steps of their own everywhere, because they are not locked.

### Registry

`link[ty]` is the state of the list node in a type: `"zero"` as the linker left
it, `"linked"`, or `"self"` after `list_del_init`.  (That the list operations
do keep a list is the subject of `CfeList`.)  `refcnt` is the counter, read
through `AtomicGet`, which narrows to an `int` as `cfe_atomic_get` does.
`default`, `writer` and `readers` are `header_default` and the rwlock.
`object[c]` is `header->type` of a live header.  `pc`, `type` and `want` are
the position, local variable and argument of a call.

A call of `register` takes `RegLock`, then `RegBusy` or `RegFree` and `RegAdd`,
then `WriteReturn`; `unregister`, `create` and `close` likewise, one step for each
access to what other threads can see.

### FileWriter, HashContext, CipherContext, ScopedUse

The other five registries differ from `header.c` in what holds a reference,
and that is what these modules are about.  `cfe_filewriter_create` takes one
from each of two registries.  When it fails it puts both; when it succeeds the
writer has its type (`writer[w]`), and the reference of the cipher is lost, as no
pointer to it is left.  `lost[w]` is a history variable that says which cipher it
was of; it counts as an owner that never lets go, and nothing ever gives back
either of the two (`PinnedForGood`).  A hash or cipher context
keeps its type (`ctype[c]`), a caller of `cfe_cipher_ref` keeps one without a
context, `derive` and `cfe_rand_get` keep one while they run.  Each module maps
to `RegistryAbs` with its own set of owners.

What they add to it: `FileWriter` compares versions as unsigned numbers, of
which `UIntMod - 1` is the default's; `HashContext` has the digest that OpenSSL
allocates at init and frees at finalize (`digest[c]`), after which an update or
a second finalize, which nothing in `hash.c` refuses, stops the process
(`Dies`); `CipherContext` has what OpenSSL has been told (`evp`) and what the
last successful init agreed (`agreed`), as an init makes three calls, any of
which may fail; `ScopedUse` has the sizes that the backends cast to `int` and
what the callback filled. `HashContext`, `CipherContext` and `ScopedUse` have
types of one name and types that lack a member, which registration refuses.

### CipherData

The data of one context after an init that succeeded, counted in bytes.  The
calls come in any order, an init in the middle of a message, AAD after data,
updates and further finalizes after a finalize, tags at any time, for the
library refuses none of them; what OpenSSL answers is in the model (`Takes`,
`TakesAad`, `Final`, `Spoils`, marked external).  `given` is what the calls that
returned 0 were given of data and of AAD, `taken` what OpenSSL has taken of it,
which is less by a multiple of 2^32 if a size is no int; `out` is what it wrote,
`buf` and `held` what it holds back.  These are kept for the message as it stands
at its finalize; later calls change what OpenSSL holds, not them.  `have` is the
caller's `size_t` whose address the backend passes as an `int *`: it has two
halves, of which a call writes one, and `big` says which.  `sealed` and `got` are
what a tag that was made or found right, and what a returned tag, stands for.

### FileCreate

The three registries `cfe_create` uses are in it as `RegistryAbs` shows them.
For the ciphers, whose types come and go while calls run, that is a theorem:
seen through `CipherUsing`, which gives each call and each created file the
cipher it has a reference to, the steps are `Acquire`, `Hand`, `Release`,
`Register` and `Unregister`, or nothing (`UsesCipherRegistry`; it starts with
the ciphers registered, so the claim is about the steps). Each exit of
`cfe_create` and the functions under it is an action named for what failed, from
`BadArguments`, `BadIdent`, `StatFails` and `StatRefused` on; `"file_free"`,
`"header_put"`, `"cipher_put"` and so on are the steps of giving back.  `errno`
is `"stale"` until the call sets it, `idents` is `params->key_ident`, which the
call moves even when it fails afterwards; `args[t].ident` is what it was at the
call (`KeyIdentMovesOnce`). `header[x].lost` is the cipher of the reference that
a created file's writer leaves behind, as in `FileWriter`.  `posix` is chosen
once, at the start: whether the build has `posix_fallocate` or `F_PREALLOCATE`.
`raced` is a history variable, the files on which two calls ran at once.

### CfeList, CfeHlist, ListWalk

The heap is functions from nodes to nodes; in an `hlist`, `pprev` leads to the
pointer that leads to the node, which is named by the head or node it is in.
Every function of `list.h` is an operator on heaps; its precondition (an entry
that is on no list is added, a spliced head is initialised before it is used
again) is the guard of the action that calls it. `ImplementsSequences` ties each
function to one operation of `ListAbs`, so that a `list_move_tail` which put its
entry first would be noticed.  `ListWalk` runs `list_for_each_safe` over one of
these lists, with a body that leaves the entry, deletes it, or moves it to
another list, and that adds entries; between loops the lists are used as ever.

### KeystoreDarwin and KeystoreAbs

The dictionary retains what it stores, so a `CFData` is freed when its
`retain` reaches 0 and its `bytes` are lost then.  `KeystoreAbs` is a
linearizable map: a call is invoked, takes effect in one step and returns.  The
refinement mapping computes what a running call still has to do from its `pc`;
the effect of an add is at `AddRemove`, of a removal at `Remove`, of a read at
`ReadGet`, all inside the lock; until `AddValue` the mapping shows the new value.
An add or a read without memory is refused without an effect (`AddNoMemory`,
`ReadNoMemory`), in the model and in the map; invalid arguments do nothing
(`CallInvalid`).

### KeystoreLinux

`ring` and `contents` are the kernel's: a serial number found may be out of
date when it is used.  There is no lock, so no atomic map is implemented:
`read_key` may answer with a key that was removed meanwhile.  What holds is
weaker and is stated on a history variable, `seen`: an answer was true at some
moment of the call.

### Startup and CfeRef

`Startup` runs the constructors in any order, with one of the program's own
among them, which may take a name or the keystore first; each registers its
types one by one and decides, as the code does, whether a failure aborts.
`built` says whether the build has a keystore backend: `configure.ac` knows BSD,
for which `src/Makefile.am` compiles none. `cfe_keystore_set_default` is a test
and an assignment, two steps, and threads of `main` call it too; without a
backend two of them may both pass the test.  `CfeRef` has one object whose
references are taken, passed on and put by several threads; the release callback
is a step after the decrement that found 0.

## Runs

| run | shows | bounds |
|---|---|---|
| `registry_fs` | counters, list, default and lookups of a registry are right in every interleaving; it implements `RegistryAbs` | 3 threads, 2 headers, 3 types of which two have one version, requests for the default, a version, and 65537, which narrows to 1; `IntMod` 6, above the five owners |
| `registry_live` | every call returns, so every lock is given back | 2 threads of `MaxCalls` calls each, 1 header, 2 types |
| `file_create` | references balance on every failure path, the mapping is big enough and inside the file, errno is set, `key_ident` is moved once or not at all, one header per file where no two calls race | 2 threads, descriptors of a file and of a terminal, 2 `cfe_file`, header sizes 0, 5, 13 with pages of 4 and a `uint32_t` of 16 values, `MaxIdents` 1, both builds |
| `containers` | lists and hlists implement sequences in both directions; a loop visits each entry once; a shared object is released once and last | 2 heads and 4 entries, of the lists, the loops and the hlists; 3 threads and 4 references |
| `keystore` | macOS: an atomic map without leaks or use after free. Linux: answers were true at some moment, nothing else vanishes | 3 threads, 1 description, memory for 3 CFData; 2 threads, 2 descriptions, 3 serial numbers; 2 payloads, one too long for the buffer |
| `keystore_darwin_no_memory` | expected violation, see Findings | the same |
| `cipher` | references balance and implement the registry, an init is all or nothing; output lengths, conservation of bytes, tags | 2 threads, 2 contexts, 3 types (two of one name, one incomplete), IVs missing, right and too long; blocks of 2 bytes, ints of 4 bits, both byte orders, an upper half of 0 and of 1, `MaxGiven` 18 bytes of data and of AAD in one message, sizes 0, 1, 3, 9, which is a negative int, and 17, which loses 16 |
| `cipher_context_no_memory` | expected violation, see Findings | the same |
| `hash_context` | references balance and implement the registry, the type of every callback is there and complete | 2 threads, 2 contexts, 4 types: two of one name, one incomplete |
| `scoped_use` | each call gives its reference back; buffers are filled and not overfilled | 2 threads, 3 and 2 types, ints of 3 bits, sizes that fit, turn negative, turn 0 and turn smaller |
| `file_writer` | both counters are exact through every failure, lost references included; the version asked for; what a success has pinned stays | 2 threads, 2 writers, 4 types of which two have one version and one has the default's number, 1 cipher |
| `startup` | in `main` everything is there and is the library's, or the process was stopped for a reason; a keystore is replaced in a race only | every order of the constructors, with and without a keystore backend, 2 threads, three names that the program may take |

Why the bounds are enough to be worth something.  A registry: one thread in
each of lookup, registration and unregistration is the largest race its lock
orders, two headers let a counter be both raised and dropped while a third
party tests it, and two types of one version let a registration be refused.
In the runs where a locked section is one step two threads are enough for that,
one in its callback or its decrement while the other registers and
unregisters.  What lies beyond is covered by the proofs, which hold for every
number of threads, objects and types.  Lists: with four entries, the neighbours
of a node, its head and the other list's head are all different nodes; a list
function touches four nodes at most.  macOS keystore: a reader past its unlock,
a writer in the lock and one waiting are three threads, and the three CFData
are the old value, the new one and one a reader still holds.  Linux: a thread
between its system calls sees whatever sequence of calls the other makes.
`file_create`: 13 rounds up to 16 and wraps to 0, 5 rounds up to a second page,
0 is the default; the second `cfe_file` is there so that a retry or a racing
call can have one while the first is in use; the terminal is refused after
`fstat`.  With one "cfe:" a caller who retries without a new `key_ident` is
refused; a name with two is left to the proof.  Data: blocks of two bytes have a full, a partial and an empty rest, 9
is a size whose narrowing is negative, and 17 is the first whose narrowing is
neither itself nor 0.

Bounds by name: `MaxCalls` (calls a thread makes in the liveness run),
`MaxIdents` ("cfe:" prefixes a caller writes), `MaxGiven` (bytes in one
message), `MaxSeen` (visits of a loop that are told apart), `MemoryLeft` (calls
that create a writer at once), `Clashes` (names the program's constructor may
take), the sets `Objects`, `Files`, `Ctxs`, `Writers`, `Datas`, `Serials`,
`Refs` (memory, and numbers the kernel gives out), and the scaled widths
`IntMod`, `UIntMod`, `U32`, `PageSize`.

Type invariants are left to the proofs, and the runs keep their time for the
other properties: `TypeOK` of every module with state, and what stands for it
in the list modules, is part of an inductive invariant below.

Each property of a passing run has, next to the definition it is about, a
variant of that definition with a plausible bug (marked `Mutant` in the module
and listed in `PROJECT.json`), under which the run fails.

### Fairness

Only `registry_live` has it.  `WF` of each thread's steps inside a call: a
thread of the program that has called the library is scheduled, and the library
never waits except for the lock.  Calls themselves are not fair, nobody is
obliged to call.  The number of calls is bounded because a writer may wait for
ever behind readers that keep coming: POSIX leaves the choice between readers
and writers to the implementation, and weak fairness does not exclude it.

Deadlock is checked except where the system stops: in `registry_live`, whose
threads stop when they have made their calls; in `file_writer`, as no writer is
ever destroyed; in `startup`, as an aborted process is the end; in
`hash_context`, as a digest used after its end stops the process; and in
`containers`, where an object that was released is the end.

## Proofs

Every theorem holds for all values of the constants that satisfy the named
assumption of its module: any numbers of threads, objects and types.

| module | theorem | property |
|---|---|---|
| `RegistryProofs` | `TypeCorrect` | `TypeOK` |
| | `ReferencesCounted` | `CountsReferences`: `refcnt` is one (of the list) plus the users of the type |
| | `UsedTypesStay` | `NoDanglingType` |
| | `UnlinkedUnused` | `UnlinkIsSafe` |
| | `KeysAreUnique` | `UniqueKeys` |
| | `DefaultIsTheNewest` | `DefaultIsNewest` |
| | `LookupsAreExact` | `LookupIsCurrent` |
| | `RegistryImplements` | `AbsSpec`: the stepwise registry implements `RegistryAbs` |
| `FileWriterProofs` | `WriterTypeCorrect`, `WriterRefsBalanced`, `VersionsAreExact` | `TypeOK`, `RefsBalanced`, `GetsWhatItAsked` |
| | `CreationPins` | `PinnedForGood`: the writer type and the cipher of a success stay registered |
| | `WriterImplements` | both registries implement `RegistryAbs`, lost references being users for ever |
| `HashContextProofs` | `HashTypeCorrect`, `HashRefsBalanced`, `HashCallbackExists` | `TypeOK`, `RefsBalanced`, `CallbackExists` |
| | `HashImplements` | `ImplementsRegistry` |
| `CipherProofs` | `CipherTypeCorrect`, `CipherRefsBalanced`, `KeysAreAllOrNothing` | `TypeOK`, `RefsBalanced`, `InitIsAllOrNothing` |
| | `CipherImplements` | `ImplementsRegistry` |
| | `LengthIsRight` | `OutputLengthRight`, for either byte order and whatever the `size_t` held |
| | `BytesAddUp`, `TagsVouchForAll` | `DataConserved`, `TagsCoverTheMessage` |
| `ContainerProofs` | `ListPointersLeadOn`, `ListsImplementSequences` | `PointersLeadOn`, `ListsAreSequences`: both walks end and agree, and every function of `list_head` is its sequence operation |
| | `LoopVisitsEachOnce`, `LoopTypeCorrect` | `VisitsEachOnce`, `WalkTypeOK`: a loop visits what was there once, in order, whatever its body does to its own entry |
| | `HlistPointersExact`, `HlistsImplementSequences` | `BackPointersExact`, `HlistsAreSequences`: the same of the hlists |
| | `ScopedTypeCorrect`, `ScopedRefsBalanced`, `ScopedCallbackExists`, `BuffersAreFilled` | `TypeOK`, `RefsBalanced`, `CallbackExists`, `FillsTheBuffer` |
| | `ScopedImplements` | both lists implement `RegistryAbs` |
| | `RefTypeCorrect`, `RefsAreCounted`, `HeldObjectsLive`, `NoDoubleRelease` | the counter is the number of references, and an object that is held lives |
| | `ReleaseComesLast` | `ReleaseIsLast` |
| `KeystoreProofs` | `KeystoreTypeCorrect`, `RetainsBalance`, `ReadsAreAlive` | `TypeOK`, `RetainsBalanced`, `NeverReadsFreed` |
| | `KeystoreImplementsMap` | `ImplementsMap`: the store implements the linearizable `KeystoreAbs` |
| | `LinuxAnswersWereTrue`, `LinuxKeysVanishOnRequest` | `AnswersWereTrue`, `OnlyRequestedKeysVanish` |
| | `StartTypeCorrect`, `StartFindsEverything`, `ReplacementsAreRaces` | `StartTypeOK`, `StartIsRight`, `ReplacedOnlyInARace` |
| `FileCreateProofs` | `FileCreateType`, `ReferencesAreBalanced` | `TypeOK`, `RefsBalanced` |
| | `MappingIsLargeEnough`, `MappingStaysInside` | `MappingCoversRequest`, `MappingInsideFile` |
| | `FailuresHaveErrno` | `FailureSetsErrno`, at every exit |
| | `KeyIdentIsSpent` | `KeyIdentMovesOnce` |
| | `HeaderIsAlone` | `OneHeaderPerFile` |
| | `FileCreateUsesRegistry` | `UsesCipherRegistry`: every step is one that `RegistryAbs` allows the cipher registry |

Assumptions.  The sets of threads and objects are finite, disjoint where they
own references together, and null values are not members; keys, versions and
sizes are numbers.  The others are about widths: `WidthAssumption` of `Registry`
(fewer references than the `int` of `cfe_atomic_get` tells apart; without it
2^32 references read as none, and a used type is unlinked); an even `IntMod` in
`ScopedUse`; and in `FileCreate` a page size that divides the range of
`uint32_t`, as every page size does.

### The registry

None of its properties is inductive alone.  `IInv` is

    CtlInv  = TypeOK, LockInv, ArgInv     what a pc value implies
    DataInv = counters, users listed, unique keys, default
    ReadInv = RegInv, UnregInv, FoundInv, LookupIsCurrent

`LockInv` says that a pc inside a locked section has that lock and that a
writer is alone; `ArgInv` that a pc which uses the local `type` has one.  With
these, `RegInv` (the key a registration found free is still free) and
`UnregInv` (the type an unregistration found unused is still unused) survive
the steps of the other threads: an increment needs the read lock, which the
writer excludes, and a decrement only makes a used type less used.  `FoundInv`
says that a type found but not yet counted is listed; it too survives because
the reader's lock keeps `unregister` out.  Each part has its own lemma
(`RegInvStep`, `FoundInvStep`, ...), one step per action; `Invariance` puts them
together.  `AbsInit` and `AbsStep` use `IInv` to map each step to a step of
`RegistryAbs` or to a stutter.

### The modules on top of it

They share `UserCounts`.  It knows nothing of libcfe's calls: given a function
from owners to what each uses, it shows that a counter stays one plus its users
when a type is put on the list or taken off it (`Enlisting`, `Delisting`), and
when an owner takes, hands over or drops a type (`Taking`, `Handing`,
`Dropping`).  A proof about a module then has to say only which of these moves
each action is, a call that hands its type to the context it made included, and
the same case gives the step of `RegistryAbs`.  The rest of each `IInv` is what
the module adds: that a pc outside `"idle"` has a type and an idle thread none;
for contexts, that two threads never initialise the same one and that half an
init leaves no key (`HalfInit`); for the writers, that the default is listed.
That a success pins what it took (`CreationPins`) is the counters again: a type
with a writer, or with a lost reference, is counted above one in every later
state, and `unregister` wants one.

### The macOS keystore

`IInv` has, next to `LockInv` and `ArgInv`,

    FoundInv  the value a reader has found is still stored under the lock, and
              in the gap of an add nothing is stored
    Counted   retains are keys that have the CFData plus calls that own it
    BytesInv  what is retained has its bytes; those of a running add are its
              payload

A step is one of six effects on these (`Makes`, `Stores`, `Unstores`, `Shares`,
`LetsGo`, `Still`); the counts balance through each (`CountedStep`), and
whoever keeps a retain over a step keeps the bytes (`Stable`).  That is why a
read may copy after it has unlocked, and it is also what makes the answer in
the abstract call constant from `ReadGet` on.  For the refinement, `KeysAre`
says what the abstract map is: the payload of the one add that is in its gap,
else what is stored.  `RemovalIsIt` shows that the removal of the old value is
where an add takes effect, and `AddingIsUnseen` that storing the new one then
changes nothing.

### The Linux keystore

There is no lock to lean on, so the invariant says what a call knows between two
system calls.  `RingInv`: a serial number is linked under one description, and
has a payload as long as it is.  `SerialInv`: the number a call has found is
still that of its description, or it is dead for good and then the call was
running when the key went, so that "no such key" is among the answers that were
true (`seen`).  It stays dead while the call has it, because the kernel numbers
a new key as no key that somebody still has in hand.  `SeesNow` keeps `seen` up
with the ring.  From the first two it follows that an invalidation hits the
requested key or nothing (`LinuxKeysVanishOnRequest`), and from all that answers
were true.

### The data of a cipher context

`ContextInv`: what OpenSSL holds back is less than a block, or exactly the last
block of a padded message that is being decrypted.  `CountInv` has the bytes:
what was given is what was taken and a multiple of 2^32; until the finalize what
was written are whole blocks, and written and held back make what was taken
(`Flow`); after it the output has its length (`Whole`).  The arithmetic, the
quotient by a block size that is any number above one, is in lemmas of its own
(`Blocks`, `PassAddsUp`), and so is the finalize (`FinalCases`).  `TagInv` says
that tags which were made, found right or returned are of the message that was
finalized.  `LengthInv` says that the half of the caller's `size_t` which no call
writes is what it was at first, whichever half that is (`StoreIsRead`).

### File creation

A file belongs to the one call that has it in hand (`InHand`, `FilesApart`), and
`Stage` says what the call has done for it at each label: from the mapping on it
is `normalize_headersize` of the size asked for, nonzero, and inside the file if
the file was extended by `posix_fallocate`; a label that gives something back is
reached only with the thing to give.  A file that was created keeps all of that
(`LiveIsComplete`). `Ident` says at each label where `key_ident` is, `HasErrno`
at which labels a failure has a reason.  The three counters follow by the moves
of `UserCounts`, with `UsersAreListed` for the cipher, the one type the
environment unregisters. From the same invariant `FollowsStep` maps each step to
the registry: a step of one call touches no other owner (`OnlyCallOf`,
`OthersUse`), most of them do not concern the ciphers (`StillUses`), and the
test of the counter in `cfe_cipher_unregister` means what the abstract one asks
(`GoneIsUnused`). `OneHeaderPerFile` needs two facts of the history variable:
calls that are past `fstat` together are known to race (`RacingKnown`), and a
call that found the file empty is the first on it or has raced (`PastStat`).

### The start

`LeftInv` and `OwnerInv` say where a constructor is: a name it has been through
is taken, and by the library unless the program's constructor took it first, in
which case `hash` carries on, `failures` counts it, or the process was stopped.
`FailureInv` says that a failure has the program for its cause.  `SetterInv`: until
`main` only the loader can be between the test and the assignment of the
keystore, and then nothing is set; with a backend that is why two steps without a
lock are enough.  A thread of `main` gets past the test only in a build without
one, and only as long as nothing is set: whoever replaces a keystore was there
before it was set (`ReplacementsAreRaces`).

### Lists

`Shape` relates the pointers to one sequence of entries for each head: no entry
twice or on two lists, and the pointers of a list form a ring (`Ring`) through
the head and the sequence, except for heads whose list was spliced away.  `Off`
is about entries on no list: they point to themselves or nowhere.  For the
hlists, `Firm` has a line from the head to NULL (`Line`), whose back pointers
lead to the pointer before, and `Bare` what `hlist_unhashed` relies on.

One lemma says what becomes of a ring when a node is linked between any two
neighbours (`RingInsert`), one when a node is unlinked (`RingDelete`), one when a
whole ring is taken into another (`RingSplice`), and `LineInsert`, `LineDelete` and
`HlistMoved` say it of lines.  A list whose nodes are not written keeps its ring
(`RingFrame`, `LineFrame`), and every function of `list.h` is an instance of
these, with the sequence that `ListAbs` has for it.

The model has no such sequence, only walks along the pointers, bounded by the
number of entries.  That the walk along a ring or line is the sequence
(`WalkIs`, `HlistWalkIs`) is the step an induction would be used for.  It is made
without one: a set of numbers that is not empty has a least one (`LeastNumber`),
so if the walk differed from the sequence there would be a first step at which
it does, and there is none.  The sequence is no longer than there are entries
(`LengthBounded`), so the walk gets to its end.

`LoopInv` is about a loop that runs over one of these lists.  `Trail` says what is
behind it: the first *k* of the entries that were there at the beginning are
among those it has visited, the others are not, and they were visited in their
order.  `Ahead` says what is to come: from some place on, the list holds the
others first, then only new entries, none of them visited.  In the body that
place is the entry the loop is at, and its variable `n` is the node behind it
(`AtBody`); after the body `n` itself is the place (`AtStep`), and so it does not
matter that the entry may be gone (`AheadOfGone`) or that the list has grown at
either end (`AheadOfFront`, `AheadOfBack`).  When `n` is the head there is nothing
ahead, so *k* is all of them (`NoneAhead`).  This invariant and that of the lists
are proved together, since the body changes the list with the same functions
(`LoopCalls`).

### What is only model-checked

`EveryCallReturns`, the liveness of the registry: reasoning about fairness is
outside this prover.  All invariants and all other temporal properties that the
passing runs check are theorems.

`UsesCipherRegistry` goes the other way: it is proved, and in no run, because on
the instance of `file_create` it takes as long as all its properties together
(it holds there).

## Findings

- `src/keystore-darwin.c:28`: when the description cannot be converted for lack
  of memory, `remove_key` logs that the key "will NOT be deleted" and then
  removes and releases a NULL reference, which ends the process
  (`keystore_darwin_no_memory`, `RemoveNeverCrashes`).
- `src/crypto/cipher-openssl.c:144`: a failed allocation is returned as
  `&octx->base` of a NULL `octx`, which is not NULL because `base` is the last
  member; the caller's test passes and it writes through it
  (`cipher_context_no_memory`, `AllocFailureIsSeen`).  `hash-openssl.c:81` has
  the same line.

The passing runs of `KeystoreDarwin` and `CipherContext` are of `Spec`, where
these two allocations succeed; the specification with the failures is
`SpecNoMemory`, which only the two runs above use, so that what happens up to a
crash does not hide the rest.  In `HashContext` the failed allocation is a step
of `Spec` that ends the process.

Seen while modelling and kept in the models, without a property that forbids it,
because nothing in the repository says otherwise: the cipher reference of a
writer that was created is kept by nobody and stays counted (`PinnedForGood`
states the consequence); a failed create leaves `params->key_ident` moved
(`KeyIdentMovesOnce`) and the file extended, and a retry is refused; with
`F_PREALLOCATE` the file is not extended at all before it is mapped; two calls
that race on one descriptor both pass the test for an empty file; a read of the
Linux keystore may set `*len` beyond the buffer; a length that an `int` does not
hold is cut, and `derive`, `cfe_rand_get` and the cipher calls report success
for the rest; only half of the caller's `size_t` is written, which gives the
length on a little-endian machine if the upper half was 0, and only then
(`OutputLengthRight`); a digest that is updated or finalized after its end stops
the process; in a build without a keystore backend racing threads replace each
other's (`ReplacedOnlyInARace`); a writer of version 2^32 - 1 can be registered
and not be asked for; a hash that could not be registered stays missing without
a word.  Properties that such a case would break are stated for the others only,
and say so in their comments.

## Not modelled

- `cfe_open` and `do_open`: they return ENOSYS.
- `next_pow2_*` of `utils.h`: nothing in the library calls it; the remaining
  macros have nothing to check by themselves.
- The choice of RDRAND in `rand-openssl.c`: a call of OpenSSL at the start.
- Logging, attributes, build files; the unit tests are read as statements of
  what the code promises.
- NULL pointers as `in` or `out` of a cipher call, and a tag size that GCM
  refuses; the NULL contexts that `cipher.c` and `hash.c` refuse with EINVAL
  change nothing.
- Threads that a constructor starts before `main`.
- Memory ordering: `atomic.h` uses sequentially consistent builtins for its
  updates, and counters are tested under a lock, so steps are interleaved.

## Open ends

In the order in which they would be worth the work: the data of a hash context,
as `CipherData` has it for ciphers; a module for `next_pow2_*` of `utils.h`
should the library come to call it.
