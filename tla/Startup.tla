------------------------------- MODULE Startup -------------------------------
(***************************************************************************)
(* The start of the library: the constructors of its backends run before   *)
(* main(), in an order the linker chooses, and register what they offer.   *)
(* A program that links the library statically has constructors of its own *)
(* among them, which may register the same names or set a keystore first.  *)
(* In main() threads may call cfe_keystore_set_default() as well; its test *)
(* and its assignment are two steps, as there is no lock.  A build for BSD *)
(* has no keystore backend (configure.ac, src/Makefile.am), and so nothing *)
(* that sets one before main().                                            *)
(***************************************************************************)
EXTENDS Naturals, Sequences

CONSTANTS
  MainThreads,   \* the threads of the program in main()
  Clashes,       \* Bound: the names the program's constructor may register
  Library,       \* owner of what the library has registered
  Program,       \* owner of what the program has registered
  NULL

\* Registry and name (or version) of the types that a constructor registers.
Offers(c) ==
  CASE c = "cipher" -> << <<"cipher", "aes-cbc-128">>, <<"cipher", "aes-cbc-192">>,
                          <<"cipher", "aes-cbc-256">>, <<"cipher", "aes-gcm-128">>,
                          <<"cipher", "aes-gcm-192">>, <<"cipher", "aes-gcm-256">> >>
    [] c = "hash" -> << <<"hash", "sha1">>, <<"hash", "sha224">>, <<"hash", "sha256">>,
                        <<"hash", "sha384">>, <<"hash", "sha512">> >>
    [] c = "pbkdf" -> << <<"pbkdf", "pbkdf-sha1">>, <<"pbkdf", "pbkdf-sha224">>,
                         <<"pbkdf", "pbkdf-sha256">>, <<"pbkdf", "pbkdf-sha384">>,
                         <<"pbkdf", "pbkdf-sha512">> >>
    [] c = "rand" -> << <<"rand", "rand">> >>
    [] c = "header" -> << <<"header", 1>> >>
    [] c = "writer" -> << <<"writer", 1>> >>

Registrars == {"cipher", "hash", "pbkdf", "rand", "header", "writer"}
Constructors == Registrars \cup {"keystore"}

\* A failure to register stops the process, except that of a hash.
Aborts(c) == c # "hash"

Names == UNION {{Offers(c)[i] : i \in DOMAIN Offers(c)} : c \in Registrars}
Loader == "loader"

ASSUME StartupAssumption ==
  /\ Library # Program
  /\ NULL \notin {Library, Program} \cup Constructors \cup {"program"}
  /\ {Loader, Library, Program, NULL} \cap MainThreads = {}

VARIABLES
  built,      \* whether the build has a keystore backend
  phase,      \* "start", "main" or "aborted"
  waiting,    \* the constructors that have not been called
  left,       \* what the constructor that runs has not yet registered
  current,    \* that constructor, or NULL
  failures,   \* its `ret'
  owner,      \* name -> who has registered it, or NULL
  keystore,   \* the static keystore of keystore.c: who has set it, or NULL
  setting     \* caller past the test of cfe_keystore_set_default() -> what it will set

startVars == <<built, phase, waiting, left, current, failures, owner, keystore, setting>>

StartInit ==
  /\ built \in BOOLEAN
  /\ phase = "start"
  /\ waiting = Registrars \cup {"program"} \cup (IF built THEN {"keystore"} ELSE {})
  /\ left = << >> /\ current = NULL /\ failures = 0
  /\ owner = [n \in Names |-> NULL]
  /\ keystore = NULL
  /\ setting = [t \in MainThreads \cup {Loader} |-> NULL]

Run(c) ==
  /\ phase = "start" /\ current = NULL /\ c \in waiting
  /\ waiting' = waiting \ {c}

\* One of the *_openssl_init(), header_v1_init() or writer_v1_init() is called.
Begin(c) ==
  /\ Run(c) /\ c \in Registrars
  /\ current' = c /\ left' = Offers(c) /\ failures' = 0
  /\ UNCHANGED <<phase, owner, keystore, setting>>

\* ret += cfe_*_register(...): EBUSY when the name is taken.
Register ==
  /\ left # << >>
  /\ left' = Tail(left)
  /\ IF owner[Head(left)] = NULL
     THEN owner' = [owner EXCEPT ![Head(left)] = Library] /\ UNCHANGED failures
     ELSE failures' = failures + 1 /\ UNCHANGED owner
  /\ UNCHANGED <<phase, waiting, current, keystore, setting>>

\* if (ret) abort()
End ==
  /\ current \in Registrars /\ left = << >>
  /\ phase' = IF failures > 0 /\ Aborts(current) THEN "aborted" ELSE "start"
  /\ current' = NULL /\ failures' = 0
  /\ UNCHANGED <<waiting, left, owner, keystore, setting>>

\* Mutant: the test is left out.
TestNothing(t, who) == setting' = [setting EXCEPT ![t] = who]

\* if (keystore) EBUSY: the caller goes on to the assignment only if it is not set.
TestDefault(t, who) ==
  setting' = IF keystore = NULL THEN [setting EXCEPT ![t] = who] ELSE setting

\* keystore = type
AssignDefault(t) ==
  /\ setting[t] # NULL
  /\ keystore' = setting[t]
  /\ setting' = [setting EXCEPT ![t] = NULL]
  /\ current' = IF t = Loader THEN NULL ELSE current
  /\ UNCHANGED <<phase, waiting, left, failures, owner>>

\* ks_linux_register_type(), ks_darwin_register_type()
BeginKeystore ==
  /\ Run("keystore")
  /\ TestDefault(Loader, Library)
  /\ IF keystore = NULL
     THEN current' = "keystore" /\ UNCHANGED phase
     ELSE phase' = "aborted" /\ UNCHANGED current
  /\ UNCHANGED <<left, failures, owner, keystore>>

\* The dictionary of ks_darwin_register_type() cannot be allocated.
NoDictionary ==
  /\ Run("keystore")
  /\ phase' = "aborted"
  /\ UNCHANGED <<left, current, failures, owner, keystore, setting>>

\* The program's own constructor registers types and may set a keystore.
ProgramBegins ==
  /\ Run("program")
  /\ \E mine \in SUBSET Clashes :
       owner' = [n \in Names |-> IF n \in mine /\ owner[n] = NULL THEN Program ELSE owner[n]]
  /\ TestDefault(Loader, Program) \/ UNCHANGED setting
  /\ current' = IF setting'[Loader] = NULL THEN NULL ELSE "program"
  /\ UNCHANGED <<phase, left, failures, keystore>>

\* Mutant: main() before the last constructor.
EnterMainEarly ==
  /\ phase = "start" /\ current = NULL /\ waiting # {}
  /\ phase' = "main"
  /\ UNCHANGED <<waiting, left, current, failures, owner, keystore, setting>>

EnterMain ==
  /\ phase = "start" /\ waiting = {} /\ current = NULL
  /\ phase' = "main"
  /\ UNCHANGED <<waiting, left, current, failures, owner, keystore, setting>>

\* A thread calls cfe_keystore_set_default() in main(), with a type of its own.
CallSetDefault(t) ==
  /\ phase = "main" /\ setting[t] = NULL
  /\ TestDefault(t, t)
  /\ UNCHANGED <<phase, waiting, left, current, failures, owner, keystore>>

LoaderStep ==
  \/ \E c \in Constructors : Begin(c)
  \/ Register \/ End \/ BeginKeystore \/ NoDictionary \/ ProgramBegins \/ EnterMain

StartNext ==
  /\ \/ LoaderStep
     \/ \E t \in MainThreads : CallSetDefault(t)
     \/ \E t \in MainThreads \cup {Loader} : AssignDefault(t)
  /\ UNCHANGED built

StartSpec == StartInit /\ [][StartNext]_startVars

-----------------------------------------------------------------------------
(***************************************************************************)
(* Every variable has a value of its type; one constructor runs at a time, *)
(* and none in main().                                                     *)
(***************************************************************************)
StartTypeOK ==
  /\ built \in BOOLEAN
  /\ phase \in {"start", "main", "aborted"}
  /\ waiting \subseteq Constructors \cup {"program"}
  /\ current \in Constructors \cup {"program", NULL}
  /\ failures \in 0..Len(Offers("cipher"))
  /\ owner \in [Names -> {Library, Program, NULL}]
  /\ keystore \in {Library, Program, NULL} \cup MainThreads
  /\ setting \in [MainThreads \cup {Loader} -> {Library, Program, NULL} \cup MainThreads]
  /\ left # << >> \/ setting[Loader] # NULL => current # NULL
  /\ phase = "main" => current = NULL

(***************************************************************************)
(* The process is stopped for a reason only: the program has taken a name  *)
(* or the keystore, or there was no memory for the keystore's dictionary.  *)
(* In whatever order the constructors run, those of the library never fail *)
(* because of each other.                                                  *)
(***************************************************************************)
AbortsForAReason ==
  phase = "aborted" =>
    \/ \E n \in Names : owner[n] = Program
    \/ keystore = Program
    \/ built /\ keystore = NULL /\ "keystore" \notin waiting

(***************************************************************************)
(* In main() there is a type under every name, and a keystore to call if   *)
(* the build has a backend, and they are the library's.  Only a hash can   *)
(* be the program's, for hash_openssl_init() leaves its failures           *)
(* unreported.                                                             *)
(***************************************************************************)
MainFindsEverything ==
  phase = "main" =>
    /\ built => keystore = Library
    /\ \A c \in Registrars : \A i \in DOMAIN Offers(c) :
         owner[Offers(c)[i]] \in {Library} \cup (IF c = "hash" THEN {Program} ELSE {})

(***************************************************************************)
(* A type that is registered stays.  A keystore that is set may be         *)
(* replaced, for cfe_keystore_set_default() has no lock, but only where a  *)
(* build has no backend, and only by a thread that was already between its *)
(* test and its assignment: a call that comes later never gets there.      *)
(***************************************************************************)
Between == {t \in DOMAIN setting : setting[t] # NULL}

ReplacedOnlyInARace ==
  [][/\ keystore # NULL =>
          /\ Between' \subseteq Between
          /\ keystore' # keystore => ~built /\ keystore' \in Between \ {Loader}
     /\ \A n \in Names : owner[n] # NULL => owner'[n] = owner[n]]_startVars

(***************************************************************************)
(* Both outcomes of the start are right: what main() finds, and why there  *)
(* is no main().                                                           *)
(***************************************************************************)
StartIsRight == MainFindsEverything /\ AbortsForAReason
=============================================================================
