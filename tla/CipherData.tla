------------------------------ MODULE CipherData -----------------------------
(***************************************************************************)
(* The data path of one cipher context: the calls of crypto/cipher.c that  *)
(* follow an init that returned 0, down to the calls into OpenSSL of       *)
(* crypto/cipher-openssl.c, in any order: nothing in the library keeps an  *)
(* update off a message that is finalized.  Data is a number of bytes.  A  *)
(* size_t is two ints, of which the backend writes one; its sizes are cast *)
(* to int.                                                                 *)
(***************************************************************************)
EXTENDS Integers

CONSTANTS
  BlockSize,   \* of the block cipher (CBC); the AEAD one (GCM) has no blocks
  IntMod,      \* 2^32
  Sizes,       \* bytes that callers pass at once
  MaxGiven     \* Bound: no more data, and no more AAD, in one message

Kinds == {"block", "aead"}
Modes == {"encrypt", "decrypt"}
Parts == {"data", "aad"}

\* What a build and its callers have.
CipherDataAssumption ==
  /\ BlockSize \in Nat \ {0, 1}
  /\ IntMod \in Nat \ {0, 1}
  /\ Sizes \subseteq Nat
  /\ MaxGiven \in Nat

VARIABLES
  kind, mode,   \* the type of the context, the mode of its last init
  iv,           \* whether that init had an iv, which is optional
  big,          \* whether the machine is big-endian
  had, have,    \* the caller's size_t whose address is olen: at first, and now
  pad,          \* whether the padding is on in OpenSSL, and
  padding,      \* ... whether the caller wants it, or did when it finalized
  phase,        \* "new", "data" once data was taken, "final" once a finalize
                \* returned 0, "over" when calls follow, or the tag was bad
  buf, held,    \* bytes, and whether a decrypted block, OpenSSL holds back
  tag,          \* the tag that was set: "none", "good" or "bad"
  last,         \* what the last call returned, and how much it wrote
  given,        \* data and AAD that calls which returned 0 were given
  taken, out,   \* ... what OpenSSL has taken of them, and written
  sealed,       \* what OpenSSL's tag stands for: one it made, or found right
  got           \* what tags stand for that get_tag() returned

vars == <<kind, mode, iv, big, had, have, pad, padding, phase, buf, held, tag, last, given,
          taken, out, sealed, got>>
message == <<kind, mode, iv, big, had>>
openssl == <<buf, held, taken, out>>

None == -1
Finalized == phase \in {"final", "over"}
Value(v) == v.hi * IntMod + v.lo
Amount(n) == [part \in Parts |-> n]
Plus(a, part, n) == [a EXCEPT ![part] = @ + n]

\* The caller has cleared its size_t, as check_cipher.c does, or not.
Init ==
  /\ kind \in Kinds /\ mode \in Modes /\ iv \in BOOLEAN /\ big \in BOOLEAN
  /\ had \in {[lo |-> n, hi |-> n] : n \in {0, 1}} /\ have = had
  /\ pad = 1 /\ padding = TRUE /\ phase = "new" /\ buf = 0 /\ held = FALSE /\ tag = "none"
  /\ last = [ret |-> 0, made |-> None]
  /\ given = Amount(0) /\ taken = Amount(0) /\ out = 0
  /\ sealed = Amount(None) /\ got = {}

\* Another init of the same context, which returns 0; the first OpenSSL call
\* resets it.
cfe_cipher_ctx_init(m, i) ==
  /\ mode' = m /\ iv' = i
  /\ pad' = 1 /\ padding' = TRUE /\ phase' = "new" /\ buf' = 0 /\ held' = FALSE
  /\ tag' = "none" /\ last' = [ret |-> 0, made |-> None]
  /\ given' = Amount(0) /\ taken' = Amount(0) /\ out' = 0
  /\ sealed' = Amount(None) /\ got' = {}
  /\ UNCHANGED <<kind, big, had, have>>

-----------------------------------------------------------------------------
(***************************************************************************)
(* OpenSSL.                                                                *)
(***************************************************************************)
\* (int) size
AsInt(n) == LET low == n % IntMod IN IF 2 * low < IntMod THEN low ELSE low - IntMod

\* Mutant: the pointer is that of the other half.
StoreHigh(v, n) == [v EXCEPT !.hi = n]
StoreInt(v, n) == IF big THEN [v EXCEPT !.hi = n] ELSE [v EXCEPT !.lo = n]

Kept == IF held THEN BlockSize ELSE 0

\* EVP_CipherUpdate() with n bytes more.  A decryption with padding writes the
\* block it has held back, and holds back a whole block that may be the last.
Pass(n) ==
  LET whole == ((buf + n) \div BlockSize) * BlockSize
      rest == buf + n - whole
  IN IF kind = "aead" \/ n = 0 THEN [made |-> n, buf |-> buf, held |-> held]
     ELSE IF mode = "encrypt" \/ pad = 0 THEN [made |-> whole, buf |-> rest, held |-> held]
     ELSE IF rest = 0 THEN [made |-> Kept + whole - BlockSize, buf |-> 0, held |-> TRUE]
     ELSE [made |-> Kept + whole, buf |-> rest, held |-> FALSE]

\* GCM takes nothing without an iv, nor after a finalize, which uses it up.
\* Neither takes a size that is a negative int.
Takes(size) == size >= 0 /\ (kind = "aead" => iv /\ phase # "final")

\* EVP_CipherFinal_ex(): the pairs of its status and what it writes.
Final ==
  IF kind = "aead"
    THEN {[status |-> IF /\ iv /\ ~Finalized
                         /\ mode = "encrypt" \/ tag = "good" THEN 1 ELSE 0, made |-> 0]}
  ELSE IF pad = 0 THEN {[status |-> IF buf = 0 THEN 1 ELSE 0, made |-> 0]}
  ELSE IF mode = "encrypt" THEN {[status |-> 1, made |-> BlockSize]}
  ELSE {[status |-> 0, made |-> 0]} \cup
       (IF buf = 0 /\ held THEN {[status |-> 1, made |-> n] : n \in 0..BlockSize - 1} ELSE {})

\* A decryption that has compared a tag is spoilt; other failures do no harm.
Spoils == kind = "aead" /\ mode = "decrypt" /\ iv /\ phase # "final" /\ tag # "none"

-----------------------------------------------------------------------------
(***************************************************************************)
(* The calls.                                                              *)
(***************************************************************************)
\* Mutant: the status is compared with 0 the wrong way.
FailedBelowZero(status) == IF status < 0 THEN 1 ELSE 0
Failed(status) == IF status # 1 THEN 1 ELSE 0

Status(ok) == IF ok THEN 1 ELSE 0

cfe_cipher_ctx_update(n) ==
  LET size == AsInt(n)
      after == Pass(size)
  IN /\ Finalized \/ given["data"] + n <= MaxGiven
     /\ \/ /\ Takes(size)
           /\ last' = [ret |-> Failed(1), made |-> after.made]
           /\ have' = StoreInt(have, after.made)
           /\ buf' = after.buf /\ held' = after.held
           /\ phase' = IF size = 0 THEN phase ELSE IF Finalized THEN "over" ELSE "data"
           /\ IF Finalized THEN UNCHANGED <<given, taken, out>>
              ELSE /\ given' = Plus(given, "data", n)
                   /\ taken' = Plus(taken, "data", size)
                   /\ out' = out + after.made
        \/ /\ ~Takes(size)
           /\ last' = [ret |-> Failed(0), made |-> 0]
           /\ have' \in {have, StoreInt(have, 0)}
           /\ UNCHANGED <<phase, given, openssl>>
     /\ UNCHANGED <<message, pad, padding, tag, sealed, got>>

\* What OpenSSL has buffered stays: a second finalize of a block cipher, or an
\* update that follows, writes it once more.
cfe_cipher_ctx_finalize ==
  /\ \E o \in Final :
       /\ last' = [ret |-> Failed(o.status), made |-> o.made]
       /\ have' \in IF o.status = 1 THEN {StoreInt(have, o.made)} ELSE {have, StoreInt(have, 0)}
       /\ phase' = IF Failed(o.status) = 0 THEN IF Finalized THEN "over" ELSE "final"
                   ELSE IF Spoils THEN "over" ELSE phase
       /\ out' = IF Finalized THEN out ELSE out + o.made
       /\ sealed' = IF kind = "aead" /\ o.status = 1 THEN taken ELSE sealed
  /\ UNCHANGED <<message, pad, padding, buf, held, tag, given, taken, got>>

\* Mutant: EVP_CIPHER_CTX_set_padding(ctx, on == 1)
PaddingIfOne(on) == IF on = 1 THEN 1 ELSE 0

\* on ? 1 : 0
PaddingArgument(on) == IF on # 0 THEN 1 ELSE 0

cfe_cipher_ctx_set_padding(on) ==
  /\ pad' = PaddingArgument(on)
  /\ padding' = IF Finalized THEN padding ELSE on # 0
  /\ UNCHANGED <<message, have, phase, tag, last, given, openssl, sealed, got>>

\* AAD and tags are for AEAD ciphers only: EINVAL for others.
Refused == /\ last' = [ret |-> 1, made |-> None]
           /\ UNCHANGED <<message, have, pad, padding, phase, tag, given, openssl, sealed, got>>

\* openssl_generic_ctx_set_aad(): an update that writes to NULL, which is how
\* GCM is told that these are no data.  It takes none after data.  The length
\* is stored to a size_t of its own.
TakesAad(size) == Takes(size) /\ phase # "data"

openssl_generic_ctx_set_aad(n) ==
  LET size == AsInt(n)
  IN /\ Finalized \/ given["aad"] + n <= MaxGiven
     /\ \E ok \in IF phase = "over" THEN BOOLEAN ELSE {TakesAad(size)} :
          /\ last' = [ret |-> Failed(Status(ok)), made |-> None]
          /\ IF ok /\ ~Finalized
               THEN /\ given' = Plus(given, "aad", n)
                    /\ taken' = Plus(taken, "aad", size)
               ELSE UNCHANGED <<given, taken>>
     /\ UNCHANGED <<message, have, pad, padding, phase, buf, held, tag, out, sealed, got>>

cfe_cipher_ctx_set_aad(n) ==
  \/ kind = "aead" /\ openssl_generic_ctx_set_aad(n)
  \/ kind = "block" /\ Refused

\* EVP_CTRL_GCM_SET_TAG takes a tag for a decryption only, and
\* EVP_CTRL_GCM_GET_TAG has one when an encryption is finalized.
openssl_generic_ctx_set_tag(v) ==
  /\ last' = [ret |-> Failed(Status(mode = "decrypt")), made |-> None]
  /\ tag' = IF mode = "decrypt" THEN v ELSE tag
  /\ UNCHANGED <<message, have, pad, padding, phase, given, openssl, sealed, got>>

cfe_cipher_ctx_set_tag(v) ==
  \/ kind = "aead" /\ openssl_generic_ctx_set_tag(v)
  \/ kind = "block" /\ Refused

openssl_generic_ctx_get_tag ==
  LET ret == Failed(Status(mode = "encrypt" /\ phase = "final"))
  IN /\ last' = [ret |-> ret, made |-> None]
     /\ got' = IF ret = 0 THEN got \cup {sealed} ELSE got
     /\ UNCHANGED <<message, have, pad, padding, phase, tag, given, openssl, sealed>>

cfe_cipher_ctx_get_tag ==
  \/ kind = "aead" /\ openssl_generic_ctx_get_tag
  \/ kind = "block" /\ Refused

Next ==
  \/ \E m \in Modes, i \in BOOLEAN : cfe_cipher_ctx_init(m, i)
  \/ \E n \in Sizes : cfe_cipher_ctx_update(n) \/ cfe_cipher_ctx_set_aad(n)
  \/ cfe_cipher_ctx_finalize
  \/ \E on \in {0, 1, 2} : cfe_cipher_ctx_set_padding(on)
  \/ \E v \in {"good", "bad"} : cfe_cipher_ctx_set_tag(v)
  \/ cfe_cipher_ctx_get_tag

Spec == Init /\ [][Next]_vars

-----------------------------------------------------------------------------
(***************************************************************************)
(* Every variable has a value of its type.                                 *)
(***************************************************************************)
Halves == [lo : 0..IntMod - 1, hi : 0..IntMod - 1]
TypeOK ==
  /\ kind \in Kinds /\ mode \in Modes /\ iv \in BOOLEAN /\ big \in BOOLEAN
  /\ had \in Halves /\ have \in Halves
  /\ pad \in {0, 1} /\ padding \in BOOLEAN
  /\ phase \in {"new", "data", "final", "over"}
  /\ buf \in 0..BlockSize - 1 /\ held \in BOOLEAN
  /\ tag \in {"none", "good", "bad"}
  /\ last \in [ret : {0, 1}, made : Nat \cup {None}]
  /\ given \in [Parts -> 0..MaxGiven] /\ taken \in [Parts -> 0..MaxGiven]
  /\ out \in 0..MaxGiven + BlockSize
  /\ sealed \in [Parts -> -1..MaxGiven] /\ got \subseteq [Parts -> -1..MaxGiven]

(***************************************************************************)
(* What the caller finds in its size_t after an update or a finalize that  *)
(* returned 0, although only one of its ints was stored to: the number of  *)
(* bytes written, as check_cipher.c asserts, if the machine is             *)
(* little-endian and the upper int was 0 before the first call, and only   *)
(* then (but for a 0); call after call, failed ones and sizes that are no  *)
(* int included.                                                           *)
(***************************************************************************)
OutputLengthRight ==
  last.ret = 0 /\ last.made # None =>
    Value(have) = IF big THEN last.made * IntMod + had.lo ELSE had.hi * IntMod + last.made

(***************************************************************************)
(* The bytes of a message add up.  Of data and of AAD OpenSSL takes what   *)
(* it is given, but for multiples of 2^32 (a size that is no int loses     *)
(* them, and the call returns 0 all the same).  Until the finalize what    *)
(* was written and what is held back make up what was taken; after it the  *)
(* output has the length that the padding the caller wants asks for.  Only *)
(* a block that was held back before the padding was switched off in the   *)
(* middle is missing then.                                                 *)
(***************************************************************************)
DataConserved ==
  /\ \A part \in Parts :
       taken[part] <= given[part] /\ (given[part] - taken[part]) % IntMod = 0
  /\ ~Finalized => out + buf + Kept = taken["data"]
  /\ phase = "final" =>
       IF kind = "aead" THEN out = taken["data"]
       ELSE IF ~padding THEN out + Kept = taken["data"] /\ taken["data"] % BlockSize = 0
       ELSE IF mode = "encrypt" THEN out = (taken["data"] \div BlockSize + 1) * BlockSize
       ELSE /\ taken["data"] % BlockSize = 0
            /\ out \in taken["data"] - BlockSize .. taken["data"] - 1

(***************************************************************************)
(* A message that an AEAD finalize returned 0 for has a tag, made or found *)
(* right, and this and any tag that get_tag() returned with 0 stand for    *)
(* all data and all AAD that were taken: not for the beginning of the      *)
(* message, nor for the message before, whatever calls came before the     *)
(* finalize or after it.                                                   *)
(***************************************************************************)
TagsCoverTheMessage ==
  /\ kind = "aead" /\ phase = "final" => sealed = taken
  /\ \A covered \in got : phase = "final" /\ covered = taken
=============================================================================
