------------------------------- MODULE CfeList -------------------------------
(***************************************************************************)
(* The circular doubly linked lists of include/cfe/list.h, pointer by      *)
(* pointer.  A heap h has the two pointers of every node; each function of *)
(* the header is an operator from the heap before to the heap after, and   *)
(* an action calls it where its contract allows.                           *)
(***************************************************************************)
EXTENDS Integers, FiniteSets, SequencesExt

CONSTANTS
  Heads,     \* nodes declared with LIST_HEAD()
  Entries,   \* nodes embedded in the structures that are listed
  NULL

ListAssumption ==
  /\ Heads \cap Entries = {}
  /\ IsFiniteSet(Heads \cup Entries)
  /\ NULL \notin Heads \cup Entries

Nodes == Heads \cup Entries

VARIABLES
  next,   \* node->next
  prev,   \* node->prev
  stale   \* heads that list_splice() emptied and nobody initialised since

vars == <<next, prev, stale>>

Heap == [next |-> next, prev |-> prev]

-----------------------------------------------------------------------------
(***************************************************************************)
(* The functions of list.h.                                                *)
(***************************************************************************)
INIT_LIST_HEAD(h, list) ==
  [next |-> [h.next EXCEPT ![list] = list], prev |-> [h.prev EXCEPT ![list] = list]]

\* __list_add(new, p, n)
LinkBetween(h, new, p, n) ==
  [next |-> [h.next EXCEPT ![new] = n, ![p] = new],
   prev |-> [h.prev EXCEPT ![n] = new, ![new] = p]]

\* Mutant: next->prev = prev is missing.
UnlinkForward(h, p, n) == [next |-> [h.next EXCEPT ![p] = n], prev |-> h.prev]

\* __list_del(p, n)
UnlinkBetween(h, p, n) ==
  [next |-> [h.next EXCEPT ![p] = n], prev |-> [h.prev EXCEPT ![n] = p]]

list_add(h, new, head) == LinkBetween(h, new, head, h.next[head])

list_add_tail(h, new, head) == LinkBetween(h, new, h.prev[head], head)

Unlink(h, entry) == UnlinkBetween(h, h.prev[entry], h.next[entry])

list_del(h, entry) ==
  LET g == Unlink(h, entry)
  IN [next |-> [g.next EXCEPT ![entry] = NULL], prev |-> [g.prev EXCEPT ![entry] = NULL]]

list_del_init(h, entry) == INIT_LIST_HEAD(Unlink(h, entry), entry)

list_move(h, entry, head) == list_add(Unlink(h, entry), entry, head)

\* Mutant: the entry is moved to the front.
list_move_first(h, entry, head) ==
  LET g == UnlinkBetween(h, h.prev[entry], h.next[entry])
  IN LinkBetween(g, entry, head, g.next[head])

list_move_tail(h, entry, head) == list_add_tail(Unlink(h, entry), entry, head)

list_empty(h, head) == h.next[head] = head

\* __list_splice(list, head)
SpliceAfter(h, list, head) ==
  LET first == h.next[list]
      last == h.prev[list]
      at == h.next[head]
  IN [next |-> [h.next EXCEPT ![head] = first, ![last] = at],
      prev |-> [h.prev EXCEPT ![first] = head, ![at] = last]]

list_splice(h, list, head) ==
  IF list_empty(h, list) THEN h ELSE SpliceAfter(h, list, head)

list_splice_init(h, list, head) ==
  IF list_empty(h, list) THEN h ELSE INIT_LIST_HEAD(SpliceAfter(h, list, head), list)

-----------------------------------------------------------------------------
(***************************************************************************)
(* What list_for_each() and list_for_each_prev() visit: from the head      *)
(* along a pointer, until the pointer is back at the head.  A walk that    *)
(* has seen every node and is not back never ends (or hits NULL).          *)
(***************************************************************************)
Walk(ptr, head) ==
  LET node[i \in 0..Cardinality(Nodes) + 1] ==
        IF i = 0 THEN head
        ELSE LET from == node[i - 1] IN IF from = NULL THEN NULL ELSE ptr[from]
      returns == {i \in 1..Cardinality(Nodes) + 1 : node[i] = head}
  IN IF returns = {} THEN <<NULL>>
     ELSE [i \in 1..(CHOOSE i \in returns : \A j \in returns : i <= j) - 1 |-> node[i]]

Usable == Heads \ stale
Linked(e) == \E head \in Usable : e \in ToSet(Walk(next, head))
Alone(e) == next[e] = e          \* list_del_init() or INIT_LIST_HEAD()
Loose(e) == next[e] = NULL       \* list_del() or static storage

-----------------------------------------------------------------------------
Init ==
  /\ next = [n \in Nodes |-> IF n \in Heads THEN n ELSE NULL]
  /\ prev = [n \in Nodes |-> IF n \in Heads THEN n ELSE NULL]
  /\ stale = {}

Store(h) == next' = h.next /\ prev' = h.prev

Initialise(e) ==
  /\ Loose(e)
  /\ Store(INIT_LIST_HEAD(Heap, e))
  /\ UNCHANGED stale

Reinitialise(head) ==
  /\ head \in stale
  /\ Store(INIT_LIST_HEAD(Heap, head))
  /\ stale' = stale \ {head}

\* An entry is added when it is on no list.
Add(e, head) ==
  /\ ~Linked(e)
  /\ Store(list_add(Heap, e, head)) /\ UNCHANGED stale

AddTail(e, head) ==
  /\ ~Linked(e)
  /\ Store(list_add_tail(Heap, e, head)) /\ UNCHANGED stale

\* An entry is deleted or moved when its pointers are valid.
Delete(e) ==
  /\ ~Loose(e)
  /\ Store(list_del(Heap, e)) /\ UNCHANGED stale

DeleteInit(e) ==
  /\ ~Loose(e)
  /\ Store(list_del_init(Heap, e)) /\ UNCHANGED stale

Move(e, head) ==
  /\ ~Loose(e)
  /\ Store(list_move(Heap, e, head)) /\ UNCHANGED stale

MoveTail(e, head) ==
  /\ ~Loose(e)
  /\ Store(list_move_tail(Heap, e, head)) /\ UNCHANGED stale

\* list_splice() leaves the pointers of the list it took the entries from.
Splice(list, head) ==
  /\ list # head
  /\ Store(list_splice(Heap, list, head))
  /\ stale' = IF list_empty(Heap, list) THEN stale ELSE stale \cup {list}

SpliceInit(list, head) ==
  /\ list # head
  /\ Store(list_splice_init(Heap, list, head)) /\ UNCHANGED stale

Next ==
  \/ \E e \in Entries : Initialise(e) \/ Delete(e) \/ DeleteInit(e)
  \/ \E head \in Heads : Reinitialise(head)
  \/ \E e \in Entries, head \in Usable :
       Add(e, head) \/ AddTail(e, head) \/ Move(e, head) \/ MoveTail(e, head)
  \/ \E list, head \in Usable : Splice(list, head) \/ SpliceInit(list, head)

Spec == Init /\ [][Next]_vars

-----------------------------------------------------------------------------
(***************************************************************************)
(* Every node has two pointers.                                            *)
(***************************************************************************)
TypeOK ==
  /\ next \in [Nodes -> Nodes \cup {NULL}]
  /\ prev \in [Nodes -> Nodes \cup {NULL}]
  /\ stale \subseteq Heads

(***************************************************************************)
(* list_for_each() and list_for_each_prev() of any list end, and visit the *)
(* same entries in opposite orders.                                        *)
(***************************************************************************)
WalksAgree ==
  \A head \in Usable :
    /\ Walk(next, head) # <<NULL>>
    /\ Walk(prev, head) = Reverse(Walk(next, head))

(***************************************************************************)
(* No pointer that is still in use leads to an entry that list_del() took  *)
(* out, or to a head whose list was spliced away.                          *)
(***************************************************************************)
NoStalePointers ==
  \A n \in (Entries \cup Heads) \ stale :
    ~Loose(n) => /\ next[n] \in Nodes \ stale /\ next[next[n]] # NULL
                 /\ prev[n] \in Nodes \ stale /\ prev[prev[n]] # NULL

Seqs == [head \in Heads |-> IF head \in stale THEN <<>> ELSE Walk(next, head)]
Abs == INSTANCE ListAbs WITH seq <- Seqs

\* Each function is the operation of ListAbs that its comment describes.
EachCall ==
  /\ \A e \in Entries, head \in Usable :
       /\ Add(e, head) \/ Move(e, head) => Abs!PutFirst(e, head)
       /\ AddTail(e, head) \/ MoveTail(e, head) => Abs!PutLast(e, head)
  /\ \A e \in Entries :
       /\ Delete(e) \/ DeleteInit(e) => Abs!Delete(e)
       /\ Initialise(e) => UNCHANGED Seqs
  /\ \A list, head \in Usable :
       Splice(list, head) \/ SpliceInit(list, head) => Abs!Splice(list, head)
  /\ \A head \in Heads : Reinitialise(head) => UNCHANGED Seqs

(***************************************************************************)
(* The pointers implement sequences of entries, call by call: a list_move()*)
(* puts an entry first, a list_move_tail() last, wherever it was, and a    *)
(* splice joins whole sequences.  (It implies Abs!Spec, which does not say *)
(* which call makes which step.)                                           *)
(***************************************************************************)
ImplementsSequences == Abs!Init /\ [][EachCall]_vars
=============================================================================
