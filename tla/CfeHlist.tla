------------------------------ MODULE CfeHlist -------------------------------
(***************************************************************************)
(* The hlists of include/cfe/list.h: lists with a single pointer as head,  *)
(* whose nodes point back not to a node but to the pointer that leads to   *)
(* them, the head's `first' or the `next' of a node.  Such a pointer is    *)
(* named here by the head or the entry it is in.                           *)
(***************************************************************************)
EXTENDS Integers, FiniteSets, SequencesExt

CONSTANTS
  Heads,     \* struct hlist_head
  Entries,   \* struct hlist_node
  NULL

\* Heads and nodes are different structures.
HlistAssumption ==
  /\ Heads \cap Entries = {}
  /\ IsFiniteSet(Heads \cup Entries)
  /\ NULL \notin Heads \cup Entries

Cells == Heads \cup Entries

VARIABLES
  at,      \* what each pointer points to: head->first and node->next
  pprev,   \* node->pprev: the pointer that points to the node
  gone     \* entries that hlist_del() took out and nobody initialised since

vars == <<at, pprev, gone>>

-----------------------------------------------------------------------------
(***************************************************************************)
(* The functions, from the two pointer maps before to those after.         *)
(***************************************************************************)
Heap == [at |-> at, pprev |-> pprev]
Point(h, cell, e) == [h EXCEPT !.at[cell] = e]
\* if (e) e->pprev = cell
PointBack(h, e, cell) == IF e = NULL THEN h ELSE [h EXCEPT !.pprev[e] = cell]

INIT_HLIST_NODE(h, e) == [h EXCEPT !.at[e] = NULL, !.pprev[e] = NULL]

hlist_unhashed(h, e) == h.pprev[e] = NULL

\* Mutant: the entry behind keeps its pprev.
Unlink_forward(h, e) == Point(h, h.pprev[e], h.at[e])

\* __hlist_del(e)
Unlink(h, e) == PointBack(Point(h, h.pprev[e], h.at[e]), h.at[e], h.pprev[e])

hlist_del_init(h, e) == IF hlist_unhashed(h, e) THEN h ELSE INIT_HLIST_NODE(Unlink(h, e), e)

hlist_add_head(h, e, head) ==
  LET first == h.at[head]
      linked == PointBack(Point(h, e, first), first, e)
  IN PointBack(Point(linked, head, e), e, head)

hlist_add_before(h, e, n) ==
  LET cell == h.pprev[n]
      linked == PointBack(Point(PointBack(h, e, cell), e, n), n, e)
  IN Point(linked, cell, e)

\* Mutant: the new entry's next is read after it was overwritten.
add_after_late(h, n, e) ==
  LET linked == PointBack(Point(h, n, e), e, n)
  IN PointBack(Point(linked, e, linked.at[n]), linked.at[n], e)

\* hlist_add_after(n, next): here the second argument, e, is the new one.
hlist_add_after(h, n, e) ==
  LET linked == PointBack(Point(Point(h, e, h.at[n]), n, e), e, n)
  IN PointBack(linked, linked.at[e], e)

hlist_add_fake(h, e) == PointBack(h, e, e)

hlist_move_list(h, old, new) ==
  Point(PointBack(Point(h, new, h.at[old]), h.at[old], new), old, NULL)

-----------------------------------------------------------------------------
\* hlist_for_each(): along the pointers from the head until NULL.  A walk
\* that has seen every entry and is not at its end never ends.
Walk(head) ==
  LET node[i \in 0..Cardinality(Entries) + 1] ==
        IF i = 0 THEN at[head] ELSE IF node[i - 1] = NULL THEN NULL ELSE at[node[i - 1]]
      ends == {i \in 0..Cardinality(Entries) : node[i] = NULL}
  IN IF ends = {} THEN <<NULL>>
     ELSE [i \in 1..(CHOOSE i \in ends : \A j \in ends : i <= j) |-> node[i - 1]]

Linked(e) == \E head \in Heads : e \in ToSet(Walk(head))
Fake(e) == e \notin gone /\ pprev[e] = e

Init ==
  /\ at = [c \in Cells |-> NULL]
  /\ pprev = [e \in Entries |-> NULL]
  /\ gone = {}

Store(h) == at' = h.at /\ pprev' = h.pprev

-----------------------------------------------------------------------------
(***************************************************************************)
(* The calls, where their contracts allow them.                            *)
(***************************************************************************)
Initialise(e) ==
  /\ ~Linked(e)
  /\ Store(INIT_HLIST_NODE(Heap, e)) /\ gone' = gone \ {e}

\* An entry that is deleted is on a list, or appears to be (hlist_add_fake).
Delete(e) ==
  /\ e \notin gone /\ pprev[e] # NULL
  /\ Store(Unlink(Heap, e)) /\ gone' = gone \cup {e}

\* This may be called on an entry that is on no list, if it was initialised.
DeleteInit(e) ==
  /\ e \notin gone
  /\ Store(hlist_del_init(Heap, e)) /\ UNCHANGED gone

AddHead(e, head) ==
  /\ ~Linked(e)
  /\ Store(hlist_add_head(Heap, e, head)) /\ gone' = gone \ {e}

AddBefore(e, n) ==
  /\ ~Linked(e) /\ Linked(n)
  /\ Store(hlist_add_before(Heap, e, n)) /\ gone' = gone \ {e}

AddAfter(e, n) ==
  /\ ~Linked(e) /\ Linked(n)
  /\ Store(hlist_add_after(Heap, n, e)) /\ gone' = gone \ {e}

\* hlist_del() works on a fake only if its next is NULL.
AddFake(e) ==
  /\ e \notin gone /\ hlist_unhashed(Heap, e)
  /\ Store(hlist_add_fake(Heap, e)) /\ UNCHANGED gone

\* What the new list held would be lost.
MoveList(old, new) ==
  /\ old # new /\ at[new] = NULL
  /\ Store(hlist_move_list(Heap, old, new)) /\ UNCHANGED gone

Next ==
  \/ \E e \in Entries : Initialise(e) \/ Delete(e) \/ DeleteInit(e) \/ AddFake(e)
  \/ \E e \in Entries, head \in Heads : AddHead(e, head)
  \/ \E e, n \in Entries : AddBefore(e, n) \/ AddAfter(e, n)
  \/ \E old, new \in Heads : MoveList(old, new)

Spec == Init /\ [][Next]_vars

-----------------------------------------------------------------------------
(***************************************************************************)
(* Every pointer points to an entry or nowhere, every pprev to a pointer.  *)
(***************************************************************************)
TypeOK ==
  /\ at \in [Cells -> Entries \cup {NULL}]
  /\ pprev \in [Entries -> Cells \cup {NULL}]
  /\ gone \subseteq Entries

(***************************************************************************)
(* Every list ends, and each of its entries points back to the one pointer *)
(* that leads to it: hlist_del() of any of them, at any time, writes where *)
(* it should, after a whole list was moved to another head too.            *)
(***************************************************************************)
BackPointersExact ==
  /\ \A head \in Heads : Walk(head) # <<NULL>>
  /\ \A e \in Entries : Linked(e) => at[pprev[e]] = e
  /\ \A head \in Heads : at[head] # NULL => pprev[at[head]] = head

(***************************************************************************)
(* hlist_unhashed() tells whether an entry is on a list, for all that were *)
(* not taken out with the plain hlist_del(), however they came and went.   *)
(***************************************************************************)
UnhashedTells ==
  \A e \in Entries \ gone :
    ~hlist_unhashed(Heap, e) <=> Linked(e) \/ (Fake(e) /\ at[e] = NULL)

Seqs == [head \in Heads |-> Walk(head)]
Abs == INSTANCE ListAbs WITH seq <- Seqs

\* Each function is the operation on sequences that its name says.
EachCall ==
  /\ \A e \in Entries :
       /\ Delete(e) \/ DeleteInit(e) => Abs!Delete(e)
       /\ Initialise(e) \/ AddFake(e) => UNCHANGED Seqs
  /\ \A e \in Entries, head \in Heads : AddHead(e, head) => Abs!PutFirst(e, head)
  /\ \A e, n \in Entries :
       /\ AddBefore(e, n) => Abs!PutBefore(e, n)
       /\ AddAfter(e, n) => Abs!PutAfter(e, n)
  /\ \A old, new \in Heads : MoveList(old, new) => Abs!Splice(old, new)

(***************************************************************************)
(* The pointers implement sequences of entries, call by call: an entry     *)
(* goes first, before or after the one it is put next to, a deletion takes *)
(* out that entry alone, and a move takes a whole list along.              *)
(***************************************************************************)
ImplementsSequences == Abs!Init /\ [][EachCall]_vars
=============================================================================
