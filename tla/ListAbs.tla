------------------------------- MODULE ListAbs -------------------------------
(***************************************************************************)
(* What the lists of include/cfe/list.h promise: every head stands for a   *)
(* sequence of entries, no entry is in two places, and the operations are  *)
(* those of sequences.                                                     *)
(***************************************************************************)
EXTENDS SequencesExt

CONSTANTS Heads, Entries
VARIABLE seq

\* An entry is in one place.
Without(s, e) ==
  IF e \in ToSet(s) THEN RemoveAt(s, CHOOSE i \in 1..Len(s) : s[i] = e) ELSE s

Removed(e) == [h \in Heads |-> Without(seq[h], e)]

Init == seq = [h \in Heads |-> <<>>]

\* list_add and list_move put an entry first, their _tail forms last.
PutFirst(e, h) == seq' = [Removed(e) EXCEPT ![h] = <<e>> \o @]
PutLast(e, h) == seq' = [Removed(e) EXCEPT ![h] = Append(@, e)]

Delete(e) == seq' = Removed(e)

\* Next to an entry that is on a list; only hlists can do that.
Place(e, n, offset) ==
  seq' = [h \in Heads |->
            IF n \in ToSet(seq[h])
              THEN InsertAt(seq[h], (CHOOSE i \in 1..Len(seq[h]) : seq[h][i] = n) + offset, e)
              ELSE seq[h]]
PutBefore(e, n) == Place(e, n, 0)
PutAfter(e, n) == Place(e, n, 1)

\* The entries of list k go to the front of list h.
Splice(k, h) ==
  /\ k # h
  /\ seq' = [seq EXCEPT ![h] = seq[k] \o @, ![k] = <<>>]

Next ==
  \/ \E e \in Entries : Delete(e)
  \/ \E e \in Entries, h \in Heads : PutFirst(e, h) \/ PutLast(e, h)
  \/ \E e, n \in Entries : PutBefore(e, n) \/ PutAfter(e, n)
  \/ \E k, h \in Heads : Splice(k, h)

Spec == Init /\ [][Next]_seq
=============================================================================
