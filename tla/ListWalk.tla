------------------------------ MODULE ListWalk -------------------------------
(***************************************************************************)
(* The loop of list_for_each_safe(pos, n, head) over the lists of CfeList, *)
(* with a body that may take the entry it is at out of the list, by any    *)
(* function that does, and that may add new entries at both ends.          *)
(***************************************************************************)
EXTENDS CfeList

VARIABLES
  pc,       \* "out" of the loop, in its "body", or at its "step"
  head,     \* the argument `head', NULL outside the loop
  pos, n,   \* the loop's variables
  seen,     \* the entries the body was run for
  start     \* what the list held when the loop began

loop == <<pc, head, pos, n, seen, start>>
walkVars == <<next, prev, stale, pc, head, pos, n, seen, start>>

WalkInit ==
  /\ Init
  /\ pc = "out" /\ head = NULL /\ pos = NULL /\ n = NULL /\ seen = <<>> /\ start = <<>>

\* list_for_each_safe(pos, n, head): pos = head->next, n = pos->next
Begin(h) ==
  /\ pc = "out" /\ h \in Usable
  /\ head' = h
  /\ pos' = next[h]
  /\ n' = next[next[h]]
  /\ pc' = IF next[h] = h THEN "out" ELSE "body"
  /\ seen' = <<>> /\ start' = Walk(next, h)
  /\ UNCHANGED vars

\* Bound: visits beyond the number of entries are not told apart.
MaxSeen == Cardinality(Entries)

\* The body does nothing to the list, or takes pos out of it.
Body ==
  /\ pc = "body" /\ pc' = "step"
  /\ seen' = IF Len(seen) > MaxSeen THEN seen ELSE Append(seen, pos)
  /\ \/ UNCHANGED vars
     \/ Delete(pos)
     \/ DeleteInit(pos)
     \/ \E other \in Usable \ {head} : Move(pos, other) \/ MoveTail(pos, other)
  /\ UNCHANGED <<head, pos, n, start>>

\* The body adds an entry that it has not met.  The loop has read n: an entry
\* added behind the last one is visited unless n is the head already.
BodyAdds(e) ==
  /\ pc = "step"
  /\ e \notin ToSet(start) \cup ToSet(seen)
  /\ Add(e, head) \/ AddTail(e, head)
  /\ UNCHANGED loop

\* Mutant: list_for_each(), which reads pos->next after the body.
AdvanceUnsafe ==
  /\ pc = "step"
  /\ pos' = next[pos]
  /\ n' = IF next[pos] = NULL THEN NULL ELSE next[next[pos]]
  /\ pc' = IF next[pos] \in {head, NULL} THEN "out" ELSE "body"
  /\ UNCHANGED <<vars, head, seen, start>>

\* pos = n, n = pos->next
Advance ==
  /\ pc = "step"
  /\ pos' = n
  /\ n' = next[n]
  /\ pc' = IF n = head THEN "out" ELSE "body"
  /\ UNCHANGED <<vars, head, seen, start>>

WalkNext ==
  \/ pc = "out" /\ Next /\ UNCHANGED loop
  \/ \E h \in Heads : Begin(h)
  \/ Body \/ Advance
  \/ \E e \in Entries : BodyAdds(e)

WalkSpec == WalkInit /\ [][WalkNext]_walkVars

-----------------------------------------------------------------------------
(***************************************************************************)
(* The loop's variables point to nodes while it runs.                      *)
(***************************************************************************)
WalkTypeOK ==
  /\ pc \in {"out", "body", "step"}
  /\ pc # "out" => head \in Heads /\ pos \in Entries /\ n \in Entries \cup {head}
  /\ ToSet(seen) \subseteq Entries

\* The first k of the entries that were there are those it was run for.
Behind(k) == \A i \in DOMAIN start : start[i] \in ToSet(seen) <=> i <= k

(***************************************************************************)
(* The body is run for every entry that was on the list when the loop      *)
(* began, once, in their order, whatever it does to the one it is at; for  *)
(* an entry that was added meanwhile once at most.                         *)
(***************************************************************************)
VisitsEachOnce ==
  /\ IsInjective(seen)
  /\ \E k \in 0..Len(start) : Behind(k) /\ (pc = "out" => k = Len(start))
  /\ \A i, j \in DOMAIN start, x, y \in DOMAIN seen :
       seen[x] = start[i] /\ seen[y] = start[j] => (i < j <=> x < y)
=============================================================================
