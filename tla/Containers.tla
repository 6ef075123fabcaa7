----------------------------- MODULE Containers ------------------------------
(***************************************************************************)
(* The containers of include/cfe, which share no state: the lists of       *)
(* list.h with the loop over them, its hlists, and the reference counts of *)
(* ref.h.                                                                  *)
(***************************************************************************)
EXTENDS CfeRef

CONSTANTS
  Heads, Entries,   \* of the lists and of the hlists
  NULL

VARIABLES
  part,                                        \* the container that is used
  lnext, lprev, lstale,                        \* the lists
  wpc, whead, wpos, wn, wseen, wstart,         \* the loop over one of them
  at, pprev, gone                              \* the hlists

list == <<lnext, lprev, lstale>>
loop == <<wpc, whead, wpos, wn, wseen, wstart>>
hlist == <<at, pprev, gone>>

List == INSTANCE CfeList WITH next <- lnext, prev <- lprev, stale <- lstale
Loop == INSTANCE ListWalk
          WITH next <- lnext, prev <- lprev, stale <- lstale,
               pc <- wpc, head <- whead, pos <- wpos, n <- wn, seen <- wseen, start <- wstart
Hlist == INSTANCE CfeHlist

ASSUME ContainersAssumption ==
  List!ListAssumption /\ Hlist!HlistAssumption

PartInit ==
  /\ part \in {"list", "loop", "hlist", "ref"}
  /\ List!Init /\ Loop!WalkInit /\ Hlist!Init /\ RefInit

PartNext ==
  /\ UNCHANGED part
  /\ \/ part = "list" /\ List!Next /\ UNCHANGED <<loop, hlist, refVars>>
     \/ part = "loop" /\ Loop!WalkNext /\ UNCHANGED <<hlist, refVars>>
     \/ part = "hlist" /\ Hlist!Next /\ UNCHANGED <<list, loop, refVars>>
     \/ part = "ref" /\ RefNext /\ UNCHANGED <<list, loop, hlist>>

PartSpec == PartInit /\ [][PartNext]_<<part, list, loop, hlist, refVars>>

-----------------------------------------------------------------------------
(***************************************************************************)
(* The pointers of the lists, as CfeList.NoStalePointers and WalksAgree,   *)
(* in and out of a loop.                                                   *)
(***************************************************************************)
PointersLeadOn == List!NoStalePointers /\ List!WalksAgree

(***************************************************************************)
(* The lists are sequences, as CfeList.ImplementsSequences.                *)
(***************************************************************************)
ListsAreSequences == List!Abs!Init /\ [][part = "list" => List!EachCall]_list

(***************************************************************************)
(* What a loop visits, as ListWalk.VisitsEachOnce.                         *)
(***************************************************************************)
VisitsEachOnce == Loop!VisitsEachOnce

(***************************************************************************)
(* The back pointers of the hlists, as CfeHlist.BackPointersExact, and     *)
(* what they tell, as CfeHlist.UnhashedTells.                              *)
(***************************************************************************)
BackPointersExact == part = "hlist" => Hlist!BackPointersExact /\ Hlist!UnhashedTells

(***************************************************************************)
(* The hlists are sequences too, as CfeHlist.ImplementsSequences.          *)
(***************************************************************************)
HlistsAreSequences == Hlist!Abs!Init /\ [][part = "hlist" => Hlist!EachCall]_hlist
=============================================================================
