----------------------------- MODULE KeystoreAbs -----------------------------
(***************************************************************************)
(* What a libcfe key store promises: a map from descriptions to payloads,  *)
(* and calls that each take effect, and get their answer, in one step      *)
(* between the moment they are made and the moment they return, or fail    *)
(* for want of memory and have none.                                       *)
(***************************************************************************)
CONSTANTS Threads, Descs, Payloads, Absent, None

VARIABLES
  keys,   \* the payload of each description, or Absent
  call    \* the call each thread makes, and whether it has taken effect

absVars == <<keys, call>>

CallOf(op, d, p, done, a) ==
  [op |-> op, desc |-> d, payload |-> p, done |-> done, answer |-> a]
NoCall == CallOf("none", None, None, FALSE, None)
Done(c, a) == CallOf(c.op, c.desc, c.payload, TRUE, a)

Init ==
  /\ keys = [d \in Descs |-> Absent]
  /\ call = [t \in Threads |-> NoCall]

Invoke(t) ==
  /\ call[t] = NoCall
  /\ \E op \in {"add", "remove", "read"}, d \in Descs, p \in Payloads \cup {None} :
       /\ op = "add" <=> p # None
       /\ call' = [call EXCEPT ![t] = CallOf(op, d, p, FALSE, None)]
  /\ UNCHANGED keys

Pending(t, op) == call[t].op = op /\ ~call[t].done

AddKey(t) ==
  /\ Pending(t, "add")
  /\ keys' = [keys EXCEPT ![call[t].desc] = call[t].payload]
  /\ call' = [call EXCEPT ![t] = Done(call[t], None)]

RemoveKey(t) ==
  /\ Pending(t, "remove")
  /\ keys' = [keys EXCEPT ![call[t].desc] = Absent]
  /\ call' = [call EXCEPT ![t] = Done(call[t], None)]

ReadKey(t) ==
  /\ Pending(t, "read")
  /\ call' = [call EXCEPT ![t] = Done(call[t], keys[call[t].desc])]
  /\ UNCHANGED keys

\* No memory for a string or a payload: an add or a read fails, to no effect.
Refuse(t) ==
  /\ Pending(t, "add") \/ Pending(t, "read")
  /\ call' = [call EXCEPT ![t] = NoCall]
  /\ UNCHANGED keys

Return(t) ==
  /\ call[t].done
  /\ call' = [call EXCEPT ![t] = NoCall]
  /\ UNCHANGED keys

Next == \E t \in Threads :
  \/ Invoke(t) \/ Return(t)
  \/ AddKey(t) \/ RemoveKey(t) \/ ReadKey(t) \/ Refuse(t)

Spec == Init /\ [][Next]_absVars
=============================================================================
