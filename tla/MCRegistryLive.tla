--------------------------- MODULE MCRegistryLive ---------------------------
(***************************************************************************)
(* Liveness of the registry, each thread making at most MaxCalls calls.    *)
(* Without the bound a writer may wait for ever behind readers that keep   *)
(* coming, and weak fairness does not rule that out; POSIX does not either.*)
(***************************************************************************)
EXTENDS Registry

CONSTANTS t1, t2, h1, v1, v2, MaxCalls

MCThreads == {t1, t2}
MCObjects == {h1}
MCTypes == {v1, v2}
MCDefault == -1
MCRequests == {MCDefault, 65537}
MCKeyOf == [ty \in MCTypes |-> IF ty = v2 THEN 2 ELSE 1]
MCKeyFor == [r \in MCRequests |-> r % 65536]

VARIABLE calls   \* the calls each thread has made
boundVars == <<vars, calls>>

BoundInit == Init /\ calls = [t \in Threads |-> 0]

BoundCall(t) ==
  /\ calls[t] < MaxCalls
  /\ Call(t)
  /\ calls' = [calls EXCEPT ![t] = @ + 1]

BoundStep(t) == Step(t) /\ UNCHANGED calls

BoundNext == \E t \in Threads : BoundCall(t) \/ BoundStep(t)

BoundSpec ==
  /\ BoundInit /\ [][BoundNext]_boundVars
  /\ \A t \in Threads : WF_boundVars(BoundStep(t))

(***************************************************************************)
(* Every call returns: register() and unregister() get the write lock,     *)
(* create() gets the read lock, and no error path forgets to unlock.       *)
(***************************************************************************)
EveryCallReturns == \A t \in Threads : pc[t] # "idle" ~> pc[t] = "idle"
=============================================================================
