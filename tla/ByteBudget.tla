----------------------------- MODULE ByteBudget -----------------------------
(***************************************************************************)
(* What the callers of ImportBytesSemaphore rely on: the bytes granted to  *)
(* all contexts together never exceed the capacity.                        *)
(***************************************************************************)
EXTENDS Integers, FiniteSets

CONSTANTS Contexts, Capacity

VARIABLE granted   \* the bytes each context was granted and has not given back

Init == granted = [t \in Contexts |-> 0]

\* The bytes granted, one by one, and how many are left.
Granted == UNION {{t} \X (1 .. granted[t]) : t \in Contexts}
Free == Capacity - Cardinality(Granted)

Grant(t) ==
  \E bytes \in 1 .. Free :
    granted' = [granted EXCEPT ![t] = @ + bytes]

GiveBack(t) ==
  \E bytes \in 1 .. granted[t] : granted' = [granted EXCEPT ![t] = @ - bytes]

Next == \E t \in Contexts : Grant(t) \/ GiveBack(t)

Spec == Init /\ [][Next]_granted
=============================================================================
