----------------------------- MODULE ImportBytes ----------------------------
(***************************************************************************)
(* ImportBytesSemaphore closed by its clients: each context charges its    *)
(* item, holds the bytes while the item is imported, and gives them back,  *)
(* again and again (ImportAgent::SendRequest and SendResult).              *)
(***************************************************************************)
EXTENDS ImportBytesSemaphore, FiniteSets

CONSTANT Charge   \* the bytes of the item of each context

ASSUME ContextsAssumption == IsFiniteSet(Contexts)
ASSUME ChargeAssumption == Charge \in [Contexts -> Nat \ {0}]

VARIABLE asked    \* contexts that subtracted their bytes and did not add them back

vars == <<semVars, asked>>

TypeOK == SemTypeOK /\ asked \subseteq Contexts

Init == SemInit /\ asked = {}

ChargeItem(t) ==
  /\ t \notin asked /\ Acquire(t, Charge[t])
  /\ asked' = asked \cup {t}

\* Mutant: the bytes are given back twice.
ReturnItemTwice(t) ==
  /\ t \in asked /\ Release(t, 2 * Charge[t])
  /\ asked' = asked \ {t}

ReturnItem(t) ==
  /\ t \in asked /\ Release(t, Charge[t])
  /\ asked' = asked \ {t}

Next ==
  \E t \in Contexts :
    \/ ChargeItem(t) \/ ReturnItem(t)
    \/ SemStep(t) /\ UNCHANGED asked

Spec == Init /\ [][Next]_vars

\* The contexts are scheduled and every item is imported in the end.
FairSpec ==
  /\ Spec
  /\ \A t \in Contexts : WF_vars(ReturnItem(t)) /\ WF_vars(SemStep(t) /\ UNCHANGED asked)

-----------------------------------------------------------------------------
Holders == {t \in asked : at[t] = "out"}

\* The blocked contexts are those in the queue, each there once: nobody is unblocked twice
\* and nobody sleeps outside the queue.
WaitingExact ==
  /\ \A t \in Contexts : at[t] = "blocked" <=> \E i \in 1 .. Len(waiting) : waiting[i] = t
  /\ \A i, j \in 1 .. Len(waiting) : waiting[i] = waiting[j] => i = j

\* The bytes of the items of contexts S, one by one.
Charged(S) == UNION {{t} \X (1 .. Charge[t]) : t \in S}

\* No byte is lost or given back twice, whatever the items: what the counter misses is what
\* the contexts that hold or wait for their item have charged.
BytesAccounted == count = Capacity - Cardinality(Charged(asked))

\* An acquire that does not wait stays within the capacity, whatever the items and whatever
\* the releases have let through before.  Only a release goes beyond, for the one it wakes.
OnlyWakesExceed ==
  [][\A t \in Contexts :
       t \in Holders' \ asked => Cardinality(Charged(Holders')) <= Capacity]_vars

\* The abstract specification, with the bytes of the contexts that acquire has let through.
Budget == INSTANCE ByteBudget WITH
  granted <- [t \in Contexts |-> IF t \in Holders THEN Charge[t] ELSE 0]

WithinBudget == Budget!Spec

\* Every item that asks for its bytes is let through.
EverybodyServed == \A t \in Contexts : t \in asked ~> t \in Holders
=============================================================================
