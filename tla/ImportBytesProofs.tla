-------------------------- MODULE ImportBytesProofs -------------------------
(***************************************************************************)
(* Proofs about ImportBytes for any contexts, any amounts and any          *)
(* capacity: the wait queue of the semaphore is exact, the counter loses   *)
(* no byte, and only a release goes beyond the capacity, as it does in the *)
(* run ImportBytesOver.  A lemma at the end says that it does not when     *)
(* every item has one byte, the case that ImportBytesUnit checks.          *)
(***************************************************************************)
EXTENDS ImportBytes, FiniteSetTheorems, TLAPS

\* WaitingExact is inductive once the types are known.
QueueInv == TypeOK /\ WaitingExact

LEMMA QueueInvInit == Init => QueueInv
  BY CapacityAssumption DEF Init, SemInit, QueueInv, TypeOK, SemTypeOK, Places, WaitingExact

\* Moving a context that is neither blocked nor becomes blocked leaves the queue exact.
LEMMA MovePreserves ==
  ASSUME QueueInv, NEW t \in Contexts, at[t] # "blocked", NEW p \in Places, p # "blocked",
         at' = [at EXCEPT ![t] = p], waiting' = waiting, count' \in Int, asked' \in SUBSET Contexts
  PROVE  QueueInv'
  BY DEF QueueInv, TypeOK, SemTypeOK, WaitingExact

LEMMA ChargeItemPreserves ==
  ASSUME QueueInv, NEW t \in Contexts, ChargeItem(t)
  PROVE  QueueInv'
<1>1. count - Charge[t] \in Int
  BY ChargeAssumption DEF QueueInv, TypeOK, SemTypeOK
<1>2. PICK p \in Places : p # "blocked" /\ at' = [at EXCEPT ![t] = p]
  <2>1. CASE count - Charge[t] < 0
    BY <2>1 DEF ChargeItem, Acquire, Places
  <2>2. CASE ~(count - Charge[t] < 0)
    BY <2>2 DEF ChargeItem, Acquire, Places
  <2>3. QED BY <2>1, <2>2
<1>3. at[t] # "blocked" /\ waiting' = waiting /\ count' \in Int
  BY <1>1 DEF ChargeItem, Acquire
<1>4. asked' \in SUBSET Contexts
  BY DEF ChargeItem, QueueInv, TypeOK
<1>5. QED BY <1>2, <1>3, <1>4, MovePreserves

LEMMA ReturnItemPreserves ==
  ASSUME QueueInv, NEW t \in Contexts, ReturnItem(t)
  PROVE  QueueInv'
<1>1. count + Charge[t] \in Int
  BY ChargeAssumption DEF QueueInv, TypeOK, SemTypeOK
<1>2. PICK p \in Places : p # "blocked" /\ at' = [at EXCEPT ![t] = p]
  <2>1. CASE count + Charge[t] <= 0
    BY <2>1 DEF ReturnItem, Release, Places
  <2>2. CASE ~(count + Charge[t] <= 0)
    BY <2>2 DEF ReturnItem, Release, Places
  <2>3. QED BY <2>1, <2>2
<1>3. at[t] # "blocked" /\ waiting' = waiting /\ count' \in Int
  BY <1>1 DEF ReturnItem, Release
<1>4. asked' \in SUBSET Contexts
  BY DEF ReturnItem, QueueInv, TypeOK
<1>5. QED BY <1>2, <1>3, <1>4, MovePreserves

\* The context that blocks was not in the queue: it was not blocked.
LEMMA EnlistPreserves ==
  ASSUME QueueInv, NEW t \in Contexts, Enlist(t), asked' = asked
  PROVE  QueueInv'
<1> DEFINE n == Len(waiting)
<1>1. /\ waiting \in Seq(Contexts) /\ waiting' = Append(waiting, t) /\ n \in Nat
      /\ at \in [Contexts -> Places] /\ at' = [at EXCEPT ![t] = "blocked"]
  BY DEF Enlist, QueueInv, TypeOK, SemTypeOK
<1>2. /\ Len(waiting') = n + 1 /\ waiting'[n + 1] = t
      /\ \A i \in 1 .. n : waiting'[i] = waiting[i]
  BY <1>1
<1>3. \A i \in 1 .. n : waiting[i] # t
  BY DEF Enlist, QueueInv, WaitingExact
<1>4. TypeOK'
  BY <1>1 DEF Enlist, QueueInv, TypeOK, SemTypeOK, Places
<1>5. ASSUME NEW u \in Contexts
      PROVE  (at[u] = "blocked")' <=> \E i \in 1 .. Len(waiting') : waiting'[i] = u
  <2>1. CASE u = t
    BY <1>1, <1>2, <2>1
  <2>2. CASE u # t
    <3>1. (at[u] = "blocked")' <=> at[u] = "blocked"
      BY <1>1, <2>2
    <3>2. (\E i \in 1 .. Len(waiting') : waiting'[i] = u) <=> \E i \in 1 .. n : waiting[i] = u
      BY <1>1, <1>2, <2>2
    <3>3. QED BY <3>1, <3>2 DEF QueueInv, WaitingExact
  <2>3. QED BY <2>1, <2>2
<1>6. ASSUME NEW i \in 1 .. Len(waiting'), NEW j \in 1 .. Len(waiting'), waiting'[i] = waiting'[j]
      PROVE  i = j
  BY <1>1, <1>2, <1>3, <1>6 DEF QueueInv, WaitingExact
<1>7. QED BY <1>4, <1>5, <1>6 DEF QueueInv, WaitingExact

\* The context that is unblocked is the head, which is in the queue once; the one that
\* unblocks it is another one, for it is not blocked.
LEMMA UnblockPreserves ==
  ASSUME QueueInv, NEW t \in Contexts, Unblock(t), asked' = asked
  PROVE  QueueInv'
<1> DEFINE n == Len(waiting)
<1> DEFINE h == Head(waiting)
<1>1. /\ waiting \in Seq(Contexts) /\ waiting # <<>> /\ waiting' = Tail(waiting) /\ n \in Nat
      /\ at \in [Contexts -> Places] /\ at' = [at EXCEPT ![t] = "out", ![h] = "out"]
  BY DEF Unblock, QueueInv, TypeOK, SemTypeOK
<1>2. /\ n \in Nat \ {0} /\ h = waiting[1] /\ h \in Contexts /\ Len(waiting') = n - 1
      /\ \A i \in 1 .. n - 1 : waiting'[i] = waiting[i + 1]
  BY <1>1
<1>3. at[t] # "blocked"
  BY DEF Unblock
<1>4. TypeOK'
  BY <1>1, <1>2 DEF Unblock, QueueInv, TypeOK, SemTypeOK, Places
<1>5. ASSUME NEW u \in Contexts
      PROVE  (at[u] = "blocked")' <=> \E i \in 1 .. Len(waiting') : waiting'[i] = u
  <2>1. CASE u = h
    <3>1. ~(at[u] = "blocked")'
      BY <1>1, <1>2, <2>1
    <3>2. \A i \in 1 .. n - 1 : waiting[i + 1] # h
      BY <1>2 DEF QueueInv, WaitingExact
    <3>3. QED BY <1>2, <2>1, <3>1, <3>2
  <2>2. CASE u = t /\ u # h
    <3>1. ~(at[u] = "blocked")'
      BY <1>1, <1>2, <2>2
    <3>2. \A i \in 1 .. n : waiting[i] # t
      BY <1>3 DEF QueueInv, WaitingExact
    <3>3. QED BY <1>2, <2>2, <3>1, <3>2
  <2>3. CASE u # t /\ u # h
    <3>1. (at[u] = "blocked")' <=> at[u] = "blocked"
      BY <1>1, <1>2, <2>3
    <3>2. ASSUME NEW i \in 1 .. n, waiting[i] = u
          PROVE  i - 1 \in 1 .. n - 1 /\ waiting'[i - 1] = u
      BY <1>2, <2>3, <3>2
    <3>3. ASSUME NEW i \in 1 .. n - 1, waiting'[i] = u
          PROVE  i + 1 \in 1 .. n /\ waiting[i + 1] = u
      BY <1>2, <3>3
    <3>4. QED BY <1>2, <3>1, <3>2, <3>3 DEF QueueInv, WaitingExact
  <2>4. QED BY <2>1, <2>2, <2>3
<1>6. ASSUME NEW i \in 1 .. Len(waiting'), NEW j \in 1 .. Len(waiting'), waiting'[i] = waiting'[j]
      PROVE  i = j
  <2>1. i + 1 \in 1 .. n /\ j + 1 \in 1 .. n /\ waiting[i + 1] = waiting[j + 1]
    BY <1>2, <1>6
  <2>2. QED BY <2>1 DEF QueueInv, WaitingExact
<1>7. QED BY <1>4, <1>5, <1>6 DEF QueueInv, WaitingExact

LEMMA QueueInvNext == QueueInv /\ [Next]_vars => QueueInv'
<1> SUFFICES ASSUME QueueInv, [Next]_vars PROVE QueueInv'
  OBVIOUS
<1>1. ASSUME NEW t \in Contexts, ChargeItem(t) PROVE QueueInv'
  BY <1>1, ChargeItemPreserves
<1>2. ASSUME NEW t \in Contexts, ReturnItem(t) PROVE QueueInv'
  BY <1>2, ReturnItemPreserves
<1>3. ASSUME NEW t \in Contexts, Enlist(t), UNCHANGED asked PROVE QueueInv'
  BY <1>3, EnlistPreserves
<1>4. ASSUME NEW t \in Contexts, Unblock(t), UNCHANGED asked PROVE QueueInv'
  BY <1>4, UnblockPreserves
<1>5. CASE UNCHANGED vars
  BY <1>5 DEF vars, semVars, QueueInv, TypeOK, SemTypeOK, WaitingExact
<1>6. QED BY <1>1, <1>2, <1>3, <1>4, <1>5 DEF Next, SemStep

\* acquire and release of ImportBytesSemaphore, however they interleave: the contexts that
\* sleep in Block are the contexts of _waiting_contexts, each there once, so an Unblock
\* always meets a context that is blocked and nobody sleeps where release cannot find him.
THEOREM QueueExact == Spec => []WaitingExact
<1>1. QueueInv => WaitingExact
  BY DEF QueueInv
<1>2. QED BY QueueInvInit, QueueInvNext, <1>1, PTL DEF Spec

-----------------------------------------------------------------------------
(***************************************************************************)
(* The bytes, for items of any size.                                       *)
(***************************************************************************)
\* The contexts that have not asked are not in the queue: BytesAccounted is inductive
\* with the types alone, but the bytes charged must be known to be finitely many.
BytesInv == QueueInv /\ IsFiniteSet(Charged(asked)) /\ BytesAccounted

\* The bytes of one item.
LEMMA ItemBytes ==
  ASSUME NEW t \in Contexts
  PROVE  /\ IsFiniteSet({t} \X (1 .. Charge[t]))
         /\ Cardinality({t} \X (1 .. Charge[t])) = Charge[t]
<1>1. Charge[t] \in Nat \ {0}
  BY ChargeAssumption
<1>2. IsFiniteSet(1 .. Charge[t]) /\ Cardinality(1 .. Charge[t]) = Charge[t]
  BY <1>1, FS_Interval, SMTT(60)
<1>3. IsFiniteSet({t}) /\ Cardinality({t}) = 1
  BY FS_Singleton
<1>4. /\ IsFiniteSet({t} \X (1 .. Charge[t]))
      /\ Cardinality({t} \X (1 .. Charge[t])) = Cardinality({t}) * Cardinality(1 .. Charge[t])
  BY <1>2, <1>3, FS_Product
<1> QED
  BY <1>1, <1>2, <1>3, <1>4

\* The bytes of one context more.
LEMMA OneMoreCharged ==
  ASSUME NEW S, NEW t \in Contexts \ S, IsFiniteSet(Charged(S))
  PROVE  /\ IsFiniteSet(Charged(S \cup {t})) /\ Cardinality(Charged(S)) \in Nat
         /\ Cardinality(Charged(S \cup {t})) = Cardinality(Charged(S)) + Charge[t]
<1> DEFINE own == {t} \X (1 .. Charge[t])
<1>1. IsFiniteSet(own) /\ Cardinality(own) = Charge[t] /\ Charge[t] \in Nat
  BY ItemBytes, ChargeAssumption
<1>2. Charged(S \cup {t}) = Charged(S) \cup own
  BY DEF Charged
<1>3. Charged(S) \cap own = {}
  BY DEF Charged
<1>4. Cardinality(Charged(S)) \in Nat
  BY FS_CardinalityType
<1> HIDE DEF own
<1>5. /\ IsFiniteSet(Charged(S) \cup own)
      /\ Cardinality(Charged(S) \cup own)
           = Cardinality(Charged(S)) + Cardinality(own) - Cardinality(Charged(S) \cap own)
  BY <1>1, FS_Union
<1>6. Cardinality(Charged(S) \cap own) = 0
  BY <1>3, FS_EmptySet
<1>7. IsFiniteSet(Charged(S \cup {t}))
  BY <1>2, <1>5, Zenon
<1>8. Cardinality(Charged(S \cup {t})) = Cardinality(Charged(S) \cup own)
  BY <1>2
<1>9. Cardinality(Charged(S \cup {t})) = Cardinality(Charged(S)) + Charge[t]
  BY <1>1, <1>4, <1>5, <1>6, <1>8
<1> QED
  BY <1>4, <1>7, <1>9, Zenon

\* A part of the contexts has charged a part of the bytes.
LEMMA FewerCharged ==
  ASSUME NEW S, NEW T \in SUBSET S, IsFiniteSet(Charged(S))
  PROVE  IsFiniteSet(Charged(T)) /\ Cardinality(Charged(T)) <= Cardinality(Charged(S))
<1>1. Charged(T) \in SUBSET Charged(S)
  BY DEF Charged
<1> QED
  BY <1>1, FS_Subset

LEMMA BytesInvInit == Init => BytesInv
<1> SUFFICES ASSUME Init PROVE BytesInv
  OBVIOUS
<1>1. Charged(asked) = {} /\ count = Capacity
  BY DEF Init, SemInit, Charged
<1> QED
  BY <1>1, QueueInvInit, FS_EmptySet, CapacityAssumption DEF BytesInv, BytesAccounted

LEMMA BytesInvNext == BytesInv /\ [Next]_vars => BytesInv'
<1> SUFFICES ASSUME BytesInv, [Next]_vars PROVE BytesInv'
  OBVIOUS
<1>1. QueueInv'
  BY QueueInvNext DEF BytesInv
<1>2. count \in Int /\ asked \subseteq Contexts
  BY DEF BytesInv, QueueInv, TypeOK, SemTypeOK
<1>3. ASSUME NEW t \in Contexts, ChargeItem(t) PROVE BytesInv'
  <2>1. t \in Contexts \ asked /\ asked' = asked \cup {t} /\ count' = count - Charge[t]
    BY <1>3 DEF ChargeItem, Acquire
  <2>2. /\ IsFiniteSet(Charged(asked')) /\ Cardinality(Charged(asked)) \in Nat
        /\ Cardinality(Charged(asked')) = Cardinality(Charged(asked)) + Charge[t]
    BY <2>1, OneMoreCharged DEF BytesInv
  <2>3. BytesAccounted'
    <3>1. count' = Capacity - Cardinality(Charged(asked'))
      BY <2>1, <2>2, CapacityAssumption, ChargeAssumption DEF BytesInv, BytesAccounted
    <3> QED
      BY <3>1 DEF BytesAccounted, Charged
  <2> QED
    BY <1>1, <2>2, <2>3 DEF BytesInv, Charged
<1>4. ASSUME NEW t \in Contexts, ReturnItem(t) PROVE BytesInv'
  <2>1. t \in asked /\ asked' = asked \ {t} /\ count' = count + Charge[t]
    BY <1>4 DEF ReturnItem, Release
  <2>2. IsFiniteSet(Charged(asked'))
    BY <2>1, FewerCharged DEF BytesInv
  <2>3. t \in Contexts \ asked' /\ asked = asked' \cup {t}
    BY <2>1
  <2>4. /\ Cardinality(Charged(asked')) \in Nat
        /\ Cardinality(Charged(asked)) = Cardinality(Charged(asked')) + Charge[t]
    BY <2>2, <2>3, OneMoreCharged
  <2>5. BytesAccounted'
    <3>1. count' = Capacity - Cardinality(Charged(asked'))
      BY <2>1, <2>4, CapacityAssumption, ChargeAssumption DEF BytesInv, BytesAccounted
    <3> QED
      BY <3>1 DEF BytesAccounted, Charged
  <2> QED
    BY <1>1, <2>2, <2>5 DEF BytesInv, Charged
<1>5. ASSUME asked' = asked, count' = count PROVE BytesInv'
  BY <1>1, <1>5 DEF BytesInv, BytesAccounted, Charged
<1> QED
  BY <1>3, <1>4, <1>5 DEF Next, SemStep, Enlist, Unblock, vars, semVars

LEMMA BytesInvariant == Spec => []BytesInv
BY BytesInvInit, BytesInvNext, PTL DEF Spec

\* acquire and release of ImportBytesSemaphore, however they interleave and whatever the
\* items weigh: _count is the capacity without the bytes of the contexts that hold or wait,
\* also when waiters were let through for less than they asked.
THEOREM CountExact == Spec => []BytesAccounted
<1>1. BytesInv => BytesAccounted
  BY DEF BytesInv
<1> QED
  BY <1>1, BytesInvariant, PTL

\* Whatever the items weigh, acquire itself never lets a context go beyond the capacity,
\* not even after releases have let others through for too little: the budget is exceeded
\* by release alone, in the step that unblocks a waiter.
THEOREM OnlyReleaseExceeds == Spec => OnlyWakesExceed
<1>1. ASSUME BytesInv, BytesInv', [Next]_vars, NEW t \in Contexts, t \in Holders' \ asked
      PROVE  Cardinality(Charged(Holders')) <= Capacity
  <2>1. Holders' \subseteq asked'
    BY DEF Holders
  <2>2. t \in asked' /\ t \notin asked
    BY <1>1, <2>1
  <2>3. PICK u \in Contexts : ChargeItem(u)
    BY <1>1, <2>2 DEF Next, ReturnItem, vars
  <2>4. u = t
    BY <2>2, <2>3 DEF ChargeItem
  <2>5. at'[t] = "out"
    BY <1>1 DEF Holders
  <2>6. count' \in Int /\ count' >= 0
    <3>1. count \in Int /\ Charge[t] \in Nat /\ at \in [Contexts -> Places]
      BY <1>1, ChargeAssumption DEF BytesInv, QueueInv, TypeOK, SemTypeOK
    <3> QED
      BY <2>3, <2>4, <2>5, <3>1 DEF ChargeItem, Acquire
  <2>7. IsFiniteSet(Charged(asked')) /\ count' = Capacity - Cardinality(Charged(asked'))
    BY <1>1 DEF BytesInv, BytesAccounted, Charged
  <2>8. /\ Cardinality(Charged(asked')) \in Nat /\ Cardinality(Charged(Holders')) \in Nat
        /\ Cardinality(Charged(Holders')) <= Cardinality(Charged(asked'))
    BY <2>1, <2>7, FewerCharged, FS_CardinalityType
  <2> QED
    BY <2>6, <2>7, <2>8, CapacityAssumption
<1>2. BytesInv /\ BytesInv' /\ [Next]_vars
        => [\A t \in Contexts :
              t \in Holders' \ asked => Cardinality(Charged(Holders')) <= Capacity]_vars
  BY <1>1
<1> QED
  BY <1>2, BytesInvariant, PTL DEF Spec, OnlyWakesExceed

-----------------------------------------------------------------------------
(***************************************************************************)
(* The refinement, for items of one byte.  The count alone does not bound  *)
(* the holders: a release adds its byte before it unblocks anybody, and an *)
(* acquire that comes in between takes it.  What does is that the waiters  *)
(* are as many as the count is below zero and as the releases under way:   *)
(* each of those will let one through.                                     *)
(***************************************************************************)
UnitCharges == \A t \in Contexts : Charge[t] = 1

Waiters == {t \in Contexts : at[t] \in {"enlist", "blocked"}}
Spinners == {t \in Contexts : at[t] = "spin"}
Debt == IF count < 0 THEN -count ELSE 0

WaitersOwed ==
  /\ Waiters \subseteq asked
  /\ Spinners \cap asked = {}
  /\ count = Capacity - Cardinality(asked)
  /\ Cardinality(Waiters) = Debt + Cardinality(Spinners)

BudgetInv == QueueInv /\ WaitersOwed

\* A part of the contexts is finite.
LEMMA ContextsFinite ==
  ASSUME NEW S \in SUBSET Contexts
  PROVE  IsFiniteSet(S) /\ Cardinality(S) \in Nat
BY ContextsAssumption, FS_Subset, FS_CardinalityType

LEMMA BudgetInvInit == Init => BudgetInv
<1> SUFFICES ASSUME Init PROVE BudgetInv
  OBVIOUS
<1>1. Waiters = {} /\ Spinners = {} /\ asked = {} /\ count = Capacity
  BY DEF Init, SemInit, Waiters, Spinners
<1> QED
  BY <1>1, QueueInvInit, FS_EmptySet, CapacityAssumption DEF BudgetInv, WaitersOwed, Debt

\* What the waiters and the holders are, and how many.
LEMMA HoldersCounted ==
  ASSUME BudgetInv
  PROVE  /\ Holders = asked \ Waiters
         /\ Cardinality(Holders) = Cardinality(asked) - Cardinality(Waiters)
         /\ Cardinality(asked) \in Nat /\ Cardinality(Waiters) \in Nat
         /\ Cardinality(Spinners) \in Nat
         /\ Cardinality(Holders) = Capacity - (IF count < 0 THEN 0 ELSE count) - Cardinality(Spinners)
<1>1. Holders = asked \ Waiters
  BY DEF BudgetInv, QueueInv, TypeOK, SemTypeOK, Places, WaitersOwed, Holders, Waiters, Spinners
<1>2. asked \in SUBSET Contexts /\ Waiters \in SUBSET Contexts /\ Spinners \in SUBSET Contexts
  BY DEF BudgetInv, QueueInv, TypeOK, Waiters, Spinners
<1>3. /\ IsFiniteSet(asked) /\ Cardinality(asked) \in Nat
      /\ Cardinality(Waiters) \in Nat /\ Cardinality(Spinners) \in Nat
  BY <1>2, ContextsFinite
<1>4. asked \cap Waiters = Waiters
  BY DEF BudgetInv, WaitersOwed
<1>5. Cardinality(Holders) = Cardinality(asked) - Cardinality(Waiters)
  <2>1. Cardinality(asked \ Waiters) = Cardinality(asked) - Cardinality(asked \cap Waiters)
    BY <1>3, FS_Difference
  <2> QED
    BY <1>1, <1>4, <2>1
<1> QED
  BY <1>1, <1>3, <1>5, CapacityAssumption DEF BudgetInv, WaitersOwed, Debt

\* An item charges its byte: it is let through, or waits and is owed its turn.
LEMMA ChargeItemOwes ==
  ASSUME BudgetInv, UnitCharges, NEW t \in Contexts, ChargeItem(t)
  PROVE  BudgetInv'
<1>1. QueueInv'
  BY ChargeItemPreserves DEF BudgetInv
<1>2. /\ t \notin asked /\ asked' = asked \cup {t} /\ at[t] = "out"
      /\ count' = count - 1 /\ at' = [at EXCEPT ![t] = IF count - 1 < 0 THEN "enlist" ELSE "out"]
      /\ at \in [Contexts -> Places] /\ count \in Int /\ asked \in SUBSET Contexts
  BY DEF ChargeItem, Acquire, UnitCharges, BudgetInv, QueueInv, TypeOK, SemTypeOK
<1>3. /\ IsFiniteSet(asked) /\ IsFiniteSet(Waiters)
      /\ Cardinality(asked) \in Nat /\ Cardinality(Waiters) \in Nat /\ Cardinality(Spinners) \in Nat
  BY <1>2, ContextsFinite DEF Waiters, Spinners
<1>4. Cardinality(asked') = Cardinality(asked) + 1
  BY <1>2, <1>3, FS_AddElement
<1>5. Spinners' = Spinners /\ t \notin Waiters /\ t \notin Spinners
  BY <1>2 DEF Spinners, Waiters
<1>6. CASE count - 1 < 0
  <2>1. Waiters' = Waiters \cup {t}
    BY <1>2, <1>6 DEF Waiters
  <2>2. Cardinality(Waiters') = Cardinality(Waiters) + 1
    BY <2>1, <1>3, <1>5, FS_AddElement
  <2> QED
    BY <1>1, <1>2, <1>3, <1>4, <1>5, <1>6, <2>1, <2>2, CapacityAssumption
    DEF BudgetInv, WaitersOwed, Debt
<1>7. CASE ~(count - 1 < 0)
  <2>1. Waiters' = Waiters
    BY <1>2, <1>7 DEF Waiters
  <2> QED
    BY <1>1, <1>2, <1>3, <1>4, <1>5, <1>7, <2>1, CapacityAssumption
    DEF BudgetInv, WaitersOwed, Debt
<1> QED
  BY <1>6, <1>7

\* An item gives its byte back: at or below zero it goes on to unblock one waiter.
LEMMA ReturnItemOwes ==
  ASSUME BudgetInv, UnitCharges, NEW t \in Contexts, ReturnItem(t)
  PROVE  BudgetInv'
<1>1. QueueInv'
  BY ReturnItemPreserves DEF BudgetInv
<1>2. /\ t \in asked /\ asked' = asked \ {t} /\ at[t] = "out"
      /\ count' = count + 1 /\ at' = [at EXCEPT ![t] = IF count + 1 <= 0 THEN "spin" ELSE "out"]
      /\ at \in [Contexts -> Places] /\ count \in Int /\ asked \in SUBSET Contexts
  BY DEF ReturnItem, Release, UnitCharges, BudgetInv, QueueInv, TypeOK, SemTypeOK
<1>3. /\ IsFiniteSet(asked) /\ IsFiniteSet(Spinners)
      /\ Cardinality(asked) \in Nat /\ Cardinality(Waiters) \in Nat /\ Cardinality(Spinners) \in Nat
  BY <1>2, ContextsFinite DEF Waiters, Spinners
<1>4. Cardinality(asked') = Cardinality(asked) - 1
  BY <1>2, <1>3, FS_RemoveElement
<1>5. Waiters' = Waiters /\ t \notin Waiters /\ t \notin Spinners
  BY <1>2 DEF Spinners, Waiters
<1>6. CASE count + 1 <= 0
  <2>1. Spinners' = Spinners \cup {t}
    BY <1>2, <1>6 DEF Spinners
  <2>2. Cardinality(Spinners') = Cardinality(Spinners) + 1
    BY <2>1, <1>3, <1>5, FS_AddElement
  <2> QED
    BY <1>1, <1>2, <1>3, <1>4, <1>5, <1>6, <2>1, <2>2, CapacityAssumption
    DEF BudgetInv, WaitersOwed, Debt
<1>7. CASE ~(count + 1 <= 0)
  <2>1. Spinners' = Spinners
    BY <1>2, <1>7 DEF Spinners
  <2> QED
    BY <1>1, <1>2, <1>3, <1>4, <1>5, <1>7, <2>1, CapacityAssumption
    DEF BudgetInv, WaitersOwed, Debt
<1> QED
  BY <1>6, <1>7

\* A waiter joins the queue, which changes neither kind.
LEMMA EnlistOwes ==
  ASSUME BudgetInv, NEW t \in Contexts, Enlist(t), asked' = asked
  PROVE  BudgetInv'
<1>1. QueueInv'
  BY EnlistPreserves DEF BudgetInv
<1>2. /\ at[t] = "enlist" /\ at' = [at EXCEPT ![t] = "blocked"] /\ count' = count
      /\ at \in [Contexts -> Places]
  BY DEF Enlist, BudgetInv, QueueInv, TypeOK, SemTypeOK
<1>3. Waiters' = Waiters /\ Spinners' = Spinners
  BY <1>2 DEF Waiters, Spinners
<1> QED
  BY <1>1, <1>2, <1>3 DEF BudgetInv, WaitersOwed, Debt

\* The head of the queue is let through: a waiter and a release under way less.
LEMMA UnblockOwes ==
  ASSUME BudgetInv, NEW t \in Contexts, Unblock(t), asked' = asked
  PROVE  /\ BudgetInv'
         /\ \E h \in Contexts \ Holders : h \in asked /\ Holders' = Holders \cup {h}
         /\ Cardinality(Holders) < Capacity
<1> DEFINE h == Head(waiting)
<1>1. QueueInv'
  BY UnblockPreserves DEF BudgetInv
<1>2. /\ at[t] = "spin" /\ waiting # <<>> /\ at' = [at EXCEPT ![t] = "out", ![h] = "out"]
      /\ count' = count /\ at \in [Contexts -> Places] /\ waiting \in Seq(Contexts)
  BY DEF Unblock, BudgetInv, QueueInv, TypeOK, SemTypeOK
<1>3. h \in Contexts /\ h = waiting[1] /\ 1 \in 1 .. Len(waiting)
  BY <1>2
<1>4. at[h] = "blocked"
  BY <1>3 DEF BudgetInv, QueueInv, WaitingExact
<1>5. Waiters' = Waiters \ {h} /\ Spinners' = Spinners \ {t} /\ h \in Waiters /\ t \in Spinners
  BY <1>2, <1>3, <1>4 DEF Waiters, Spinners
<1>6. IsFiniteSet(Waiters) /\ IsFiniteSet(Spinners) /\ Cardinality(Waiters) \in Nat /\ Cardinality(Spinners) \in Nat
  BY ContextsFinite DEF Waiters, Spinners
<1>7. Cardinality(Waiters') = Cardinality(Waiters) - 1 /\ Cardinality(Spinners') = Cardinality(Spinners) - 1
  BY <1>5, <1>6, FS_RemoveElement
<1>8. BudgetInv'
  <2>1. Waiters' \subseteq asked' /\ Spinners' \cap asked' = {}
    BY <1>5 DEF BudgetInv, WaitersOwed
  <2>2. Cardinality(Waiters') = Debt' + Cardinality(Spinners')
    BY <1>2, <1>6, <1>7 DEF BudgetInv, WaitersOwed, Debt, QueueInv, TypeOK, SemTypeOK
  <2> QED
    BY <1>1, <1>2, <2>1, <2>2 DEF BudgetInv, WaitersOwed
<1>9. h \in asked /\ h \notin Holders /\ t \notin asked
  BY <1>4, <1>5 DEF BudgetInv, WaitersOwed, Holders
<1>10. Holders' = Holders \cup {h}
  BY <1>2, <1>3, <1>9 DEF Holders, BudgetInv, QueueInv, TypeOK
<1>11. Cardinality(Spinners) > 0
  BY <1>5, <1>6, FS_EmptySet
<1>12. Cardinality(Holders) < Capacity
  BY <1>11, HoldersCounted, CapacityAssumption DEF BudgetInv, QueueInv, TypeOK, SemTypeOK
<1> QED
  BY <1>3, <1>8, <1>9, <1>10, <1>12

LEMMA BudgetInvNext == UnitCharges /\ BudgetInv /\ [Next]_vars => BudgetInv'
<1> SUFFICES ASSUME UnitCharges, BudgetInv, [Next]_vars PROVE BudgetInv'
  OBVIOUS
<1>1. CASE UNCHANGED vars
  <2>1. QueueInv'
    BY <1>1, QueueInvNext DEF BudgetInv
  <2>2. Waiters' = Waiters /\ Spinners' = Spinners /\ count' = count /\ asked' = asked
    BY <1>1 DEF vars, semVars, Waiters, Spinners
  <2> QED
    BY <2>1, <2>2 DEF BudgetInv, WaitersOwed, Debt
<1> QED
  BY <1>1, ChargeItemOwes, ReturnItemOwes, EnlistOwes, UnblockOwes DEF Next, SemStep

\* The abstract state: one byte for each holder.
Bytes == [t \in Contexts |-> IF t \in Holders THEN Charge[t] ELSE 0]

LEMMA BytesOf ==
  ASSUME UnitCharges
  PROVE  /\ \A t \in Contexts : Bytes[t] = IF t \in Holders THEN 1 ELSE 0
         /\ \A t \in Contexts : Bytes'[t] = IF t \in Holders' THEN 1 ELSE 0
         /\ DOMAIN Bytes = Contexts /\ DOMAIN Bytes' = Contexts
BY DEF Bytes, UnitCharges

\* The abstract state after a context more, or less, holds its byte.
LEMMA BytesMoved ==
  ASSUME UnitCharges, NEW t \in Contexts
  PROVE  /\ t \notin Holders /\ Holders' = Holders \cup {t} => Bytes' = [Bytes EXCEPT ![t] = @ + 1]
         /\ t \in Holders /\ Holders' = Holders \ {t} => Bytes' = [Bytes EXCEPT ![t] = @ - 1]
<1>1. ASSUME t \notin Holders, Holders' = Holders \cup {t}
      PROVE  \A u \in Contexts : Bytes'[u] = [Bytes EXCEPT ![t] = @ + 1][u]
  BY <1>1, BytesOf
<1>2. ASSUME t \in Holders, Holders' = Holders \ {t}
      PROVE  \A u \in Contexts : Bytes'[u] = [Bytes EXCEPT ![t] = @ - 1][u]
  BY <1>2, BytesOf
<1>3. /\ Bytes' = [u \in Contexts |-> Bytes'[u]]
      /\ [Bytes EXCEPT ![t] = @ + 1] = [u \in Contexts |-> [Bytes EXCEPT ![t] = @ + 1][u]]
      /\ [Bytes EXCEPT ![t] = @ - 1] = [u \in Contexts |-> [Bytes EXCEPT ![t] = @ - 1][u]]
  BY BytesOf DEF Bytes
<1> QED
  BY <1>1, <1>2, <1>3

\* With items of one byte, the bytes granted are the holders.
LEMMA BytesGranted ==
  ASSUME UnitCharges, BudgetInv
  PROVE  Budget!Granted = Holders \X {1} /\ Budget!Free = Capacity - Cardinality(Holders)
<1>1. Holders \in SUBSET Contexts
  BY DEF Holders, BudgetInv, QueueInv, TypeOK
<1>2. \A t \in Contexts : t \in Holders => 1 .. Bytes[t] = {1}
  BY BytesOf, UnitCharges
<1>7. \A t \in Contexts : t \notin Holders => 1 .. Bytes[t] = {}
  BY BytesOf, UnitCharges
<1>3. Budget!Granted = UNION {{t} \X (1 .. Bytes[t]) : t \in Contexts}
  BY DEF Budget!Granted, Bytes
<1>4. UNION {{t} \X (1 .. Bytes[t]) : t \in Contexts} = Holders \X {1}
  <2> DEFINE Of(t) == {t} \X (1 .. Bytes[t])
  <2>1. ASSUME NEW x \in UNION {Of(t) : t \in Contexts} PROVE x \in Holders \X {1}
    <3>1. PICK t \in Contexts : x \in Of(t)
      BY <2>1
    <3>2. t \in Holders /\ x \in {t} \X {1}
      BY <1>2, <1>7, <3>1
    <3> QED
      BY <3>2
  <2>2. ASSUME NEW x \in Holders \X {1} PROVE x \in UNION {Of(t) : t \in Contexts}
    <3>1. PICK t \in Holders : x = <<t, 1>>
      BY <2>2
    <3>2. t \in Contexts /\ x \in Of(t)
      BY <1>1, <1>2, <3>1
    <3> QED
      BY <3>2
  <2> HIDE DEF Of
  <2>3. UNION {Of(t) : t \in Contexts} = Holders \X {1}
    BY <2>1, <2>2
  <2> QED
    BY <2>3 DEF Of
<1>5. IsFiniteSet(Holders) /\ IsFiniteSet({1}) /\ Cardinality(Holders) \in Nat /\ Cardinality({1}) = 1
  BY <1>1, ContextsFinite, FS_Singleton
<1>6. Cardinality(Holders \X {1}) = Cardinality(Holders)
  BY <1>5, FS_Product
<1> QED
  BY <1>3, <1>4, <1>6 DEF Budget!Free, Budget!Cardinality, Cardinality

\* Letting one more context through is a grant of one byte that is free.
LEMMA OneMoreHolder ==
  ASSUME UnitCharges, BudgetInv, NEW h \in Contexts \ Holders, Holders' = Holders \cup {h},
         Cardinality(Holders) < Capacity
  PROVE  Budget!Grant(h)
<1>1. Cardinality(Holders) \in Nat
  BY ContextsFinite DEF Holders, BudgetInv, QueueInv, TypeOK
<1>2. 1 \in 1 .. Budget!Free
  BY <1>1, BytesGranted, CapacityAssumption
<1>3. Bytes' = [Bytes EXCEPT ![h] = @ + 1]
  BY BytesMoved
<1> QED
  BY <1>2, <1>3 DEF Budget!Grant, Bytes

\* Every step of the semaphore is a grant, a return or nothing to the budget.
LEMMA BudgetStep == UnitCharges /\ BudgetInv /\ [Next]_vars => [Budget!Next]_Bytes
<1> SUFFICES ASSUME UnitCharges, BudgetInv, [Next]_vars PROVE [Budget!Next]_Bytes
  OBVIOUS
<1> USE DEF Budget!Next
<1>1. ASSUME NEW t \in Contexts, ChargeItem(t) PROVE [Budget!Next]_Bytes
  <2>1. /\ t \notin asked /\ asked' = asked \cup {t} /\ at[t] = "out"
        /\ count' = count - 1 /\ at' = [at EXCEPT ![t] = IF count - 1 < 0 THEN "enlist" ELSE "out"]
        /\ at \in [Contexts -> Places] /\ count \in Int /\ asked \in SUBSET Contexts
    BY <1>1 DEF ChargeItem, Acquire, UnitCharges, BudgetInv, QueueInv, TypeOK, SemTypeOK
  <2>2. CASE count - 1 < 0
    <3>1. Holders' = Holders
      BY <2>1, <2>2 DEF Holders
    <3> QED
      BY <3>1 DEF Bytes
  <2>3. CASE ~(count - 1 < 0)
    <3>1. Holders' = Holders \cup {t} /\ t \notin Holders
      BY <2>1, <2>3 DEF Holders
    <3>2. Cardinality(Holders) < Capacity
      BY <2>1, <2>3, HoldersCounted, CapacityAssumption
    <3> QED
      BY <3>1, <3>2, OneMoreHolder
  <2> QED
    BY <2>2, <2>3
<1>2. ASSUME NEW t \in Contexts, ReturnItem(t) PROVE [Budget!Next]_Bytes
  <2>1. /\ t \in Holders /\ Holders' = Holders \ {t}
    BY <1>2 DEF ReturnItem, Release, Holders, BudgetInv, QueueInv, TypeOK, SemTypeOK
  <2>2. Bytes[t] = 1 /\ Bytes' = [Bytes EXCEPT ![t] = @ - 1]
    BY <2>1, BytesMoved, BytesOf
  <2>3. 1 \in 1 .. Bytes[t]
    BY <2>2
  <2>4. Budget!GiveBack(t)
    BY <2>2, <2>3 DEF Budget!GiveBack, Bytes
  <2> QED
    BY <2>4
<1>3. ASSUME NEW t \in Contexts, Enlist(t), asked' = asked PROVE [Budget!Next]_Bytes
  <2>1. Holders' = Holders
    BY <1>3 DEF Enlist, Holders, BudgetInv, QueueInv, TypeOK, SemTypeOK
  <2> QED
    BY <2>1 DEF Bytes
<1>4. ASSUME NEW t \in Contexts, Unblock(t), asked' = asked PROVE [Budget!Next]_Bytes
  BY <1>4, UnblockOwes, OneMoreHolder
<1>5. CASE UNCHANGED vars
  BY <1>5 DEF vars, semVars, Bytes, Holders
<1> QED
  BY <1>1, <1>2, <1>3, <1>4, <1>5 DEF Next, SemStep

\* For any number of contexts, if every item has one byte, what acquire has let through and
\* release has not taken back never exceeds the capacity, although a release lets a waiter
\* through after it has added its byte, and another context may take that byte first.  The
\* sizes of the code's items differ, so this says only what the failure is due to.
LEMMA UnitBudget == ASSUME UnitCharges PROVE Spec => WithinBudget
<1>1. Init => BudgetInv
  BY BudgetInvInit
<1>2. BudgetInv /\ [Next]_vars => BudgetInv'
  BY BudgetInvNext
<1>3. BudgetInv /\ [Next]_vars => [Budget!Next]_Bytes
  BY BudgetStep
<1>4. Init => Budget!Init
  BY DEF Init, Budget!Init, Holders
<1> QED
  BY <1>1, <1>2, <1>3, <1>4, PTL DEF Spec, WithinBudget, Budget!Spec, Bytes
=============================================================================
