------------------------ MODULE ImportBytesSemaphore ------------------------
(***************************************************************************)
(* OrcLib/ImportBytesSemaphore.h: the semaphore that charges the bytes of  *)
(* imported items against a budget.  Unlike a counting semaphore, acquire  *)
(* and release take an amount.                                             *)
(*                                                                         *)
(* acquire is an atomic subtraction, then, below zero, the push of the     *)
(* context and its Block; release is an atomic addition, then, at or below *)
(* zero, a spin until a context can be popped and unblocked.  ConcRT       *)
(* remembers an Unblock that comes before the Block, so the push and the   *)
(* Block are one step.                                                     *)
(***************************************************************************)
EXTENDS Integers, Sequences

CONSTANTS
  Contexts,   \* the ConcRT contexts that use the semaphore
  Capacity    \* SetCapacity

ASSUME CapacityAssumption == Capacity \in Nat

VARIABLES
  count,      \* _count
  waiting,    \* _waiting_contexts
  at          \* where each context is inside acquire or release

semVars == <<count, waiting, at>>

\* outside, between the two steps of acquire, blocked, in the loop of release
Places == {"out", "enlist", "blocked", "spin"}

SemTypeOK ==
  /\ count \in Int
  /\ waiting \in Seq(Contexts)
  /\ at \in [Contexts -> Places]

SemInit ==
  /\ count = Capacity
  /\ waiting = <<>>
  /\ at = [t \in Contexts |-> "out"]

\* Mutant: the test is made on the counter before the subtraction.
AcquireBefore(t, bytes) ==
  /\ at[t] = "out" /\ UNCHANGED waiting
  /\ count' = count - bytes
  /\ at' = [at EXCEPT ![t] = IF count < 0 THEN "enlist" ELSE "out"]

\* The subtraction of acquire(bytes).
Acquire(t, bytes) ==
  /\ at[t] = "out"
  /\ count' = count - bytes
  /\ at' = [at EXCEPT ![t] = IF count - bytes < 0 THEN "enlist" ELSE "out"]
  /\ UNCHANGED waiting

\* The push of acquire, and Block.
Enlist(t) ==
  /\ at[t] = "enlist"
  /\ waiting' = Append(waiting, t)
  /\ at' = [at EXCEPT ![t] = "blocked"]
  /\ UNCHANGED count

\* Mutant: the release that brings the count to zero wakes nobody.
ReleaseBelow(t, bytes) ==
  /\ at[t] = "out" /\ UNCHANGED waiting
  /\ count' = count + bytes
  /\ at' = [at EXCEPT ![t] = IF count + bytes < 0 THEN "spin" ELSE "out"]

\* The addition of release(bytes).
Release(t, bytes) ==
  /\ at[t] = "out"
  /\ count' = count + bytes
  /\ at' = [at EXCEPT ![t] = IF count + bytes <= 0 THEN "spin" ELSE "out"]
  /\ UNCHANGED waiting

\* Mutant: the context is read from the queue and left there.
UnblockPeek(t) ==
  /\ at[t] = "spin" /\ waiting # <<>> /\ UNCHANGED <<count, waiting>>
  /\ at' = [at EXCEPT ![t] = "out", ![Head(waiting)] = "out"]

\* The loop of release ends: a context is popped and unblocked.
Unblock(t) ==
  /\ at[t] = "spin" /\ waiting # <<>>
  /\ waiting' = Tail(waiting)
  /\ at' = [at EXCEPT ![t] = "out", ![Head(waiting)] = "out"]
  /\ UNCHANGED count

\* The steps of a call that is under way.
SemStep(t) == Enlist(t) \/ Unblock(t)
=============================================================================
