----------------------------- MODULE Robustness -----------------------------
(***************************************************************************)
(* The termination handlers of OrcLib/Robustness.cpp.  Components register *)
(* handlers, by priority; a thread that terminates the process takes the   *)
(* whole list and calls it.  The threads that may do so are those of the   *)
(* console events and of unhandled exceptions, and the main thread, whose  *)
(* last static destructor terminates what is left.                         *)
(*                                                                         *)
(* The list is locked, the flag and the event are not.  What a handler     *)
(* does belongs to the module that registers it.                           *)
(***************************************************************************)
EXTENDS Integers, Sequences, FiniteSets

CONSTANTS
  Threads,       \* the threads that may terminate the process
  Handlers,      \* the termination handlers
  Priority       \* the priority of each: the higher is called first

ASSUME RobustnessAssumption ==
  /\ IsFiniteSet(Handlers)
  /\ Priority \in [Handlers -> Nat]

VARIABLES
  handlers,        \* _Handlers, in the order they are called
  terminateCalled, \* _TerminateCalled
  signaled,        \* the event _hTerminationHandlers
  terminating,     \* what each thread does next in Terminate
  taken            \* HandlersCopy of each thread

robustVars == <<handlers, terminateCalled, signaled, terminating, taken>>

TerminateSteps == {"out", "reset", "swap", "call", "signal", "flag", "over"}

RobustTypeOK ==
  /\ handlers \in Seq(Handlers) /\ terminateCalled \in BOOLEAN /\ signaled \in BOOLEAN
  /\ terminating \in [Threads -> TerminateSteps]
  /\ taken \in [Threads -> Seq(Handlers)]

\* The event is made signaled.
RobustInit ==
  /\ handlers = <<>> /\ terminateCalled = FALSE /\ signaled = TRUE
  /\ terminating = [t \in Threads |-> "out"]
  /\ taken = [t \in Threads |-> <<>>]

\* The elements of a list that are in S, in their order.
Only(list, S) ==
  LET only[n \in 0..Len(list)] ==
        IF n = 0 THEN <<>>
        ELSE IF list[n] \in S THEN Append(only[n - 1], list[n]) ELSE only[n - 1]
  IN only[Len(list)]

\* Mutant: in front of the handlers of the same or a lower priority, unsorted.
WithFirst(list, h) == <<h>> \o list

\* The list with one handler more: at the end, and then sorted, which keeps
\* the order of handlers of one priority.
With(list, h) ==
  Only(list, {g \in Handlers : Priority[g] >= Priority[h]}) \o <<h>>
    \o Only(list, {g \in Handlers : Priority[g] < Priority[h]})

\* The list without some handlers.
Without(list, gone) == Only(list, Handlers \ gone)

\* Nobody is registered or removed once the handlers have been called.
AddTerminationHandler(h) ==
  handlers' = IF terminateCalled THEN handlers ELSE With(handlers, h)

RemoveTerminationHandlers(gone) ==
  handlers' = IF terminateCalled THEN handlers ELSE Without(handlers, gone)

GoOn(t, step) == terminating' = [terminating EXCEPT ![t] = step]

\* The test of _TerminateCalled, which takes no lock.
EnterTerminate(t) ==
  /\ terminating[t] = "out"
  /\ GoOn(t, IF terminateCalled THEN "over" ELSE "reset")
  /\ UNCHANGED <<handlers, terminateCalled, signaled, taken>>

ResetTheEvent(t) ==
  /\ terminating[t] = "reset" /\ GoOn(t, "swap")
  /\ signaled' = FALSE
  /\ UNCHANGED <<handlers, terminateCalled, taken>>

\* Mutant: the list is copied, and stays.
SwapHandlersCopies(t) ==
  /\ terminating[t] = "swap" /\ GoOn(t, "call")
  /\ taken' = [taken EXCEPT ![t] = handlers]
  /\ UNCHANGED <<handlers, terminateCalled, signaled>>

\* The list is swapped with an empty one under the lock.
SwapHandlers(t) ==
  /\ terminating[t] = "swap" /\ GoOn(t, "call")
  /\ taken' = [taken EXCEPT ![t] = handlers]
  /\ handlers' = <<>>
  /\ UNCHANGED <<terminateCalled, signaled>>

\* The handler thread t is in.
Calling(t, h) == /\ terminating[t] = "call" /\ taken[t] # <<>>
                 /\ h = Head(taken[t])

\* The handler returns, or throws, which is caught.
HandlerReturns(t) ==
  /\ terminating[t] = "call" /\ taken[t] # <<>>
  /\ taken' = [taken EXCEPT ![t] = Tail(@)]
  /\ UNCHANGED <<handlers, terminateCalled, signaled, terminating>>

AllHandlersCalled(t) ==
  /\ terminating[t] = "call" /\ taken[t] = <<>> /\ GoOn(t, "signal")
  /\ UNCHANGED <<handlers, terminateCalled, signaled, taken>>

SetTheEvent(t) ==
  /\ terminating[t] = "signal" /\ GoOn(t, "flag")
  /\ signaled' = TRUE
  /\ UNCHANGED <<handlers, terminateCalled, taken>>

SetTerminateCalled(t) ==
  /\ terminating[t] = "flag" /\ GoOn(t, "over")
  /\ terminateCalled' = TRUE
  /\ UNCHANGED <<handlers, signaled, taken>>

\* The steps of Terminate around the handlers.
TerminateStep(t) ==
  \/ EnterTerminate(t)
  \/ ResetTheEvent(t)
  \/ SwapHandlers(t)
  \/ AllHandlersCalled(t)
  \/ SetTheEvent(t)
  \/ SetTerminateCalled(t)

\* UnInitialize(INFINITE) waits for the event.
UnInitialized == signaled
=============================================================================
