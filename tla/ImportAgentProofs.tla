-------------------------- MODULE ImportAgentProofs -------------------------
(***************************************************************************)
(* Proofs about ImportAgent, for any items, flows, SQL agents and budgets: *)
(* Complete is sent only when nothing is left to import, and when the      *)
(* agent is done every item was reported once and all bytes are back.      *)
(*                                                                         *)
(* The three counters (m_lInProgressItems and the two semaphores) are      *)
(* changed at different points of SendRequest and SendResult.  Each of     *)
(* them counts the items that are open between its two points; Placed says *)
(* where an item is, so that no step opens or closes it twice.             *)
(***************************************************************************)
EXTENDS ImportAgent, FiniteSetTheorems, TLAPS

\* The steps at which the next item of a task is charged or counted, but not yet sent.
Charging == {"memory", "count", "post"}

\* What SendRequest has posted.
IsPosted(c) ==
  c \in Roots \/ \E i \in Items : \E n \in 1 .. sent[i] : n \in DOMAIN Children[i] /\ Children[i][n] = c

\* A SQL agent imports c.
Held(a, c) == step[a] \in ResultSteps /\ item[a] = c

ItemSteps == SendSteps \cup ResultSteps \cup {"none", "over"}
AgentSteps == ResultSteps \cup {"receive", "drain", "over"}

Types ==
  /\ source \subseteq Items /\ flowItems \in [Flows -> SUBSET Items]
  /\ step \in [Workers -> ItemSteps \cup AgentSteps]
  /\ \A i \in Items : step[i] \in ItemSteps
  /\ \A a \in SqlAgents : step[a] \in AgentSteps
  /\ item \in [SqlAgents -> Items \cup {Agent}]
  /\ sent \in [Items -> Nat] /\ \A i \in Items : sent[i] <= Len(Children[i])
  /\ notified \in [Items -> {0, 1}]

\* A task sends what it has, and works on an item that was posted to the import agent.
TasksPlaced ==
  \A i \in Items :
    /\ step[i] \in Charging => sent[i] < Len(Children[i])
    /\ sent[i] > 0 => step[i] # "none"
    /\ step[i] # "none" => IsPosted(i) /\ Flow[i] = Agent /\ i \notin source
    /\ Flow[i] = Agent => (step[i] = "over" <=> notified[i] = 1)
    /\ notified[i] = 1 => IsPosted(i)

\* A queue holds items that were posted to it and that nobody has received.
QueuesPlaced ==
  /\ \A c \in source : IsPosted(c) /\ Flow[c] = Agent
  /\ \A f \in Flows : \A c \in flowItems[f] :
       /\ IsPosted(c) /\ Flow[c] = f /\ notified[c] = 0
       /\ \A a \in SqlAgents : ~Held(a, c)

\* A SQL agent imports an item of its flow, which no other agent has.
AgentsPlaced ==
  \A a \in SqlAgents : step[a] \in ResultSteps =>
    /\ item[a] \in Items /\ IsPosted(item[a]) /\ notified[item[a]] = 0
    /\ Flow[item[a]] = FlowOf[a]
    /\ \A b \in SqlAgents : Held(b, item[a]) => a = b

Placed == Types /\ TasksPlaced /\ QueuesPlaced /\ AgentsPlaced

(***************************************************************************)
(* The items that are open between two points: before is the steps of the  *)
(* sender that are past the first, after the steps of the worker that are  *)
(* past the second.                                                        *)
(***************************************************************************)
Upcoming(c, before) ==
  \E i \in Items : /\ step[i] \in before /\ sent[i] + 1 \in DOMAIN Children[i]
                   /\ Children[i][sent[i] + 1] = c
Past(c, after) ==
  notified[c] = 1 \/ \E w \in Workers : ItemOf(w) = c /\ step[w] \in after
Open(before, after) ==
  {c \in Items : (IsPosted(c) \/ Upcoming(c, before)) /\ ~Past(c, after)}

\* The points at which the counter and the two budgets are changed.
AfterCount == {"post"}
AfterDiscount == {"notify"}
AfterFile == {"memory", "count", "post"}
AfterFileBack == {"free", "discount", "notify"}
AfterMem == {"count", "post"}
AfterMemBack == {"discount", "notify"}

InProgress == Open(AfterCount, AfterDiscount)
FileOpen == Open(AfterFile, AfterFileBack)
MemOpen == Open(AfterMem, AfterMemBack)

\* The bytes of some items, one by one.
BytesOf(bytes, S) == UNION {{c} \X (1 .. bytes[c]) : c \in S}

\* What is left of a budget when the items S are charged against it.
Remaining(capacity, bytes, S) == capacity - Cardinality(BytesOf(bytes, S))

Counted ==
  /\ inProgress = Cardinality(InProgress)
  /\ IsFiniteSet(BytesOf(FileBytes, FileOpen))
  /\ fileCount = Remaining(FileCapacity, FileBytes, FileOpen)
  /\ IsFiniteSet(BytesOf(MemBytes, MemOpen))
  /\ memCount = Remaining(MemCapacity, MemBytes, MemOpen)

\* From the poll that finds nothing in progress on, nothing is, and the agent has seen its
\* tasks end and then the SQL agents.
Ordered ==
  /\ completes \in Nat
  /\ timer = "firing" \/ completes > 0 \/ agent # "receive" => inProgress <= 0
  /\ agent \in {"complete", "stop", "join", "drain", "done"} =>
       \A i \in Items : step[i] \in {"none", "over"}
  /\ agent \in {"drain", "done"} => \A a \in SqlAgents : step[a] = "over"

IInv == Placed /\ Counted /\ Ordered

-----------------------------------------------------------------------------
(***************************************************************************)
(* The bytes of a set of items.                                            *)
(***************************************************************************)
LEMMA BytesAdd ==
  ASSUME NEW f, NEW S, NEW c, c \notin S, f[c] \in Nat, IsFiniteSet(BytesOf(f, S))
  PROVE  /\ IsFiniteSet(BytesOf(f, S \cup {c}))
         /\ Cardinality(BytesOf(f, S \cup {c})) = Cardinality(BytesOf(f, S)) + f[c]
<1> DEFINE New == {c} \X (1 .. f[c])
           Old == BytesOf(f, S)
<1>1. BytesOf(f, S \cup {c}) = Old \cup New
  BY DEF BytesOf
<1>2. Old \cap New = {}
  BY DEF BytesOf
<1>3. IsFiniteSet({c}) /\ Cardinality({c}) = 1
  BY FS_Singleton
<1>4. IsFiniteSet(1 .. f[c]) /\ Cardinality(1 .. f[c]) = f[c]
  BY FS_Interval, SMTT(60)
<1>5. IsFiniteSet(New) /\ Cardinality(New) = Cardinality({c}) * Cardinality(1 .. f[c])
  BY <1>3, <1>4, FS_Product
<1> HIDE DEF New
<1>6. Cardinality(New) = f[c]
  BY <1>3, <1>4, <1>5
<1>7. Cardinality(Old) \in Nat /\ Cardinality(Old \cap New) = 0
  BY <1>2, FS_CardinalityType, FS_EmptySet
<1> HIDE DEF Old
<1>8. /\ IsFiniteSet(Old \cup New)
      /\ Cardinality(Old \cup New) = Cardinality(Old) + Cardinality(New) - Cardinality(Old \cap New)
  BY <1>5, FS_Union DEF Old
<1>9. Cardinality(Old \cup New) = Cardinality(Old) + f[c]
  <2> DEFINE both == Cardinality(Old \cup New)
             none == Cardinality(Old \cap New)
             new == Cardinality(New)
             old == Cardinality(Old)
  <2>1. both = old + new - none /\ none = 0 /\ new = f[c] /\ old \in Nat
    BY <1>6, <1>7, <1>8
  <2> HIDE DEF both, none, new, old
  <2>2. both = old + f[c]
    BY <2>1
  <2> QED
    BY <2>2 DEF both, old
<1> QED
  BY <1>1, <1>8, <1>9, Zenon DEF Old

LEMMA BytesRemove ==
  ASSUME NEW f, NEW S, NEW c \in S, f[c] \in Nat, IsFiniteSet(BytesOf(f, S))
  PROVE  /\ IsFiniteSet(BytesOf(f, S \ {c}))
         /\ Cardinality(BytesOf(f, S \ {c})) = Cardinality(BytesOf(f, S)) - f[c]
<1> DEFINE R == S \ {c}
<1>1. c \notin R /\ R \cup {c} = S /\ BytesOf(f, R) \subseteq BytesOf(f, S)
  BY DEF BytesOf
<1>2. IsFiniteSet(BytesOf(f, R))
  BY <1>1, FS_Subset
<1> HIDE DEF R
<1> DEFINE fewer == Cardinality(BytesOf(f, R))
           more == Cardinality(BytesOf(f, S))
<1>3. Cardinality(BytesOf(f, R \cup {c})) = fewer + f[c]
  BY <1>1, <1>2, BytesAdd
<1>4. fewer \in Nat /\ more = fewer + f[c]
  BY <1>1, <1>2, <1>3, FS_CardinalityType, Zenon
<1> HIDE DEF fewer, more
<1>5. fewer = more - f[c]
  BY <1>4
<1> QED
  BY <1>2, <1>5 DEF R, fewer, more

-----------------------------------------------------------------------------
(***************************************************************************)
(* What the steps do to the items that are open.                           *)
(***************************************************************************)
Points(before, after) ==
  /\ before \subseteq Charging /\ "post" \in before
  /\ after \subseteq {"free", "discount", "notify"} /\ "notify" \in after

\* A worker goes on to s without sending or reporting an item.
Goes(w, s) == step' = [step EXCEPT ![w] = s] /\ sent' = sent /\ item' = item /\ notified' = notified

\* The types of the constants.
LEMMA Constants ==
  /\ \A i \in Items : Children[i] \in Seq(Items)
  /\ \A i \in Items : FileBytes[i] \in Nat /\ MemBytes[i] \in Nat
  /\ \A i \in Items : Flow[i] \in Flows \cup {Agent}
  /\ \A a \in SqlAgents : FlowOf[a] \in Flows /\ a \notin Items
  /\ Agent \notin Flows
BY ItemsAssumption, AgentsAssumption

\* The item a task is about to send is an item nobody has seen yet.
LEMMA NextUnseen ==
  ASSUME Placed, NEW i \in Items, sent[i] < Len(Children[i])
  PROVE  /\ NextItem(i) \in Items /\ sent[i] + 1 \in DOMAIN Children[i]
         /\ ~IsPosted(NextItem(i)) /\ step[NextItem(i)] = "none" /\ notified[NextItem(i)] = 0
         /\ \A a \in SqlAgents : ~Held(a, NextItem(i))
         /\ \A j \in Items : \A n \in DOMAIN Children[j] :
              Children[j][n] = NextItem(i) => j = i /\ n = sent[i] + 1
<1> DEFINE c == NextItem(i)
<1>1. sent[i] \in Nat /\ Children[i] \in Seq(Items)
  BY Constants DEF Placed, Types
<1>2. sent[i] + 1 \in DOMAIN Children[i] /\ c \in Items /\ c = Children[i][sent[i] + 1]
  BY <1>1 DEF NextItem
<1>3. \A j \in Items : \A n \in DOMAIN Children[j] : Children[j][n] = c => j = i /\ n = sent[i] + 1
  BY <1>2, TreeAssumption
<1>4. c \notin Roots
  BY <1>2, TreeAssumption
<1>5. ~IsPosted(c)
  BY <1>1, <1>3, <1>4 DEF IsPosted
<1>6. step[c] = "none" /\ notified[c] # 1
  BY <1>2, <1>5 DEF Placed, TasksPlaced
<1>7. \A a \in SqlAgents : ~Held(a, c)
  BY <1>2, <1>5 DEF Placed, AgentsPlaced, Held
<1> QED
  BY <1>2, <1>3, <1>5, <1>6, <1>7 DEF Placed, Types

LEMMA OpenIff ==
  ASSUME NEW before, NEW after, NEW x
  PROVE  /\ x \in Open(before, after)
              <=> x \in Items /\ (IsPosted(x) \/ Upcoming(x, before)) /\ ~Past(x, after)
         /\ x \in Open(before, after)'
              <=> x \in Items /\ ((IsPosted(x))' \/ Upcoming(x, before)') /\ ~Past(x, after)'
BY DEF Open

\* A task goes on with the item it sends next.
LEMMA ChargeOpens ==
  ASSUME Placed, NEW i \in Items, sent[i] < Len(Children[i]), NEW s,
         NEW before, NEW after, Points(before, after),
         step[i] \in {"send", "memory", "count"}, s \in Charging, Goes(i, s)
  PROVE  /\ step[i] \notin before /\ s \in before =>
              /\ NextItem(i) \notin Open(before, after)
              /\ Open(before, after)' = Open(before, after) \cup {NextItem(i)}
         /\ (step[i] \in before <=> s \in before) => Open(before, after)' = Open(before, after)
<1>0. step' = [step EXCEPT ![i] = s] /\ sent' = sent /\ item' = item /\ notified' = notified
  BY DEF Goes
<1> PICK c : c = NextItem(i)
  OBVIOUS
<1>1. /\ c \in Items /\ sent[i] + 1 \in DOMAIN Children[i]
      /\ ~IsPosted(c) /\ step[c] = "none" /\ notified[c] = 0
      /\ \A a \in SqlAgents : ~Held(a, c)
      /\ \A j \in Items : \A n \in DOMAIN Children[j] : Children[j][n] = c => j = i /\ n = sent[i] + 1
  BY NextUnseen
<1>2. ~Past(c, after)
  <2>1. step[c] \notin after /\ notified[c] # 1
    BY <1>0, <1>1 DEF Points
  <2>2. after \subseteq ResultSteps
    BY <1>0 DEF Points, ResultSteps
  <2> QED
    BY <1>0, <1>1, <2>1, <2>2 DEF Past, ItemOf, Workers, Held
<1>3. \A x \in Items : (IsPosted(x))' <=> IsPosted(x)
  BY <1>0 DEF IsPosted
<1>4. \A x \in Items : Past(x, after)' <=> Past(x, after)
  BY <1>0 DEF Past, ItemOf, Points, Placed, Types, Charging, Workers
<1>5. \A j \in Items : j # i => step'[j] = step[j]
  BY <1>0 DEF Placed, Types
<1>6. step'[i] = s
  BY <1>0 DEF Placed, Types, Workers
<1>7. \A x \in Items : x # c => (Upcoming(x, before)' <=> Upcoming(x, before))
  BY <1>0, <1>1, <1>5 DEF Upcoming, NextItem
<1>8. Upcoming(c, before)' <=> s \in before
  BY <1>0, <1>1, <1>6 DEF Upcoming, NextItem
<1>9. Upcoming(c, before) <=> step[i] \in before
  BY <1>0, <1>1 DEF Upcoming, NextItem
<1>10. CASE step[i] \notin before /\ s \in before
  <2>1. c \notin Open(before, after)
    BY <1>1, <1>9, <1>10 DEF Open
  <2>2. ASSUME NEW x PROVE x \in Open(before, after)' <=> x \in Open(before, after) \/ x = c
    <3>1. CASE x = c
      BY <1>1, <1>2, <1>4, <1>8, <1>10, <2>1, <3>1, OpenIff
    <3>2. CASE x # c
      BY <1>3, <1>4, <1>7, <3>2, OpenIff
    <3> QED
      BY <3>1, <3>2
  <2> QED
    BY <1>10, <2>1, <2>2
<1>11. CASE step[i] \in before <=> s \in before
  <2>1. ASSUME NEW x PROVE x \in Open(before, after)' <=> x \in Open(before, after)
    <3>1. CASE x = c
      BY <1>1, <1>3, <1>4, <1>8, <1>9, <1>11, <3>1, OpenIff
    <3>2. CASE x # c
      BY <1>3, <1>4, <1>7, <3>2, OpenIff
    <3> QED
      BY <3>1, <3>2
  <2>2. Open(before, after)' = Open(before, after)
    BY <2>1, Zenon
  <2> QED
    BY <1>11, <2>2
<1> QED
  BY <1>10, <1>11

\* An item that is posted is no longer upcoming.
LEMMA PostOpens ==
  ASSUME Placed, NEW i \in Items, step[i] = "post", NEW before, NEW after, Points(before, after),
         step' = [step EXCEPT ![i] = "send"], sent' = [sent EXCEPT ![i] = @ + 1],
         item' = item, notified' = notified
  PROVE  /\ Open(before, after)' = Open(before, after)
         /\ \A x \in Items : (IsPosted(x))' <=> IsPosted(x) \/ x = NextItem(i)
<1> DEFINE c == NextItem(i)
<1>1. sent[i] < Len(Children[i])
  BY DEF Placed, TasksPlaced, Charging
<1>2. /\ c \in Items /\ sent[i] + 1 \in DOMAIN Children[i]
      /\ \A j \in Items : \A n \in DOMAIN Children[j] : Children[j][n] = c => j = i /\ n = sent[i] + 1
  BY <1>1, NextUnseen
<1>3. /\ sent \in [Items -> Nat] /\ \A j \in Items : j # i => sent'[j] = sent[j] /\ step'[j] = step[j]
      /\ sent'[i] = sent[i] + 1 /\ step'[i] = "send"
  BY DEF Placed, Types, Workers
<1>4. \A x \in Items : (IsPosted(x))' <=> IsPosted(x) \/ x = c
  <2>1. ASSUME NEW x \in Items, IsPosted(x) \/ x = c PROVE (IsPosted(x))'
    BY <1>2, <1>3, <2>1 DEF IsPosted, NextItem
  <2>2. ASSUME NEW x \in Items, (IsPosted(x))' PROVE IsPosted(x) \/ x = c
    BY <1>2, <1>3, <2>2 DEF IsPosted, NextItem
  <2> QED
    BY <2>1, <2>2
<1>5. \A x \in Items : Past(x, after)' <=> Past(x, after)
  BY DEF Past, ItemOf, Points, Placed, Types, Charging, Workers
<1>6. \A x \in Items : x # c => (Upcoming(x, before)' <=> Upcoming(x, before))
  <2>1. "send" \notin before
    BY DEF Points, Charging
  <2>2. ASSUME NEW x \in Items, x # c, NEW j \in Items
        PROVE  /\ step[j] \in before /\ sent[j] + 1 \in DOMAIN Children[j] /\ Children[j][sent[j] + 1] = x => j # i
               /\ step'[j] \in before => j # i
    BY <1>3, <2>1, <2>2 DEF NextItem
  <2> QED
    BY <1>3, <2>2 DEF Upcoming
<1>7. Upcoming(c, before)
  BY <1>2 DEF Upcoming, NextItem, Points
<1> QED
  BY <1>4, <1>5, <1>6, <1>7 DEF Open
-----------------------------------------------------------------------------
(***************************************************************************)
(* The items of the workers.                                               *)
(***************************************************************************)

\* A worker that reports works on a posted item that nobody else works on.
LEMMA ResultItem ==
  ASSUME Placed, NEW w \in Workers, step[w] \in ResultSteps
  PROVE  /\ ItemOf(w) \in Items /\ IsPosted(ItemOf(w)) /\ notified[ItemOf(w)] = 0
         /\ \A v \in Workers : ItemOf(v) = ItemOf(w) /\ step[v] \in ResultSteps => v = w
<1>1. \A v \in Items : step[v] \in ResultSteps =>
        /\ ItemOf(v) = v /\ IsPosted(v) /\ Flow[v] = Agent /\ notified[v] = 0
  BY DEF ItemOf, Placed, Types, TasksPlaced, ResultSteps
<1>2. \A v \in SqlAgents : step[v] \in ResultSteps =>
        /\ ItemOf(v) = item[v] /\ item[v] \in Items /\ IsPosted(item[v]) /\ notified[item[v]] = 0
        /\ Flow[item[v]] # Agent
        /\ \A b \in SqlAgents : step[b] \in ResultSteps /\ item[b] = item[v] => v = b
  BY Constants DEF ItemOf, Placed, AgentsPlaced, Held
<1> QED
  BY <1>1, <1>2 DEF Workers

LEMMA StepUnmoved ==
  ASSUME Placed, NEW w \in Workers, NEW t, step' = [step EXCEPT ![w] = t]
  PROVE  step'[w] = t /\ \A v \in Workers : v # w => step'[v] = step[v]
BY DEF Placed, Types

LEMMA PostedKept ==
  ASSUME sent' = sent
  PROVE  \A x \in Items : (IsPosted(x))' <=> IsPosted(x)
BY DEF IsPosted

(***************************************************************************)
(* The steps that only move a worker on.                                   *)
(***************************************************************************)
LEMMA MovePlaced ==
  ASSUME Placed, NEW w \in Workers, NEW t, step' = [step EXCEPT ![w] = t],
         w \in Items => /\ step[w] \notin {"none", "over"}
                        /\ t \in SendSteps \cup ResultSteps
                        /\ t \in Charging => sent[w] < Len(Children[w]),
         w \notin Items => t \in AgentSteps /\ (t \in ResultSteps => step[w] \in ResultSteps),
         UNCHANGED <<source, flowItems, item, sent, notified>>
  PROVE  Placed'
<1>1. step'[w] = t /\ \A v \in Workers : v # w => step'[v] = step[v]
  BY StepUnmoved
<1>2. \A x \in Items : (IsPosted(x))' <=> IsPosted(x)
  BY PostedKept
<1>3. Types'
  BY <1>1, Constants DEF Placed, Types, Workers, ItemSteps
<1>4. TasksPlaced'
  <2> SUFFICES ASSUME NEW i \in Items
               PROVE  /\ step'[i] \in Charging => sent[i] < Len(Children[i])
                      /\ sent[i] > 0 => step'[i] # "none"
                      /\ step'[i] # "none" => IsPosted(i) /\ Flow[i] = Agent /\ i \notin source
                      /\ Flow[i] = Agent => (step'[i] = "over" <=> notified[i] = 1)
                      /\ notified[i] = 1 => IsPosted(i)
    BY <1>2 DEF TasksPlaced
  <2>1. CASE i = w
    BY <1>1, <2>1 DEF Placed, TasksPlaced, SendSteps, ResultSteps
  <2>2. CASE i # w
    BY <1>1, <2>2 DEF Placed, TasksPlaced, Workers
  <2> QED
    BY <2>1, <2>2
<1>5. \A a \in SqlAgents : step'[a] \in ResultSteps => step[a] \in ResultSteps
  BY <1>1, Constants DEF Workers
<1>6. QueuesPlaced'
  BY <1>2, <1>5 DEF Placed, Types, QueuesPlaced, Held
<1>7. AgentsPlaced'
  BY <1>2, <1>5 DEF Placed, AgentsPlaced, Held
<1> QED
  BY <1>3, <1>4, <1>6, <1>7 DEF Placed

LEMMA PlacedKept ==
  ASSUME Placed, UNCHANGED <<source, flowItems, step, item, sent, notified>>
  PROVE  Placed'
BY DEF Placed, Types, TasksPlaced, QueuesPlaced, AgentsPlaced, IsPosted, Held

LEMMA ResultOpens ==
  ASSUME Placed, NEW w \in Workers, step[w] \in {"result", "free", "discount"}, NEW t,
         NEW before, NEW after, Points(before, after),
         t \in {"free", "discount", "notify"},
         Goes(w, t)
  PROVE  /\ step[w] \notin after /\ t \in after =>
              /\ ItemOf(w) \in Open(before, after)
              /\ Open(before, after)' = Open(before, after) \ {ItemOf(w)}
         /\ (step[w] \in after <=> t \in after) => Open(before, after)' = Open(before, after)
<1>0. step' = [step EXCEPT ![w] = t] /\ sent' = sent /\ item' = item /\ notified' = notified
  BY DEF Goes
<1> PICK c : c = ItemOf(w)
  OBVIOUS
<1>1. /\ c \in Items /\ IsPosted(c) /\ notified[c] = 0
      /\ \A v \in Workers : ItemOf(v) = c /\ step[v] \in ResultSteps => v = w
  BY ResultItem DEF ResultSteps
<1>2. \A x \in Items : (IsPosted(x))' <=> IsPosted(x)
  BY <1>0, PostedKept
<1>3. step'[w] = t /\ \A v \in Workers : v # w => step'[v] = step[v]
  BY <1>0, StepUnmoved
<1>4. \A x \in Items : Upcoming(x, before)' <=> Upcoming(x, before)
  <2>1. \A i \in Items : step'[i] \in before <=> step[i] \in before
    BY <1>0, <1>3 DEF Points, Charging, Workers
  <2> QED
    BY <1>0, <2>1 DEF Upcoming
<1>5. \A v \in Workers : (ItemOf(v))' = ItemOf(v)
  BY <1>0 DEF ItemOf
<1>6. \A x \in Items : x # c => (Past(x, after)' <=> Past(x, after))
  BY <1>0, <1>3, <1>5 DEF Past
<1>7. after \subseteq ResultSteps
  BY <1>0 DEF Points, ResultSteps
<1>8. Past(c, after) <=> step[w] \in after
  BY <1>0, <1>1, <1>7 DEF Past
<1>9. Past(c, after)' <=> t \in after
  BY <1>0, <1>1, <1>3, <1>5, <1>7 DEF Past
<1>10. CASE step[w] \notin after /\ t \in after
  <2>1. c \in Open(before, after)
    BY <1>1, <1>8, <1>10, OpenIff
  <2>2. ASSUME NEW x PROVE x \in Open(before, after)' <=> x \in Open(before, after) /\ x # c
    <3>1. CASE x = c
      BY <1>9, <1>10, <3>1, OpenIff
    <3>2. CASE x # c
      BY <1>2, <1>4, <1>6, <3>2, OpenIff
    <3> QED
      BY <3>1, <3>2
  <2> QED
    BY <1>10, <2>1, <2>2
<1>11. CASE step[w] \in after <=> t \in after
  <2>1. ASSUME NEW x PROVE x \in Open(before, after)' <=> x \in Open(before, after)
    <3>1. CASE x = c
      BY <1>1, <1>2, <1>8, <1>9, <1>11, <3>1, OpenIff
    <3>2. CASE x # c
      BY <1>2, <1>4, <1>6, <3>2, OpenIff
    <3> QED
      BY <3>1, <3>2
  <2>2. Open(before, after)' = Open(before, after)
    BY <2>1, Zenon
  <2> QED
    BY <1>11, <2>2
<1> QED
  BY <1>10, <1>11

\* Steps that pass none of the points.
LEMMA QuietOpens ==
  ASSUME NEW before, NEW after, UNCHANGED <<sent, notified>>,
         \A v \in Workers : \/ step'[v] = step[v] /\ (v \in Items \/ item'[v] = item[v])
                            \/ step[v] \notin before \cup after /\ step'[v] \notin before \cup after
  PROVE  Open(before, after)' = Open(before, after)
<1>1. \A x \in Items : (IsPosted(x))' <=> IsPosted(x)
  BY PostedKept
<1>2. \A x \in Items : Upcoming(x, before)' <=> Upcoming(x, before)
  <2>1. \A i \in Items : step'[i] \in before <=> step[i] \in before
    BY DEF Workers
  <2> QED
    BY <2>1 DEF Upcoming
<1>3. \A x \in Items : Past(x, after)' <=> Past(x, after)
  <2>1. \A x \in Items : \A v \in Workers :
          (ItemOf(v))' = x /\ step'[v] \in after <=> ItemOf(v) = x /\ step[v] \in after
    BY DEF ItemOf
  <2> QED
    BY <2>1 DEF Past
<1> QED
  BY <1>1, <1>2, <1>3 DEF Open
-----------------------------------------------------------------------------
(***************************************************************************)
(* The other steps of the workers.                                         *)
(***************************************************************************)
LEMMA PostPlaced ==
  ASSUME Placed, NEW i \in Items, PostItem(i)
  PROVE  Placed'
<1> PICK c : c = NextItem(i)
  OBVIOUS
<1>1. /\ step[i] = "post" /\ sent' = [sent EXCEPT ![i] = @ + 1] /\ step' = [step EXCEPT ![i] = "send"]
      /\ UNCHANGED <<item, notified>>
  BY DEF PostItem, Goto
<1>2. sent[i] < Len(Children[i]) /\ sent[i] + 1 <= Len(Children[i])
  BY <1>1, Constants DEF Placed, Types, TasksPlaced, Charging
<1>3. /\ c \in Items /\ ~IsPosted(c) /\ step[c] = "none" /\ notified[c] = 0
      /\ \A a \in SqlAgents : ~Held(a, c)
  BY <1>2, NextUnseen
<1>4. Points({"post"}, {"notify"})
  BY DEF Points, Charging
<1>5. \A x \in Items : (IsPosted(x))' <=> IsPosted(x) \/ x = c
  BY <1>1, <1>4, PostOpens
<1>6. step'[i] = "send" /\ \A v \in Workers : v # i => step'[v] = step[v]
  BY <1>1, StepUnmoved DEF Workers
<1>7. /\ source' \subseteq Items /\ flowItems' \in [Flows -> SUBSET Items]
      /\ \A x \in source' : x \in source \/ (x = c /\ Flow[c] = Agent)
      /\ \A f \in Flows : \A x \in flowItems'[f] : x \in flowItems[f] \/ (x = c /\ Flow[c] = f)
  <2>1. source \subseteq Items /\ flowItems \in [Flows -> SUBSET Items]
    BY DEF Placed, Types
  <2>2. CASE Flow[c] = Agent /\ source' = source \cup {c} /\ UNCHANGED flowItems
    BY <1>3, <2>1, <2>2
  <2>3. CASE /\ Flow[c] \in Flows /\ UNCHANGED source
             /\ flowItems' = [flowItems EXCEPT ![Flow[c]] = @ \cup {c}]
    BY <1>3, <2>1, <2>3
  <2> QED
    BY <2>2, <2>3 DEF PostItem
<1>8. /\ sent' \in [Items -> Nat] /\ sent'[i] = sent[i] + 1
      /\ \A j \in Items : j # i => sent'[j] = sent[j]
  BY <1>1 DEF Placed, Types
<1>9. Types'
  <2>1. \A j \in Items : sent'[j] <= Len(Children[j])
    BY <1>2, <1>8 DEF Placed, Types
  <2>2. /\ step' \in [Workers -> ItemSteps \cup AgentSteps]
        /\ \A j \in Items : step'[j] \in ItemSteps
        /\ \A a \in SqlAgents : step'[a] \in AgentSteps
    BY <1>1, <1>6, Constants DEF Placed, Types, Workers, ItemSteps, SendSteps
  <2> QED
    BY <1>1, <1>7, <1>8, <2>1, <2>2 DEF Placed, Types
<1>10. TasksPlaced'
  <2> SUFFICES ASSUME NEW j \in Items
               PROVE  /\ step'[j] \in Charging => sent'[j] < Len(Children[j])
                      /\ sent'[j] > 0 => step'[j] # "none"
                      /\ step'[j] # "none" => IsPosted(j) /\ Flow[j] = Agent /\ j \notin source'
                      /\ Flow[j] = Agent => (step'[j] = "over" <=> notified[j] = 1)
                      /\ notified[j] = 1 => IsPosted(j)
    BY <1>1, <1>5 DEF TasksPlaced
  <2>1. CASE j = i
    BY <1>1, <1>3, <1>6, <1>7, <2>1 DEF Placed, TasksPlaced, Charging
  <2>2. CASE j # i
    BY <1>3, <1>6, <1>7, <1>8, <2>2 DEF Placed, TasksPlaced, Workers
  <2> QED
    BY <2>1, <2>2
<1>11. \A a \in SqlAgents : step'[a] = step[a]
  BY <1>6, Constants DEF Workers
<1>12. QueuesPlaced'
  <2>1. \A x \in source' : (IsPosted(x))' /\ Flow[x] = Agent
    BY <1>3, <1>5, <1>7 DEF Placed, Types, QueuesPlaced
  <2>2. ASSUME NEW f \in Flows, NEW x \in flowItems'[f]
        PROVE  /\ (IsPosted(x))' /\ Flow[x] = f /\ notified[x] = 0
               /\ \A a \in SqlAgents : ~Held(a, x)
    <3>1. CASE x \in flowItems[f]
      BY <1>5, <3>1 DEF Placed, Types, QueuesPlaced
    <3>2. CASE x \notin flowItems[f]
      BY <1>3, <1>5, <1>7, <2>2, <3>2
    <3> QED
      BY <3>1, <3>2
  <2> QED
    BY <1>1, <1>11, <2>1, <2>2 DEF QueuesPlaced, Held
<1>13. AgentsPlaced'
  BY <1>1, <1>5, <1>11 DEF Placed, AgentsPlaced, Held
<1> QED
  BY <1>9, <1>10, <1>12, <1>13 DEF Placed

LEMMA NotifyPlaced ==
  ASSUME Placed, NEW w \in Workers, Notify(w)
  PROVE  Placed'
<1> PICK c, t : /\ c = ItemOf(w)
                /\ t = IF w \in Items THEN "over" ELSE IF w \in stopping THEN "drain" ELSE "receive"
  OBVIOUS
<1>1. /\ step[w] = "notify" /\ notified' = [notified EXCEPT ![c] = @ + 1]
      /\ step' = [step EXCEPT ![w] = t] /\ UNCHANGED <<source, flowItems, item, sent>>
  BY DEF Notify, Goto, queueVars
<1>2. /\ c \in Items /\ IsPosted(c) /\ notified[c] = 0
      /\ \A v \in Workers : ItemOf(v) = c /\ step[v] \in ResultSteps => v = w
  BY <1>1, ResultItem DEF ResultSteps
<1>3. \A x \in Items : (IsPosted(x))' <=> IsPosted(x)
  BY <1>1, PostedKept
<1>4. step'[w] = t /\ \A v \in Workers : v # w => step'[v] = step[v]
  BY <1>1, StepUnmoved
<1>5. notified'[c] = 1 /\ \A x \in Items : x # c => notified'[x] = notified[x]
  BY <1>1, <1>2 DEF Placed, Types
<1>6. Types'
  BY <1>1, <1>2, <1>4, <1>5, Constants DEF Placed, Types, Workers, ItemSteps, AgentSteps
<1>7. /\ w \in Items => c = w /\ Flow[c] = Agent
      /\ w \notin Items => c = item[w] /\ Flow[c] # Agent /\ step[c] = "none"
  BY <1>1, <1>2, Constants
     DEF ItemOf, Placed, TasksPlaced, AgentsPlaced, Workers, ResultSteps
<1>8. TasksPlaced'
  <2> SUFFICES ASSUME NEW j \in Items
               PROVE  /\ step'[j] \in Charging => sent[j] < Len(Children[j])
                      /\ sent[j] > 0 => step'[j] # "none"
                      /\ step'[j] # "none" => IsPosted(j) /\ Flow[j] = Agent /\ j \notin source
                      /\ Flow[j] = Agent => (step'[j] = "over" <=> notified'[j] = 1)
                      /\ notified'[j] = 1 => IsPosted(j)
    BY <1>1, <1>3 DEF TasksPlaced
  <2>1. CASE j = w
    BY <1>1, <1>2, <1>4, <1>5, <1>7, <2>1 DEF Placed, TasksPlaced, Charging
  <2>2. CASE j # w /\ j = c
    BY <1>2, <1>4, <1>7, <2>2 DEF Placed, TasksPlaced, Workers, Charging
  <2>3. CASE j # w /\ j # c
    BY <1>4, <1>5, <2>3 DEF Placed, TasksPlaced, Workers
  <2> QED
    BY <2>1, <2>2, <2>3
<1>9. \A a \in SqlAgents : step'[a] \in ResultSteps => step[a] \in ResultSteps /\ a # w
  BY <1>4, Constants DEF Workers, ResultSteps
<1>10. \A f \in Flows : c \notin flowItems[f]
  <2>1. CASE w \in Items
    BY <1>7, <2>1, Constants DEF Placed, QueuesPlaced
  <2>2. CASE w \notin Items
    BY <1>1, <1>7, <2>2 DEF Placed, QueuesPlaced, Held, Workers, ResultSteps
  <2> QED
    BY <2>1, <2>2
<1>11. QueuesPlaced'
  BY <1>1, <1>3, <1>5, <1>9, <1>10 DEF Placed, Types, QueuesPlaced, Held
<1>12. \A a \in SqlAgents : step'[a] \in ResultSteps => item[a] # c
  BY <1>2, <1>9, Constants DEF ItemOf, Workers
<1>13. AgentsPlaced'
  BY <1>1, <1>3, <1>5, <1>9, <1>12 DEF Placed, AgentsPlaced, Held
<1> QED
  BY <1>6, <1>8, <1>11, <1>13 DEF Placed

LEMMA NotifyOpens ==
  ASSUME Placed, NEW w \in Workers, Notify(w), NEW before, NEW after, Points(before, after)
  PROVE  Open(before, after)' = Open(before, after)
<1> PICK c, t : /\ c = ItemOf(w)
                /\ t = IF w \in Items THEN "over" ELSE IF w \in stopping THEN "drain" ELSE "receive"
  OBVIOUS
<1>1. /\ step[w] = "notify" /\ notified' = [notified EXCEPT ![c] = @ + 1]
      /\ step' = [step EXCEPT ![w] = t] /\ UNCHANGED <<item, sent>>
  BY DEF Notify, Goto, queueVars
<1>2. c \in Items /\ notified[c] = 0
  BY <1>1, ResultItem DEF ResultSteps
<1>3. \A x \in Items : (IsPosted(x))' <=> IsPosted(x)
  BY <1>1, PostedKept
<1>4. step'[w] = t /\ \A v \in Workers : v # w => step'[v] = step[v]
  BY <1>1, StepUnmoved
<1>5. notified'[c] = 1 /\ \A x \in Items : x # c => notified'[x] = notified[x]
  BY <1>1, <1>2 DEF Placed, Types
<1>6. \A i \in Items : step'[i] \in before <=> step[i] \in before
  BY <1>1, <1>4 DEF Points, Charging, Workers
<1>7. \A x \in Items : Upcoming(x, before)' <=> Upcoming(x, before)
  BY <1>1, <1>6 DEF Upcoming
<1>8. \A v \in Workers : (ItemOf(v))' = ItemOf(v)
  BY <1>1 DEF ItemOf
<1>9. Past(c, after)' /\ Past(c, after)
  BY <1>1, <1>5 DEF Past, Points
<1>10. \A x \in Items : x # c => (Past(x, after)' <=> Past(x, after))
  BY <1>4, <1>5, <1>8 DEF Past
<1>11. ASSUME NEW x PROVE x \in Open(before, after)' <=> x \in Open(before, after)
  <2>1. CASE x = c
    BY <1>9, <2>1, OpenIff
  <2>2. CASE x # c
    BY <1>3, <1>7, <1>10, <2>2, OpenIff
  <2> QED
    BY <2>1, <2>2
<1> QED
  BY <1>11, Zenon
LEMMA ReceivePlaced ==
  ASSUME Placed, NEW a \in SqlAgents, SqlReceiveItem(a)
  PROVE  Placed'
<1>1. /\ step[a] \in {"receive", "drain"} /\ UNCHANGED <<source, sent, notified>>
      /\ a \in Workers /\ a \notin Items /\ FlowOf[a] \in Flows
  BY Constants DEF SqlReceiveItem, Workers
<1>2. PICK c \in flowItems[FlowOf[a]] :
        /\ flowItems' = [flowItems EXCEPT ![FlowOf[a]] = @ \ {c}]
        /\ IF c \in Handled \/ a \in Unconnected
           THEN item' = [item EXCEPT ![a] = c] /\ step' = [step EXCEPT ![a] = "result"]
           ELSE UNCHANGED <<item, step>>
  BY DEF SqlReceiveItem, Goto
<1>3. /\ c \in Items /\ IsPosted(c) /\ Flow[c] = FlowOf[a] /\ notified[c] = 0
      /\ \A b \in SqlAgents : ~Held(b, c)
  BY <1>1 DEF Placed, Types, QueuesPlaced
<1>4. \A x \in Items : (IsPosted(x))' <=> IsPosted(x)
  BY <1>1, PostedKept
<1>5. /\ flowItems' \in [Flows -> SUBSET Items]
      /\ \A f \in Flows : flowItems'[f] \subseteq flowItems[f] /\ c \notin flowItems'[f]
  BY <1>1, <1>2, <1>3 DEF Placed, Types, QueuesPlaced
<1>6. /\ \A v \in Workers : v # a => step'[v] = step[v]
      /\ \A b \in SqlAgents : b # a => item'[b] = item[b]
      /\ step'[a] \in ResultSteps => item'[a] = c
      /\ item' \in [SqlAgents -> Items \cup {Agent}]
      /\ step'[a] \in AgentSteps /\ step' \in [Workers -> ItemSteps \cup AgentSteps]
  <2>1. CASE item' = [item EXCEPT ![a] = c] /\ step' = [step EXCEPT ![a] = "result"]
    BY <1>1, <1>3, <2>1 DEF Placed, Types, AgentSteps, ResultSteps
  <2>2. CASE UNCHANGED <<item, step>>
    BY <1>1, <2>2 DEF Placed, Types, ResultSteps
  <2> QED
    BY <1>2, <2>1, <2>2
<1>7. \A i \in Items : step'[i] = step[i]
  BY <1>1, <1>6 DEF Workers
<1>8. Types'
  BY <1>1, <1>5, <1>6, <1>7 DEF Placed, Types, Workers
<1>9. TasksPlaced'
  BY <1>1, <1>4, <1>7 DEF Placed, TasksPlaced
<1>10. \A b \in SqlAgents : step'[b] \in ResultSteps => (item'[b] = c /\ b = a) \/ Held(b, item'[b])
  BY <1>6 DEF Held, Workers
<1>11. QueuesPlaced'
  <2>1. ASSUME NEW f \in Flows, NEW x \in flowItems'[f], NEW b \in SqlAgents,
               step'[b] \in ResultSteps, item'[b] = x
        PROVE  FALSE
    BY <1>5, <1>10, <2>1 DEF Placed, QueuesPlaced
  <2>2. \A x \in source' : (IsPosted(x))' /\ Flow[x] = Agent
    BY <1>1, <1>4 DEF Placed, Types, QueuesPlaced
  <2>3. ASSUME NEW f \in Flows, NEW x \in flowItems'[f]
        PROVE  (IsPosted(x))' /\ Flow[x] = f /\ notified[x] = 0
    BY <1>4, <1>5 DEF Placed, Types, QueuesPlaced
  <2> QED
    BY <1>1, <2>1, <2>2, <2>3 DEF QueuesPlaced, Held
<1>12. AgentsPlaced'
  <2> SUFFICES ASSUME NEW b \in SqlAgents, step'[b] \in ResultSteps
               PROVE  /\ item'[b] \in Items /\ IsPosted(item'[b]) /\ notified[item'[b]] = 0
                      /\ Flow[item'[b]] = FlowOf[b]
                      /\ \A d \in SqlAgents : step'[d] \in ResultSteps /\ item'[d] = item'[b] => b = d
    BY <1>1, <1>4 DEF AgentsPlaced, Held
  <2>1. CASE b = a
    BY <1>3, <1>6, <1>10, <2>1
  <2>2. CASE b # a
    BY <1>3, <1>6, <1>10, <2>2 DEF Placed, AgentsPlaced, Held
  <2> QED
    BY <2>1, <2>2
<1> QED
  BY <1>8, <1>9, <1>11, <1>12 DEF Placed

LEMMA ImportPlaced ==
  ASSUME Placed, NEW i \in source, ImportOneItem(i), UNCHANGED <<flowItems, item, sent, notified>>
  PROVE  Placed'
<1>1. i \in Items /\ i \in Workers /\ IsPosted(i) /\ Flow[i] = Agent /\ step[i] = "none"
  BY DEF Placed, Types, QueuesPlaced, TasksPlaced, Workers
<1>2. \A x \in Items : (IsPosted(x))' <=> IsPosted(x)
  BY PostedKept
<1>3. /\ source' = source \ {i}
      /\ \A v \in Workers : v # i => step'[v] = step[v]
      /\ step'[i] = "send" \/ step'[i] = step[i]
      /\ step' \in [Workers -> ItemSteps \cup AgentSteps]
  <2>1. CASE step' = [step EXCEPT ![i] = "send"]
    BY <1>1, <2>1 DEF ImportOneItem, Placed, Types, ItemSteps, SendSteps
  <2>2. CASE UNCHANGED step
    BY <1>1, <2>2 DEF ImportOneItem, Placed, Types
  <2> QED
    BY <2>1, <2>2 DEF ImportOneItem, Goto
<1>4. \A a \in SqlAgents : step'[a] = step[a]
  BY <1>1, <1>3, Constants DEF Workers
<1>5. Types'
  BY <1>1, <1>3, <1>4 DEF Placed, Types, Workers, ItemSteps, SendSteps
<1>6. TasksPlaced'
  <2> SUFFICES ASSUME NEW j \in Items
               PROVE  /\ step'[j] \in Charging => sent[j] < Len(Children[j])
                      /\ sent[j] > 0 => step'[j] # "none"
                      /\ step'[j] # "none" => IsPosted(j) /\ Flow[j] = Agent /\ j \notin source'
                      /\ Flow[j] = Agent => (step'[j] = "over" <=> notified[j] = 1)
                      /\ notified[j] = 1 => IsPosted(j)
    BY <1>2 DEF TasksPlaced
  <2>1. CASE j = i
    BY <1>1, <1>3, <2>1 DEF Placed, TasksPlaced, Charging
  <2>2. CASE j # i
    BY <1>3, <2>2 DEF Placed, TasksPlaced, Workers
  <2> QED
    BY <2>1, <2>2
<1>7. QueuesPlaced'
  BY <1>2, <1>3, <1>4 DEF Placed, Types, QueuesPlaced, Held
<1>8. AgentsPlaced'
  BY <1>2, <1>4 DEF Placed, AgentsPlaced, Held
<1> QED
  BY <1>5, <1>6, <1>7, <1>8 DEF Placed

-----------------------------------------------------------------------------
(***************************************************************************)
(* The counters.                                                           *)
(***************************************************************************)
LEMMA CountedPoints ==
  /\ Points(AfterCount, AfterDiscount)
  /\ Points(AfterFile, AfterFileBack)
  /\ Points(AfterMem, AfterMemBack)
BY DEF Points, Charging, AfterCount, AfterDiscount, AfterFile, AfterFileBack, AfterMem, AfterMemBack

LEMMA CountedKept ==
  ASSUME Counted, InProgress' = InProgress, FileOpen' = FileOpen, MemOpen' = MemOpen,
         UNCHANGED <<inProgress, fileCount, memCount>>
  PROVE  Counted'
BY DEF Counted

LEMMA QuietCounted ==
  ASSUME Counted, UNCHANGED <<sent, notified, inProgress, fileCount, memCount>>,
         \A v \in Workers :
           \/ step'[v] = step[v] /\ (v \in Items \/ item'[v] = item[v])
           \/ /\ step[v] \in {"none", "send", "receive", "drain", "result", "over"}
              /\ step'[v] \in {"none", "send", "receive", "drain", "result", "over"}
  PROVE  Counted'
<1>1. InProgress' = InProgress
  <2>1. \A v \in Workers :
          \/ step'[v] = step[v] /\ (v \in Items \/ item'[v] = item[v])
          \/ /\ step[v] \notin AfterCount \cup AfterDiscount
             /\ step'[v] \notin AfterCount \cup AfterDiscount
    BY DEF AfterCount, AfterDiscount
  <2> QED
    BY <2>1, QuietOpens DEF InProgress
<1>2. FileOpen' = FileOpen
  <2>1. \A v \in Workers :
          \/ step'[v] = step[v] /\ (v \in Items \/ item'[v] = item[v])
          \/ step[v] \notin AfterFile \cup AfterFileBack /\ step'[v] \notin AfterFile \cup AfterFileBack
    BY DEF AfterFile, AfterFileBack
  <2> QED
    BY <2>1, QuietOpens DEF FileOpen
<1>3. MemOpen' = MemOpen
  <2>1. \A v \in Workers :
          \/ step'[v] = step[v] /\ (v \in Items \/ item'[v] = item[v])
          \/ step[v] \notin AfterMem \cup AfterMemBack /\ step'[v] \notin AfterMem \cup AfterMemBack
    BY DEF AfterMem, AfterMemBack
  <2> QED
    BY <2>1, QuietOpens DEF MemOpen
<1> QED
  BY <1>1, <1>2, <1>3, CountedKept

LEMMA Charged ==
  ASSUME NEW f, NEW S, NEW c, c \notin S, f[c] \in Nat, NEW cap \in Int, IsFiniteSet(BytesOf(f, S))
  PROVE  /\ IsFiniteSet(BytesOf(f, S \cup {c}))
         /\ Remaining(cap, f, S \cup {c}) = Remaining(cap, f, S) - f[c]
<1> DEFINE old == Cardinality(BytesOf(f, S))
           new == Cardinality(BytesOf(f, S \cup {c}))
<1>1. IsFiniteSet(BytesOf(f, S \cup {c})) /\ new = old + f[c] /\ old \in Nat
  BY BytesAdd, FS_CardinalityType
<1> HIDE DEF old, new
<1>2. cap - new = cap - old - f[c]
  BY <1>1
<1> QED
  BY <1>1, <1>2 DEF old, new, Remaining

LEMMA GivenBack ==
  ASSUME NEW f, NEW S, NEW c \in S, f[c] \in Nat, NEW cap \in Int, IsFiniteSet(BytesOf(f, S))
  PROVE  /\ IsFiniteSet(BytesOf(f, S \ {c}))
         /\ Remaining(cap, f, S \ {c}) = Remaining(cap, f, S) + f[c]
<1> DEFINE old == Cardinality(BytesOf(f, S))
           new == Cardinality(BytesOf(f, S \ {c}))
<1>1. IsFiniteSet(BytesOf(f, S \ {c})) /\ new = old - f[c] /\ old \in Nat
  BY BytesRemove, FS_CardinalityType
<1> HIDE DEF old, new
<1>2. cap - new = cap - old + f[c]
  BY <1>1
<1> QED
  BY <1>1, <1>2 DEF old, new, Remaining

LEMMA CountsInt ==
  ASSUME Counted
  PROVE  fileCount \in Int /\ memCount \in Int
BY BudgetAssumption, FS_CardinalityType DEF Counted, Remaining

LEMMA ChargeFileStep ==
  ASSUME Placed, Counted, NEW i \in Items, ChargeFile(i)
  PROVE  Placed' /\ Counted'
<1> PICK c : c = NextItem(i)
  OBVIOUS
<1>1. /\ step[i] = "send" /\ sent[i] < Len(Children[i]) /\ step' = [step EXCEPT ![i] = "memory"]
      /\ UNCHANGED <<source, flowItems, item, sent, notified, inProgress, memCount>>
  BY DEF ChargeFile, HasNext, Goto, queueVars, memVars
<1>0. Goes(i, "memory")
  BY <1>1 DEF Goes
<1>2. Placed'
  BY <1>1, MovePlaced DEF Workers, SendSteps
<1>3. c \in Items /\ FileBytes[c] \in Nat
  BY <1>1, NextUnseen, Constants
<1>4. fileCount' = fileCount - FileBytes[c]
  <2>1. CASE FileBytes[c] > 0
    BY <2>1 DEF ChargeFile, File!Acquire
  <2>2. CASE ~(FileBytes[c] > 0)
    BY <1>3, <2>2, CountsInt DEF ChargeFile, fileVars
  <2> QED
    BY <2>1, <2>2
<1>5. InProgress' = InProgress /\ MemOpen' = MemOpen
  <2>1. /\ step[i] \in {"send", "memory", "count"} /\ "memory" \in Charging
        /\ step[i] \in AfterCount <=> "memory" \in AfterCount
        /\ step[i] \in AfterMem <=> "memory" \in AfterMem
    BY <1>1 DEF Charging, AfterCount, AfterMem
  <2> QED
    BY <1>0, <1>1, <2>1, ChargeOpens, CountedPoints DEF InProgress, MemOpen
<1>6. c \notin FileOpen /\ FileOpen' = FileOpen \cup {c}
  <2>1. /\ step[i] \in {"send", "memory", "count"} /\ "memory" \in Charging
        /\ step[i] \notin AfterFile /\ "memory" \in AfterFile
    BY <1>1 DEF Charging, AfterFile
  <2> QED
    BY <1>0, <1>1, <2>1, ChargeOpens, CountedPoints DEF FileOpen
<1>7. /\ IsFiniteSet(BytesOf(FileBytes, FileOpen \cup {c}))
      /\ Remaining(FileCapacity, FileBytes, FileOpen \cup {c})
           = Remaining(FileCapacity, FileBytes, FileOpen) - FileBytes[c]
  <2>1. FileCapacity \in Int /\ IsFiniteSet(BytesOf(FileBytes, FileOpen))
    BY BudgetAssumption DEF Counted
  <2> QED
    BY <1>3, <1>6, <2>1, Charged, Zenon
<1> QED
  BY <1>1, <1>2, <1>4, <1>5, <1>6, <1>7 DEF Counted, Remaining, BytesOf

LEMMA ChargeMemStep ==
  ASSUME Placed, Counted, NEW i \in Items, ChargeMem(i)
  PROVE  Placed' /\ Counted'
<1> PICK c : c = NextItem(i)
  OBVIOUS
<1>1. /\ step[i] = "memory" /\ step' = [step EXCEPT ![i] = "count"]
      /\ UNCHANGED <<source, flowItems, item, sent, notified, inProgress, fileCount>>
  BY DEF ChargeMem, Goto, queueVars, fileVars
<1>0. Goes(i, "count")
  BY <1>1 DEF Goes
<1>2. sent[i] < Len(Children[i])
  BY <1>1 DEF Placed, TasksPlaced, Charging
<1>3. Placed'
  BY <1>1, <1>2, MovePlaced DEF Workers, SendSteps
<1>4. c \in Items /\ MemBytes[c] \in Nat
  BY <1>2, NextUnseen, Constants
<1>5. memCount' = memCount - MemBytes[c]
  <2>1. CASE MemBytes[c] > 0
    BY <2>1 DEF ChargeMem, Mem!Acquire
  <2>2. CASE ~(MemBytes[c] > 0)
    BY <1>4, <2>2, CountsInt DEF ChargeMem, memVars
  <2> QED
    BY <2>1, <2>2
<1>6. InProgress' = InProgress /\ FileOpen' = FileOpen
  <2>1. /\ step[i] \in {"send", "memory", "count"} /\ "count" \in Charging
        /\ step[i] \in AfterCount <=> "count" \in AfterCount
        /\ step[i] \in AfterFile <=> "count" \in AfterFile
    BY <1>1 DEF Charging, AfterCount, AfterFile
  <2> QED
    BY <1>0, <1>2, <2>1, ChargeOpens, CountedPoints DEF InProgress, FileOpen
<1>7. c \notin MemOpen /\ MemOpen' = MemOpen \cup {c}
  <2>1. /\ step[i] \in {"send", "memory", "count"} /\ "count" \in Charging
        /\ step[i] \notin AfterMem /\ "count" \in AfterMem
    BY <1>1 DEF Charging, AfterMem
  <2> QED
    BY <1>0, <1>2, <2>1, ChargeOpens, CountedPoints DEF MemOpen
<1>8. /\ IsFiniteSet(BytesOf(MemBytes, MemOpen \cup {c}))
      /\ Remaining(MemCapacity, MemBytes, MemOpen \cup {c})
           = Remaining(MemCapacity, MemBytes, MemOpen) - MemBytes[c]
  <2>1. MemCapacity \in Int /\ IsFiniteSet(BytesOf(MemBytes, MemOpen))
    BY BudgetAssumption DEF Counted
  <2> QED
    BY <1>4, <1>7, <2>1, Charged, Zenon
<1> QED
  BY <1>1, <1>3, <1>5, <1>6, <1>7, <1>8 DEF Counted, Remaining, BytesOf

LEMMA InProgressFinite == IsFiniteSet(InProgress)
<1>1. InProgress \subseteq Items
  BY DEF InProgress, Open
<1> QED
  BY <1>1, ItemsAssumption, FS_Subset

LEMMA CountItemStep ==
  ASSUME Placed, Counted, NEW i \in Items, CountItem(i)
  PROVE  Placed' /\ Counted'
<1> PICK c : c = NextItem(i)
  OBVIOUS
<1>1. /\ step[i] = "count" /\ step' = [step EXCEPT ![i] = "post"] /\ inProgress' = inProgress + 1
      /\ UNCHANGED <<source, flowItems, item, sent, notified, fileCount, memCount>>
  BY DEF CountItem, Goto, queueVars, fileVars, memVars
<1>0. Goes(i, "post")
  BY <1>1 DEF Goes
<1>2. sent[i] < Len(Children[i])
  BY <1>1 DEF Placed, TasksPlaced, Charging
<1>3. Placed'
  BY <1>1, <1>2, MovePlaced DEF Workers, SendSteps
<1>4. FileOpen' = FileOpen /\ MemOpen' = MemOpen
  <2>1. /\ step[i] \in {"send", "memory", "count"} /\ "post" \in Charging
        /\ step[i] \in AfterFile <=> "post" \in AfterFile
        /\ step[i] \in AfterMem <=> "post" \in AfterMem
    BY <1>1 DEF Charging, AfterFile, AfterMem
  <2> QED
    BY <1>0, <1>2, <2>1, ChargeOpens, CountedPoints DEF FileOpen, MemOpen
<1>5. c \notin InProgress /\ InProgress' = InProgress \cup {c}
  <2>1. /\ step[i] \in {"send", "memory", "count"} /\ "post" \in Charging
        /\ step[i] \notin AfterCount /\ "post" \in AfterCount
    BY <1>1 DEF Charging, AfterCount
  <2> QED
    BY <1>0, <1>2, <2>1, ChargeOpens, CountedPoints DEF InProgress
<1>6. Cardinality(InProgress') = Cardinality(InProgress) + 1
  BY <1>5, InProgressFinite, FS_AddElement
<1> QED
  BY <1>1, <1>3, <1>4, <1>6 DEF Counted, Remaining, BytesOf

LEMMA PostItemStep ==
  ASSUME Placed, Counted, NEW i \in Items, PostItem(i)
  PROVE  Placed' /\ Counted'
<1>1. /\ step[i] = "post" /\ sent' = [sent EXCEPT ![i] = @ + 1] /\ step' = [step EXCEPT ![i] = "send"]
      /\ UNCHANGED <<item, notified, inProgress, fileCount, memCount>>
  BY DEF PostItem, Goto, fileVars, memVars
<1>2. InProgress' = InProgress /\ FileOpen' = FileOpen /\ MemOpen' = MemOpen
  BY <1>1, PostOpens, CountedPoints DEF InProgress, FileOpen, MemOpen
<1> QED
  BY <1>1, <1>2, PostPlaced, CountedKept

LEMMA ReturnFileStep ==
  ASSUME Placed, Counted, NEW w \in Workers, ReturnFile(w)
  PROVE  Placed' /\ Counted'
<1> PICK c : c = ItemOf(w)
  OBVIOUS
<1>1. /\ step[w] = "result" /\ step' = [step EXCEPT ![w] = "free"]
      /\ UNCHANGED <<source, flowItems, item, sent, notified, inProgress, memCount>>
  BY DEF ReturnFile, Goto, queueVars, memVars
<1>0. Goes(w, "free")
  BY <1>1 DEF Goes
<1>2. Placed'
  BY <1>1, MovePlaced DEF ResultSteps, AgentSteps, Charging
<1>3. c \in Items /\ FileBytes[c] \in Nat
  BY <1>1, ResultItem, Constants DEF ResultSteps
<1>4. fileCount' = fileCount + FileBytes[c]
  <2>1. CASE FileBytes[c] > 0
    BY <2>1 DEF ReturnFile, File!Release
  <2>2. CASE ~(FileBytes[c] > 0)
    BY <1>3, <2>2, CountsInt DEF ReturnFile, fileVars
  <2> QED
    BY <2>1, <2>2
<1>5. InProgress' = InProgress /\ MemOpen' = MemOpen
  <2>1. /\ step[w] \in {"result", "free", "discount"}
        /\ step[w] \in AfterDiscount <=> "free" \in AfterDiscount
        /\ step[w] \in AfterMemBack <=> "free" \in AfterMemBack
    BY <1>1 DEF AfterDiscount, AfterMemBack
  <2> QED
    BY <1>0, <2>1, ResultOpens, CountedPoints DEF InProgress, MemOpen
<1>6. c \in FileOpen /\ FileOpen' = FileOpen \ {c}
  <2>1. /\ step[w] \in {"result", "free", "discount"}
        /\ step[w] \notin AfterFileBack /\ "free" \in AfterFileBack
    BY <1>1 DEF AfterFileBack
  <2> QED
    BY <1>0, <2>1, ResultOpens, CountedPoints DEF FileOpen
<1>7. /\ IsFiniteSet(BytesOf(FileBytes, FileOpen \ {c}))
      /\ Remaining(FileCapacity, FileBytes, FileOpen \ {c})
           = Remaining(FileCapacity, FileBytes, FileOpen) + FileBytes[c]
  <2>1. FileCapacity \in Int /\ IsFiniteSet(BytesOf(FileBytes, FileOpen))
    BY BudgetAssumption DEF Counted
  <2> QED
    BY <1>3, <1>6, <2>1, GivenBack, Zenon
<1> QED
  BY <1>1, <1>2, <1>4, <1>5, <1>6, <1>7 DEF Counted, Remaining, BytesOf

LEMMA ReturnMemStep ==
  ASSUME Placed, Counted, NEW w \in Workers, ReturnMem(w)
  PROVE  Placed' /\ Counted'
<1> PICK c : c = ItemOf(w)
  OBVIOUS
<1>1. /\ step[w] = "free" /\ step' = [step EXCEPT ![w] = "discount"]
      /\ UNCHANGED <<source, flowItems, item, sent, notified, inProgress, fileCount>>
  BY DEF ReturnMem, Goto, queueVars, fileVars
<1>0. Goes(w, "discount")
  BY <1>1 DEF Goes
<1>2. Placed'
  BY <1>1, MovePlaced DEF ResultSteps, AgentSteps, Charging
<1>3. c \in Items /\ MemBytes[c] \in Nat
  BY <1>1, ResultItem, Constants DEF ResultSteps
<1>4. memCount' = memCount + MemBytes[c]
  <2>1. CASE MemBytes[c] > 0
    BY <2>1 DEF ReturnMem, Mem!Release
  <2>2. CASE ~(MemBytes[c] > 0)
    BY <1>3, <2>2, CountsInt DEF ReturnMem, memVars
  <2> QED
    BY <2>1, <2>2
<1>5. InProgress' = InProgress /\ FileOpen' = FileOpen
  <2>1. /\ step[w] \in {"result", "free", "discount"}
        /\ step[w] \in AfterDiscount <=> "discount" \in AfterDiscount
        /\ step[w] \in AfterFileBack <=> "discount" \in AfterFileBack
    BY <1>1 DEF AfterDiscount, AfterFileBack
  <2> QED
    BY <1>0, <2>1, ResultOpens, CountedPoints DEF InProgress, FileOpen
<1>6. c \in MemOpen /\ MemOpen' = MemOpen \ {c}
  <2>1. /\ step[w] \in {"result", "free", "discount"}
        /\ step[w] \notin AfterMemBack /\ "discount" \in AfterMemBack
    BY <1>1 DEF AfterMemBack
  <2> QED
    BY <1>0, <2>1, ResultOpens, CountedPoints DEF MemOpen
<1>7. /\ IsFiniteSet(BytesOf(MemBytes, MemOpen \ {c}))
      /\ Remaining(MemCapacity, MemBytes, MemOpen \ {c})
           = Remaining(MemCapacity, MemBytes, MemOpen) + MemBytes[c]
  <2>1. MemCapacity \in Int /\ IsFiniteSet(BytesOf(MemBytes, MemOpen))
    BY BudgetAssumption DEF Counted
  <2> QED
    BY <1>3, <1>6, <2>1, GivenBack, Zenon
<1> QED
  BY <1>1, <1>2, <1>4, <1>5, <1>6, <1>7 DEF Counted, Remaining, BytesOf

LEMMA DiscountStep ==
  ASSUME Placed, Counted, NEW w \in Workers, Discount(w)
  PROVE  Placed' /\ Counted'
<1> PICK c : c = ItemOf(w)
  OBVIOUS
<1>1. /\ step[w] = "discount" /\ step' = [step EXCEPT ![w] = "notify"] /\ inProgress' = inProgress - 1
      /\ UNCHANGED <<source, flowItems, item, sent, notified, fileCount, memCount>>
  BY DEF Discount, Goto, queueVars, fileVars, memVars
<1>0. Goes(w, "notify")
  BY <1>1 DEF Goes
<1>2. Placed'
  BY <1>1, MovePlaced DEF ResultSteps, AgentSteps, Charging
<1>3. FileOpen' = FileOpen /\ MemOpen' = MemOpen
  <2>1. /\ step[w] \in {"result", "free", "discount"}
        /\ step[w] \in AfterFileBack <=> "notify" \in AfterFileBack
        /\ step[w] \in AfterMemBack <=> "notify" \in AfterMemBack
    BY <1>1 DEF AfterFileBack, AfterMemBack
  <2> QED
    BY <1>0, <2>1, ResultOpens, CountedPoints DEF FileOpen, MemOpen
<1>4. c \in InProgress /\ InProgress' = InProgress \ {c}
  <2>1. /\ step[w] \in {"result", "free", "discount"}
        /\ step[w] \notin AfterDiscount /\ "notify" \in AfterDiscount
    BY <1>1 DEF AfterDiscount
  <2> QED
    BY <1>0, <2>1, ResultOpens, CountedPoints DEF InProgress
<1>5. Cardinality(InProgress') = Cardinality(InProgress) - 1
  BY <1>4, InProgressFinite, FS_RemoveElement
<1> QED
  BY <1>1, <1>2, <1>3, <1>5 DEF Counted, Remaining, BytesOf

LEMMA NotifyStep ==
  ASSUME Placed, Counted, NEW w \in Workers, Notify(w)
  PROVE  Placed' /\ Counted'
<1>1. UNCHANGED <<inProgress, fileCount, memCount>>
  BY DEF Notify, fileVars, memVars
<1>2. InProgress' = InProgress /\ FileOpen' = FileOpen /\ MemOpen' = MemOpen
  BY NotifyOpens, CountedPoints DEF InProgress, FileOpen, MemOpen
<1> QED
  BY <1>1, <1>2, NotifyPlaced, CountedKept
-----------------------------------------------------------------------------
(***************************************************************************)
(* The counter at zero: no item is in progress.                            *)
(***************************************************************************)
LEMMA OpenItem ==
  ASSUME Placed, NEW c \in Items, IsPosted(c), notified[c] = 0,
         \A w \in Workers : ItemOf(w) = c => step[w] # "notify"
  PROVE  c \in InProgress
BY OpenIff DEF InProgress, AfterDiscount, Past

LEMMA ZeroIdle ==
  ASSUME Placed, Counted, inProgress <= 0
  PROVE  Idle
<1>1. InProgress = {}
  <2>1. Cardinality(InProgress) \in Nat /\ Cardinality(InProgress) <= 0
    BY InProgressFinite, FS_CardinalityType DEF Counted
  <2>2. Cardinality(InProgress) = 0
    BY <2>1
  <2> QED
    BY <2>2, InProgressFinite, FS_EmptySet
<1>2. ASSUME NEW c \in source PROVE FALSE
  <2>1. c \in Items /\ IsPosted(c) /\ Flow[c] = Agent /\ step[c] = "none"
    BY <1>2 DEF Placed, Types, QueuesPlaced, TasksPlaced
  <2>2. notified[c] = 0
    BY <2>1 DEF Placed, Types, TasksPlaced
  <2>3. \A w \in Workers : ItemOf(w) = c => step[w] # "notify"
    BY <2>1, Constants DEF ItemOf, Workers, Placed, AgentsPlaced, ResultSteps
  <2> QED
    BY <1>1, <2>1, <2>2, <2>3, OpenItem
<1>3. ASSUME NEW f \in Flows, NEW c \in flowItems[f] PROVE FALSE
  <2>1. /\ c \in Items /\ IsPosted(c) /\ Flow[c] = f /\ notified[c] = 0
        /\ \A a \in SqlAgents : ~Held(a, c)
    BY <1>3 DEF Placed, Types, QueuesPlaced
  <2>2. step[c] = "none"
    BY <2>1, Constants DEF Placed, TasksPlaced
  <2>3. \A w \in Workers : ItemOf(w) = c => step[w] # "notify"
    BY <2>1, <2>2 DEF ItemOf, Workers, Held, ResultSteps
  <2> QED
    BY <1>1, <2>1, <2>3, OpenItem
<1>4. ASSUME NEW i \in Items, step[i] \in SendSteps PROVE FALSE
  <2>1. IsPosted(i) /\ Flow[i] = Agent /\ notified[i] = 0
    BY <1>4 DEF Placed, Types, TasksPlaced, SendSteps
  <2>2. \A w \in Workers : ItemOf(w) = i => step[w] # "notify"
    BY <1>4, <2>1, Constants DEF ItemOf, Workers, Placed, AgentsPlaced, ResultSteps, SendSteps
  <2> QED
    BY <1>1, <2>1, <2>2, OpenItem
<1>5. ASSUME NEW w \in Workers, step[w] \in ResultSteps \ {"notify"} PROVE FALSE
  <2>1. /\ ItemOf(w) \in Items /\ IsPosted(ItemOf(w)) /\ notified[ItemOf(w)] = 0
        /\ \A v \in Workers : ItemOf(v) = ItemOf(w) /\ step[v] \in ResultSteps => v = w
    BY <1>5, ResultItem
  <2>2. \A v \in Workers : ItemOf(v) = ItemOf(w) => step[v] # "notify"
    BY <1>5, <2>1 DEF ResultSteps
  <2> QED
    BY <1>1, <2>1, <2>2, OpenItem
<1>6. \A a \in SqlAgents : step[a] \notin SendSteps
  BY DEF Placed, Types, AgentSteps, ResultSteps, SendSteps
<1> QED
  BY <1>2, <1>3, <1>4, <1>5, <1>6 DEF Idle, Workers

\* A task that is under way is in progress.
LEMMA BusyCounted ==
  ASSUME Placed, Counted, NEW w \in Workers, step[w] \in SendSteps \cup (ResultSteps \ {"notify"})
  PROVE  ~(inProgress <= 0)
BY ZeroIdle DEF Idle

-----------------------------------------------------------------------------
(***************************************************************************)
(* The inductive invariant.                                                *)
(***************************************************************************)
LEMMA InitIInv == Init => IInv
<1> SUFFICES ASSUME Init PROVE IInv
  OBVIOUS
<1> USE DEF Init
<1>1. Roots \subseteq Items /\ \A i \in Roots : Flow[i] = Agent /\ FileBytes[i] = 0 /\ MemBytes[i] = 0
  BY ItemsAssumption
<1>2. \A c : IsPosted(c) <=> c \in Roots
  BY DEF IsPosted
<1>3. \A w \in Workers : step[w] = IF w \in Items THEN "none" ELSE "receive"
  OBVIOUS
<1>4. Types
  <2>1. step \in [Workers -> ItemSteps \cup AgentSteps]
    BY DEF ItemSteps, AgentSteps
  <2>2. /\ \A i \in Items : step[i] \in ItemSteps
        /\ \A a \in SqlAgents : step[a] \in AgentSteps
    BY <1>3, Constants DEF Workers, ItemSteps, AgentSteps
  <2>3. \A i \in Items : sent[i] <= Len(Children[i])
    BY Constants
  <2> QED
    BY <1>1, <2>1, <2>2, <2>3 DEF Types
<1>5. TasksPlaced
  BY <1>3 DEF TasksPlaced, Charging, Workers
<1>6. QueuesPlaced
  BY <1>1, <1>2 DEF QueuesPlaced
<1>7. AgentsPlaced
  BY <1>3, Constants DEF AgentsPlaced, ResultSteps, Workers
<1>8. ASSUME NEW before, NEW after, Points(before, after)
      PROVE  Open(before, after) = Roots
  <2>1. \A w \in Workers : step[w] \notin before \cup after
    BY <1>3, <1>8 DEF Points, Charging
  <2>2. ASSUME NEW c \in Items PROVE ~Upcoming(c, before) /\ ~Past(c, after)
    <3>1. notified[c] # 1
      OBVIOUS
    <3> HIDE DEF Init
    <3> QED
      BY <2>1, <3>1 DEF Upcoming, Past, Workers
  <2> QED
    BY <1>1, <1>2, <2>2 DEF Open
<1>9. InProgress = Roots /\ FileOpen = Roots /\ MemOpen = Roots
  BY <1>8, CountedPoints DEF InProgress, FileOpen, MemOpen
<1>10. BytesOf(FileBytes, Roots) = {} /\ BytesOf(MemBytes, Roots) = {}
  BY <1>1 DEF BytesOf
<1>11. IsFiniteSet({}) /\ Cardinality({}) = 0
  BY FS_EmptySet
<1>12. fileCount = FileCapacity /\ memCount = MemCapacity
  BY DEF File!SemInit, Mem!SemInit
<1>13. Remaining(FileCapacity, FileBytes, Roots) = FileCapacity
  BY <1>10, <1>11, BudgetAssumption DEF Remaining
<1>14. Remaining(MemCapacity, MemBytes, Roots) = MemCapacity
  BY <1>10, <1>11, BudgetAssumption DEF Remaining
<1>15. Counted
  BY <1>9, <1>10, <1>11, <1>12, <1>13, <1>14 DEF Counted
<1>16. Ordered
  BY DEF Ordered
<1> QED
  BY <1>4, <1>5, <1>6, <1>7, <1>15, <1>16 DEF IInv, Placed
\* What the steps of the workers leave alone.
LEMMA WorkerOrder ==
  ASSUME NEW w \in Workers, WorkerStep(w) \/ SqlStep(w)
  PROVE  UNCHANGED <<completes, timer, agent>>
BY DEF WorkerStep, ChargeFile, ChargeMem, CountItem, PostItem, ItemOver, ReturnFile, ReturnMem, Discount,
       Notify, SemaphoreStep, SqlStep, SqlReceiveItem, SqlReceiveComplete, SqlDone, queueVars

LEMMA WorkerIInv ==
  ASSUME IInv, NEW w \in Workers, WorkerStep(w)
  PROVE  IInv'
<1>1. Placed /\ Counted /\ Ordered
  BY DEF IInv
<1>2. UNCHANGED <<completes, timer, agent>>
  BY WorkerOrder
<1>3. ASSUME step[w] \in SendSteps \cup (ResultSteps \ {"notify"}) PROVE Ordered'
  <2>1. ~(inProgress <= 0)
    BY <1>1, <1>3, BusyCounted
  <2>2. completes \in Nat /\ timer # "firing" /\ ~(completes > 0) /\ agent = "receive"
    BY <1>1, <2>1 DEF Ordered
  <2> QED
    BY <1>2, <2>2 DEF Ordered
<1>4. ASSUME w \in Items, ChargeFile(w) PROVE IInv'
  BY <1>1, <1>3, <1>4, ChargeFileStep DEF IInv, ChargeFile, SendSteps
<1>5. ASSUME w \in Items, ChargeMem(w) PROVE IInv'
  BY <1>1, <1>3, <1>5, ChargeMemStep DEF IInv, ChargeMem, SendSteps
<1>6. ASSUME w \in Items, CountItem(w) PROVE IInv'
  BY <1>1, <1>3, <1>6, CountItemStep DEF IInv, CountItem, SendSteps
<1>7. ASSUME w \in Items, PostItem(w) PROVE IInv'
  BY <1>1, <1>3, <1>7, PostItemStep DEF IInv, PostItem, SendSteps
<1>8. ASSUME w \in Items, ItemOver(w) PROVE IInv'
  <2>1. /\ step[w] = "send" /\ step' = [step EXCEPT ![w] = "result"]
        /\ UNCHANGED <<source, flowItems, item, sent, notified, inProgress, fileCount, memCount>>
    BY <1>8 DEF ItemOver, Goto, queueVars, fileVars, memVars
  <2>2. Placed'
    BY <1>1, <1>8, <2>1, MovePlaced DEF ResultSteps, Charging
  <2>3. step'[w] = "result" /\ \A v \in Workers : v # w => step'[v] = step[v]
    BY <1>1, <2>1, StepUnmoved
  <2>4. Counted'
    BY <1>1, <2>1, <2>3, QuietCounted
  <2> QED
    BY <1>3, <2>1, <2>2, <2>4 DEF IInv, SendSteps
<1>9. ASSUME ReturnFile(w) PROVE IInv'
  BY <1>1, <1>3, <1>9, ReturnFileStep DEF IInv, ReturnFile, ResultSteps
<1>10. ASSUME ReturnMem(w) PROVE IInv'
  BY <1>1, <1>3, <1>10, ReturnMemStep DEF IInv, ReturnMem, ResultSteps
<1>11. ASSUME Discount(w) PROVE IInv'
  BY <1>1, <1>3, <1>11, DiscountStep DEF IInv, Discount, ResultSteps
<1>12. ASSUME Notify(w) PROVE IInv'
  <2>1. step[w] = "notify" /\ inProgress' = inProgress /\ Placed' /\ Counted'
    BY <1>1, <1>12, NotifyStep DEF Notify
  <2>2. /\ w \in Items => step'[w] = "over"
        /\ \A v \in Workers : v # w => step'[v] = step[v]
    BY <1>1, <1>12, StepUnmoved DEF Notify, Goto
  <2>3. agent \in {"drain", "done"} => w \in Items
    BY <1>1, <2>1 DEF Ordered, Workers
  <2>4. Ordered'
    BY <1>1, <1>2, <2>1, <2>2, <2>3, Constants DEF Ordered, Workers
  <2> QED
    BY <2>1, <2>4 DEF IInv
<1>13. ASSUME SemaphoreStep(w) PROVE IInv'
  <2>1. /\ UNCHANGED <<source, flowItems, step, item, sent, inProgress, notified>>
        /\ UNCHANGED <<fileCount, memCount>>
    BY <1>13 DEF SemaphoreStep, queueVars, workVars, fileVars, memVars, File!SemStep, Mem!SemStep,
                 File!Enlist, File!Unblock, Mem!Enlist, Mem!Unblock
  <2>2. Placed'
    BY <1>1, <2>1, PlacedKept
  <2>3. Counted'
    BY <1>1, <2>1, QuietCounted
  <2>4. Ordered'
    BY <1>1, <1>2, <2>1 DEF Ordered
  <2> QED
    BY <2>2, <2>3, <2>4 DEF IInv
<1> QED
  BY <1>4, <1>5, <1>6, <1>7, <1>8, <1>9, <1>10, <1>11, <1>12, <1>13 DEF WorkerStep
LEMMA SqlIInv ==
  ASSUME IInv, NEW a \in SqlAgents, SqlStep(a)
  PROVE  IInv'
<1>1. Placed /\ Counted /\ Ordered /\ a \in Workers /\ a \notin Items
  BY Constants DEF IInv, Workers
<1>2. UNCHANGED <<completes, timer, agent, inProgress, sent, notified, fileCount, memCount>>
  BY DEF SqlStep, SqlReceiveItem, SqlReceiveComplete, SqlDone, queueVars, fileVars, memVars
<1>3. /\ step[a] \in {"receive", "drain"} /\ step'[a] \in {"receive", "drain", "result", "over"}
      /\ \A v \in Workers : v # a => step'[v] = step[v]
      /\ \A b \in SqlAgents : b # a => item'[b] = item[b]
  BY <1>1 DEF SqlStep, SqlReceiveItem, SqlReceiveComplete, SqlDone, Goto, Placed, Types
<1>4. Placed'
  <2>1. CASE SqlReceiveItem(a)
    BY <1>1, <2>1, ReceivePlaced
  <2>2. ASSUME NEW t \in {"drain", "over"}, step' = [step EXCEPT ![a] = t],
               UNCHANGED <<source, flowItems, item>>
        PROVE  Placed'
    BY <1>1, <1>2, <2>2, MovePlaced DEF AgentSteps, ResultSteps
  <2>3. CASE SqlReceiveComplete(a)
    BY <2>2, <2>3 DEF SqlReceiveComplete, Goto
  <2>4. CASE SqlDone(a)
    BY <2>2, <2>4 DEF SqlDone, Goto, queueVars
  <2> QED
    BY <2>1, <2>3, <2>4 DEF SqlStep
<1>5. Counted'
  <2>1. \A v \in Workers : v \in SqlAgents \/ v \in Items
    BY DEF Workers
  <2> QED
    BY <1>1, <1>2, <1>3, <2>1, QuietCounted
<1>6. Ordered'
  <2>1. agent \notin {"drain", "done"}
    BY <1>1, <1>3 DEF Ordered
  <2>2. \A i \in Items : step'[i] = step[i]
    BY <1>1, <1>3 DEF Workers
  <2> QED
    BY <1>1, <1>2, <2>1, <2>2 DEF Ordered
<1> QED
  BY <1>4, <1>5, <1>6 DEF IInv

LEMMA AgentIInv ==
  ASSUME IInv, AgentStep \/ TimerFires \/ TimerSends \/ UNCHANGED vars
  PROVE  IInv'
<1>1. Placed /\ Counted /\ Ordered
  BY DEF IInv
<1>2. UNCHANGED <<inProgress, item, sent, notified, flowItems, fileCount, memCount>>
  BY DEF AgentStep, AgentReceiveItem, AgentReceiveComplete, AgentWait, AgentComplete, AgentStopTimer,
         AgentJoin, AgentDone, TimerFires, TimerSends, vars, queueVars, workVars, fileVars, memVars
<1>3. CASE AgentReceiveItem
  <2>1. PICK i \in source : ImportOneItem(i)
    BY <1>3 DEF AgentReceiveItem
  <2>2. i \in Items /\ i \in Workers /\ step[i] = "none"
    BY <1>1 DEF Placed, Types, QueuesPlaced, TasksPlaced, Workers
  <2>3. Placed'
    BY <1>1, <1>2, <2>1, ImportPlaced
  <2>4. /\ \A v \in Workers : v # i => step'[v] = step[v]
        /\ step'[i] \in {"none", "send"}
    BY <1>1, <2>1, <2>2 DEF ImportOneItem, Goto, Placed, Types
  <2>5. Counted'
    BY <1>1, <1>2, <2>2, <2>4, QuietCounted
  <2>6. ~(inProgress <= 0)
    BY <1>1, ZeroIdle DEF Idle
  <2>7. completes \in Nat /\ timer # "firing" /\ ~(completes > 0) /\ agent = "receive"
    BY <1>1, <2>6 DEF Ordered
  <2>8. Ordered'
    BY <1>3, <2>7 DEF Ordered, AgentReceiveItem
  <2> QED
    BY <2>3, <2>5, <2>8 DEF IInv
<1>4. CASE \/ AgentReceiveComplete \/ AgentWait \/ AgentComplete \/ AgentStopTimer
           \/ AgentJoin \/ AgentDone \/ TimerFires \/ TimerSends \/ UNCHANGED vars
  <2>1. UNCHANGED <<source, step>>
    BY <1>4 DEF AgentReceiveComplete, AgentWait, AgentComplete, AgentStopTimer, AgentJoin, AgentDone,
                TimerFires, TimerSends, vars, queueVars, workVars
  <2>2. Placed' /\ Counted'
    BY <1>1, <1>2, <2>1, PlacedKept, QuietCounted
  <2>3. Ordered'
    <3>1. CASE AgentReceiveComplete
      BY <1>1, <1>2, <2>1, <3>1 DEF AgentReceiveComplete, Ordered
    <3>2. CASE AgentWait
      BY <1>1, <1>2, <2>1, <3>2 DEF AgentWait, queueVars, Ordered
    <3>3. CASE AgentComplete \/ AgentStopTimer \/ AgentJoin \/ AgentDone
      BY <1>1, <1>2, <2>1, <3>3
         DEF AgentComplete, AgentStopTimer, AgentJoin, AgentDone, queueVars, Ordered
    <3>4. CASE TimerFires \/ TimerSends
      BY <1>1, <1>2, <2>1, <3>4 DEF TimerFires, TimerSends, queueVars, Ordered
    <3>5. CASE UNCHANGED vars
      BY <1>1, <2>1, <3>5 DEF vars, queueVars, Ordered
    <3> QED
      BY <1>4, <3>1, <3>2, <3>3, <3>4, <3>5
  <2> QED
    BY <2>2, <2>3 DEF IInv
<1> QED
  BY <1>3, <1>4 DEF AgentStep

LEMMA Invariance == Spec => []IInv
<1>1. Init => IInv
  BY InitIInv
<1>2. IInv /\ [Next]_vars => IInv'
  <2> SUFFICES ASSUME IInv, [Next]_vars PROVE IInv'
    OBVIOUS
  <2>1. CASE \E w \in Workers : WorkerStep(w)
    BY <2>1, WorkerIInv
  <2>2. CASE \E a \in SqlAgents : SqlStep(a)
    BY <2>2, SqlIInv
  <2>3. CASE TimerFires \/ TimerSends \/ AgentStep \/ Finished \/ UNCHANGED vars
    BY <2>3, AgentIInv DEF Finished
  <2> QED
    BY <2>1, <2>2, <2>3 DEF Next
<1> QED
  BY <1>1, <1>2, PTL DEF Spec

-----------------------------------------------------------------------------
\* Whatever the tree of items and however their tasks are scheduled: when the timer finds no
\* item in progress, and ever after, no queue holds an item and nobody imports one.
THEOREM QueueEmptyIdle == Spec => []QueueEmptyMeansIdle
<1>1. IInv => QueueEmptyMeansIdle
  BY ZeroIdle DEF IInv, Ordered, QueueEmptyMeansIdle
<1> QED
  BY <1>1, Invariance, PTL

\* When the import agent is done, each item that was sent got one notification and the others
\* none, every task has ended, and both budgets are whole again.
THEOREM DoneReported == Spec => []DoneMeansReported
<1>1. IInv => DoneMeansReported
  <2> SUFFICES ASSUME IInv, agent = "done"
               PROVE  /\ \A i \in Items : notified[i] = IF i \in Posted THEN 1 ELSE 0
                      /\ \A i \in Items : step[i] \in {"none", "over"}
                      /\ fileCount = FileCapacity /\ memCount = MemCapacity
    BY DEF DoneMeansReported
  <2>1. /\ Placed /\ Counted /\ inProgress <= 0
        /\ \A i \in Items : step[i] \in {"none", "over"}
        /\ \A a \in SqlAgents : step[a] = "over"
    BY DEF IInv, Ordered
  <2>2. \A w \in Workers : step[w] \in {"none", "over"}
    BY <2>1 DEF Workers
  <2>3. \A i \in Items : i \in Posted <=> IsPosted(i)
    <3>1. \A j \in Items : sent[j] \in Nat /\ sent[j] <= Len(Children[j]) /\ Children[j] \in Seq(Items)
      BY <2>1, Constants DEF Placed, Types
    <3>2. \A j \in Items : \A n \in 1 .. sent[j] : n \in DOMAIN Children[j]
      BY <3>1
    <3> QED
      BY <3>2 DEF Posted, IsPosted
  <2>4. InProgress = {}
    <3>1. Cardinality(InProgress) \in Nat /\ Cardinality(InProgress) <= 0
      BY <2>1, InProgressFinite, FS_CardinalityType DEF Counted
    <3>2. Cardinality(InProgress) = 0
      BY <3>1
    <3> QED
      BY <3>2, InProgressFinite, FS_EmptySet
  <2>5. \A i \in Items : IsPosted(i) => notified[i] # 0
    BY <2>1, <2>2, <2>4, OpenItem
  <2>6. \A i \in Items : notified[i] = IF i \in Posted THEN 1 ELSE 0
    BY <2>1, <2>3, <2>5 DEF Placed, Types, TasksPlaced
  <2>7. ASSUME NEW before, NEW after, Points(before, after)
        PROVE  Open(before, after) = {}
    <3>1. ASSUME NEW c \in Items PROVE ~Upcoming(c, before)
      BY <2>2, <2>7 DEF Upcoming, Points, Charging, Workers
    <3>2. ASSUME NEW c \in Items, IsPosted(c) PROVE Past(c, after)
      BY <2>1, <2>5, <3>2 DEF Past, Placed, Types
    <3> QED
      BY <3>1, <3>2 DEF Open
  <2>8. FileOpen = {} /\ MemOpen = {}
    BY <2>7, CountedPoints DEF FileOpen, MemOpen
  <2>9. BytesOf(FileBytes, {}) = {} /\ BytesOf(MemBytes, {}) = {} /\ Cardinality({}) = 0
    BY FS_EmptySet DEF BytesOf
  <2>10. fileCount = FileCapacity /\ memCount = MemCapacity
    BY <2>1, <2>8, <2>9, BudgetAssumption DEF Counted, Remaining
  <2> QED
    BY <2>1, <2>6, <2>10
<1> QED
  BY <1>1, Invariance, PTL
=============================================================================
