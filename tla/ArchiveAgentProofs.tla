-------------------------- MODULE ArchiveAgentProofs -------------------------
(***************************************************************************)
(* Lemmas about the archive agent and what it is made of, for the modules  *)
(* that compose it: the lists of handlers and of pending removals, the     *)
(* compressor, and what a step of the agent does, whichever request it     *)
(* serves.                                                                 *)
(***************************************************************************)
EXTENDS ArchiveAgent, FiniteSetTheorems, SequenceTheorems, TLAPS

(***************************************************************************)
(* Lists.  Induction over a range of numbers is had from the pigeonhole    *)
(* principle: a set that has 0 and is closed under successors below n, but *)
(* has not n, would give an injection of 0..n into 1..n.                   *)
(***************************************************************************)
LEMMA SetInduction ==
  ASSUME NEW n \in Nat, NEW T, 0 \in T,
         \A k \in 0..n - 1 : k \in T => k + 1 \in T
  PROVE  n \in T
<1> SUFFICES ASSUME n \notin T PROVE FALSE
  OBVIOUS
<1> DEFINE f == [k \in 0..n |-> IF k \in T THEN k + 1 ELSE k]
<1>1. f \in [0..n -> 1..n]
  <2>1. \A k \in 0..n : (IF k \in T THEN k + 1 ELSE k) \in 1..n
    OBVIOUS
  <2> QED
    BY <2>1
<1>2. \A k, j \in 0..n : k # j => f[k] # f[j]
  OBVIOUS
<1> HIDE DEF f
<1>3. /\ IsFiniteSet(0..n) /\ Cardinality(0..n) = n + 1
      /\ IsFiniteSet(1..n) /\ Cardinality(1..n) = n
  <2>1. IsFiniteSet(0..n) /\ Cardinality(0..n) = IF 0 > n THEN 0 ELSE n - 0 + 1
    BY FS_Interval
  <2>2. IsFiniteSet(1..n) /\ Cardinality(1..n) = IF 1 > n THEN 0 ELSE n - 1 + 1
    BY FS_Interval
  <2> QED
    BY <2>1, <2>2
<1>4. Cardinality(1..n) < Cardinality(0..n)
  BY <1>3
<1>5. \E k, j \in 0..n : k # j /\ f[k] = f[j]
  BY <1>1, <1>3, <1>4, FS_PigeonHole
<1> QED
  BY <1>2, <1>5

\* A set of numbers has a least one.
LEMMA Smallest ==
  ASSUME NEW S \in SUBSET Nat, S # {}
  PROVE  \E n \in S : \A k \in S : n <= k
<1> SUFFICES ASSUME \A n \in S : \E k \in S : k < n PROVE FALSE
  OBVIOUS
<1>1. PICK m \in S : TRUE
  OBVIOUS
<1> DEFINE T == {k \in 0..m : \A j \in S : k <= j}
<1>2. 0 \in T /\ \A k \in 0..m - 1 : k \in T => k + 1 \in T
  OBVIOUS
<1> HIDE DEF T
<1>3. m \in T
  BY <1>2, SetInduction
<1> QED
  BY <1>3 DEF T

\* f gives, for each n, the elements of list[1..n] that are in S.
IsOnly(f, n, list, S) ==
  f = [i \in 0..n |-> IF i = 0 THEN <<>>
                      ELSE IF list[i] \in S THEN Append(f[i - 1], list[i]) ELSE f[i - 1]]

LEMMA OnlyUnfold ==
  ASSUME NEW list, NEW S
  PROVE Only(list, S) = (CHOOSE f : IsOnly(f, Len(list), list, S))[Len(list)]
BY DEF Only, IsOnly

LEMMA OnlyExists ==
  ASSUME NEW U, NEW list \in Seq(U), NEW S
  PROVE  \E f \in [0..Len(list) -> Seq(U \cap S)] : IsOnly(f, Len(list), list, S)
<1> DEFINE T == {n \in 0..Len(list) : \E f \in [0..n -> Seq(U \cap S)] : IsOnly(f, n, list, S)}
<1>1. 0 \in T
  <2> DEFINE f == [i \in 0..0 |-> <<>>]
  <2>1. f \in [0..0 -> Seq(U \cap S)] /\ \A i \in 0..0 : i = 0
    OBVIOUS
  <2>2. IsOnly(f, 0, list, S)
    BY <2>1 DEF IsOnly
  <2> QED
    BY <2>1, <2>2
<1>2. ASSUME NEW k \in 0..Len(list) - 1, k \in T PROVE k + 1 \in T
  <2>1. PICK f \in [0..k -> Seq(U \cap S)] : IsOnly(f, k, list, S)
    BY <1>2
  <2>2. list[k + 1] \in U /\ k + 1 \in 1..Len(list)
    OBVIOUS
  <2> DEFINE Next(s) == IF list[k + 1] \in S THEN Append(s, list[k + 1]) ELSE s
             g == [i \in 0..k + 1 |-> IF i = k + 1 THEN Next(f[k]) ELSE f[i]]
  <2>3. Next(f[k]) \in Seq(U \cap S)
    BY <2>2
  <2>4. g \in [0..k + 1 -> Seq(U \cap S)]
    BY <2>3
  <2>5. \A i \in 0..k : f[i] = IF i = 0 THEN <<>>
                      ELSE IF list[i] \in S THEN Append(f[i - 1], list[i]) ELSE f[i - 1]
    BY <2>1 DEF IsOnly
  <2>6. ASSUME NEW i \in 0..k + 1
        PROVE  g[i] = IF i = 0 THEN <<>>
                      ELSE IF list[i] \in S THEN Append(g[i - 1], list[i]) ELSE g[i - 1]
    <3>1. CASE i = k + 1
      BY <3>1
    <3>2. CASE i # k + 1
      <4>1. i \in 0..k /\ g[i] = f[i] /\ (i # 0 => i - 1 \in 0..k /\ g[i - 1] = f[i - 1])
        BY <3>2
      <4> HIDE DEF g
      <4> QED
        BY <2>5, <4>1
    <3> QED
      BY <3>1, <3>2
  <2>7. IsOnly(g, k + 1, list, S)
    BY <2>4, <2>6 DEF IsOnly
  <2> HIDE DEF g
  <2>8. k + 1 \in 0..Len(list)
    BY <2>2
  <2> QED
    BY <2>8, <2>4, <2>7
<1> HIDE DEF T
<1>3. Len(list) \in T
  <2>1. \A k \in 0..Len(list) - 1 : k \in T => k + 1 \in T
    BY <1>2
  <2> QED
    BY <1>1, <2>1, SetInduction
<1> QED
  BY <1>3 DEF T

\* The list is built element by element.
Builds(f, list, S) ==
  /\ Only(list, S) = f[Len(list)] /\ f[0] = <<>>
  /\ \A k \in 0..Len(list) - 1 :
       f[k + 1] = IF list[k + 1] \in S THEN Append(f[k], list[k + 1]) ELSE f[k]

LEMMA OnlySteps ==
  ASSUME NEW U, NEW list \in Seq(U), NEW S
  PROVE  \E f : Builds(f, list, S)
<1> DEFINE n == Len(list)
           f == CHOOSE g : IsOnly(g, n, list, S)
<1>1. Only(list, S) = f[n]
  BY OnlyUnfold
<1>2. IsOnly(f, n, list, S)
  <2>1. \E g : IsOnly(g, n, list, S)
    BY OnlyExists
  <2> QED
    BY <2>1
<1> HIDE DEF f
<1>3. f = [i \in 0..n |-> IF i = 0 THEN <<>>
                          ELSE IF list[i] \in S THEN Append(f[i - 1], list[i]) ELSE f[i - 1]]
  BY <1>2 DEF IsOnly
<1>4. f[0] = <<>> /\ \A k \in 0..n - 1 : f[k + 1] = IF list[k + 1] \in S THEN Append(f[k], list[k + 1])
                                                  ELSE f[k]
  <2>1. n \in Nat
    OBVIOUS
  <2>2. \A i \in 0..n : f[i] = IF i = 0 THEN <<>>
                               ELSE IF list[i] \in S THEN Append(f[i - 1], list[i]) ELSE f[i - 1]
    BY <1>3
  <2>3. f[0] = <<>>
    BY <2>1, <2>2
  <2>4. ASSUME NEW k \in 0..n - 1
        PROVE  f[k + 1] = IF list[k + 1] \in S THEN Append(f[k], list[k + 1]) ELSE f[k]
    <3>1. k + 1 \in 0..n /\ k + 1 # 0 /\ k + 1 - 1 = k
      BY <2>1
    <3>2. PICK j : j = k + 1
      OBVIOUS
    <3>3. j \in 0..n /\ j # 0 /\ j - 1 = k
      BY <3>1, <3>2
    <3>4. f[j] = IF list[j] \in S THEN Append(f[j - 1], list[j]) ELSE f[j - 1]
      BY <2>2, <3>3
    <3> QED
      BY <3>2, <3>3, <3>4
  <2> QED
    BY <2>3, <2>4
<1>5. Builds(f, list, S)
  BY <1>1, <1>4 DEF Builds
<1> QED
  BY <1>5

\* Only the elements in S, and all of them.
LEMMA OnlyElements ==
  ASSUME NEW U, NEW list \in Seq(U), NEW S
  PROVE  /\ Only(list, S) \in Seq(U \cap S)
         /\ \A n \in DOMAIN list : list[n] \in S =>
              \E m \in DOMAIN Only(list, S) : Only(list, S)[m] = list[n]
<1> DEFINE n == Len(list)
<1>0. PICK f : Builds(f, list, S)
  BY OnlySteps
<1>4. /\ Only(list, S) = f[n] /\ f[0] = <<>>
      /\ \A k \in 0..n - 1 :
           f[k + 1] = IF list[k + 1] \in S THEN Append(f[k], list[k + 1]) ELSE f[k]
  BY <1>0 DEF Builds
<1> DEFINE T == {k \in 0..n : /\ f[k] \in Seq(U \cap S)
                              /\ \A i \in 1..k : list[i] \in S => \E m \in DOMAIN f[k] : f[k][m] = list[i]}
<1>5. 0 \in T
  <2>1. f[0] = <<>> /\ 0 \in 0..n /\ \A i \in 1..0 : FALSE
    BY <1>4
  <2>2. f[0] \in Seq(U \cap S)
    BY <2>1
  <2> QED
    BY <2>1, <2>2
<1>6. ASSUME NEW k \in 0..n - 1, k \in T PROVE k + 1 \in T
  <2>1. /\ f[k] \in Seq(U \cap S) /\ k + 1 \in 0..n /\ list[k + 1] \in U
        /\ \A i \in 1..k : list[i] \in S => \E m \in DOMAIN f[k] : f[k][m] = list[i]
    BY <1>6
  <2>2. CASE list[k + 1] \in S
    <3>0. PICK old, new : old = f[k] /\ new = f[k + 1]
      OBVIOUS
    <3>1. f[k + 1] = Append(f[k], list[k + 1])
      BY <1>4, <2>2
    <3>4. /\ old \in Seq(U \cap S) /\ new = Append(old, list[k + 1])
          /\ Len(old) + 1 \in DOMAIN new /\ new[Len(old) + 1] = list[k + 1]
          /\ \A m \in DOMAIN old : m \in DOMAIN new /\ new[m] = old[m]
      BY <2>1, <2>2, <3>0, <3>1
    <3>2. f[k + 1] \in Seq(U \cap S)
      BY <2>1, <2>2, <3>1
    <3>3. ASSUME NEW i \in 1..k + 1, list[i] \in S
          PROVE  \E m \in DOMAIN f[k + 1] : f[k + 1][m] = list[i]
      <4>1. CASE i = k + 1
        BY <3>0, <3>4, <4>1
      <4>2. CASE i # k + 1
        <5>1. i \in 1..k
          BY <4>2
        <5>2. PICK m \in DOMAIN old : old[m] = list[i]
          BY <2>1, <3>0, <3>3, <5>1
        <5> QED
          BY <3>0, <3>4, <5>2
      <4> QED
        BY <4>1, <4>2
    <3> QED
      BY <2>1, <3>2, <3>3
  <2>3. CASE list[k + 1] \notin S
    <3>1. f[k + 1] = f[k]
      BY <1>4, <2>3
    <3>2. \A i \in 1..k + 1 : list[i] \in S => i \in 1..k
      BY <2>3
    <3> QED
      BY <2>1, <3>1, <3>2
  <2> QED
    BY <2>2, <2>3
<1> HIDE DEF T
<1>7. n \in T
  <2>1. n \in Nat /\ \A k \in 0..n - 1 : k \in T => k + 1 \in T
    BY <1>6
  <2> QED
    BY <1>5, <2>1, SetInduction
<1> QED
  BY <1>4, <1>7 DEF T

\* The handlers of a list are called by priority.
Sorted(list) == \A i, j \in DOMAIN list : i < j => Priority[list[i]] >= Priority[list[j]]

SortedFrom(part, k, list) ==
  /\ part \in Seq(Handlers) /\ Sorted(part)
  /\ \A i \in DOMAIN part : \E a \in 1..k : part[i] = list[a]

LEMMA OnlySorted ==
  ASSUME NEW list \in Seq(Handlers), NEW S, Sorted(list)
  PROVE  Sorted(Only(list, S))
<1> DEFINE n == Len(list)
<1>0. PICK f : Builds(f, list, S)
  BY OnlySteps
<1>1. /\ Only(list, S) = f[n] /\ f[0] = <<>>
      /\ \A k \in 0..n - 1 :
           f[k + 1] = IF list[k + 1] \in S THEN Append(f[k], list[k + 1]) ELSE f[k]
  BY <1>0 DEF Builds
<1> DEFINE T == {k \in 0..n : SortedFrom(f[k], k, list)}
<1>2. 0 \in T
  <2>1. PICK e : e = f[0]
    OBVIOUS
  <2>2. e \in Seq(Handlers) /\ Sorted(e) /\ \A i \in DOMAIN e : FALSE
    BY <1>1, <2>1 DEF Sorted
  <2>3. 0 \in 0..n
    OBVIOUS
  <2>4. SortedFrom(e, 0, list)
    BY <2>2 DEF SortedFrom
  <2> QED
    BY <2>1, <2>3, <2>4
<1>3. ASSUME NEW k \in 0..n - 1, k \in T PROVE k + 1 \in T
  <2>1. PICK old, new, x : old = f[k] /\ new = f[k + 1] /\ x = list[k + 1]
    OBVIOUS
  <2>2. /\ old \in Seq(Handlers) /\ Sorted(old) /\ k + 1 \in 1..n /\ x \in Handlers
        /\ \A i \in DOMAIN old : \E a \in 1..k : old[i] = list[a]
    <3>1. SortedFrom(old, k, list)
      BY <1>3, <2>1
    <3> QED
      BY <2>1, <3>1 DEF SortedFrom
  <2>5. PICK m \in Nat : m = Len(old) /\ DOMAIN old = 1..m
    BY <2>2
  <2>3. ASSUME x \in S PROVE SortedFrom(new, k + 1, list)
    <3>1. new = Append(old, x)
      BY <1>1, <2>1, <2>3
    <3>2. /\ new \in Seq(Handlers) /\ DOMAIN new = 1..m + 1 /\ new[m + 1] = x
          /\ \A i \in 1..m : new[i] = old[i]
      BY <2>2, <2>5, <3>1
    <3>3. \A i \in DOMAIN new : \E a \in 1..k + 1 : new[i] = list[a]
      <4> SUFFICES ASSUME NEW i \in DOMAIN new PROVE \E a \in 1..k + 1 : new[i] = list[a]
        OBVIOUS
      <4>1. CASE i \in DOMAIN old
        <5>1. PICK a \in 1..k : old[i] = list[a]
          BY <2>2, <4>1
        <5> QED
          BY <2>5, <3>2, <4>1, <5>1
      <4>2. CASE i = m + 1
        BY <2>1, <3>2, <4>2
      <4> QED
        BY <2>5, <3>2, <4>1, <4>2
    <3>4. Sorted(new)
      <4> SUFFICES ASSUME NEW i \in DOMAIN new, NEW j \in DOMAIN new, i < j
                   PROVE  Priority[new[i]] >= Priority[new[j]]
        BY DEF Sorted
      <4>1. i \in DOMAIN old /\ new[i] = old[i]
        BY <2>5, <3>2
      <4>2. CASE j \in DOMAIN old
        BY <2>2, <2>5, <3>2, <4>1, <4>2 DEF Sorted
      <4>3. CASE j = m + 1
        <5>1. PICK a \in 1..k : old[i] = list[a]
          BY <2>2, <4>1
        <5>2. Priority[list[a]] >= Priority[list[k + 1]]
          BY <2>2, <5>1 DEF Sorted
        <5> QED
          BY <2>1, <3>2, <4>1, <4>3, <5>1, <5>2
      <4> QED
        BY <2>5, <3>2, <4>2, <4>3
    <3> QED
      BY <3>2, <3>3, <3>4 DEF SortedFrom
  <2>4. ASSUME x \notin S PROVE SortedFrom(new, k + 1, list)
    <3>1. new = old
      BY <1>1, <2>1, <2>4
    <3>2. \A i \in DOMAIN old : \E a \in 1..k + 1 : old[i] = list[a]
      <4>1. \A a \in 1..k : a \in 1..k + 1
        BY <2>2
      <4> QED
        BY <2>2, <4>1
    <3> QED
      BY <2>2, <3>1, <3>2 DEF SortedFrom
  <2>6. SortedFrom(new, k + 1, list)
    BY <2>3, <2>4
  <2>7. k + 1 \in 0..n
    BY <2>2
  <2> QED
    BY <2>1, <2>6, <2>7
<1> HIDE DEF T
<1>4. n \in T
  <2>1. n \in Nat /\ \A k \in 0..n - 1 : k \in T => k + 1 \in T
    BY <1>3
  <2> QED
    BY <1>2, <2>1, SetInduction
<1> QED
  BY <1>1, <1>4 DEF T, SortedFrom

\* The elements of a list.
In(x, list) == \E n \in DOMAIN list : list[n] = x

LEMMA OnlyIn ==
  ASSUME NEW U, NEW list \in Seq(U), NEW S
  PROVE  Only(list, S) \in Seq(U) /\ \A x : In(x, Only(list, S)) <=> In(x, list) /\ x \in S
<1>1. /\ Only(list, S) \in Seq(U \cap S)
      /\ \A n \in DOMAIN list : list[n] \in S =>
           \E m \in DOMAIN Only(list, S) : Only(list, S)[m] = list[n]
  BY OnlyElements
<1>2. \A m \in DOMAIN Only(list, S) : Only(list, S)[m] \in S
  BY <1>1
<1>3. Only(list, S) \in Seq(U)
  BY <1>1
<1>4. \A m \in DOMAIN Only(list, S) : \E n \in DOMAIN list : list[n] = Only(list, S)[m]
  <2> DEFINE L == {list[n] : n \in DOMAIN list}
  <2>1. list \in Seq(L)
    OBVIOUS
  <2>2. Only(list, S) \in Seq(L \cap S)
    BY <2>1, OnlyElements
  <2> QED
    BY <2>2
<1> QED
  BY <1>1, <1>2, <1>3, <1>4 DEF In

LEMMA ConcatIn ==
  ASSUME NEW U, NEW a \in Seq(U), NEW b \in Seq(U)
  PROVE  a \o b \in Seq(U) /\ \A x : In(x, a \o b) <=> In(x, a) \/ In(x, b)
<1>1. a \o b \in Seq(U) /\ Len(a \o b) = Len(a) + Len(b)
  OBVIOUS
<1>2. \A n \in DOMAIN a : n \in DOMAIN (a \o b) /\ (a \o b)[n] = a[n]
  OBVIOUS
<1>3. \A n \in DOMAIN b : n + Len(a) \in DOMAIN (a \o b) /\ (a \o b)[n + Len(a)] = b[n]
  OBVIOUS
<1>4. \A n \in DOMAIN (a \o b) : \/ n \in DOMAIN a /\ (a \o b)[n] = a[n]
                                 \/ n - Len(a) \in DOMAIN b /\ (a \o b)[n] = b[n - Len(a)]
  OBVIOUS
<1> QED
  BY <1>1, <1>2, <1>3, <1>4 DEF In

\* The lists of handlers.
LEMMA WithIn ==
  ASSUME NEW list \in Seq(Handlers), NEW h \in Handlers
  PROVE  With(list, h) \in Seq(Handlers) /\ \A x : In(x, With(list, h)) <=> In(x, list) \/ x = h
<1> DEFINE A == {g \in Handlers : Priority[g] >= Priority[h]}
           B == {g \in Handlers : Priority[g] < Priority[h]}
           a == Only(list, A)
           b == Only(list, B)
<1>1. a \in Seq(Handlers) /\ \A x : In(x, a) <=> In(x, list) /\ x \in A
  BY OnlyIn
<1>2. b \in Seq(Handlers) /\ \A x : In(x, b) <=> In(x, list) /\ x \in B
  BY OnlyIn
<1>3. \A g \in Handlers : g \in A \/ g \in B
  BY RobustnessAssumption
<1>4. \A x : In(x, list) => x \in Handlers
  BY DEF In
<1>5. With(list, h) = a \o <<h>> \o b
  BY DEF With
<1> HIDE DEF a, b, A, B
<1>6. a \o <<h>> \o b \in Seq(Handlers)
      /\ \A x : In(x, a \o <<h>> \o b) <=> In(x, a) \/ x = h \/ In(x, b)
  <2>1. <<h>> \in Seq(Handlers) /\ \A x : In(x, <<h>>) <=> x = h
    BY DEF In
  <2>2. a \o <<h>> \in Seq(Handlers) /\ \A x : In(x, a \o <<h>>) <=> In(x, a) \/ x = h
    BY <1>1, <2>1, ConcatIn
  <2>3. /\ (a \o <<h>>) \o b \in Seq(Handlers)
        /\ \A x : In(x, (a \o <<h>>) \o b) <=> In(x, a \o <<h>>) \/ In(x, b)
    BY <1>2, <2>2, ConcatIn
  <2> QED
    BY <2>2, <2>3
<1> QED
  BY <1>1, <1>2, <1>3, <1>4, <1>5, <1>6

LEMMA WithoutIn ==
  ASSUME NEW list \in Seq(Handlers), NEW gone
  PROVE  /\ Without(list, gone) \in Seq(Handlers)
         /\ \A x : In(x, Without(list, gone)) <=> In(x, list) /\ x \notin gone
<1>1. \A x : In(x, list) => x \in Handlers
  BY DEF In
<1> QED
  BY <1>1, OnlyIn DEF Without

-----------------------------------------------------------------------------
(***************************************************************************)
(* The compressor.                                                         *)
(***************************************************************************)
\* What holds of a compressor: only items it has taken have an Index, and the archives hold
\* only items that have one.
Indexed(z) == z \in Compressors /\ z.indexed \subseteq z.items /\ Content(z) \subseteq z.indexed

\* The archive itself is not begun before Complete.
Begun(z) == z.closed \/ z.output # {}

\* The compressor that could not make its file.
Unready == [NewCompressor EXCEPT !.ready = FALSE]

\* What was taken: in the queue or in m_Items.
Taken(z) == z.items \cup z.queue

LEMMA NewZip ==
  /\ Indexed(NewCompressor) /\ ~Begun(NewCompressor)
  /\ NewCompressor.items = {} /\ NewCompressor.queue = {} /\ NewCompressor.indexed = {}
  /\ NewCompressor.temp = NoTemp /\ NewCompressor.ready
BY DEF Indexed, Begun, NewCompressor, Compressors, Content, NoTemp

LEMMA UnreadyZip ==
  /\ Unready \in Compressors /\ Indexed(Unready) /\ ~Begun(Unready)
  /\ Unready.items = {} /\ Unready.queue = {} /\ Unready.indexed = {}
  /\ Unready.temp = NoTemp
BY DEF Unready, Indexed, Begun, NewCompressor, Compressors, Content, NoTemp

LEMMA QueuedZip ==
  ASSUME NEW z \in Compressors, NEW S \in SUBSET Items
  PROVE  LET q == [z EXCEPT !.queue = @ \cup S]
         IN /\ q \in Compressors /\ q.queue = z.queue \cup S
            /\ q.items = z.items /\ q.indexed = z.indexed /\ q.temp = z.temp
            /\ q.output = z.output /\ q.closed = z.closed /\ Content(q) = Content(z)
            /\ q.ready = z.ready /\ q.torn = z.torn
BY DEF Compressors, Content

LEMMA UpdatedZip ==
  ASSUME NEW z \in Compressors, NEW final \in BOOLEAN, NEW new \in SUBSET Items
  PROVE  LET u == Updated(z, final, new)
         IN /\ u \in Compressors
            /\ u.items = z.indexed \cup new /\ u.indexed = z.indexed \cup new
            /\ u.queue = Taken(z) \ (z.indexed \cup new)
            /\ final => u.temp = NoTemp /\ u.output = z.indexed \cup new
            /\ ~final => u.temp = <<z.indexed \cup new>> /\ u.output = z.output
            /\ u.closed = z.closed /\ u.torn = z.torn
BY DEF Compressors, Updated, Taken

LEMMA UpdateFailedZip ==
  ASSUME NEW z \in Compressors, NEW final \in BOOLEAN, NEW new \in SUBSET Items
  PROVE  LET u == UpdateFailed(z, final, new)
         IN /\ u \in Compressors
            /\ u.items = Taken(z) /\ u.indexed = z.indexed \cup new /\ u.queue = {}
            /\ u.temp = z.temp /\ u.output = IF final THEN {} ELSE z.output
            /\ u.closed = z.closed /\ u.torn = z.torn \cup (Taken(z) \ z.indexed)
BY DEF Compressors, UpdateFailed, Taken, Unwritten

\* What a flush may return.
LEMMA FlushCases ==
  ASSUME NEW z \in Compressors, NEW final \in BOOLEAN, NEW r \in Flushes(z, final)
  PROVE  \/ r = Result(z, "ok") /\ z.queue = {}
         \/ r = Result(z, "fail")
         \/ r = Result(z, "crash") /\ z.items # {} /\ z.temp = NoTemp
         \/ /\ z.indexed \subseteq Base(z)
            /\ \E new \in SUBSET (Taken(z) \ z.indexed) : r = Result(Updated(z, final, new), "ok")
         \/ \E new \in SUBSET (Taken(z) \ z.indexed), hr \in {"fail", "false"} :
              r = Result(UpdateFailed(z, final, new), hr)
<1>1. CASE r \in Updates(z, final)
  <2>1. CASE /\ z.indexed \subseteq Base(z)
             /\ r \in {Result(Updated(z, final, new), "ok") : new \in Archivable(Unwritten(z))}
    BY <2>1 DEF Archivable, Unwritten, Taken
  <2>2. CASE r = Result(UpdateFailed(z, final, {}), "fail")
    BY <2>2
  <2>3. CASE r \in {Result(UpdateFailed(z, final, new), hr) :
                      new \in SUBSET Unwritten(z), hr \in {"fail", "false"}}
    BY <2>3 DEF Unwritten, Taken
  <2> QED
    BY <1>1, <2>1, <2>2, <2>3 DEF Updates
<1>2. CASE r \notin Updates(z, final)
  BY <1>2 DEF Flushes
<1> QED
  BY <1>1, <1>2

\* A flush gives more items their Index, and its archive holds what the last one held.
LEMMA FlushZip ==
  ASSUME NEW z, Indexed(z), ~Begun(z), NEW final \in BOOLEAN, NEW r \in Flushes(z, final)
  PROVE  /\ Indexed(r.zip) /\ ~r.zip.closed /\ (~final => ~Begun(r.zip))
         /\ z.indexed \subseteq r.zip.indexed /\ Taken(r.zip) \subseteq Taken(z)
         /\ Content(z) \subseteq Content(r.zip)
         /\ r.zip.temp # NoTemp => r.zip.output = {}
         /\ r.hr \in {"ok", "fail", "false", "crash"} /\ (r.hr = "crash" => r.zip = z)
<1>1. z \in Compressors /\ z.indexed \subseteq z.items /\ Content(z) \subseteq z.indexed
      /\ z.output = {} /\ ~z.closed
  BY DEF Indexed, Begun
<1>2. ASSUME NEW hr \in {"ok", "fail", "crash"}, r = Result(z, hr) PROVE r.zip = z /\ r.hr = hr
  BY <1>2 DEF Result
<1>3. CASE \E hr \in {"ok", "fail", "crash"} : r = Result(z, hr)
  BY <1>1, <1>2, <1>3 DEF Indexed, Begun
<1>4. ASSUME NEW new \in SUBSET (Taken(z) \ z.indexed) PROVE new \in SUBSET Items
  BY <1>1 DEF Compressors, Taken
<1>5. CASE \E new \in SUBSET (Taken(z) \ z.indexed) : r = Result(Updated(z, final, new), "ok")
  <2>1. PICK new \in SUBSET (Taken(z) \ z.indexed) : r = Result(Updated(z, final, new), "ok")
    BY <1>5
  <2> DEFINE u == Updated(z, final, new)
  <2>2. r.zip = u /\ r.hr = "ok"
    BY <2>1 DEF Result
  <2>3. /\ u \in Compressors
        /\ u.items = z.indexed \cup new /\ u.indexed = z.indexed \cup new
        /\ u.queue = Taken(z) \ (z.indexed \cup new)
        /\ final => u.temp = NoTemp /\ u.output = z.indexed \cup new
        /\ ~final => u.temp = <<z.indexed \cup new>> /\ u.output = z.output
        /\ u.closed = z.closed
    <3>1. new \in SUBSET Items
      BY <1>4
    <3> QED
      BY <1>1, <3>1, UpdatedZip
  <2> HIDE DEF u
  <2>4. Content(u) = z.indexed \cup new
    BY <1>1, <2>3 DEF Content, NoTemp
  <2>5. Taken(u) \subseteq Taken(z)
    BY <1>1, <2>3 DEF Taken
  <2> QED
    BY <1>1, <2>2, <2>3, <2>4, <2>5 DEF Indexed, Begun
<1>6. CASE \E new \in SUBSET (Taken(z) \ z.indexed), hr \in {"fail", "false"} :
             r = Result(UpdateFailed(z, final, new), hr)
  <2>1. PICK new \in SUBSET (Taken(z) \ z.indexed), hr \in {"fail", "false"} :
          r = Result(UpdateFailed(z, final, new), hr)
    BY <1>6
  <2>2. r.zip = UpdateFailed(z, final, new) /\ r.hr \in {"fail", "false"}
    BY <2>1 DEF Result
  <2>3. /\ r.zip \in Compressors
        /\ r.zip.items = Taken(z) /\ r.zip.indexed = z.indexed \cup new /\ r.zip.queue = {}
        /\ r.zip.temp = z.temp /\ r.zip.output = {} /\ r.zip.closed = z.closed
    BY <1>1, <1>4, <2>2, UpdateFailedZip
  <2>4. Content(r.zip) = Content(z)
    BY <1>1, <2>3 DEF Content
  <2>5. Taken(r.zip) = Taken(z) /\ r.zip.indexed \subseteq r.zip.items
    BY <1>1, <2>3 DEF Taken
  <2> QED
    BY <1>1, <2>2, <2>3, <2>4, <2>5 DEF Indexed, Begun
<1> QED
  BY <1>1, <1>3, <1>5, <1>6, FlushCases
\* Between two flushes: m_Items has no item without an Index, and the last temporary archive
\* holds those that have one, apart from those that an UpdateItems which failed was to write.
Kept(z) ==
  /\ z.items \subseteq z.indexed \cup z.torn
  /\ z.temp = NoTemp => z.indexed \subseteq z.torn
  /\ z.temp # NoTemp => z.indexed \subseteq z.temp[1] \cup z.torn

\* The archives hold m_Items, and the archive itself when it is closed, apart from those.
Whole(z) ==
  /\ z.items \subseteq z.indexed \cup z.torn /\ z.indexed \subseteq Content(z) \cup z.torn
  /\ z.closed => z.indexed \subseteq z.output \cup z.torn

LEMMA KeptWhole ==
  ASSUME NEW z, Indexed(z), ~Begun(z), Kept(z)
  PROVE  Whole(z)
BY DEF Indexed, Begun, Kept, Whole, Content

\* A flush leaves nothing out but what it tears.
LEMMA FlushKept ==
  ASSUME NEW z, Indexed(z), ~Begun(z), Kept(z), NEW final \in BOOLEAN, NEW r \in Flushes(z, final)
  PROVE  /\ Whole(r.zip) /\ (~final => Kept(r.zip))
         /\ Taken(r.zip) = Taken(z) /\ z.torn \subseteq r.zip.torn
         /\ r.hr \in {"ok", "false"} /\ r.zip.temp = NoTemp =>
              r.zip.indexed \subseteq r.zip.output \cup r.zip.torn
         /\ r.zip.temp # NoTemp => r.zip.indexed \subseteq r.zip.temp[1] \cup r.zip.torn
<1>1. /\ z \in Compressors /\ z.output = {} /\ ~z.closed
      /\ z.items \subseteq z.indexed \cup z.torn
      /\ z.temp = NoTemp => z.indexed \subseteq z.torn
      /\ z.temp # NoTemp => z.indexed \subseteq z.temp[1] \cup z.torn
  BY DEF Indexed, Begun, Kept
<1>2. \A new \in SUBSET (Taken(z) \ z.indexed) : new \in SUBSET Items
  BY <1>1 DEF Compressors, Taken
<1>3. CASE \E hr \in {"ok", "fail", "crash"} : r = Result(z, hr)
  <2>1. r.zip = z
    BY <1>3 DEF Result
  <2> QED
    BY <1>1, <2>1, KeptWhole
<1>4. CASE /\ z.indexed \subseteq Base(z)
           /\ \E new \in SUBSET (Taken(z) \ z.indexed) : r = Result(Updated(z, final, new), "ok")
  <2>1. PICK new \in SUBSET (Taken(z) \ z.indexed) : r = Result(Updated(z, final, new), "ok")
    BY <1>4
  <2> DEFINE u == Updated(z, final, new)
  <2>2. r.zip = u /\ r.hr = "ok"
    BY <2>1 DEF Result
  <2>3. /\ u \in Compressors
        /\ u.items = z.indexed \cup new /\ u.indexed = z.indexed \cup new
        /\ u.queue = Taken(z) \ (z.indexed \cup new)
        /\ final => u.temp = NoTemp /\ u.output = z.indexed \cup new
        /\ ~final => u.temp = <<z.indexed \cup new>> /\ u.output = z.output
        /\ u.closed = z.closed /\ u.torn = z.torn
    BY <1>1, <1>2, UpdatedZip
  <2> HIDE DEF u
  <2>4. Content(u) = z.indexed \cup new
    <3>1. CASE final
      BY <2>3, <3>1 DEF Content
    <3>2. CASE ~final
      <4>1. u.temp # NoTemp /\ u.temp[1] = z.indexed \cup new /\ u.output = {}
        BY <1>1, <2>3, <3>2 DEF NoTemp
      <4> QED
        BY <4>1 DEF Content
    <3> QED
      BY <3>1, <3>2
  <2>5. z.indexed \subseteq Taken(z)
    BY DEF Indexed, Taken
  <2>6. Taken(u) = Taken(z)
    BY <2>3, <2>5 DEF Taken
  <2>7. ~final => u.temp # NoTemp /\ u.temp[1] = z.indexed \cup new
    BY <2>3 DEF NoTemp
  <2>8. Whole(u) /\ (~final => Kept(u))
    BY <1>1, <2>3, <2>4, <2>7 DEF Whole, Kept
  <2> QED
    BY <1>1, <2>2, <2>3, <2>6, <2>7, <2>8
<1>5. CASE \E new \in SUBSET (Taken(z) \ z.indexed), hr \in {"fail", "false"} :
             r = Result(UpdateFailed(z, final, new), hr)
  <2>1. PICK new \in SUBSET (Taken(z) \ z.indexed), hr \in {"fail", "false"} :
          r = Result(UpdateFailed(z, final, new), hr)
    BY <1>5
  <2> DEFINE u == UpdateFailed(z, final, new)
  <2>2. r.zip = u
    BY <2>1 DEF Result
  <2>3. /\ u \in Compressors
        /\ u.items = Taken(z) /\ u.indexed = z.indexed \cup new /\ u.queue = {}
        /\ u.temp = z.temp /\ u.output = {}
        /\ u.closed = z.closed /\ u.torn = z.torn \cup (Taken(z) \ z.indexed)
    BY <1>1, <1>2, UpdateFailedZip
  <2> HIDE DEF u
  <2>4. Content(u) = Content(z) /\ Taken(u) = Taken(z)
    BY <1>1, <2>3 DEF Content, Taken
  <2>5. Kept(u)
    BY <1>1, <2>3 DEF Kept
  <2>6. Whole(u)
    BY <1>1, <2>3, <2>5 DEF Whole, Kept, Content
  <2> QED
    BY <1>1, <2>2, <2>3, <2>4, <2>5, <2>6 DEF Kept
<1> QED
  BY <1>1, <1>3, <1>4, <1>5, FlushCases

\* Complete: the last flush, whose archive or whose temporary archive becomes the archive.
LEMMA CompletionCases ==
  ASSUME NEW z, NEW r \in Completions(z)
  PROVE  \E f \in Flushes(z, TRUE) :
           \/ f.hr \in {"fail", "crash"} /\ r = f
           \/ /\ f.hr \notin {"fail", "crash"} /\ f.zip.temp = NoTemp
              /\ r = Result([f.zip EXCEPT !.closed = TRUE], "ok")
           \/ /\ f.hr \notin {"fail", "crash"} /\ f.zip.temp # NoTemp
              /\ r = Result([f.zip EXCEPT !.output = f.zip.temp[1], !.closed = TRUE], "ok")
           \/ f.hr \notin {"fail", "crash"} /\ f.zip.temp # NoTemp /\ r = Result(f.zip, "fail")
<1> DEFINE After(f) ==
             IF f.hr \in {"fail", "crash"} THEN {f}
             ELSE IF f.zip.temp = NoTemp THEN {Result([f.zip EXCEPT !.closed = TRUE], "ok")}
             ELSE {Result([f.zip EXCEPT !.output = f.zip.temp[1], !.closed = TRUE], "ok")}
                    \cup (IF "move" \in Faults THEN {Result(f.zip, "fail")} ELSE {})
<1>1. PICK f \in Flushes(z, TRUE) : r \in After(f)
  BY Zenon DEF Completions
<1>2. \/ f.hr \in {"fail", "crash"} /\ r = f
      \/ /\ f.hr \notin {"fail", "crash"} /\ f.zip.temp = NoTemp
         /\ r = Result([f.zip EXCEPT !.closed = TRUE], "ok")
      \/ /\ f.hr \notin {"fail", "crash"} /\ f.zip.temp # NoTemp
         /\ r = Result([f.zip EXCEPT !.output = f.zip.temp[1], !.closed = TRUE], "ok")
      \/ f.hr \notin {"fail", "crash"} /\ f.zip.temp # NoTemp /\ r = Result(f.zip, "fail")
  BY <1>1
<1> QED
  BY <1>2, Zenon

LEMMA CompleteZip ==
  ASSUME NEW z, Indexed(z), ~Begun(z), NEW r \in Completions(z)
  PROVE  /\ Indexed(r.zip)
         /\ z.indexed \subseteq r.zip.indexed /\ Taken(r.zip) \subseteq Taken(z)
         /\ Content(z) \subseteq Content(r.zip)
         /\ r.hr = "crash" => r.zip = z
         /\ Kept(z) => Whole(r.zip) /\ Taken(r.zip) = Taken(z) /\ z.torn \subseteq r.zip.torn
<1>1. PICK f \in Flushes(z, TRUE) :
           \/ f.hr \in {"fail", "crash"} /\ r = f
           \/ /\ f.hr \notin {"fail", "crash"} /\ f.zip.temp = NoTemp
              /\ r = Result([f.zip EXCEPT !.closed = TRUE], "ok")
           \/ /\ f.hr \notin {"fail", "crash"} /\ f.zip.temp # NoTemp
              /\ r = Result([f.zip EXCEPT !.output = f.zip.temp[1], !.closed = TRUE], "ok")
           \/ f.hr \notin {"fail", "crash"} /\ r = Result(f.zip, "fail")
  BY CompletionCases, ZenonT(60)
<1>2. PICK u : u = f.zip
  OBVIOUS
<1>3. /\ Indexed(u) /\ ~u.closed
      /\ z.indexed \subseteq u.indexed /\ Taken(u) \subseteq Taken(z)
      /\ Content(z) \subseteq Content(u)
      /\ u.temp # NoTemp => u.output = {}
      /\ f.hr \in {"ok", "fail", "false", "crash"} /\ (f.hr = "crash" => u = z)
  BY <1>2, FlushZip
<1>4. Kept(z) =>
        /\ Whole(u) /\ Taken(u) = Taken(z) /\ z.torn \subseteq u.torn
        /\ f.hr \in {"ok", "false"} /\ u.temp = NoTemp => u.indexed \subseteq u.output \cup u.torn
        /\ u.temp # NoTemp => u.indexed \subseteq u.temp[1] \cup u.torn
  BY <1>2, FlushKept
<1>5. CASE r = f \/ r = Result(f.zip, "fail")
  BY <1>2, <1>3, <1>4, <1>5 DEF Result
<1>6. CASE /\ f.hr \notin {"fail", "crash"} /\ f.zip.temp = NoTemp
           /\ r = Result([f.zip EXCEPT !.closed = TRUE], "ok")
  <2> DEFINE c == [u EXCEPT !.closed = TRUE]
  <2>1. r.zip = c /\ r.hr = "ok"
    BY <1>2, <1>6 DEF Result
  <2>2. /\ c \in Compressors /\ c.queue = u.queue /\ c.items = u.items /\ c.indexed = u.indexed
        /\ c.temp = u.temp /\ c.output = u.output /\ c.torn = u.torn
    BY <1>3 DEF Indexed, Compressors
  <2> HIDE DEF c
  <2>3. Content(c) = Content(u) /\ Taken(c) = Taken(u)
    BY <2>2 DEF Content, Taken
  <2> QED
    BY <1>2, <1>3, <1>4, <1>6, <2>1, <2>2, <2>3 DEF Indexed, Whole
<1>7. CASE /\ f.hr \notin {"fail", "crash"} /\ f.zip.temp # NoTemp
           /\ r = Result([f.zip EXCEPT !.output = f.zip.temp[1], !.closed = TRUE], "ok")
  <2> DEFINE c == [u EXCEPT !.output = u.temp[1], !.closed = TRUE]
  <2>1. r.zip = c /\ r.hr = "ok"
    BY <1>2, <1>7 DEF Result
  <2>2. u.temp[1] \in SUBSET Items
    BY <1>2, <1>3, <1>7 DEF Indexed, Compressors
  <2>3. /\ c \in Compressors /\ c.queue = u.queue /\ c.items = u.items /\ c.indexed = u.indexed
        /\ c.temp = u.temp /\ c.output = u.temp[1] /\ c.torn = u.torn
    BY <1>3, <2>2 DEF Indexed, Compressors
  <2> HIDE DEF c
  <2>4. Content(c) = Content(u) /\ Taken(c) = Taken(u)
    BY <1>2, <1>3, <1>7, <2>3 DEF Content, Taken
  <2> QED
    BY <1>2, <1>3, <1>4, <1>7, <2>1, <2>3, <2>4 DEF Indexed, Whole
<1> QED
  BY <1>1, <1>5, <1>6, <1>7
-----------------------------------------------------------------------------
(***************************************************************************)
(* What a step of the agent does, whichever request it serves.             *)
(***************************************************************************)
AgentTypes ==
  /\ inbox \in Seq(Messages)
  /\ archiving \in {"running", "done", "crashed"}
  /\ compressor = <<>> \/ \E z \in Compressors : compressor = <<z>>
  /\ answers \in [Items -> Nat]

\* Nothing is written into the archive itself before Complete is served.
Compressing ==
  compressor # <<>> => Indexed(Zip) /\ (archiving = "running" => ~Begun(Zip))

Asked == archiving = "running" /\ inbox # <<>>

Skips ==
  /\ Asked /\ inbox' \in {inbox, Tail(inbox)} /\ archiving' \in {"running", "crashed"}
  /\ UNCHANGED <<compressor, answers, disk>>

Opens ==
  /\ Asked /\ Served /\ compressor = <<>> /\ compressor' \in {<<NewCompressor>>, <<Unready>>}
  /\ UNCHANGED <<archiving, answers, disk>>

AddsTo(z, yes, no) ==
  /\ Asked /\ Served /\ compressor # <<>> /\ compressor' = <<z>>
  /\ yes \cup no \subseteq Adds(Request) /\ yes \cap no = {}
  /\ z \in Compressors /\ z.queue = Zip.queue \cup yes
  /\ z.items = Zip.items /\ z.indexed = Zip.indexed /\ z.temp = Zip.temp
  /\ z.output = Zip.output /\ z.closed = Zip.closed /\ Content(z) = Content(Zip)
  /\ z.ready = Zip.ready /\ z.torn = Zip.torn
  /\ answers' = [i \in Items |-> answers[i] + IF i \in no THEN 1 ELSE 0]
  /\ UNCHANGED <<archiving, disk>>

Writes(z) ==
  /\ Asked /\ Served /\ compressor # <<>> /\ compressor' = <<z>>
  /\ archiving' \in {"running", "done"}
  /\ Indexed(z) /\ (archiving' = "running" => ~Begun(z))
  /\ Zip.indexed \subseteq z.indexed /\ Taken(z) \subseteq Taken(Zip)
  /\ Content(Zip) \subseteq Content(z)
  /\ answers' = [i \in Items |-> answers[i] + IF i \in z.indexed \ Zip.indexed THEN 1 ELSE 0]
  /\ (Files \cap disk) \ Closed(Zip, z) \subseteq disk'
  /\ Kept(Zip) =>
       /\ Whole(z) /\ Taken(z) = Taken(Zip) /\ Zip.torn \subseteq z.torn
       /\ archiving' = "running" => Kept(z)

\* The request that is served, and the items it adds.
LEMMA Requested ==
  ASSUME AgentTypes, Asked
  PROVE  /\ Request \in Messages
         /\ Request.type \in {"AddFile", "AddStream"} =>
              Request.of \in Items /\ Adds(Request) = {Request.of}
         /\ Request.type = "AddDirectory" =>
              /\ Request.of \in Dirs /\ Adds(Request) = DirFiles[Request.of]
              /\ Adds(Request) \subseteq Items
<1>1. Request \in Messages
  BY DEF AgentTypes, Asked, Request
<1>2. Files \subseteq Items /\ DirFiles \in [Dirs -> SUBSET Files]
  BY ArchiveAssumption
<1>3. CASE Request \in {OpenArchive, FlushQueue, Complete}
  <2>1. Request.type \in {"OpenArchive", "FlushQueue", "Complete"}
    BY <1>3 DEF OpenArchive, FlushQueue, Complete, Message
  <2> QED
    BY <1>1, <2>1
<1>4. CASE \E f \in Files : Request = AddFile(f)
  BY <1>1, <1>2, <1>4 DEF AddFile, Message, Adds
<1>5. CASE \E d \in Dirs : Request = AddDirectory(d)
  <2>1. PICK d \in Dirs : Request = AddDirectory(d)
    BY <1>5
  <2>2. Request.type = "AddDirectory" /\ Request.of = d
    BY <2>1 DEF AddDirectory, Message
  <2> QED
    BY <1>1, <1>2, <2>2 DEF Adds
<1>6. CASE \E i \in Items \ Files : Request = AddStream(i)
  BY <1>1, <1>6 DEF AddStream, Message, Adds
<1> QED
  BY <1>1, <1>3, <1>4, <1>5, <1>6 DEF Messages

LEMMA ZipTyped ==
  ASSUME AgentTypes, compressor # <<>>
  PROVE  Zip \in Compressors /\ compressor = <<Zip>>
BY DEF AgentTypes, Zip

\* The files that CompleteOnFlush leaves: it removes directories only.
LEMMA FlushDisk ==
  ASSUME NEW files, CompleteOnFlush(files)
  PROVE  Files \cap files \subseteq disk'
<1>1. Files \cap Dirs = {}
  BY ArchiveAssumption
<1> QED
  BY <1>1 DEF CompleteOnFlush

LEMMA AddEffect ==
  ASSUME AgentTypes, AgentAdd
  PROVE  \E z \in Compressors, yes, no \in SUBSET Items : AddsTo(z, yes, no)
<1>1. /\ Asked /\ Served /\ compressor # <<>> /\ Request.type \in {"AddFile", "AddStream"}
      /\ UNCHANGED <<archiving, disk>>
  BY DEF AgentAdd, Serving, Asked, Request
<1>2. Request.of \in Items /\ Adds(Request) = {Request.of}
  BY <1>1, Requested
<1>3. PICK r \in {Result(Zip, "fail")} \cup Additions(Zip, Request.of) :
        /\ compressor' = <<r.zip>>
        /\ answers' = IF r.hr = "ok" THEN answers ELSE [answers EXCEPT ![Request.of] = @ + 1]
  BY DEF AgentAdd
<1>4. Zip \in Compressors
  BY <1>1, ZipTyped
<1>5. answers \in [Items -> Nat]
  BY DEF AgentTypes
<1>6. CASE r = Result(Zip, "fail")
  <2>1. r.zip = Zip /\ r.hr = "fail"
    BY <1>6 DEF Result
  <2>2. answers' = [i \in Items |-> answers[i] + IF i \in {Request.of} THEN 1 ELSE 0]
    <3>1. answers' = [answers EXCEPT ![Request.of] = @ + 1]
      BY <1>3, <2>1
    <3>2. \A i \in Items : answers'[i] = answers[i] + IF i \in {Request.of} THEN 1 ELSE 0
      BY <1>2, <1>5, <3>1
    <3> QED
      BY <1>5, <3>1, <3>2
  <2>3. Zip.queue = Zip.queue \cup {}
    OBVIOUS
  <2>4. AddsTo(Zip, {}, {Request.of})
    BY <1>1, <1>2, <1>3, <1>4, <2>1, <2>2, <2>3 DEF AddsTo
  <2> QED
    BY <1>2, <1>4, <2>4
<1>7. CASE r = Result([Zip EXCEPT !.queue = @ \cup {Request.of}], "ok")
  <2> DEFINE q == [Zip EXCEPT !.queue = @ \cup {Request.of}]
  <2>1. r.zip = q /\ r.hr = "ok"
    BY <1>7 DEF Result
  <2>2. answers' = [i \in Items |-> answers[i] + IF i \in {} THEN 1 ELSE 0]
    BY <1>3, <1>5, <2>1
  <2>3. /\ q \in Compressors /\ q.queue = Zip.queue \cup {Request.of}
        /\ q.items = Zip.items /\ q.indexed = Zip.indexed /\ q.temp = Zip.temp
        /\ q.output = Zip.output /\ q.closed = Zip.closed /\ Content(q) = Content(Zip)
        /\ q.ready = Zip.ready /\ q.torn = Zip.torn
    BY <1>2, <1>4, QueuedZip
  <2> HIDE DEF q
  <2>4. AddsTo(q, {Request.of}, {})
    BY <1>1, <1>2, <1>3, <2>1, <2>2, <2>3 DEF AddsTo
  <2> QED
    BY <1>2, <2>3, <2>4
<1> QED
  BY <1>3, <1>6, <1>7 DEF Additions
LEMMA AddDirectoryEffect ==
  ASSUME AgentTypes, AgentAddDirectory
  PROVE  Skips \/ \E z \in Compressors, yes, no \in SUBSET Items : AddsTo(z, yes, no)
<1>1. /\ Asked /\ Served /\ Request.type = "AddDirectory" /\ archiving = "running"
      /\ UNCHANGED <<archiving, disk>>
  BY DEF AgentAddDirectory, Serving, Asked, Request
<1>2. Adds(Request) = DirFiles[Request.of] /\ Adds(Request) \subseteq Items
  BY <1>1, Requested
<1>3. PICK found : found = IF Request.of \in disk THEN DirFiles[Request.of] \cap disk ELSE {}
  OBVIOUS
<1>4. PICK refused \in IF "add" \in Faults THEN SUBSET found ELSE {{}} :
        /\ compressor' = IF found = {} THEN compressor
                           ELSE <<[Zip EXCEPT !.queue = @ \cup (found \ refused)]>>
        /\ answers' = [i \in Items |-> answers[i] + IF i \in refused THEN 1 ELSE 0]
  BY <1>3 DEF AgentAddDirectory
<1>5. found \subseteq Adds(Request) /\ refused \subseteq found /\ (found = {} \/ compressor # <<>>)
  BY <1>2, <1>3, <1>4 DEF AgentAddDirectory
<1>6. answers \in [Items -> Nat]
  BY DEF AgentTypes
<1>7. CASE found = {}
  <2>1. \A i \in Items : answers'[i] = answers[i]
    BY <1>4, <1>5, <1>6, <1>7
  <2>2. answers' = answers
    BY <1>4, <1>6, <2>1
  <2>3. inbox' = Tail(inbox) /\ compressor' = compressor
    BY <1>1, <1>4, <1>7 DEF Served
  <2> QED
    BY <1>1, <2>2, <2>3 DEF Skips
<1>8. CASE found # {}
  <2> DEFINE q == [Zip EXCEPT !.queue = @ \cup (found \ refused)]
  <2>1. compressor' = <<q>> /\ compressor # <<>> /\ found \ refused \in SUBSET Items
    BY <1>2, <1>4, <1>5, <1>8
  <2>2. /\ q \in Compressors /\ q.queue = Zip.queue \cup (found \ refused)
        /\ q.items = Zip.items /\ q.indexed = Zip.indexed /\ q.temp = Zip.temp
        /\ q.output = Zip.output /\ q.closed = Zip.closed /\ Content(q) = Content(Zip)
        /\ q.ready = Zip.ready /\ q.torn = Zip.torn
    BY <2>1, ZipTyped, QueuedZip
  <2> HIDE DEF q
  <2>3. AddsTo(q, found \ refused, refused)
    BY <1>1, <1>4, <1>5, <2>1, <2>2 DEF AddsTo
  <2> QED
    BY <1>2, <1>5, <2>1, <2>2, <2>3
<1> QED
  BY <1>7, <1>8

\* A flush or the completion of the archive, with the answers and the deletions it makes.
LEMMA FlushedEffect ==
  ASSUME AgentTypes, Compressing, Asked, compressor # <<>>, NEW results, NEW step \in {"running", "done"},
         Flushed(results, step),
         \/ results = Flushes(Zip, FALSE) /\ step = "running"
         \/ results = Completions(Zip) /\ step = "done"
  PROVE  Skips \/ \E z \in Compressors : Writes(z)
<1>1. Zip \in Compressors /\ Indexed(Zip) /\ ~Begun(Zip)
  BY ZipTyped DEF Compressing, Asked
<1>2. PICK r \in results :
        IF r.hr = "crash"
        THEN /\ archiving' = "crashed" /\ UNCHANGED <<inbox, compressor, disk, answers>>
        ELSE /\ Served /\ archiving' = step /\ compressor' = <<r.zip>>
             /\ answers' = [i \in Items |-> answers[i] + IF i \in Announced(Zip, r.zip) THEN 1 ELSE 0]
             /\ CompleteOnFlush(disk \ (Closed(Zip, r.zip) \cap doomed))
  BY DEF Flushed
<1>3. PICK u : u = r.zip
  OBVIOUS
<1>4. /\ Indexed(u) /\ Zip.indexed \subseteq u.indexed /\ Taken(u) \subseteq Taken(Zip)
      /\ Content(Zip) \subseteq Content(u)
      /\ step = "running" => ~Begun(u)
      /\ Kept(Zip) =>
           /\ Whole(u) /\ Taken(u) = Taken(Zip) /\ Zip.torn \subseteq u.torn
           /\ step = "running" => Kept(u)
  <2>1. CASE results = Flushes(Zip, FALSE) /\ step = "running"
    <3>1. r \in Flushes(Zip, FALSE) /\ FALSE \in BOOLEAN
      BY <2>1
    <3>2. Indexed(u) /\ ~Begun(u) /\ Zip.indexed \subseteq u.indexed /\ Taken(u) \subseteq Taken(Zip)
          /\ Content(Zip) \subseteq Content(u)
      BY <1>1, <1>3, <3>1, FlushZip
    <3>3. Kept(Zip) => Whole(u) /\ Taken(u) = Taken(Zip) /\ Zip.torn \subseteq u.torn /\ Kept(u)
      BY <1>1, <1>3, <3>1, FlushKept
    <3> QED
      BY <3>2, <3>3
  <2>2. CASE results = Completions(Zip) /\ step = "done"
    BY <1>1, <1>3, <2>2, CompleteZip
  <2> QED
    BY <2>1, <2>2
<1>5. CASE r.hr = "crash"
  BY <1>2, <1>5 DEF Skips
<1>6. CASE r.hr # "crash"
  <2>1. (Files \cap disk) \ Closed(Zip, u) \subseteq disk'
    BY <1>2, <1>3, <1>6, FlushDisk
  <2>2. Writes(u)
    BY <1>2, <1>3, <1>4, <1>6, <2>1 DEF Writes, Announced
  <2> QED
    BY <1>4, <2>2 DEF Indexed
<1> QED
  BY <1>5, <1>6

LEMMA AgentEffect ==
  ASSUME AgentTypes, Compressing, AgentStep
  PROVE  \/ Skips \/ Opens
         \/ \E z \in Compressors, yes, no \in SUBSET Items : AddsTo(z, yes, no)
         \/ \E z \in Compressors : Writes(z)
<1>1. CASE AgentOpen
  BY <1>1 DEF AgentOpen, Serving, Asked, Opens, Skips, Served
<1>2. CASE AgentOpenFails
  BY <1>2 DEF AgentOpenFails, Serving, Asked, Skips, Opens, Served, Unready
<1>3. CASE AgentAdd
  BY <1>3, AddEffect
<1>4. CASE AgentAddDirectory
  BY <1>4, AddDirectoryEffect
<1>5. CASE AgentFlush
  <2>1. Asked /\ compressor # <<>> /\ Flushed(Flushes(Zip, FALSE), "running")
    BY <1>5 DEF AgentFlush, Serving, Asked
  <2> QED
    BY <2>1, FlushedEffect
<1>6. CASE AgentComplete
  <2>1. Asked /\ compressor # <<>> /\ Flushed(Completions(Zip), "done")
    BY <1>6 DEF AgentComplete, Serving, Asked
  <2> QED
    BY <2>1, FlushedEffect
<1>7. CASE Crash
  BY <1>7 DEF Crash, Asked, Skips
<1> QED
  BY <1>1, <1>2, <1>3, <1>4, <1>5, <1>6, <1>7 DEF AgentStep

\* Nothing but Complete begins the archive itself, and nothing is served after it.
LEMMA AgentCompressing ==
  ASSUME AgentTypes, Compressing, AgentStep
  PROVE  Compressing'
<1>1. CASE Skips
  <2>1. compressor' = compressor /\ archiving = "running"
    BY <1>1 DEF Skips, Asked
  <2> QED
    BY <2>1 DEF Compressing, Zip, Indexed, Begun, Content
<1>2. CASE Opens
  <2>1. \/ compressor' = <<NewCompressor>> /\ Zip' = NewCompressor
        \/ compressor' = <<Unready>> /\ Zip' = Unready
    BY <1>2 DEF Opens, Zip
  <2> QED
    BY <2>1, NewZip, UnreadyZip DEF Compressing, Indexed, Begun, Content
<1>3. CASE \E z \in Compressors, yes, no \in SUBSET Items : AddsTo(z, yes, no)
  <2>1. PICK z \in Compressors, yes \in SUBSET Items, no \in SUBSET Items : AddsTo(z, yes, no)
    BY <1>3
  <2>2. /\ compressor # <<>> /\ compressor' = <<z>> /\ archiving' = archiving /\ Zip' = z
        /\ z.items = Zip.items /\ z.indexed = Zip.indexed
        /\ z.output = Zip.output /\ z.closed = Zip.closed /\ Content(z) = Content(Zip)
    BY <2>1 DEF AddsTo, Zip
  <2> QED
    BY <2>2 DEF Compressing, Indexed, Begun, Content
<1>4. CASE \E z \in Compressors : Writes(z)
  <2>1. PICK z \in Compressors : Writes(z)
    BY <1>4
  <2>2. compressor' = <<z>> /\ Zip' = z /\ Indexed(z) /\ (archiving' = "running" => ~Begun(z))
    BY <2>1 DEF Writes, Zip
  <2> QED
    BY <2>2 DEF Compressing, Indexed, Begun, Content
<1> QED
  BY <1>1, <1>2, <1>3, <1>4, AgentEffect

\* The agent registers the directories it is to remove, and cancels these only.
HandlersKept ==
  /\ handlers' \in Seq(Handlers)
  /\ \A x : x \notin Dirs => (In(x, handlers') <=> In(x, handlers))

LEMMA CompleteOnFlushTyped ==
  ASSUME pending \in Seq(Removals), handlers \in Seq(Handlers),
         NEW files \in SUBSET (Files \cup Dirs), CompleteOnFlush(files)
  PROVE  pending' \in Seq(Removals) /\ disk' \subseteq files /\ HandlersKept
<1>1. PICK refused \in IF "remove" \in Faults THEN SUBSET Dirs ELSE {{}} :
        LET removed(n) == /\ pending[n].object = "Directory"
                          /\ Removable(pending[n].dir, files)
                          /\ pending[n].dir \notin refused
            tried == [n \in 1..Len(pending) |->
                        IF removed(n) THEN [pending[n] EXCEPT !.hr = "ok"] ELSE pending[n]]
            kept == Only(tried, {p \in Removals : p.hr # "ok"})
        IN /\ pending' = kept
           /\ disk' = files \ {d \in Dirs : \E n \in DOMAIN tried :
                                             tried[n].dir = d /\ tried[n].hr = "ok"}
           /\ RemoveTerminationHandlers({tried[n].dir : n \in Len(kept) + 1..Len(tried)})
  BY Zenon DEF CompleteOnFlush
<1> DEFINE removed(n) == /\ pending[n].object = "Directory"
                         /\ Removable(pending[n].dir, files)
                         /\ pending[n].dir \notin refused
           tried == [n \in 1..Len(pending) |->
                       IF removed(n) THEN [pending[n] EXCEPT !.hr = "ok"] ELSE pending[n]]
           kept == Only(tried, {p \in Removals : p.hr # "ok"})
           gone == {tried[n].dir : n \in Len(kept) + 1..Len(tried)}
<1>2. pending' = kept /\ disk' \subseteq files /\ RemoveTerminationHandlers(gone)
  BY <1>1
<1>3. tried \in Seq(Removals)
  <2>1. \A n \in 1..Len(pending) :
          (IF removed(n) THEN [pending[n] EXCEPT !.hr = "ok"] ELSE pending[n]) \in Removals
    <3>1. \A p \in Removals : [p EXCEPT !.hr = "ok"] \in Removals
      BY DEF Removals
    <3> HIDE DEF removed
    <3> QED
      BY <3>1
  <2> HIDE DEF removed
  <2> QED
    BY <2>1
<1> HIDE DEF tried
<1>4. kept \in Seq(Removals) /\ \A x : In(x, kept) <=> In(x, tried) /\ x \in {p \in Removals : p.hr # "ok"}
  BY <1>3, OnlyIn
<1>5. gone \subseteq Dirs
  <2>1. Len(kept) \in Nat
    BY <1>4
  <2>2. \A n \in Len(kept) + 1..Len(tried) : tried[n] \in Removals
    BY <1>3, <2>1
  <2> QED
    BY <2>2 DEF Removals
<1> HIDE DEF kept, gone
<1>6. HandlersKept
  BY <1>2, <1>5, WithoutIn DEF RemoveTerminationHandlers, HandlersKept
<1> QED
  BY <1>2, <1>4, <1>6

\* A list of at most one element.
LEMMA AtMostOne ==
  ASSUME NEW U
  PROVE  \A s : s \in Seq(U) /\ Len(s) <= 1 <=> s = <<>> \/ \E z \in U : s = <<z>>
<1>1. ASSUME NEW s \in Seq(U), Len(s) <= 1 PROVE s = <<>> \/ \E z \in U : s = <<z>>
  <2>1. CASE Len(s) = 0
    BY <2>1
  <2>2. CASE Len(s) = 1
    <3>1. s[1] \in U /\ <<s[1]>> \in Seq(U) /\ Len(<<s[1]>>) = 1 /\ \A n \in 1..1 : s[n] = <<s[1]>>[n]
      BY <2>2
    <3>2. s = <<s[1]>>
      BY <2>2, <3>1, SeqEqual
    <3> QED
      BY <3>1, <3>2
  <2>3. PICK n \in Nat : n = Len(s)
    OBVIOUS
  <2>4. n = 0 \/ n = 1
    BY <1>1, <2>3
  <2> QED
    BY <2>1, <2>2, <2>3, <2>4
<1>2. ASSUME NEW s, s = <<>> \/ \E z \in U : s = <<z>> PROVE s \in Seq(U) /\ Len(s) <= 1
  <2>1. <<>> \in Seq(U) /\ Len(<<>>) <= 1
    OBVIOUS
  <2>2. \A z \in U : <<z>> \in Seq(U) /\ Len(<<z>>) <= 1
    OBVIOUS
  <2> QED
    BY <1>2, <2>1, <2>2
<1> QED
  BY <1>1, <1>2

LEMMA TypesOfAgent == AgentTypeOK => AgentTypes
BY AtMostOne DEF AgentTypeOK, AgentTypes

LEMMA CompressorTyped ==
  ASSUME AgentTypes, Compressing, AgentStep
  PROVE  AgentTypes'
<1>1. /\ inbox \in Seq(Messages) /\ archiving \in {"running", "done", "crashed"}
      /\ compressor = <<>> \/ \E z \in Compressors : compressor = <<z>>
      /\ answers \in [Items -> Nat]
  BY DEF AgentTypes
<1>2. inbox # <<>> => Tail(inbox) \in Seq(Messages)
  BY <1>1
<1>3. CASE Skips
  BY <1>1, <1>2, <1>3 DEF Skips, Asked, AgentTypes
<1>4. CASE Opens
  BY <1>1, <1>2, <1>4, NewZip, UnreadyZip DEF Opens, Asked, Served, Indexed, AgentTypes
<1>5. CASE \E z \in Compressors, yes, no \in SUBSET Items : AddsTo(z, yes, no)
  BY <1>1, <1>2, <1>5 DEF AddsTo, Asked, Served, AgentTypes
<1>6. CASE \E z \in Compressors : Writes(z)
  BY <1>1, <1>2, <1>6 DEF Writes, Asked, Served, AgentTypes
<1> QED
  BY <1>3, <1>4, <1>5, <1>6, AgentEffect

\* A request to delete is about a file or a directory.
LEMMA Deletes ==
  ASSUME AgentTypes, Asked, Request.delete
  PROVE  \/ Request.type = "AddFile" /\ Request.of \in Files
         \/ Request.type = "AddDirectory" /\ Request.of \in Dirs
<1>1. Request \in Messages
  BY DEF AgentTypes, Asked, Request
<1> QED
  BY <1>1 DEF Messages, OpenArchive, FlushQueue, Complete, AddFile, AddDirectory, AddStream, Message

LEMMA EmplacedTyped ==
  ASSUME pending \in Seq(Removals), NEW d \in Dirs, NEW p \in Emplaced(d)
  PROVE  p \in Seq(Removals)
<1> DEFINE new == [dir |-> d, object |-> "Directory", hr |-> "pending"]
<1>1. new \in Removals
  BY DEF Removals
<1>2. CASE p = Append(pending, new)
  BY <1>1, <1>2
<1>3. ASSUME NEW o \in [1..Len(pending) -> {"Directory", "other"}],
             p = Append([n \in 1..Len(pending) |-> [pending[n] EXCEPT !.object = o[n]]], new)
      PROVE  p \in Seq(Removals)
  <2>1. \A n \in 1..Len(pending) : [pending[n] EXCEPT !.object = o[n]] \in Removals
    <3>1. \A q \in Removals, x \in {"Directory", "other"} : [q EXCEPT !.object = x] \in Removals
      BY DEF Removals
    <3>2. \A n \in 1..Len(pending) : pending[n] \in Removals /\ o[n] \in {"Directory", "other"}
      OBVIOUS
    <3> QED
      BY <3>1, <3>2
  <2>2. [n \in 1..Len(pending) |-> [pending[n] EXCEPT !.object = o[n]]] \in Seq(Removals)
    BY <2>1
  <2> QED
    BY <1>1, <1>3, <2>2
<1> QED
  BY <1>2, <1>3 DEF Emplaced

LEMMA AgentTyped ==
  ASSUME AgentTypeOK, Compressing, handlers \in Seq(Handlers), AgentStep
  PROVE  AgentTypeOK' /\ HandlersKept
<1>1. /\ AgentTypes /\ AgentTypes'
      /\ pending \in Seq(Removals) /\ room \in Nat /\ disk \subseteq Files \cup Dirs /\ doomed \subseteq Files
      /\ Dirs \subseteq Handlers /\ DirFiles \in [Dirs -> SUBSET Files]
  BY TypesOfAgent, CompressorTyped, ArchiveAssumption DEF AgentTypeOK
<1>2. SUFFICES /\ pending' \in Seq(Removals) /\ room' \in Nat
               /\ disk' \subseteq Files \cup Dirs /\ doomed' \subseteq Files /\ HandlersKept
  BY <1>1, AtMostOne DEF AgentTypeOK, AgentTypes
<1>3. CASE AgentOpen \/ AgentOpenFails
  BY <1>1, <1>3 DEF AgentOpen, AgentOpenFails, HandlersKept
<1>4. CASE AgentAdd
  <2>1. UNCHANGED <<pending, room, disk, handlers>> /\ Asked
        /\ Request.type \in {"AddFile", "AddStream"}
    BY <1>4 DEF AgentAdd, Asked, Serving, Request
  <2>2. Request.delete => Request.of \in Files
    BY <1>1, <2>1, Deletes
  <2>3. doomed' \in {doomed, doomed \cup {Request.of}} /\ (doomed' # doomed => Request.delete)
    BY <1>4 DEF AgentAdd
  <2> QED
    BY <1>1, <2>1, <2>2, <2>3 DEF HandlersKept
<1>5. CASE AgentAddDirectory
  <2>1. /\ Asked /\ Request.type = "AddDirectory" /\ disk' = disk
        /\ pending' \in Emplaced(Request.of)
        /\ room' = IF Len(pending) < room THEN room ELSE Grown(room)
        /\ AddTerminationHandler(Request.of)
    BY <1>5 DEF AgentAddDirectory, Serving, Asked, Request
  <2>2. Request.of \in Dirs
    BY <1>1, <2>1, Requested
  <2>3. pending' \in Seq(Removals) /\ room' \in Nat
    BY <1>1, <2>1, <2>2, EmplacedTyped DEF Grown
  <2>4. HandlersKept
    BY <1>1, <2>1, <2>2, WithIn DEF AddTerminationHandler, HandlersKept
  <2>5. PICK found : found = IF Request.of \in disk THEN DirFiles[Request.of] \cap disk ELSE {}
    OBVIOUS
  <2>6. PICK refused \in IF "add" \in Faults THEN SUBSET found ELSE {{}} :
          doomed' = IF Request.delete THEN doomed \cup (found \ refused) ELSE doomed
    BY <1>5, <2>5 DEF AgentAddDirectory
  <2>7. doomed' \subseteq Files
    BY <1>1, <2>2, <2>5, <2>6
  <2> QED
    BY <1>1, <2>1, <2>3, <2>4, <2>7
<1>6. CASE AgentFlush \/ AgentComplete
  <2>1. PICK results, step : Flushed(results, step) /\ UNCHANGED <<room, doomed>>
    BY <1>6 DEF AgentFlush, AgentComplete
  <2>2. PICK r \in results :
          IF r.hr = "crash" THEN UNCHANGED <<pending, disk, handlers>>
          ELSE CompleteOnFlush(disk \ (Closed(Zip, r.zip) \cap doomed))
    BY <2>1 DEF Flushed
  <2>3. CASE r.hr = "crash"
    BY <1>1, <2>1, <2>2, <2>3 DEF HandlersKept
  <2>4. CASE r.hr # "crash"
    <3>1. PICK files : files = disk \ (Closed(Zip, r.zip) \cap doomed)
      OBVIOUS
    <3>2. files \in SUBSET (Files \cup Dirs) /\ CompleteOnFlush(files)
      BY <1>1, <2>2, <2>4, <3>1
    <3>3. pending' \in Seq(Removals) /\ disk' \subseteq files /\ HandlersKept
      BY <1>1, <3>2, CompleteOnFlushTyped
    <3> QED
      BY <1>1, <2>1, <3>2, <3>3
  <2> QED
    BY <2>3, <2>4
<1>7. CASE Crash /\ UNCHANGED handlers
  BY <1>1, <1>7 DEF Crash, HandlersKept
<1> QED
  BY <1>3, <1>4, <1>5, <1>6, <1>7 DEF AgentStep
-----------------------------------------------------------------------------
(***************************************************************************)
(* The handlers stay sorted.                                               *)
(***************************************************************************)
LEMMA ConcatSorted ==
  ASSUME NEW a \in Seq(Handlers), NEW b \in Seq(Handlers), Sorted(a), Sorted(b),
         \A x, y : In(x, a) /\ In(y, b) => Priority[x] >= Priority[y]
  PROVE  Sorted(a \o b)
<1>1. PICK m \in Nat, n \in Nat : m = Len(a) /\ n = Len(b) /\ DOMAIN a = 1..m /\ DOMAIN b = 1..n
  OBVIOUS
<1>2. PICK c : c = a \o b
  OBVIOUS
<1>3. /\ DOMAIN c = 1..m + n
      /\ \A i \in 1..m : c[i] = a[i]
      /\ \A i \in m + 1..m + n : i - m \in 1..n /\ c[i] = b[i - m]
  BY <1>1, <1>2
<1>4. ASSUME NEW i \in DOMAIN c, NEW j \in DOMAIN c, i < j
      PROVE  Priority[c[i]] >= Priority[c[j]]
  <2>1. CASE j \in 1..m
    BY <1>1, <1>3, <1>4, <2>1 DEF Sorted
  <2>2. CASE i \in m + 1..m + n
    <3>1. j \in m + 1..m + n /\ i - m < j - m
      BY <1>1, <1>3, <1>4, <2>2
    <3>2. PICK k, l : k = i - m /\ l = j - m
      OBVIOUS
    <3>3. k \in DOMAIN b /\ l \in DOMAIN b /\ k < l /\ c[i] = b[k] /\ c[j] = b[l]
      BY <1>1, <1>3, <2>2, <3>1, <3>2
    <3> QED
      BY <3>3 DEF Sorted
  <2>3. CASE i \in 1..m /\ j \in m + 1..m + n
    <3>1. In(c[i], a) /\ In(c[j], b)
      BY <1>1, <1>3, <2>3 DEF In
    <3> QED
      BY <3>1
  <2> QED
    BY <1>1, <1>3, <1>4, <2>1, <2>2, <2>3
<1> QED
  BY <1>2, <1>4 DEF Sorted

LEMMA WithSorted ==
  ASSUME NEW list \in Seq(Handlers), NEW h \in Handlers, Sorted(list)
  PROVE  Sorted(With(list, h))
<1> DEFINE A == {g \in Handlers : Priority[g] >= Priority[h]}
           B == {g \in Handlers : Priority[g] < Priority[h]}
           a == Only(list, A)
           b == Only(list, B)
<1>1. a \in Seq(Handlers) /\ Sorted(a) /\ \A x : In(x, a) => x \in A
  BY OnlyIn, OnlySorted
<1>2. b \in Seq(Handlers) /\ Sorted(b) /\ \A x : In(x, b) => x \in B
  BY OnlyIn, OnlySorted
<1>3. With(list, h) = a \o <<h>> \o b
  BY DEF With
<1>4. Priority \in [Handlers -> Nat]
  BY RobustnessAssumption
<1>5. \A x \in A, y \in B : Priority[x] >= Priority[y] /\ Priority[x] >= Priority[h] /\ Priority[h] >= Priority[y]
  BY <1>4
<1> HIDE DEF a, b, A, B
<1>6. <<h>> \in Seq(Handlers) /\ Sorted(<<h>>) /\ \A x : In(x, <<h>>) <=> x = h
  BY DEF In, Sorted
<1>7. /\ a \o <<h>> \in Seq(Handlers) /\ Sorted(a \o <<h>>)
      /\ \A x : In(x, a \o <<h>>) <=> In(x, a) \/ x = h
  <2>1. \A x, y : In(x, a) /\ In(y, <<h>>) => Priority[x] >= Priority[y]
    <3>1. \A x \in A : Priority[x] >= Priority[h]
      BY <1>4 DEF A
    <3> QED
      BY <1>1, <1>6, <3>1
  <2> QED
    BY <1>1, <1>6, <2>1, ConcatIn, ConcatSorted
<1>8. \A x, y : In(x, a \o <<h>>) /\ In(y, b) => Priority[x] >= Priority[y]
  <2>1. \A y \in B : Priority[h] >= Priority[y]
    BY <1>4 DEF B
  <2> QED
    BY <1>1, <1>2, <1>5, <1>7, <2>1
<1> QED
  BY <1>2, <1>3, <1>7, <1>8, ConcatSorted

LEMMA AgentSorted ==
  ASSUME AgentTypeOK, handlers \in Seq(Handlers), Sorted(handlers), AgentStep
  PROVE  Sorted(handlers')
<1>1. AgentTypes
  BY TypesOfAgent
<1>2. ASSUME NEW gone, RemoveTerminationHandlers(gone) PROVE Sorted(handlers')
  BY <1>2, OnlySorted DEF RemoveTerminationHandlers, Without
<1>3. ASSUME NEW results, NEW step, Flushed(results, step) PROVE Sorted(handlers')
  BY <1>2, <1>3 DEF Flushed, CompleteOnFlush
<1>4. CASE AgentAddDirectory
  <2>1. Request.of \in Handlers
    <3>1. Asked /\ Request.type = "AddDirectory" /\ Dirs \subseteq Handlers
      BY <1>4, ArchiveAssumption DEF AgentAddDirectory, Serving, Asked, Request
    <3> QED
      BY <1>1, <3>1, Requested
  <2> QED
    BY <1>4, <2>1, WithSorted DEF AgentAddDirectory, AddTerminationHandler
<1> QED
  BY <1>3, <1>4 DEF AgentStep, AgentOpen, AgentOpenFails, AgentAdd, AgentFlush, AgentComplete
=============================================================================
