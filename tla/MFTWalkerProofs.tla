-------------------------- MODULE MFTWalkerProofs --------------------------
(***************************************************************************)
(* Proofs about MFTWalker, for any table and any volume: a record is       *)
(* called back at most once, and nobody is called back after a stop that   *)
(* was asked of the enumeration or of the final walk; the types; that a    *)
(* walk nobody stopped has called back every file, and called it back      *)
(* whole: with all that can be read of it and of the path to it.           *)
(*                                                                         *)
(* CalledOnce is not inductive: a record is told apart by the flag of its  *)
(* cell until the cell is freed and by the null entry of the map after.    *)
(* That the record of the callback and the cell being added are in the map *)
(* and not in the map is where the walk that makes space comes in.         *)
(***************************************************************************)
EXTENDS MFTWalker, FiniteSetTheorems, TLAPS

WalkTypes ==
  /\ map \in [Segment -> {"absent", "here", "gone"}]
  /\ called \in [Segment -> BOOLEAN]
  /\ calls \in [Segment -> Nat]
  /\ missing \subseteq Segment /\ toFetch \subseteq Segment /\ left \subseteq Segment
  /\ cur \in Segment \cup {None}

\* The record of the callback is in the map when it is looked at and called back.
CurrentHere ==
  /\ pc \in {"check", "call", "look", "fetch", "update"} => cur # None
  /\ pc \in {"check", "call"} => map[cur] = "here"

\* What is being added is a segment; one a walk makes space for is not in the map.
AddingOK ==
  /\ pc \in {"enum", "check", "fetch", "update", "call"} => adding = None
  /\ pc \in {"add", "cell", "look"} => adding \in Segment
  /\ pc = "cell" => map[adding] = "absent"
  /\ (pc = "walk" /\ adding # None) => adding \in Segment /\ map[adding] = "absent"

\* What tells that a record was called back.
Remembered ==
  \A s \in Segment :
    /\ map[s] = "absent" => calls[s] = 0
    /\ calls[s] <= 1
    /\ calls[s] = 1 => map[s] = "gone" \/ called[s]

IInv == WalkTypes /\ CurrentHere /\ AddingOK /\ Remembered

\* IInv holds in the initial states.
LEMMA InitIInv == Init => IInv
BY DEF Init, IInv, WalkTypes, CurrentHere, AddingOK, Remembered

\* What CheckRecord and LookAtFetched want to fetch are segments.
LEMMA MissingSegments == ASSUME NEW s PROVE Missing(s) \subseteq Segment
BY DEF Missing, Absent, Unparsed

\* A callback of a record of the map that was not called back before keeps what is remembered.
LEMMA CallKeeps ==
  ASSUME WalkTypes, Remembered, NEW s \in Segment, map[s] = "here", Callable(s),
         NEW keep, NEW r, CallCallback(s, keep, r)
  PROVE  /\ map' \in [Segment -> {"absent", "here", "gone"}]
         /\ called' \in [Segment -> BOOLEAN]
         /\ calls' \in [Segment -> Nat]
         /\ Remembered'
         /\ \A x \in Segment : map[x] = "absent" => map'[x] = "absent"
<1>1. calls[s] = 0
  BY DEF WalkTypes, Remembered, Callable
<1>2. calls' = [calls EXCEPT ![s] = 1]
  BY <1>1 DEF WalkTypes, CallCallback
<1>3. called' = [called EXCEPT ![s] = TRUE]
  BY DEF CallCallback
<1>4. \A x \in Segment : map'[x] = map[x] \/ (map[x] = "here" /\ map'[x] = "gone")
  BY DEF CallCallback, DeleteRecord, Deleted, WalkTypes
<1>5. map' \in [Segment -> {"absent", "here", "gone"}]
  BY DEF CallCallback, DeleteRecord, WalkTypes
<1>6. Remembered'
  BY <1>2, <1>3, <1>4 DEF Remembered, WalkTypes
<1> QED
  BY <1>2, <1>3, <1>4, <1>5, <1>6 DEF WalkTypes

\* Every step keeps IInv.
LEMMA StepIInv == IInv /\ [Next]_vars => IInv'
<1> SUFFICES ASSUME IInv, [Next]_vars PROVE IInv'
  OBVIOUS
<1> USE DEF IInv
<1>1. CASE EnumRecord
  BY <1>1 DEF EnumRecord, history, WalkTypes, CurrentHere, AddingOK, Remembered
<1>2. CASE EnumEnds
  BY <1>2 DEF EnumEnds, history, Walkable, WalkTypes, CurrentHere, AddingOK, Remembered
<1>3. CASE SkipRecord
  BY <1>3 DEF SkipRecord, NothingAdded, NextRecord, history, WalkTypes, CurrentHere, AddingOK, Remembered
<1>4. CASE MakeSpace
  BY <1>4 DEF MakeSpace, Accepted, Full, Walkable, history, WalkTypes, CurrentHere, AddingOK, Remembered
<1>5. CASE RefuseRecord
  <2>1. adding \in Segment
    BY <1>5 DEF RefuseRecord, GotCell, Accepted, AddingOK
  <2>2. calls' = calls /\ called' = called
    BY <1>5 DEF RefuseRecord, NothingAdded, history
  <2>3. Remembered'
    BY <2>1, <2>2, <1>5 DEF RefuseRecord, Remembered, WalkTypes
  <2> QED
    BY <2>1, <2>2, <2>3, <1>5 DEF RefuseRecord, NothingAdded, NextRecord, WalkTypes, CurrentHere, AddingOK
<1>6. CASE AddRecord
  <2>1. adding \in Segment /\ map[adding] # "gone"
    BY <1>6 DEF AddRecord, GotCell, Accepted, AddingOK
  <2>2. /\ map' = [map EXCEPT ![adding] = "here"]
        /\ called' = [called EXCEPT ![adding] = @ /\ map[adding] = "here"]
        /\ calls' = calls /\ left' = left /\ toFetch' = toFetch
    BY <1>6 DEF AddRecord, history
  <2>3. Remembered'
    BY <2>1, <2>2 DEF Remembered, WalkTypes
  <2>4. /\ missing' \subseteq Segment
        /\ \/ pc' = "check" /\ cur' = adding /\ adding' = None
           \/ pc' = "look" /\ adding' = adding /\ cur' = cur /\ cur # None
    BY <1>6 DEF AddRecord, WalkTypes
  <2>5. adding # None
    BY <2>1, SegmentAssumption DEF None
  <2>6. map' \in [Segment -> {"absent", "here", "gone"}] /\ map'[adding] = "here"
    BY <2>1, <2>2 DEF WalkTypes
  <2>7. called' \in [Segment -> BOOLEAN]
    BY <2>1, <2>2 DEF WalkTypes
  <2>8. WalkTypes'
    BY <2>1, <2>2, <2>4, <2>6, <2>7 DEF WalkTypes
  <2> QED
    BY <2>1, <2>3, <2>4, <2>5, <2>6, <2>8 DEF CurrentHere, AddingOK
<1>7. CASE LookAtFetched
  BY <1>7, MissingSegments DEF LookAtFetched, history, WalkTypes, CurrentHere, AddingOK, Remembered
<1>8. CASE CheckRecord
  <2>1. /\ calls' = calls /\ called' = called /\ map' = map /\ left' = left /\ adding' = adding
        /\ missing' \subseteq Segment /\ toFetch' \subseteq Segment
    BY <1>8, MissingSegments DEF CheckRecord, history, WalkTypes
  <2>2. \/ pc' \in {"call", "fetch"} /\ cur' = cur
        \/ pc' = "enum" /\ cur' = None
    BY <1>8 DEF CheckRecord, NextRecord
  <2>3. pc = "check"
    BY <1>8 DEF CheckRecord
  <2> QED
    BY <2>1, <2>2, <2>3 DEF WalkTypes, CurrentHere, AddingOK, Remembered
<1>9. CASE FetchRecord
  BY <1>9 DEF FetchRecord, First, history, WalkTypes, CurrentHere, AddingOK, Remembered
<1>10. CASE FetchEnds
  BY <1>10 DEF FetchEnds, history, WalkTypes, CurrentHere, AddingOK, Remembered
<1>11. CASE UpdateRecord
  <2>1. /\ calls' = calls /\ called' = called /\ map' = map /\ left' = left
        /\ missing' = missing /\ toFetch' = toFetch /\ cur' = cur
        /\ pc' = "check" /\ map[cur] = "here"
    BY <1>11 DEF UpdateRecord, Dangling, history
  <2> QED
    BY <2>1, <1>11 DEF UpdateRecord, WalkTypes, CurrentHere, AddingOK, Remembered
<1>12. CASE UseFreed
  BY <1>12 DEF UseFreed, history, WalkTypes, CurrentHere, AddingOK, Remembered
<1>13. CASE CallRecord
  <2>1. cur \in Segment /\ map[cur] = "here" /\ Callable(cur)
    BY <1>13 DEF CallRecord, CurrentHere, WalkTypes
  <2>2. PICK keep \in KeepAlive : CallCallback(cur, keep, rec)
    BY <1>13 DEF CallRecord
  <2>3. /\ map' \in [Segment -> {"absent", "here", "gone"}]
        /\ called' \in [Segment -> BOOLEAN]
        /\ calls' \in [Segment -> Nat]
        /\ Remembered'
    BY <2>1, <2>2, CallKeeps
  <2>4. pc' \in {"enum", "done"} /\ cur' = None /\ adding' = None
    BY <1>13 DEF CallRecord, NextRecord, AddingOK
  <2>5. missing' = missing /\ toFetch' = toFetch /\ left' = left
    BY <1>13 DEF CallRecord
  <2> QED
    BY <2>3, <2>4, <2>5 DEF WalkTypes, CurrentHere, AddingOK
<1>14. CASE CallNothing
  BY <1>14 DEF CallNothing, NextRecord, history, WalkTypes, CurrentHere, AddingOK, Remembered
<1>15. CASE WalkEnds
  BY <1>15 DEF WalkEnds, Final, history, WalkTypes, CurrentHere, AddingOK, Remembered
<1>16. ASSUME NEW s \in Segment, WalkRecord(s) PROVE IInv'
  <2>1. /\ pc = "walk" /\ pc' = pc /\ cur' = cur /\ adding' = adding
        /\ missing' = missing /\ toFetch' = toFetch /\ left' \subseteq Segment
    BY <1>16 DEF WalkRecord, WalkTypes
  <2>2. /\ map' \in [Segment -> {"absent", "here", "gone"}]
        /\ called' \in [Segment -> BOOLEAN]
        /\ calls' \in [Segment -> Nat]
        /\ Remembered'
        /\ \A x \in Segment : map[x] = "absent" => map'[x] = "absent"
    <3>1. CASE map[s] = "here" /\ Callable(s) /\
               \E keep \in KeepAlive : CallCallback(s, keep, Judged(s, ~Final))
      BY <3>1, CallKeeps
    <3>2. CASE UNCHANGED <<map, called, history>>
      BY <3>2 DEF history, WalkTypes, Remembered
    <3> QED
      BY <3>1, <3>2, <1>16 DEF WalkRecord
  <2> QED
    BY <2>1, <2>2 DEF WalkTypes, CurrentHere, AddingOK
<1>17. CASE EnumFails \/ FetchFails
  BY <1>17 DEF EnumFails, FetchFails, WalkTypes, CurrentHere, AddingOK, Remembered
<1>18. CASE UNCHANGED vars
  BY <1>18 DEF vars, WalkTypes, CurrentHere, AddingOK, Remembered
<1> QED
  BY <1>1, <1>2, <1>3, <1>4, <1>5, <1>6, <1>7, <1>8, <1>9, <1>10, <1>11, <1>12, <1>13, <1>14,
     <1>15, <1>16, <1>17, <1>18 DEF Next, Step, Ended

\* A record is called back at most once: by the enumeration, as what another record missed, by
\* a walk that makes space or by the last one.
THEOREM WalkCallsOnce == Spec => []CalledOnce
<1>1. IInv => CalledOnce
  BY DEF IInv, Remembered, CalledOnce
<1> QED
  BY InitIInv, StepIInv, <1>1, PTL DEF Spec

-----------------------------------------------------------------------------
\* A stop asked of the enumeration ends the walk at once; one of the final walk leaves it
\* nothing to visit.
Stopped ==
  /\ asked = "enumeration" => pc = "done"
  /\ asked = "final" => pc = "done" \/ (pc = "walk" /\ Final /\ left = {})

\* Every step keeps Stopped.
LEMMA StepStopped == Stopped /\ [Next]_vars => Stopped'
<1> SUFFICES ASSUME Stopped, [Next]_vars PROVE Stopped'
  OBVIOUS
<1>1. CASE EnumRecord \/ EnumFails \/ EnumEnds \/ SkipRecord \/ MakeSpace \/ RefuseRecord \/ AddRecord
  <2>1. pc \in {"enum", "add", "cell"} /\ asked' = asked
    BY <1>1 DEF EnumRecord, EnumFails, EnumEnds, SkipRecord, MakeSpace, RefuseRecord, AddRecord, GotCell,
                Accepted, NothingAdded, history
  <2> QED
    BY <2>1 DEF Stopped
<1>2. CASE LookAtFetched \/ CheckRecord \/ FetchRecord \/ FetchFails \/ FetchEnds \/ UpdateRecord \/ UseFreed
  <2>1. pc \in {"look", "check", "fetch", "update"} /\ asked' = asked
    BY <1>2 DEF LookAtFetched, CheckRecord, FetchRecord, FetchFails, FetchEnds, UpdateRecord, UseFreed, history
  <2> QED
    BY <2>1 DEF Stopped
<1>3. CASE CallRecord \/ CallNothing
  BY <1>3 DEF CallRecord, CallNothing, NextRecord, history, Stopped
<1>4. CASE WalkEnds
  BY <1>4 DEF WalkEnds, history, Stopped, Final
<1>5. ASSUME NEW s \in Segment, WalkRecord(s) PROVE Stopped'
  BY <1>5 DEF WalkRecord, history, Stopped, Final
<1>6. CASE UNCHANGED vars
  BY <1>6 DEF vars, Stopped, Final
<1> QED
  BY <1>1, <1>2, <1>3, <1>4, <1>5, <1>6 DEF Next, Step, Ended

\* Once stopped, no step calls anybody back.
LEMMA StoppedCallsNobody ==
  Stopped /\ [Next]_vars => ((asked \in {"enumeration", "final"}) => calls' = calls)
<1> SUFFICES ASSUME Stopped, [Next]_vars, asked \in {"enumeration", "final"} PROVE calls' = calls
  OBVIOUS
<1>1. pc = "done" \/ (pc = "walk" /\ left = {})
  BY DEF Stopped
<1> QED
  BY <1>1 DEF Next, Step, Ended, vars, history, EnumRecord, EnumFails, EnumEnds, SkipRecord, MakeSpace,
              RefuseRecord, AddRecord, GotCell, Accepted, LookAtFetched, CheckRecord, FetchRecord,
              FetchFails, FetchEnds, UpdateRecord, UseFreed, CallRecord, CallNothing, WalkEnds, WalkRecord

\* Nobody is called back after a stop that was asked of the enumeration or the final walk.
THEOREM WalkHeedsStop == Spec => StopHeeded
<1>1. Init => Stopped
  BY DEF Init, Stopped
<1> QED
  BY <1>1, StepStopped, StoppedCallsNobody, PTL DEF Spec, StopHeeded

-----------------------------------------------------------------------------
(***************************************************************************)
(* The segments that wait for their base are parsed by a fold.  What each  *)
(* parse keeps, all of them keep: the fold is a function on the subsets of *)
(* the waiting segments, and a least subset on which it would not be       *)
(* defined, or not be unique, cannot be.                                   *)
(***************************************************************************)
Any(x) == CHOOSE h \in x : TRUE

\* f parses the segments of a set one after the other, from r, each with base s.
IsParsing(f, S, r, s) ==
  f = [x \in SUBSET S |-> IF x = {} THEN r ELSE ParseRecord(f[x \ {Any(x)}], Any(x), s)]

LEMMA ParseWaitingUnfold ==
  ASSUME NEW r, NEW s
  PROVE  ParseWaiting(r, s) =
           (CHOOSE f : IsParsing(f, Waiting(r, s), r, s))[Waiting(r, s)]
BY DEF ParseWaiting, FoldSet, MapThenFoldSet, IsParsing, Any

\* The non-empty sets of subsets of a finite set have a least member.
LEMMA LeastSubset ==
  ASSUME NEW S, IsFiniteSet(S), NEW Bad, Bad \subseteq SUBSET S, Bad # {}
  PROVE  \E x \in Bad : \A y \in Bad : ~(y \subseteq x /\ y # x)
<1>1. FiniteSubsetsOf(S) = SUBSET S
  BY FS_FiniteSubsetsOfFinite
<1>2. IsWellFoundedOn(StrictSubsetOrdering(S), SUBSET S)
  BY <1>1, FS_StrictSubsetOrderingWellFounded
<1>3. PICK x \in Bad : \A y \in Bad : <<y, x>> \notin StrictSubsetOrdering(S)
  BY <1>2, WFMin
<1> QED
  BY <1>3 DEF StrictSubsetOrdering

LEMMA ParsingUnique ==
  ASSUME NEW W, IsFiniteSet(W), NEW r, NEW s, NEW S \in SUBSET W, NEW T \in SUBSET W, NEW f, NEW g,
         IsParsing(f, S, r, s), IsParsing(g, T, r, s)
  PROVE  \A x \in SUBSET (S \cap T) : f[x] = g[x]
<1> DEFINE Bad == {x \in SUBSET (S \cap T) : f[x] # g[x]}
<1> SUFFICES ASSUME Bad # {} PROVE FALSE
  OBVIOUS
<1>1. PICK x \in Bad : \A y \in Bad : ~(y \subseteq x /\ y # x)
  <2>1. Bad \subseteq SUBSET W
    OBVIOUS
  <2> HIDE DEF Bad
  <2> QED
    BY <2>1, LeastSubset
<1>2. CASE x = {}
  BY <1>1, <1>2 DEF IsParsing
<1>3. CASE x # {}
  <2>1. Any(x) \in x
    BY <1>3 DEF Any
  <2>2. x \ {Any(x)} \in SUBSET (S \cap T) /\ x \ {Any(x)} # x
    BY <1>1, <2>1
  <2>3. f[x \ {Any(x)}] = g[x \ {Any(x)}]
    BY <1>1, <2>2
  <2>4. /\ f[x] = ParseRecord(f[x \ {Any(x)}], Any(x), s)
        /\ g[x] = ParseRecord(g[x \ {Any(x)}], Any(x), s)
    BY <1>1, <1>3 DEF IsParsing
  <2> QED
    BY <1>1, <2>3, <2>4
<1> QED
  BY <1>2, <1>3

LEMMA ParsingExists ==
  ASSUME NEW W, IsFiniteSet(W), NEW r, NEW s, NEW R, r \in R,
         \A h \in W, q \in R : ParseRecord(q, h, s) \in R
  PROVE  \E f \in [SUBSET W -> R] : IsParsing(f, W, r, s)
<1> DEFINE Bad == {x \in SUBSET W : ~\E f \in [SUBSET x -> R] : IsParsing(f, x, r, s)}
<1> SUFFICES ASSUME Bad # {} PROVE FALSE
  OBVIOUS
<1>1. PICK S \in Bad : \A y \in Bad : ~(y \subseteq S /\ y # S)
  <2>1. Bad \subseteq SUBSET W
    OBVIOUS
  <2> HIDE DEF Bad
  <2> QED
    BY <2>1, LeastSubset
<1> DEFINE part(x) == CHOOSE f : f \in [SUBSET x -> R] /\ IsParsing(f, x, r, s)
           value(x) == part(x)[x]
           F == [x \in SUBSET S |-> IF x # S THEN value(x) ELSE IF S = {} THEN r
                                    ELSE ParseRecord(value(S \ {Any(S)}), Any(S), s)]
<1>2. \A x \in SUBSET S : x # S => part(x) \in [SUBSET x -> R] /\ IsParsing(part(x), x, r, s)
  BY <1>1
<1> HIDE DEF part
<1>3. \A x \in SUBSET S : x # S => value(x) \in R
  BY <1>2
<1>4. S # {} => Any(S) \in S /\ Any(S) \in W
  BY <1>1 DEF Any
<1>5. F \in [SUBSET S -> R]
  <2>1. ASSUME S # {} PROVE ParseRecord(value(S \ {Any(S)}), Any(S), s) \in R
    <3>1. value(S \ {Any(S)}) \in R
      BY <1>3, <1>4, <2>1
    <3> QED
      BY <1>4, <2>1, <3>1
  <2> QED
    BY <1>3, <2>1
<1>6. ASSUME NEW x \in SUBSET S
      PROVE  F[x] = IF x = {} THEN r ELSE ParseRecord(F[x \ {Any(x)}], Any(x), s)
  <2>1. CASE x = S
    <3>1. CASE S = {}
      BY <2>1, <3>1
    <3>2. CASE S # {}
      <4>1. S \ {Any(S)} \in SUBSET S /\ S \ {Any(S)} # S
        BY <1>4, <3>2
      <4>2. F[S \ {Any(S)}] = value(S \ {Any(S)})
        BY <4>1
      <4> QED
        BY <2>1, <3>2, <4>2
    <3> QED
      BY <3>1, <3>2
  <2>2. CASE x # S
    <3>1. IsParsing(part(x), x, r, s) /\ F[x] = part(x)[x]
      BY <1>2, <2>2
    <3>2. CASE x = {}
      BY <3>1, <3>2 DEF IsParsing
    <3>3. CASE x # {}
      <4> DEFINE y == x \ {Any(x)}
      <4>1. Any(x) \in x
        BY <3>3 DEF Any
      <4>2. y \in SUBSET S /\ y # S /\ y \in SUBSET (x \cap y) /\ y \in SUBSET x
        BY <4>1
      <4>3. part(x)[x] = ParseRecord(part(x)[y], Any(x), s)
        BY <3>1, <3>3 DEF IsParsing
      <4>4. part(x)[y] = part(y)[y]
        <5>1. IsParsing(part(y), y, r, s)
          BY <1>2, <4>2
        <5>2. x \in SUBSET W /\ y \in SUBSET W
          BY <1>1, <4>2
        <5> HIDE DEF y
        <5> QED
          BY <3>1, <4>2, <5>1, <5>2, ParsingUnique
      <4>5. F[y] = value(y)
        BY <4>2
      <4> QED
        BY <3>1, <3>3, <4>3, <4>4, <4>5
    <3> QED
      BY <3>2, <3>3
  <2> QED
    BY <2>1, <2>2
<1>7. IsParsing(F, S, r, s)
  <2>1. F = [x \in SUBSET S |-> F[x]]
    OBVIOUS
  <2> HIDE DEF F
  <2> QED
    BY <1>6, <2>1 DEF IsParsing
<1> HIDE DEF F
<1> QED
  BY <1>1, <1>5, <1>7

\* What each parse keeps, all of them keep.
LEMMA ParseWaitingIn ==
  ASSUME NEW r, NEW s, NEW R, r \in R, IsFiniteSet(Segment),
         \A h \in Waiting(r, s), q \in R : ParseRecord(q, h, s) \in R
  PROVE  ParseWaiting(r, s) \in R
<1> DEFINE W == Waiting(r, s)
           g == CHOOSE f : IsParsing(f, W, r, s)
<1>1. W \subseteq Segment /\ IsFiniteSet(W)
  <2>1. W \subseteq Segment
    BY DEF Waiting
  <2> QED
    BY <2>1, FS_Subset
<1>2. PICK f \in [SUBSET W -> R] : IsParsing(f, W, r, s)
  BY <1>1, ParsingExists
<1>3. IsParsing(g, W, r, s)
  BY <1>2
<1>4. ParseWaiting(r, s) = g[W]
  BY ParseWaitingUnfold
<1> HIDE DEF g, W
<1>5. g[W] = f[W]
  BY <1>1, <1>2, <1>3, ParsingUnique
<1> QED
  BY <1>2, <1>4, <1>5

-----------------------------------------------------------------------------
(***************************************************************************)
(* The records of the map: their types, and what holds of base records.    *)
(***************************************************************************)
Entry == [listed : Segment \cup {None}, found : Segment \cup {None}]
Entries == UNION {[types -> Entry] : types \in SUBSET Types}
Record == [parsed : BOOLEAN, base : Segment \cup {None}, kids : SUBSET Segment, entries : Entries,
           name : Segment \cup {Root, None}, directory : BOOLEAN, complete : BOOLEAN]

\* The segments that the attribute list of s names.
ListOf(s) == {disk.list[s][t] : t \in DOMAIN disk.list[s]}

\* Base records have no base, and keep what makes them complete once they were parsed.
Keeping(r) ==
  {q \in [Segment -> Record] :
     \A x \in Segment :
       /\ q[x].kids \subseteq ListOf(x)
       /\ Base(x) =>
            /\ q[x].base = None
            /\ r[x].parsed =>
                 q[x].parsed /\ q[x].kids = r[x].kids /\ (r[x].complete => q[x].complete)}

RecInv ==
  /\ disk \in Volumes
  /\ rec \in Keeping(rec)
  /\ \A s \in Segment : Base(s) /\ map[s] = "here" => rec[s].parsed

LEMMA DiskTyped == ASSUME disk \in Volumes PROVE VolumeOK(disk)
BY VolumesAssumption

LEMMA EnterTyped ==
  ASSUME VolumeOK(disk), NEW s \in Segment, NEW entries \in Entries
  PROVE  Enter(entries, s) \in Entries
<1>1. PICK types \in SUBSET Types : entries \in [types -> Entry]
  BY DEF Entries
<1>2. disk.holds[s] \in SUBSET Types
  BY DEF VolumeOK
<1>3. Enter(entries, s) \in [types \cup disk.holds[s] -> Entry]
  BY <1>1, <1>2 DEF Enter, Entry
<1> QED
  BY <1>1, <1>2, <1>3 DEF Entries

LEMMA ListedTyped ==
  ASSUME VolumeOK(disk), NEW s \in Segment
  PROVE  Listed(s) \in Entries
<1>1. DOMAIN disk.list[s] \in SUBSET Types /\ \A t \in DOMAIN disk.list[s] : disk.list[s][t] \in Segment
  BY DEF VolumeOK
<1>2. Listed(s) \in [DOMAIN disk.list[s] -> Entry]
  BY <1>1 DEF Listed, Entry
<1> QED
  BY <1>1, <1>2 DEF Entries

\* What a segment holds is filled into a record without changing what it is.
LEMMA FilledTyped ==
  ASSUME VolumeOK(disk), NEW s \in Segment, NEW record \in Record, NEW entries \in Entries
  PROVE  LET q == Filled(record, s, entries) IN
         /\ q \in Record
         /\ q.parsed = record.parsed /\ q.base = record.base /\ q.kids = record.kids
         /\ q.complete = record.complete
<1>1. Enter(entries, s) \in Entries
  BY EnterTyped
<1>2. disk.parent[s] \in Segment \cup {Root}
  BY DEF VolumeOK
<1> QED
  BY <1>1, <1>2 DEF Filled, Record

\* A parse keeps what is kept, if a base record is given no base.
LEMMA ParseKeeps ==
  ASSUME VolumeOK(disk), NEW r, NEW q \in Keeping(r), NEW s \in Segment,
         NEW base \in Segment \cup {None}, Base(s) => base = None
  PROVE  ParseRecord(q, s, base) \in Keeping(r)
<1> DEFINE owner == IF q[s].base = None THEN base ELSE q[s].base
           given == IF owner = None THEN Listed(s) ELSE q[s].entries
           filled == Filled(q[s], s, given)
           own == [filled EXCEPT !.base = owner, !.parsed = TRUE, !.kids = ListOf(s)]
<1>1. /\ q \in [Segment -> Record] /\ q[s] \in Record /\ q[s].base \in Segment \cup {None}
      /\ q[s].entries \in Entries
  BY DEF Keeping, Record
<1>2. owner \in Segment \cup {None} /\ (Base(s) => owner = None)
  BY <1>1 DEF Keeping
<1>3. given \in Entries
  BY <1>1, ListedTyped
<1>4. /\ filled \in Record /\ filled.complete = q[s].complete
  BY <1>1, <1>3, FilledTyped
<1>5. ListOf(s) \in SUBSET Segment
  BY DEF ListOf, VolumeOK
<1>6. /\ own \in Record /\ own.base = owner /\ own.parsed = TRUE /\ own.kids = ListOf(s)
      /\ own.complete = q[s].complete
  BY <1>2, <1>4, <1>5 DEF Record
<1>7. ParseRecord(q, s, base) =
        IF q[s].parsed \/ (disk.base[s] # None /\ base = None)
        THEN [q EXCEPT ![s].base = owner]
        ELSE IF owner = None THEN [q EXCEPT ![s] = own]
        ELSE [q EXCEPT ![s] = own, ![owner] = Filled(q[owner], s, q[owner].entries)]
  BY DEF ParseRecord, ListOf
<1> HIDE DEF owner, given, filled, own
<1>8. CASE q[s].parsed \/ (disk.base[s] # None /\ base = None)
  <2>1. ParseRecord(q, s, base) = [q EXCEPT ![s].base = owner]
    BY <1>7, <1>8
  <2>2. [q[s] EXCEPT !.base = owner] \in Record
    BY <1>1, <1>2 DEF Record
  <2>3. [q EXCEPT ![s].base = owner] \in Keeping(r)
    BY <1>1, <1>2, <2>2 DEF Keeping, Record
  <2> QED
    BY <2>1, <2>3
<1>9. CASE ~(q[s].parsed \/ (disk.base[s] # None /\ base = None)) /\ owner = None
  <2>1. ParseRecord(q, s, base) = [q EXCEPT ![s] = own]
    BY <1>7, <1>9
  <2>2. [q EXCEPT ![s] = own] \in Keeping(r)
    BY <1>1, <1>2, <1>6, <1>9 DEF Keeping
  <2> QED
    BY <2>1, <2>2
<1>10. CASE ~(q[s].parsed \/ (disk.base[s] # None /\ base = None)) /\ owner # None
  <2> DEFINE other == Filled(q[owner], s, q[owner].entries)
  <2>1. owner \in Segment /\ q[owner] \in Record /\ q[owner].entries \in Entries /\ ~Base(s)
    BY <1>1, <1>2, <1>10 DEF Record
  <2>2. /\ other \in Record /\ other.parsed = q[owner].parsed /\ other.base = q[owner].base
        /\ other.kids = q[owner].kids /\ other.complete = q[owner].complete
    BY <2>1, FilledTyped
  <2>3. ParseRecord(q, s, base) = [q EXCEPT ![s] = own, ![owner] = other]
    BY <1>7, <1>10
  <2> HIDE DEF other
  <2>4. [q EXCEPT ![s] = own, ![owner] = other] \in Keeping(r)
    BY <1>1, <1>2, <1>6, <2>1, <2>2 DEF Keeping
  <2> QED
    BY <2>3, <2>4
<1> QED
  BY <1>8, <1>9, <1>10

\* So do the parses of those that waited: a base record of the map is parsed, and waits for none.
LEMMA WaitingKeeps ==
  ASSUME VolumeOK(disk), NEW r, NEW q \in Keeping(r), NEW s \in Segment, IsFiniteSet(Segment),
         \A x \in Segment \ {s} : Base(x) /\ map[x] = "here" => q[x].parsed
  PROVE  ParseWaiting(q, s) \in Keeping(r)
<1>1. ASSUME NEW h \in Waiting(q, s), NEW p \in Keeping(r)
      PROVE  ParseRecord(p, h, s) \in Keeping(r)
  <2>1. h \in Segment /\ ~Base(h)
    BY DEF Waiting
  <2> QED
    BY <2>1, ParseKeeps
<1> QED
  BY <1>1, ParseWaitingIn

\* UpdateAttributeList changes entries and the kind of the record only.
LEMMA ResolveKeeps ==
  ASSUME NEW r, NEW q \in Keeping(r), NEW s \in Segment
  PROVE  /\ Resolve(q, s) \in Keeping(r)
         /\ \A x \in Segment : Resolve(q, s)[x].base = q[x].base
                               /\ Resolve(q, s)[x].parsed = q[x].parsed
<1> DEFINE held(t) == LET h == q[s].entries[t].listed IN
                      h # None /\ map[h] = "here" /\ t \in DOMAIN q[h].entries
           value(t) == IF q[s].entries[t].found = None /\ held(t)
                       THEN [q[s].entries[t] EXCEPT !.found = q[q[s].entries[t].listed].entries[t].found]
                       ELSE q[s].entries[t]
           found == [t \in DOMAIN q[s].entries |-> value(t)]
           index == "$INDEX_ROOT" \in DOMAIN found /\ found["$INDEX_ROOT"].found # None
           new == [q[s] EXCEPT !.entries = found, !.directory = @ \/ index]
<1>1. q \in [Segment -> Record]
  BY DEF Keeping
<1>2. PICK types \in SUBSET Types : q[s].entries \in [types -> Entry]
  BY <1>1 DEF Record, Entries
<1>3. ASSUME NEW t \in types PROVE found[t] \in Entry
  <2>1. q[s].entries[t] \in Entry
    BY <1>2
  <2>2. found[t] = value(t)
    <3> HIDE DEF value
    <3> QED
      BY <1>2
  <2> HIDE DEF found
  <2>3. CASE q[s].entries[t].found = None /\ held(t)
    <3>1. PICK h \in Segment : h = q[s].entries[t].listed /\ t \in DOMAIN q[h].entries
      BY <2>1, <2>3 DEF Entry
    <3>2. PICK D \in SUBSET Types : q[h].entries \in [D -> Entry]
      BY <1>1, <3>1, SMTT(60) DEF Record, Entries
    <3>3. q[h].entries[t].found \in Segment \cup {None}
      BY <3>1, <3>2 DEF Entry
    <3>4. found[t] = [q[s].entries[t] EXCEPT !.found = q[h].entries[t].found]
      BY <2>2, <2>3, <3>1
    <3>5. PICK e : e = q[s].entries[t]
      OBVIOUS
    <3> QED
      BY <2>1, <3>3, <3>4, <3>5 DEF Entry
  <2> QED
    BY <2>1, <2>2, <2>3
<1>4. found \in Entries
  <2>1. found \in [types -> Entry]
    BY <1>2, <1>3
  <2> QED
    BY <2>1 DEF Entries
<1>5. Resolve(q, s) = IF q[s].kids = {} THEN q
                      ELSE [q EXCEPT ![s].entries = found, ![s].directory = @ \/ index]
  BY DEF Resolve
<1> HIDE DEF found, held, value
<1>6. index \in BOOLEAN
  OBVIOUS
<1> HIDE DEF index
<1>7. [q EXCEPT ![s].entries = found, ![s].directory = @ \/ index] = [q EXCEPT ![s] = new]
  BY <1>1 DEF Record
<1>8. /\ new \in Record /\ new.parsed = q[s].parsed /\ new.base = q[s].base
      /\ new.kids = q[s].kids /\ new.complete = q[s].complete
  <2>1. PICK record \in Record : record = q[s]
    BY <1>1
  <2>2. record.directory \in BOOLEAN /\ (record.directory \/ index) \in BOOLEAN
    BY <1>6, <2>1 DEF Record
  <2>3. new = [record EXCEPT !.entries = found, !.directory = record.directory \/ index]
    BY <2>1
  <2> QED
    BY <1>4, <2>1, <2>2, <2>3 DEF Record
<1> HIDE DEF new
<1>9. [q EXCEPT ![s] = new] \in Keeping(r)
  BY <1>1, <1>8 DEF Keeping
<1> QED
  BY <1>1, <1>5, <1>7, <1>8, <1>9

\* The answer to whether a record is complete is kept.
LEMMA JudgedKeeps ==
  ASSUME rec \in Keeping(rec), NEW s \in Segment, NEW strict
  PROVE  /\ Judged(s, strict) \in Keeping(rec)
         /\ \A x \in Segment : Judged(s, strict)[x].parsed = rec[x].parsed
<1>1. rec \in [Segment -> Record]
  BY DEF Keeping
<1>2. Complete(s, strict) \in BOOLEAN /\ (rec[s].complete => Complete(s, strict))
  BY DEF Complete
<1> DEFINE new == [rec[s] EXCEPT !.complete = Complete(s, strict)]
<1>3. /\ new \in Record /\ new.parsed = rec[s].parsed /\ new.base = rec[s].base
      /\ new.kids = rec[s].kids /\ (rec[s].complete => new.complete)
  BY <1>1, <1>2 DEF Record
<1>4. Judged(s, strict) = [rec EXCEPT ![s] = new]
  BY DEF Judged
<1> HIDE DEF new
<1>5. [rec EXCEPT ![s] = new] \in Keeping(rec)
  BY <1>1, <1>3 DEF Keeping
<1> QED
  BY <1>1, <1>3, <1>4, <1>5

\* What is kept is kept again.
LEMMA KeepingTrans ==
  ASSUME NEW r, NEW p \in Keeping(r), NEW q \in Keeping(p)
  PROVE  q \in Keeping(r) /\ q \in Keeping(q)
BY DEF Keeping

\* A freed record is as before it was read.
LEMMA BlankRecord == Blank \in Record
<1>1. [t \in {} |-> None] \in Entries
  <2>1. {} \in SUBSET Types /\ [t \in {} |-> None] \in [{} -> Entry]
    OBVIOUS
  <2> QED
    BY <2>1 DEF Entries
<1> QED
  BY <1>1 DEF Blank, Record

\* What a step does to the records of the map: they keep what is kept, but for those it frees.
Kept ==
  /\ disk' = disk
  /\ \A x \in Segment : map'[x] = "absent" => map[x] = "absent"
  /\ \A x \in Segment : Base(x) /\ map[x] = "here" /\ map'[x] = "here" =>
       rec'[x].kids = rec[x].kids /\ (rec[x].complete => rec'[x].complete)

LEMMA KeepingKept ==
  ASSUME IInv, RecInv, disk' = disk, map' = map, rec' \in Keeping(rec)
  PROVE  RecInv' /\ Kept
<1>1. rec' \in Keeping(rec')
  BY KeepingTrans DEF RecInv
<1>2. (rec \in Keeping(rec))'
  BY <1>1 DEF Keeping, ListOf, Base
<1> QED
  BY <1>2 DEF RecInv, Kept, Keeping, Base

LEMMA CallKept ==
  ASSUME IInv, RecInv, disk' = disk, NEW s \in Segment, NEW keep, NEW r \in Keeping(rec),
         map[s] = "here", CallCallback(s, keep, r)
  PROVE  RecInv' /\ Kept
<1>1. CASE map' = map /\ rec' = r
  BY <1>1, KeepingKept
<1>2. CASE DeleteRecord(s)
  <2>0. \A x \in Deleted(s) : map[x] = "here"
    BY DEF Deleted
  <2>1. /\ \A x \in Segment : \/ map'[x] = map[x] /\ rec'[x] = rec[x]
                              \/ map[x] = "here" /\ map'[x] = "gone" /\ rec'[x] = Blank
        /\ rec' = [x \in Segment |-> IF x \in Deleted(s) THEN Blank ELSE rec[x]]
    <3>1. /\ map' = [x \in Segment |-> IF x \in Deleted(s) THEN "gone" ELSE map[x]]
          /\ rec' = [x \in Segment |-> IF x \in Deleted(s) THEN Blank ELSE rec[x]]
      BY <1>2 DEF DeleteRecord
    <3>2. ASSUME NEW x \in Segment
          PROVE  \/ map'[x] = map[x] /\ rec'[x] = rec[x]
                 \/ map[x] = "here" /\ map'[x] = "gone" /\ rec'[x] = Blank
      <4> HIDE DEF Blank
      <4> QED
        BY <2>0, <3>1
    <3> QED
      BY <3>1, <3>2
  <2>2. Kept
    BY <2>1 DEF Kept
  <2>3. rec' \in [Segment -> Record]
    BY <2>1, BlankRecord DEF RecInv, Keeping
  <2>4. rec' \in Keeping(rec')
    BY <2>1, <2>3 DEF RecInv, Keeping, Blank
  <2>5. (rec \in Keeping(rec))'
    BY <2>4 DEF Keeping, ListOf, Base
  <2>6. \A x \in Segment : Base(x) /\ map'[x] = "here" => rec'[x].parsed
    BY <2>1 DEF RecInv
  <2> QED
    BY <2>2, <2>5, <2>6 DEF RecInv, Base
<1> QED
  BY <1>1, <1>2 DEF CallCallback

LEMMA SegmentFinite == IsFiniteSet(Segment)
<1>1. PICK first \in Nat, last \in Nat : Segment = first .. last
  BY SegmentAssumption
<1> QED
  BY <1>1, FS_Interval

\* AddRecord: the record is parsed, then those that waited for it.
LEMMA AddKept ==
  ASSUME IInv, RecInv, AddRecord
  PROVE  RecInv' /\ Kept
<1> DEFINE s == adding
           base == IF disk.base[s] # None /\ map[disk.base[s]] = "here" THEN disk.base[s] ELSE None
           r == ParseRecord(rec, s, base)
<1>1. VolumeOK(disk) /\ IsFiniteSet(Segment)
  BY DiskTyped, SegmentFinite DEF RecInv
<1>2. s \in Segment /\ map[s] # "gone"
  BY DEF AddRecord, GotCell, Accepted, IInv, AddingOK
<1>3. base \in Segment \cup {None} /\ (Base(s) => base = None)
  BY <1>1, <1>2 DEF VolumeOK, Base
<1>4. rec' = ParseWaiting(r, s) /\ map' = [map EXCEPT ![s] = "here"] /\ disk' = disk
  BY DEF AddRecord
<1>5. r \in Keeping(rec)
  <2> HIDE DEF base, s
  <2> QED
    BY <1>1, <1>2, <1>3, ParseKeeps DEF RecInv
<1>6. Base(s) => r[s].parsed
  <2>1. ASSUME Base(s) PROVE r[s].parsed
    <3>1. base = None /\ rec[s].base = None /\ rec \in [Segment -> Record]
      BY <1>2, <1>3, <2>1 DEF RecInv, Keeping
    <3> HIDE DEF base
    <3>2. CASE rec[s].parsed
      BY <1>2, <1>5, <2>1, <3>2 DEF Keeping
    <3>3. CASE ~rec[s].parsed
      <4> DEFINE filled == Filled(rec[s], s, Listed(s))
                 own == [filled EXCEPT !.base = None, !.parsed = TRUE,
                                       !.kids = {disk.list[s][t] : t \in DOMAIN disk.list[s]}]
      <4>0. filled \in Record
        BY <1>1, <1>2, <3>1, ListedTyped, FilledTyped
      <4>1. r = [rec EXCEPT ![s] = own]
        BY <2>1, <3>1, <3>3 DEF ParseRecord, Base
      <4>2. own.parsed
        <5> HIDE DEF filled
        <5> QED
          BY <4>0 DEF Record
      <4> QED
        BY <1>2, <3>1, <4>1, <4>2
    <3> QED
      BY <3>2, <3>3
  <2> QED
    BY <2>1
<1> HIDE DEF s, base, r
<1>7. \A x \in Segment : Base(x) /\ map[x] = "here" => r[x].parsed
  BY <1>5 DEF Keeping, RecInv
<1>8. ParseWaiting(r, s) \in Keeping(rec) /\ ParseWaiting(r, s) \in Keeping(r)
  <2>1. r \in Keeping(r)
    BY <1>5, KeepingTrans DEF RecInv
  <2> QED
    BY <1>1, <1>2, <1>5, <1>7, <2>1, WaitingKeeps
<1>9. (rec \in Keeping(rec))'
  <2>1. rec' \in Keeping(rec')
    BY <1>4, <1>8, KeepingTrans DEF RecInv
  <2> QED
    BY <1>4, <2>1 DEF Keeping, ListOf, Base
<1>10. \A x \in Segment : Base(x) /\ map'[x] = "here" => rec'[x].parsed
  BY <1>2, <1>4, <1>6, <1>7, <1>8 DEF Keeping, IInv, WalkTypes
<1>11. Kept
  BY <1>2, <1>4, <1>8 DEF Kept, Keeping, RecInv, IInv, WalkTypes
<1> QED
  BY <1>4, <1>9, <1>10, <1>11 DEF RecInv, Base

\* UpdateRecord: the lists are resolved; only a child record gets a base.
LEMMA UpdateKept ==
  ASSUME IInv, RecInv, UpdateRecord
  PROVE  RecInv' /\ Kept
<1> DEFINE b == disk.base[cur]
           r1 == Resolve(rec, cur)
           r2 == IF b # None /\ r1[cur].base = None /\ map[b] = "here"
                 THEN [r1 EXCEPT ![cur].base = b] ELSE r1
           r3 == IF r2[cur].base # None THEN Resolve(r2, r2[cur].base) ELSE r2
<1>1. rec' = r3 /\ disk' = disk /\ map' = map
  BY DEF UpdateRecord
<1>2. VolumeOK(disk)
  BY DiskTyped DEF RecInv
<1>3. cur \in Segment
  BY DEF UpdateRecord, IInv, CurrentHere, WalkTypes
<1>4. r1 \in Keeping(rec)
  BY <1>3, ResolveKeeps DEF RecInv
<1>5. r2 \in Keeping(rec)
  <2> HIDE DEF r1
  <2>1. CASE b # None /\ r1[cur].base = None /\ map[b] = "here"
    <3>1. b \in Segment /\ ~Base(cur)
      BY <1>2, <1>3, <2>1 DEF VolumeOK, Base
    <3>2. r1 \in [Segment -> Record] /\ [r1[cur] EXCEPT !.base = b] \in Record
      BY <1>3, <1>4, <3>1 DEF Keeping, Record
    <3>3. r2 = [r1 EXCEPT ![cur] = [r1[cur] EXCEPT !.base = b]]
      BY <2>1
    <3>4. [r1[cur] EXCEPT !.base = b].kids = r1[cur].kids
      BY <1>3, <3>2 DEF Record
    <3> HIDE DEF b, r2
    <3> QED
      BY <1>3, <1>4, <3>1, <3>2, <3>3, <3>4 DEF Keeping
  <2>2. CASE ~(b # None /\ r1[cur].base = None /\ map[b] = "here")
    BY <1>4, <2>2
  <2> QED
    BY <2>1, <2>2
<1> HIDE DEF r1, r2
<1>6. r3 \in Keeping(rec)
  <2>1. r2[cur].base \in Segment \cup {None}
    BY <1>3, <1>5 DEF Keeping, Record
  <2> QED
    BY <1>5, <2>1, ResolveKeeps
<1> HIDE DEF r3
<1> QED
  BY <1>1, <1>6, KeepingKept

\* A walk judges the record it visits, and may call it back.
LEMMA WalkKept ==
  ASSUME IInv, RecInv, NEW s \in Segment, WalkRecord(s)
  PROVE  RecInv' /\ Kept
<1>1. disk' = disk /\ rec \in Keeping(rec)
  BY DEF WalkRecord, RecInv
<1>2. Judged(s, ~Final) \in Keeping(rec)
  BY <1>1, JudgedKeeps
<1>3. CASE map[s] = "here" /\ \E keep \in KeepAlive : CallCallback(s, keep, Judged(s, ~Final))
  BY <1>1, <1>2, <1>3, CallKept
<1>4. CASE map' = map /\ (rec' = Judged(s, ~Final) \/ rec' = rec)
  BY <1>1, <1>2, <1>4, KeepingKept
<1> QED
  BY <1>3, <1>4 DEF WalkRecord

\* Every step keeps RecInv.
LEMMA RecStep ==
  ASSUME IInv, RecInv, [Next]_vars
  PROVE  RecInv' /\ Kept
<1>1. CASE disk' = disk /\ map' = map /\ rec' = rec
  BY <1>1, KeepingKept DEF RecInv
<1>2. CASE RefuseRecord
  <2>1. adding \in Segment /\ disk' = disk /\ rec' = rec /\ map' = [map EXCEPT ![adding] = "gone"]
    BY <1>2 DEF RefuseRecord, NothingAdded, GotCell, Accepted, IInv, AddingOK
  <2>2. (rec \in Keeping(rec))'
    BY <2>1 DEF RecInv, Keeping, ListOf, Base
  <2> QED
    BY <2>1, <2>2 DEF RecInv, Kept, Base, IInv, WalkTypes
<1>3. CASE AddRecord
  BY <1>3, AddKept
<1>4. CASE LookAtFetched
  <2>1. adding \in Segment /\ disk' = disk /\ map' = map /\ rec' = Judged(adding, TRUE)
    BY <1>4 DEF LookAtFetched, IInv, AddingOK
  <2> QED
    BY <2>1, JudgedKeeps, KeepingKept DEF RecInv
<1>5. CASE CheckRecord
  <2>1. cur \in Segment /\ disk' = disk /\ map' = map /\ rec' = Judged(cur, TRUE)
    BY <1>5 DEF CheckRecord, IInv, CurrentHere, WalkTypes
  <2> QED
    BY <2>1, JudgedKeeps, KeepingKept DEF RecInv
<1>6. CASE UpdateRecord
  BY <1>6, UpdateKept
<1>7. CASE CallRecord
  <2>1. cur \in Segment /\ map[cur] = "here" /\ disk' = disk
    BY <1>7 DEF CallRecord, IInv, CurrentHere, WalkTypes
  <2>2. PICK keep \in KeepAlive : CallCallback(cur, keep, rec)
    BY <1>7 DEF CallRecord
  <2> QED
    BY <2>1, <2>2, CallKept DEF RecInv
<1>8. ASSUME NEW s \in Segment, WalkRecord(s) PROVE RecInv' /\ Kept
  BY <1>8, WalkKept
<1>9. CASE EnumRecord \/ EnumFails \/ EnumEnds \/ SkipRecord \/ MakeSpace \/ FetchRecord \/ FetchFails
           \/ FetchEnds \/ UseFreed \/ CallNothing \/ WalkEnds \/ Ended \/ UNCHANGED vars
  <2>1. disk' = disk /\ map' = map /\ rec' = rec
    BY <1>9 DEF EnumRecord, EnumFails, EnumEnds, SkipRecord, NothingAdded, MakeSpace, FetchRecord, FetchFails, FetchEnds,
                UseFreed, CallNothing, WalkEnds, Ended, vars
  <2> QED
    BY <1>1, <2>1
<1> QED
  BY <1>2, <1>3, <1>4, <1>5, <1>6, <1>7, <1>8, <1>9 DEF Next, Step

LEMMA RecInit == Init => RecInv
<1> SUFFICES ASSUME Init PROVE RecInv
  OBVIOUS
<1>1. rec = [s \in Segment |-> Blank] /\ map = [s \in Segment |-> "absent"] /\ disk \in Volumes
  BY DEF Init
<1>2. rec \in [Segment -> Record]
  BY <1>1, BlankRecord
<1>3. rec \in Keeping(rec)
  BY <1>1, <1>2 DEF Keeping, Blank
<1> QED
  BY <1>1, <1>3 DEF RecInv

LEMMA Invariance == Spec => [](IInv /\ RecInv)
<1>1. IInv /\ RecInv /\ [Next]_vars => (IInv /\ RecInv)'
  BY StepIInv, RecStep
<1> QED
  BY <1>1, InitIInv, RecInit, PTL DEF Spec

-----------------------------------------------------------------------------
(***************************************************************************)
(* The types, and where the enumeration is.                                *)
(***************************************************************************)
Places == {"enum", "add", "cell", "look", "check", "fetch", "update", "call", "walk", "done", "freed"}

\* The enumeration goes over the whole table; what is processed is the segment it is at, or
\* what that one misses.
Enumeration ==
  /\ cursor \in Nat /\ (cursor \in Segment \/ \A s \in Segment : s < cursor)
  /\ cur # None => cur = cursor
  /\ adding \in Segment \cup {None}
  /\ adding # None /\ cur = None => adding = cursor
  /\ pc = "enum" => cur = None
  /\ pc \in {"add", "cell", "look"} => adding # None
  /\ pc = "walk" /\ adding = None => cursor \notin Segment /\ cur = None
  /\ pc = "done" /\ asked # "enumeration" => cursor \notin Segment
  /\ unread # {} => cursor \notin Segment

OtherTypes ==
  /\ names \in [Segment -> Segment \cup {Root, None}]
  /\ lastWalk \in Nat /\ fetched \subseteq Segment
  /\ pc \in Places /\ asked \in {"no", "enumeration", "space", "final"}
  /\ unread \subseteq Segment /\ lost \subseteq Segment

\* A read that fails puts the enumeration past the end of the table.
LEMMA EnumFailsMoves ==
  ASSUME EnumFails
  PROVE  /\ cursor' \in Nat /\ cursor' \notin Segment /\ \A s \in Segment : s < cursor'
         /\ cursor \in Segment /\ unread' = {s \in Segment : s >= cursor}
<1>1. PICK first \in Nat, last \in Nat : first <= last /\ Segment = first .. last
  BY SegmentAssumption
<1>2. last \in Segment /\ \A y \in Segment : last >= y
  BY <1>1
<1>3. Max(Segment) \in Segment /\ \A y \in Segment : Max(Segment) >= y
  BY <1>2 DEF Max
<1> QED
  BY <1>1, <1>3 DEF EnumFails

LEMMA CursorMoves ==
  ASSUME cursor \in Segment
  PROVE  cursor + 1 \in Nat /\ (cursor + 1 \in Segment \/ \A s \in Segment : s < cursor + 1)
<1>1. PICK first \in Nat, last \in Nat : Segment = first .. last
  BY SegmentAssumption
<1> QED
  BY <1>1

LEMMA NamesTyped ==
  ASSUME names \in [Segment -> Segment \cup {Root, None}], NEW r \in [Segment -> Record],
         NEW s \in Segment
  PROVE  AddDirectoryName(r, s) \in [Segment -> Segment \cup {Root, None}]
<1>1. BaseOf(r, s) \in Segment
  BY DEF BaseOf, Record
<1>2. r[BaseOf(r, s)].name \in Segment \cup {Root, None}
  BY <1>1 DEF Record
<1> QED
  BY <1>1, <1>2 DEF AddDirectoryName

LEMMA CellsNatural == Cells \in Nat
<1>1. IsFiniteSet({s \in Segment : map[s] = "here"})
  BY SegmentFinite, FS_Subset
<1> QED
  BY <1>1, FS_CardinalityType DEF Cells

LEMMA TypesStep ==
  ASSUME IInv, RecInv, OtherTypes, [Next]_vars
  PROVE  OtherTypes'
<1>1. CASE AddRecord
  <2> DEFINE base == IF disk.base[adding] # None /\ map[disk.base[adding]] = "here"
                     THEN disk.base[adding] ELSE None
  <2>1. adding \in Segment /\ VolumeOK(disk)
    BY <1>1, DiskTyped DEF AddRecord, GotCell, Accepted, IInv, AddingOK, RecInv
  <2>2. base \in Segment \cup {None} /\ (Base(adding) => base = None)
    BY <2>1 DEF VolumeOK, Base
  <2>3. names' = AddDirectoryName(ParseRecord(rec, adding, base), adding)
    BY <1>1 DEF AddRecord
  <2> HIDE DEF base
  <2>4. ParseRecord(rec, adding, base) \in Keeping(rec)
    BY <2>1, <2>2, ParseKeeps DEF RecInv
  <2>5. names' \in [Segment -> Segment \cup {Root, None}]
    BY <2>1, <2>3, <2>4, NamesTyped DEF Keeping, OtherTypes
  <2>6. lastWalk' = lastWalk /\ fetched' \subseteq fetched /\ asked' = asked /\ pc' \in {"check", "look"}
        /\ unread' = unread /\ lost' = lost
    BY <1>1 DEF AddRecord, history
  <2> QED
    BY <2>5, <2>6 DEF OtherTypes, Places
<1>2. CASE CheckRecord
  <2>1. missing \cup Missing(cur) \subseteq Segment
    BY MissingSegments DEF IInv, WalkTypes
  <2>2. /\ fetched' \subseteq Segment /\ pc' \in Places
        /\ names' = names /\ lastWalk' = lastWalk /\ asked' = asked /\ unread' = unread /\ lost' = lost
    <3>1. fetched' = fetched \/ fetched' = fetched \cup (missing \cup Missing(cur))
      BY <1>2 DEF CheckRecord
    <3>2. pc' \in {"call", "enum", "fetch"} /\ names' = names /\ lastWalk' = lastWalk /\ asked' = asked
          /\ unread' = unread /\ lost' = lost
      BY <1>2 DEF CheckRecord, NextRecord, history
    <3> QED
      BY <2>1, <3>1, <3>2 DEF OtherTypes, Places
  <2> QED
    BY <2>2 DEF OtherTypes
<1>3. CASE UpdateRecord
  <2>1. cur \in Segment /\ names' = AddDirectoryName(rec', cur)
    BY <1>3 DEF UpdateRecord, IInv, CurrentHere, WalkTypes
  <2>2. rec' \in [Segment -> Record]
    <3>1. (rec \in Keeping(rec))'
      BY <1>3, UpdateKept DEF RecInv
    <3> QED
      BY <3>1 DEF Keeping
  <2>3. names' \in [Segment -> Segment \cup {Root, None}]
    BY <2>1, <2>2, NamesTyped DEF OtherTypes
  <2>4. lastWalk' = lastWalk /\ fetched' = fetched /\ asked' = asked /\ pc' = "check"
        /\ unread' = unread /\ lost' = lost
    BY <1>3 DEF UpdateRecord, history
  <2> QED
    BY <2>3, <2>4 DEF OtherTypes, Places
<1>4. CASE CallRecord
  BY <1>4 DEF CallRecord, NextRecord, OtherTypes, Places
<1>5. ASSUME NEW s \in Segment, WalkRecord(s) PROVE OtherTypes'
  BY <1>5 DEF WalkRecord, history, OtherTypes, Places
<1>6. CASE WalkEnds
  BY <1>6, CellsNatural DEF WalkEnds, history, OtherTypes, Places
<1>7. CASE EnumRecord \/ EnumEnds \/ SkipRecord \/ MakeSpace \/ RefuseRecord \/ LookAtFetched
           \/ FetchRecord \/ FetchEnds \/ UseFreed \/ CallNothing \/ Ended \/ UNCHANGED vars
  <2>1. /\ names' = names /\ lastWalk' = lastWalk /\ fetched' = fetched /\ asked' = asked
        /\ pc' = pc \/ pc' \in {"enum", "add", "walk", "fetch", "update", "freed"}
        /\ unread' = unread /\ lost' = lost
    BY <1>7 DEF EnumRecord, EnumEnds, SkipRecord, NothingAdded, NextRecord, MakeSpace, RefuseRecord,
                LookAtFetched, FetchRecord, FetchEnds, UseFreed, CallNothing, Ended, history, vars
  <2> QED
    BY <2>1 DEF OtherTypes, Places
<1>8. CASE EnumFails \/ FetchFails
  BY <1>8 DEF EnumFails, FetchFails, IInv, WalkTypes, OtherTypes, Places
<1> QED
  BY <1>1, <1>2, <1>3, <1>4, <1>5, <1>6, <1>7, <1>8 DEF Next, Step

LEMMA EnumerationStep ==
  ASSUME IInv, Enumeration, [Next]_vars
  PROVE  Enumeration'
<1>0. None \notin Segment
  BY SegmentAssumption DEF None
<1> USE <1>0 DEF Enumeration
<1>1. CASE EnumRecord
  BY <1>1 DEF EnumRecord, history
<1>2. CASE EnumEnds
  BY <1>2 DEF EnumEnds, history, IInv, AddingOK
<1>3. CASE SkipRecord \/ RefuseRecord
  <2>1. NothingAdded /\ pc \in {"add", "cell"} /\ adding \in Segment
    BY <1>3 DEF SkipRecord, RefuseRecord, GotCell, Accepted
  <2> QED
    BY <2>1, CursorMoves DEF NothingAdded, NextRecord, history, IInv, CurrentHere
<1>4. CASE MakeSpace
  BY <1>4 DEF MakeSpace, Accepted, history
<1>5. CASE AddRecord
  <2>1. pc \in {"add", "cell"}
    BY <1>5 DEF AddRecord, GotCell, Accepted
  <2> QED
    BY <1>5, <2>1 DEF AddRecord, history
<1>6. CASE LookAtFetched
  BY <1>6 DEF LookAtFetched, history
<1>7. CASE CheckRecord
  <2>1. cur # None /\ cur = cursor /\ cursor \in Segment /\ adding = None
    BY <1>7 DEF CheckRecord, IInv, CurrentHere, AddingOK, WalkTypes
  <2>2. cursor' = cursor \/ cursor' = cursor + 1
    BY <1>7 DEF CheckRecord, NextRecord
  <2>3. asked' = asked /\ adding' = adding /\ (cur' = cur \/ cur' = None) /\ unread' = unread
        /\ pc' \in {"call", "enum", "fetch"} /\ (pc' # "enum" => cur' = cur /\ cursor' = cursor)
        /\ (pc' = "enum" => cur' = None)
    BY <1>7 DEF CheckRecord, NextRecord, history
  <2>4. cursor' \in Nat /\ (cursor' \in Segment \/ \A s \in Segment : s < cursor')
    BY <2>1, <2>2, CursorMoves
  <2> QED
    BY <2>1, <2>3, <2>4
<1>8. CASE FetchRecord
  BY <1>8 DEF FetchRecord, First, history, IInv, CurrentHere, AddingOK, WalkTypes
<1>9. CASE FetchEnds \/ UpdateRecord \/ UseFreed
  BY <1>9 DEF FetchEnds, UpdateRecord, UseFreed, history, IInv, CurrentHere, AddingOK
<1>10. CASE CallRecord \/ CallNothing
  <2>1. cur # None /\ cur = cursor /\ cursor \in Segment /\ adding = None
    BY <1>10 DEF CallRecord, CallNothing, IInv, CurrentHere, AddingOK, WalkTypes
  <2>2. /\ adding' = adding /\ cur' = None /\ unread' = unread
        /\ \/ pc' = "enum" /\ cursor' = cursor + 1
           \/ pc' = "done" /\ cursor' = cursor /\ asked' = "enumeration"
    BY <1>10 DEF CallRecord, CallNothing, NextRecord, history
  <2>3. cursor' \in Nat /\ (cursor' \in Segment \/ \A s \in Segment : s < cursor')
    BY <2>1, <2>2, CursorMoves
  <2> QED
    BY <2>1, <2>2, <2>3
<1>11. ASSUME NEW s \in Segment, WalkRecord(s) PROVE Enumeration'
  <2>1. pc = "walk" /\ pc' = "walk" /\ cursor' = cursor /\ cur' = cur /\ adding' = adding /\ unread' = unread
    BY <1>11 DEF WalkRecord, history
  <2> QED
    BY <2>1
<1>12. CASE WalkEnds
  BY <1>12 DEF WalkEnds, Final, history
<1>13. CASE EnumFails
  <2>1. cursor' \in Nat /\ cursor' \notin Segment /\ \A s \in Segment : s < cursor'
    BY <1>13, EnumFailsMoves
  <2>2. pc = "enum" /\ pc' = "enum" /\ cur' = cur /\ adding' = adding /\ asked' = asked
    BY <1>13 DEF EnumFails
  <2>3. cur = None /\ adding = None
    BY <2>2 DEF IInv, AddingOK
  <2> QED
    BY <2>1, <2>2, <2>3
<1>14. CASE FetchFails
  BY <1>14 DEF FetchFails
<1>15. CASE Ended \/ UNCHANGED vars
  BY <1>15 DEF Ended, vars
<1> QED
  BY <1>1, <1>2, <1>3, <1>4, <1>5, <1>6, <1>7, <1>8, <1>9, <1>10, <1>11, <1>12, <1>13, <1>14, <1>15 DEF Next, Step

LEMMA TypesInvariant == Spec => [](IInv /\ RecInv /\ Enumeration /\ OtherTypes)
<1>1. Init => Enumeration /\ OtherTypes
  <2> SUFFICES ASSUME Init PROVE Enumeration /\ OtherTypes
    OBVIOUS
  <2>1. Min(Segment) \in Segment /\ Segment \subseteq Nat
    <3>1. PICK first \in Nat, last \in Nat : first <= last /\ Segment = first .. last
      BY SegmentAssumption
    <3>2. \E x \in Segment : \A y \in Segment : x =< y
      <4>1. first \in Segment /\ \A y \in Segment : first =< y
        BY <3>1
      <4> QED
        BY <4>1
    <3> QED
      BY <3>1, <3>2 DEF Min
  <2> QED
    BY <2>1 DEF Init, Enumeration, OtherTypes, Places
<1>2. /\ IInv /\ RecInv /\ Enumeration /\ OtherTypes /\ [Next]_vars
      => (IInv /\ RecInv /\ Enumeration /\ OtherTypes)'
  BY StepIInv, RecStep, EnumerationStep, TypesStep
<1> QED
  BY <1>1, <1>2, InitIInv, RecInit, PTL DEF Spec

\* The type invariant, for any table and any volume: the fetches, the walks and the parses of
\* records in whatever order give segments, and the names are those of directories.
THEOREM WalkTyped == Spec => []TypeOK
<1>1. IInv /\ RecInv /\ Enumeration /\ OtherTypes => TypeOK
  BY DEF IInv, WalkTypes, Enumeration, OtherTypes, Places, TypeOK
<1> QED
  BY <1>1, TypesInvariant, PTL

-----------------------------------------------------------------------------
(***************************************************************************)
(* Everyone is called: a base record the enumeration has passed is called  *)
(* back, or it stays in the map with nothing absent from it, where the     *)
(* last walk comes to it.  It needs the attribute lists to name segments   *)
(* of their own file: a record is freed with those its list names.         *)
(***************************************************************************)
Waits(s) == map[s] = "here" /\ (rec[s].complete \/ Absent(rec[s].kids) = {})

CalledOrWaits(s) ==
  calls[s] = 1 \/ (pc # "done" /\ Waits(s) /\ (pc = "walk" /\ Final => s \in left))

Accounted ==
  /\ \A s \in Segment : Base(s) /\ Readable(s) /\ map[s] = "gone" => calls[s] = 1
  /\ \A s \in Segment : map[s] = "here" /\ called[s] => calls[s] = 1
  /\ asked = "no" => \A s \in Segment \ unread : Base(s) /\ Readable(s) /\ s < cursor => CalledOrWaits(s)

LEMMA WaitsOn ==
  ASSUME IInv, Kept, NEW s \in Segment, Base(s), Waits(s), map'[s] = "here"
  PROVE  Waits(s)'
<1>1. /\ rec'[s].kids = rec[s].kids /\ (rec[s].complete => rec'[s].complete)
      /\ \A x \in Segment : map'[x] = "absent" => map[x] = "absent"
  BY DEF Waits, Kept
<1>2. Absent(rec[s].kids) = {} => (Absent(rec[s].kids) = {})'
  BY <1>1 DEF Absent
<1> QED
  BY <1>1, <1>2 DEF Waits

\* A call of s counts, and frees no other base record.
LEMMA CallCounts ==
  ASSUME ListsOwn, IInv, RecInv, NEW s \in Segment, map[s] = "here", Callable(s), NEW keep, NEW r,
         CallCallback(s, keep, r)
  PROVE  /\ calls[s] = 0 /\ calls' = [calls EXCEPT ![s] = 1] /\ called' = [called EXCEPT ![s] = TRUE]
         /\ \A x \in Segment : x # s /\ Base(x) => map'[x] = map[x]
         /\ \A x \in Segment : map'[x] = "here" => map[x] = "here"
<1>1. calls[s] = 0
  BY DEF IInv, WalkTypes, Remembered, Callable
<1>2. calls' = [calls EXCEPT ![s] = 1] /\ called' = [called EXCEPT ![s] = TRUE]
  BY <1>1 DEF CallCallback, IInv, WalkTypes
<1>3. ASSUME NEW x \in Segment, x # s, Base(x) PROVE x \notin Deleted(s)
  <2>1. rec[s].kids \subseteq ListOf(s)
    BY DEF RecInv, Keeping
  <2>2. \A t \in DOMAIN disk.list[s] : disk.list[s][t] = s \/ disk.base[disk.list[s][t]] = s
    BY DEF ListsOwn, RecInv
  <2>3. s # None
    BY SegmentAssumption DEF None
  <2> QED
    BY <1>3, <2>1, <2>2, <2>3 DEF Deleted, ListOf, Base
<1>4. map' = map \/ map' = [x \in Segment |-> IF x \in Deleted(s) THEN "gone" ELSE map[x]]
  BY DEF CallCallback, DeleteRecord
<1>5. /\ \A x \in Segment : x # s /\ Base(x) => map'[x] = map[x]
      /\ \A x \in Segment : map'[x] = "here" => map[x] = "here"
  BY <1>3, <1>4 DEF IInv, WalkTypes
<1> QED
  BY <1>1, <1>2, <1>5

\* What a step that calls s does to who is accounted for, but for where the enumeration is.
LEMMA CallAccounts ==
  ASSUME ListsOwn, IInv, RecInv, Accounted, RecInv', Kept, NEW s \in Segment, map[s] = "here",
         Callable(s), NEW keep, NEW r, CallCallback(s, keep, r)
  PROVE  /\ \A x \in Segment : Base(x) /\ Readable(x) /\ map'[x] = "gone" => calls'[x] = 1
         /\ \A x \in Segment : map'[x] = "here" /\ called'[x] => calls'[x] = 1
         /\ \A x \in Segment : calls[x] = 1 => calls'[x] = 1
         /\ calls'[s] = 1
         /\ \A x \in Segment : Base(x) /\ Waits(x) => calls'[x] = 1 \/ Waits(x)'
<1>1. /\ calls[s] = 0 /\ calls' = [calls EXCEPT ![s] = 1] /\ called' = [called EXCEPT ![s] = TRUE]
      /\ \A x \in Segment : x # s /\ Base(x) => map'[x] = map[x]
      /\ \A x \in Segment : map'[x] = "here" => map[x] = "here"
  BY CallCounts
<1>2. calls \in [Segment -> Nat] /\ called \in [Segment -> BOOLEAN]
  BY DEF IInv, WalkTypes
<1>3. \A x \in Segment : x # s => calls'[x] = calls[x] /\ called'[x] = called[x]
  BY <1>1, <1>2
<1>4. calls'[s] = 1
  BY <1>1, <1>2
<1>5. \A x \in Segment : Base(x) /\ Readable(x) /\ map'[x] = "gone" => calls'[x] = 1
  BY <1>1, <1>3, <1>4 DEF Accounted
<1>6. \A x \in Segment : map'[x] = "here" /\ called'[x] => calls'[x] = 1
  BY <1>1, <1>3, <1>4 DEF Accounted
<1>7. \A x \in Segment : calls[x] = 1 => calls'[x] = 1
  BY <1>3, <1>4
<1>8. ASSUME NEW x \in Segment, Base(x), Waits(x), x # s PROVE Waits(x)'
  BY <1>1, <1>8, WaitsOn DEF Waits
<1> QED
  BY <1>4, <1>5, <1>6, <1>7, <1>8

\* A step that calls nobody and frees no readable base record.
Calm ==
  /\ calls' = calls
  /\ \A x \in Segment : map'[x] = "gone" => map[x] = "gone" \/ ~Readable(x)
  /\ \A x \in Segment : map'[x] = "here" /\ called'[x] => map[x] = "here" /\ called[x]

LEMMA CalmAccounts ==
  ASSUME IInv, IInv', RecInv, Accounted, Kept, Calm
  PROVE  /\ \A x \in Segment : Base(x) /\ Readable(x) /\ map'[x] = "gone" => calls'[x] = 1
         /\ \A x \in Segment : map'[x] = "here" /\ called'[x] => calls'[x] = 1
         /\ \A x \in Segment : Base(x) /\ Readable(x) /\ Waits(x) => Waits(x)'
<1>1. ASSUME NEW x \in Segment, Base(x), Readable(x), Waits(x) PROVE Waits(x)'
  <2>1. map[x] = "here" /\ map'[x] # "gone" /\ map'[x] # "absent"
    BY <1>1 DEF Waits, Calm, Kept
  <2>2. map'[x] = "here"
    BY <2>1 DEF IInv, WalkTypes
  <2> QED
    BY <1>1, <2>2, WaitsOn
<1> QED
  BY <1>1 DEF Accounted, Calm

\* The steps that call nobody and stay with the segment of the enumeration.
LEMMA StayAccounted ==
  ASSUME IInv, IInv', RecInv, Accounted, Kept, Calm, asked' = asked /\ unread' = unread, cursor' = cursor,
         pc' # "done" \/ pc = "done", (pc' = "walk" /\ Final') => pc = "walk" /\ Final /\ left' = left
  PROVE  Accounted'
<1>1. /\ \A x \in Segment : Base(x) /\ Readable(x) /\ map'[x] = "gone" => calls'[x] = 1
      /\ \A x \in Segment : map'[x] = "here" /\ called'[x] => calls'[x] = 1
      /\ \A x \in Segment : Base(x) /\ Readable(x) /\ Waits(x) => Waits(x)'
  BY CalmAccounts
<1>2. disk' = disk /\ calls' = calls
  BY DEF Kept, Calm
<1>3. ASSUME asked = "no", NEW x \in Segment \ unread, Base(x), Readable(x), x < cursor
      PROVE  CalledOrWaits(x)'
  BY <1>1, <1>2, <1>3 DEF Accounted, CalledOrWaits
<1> QED
  BY <1>1, <1>2, <1>3 DEF Accounted, Base, Readable, InUse

\* The steps that call nobody and go on to the next segment, this one being accounted for.
LEMMA NextAccounted ==
  ASSUME IInv, IInv', RecInv, Accounted, Kept, Calm, Enumeration, asked' = asked /\ unread' = unread,
         cursor \in Segment, NextRecord,
         pc # "walk" /\ pc # "done",
         \A x \in Segment : x = cursor /\ Base(x) /\ Readable(x) => calls[x] = 1 \/ Waits(x)'
  PROVE  Accounted'
<1>1. /\ \A x \in Segment : Base(x) /\ Readable(x) /\ map'[x] = "gone" => calls'[x] = 1
      /\ \A x \in Segment : map'[x] = "here" /\ called'[x] => calls'[x] = 1
      /\ \A x \in Segment : Base(x) /\ Readable(x) /\ Waits(x) => Waits(x)'
  BY CalmAccounts
<1>2. disk' = disk /\ calls' = calls /\ pc' = "enum" /\ cursor' = cursor + 1
  BY DEF Kept, Calm, NextRecord
<1>3. ASSUME asked = "no", NEW x \in Segment \ unread, Base(x), Readable(x), x < cursor'
      PROVE  CalledOrWaits(x)'
  <2>1. x < cursor \/ x = cursor
    <3>1. x \in Nat /\ cursor \in Nat
      BY SegmentAssumption
    <3> QED
      BY <1>2, <1>3, <3>1
  <2>2. calls[x] = 1 \/ Waits(x)'
    BY <1>1, <1>3, <2>1 DEF Accounted, CalledOrWaits
  <2> QED
    BY <1>2, <2>2 DEF CalledOrWaits
<1> QED
  BY <1>1, <1>2, <1>3 DEF Accounted, Base, Readable, InUse

\* Every step keeps everyone accounted for.
LEMMA AccountedStep ==
  ASSUME ListsOwn, IInv, RecInv, Enumeration, Accounted, [Next]_vars
  PROVE  Accounted'
<1>0. IInv' /\ RecInv' /\ Kept
  BY StepIInv, RecStep
<1>1. CASE EnumRecord \/ MakeSpace \/ FetchRecord \/ FetchEnds \/ UpdateRecord \/ UseFreed
           \/ LookAtFetched
  <2>1. calls' = calls /\ map' = map /\ called' = called /\ asked' = asked /\ unread' = unread /\ cursor' = cursor
    BY <1>1 DEF EnumRecord, MakeSpace, FetchRecord, FetchEnds, UpdateRecord, UseFreed, LookAtFetched,
                history
  <2>2. pc' \in {"add", "fetch", "update", "check", "freed"} \/ (pc' = "walk" /\ adding' \in Segment)
    <3>1. CASE MakeSpace
      BY <3>1 DEF MakeSpace, Accepted, IInv, AddingOK
    <3>2. CASE FetchRecord
      <4>1. pc = "fetch" /\ (pc' = "add" \/ pc' = pc)
        BY <3>2 DEF FetchRecord
      <4> QED
        BY <4>1
    <3>3. CASE EnumRecord \/ FetchEnds \/ UpdateRecord \/ UseFreed \/ LookAtFetched
      <4>1. pc' \in {"add", "update", "check", "freed", "fetch"}
        BY <3>3 DEF EnumRecord, FetchEnds, UpdateRecord, UseFreed, LookAtFetched
      <4> QED
        BY <4>1
    <3> QED
      BY <1>1, <3>1, <3>2, <3>3
  <2>3. None \notin Segment
    BY SegmentAssumption DEF None
  <2>4. Calm
    BY <2>1 DEF Calm
  <2> QED
    BY <1>0, <2>1, <2>2, <2>3, <2>4, StayAccounted DEF Final
<1>2. CASE EnumEnds
  <2>1. /\ calls' = calls /\ map' = map /\ called' = called /\ asked' = asked /\ unread' = unread /\ cursor' = cursor
        /\ pc = "enum" /\ pc' = "walk" /\ left' = Walkable
    BY <1>2 DEF EnumEnds, history
  <2>2. Calm
    BY <2>1 DEF Calm
  <2>3. /\ \A x \in Segment : Base(x) /\ Readable(x) /\ map'[x] = "gone" => calls'[x] = 1
        /\ \A x \in Segment : map'[x] = "here" /\ called'[x] => calls'[x] = 1
        /\ \A x \in Segment : Base(x) /\ Readable(x) /\ Waits(x) => Waits(x)'
    BY <1>0, <2>2, CalmAccounts
  <2>4. ASSUME asked = "no", NEW x \in Segment \ unread, Base(x), Readable(x), x < cursor
        PROVE  CalledOrWaits(x)'
    BY <2>1, <2>3, <2>4 DEF Accounted, CalledOrWaits, Walkable, Waits, Base
  <2>5. disk' = disk
    BY <1>0 DEF Kept
  <2> QED
    BY <2>1, <2>3, <2>4, <2>5 DEF Accounted, Base, Readable, InUse
<1>3. CASE SkipRecord \/ RefuseRecord
  <2>1. /\ NothingAdded /\ adding \in Segment /\ called' = called /\ calls' = calls /\ asked' = asked /\ unread' = unread
        /\ pc \in {"add", "cell"}
    BY <1>3 DEF SkipRecord, RefuseRecord, GotCell, Accepted, NothingAdded, history, IInv, AddingOK
  <2>2. /\ Calm
        /\ Base(adding) /\ Readable(adding) => calls[adding] = 1
    BY <1>3, <2>1 DEF SkipRecord, RefuseRecord, Calm, Readable, IInv, WalkTypes, Accounted
  <2>3. CASE cur = None
    <3>1. adding = cursor /\ NextRecord
      BY <2>1, <2>3, SegmentAssumption DEF Enumeration, NothingAdded, None
    <3> QED
      BY <1>0, <2>1, <2>2, <3>1, NextAccounted
  <2>4. CASE cur # None
    <3>1. cursor' = cursor /\ pc' = "fetch"
      BY <2>1, <2>4 DEF NothingAdded
    <3> QED
      BY <1>0, <2>1, <2>2, <3>1, StayAccounted
  <2> QED
    BY <2>3, <2>4
<1>4. CASE AddRecord
  <2>1. /\ adding \in Segment /\ map' = [map EXCEPT ![adding] = "here"]
        /\ called' = [called EXCEPT ![adding] = @ /\ map[adding] = "here"]
        /\ calls' = calls /\ asked' = asked /\ unread' = unread /\ cursor' = cursor /\ pc' \in {"check", "look"}
    BY <1>4 DEF AddRecord, GotCell, Accepted, history, IInv, AddingOK
  <2>2. Calm
    BY <2>1 DEF Calm, IInv, WalkTypes
  <2> QED
    BY <1>0, <2>1, <2>2, StayAccounted
<1>5. CASE CheckRecord
  <2>1. /\ cur = cursor /\ cursor \in Segment /\ map[cur] = "here" /\ pc = "check"
        /\ calls' = calls /\ map' = map /\ called' = called /\ asked' = asked /\ unread' = unread
        /\ rec' = Judged(cur, TRUE)
    BY <1>5 DEF CheckRecord, history, IInv, CurrentHere, WalkTypes, Enumeration
  <2>2. Calm
    BY <2>1 DEF Calm
  <2>3. CASE cursor' = cursor /\ pc' \in {"call", "fetch"}
    BY <1>0, <2>1, <2>2, <2>3, StayAccounted
  <2>4. CASE NextRecord /\ ~Complete(cur, TRUE) /\ missing \cup Missing(cur) = {}
    <3>1. ~rec[cur].complete /\ Absent(rec[cur].kids) = {}
      BY <2>4 DEF Complete, Missing
    <3>2. Waits(cur)
      BY <2>1, <3>1 DEF Waits
    <3>3. \A x \in Segment : x = cursor /\ Base(x) /\ Readable(x) => Waits(x)'
      BY <1>0, <2>1, <2>2, <3>2, CalmAccounts
    <3> QED
      BY <1>0, <2>1, <2>2, <2>4, <3>3, NextAccounted
  <2> QED
    BY <1>5, <2>3, <2>4 DEF CheckRecord
<1>6. CASE CallNothing
  <2>1. /\ cur = cursor /\ cursor \in Segment /\ map[cur] = "here" /\ pc = "call"
        /\ calls' = calls /\ map' = map /\ called' = called /\ asked' = asked /\ unread' = unread
        /\ ~Callable(cur) /\ NextRecord
    BY <1>6 DEF CallNothing, history, IInv, CurrentHere, WalkTypes, Enumeration
  <2>2. Calm /\ (Base(cursor) => calls[cursor] = 1)
    BY <2>1 DEF Calm, Callable, Accounted, Base
  <2> QED
    BY <1>0, <2>1, <2>2, NextAccounted
<1>7. CASE CallRecord
  <2>1. /\ cur = cursor /\ cursor \in Segment /\ map[cur] = "here" /\ pc = "call" /\ Callable(cur)
    BY <1>7 DEF CallRecord, IInv, CurrentHere, WalkTypes, Enumeration
  <2>2. PICK keep \in KeepAlive, stop \in Stops :
          /\ CallCallback(cur, keep, rec)
          /\ IF stop THEN asked' = "enumeration" ELSE NextRecord /\ asked' = asked
    BY <1>7 DEF CallRecord
  <2>3. /\ \A x \in Segment : Base(x) /\ Readable(x) /\ map'[x] = "gone" => calls'[x] = 1
        /\ \A x \in Segment : map'[x] = "here" /\ called'[x] => calls'[x] = 1
        /\ \A x \in Segment : calls[x] = 1 => calls'[x] = 1
        /\ calls'[cur] = 1
        /\ \A x \in Segment : Base(x) /\ Waits(x) => calls'[x] = 1 \/ Waits(x)'
    BY <1>0, <2>1, <2>2, CallAccounts
  <2>4. ASSUME asked' = "no", NEW x \in Segment \ unread, Base(x), Readable(x), x < cursor'
        PROVE  CalledOrWaits(x)'
    <3>1. asked = "no" /\ cursor' = cursor + 1 /\ pc' = "enum"
      BY <2>2, <2>4 DEF NextRecord
    <3>2. x < cursor \/ x = cur
      <4>1. x \in Nat /\ cursor \in Nat
        BY <2>1, SegmentAssumption
      <4> QED
        BY <2>1, <2>4, <3>1, <4>1
    <3>3. calls'[x] = 1 \/ Waits(x)'
      BY <2>3, <2>4, <3>1, <3>2 DEF Accounted, CalledOrWaits
    <3> QED
      BY <3>1, <3>3 DEF CalledOrWaits
  <2>5. disk' = disk /\ unread' = unread
    BY <1>0, <1>7 DEF Kept, CallRecord
  <2> QED
    BY <2>3, <2>4, <2>5 DEF Accounted, Base, Readable, InUse
<1>8. ASSUME NEW s \in Segment, WalkRecord(s) PROVE Accounted'
  <2>1. disk' = disk /\ pc = "walk" /\ pc' = "walk" /\ cursor' = cursor /\ adding' = adding /\ s \in left
        /\ unread' = unread
    BY <1>8 DEF WalkRecord, history
  <2>2. CASE map[s] = "here" /\ Complete(s, ~Final) /\ Callable(s)
    <3>1. PICK keep \in KeepAlive, stop \in Stops :
            /\ CallCallback(s, keep, Judged(s, ~Final))
            /\ left' = IF stop THEN {} ELSE left \ {s}
            /\ asked' = IF stop THEN (IF Final THEN "final" ELSE "space") ELSE asked
      BY <1>8, <2>2 DEF WalkRecord
    <3>2. /\ \A x \in Segment : Base(x) /\ Readable(x) /\ map'[x] = "gone" => calls'[x] = 1
          /\ \A x \in Segment : map'[x] = "here" /\ called'[x] => calls'[x] = 1
          /\ \A x \in Segment : calls[x] = 1 => calls'[x] = 1
          /\ calls'[s] = 1
          /\ \A x \in Segment : Base(x) /\ Waits(x) => calls'[x] = 1 \/ Waits(x)'
      BY <1>0, <2>2, <3>1, CallAccounts
    <3>3. asked' = "no" => asked = "no" /\ left' = left \ {s}
      BY <3>1
    <3>4. ASSUME asked' = "no", NEW x \in Segment \ unread, Base(x), Readable(x), x < cursor
          PROVE  CalledOrWaits(x)'
      BY <2>1, <3>2, <3>3, <3>4 DEF Accounted, CalledOrWaits, Final
    <3> QED
      BY <2>1, <3>2, <3>4 DEF Accounted, Base, Readable, InUse
  <2>3. CASE ~(map[s] = "here" /\ Complete(s, ~Final) /\ Callable(s))
    <3>1. /\ left' = left \ {s} /\ map' = map /\ called' = called /\ calls' = calls /\ asked' = asked /\ unread' = unread
      BY <1>8, <2>3 DEF WalkRecord, history
    <3>2. Calm
      BY <3>1 DEF Calm
    <3>3. /\ \A x \in Segment : Base(x) /\ Readable(x) /\ map'[x] = "gone" => calls'[x] = 1
          /\ \A x \in Segment : map'[x] = "here" /\ called'[x] => calls'[x] = 1
          /\ \A x \in Segment : Base(x) /\ Readable(x) /\ Waits(x) => Waits(x)'
      BY <1>0, <3>2, CalmAccounts
    <3>4. Base(s) /\ Waits(s) /\ Final => calls[s] = 1
      <4>1. ASSUME Base(s), Waits(s), Final PROVE Complete(s, ~Final)
        <5>1. rec[s].base = None
          BY <4>1 DEF RecInv, Keeping
        <5> QED
          BY <4>1, <5>1 DEF Complete, BaseOf, Orphan, Waits, Base
      <4> QED
        BY <2>3, <4>1 DEF Waits, Callable, Accounted, Base
    <3>5. ASSUME asked = "no", NEW x \in Segment \ unread, Base(x), Readable(x), x < cursor
          PROVE  CalledOrWaits(x)'
      BY <2>1, <3>1, <3>3, <3>4, <3>5 DEF Accounted, CalledOrWaits, Final
    <3> QED
      BY <2>1, <3>1, <3>3, <3>5 DEF Accounted, Base, Readable, InUse
  <2> QED
    BY <2>2, <2>3
<1>9. CASE WalkEnds
  <2>1. /\ calls' = calls /\ map' = map /\ called' = called /\ asked' = asked /\ unread' = unread /\ cursor' = cursor
        /\ rec' = rec /\ disk' = disk /\ pc = "walk" /\ left = {} /\ pc' = IF Final THEN "done" ELSE "cell"
    BY <1>9 DEF WalkEnds, history
  <2>2. Calm
    BY <2>1 DEF Calm
  <2>3. CASE Final
    <3>1. ASSUME asked = "no", NEW x \in Segment \ unread, Base(x), Readable(x), x < cursor
          PROVE  CalledOrWaits(x)'
      BY <2>1, <2>3, <3>1 DEF Accounted, CalledOrWaits
    <3> QED
      BY <2>1, <3>1 DEF Accounted, Base, Readable, InUse
  <2>4. CASE ~Final
    <3>1. pc' = "cell"
      BY <2>1, <2>4
    <3> QED
      BY <1>0, <2>1, <2>2, <3>1, StayAccounted
  <2> QED
    BY <2>3, <2>4
<1>10. CASE FetchFails
  <2>1. /\ calls' = calls /\ map' = map /\ called' = called /\ asked' = asked /\ unread' = unread
        /\ cursor' = cursor /\ pc = "fetch" /\ pc' = "fetch"
    BY <1>10 DEF FetchFails
  <2>2. Calm
    BY <2>1 DEF Calm
  <2> QED
    BY <1>0, <2>1, <2>2, StayAccounted
<1>11. CASE EnumFails
  <2>1. /\ calls' = calls /\ map' = map /\ called' = called /\ asked' = asked /\ disk' = disk
        /\ pc = "enum" /\ pc' = "enum"
    BY <1>11 DEF EnumFails
  <2>2. Calm
    BY <2>1 DEF Calm
  <2>3. /\ \A x \in Segment : Base(x) /\ Readable(x) /\ map'[x] = "gone" => calls'[x] = 1
        /\ \A x \in Segment : map'[x] = "here" /\ called'[x] => calls'[x] = 1
        /\ \A x \in Segment : Base(x) /\ Readable(x) /\ Waits(x) => Waits(x)'
    BY <1>0, <2>2, CalmAccounts
  <2>4. ASSUME asked = "no", NEW x \in Segment \ unread', Base(x), Readable(x)
        PROVE  CalledOrWaits(x)'
    <3>1. cursor \in Segment /\ unread' = {y \in Segment : y >= cursor} /\ unread = {}
      BY <1>11, EnumFailsMoves DEF Enumeration
    <3>2. x < cursor /\ x \notin unread
      BY <3>1, SegmentAssumption
    <3>3. CalledOrWaits(x)
      BY <2>4, <3>2 DEF Accounted
    <3> QED
      BY <2>1, <2>3, <2>4, <3>3 DEF CalledOrWaits
  <2> QED
    BY <2>1, <2>3, <2>4 DEF Accounted, Base, Readable, InUse
<1>12. CASE Ended \/ UNCHANGED vars
  <2>1. UNCHANGED vars
    BY <1>12 DEF Ended
  <2>2. Calm /\ asked' = asked /\ unread' = unread /\ cursor' = cursor /\ pc' = pc /\ adding' = adding /\ left' = left
    BY <2>1 DEF vars, Calm
  <2> QED
    BY <1>0, <2>2, StayAccounted DEF Final
<1> QED
  BY <1>1, <1>2, <1>3, <1>4, <1>5, <1>6, <1>7, <1>8, <1>9, <1>10, <1>11, <1>12 DEF Next, Step

\* If attribute lists name segments of their own file, a walk nobody stopped has called back
\* every file whose base record can be read and is one the enumeration came to: in the
\* enumeration, to make space, or in the last walk, whatever was fetched out of order and freed in
\* between, and whatever reads of the table failed, in a fetch or in the enumeration itself.
THEOREM WalkCallsEveryone == ASSUME ListsOwn PROVE Spec => []EveryoneCalled
<1>1. Init => Accounted
  <2>1. Init => \A s \in Segment : ~(s < cursor)
    <3>1. PICK first \in Nat, last \in Nat : first <= last /\ Segment = first .. last
      BY SegmentAssumption
    <3>2. Min(Segment) = first
      <4>1. first \in Segment /\ \A y \in Segment : first =< y
        BY <3>1
      <4>2. Min(Segment) \in Segment /\ \A y \in Segment : Min(Segment) =< y
        BY <4>1 DEF Min
      <4> QED
        BY <3>1, <4>1, <4>2
    <3> QED
      BY <3>1, <3>2 DEF Init
  <2> QED
    BY <2>1 DEF Init, Accounted
<1>2. IInv /\ RecInv /\ Enumeration /\ Accounted /\ [Next]_vars => Accounted'
  BY AccountedStep
<1>3. Enumeration /\ Accounted => EveryoneCalled
  <2> SUFFICES ASSUME Enumeration, Accounted, pc = "done", asked = "no",
                      NEW s \in Segment \ unread, Base(s), Readable(s)
               PROVE  calls[s] = 1
    BY DEF EveryoneCalled
  <2>1. s < cursor
    BY DEF Enumeration
  <2> QED
    BY <2>1 DEF Accounted, CalledOrWaits
<1> QED
  BY <1>1, <1>2, <1>3, TypesInvariant, PTL DEF Spec

-----------------------------------------------------------------------------
(***************************************************************************)
(* A file is called back whole.  What makes CalledWhole inductive, for a   *)
(* volume all of whose segments have their signature:                      *)
(*   Records     what the records of the map hold is on the volume, and    *)
(*               what is in the map of a file was found by its base record *)
(*   Present     what is in the map can be read; a child that is gone went *)
(*               with its base; only the record of the callback is without *)
(*   Judgements  a record found complete lacks no segment and no name      *)
(*   Names       a directory whose name can be known has it, but while the *)
(*               segment that tells it is being tied to it                 *)
(*   Fetching    what is fetched is of the file of the callback, or of the *)
(*               directories above it; any other directory without a name  *)
(*               lacks no segment                                          *)
(*   Ready       the record that is about to be called back is whole       *)
(*   Seen        so were those that were called back                       *)
(***************************************************************************)
\* The condition of CalledWhole on the volume.
Signed == \A s \in Segment : disk.signature[s]

\* The base record of the file of a segment.
FileOf(s) == IF Base(s) THEN s ELSE disk.base[s]

\* The directories from d up to the root.
Above(d) ==
  {y \in Segment : d \in Segment /\ \A A \in SUBSET Segment :
     d \in A /\ (\A z \in A : disk.parent[z] \in Segment => disk.parent[z] \in A) => y \in A}

Here(s) == map[s] = "here"
FoundIn(q, s) == {t \in DOMAIN q[s].entries : q[s].entries[t].found # None}

\* The record of a base segment x, given the map m: what was found is in the map.
BaseShape(q, m, x) ==
  /\ q[x].parsed /\ q[x].base = None /\ q[x].kids = ListOf(x)
  /\ \A t \in DOMAIN disk.list[x] : t \in DOMAIN q[x].entries /\ q[x].entries[t].listed = disk.list[x][t]
  /\ \A t \in DOMAIN q[x].entries \ DOMAIN disk.list[x] : q[x].entries[t].listed = None
  /\ \A t \in DOMAIN q[x].entries : LET h == q[x].entries[t].found IN
       h # None => m[h] = "here" /\ FileOf(h) = x /\ t \in disk.holds[h]
  /\ q[x].name \in {None, disk.parent[x]}
  /\ "$FILE_NAME" \in FoundIn(q, x) => q[x].name # None
  /\ "$INDEX_ROOT" \in FoundIn(q, x) => q[x].directory

\* And what is in the map was found.
BaseRecord(q, m, x) ==
  /\ BaseShape(q, m, x)
  /\ \A h \in Segment : m[h] = "here" /\ FileOf(h) = x => disk.holds[h] \subseteq FoundIn(q, x)

\* The record of a segment x of a file whose base record is another.
ChildRecord(q, m, x) ==
  /\ q[x].kids = {} /\ q[x].base \in {None, disk.base[x]}
  /\ q[x].base = None => ~q[x].parsed /\ ~q[x].complete
  /\ ~q[x].parsed => q[x].name = None /\ DOMAIN q[x].entries = {}
  /\ q[x].base # None => m[disk.base[x]] # "absent" /\ (x \in ListOf(disk.base[x]) => m[disk.base[x]] = "here")
  /\ \A t \in DOMAIN q[x].entries : t \in disk.holds[x]
  /\ m[disk.base[x]] = "here" /\ x \in ListOf(disk.base[x]) => q[x].parsed /\ q[x].base # None

Records(q, m) ==
  \A x \in Segment :
    /\ m[x] # "here" => q[x] = Blank
    /\ m[x] = "here" /\ Base(x) => BaseRecord(q, m, x)
    /\ m[x] = "here" /\ ~Base(x) => ChildRecord(q, m, x)

\* What is in the map, and what is no longer there.  A record waits for its base record only while
\* it is the one being completed, or when a failed read lost the base record.
Present ==
  \A x \in Segment :
    /\ map[x] = "here" => Readable(x)
    /\ map[x] = "gone" /\ Readable(x) /\ ~Base(x) => map[disk.base[x]] = "gone"
    /\ x < cursor /\ x \notin unread => map[x] # "absent"
    /\ x = cur => map[x] # "absent"
    /\ map[x] = "here" /\ ~Base(x) /\ map[disk.base[x]] = "absent" => x = cur \/ disk.base[x] \in lost
    /\ x \in left => Base(x)
    /\ pc = "look" /\ x = adding => map[x] = "here"

\* Nothing on the list of x is missing; nothing is but what failed reads lost.
Whole(x) == Absent(ListOf(x)) = {}
WholeButLost(x) == Absent(ListOf(x)) \subseteq lost

\* The definition of Lacking, for any names.
LackingIn(n, d) ==
  LET up[x \in Segment \cup {Root}] ==
        IF x = Root THEN {} ELSE IF n[x] = None THEN {x} ELSE up[n[x]]
  IN IF d = None THEN {} ELSE up[d]

\* A record that was found complete.
Judgements ==
  \A x \in Segment : map[x] = "here" /\ rec[x].complete /\ map[FileOf(x)] = "here" =>
    Whole(FileOf(x)) /\ (cursor \in Segment => LackingIn(names, rec[FileOf(x)].name) = {})

Path == {"$FILE_NAME", "$INDEX_ROOT"}
Outside == {"fetch", "add", "cell", "look", "update", "walk", "freed"}
Window(x) == cur # None /\ x = disk.base[cur] /\ pc \in Outside
\* The names of directories.
Names ==
  \A x \in Segment :
    /\ names[x] # None => Base(x) /\ names[x] = disk.parent[x] /\ map[x] # "absent"
    /\ names[x] = None /\ Base(x) /\ map[x] = "here" /\ Path \subseteq FoundIn(rec, x) =>
         x \in lost \/ (Window(x) /\ cur \in ListOf(x))
    /\ names[x] = None /\ Base(x) /\ map[x] = "gone" /\ Got(x) /\ Path \subseteq Legible(x) =>
         Window(x) /\ map[cur] = "gone"

\* A directory without a name that lacks a segment no failed read has lost.
Loose(d, k) ==
  /\ Base(d) /\ map[d] = "here" /\ names[d] = None
  /\ k \in ListOf(d) /\ map[k] = "absent" /\ k \notin lost
OnPath(z) == LET b == FileOf(cur) IN Here(b) /\ rec[b].name # None /\ z \in Above(disk.parent[b])
Class(z) == z = FileOf(cur) \/ OnPath(z) \/ LackingIn(names, z) = {}
Owed(z) == Class(FileOf(z)) /\ (~Base(z) => z \in ListOf(disk.base[z]) /\ map[disk.base[z]] # "absent")
Pending == missing \cup toFetch \cup ({adding} \ {None})

Fetching ==
  /\ cur = None \/ pc \in {"update", "check", "call"} => toFetch = {}
  /\ cur # None =>
       /\ \A z \in Pending : Owed(z)
       /\ \A x \in fetched : map[x] # "absent" \/ x \in toFetch \cup {adding} \/ x \in lost
       /\ \A d, k \in Segment : Loose(d, k) =>
            \/ d = FileOf(cur)
            \/ OnPath(d) /\ (k \in missing \cup fetched \/ (pc = "look" /\ adding = d))
  /\ cur = None => \A d, k \in Segment : ~Loose(d, k)
  /\ pc = "check" /\ ~Base(cur) /\ map[disk.base[cur]] = "here" => rec[cur].base # None

Hopeless(d) == Base(d) /\ Got(d) => ~(Path \subseteq Legible(d))
\* When the callback is called, only what failed reads lost is missing.
Ready ==
  pc = "call" =>
    /\ map[FileOf(cur)] # "absent" \/ FileOf(cur) \in lost
    /\ \A d, k \in Segment : ~Loose(d, k)
    /\ Base(cur) => WholeButLost(cur) /\ \A d \in LackingIn(names, rec[cur].name) : Hopeless(d)

\* What the records that were called back were seen with.
Seen ==
  /\ DOMAIN seen = Segment
  /\ \A s \in Segment : calls[s] > 0 =>
       Legible(s) \subseteq seen[s].types /\ \A d \in seen[s].lacking : Hopeless(d)

WholeInv == Signed => Records(rec, map) /\ Present /\ Judgements /\ Names /\ Fetching /\ Ready /\ Seen

\* Lacking is the recursion over the names of directories.
LEMMA LackingThere == ASSUME NEW d PROVE Lacking(d) = LackingIn(names, d)
BY DEF Lacking, LackingIn

\* The recursion over the directories has a solution: the members that every set with d and with
\* the directories of its members has.
LEMMA LackingSteps ==
  ASSUME NEW n \in [Segment -> Segment \cup {Root, None}]
  PROVE  /\ LackingIn(n, None) = {} /\ LackingIn(n, Root) = {}
         /\ \A d \in Segment : LackingIn(n, d) = IF n[d] = None THEN {d} ELSE LackingIn(n, n[d])
<1> DEFINE Place == Segment \cup {Root}
           Closed(A) == \A z \in A : z \in Segment /\ n[z] # None => n[z] \in A
           top(x) == {y \in Segment : n[y] = None /\ \A A \in SUBSET Place : x \in A /\ Closed(A) => y \in A}
           step(f, x) == IF x = Root THEN {} ELSE IF n[x] = None THEN {x} ELSE f[n[x]]
           g == [x \in Place |-> top(x)]
           up == CHOOSE f : f = [x \in Place |-> step(f, x)]
<1>0. None \notin Place /\ Root \notin Segment /\ \A z \in Segment : n[z] # None => n[z] \in Place
  BY SegmentAssumption DEF None
<1>1. ASSUME NEW x \in Place PROVE top(x) = step(g, x)
  <2>1. CASE x = Root
    <3>1. {x} \in SUBSET Place /\ Closed({x})
      BY <1>0, <2>1
    <3>2. top(x) = {}
      BY <1>0, <2>1, <3>1
    <3> QED
      BY <2>1, <3>2
  <2>2. CASE x \in Segment /\ n[x] = None
    <3>1. {x} \in SUBSET Place /\ Closed({x})
      BY <2>2
    <3>2. top(x) = {x}
      BY <2>2, <3>1
    <3> QED
      BY <1>0, <2>2, <3>2
  <2>3. CASE x \in Segment /\ n[x] # None
    <3>1. n[x] \in Place /\ step(g, x) = top(n[x])
      BY <1>0, <2>3
    <3>2. ASSUME NEW y \in top(n[x]) PROVE y \in top(x)
      <4>1. \A A \in SUBSET Place : x \in A /\ Closed(A) => n[x] \in A
        BY <2>3
      <4> QED
        BY <3>2, <4>1
    <3>3. ASSUME NEW y \in top(x) PROVE y \in top(n[x])
      <4>1. ASSUME NEW A \in SUBSET Place, n[x] \in A, Closed(A) PROVE y \in A
        <5>1. A \cup {x} \in SUBSET Place /\ x \in A \cup {x} /\ Closed(A \cup {x})
          BY <4>1
        <5>2. y \in A \cup {x}
          BY <3>3, <5>1
        <5>3. y # x
          BY <2>3, <3>3
        <5> QED
          BY <5>2, <5>3
      <4> QED
        BY <3>3, <4>1
    <3> QED
      BY <3>1, <3>2, <3>3
  <2> QED
    BY <2>1, <2>2, <2>3
<1>2. g = [x \in Place |-> step(g, x)]
  BY <1>1
<1> HIDE DEF g
<1>3. up = [x \in Place |-> step(up, x)]
  BY <1>2
<1>4. \A d : LackingIn(n, d) = IF d = None THEN {} ELSE up[d]
  BY DEF LackingIn
<1> HIDE DEF up
<1>5. \A d \in Place : up[d] = step(up, d)
  BY <1>3
<1> QED
  BY <1>0, <1>4, <1>5

\* The names that a walk has found so far are those of the volume.
NamesOf(n) ==
  /\ n \in [Segment -> Segment \cup {Root, None}]
  /\ \A x \in Segment : n[x] # None => n[x] = disk.parent[x]

\* What is above a directory: the directory, and all that is above what is.
LEMMA AboveSteps ==
  ASSUME NEW d
  PROVE  /\ Above(d) \subseteq Segment /\ (d \in Segment => d \in Above(d))
         /\ \A z \in Above(d) : Above(z) \subseteq Above(d)
         /\ \A z \in Above(d) : disk.parent[z] \in Segment => disk.parent[z] \in Above(d)
         /\ d \in Segment => Above(disk.parent[d]) \subseteq Above(d)
<1> DEFINE Closed(A) == \A z \in A : disk.parent[z] \in Segment => disk.parent[z] \in A
<1>1. \A x, y : y \in Above(x) <=> y \in Segment /\ x \in Segment /\ \A A \in SUBSET Segment : x \in A /\ Closed(A) => y \in A
  BY DEF Above
<1> QED
  BY <1>1

\* A path lacks a name when a directory above has none, for want of cycles.
LEMMA LackingAbove ==
  ASSUME disk \in Volumes, VolumesSound, NEW n, NamesOf(n), NEW d \in Segment \cup {Root}
  PROVE  /\ \A y \in LackingIn(n, d) : y \in Above(d) /\ n[y] = None
         /\ LackingIn(n, d) = {} <=> \A y \in Above(d) : n[y] # None
         /\ LackingIn(n, None) = {}
<1>1. /\ \A D \in SUBSET Segment : D # {} => \E s \in D : disk.parent[s] \notin D
      /\ disk.parent \in [Segment -> Segment \cup {Root}]
  BY DiskTyped DEF VolumesSound, VolumeSound, VolumeOK
<1>2. n \in [Segment -> Segment \cup {Root, None}] /\ \A x \in Segment : n[x] # None => n[x] = disk.parent[x]
  BY DEF NamesOf
<1>3. /\ LackingIn(n, None) = {} /\ LackingIn(n, Root) = {}
      /\ \A x \in Segment : LackingIn(n, x) = IF n[x] = None THEN {x} ELSE LackingIn(n, n[x])
  BY <1>2, LackingSteps
<1>4. None \notin Segment /\ Root \notin Segment
  BY SegmentAssumption DEF None
<1> DEFINE Good(x) == /\ \A y \in LackingIn(n, x) : y \in Above(x) /\ n[y] = None
                      /\ LackingIn(n, x) = {} => \A y \in Above(x) : n[y] # None
           D == {x \in Segment : ~Good(x)}
<1>5. Good(Root)
  BY <1>3, <1>4 DEF Above
<1>6. ASSUME NEW x \in Segment, Good(disk.parent[x]) PROVE Good(x)
  <2>1. CASE n[x] = None
    <3>1. LackingIn(n, x) = {x} /\ x \in Above(x)
      BY <1>3, <2>1, AboveSteps
    <3> QED
      BY <2>1, <3>1
  <2>2. CASE n[x] # None
    <3>1. LackingIn(n, x) = LackingIn(n, disk.parent[x])
      BY <1>2, <1>3, <2>2
    <3>2. Above(disk.parent[x]) \subseteq Above(x)
      BY AboveSteps
    <3>3. ASSUME LackingIn(n, x) = {}, NEW y \in Above(x) PROVE n[y] # None
      <4>1. \A z \in Above(disk.parent[x]) : n[z] # None
        BY <1>6, <3>1, <3>3
      <4> DEFINE A == {x} \cup Above(disk.parent[x])
      <4>2. A \in SUBSET Segment /\ x \in A
        BY AboveSteps
      <4>3. \A z \in A : disk.parent[z] \in Segment => disk.parent[z] \in A
        BY AboveSteps
      <4>4. y \in A
        <5> HIDE DEF A
        <5> QED
          BY <4>2, <4>3 DEF Above
      <4> QED
        BY <2>2, <4>1, <4>4
    <3> QED
      BY <1>6, <3>1, <3>2, <3>3
  <2> QED
    BY <2>1, <2>2
<1>7. D = {}
  <2>1. SUFFICES ASSUME D # {} PROVE FALSE
    OBVIOUS
  <2>2. PICK x \in D : disk.parent[x] \notin D
    BY <1>1, <2>1
  <2>3. x \in Segment /\ ~Good(x) /\ disk.parent[x] \in Segment \cup {Root}
    BY <1>1, <2>2
  <2>4. Good(disk.parent[x])
    BY <1>5, <2>2, <2>3
  <2> QED
    BY <1>6, <2>3, <2>4
<1>8. Good(d)
  BY <1>5, <1>7
<1> QED
  BY <1>3, <1>8

-----------------------------------------------------------------------------
(***************************************************************************)
(* What a parse makes of the records.                                      *)
(***************************************************************************)
\* The volume, in the terms of the files.
LEMMA DiskSound ==
  ASSUME disk \in Volumes, VolumesSound
  PROVE  /\ VolumeOK(disk)
         /\ \A s \in Segment : /\ FileOf(s) \in Segment /\ Base(FileOf(s)) /\ (Base(s) => FileOf(s) = s)
                               /\ disk.parent[s] = disk.parent[FileOf(s)]
                               /\ disk.parent[s] \in Segment \cup {Root}
                               /\ disk.parent[s] # Root => Base(disk.parent[s])
         /\ \A s \in Segment : ~Base(s) => /\ disk.base[s] \in Segment /\ disk.base[s] = FileOf(s) /\ disk.base[s] # s
                                           /\ DOMAIN disk.list[s] = {} /\ ListOf(s) = {}
         /\ \A s \in Segment : Base(s) => ListOf(s) \subseteq {h \in Segment : FileOf(h) = s}
         /\ \A h \in Segment : \A t \in disk.holds[h] :
              /\ t \in DOMAIN disk.list[FileOf(h)] => disk.list[FileOf(h)][t] = h
              /\ ~Base(h) => t \in DOMAIN disk.list[FileOf(h)] /\ h \in ListOf(FileOf(h))
<1>1. VolumeOK(disk) /\ VolumeSound(disk) /\ None \notin Segment
  BY DiskTyped, SegmentAssumption DEF VolumesSound, None
<1>2. \A s \in Segment : disk.base[s] \in Segment \cup {None} /\ (disk.base[s] # None => disk.base[disk.base[s]] = None)
  BY <1>1 DEF VolumeOK
<1>3. \A s \in Segment : /\ FileOf(s) \in Segment /\ Base(FileOf(s)) /\ (Base(s) => FileOf(s) = s)
                         /\ ~Base(s) => disk.base[s] \in Segment /\ disk.base[s] = FileOf(s) /\ disk.base[s] # s
  BY <1>1, <1>2 DEF FileOf, Base
<1>4. \A s \in Segment : /\ disk.parent[s] = disk.parent[FileOf(s)]
                         /\ disk.parent[s] \in Segment \cup {Root}
                         /\ disk.parent[s] # Root => Base(disk.parent[s])
  BY <1>1 DEF VolumeOK, VolumeSound, FileOf, Base
<1>5. \A s \in Segment : ~Base(s) => DOMAIN disk.list[s] = {} /\ ListOf(s) = {}
  BY <1>1 DEF VolumeSound, Base, ListOf
<1>6. ASSUME NEW s \in Segment, Base(s), NEW h \in ListOf(s) PROVE h \in Segment /\ FileOf(h) = s
  <2>1. PICK t \in DOMAIN disk.list[s] : h = disk.list[s][t]
    BY <1>6 DEF ListOf
  <2>2. h \in Segment /\ (h = s \/ disk.base[h] = s)
    BY <1>1, <1>6, <2>1 DEF VolumeOK, VolumeSound, Base
  <2> QED
    BY <1>1, <1>6, <2>2 DEF FileOf, Base
<1>7. ASSUME NEW h \in Segment, NEW t \in disk.holds[h]
      PROVE  /\ t \in DOMAIN disk.list[FileOf(h)] => disk.list[FileOf(h)][t] = h
             /\ ~Base(h) => t \in DOMAIN disk.list[FileOf(h)] /\ h \in ListOf(FileOf(h))
  <2>1. CASE Base(h)
    BY <1>1, <1>7, <2>1 DEF VolumeSound, FileOf, Base
  <2>2. CASE ~Base(h)
    <3>1. FileOf(h) = disk.base[h] /\ FileOf(h) \in Segment /\ Base(FileOf(h))
      BY <1>3, <2>2
    <3>2. t \in DOMAIN disk.list[FileOf(h)] /\ disk.list[FileOf(h)][t] = h
      BY <1>1, <1>7, <3>1 DEF VolumeSound, Base
    <3> QED
      BY <3>2 DEF ListOf
  <2> QED
    BY <2>1, <2>2
<1> QED
  BY <1>1, <1>3, <1>4, <1>5, <1>6, <1>7

\* What Enter makes of the entries of a list.
LEMMA EnterFacts ==
  ASSUME NEW entries, NEW s
  PROVE  /\ DOMAIN Enter(entries, s) = DOMAIN entries \cup disk.holds[s]
         /\ \A t \in DOMAIN entries \cup disk.holds[s] :
              /\ Enter(entries, s)[t].listed = IF t \in DOMAIN entries THEN entries[t].listed ELSE None
              /\ Enter(entries, s)[t].found = IF t \in disk.holds[s] THEN s ELSE entries[t].found
BY DEF Enter

\* What Filled makes of a record.
LEMMA FilledFacts ==
  ASSUME NEW record \in Record, NEW s, NEW entries
  PROVE  /\ Filled(record, s, entries).entries = Enter(entries, s)
         /\ Filled(record, s, entries).name =
              IF "$FILE_NAME" \in disk.holds[s] THEN disk.parent[s] ELSE record.name
         /\ Filled(record, s, entries).directory = (record.directory \/ "$INDEX_ROOT" \in disk.holds[s])
BY DEF Filled, Record

\* A base record that is read for the first time.
LEMMA ParseBase ==
  ASSUME disk \in Volumes, VolumesSound, NEW q \in [Segment -> Record], NEW s \in Segment, Base(s), q[s] = Blank,
         NEW m, m[s] = "here"
  PROVE  LET r == ParseRecord(q, s, None) IN
         /\ r \in [Segment -> Record] /\ \A x \in Segment \ {s} : r[x] = q[x]
         /\ BaseShape(r, m, s) /\ FoundIn(r, s) = disk.holds[s] /\ ~r[s].complete
<1> DEFINE listed == Listed(s)
           filled == Filled(q[s], s, listed)
           own == [filled EXCEPT !.base = None, !.parsed = TRUE, !.kids = ListOf(s)]
<1>1. VolumeOK(disk) /\ FileOf(s) = s /\ None \notin Segment /\ disk.parent[s] # None
  BY DiskSound, SegmentAssumption DEF None
<1>2. q[s].base = None /\ ~q[s].parsed /\ q[s].name = None /\ ~q[s].directory /\ ~q[s].complete
  BY DEF Blank
<1>3. listed \in Entries /\ DOMAIN listed = DOMAIN disk.list[s]
      /\ \A t \in DOMAIN listed : listed[t].listed = disk.list[s][t] /\ listed[t].found = None
  BY <1>1, ListedTyped DEF Listed
<1> HIDE DEF listed
<1>4. /\ filled \in Record /\ filled.complete = q[s].complete /\ filled.entries = Enter(listed, s)
      /\ filled.name = IF "$FILE_NAME" \in disk.holds[s] THEN disk.parent[s] ELSE None
      /\ filled.directory = ("$INDEX_ROOT" \in disk.holds[s])
  <2>1. filled \in Record /\ filled.complete = q[s].complete
    BY <1>1, <1>3, FilledTyped
  <2>2. q[s].directory = FALSE
    BY <1>2 DEF Blank
  <2> QED
    BY <1>2, <2>1, <2>2, FilledFacts
<1>5. ListOf(s) \in SUBSET Segment
  BY <1>1 DEF ListOf, VolumeOK
<1>6. ParseRecord(q, s, None) = [q EXCEPT ![s] = own]
  BY <1>2 DEF ParseRecord, ListOf, Base, listed
<1> HIDE DEF filled
<1>7. /\ own \in Record /\ own.base = None /\ own.parsed = TRUE /\ own.kids = ListOf(s)
      /\ own.complete = q[s].complete /\ own.entries = Enter(listed, s)
      /\ own.name = filled.name /\ own.directory = filled.directory
  BY <1>4, <1>5 DEF Record
<1> HIDE DEF own
<1> DEFINE r == [q EXCEPT ![s] = own]
           e == Enter(listed, s)
<1>8. r \in [Segment -> Record] /\ r[s] = own /\ \A x \in Segment \ {s} : r[x] = q[x]
  BY <1>7
<1> HIDE DEF r
<1>9. /\ DOMAIN e = DOMAIN disk.list[s] \cup disk.holds[s]
      /\ \A t \in DOMAIN e : /\ e[t].listed = IF t \in DOMAIN disk.list[s] THEN disk.list[s][t] ELSE None
                             /\ e[t].found = IF t \in disk.holds[s] THEN s ELSE None
  <2>1. /\ DOMAIN e = DOMAIN listed \cup disk.holds[s]
        /\ \A t \in DOMAIN listed \cup disk.holds[s] :
             /\ e[t].listed = IF t \in DOMAIN listed THEN listed[t].listed ELSE None
             /\ e[t].found = IF t \in disk.holds[s] THEN s ELSE listed[t].found
    BY EnterFacts
  <2> HIDE DEF e
  <2> QED
    BY <1>3, <2>1
<1> HIDE DEF e
<1>10. r[s].entries = e
  BY <1>7, <1>8 DEF e
<1>11. FoundIn(r, s) = disk.holds[s]
  BY <1>1, <1>9, <1>10 DEF FoundIn
<1>12. BaseShape(r, m, s)
  BY <1>1, <1>4, <1>7, <1>8, <1>9, <1>10, <1>11 DEF BaseShape
<1>13. ~r[s].complete
  BY <1>2, <1>7, <1>8
<1> QED
  BY <1>6, <1>8, <1>11, <1>12, <1>13 DEF r

\* Another segment of a file whose base record is in the map.
LEMMA ParseChild ==
  ASSUME disk \in Volumes, VolumesSound, NEW q \in [Segment -> Record], NEW s \in Segment, ~Base(s),
         NEW m, m[s] = "here", BaseShape(q, m, disk.base[s]),
         ~q[s].parsed, q[s].base \in {None, disk.base[s]}, DOMAIN q[s].entries = {},
         NEW b, b = disk.base[s], NEW r, r = ParseRecord(q, s, b)
  PROVE  /\ r \in [Segment -> Record] /\ \A x \in Segment \ {s, b} : r[x] = q[x]
         /\ BaseShape(r, m, b) /\ FoundIn(r, b) = FoundIn(q, b) \cup disk.holds[s]
         /\ \A x \in Segment : r[x].complete = q[x].complete
         /\ r[b].name = IF "$FILE_NAME" \in disk.holds[s] THEN disk.parent[b] ELSE q[b].name
         /\ r[s].parsed /\ r[s].base = b /\ r[s].kids = ListOf(s) /\ DOMAIN r[s].entries = disk.holds[s]
<1> DEFINE filled == Filled(q[s], s, q[s].entries)
           own == [filled EXCEPT !.base = b, !.parsed = TRUE, !.kids = {}]
           other == Filled(q[b], s, q[b].entries)
<1>1. /\ VolumeOK(disk) /\ FileOf(s) = b /\ None \notin Segment /\ b \in Segment /\ b # s
      /\ disk.parent[s] = disk.parent[b] /\ disk.parent[b] # None
  <2>1. None \notin Segment /\ Root # None
    BY SegmentAssumption DEF None
  <2>2. VolumeOK(disk) /\ b \in Segment /\ FileOf(s) = b /\ b # s
    BY DiskSound
  <2>3. disk.parent[s] = disk.parent[b] /\ disk.parent[b] \in Segment \cup {Root}
    BY <2>2, DiskSound
  <2> QED
    BY <2>1, <2>2, <2>3
<1>2. \A t \in disk.holds[s] : t \in DOMAIN disk.list[b] /\ disk.list[b][t] = s
  BY <1>1, DiskSound
<1>3. q[s] \in Record /\ q[b] \in Record /\ q[s].entries \in Entries /\ q[b].entries \in Entries
  BY <1>1 DEF Record
<1>4. /\ filled \in Record /\ filled.complete = q[s].complete /\ filled.entries = Enter(q[s].entries, s)
      /\ other \in Record /\ other.complete = q[b].complete /\ other.parsed = q[b].parsed
      /\ other.base = q[b].base /\ other.kids = q[b].kids
      /\ other.entries = Enter(q[b].entries, s)
      /\ other.name = IF "$FILE_NAME" \in disk.holds[s] THEN disk.parent[s] ELSE q[b].name
      /\ other.directory = (q[b].directory \/ "$INDEX_ROOT" \in disk.holds[s])
  <2>1. /\ filled \in Record /\ filled.complete = q[s].complete
        /\ other \in Record /\ other.complete = q[b].complete /\ other.parsed = q[b].parsed
        /\ other.base = q[b].base /\ other.kids = q[b].kids
    BY <1>1, <1>3, FilledTyped, ZenonT(60)
  <2>2. /\ filled.entries = Enter(q[s].entries, s) /\ other.entries = Enter(q[b].entries, s)
        /\ other.name = IF "$FILE_NAME" \in disk.holds[s] THEN disk.parent[s] ELSE q[b].name
        /\ other.directory = (q[b].directory \/ "$INDEX_ROOT" \in disk.holds[s])
    BY <1>3, FilledFacts
  <2> QED
    BY <2>1, <2>2
<1>5. ParseRecord(q, s, b) = [q EXCEPT ![s] = own, ![b] = other]
  <2>1. b # None /\ disk.base[s] # None /\ {disk.list[s][t] : t \in DOMAIN disk.list[s]} = {}
    BY <1>1, DiskSound
  <2> QED
    BY <2>1 DEF ParseRecord
<1> HIDE DEF filled, other
<1>6. /\ own \in Record /\ own.base = b /\ own.parsed = TRUE /\ own.kids = {}
      /\ own.complete = q[s].complete /\ own.entries = Enter(q[s].entries, s)
  BY <1>1, <1>4 DEF Record
<1> HIDE DEF own
<1> DEFINE e == Enter(q[b].entries, s)
<1>7. /\ r \in [Segment -> Record] /\ r[s] = own /\ r[b] = other
      /\ \A x \in Segment \ {s, b} : r[x] = q[x]
  BY <1>1, <1>4, <1>5, <1>6
<1>8. /\ DOMAIN e = DOMAIN q[b].entries \cup disk.holds[s]
      /\ \A t \in DOMAIN e : /\ e[t].listed = IF t \in DOMAIN q[b].entries THEN q[b].entries[t].listed ELSE None
                             /\ e[t].found = IF t \in disk.holds[s] THEN s ELSE q[b].entries[t].found
      /\ DOMAIN Enter(q[s].entries, s) = disk.holds[s]
  <2>1. DOMAIN Enter(q[s].entries, s) = DOMAIN q[s].entries \cup disk.holds[s]
    BY EnterFacts
  <2>2. /\ DOMAIN e = DOMAIN q[b].entries \cup disk.holds[s]
        /\ \A t \in DOMAIN q[b].entries \cup disk.holds[s] :
             /\ e[t].listed = IF t \in DOMAIN q[b].entries THEN q[b].entries[t].listed ELSE None
             /\ e[t].found = IF t \in disk.holds[s] THEN s ELSE q[b].entries[t].found
    BY EnterFacts
  <2> HIDE DEF e
  <2> QED
    BY <2>1, <2>2
<1> HIDE DEF e
<1>9. r[b].entries = e
  BY <1>4, <1>7 DEF e
<1>10. /\ q[b].parsed /\ q[b].base = None /\ q[b].kids = ListOf(b)
       /\ \A t \in DOMAIN disk.list[b] : t \in DOMAIN q[b].entries /\ q[b].entries[t].listed = disk.list[b][t]
       /\ \A t \in DOMAIN q[b].entries \ DOMAIN disk.list[b] : q[b].entries[t].listed = None
       /\ \A t \in DOMAIN q[b].entries : q[b].entries[t].found # None =>
            /\ m[q[b].entries[t].found] = "here" /\ FileOf(q[b].entries[t].found) = b
            /\ t \in disk.holds[q[b].entries[t].found]
       /\ q[b].name \in {None, disk.parent[b]}
       /\ "$FILE_NAME" \in FoundIn(q, b) => q[b].name # None
       /\ "$INDEX_ROOT" \in FoundIn(q, b) => q[b].directory
       /\ DOMAIN e = DOMAIN q[b].entries
  BY <1>2, <1>8 DEF BaseShape
<1>11. FoundIn(r, b) = FoundIn(q, b) \cup disk.holds[s]
  BY <1>1, <1>8, <1>9 DEF FoundIn
<1>12. BaseShape(r, m, b)
  <2>1. r[b].parsed /\ r[b].base = None /\ r[b].kids = ListOf(b)
    BY <1>4, <1>7, <1>10
  <2>2. ASSUME NEW t \in DOMAIN e
        PROVE  /\ e[t].listed = IF t \in DOMAIN disk.list[b] THEN disk.list[b][t] ELSE None
               /\ e[t].found # None =>
                    m[e[t].found] = "here" /\ FileOf(e[t].found) = b /\ t \in disk.holds[e[t].found]
    <3>1. t \in DOMAIN q[b].entries /\ e[t].listed = q[b].entries[t].listed
      BY <1>8, <1>10
    <3>2. e[t].listed = IF t \in DOMAIN disk.list[b] THEN disk.list[b][t] ELSE None
      BY <1>10, <3>1
    <3>3. CASE t \in disk.holds[s]
      <4>1. e[t].found = s
        BY <1>8, <3>3
      <4> QED
        BY <1>1, <3>2, <3>3, <4>1
    <3>4. CASE t \notin disk.holds[s]
      <4>1. e[t].found = q[b].entries[t].found
        BY <1>8, <3>4
      <4> QED
        <5> DEFINE h == q[b].entries[t].found
        <5>1. h # None => m[h] = "here" /\ FileOf(h) = b /\ t \in disk.holds[h]
          BY <1>10, <3>1
        <5>2. e[t].found = h
          BY <4>1
        <5> HIDE DEF h
        <5> QED
          BY <3>2, <5>1, <5>2
    <3> QED
      BY <3>3, <3>4
  <2>3. \A t \in DOMAIN disk.list[b] : t \in DOMAIN e
    BY <1>10
  <2>4. /\ r[b].name \in {None, disk.parent[b]}
        /\ "$FILE_NAME" \in FoundIn(r, b) => r[b].name # None
        /\ "$INDEX_ROOT" \in FoundIn(r, b) => r[b].directory
    BY <1>1, <1>4, <1>7, <1>10, <1>11
  <2> QED
    BY <1>9, <2>1, <2>2, <2>3, <2>4, ZenonT(60) DEF BaseShape
<1>13. \A x \in Segment : r[x].complete = q[x].complete
  BY <1>4, <1>6, <1>7
<1>14. r[b].name = IF "$FILE_NAME" \in disk.holds[s] THEN disk.parent[b] ELSE q[b].name
  BY <1>1, <1>4, <1>7
<1>15. r[s].parsed /\ r[s].base = b /\ r[s].kids = ListOf(s) /\ DOMAIN r[s].entries = disk.holds[s]
  <2>1. ListOf(s) = {}
    BY DiskSound
  <2> QED
    BY <1>6, <1>7, <1>8, <2>1
<1> QED
  BY <1>7, <1>11, <1>12, <1>13, <1>14, <1>15

\* Nobody waits for the base record.
LEMMA WaitingNone ==
  ASSUME NEW r, NEW s, Waiting(r, s) = {}
  PROVE  ParseWaiting(r, s) = r
<1> DEFINE g == CHOOSE f : IsParsing(f, {}, r, s)
<1>1. PICK f : f = [x \in SUBSET {} |-> r]
  OBVIOUS
<1>2. f = [x \in SUBSET {} |-> IF x = {} THEN r ELSE ParseRecord(f[x \ {Any(x)}], Any(x), s)]
  BY <1>1
<1>3. IsParsing(g, {}, r, s)
  BY <1>2 DEF IsParsing
<1>4. ParseWaiting(r, s) = g[{}]
  BY ParseWaitingUnfold
<1> HIDE DEF g
<1> QED
  BY <1>3, <1>4 DEF IsParsing

\* Segment h of the file of base record s waits for it in r: it was read first.
WaitsFor(r, h, s) ==
  /\ h \in Segment /\ ~Base(h) /\ disk.base[h] = s
  /\ ~r[h].parsed /\ r[h].base \in {None, s} /\ DOMAIN r[h].entries = {}

\* What q is once the segments x that waited in r were parsed with base record s.
Joined(q, r, x, m, s) ==
  /\ q \in [Segment -> Record] /\ BaseShape(q, m, s)
  /\ \A t : t \in FoundIn(q, s) <=> t \in FoundIn(r, s) \/ \E h \in x : t \in disk.holds[h]
  /\ \A y \in Segment \ {s} : y \notin x => q[y] = r[y]
  /\ \A y \in Segment : q[y].complete = r[y].complete
  /\ \A h \in x : q[h].parsed /\ q[h].base = s /\ q[h].kids = ListOf(h) /\ DOMAIN q[h].entries = disk.holds[h]

\* Those that waited are parsed one after the other, in whatever order.
LEMMA WaitingJoin ==
  ASSUME disk \in Volumes, VolumesSound, NEW r \in [Segment -> Record], NEW s \in Segment, NEW m, BaseShape(r, m, s),
         NEW R, r \in Keeping(R), \A h \in Waiting(r, s) : WaitsFor(r, h, s) /\ m[h] = "here"
  PROVE  Joined(ParseWaiting(r, s), r, Waiting(r, s), m, s)
<1> DEFINE g == CHOOSE f : IsParsing(f, Waiting(r, s), r, s)
<1>1. PICK W : W = Waiting(r, s)
  OBVIOUS
<1>2. /\ W \subseteq Segment /\ IsFiniteSet(W)
      /\ \A h \in W : WaitsFor(r, h, s) /\ m[h] = "here"
  <2>1. W \subseteq Segment
    BY <1>1 DEF Waiting
  <2> QED
    BY <1>1, <2>1, SegmentFinite, FS_Subset
<1>3. ASSUME NEW h \in W, NEW p \in Keeping(R)
      PROVE  ParseRecord(p, h, s) \in Keeping(R)
  BY <1>2, <1>3, DiskTyped, ParseKeeps DEF WaitsFor
<1>4. PICK f \in [SUBSET W -> Keeping(R)] : IsParsing(f, W, r, s)
  BY <1>2, <1>3, ParsingExists
<1>5. IsParsing(g, W, r, s)
  BY <1>1, <1>4
<1>6. ParseWaiting(r, s) = g[W]
  BY <1>1, ParseWaitingUnfold
<1> HIDE DEF g
<1> DEFINE Bad == {x \in SUBSET W : ~Joined(g[x], r, x, m, s)}
<1>7. SUFFICES ASSUME Bad # {} PROVE FALSE
  BY <1>1, <1>6
<1>8. PICK x \in Bad : \A y \in Bad : ~(y \subseteq x /\ y # x)
  <2>1. Bad \subseteq SUBSET W
    OBVIOUS
  <2> HIDE DEF Bad
  <2> QED
    BY <1>2, <1>7, <2>1, LeastSubset
<1>9. x \in SUBSET W /\ ~Joined(g[x], r, x, m, s)
  BY <1>8
<1>10. CASE x = {}
  <2>1. g[x] = r
    BY <1>5, <1>9, <1>10 DEF IsParsing
  <2> QED
    BY <1>9, <1>10, <2>1 DEF Joined
<1>11. CASE x # {}
  <2>1. PICK h, y, q, p : h = Any(x) /\ y = x \ {h} /\ q = g[y] /\ p = g[x]
    OBVIOUS
  <2>2. h \in x /\ h \in W /\ h \notin y /\ y \subseteq x /\ y # x /\ x = y \cup {h} /\ y \in SUBSET W
    BY <1>9, <1>11, <2>1 DEF Any
  <2>3. Joined(q, r, y, m, s)
    <3>1. y \notin Bad
      BY <1>8, <2>2
    <3> QED
      BY <2>1, <2>2, <3>1
  <2>4. p = ParseRecord(q, h, s)
    BY <1>5, <1>9, <1>11, <2>1 DEF IsParsing
  <2>5. /\ h \in Segment /\ ~Base(h) /\ s = disk.base[h] /\ m[h] = "here"
        /\ ~r[h].parsed /\ r[h].base \in {None, s} /\ DOMAIN r[h].entries = {}
    BY <1>2, <2>2 DEF WaitsFor
  <2>6. h # s
    BY <2>5, DiskSound
  <2>7. /\ q \in [Segment -> Record] /\ BaseShape(q, m, disk.base[h])
        /\ ~q[h].parsed /\ q[h].base \in {None, disk.base[h]} /\ DOMAIN q[h].entries = {}
    BY <2>2, <2>3, <2>5, <2>6 DEF Joined
  <2>8. /\ p \in [Segment -> Record] /\ \A z \in Segment \ {h, s} : p[z] = q[z]
        /\ BaseShape(p, m, s) /\ FoundIn(p, s) = FoundIn(q, s) \cup disk.holds[h]
        /\ \A z \in Segment : p[z].complete = q[z].complete
        /\ p[h].parsed /\ p[h].base = s /\ p[h].kids = ListOf(h) /\ DOMAIN p[h].entries = disk.holds[h]
    BY <2>4, <2>5, <2>7, ParseChild
  <2>9. \A t : t \in FoundIn(p, s) <=> t \in FoundIn(q, s) \/ t \in disk.holds[h]
    BY <2>8
  <2>10. \A z \in Segment : p[z].complete = q[z].complete
    BY <2>8
  <2>11. p[h].parsed /\ p[h].base = s /\ p[h].kids = ListOf(h) /\ DOMAIN p[h].entries = disk.holds[h]
    BY <2>8
  <2>12. \A t : t \in FoundIn(p, s) <=> t \in FoundIn(r, s) \/ \E k \in x : t \in disk.holds[k]
    BY <2>2, <2>3, <2>9 DEF Joined
  <2>13. \A z \in Segment \ {s} : z \notin x => p[z] = r[z]
    BY <2>2, <2>3, <2>8 DEF Joined
  <2>14. \A z \in Segment : p[z].complete = r[z].complete
    BY <2>3, <2>10 DEF Joined
  <2>15. ASSUME NEW k \in x
         PROVE  p[k].parsed /\ p[k].base = s /\ p[k].kids = ListOf(k) /\ DOMAIN p[k].entries = disk.holds[k]
    <3>1. CASE k = h
      BY <2>11, <3>1
    <3>2. CASE k # h
      <4>1. k \in y /\ k \in Segment /\ k # s
        <5>1. k \in y /\ WaitsFor(r, k, s)
          BY <1>2, <1>9, <2>2, <2>15, <3>2
        <5> QED
          BY <5>1, DiskSound DEF WaitsFor
      <4>2. p[k] = q[k]
        BY <2>8, <3>2, <4>1
      <4> QED
        BY <2>3, <4>1, <4>2 DEF Joined
    <3> QED
      BY <3>1, <3>2
  <2>16. Joined(p, r, x, m, s)
    BY <2>8, <2>12, <2>13, <2>14, <2>15 DEF Joined
  <2> QED
    BY <1>9, <2>1, <2>16
<1> QED
  BY <1>10, <1>11

\* What a record of the map lists and holds was entered already: UpdateAttributeList finds nothing.
LEMMA ResolveNothing ==
  ASSUME disk \in Volumes, VolumesSound, NEW q \in [Segment -> Record], Records(q, map), NEW s \in Segment,
         map[s] = "here"
  PROVE  Resolve(q, s) = q
<1>1. CASE ~Base(s)
  BY <1>1 DEF Records, ChildRecord, Resolve
<1>2. CASE Base(s)
  <2> DEFINE held(t) == LET h == q[s].entries[t].listed IN
                        h # None /\ map[h] = "here" /\ t \in DOMAIN q[h].entries
             value(t) == IF q[s].entries[t].found = None /\ held(t)
                         THEN [q[s].entries[t] EXCEPT !.found = q[q[s].entries[t].listed].entries[t].found]
                         ELSE q[s].entries[t]
             entries == [t \in DOMAIN q[s].entries |-> value(t)]
             index == "$INDEX_ROOT" \in DOMAIN entries /\ entries["$INDEX_ROOT"].found # None
  <2>1. BaseRecord(q, map, s) /\ BaseShape(q, map, s) /\ None \notin Segment
    BY <1>2, SegmentAssumption DEF Records, BaseRecord, None
  <2>2. PICK types \in SUBSET Types : q[s].entries \in [types -> Entry]
    BY DEF Record, Entries
  <2>3. ASSUME NEW t \in types PROVE value(t) = q[s].entries[t]
    <3>1. SUFFICES ASSUME q[s].entries[t].found = None, held(t)
                   PROVE  q[q[s].entries[t].listed].entries[t].found = None
      <4>1. q[s].entries[t] \in Entry
        BY <2>2
      <4>2. PICK e \in Entry : e = q[s].entries[t]
        BY <4>1
      <4>3. e.found = None => [e EXCEPT !.found = None] = e
        BY DEF Entry
      <4> QED
        BY <4>2, <4>3
    <3>2. PICK h : h = q[s].entries[t].listed
      OBVIOUS
    <3>3. h \in Segment /\ map[h] = "here" /\ t \in DOMAIN q[h].entries /\ h \in ListOf(s)
      <4>1. h # None /\ t \in DOMAIN q[s].entries
        BY <2>2, <3>1, <3>2
      <4>2. t \in DOMAIN disk.list[s] /\ h = disk.list[s][t]
        BY <2>1, <3>2, <4>1 DEF BaseShape
      <4>3. h \in ListOf(s)
        BY <4>2 DEF ListOf
      <4> QED
        BY <1>2, <3>1, <3>2, <4>3, DiskSound
    <3>4. FileOf(h) = s
      BY <1>2, <3>3, DiskSound
    <3>5. CASE h = s
      BY <3>1, <3>2, <3>5
    <3>6. CASE h # s
      <4>1. ~Base(h)
        BY <3>4, <3>6 DEF FileOf
      <4>2. t \in disk.holds[h]
        BY <3>3, <4>1 DEF Records, ChildRecord
      <4>3. t \in FoundIn(q, s)
        BY <2>1, <3>3, <3>4, <4>2 DEF BaseRecord
      <4> QED
        BY <3>1, <4>3 DEF FoundIn
    <3> QED
      BY <3>5, <3>6
  <2> HIDE DEF value
  <2>4. entries = q[s].entries
    BY <2>2, <2>3
  <2>5. index => q[s].directory
    BY <2>1, <2>4 DEF BaseShape, FoundIn
  <2>6. Resolve(q, s) = IF q[s].kids = {} THEN q
                        ELSE [q EXCEPT ![s].entries = entries, ![s].directory = @ \/ index]
    BY DEF Resolve, value
  <2> HIDE DEF entries, index
  <2>7. PICK record \in Record : record = q[s]
    OBVIOUS
  <2>8. (record.directory \/ index) = record.directory
    BY <2>5, <2>7 DEF Record
  <2>9. [record EXCEPT !.entries = record.entries, !.directory = record.directory] = record
    BY DEF Record
  <2>10. [q EXCEPT ![s].entries = entries, ![s].directory = @ \/ index]
           = [q EXCEPT ![s] = [record EXCEPT !.entries = entries, !.directory = record.directory \/ index]]
    BY <2>7 DEF Record
  <2>11. [q EXCEPT ![s].entries = entries, ![s].directory = @ \/ index] = [q EXCEPT ![s] = record]
    BY <2>4, <2>7, <2>8, <2>9, <2>10
  <2>12. [q EXCEPT ![s] = record] = q
    BY <2>7
  <2> QED
    BY <2>6, <2>11, <2>12
<1> QED
  BY <1>1, <1>2

-----------------------------------------------------------------------------
(***************************************************************************)
(* AddRecord, in four cases.                                               *)
(***************************************************************************)
\* What waits for a base record is in its list.
LEMMA WaitingListed ==
  ASSUME NEW r \in [Segment -> Record], NEW s \in Segment, NEW b, NEW m, BaseShape(r, m, b),
         b = (IF r[s].kids # {} THEN s ELSE BaseOf(r, s)), NEW h \in Waiting(r, s)
  PROVE  /\ h \in ListOf(b) /\ h \in Segment \ {s} /\ map[h] = "here" /\ ~r[h].parsed
<1>1. PICK t \in DOMAIN r[b].entries : r[b].entries[t].found = None /\ h = r[b].entries[t].listed
  BY DEF Waiting
<1>2. h \in Segment \ {s} /\ map[h] = "here" /\ ~r[h].parsed
  BY DEF Waiting
<1>3. h # None
  BY <1>2, SegmentAssumption DEF None
<1>4. t \in DOMAIN disk.list[b] /\ h = disk.list[b][t]
  BY <1>1, <1>3 DEF BaseShape
<1> QED
  BY <1>2, <1>4 DEF ListOf

\* To give a record the base it has changes nothing.
LEMMA SameBase ==
  ASSUME NEW q \in [Segment -> Record], NEW s \in Segment
  PROVE  [q EXCEPT ![s].base = q[s].base] = q
<1>1. PICK record \in Record : record = q[s]
  OBVIOUS
<1>2. [record EXCEPT !.base = record.base] = record
  BY DEF Record
<1>3. [q EXCEPT ![s].base = q[s].base] = [q EXCEPT ![s] = [record EXCEPT !.base = record.base]]
  BY <1>1
<1> QED
  BY <1>1, <1>2, <1>3

\* The segment was parsed already, or waits for its base record.
AddNothing(s) ==
  /\ rec' = rec /\ names' = AddDirectoryName(rec, s)
  /\ map[s] = "here" \/ (~Base(s) /\ map[disk.base[s]] # "here")
  /\ ~Base(s) /\ map[disk.base[s]] = "here" => rec[s].base # None
\* The base record of the segment is in the map.
AddChild(s) ==
  /\ ~Base(s) /\ map[disk.base[s]] = "here" /\ ~rec[s].parsed
  /\ rec' = ParseRecord(rec, s, disk.base[s]) /\ names' = AddDirectoryName(rec', s)
\* A base record of which the map has no segment yet.
AddBase(s) ==
  /\ Base(s) /\ map[s] = "absent" /\ rec' = ParseRecord(rec, s, None) /\ names' = AddDirectoryName(rec', s)
  /\ \A h \in ListOf(s) \ {s} : map[h] # "here"
\* A base record of which the map has segments: the one being completed, or any of them if a
\* failed read had lost the base record before.
AddAwaited(s) ==
  LET r == ParseRecord(rec, s, None) IN
  /\ Base(s) /\ map[s] = "absent" /\ rec' = ParseWaiting(r, s) /\ names' = AddDirectoryName(r, s)
  /\ Waiting(r, s) = {h \in ListOf(s) \ {s} : map[h] = "here"}
  /\ s \in lost \/ cur \in ListOf(s) \ {s}

\* The segment that is added, if it is not in the map already.
LEMMA AddedBase ==
  ASSUME VolumesSound, IInv, RecInv, Records(rec, map), Present, NEW s \in Segment, Base(s), map[s] # "gone",
         NEW r, r = ParseRecord(rec, s, None), rec' = ParseWaiting(r, s), names' = AddDirectoryName(r, s)
  PROVE  AddNothing(s) \/ AddBase(s) \/ AddAwaited(s)
<1>0. disk \in Volumes /\ rec \in [Segment -> Record] /\ None \notin Segment
  BY SegmentAssumption DEF RecInv, Keeping, None
<1>00. map[s] \in {"here", "absent"}
  BY DEF IInv, WalkTypes
<1>1. CASE map[s] = "here"
  <2>1. BaseShape(rec, map, s) /\ rec[s].parsed /\ rec[s].base = None
    BY <1>1 DEF Records, BaseRecord, BaseShape
  <2>2. r = rec
    <3>1. r = [rec EXCEPT ![s].base = rec[s].base]
      BY <2>1 DEF ParseRecord
    <3> QED
      BY <1>0, <3>1, SameBase
  <2>3. Waiting(rec, s) = {}
    <3>1. SUFFICES ASSUME NEW h \in Waiting(rec, s) PROVE FALSE
      OBVIOUS
    <3>2. h \in ListOf(s) /\ h \in Segment \ {s} /\ map[h] = "here" /\ ~rec[h].parsed
      BY <1>0, <2>1, <3>1, WaitingListed DEF BaseOf
    <3>3. ~Base(h) /\ disk.base[h] = s
      BY <1>0, <3>2, DiskSound
    <3> QED
      BY <1>1, <3>2, <3>3 DEF Records, ChildRecord
  <2>4. rec' = rec
    BY <2>2, <2>3, WaitingNone
  <2> QED
    BY <1>1, <2>2, <2>4 DEF AddNothing
<1>2. CASE map[s] = "absent"
  <2>1. rec[s] = Blank
    BY <1>2 DEF Records
  <2> DEFINE m == [map EXCEPT ![s] = "here"]
  <2>2. m[s] = "here"
    BY DEF IInv, WalkTypes
  <2> HIDE DEF m
  <2>3. /\ r \in [Segment -> Record] /\ (\A x \in Segment \ {s} : r[x] = rec[x])
        /\ BaseShape(r, m, s) /\ FoundIn(r, s) = disk.holds[s]
    BY <1>0, <2>1, <2>2, ParseBase
  <2>4. s = (IF r[s].kids # {} THEN s ELSE BaseOf(r, s))
    BY <2>3 DEF BaseShape, BaseOf
  <2>5. ASSUME NEW h \in ListOf(s) \ {s}, map[h] = "here"
        PROVE  (h = cur \/ s \in lost) /\ h \in Waiting(r, s)
    <3>1. h \in Segment /\ ~Base(h) /\ disk.base[h] = s /\ FileOf(h) = s
      BY <1>0, <2>5, DiskSound
    <3>2. h = cur \/ s \in lost
      BY <1>2, <2>5, <3>1 DEF Present
    <3>3. ~rec[h].parsed
      BY <1>2, <2>5, <3>1 DEF Records, ChildRecord
    <3>4. PICK t \in DOMAIN disk.list[s] : h = disk.list[s][t]
      BY <2>5 DEF ListOf
    <3>5. t \in DOMAIN r[s].entries /\ r[s].entries[t].listed = h
      BY <2>3, <3>4 DEF BaseShape
    <3>6. t \notin disk.holds[s]
      BY <1>0, <2>5, <3>4, DiskSound
    <3>7. r[s].entries[t].found = None
      BY <2>3, <3>5, <3>6 DEF FoundIn
    <3>8. r[h] = rec[h]
      BY <2>3, <2>5, <3>1
    <3> QED
      BY <2>4, <2>5, <3>1, <3>2, <3>3, <3>5, <3>7, <3>8 DEF Waiting
  <2>6. \A h \in Waiting(r, s) : h \in ListOf(s) \ {s} /\ map[h] = "here"
    BY <2>3, <2>4, WaitingListed
  <2>7. Waiting(r, s) = {h \in ListOf(s) \ {s} : map[h] = "here"}
    BY <2>5, <2>6
  <2>8. CASE Waiting(r, s) = {}
    <3>1. rec' = r
      BY <2>8, WaitingNone
    <3> QED
      BY <1>2, <2>5, <2>8, <3>1 DEF AddBase
  <2>9. CASE Waiting(r, s) # {}
    <3>1. s \in lost \/ cur \in ListOf(s) \ {s}
      BY <2>5, <2>6, <2>9
    <3> QED
      BY <1>2, <2>7, <3>1 DEF AddAwaited
  <2> QED
    BY <2>8, <2>9
<1> QED
  BY <1>00, <1>1, <1>2

\* A segment of a file whose base record is another: parsed if the base is in the map.
LEMMA AddedChild ==
  ASSUME VolumesSound, IInv, RecInv, Records(rec, map), NEW s \in Segment, ~Base(s), map[s] # "gone",
         NEW base, base = (IF map[disk.base[s]] = "here" THEN disk.base[s] ELSE None),
         NEW r, r = ParseRecord(rec, s, base), rec' = ParseWaiting(r, s), names' = AddDirectoryName(r, s)
  PROVE  AddNothing(s) \/ AddChild(s)
<1> DEFINE b == disk.base[s]
<1>0. /\ disk \in Volumes /\ rec \in [Segment -> Record] /\ None \notin Segment
      /\ b \in Segment /\ Base(b) /\ b # s /\ b # None
  <2>1. disk \in Volumes /\ rec \in [Segment -> Record] /\ None \notin Segment
    BY SegmentAssumption DEF RecInv, Keeping, None
  <2>2. b \in Segment /\ b = FileOf(s) /\ b # s /\ Base(FileOf(s))
    BY <2>1, DiskSound
  <2> QED
    BY <2>1, <2>2
<1>1. /\ rec[s].base \in {None, b} /\ rec[s].kids = {}
      /\ (rec[s].base = None => ~rec[s].parsed)
      /\ (~rec[s].parsed => DOMAIN rec[s].entries = {})
      /\ (map[s] # "here" => rec[s] = Blank)
      /\ (rec[s].base # None /\ map[s] # "here" => FALSE)
  BY <1>0 DEF Records, ChildRecord, Blank
<1>2. CASE map[b] # "here"
  <2>1. base = None
    BY <1>2
  <2>2. r = [rec EXCEPT ![s].base = rec[s].base]
    BY <2>1 DEF ParseRecord, Base
  <2>3. r = rec
    BY <1>0, <2>2, SameBase
  <2>4. Waiting(rec, s) = {}
    <3>1. rec[b] = Blank
      BY <1>0, <1>2 DEF Records
    <3>2. DOMAIN rec[BaseOf(rec, s)].entries = {}
      BY <1>1, <3>1 DEF BaseOf, Blank
    <3> QED
      BY <1>1, <3>2 DEF Waiting
  <2>5. rec' = rec
    BY <2>3, <2>4, WaitingNone
  <2> QED
    BY <1>2, <2>3, <2>5 DEF AddNothing
<1>3. CASE map[b] = "here"
  <2>0. base = b /\ BaseRecord(rec, map, b) /\ BaseShape(rec, map, b)
    BY <1>0, <1>3 DEF Records, BaseRecord
  <2>1. ASSUME NEW h \in ListOf(b), map[h] = "here" PROVE rec[h].parsed
    <3>1. h \in Segment /\ FileOf(h) = b
      BY <1>0, <2>1, DiskSound
    <3>2. CASE h = b
      BY <2>0, <3>2 DEF BaseShape
    <3>3. CASE h # b
      <4>1. ~Base(h) /\ disk.base[h] = b
        BY <3>1, <3>3 DEF FileOf
      <4> QED
        BY <1>3, <2>1, <3>1, <4>1 DEF Records, ChildRecord
    <3> QED
      BY <3>2, <3>3
  <2>2. CASE rec[s].parsed
    <3>1. rec[s].base = b
      BY <1>1, <2>2
    <3>2. r = [rec EXCEPT ![s].base = rec[s].base]
      BY <1>0, <2>2, <3>1 DEF ParseRecord
    <3>3. r = rec
      BY <1>0, <3>2, SameBase
    <3>4. map[s] = "here"
      BY <1>1, <2>2 DEF Blank
    <3>5. b = (IF rec[s].kids # {} THEN s ELSE BaseOf(rec, s))
      BY <1>0, <1>1, <3>1 DEF BaseOf
    <3>6. Waiting(rec, s) = {}
      <4>1. SUFFICES ASSUME NEW h \in Waiting(rec, s) PROVE FALSE
        OBVIOUS
      <4>2. h \in ListOf(b) /\ map[h] = "here" /\ ~rec[h].parsed
        BY <1>0, <2>0, <3>5, <4>1, WaitingListed
      <4> QED
        BY <2>1, <4>2
    <3>7. rec' = rec
      BY <3>3, <3>6, WaitingNone
    <3> QED
      BY <1>0, <3>1, <3>3, <3>4, <3>7 DEF AddNothing
  <2>3. CASE ~rec[s].parsed
    <3> DEFINE m == [map EXCEPT ![s] = "here"]
    <3>1. m[s] = "here" /\ \A x : x \in Segment /\ map[x] = "here" => m[x] = "here"
      BY DEF IInv, WalkTypes
    <3> HIDE DEF m
    <3>2. BaseShape(rec, m, b)
      <4>1. ASSUME NEW t \in DOMAIN rec[b].entries, rec[b].entries[t].found # None
            PROVE  m[rec[b].entries[t].found] = "here"
        <5>1. rec[b].entries[t].found \in Segment
          BY <1>0, <4>1 DEF Record, Entries, Entry
        <5> QED
          BY <2>0, <3>1, <4>1, <5>1 DEF BaseShape
      <4> QED
        BY <2>0, <4>1 DEF BaseShape
    <3>3. /\ r \in [Segment -> Record] /\ \A x \in Segment \ {s, b} : r[x] = rec[x]
          /\ BaseShape(r, m, b)
          /\ r[s].parsed /\ r[s].base = b /\ r[s].kids = {}
      <4> DEFINE p == ParseRecord(rec, s, b)
      <4>1. rec[s].base \in {None, b} /\ DOMAIN rec[s].entries = {}
        BY <1>1, <2>3
      <4>2. /\ p \in [Segment -> Record] /\ \A x \in Segment \ {s, b} : p[x] = rec[x]
            /\ BaseShape(p, m, b) /\ p[s].parsed /\ p[s].base = b /\ p[s].kids = {}
        <5>1. b = disk.base[s] /\ p = ParseRecord(rec, s, b) /\ BaseShape(rec, m, disk.base[s])
          BY <3>2
        <5>2. rec[s].base \in {None, disk.base[s]}
          BY <4>1
        <5> HIDE DEF b, p
        <5> QED
          <6>1. disk \in Volumes /\ rec \in [Segment -> Record] /\ ~rec[s].parsed /\ m[s] = "here"
                /\ DOMAIN rec[s].entries = {} /\ s \in Segment /\ ~Base(s) /\ VolumesSound
            BY <1>0, <2>3, <3>1, <4>1
          <6>2. p \in [Segment -> Record] /\ BaseShape(p, m, b)
            BY <5>1, <5>2, <6>1, ParseChild
          <6>3. \A x \in Segment \ {s, b} : p[x] = rec[x]
            BY <5>1, <5>2, <6>1, ParseChild
          <6>4. p[s].parsed
            BY <5>1, <5>2, <6>1, ParseChild
          <6>5. p[s].base = b
            BY <5>1, <5>2, <6>1, ParseChild
          <6>6. p[s].kids = ListOf(s)
            BY <5>1, <5>2, <6>1, ParseChild
          <6>7. ListOf(s) = {}
            BY <6>1, DiskSound
          <6> QED
            BY <6>2, <6>3, <6>4, <6>5, <6>6, <6>7
      <4>3. r = p
        BY <2>0
      <4> QED
        BY <4>2, <4>3
    <3>4. b = (IF r[s].kids # {} THEN s ELSE BaseOf(r, s))
      BY <1>0, <3>3 DEF BaseOf
    <3>5. Waiting(r, s) = {}
      <4>1. SUFFICES ASSUME NEW h \in Waiting(r, s) PROVE FALSE
        OBVIOUS
      <4>2. h \in ListOf(b) /\ h \in Segment \ {s} /\ map[h] = "here" /\ ~r[h].parsed
        <5> HIDE DEF b
        <5> QED
          BY <3>3, <3>4, <4>1, WaitingListed
      <4>3. h # b
        BY <3>3, <4>2 DEF BaseShape
      <4> QED
        BY <2>1, <3>3, <4>2, <4>3
    <3>6. rec' = r
      BY <3>5, WaitingNone
    <3> QED
      BY <1>3, <2>0, <2>3, <3>6 DEF AddChild
  <2> QED
    BY <2>2, <2>3
<1> QED
  BY <1>2, <1>3

\* One of the four cases is what AddRecord does.
LEMMA AddCases ==
  ASSUME VolumesSound, IInv, RecInv, Records(rec, map), Present, AddRecord
  PROVE  /\ adding \in Segment /\ map[adding] # "gone" /\ map' = [map EXCEPT ![adding] = "here"] /\ disk' = disk
         /\ \/ AddNothing(adding) \/ AddChild(adding) \/ AddBase(adding) \/ AddAwaited(adding)
<1> DEFINE base == IF disk.base[adding] # None /\ map[disk.base[adding]] = "here"
                   THEN disk.base[adding] ELSE None
           r == ParseRecord(rec, adding, base)
<1>1. adding \in Segment /\ map[adding] # "gone"
  BY DEF AddRecord, GotCell, Accepted, IInv, AddingOK
<1>2. /\ map' = [map EXCEPT ![adding] = "here"] /\ disk' = disk
      /\ rec' = ParseWaiting(r, adding) /\ names' = AddDirectoryName(r, adding)
  BY DEF AddRecord
<1>3. CASE Base(adding)
  <2>1. base = None
    BY <1>3 DEF Base
  <2> QED
    BY <1>1, <1>2, <1>3, <2>1, AddedBase
<1>4. CASE ~Base(adding)
  <2>1. base = IF map[disk.base[adding]] = "here" THEN disk.base[adding] ELSE None
    BY <1>4 DEF Base
  <2> HIDE DEF base
  <2> QED
    BY <1>1, <1>2, <1>4, <2>1, AddedChild
<1> QED
  BY <1>1, <1>2, <1>3, <1>4

-----------------------------------------------------------------------------
(***************************************************************************)
(* What AddRecord makes of the records and the names, case by case.        *)
(***************************************************************************)
AddGives(s) ==
  /\ Records(rec', map')
  /\ \A x \in Segment : rec'[x].complete => rec[x].complete /\ map[x] = "here"
  /\ \A x \in Segment : Base(x) /\ map[x] = "here" =>
       \/ rec'[x].name = rec[x].name
       \/ rec[x].name = None /\ s \in ListOf(x) /\ map[s] = "absent"
  /\ \A x \in Segment : names[x] # None => names'[x] = names[x]
  /\ \A x \in Segment : names[x] = None /\ names'[x] # None =>
       Base(x) /\ names'[x] = disk.parent[x] /\ map'[x] = "here"
  /\ \A x \in Segment : Base(x) /\ map'[x] = "here" /\ names'[x] = None /\ Path \subseteq FoundIn(rec', x) =>
       \/ map[x] = "here" /\ Path \subseteq FoundIn(rec, x)
       \/ x = s /\ (s \in lost \/ cur \in ListOf(s) \ {s})
  /\ ~Base(s) /\ map[disk.base[s]] = "here" => rec'[s].base # None

\* The record of another file, or of the same as long as the map of the file is the same.
LEMMA OtherFile ==
  ASSUME NEW q \in [Segment -> Record], NEW p, NEW m, NEW n, Records(q, m), disk \in Volumes, VolumesSound,
         NEW x \in Segment, p[x] = q[x], \A h \in Segment : FileOf(h) = FileOf(x) => n[h] = m[h]
  PROVE  /\ n[x] # "here" => p[x] = Blank
         /\ n[x] = "here" /\ Base(x) => BaseRecord(p, n, x)
         /\ n[x] = "here" /\ ~Base(x) => ChildRecord(p, n, x)
<1>1. n[x] = m[x] /\ n[FileOf(x)] = m[FileOf(x)]
  <2>1. FileOf(x) \in Segment /\ FileOf(FileOf(x)) = FileOf(x)
    BY DiskSound
  <2> QED
    BY <2>1
<1>2. n[x] # "here" => p[x] = Blank
  BY <1>1 DEF Records
<1>3. ASSUME n[x] = "here", Base(x) PROVE BaseRecord(p, n, x)
  <2>1. BaseShape(q, m, x) /\ FileOf(x) = x
        /\ \A h \in Segment : m[h] = "here" /\ FileOf(h) = x => disk.holds[h] \subseteq FoundIn(q, x)
    BY <1>1, <1>3 DEF Records, BaseRecord, FileOf
  <2>2. FoundIn(p, x) = FoundIn(q, x)
    BY DEF FoundIn
  <2>3. ASSUME NEW t \in DOMAIN q[x].entries, q[x].entries[t].found # None
        PROVE  n[q[x].entries[t].found] = "here"
    <3>1. q[x].entries[t].found \in Segment
      BY <2>3 DEF Record, Entries, Entry
    <3> QED
      BY <2>1, <2>3, <3>1 DEF BaseShape
  <2>4. BaseShape(p, n, x)
    BY <2>1, <2>2, <2>3 DEF BaseShape
  <2> QED
    BY <2>1, <2>2, <2>4 DEF BaseRecord
<1>4. ASSUME n[x] = "here", ~Base(x) PROVE ChildRecord(p, n, x)
  <2>1. ChildRecord(q, m, x) /\ FileOf(x) = disk.base[x]
    BY <1>1, <1>4 DEF Records, FileOf
  <2> QED
    BY <1>1, <2>1 DEF ChildRecord
<1> QED
  BY <1>2, <1>3, <1>4

\* What AddDirectoryName makes of the names, given that record b has what is needed.
LEMMA NamesGiven ==
  ASSUME NEW r \in [Segment -> Record], NEW s \in Segment, NEW b \in Segment, b = BaseOf(r, s),
         names \in [Segment -> Segment \cup {Root, None}],
         r[b].name # None => Base(b) /\ r[b].name = disk.parent[b],
         names' = AddDirectoryName(r, s)
  PROVE  /\ \A x \in Segment : names[x] # None => names'[x] = names[x]
         /\ \A x \in Segment : names[x] = None /\ names'[x] # None =>
              x = b /\ r[b].name # None /\ Base(x) /\ names'[x] = disk.parent[x]
         /\ r[b].directory /\ r[b].name # None => names'[b] # None
BY DEF AddDirectoryName

\* The record of a cell that was just got.
LEMMA BlankFacts ==
  /\ Blank.parsed = FALSE /\ Blank.base = None /\ Blank.kids = {} /\ DOMAIN Blank.entries = {}
  /\ Blank.name = None /\ Blank.directory = FALSE /\ Blank.complete = FALSE
BY DEF Blank

\* A segment without its base, or one parsed already.
LEMMA GivesNothing ==
  ASSUME VolumesSound, IInv, RecInv, OtherTypes, Records(rec, map), NEW s \in Segment, AddNothing(s),
         map' = [map EXCEPT ![s] = "here"]
  PROVE  AddGives(s)
<1>0. /\ disk \in Volumes /\ rec \in [Segment -> Record] /\ rec' = rec /\ names' = AddDirectoryName(rec, s)
      /\ map \in [Segment -> {"absent", "here", "gone"}]
      /\ names \in [Segment -> Segment \cup {Root, None}]
      /\ map'[s] = "here" /\ \A x \in Segment \ {s} : map'[x] = map[x]
  BY DEF RecInv, Keeping, AddNothing, IInv, WalkTypes, OtherTypes
<1>1. Records(rec', map')
  <2>1. CASE map[s] = "here"
    <3>1. map' = map
      BY <1>0, <2>1
    <3> QED
      BY <1>0, <3>1
  <2>2. CASE map[s] # "here"
    <3>1. ~Base(s) /\ map[disk.base[s]] # "here" /\ rec[s] = Blank
          /\ FileOf(s) = disk.base[s] /\ disk.base[s] \in Segment \ {s} /\ Base(disk.base[s])
      <4>1. ~Base(s) /\ map[disk.base[s]] # "here" /\ rec[s] = Blank
        BY <2>2 DEF AddNothing, Records
      <4>2. FileOf(s) = disk.base[s] /\ disk.base[s] \in Segment \ {s} /\ Base(FileOf(s))
        BY <1>0, <4>1, DiskSound
      <4> QED
        BY <4>1, <4>2
    <3>2. ASSUME NEW x \in Segment
          PROVE  /\ map'[x] # "here" => rec[x] = Blank
                 /\ map'[x] = "here" /\ Base(x) => BaseRecord(rec, map', x)
                 /\ map'[x] = "here" /\ ~Base(x) => ChildRecord(rec, map', x)
      <4>1. CASE x = s
        <5>1. map'[disk.base[s]] # "here"
          BY <1>0, <3>1
        <5> QED
          BY <1>0, <3>1, <4>1, <5>1, BlankFacts DEF ChildRecord
      <4>2. CASE FileOf(x) # FileOf(s)
        <5>1. \A h \in Segment : FileOf(h) = FileOf(x) => map'[h] = map[h]
          BY <1>0, <4>2
        <5>2. map'[x] # "here" => rec[x] = Blank
          BY <1>0, <5>1, OtherFile
        <5>3. map'[x] = "here" /\ Base(x) => BaseRecord(rec, map', x)
          BY <1>0, <5>1, OtherFile
        <5>4. map'[x] = "here" /\ ~Base(x) => ChildRecord(rec, map', x)
          BY <1>0, <5>1, OtherFile
        <5> QED
          BY <5>2, <5>3, <5>4
      <4>3. CASE x # s /\ FileOf(x) = FileOf(s)
        <5>1. map'[x] = map[x] /\ map'[disk.base[s]] = map[disk.base[s]]
          BY <1>0, <3>1, <4>3
        <5>2. CASE Base(x)
          <6>1. x = disk.base[s]
            BY <3>1, <4>3, <5>2 DEF FileOf
          <6> QED
            BY <3>1, <5>1, <5>2, <6>1 DEF Records
        <5>3. CASE ~Base(x)
          <6>1. disk.base[x] = disk.base[s]
            BY <3>1, <4>3, <5>3 DEF FileOf
          <6> QED
            BY <5>1, <5>3, <6>1 DEF Records, ChildRecord
        <5> QED
          BY <5>2, <5>3
      <4> QED
        BY <4>1, <4>2, <4>3
    <3> QED
      BY <1>0, <3>2 DEF Records
  <2> QED
    BY <2>1, <2>2
<1>2. \A x \in Segment : rec'[x].complete => rec[x].complete /\ map[x] = "here"
  BY <1>0, BlankFacts DEF Records
<1>3. PICK b \in Segment : b = BaseOf(rec, s)
  BY <1>0 DEF BaseOf, Record
<1>4. rec[b].name # None => Base(b) /\ rec[b].name = disk.parent[b] /\ map[b] = "here"
  <2>1. SUFFICES ASSUME rec[b].name # None PROVE Base(b) /\ rec[b].name = disk.parent[b] /\ map[b] = "here"
    OBVIOUS
  <2>2. map[b] = "here"
    BY <2>1, BlankFacts DEF Records
  <2>3. CASE Base(b)
    BY <2>1, <2>2, <2>3 DEF Records, BaseRecord, BaseShape
  <2>4. CASE ~Base(b)
    <3>1. b = s
      <4>1. SUFFICES ASSUME b # s PROVE FALSE
        OBVIOUS
      <4>2. b = rec[s].base /\ b # None
        BY <1>3, <4>1, SegmentAssumption DEF BaseOf, None
      <4>3. map[s] = "here"
        BY <4>2, BlankFacts DEF Records
      <4>4. ~Base(s) /\ b = disk.base[s]
        BY <4>2, <4>3 DEF Records, BaseRecord, BaseShape, ChildRecord
      <4> QED
        BY <1>0, <2>4, <4>4, DiskSound
    <3>2. rec[s].base = None \/ rec[s].base = s
      BY <1>3, <3>1 DEF BaseOf
    <3>3. rec[s].base = None
      BY <1>0, <2>2, <2>4, <3>1, <3>2, DiskSound DEF Records, ChildRecord
    <3> QED
      BY <2>1, <2>2, <2>4, <3>1, <3>3 DEF Records, ChildRecord
  <2> QED
    BY <2>3, <2>4
<1>5. /\ \A x \in Segment : names[x] # None => names'[x] = names[x]
      /\ \A x \in Segment : names[x] = None /\ names'[x] # None =>
           Base(x) /\ names'[x] = disk.parent[x] /\ map'[x] = "here"
  <2>1. /\ \A x \in Segment : names[x] # None => names'[x] = names[x]
        /\ \A x \in Segment : names[x] = None /\ names'[x] # None =>
             x = b /\ rec[b].name # None /\ Base(x) /\ names'[x] = disk.parent[x]
    BY <1>0, <1>3, <1>4, NamesGiven
  <2> QED
    BY <1>0, <1>4, <2>1
<1>6. \A x \in Segment : Base(x) /\ map'[x] = "here" => map[x] = "here"
  BY <1>0 DEF AddNothing
<1>7. ~Base(s) /\ map[disk.base[s]] = "here" => rec'[s].base # None
  BY <1>0 DEF AddNothing
<1> QED
  BY <1>0, <1>1, <1>2, <1>5, <1>6, <1>7 DEF AddGives

\* A base record stays what it is as the map grows.
LEMMA ShapeStays ==
  ASSUME NEW q \in [Segment -> Record], NEW m, NEW n, NEW x \in Segment, BaseShape(q, m, x),
         \A h \in Segment : m[h] = "here" => n[h] = "here"
  PROVE  BaseShape(q, n, x)
<1>1. ASSUME NEW t \in DOMAIN q[x].entries, q[x].entries[t].found # None
      PROVE  n[q[x].entries[t].found] = "here"
  <2>1. q[x].entries[t].found \in Segment
    BY <1>1 DEF Record, Entries, Entry
  <2> QED
    BY <1>1, <2>1 DEF BaseShape
<1> QED
  BY <1>1 DEF BaseShape

\* A record in which everything found is of a base record of the map gives it its name.
LEMMA ShapeNamed ==
  ASSUME NEW r, NEW m, NEW b, BaseShape(r, m, b)
  PROVE  /\ r[b].base = None /\ r[b].parsed
         /\ r[b].name # None => r[b].name = disk.parent[b]
         /\ Path \subseteq FoundIn(r, b) => r[b].directory /\ r[b].name # None
BY DEF BaseShape, Path

\* A segment whose base record is in the map.
LEMMA GivesChild ==
  ASSUME VolumesSound, IInv, RecInv, OtherTypes, Records(rec, map), NEW s \in Segment, AddChild(s),
         map[s] # "gone", map' = [map EXCEPT ![s] = "here"]
  PROVE  AddGives(s)
<1>1. PICK b, m, r : b = disk.base[s] /\ m = map' /\ r = rec'
  OBVIOUS
<1>2. /\ disk \in Volumes /\ rec \in [Segment -> Record] /\ ~Base(s) /\ map[b] = "here" /\ ~rec[s].parsed
      /\ r = ParseRecord(rec, s, b) /\ names' = AddDirectoryName(r, s)
      /\ map \in [Segment -> {"absent", "here", "gone"}]
      /\ names \in [Segment -> Segment \cup {Root, None}]
      /\ m[s] = "here" /\ \A x \in Segment \ {s} : m[x] = map[x]
  BY <1>1 DEF RecInv, Keeping, AddChild, IInv, WalkTypes, OtherTypes
<1>3. b \in Segment /\ b # s /\ FileOf(s) = b /\ Base(b) /\ FileOf(b) = b /\ b = disk.base[s] /\ ListOf(s) = {}
  <2>1. b \in Segment /\ b # s /\ FileOf(s) = b /\ Base(FileOf(s)) /\ ListOf(s) = {}
    BY <1>2, <1>1, DiskSound
  <2> QED
    BY <1>2, <1>1, <2>1, DiskSound
<1>4. m[b] = "here"
  BY <1>2, <1>3
<1>5. /\ rec[s].base \in {None, b} /\ DOMAIN rec[s].entries = {}
      /\ s \in ListOf(b) => map[s] = "absent"
  <2>1. CASE map[s] = "here"
    <3>1. ChildRecord(rec, map, s)
      BY <1>2, <2>1 DEF Records
    <3> QED
      BY <1>2, <1>3, <3>1 DEF ChildRecord
  <2>2. CASE map[s] # "here"
    <3>1. rec[s] = Blank /\ map[s] = "absent"
      BY <1>2, <2>2 DEF Records
    <3> QED
      BY <3>1, BlankFacts
  <2> QED
    BY <2>1, <2>2
<1>6. BaseRecord(rec, map, b) /\ BaseShape(rec, map, b)
  BY <1>2, <1>3 DEF Records, BaseRecord
<1>7. BaseShape(rec, m, b)
  BY <1>2, <1>3, <1>6, ShapeStays
<1>8. BaseShape(rec, m, disk.base[s]) /\ rec[s].base \in {None, disk.base[s]}
  BY <1>3, <1>5, <1>7
<1>9. r \in [Segment -> Record] /\ BaseShape(r, m, b)
  BY <1>2, <1>3, <1>5, <1>7, <1>8, ParseChild
<1>10. \A t : t \in FoundIn(r, b) <=> t \in FoundIn(rec, b) \/ t \in disk.holds[s]
  BY <1>2, <1>3, <1>5, <1>7, <1>8, ParseChild
<1>11. \A x \in Segment \ {s, b} : r[x] = rec[x]
  BY <1>2, <1>3, <1>5, <1>7, <1>8, ParseChild
<1>12. \A x \in Segment : r[x].complete = rec[x].complete
  BY <1>2, <1>3, <1>5, <1>7, <1>8, ParseChild
<1>13. r[b].name = IF "$FILE_NAME" \in disk.holds[s] THEN disk.parent[b] ELSE rec[b].name
  BY <1>2, <1>3, <1>5, <1>7, <1>8, ParseChild
<1>14. r[s].parsed /\ r[s].base = b
  <2>1. r[s].parsed
    BY <1>2, <1>3, <1>5, <1>7, <1>8, ParseChild
  <2>2. r[s].base = b
    BY <1>2, <1>3, <1>5, <1>7, <1>8, ParseChild
  <2> QED
    BY <2>1, <2>2
<1>15. r[s].kids = {} /\ DOMAIN r[s].entries = disk.holds[s]
  <2>1. r[s].kids = ListOf(s)
    BY <1>2, <1>3, <1>5, <1>7, <1>8, ParseChild
  <2>2. DOMAIN r[s].entries = disk.holds[s]
    BY <1>2, <1>3, <1>5, <1>7, <1>8, ParseChild
  <2> QED
    BY <1>3, <2>1, <2>2
<1>16. ASSUME NEW x \in Segment
       PROVE  /\ m[x] # "here" => r[x] = Blank
              /\ m[x] = "here" /\ Base(x) => BaseRecord(r, m, x)
              /\ m[x] = "here" /\ ~Base(x) => ChildRecord(r, m, x)
  <2>1. CASE x = s
    <3>1. ChildRecord(r, m, s)
      <4>1. b # None
        BY <1>3, SegmentAssumption DEF None
      <4> QED
        BY <1>3, <1>4, <1>14, <1>15, <4>1 DEF ChildRecord
    <3> QED
      BY <1>2, <2>1, <3>1
  <2>2. CASE x = b
    <3>1. ASSUME NEW h \in Segment, m[h] = "here", FileOf(h) = b PROVE disk.holds[h] \subseteq FoundIn(r, b)
      <4>1. CASE h = s
        BY <1>10, <4>1
      <4>2. CASE h # s
        <5>1. disk.holds[h] \subseteq FoundIn(rec, b)
          BY <1>2, <1>6, <3>1, <4>2 DEF BaseRecord
        <5> QED
          BY <1>10, <5>1
      <4> QED
        BY <4>1, <4>2
    <3>2. BaseRecord(r, m, b)
      BY <1>9, <3>1 DEF BaseRecord
    <3> QED
      BY <1>3, <1>4, <2>2, <3>2
  <2>3. CASE FileOf(x) # b
    <3>1. \A h \in Segment : FileOf(h) = FileOf(x) => m[h] = map[h]
      BY <1>2, <1>3, <2>3
    <3>2. r[x] = rec[x]
      BY <1>3, <1>11, <2>3
    <3>3. m[x] # "here" => r[x] = Blank
      BY <1>2, <3>1, <3>2, OtherFile
    <3>4. m[x] = "here" /\ Base(x) => BaseRecord(r, m, x)
      BY <1>2, <3>1, <3>2, OtherFile
    <3>5. m[x] = "here" /\ ~Base(x) => ChildRecord(r, m, x)
      BY <1>2, <3>1, <3>2, OtherFile
    <3> QED
      BY <3>3, <3>4, <3>5
  <2>4. CASE x \notin {s, b} /\ FileOf(x) = b
    <3>1. ~Base(x) /\ disk.base[x] = b
      BY <2>4 DEF FileOf
    <3>2. r[x] = rec[x] /\ m[x] = map[x] /\ m[b] = map[b]
      BY <1>2, <1>3, <1>4, <1>11, <2>4
    <3> QED
      BY <3>1, <3>2 DEF Records, ChildRecord
  <2> QED
    BY <2>1, <2>2, <2>3, <2>4
<1>17. Records(rec', map')
  BY <1>16, <1>1 DEF Records
<1>18. \A x \in Segment : r[x].complete => rec[x].complete /\ map[x] = "here"
  BY <1>12, BlankFacts DEF Records
<1>19. ASSUME NEW x \in Segment, Base(x), map[x] = "here"
       PROVE  \/ r[x].name = rec[x].name
              \/ rec[x].name = None /\ s \in ListOf(x) /\ map[s] = "absent"
  <2>1. CASE x # b
    BY <1>2, <1>11, <1>19, <2>1
  <2>2. CASE x = b /\ "$FILE_NAME" \notin disk.holds[s]
    BY <1>13, <2>2
  <2>3. CASE x = b /\ "$FILE_NAME" \in disk.holds[s]
    <3>1. s \in ListOf(b)
      BY <1>2, <1>3, <2>3, DiskSound
    <3>2. rec[b].name = None \/ rec[b].name = disk.parent[b]
      BY <1>6, ShapeNamed
    <3> QED
      BY <1>5, <1>13, <2>3, <3>1, <3>2
  <2> QED
    BY <2>1, <2>2, <2>3
<1>20. b = BaseOf(r, s)
  BY <1>3, <1>14, SegmentAssumption DEF BaseOf, None
<1>21. r[b].name # None => Base(b) /\ r[b].name = disk.parent[b]
  BY <1>3, <1>9, ShapeNamed
<1>22. /\ \A x \in Segment : names[x] # None => names'[x] = names[x]
       /\ \A x \in Segment : names[x] = None /\ names'[x] # None =>
            x = b /\ r[b].name # None /\ Base(x) /\ names'[x] = disk.parent[x]
       /\ r[b].directory /\ r[b].name # None => names'[b] # None
  BY <1>2, <1>3, <1>9, <1>20, <1>21, NamesGiven
<1>23. ASSUME NEW x \in Segment, Base(x), m[x] = "here", names'[x] = None, Path \subseteq FoundIn(r, x)
       PROVE  map[x] = "here" /\ Path \subseteq FoundIn(rec, x)
  <2>1. x # b
    BY <1>9, <1>22, <1>23, ShapeNamed
  <2>2. r[x] = rec[x] /\ map[x] = "here"
    BY <1>2, <1>11, <1>23, <2>1
  <2> QED
    BY <1>23, <2>2 DEF FoundIn
<1>24. r[s].base # None
  BY <1>3, <1>14, SegmentAssumption DEF None
<1> QED
  BY <1>1, <1>4, <1>17, <1>18, <1>19, <1>22, <1>23, <1>24 DEF AddGives

\* A base record that nothing in the map waits for.
LEMMA GivesBase ==
  ASSUME VolumesSound, IInv, RecInv, OtherTypes, Records(rec, map), NEW s \in Segment, AddBase(s),
         map' = [map EXCEPT ![s] = "here"]
  PROVE  AddGives(s)
<1>1. PICK m, r : m = map' /\ r = rec'
  OBVIOUS
<1>2. /\ disk \in Volumes /\ rec \in [Segment -> Record] /\ Base(s) /\ map[s] = "absent"
      /\ r = ParseRecord(rec, s, None) /\ names' = AddDirectoryName(r, s)
      /\ \A h \in ListOf(s) \ {s} : map[h] # "here"
      /\ map \in [Segment -> {"absent", "here", "gone"}]
      /\ names \in [Segment -> Segment \cup {Root, None}]
      /\ m[s] = "here" /\ \A x \in Segment \ {s} : m[x] = map[x]
  BY <1>1 DEF RecInv, Keeping, AddBase, IInv, WalkTypes, OtherTypes
<1>3. rec[s] = Blank /\ FileOf(s) = s
  BY <1>2, DiskSound DEF Records
<1>4. r \in [Segment -> Record] /\ (\A x \in Segment \ {s} : r[x] = rec[x]) /\ BaseShape(r, m, s)
  BY <1>2, <1>3, ParseBase
<1>5. FoundIn(r, s) = disk.holds[s] /\ ~r[s].complete
  BY <1>2, <1>3, ParseBase
<1>6. ASSUME NEW x \in Segment
      PROVE  /\ m[x] # "here" => r[x] = Blank
             /\ m[x] = "here" /\ Base(x) => BaseRecord(r, m, x)
             /\ m[x] = "here" /\ ~Base(x) => ChildRecord(r, m, x)
  <2>1. CASE x = s
    <3>1. ASSUME NEW h \in Segment, m[h] = "here", FileOf(h) = s PROVE disk.holds[h] \subseteq FoundIn(r, s)
      <4>1. CASE h = s
        BY <1>5, <4>1
      <4>2. CASE h # s
        <5>1. ~Base(h) /\ h \notin ListOf(s)
          BY <1>2, <3>1, <4>2 DEF FileOf
        <5>2. \A t \in disk.holds[h] : h \in ListOf(FileOf(h))
          BY <1>2, <5>1, DiskSound
        <5> QED
          BY <3>1, <5>1, <5>2
      <4> QED
        BY <4>1, <4>2
    <3>2. BaseRecord(r, m, s)
      BY <1>4, <3>1 DEF BaseRecord
    <3> QED
      BY <1>2, <2>1, <3>2
  <2>2. CASE FileOf(x) # s
    <3>1. \A h \in Segment : FileOf(h) = FileOf(x) => m[h] = map[h]
      BY <1>2, <1>3, <2>2
    <3>2. r[x] = rec[x]
      BY <1>3, <1>4, <2>2
    <3>3. m[x] # "here" => r[x] = Blank
      BY <1>2, <3>1, <3>2, OtherFile
    <3>4. m[x] = "here" /\ Base(x) => BaseRecord(r, m, x)
      BY <1>2, <3>1, <3>2, OtherFile
    <3>5. m[x] = "here" /\ ~Base(x) => ChildRecord(r, m, x)
      BY <1>2, <3>1, <3>2, OtherFile
    <3> QED
      BY <3>3, <3>4, <3>5
  <2>3. CASE x # s /\ FileOf(x) = s
    <3>1. ~Base(x) /\ disk.base[x] = s
      BY <2>3 DEF FileOf
    <3>2. r[x] = rec[x] /\ m[x] = map[x] /\ (m[x] = "here" => x \notin ListOf(s))
      BY <1>2, <1>4, <2>3
    <3> QED
      BY <1>2, <3>1, <3>2 DEF Records, ChildRecord
  <2> QED
    BY <2>1, <2>2, <2>3
<1>7. Records(rec', map')
  BY <1>1, <1>6 DEF Records
<1>8. \A x \in Segment : r[x].complete => rec[x].complete /\ map[x] = "here"
  BY <1>4, <1>5, BlankFacts DEF Records
<1>9. s = BaseOf(r, s)
  BY <1>4, ShapeNamed DEF BaseOf
<1>10. r[s].name # None => Base(s) /\ r[s].name = disk.parent[s]
  BY <1>2, <1>4, ShapeNamed
<1>11. /\ \A x \in Segment : names[x] # None => names'[x] = names[x]
       /\ \A x \in Segment : names[x] = None /\ names'[x] # None =>
            x = s /\ r[s].name # None /\ Base(x) /\ names'[x] = disk.parent[x]
       /\ r[s].directory /\ r[s].name # None => names'[s] # None
  BY <1>2, <1>4, <1>9, <1>10, NamesGiven
<1>12. ASSUME NEW x \in Segment, Base(x), m[x] = "here", names'[x] = None, Path \subseteq FoundIn(r, x)
       PROVE  map[x] = "here" /\ Path \subseteq FoundIn(rec, x)
  <2>1. x # s
    BY <1>4, <1>11, <1>12, ShapeNamed
  <2>2. r[x] = rec[x] /\ map[x] = "here"
    BY <1>2, <1>4, <1>12, <2>1
  <2> QED
    BY <1>12, <2>2 DEF FoundIn
<1>13. \A x \in Segment : map[x] = "here" => r[x].name = rec[x].name
  BY <1>2, <1>4
<1> QED
  BY <1>1, <1>2, <1>7, <1>8, <1>11, <1>12, <1>13 DEF AddGives

\* A base record that segments of its file wait for.
LEMMA GivesAwaited ==
  ASSUME VolumesSound, IInv, RecInv, OtherTypes, Records(rec, map), Present, NEW s \in Segment, AddAwaited(s),
         map' = [map EXCEPT ![s] = "here"]
  PROVE  AddGives(s)
<1>1. PICK m, w, r, W : m = map' /\ w = rec' /\ r = ParseRecord(rec, s, None) /\ W = Waiting(r, s)
  OBVIOUS
<1>2. /\ disk \in Volumes /\ rec \in [Segment -> Record] /\ Base(s) /\ map[s] = "absent"
      /\ r = ParseRecord(rec, s, None) /\ w = ParseWaiting(r, s) /\ names' = AddDirectoryName(r, s)
      /\ W = {h \in ListOf(s) \ {s} : map[h] = "here"} /\ W = Waiting(r, s)
      /\ map \in [Segment -> {"absent", "here", "gone"}]
      /\ names \in [Segment -> Segment \cup {Root, None}]
      /\ m[s] = "here" /\ \A x \in Segment \ {s} : m[x] = map[x]
  BY <1>1 DEF RecInv, Keeping, AddAwaited, IInv, WalkTypes, OtherTypes
<1>3. rec[s] = Blank /\ FileOf(s) = s
  BY <1>2, DiskSound DEF Records
<1>4. r \in [Segment -> Record] /\ (\A x \in Segment \ {s} : r[x] = rec[x]) /\ BaseShape(r, m, s)
  BY <1>2, <1>3, ParseBase
<1>5. FoundIn(r, s) = disk.holds[s] /\ ~r[s].complete
  BY <1>2, <1>3, ParseBase
<1>6. r \in Keeping(rec)
  <2>1. VolumeOK(disk) /\ None \in Segment \cup {None} /\ rec \in Keeping(rec)
    BY DiskTyped DEF RecInv
  <2> QED
    BY <1>2, <2>1, ParseKeeps
<1>7. ASSUME NEW h \in W
      PROVE  WaitsFor(r, h, s) /\ m[h] = "here" /\ h # s /\ FileOf(h) = s /\ ListOf(h) = {}
  <2>1. h \in ListOf(s) /\ h # s /\ map[h] = "here"
    BY <1>2
  <2>2. h \in Segment /\ FileOf(h) = s
    BY <1>2, <2>1, DiskSound
  <2>3. ~Base(h) /\ disk.base[h] = s
    BY <2>1, <2>2 DEF FileOf
  <2>4. ListOf(h) = {}
    BY <1>2, <2>2, <2>3, DiskSound
  <2>5. ChildRecord(rec, map, h) /\ r[h] = rec[h]
    BY <1>4, <2>1, <2>2, <2>3 DEF Records
  <2>6. ~r[h].parsed /\ r[h].base = None /\ DOMAIN r[h].entries = {}
    BY <1>2, <2>3, <2>5 DEF ChildRecord
  <2> QED
    BY <1>2, <2>1, <2>2, <2>3, <2>4, <2>6 DEF WaitsFor
<1>8. Joined(w, r, W, m, s)
  <2>1. \A h \in Waiting(r, s) : WaitsFor(r, h, s) /\ m[h] = "here"
    BY <1>2, <1>7
  <2>2. disk \in Volumes /\ r \in [Segment -> Record] /\ BaseShape(r, m, s) /\ r \in Keeping(rec)
    BY <1>2, <1>4, <1>6
  <2>3. Joined(ParseWaiting(r, s), r, Waiting(r, s), m, s)
    BY <2>1, <2>2, WaitingJoin
  <2> QED
    BY <1>2, <2>3
<1>9. w \in [Segment -> Record] /\ BaseShape(w, m, s)
  BY <1>8 DEF Joined
<1>10. \A t : t \in FoundIn(w, s) <=> t \in FoundIn(r, s) \/ \E h \in W : t \in disk.holds[h]
  BY <1>8 DEF Joined
<1>11. \A x \in Segment \ {s} : x \notin W => w[x] = r[x]
  BY <1>8 DEF Joined
<1>12. \A x \in Segment : w[x].complete = r[x].complete
  BY <1>8 DEF Joined
<1>13. \A h \in W : w[h].parsed /\ w[h].base = s /\ w[h].kids = ListOf(h) /\ DOMAIN w[h].entries = disk.holds[h]
  BY <1>8 DEF Joined
<1>14. ASSUME NEW x \in Segment
       PROVE  /\ m[x] # "here" => w[x] = Blank
              /\ m[x] = "here" /\ Base(x) => BaseRecord(w, m, x)
              /\ m[x] = "here" /\ ~Base(x) => ChildRecord(w, m, x)
  <2>1. CASE x = s
    <3>1. ASSUME NEW h \in Segment, m[h] = "here", FileOf(h) = s, NEW t \in disk.holds[h] PROVE t \in FoundIn(w, s)
      <4>1. CASE h = s
        BY <1>5, <1>10, <3>1, <4>1
      <4>2. CASE h # s
        <5>1. ~Base(h) /\ map[h] = "here"
          BY <1>2, <3>1, <4>2 DEF FileOf
        <5>2. h \in ListOf(s)
          BY <1>2, <3>1, <5>1, DiskSound
        <5>3. h \in W
          BY <1>2, <4>2, <5>1, <5>2
        <5> QED
          BY <1>10, <3>1, <5>3
      <4> QED
        BY <4>1, <4>2
    <3>2. BaseRecord(w, m, s)
      BY <1>9, <3>1 DEF BaseRecord
    <3> QED
      BY <1>2, <2>1, <3>2
  <2>2. CASE x \in W
    <3>1. s # None /\ ~Base(x) /\ disk.base[x] = s /\ m[x] = "here" /\ ListOf(x) = {}
      BY <1>7, <2>2, SegmentAssumption DEF None, WaitsFor
    <3>2. ChildRecord(w, m, x)
      BY <1>2, <1>13, <2>2, <3>1 DEF ChildRecord
    <3> QED
      BY <3>1, <3>2
  <2>3. CASE FileOf(x) # s
    <3>1. \A h \in Segment : FileOf(h) = FileOf(x) => m[h] = map[h]
      BY <1>2, <1>3, <2>3
    <3>2. w[x] = rec[x]
      BY <1>3, <1>4, <1>7, <1>11, <2>3
    <3>3. m[x] # "here" => w[x] = Blank
      BY <1>2, <3>1, <3>2, OtherFile
    <3>4. m[x] = "here" /\ Base(x) => BaseRecord(w, m, x)
      BY <1>2, <3>1, <3>2, OtherFile
    <3>5. m[x] = "here" /\ ~Base(x) => ChildRecord(w, m, x)
      BY <1>2, <3>1, <3>2, OtherFile, SMTT(60)
    <3> QED
      BY <3>3, <3>4, <3>5
  <2>4. CASE x # s /\ x \notin W /\ FileOf(x) = s
    <3>1. ~Base(x) /\ disk.base[x] = s
      BY <2>4 DEF FileOf
    <3>2. w[x] = rec[x] /\ m[x] = map[x] /\ (m[x] = "here" => x \notin ListOf(s))
      BY <1>2, <1>4, <1>11, <2>4
    <3> QED
      BY <1>2, <3>1, <3>2 DEF Records, ChildRecord
  <2> QED
    BY <2>1, <2>2, <2>3, <2>4
<1>15. Records(rec', map')
  BY <1>1, <1>14 DEF Records
<1>16. \A x \in Segment : w[x].complete => rec[x].complete /\ map[x] = "here"
  BY <1>4, <1>5, <1>12, BlankFacts DEF Records
<1>17. s = BaseOf(r, s)
  BY <1>4, ShapeNamed DEF BaseOf
<1>18. r[s].name # None => Base(s) /\ r[s].name = disk.parent[s]
  BY <1>2, <1>4, ShapeNamed
<1>19. /\ \A x \in Segment : names[x] # None => names'[x] = names[x]
       /\ \A x \in Segment : names[x] = None /\ names'[x] # None =>
            x = s /\ r[s].name # None /\ Base(x) /\ names'[x] = disk.parent[x]
  BY <1>2, <1>4, <1>17, <1>18, NamesGiven
<1>20. \A h \in W : ~Base(h)
  BY <1>7 DEF WaitsFor
<1>21. ASSUME NEW x \in Segment, Base(x), m[x] = "here", Path \subseteq FoundIn(w, x), x # s
       PROVE  map[x] = "here" /\ Path \subseteq FoundIn(rec, x)
  <2>1. w[x] = rec[x] /\ map[x] = "here"
    BY <1>2, <1>4, <1>11, <1>20, <1>21
  <2> QED
    BY <1>21, <2>1 DEF FoundIn
<1>22. \A x \in Segment : Base(x) /\ map[x] = "here" => w[x].name = rec[x].name
  BY <1>2, <1>4, <1>11, <1>20
<1>23. s \in lost \/ cur \in ListOf(s) \ {s}
  BY DEF AddAwaited
<1>24. \A x \in Segment : Base(x) /\ map'[x] = "here" /\ names'[x] = None /\ Path \subseteq FoundIn(rec', x) =>
         \/ map[x] = "here" /\ Path \subseteq FoundIn(rec, x)
         \/ x = s /\ (s \in lost \/ cur \in ListOf(s) \ {s})
  BY <1>1, <1>21, <1>23
<1>25. \A x \in Segment : names[x] = None /\ names'[x] # None =>
         Base(x) /\ names'[x] = disk.parent[x] /\ map'[x] = "here"
  BY <1>1, <1>2, <1>19
<1> QED
  BY <1>1, <1>2, <1>15, <1>16, <1>19, <1>22, <1>24, <1>25 DEF AddGives

\* What AddRecord does to the map, the records and the names.
LEMMA AddEffects ==
  ASSUME VolumesSound, IInv, RecInv, OtherTypes, Records(rec, map), Present, AddRecord
  PROVE  /\ adding \in Segment /\ map[adding] # "gone" /\ map' = [map EXCEPT ![adding] = "here"] /\ disk' = disk
         /\ AddGives(adding)
<1>1. /\ adding \in Segment /\ map[adding] # "gone" /\ map' = [map EXCEPT ![adding] = "here"] /\ disk' = disk
      /\ \/ AddNothing(adding) \/ AddChild(adding) \/ AddBase(adding) \/ AddAwaited(adding)
  BY AddCases
<1> QED
  BY <1>1, GivesNothing, GivesChild, GivesBase, GivesAwaited

-----------------------------------------------------------------------------
(***************************************************************************)
(* What the steps have in common.                                          *)
(***************************************************************************)
\* What other theorems need, and all that holds of a walk over a sound volume.
Sane == IInv /\ RecInv /\ Enumeration /\ OtherTypes
SoundWalk == VolumesSound /\ Signed /\ Sane /\ Records(rec, map) /\ Present /\ Judgements /\ Names /\ Fetching
             /\ Ready /\ Seen

\* The volume does not change, and nothing that is read of it while no read fails.
LEMMA DiskSame ==
  ASSUME disk' = disk
  PROVE  /\ \A x : /\ FileOf(x)' = FileOf(x) /\ (Base(x)' <=> Base(x)) /\ ListOf(x)' = ListOf(x)
                   /\ Above(x)' = Above(x) /\ (Readable(x)' <=> Readable(x))
         /\ Signed' <=> Signed
         /\ lost' = lost /\ unread' = unread =>
              \A x : (Got(x)' <=> Got(x)) /\ Legible(x)' = Legible(x) /\ (Hopeless(x)' <=> Hopeless(x))
BY DEF FileOf, Base, ListOf, Above, Readable, InUse, Got, Legible, Hopeless, Signed

\* When a read fails, less can be read of the volume than before.
LEMMA LessLegible ==
  ASSUME disk' = disk, lost \subseteq lost', unread \subseteq unread'
  PROVE  \A x : (Got(x)' => Got(x)) /\ Legible(x)' \subseteq Legible(x) /\ (Hopeless(x) => Hopeless(x)')
<1>1. \A x : Got(x)' => Got(x)
  BY DiskSame DEF Got
<1>2. \A x : Legible(x)' \subseteq Legible(x)
  BY <1>1 DEF Legible
<1> QED
  BY <1>1, <1>2, DiskSame DEF Hopeless

\* The types, from the invariant.
LEMMA SoundFacts ==
  ASSUME SoundWalk
  PROVE  /\ disk \in Volumes /\ VolumesSound /\ NamesOf(names) /\ rec \in [Segment -> Record] /\ None \notin Segment
         /\ map \in [Segment -> {"absent", "here", "gone"}] /\ cur \in Segment \cup {None}
<1>1. disk \in Volumes /\ rec \in [Segment -> Record] /\ None \notin Segment
      /\ map \in [Segment -> {"absent", "here", "gone"}] /\ cur \in Segment \cup {None}
  BY SegmentAssumption DEF SoundWalk, Sane, RecInv, Keeping, IInv, WalkTypes, None
<1>2. NamesOf(names)
  BY DEF SoundWalk, Sane, OtherTypes, Names, NamesOf
<1> QED
  BY <1>1, <1>2 DEF SoundWalk

\* Names are only added, and a path without a gap stays one.
LEMMA LackingMono ==
  ASSUME disk \in Volumes, VolumesSound, NEW n, NamesOf(n), NEW p, NamesOf(p),
         \A x \in Segment : n[x] # None => p[x] # None,
         NEW d \in Segment \cup {Root, None}, LackingIn(n, d) = {}
  PROVE  LackingIn(p, d) = {}
<1>1. CASE d = None
  BY <1>1, LackingAbove, SegmentAssumption
<1>2. CASE d \in Segment \cup {Root}
  <2>1. \A y \in Above(d) : n[y] # None
    BY <1>2, LackingAbove
  <2>2. \A y \in Above(d) : p[y] # None
    BY <2>1, AboveSteps
  <2> QED
    BY <1>2, <2>2, LackingAbove
<1> QED
  BY <1>1, <1>2

\* The directories above a directory are directories.
LEMMA AboveBase ==
  ASSUME disk \in Volumes, VolumesSound, NEW s \in Segment
  PROVE  /\ \A z \in Above(disk.parent[s]) : z \in Segment /\ Base(z) /\ FileOf(z) = z
<1>1. SUFFICES ASSUME NEW z \in Above(disk.parent[s]) PROVE z \in Segment /\ Base(z)
  BY DiskSound
<1> DEFINE A == {x \in Segment : Base(x)}
<1>2. z \in Segment /\ disk.parent[s] \in Segment
  BY <1>1 DEF Above
<1>3. A \in SUBSET Segment /\ disk.parent[s] \in A
  BY <1>2, DiskSound, SegmentAssumption
<1>4. \A x \in A : disk.parent[x] \in Segment => disk.parent[x] \in A
  BY DiskSound, SegmentAssumption
<1> HIDE DEF A
<1>5. z \in A
  BY <1>1, <1>3, <1>4 DEF Above
<1> QED
  BY <1>5 DEF A

\* The parent of a base record in the map, once it is known.
LEMMA NameKnown ==
  ASSUME SoundWalk, NEW b \in Segment, rec[b].name # None
  PROVE  map[b] = "here" /\ (Base(b) => rec[b].name = disk.parent[b]) /\ rec[b].name \in Segment \cup {Root}
<1>1. map[b] = "here"
  BY BlankFacts DEF SoundWalk, Records
<1>2. Base(b) => rec[b].name = disk.parent[b]
  BY <1>1, ShapeNamed DEF SoundWalk, Records, BaseRecord
<1> QED
  BY <1>1, <1>2, SoundFacts DEF Record

\* A directory that nothing is missing of, and that has no name, will get none.
LEMMA HopelessWithout ==
  ASSUME SoundWalk, NEW d \in Segment, Base(d), names[d] = None, map[d] # "absent", ~Window(d),
         \A k \in Segment : ~Loose(d, k)
  PROVE  Hopeless(d)
<1>1. SUFFICES ASSUME Got(d), Path \subseteq Legible(d) PROVE FALSE
  BY DEF Hopeless
<1>0. Readable(d) /\ d \notin lost
  BY <1>1 DEF Got
<1>2. map[d] = "here"
  BY <1>1, SoundFacts DEF SoundWalk, Names
<1>3. PICK t \in Path : t \notin FoundIn(rec, d)
  BY <1>0, <1>2 DEF SoundWalk, Names
<1>4. PICK h \in Segment : Readable(h) /\ h \notin lost /\ (h = d \/ disk.base[h] = d) /\ t \in disk.holds[h]
  BY <1>1, <1>3 DEF Legible, Got
<1>5. FileOf(h) = d
  BY <1>4, SoundFacts, DiskSound, SegmentAssumption DEF FileOf, Base, None
<1>6. map[h] # "here"
  BY <1>2, <1>3, <1>4, <1>5 DEF SoundWalk, Records, BaseRecord
<1>7. h # d /\ ~Base(h) /\ disk.base[h] = d
  BY <1>2, <1>4, <1>5, <1>6 DEF FileOf
<1>8. map[h] = "absent"
  BY <1>2, <1>4, <1>6, <1>7, SoundFacts DEF SoundWalk, Present
<1>9. h \in ListOf(d)
  BY <1>4, <1>5, <1>7, SoundFacts, DiskSound
<1> QED
  BY <1>2, <1>4, <1>8, <1>9 DEF Loose

\* What can be read of a file that nothing is missing of was found.
LEMMA LegibleFound ==
  ASSUME SoundWalk, NEW s \in Segment, Base(s), map[s] = "here", WholeButLost(s)
  PROVE  Legible(s) \subseteq FoundIn(rec, s)
<1>1. SUFFICES ASSUME NEW h \in Segment, Readable(h), h \notin lost, h = s \/ disk.base[h] = s,
                      NEW t \in disk.holds[h]
               PROVE  t \in FoundIn(rec, s)
  BY DEF Legible, Got
<1>2. FileOf(h) = s
  BY <1>1, SoundFacts, DiskSound, SegmentAssumption DEF FileOf, Base, None
<1>3. CASE map[h] = "here"
  BY <1>2, <1>3 DEF SoundWalk, Records, BaseRecord
<1>4. CASE map[h] # "here"
  <2>1. ~Base(h) /\ disk.base[h] = s
    BY <1>1, <1>2, <1>4 DEF FileOf
  <2>2. h \in ListOf(s)
    BY <1>1, <1>2, <2>1, SoundFacts, DiskSound
  <2>3. map[h] # "absent"
    BY <1>1, <2>2 DEF WholeButLost, Absent
  <2>4. map[h] = "gone"
    BY <1>4, <2>3, SoundFacts
  <2> QED
    BY <1>1, <2>1, <2>4 DEF SoundWalk, Present
<1> QED
  BY <1>3, <1>4

-----------------------------------------------------------------------------
(***************************************************************************)
(* The question whether a record is complete.                              *)
(***************************************************************************)
\* The base of a record in the map.
LEMMA BaseOfHere ==
  ASSUME SoundWalk, NEW s \in Segment, map[s] = "here"
  PROVE  /\ FileOf(s) \in Segment /\ Base(FileOf(s))
         /\ rec[s].base = None => BaseOf(rec, s) = s
         /\ rec[s].base # None => ~Base(s) /\ BaseOf(rec, s) = FileOf(s) /\ map[FileOf(s)] # "absent"
         /\ ~Base(s) => FileOf(s) = disk.base[s]
         /\ Orphan(BaseOf(rec, s)) <=> ~Base(s) /\ rec[s].base = None
         /\ ~Base(s) /\ rec[s].base = None => ~rec[s].complete /\ rec[s].name = None
         /\ ~Base(s) => rec[s].kids = {}
         /\ Base(s) => rec[s].kids = ListOf(s) /\ FileOf(s) = s /\ rec[s].base = None
<1>1. FileOf(s) \in Segment /\ Base(FileOf(s)) /\ (Base(s) => FileOf(s) = s) /\ (~Base(s) => FileOf(s) = disk.base[s])
  BY SoundFacts, DiskSound
<1>2. CASE Base(s)
  <2>1. BaseShape(rec, map, s)
    BY <1>2 DEF SoundWalk, Records, BaseRecord
  <2>2. rec[s].base = None /\ rec[s].kids = ListOf(s)
    BY <2>1 DEF BaseShape
  <2> QED
    BY <1>1, <1>2, <2>2 DEF BaseOf, Orphan, Base
<1>3. CASE ~Base(s)
  <2>1. ChildRecord(rec, map, s)
    BY <1>3 DEF SoundWalk, Records
  <2>2. /\ rec[s].base \in {None, FileOf(s)} /\ rec[s].kids = {}
        /\ rec[s].base = None => ~rec[s].complete /\ rec[s].name = None
        /\ rec[s].base # None => map[FileOf(s)] # "absent"
    BY <1>1, <1>3, <2>1 DEF ChildRecord
  <2> QED
    BY <1>1, <1>3, <2>2 DEF BaseOf, Orphan, Base
<1> QED
  BY <1>2, <1>3

\* An absent segment of the list of a record in the map is still to be found.
LEMMA AbsentListed ==
  ASSUME SoundWalk, NEW b \in Segment, Base(b), map[b] = "here", NEW k \in ListOf(b), map[k] = "absent"
  PROVE  \E t \in Unresolved(b) : rec[b].entries[t].listed = k
<1>1. BaseShape(rec, map, b)
  BY DEF SoundWalk, Records, BaseRecord
<1>2. PICK t \in DOMAIN disk.list[b] : k = disk.list[b][t]
  BY DEF ListOf
<1>3. t \in DOMAIN rec[b].entries /\ rec[b].entries[t].listed = k /\ rec[b].kids = ListOf(b)
  BY <1>1, <1>2 DEF BaseShape
<1>4. rec[b].entries[t].found = None
  <2>1. SUFFICES ASSUME rec[b].entries[t].found # None PROVE FALSE
    OBVIOUS
  <2>2. PICK h : h = rec[b].entries[t].found
    OBVIOUS
  <2>3. h \in Segment
    BY <1>3, <2>1, <2>2, SoundFacts DEF Record, Entries, Entry
  <2>4. map[h] = "here" /\ FileOf(h) = b /\ t \in disk.holds[h]
    BY <1>1, <1>3, <2>1, <2>2 DEF BaseShape
  <2>5. disk.list[b][t] = h
    BY <1>2, <2>3, <2>4, SoundFacts, DiskSound
  <2> QED
    BY <1>2, <2>4, <2>5
<1>5. HasList(b)
  BY <1>3 DEF HasList
<1> QED
  BY <1>3, <1>4, <1>5 DEF Unresolved

\* A record found complete lacks no segment, and its path is named.
LEMMA CompleteWhole ==
  ASSUME SoundWalk, NEW s \in Segment, map[s] = "here", map[FileOf(s)] = "here", NEW strict \in BOOLEAN,
         Complete(s, strict), strict \/ Base(s)
  PROVE  /\ Whole(FileOf(s))
         /\ strict /\ cursor \in Segment => LackingIn(names, rec[FileOf(s)].name) = {}
<1> DEFINE b == FileOf(s)
<1>1. CASE rec[s].complete
  BY <1>1 DEF SoundWalk, Judgements
<1>2. CASE ~rec[s].complete
  <2>1. BaseOf(rec, s) = b /\ b \in Segment /\ Base(b)
    BY <1>2, BaseOfHere DEF Complete
  <2>2. /\ Absent(rec[s].kids) = {}
        /\ strict => Unresolved(b) = {} /\ LackingIn(names, rec[b].name) = {}
    BY <1>2, <2>1, LackingThere DEF Complete
  <2>3. Whole(b)
    <3>1. CASE Base(s)
      BY <2>2, <3>1, BaseOfHere DEF Whole
    <3>2. CASE strict
      BY <2>1, <2>2, <3>2, AbsentListed DEF Whole, Absent
    <3> QED
      BY <3>1, <3>2
  <2> QED
    BY <2>2, <2>3
<1> QED
  BY <1>1, <1>2

\* What a judgement leaves of the records.
LEMMA JudgedFacts ==
  ASSUME SoundWalk, NEW s \in Segment, NEW strict, NEW r, r = Judged(s, strict)
  PROVE  /\ r \in [Segment -> Record]
         /\ \A x \in Segment \ {s} : r[x] = rec[x]
         /\ \A x \in Segment : /\ r[x].parsed = rec[x].parsed /\ r[x].base = rec[x].base /\ r[x].kids = rec[x].kids
                               /\ r[x].entries = rec[x].entries /\ r[x].name = rec[x].name
                               /\ r[x].directory = rec[x].directory
         /\ r[s].complete = Complete(s, strict)
<1>1. PICK record \in Record : record = rec[s]
  BY SoundFacts
<1>2. PICK c \in BOOLEAN : c = Complete(s, strict)
  BY DEF Complete
<1>3. PICK new \in Record : /\ new.parsed = record.parsed /\ new.base = record.base /\ new.kids = record.kids
                            /\ new.entries = record.entries /\ new.name = record.name
                            /\ new.directory = record.directory /\ new.complete = c
                            /\ new = [record EXCEPT !.complete = c]
  <2> DEFINE n == [record EXCEPT !.complete = c]
  <2>1. /\ n \in Record
        /\ n.parsed = record.parsed /\ n.base = record.base /\ n.kids = record.kids
        /\ n.entries = record.entries /\ n.name = record.name
        /\ n.directory = record.directory /\ n.complete = c
    BY DEF Record
  <2> HIDE DEF n
  <2> QED
    BY <2>1 DEF n
<1>4. r = [rec EXCEPT ![s] = new]
  BY <1>1, <1>2, <1>3 DEF Judged
<1>5. r \in [Segment -> Record] /\ r[s] = new /\ \A x \in Segment \ {s} : r[x] = rec[x]
  BY <1>4, SoundFacts
<1> QED
  BY <1>1, <1>2, <1>3, <1>5

\* A judgement changes nothing else of the records, and is a sound one.
LEMMA JudgedSound ==
  ASSUME SoundWalk, NEW s \in Segment, map[s] = "here", NEW strict \in BOOLEAN, ~strict => Base(s) /\ cursor \notin Segment,
         disk' = disk, map' = map, names' = names, rec' = Judged(s, strict), cursor' \in Segment => cursor \in Segment
  PROVE  Records(rec', map') /\ Judgements'
         /\ \A x \in Segment : /\ FoundIn(rec', x) = FoundIn(rec, x) /\ rec'[x].name = rec[x].name
                               /\ rec'[x].base = rec[x].base
<1>1. PICK r : r = Judged(s, strict) /\ r = rec'
  OBVIOUS
<1>2. /\ \A x \in Segment \ {s} : r[x] = rec[x]
      /\ \A x \in Segment : /\ r[x].parsed = rec[x].parsed /\ r[x].base = rec[x].base /\ r[x].kids = rec[x].kids
                            /\ r[x].entries = rec[x].entries /\ r[x].name = rec[x].name
                            /\ r[x].directory = rec[x].directory
      /\ r[s].complete = Complete(s, strict)
  BY <1>1, JudgedFacts
<1>3. \A x \in Segment : FoundIn(r, x) = FoundIn(rec, x)
  BY <1>2 DEF FoundIn
<1>4. ASSUME NEW x \in Segment
      PROVE  /\ map[x] # "here" => r[x] = Blank
             /\ map[x] = "here" /\ Base(x) => BaseRecord(r, map, x)
             /\ map[x] = "here" /\ ~Base(x) => ChildRecord(r, map, x)
  <2>1. map[x] # "here" => r[x] = Blank
    BY <1>2 DEF SoundWalk, Records
  <2>2. ASSUME map[x] = "here", Base(x) PROVE BaseRecord(r, map, x)
    <3>1. BaseRecord(rec, map, x)
      BY <2>2 DEF SoundWalk, Records
    <3> QED
      BY <1>2, <1>3, <3>1 DEF BaseRecord, BaseShape
  <2>3. ASSUME map[x] = "here", ~Base(x) PROVE ChildRecord(r, map, x)
    <3>1. ChildRecord(rec, map, x)
      BY <2>3 DEF SoundWalk, Records
    <3>2. r[x].base = None => ~r[x].complete
      <4>1. CASE x # s
        BY <1>2, <3>1, <4>1 DEF ChildRecord
      <4>2. CASE x = s
        BY <1>2, <2>3, <4>2, BaseOfHere DEF Complete
      <4> QED
        BY <4>1, <4>2
    <3> QED
      BY <1>2, <3>1, <3>2 DEF ChildRecord
  <2> QED
    BY <2>1, <2>2, <2>3
<1>5. Records(rec', map')
  BY <1>1, <1>4 DEF Records
<1>6. ASSUME NEW x \in Segment, map[x] = "here", r[x].complete, map[FileOf(x)] = "here"
      PROVE  Whole(FileOf(x)) /\ (cursor \in Segment => LackingIn(names, r[FileOf(x)].name) = {})
  <2>1. FileOf(x) \in Segment
    BY SoundFacts, DiskSound
  <2>2. CASE x # s
    BY <1>2, <1>6, <2>1, <2>2 DEF SoundWalk, Judgements
  <2>3. CASE x = s
    <3>1. Whole(FileOf(s)) /\ (strict /\ cursor \in Segment => LackingIn(names, rec[FileOf(s)].name) = {})
      BY <1>2, <1>6, <2>3, CompleteWhole
    <3> QED
      BY <1>2, <2>1, <2>3, <3>1
  <2> QED
    BY <2>2, <2>3
<1>7. Judgements'
  BY <1>1, <1>6, DiskSame DEF Judgements, Whole, Absent
<1> QED
  BY <1>1, <1>2, <1>3, <1>5, <1>7

\* What a record misses belongs to its file, or to the directories of its path.
LEMMA MissingPending ==
  ASSUME SoundWalk, NEW s \in Segment, map[s] = "here", Class(FileOf(s)), NEW z \in Missing(s)
  PROVE  z \in Segment /\ Owed(z)
<1>1. PICK b, F : b = BaseOf(rec, s) /\ F = FileOf(s)
  OBVIOUS
<1>2. /\ F \in Segment /\ Base(F) /\ FileOf(F) = F /\ (~Base(s) => F = disk.base[s]) /\ (Base(s) => F = s)
      /\ rec[s].base = None => b = s
      /\ rec[s].base # None => ~Base(s) /\ b = F
      /\ Orphan(b) <=> ~Base(s) /\ rec[s].base = None
      /\ ~Base(s) /\ rec[s].base = None => rec[s].name = None
      /\ ~Base(s) => rec[s].kids = {}
      /\ Base(s) => rec[s].kids = ListOf(s) /\ b = F
  <2>1. F \in Segment /\ Base(F) /\ FileOf(F) = F
    BY <1>1, SoundFacts, DiskSound
  <2> QED
    BY <1>1, <2>1, BaseOfHere
<1>3. z \in Segment
  BY MissingSegments
<1>4. ASSUME z \in ListOf(F), map[F] = "here" PROVE Owed(z)
  <2>1. FileOf(z) = F
    BY <1>2, <1>4, SoundFacts, DiskSound
  <2>2. ~Base(z) => disk.base[z] = F
    BY <2>1 DEF FileOf
  <2> QED
    BY <1>1, <1>4, <2>1, <2>2 DEF Owed
<1>5. b = F \/ (b = s /\ ~Base(s) /\ rec[s].kids = {} /\ rec[s].name = None)
  BY <1>2
<1>6. CASE z \in Absent(rec[s].kids)
  BY <1>2, <1>4, <1>6 DEF Absent
<1>7. CASE Orphan(b) /\ z \in Absent({disk.base[b]})
  <2>1. z = F
    BY <1>2, <1>7 DEF Absent
  <2> QED
    BY <1>1, <1>2, <2>1 DEF Owed
<1>8. CASE \E t \in Unresolved(b) : z = rec[b].entries[t].listed
  <2>1. PICK t \in Unresolved(b) : z = rec[b].entries[t].listed
    BY <1>8
  <2>2. b = F /\ rec[F].kids # {} /\ t \in DOMAIN rec[F].entries
    BY <1>5, <2>1 DEF Unresolved, HasList
  <2>3. map[F] = "here" /\ BaseShape(rec, map, F)
    BY <1>2, <2>2, BlankFacts DEF SoundWalk, Records, BaseRecord
  <2>4. z \in ListOf(F)
    BY <1>3, <2>1, <2>2, <2>3, SoundFacts DEF BaseShape, ListOf
  <2> QED
    BY <1>3, <1>4, <2>3, <2>4
<1>9. CASE z \in Unparsed(b)
  <2>1. PICK t \in DOMAIN rec[b].entries : z = rec[b].entries[t].found /\ HasList(b)
    BY <1>9 DEF Unparsed
  <2>2. b = F /\ rec[F].kids # {}
    BY <1>5, <2>1 DEF HasList
  <2>3. map[F] = "here" /\ BaseShape(rec, map, F)
    BY <1>2, <2>2, BlankFacts DEF SoundWalk, Records, BaseRecord
  <2>4. FileOf(z) = F /\ t \in disk.holds[z]
    BY <1>3, <2>1, <2>2, <2>3, SoundFacts DEF BaseShape
  <2>5. ~Base(z) => z \in ListOf(F) /\ disk.base[z] = F
    BY <1>3, <2>4, SoundFacts, DiskSound
  <2> QED
    BY <1>1, <1>3, <2>3, <2>4, <2>5 DEF Owed
<1>10. CASE z \in Lacking(rec[b].name)
  <2>1. z \in LackingIn(names, rec[b].name)
    BY <1>10, LackingThere
  <2>2. rec[b].name # None
    BY <2>1, SoundFacts, LackingAbove, SegmentAssumption
  <2>3. b = F /\ rec[F].name = disk.parent[F] /\ map[F] = "here" /\ disk.parent[F] \in Segment \cup {Root}
    BY <1>2, <1>5, <2>2, NameKnown
  <2>4. z \in Above(disk.parent[F]) /\ names[z] = None
    BY <2>1, <2>3, SoundFacts, LackingAbove
  <2>5. Base(z) /\ FileOf(z) = z
    BY <1>2, <2>4, SoundFacts, AboveBase
  <2>6. Class(z)
    <3>1. CASE F = FileOf(cur)
      BY <2>2, <2>3, <2>4, <3>1 DEF Class, OnPath, Here
    <3>2. CASE OnPath(F)
      <4>1. PICK c : c = disk.parent[FileOf(cur)]
        OBVIOUS
      <4>2. F \in Above(c)
        BY <3>2, <4>1 DEF OnPath
      <4>3. Above(disk.parent[F]) \subseteq Above(F) /\ Above(F) \subseteq Above(c)
        BY <1>2, <4>2, AboveSteps
      <4>4. z \in Above(c)
        BY <2>4, <4>3
      <4> QED
        BY <3>2, <4>1, <4>4 DEF Class, OnPath
    <3>3. CASE LackingIn(names, F) = {}
      <4>1. \A y \in Above(F) : names[y] # None
        BY <1>2, <3>3, SoundFacts, LackingAbove
      <4>2. Above(disk.parent[F]) \subseteq Above(F)
        BY <1>2, AboveSteps
      <4> QED
        BY <2>4, <4>1, <4>2
    <3> QED
      BY <1>1, <3>1, <3>2, <3>3 DEF Class
  <2> QED
    BY <1>3, <2>5, <2>6 DEF Owed
<1> QED
  BY <1>1, <1>3, <1>6, <1>7, <1>8, <1>9, <1>10 DEF Missing, Absent

\* When the record of the callback is complete, or when all it misses was fetched once: nothing is
\* missing of its file, and of the directories of its path nothing that can be read.
LEMMA CheckDone ==
  ASSUME SoundWalk, pc = "check", Complete(cur, TRUE) \/ missing \cup Missing(cur) \subseteq fetched
  PROVE  /\ map[FileOf(cur)] # "absent" \/ FileOf(cur) \in lost
         /\ \A d, k \in Segment : ~Loose(d, k)
         /\ Base(cur) => WholeButLost(cur) /\ \A d \in LackingIn(names, rec[cur].name) : Hopeless(d)
<1>1. PICK c, F : c = cur /\ F = FileOf(cur)
  OBVIOUS
<1>2. /\ c \in Segment /\ map[c] = "here" /\ toFetch = {} /\ adding = None /\ cursor \in Segment
  BY <1>1, SoundFacts DEF SoundWalk, Sane, IInv, CurrentHere, AddingOK, WalkTypes, Enumeration, Fetching
<1>3. /\ F \in Segment /\ Base(F) /\ FileOf(F) = F /\ (~Base(c) => F = disk.base[c]) /\ (Base(c) => F = c)
      /\ rec[c].base = None => BaseOf(rec, c) = c
      /\ rec[c].base # None => ~Base(c) /\ BaseOf(rec, c) = F /\ map[F] # "absent"
      /\ Orphan(BaseOf(rec, c)) <=> ~Base(c) /\ rec[c].base = None
      /\ ~Base(c) /\ rec[c].base = None => ~rec[c].complete
      /\ Base(c) => rec[c].kids = ListOf(c) /\ BaseOf(rec, c) = c
  <2>1. F \in Segment /\ Base(F) /\ FileOf(F) = F
    BY <1>1, <1>2, SoundFacts, DiskSound
  <2> QED
    BY <1>1, <1>2, <2>1, BaseOfHere
<1>4. ~Base(c) /\ map[F] = "here" => rec[c].base # None
  BY <1>1, <1>3 DEF SoundWalk, Fetching
<1>5. \A x \in fetched : map[x] # "absent" \/ x \in lost
  BY <1>1, <1>2, SoundFacts, SegmentAssumption DEF SoundWalk, Fetching, Sane, OtherTypes
<1>6. Complete(c, TRUE) \/ missing \cup Missing(c) \subseteq fetched
  BY <1>1
<1>7. Complete(c, TRUE) \/ Absent(Missing(c) \cup missing) \subseteq lost
  BY <1>5, <1>6 DEF Absent
<1>8. map[F] # "absent" \/ F \in lost
  <2>1. CASE ~Base(c) /\ rec[c].base = None
    <3>1. Orphan(BaseOf(rec, c)) /\ ~rec[c].complete /\ BaseOf(rec, c) = c
      BY <1>3, <2>1
    <3>2. ~Complete(c, TRUE)
      BY <3>1 DEF Complete
    <3>3. map[F] = "absent" => F \in Missing(c)
      BY <1>3, <2>1, <3>1 DEF Missing, Absent
    <3> QED
      BY <1>3, <1>7, <3>2, <3>3 DEF Absent
  <2> QED
    BY <1>2, <1>3, <2>1
<1>9. ASSUME map[F] = "here" PROVE WholeButLost(F) /\ BaseOf(rec, c) = F
  <2>1. BaseOf(rec, c) = F
    BY <1>3, <1>4, <1>9
  <2>2. CASE Complete(c, TRUE)
    BY <1>1, <1>2, <1>9, <2>1, <2>2, CompleteWhole DEF Whole, WholeButLost
  <2>3. CASE ~Complete(c, TRUE)
    <3>1. ~rec[c].complete
      BY <2>3 DEF Complete
    <3>2. SUFFICES ASSUME NEW k \in ListOf(F), map[k] = "absent", k \in Segment PROVE k \in lost
      BY <2>1 DEF WholeButLost, Absent
    <3>3. PICK t \in Unresolved(F) : rec[F].entries[t].listed = k
      BY <1>3, <1>9, <3>2, AbsentListed
    <3>4. k \in Missing(c)
      BY <2>1, <3>1, <3>2, <3>3 DEF Missing, Absent
    <3> QED
      BY <1>7, <2>3, <3>2, <3>4 DEF Absent
  <2> QED
    BY <2>1, <2>2, <2>3
<1>10. ASSUME map[F] = "here", Complete(c, TRUE) PROVE LackingIn(names, rec[F].name) = {}
  BY <1>1, <1>2, <1>10, CompleteWhole
<1>11. ASSUME NEW d \in Segment, NEW k \in Segment, Loose(d, k) PROVE FALSE
  <2>1. d = F \/ (OnPath(d) /\ k \in missing \cup fetched)
    BY <1>1, <1>2, <1>11, SegmentAssumption DEF SoundWalk, Fetching, None
  <2>2. Base(d) /\ map[d] = "here" /\ names[d] = None /\ k \in ListOf(d) /\ map[k] = "absent" /\ k \notin lost
    BY <1>11 DEF Loose
  <2>3. CASE d = F
    BY <1>9, <2>2, <2>3 DEF WholeButLost, Absent
  <2>4. CASE OnPath(d) /\ k \in missing \cup fetched
    <3>1. map[F] = "here" /\ rec[F].name = disk.parent[F] /\ d \in Above(disk.parent[F])
          /\ rec[F].name \in Segment \cup {Root}
      BY <1>1, <1>3, <2>4, NameKnown DEF OnPath, Here
    <3>2. CASE Complete(c, TRUE)
      <4>1. LackingIn(names, disk.parent[F]) = {}
        BY <1>10, <3>1, <3>2
      <4> QED
        BY <2>2, <3>1, <4>1, SoundFacts, LackingAbove
    <3>3. CASE missing \cup Missing(c) \subseteq fetched
      BY <1>5, <2>2, <2>4, <3>3
    <3> QED
      BY <1>6, <3>2, <3>3
  <2> QED
    BY <2>1, <2>3, <2>4
<1>12. ASSUME Base(c), NEW d \in LackingIn(names, rec[c].name) PROVE Hopeless(d)
  <2>1. F = c /\ map[F] = "here" /\ rec[c].name # None
    BY <1>2, <1>3, <1>12, SoundFacts, LackingAbove, SegmentAssumption
  <2>2. rec[c].name = disk.parent[c] /\ disk.parent[c] \in Segment \cup {Root}
    BY <1>2, <1>12, <2>1, NameKnown
  <2>3. d \in Above(disk.parent[c]) /\ names[d] = None
    BY <1>12, <2>2, SoundFacts, LackingAbove
  <2>4. d \in Segment /\ Base(d)
    BY <1>2, <2>3, SoundFacts, AboveBase
  <2>5. ~Complete(c, TRUE) /\ ~rec[c].complete
    <3>1. ~Complete(c, TRUE)
      BY <1>10, <1>12, <2>1
    <3> QED
      BY <3>1 DEF Complete
  <2>6. map[d] # "absent" \/ d \in lost
    <3>1. SUFFICES ASSUME map[d] = "absent" PROVE d \in lost
      OBVIOUS
    <3>2. d \in Absent(Lacking(rec[c].name))
      BY <1>12, <2>4, <3>1, LackingThere DEF Absent
    <3>3. d \in Missing(c)
      BY <1>3, <1>12, <2>5, <3>2 DEF Missing
    <3> QED
      BY <1>7, <2>4, <2>5, <3>1, <3>3 DEF Absent
  <2>7. ~Window(d)
    BY DEF Window, Outside
  <2>8. CASE d \in lost
    BY <2>8 DEF Hopeless, Got
  <2> QED
    BY <1>11, <2>3, <2>4, <2>6, <2>7, <2>8, HopelessWithout
<1> QED
  BY <1>1, <1>8, <1>9, <1>11, <1>12, <1>2, <1>3

-----------------------------------------------------------------------------
(***************************************************************************)
(* The steps.                                                              *)
(***************************************************************************)
Parts == Records(rec, map) /\ Present /\ Judgements /\ Names /\ Fetching /\ Ready /\ Seen
Still == disk' = disk /\ map' = map /\ rec' = rec /\ names' = names /\ calls' = calls /\ seen' = seen
         /\ lost' = lost /\ unread' = unread

\* Records of the next state, in terms of the map and the records of the next state.
LEMMA RecordsPrimed ==
  ASSUME disk' = disk
  PROVE  Records(rec, map)' <=> Records(rec', map')
BY DiskSame DEF Records, BaseRecord, BaseShape, ChildRecord, FoundIn, FileOf, Base, ListOf

\* A step that changes no record keeps what is known of the records.
LEMMA StillRecords ==
  ASSUME SoundWalk, Still, cursor' \in Segment => cursor \in Segment
  PROVE  Records(rec, map)' /\ Judgements' /\ Seen'
<1>1. Records(rec, map)'
  BY RecordsPrimed DEF SoundWalk, Still
<1>2. Judgements'
  BY DiskSame DEF SoundWalk, Still, Judgements, Whole, Absent
<1>3. Seen'
  BY DiskSame DEF SoundWalk, Still, Seen
<1> QED
  BY <1>1, <1>2, <1>3

\* A step that changes no record keeps what is known of the names.
LEMMA StillNames ==
  ASSUME SoundWalk, Still, cur # None /\ pc \in Outside => cur' = cur /\ pc' \in Outside
  PROVE  Names'
<1>1. \A x : FoundIn(rec', x) = FoundIn(rec, x)
  BY DEF Still
<1>2. \A x : Window(x) => Window(x)' /\ cur' = cur
  BY DEF Window, Still
<1> QED
  BY <1>1, <1>2, DiskSame DEF SoundWalk, Still, Names

\* A step that changes no record keeps what is known of the map, as the enumeration goes on.
LEMMA StillPresent ==
  ASSUME SoundWalk, Still, \A x \in Segment : x < cursor' /\ x \notin unread => map[x] # "absent",
         cur' = cur \/ (cur' = None /\ (cur # None => map[FileOf(cur)] # "absent" \/ FileOf(cur) \in lost)),
         \A x \in left' : x \in left \/ Base(x), pc' = "look" => pc = "look" /\ adding' = adding
  PROVE  Present'
<1>1. \A x \in Segment : map[x] = "here" /\ ~Base(x) /\ map[disk.base[x]] = "absent" =>
        x = cur' \/ disk.base[x] \in lost
  BY SoundFacts DEF SoundWalk, Present, FileOf
<1> QED
  BY <1>1, DiskSame, SoundFacts DEF SoundWalk, Still, Present

\* Where the files are depends on the map, the records and the names.
LEMMA SamePlaces ==
  ASSUME disk' = disk, map' = map, rec' = rec, names' = names, lost' = lost
  PROVE  /\ \A d, k : Loose(d, k)' <=> Loose(d, k)
         /\ cur' = cur => \A z : (Owed(z)' <=> Owed(z)) /\ (OnPath(z)' <=> OnPath(z)) /\ (Class(z)' <=> Class(z))
<1>1. \A d, k : Loose(d, k)' <=> Loose(d, k)
  BY DiskSame DEF Loose
<1>2. cur' = cur => \A z : OnPath(z)' <=> OnPath(z)
  BY DiskSame DEF OnPath, Here
<1>3. cur' = cur => \A z : Class(z)' <=> Class(z)
  BY <1>2, DiskSame DEF Class
<1>4. cur' = cur => \A z : Owed(z)' <=> Owed(z)
  BY <1>3, DiskSame DEF Owed
<1> QED
  BY <1>1, <1>2, <1>3, <1>4

\* A step that changes no record keeps what is owed to the record of the callback.
LEMMA StillFetching ==
  ASSUME SoundWalk, Still, cur' = cur, missing' = missing, fetched' = fetched,
         Pending' \subseteq Pending,
         \A x \in Segment : x \in toFetch \cup {adding} /\ map[x] = "absent" => x \in toFetch' \cup {adding'},
         cur = None \/ pc' \in {"update", "check", "call"} => toFetch' = {},
         pc = "look" => pc' = "look" /\ adding' = adding,
         pc' = "check" => pc = "check"
  PROVE  Fetching'
<1>1. \A d, k : Loose(d, k)' <=> Loose(d, k)
  BY SamePlaces DEF Still
<1>2. \A z : (Owed(z)' <=> Owed(z)) /\ (OnPath(z)' <=> OnPath(z))
  BY SamePlaces DEF Still
<1>3. cur' # None => \A z \in Pending' : Owed(z)'
  BY <1>2 DEF SoundWalk, Fetching
<1>4. cur' # None => \A x \in fetched' : map'[x] # "absent" \/ x \in toFetch' \cup {adding'} \/ x \in lost'
  BY DEF SoundWalk, Sane, OtherTypes, Fetching, Still
<1>5. cur' # None => \A d, k \in Segment : Loose(d, k)' =>
        \/ d = FileOf(cur)'
        \/ OnPath(d)' /\ (k \in missing' \cup fetched' \/ (pc' = "look" /\ adding' = d))
  BY <1>1, <1>2, DiskSame DEF SoundWalk, Fetching, Still
<1>6. cur' = None => \A d, k \in Segment : ~Loose(d, k)'
  BY <1>1 DEF SoundWalk, Fetching
<1>7. (pc = "check" /\ ~Base(cur) /\ map[disk.base[cur]] = "here" => rec[cur].base # None)'
  BY DiskSame DEF SoundWalk, Fetching, Still
<1> QED
  BY <1>3, <1>4, <1>5, <1>6, <1>7 DEF Fetching

\* The steps that change no record, no name and no entry of the map.
LEMMA QuietSteps ==
  ASSUME SoundWalk,
         EnumRecord \/ EnumEnds \/ SkipRecord \/ MakeSpace \/ FetchRecord \/ FetchEnds \/ UseFreed \/ CallNothing
           \/ WalkEnds \/ UNCHANGED vars
  PROVE  Parts'
<1>1. /\ AddingOK /\ CurrentHere /\ Enumeration /\ Fetching /\ Present /\ Ready
      /\ \A s \in Segment : disk.signature[s]
  BY DEF SoundWalk, Sane, IInv, Signed
<1>2. CASE EnumRecord
  <2>1. Still /\ pc = "enum" /\ pc' = "add" /\ adding' = cursor /\ cursor' = cursor /\ cur' = cur /\ missing' = missing
        /\ fetched' = fetched /\ toFetch' = toFetch /\ left' = left /\ cur = None /\ adding = None
    BY <1>1, <1>2 DEF EnumRecord, history, Still, AddingOK, Enumeration
  <2>2. Records(rec, map)' /\ Judgements' /\ Seen' /\ Names' /\ Present'
    BY <1>1, <2>1, StillRecords, StillNames, StillPresent, SoundFacts DEF Present
  <2>3. Fetching'
    BY <1>1, <2>1, SamePlaces DEF Still, Fetching
  <2> QED
    BY <2>1, <2>2, <2>3 DEF Parts, Ready
<1>3. CASE EnumEnds
  <2>1. Still /\ pc = "enum" /\ pc' = "walk" /\ adding' = adding /\ cursor' = cursor /\ cur' = cur /\ missing' = missing
        /\ fetched' = fetched /\ toFetch' = toFetch /\ cur = None /\ adding = None /\ \A x \in left' : Base(x)
    BY <1>1, <1>3 DEF EnumEnds, history, Still, AddingOK, Enumeration, Walkable, Base
  <2>2. Records(rec, map)' /\ Judgements' /\ Seen' /\ Names' /\ Present'
    BY <1>1, <2>1, StillRecords, StillNames, StillPresent, SoundFacts DEF Present
  <2>3. Fetching'
    BY <1>1, <2>1, SamePlaces DEF Still, Fetching
  <2> QED
    BY <2>1, <2>2, <2>3 DEF Parts, Ready
<1>4. CASE SkipRecord
  <2>1. Still /\ pc = "add" /\ adding' = None /\ missing' = missing /\ adding \in Segment /\ map[adding] = "gone"
        /\ fetched' = fetched /\ toFetch' = toFetch /\ left' = left
        /\ IF cur = None THEN NextRecord ELSE pc' = "fetch" /\ UNCHANGED <<cursor, cur>>
    BY <1>1, <1>4 DEF SkipRecord, NothingAdded, history, Still, AddingOK
  <2>2. CASE cur = None
    <3>1. pc' = "enum" /\ cursor' = cursor + 1 /\ cur' = None /\ cur' = cur /\ cursor = adding
      BY <1>1, <2>1, <2>2, SegmentAssumption DEF NextRecord, Enumeration, None
    <3>2. \A x \in Segment : x < cursor' /\ x \notin unread => map[x] # "absent"
      <4>1. \A x \in Segment : x < cursor + 1 => x < cursor \/ x = cursor
        BY <2>1, <3>1, SegmentAssumption
      <4> QED
        BY <1>1, <2>1, <3>1, <4>1 DEF Present
    <3>3. Records(rec, map)' /\ Judgements' /\ Seen'
      BY <2>1, <3>1, StillRecords
    <3>4. Names' /\ Present'
      BY <1>1, <2>1, <2>2, <3>1, <3>2, StillNames, StillPresent
    <3>5. Fetching'
      BY <1>1, <2>1, <3>1, SamePlaces DEF Still, Fetching
    <3> QED
      BY <3>1, <3>3, <3>4, <3>5 DEF Parts, Ready
  <2>3. CASE cur # None
    <3>1. pc' = "fetch" /\ cursor' = cursor /\ cur' = cur
      BY <2>1, <2>3
    <3>2. Records(rec, map)' /\ Judgements' /\ Seen'
      BY <2>1, <3>1, StillRecords
    <3>3. Names' /\ Present'
      BY <1>1, <2>1, <3>1, StillNames, StillPresent, SoundFacts DEF Outside, Present
    <3>4. Fetching'
      BY <2>1, <2>3, <3>1, StillFetching DEF Pending
    <3> QED
      BY <3>1, <3>2, <3>3, <3>4 DEF Parts, Ready
  <2> QED
    BY <2>2, <2>3
<1>5. CASE MakeSpace
  <2>1. Still /\ pc = "add" /\ pc' = "walk" /\ adding' = adding /\ cursor' = cursor /\ cur' = cur /\ missing' = missing
        /\ fetched' = fetched /\ toFetch' = toFetch /\ \A x \in left' : Base(x)
    BY <1>5 DEF MakeSpace, Accepted, history, Still, Walkable, Base
  <2>2. Records(rec, map)' /\ Judgements' /\ Seen' /\ Names' /\ Present'
    BY <1>1, <2>1, StillRecords, StillNames, StillPresent, SoundFacts DEF Present, Outside
  <2>3. Fetching'
    BY <1>1, <2>1, StillFetching DEF Pending, Fetching
  <2> QED
    BY <2>1, <2>2, <2>3 DEF Parts, Ready
<1>6. CASE FetchRecord
  <2>1. Still /\ pc = "fetch" /\ cursor' = cursor /\ cur' = cur /\ missing' = missing /\ fetched' = fetched
        /\ left' = left /\ adding = None /\ cur # None
    BY <1>1, <1>6 DEF FetchRecord, history, Still, AddingOK, CurrentHere
  <2>2. PICK s \in toFetch : pc' = "add" /\ adding' = s /\ toFetch' = toFetch \ {s}
    <3>1. toFetch \subseteq Segment
      BY DEF SoundWalk, Sane, IInv, WalkTypes
    <3> QED
      BY <1>1, <1>6, <3>1 DEF FetchRecord, First
  <2>3. Records(rec, map)' /\ Judgements' /\ Seen' /\ Names' /\ Present'
    BY <1>1, <2>1, <2>2, StillRecords, StillNames, StillPresent, SoundFacts DEF Present, Outside
  <2>4. /\ Pending' \subseteq Pending
        /\ \A x \in Segment : x \in toFetch \cup {adding} => x \in toFetch' \cup {adding'}
    <3>1. Pending' \subseteq Pending
      BY <2>1, <2>2 DEF Pending
    <3>2. \A x \in Segment : x \in toFetch \cup {adding} => x \in toFetch' \cup {adding'}
      BY <2>1, <2>2, SegmentAssumption DEF None
    <3> QED
      BY <3>1, <3>2
  <2>5. Fetching'
    BY <2>1, <2>2, <2>4, StillFetching
  <2> QED
    BY <2>2, <2>3, <2>5 DEF Parts, Ready
<1>7. CASE FetchEnds \/ UseFreed
  <2>1. Still /\ pc \in {"fetch", "update"} /\ pc' \in {"update", "freed"} /\ adding' = adding /\ cursor' = cursor
        /\ cur' = cur /\ missing' = missing /\ fetched' = fetched /\ toFetch' = toFetch /\ left' = left /\ toFetch = {}
    BY <1>1, <1>7 DEF FetchEnds, UseFreed, history, Still, Fetching
  <2>2. Records(rec, map)' /\ Judgements' /\ Seen' /\ Names' /\ Present'
    BY <1>1, <2>1, StillRecords, StillNames, StillPresent, SoundFacts DEF Present, Outside
  <2>3. Fetching'
    BY <1>1, <2>1, StillFetching DEF Pending, Fetching
  <2> QED
    BY <2>1, <2>2, <2>3 DEF Parts, Ready
<1>8. CASE CallNothing
  <2>1. Still /\ pc = "call" /\ pc' = "enum" /\ adding' = adding /\ cursor' = cursor + 1
        /\ cur' = None /\ missing' = missing /\ fetched' = fetched /\ toFetch' = toFetch /\ left' = left /\ toFetch = {}
        /\ cur = cursor /\ cursor \in Segment /\ map[cur] = "here"
    BY <1>1, <1>8, SoundFacts DEF CallNothing, NextRecord, history, Still, Fetching, CurrentHere, Enumeration
  <2>2. \A x \in Segment : x < cursor' /\ x \notin unread => map[x] # "absent"
    <3>1. \A x \in Segment : x < cursor + 1 => x < cursor \/ x = cursor
      BY <2>1, SegmentAssumption
    <3> QED
      BY <1>1, <2>1, <3>1 DEF Present
  <2>3. (map[FileOf(cur)] # "absent" \/ FileOf(cur) \in lost) /\ \A d, k \in Segment : ~Loose(d, k)
    BY <1>1, <2>1 DEF Ready
  <2>4. Records(rec, map)' /\ Judgements' /\ Seen' /\ Names' /\ Present'
    BY <2>1, <2>2, <2>3, StillRecords, StillNames, StillPresent DEF Outside
  <2>5. Fetching'
    BY <2>1, <2>3, SamePlaces DEF Still, Fetching
  <2> QED
    BY <2>1, <2>4, <2>5 DEF Parts, Ready
<1>9. CASE WalkEnds
  <2>1. Still /\ pc = "walk" /\ pc' \in {"done", "cell"} /\ adding' = adding /\ cursor' = cursor /\ cur' = cur
        /\ missing' = missing /\ fetched' = fetched /\ toFetch' = toFetch /\ left' = left
        /\ (pc' = "done" => cur = None)
    BY <1>1, <1>9 DEF WalkEnds, Final, history, Still, Enumeration
  <2>2. Records(rec, map)' /\ Judgements' /\ Seen' /\ Names' /\ Present'
    BY <1>1, <2>1, StillRecords, StillNames, StillPresent, SoundFacts DEF Present, Outside
  <2>3. Fetching'
    BY <1>1, <2>1, StillFetching DEF Pending, Fetching
  <2> QED
    BY <2>1, <2>2, <2>3 DEF Parts, Ready
<1>10. CASE UNCHANGED vars
  <2>1. Still /\ pc' = pc /\ adding' = adding /\ cursor' = cursor /\ cur' = cur
        /\ missing' = missing /\ fetched' = fetched /\ toFetch' = toFetch /\ left' = left
    BY <1>10 DEF vars, Still
  <2>2. Records(rec, map)' /\ Judgements' /\ Seen' /\ Names' /\ Present'
    BY <1>1, <2>1, StillRecords, StillNames, StillPresent, SoundFacts DEF Present
  <2>3. Fetching'
    BY <1>1, <2>1, StillFetching DEF Pending, Fetching
  <2>4. Ready'
    BY <1>1, <2>1, DiskSame, SamePlaces DEF Still, Ready, WholeButLost, Absent
  <2> QED
    BY <2>2, <2>3, <2>4 DEF Parts
<1> QED
  BY <1>2, <1>3, <1>4, <1>5, <1>6, <1>7, <1>8, <1>9, <1>10

\* A read that fails: what it would have read is not looked for any more.
LEMMA LosingSteps == ASSUME SoundWalk, EnumFails \/ FetchFails PROVE Parts'
<1>1. /\ AddingOK /\ CurrentHere /\ Enumeration /\ Fetching /\ Present /\ Names /\ Seen /\ Records(rec, map) /\ Judgements
      /\ lost \subseteq Segment /\ unread \subseteq Segment /\ fetched \subseteq Segment /\ toFetch \subseteq Segment
  BY DEF SoundWalk, Sane, IInv, OtherTypes, WalkTypes
<1>2. /\ disk' = disk /\ map' = map /\ rec' = rec /\ names' = names /\ calls' = calls /\ seen' = seen /\ cur' = cur
      /\ adding' = adding /\ missing' = missing /\ fetched' = fetched /\ left' = left /\ pc' = pc
      /\ pc \in {"enum", "fetch"} /\ toFetch' \subseteq toFetch
      /\ lost' = lost \cup (toFetch \ toFetch')
  BY <1>1 DEF EnumFails, FetchFails, Fetching, Enumeration
<1>3. /\ unread \subseteq unread' /\ (cursor' \in Segment => cursor \in Segment)
      /\ \A x \in Segment : x < cursor' /\ x \notin unread' => x < cursor /\ x \notin unread
  <2>1. CASE FetchFails
    BY <2>1 DEF FetchFails
  <2>2. CASE EnumFails
    <3>1. cursor' \notin Segment /\ cursor \in Segment /\ unread' = {x \in Segment : x >= cursor} /\ unread = {}
      BY <1>1, <2>2, EnumFailsMoves DEF Enumeration
    <3> QED
      BY <3>1, SegmentAssumption
  <2> QED
    BY <2>1, <2>2
<1>4. /\ \A x : (Got(x)' => Got(x)) /\ Legible(x)' \subseteq Legible(x) /\ (Hopeless(x) => Hopeless(x)')
      /\ lost \subseteq lost'
  BY <1>2, <1>3, LessLegible
<1>5. Records(rec, map)'
  BY <1>1, <1>2, RecordsPrimed
<1>6. Present'
  BY <1>1, <1>2, <1>3, <1>4, DiskSame DEF Present
<1>7. Judgements'
  BY <1>1, <1>2, <1>3, DiskSame DEF Judgements, Whole, Absent
<1>8. Names'
  <2>1. \A x : Window(x)' <=> Window(x)
    BY <1>2 DEF Window
  <2>2. \A x : FoundIn(rec', x) = FoundIn(rec, x)
    BY <1>2
  <2>3. ASSUME NEW x \in Segment
        PROVE  /\ names[x] # None => Base(x) /\ names[x] = disk.parent[x] /\ map[x] # "absent"
               /\ names[x] = None /\ Base(x) /\ map[x] = "here" /\ Path \subseteq FoundIn(rec, x) =>
                    x \in lost' \/ (Window(x)' /\ cur \in ListOf(x))
               /\ names[x] = None /\ Base(x) /\ map[x] = "gone" /\ Got(x)' /\ Path \subseteq Legible(x)' =>
                    Window(x)' /\ map[cur] = "gone"
    BY <1>1, <1>4, <2>1 DEF Names
  <2> QED
    BY <1>2, <2>2, <2>3, DiskSame DEF Names
<1>9. \A d, k : Loose(d, k)' => Loose(d, k)
  BY <1>2, <1>4, DiskSame DEF Loose
<1>10. \A z : (Owed(z)' <=> Owed(z)) /\ (OnPath(z)' <=> OnPath(z))
  <2>1. \A z : OnPath(z)' <=> OnPath(z)
    BY <1>2, DiskSame DEF OnPath, Here
  <2>2. \A z : Class(z)' <=> Class(z)
    BY <1>2, <2>1, DiskSame DEF Class
  <2> QED
    BY <1>2, <2>1, <2>2, DiskSame DEF Owed
<1>11. Pending' \subseteq Pending
  BY <1>2 DEF Pending
<1>12. Fetching'
  <2>1. cur # None => \A z \in Pending' : Owed(z)'
    BY <1>1, <1>10, <1>11 DEF Fetching
  <2>2. cur # None => \A x \in fetched : map[x] # "absent" \/ x \in toFetch' \cup {adding} \/ x \in lost'
    BY <1>1, <1>2 DEF Fetching
  <2>3. cur # None => \A d, k \in Segment : Loose(d, k)' =>
          d = FileOf(cur) \/ (OnPath(d)' /\ k \in missing \cup fetched)
    BY <1>1, <1>2, <1>9, <1>10 DEF Fetching
  <2>4. cur = None => toFetch' = {} /\ \A d, k \in Segment : ~Loose(d, k)'
    BY <1>1, <1>2, <1>9 DEF Fetching
  <2> QED
    BY <1>2, <2>1, <2>2, <2>3, <2>4, DiskSame DEF Fetching
<1>13. Seen'
  BY <1>1, <1>2, <1>4 DEF Seen
<1>14. Ready'
  BY <1>2 DEF Ready
<1> QED
  BY <1>5, <1>6, <1>7, <1>8, <1>12, <1>13, <1>14 DEF Parts

\* What is refused was not in the map, and gets an entry that says so.
LEMMA RefuseStep == ASSUME SoundWalk, RefuseRecord PROVE Parts'
<1>1. PICK s, m : s = adding /\ m = map'
  OBVIOUS
<1>2. /\ s \in Segment /\ map[s] = "absent" /\ ~Readable(s) /\ pc \in {"add", "cell"}
  <2>1. AddingOK /\ pc \in {"add", "cell"} /\ map[s] # "gone" /\ ~Readable(s) /\ Present
    BY <1>1 DEF SoundWalk, Sane, IInv, RefuseRecord, GotCell, Accepted, AddingOK, Readable
  <2>2. s \in Segment
    BY <1>1, <2>1 DEF AddingOK
  <2> QED
    BY <2>1, <2>2, SoundFacts DEF Present
<1>3. /\ m = [map EXCEPT ![s] = "gone"] /\ rec' = rec /\ adding' = None /\ disk' = disk /\ names' = names
      /\ missing' = missing /\ fetched' = fetched /\ toFetch' = toFetch /\ left' = left /\ calls' = calls /\ seen' = seen
      /\ lost' = lost /\ unread' = unread
      /\ IF cur = None THEN NextRecord ELSE pc' = "fetch" /\ UNCHANGED <<cursor, cur>>
  BY <1>1 DEF RefuseRecord, NothingAdded, history
<1>4. m[s] = "gone" /\ \A x \in Segment \ {s} : m[x] = map[x]
  BY <1>2, <1>3, SoundFacts
<1>5. /\ \A x \in Segment : m[x] = "here" <=> map[x] = "here"
      /\ \A x \in Segment : m[x] = "absent" => map[x] = "absent"
      /\ \A x \in Segment : map[x] = "gone" => m[x] = "gone"
  BY <1>2, <1>4
<1>6. cur' = cur /\ (cur = None => pc' = "enum" /\ cursor' = cursor + 1 /\ cursor = s)
      /\ (cur # None => pc' = "fetch" /\ cursor' = cursor)
  BY <1>1, <1>2, <1>3, SegmentAssumption DEF NextRecord, SoundWalk, Sane, Enumeration, None
<1>7. /\ rec \in [Segment -> Record] /\ disk \in Volumes /\ VolumesSound /\ Records(rec, map) /\ Present /\ Judgements
      /\ Names /\ Fetching /\ Seen
  BY SoundFacts DEF SoundWalk
<1>8. ASSUME NEW x \in Segment
      PROVE  /\ m[x] # "here" => rec[x] = Blank
             /\ m[x] = "here" /\ Base(x) => BaseRecord(rec, m, x)
             /\ m[x] = "here" /\ ~Base(x) => ChildRecord(rec, m, x)
  <2>1. m[x] # "here" => rec[x] = Blank
    BY <1>5, <1>7 DEF Records
  <2>2. ASSUME m[x] = "here", Base(x) PROVE BaseRecord(rec, m, x)
    <3>1. BaseRecord(rec, map, x) /\ BaseShape(rec, map, x)
      BY <1>5, <1>7, <2>2 DEF Records, BaseRecord
    <3>2. BaseShape(rec, m, x)
      BY <1>5, <1>7, <3>1, ShapeStays
    <3> QED
      BY <1>5, <3>1, <3>2 DEF BaseRecord
  <2>3. ASSUME m[x] = "here", ~Base(x) PROVE ChildRecord(rec, m, x)
    <3>1. ChildRecord(rec, map, x)
      BY <1>5, <1>7, <2>3 DEF Records
    <3>2. disk.base[x] \in Segment
      BY <1>7, <2>3, DiskSound
    <3>3. m[disk.base[x]] = "here" <=> map[disk.base[x]] = "here"
      BY <1>5, <3>2
    <3>4. m[disk.base[x]] = "absent" => map[disk.base[x]] = "absent"
      BY <1>5, <3>2
    <3> QED
      BY <3>1, <3>3, <3>4 DEF ChildRecord
  <2> QED
    BY <2>1, <2>2, <2>3
<1>9. Records(rec, map)'
  <2>1. Records(rec, m)
    BY <1>8 DEF Records
  <2> QED
    BY <1>1, <1>3, <2>1, RecordsPrimed
<1>10. \A x \in Segment : x < cursor' /\ x \notin unread => m[x] # "absent"
  <2>1. CASE cur = None
    <3>1. \A x \in Segment : x < cursor + 1 => x < cursor \/ x = cursor
      BY <1>2, <1>6, <2>1, SegmentAssumption
    <3> QED
      BY <1>4, <1>5, <1>6, <1>7, <2>1, <3>1 DEF Present
  <2>2. CASE cur # None
    BY <1>5, <1>6, <1>7, <2>2 DEF Present
  <2> QED
    BY <2>1, <2>2
<1>11. Present'
  <2>1. ASSUME NEW x \in Segment
        PROVE  /\ m[x] = "here" => Readable(x)
               /\ m[x] = "gone" /\ Readable(x) /\ ~Base(x) => m[disk.base[x]] = "gone"
               /\ x < cursor' /\ x \notin unread => m[x] # "absent"
               /\ x = cur' => m[x] # "absent"
               /\ m[x] = "here" /\ ~Base(x) /\ m[disk.base[x]] = "absent" => x = cur' \/ disk.base[x] \in lost
               /\ x \in left' => Base(x)
    <3>1. ~Base(x) => disk.base[x] \in Segment
      BY <1>7, DiskSound
    <3>2. m[x] = "gone" /\ Readable(x) => map[x] = "gone"
      BY <1>2, <1>4
    <3> QED
      BY <1>3, <1>5, <1>6, <1>7, <1>10, <3>1, <3>2 DEF Present
  <2>2. pc' # "look"
    BY <1>6
  <2> QED
    BY <1>1, <1>3, <2>1, <2>2, DiskSame DEF Present
<1>12. Judgements'
  <2>1. \A x : Whole(x) => Whole(x)'
    BY <1>1, <1>3, <1>5, DiskSame DEF Whole, Absent
  <2>2. cursor' \in Segment => cursor \in Segment
    BY <1>2, <1>6
  <2>3. ASSUME NEW x \in Segment, m[x] = "here", rec[x].complete, m[FileOf(x)] = "here"
        PROVE  Whole(FileOf(x)) /\ (cursor' \in Segment => LackingIn(names, rec[FileOf(x)].name) = {})
    <3>1. FileOf(x) \in Segment
      BY <1>7, DiskSound
    <3> QED
      BY <1>5, <1>7, <2>2, <2>3, <3>1 DEF Judgements
  <2> QED
    BY <1>1, <1>3, <2>1, <2>3, DiskSame DEF Judgements
<1>13. Names'
  <2>1. \A x : Window(x) => Window(x)'
    BY <1>3, <1>6 DEF Window, Outside
  <2>2. \A x : FoundIn(rec', x) = FoundIn(rec, x)
    BY <1>3
  <2>3. \A x \in Segment : m[x] = "gone" /\ Got(x) => map[x] = "gone"
    BY <1>2, <1>4 DEF Got
  <2>4. \A x : Window(x) /\ map[cur] = "gone" => m[cur] = "gone"
    BY <1>5, SoundFacts DEF Window
  <2>5. ASSUME NEW x \in Segment
        PROVE  /\ names[x] # None => Base(x) /\ names[x] = disk.parent[x] /\ m[x] # "absent"
               /\ names[x] = None /\ Base(x) /\ m[x] = "here" /\ Path \subseteq FoundIn(rec, x) =>
                    x \in lost \/ (Window(x)' /\ cur' \in ListOf(x))
               /\ names[x] = None /\ Base(x) /\ m[x] = "gone" /\ Got(x) /\ Path \subseteq Legible(x) =>
                    Window(x)' /\ m[cur'] = "gone"
    BY <1>5, <1>6, <1>7, <2>1, <2>3, <2>4 DEF Names
  <2> QED
    BY <1>1, <1>3, <2>2, <2>5, DiskSame DEF Names
<1>14. \A d, k \in Segment : Loose(d, k)' => Loose(d, k)
  BY <1>1, <1>3, <1>5, DiskSame DEF Loose
<1>15. Fetching'
  <2>1. ASSUME cur # None PROVE \A z : OnPath(z)' <=> OnPath(z)
    <3>1. FileOf(cur) \in Segment
      BY <1>7, <2>1, SoundFacts, DiskSound
    <3>2. m[FileOf(cur)] = "here" <=> map[FileOf(cur)] = "here"
      BY <1>5, <3>1
    <3> QED
      BY <1>1, <1>3, <1>6, <3>2, DiskSame DEF OnPath, Here
  <2>2. ASSUME cur # None, NEW z \in Pending' PROVE Owed(z)'
    <3>1. z \in Pending
      BY <1>3, <2>2 DEF Pending
    <3>2. Owed(z)
      BY <1>7, <2>2, <3>1 DEF Fetching
    <3>3. Class(FileOf(z))'
      BY <1>3, <1>6, <2>1, <2>2, <3>2, DiskSame DEF Class, Owed
    <3>4. ~Base(z) => m[disk.base[z]] # "absent"
      <4>1. z \in Segment
        BY <1>3, <2>2 DEF Pending, SoundWalk, Sane, IInv, WalkTypes
      <4>2. ~Base(z) => disk.base[z] \in Segment
        BY <1>7, <4>1, DiskSound
      <4> QED
        BY <1>5, <3>2, <4>2 DEF Owed
    <3> QED
      BY <1>1, <1>3, <3>2, <3>3, <3>4, DiskSame DEF Owed
  <2>3. cur # None => \A x \in fetched : m[x] # "absent" \/ x \in toFetch \/ x \in lost
    <3>1. ASSUME cur # None, NEW x \in fetched PROVE m[x] # "absent" \/ x \in toFetch \/ x \in lost
      <4>1. map[x] # "absent" \/ x \in toFetch \cup {s} \/ x \in lost
        BY <1>1, <1>7, <3>1 DEF Fetching
      <4>2. x \in Segment
        BY <3>1 DEF SoundWalk, Sane, OtherTypes
      <4> QED
        BY <1>4, <1>5, <4>1, <4>2
    <3> QED
      BY <3>1
  <2>4. cur # None => \A d, k \in Segment : Loose(d, k)' =>
          d = FileOf(cur) \/ (OnPath(d)' /\ k \in missing \cup fetched)
    BY <1>2, <1>7, <1>14, <2>1 DEF Fetching
  <2>5. cur = None => \A d, k \in Segment : ~Loose(d, k)'
    BY <1>7, <1>14 DEF Fetching
  <2>6. cur = None => toFetch = {}
    BY <1>7 DEF Fetching
  <2> QED
    BY <1>1, <1>3, <1>6, <2>2, <2>3, <2>4, <2>5, <2>6, DiskSame DEF Fetching
<1>16. Ready'
  BY <1>6 DEF Ready
<1>17. Seen'
  BY <1>3, <1>7, DiskSame DEF Seen
<1> QED
  BY <1>9, <1>11, <1>12, <1>13, <1>15, <1>16, <1>17 DEF Parts

\* The places of the files do not change with a judgement.
LEMMA JudgedPlaces ==
  ASSUME SoundWalk, disk' = disk, map' = map, names' = names, lost' = lost, unread' = unread,
         \A x \in Segment : FoundIn(rec', x) = FoundIn(rec, x) /\ rec'[x].name = rec[x].name
  PROVE  /\ \A d, k : Loose(d, k)' <=> Loose(d, k)
         /\ cur' = cur /\ cur # None =>
              \A z : (Owed(z)' <=> Owed(z)) /\ (OnPath(z)' <=> OnPath(z)) /\ (Class(z)' <=> Class(z))
         /\ (cur # None /\ pc \in Outside => cur' = cur /\ pc' \in Outside) => Names'
<1>1. \A d, k : Loose(d, k)' <=> Loose(d, k)
  BY DiskSame DEF Loose
<1>2. cur' = cur /\ cur # None => \A z : OnPath(z)' <=> OnPath(z)
  <2>1. cur # None => FileOf(cur) \in Segment
    BY SoundFacts, DiskSound
  <2> QED
    BY <2>1, DiskSame DEF OnPath, Here
<1>3. cur' = cur /\ cur # None => \A z : Class(z)' <=> Class(z)
  BY <1>2, DiskSame DEF Class
<1>4. cur' = cur /\ cur # None => \A z : Owed(z)' <=> Owed(z)
  BY <1>3, DiskSame DEF Owed
<1>5. ASSUME cur # None /\ pc \in Outside => cur' = cur /\ pc' \in Outside PROVE Names'
  <2>1. \A x : Window(x) => Window(x)' /\ cur' = cur
    BY <1>5 DEF Window
  <2> QED
    BY <2>1, DiskSame DEF SoundWalk, Names
<1> QED
  BY <1>1, <1>2, <1>3, <1>4, <1>5

\* What the fetched record misses is of its file and its path, which were owed with it.
LEMMA LookStep == ASSUME SoundWalk, LookAtFetched PROVE Parts'
<1>1. PICK s : s = adding
  OBVIOUS
<1>2. /\ s \in Segment /\ map[s] = "here" /\ pc = "look" /\ cur # None /\ s # None
  <2>1. pc = "look"
    BY DEF LookAtFetched
  <2>2. s \in Segment /\ cur # None
    BY <1>1, <2>1 DEF SoundWalk, Sane, IInv, AddingOK, CurrentHere
  <2> QED
    BY <1>1, <2>1, <2>2, SegmentAssumption DEF SoundWalk, Present, None
<1>3. /\ missing' = missing \cup Missing(s) /\ rec' = Judged(s, TRUE) /\ pc' = "fetch" /\ adding' = None
      /\ disk' = disk /\ map' = map /\ names' = names /\ cursor' = cursor /\ cur' = cur /\ fetched' = fetched
      /\ toFetch' = toFetch /\ left' = left /\ calls' = calls /\ seen' = seen /\ lost' = lost /\ unread' = unread
  BY <1>1 DEF LookAtFetched, history
<1>4. Records(rec', map') /\ Judgements'
      /\ \A x \in Segment : FoundIn(rec', x) = FoundIn(rec, x) /\ rec'[x].name = rec[x].name
  BY <1>2, <1>3, JudgedSound
<1>5. /\ \A d, k : Loose(d, k)' <=> Loose(d, k)
      /\ \A z : (Owed(z)' <=> Owed(z)) /\ (OnPath(z)' <=> OnPath(z))
      /\ Names'
  <2>1. pc' \in Outside
    BY <1>3 DEF Outside
  <2> QED
    BY <1>2, <1>3, <1>4, <2>1, JudgedPlaces
<1>6. Present'
  <2>1. Present
    BY DEF SoundWalk
  <2> QED
    BY <1>3, <2>1, DiskSame DEF Present
<1>7. Fetching
  BY DEF SoundWalk
<1>8. \A z \in Pending' : Owed(z)'
  <2>1. ASSUME NEW z \in Pending' PROVE Owed(z)
    <3>1. z \in Pending \/ z \in Missing(s)
      BY <1>3, <2>1 DEF Pending
    <3>2. CASE z \in Pending
      BY <1>2, <1>7, <3>2 DEF Fetching
    <3>3. CASE z \in Missing(s)
      <4>1. s \in Pending
        BY <1>1, <1>2 DEF Pending
      <4>2. Class(FileOf(s))
        BY <1>2, <1>7, <4>1 DEF Fetching, Owed
      <4> QED
        BY <1>2, <3>3, <4>2, MissingPending
    <3> QED
      BY <3>1, <3>2, <3>3
  <2> QED
    BY <1>5, <2>1
<1>9. \A x \in fetched : map[x] # "absent" \/ x \in toFetch \/ x \in lost
  BY <1>1, <1>2, <1>7 DEF Fetching
<1>10. ASSUME NEW d \in Segment, NEW k \in Segment, Loose(d, k)
       PROVE  d = FileOf(cur) \/ (OnPath(d) /\ k \in missing' \cup fetched)
  <2>1. d = FileOf(cur) \/ (OnPath(d) /\ (k \in missing \cup fetched \/ d = s))
    BY <1>1, <1>2, <1>7, <1>10 DEF Fetching
  <2>2. CASE d = s
    <3>1. Base(s) /\ k \in ListOf(s) /\ map[k] = "absent"
      BY <1>10, <2>2 DEF Loose
    <3>2. rec[s].kids = ListOf(s) /\ FileOf(s) = s
      BY <1>2, <3>1, BaseOfHere
    <3>3. ~rec[s].complete
      <4>1. Judgements /\ ~Whole(s)
        BY <3>1, <1>10 DEF Whole, Absent, SoundWalk
      <4> QED
        BY <1>2, <3>2, <4>1 DEF Judgements
    <3>4. k \in Missing(s)
      BY <1>10, <3>1, <3>2, <3>3 DEF Missing, Absent
    <3> QED
      BY <1>3, <2>1, <3>4
  <2> QED
    BY <1>3, <2>1, <2>2
<1>11. Fetching'
  BY <1>2, <1>3, <1>5, <1>8, <1>9, <1>10, DiskSame DEF Fetching
<1>12. Seen'
  BY <1>3, DiskSame DEF SoundWalk, Seen
<1>13. Records(rec, map)' /\ Ready'
  BY <1>3, <1>4, RecordsPrimed DEF Ready
<1> QED
  BY <1>4, <1>5, <1>6, <1>11, <1>12, <1>13 DEF Parts

\* What the record misses is fetched; when it misses nothing more, it is ready.
LEMMA CheckStep == ASSUME SoundWalk, CheckRecord PROVE Parts'
<1>1. PICK s, all : s = cur /\ all = missing \cup Missing(cur)
  OBVIOUS
<1>2. /\ pc = "check" /\ s \in Segment /\ map[s] = "here" /\ cur # None /\ toFetch = {} /\ adding = None
      /\ cursor = s /\ Present /\ Fetching /\ Judgements
  <2>1. pc = "check"
    BY DEF CheckRecord
  <2> QED
    BY <1>1, <2>1, SoundFacts DEF SoundWalk, Sane, IInv, AddingOK, CurrentHere, Enumeration, Fetching
<1>3. /\ rec' = Judged(s, TRUE) /\ adding' = adding /\ disk' = disk /\ map' = map /\ names' = names
      /\ left' = left /\ calls' = calls /\ seen' = seen /\ lost' = lost /\ unread' = unread
      /\ \/ /\ Complete(cur, TRUE) \/ all \subseteq fetched
            /\ pc' = "call" /\ cursor' = cursor /\ cur' = cur /\ missing' = missing /\ fetched' = fetched
            /\ toFetch' = toFetch
         \/ /\ all \subseteq fetched
            /\ pc' = "enum" /\ cursor' = cursor + 1 /\ cur' = None /\ missing' = missing /\ fetched' = fetched
            /\ toFetch' = toFetch
         \/ /\ toFetch' = all \ fetched /\ fetched' = fetched \cup all /\ missing' = {}
            /\ pc' = "fetch" /\ cursor' = cursor /\ cur' = cur
  BY <1>1 DEF CheckRecord, NextRecord, history
<1>4. Records(rec', map') /\ Judgements'
      /\ \A x \in Segment : FoundIn(rec', x) = FoundIn(rec, x) /\ rec'[x].name = rec[x].name /\ rec'[x].base = rec[x].base
  <2>1. cursor' \in Segment => cursor \in Segment
    BY <1>2
  <2> QED
    BY <1>2, <1>3, <2>1, JudgedSound
<1>5. /\ \A d, k : Loose(d, k)' <=> Loose(d, k)
      /\ cur' = cur => \A z : (Owed(z)' <=> Owed(z)) /\ (OnPath(z)' <=> OnPath(z))
      /\ Names'
  <2>1. pc \notin Outside
    BY <1>2 DEF Outside
  <2> QED
    BY <1>2, <1>3, <1>4, <2>1, JudgedPlaces
<1>6. Records(rec, map)' /\ Seen'
  <2>1. Records(rec, map)'
    BY <1>3, <1>4, RecordsPrimed
  <2>2. Seen'
    BY <1>3, DiskSame DEF SoundWalk, Seen
  <2> QED
    BY <2>1, <2>2
<1>7. CASE pc' = "call"
  <2>1. /\ Complete(cur, TRUE) \/ all \subseteq fetched
        /\ cursor' = cursor /\ cur' = cur /\ missing' = missing /\ fetched' = fetched /\ toFetch' = toFetch
    BY <1>3, <1>7
  <2>2. Present'
    BY <1>2, <1>3, <1>7, <2>1, DiskSame DEF Present
  <2>3. \A z \in Pending' : Owed(z)'
    <3>1. Pending' = Pending
      BY <1>3, <2>1 DEF Pending
    <3> QED
      BY <1>2, <1>5, <2>1, <3>1 DEF Fetching
  <2>4. Fetching'
    BY <1>2, <1>3, <1>5, <1>7, <2>1, <2>3, DiskSame DEF Fetching
  <2>5. /\ map[FileOf(cur)] # "absent" \/ FileOf(cur) \in lost
        /\ \A d, k \in Segment : ~Loose(d, k)
        /\ Base(cur) => WholeButLost(cur) /\ \A d \in LackingIn(names, rec[cur].name) : Hopeless(d)
    BY <1>1, <1>2, <2>1, CheckDone
  <2>6. Ready'
    <3>1. Base(cur) => WholeButLost(cur)'
      BY <1>3, <2>1, <2>5, DiskSame DEF WholeButLost, Absent
    <3>2. \A d \in LackingIn(names, rec[cur].name) : Base(cur) => Hopeless(d)'
      BY <1>3, <2>5, DiskSame
    <3>3. rec'[cur].name = rec[cur].name
      BY <1>1, <1>2, <1>4
    <3> QED
      BY <1>3, <1>5, <2>1, <2>5, <3>1, <3>2, <3>3, DiskSame DEF Ready
  <2> QED
    BY <1>4, <1>5, <1>6, <2>2, <2>4, <2>6 DEF Parts
<1>8. CASE pc' = "enum"
  <2>1. all \subseteq fetched /\ cursor' = cursor + 1 /\ cur' = None /\ toFetch' = toFetch
    BY <1>3, <1>8
  <2>2. (map[FileOf(cur)] # "absent" \/ FileOf(cur) \in lost) /\ \A d, k \in Segment : ~Loose(d, k)
    BY <1>1, <1>2, <2>1, CheckDone
  <2>3. \A x \in Segment : x < cursor' /\ x \notin unread => map[x] # "absent"
    <3>1. \A x \in Segment : x < cursor + 1 => x < cursor \/ x = cursor
      BY <1>2, SegmentAssumption
    <3> QED
      BY <1>2, <2>1, <3>1 DEF Present
  <2>4. \A x \in Segment : map[x] = "here" /\ ~Base(x) => map[disk.base[x]] # "absent" \/ disk.base[x] \in lost
    BY <1>1, <1>2, <2>2 DEF Present, FileOf
  <2>5. \A x \in Segment : x # cur'
    BY <2>1, SegmentAssumption DEF None
  <2>6. Present'
    BY <1>2, <1>3, <1>8, <2>1, <2>3, <2>4, <2>5, DiskSame DEF Present
  <2>7. Fetching' /\ Ready'
    BY <1>2, <1>3, <1>5, <1>8, <2>1, <2>2 DEF Fetching, Ready
  <2> QED
    BY <1>4, <1>5, <1>6, <2>6, <2>7 DEF Parts
<1>9. CASE pc' = "fetch"
  <2>1. toFetch' = all \ fetched /\ fetched' = fetched \cup all /\ missing' = {} /\ cursor' = cursor /\ cur' = cur
    BY <1>3, <1>9
  <2>2. Present'
    BY <1>2, <1>3, <1>9, <2>1, DiskSame DEF Present
  <2>3. \A z \in Pending' : Owed(z)'
    <3>1. ASSUME NEW z \in Pending' PROVE Owed(z)
      <4>1. z \in missing \/ z \in Missing(s)
        BY <1>1, <1>2, <1>3, <2>1, <3>1 DEF Pending
      <4>2. CASE z \in missing
        BY <1>2, <4>2 DEF Fetching, Pending
      <4>3. CASE z \in Missing(s)
        BY <1>1, <1>2, <4>3, MissingPending DEF Class
      <4> QED
        BY <4>1, <4>2, <4>3
    <3> QED
      BY <1>5, <2>1, <3>1
  <2>4. \A x \in fetched' : map[x] # "absent" \/ x \in toFetch' \/ x \in lost
    <3>1. fetched \subseteq Segment
      BY DEF SoundWalk, Sane, OtherTypes
    <3>2. \A x \in fetched : map[x] # "absent" \/ x \in lost
      BY <1>2, <3>1, SegmentAssumption DEF Fetching, None
    <3> QED
      BY <2>1, <3>2
  <2>5. ASSUME NEW d \in Segment, NEW k \in Segment, Loose(d, k)
        PROVE  d = FileOf(cur) \/ (OnPath(d) /\ k \in fetched')
    BY <1>1, <1>2, <2>1, <2>5 DEF Fetching
  <2>6. Fetching' /\ Ready'
    BY <1>2, <1>3, <1>5, <1>9, <2>1, <2>3, <2>4, <2>5, DiskSame DEF Fetching, Ready
  <2> QED
    BY <1>4, <1>5, <1>6, <2>2, <2>6 DEF Parts
<1> QED
  BY <1>3, <1>7, <1>8, <1>9

\* Nothing is left to resolve after a fetch: the record is tied to its base, whose file may get its name.
LEMMA UpdateStep == ASSUME SoundWalk, UpdateRecord PROVE Parts'
<1>1. PICK c, b : c = cur /\ b = disk.base[c]
  OBVIOUS
<1>2. /\ pc = "update" /\ c \in Segment /\ map[c] = "here" /\ cur # None /\ toFetch = {} /\ adding = None
      /\ rec[c].base # None => map[rec[c].base] = "here"
      /\ Present /\ Fetching /\ Judgements /\ Names /\ Records(rec, map)
  <2>1. pc = "update" /\ ~Dangling
    BY DEF UpdateRecord
  <2> QED
    BY <1>1, <2>1, SoundFacts DEF SoundWalk, Sane, IInv, AddingOK, CurrentHere, Fetching, Dangling
<1>3. /\ disk \in Volumes /\ VolumesSound /\ rec \in [Segment -> Record]
      /\ Base(c) => rec[c].base = None
      /\ ~Base(c) => b \in Segment /\ b # None /\ FileOf(c) = b /\ Base(b) /\ rec[c].base \in {None, b} /\ c # b
      /\ Base(c) => b = None
      /\ ~Base(c) /\ rec[c].base = None => rec[c].name = None
  <2>1. disk \in Volumes /\ VolumesSound /\ rec \in [Segment -> Record] /\ None \notin Segment
    BY SoundFacts
  <2>2. ~Base(c) => b \in Segment /\ FileOf(c) = b /\ Base(b) /\ c # b
    BY <1>1, <1>2, <2>1, DiskSound
  <2>3. Base(c) => rec[c].base = None
    BY <1>2, BaseOfHere
  <2>4. ~Base(c) => rec[c].base \in {None, b} /\ (rec[c].base = None => rec[c].name = None)
    BY <1>1, <1>2 DEF Records, ChildRecord
  <2> QED
    BY <1>1, <2>1, <2>2, <2>3, <2>4 DEF Base
<1>4. PICK tied : tied = (b # None /\ rec[c].base = None /\ map[b] = "here")
  OBVIOUS
<1>5. PICK r : r = IF tied THEN [rec EXCEPT ![c].base = b] ELSE rec
  OBVIOUS
<1>6. /\ r \in [Segment -> Record] /\ \A x \in Segment \ {c} : r[x] = rec[x]
      /\ \A x \in Segment : /\ r[x].parsed = rec[x].parsed /\ r[x].kids = rec[x].kids
                            /\ r[x].entries = rec[x].entries /\ r[x].name = rec[x].name
                            /\ r[x].directory = rec[x].directory /\ r[x].complete = rec[x].complete
      /\ r[c].base = IF tied THEN b ELSE rec[c].base
  <2>1. CASE ~tied
    BY <1>3, <1>5, <2>1
  <2>2. CASE tied
    <3>1. b \in Segment
      BY <1>3, <1>4, <2>2
    <3>2. PICK old \in Record : old = rec[c]
      BY <1>2, <1>3
    <3>3. PICK new \in Record : /\ new.parsed = old.parsed /\ new.base = b /\ new.kids = old.kids
                                /\ new.entries = old.entries /\ new.name = old.name
                                /\ new.directory = old.directory /\ new.complete = old.complete
                                /\ new = [old EXCEPT !.base = b]
      <4> DEFINE n == [old EXCEPT !.base = b]
      <4>1. /\ n \in Record
            /\ n.parsed = old.parsed /\ n.base = b /\ n.kids = old.kids
            /\ n.entries = old.entries /\ n.name = old.name
            /\ n.directory = old.directory /\ n.complete = old.complete
        BY <3>1 DEF Record
      <4> HIDE DEF n
      <4> QED
        BY <4>1 DEF n
    <3>4. r = [rec EXCEPT ![c] = new]
      BY <1>5, <2>2, <3>2, <3>3
    <3>5. r \in [Segment -> Record] /\ r[c] = new /\ \A x \in Segment \ {c} : r[x] = rec[x]
      BY <1>2, <1>3, <3>4
    <3> QED
      BY <2>2, <3>2, <3>3, <3>5
  <2> QED
    BY <2>1, <2>2
<1>7. \A x \in Segment : FoundIn(r, x) = FoundIn(rec, x)
  BY <1>6 DEF FoundIn
<1>8. Records(r, map)
  <2>1. ASSUME NEW x \in Segment
        PROVE  /\ map[x] # "here" => r[x] = Blank
               /\ map[x] = "here" /\ Base(x) => BaseRecord(r, map, x)
               /\ map[x] = "here" /\ ~Base(x) => ChildRecord(r, map, x)
    <3>1. CASE x # c \/ ~tied
      <4>1. r[x] = rec[x]
        BY <1>5, <1>6, <2>1, <3>1
      <4>2. \A h \in Segment : FileOf(h) = FileOf(x) => map[h] = map[h]
        OBVIOUS
      <4>3. map[x] # "here" => r[x] = Blank
        BY <1>2, <4>1 DEF Records
      <4>4. map[x] = "here" /\ Base(x) => BaseRecord(r, map, x)
        BY <1>2, <1>3, <2>1, <4>1, OtherFile
      <4>5. map[x] = "here" /\ ~Base(x) => ChildRecord(r, map, x)
        BY <1>2, <1>3, <2>1, <4>1, OtherFile
      <4> QED
        BY <4>3, <4>4, <4>5
    <3>2. CASE x = c /\ tied
      <4>1. ~Base(c) /\ rec[c].base = None /\ map[b] = "here" /\ b # None /\ b = disk.base[c]
        BY <1>1, <1>3, <1>4, <3>2
      <4>2. ChildRecord(rec, map, c)
        BY <1>2, <4>1 DEF Records
      <4>3. c \notin ListOf(b)
        BY <4>1, <4>2 DEF ChildRecord
      <4>4. ChildRecord(r, map, c)
        BY <1>6, <3>2, <4>1, <4>2, <4>3 DEF ChildRecord
      <4> QED
        BY <1>2, <3>2, <4>1, <4>4
    <3> QED
      BY <3>1, <3>2
  <2> QED
    BY <2>1 DEF Records
<1>9. r[c].base # None => map[r[c].base] = "here" /\ r[c].base \in Segment
  BY <1>2, <1>3, <1>4, <1>6
<1>10. /\ rec' = r /\ names' = AddDirectoryName(r, c) /\ pc' = "check" /\ disk' = disk /\ map' = map
       /\ cursor' = cursor /\ cur' = cur /\ adding' = adding /\ missing' = missing /\ fetched' = fetched
       /\ toFetch' = toFetch /\ left' = left /\ calls' = calls /\ seen' = seen /\ lost' = lost /\ unread' = unread
  <2>1. Resolve(rec, c) = rec
    BY <1>2, <1>3, ResolveNothing
  <2>2. r[c].base # None => Resolve(r, r[c].base) = r
    BY <1>3, <1>6, <1>8, <1>9, ResolveNothing
  <2>3. r = IF b # None /\ rec[c].base = None /\ map[b] = "here" THEN [rec EXCEPT ![c].base = b] ELSE rec
    BY <1>4, <1>5
  <2>4. rec' = (IF r[c].base # None THEN Resolve(r, r[c].base) ELSE r) /\ names' = AddDirectoryName(rec', c)
    BY <1>1, <2>1, <2>3 DEF UpdateRecord
  <2>5. rec' = r
    BY <2>2, <2>4
  <2>6. /\ pc' = "check" /\ disk' = disk /\ map' = map
        /\ cursor' = cursor /\ cur' = cur /\ adding' = adding /\ missing' = missing /\ fetched' = fetched
        /\ toFetch' = toFetch /\ left' = left /\ calls' = calls /\ seen' = seen /\ lost' = lost /\ unread' = unread
    BY DEF UpdateRecord, history
  <2> QED
    BY <2>4, <2>5, <2>6
<1>11. PICK f : f = BaseOf(r, c)
  OBVIOUS
<1>12. /\ f \in Segment /\ (r[c].base # None => f = b /\ ~Base(c)) /\ (r[c].base = None => f = c)
       /\ r[f].name # None => Base(f) /\ r[f].name = disk.parent[f] /\ map[f] = "here"
  <2>1. f \in Segment /\ (r[c].base # None => f = b /\ ~Base(c)) /\ (r[c].base = None => f = c)
    BY <1>2, <1>3, <1>4, <1>6, <1>11 DEF BaseOf
  <2>2. ASSUME r[f].name # None PROVE Base(f) /\ r[f].name = disk.parent[f] /\ map[f] = "here"
    <3>1. rec[f].name # None
      BY <1>6, <2>1, <2>2
    <3>2. Base(f)
      <4>1. CASE r[c].base # None
        BY <1>3, <2>1, <4>1
      <4>2. CASE r[c].base = None
        <5>1. rec[c].base = None
          BY <1>4, <1>6, <4>2
        <5> QED
          BY <1>3, <2>1, <3>1, <4>2, <5>1
      <4> QED
        BY <4>1, <4>2
    <3>3. map[f] = "here" /\ rec[f].name = disk.parent[f]
      BY <2>1, <3>1, <3>2, NameKnown
    <3> QED
      BY <1>6, <2>1, <3>2, <3>3
  <2> QED
    BY <2>1, <2>2
<1>13. /\ \A x \in Segment : names[x] # None => names'[x] = names[x]
       /\ \A x \in Segment : names[x] = None /\ names'[x] # None =>
            Base(x) /\ names'[x] = disk.parent[x] /\ map[x] = "here"
       /\ r[f].directory /\ r[f].name # None => names'[f] # None
  <2>1. names \in [Segment -> Segment \cup {Root, None}]
    BY DEF SoundWalk, Sane, OtherTypes
  <2>2. /\ \A x \in Segment : names[x] # None => names'[x] = names[x]
        /\ \A x \in Segment : names[x] = None /\ names'[x] # None =>
             x = f /\ r[f].name # None /\ Base(x) /\ names'[x] = disk.parent[x]
        /\ r[f].directory /\ r[f].name # None => names'[f] # None
    BY <1>2, <1>6, <1>10, <1>11, <1>12, <2>1, NamesGiven
  <2> QED
    BY <1>12, <2>2
<1>14. NamesOf(names) /\ NamesOf(names')
  <2>1. names \in [Segment -> Segment \cup {Root, None}]
    BY DEF SoundWalk, Sane, OtherTypes
  <2>2. names' \in [Segment -> Segment \cup {Root, None}]
    BY <1>2, <1>6, <1>10, <2>1, NamesTyped
  <2>3. NamesOf(names)
    BY SoundFacts
  <2> QED
    BY <1>13, <2>2, <2>3 DEF NamesOf
<1>15. \A d \in Segment \cup {Root, None} : LackingIn(names, d) = {} => LackingIn(names', d) = {}
  BY <1>3, <1>13, <1>14, LackingMono
<1>16. Records(rec, map)'
  BY <1>8, <1>10, RecordsPrimed
<1>17. Present'
  BY <1>2, <1>10, DiskSame DEF Present
<1>18. Judgements'
  <2>1. \A x : Whole(x)' <=> Whole(x)
    BY <1>10, DiskSame DEF Whole, Absent
  <2>2. ASSUME NEW x \in Segment, map[x] = "here", r[x].complete, map[FileOf(x)] = "here"
        PROVE  Whole(FileOf(x)) /\ (cursor \in Segment => LackingIn(names', r[FileOf(x)].name) = {})
    <3>1. FileOf(x) \in Segment
      BY <1>3, DiskSound
    <3>2. Whole(FileOf(x)) /\ (cursor \in Segment => LackingIn(names, rec[FileOf(x)].name) = {})
      BY <1>2, <1>6, <2>2, <3>1 DEF Judgements
    <3>3. r[FileOf(x)].name = rec[FileOf(x)].name /\ r[FileOf(x)].name \in Segment \cup {Root, None}
      BY <1>6, <3>1 DEF Record
    <3> QED
      BY <1>15, <3>2, <3>3
  <2> QED
    BY <1>10, <2>1, <2>2, DiskSame DEF Judgements
<1>19. Names'
  <2>1. ASSUME NEW x \in Segment, names'[x] # None
        PROVE  Base(x) /\ names'[x] = disk.parent[x] /\ map[x] # "absent"
    BY <1>2, <1>13, <2>1 DEF Names
  <2>2. ASSUME NEW x \in Segment, names'[x] = None, Base(x), map[x] = "here", Path \subseteq FoundIn(r, x), x \notin lost
        PROVE  FALSE
    <3>1. Window(x) /\ c \in ListOf(x)
      BY <1>1, <1>2, <1>7, <1>13, <2>2 DEF Names
    <3>2. x = b /\ ~Base(c)
      BY <1>1, <1>3, <2>2, <3>1, SegmentAssumption DEF Window, None
    <3>3. r[c].base # None
      BY <1>1, <1>2, <1>8, <2>2, <3>1, <3>2 DEF Records, ChildRecord
    <3>4. f = x
      BY <1>12, <3>2, <3>3
    <3>5. r[f].directory /\ r[f].name # None
      BY <1>8, <2>2, <3>4, ShapeNamed DEF Records, BaseRecord
    <3> QED
      BY <1>13, <2>2, <3>4, <3>5
  <2>3. ASSUME NEW x \in Segment, names'[x] = None, Base(x), map[x] = "gone", Got(x), Path \subseteq Legible(x)
        PROVE  FALSE
    BY <1>1, <1>2, <1>13, <2>3 DEF Names
  <2> QED
    BY <1>10, <2>1, <2>2, <2>3, DiskSame DEF Names
<1>20. \A z \in Segment : Class(z) => Class(z)'
  <2>1. FileOf(cur) \in Segment
    BY <1>1, <1>2, <1>3, DiskSound
  <2>2. \A z : OnPath(z)' <=> OnPath(z)
    BY <1>6, <1>10, <2>1, DiskSame DEF OnPath, Here
  <2> QED
    BY <1>10, <1>15, <2>2, DiskSame DEF Class
<1>21. \A z \in Pending' : Owed(z)'
  <2>1. ASSUME NEW z \in Pending' PROVE Owed(z)'
    <3>1. z \in Pending
      BY <1>10, <2>1 DEF Pending
    <3>2. Owed(z)
      BY <1>2, <3>1 DEF Fetching
    <3>3. z \in Segment
      BY <1>2, <3>1 DEF Pending, SoundWalk, Sane, IInv, WalkTypes
    <3>4. Class(FileOf(z))'
      <4>1. PICK g : g = FileOf(z)
        OBVIOUS
      <4>2. g \in Segment /\ Class(g)
        BY <1>3, <3>2, <3>3, <4>1, DiskSound DEF Owed
      <4>3. Class(g)'
        BY <1>20, <4>2
      <4> QED
        BY <1>10, <4>1, <4>3, DiskSame DEF Class
    <3> QED
      BY <1>10, <3>2, <3>4, DiskSame DEF Owed
  <2> QED
    BY <2>1
<1>22. ASSUME NEW d \in Segment, NEW k \in Segment, Loose(d, k)' PROVE Loose(d, k)
  BY <1>10, <1>13, <1>22, DiskSame DEF Loose
<1>23. \A z : OnPath(z)' <=> OnPath(z)
  <2>1. FileOf(cur) \in Segment
    BY <1>1, <1>2, <1>3, DiskSound
  <2> QED
    BY <1>6, <1>10, <2>1, DiskSame DEF OnPath, Here
<1>24. ~Base(cur) /\ map[disk.base[cur]] = "here" => r[cur].base # None
  BY <1>1, <1>3, <1>4, <1>6
<1>25. Fetching'
  <2>1. \A d, k \in Segment : Loose(d, k)' => d = FileOf(cur) \/ (OnPath(d)' /\ k \in missing \cup fetched)
    BY <1>2, <1>22, <1>23 DEF Fetching
  <2>2. \A x \in fetched : map[x] # "absent" \/ x \in toFetch \cup {adding} \/ x \in lost
    BY <1>2 DEF Fetching
  <2> QED
    BY <1>2, <1>10, <1>21, <1>24, <2>1, <2>2, DiskSame DEF Fetching
<1>26. Seen' /\ Ready'
  BY <1>10, DiskSame DEF SoundWalk, Seen, Ready
<1> QED
  BY <1>16, <1>17, <1>18, <1>19, <1>25, <1>26 DEF Parts

\* What is added was absent, or is parsed at last: it is owed to the record of the callback, or is it.
LEMMA AddStep == ASSUME SoundWalk, AddRecord, NamesOf(names') PROVE Parts'
<1>1. PICK s, m, r, n : s = adding /\ m = map' /\ r = rec' /\ n = names'
  OBVIOUS
<1>2. /\ disk \in Volumes /\ VolumesSound /\ rec \in [Segment -> Record] /\ None \notin Segment /\ NamesOf(names)
      /\ map \in [Segment -> {"absent", "here", "gone"}] /\ cur \in Segment \cup {None}
      /\ IInv /\ RecInv /\ OtherTypes /\ Records(rec, map) /\ Present /\ Judgements /\ Names /\ Fetching /\ NamesOf(n)
  BY <1>1, SoundFacts DEF SoundWalk, Sane
<1>3. /\ s \in Segment /\ map[s] # "gone" /\ m = [map EXCEPT ![s] = "here"] /\ disk' = disk /\ AddGives(s)
      /\ disk = disk'
  BY <1>1, <1>2, AddEffects
<1>4. /\ Readable(s) /\ pc \in {"add", "cell"} /\ cursor' = cursor /\ toFetch' = toFetch /\ left' = left
      /\ calls' = calls /\ seen' = seen /\ lost' = lost /\ unread' = unread
      /\ cur = None => pc' = "check" /\ cur' = s /\ adding' = None /\ missing' = {} /\ fetched' = {}
      /\ cur # None => pc' = "look" /\ cur' = cur /\ adding' = s /\ missing' = missing /\ fetched' = fetched
  <2>1. Readable(s)
    BY <1>1, <1>3 DEF AddRecord, Readable, SoundWalk, Signed
  <2> QED
    BY <1>1, <2>1 DEF AddRecord, GotCell, Accepted, history
<1>5. /\ m[s] = "here" /\ \A x \in Segment \ {s} : m[x] = map[x]
      /\ \A x \in Segment : m[x] = "absent" => map[x] = "absent"
      /\ \A x \in Segment : map[x] = "here" => m[x] = "here"
      /\ \A x \in Segment : map[x] = "gone" <=> m[x] = "gone"
  <2>1. m[s] = "here" /\ \A x \in Segment \ {s} : m[x] = map[x]
    BY <1>2, <1>3
  <2> QED
    BY <1>3, <2>1
<1>6. /\ Records(r, m)
      /\ \A x \in Segment : r[x].complete => rec[x].complete /\ map[x] = "here"
      /\ \A x \in Segment : Base(x) /\ map[x] = "here" =>
           r[x].name = rec[x].name \/ (rec[x].name = None /\ s \in ListOf(x) /\ map[s] = "absent")
      /\ \A x \in Segment : names[x] # None => n[x] = names[x]
      /\ \A x \in Segment : names[x] = None /\ n[x] # None => Base(x) /\ n[x] = disk.parent[x] /\ m[x] = "here"
      /\ \A x \in Segment : Base(x) /\ m[x] = "here" /\ n[x] = None /\ Path \subseteq FoundIn(r, x) =>
           (map[x] = "here" /\ Path \subseteq FoundIn(rec, x)) \/ (x = s /\ (s \in lost \/ cur \in ListOf(s) \ {s}))
      /\ ~Base(s) /\ map[disk.base[s]] = "here" => r[s].base # None
  BY <1>1, <1>3 DEF AddGives
<1>7. /\ FileOf(s) \in Segment /\ (Base(s) => FileOf(s) = s)
      /\ \A x \in Segment : FileOf(x) \in Segment /\ Base(FileOf(x)) /\ FileOf(FileOf(x)) = FileOf(x)
      /\ \A x \in Segment : ~Base(x) => disk.base[x] \in Segment /\ disk.base[x] = FileOf(x) /\ disk.base[x] # x
      /\ \A x \in Segment : Base(x) => FileOf(x) = x
  BY <1>2, <1>3, DiskSound
<1>8. cur # None => Owed(s)
  <2>1. cur # None => s \in Pending
    BY <1>1, <1>2, <1>3 DEF Pending
  <2> QED
    BY <1>2, <2>1 DEF Fetching
<1>9. \A d \in Segment \cup {Root, None} : LackingIn(names, d) = {} => LackingIn(n, d) = {}
  <2>1. \A x \in Segment : names[x] # None => n[x] # None
    BY <1>6
  <2> QED
    BY <1>2, <2>1, LackingMono
<1>10. Records(rec, map)'
  BY <1>1, <1>3, <1>6, RecordsPrimed
<1>11. Present'
  <2>1. ASSUME NEW x \in Segment
        PROVE  /\ m[x] = "here" => Readable(x)
               /\ m[x] = "gone" /\ Readable(x) /\ ~Base(x) => m[disk.base[x]] = "gone"
               /\ x < cursor /\ x \notin unread => m[x] # "absent"
               /\ x = cur' => m[x] # "absent"
    BY <1>2, <1>4, <1>5, <1>7 DEF Present
  <2>2. ASSUME NEW x \in Segment, m[x] = "here", ~Base(x), m[disk.base[x]] = "absent"
        PROVE  x = cur' \/ disk.base[x] \in lost
    <3>1. disk.base[x] \in Segment /\ map[disk.base[x]] = "absent"
      BY <1>5, <1>7, <2>2
    <3>2. CASE x = s
      <4>1. cur = None
        BY <1>8, <2>2, <3>1, <3>2 DEF Owed
      <4> QED
        BY <1>4, <3>2, <4>1
    <3>3. CASE x # s
      <4>1. x = cur \/ disk.base[x] \in lost
        BY <1>2, <1>5, <2>2, <3>1, <3>3 DEF Present
      <4> QED
        BY <1>2, <1>4, <4>1
    <3> QED
      BY <3>2, <3>3
  <2>3. \A x \in Segment : x \in left => Base(x)
    BY <1>2 DEF Present
  <2>4. \A x \in Segment : pc' = "look" /\ x = adding' => m[x] = "here"
    BY <1>4, <1>5
  <2> QED
    BY <1>1, <1>3, <1>4, <2>1, <2>2, <2>3, <2>4, DiskSame DEF Present
<1>12. Judgements'
  <2>1. \A x : Whole(x) => Whole(x)'
    BY <1>1, <1>3, <1>5, DiskSame DEF Whole, Absent
  <2>2. ASSUME NEW x \in Segment, m[x] = "here", r[x].complete, m[FileOf(x)] = "here"
        PROVE  Whole(FileOf(x)) /\ (cursor \in Segment => LackingIn(n, r[FileOf(x)].name) = {})
    <3>1. PICK f \in Segment : f = FileOf(x) /\ Base(f)
      BY <1>7
    <3>2. rec[x].complete /\ map[x] = "here"
      BY <1>6, <2>2
    <3>3. map[f] # "absent"
      BY <1>7, <3>1, <3>2, BaseOfHere, SoundFacts
    <3>4. map[f] = "here"
      BY <1>2, <1>5, <2>2, <3>1, <3>3
    <3>5. Whole(f) /\ (cursor \in Segment => LackingIn(names, rec[f].name) = {})
      BY <1>2, <3>1, <3>2, <3>4 DEF Judgements
    <3>6. r[f].name = rec[f].name
      <4>1. ~(s \in ListOf(f) /\ map[s] = "absent")
        BY <1>3, <3>5 DEF Whole, Absent
      <4> QED
        BY <1>6, <3>1, <3>4, <4>1
    <3>7. rec[f].name \in Segment \cup {Root, None}
      BY <1>2, <3>1 DEF Record
    <3> QED
      BY <1>9, <3>1, <3>5, <3>6, <3>7
  <2> QED
    BY <1>1, <1>3, <1>4, <2>1, <2>2, DiskSame DEF Judgements
<1>13. Names'
  <2>1. \A x : Window(x) => Window(x)' /\ cur' = cur
    BY <1>3, <1>4 DEF Window, Outside
  <2>2. ASSUME NEW x \in Segment, n[x] # None PROVE Base(x) /\ n[x] = disk.parent[x] /\ m[x] # "absent"
    <3>1. CASE names[x] # None
      BY <1>2, <1>5, <1>6, <2>2, <3>1 DEF Names
    <3>2. CASE names[x] = None
      BY <1>6, <2>2, <3>2
    <3> QED
      BY <3>1, <3>2
  <2>3. ASSUME NEW x \in Segment, n[x] = None, Base(x), m[x] = "here", Path \subseteq FoundIn(r, x)
        PROVE  x \in lost \/ (Window(x)' /\ cur' \in ListOf(x))
    <3>1. names[x] = None
      BY <1>6, <2>3
    <3>2. CASE map[x] = "here" /\ Path \subseteq FoundIn(rec, x)
      <4>1. x \in lost \/ (Window(x) /\ cur \in ListOf(x))
        BY <1>2, <2>3, <3>1, <3>2 DEF Names
      <4> QED
        BY <2>1, <4>1
    <3>3. CASE x = s /\ cur \in ListOf(s) \ {s}
      <4>1. ListOf(s) \subseteq {h \in Segment : FileOf(h) = s}
        BY <1>2, <2>3, <3>3, DiskSound
      <4>2. cur \in Segment /\ FileOf(cur) = s /\ cur # s
        BY <3>3, <4>1
      <4>3. cur # None /\ disk.base[cur] = s
        BY <1>2, <1>7, <4>2
      <4> QED
        BY <1>3, <1>4, <3>3, <4>3 DEF Window, Outside
    <3> QED
      BY <1>6, <2>3, <3>2, <3>3
  <2>4. ASSUME NEW x \in Segment, n[x] = None, Base(x), m[x] = "gone", Got(x), Path \subseteq Legible(x)
        PROVE  Window(x)' /\ m[cur'] = "gone"
    <3>1. Window(x) /\ map[cur] = "gone"
      BY <1>2, <1>5, <1>6, <2>4 DEF Names
    <3>2. cur \in Segment
      BY <1>2, <3>1 DEF Window
    <3> QED
      BY <1>5, <2>1, <3>1, <3>2
  <2> QED
    BY <1>1, <1>3, <1>4, <2>2, <2>3, <2>4, DiskSame DEF Names
<1>14. ASSUME NEW d \in Segment, NEW k \in Segment, Loose(d, k)'
       PROVE  Loose(d, k) \/ (d = s /\ Base(s) /\ n[s] = None)
  BY <1>1, <1>3, <1>4, <1>5, <1>6, <1>14, DiskSame DEF Loose
<1>15. CASE cur = None
  <2>1. toFetch = {} /\ \A d, k \in Segment : ~Loose(d, k)
    BY <1>2, <1>15 DEF Fetching
  <2>2. Pending' = {}
    BY <1>4, <1>15, <2>1 DEF Pending
  <2>3. \A d, k \in Segment : Loose(d, k)' => d = FileOf(s)
    BY <1>7, <1>14, <2>1
  <2>4. ~Base(s) /\ m[disk.base[s]] = "here" => r[s].base # None
    BY <1>3, <1>5, <1>6, <1>7
  <2>5. FileOf(cur)' = FileOf(s)
    BY <1>3, <1>4, <1>15 DEF FileOf, Base
  <2>6. Base(cur)' => Base(s)
    BY <1>3, <1>4, <1>15 DEF Base
  <2>7. Base(s) => Base(cur)'
    BY <1>3, <1>4, <1>15 DEF Base
  <2>8. cur' # None
    BY <1>2, <1>3, <1>4, <1>15
  <2>9. Fetching'
    BY <1>1, <1>3, <1>4, <1>15, <2>1, <2>2, <2>3, <2>4, <2>5, <2>6, <2>7, <2>8 DEF Fetching
  <2>10. Seen' /\ Ready'
    BY <1>3, <1>4, <1>15, DiskSame DEF SoundWalk, Seen, Ready
  <2> QED
    BY <1>10, <1>11, <1>12, <1>13, <2>9, <2>10 DEF Parts
<1>16. CASE cur # None
  <2>1. \A z : OnPath(z) => OnPath(z)'
    <3>1. PICK b \in Segment : b = FileOf(cur) /\ Base(b)
      BY <1>2, <1>7, <1>16
    <3>2. map[b] = "here" /\ rec[b].name # None => m[b] = "here" /\ r[b].name = rec[b].name
      BY <1>5, <1>6, <3>1
    <3>3. \A z : OnPath(z) <=> map[b] = "here" /\ rec[b].name # None /\ z \in Above(disk.parent[b])
      BY <3>1 DEF OnPath, Here
    <3>4. \A z : OnPath(z)' <=> m[b] = "here" /\ r[b].name # None /\ z \in Above(disk.parent[b])
      BY <1>1, <1>3, <1>4, <1>16, <3>1, DiskSame DEF OnPath, Here
    <3> QED
      BY <3>2, <3>3, <3>4
  <2>2. \A z \in Segment : Class(z) => Class(z)'
    BY <1>1, <1>3, <1>4, <1>9, <1>16, <2>1, DiskSame DEF Class
  <2>3. ASSUME NEW z \in Pending' PROVE Owed(z)'
    <3>1. z \in Pending
      BY <1>1, <1>4, <1>16, <2>3 DEF Pending
    <3>2. Owed(z)
      BY <1>2, <1>16, <3>1 DEF Fetching
    <3>3. z \in Segment
      BY <1>1, <1>2, <1>3, <3>1 DEF Pending, IInv, WalkTypes
    <3>4. Class(FileOf(z))'
      <4>1. PICK g : g = FileOf(z)
        OBVIOUS
      <4>2. g \in Segment /\ Class(g)
        BY <1>7, <3>2, <3>3, <4>1 DEF Owed
      <4>3. Class(g)'
        BY <2>2, <4>2
      <4> QED
        BY <1>3, <4>1, <4>3, DiskSame DEF Class
    <3>5. ~Base(z) => z \in ListOf(disk.base[z]) /\ m[disk.base[z]] # "absent"
      BY <1>5, <1>7, <3>2, <3>3 DEF Owed
    <3> QED
      BY <1>1, <1>3, <3>4, <3>5, DiskSame DEF Owed
  <2>4. \A x \in fetched : m[x] # "absent" \/ x \in toFetch \cup {s} \/ x \in lost
    <3>1. fetched \subseteq Segment
      BY <1>2 DEF OtherTypes
    <3> QED
      BY <1>1, <1>2, <1>5, <1>16, <3>1 DEF Fetching
  <2>5. ASSUME NEW d \in Segment, NEW k \in Segment, Loose(d, k)'
        PROVE  d = FileOf(cur) \/ (OnPath(d)' /\ (k \in missing \cup fetched \/ d = s))
    <3>1. CASE Loose(d, k)
      BY <1>2, <1>4, <1>16, <2>1, <3>1 DEF Fetching
    <3>2. CASE d = s /\ Base(s) /\ n[s] = None
      <4>1. Class(s)
        BY <1>7, <1>8, <1>16, <3>2 DEF Owed
      <4>2. LackingIn(names, s) # {}
        <5>1. s \in Above(s) /\ names[s] = None
          BY <1>3, <1>6, <3>2, AboveSteps
        <5> QED
          BY <1>2, <1>3, <5>1, LackingAbove
      <4> QED
        BY <2>1, <3>2, <4>1, <4>2 DEF Class
    <3> QED
      BY <1>14, <2>5, <3>1, <3>2
  <2>6. FileOf(cur)' = FileOf(cur)
    BY <1>3, <1>4, <1>16 DEF FileOf, Base
  <2>7. Fetching'
    BY <1>1, <1>3, <1>4, <1>16, <2>3, <2>4, <2>5, <2>6 DEF Fetching
  <2>8. Seen' /\ Ready'
    BY <1>3, <1>4, <1>16, DiskSame DEF SoundWalk, Seen, Ready
  <2> QED
    BY <1>10, <1>11, <1>12, <1>13, <2>7, <2>8 DEF Parts
<1> QED
  BY <1>15, <1>16

\* A record that is called back is seen with all that can be read, and with the path as far as there is one.
LEMMA CallSeen ==
  ASSUME SoundWalk, disk' = disk, lost' = lost, unread' = unread,
         NEW s \in Segment, map[s] = "here", Base(s), WholeButLost(s),
         \A d \in LackingIn(names, rec[s].name) : Hopeless(d), NEW keep, NEW r, CallCallback(s, keep, r)
  PROVE  Seen'
<1>1. PICK given : given = [types |-> Found(s), lacking |-> Lacking(rec[s].name)]
  OBVIOUS
<1>2. /\ seen' = [seen EXCEPT ![s] = given] /\ calls' = [calls EXCEPT ![s] = @ + 1] /\ DOMAIN seen = Segment
      /\ calls \in [Segment -> Nat]
  BY <1>1 DEF CallCallback, SoundWalk, Seen, Sane, IInv, WalkTypes
<1>3. /\ DOMAIN seen' = Segment /\ seen'[s] = given
      /\ \A x \in Segment \ {s} : calls'[x] = calls[x] /\ seen'[x] = seen[x]
  BY <1>2
<1>4. Legible(s) \subseteq given.types
  BY <1>1, LegibleFound DEF FoundIn, Found
<1>5. \A d \in given.lacking : Hopeless(d)
  BY <1>1, LackingThere
<1>6. ASSUME NEW x \in Segment, calls'[x] > 0
      PROVE  Legible(x) \subseteq seen'[x].types /\ \A d \in seen'[x].lacking : Hopeless(d)
  <2>1. CASE x = s
    BY <1>3, <1>4, <1>5, <2>1
  <2>2. CASE x # s
    BY <1>3, <1>6, <2>2 DEF SoundWalk, Seen
  <2> QED
    BY <2>1, <2>2
<1> QED
  BY <1>3, <1>6, DiskSame DEF Seen

\* What DeleteRecord frees is of one file.
LEMMA DeletedFacts ==
  ASSUME SoundWalk, NEW s \in Segment, map[s] = "here", Base(s), DeleteRecord(s)
  PROVE  /\ s \in Deleted(s) /\ \A x \in Deleted(s) : x \in Segment /\ FileOf(x) = s /\ map[x] = "here"
         /\ \A x \in ListOf(s) : map[x] = "here" => x \in Deleted(s)
         /\ \A x \in Segment : x \in Deleted(s) => map'[x] = "gone" /\ rec'[x] = Blank
         /\ \A x \in Segment : x \notin Deleted(s) => map'[x] = map[x] /\ rec'[x] = rec[x]
         /\ \A x \in Segment : Base(x) /\ x # s => x \notin Deleted(s)
<1>1. rec[s].kids = ListOf(s) /\ FileOf(s) = s
  BY BaseOfHere
<1>2. ListOf(s) \subseteq {h \in Segment : FileOf(h) = s}
  BY SoundFacts, DiskSound
<1>3. PICK D : D = Deleted(s)
  OBVIOUS
<1>4. D = {s} \cup {k \in ListOf(s) : map[k] = "here"}
  BY <1>1, <1>3 DEF Deleted
<1>5. s \in D /\ \A x \in D : x \in Segment /\ FileOf(x) = s /\ map[x] = "here"
  BY <1>1, <1>2, <1>4
<1>6. \A x \in ListOf(s) : map[x] = "here" => x \in D
  BY <1>4
<1>7. PICK b : b = Blank
  OBVIOUS
<1>8. /\ map' = [x \in Segment |-> IF x \in D THEN "gone" ELSE map[x]]
      /\ rec' = [x \in Segment |-> IF x \in D THEN b ELSE rec[x]]
  BY <1>3, <1>7 DEF DeleteRecord
<1>9. /\ \A x \in Segment : x \in D => map'[x] = "gone" /\ rec'[x] = b
      /\ \A x \in Segment : x \notin D => map'[x] = map[x] /\ rec'[x] = rec[x]
  BY <1>8
<1>10. \A x \in Segment : Base(x) => FileOf(x) = x
  BY SoundFacts, DiskSound
<1> QED
  BY <1>3, <1>5, <1>6, <1>7, <1>9, <1>10

\* The records that are left.
LEMMA DeletedRecords ==
  ASSUME SoundWalk, disk' = disk, names' = names, cursor' \in Segment => cursor \in Segment,
         NEW s \in Segment, map[s] = "here", Base(s), DeleteRecord(s)
  PROVE  Records(rec, map)' /\ Judgements'
<1>1. PICK D, m, r : D = Deleted(s) /\ m = map' /\ r = rec'
  OBVIOUS
<1>2. /\ s \in D /\ \A x \in D : x \in Segment /\ FileOf(x) = s /\ map[x] = "here"
      /\ \A x \in ListOf(s) : map[x] = "here" => x \in D
      /\ \A x \in Segment : x \in D => m[x] = "gone" /\ r[x] = Blank
      /\ \A x \in Segment : x \notin D => m[x] = map[x] /\ r[x] = rec[x]
  BY <1>1, DeletedFacts
<1>3. /\ disk \in Volumes /\ VolumesSound /\ rec \in [Segment -> Record] /\ Records(rec, map) /\ Judgements
      /\ \A x \in Segment : FileOf(x) \in Segment /\ (~Base(x) => FileOf(x) = disk.base[x])
      /\ \A x \in Segment : Base(x) => FileOf(x) = x
  <2>1. disk \in Volumes /\ VolumesSound /\ rec \in [Segment -> Record] /\ Records(rec, map) /\ Judgements
    BY SoundFacts DEF SoundWalk
  <2> QED
    BY <2>1, DiskSound
<1>4. ASSUME NEW x \in Segment
      PROVE  /\ m[x] # "here" => r[x] = Blank
             /\ m[x] = "here" /\ Base(x) => BaseRecord(r, m, x)
             /\ m[x] = "here" /\ ~Base(x) => ChildRecord(r, m, x)
  <2>1. CASE FileOf(x) # s
    <3>1. x \notin D /\ r[x] = rec[x] /\ \A h \in Segment : FileOf(h) = FileOf(x) => m[h] = map[h]
      BY <1>2, <2>1
    <3>2. m[x] # "here" => r[x] = Blank
      BY <1>3, <3>1, OtherFile
    <3>3. m[x] = "here" /\ Base(x) => BaseRecord(r, m, x)
      BY <1>3, <3>1, OtherFile
    <3>4. m[x] = "here" /\ ~Base(x) => ChildRecord(r, m, x)
      BY <1>3, <3>1, OtherFile
    <3> QED
      BY <3>2, <3>3, <3>4
  <2>2. CASE x \in D
    BY <1>2, <2>2
  <2>3. CASE FileOf(x) = s /\ x \notin D
    <3>1. ~Base(x) /\ disk.base[x] = s /\ m[x] = map[x] /\ r[x] = rec[x] /\ m[s] = "gone"
      BY <1>2, <1>3, <2>3
    <3>2. ASSUME map[x] = "here" PROVE ChildRecord(r, m, x)
      <4>1. ChildRecord(rec, map, x) /\ x \notin ListOf(s)
        BY <1>2, <1>3, <2>3, <3>1, <3>2 DEF Records
      <4> QED
        BY <3>1, <4>1 DEF ChildRecord
    <3>3. map[x] # "here" => r[x] = Blank
      BY <1>3, <3>1 DEF Records
    <3> QED
      BY <3>1, <3>2, <3>3
  <2> QED
    BY <2>1, <2>2, <2>3
<1>5. Records(rec, map)'
  <2>1. Records(r, m)
    BY <1>4 DEF Records
  <2> QED
    BY <1>1, <2>1, RecordsPrimed
<1>6. \A x : Whole(x) => Whole(x)'
  BY <1>1, <1>2, DiskSame DEF Whole, Absent
<1>7. ASSUME NEW x \in Segment, m[x] = "here", r[x].complete, m[FileOf(x)] = "here"
      PROVE  Whole(FileOf(x)) /\ (cursor' \in Segment => LackingIn(names, r[FileOf(x)].name) = {})
  <2>1. x \notin D /\ FileOf(x) \notin D /\ FileOf(x) \in Segment
    BY <1>2, <1>3, <1>7
  <2>2. map[x] = "here" /\ rec[x].complete /\ map[FileOf(x)] = "here" /\ r[FileOf(x)] = rec[FileOf(x)]
    BY <1>2, <1>7, <2>1
  <2> QED
    BY <1>3, <2>2 DEF Judgements
<1>8. Judgements'
  BY <1>1, <1>6, <1>7, DiskSame DEF Judgements
<1> QED
  BY <1>5, <1>8

\* A directory that is freed has its name, or the record of the callback is freed with it.
LEMMA DeletedNames ==
  ASSUME SoundWalk, disk' = disk, names' = names, lost' = lost, unread' = unread,
         NEW s \in Segment, map[s] = "here", Base(s), WholeButLost(s),
         DeleteRecord(s), cur # None /\ pc \in Outside => cur' = cur /\ pc' \in Outside
  PROVE  Names'
<1>1. PICK D, m, r : D = Deleted(s) /\ m = map' /\ r = rec'
  OBVIOUS
<1>2. /\ s \in D /\ \A x \in D : x \in Segment /\ FileOf(x) = s /\ map[x] = "here"
      /\ \A x \in ListOf(s) : map[x] = "here" => x \in D
      /\ \A x \in Segment : x \in D => m[x] = "gone"
      /\ \A x \in Segment : x \notin D => m[x] = map[x] /\ r[x] = rec[x]
      /\ \A x \in Segment : Base(x) /\ x # s => x \notin D
  BY <1>1, DeletedFacts
<1>3. Names /\ Present
  BY DEF SoundWalk
<1>4. \A x : Window(x) => Window(x)' /\ cur' = cur
  BY DEF Window
<1>5. \A x \in Segment : map[x] # "absent" => m[x] # "absent"
  BY <1>2
<1>6. \A x \in Segment : map[x] = "gone" => m[x] = "gone"
  BY <1>2
<1>7. ASSUME NEW x \in Segment, names[x] = None, Base(x), m[x] = "here", Path \subseteq FoundIn(r, x)
      PROVE  x \in lost \/ (Window(x)' /\ cur' \in ListOf(x))
  <2>1. map[x] = "here" /\ r[x] = rec[x]
    BY <1>2, <1>7
  <2>2. FoundIn(r, x) = FoundIn(rec, x)
    BY <2>1 DEF FoundIn
  <2> QED
    BY <1>3, <1>4, <1>7, <2>1, <2>2 DEF Names
<1>8. ASSUME NEW x \in Segment, names[x] = None, Base(x), m[x] = "gone", Got(x), Path \subseteq Legible(x)
      PROVE  Window(x)' /\ m[cur'] = "gone"
  <2>1. CASE x # s
    <3>1. map[x] = "gone"
      BY <1>2, <1>8, <2>1
    <3>2. Window(x) /\ map[cur] = "gone"
      BY <1>3, <1>8, <3>1 DEF Names
    <3>3. cur \in Segment
      BY <3>2, SoundFacts DEF Window
    <3> QED
      BY <1>4, <1>6, <3>2, <3>3
  <2>2. CASE x = s
    <3>1. Path \subseteq FoundIn(rec, s)
      BY <1>8, <2>2, LegibleFound
    <3>2. Window(s) /\ cur \in ListOf(s)
      BY <1>3, <1>8, <2>2, <3>1 DEF Names, Got
    <3>3. cur \in Segment /\ map[cur] # "absent"
      BY <1>3, <3>2, SoundFacts DEF Window, Present
    <3>4. m[cur] = "gone"
      BY <1>2, <1>6, <3>2, <3>3, SoundFacts
    <3> QED
      BY <1>4, <2>2, <3>2, <3>4
  <2> QED
    BY <2>1, <2>2
<1>9. ASSUME NEW x \in Segment, names[x] # None PROVE Base(x) /\ names[x] = disk.parent[x] /\ m[x] # "absent"
  BY <1>3, <1>5, <1>9 DEF Names
<1> QED
  BY <1>1, <1>7, <1>8, <1>9, DiskSame DEF Names

\* The end of AddRecordCallback: the record was ready.
LEMMA CallStep == ASSUME SoundWalk, CallRecord PROVE Parts'
<1>1. PICK s, m : s = cur /\ m = map'
  OBVIOUS
<1>2. /\ pc = "call" /\ s \in Segment /\ map[s] = "here" /\ cursor = s /\ toFetch = {} /\ Base(s)
      /\ Present /\ Fetching /\ Judgements
  <2>1. pc = "call" /\ Base(s)
    BY <1>1 DEF CallRecord, Callable, Base
  <2> QED
    BY <1>1, <2>1, SoundFacts DEF SoundWalk, Sane, IInv, CurrentHere, Enumeration, Fetching
<1>3. /\ map[FileOf(s)] # "absent" \/ FileOf(s) \in lost
      /\ \A d, k \in Segment : ~Loose(d, k)
      /\ WholeButLost(s) /\ \A d \in LackingIn(names, rec[s].name) : Hopeless(d)
  BY <1>1, <1>2 DEF SoundWalk, Ready
<1>4. PICK keep \in KeepAlive : CallCallback(s, keep, rec)
  BY <1>1 DEF CallRecord
<1>5. /\ disk' = disk /\ names' = names /\ adding' = adding /\ toFetch' = toFetch /\ left' = left /\ cur' = None
      /\ lost' = lost /\ unread' = unread
      /\ (pc' = "done" /\ cursor' = cursor) \/ (pc' = "enum" /\ cursor' = cursor + 1)
  BY DEF CallRecord, NextRecord
<1>6. Seen'
  BY <1>2, <1>3, <1>4, <1>5, CallSeen
<1>7. (rec' = rec /\ map' = map) \/ DeleteRecord(s)
  BY <1>4 DEF CallCallback
<1>8. Records(rec, map)' /\ Judgements' /\ Names'
  <2>1. CASE DeleteRecord(s)
    BY <1>2, <1>3, <1>5, <2>1, DeletedRecords, DeletedNames DEF Outside
  <2>2. CASE rec' = rec /\ map' = map
    <3>1. Records(rec, map)'
      BY <1>5, <2>2, RecordsPrimed DEF SoundWalk
    <3>2. Judgements'
      BY <1>2, <1>5, <2>2, DiskSame DEF Judgements, Whole, Absent
    <3>3. Names'
      BY <1>2, <1>5, <2>2, JudgedPlaces DEF Outside, FoundIn
    <3> QED
      BY <3>1, <3>2, <3>3
  <2> QED
    BY <1>7, <2>1, <2>2
<1>9. /\ \A x \in Segment : m[x] = "here" => map[x] = "here"
      /\ \A x \in Segment : m[x] = "absent" <=> map[x] = "absent"
      /\ \A x \in Segment : map[x] = "gone" => m[x] = "gone"
      /\ \A x \in Segment : m[x] = "gone" => map[x] = "gone" \/ (FileOf(x) = s /\ m[s] = "gone")
  <2>1. CASE DeleteRecord(s)
    BY <1>1, <1>2, <2>1, DeletedFacts
  <2>2. CASE rec' = rec /\ map' = map
    BY <1>1, <2>2
  <2> QED
    BY <1>7, <2>1, <2>2
<1>10. \A x \in Segment : ~Base(x) => disk.base[x] \in Segment /\ disk.base[x] = FileOf(x)
  BY SoundFacts, DiskSound
<1>11. \A x \in Segment : x < cursor' /\ x \notin unread => m[x] # "absent"
  <2>1. \A x \in Segment : x < cursor + 1 => x < cursor \/ x = cursor
    BY <1>2, SegmentAssumption
  <2> QED
    BY <1>2, <1>5, <1>9, <2>1 DEF Present
<1>12. Present'
  <2>1. ASSUME NEW x \in Segment
        PROVE  /\ m[x] = "here" => Readable(x)
               /\ m[x] = "gone" /\ Readable(x) /\ ~Base(x) => m[disk.base[x]] = "gone"
               /\ m[x] = "here" /\ ~Base(x) /\ m[disk.base[x]] = "absent" => disk.base[x] \in lost
               /\ x \in left => Base(x)
    <3>1. m[x] = "here" => Readable(x)
      BY <1>2, <1>9 DEF Present
    <3>2. m[x] = "gone" /\ Readable(x) /\ ~Base(x) => m[disk.base[x]] = "gone"
      BY <1>2, <1>9, <1>10 DEF Present
    <3>3. m[x] = "here" /\ ~Base(x) /\ m[disk.base[x]] = "absent" => disk.base[x] \in lost
      BY <1>1, <1>2, <1>3, <1>9, <1>10 DEF Present
    <3> QED
      BY <1>2, <3>1, <3>2, <3>3 DEF Present
  <2>2. \A x \in Segment : x # cur'
    BY <1>5, SegmentAssumption DEF None
  <2>3. pc' # "look"
    BY <1>5
  <2> QED
    BY <1>1, <1>5, <1>11, <2>1, <2>2, <2>3, DiskSame DEF Present
<1>13. \A d, k \in Segment : ~Loose(d, k)'
  BY <1>1, <1>3, <1>5, <1>9, DiskSame DEF Loose
<1>14. Fetching' /\ Ready'
  BY <1>2, <1>5, <1>13 DEF Fetching, Ready
<1> QED
  BY <1>6, <1>8, <1>12, <1>14 DEF Parts

\* What a walk calls back is complete: in the last walk, because nothing is left to be found.
LEMMA WalkReady ==
  ASSUME SoundWalk, pc = "walk", NEW s \in Segment, map[s] = "here", Base(s), Complete(s, ~Final)
  PROVE  /\ WholeButLost(s) /\ \A d \in LackingIn(names, rec[s].name) : Hopeless(d)
         /\ cur # None => LackingIn(names, rec[s].name) = {}
<1>1. Final \in BOOLEAN /\ FileOf(s) = s
  BY BaseOfHere DEF Final
<1>2. PICK strict \in BOOLEAN : strict = ~Final
  BY <1>1
<1>3. Whole(s) /\ (strict /\ cursor \in Segment => LackingIn(names, rec[s].name) = {})
  BY <1>1, <1>2, CompleteWhole
<1>4. Final => cursor \notin Segment /\ cur = None
  BY DEF SoundWalk, Sane, Enumeration, Final
<1>5. ~Final => cursor \in Segment
  <2>1. SUFFICES ASSUME ~Final PROVE cursor \in Segment
    OBVIOUS
  <2>2. adding \in Segment
    BY <2>1, SegmentAssumption DEF SoundWalk, Sane, IInv, AddingOK, Final, None
  <2>3. CASE cur = None
    BY <2>1, <2>2, <2>3 DEF SoundWalk, Sane, Enumeration, Final
  <2>4. CASE cur # None
    BY <2>4, SoundFacts DEF SoundWalk, Sane, Enumeration
  <2> QED
    BY <2>3, <2>4
<1>6. ~Final => LackingIn(names, rec[s].name) = {}
  BY <1>2, <1>3, <1>5
<1>7. ASSUME Final, NEW d \in LackingIn(names, rec[s].name) PROVE Hopeless(d)
  <2>1. rec[s].name # None
    BY <1>7, SoundFacts, LackingAbove, SegmentAssumption
  <2>2. rec[s].name = disk.parent[s] /\ disk.parent[s] \in Segment \cup {Root}
    BY <2>1, NameKnown
  <2>3. d \in Above(disk.parent[s]) /\ names[d] = None
    BY <1>7, <2>2, SoundFacts, LackingAbove
  <2>4. d \in Segment /\ Base(d)
    BY <2>3, SoundFacts, AboveBase
  <2>5. CASE d \in unread
    BY <2>5 DEF Hopeless, Got
  <2>6. ~Window(d) /\ \A k \in Segment : ~Loose(d, k)
    BY <1>4, <1>7, <2>4 DEF Window, SoundWalk, Fetching
  <2>7. d \notin unread => map[d] # "absent"
    BY <1>4, <1>7, <2>4 DEF SoundWalk, Sane, Enumeration, Present
  <2> QED
    BY <2>3, <2>4, <2>5, <2>6, <2>7, HopelessWithout
<1>8. WholeButLost(s)
  BY <1>3 DEF Whole, WholeButLost
<1> QED
  BY <1>4, <1>6, <1>7, <1>8

\* A walk that visits a record without a call judges it at most.
LEMMA PassStep ==
  ASSUME SoundWalk, NEW s \in Segment, WalkRecord(s), UNCHANGED <<map, called, history>>,
         rec' = (IF map[s] = "here" THEN Judged(s, ~Final) ELSE rec), left' = left \ {s}
  PROVE  Parts'
<1>1. /\ pc = "walk" /\ s \in left /\ disk' = disk /\ map' = map /\ names' = names /\ pc' = pc /\ cursor' = cursor
      /\ cur' = cur /\ adding' = adding /\ missing' = missing /\ fetched' = fetched /\ toFetch' = toFetch
      /\ calls' = calls /\ seen' = seen /\ lost' = lost /\ unread' = unread
  BY DEF WalkRecord, history
<1>2. Present /\ Fetching
  BY DEF SoundWalk
<1>3. Records(rec, map)' /\ Judgements'
      /\ \A x \in Segment : FoundIn(rec', x) = FoundIn(rec, x) /\ rec'[x].name = rec[x].name
  <2>1. CASE map[s] = "here"
    <3>1. PICK strict \in BOOLEAN : strict = ~Final
      BY DEF Final
    <3>2. ~strict => Base(s) /\ cursor \notin Segment
      BY <1>1, <1>2, <3>1 DEF Final, Present, SoundWalk, Sane, Enumeration
    <3>3. rec' = Judged(s, strict)
      BY <2>1, <3>1
    <3> QED
      BY <1>1, <2>1, <3>2, <3>3, JudgedSound, RecordsPrimed
  <2>2. CASE map[s] # "here"
    <3>1. rec' = rec
      BY <2>2
    <3>2. Records(rec, map)'
      BY <1>1, <3>1, RecordsPrimed DEF SoundWalk
    <3>3. Judgements'
      BY <1>1, <3>1, DiskSame DEF SoundWalk, Judgements, Whole, Absent
    <3> QED
      BY <3>1, <3>2, <3>3 DEF FoundIn
  <2> QED
    BY <2>1, <2>2
<1>4. /\ \A d, k : Loose(d, k)' <=> Loose(d, k)
      /\ cur # None => \A z : (Owed(z)' <=> Owed(z)) /\ (OnPath(z)' <=> OnPath(z))
      /\ Names'
  BY <1>1, <1>3, JudgedPlaces
<1>5. Present'
  BY <1>1, <1>2, DiskSame DEF Present
<1>6. Pending' = Pending
  BY <1>1 DEF Pending
<1>7. Fetching'
  BY <1>1, <1>2, <1>4, <1>6, DiskSame DEF Fetching
<1>8. Seen' /\ Ready'
  BY <1>1, DiskSame DEF SoundWalk, Seen, Ready
<1> QED
  BY <1>3, <1>4, <1>5, <1>7, <1>8 DEF Parts

\* A walk that calls a record back.
LEMMA VisitStep ==
  ASSUME SoundWalk, NEW s \in Segment, WalkRecord(s), map[s] = "here", Complete(s, ~Final), Base(s),
         NEW keep, CallCallback(s, keep, Judged(s, ~Final)), left' \subseteq left
  PROVE  Parts'
<1>1. PICK m, r : m = map' /\ r = rec'
  OBVIOUS
<1>2. /\ pc = "walk" /\ s \in left /\ disk' = disk /\ names' = names /\ pc' = pc /\ cursor' = cursor
      /\ cur' = cur /\ adding' = adding /\ missing' = missing /\ fetched' = fetched /\ toFetch' = toFetch
      /\ lost' = lost /\ unread' = unread
  BY DEF WalkRecord, history
<1>3. Present /\ Fetching
  BY DEF SoundWalk
<1>4. /\ WholeButLost(s) /\ \A d \in LackingIn(names, rec[s].name) : Hopeless(d)
      /\ cur # None => LackingIn(names, rec[s].name) = {}
  BY <1>2, WalkReady
<1>5. Seen'
  BY <1>2, <1>4, CallSeen
<1>6. (map' = map /\ rec' = Judged(s, ~Final)) \/ DeleteRecord(s)
  BY DEF CallCallback
<1>7. /\ Records(rec, map)' /\ Judgements' /\ Names'
      /\ \A x \in Segment : m[x] = "here" => map[x] = "here"
      /\ \A x \in Segment : m[x] = "absent" <=> map[x] = "absent"
      /\ \A x \in Segment : map[x] = "gone" => m[x] = "gone"
      /\ \A x \in Segment : m[x] = "gone" => map[x] = "gone" \/ (FileOf(x) = s /\ m[s] = "gone")
      /\ \A x \in Segment : Base(x) /\ map[x] = "here" =>
           x = s \/ (m[x] = "here" /\ rec'[x].name = rec[x].name)
  <2>1. CASE DeleteRecord(s)
    <3>1. Records(rec, map)' /\ Judgements' /\ Names'
      BY <1>2, <1>4, <2>1, DeletedRecords, DeletedNames
    <3>2. /\ \A x \in Deleted(s) : x \in Segment /\ FileOf(x) = s /\ map[x] = "here"
          /\ s \in Deleted(s)
          /\ \A x \in Segment : x \in Deleted(s) => m[x] = "gone"
          /\ \A x \in Segment : x \notin Deleted(s) => m[x] = map[x] /\ rec'[x] = rec[x]
          /\ \A x \in Segment : Base(x) /\ x # s => x \notin Deleted(s)
      BY <1>1, <2>1, DeletedFacts
    <3> QED
      BY <3>1, <3>2
  <2>2. CASE map' = map /\ rec' = Judged(s, ~Final)
    <3>1. PICK strict \in BOOLEAN : strict = ~Final
      BY DEF Final
    <3>2. ~strict => cursor \notin Segment
      BY <1>2, <3>1 DEF Final, SoundWalk, Sane, Enumeration
    <3>3. Records(rec', map') /\ Judgements'
          /\ \A x \in Segment : FoundIn(rec', x) = FoundIn(rec, x) /\ rec'[x].name = rec[x].name
      BY <1>2, <2>2, <3>1, <3>2, JudgedSound
    <3>4. Records(rec, map)' /\ Names'
      BY <1>2, <2>2, <3>3, JudgedPlaces, RecordsPrimed
    <3> QED
      BY <1>1, <2>2, <3>3, <3>4
  <2> QED
    BY <1>6, <2>1, <2>2
<1>8. /\ \A x \in Segment : ~Base(x) => disk.base[x] \in Segment /\ disk.base[x] = FileOf(x)
      /\ \A x \in Segment : FileOf(x) \in Segment /\ Base(FileOf(x))
  BY SoundFacts, DiskSound
<1>9. Present'
  <2>1. ASSUME NEW x \in Segment
        PROVE  /\ m[x] = "here" => Readable(x)
               /\ m[x] = "gone" /\ Readable(x) /\ ~Base(x) => m[disk.base[x]] = "gone"
               /\ x < cursor /\ x \notin unread => m[x] # "absent"
               /\ x = cur => m[x] # "absent"
               /\ m[x] = "here" /\ ~Base(x) /\ m[disk.base[x]] = "absent" => x = cur \/ disk.base[x] \in lost
               /\ x \in left' => Base(x)
    <3>1. m[x] = "here" => Readable(x)
      BY <1>3, <1>7 DEF Present
    <3>2. m[x] = "gone" /\ Readable(x) /\ ~Base(x) => m[disk.base[x]] = "gone"
      BY <1>3, <1>7, <1>8 DEF Present
    <3>3. /\ x < cursor /\ x \notin unread => m[x] # "absent"
          /\ x = cur => m[x] # "absent"
      BY <1>3, <1>7 DEF Present
    <3>4. m[x] = "here" /\ ~Base(x) /\ m[disk.base[x]] = "absent" => x = cur \/ disk.base[x] \in lost
      BY <1>3, <1>7, <1>8 DEF Present
    <3> QED
      BY <1>3, <3>1, <3>2, <3>3, <3>4 DEF Present
  <2>2. pc' # "look"
    BY <1>2
  <2> QED
    BY <1>1, <1>2, <2>1, <2>2, DiskSame DEF Present
<1>10. ASSUME NEW d \in Segment, NEW k \in Segment, Loose(d, k)' PROVE Loose(d, k)
  BY <1>1, <1>2, <1>7, <1>10, DiskSame DEF Loose
<1>11. CASE cur = None
  <2>1. Fetching'
    BY <1>2, <1>3, <1>10, <1>11 DEF Fetching
  <2> QED
    BY <1>2, <1>5, <1>7, <1>9, <2>1 DEF Parts, Ready
<1>12. CASE cur # None
  <2>1. PICK b \in Segment : b = FileOf(cur) /\ Base(b)
    BY <1>8, <1>12, SoundFacts
  <2>2. /\ \A z : OnPath(z) <=> map[b] = "here" /\ rec[b].name # None /\ z \in Above(disk.parent[b])
        /\ \A z : OnPath(z)' <=> m[b] = "here" /\ r[b].name # None /\ z \in Above(disk.parent[b])
    BY <1>1, <1>2, <2>1, DiskSame DEF OnPath, Here
  <2>3. b # s => \A z : OnPath(z) => OnPath(z)'
    BY <1>1, <1>7, <2>1, <2>2
  <2>4. ASSUME b = s, NEW z \in Segment, OnPath(z) PROVE names[z] # None /\ LackingIn(names, z) = {}
    <3>1. rec[s].name = disk.parent[s] /\ disk.parent[s] \in Segment \cup {Root} /\ z \in Above(disk.parent[s])
      BY <2>2, <2>4, NameKnown
    <3>2. \A y \in Above(disk.parent[s]) : names[y] # None
      BY <1>4, <1>12, <3>1, SoundFacts, LackingAbove
    <3>3. Above(z) \subseteq Above(disk.parent[s])
      BY <3>1, AboveSteps
    <3> QED
      BY <2>4, <3>1, <3>2, <3>3, SoundFacts, LackingAbove
  <2>5. \A z \in Segment : Class(z) => Class(z)'
    BY <1>2, <2>3, <2>4, DiskSame DEF Class
  <2>6. ASSUME NEW z \in Pending' PROVE Owed(z)'
    <3>1. z \in Pending
      BY <1>2, <2>6 DEF Pending
    <3>2. Owed(z)
      BY <1>3, <1>12, <3>1 DEF Fetching
    <3>3. z \in Segment
      BY <3>1, SegmentAssumption DEF Pending, SoundWalk, Sane, IInv, WalkTypes, Enumeration
    <3>4. Class(FileOf(z))'
      <4>1. PICK g : g = FileOf(z)
        OBVIOUS
      <4>2. g \in Segment /\ Class(g)
        BY <1>8, <3>2, <3>3, <4>1 DEF Owed
      <4>3. Class(g)'
        BY <2>5, <4>2
      <4> QED
        BY <1>2, <4>1, <4>3, DiskSame DEF Class
    <3>5. ~Base(z) => z \in ListOf(disk.base[z]) /\ m[disk.base[z]] # "absent"
      BY <1>7, <1>8, <3>2, <3>3 DEF Owed
    <3> QED
      BY <1>1, <1>2, <3>4, <3>5, DiskSame DEF Owed
  <2>7. \A x \in fetched : m[x] # "absent" \/ x \in toFetch \cup {adding} \/ x \in lost
    <3>1. fetched \subseteq Segment
      BY DEF SoundWalk, Sane, OtherTypes
    <3> QED
      BY <1>3, <1>7, <1>12, <3>1 DEF Fetching
  <2>8. ASSUME NEW d \in Segment, NEW k \in Segment, Loose(d, k)'
        PROVE  d = FileOf(cur) \/ (OnPath(d)' /\ k \in missing \cup fetched)
    <3>1. names[d] = None
      BY <1>10, <2>8 DEF Loose
    <3>2. d = FileOf(cur) \/ (OnPath(d) /\ k \in missing \cup fetched)
      BY <1>2, <1>3, <1>10, <1>12, <2>8 DEF Fetching
    <3> QED
      BY <2>3, <2>4, <3>1, <3>2
  <2>9. FileOf(cur)' = FileOf(cur)
    BY <1>2 DEF FileOf, Base
  <2>10. Fetching'
    BY <1>1, <1>2, <1>12, <2>6, <2>7, <2>8, <2>9 DEF Fetching
  <2> QED
    BY <1>2, <1>5, <1>7, <1>9, <2>10 DEF Parts, Ready
<1> QED
  BY <1>11, <1>12

\* A walk of the map.
LEMMA WalkStep == ASSUME SoundWalk, NEW s \in Segment, WalkRecord(s) PROVE Parts'
<1>1. CASE map[s] = "here" /\ Complete(s, ~Final) /\ Callable(s)
  <2>1. PICK keep \in KeepAlive, stop \in Stops :
          CallCallback(s, keep, Judged(s, ~Final)) /\ left' = IF stop THEN {} ELSE left \ {s}
    BY <1>1 DEF WalkRecord
  <2>2. left' \subseteq left
    BY <2>1
  <2> QED
    BY <1>1, <2>1, <2>2, VisitStep DEF Callable, Base
<1>2. CASE ~(map[s] = "here" /\ Complete(s, ~Final) /\ Callable(s))
  <2>1. /\ UNCHANGED <<map, called, history>>
        /\ rec' = (IF map[s] = "here" THEN Judged(s, ~Final) ELSE rec) /\ left' = left \ {s}
    BY <1>2 DEF WalkRecord
  <2> QED
    BY <2>1, PassStep
<1> QED
  BY <1>1, <1>2

-----------------------------------------------------------------------------
(***************************************************************************)
(* The theorem.                                                            *)
(***************************************************************************)
\* Nothing is in the map at first.
LEMMA InitWhole == Init => WholeInv
<1> SUFFICES ASSUME Init PROVE WholeInv
  OBVIOUS
<1>1. /\ \A s \in Segment : map[s] = "absent" /\ rec[s] = Blank /\ names[s] = None /\ calls[s] = 0
      /\ cur = None /\ missing = {} /\ fetched = {} /\ toFetch = {} /\ adding = None /\ left = {} /\ pc = "enum"
      /\ DOMAIN seen = Segment
  <2>1. PICK b : b = Blank
    OBVIOUS
  <2>2. rec = [s \in Segment |-> b]
    BY <2>1 DEF Init
  <2> QED
    BY <2>1, <2>2 DEF Init
<1>2. Records(rec, map)
  BY <1>1 DEF Records
<1>3. Present
  <2>1. \A s \in Segment : ~(s < cursor) /\ s # cur
    <3>1. PICK first \in Nat, last \in Nat : first <= last /\ Segment = first .. last
      BY SegmentAssumption
    <3>2. Min(Segment) = first
      <4>1. first \in Segment /\ \A y \in Segment : first =< y
        BY <3>1
      <4>2. Min(Segment) \in Segment /\ \A y \in Segment : Min(Segment) =< y
        BY <4>1 DEF Min
      <4> QED
        BY <3>1, <4>1, <4>2
    <3>3. cursor = first /\ None \notin Segment
      BY <3>2, SegmentAssumption DEF Init, None
    <3> QED
      BY <1>1, <3>1, <3>3
  <2> QED
    BY <1>1, <2>1 DEF Present
<1>4. Judgements
  BY <1>1 DEF Judgements
<1>5. Names
  BY <1>1 DEF Names
<1>6. Fetching
  BY <1>1 DEF Fetching, Loose
<1>7. Ready /\ Seen
  BY <1>1 DEF Ready, Seen
<1> QED
  BY <1>2, <1>3, <1>4, <1>5, <1>6, <1>7 DEF WholeInv

\* No step writes to the volume.
LEMMA DiskStays == [Next]_vars => disk' = disk
<1> SUFFICES ASSUME [Next]_vars PROVE disk' = disk
  OBVIOUS
<1>1. ASSUME NEW s \in Segment, WalkRecord(s) PROVE disk' = disk
  BY <1>1 DEF WalkRecord
<1> QED
  BY <1>1 DEF Next, Step, Ended, vars, EnumRecord, EnumFails, EnumEnds, SkipRecord, NothingAdded, MakeSpace,
              RefuseRecord, AddRecord, LookAtFetched, CheckRecord, FetchRecord, FetchFails, FetchEnds, UpdateRecord, UseFreed, CallRecord,
              CallNothing, WalkEnds

\* Every step keeps WholeInv.
LEMMA StepWhole == ASSUME VolumesSound, Sane, WholeInv, [Next]_vars PROVE WholeInv'
<1>1. SUFFICES ASSUME Signed PROVE Parts'
  BY DiskStays, DiskSame DEF WholeInv, Parts
<1>2. SoundWalk
  BY <1>1 DEF SoundWalk, WholeInv
<1>3. CASE AddRecord
  <2>1. OtherTypes'
    BY TypesStep DEF Sane
  <2>2. adding \in Segment /\ AddGives(adding)
    BY <1>2, <1>3, AddEffects DEF SoundWalk, Sane
  <2>3. NamesOf(names)
    BY <1>2, SoundFacts
  <2>4. NamesOf(names')
    BY <2>1, <2>2, <2>3 DEF NamesOf, OtherTypes, AddGives
  <2> QED
    BY <1>2, <1>3, <2>4, AddStep
<1>4. CASE RefuseRecord
  BY <1>2, <1>4, RefuseStep
<1>5. CASE LookAtFetched
  BY <1>2, <1>5, LookStep
<1>6. CASE CheckRecord
  BY <1>2, <1>6, CheckStep
<1>7. CASE UpdateRecord
  BY <1>2, <1>7, UpdateStep
<1>8. CASE CallRecord
  BY <1>2, <1>8, CallStep
<1>9. ASSUME NEW s \in Segment, WalkRecord(s) PROVE Parts'
  BY <1>2, <1>9, WalkStep
<1>10. CASE EnumRecord \/ EnumEnds \/ SkipRecord \/ MakeSpace \/ FetchRecord \/ FetchEnds \/ UseFreed \/ CallNothing
            \/ WalkEnds \/ UNCHANGED vars
  BY <1>2, <1>10, QuietSteps
<1>11. CASE EnumFails \/ FetchFails
  BY <1>2, <1>11, LosingSteps
<1> QED
  BY <1>3, <1>4, <1>5, <1>6, <1>7, <1>8, <1>9, <1>10, <1>11 DEF Next, Step, Ended

\* If attribute lists are complete and directories form a forest, a file is called back with all that
\* its readable segments hold, those aside that a failed read lost, and with its path as far as what
\* was read of the volume has one: whatever the order of its segments and of its directories in the
\* table, whatever was freed to make space, and whichever reads fail, at whatever time.
THEOREM WalkCallsWhole == ASSUME VolumesSound PROVE Spec => []CalledWhole
<1>1. Sane /\ WholeInv /\ [Next]_vars => WholeInv'
  BY StepWhole
<1>2. WholeInv => CalledWhole
  BY DEF WholeInv, Signed, Seen, Hopeless, Path, CalledWhole
<1>3. Spec => []Sane
  BY TypesInvariant DEF Sane
<1> QED
  BY <1>1, <1>2, <1>3, InitWhole, PTL DEF Spec
=============================================================================
