--------------------------- MODULE GetThisProofs ----------------------------
(***************************************************************************)
(* Proofs about the search for files and the samples made of the matches:  *)
(* the six invariants of GetThis, for every catalog of terms, every volume *)
(* and every limit.  First what the comparison of a term with a record     *)
(* finds, which is a lemma about the operators of FileFind; then the       *)
(* inductive invariant of the search, and what is found, what is not       *)
(* missed and what is excluded; then the samples, and the sums of their    *)
(* sizes.                                                                  *)
(***************************************************************************)
EXTENDS GetThis, FiniteSetTheorems, SequenceTheorems, WellFoundedInduction, TLAPS

-----------------------------------------------------------------------------
(***************************************************************************)
(* Numbers: induction, the least of a set, and a set in its order.         *)
(***************************************************************************)
LEMMA SetInduction ==
  ASSUME NEW n \in Nat, NEW T, 0 \in T,
         \A k \in 0..n - 1 : k \in T => k + 1 \in T
  PROVE  n \in T
<1> SUFFICES ASSUME n \notin T PROVE FALSE
  OBVIOUS
<1> DEFINE f == [k \in 0..n |-> IF k \in T THEN k + 1 ELSE k]
<1>1. f \in [0..n -> 1..n]
  <2>1. \A k \in 0..n : (IF k \in T THEN k + 1 ELSE k) \in 1..n
    OBVIOUS
  <2> QED
    BY <2>1
<1>2. \A k, j \in 0..n : k # j => f[k] # f[j]
  OBVIOUS
<1> HIDE DEF f
<1>3. /\ IsFiniteSet(0..n) /\ Cardinality(0..n) = n + 1
      /\ IsFiniteSet(1..n) /\ Cardinality(1..n) = n
  <2>1. IsFiniteSet(0..n) /\ Cardinality(0..n) = IF 0 > n THEN 0 ELSE n - 0 + 1
    BY FS_Interval
  <2>2. IsFiniteSet(1..n) /\ Cardinality(1..n) = IF 1 > n THEN 0 ELSE n - 1 + 1
    BY FS_Interval
  <2> QED
    BY <2>1, <2>2
<1>4. Cardinality(1..n) < Cardinality(0..n)
  BY <1>3
<1>5. \E k, j \in 0..n : k # j /\ f[k] = f[j]
  BY <1>1, <1>3, <1>4, FS_PigeonHole
<1> QED
  BY <1>2, <1>5

\* A set of numbers has a least one.
LEMMA Smallest ==
  ASSUME NEW S \in SUBSET Nat, S # {}
  PROVE  \E n \in S : \A k \in S : n <= k
<1> SUFFICES ASSUME \A n \in S : \E k \in S : k < n PROVE FALSE
  OBVIOUS
<1>1. PICK m \in S : TRUE
  OBVIOUS
<1> DEFINE T == {k \in 0..m : \A j \in S : k <= j}
<1>2. 0 \in T /\ \A k \in 0..m - 1 : k \in T => k + 1 \in T
  OBVIOUS
<1> HIDE DEF T
<1>3. m \in T
  BY <1>2, SetInduction
<1> QED
  BY <1>3 DEF T

Rising(s, S) ==
  s \in [1 .. Cardinality(S) -> S] /\ \A j, k \in 1 .. Cardinality(S) : j < k => s[j] < s[k]

\* The members of a set of numbers can be had in their order.
LEMMA RisingExists ==
  ASSUME NEW n \in Nat, NEW S \in SUBSET (1 .. n)
  PROVE  IsFiniteSet(S) /\ \E s : Rising(s, S)
<1> DEFINE part(m) == S \cap 1 .. m
           T == {m \in 0 .. n : IsFiniteSet(part(m)) /\ \E s : Rising(s, part(m))}
<1>1. 0 \in T
  <2>1. part(0) = {} /\ IsFiniteSet({}) /\ Cardinality({}) = 0
    BY FS_EmptySet
  <2>2. Rising([j \in {} |-> 0], {})
    BY <2>1 DEF Rising
  <2> QED
    BY <2>1, <2>2
<1>2. ASSUME NEW m \in 0 .. n - 1, m \in T PROVE m + 1 \in T
  <2> DEFINE c == Cardinality(part(m))
  <2>1. IsFiniteSet(part(m)) /\ c \in Nat
    BY <1>2, FS_CardinalityType
  <2>2. PICK s : Rising(s, part(m))
    BY <1>2
  <2>3. CASE m + 1 \in S
    <3> DEFINE q == [j \in 1 .. c + 1 |-> IF j = c + 1 THEN m + 1 ELSE s[j]]
    <3>1. part(m + 1) = part(m) \cup {m + 1} /\ m + 1 \notin part(m)
      BY <2>3
    <3>2. IsFiniteSet(part(m + 1)) /\ Cardinality(part(m + 1)) = c + 1
      BY <3>1, <2>1, FS_AddElement
    <3>3. \A j \in 1 .. c : s[j] \in part(m) /\ s[j] \in Nat /\ s[j] < m + 1
      <4> HIDE DEF c
      <4>1. \A j \in 1 .. c : s[j] \in part(m)
        BY <2>2 DEF Rising, c
      <4> QED
        BY <4>1
    <3>4. q \in [1 .. c + 1 -> part(m + 1)]
      <4> HIDE DEF c, part
      <4> QED
        BY <2>1, <3>1, <3>3
    <3>5. \A j, k \in 1 .. c + 1 : j < k => q[j] < q[k]
      <4>1. \A j, k \in 1 .. c : j < k => s[j] < s[k]
        BY <2>2 DEF Rising
      <4> HIDE DEF c, part
      <4> QED
        BY <4>1, <3>3, <2>1
    <3>7. Rising(q, part(m + 1))
      <4> HIDE DEF q, c, part
      <4> QED
        BY <3>2, <3>4, <3>5 DEF Rising
    <3>8. m + 1 \in 0 .. n
      OBVIOUS
    <3> HIDE DEF q, c, part
    <3> QED
      BY <3>2, <3>7, <3>8
  <2>4. CASE m + 1 \notin S
    <3>1. part(m + 1) = part(m)
      BY <2>4
    <3>2. m + 1 \in 0 .. n
      OBVIOUS
    <3> HIDE DEF c, part
    <3> QED
      BY <3>1, <3>2, <2>1, <2>2
  <2> QED
    BY <2>3, <2>4
<1> HIDE DEF T
<1>3. n \in T
  BY <1>1, <1>2, SetInduction
<1>4. part(n) = S
  OBVIOUS
<1> QED
  BY <1>3, <1>4 DEF T

LEMMA InOrderLists ==
  ASSUME NEW n \in Nat, NEW S \in SUBSET (1 .. n)
  PROVE  InOrder(S) \in Seq(S) /\ Range(InOrder(S)) = S
<1> DEFINE c == Cardinality(S)
           q == InOrder(S)
<1>1. PICK s : Rising(s, S)
  BY RisingExists
<1>2. IsFiniteSet(S) /\ c \in Nat
  BY RisingExists, FS_CardinalityType
<1>3. Rising(q, S)
  BY <1>1 DEF InOrder, Rising
<1>4. q \in Seq(S)
  BY <1>2, <1>3 DEF Rising
<1>5. DOMAIN q = 1 .. c
  BY <1>3 DEF Rising
<1>6. \A j, k \in 1 .. c : j # k => q[j] # q[k]
  <2>1. \A j \in 1 .. c : q[j] \in Nat
    <3>1. \A j \in 1 .. c : q[j] \in S
      BY <1>3 DEF Rising
    <3>2. \A i \in S : i \in Nat
      OBVIOUS
    <3> HIDE DEF q, c
    <3> QED
      BY <3>1, <3>2
  <2>2. \A j, k \in 1 .. c : j < k => q[j] < q[k]
    BY <1>3 DEF Rising
  <2> HIDE DEF q, c
  <2> QED
    BY <1>2, <2>1, <2>2
<1>7. ASSUME NEW i \in S, \A j \in 1 .. c : q[j] # i PROVE FALSE
  <2>1. IsFiniteSet(S \ {i}) /\ Cardinality(S \ {i}) = c - 1
    BY <1>2, FS_RemoveElement
  <2>2. IsFiniteSet(1 .. c) /\ Cardinality(1 .. c) = c
    BY <1>2, FS_Interval
  <2>3. q \in [1 .. c -> S \ {i}]
    BY <1>3, <1>7 DEF Rising
  <2> HIDE DEF q, c
  <2>4. \E j, k \in 1 .. c : j # k /\ q[j] = q[k]
    BY <2>1, <2>2, <2>3, <1>2, FS_PigeonHole
  <2> QED
    BY <2>4, <1>6
<1>8. {q[j] : j \in 1 .. c} = S
  <2>1. \A j \in 1 .. c : q[j] \in S
    BY <1>3 DEF Rising
  <2> HIDE DEF q, c
  <2> QED
    BY <2>1, <1>7
<1> QED
  BY <1>4, <1>5, <1>8 DEF Range

-----------------------------------------------------------------------------
(***************************************************************************)
(* The terms: of one whose criteria are literal, what is required is what  *)
(* it was configured with, none of it generic.                             *)
(***************************************************************************)
LEMMA WantedRequired ==
  ASSUME NEW t \in Terms
  PROVE  /\ Wanted(t) \subseteq Specific(t) /\ Wanted(t) \subseteq Criteria \ Generic
         /\ Specific(t) \subseteq Criteria /\ Specific(t) \ Generic \subseteq Wanted(t)
         /\ Literal(t) => Specific(t) = Wanted(t)
<1> DEFINE R == Catalog[t].required
           split == Catalog[t].split
<1>1. /\ R \subseteq Criteria /\ (R \cap Generic = {} => split = {})
      /\ split \subseteq (NameMask \ Generic) \cup AdsNames \cup EaNames
  BY CatalogAssumption DEF TermOK
<1>2. AdsNames \cup EaNames \subseteq Criteria \ Generic /\ NameMask \subseteq Criteria
  BY DEF AdsNames, EaNames, NameMask, Criteria, Generic, DataNameOrSizeMask, AttributeMask
<1>3. "NAME" \in Generic /\ {"ADS", "EA"} \subseteq Generic
      /\ Generic = {"NAME", "ADS", "EA"}
  BY DEF Generic
<1> HIDE DEF R, split
<1>4. Wanted(t) = (R \ Generic) \cup split
  BY DEF Wanted, R, split
<1>5. Specific(t) = IF "NAME" \in R THEN (R \ {"NAME"}) \cup split
                    ELSE (R \ {"ADS", "EA"}) \cup (IF R \cap {"ADS", "EA"} # {} THEN split ELSE {})
  BY DEF Specific, R, split
<1>6. Literal(t) /\ "NAME" \in R => R \cap Generic = {"NAME"}
  BY DEF Literal, R
<1>7. split \subseteq Criteria \ Generic
  BY <1>1, <1>2
<1>8. CASE "NAME" \in R
  BY <1>1, <1>3, <1>4, <1>5, <1>6, <1>7, <1>8
<1>9. CASE "NAME" \notin R
  <2>1. CASE R \cap {"ADS", "EA"} = {}
    BY <1>1, <1>3, <1>4, <1>5, <1>7, <1>9, <2>1
  <2>2. CASE R \cap {"ADS", "EA"} # {}
    BY <1>1, <1>3, <1>4, <1>5, <1>7, <1>9, <2>2
  <2> QED
    BY <2>1, <2>2
<1> QED
  BY <1>8, <1>9

\* Each criterion that is not generic is of one group.
LEMMA Groupings ==
  ASSUME NEW c \in Criteria \ Generic
  PROVE  /\ c \in NameMask \cup PathMask \cup SizeMask \cup AdsNames \cup AttrMask \cup EaNames \cup DataMask
         /\ c \in NameMask => c \notin PathMask
         /\ c \in NameMask \cup PathMask =>
              c \notin DataNameOrSizeMask \cup AttributeMask \cup DataMask
         /\ c \in SizeMask => c \notin AdsNames
         /\ c \in DataNameOrSizeMask <=> c \in SizeMask \cup AdsNames
         /\ c \in DataNameOrSizeMask => c \notin AttributeMask \cup DataMask
         /\ c \in AttributeMask <=> c \in AttrMask \cup EaNames
         /\ c \in AttributeMask => c \notin DataMask
         /\ c \in EaNames => c \notin AttrMask
BY SMTT(60) DEF NameMask, PathMask, SizeMask, AdsNames, AttrMask, EaNames, DataMask, HashMask, Criteria,
     Generic, DataNameOrSizeMask, AttributeMask

-----------------------------------------------------------------------------
(***************************************************************************)
(* What the comparison of a term with a record adds to an empty match.     *)
(***************************************************************************)
Here == volume \in Volumes /\ at \in 1 .. Len(volume)
DataAt == {i \in DOMAIN Record.attrs : IsData(Record.attrs[i])}
ByName(t) == Named(t, NameMask, NamePasses)
ByPath(t) == Named(t, PathMask, PathPasses)
ByStream(t) ==
  IF HasNamedData(Record) \/ ~Depends(t, AdsNames)
  THEN Held(t, DataNameOrSizeMask, StreamPasses, DataAt) ELSE {}
ByAttribute(t) == Held(t, AttributeMask, AttributePasses, DOMAIN Record.attrs)
ByData(t) == Held(t, DataMask, DataPasses, DataAt)

\* Every group of criteria the term has found something.
LookOK(t) ==
  /\ Depends(t, NameMask) => ByName(t) # {}
  /\ Depends(t, PathMask) => ByPath(t) # {}
  /\ Depends(t, DataNameOrSizeMask) => ByStream(t) # {}
  /\ \E n \in Range(Record.names) : n.here
  /\ Depends(t, AttributeMask) => ByAttribute(t) # {}
  /\ Depends(t, DataMask) => ByData(t) # {}

Opened(S) == {i \in DOMAIN Record.attrs : i \in S /\ Record.attrs[i].opens}
LookNames(t) == IF ByName(t) \cup ByPath(t) = {} THEN {DefaultName} ELSE ByName(t) \cup ByPath(t)
LookAttrs(t) ==
  LET S == Opened(ByStream(t) \cup ByAttribute(t) \cup ByData(t))
  IN IF S = {} THEN Opened(DefaultStream) ELSE S

LEMMA ListDomain ==
  ASSUME NEW S, NEW s \in Seq(S)
  PROVE  Len(s) \in Nat /\ DOMAIN s = 1 .. Len(s) /\ \A i \in DOMAIN s : s[i] \in S
OBVIOUS

\* The records of a volume.
LEMMA RecordIn ==
  ASSUME NEW v \in Volumes, NEW k \in 1 .. Len(v)
  PROVE  /\ v[k].names \in Seq(Range(v[k].names)) /\ v[k].attrs \in Seq(Range(v[k].attrs))
         /\ \A n \in Range(v[k].names) : n.here \in BOOLEAN
         /\ v[k].default \in DOMAIN v[k].names
         /\ \A a \in Range(v[k].attrs) : a.size \in Nat /\ a.opens \in BOOLEAN
         /\ \A i \in DOMAIN v[k].names : v[k].names[i] \in Range(v[k].names)
         /\ \A i \in DOMAIN v[k].attrs : v[k].attrs[i] \in Range(v[k].attrs)
         /\ Len(v[k].attrs) \in Nat /\ DOMAIN v[k].attrs = 1 .. Len(v[k].attrs)
         /\ Len(v[k].names) \in Nat /\ DOMAIN v[k].names = 1 .. Len(v[k].names)
<1>1. v \in Seq(Range(v)) /\ \A r \in Range(v) : RecordOK(r)
  BY VolumesAssumption
<1>2. v[k] \in Range(v)
  <2>1. DOMAIN v = 1 .. Len(v)
    BY <1>1
  <2> QED
    BY <2>1 DEF Range
<1>3. RecordOK(v[k])
  BY <1>1, <1>2
<1> DEFINE ns == v[k].names
           as == v[k].attrs
<1>4. /\ ns \in Seq(Range(ns)) /\ as \in Seq(Range(as))
      /\ \A n \in Range(ns) : n.here \in BOOLEAN
      /\ v[k].default \in 1 .. Len(ns)
      /\ \A a \in Range(as) : a.size \in Nat /\ a.opens \in BOOLEAN
  BY <1>3 DEF RecordOK
<1> HIDE DEF ns, as
<1>5. /\ Len(as) \in Nat /\ DOMAIN as = 1 .. Len(as)
      /\ Len(ns) \in Nat /\ DOMAIN ns = 1 .. Len(ns)
  BY <1>4, ListDomain
<1>6. (\A i \in DOMAIN ns : ns[i] \in Range(ns)) /\ \A i \in DOMAIN as : as[i] \in Range(as)
  BY DEF Range
<1> QED
  BY <1>4, <1>5, <1>6 DEF ns, as

LEMMA RecordHere ==
  ASSUME Here
  PROVE  /\ Record.names \in Seq(Range(Record.names)) /\ Record.attrs \in Seq(Range(Record.attrs))
         /\ \A n \in Range(Record.names) : n.here \in BOOLEAN
         /\ Record.default \in DOMAIN Record.names
         /\ \A a \in Range(Record.attrs) : a.size \in Nat /\ a.opens \in BOOLEAN
         /\ \A i \in DOMAIN Record.names : Record.names[i] \in Range(Record.names)
         /\ \A i \in DOMAIN Record.attrs : Record.attrs[i] \in Range(Record.attrs)
         /\ Len(Record.attrs) \in Nat /\ DOMAIN Record.attrs = 1 .. Len(Record.attrs)
         /\ Len(Record.names) \in Nat /\ DOMAIN Record.names = 1 .. Len(Record.names)
BY RecordIn DEF Here, Record

LEMMA AttributesAdded ==
  ASSUME Here, NEW attrs \in Seq(DOMAIN Record.attrs), NEW S
  PROVE  /\ AddAttributes(attrs, S) \in Seq(DOMAIN Record.attrs)
         /\ Range(AddAttributes(attrs, S)) = Range(attrs) \cup Opened(S \ Range(attrs))
<1> DEFINE A == DOMAIN Record.attrs
           T == Opened(S \ Range(attrs))
<1>1. Len(Record.attrs) \in Nat /\ A = 1 .. Len(Record.attrs)
  BY RecordHere
<1>2. T \in SUBSET A
  BY DEF Opened
<1>3. AddAttributes(attrs, S) = attrs \o InOrder(T)
  BY DEF AddAttributes, Opened
<1> HIDE DEF A, T
<1>4. InOrder(T) \in Seq(T) /\ Range(InOrder(T)) = T
  BY <1>1, <1>2, InOrderLists
<1>5. InOrder(T) \in Seq(A)
  BY <1>2, <1>4
<1>6. attrs \in Seq(A)
  BY DEF A
<1>7. Range(attrs \o InOrder(T)) = Range(attrs) \cup T
  BY <1>4, <1>5, <1>6, RangeConcatenation
<1>8. attrs \o InOrder(T) \in Seq(A)
  BY <1>5, <1>6
<1> QED
  BY <1>3, <1>7, <1>8 DEF A, T

LEMMA LookedBlank ==
  ASSUME Here, NEW t \in Terms
  PROVE  /\ Looked(t, Blank).ok <=> LookOK(t)
         /\ LookOK(t) => /\ Looked(t, Blank).match.term = t
                         /\ Looked(t, Blank).match.names = LookNames(t)
                         /\ Looked(t, Blank).match.attrs \in Seq(DOMAIN Record.attrs)
                         /\ Range(Looked(t, Blank).match.attrs) = LookAttrs(t)
<1> DEFINE A == DOMAIN Record.attrs
           streams == AddAttributes(<<>>, ByStream(t))
           attributes == AddAttributes(streams, ByAttribute(t))
           attrs == AddAttributes(attributes, ByData(t))
           m == Looked(t, Blank).match
<1>1. CASE ~LookOK(t)
  <2>1. ~Looked(t, Blank).ok
    BY <1>1 DEF Looked, LookOK, ByName, ByPath, ByStream, ByAttribute, ByData, DataAt
  <2> QED
    BY <1>1, <2>1
<1>2. CASE LookOK(t)
  <2>1. Looked(t, Blank) =
          [ok |-> TRUE,
           match |-> [term |-> t,
                      names |-> LookNames(t),
                      attrs |-> IF attrs = <<>> THEN AddAttributes(<<>>, DefaultStream) ELSE attrs]]
    BY <1>2 DEF Looked, LookOK, LookNames, Blank, ByName, ByPath, ByStream, ByAttribute, ByData, DataAt
  <2>2. <<>> \in Seq(A) /\ Range(<<>>) = {}
    BY DEF Range
  <2>3. streams \in Seq(A) /\ Range(streams) = Opened(ByStream(t))
    <3>1. ByStream(t) \ {} = ByStream(t)
      OBVIOUS
    <3>2. streams \in Seq(A) /\ Range(streams) = Range(<<>>) \cup Opened(ByStream(t) \ Range(<<>>))
      BY <2>2, AttributesAdded
    <3> HIDE DEF streams
    <3> QED
      BY <2>2, <3>1, <3>2
  <2> HIDE DEF streams
  <2>4. attributes \in Seq(A) /\ Range(attributes) = Opened(ByStream(t) \cup ByAttribute(t))
    <3>1. attributes \in Seq(A) /\ Range(attributes) = Range(streams) \cup Opened(ByAttribute(t) \ Range(streams))
      BY <2>3, AttributesAdded
    <3> HIDE DEF attributes
    <3> QED
      BY <2>3, <3>1 DEF Opened
  <2> HIDE DEF attributes
  <2>5. attrs \in Seq(A) /\ Range(attrs) = Opened(ByStream(t) \cup ByAttribute(t) \cup ByData(t))
    <3>1. attrs \in Seq(A) /\ Range(attrs) = Range(attributes) \cup Opened(ByData(t) \ Range(attributes))
      BY <2>4, AttributesAdded
    <3> HIDE DEF attrs
    <3> QED
      BY <2>4, <3>1 DEF Opened
  <2> HIDE DEF attrs
  <2>6. AddAttributes(<<>>, DefaultStream) \in Seq(A)
        /\ Range(AddAttributes(<<>>, DefaultStream)) = Opened(DefaultStream)
    <3>1. /\ AddAttributes(<<>>, DefaultStream) \in Seq(A)
          /\ Range(AddAttributes(<<>>, DefaultStream)) = Range(<<>>) \cup Opened(DefaultStream \ Range(<<>>))
      BY <2>2, AttributesAdded
    <3>2. Opened(DefaultStream \ {}) = Opened(DefaultStream)
      BY DEF Opened
    <3> QED
      BY <2>2, <3>1, <3>2
  <2>7. attrs = <<>> <=> Range(attrs) = {}
    BY <2>5 DEF Range
  <2> DEFINE default == AddAttributes(<<>>, DefaultStream)
             all == ByStream(t) \cup ByAttribute(t) \cup ByData(t)
             given == IF attrs = <<>> THEN default ELSE attrs
  <2>8. given \in Seq(A) /\ Range(given) = LookAttrs(t)
    <3>1. LookAttrs(t) = IF Opened(all) = {} THEN Opened(DefaultStream) ELSE Opened(all)
      BY DEF LookAttrs
    <3> HIDE DEF default, all
    <3> QED
      BY <2>5, <2>6, <2>7, <3>1 DEF default, all
  <2> HIDE DEF given, A
  <2>9. Looked(t, Blank) = [ok |-> TRUE, match |-> [term |-> t, names |-> LookNames(t), attrs |-> given]]
    BY <2>1 DEF given
  <2> QED
    BY <1>2, <2>8, <2>9 DEF A
<1> QED
  BY <1>1, <1>2

-----------------------------------------------------------------------------
(***************************************************************************)
(* A criterion that is literal is compared as it is meant.                 *)
(***************************************************************************)
LEMMA MeetsByGroup ==
  ASSUME NEW t \in Terms, NEW c \in Wanted(t), NEW a
  PROVE  /\ c \in SizeMask => (Meets(t, c, a) <=> IsData(a) /\ a.size \in Accepts(t, c))
         /\ c \in AdsNames => (Meets(t, c, a) <=> IsData(a) /\ a.name \in Accepts(t, c))
         /\ c \in DataMask => (Meets(t, c, a) <=> IsData(a) /\ a.content \in Accepts(t, c))
         /\ c \in AttributeMask => (Meets(t, c, a) <=> AttrPasses(t, c, a))
<1>1. c \in Criteria \ Generic
  BY WantedRequired
<1>2. /\ c \in SizeMask => c \notin AdsNames /\ c \notin DataMask /\ c \notin AttributeMask
      /\ c \in AdsNames => c \notin DataMask /\ c \notin AttributeMask
      /\ c \in DataMask => c \notin AttributeMask
  BY <1>1, Groupings
<1> QED
  BY <1>2 DEF Meets

LEMMA NameCriteria ==
  ASSUME NEW t \in Terms, required[t] = Wanted(t), NEW n
  PROVE  /\ Depends(t, NameMask) =>
              (NamePasses(t, n) <=> \A c \in NameMask \cap Wanted(t) : NameMeets(t, c, n))
         /\ Depends(t, PathMask) =>
              (PathPasses(t, n) <=> n.path \notin ShortPaths /\ \A c \in PathMask \cap Wanted(t) : NameMeets(t, c, n))
<1>1. \A c \in PathMask \cap Wanted(t) : c \notin NameMask
  BY WantedRequired, Groupings
<1> QED
  BY <1>1 DEF NamePasses, PathPasses, FullPathPasses, Passes, Depends, NameMeets

LEMMA StreamCriteria ==
  ASSUME NEW t \in Terms, required[t] = Wanted(t), Literal(t), NEW a, IsData(a)
  PROVE  StreamPasses(t, a) <=> \A c \in DataNameOrSizeMask \cap Wanted(t) : Meets(t, c, a)
<1> DEFINE W == Wanted(t)
<1>1. \A c \in DataNameOrSizeMask \cap W : c \in SizeMask \/ (c \notin SizeMask /\ c = "ADS_MATCH")
  <2>1. \A c \in DataNameOrSizeMask \cap W : c \in SizeMask \cup AdsNames
    BY WantedRequired, Groupings
  <2>2. W \cap {"ADS_EXACT", "ADS_REGEX", "EA_EXACT"} = {}
    BY DEF Literal
  <2>3. AdsNames \ {"ADS_EXACT", "ADS_REGEX"} = {"ADS_MATCH"} /\ "ADS_MATCH" \notin SizeMask
    BY DEF AdsNames, SizeMask
  <2> HIDE DEF W
  <2> QED
    BY <2>1, <2>2, <2>3
<1>2. "ADS_MATCH" \in AdsNames
  BY DEF AdsNames
<1>3. \A c \in SizeMask \cap W : SizePasses(t, c, a.size) <=> a.size \in Accepts(t, c)
  <2> SUFFICES ASSUME NEW c \in SizeMask \cap W
               PROVE  /\ "SIZE_EQ" \in required[t] => c = "SIZE_EQ"
                      /\ c = "SIZE_GE" => "SIZE_GT" \notin required[t]
                      /\ c = "SIZE_LE" => "SIZE_LT" \notin required[t]
    BY DEF SizePasses
  <2>1. \A sizes \in OneSize : ~(sizes \subseteq W)
    BY DEF Literal
  <2>2. {"SIZE_GT", "SIZE_GE"} \in OneSize /\ {"SIZE_LT", "SIZE_LE"} \in OneSize
    BY DEF OneSize
  <2>3. c # "SIZE_EQ" => {"SIZE_EQ", c} \in OneSize
    BY DEF OneSize
  <2> QED
    BY <2>1, <2>2, <2>3
<1>4. \A c \in DataNameOrSizeMask \cap W :
        Meets(t, c, a) <=> IF c \in SizeMask THEN SizePasses(t, c, a.size) ELSE AdsPasses(t, c, a.name)
  <2> SUFFICES ASSUME NEW c \in DataNameOrSizeMask \cap W
               PROVE  Meets(t, c, a) <=> IF c \in SizeMask THEN SizePasses(t, c, a.size) ELSE AdsPasses(t, c, a.name)
    OBVIOUS
  <2>1. CASE c \in SizeMask
    BY <2>1, <1>3, MeetsByGroup
  <2>2. CASE c \notin SizeMask
    <3>1. c = "ADS_MATCH"
      BY <1>1, <2>2
    <3>2. AdsPasses(t, c, a.name) <=> a.name \in Accepts(t, c)
      BY <3>1 DEF AdsPasses
    <3>3. Meets(t, c, a) <=> a.name \in Accepts(t, c)
      BY <3>1, <1>2, MeetsByGroup
    <3> QED
      BY <2>2, <3>2, <3>3
  <2> QED
    BY <2>1, <2>2
<1> QED
  BY <1>4 DEF StreamPasses

LEMMA AttributeCriteria ==
  ASSUME NEW t \in Terms, required[t] = Wanted(t), Literal(t), NEW a
  PROVE  Depends(t, AttributeMask) =>
           (AttributePasses(t, a) <=> \A c \in AttributeMask \cap Wanted(t) : Meets(t, c, a))
<1>1. required[t] \cap (AttrMask \cup EaNames) = AttributeMask \cap Wanted(t)
  BY WantedRequired, Groupings
<1>2. "EA_EXACT" \notin Wanted(t)
  BY DEF Literal
<1>3. \A c \in AttributeMask \cap Wanted(t) : Meets(t, c, a) <=> AttrPasses(t, c, a)
  BY MeetsByGroup
<1> QED
  BY <1>1, <1>2, <1>3 DEF AttributePasses, Depends

LEMMA DataCriteria ==
  ASSUME NEW t \in Terms, required[t] = Wanted(t), required[t] \cap HashMask \subseteq needed, NEW a, IsData(a)
  PROVE  DataPasses(t, a) <=> a.opens /\ \A c \in DataMask \cap Wanted(t) : Meets(t, c, a)
<1>1. \A c \in DataMask \cap Wanted(t) : Meets(t, c, a) <=> a.content \in Accepts(t, c)
  BY MeetsByGroup
<1> QED
  BY <1>1 DEF DataPasses, Passes

-----------------------------------------------------------------------------
(***************************************************************************)
(* A match has what its term asks for, and a record that has it matches.   *)
(***************************************************************************)
\* The default name is one that is in location.
LEMMA DefaultNameHere ==
  ASSUME Here, \E n \in Range(Record.names) : n.here
  PROVE  DefaultName \in DOMAIN Record.names /\ Record.names[DefaultName].here
<1> DEFINE ns == Record.names
           H == {i \in DOMAIN ns : ns[i].here}
<1>1. CASE ns[Record.default].here
  BY <1>1, RecordHere DEF DefaultName
<1>2. CASE ~ns[Record.default].here
  <2>1. H \in SUBSET Nat /\ H # {}
    <3>1. DOMAIN ns \subseteq Nat
      BY RecordHere
    <3>2. \E i \in DOMAIN ns : ns[i].here
      BY DEF Range
    <3> QED
      BY <3>1, <3>2
  <2>2. PICK i \in H : \A j \in H : i <= j
    <3> HIDE DEF H
    <3> QED
      BY <2>1, Smallest
  <2>3. \A j \in 1 .. i - 1 : j \in DOMAIN ns /\ j < i
    <3>1. DOMAIN ns = 1 .. Len(ns) /\ Len(ns) \in Nat /\ i \in DOMAIN ns
      BY RecordHere
    <3> HIDE DEF ns
    <3> QED
      BY <3>1
  <2>4. \A j \in 1 .. i - 1 : ~ns[j].here
    <3> SUFFICES ASSUME NEW j \in 1 .. i - 1, ns[j].here PROVE FALSE
      OBVIOUS
    <3>1. j \in H /\ j < i
      BY <2>3
    <3>2. i \in Nat /\ j \in Nat
      BY <2>1, <3>1
    <3> HIDE DEF H
    <3> QED
      BY <2>2, <3>1, <3>2
  <2>5. \E k \in DOMAIN ns : ns[k].here /\ \A j \in 1 .. k - 1 : ~ns[j].here
    BY <2>4
  <2> HIDE DEF ns
  <2>6. DefaultName = CHOOSE k \in DOMAIN ns : ns[k].here /\ \A j \in 1 .. k - 1 : ~ns[j].here
    BY <1>2 DEF DefaultName, ns
  <2> QED
    BY <2>5, <2>6 DEF ns
<1> QED
  BY <1>1, <1>2

\* What is found by each group of criteria.
LEMMA FoundByGroup ==
  ASSUME NEW t
  PROVE  /\ \A i \in ByName(t) : Depends(t, NameMask) /\ i \in DOMAIN Record.names /\ NamePasses(t, Record.names[i])
         /\ \A i \in ByPath(t) : Depends(t, PathMask) /\ i \in DOMAIN Record.names /\ PathPasses(t, Record.names[i])
         /\ \A i \in ByStream(t) : /\ Depends(t, DataNameOrSizeMask) /\ i \in DOMAIN Record.attrs
                                   /\ IsData(Record.attrs[i]) /\ StreamPasses(t, Record.attrs[i])
         /\ \A i \in ByAttribute(t) : /\ Depends(t, AttributeMask) /\ i \in DOMAIN Record.attrs
                                      /\ AttributePasses(t, Record.attrs[i])
         /\ \A i \in ByData(t) : /\ Depends(t, DataMask) /\ i \in DOMAIN Record.attrs
                                 /\ IsData(Record.attrs[i]) /\ DataPasses(t, Record.attrs[i])
BY DEF ByName, ByPath, ByStream, ByAttribute, ByData, Named, Held, DataAt

LEMMA NamesKnown ==
  ASSUME Here, NEW t, LookOK(t)
  PROVE  LookNames(t) # {} /\ \A i \in LookNames(t) : i \in DOMAIN Record.names /\ Record.names[i].here
<1>1. DefaultName \in DOMAIN Record.names /\ Record.names[DefaultName].here
  BY DefaultNameHere DEF LookOK
<1>2. \A i \in ByName(t) \cup ByPath(t) : i \in DOMAIN Record.names /\ Record.names[i].here
  BY FoundByGroup DEF NamePasses, PathPasses
<1> QED
  BY <1>1, <1>2 DEF LookNames

\* What FoundSatisfies says of one match.
Satisfied(f) ==
  LET t == f.match.term
      W == Wanted(t)
      names == W \cap (NameMask \cup PathMask)
      others == W \ names
      attrs == AttrsOf(f) \cup Closed(volume[f.record])
  IN Literal(t) =>
     /\ \A c \in W : Met(t, c, NamesOf(f), attrs)
     /\ \A n \in NamesOf(f) : n.here /\ (names # {} => \E c \in names : NameMeets(t, c, n))
     /\ \A a \in AttrsOf(f) :
          \/ \E c \in others : Meets(t, c, a)
          \/ IsData(a) /\ a.name = "" /\ (others = {} \/ Closed(volume[f.record]) # {})

LEMMA LookSatisfies ==
  ASSUME Here, NEW t \in Terms, required[t] = Specific(t), LookOK(t), NEW f,
         f.record = at, f.match = Looked(t, Blank).match, required[t] \cap HashMask \subseteq needed
  PROVE  Satisfied(f)
<1> DEFINE W == Wanted(t)
           names == W \cap (NameMask \cup PathMask)
           others == W \ names
           r == Record
           held == ByStream(t) \cup ByAttribute(t) \cup ByData(t)
           attrs == AttrsOf(f) \cup Closed(r)
<1> SUFFICES ASSUME Literal(t) PROVE Satisfied(f)
  BY LookedBlank DEF Satisfied
<1>1. required[t] = W
  BY WantedRequired
<1>2. /\ f.match.term = t /\ f.match.names = LookNames(t) /\ Range(f.match.attrs) = LookAttrs(t)
  BY LookedBlank
<1>3. NamesOf(f) = {r.names[i] : i \in LookNames(t)} /\ AttrsOf(f) = {r.attrs[i] : i \in LookAttrs(t)}
  BY <1>2 DEF NamesOf, AttrsOf, Record
<1>4. \A i \in held : i \in DOMAIN r.attrs /\ (i \in LookAttrs(t) \/ r.attrs[i] \in Closed(r))
  <2>1. \A i \in held : i \in DOMAIN r.attrs /\ r.attrs[i] \in Range(r.attrs)
    BY FoundByGroup, RecordHere
  <2>2. \A i \in DOMAIN r.attrs : i \in Opened(held) => i \in LookAttrs(t)
    BY DEF LookAttrs
  <2> HIDE DEF held, r
  <2> QED
    BY <2>1, <2>2 DEF Opened, Closed, r
<1>5. /\ \A c \in W \cap DataNameOrSizeMask : \E i \in ByStream(t) : Meets(t, c, r.attrs[i])
      /\ \A i \in ByStream(t) : \E c \in W \cap DataNameOrSizeMask : Meets(t, c, r.attrs[i])
  BY <1>1, FoundByGroup, StreamCriteria DEF LookOK, Depends
<1>6. /\ \A c \in W \cap AttributeMask : \E i \in ByAttribute(t) : Meets(t, c, r.attrs[i])
      /\ \A i \in ByAttribute(t) : \E c \in W \cap AttributeMask : Meets(t, c, r.attrs[i])
  BY <1>1, FoundByGroup, AttributeCriteria DEF LookOK, Depends
<1>7. /\ \A c \in W \cap DataMask : \E i \in ByData(t) : Meets(t, c, r.attrs[i])
      /\ \A i \in ByData(t) : \E c \in W \cap DataMask : Meets(t, c, r.attrs[i])
  BY <1>1, FoundByGroup, DataCriteria DEF LookOK, Depends
<1>8. /\ \A c \in W \cap NameMask : \E i \in ByName(t) : NameMeets(t, c, r.names[i])
      /\ \A i \in ByName(t) : \E c \in W \cap NameMask : NameMeets(t, c, r.names[i])
  BY <1>1, FoundByGroup, NameCriteria DEF LookOK, Depends
<1>9. /\ \A c \in W \cap PathMask : \E i \in ByPath(t) : NameMeets(t, c, r.names[i])
      /\ \A i \in ByPath(t) : \E c \in W \cap PathMask : NameMeets(t, c, r.names[i])
  BY <1>1, FoundByGroup, NameCriteria DEF LookOK, Depends
<1>10. \A c \in W : c \in NameMask \cup PathMask \cup DataNameOrSizeMask \cup AttributeMask \cup DataMask
  BY WantedRequired, Groupings
<1>11. \A c \in W : c \in DataNameOrSizeMask \cup AttributeMask \cup DataMask => c \notin NameMask \cup PathMask
  BY WantedRequired, Groupings
<1>12. \A c \in W : Met(t, c, NamesOf(f), attrs)
  <2> SUFFICES ASSUME NEW c \in W PROVE Met(t, c, NamesOf(f), attrs)
    OBVIOUS
  <2>1. CASE c \in NameMask \cup PathMask
    <3>1. \E i \in ByName(t) \cup ByPath(t) : NameMeets(t, c, r.names[i])
      BY <2>1, <1>8, <1>9
    <3>2. ByName(t) \cup ByPath(t) # {} => LookNames(t) = ByName(t) \cup ByPath(t)
      BY DEF LookNames
    <3>3. \E n \in NamesOf(f) : NameMeets(t, c, n)
      BY <3>1, <3>2, <1>3
    <3> QED
      BY <2>1, <3>3 DEF Met
  <2>2. CASE c \notin NameMask \cup PathMask
    <3>1. \E i \in held : Meets(t, c, r.attrs[i])
      BY <2>2, <1>10, <1>5, <1>6, <1>7
    <3>2. \A i \in held : r.attrs[i] \in attrs
      BY <1>3, <1>4
    <3>3. \E a \in attrs : Meets(t, c, a)
      BY <3>1, <3>2
    <3> QED
      BY <2>2, <3>3 DEF Met
  <2> QED
    BY <2>1, <2>2
<1>13. ASSUME NEW n \in NamesOf(f)
       PROVE  n.here /\ (names # {} => \E c \in names : NameMeets(t, c, n))
  <2>1. n.here
    BY <1>3, NamesKnown
  <2>2. ASSUME names # {} PROVE \E c \in names : NameMeets(t, c, n)
    <3>1. ByName(t) \cup ByPath(t) # {}
      BY <1>8, <1>9, <2>2
    <3>2. PICK i \in ByName(t) \cup ByPath(t) : n = r.names[i]
      BY <3>1, <1>3 DEF LookNames
    <3> QED
      BY <3>2, <1>8, <1>9
  <2> QED
    BY <2>1, <2>2
<1>14. ASSUME NEW a \in AttrsOf(f)
       PROVE  \/ \E c \in others : Meets(t, c, a)
              \/ IsData(a) /\ a.name = "" /\ (others = {} \/ Closed(r) # {})
  <2>1. PICK i \in LookAttrs(t) : a = r.attrs[i]
    BY <1>3
  <2>2. CASE i \in held
    BY <2>1, <2>2, <1>5, <1>6, <1>7, <1>11
  <2>3. CASE i \notin held
    <3>1. Opened(held) = {} /\ i \in Opened(DefaultStream)
      BY <2>1, <2>3 DEF LookAttrs, Opened
    <3>2. IsData(a) /\ a.name = ""
      BY <2>1, <3>1 DEF Opened, DefaultStream
    <3>3. ASSUME others # {} PROVE Closed(r) # {}
      <4>1. PICK c \in others : c \in DataNameOrSizeMask \cup AttributeMask \cup DataMask
        BY <3>3, <1>10
      <4>2. PICK j \in held : Meets(t, c, r.attrs[j])
        BY <4>1, <1>5, <1>6, <1>7
      <4>3. j \notin LookAttrs(t)
        BY <3>1, <4>2, <1>4 DEF LookAttrs, Opened, DefaultStream
      <4> QED
        BY <4>2, <4>3, <1>4
    <3> QED
      BY <3>2, <3>3
  <2> QED
    BY <2>2, <2>3
<1>15. Closed(volume[f.record]) = Closed(r)
  BY DEF Record
<1> HIDE DEF W, names, others, held, attrs, r
<1> QED
  BY <1>2, <1>12, <1>13, <1>14, <1>15 DEF Satisfied, W, names, others, attrs

\* What a term that fits asks of one group.
LEMMA FitsByGroup ==
  ASSUME NEW t \in Terms, required[t] = Wanted(t), NEW names, NEW attrs, Fits(t, names, attrs)
  PROVE  /\ Depends(t, NameMask) => \E n \in names : \A c \in NameMask \cap Wanted(t) : NameMeets(t, c, n)
         /\ Depends(t, PathMask) => \E n \in names : \A c \in PathMask \cap Wanted(t) : NameMeets(t, c, n)
         /\ Depends(t, DataNameOrSizeMask) =>
              \E a \in attrs : \A c \in DataNameOrSizeMask \cap Wanted(t) : Meets(t, c, a)
         /\ Depends(t, AttributeMask) => \E a \in attrs : \A c \in AttributeMask \cap Wanted(t) : Meets(t, c, a)
         /\ Depends(t, DataMask) => \E a \in attrs : \A c \in DataMask \cap Wanted(t) : Meets(t, c, a)
<1>1. "NAME" \in NameMask /\ "NAME" \notin DataNameOrSizeMask \cup AttributeMask \cup DataMask \cup PathMask
  BY DEF NameMask, DataNameOrSizeMask, SizeMask, AttributeMask, AttrMask, DataMask, HashMask, PathMask
<1>2. "PATH_EXACT" \in PathMask /\ "PATH_EXACT" \notin DataNameOrSizeMask \cup AttributeMask \cup DataMask
  BY DEF DataNameOrSizeMask, SizeMask, AttributeMask, AttrMask, DataMask, HashMask, PathMask
<1> QED
  BY <1>1, <1>2 DEF Fits, Groups, Depends

\* A record that a term fits, all of whose names are in location, has all the term looks for.
LEMMA FitsLooks ==
  ASSUME Here, NEW t \in Terms, required[t] = Specific(t), Literal(t), required[t] \cap HashMask \subseteq needed,
         Fits(t, Range(Record.names), {a \in Range(Record.attrs) : a.opens}),
         \A n \in Range(Record.names) : n.here /\ n.path \notin ShortPaths,
         Wanted(t) \cap AdsNames # {} => HasNamedData(Record)
  PROVE  LookOK(t)
<1> DEFINE ns == Range(Record.names)
           open == {a \in Range(Record.attrs) : a.opens}
<1>1. required[t] = Wanted(t)
  BY WantedRequired
<1>2. \A n \in ns : \E i \in DOMAIN Record.names : Record.names[i] = n
  BY DEF Range
<1>3. \A a \in open : a.opens /\ \E i \in DOMAIN Record.attrs : Record.attrs[i] = a
  BY DEF Range
<1>4. Depends(t, NameMask) => ByName(t) # {}
  <2> SUFFICES ASSUME Depends(t, NameMask) PROVE ByName(t) # {}
    OBVIOUS
  <2>1. PICK n \in ns : \A c \in NameMask \cap Wanted(t) : NameMeets(t, c, n)
    BY <1>1, FitsByGroup
  <2>2. NamePasses(t, n)
    BY <1>1, <2>1, NameCriteria
  <2> QED
    BY <1>2, <2>2 DEF ByName, Named
<1>5. Depends(t, PathMask) => ByPath(t) # {}
  <2> SUFFICES ASSUME Depends(t, PathMask) PROVE ByPath(t) # {}
    OBVIOUS
  <2>1. PICK n \in ns : \A c \in PathMask \cap Wanted(t) : NameMeets(t, c, n)
    BY <1>1, FitsByGroup
  <2>2. PathPasses(t, n)
    BY <1>1, <2>1, NameCriteria
  <2> QED
    BY <1>2, <2>2 DEF ByPath, Named
<1>6. Depends(t, DataNameOrSizeMask) => ByStream(t) # {}
  <2> SUFFICES ASSUME Depends(t, DataNameOrSizeMask) PROVE ByStream(t) # {}
    OBVIOUS
  <2>1. PICK a \in open : \A c \in DataNameOrSizeMask \cap Wanted(t) : Meets(t, c, a)
    BY <1>1, FitsByGroup
  <2>2. IsData(a)
    <3>1. PICK c \in DataNameOrSizeMask \cap Wanted(t) : TRUE
      BY <1>1 DEF Depends
    <3>2. c \in SizeMask \cup AdsNames
      BY <3>1, WantedRequired, Groupings
    <3> QED
      BY <2>1, <3>1, <3>2, MeetsByGroup
  <2>3. StreamPasses(t, a)
    BY <1>1, <2>1, <2>2, StreamCriteria
  <2>4. HasNamedData(Record) \/ ~Depends(t, AdsNames)
    BY <1>1 DEF Depends
  <2>5. PICK i \in DOMAIN Record.attrs : Record.attrs[i] = a
    BY <1>3
  <2> QED
    BY <2>2, <2>3, <2>4, <2>5 DEF ByStream, Held, DataAt
<1>7. Depends(t, AttributeMask) => ByAttribute(t) # {}
  <2> SUFFICES ASSUME Depends(t, AttributeMask) PROVE ByAttribute(t) # {}
    OBVIOUS
  <2>1. PICK a \in open : \A c \in AttributeMask \cap Wanted(t) : Meets(t, c, a)
    BY <1>1, FitsByGroup
  <2>2. AttributePasses(t, a)
    BY <1>1, <2>1, AttributeCriteria
  <2> QED
    BY <1>3, <2>2 DEF ByAttribute, Held
<1>8. Depends(t, DataMask) => ByData(t) # {}
  <2> SUFFICES ASSUME Depends(t, DataMask) PROVE ByData(t) # {}
    OBVIOUS
  <2>1. PICK a \in open : \A c \in DataMask \cap Wanted(t) : Meets(t, c, a)
    BY <1>1, FitsByGroup
  <2>2. IsData(a)
    BY <1>1, <2>1, MeetsByGroup DEF Depends
  <2>3. DataPasses(t, a)
    BY <1>1, <1>3, <2>1, <2>2, DataCriteria
  <2>4. PICK i \in DOMAIN Record.attrs : Record.attrs[i] = a
    BY <1>3
  <2> QED
    BY <2>2, <2>3, <2>4 DEF ByData, Held, DataAt
<1>9. \E n \in ns : n.here
  BY RecordHere
<1> QED
  BY <1>4, <1>5, <1>6, <1>7, <1>8, <1>9 DEF LookOK

-----------------------------------------------------------------------------
(***************************************************************************)
(* A term of exclusion excludes what it fits, and meets what it excludes.  *)
(***************************************************************************)
MatchNames(m) == {Record.names[i] : i \in m.names}
MatchAttrs(m) == {Record.attrs[i] : i \in Range(m.attrs)}

LEMMA ExcludesUnfold ==
  ASSUME NEW x, NEW m
  PROVE  Excludes(x, m) <=>
           /\ Depends(x, NameMask) => \E n \in MatchNames(m) : NamePasses(x, n)
           /\ Depends(x, PathMask) => \E n \in MatchNames(m) : FullPathPasses(x, n)
           /\ Depends(x, DataNameOrSizeMask) => \E a \in MatchAttrs(m) : IsData(a) /\ StreamPasses(x, a)
           /\ Depends(x, AttributeMask) =>
                \E a \in MatchAttrs(m) :
                  required[x] \cap AttrMask # {} /\ \A c \in required[x] \cap AttrMask : AttrPasses(x, c, a)
           /\ Depends(x, DataMask) =>
                \E a \in MatchAttrs(m) : IsData(a) /\ "YARA" \notin required[x] /\ DataPasses(x, a)
BY DEF Excludes, MatchNames, MatchAttrs

LEMMA FitsExcludes ==
  ASSUME NEW x \in Terms, required[x] = Specific(x), Literal(x), required[x] \cap HashMask \subseteq needed,
         Wanted(x) \cap (EaNames \cup {"YARA"}) = {}, NEW m,
         \A n \in MatchNames(m) : n.path \notin ShortPaths, \A a \in MatchAttrs(m) : a.opens,
         Fits(x, MatchNames(m), MatchAttrs(m))
  PROVE  Excludes(x, m)
<1>1. required[x] = Wanted(x)
  BY WantedRequired
<1>2. Depends(x, NameMask) => \E n \in MatchNames(m) : NamePasses(x, n)
  BY <1>1, FitsByGroup, NameCriteria
<1>3. Depends(x, PathMask) => \E n \in MatchNames(m) : FullPathPasses(x, n)
  BY <1>1, FitsByGroup, NameCriteria DEF PathPasses
<1>4. Depends(x, DataNameOrSizeMask) => \E a \in MatchAttrs(m) : IsData(a) /\ StreamPasses(x, a)
  <2> SUFFICES ASSUME Depends(x, DataNameOrSizeMask)
               PROVE  \E a \in MatchAttrs(m) : IsData(a) /\ StreamPasses(x, a)
    OBVIOUS
  <2>1. PICK a \in MatchAttrs(m) : \A c \in DataNameOrSizeMask \cap Wanted(x) : Meets(x, c, a)
    BY <1>1, FitsByGroup
  <2>2. PICK c \in DataNameOrSizeMask \cap Wanted(x) : TRUE
    BY <1>1 DEF Depends
  <2>3. c \in SizeMask \cup AdsNames
    BY <2>2, WantedRequired, Groupings
  <2>4. IsData(a)
    BY <2>1, <2>2, <2>3, MeetsByGroup
  <2> QED
    BY <1>1, <2>1, <2>4, StreamCriteria
<1>5. Depends(x, AttributeMask) =>
        \E a \in MatchAttrs(m) :
          required[x] \cap AttrMask # {} /\ \A c \in required[x] \cap AttrMask : AttrPasses(x, c, a)
  <2> SUFFICES ASSUME Depends(x, AttributeMask)
               PROVE  \E a \in MatchAttrs(m) :
                        required[x] \cap AttrMask # {} /\ \A c \in required[x] \cap AttrMask : AttrPasses(x, c, a)
    OBVIOUS
  <2>1. PICK a \in MatchAttrs(m) : \A c \in AttributeMask \cap Wanted(x) : Meets(x, c, a)
    BY <1>1, FitsByGroup
  <2>2. required[x] \cap AttrMask = AttributeMask \cap Wanted(x)
    BY <1>1, WantedRequired, Groupings
  <2>3. required[x] \cap AttrMask # {}
    BY <1>1, <2>2 DEF Depends
  <2>4. \A c \in required[x] \cap AttrMask : AttrPasses(x, c, a)
    BY <2>1, <2>2, MeetsByGroup
  <2> QED
    BY <2>3, <2>4
<1>6. Depends(x, DataMask) =>
        \E a \in MatchAttrs(m) : IsData(a) /\ "YARA" \notin required[x] /\ DataPasses(x, a)
  <2> SUFFICES ASSUME Depends(x, DataMask)
               PROVE  \E a \in MatchAttrs(m) : IsData(a) /\ "YARA" \notin required[x] /\ DataPasses(x, a)
    OBVIOUS
  <2>1. PICK a \in MatchAttrs(m) : \A c \in DataMask \cap Wanted(x) : Meets(x, c, a)
    BY <1>1, FitsByGroup
  <2>2. IsData(a)
    BY <1>1, <2>1, MeetsByGroup DEF Depends
  <2> QED
    BY <1>1, <2>1, <2>2, DataCriteria
<1> QED
  BY <1>2, <1>3, <1>4, <1>5, <1>6, ExcludesUnfold

LEMMA ExcludesMeets ==
  ASSUME NEW x \in Terms, required[x] = Specific(x), NEW m,
         \A n \in MatchNames(m) : n.here, Excludes(x, m)
  PROVE  /\ \A c \in Wanted(x) \ (AdsNames \cup EaNames) : Met(x, c, MatchNames(m), MatchAttrs(m))
         /\ Wanted(x) \cap EaNames # {} => Wanted(x) \cap AttrMask # {}
<1>0. ASSUME Wanted(x) \cap EaNames # {} PROVE Wanted(x) \cap AttrMask # {}
  <2>1. PICK d \in Wanted(x) \cap EaNames : d \in required[x] /\ d \in Criteria \ Generic
    BY <1>0, WantedRequired
  <2>2. d \in AttributeMask
    BY <2>1, Groupings
  <2>3. Depends(x, AttributeMask)
    BY <2>1, <2>2 DEF Depends
  <2>4. PICK c \in required[x] : c \in AttrMask
    BY <2>3, ExcludesUnfold
  <2>5. AttrMask \cap Generic = {}
    BY DEF AttrMask, Generic
  <2>6. c \in Wanted(x)
    BY <2>4, <2>5, WantedRequired
  <2> QED
    BY <2>4, <2>6
<1> SUFFICES ASSUME NEW c \in Wanted(x) \ (AdsNames \cup EaNames)
             PROVE  Met(x, c, MatchNames(m), MatchAttrs(m))
  BY <1>0
<1>1. c \in required[x] /\ c \in Criteria \ Generic
  BY WantedRequired
<1>2. c \notin NameMask \cup PathMask => Met(x, c, MatchNames(m), MatchAttrs(m)) <=> \E a \in MatchAttrs(m) : Meets(x, c, a)
  BY DEF Met
<1>3. CASE c \in NameMask
  BY <1>1, <1>3, ExcludesUnfold DEF Met, Depends, NamePasses, Passes, NameMeets
<1>4. CASE c \in PathMask
  <2>1. c \notin NameMask
    BY <1>1, <1>4, Groupings
  <2> QED
    BY <1>1, <1>4, <2>1, ExcludesUnfold DEF Met, Depends, FullPathPasses, Passes, NameMeets
<1>5. CASE c \in SizeMask
  <2>1. c \in DataNameOrSizeMask /\ c \notin NameMask \cup PathMask
    BY <1>1, <1>5, Groupings
  <2>2. PICK a \in MatchAttrs(m) : IsData(a) /\ StreamPasses(x, a)
    BY <1>1, <2>1, ExcludesUnfold DEF Depends
  <2>3. a.size \in Accepts(x, c)
    BY <1>1, <1>5, <2>1, <2>2 DEF StreamPasses, SizePasses
  <2> QED
    BY <1>2, <1>5, <2>1, <2>2, <2>3, MeetsByGroup
<1>6. CASE c \in AttributeMask
  <2>1. c \notin NameMask \cup PathMask /\ c \in AttrMask
    BY <1>1, <1>6, Groupings
  <2>2. PICK a \in MatchAttrs(m) : \A d \in required[x] \cap AttrMask : AttrPasses(x, d, a)
    BY <1>1, <1>6, ExcludesUnfold DEF Depends
  <2>3. AttrPasses(x, c, a)
    BY <1>1, <2>1, <2>2
  <2> QED
    BY <1>2, <1>6, <2>1, <2>3, MeetsByGroup
<1>7. CASE c \in DataMask
  <2>1. c \notin NameMask \cup PathMask
    BY <1>1, <1>7, Groupings
  <2>2. PICK a \in MatchAttrs(m) : IsData(a) /\ DataPasses(x, a)
    BY <1>1, <1>7, ExcludesUnfold DEF Depends
  <2>3. a.content \in Accepts(x, c)
    BY <1>1, <1>7, <2>2 DEF DataPasses, Passes
  <2> QED
    BY <1>2, <1>7, <2>1, <2>2, <2>3, MeetsByGroup
<1> QED
  BY <1>1, <1>3, <1>4, <1>5, <1>6, <1>7, Groupings

-----------------------------------------------------------------------------
(***************************************************************************)
(* The inductive invariant of the search.                                  *)
(***************************************************************************)
\* The terms keep the table that their criteria give them.
TablesInv ==
  /\ required \in [Terms -> SUBSET Criteria]
  /\ table \in [Terms -> Tables \cup {"none"}] /\ exclude \in [Terms -> Tables \cup {"none"}]
  /\ \A t \in Terms :
       /\ table[t] # "none" \/ exclude[t] # "none" => required[t] = Specific(t)
       /\ table[t] # "none" => table[t] = TableOf(Specific(t))
       /\ exclude[t] # "none" => exclude[t] = TableOf(Specific(t))

\* A match that was made is one of a record that was reached, by a term that is searched for.
Reported(f) ==
  /\ f.record \in 1 .. at /\ f.match.term \in Terms /\ table[f.match.term] # "none"
  /\ f.match.names \subseteq DOMAIN volume[f.record].names
  /\ f.match.attrs \in Seq(DOMAIN volume[f.record].attrs)

\* Before the search nothing is found; during it a record is compared, and the hashes that the
\* terms need are known; every comparison starts from an empty match.
FindInv ==
  /\ volume \in Volumes /\ at \in 0 .. Len(volume) /\ needed \subseteq HashMask
  /\ TablesInv
  /\ pc \in {"config", "next", "names", "sizes", "terms", "over"}
  /\ todo \subseteq {t \in Terms : table[t] # "none"} /\ (pc \in {"config", "next", "over"} => todo = {})
  /\ pc = "config" => at = 0 /\ found = {} /\ dropped = {}
  /\ pc \in {"config", "over"} => calling = NoMatch
  /\ pc \in {"names", "sizes", "terms"} => at \in 1 .. Len(volume)
  /\ pc \in {"next", "names", "sizes", "terms"} \/ at # 0 => needed = NeededHashes
  /\ pc = "names" => pos \in 0 .. Len(Record.names)
  /\ pc = "sizes" => pos \in 0 .. Len(Record.attrs)
  /\ retval = Blank
  /\ calling # NoMatch => [record |-> at, match |-> calling] \in found
  /\ \A f \in found \cup dropped : Reported(f)

\* The match that FoundAll asks for.
Done(i, t) == \E f \in found \cup dropped : f.record = i /\ f.match.term = t
Fitting(i, t) ==
  LET r == volume[i]
      open == {a \in Range(r.attrs) : a.opens}
  IN /\ table[t] # "none" /\ Literal(t) /\ Fits(t, Range(r.names), open)
     /\ \A n \in Range(r.names) : n.here /\ n.path \notin ShortPaths
     /\ Wanted(t) \cap AdsNames # {} => HasNamedData(r)

\* A name or a stream that is still to be looked up leads to the term.
NameAhead(t) == \E p \in DOMAIN Record.names : p > pos /\ t \in NamesHit(table, Record.names[p])
SizeAhead(t) ==
  \E p \in DOMAIN Record.attrs : p > pos /\ IsData(Record.attrs[p]) /\ t \in SizesHit(table, Record.attrs[p])
Ahead(t) ==
  \/ pc = "names" /\ (table[t] \in {"name", "path"} => NameAhead(t))
  \/ pc = "sizes" /\ table[t] \in {"size", "other"} /\ (table[t] = "size" => SizeAhead(t))

\* The terms that fit the records before this one are done, and those that fit this one are done,
\* in the list or ahead.
SearchInv ==
  \A t \in Terms :
    /\ \A i \in 1 .. at - 1 : Fitting(i, t) => Done(i, t)
    /\ at # 0 /\ Fitting(at, t) => Done(at, t) \/ t \in todo \/ Ahead(t)

\* The samples: of each match the callback has returned from, or is past the first turn for.
SampleInv ==
  /\ IsFiniteSet(DOMAIN samples)
  /\ spent \in [Specs \cup {All} -> [count : Nat, bytes : Nat]]
  /\ \A k \in DOMAIN samples :
       samples[k].offLimits \in BOOLEAN /\ samples[k].spec \in Specs /\ samples[k].size \in Nat
  /\ next \in 1 .. Len(calling.attrs) + 1
  /\ collected \subseteq Kept /\ (collected # {} => pc = "over")
  /\ \A f \in found :
       \/ \A i \in Range(f.match.attrs) : Key(f.record, i) \in DOMAIN samples
       \/ next = 1 /\ f = [record |-> at, match |-> calling]
  /\ spent[All].count <= Cardinality(Kept)

-----------------------------------------------------------------------------
LEMMA HitsSearched ==
  ASSUME NEW n
  PROVE  /\ NamesHit(table, n) \subseteq {t \in Terms : table[t] # "none"}
         /\ SizesHit(table, n) \subseteq {t \in Terms : table[t] # "none"}
         /\ In(table, "other") \subseteq {t \in Terms : table[t] # "none"}
BY DEF NamesHit, SizesHit, In

\* What is compared with a record makes a match of it.
LEMMA LookedReports ==
  ASSUME FindInv, NEW t \in todo, Looked(t, Blank).ok
  PROVE  /\ Here /\ t \in Terms /\ required[t] = Specific(t) /\ needed = NeededHashes /\ LookOK(t)
         /\ Looked(t, Blank).match.term = t /\ Looked(t, Blank).match # Blank
         /\ Reported([record |-> at, match |-> Looked(t, Blank).match])
<1> DEFINE m == Looked(t, Blank).match
           f == [record |-> at, match |-> m]
<1>1. Here /\ t \in Terms /\ table[t] # "none" /\ at \in 1 .. Len(volume) /\ needed = NeededHashes
  BY DEF FindInv, Here
<1>2. LookOK(t) /\ m.term = t /\ m.names = LookNames(t) /\ m.attrs \in Seq(DOMAIN Record.attrs)
  BY <1>1, LookedBlank
<1>3. LookNames(t) # {} /\ LookNames(t) \subseteq DOMAIN Record.names
  BY <1>1, <1>2, NamesKnown
<1>4. m # Blank
  BY <1>2, <1>3 DEF Blank
<1>5. required[t] = Specific(t)
  BY <1>1 DEF FindInv, TablesInv
<1>6. at \in 1 .. at
  BY <1>1
<1>7. Reported(f)
  <2> HIDE DEF m
  <2> QED
    BY <1>1, <1>2, <1>3, <1>6 DEF Reported, Record
<1> QED
  BY <1>1, <1>2, <1>4, <1>5, <1>7

LEMMA InitFind == FindInit => FindInv
<1> SUFFICES ASSUME FindInit PROVE FindInv
  OBVIOUS
<1>1. required \in [Terms -> SUBSET Criteria]
  BY CatalogAssumption DEF FindInit, TermOK
<1>2. TablesInv
  BY <1>1 DEF FindInit, TablesInv, Tables
<1>3. Len(volume) \in Nat
  <2>1. volume \in Seq(Range(volume))
    BY VolumesAssumption DEF FindInit
  <2> QED
    BY <2>1
<1> QED
  BY <1>2, <1>3 DEF FindInit, FindInv, NoMatch

\* A term that is added goes where its criteria say, and nothing else changes.
LEMMA AddsTable ==
  ASSUME FindInv, NEW t \in Terms, AddTerm(t) \/ AddExcludeTerm(t)
  PROVE  FindInv'
<1>1. /\ UNCHANGED <<volume, needed, pc, at, pos, todo, retval, calling, found, dropped>>
      /\ pc = "config" /\ table[t] = "none" /\ exclude[t] = "none"
      /\ required' = [required EXCEPT ![t] = Specific(t)]
  BY DEF AddTerm, AddExcludeTerm, Free
<1>2. Specific(t) \in SUBSET Criteria /\ TableOf(Specific(t)) \in Tables
  BY WantedRequired DEF TableOf, Tables
<1>3. required' \in [Terms -> SUBSET Criteria] /\ required'[t] = Specific(t)
      /\ \A u \in Terms \ {t} : required'[u] = required[u]
  BY <1>1, <1>2 DEF FindInv, TablesInv
<1>4. TablesInv'
  <2>1. CASE AddTerm(t)
    <3>1. table' = [table EXCEPT ![t] = TableOf(Specific(t))] /\ exclude' = exclude
      BY <2>1 DEF AddTerm
    <3>2. table' \in [Terms -> Tables \cup {"none"}] /\ table'[t] = TableOf(Specific(t))
          /\ \A u \in Terms \ {t} : table'[u] = table[u]
      BY <1>2, <3>1 DEF FindInv, TablesInv
    <3> QED
      BY <1>1, <1>3, <3>1, <3>2, ZenonT(60) DEF FindInv, TablesInv, Specific
  <2>2. CASE AddExcludeTerm(t)
    <3>1. exclude' = [exclude EXCEPT ![t] = TableOf(Specific(t))] /\ table' = table
      BY <2>2 DEF AddExcludeTerm
    <3>2. exclude' \in [Terms -> Tables \cup {"none"}] /\ exclude'[t] = TableOf(Specific(t))
          /\ \A u \in Terms \ {t} : exclude'[u] = exclude[u]
      BY <1>2, <3>1 DEF FindInv, TablesInv
    <3> QED
      BY <1>1, <1>3, <3>1, <3>2 DEF FindInv, TablesInv, Specific
  <2> QED
    BY <2>1, <2>2
<1>5. todo = {} /\ at = 0 /\ found = {} /\ dropped = {} /\ calling = NoMatch
  BY <1>1 DEF FindInv
<1> QED
  BY <1>1, <1>4, <1>5 DEF FindInv

\* The tables stay as they are once the search has begun.
LEMMA TablesKept ==
  ASSUME FindInv, UNCHANGED tables
  PROVE  /\ TablesInv' /\ volume' \in Volumes /\ Len(volume') = Len(volume) /\ needed' \subseteq HashMask
         /\ NeededHashes' = NeededHashes
         /\ \A f : Reported(f) /\ at' = at => Reported(f)'
  BY DEF FindInv, TablesInv, tables, NeededHashes, Reported

LEMMA FindFinds ==
  ASSUME FindInv, Find
  PROVE  FindInv'
<1>1. /\ UNCHANGED <<volume, required, table, exclude, at, pos, todo, retval, calling, found, dropped>>
      /\ pc = "config" /\ pc' \in {"next", "over"} /\ (pc' = "next" => needed' = NeededHashes)
      /\ needed' \in {needed, NeededHashes}
  BY DEF Find
<1>2. NeededHashes' = NeededHashes /\ NeededHashes \subseteq HashMask
  BY <1>1 DEF NeededHashes
<1>3. todo = {} /\ at = 0 /\ found = {} /\ dropped = {} /\ calling = NoMatch
  BY <1>1 DEF FindInv
<1>4. TablesInv'
  BY <1>1 DEF FindInv, TablesInv
<1> QED
  BY <1>1, <1>2, <1>3, <1>4 DEF FindInv

LEMMA NextRecordFinds ==
  ASSUME FindInv, NextRecord
  PROVE  FindInv'
<1>1. /\ UNCHANGED <<tables, todo, retval, calling, found, dropped>>
      /\ calling = NoMatch /\ todo = {} /\ pc \in {"next", "terms"} /\ pos' = 0
      /\ at < Len(volume) => at' = at + 1 /\ pc' = "names"
      /\ ~(at < Len(volume)) => at' = at /\ pc' = "over"
  BY DEF NextRecord, Running
<1>2. volume' = volume /\ Len(volume) \in Nat /\ at \in 0 .. Len(volume)
  <2>1. volume \in Seq(Range(volume))
    BY VolumesAssumption DEF FindInv
  <2> QED
    BY <1>1, <2>1 DEF FindInv, tables
<1>3. at' \in 0 .. Len(volume) /\ at <= at' /\ at \in Nat
      /\ (pc' = "names" => at' \in 1 .. Len(volume))
  BY <1>1, <1>2
<1>4. needed = NeededHashes
  BY <1>1 DEF FindInv
<1>5. \A f \in found' \cup dropped' : Reported(f)'
  <2> SUFFICES ASSUME NEW f \in found \cup dropped PROVE Reported(f)'
    BY <1>1
  <2>1. Reported(f)
    BY DEF FindInv
  <2>2. f.record \in 1 .. at'
    BY <1>3, <2>1 DEF Reported
  <2> QED
    BY <1>1, <2>1, <2>2 DEF Reported, tables
<1>6. pc' \in {"names", "over"}
  BY <1>1
<1>7. pc' = "names" => pos' \in 0 .. Len(volume'[at'].names)
  BY <1>1, <1>2, <1>3, TablesKept, RecordIn
<1> QED
  BY <1>1, <1>2, <1>3, <1>4, <1>5, <1>6, <1>7, TablesKept DEF FindInv, tables, Record

LEMMA NextNameFinds ==
  ASSUME FindInv, NextName
  PROVE  FindInv'
<1> DEFINE n == Record.names[pos + 1]
<1>1. /\ UNCHANGED <<tables, at, retval, calling, found, dropped>>
      /\ calling = NoMatch /\ pc = "names" /\ pc' \in {"names", "sizes", "next"} /\ pos' \in {0, pos + 1}
      /\ todo = {} /\ todo' \in {{}, NamesHit(table, n)} /\ (pc' # "names" => todo' = {})
  BY DEF NextName, Running
<1>2. todo' \subseteq {t \in Terms : table'[t] # "none"} /\ volume' = volume
  BY <1>1, HitsSearched DEF tables
<1>3. needed = NeededHashes /\ pos \in 0 .. Len(Record.names) /\ at \in 1 .. Len(volume)
  BY <1>1 DEF FindInv
<1>4. Len(Record.names) \in Nat /\ Len(Record.attrs) \in Nat /\ Record' = Record
  BY <1>1, <1>3, RecordHere DEF Here, FindInv, Record, tables
<1>5. (pc' = "names" => pos' \in 0 .. Len(Record'.names)) /\ (pc' = "sizes" => pos' \in 0 .. Len(Record'.attrs))
  BY <1>1, <1>3, <1>4 DEF NextName
<1>6. \A f \in found' \cup dropped' : Reported(f)'
  BY <1>1, TablesKept DEF FindInv
<1> HIDE DEF n
<1> QED
  BY <1>1, <1>2, <1>3, <1>5, <1>6, TablesKept DEF FindInv, tables

LEMMA NextSizeFinds ==
  ASSUME FindInv, NextSize
  PROVE  FindInv'
<1> DEFINE a == Record.attrs[pos + 1]
<1>1. /\ UNCHANGED <<tables, at, retval, calling, found, dropped>>
      /\ calling = NoMatch /\ pc = "sizes" /\ pc' \in {"sizes", "terms"} /\ pos' \in {0, pos + 1}
      /\ todo = {} /\ todo' \in {{}, SizesHit(table, a), In(table, "other")}
  BY DEF NextSize, Running
<1>2. todo' \subseteq {t \in Terms : table'[t] # "none"} /\ volume' = volume
  BY <1>1, HitsSearched DEF tables
<1>3. needed = NeededHashes /\ pos \in 0 .. Len(Record.attrs) /\ at \in 1 .. Len(volume)
  BY <1>1 DEF FindInv
<1>4. Len(Record.attrs) \in Nat /\ Record' = Record
  BY <1>1, <1>3, RecordHere DEF Here, FindInv, Record, tables
<1>5. pc' = "sizes" => pos' \in 0 .. Len(Record'.attrs)
  BY <1>1, <1>3, <1>4 DEF NextSize
<1>6. \A f \in found' \cup dropped' : Reported(f)'
  BY <1>1, TablesKept DEF FindInv
<1> HIDE DEF a
<1> QED
  BY <1>1, <1>2, <1>3, <1>5, <1>6, TablesKept DEF FindInv, tables

\* What a comparison does: a match that is not excluded is called back.
LEMMA LookUpDoes ==
  ASSUME FindInv, NEW t \in Terms, LookUp(t)
  PROVE  LET m == Looked(t, Blank).match
             f == [record |-> at, match |-> m]
         IN /\ UNCHANGED <<tables, pc, at, pos>> /\ calling = NoMatch /\ t \in todo /\ todo' = todo \ {t}
            /\ retval' = Blank
            /\ \/ ~LookOK(t) /\ UNCHANGED <<calling, found, dropped>>
               \/ /\ Looked(t, Blank).ok /\ ExcludeMatch(m)
                  /\ dropped' = dropped \cup {f} /\ UNCHANGED <<calling, found>>
               \/ /\ Looked(t, Blank).ok /\ ~ExcludeMatch(m)
                  /\ found' = found \cup {f} /\ calling' = m /\ UNCHANGED dropped
<1>1. retval = Blank /\ Blank = NoMatch
  BY DEF FindInv, NoMatch
<1>2. t \in todo
  BY DEF LookUp
<1>3. Here
  BY <1>2 DEF FindInv, Here
<1>4. Looked(t, Blank).ok <=> LookOK(t)
  BY <1>3, LookedBlank
<1> QED
  BY <1>1, <1>4 DEF LookUp, Running, Reset

LEMMA LookUpFinds ==
  ASSUME FindInv, NEW t \in Terms, LookUp(t)
  PROVE  FindInv'
<1> DEFINE m == Looked(t, Blank).match
           f == [record |-> at, match |-> m]
<1>1. /\ UNCHANGED <<tables, pc, at, pos>> /\ calling = NoMatch /\ t \in todo /\ todo' = todo \ {t}
      /\ retval' = Blank
      /\ \/ UNCHANGED <<calling, found, dropped>>
         \/ Looked(t, Blank).ok /\ dropped' = dropped \cup {f} /\ UNCHANGED <<calling, found>>
         \/ Looked(t, Blank).ok /\ found' = found \cup {f} /\ calling' = m /\ UNCHANGED dropped
  BY LookUpDoes
<1>2. Looked(t, Blank).ok => Reported(f)
  BY <1>1, LookedReports
<1> HIDE DEF m
<1>3. \A g \in found' \cup dropped' : Reported(g)'
  <2>1. \A g \in found' \cup dropped' : Reported(g)
    BY <1>1, <1>2 DEF FindInv
  <2> QED
    BY <1>1, <2>1, TablesKept
<1>4. pc \notin {"config", "next", "over"}
  BY <1>1 DEF FindInv
<1>5. calling' # NoMatch => [record |-> at', match |-> calling'] \in found'
  BY <1>1 DEF FindInv
<1>6. todo' \subseteq {u \in Terms : table'[u] # "none"} /\ volume' = volume
  BY <1>1 DEF FindInv, tables
<1> QED
  BY <1>1, <1>3, <1>4, <1>5, <1>6, TablesKept DEF FindInv, tables, Record

LEMMA StepFind ==
  ASSUME FindInv, FindStep \/ Return \/ UNCHANGED findVars
  PROVE  FindInv'
<1>1. CASE Return
  <2>1. /\ UNCHANGED <<tables, pc, at, pos, todo, retval, found, dropped>>
        /\ calling' = NoMatch
    BY <1>1 DEF Return
  <2> QED
    BY <2>1, TablesKept DEF FindInv, tables, Record
<1>2. CASE UNCHANGED findVars
  <2>1. UNCHANGED <<tables, pc, at, pos, todo, retval, calling, found, dropped>>
    BY <1>2 DEF findVars
  <2> QED
    BY <2>1, TablesKept DEF FindInv, tables, Record
<1> QED
  BY <1>1, <1>2, AddsTable, FindFinds, NextRecordFinds, NextNameFinds, NextSizeFinds, LookUpFinds DEF FindStep

LEMMA ModelSteps ==
  ASSUME [Next]_vars
  PROVE  FindStep \/ Return \/ UNCHANGED findVars
BY DEF Next, vars, SampleAttribute, CallbackReturns, CollectMatchingSamples

LEMMA StepFindInv == FindInv /\ [Next]_vars => FindInv'
BY StepFind, ModelSteps

LEMMA SearchInvariant == Spec => []FindInv
<1>1. Init => FindInv
  BY InitFind DEF Init
<1> QED
  BY <1>1, StepFindInv, PTL DEF Spec

-----------------------------------------------------------------------------
(***************************************************************************)
(* Each match that is reported satisfies its term.                         *)
(***************************************************************************)
\* A step leaves what was said of the matches as it was.
LEMMA StepReports ==
  ASSUME FindInv, [Next]_vars, pc # "config"
  PROVE  /\ UNCHANGED tables /\ found \subseteq found' /\ dropped \subseteq dropped'
         /\ \A f \in found' \ found : \E t \in todo :
              /\ LookUp(t) /\ Looked(t, Blank).ok /\ f = [record |-> at, match |-> Looked(t, Blank).match]
              /\ ~ExcludeMatch(f.match)
         /\ \A f \in dropped' \ dropped : \E t \in todo :
              /\ Looked(t, Blank).ok /\ f = [record |-> at, match |-> Looked(t, Blank).match]
              /\ ExcludeMatch(f.match)
<1>1. FindStep \/ Return \/ UNCHANGED findVars
  BY ModelSteps
<1>2. CASE \E t \in Terms : LookUp(t)
  <2>1. PICK t \in Terms : LookUp(t)
    BY <1>2
  <2> QED
    BY <2>1, LookUpDoes
<1>3. CASE ~\E t \in Terms : LookUp(t)
  <2>1. UNCHANGED <<tables, found, dropped>>
    BY <1>1, <1>3 DEF FindStep, Return, findVars, AddTerm, AddExcludeTerm, Free, Find, NextRecord, NextName,
       NextSize
  <2> QED
    BY <2>1
<1> QED
  BY <1>2, <1>3

LEMMA NoneFound ==
  ASSUME FindInv, [Next]_vars, pc = "config"
  PROVE  found' = {} /\ dropped' = {}
<1>1. FindStep \/ Return \/ UNCHANGED findVars
  BY ModelSteps
<1>2. found = {} /\ dropped = {} /\ todo = {}
  BY DEF FindInv
<1>3. UNCHANGED <<found, dropped>>
  BY <1>1, <1>2 DEF FindStep, Return, findVars, AddTerm, AddExcludeTerm, Find, NextRecord, NextName, NextSize, LookUp
<1> QED
  BY <1>2, <1>3

LEMMA FoundSatisfiesEach == FoundSatisfies <=> \A f \in found : Satisfied(f)
BY DEF FoundSatisfies, Satisfied

LEMMA NeededOf ==
  ASSUME NEW t \in Terms, table[t] # "none" \/ exclude[t] # "none"
  PROVE  required[t] \cap HashMask \subseteq NeededHashes
BY DEF NeededHashes

LEMMA StepSatisfied == FindInv /\ FoundSatisfies /\ [Next]_vars => FoundSatisfies'
<1> SUFFICES ASSUME FindInv, FoundSatisfies, [Next]_vars PROVE FoundSatisfies'
  OBVIOUS
<1>1. CASE pc = "config"
  BY <1>1, NoneFound DEF FoundSatisfies
<1>2. CASE pc # "config"
  <2>1. \A f : Satisfied(f) => Satisfied(f)'
    <3>1. volume' = volume
      BY <1>2, StepReports DEF tables
    <3>2. \A f : NamesOf(f)' = NamesOf(f) /\ AttrsOf(f)' = AttrsOf(f)
      BY <3>1 DEF NamesOf, AttrsOf
    <3> SUFFICES ASSUME NEW f, Satisfied(f) PROVE Satisfied(f)'
      OBVIOUS
    <3> QED
      BY <3>1, <3>2 DEF Satisfied
  <2>2. \A f \in found' \ found : Satisfied(f)
    <3> SUFFICES ASSUME NEW f \in found' \ found PROVE Satisfied(f)
      OBVIOUS
    <3>1. PICK t \in todo : Looked(t, Blank).ok /\ f = [record |-> at, match |-> Looked(t, Blank).match]
      BY <1>2, StepReports
    <3>2. /\ Here /\ t \in Terms /\ required[t] = Specific(t) /\ needed = NeededHashes /\ LookOK(t)
      BY <3>1, LookedReports
    <3>3. table[t] # "none"
      BY DEF FindInv
    <3>4. required[t] \cap HashMask \subseteq needed
      BY <3>2, <3>3, NeededOf
    <3> QED
      BY <3>1, <3>2, <3>4, LookSatisfies
  <2>3. \A f \in found' : Satisfied(f)'
    BY <2>1, <2>2, FoundSatisfiesEach
  <2> QED
    BY <2>3 DEF FoundSatisfies, Satisfied
<1> QED
  BY <1>1, <1>2

\* Each match that is reported meets every criterion of its term, with its names and attributes,
\* and has no name and no attribute that meets none, but the default ones.
THEOREM SearchFindsWhatIsAsked == Spec => []FoundSatisfies
<1>1. Init => FoundSatisfies
  BY DEF Init, FindInit, FoundSatisfies
<1> QED
  BY <1>1, StepSatisfied, SearchInvariant, PTL DEF Spec

-----------------------------------------------------------------------------
(***************************************************************************)
(* What is excluded, and what is not.                                      *)
(***************************************************************************)
NotExcluded(f) ==
  \A x \in Terms :
    /\ exclude[x] # "none" /\ Literal(x) /\ Wanted(x) \cap (EaNames \cup {"YARA"}) = {}
    /\ exclude[x] = "size" => In(table, "size") # {}
    /\ \A n \in NamesOf(f) : n.path \notin ShortPaths
    => ~Fits(x, NamesOf(f), AttrsOf(f))
Excluded(f) ==
  \E x \in Terms :
    /\ exclude[x] # "none"
    /\ \A c \in Wanted(x) \ (AdsNames \cup EaNames) : Met(x, c, NamesOf(f), AttrsOf(f))
    /\ Wanted(x) \cap EaNames # {} => Wanted(x) \cap AttrMask # {}

LEMMA ExcludedExactlyEach ==
  ExcludedExactly <=> (\A f \in found : NotExcluded(f)) /\ \A f \in dropped : Excluded(f)
BY DEF ExcludedExactly, NotExcluded, Excluded

\* A term of an exact name, path or size that fits is looked up by it.
LEMMA FitsHits ==
  ASSUME NEW x \in Terms, Literal(x), NEW names, NEW attrs, Fits(x, names, attrs)
  PROVE  /\ TableOf(Specific(x)) \in Tables
         /\ TableOf(Specific(x)) = "name" => \E n \in names : n.text \in Accepts(x, "NAME_EXACT")
         /\ TableOf(Specific(x)) = "path" => \E n \in names : n.path \in Accepts(x, "PATH_EXACT")
         /\ TableOf(Specific(x)) = "size" => \E a \in attrs : IsData(a) /\ a.size \in Accepts(x, "SIZE_EQ")
<1> DEFINE W == Wanted(x)
<1>1. Specific(x) = W
  BY WantedRequired
<1>2. TableOf(Specific(x)) \in Tables
  BY DEF TableOf, Tables
<1>3. /\ TableOf(W) = "name" => "NAME_EXACT" \in W
      /\ TableOf(W) = "path" => "PATH_EXACT" \in W
      /\ TableOf(W) = "size" => "SIZE_EQ" \in W
  BY DEF TableOf
<1>4. /\ "NAME_EXACT" \in NameMask /\ "PATH_EXACT" \in PathMask \ NameMask /\ "SIZE_EQ" \in SizeMask
      /\ SizeMask \subseteq DataNameOrSizeMask /\ "SIZE_EQ" \notin NameMask \cup PathMask
  BY DEF NameMask, PathMask, SizeMask, DataNameOrSizeMask
<1>5. DataNameOrSizeMask # NameMask /\ DataNameOrSizeMask # PathMask
  BY <1>4
<1>6. /\ NameMask \cap W # {} => \E n \in names : \A c \in NameMask \cap W : NameMeets(x, c, n)
      /\ PathMask \cap W # {} => \E n \in names : \A c \in PathMask \cap W : NameMeets(x, c, n)
      /\ DataNameOrSizeMask \cap W # {} => \E a \in attrs : \A c \in DataNameOrSizeMask \cap W : Meets(x, c, a)
  BY <1>5 DEF Fits, Groups
<1>7. "NAME_EXACT" \in W => \E n \in names : n.text \in Accepts(x, "NAME_EXACT")
  BY <1>4, <1>6 DEF NameMeets
<1>8. "PATH_EXACT" \in W => \E n \in names : n.path \in Accepts(x, "PATH_EXACT")
  BY <1>4, <1>6 DEF NameMeets
<1>9. "SIZE_EQ" \in W => \E a \in attrs : IsData(a) /\ a.size \in Accepts(x, "SIZE_EQ")
  BY <1>4, <1>6, MeetsByGroup
<1> QED
  BY <1>1, <1>2, <1>3, <1>7, <1>8, <1>9

\* What is looked up has streams that can be opened.
LEMMA LookedOpens ==
  ASSUME Here, NEW t \in Terms, LookOK(t)
  PROVE  \A a \in MatchAttrs(Looked(t, Blank).match) : a.opens
<1>1. Range(Looked(t, Blank).match.attrs) = LookAttrs(t)
  BY LookedBlank
<1>2. \A i \in LookAttrs(t) : Record.attrs[i].opens
  BY DEF LookAttrs, Opened
<1> QED
  BY <1>1, <1>2 DEF MatchAttrs

LEMMA FitsIsExcluded ==
  ASSUME FindInv, NEW t \in todo, Looked(t, Blank).ok, NEW f,
         f = [record |-> at, match |-> Looked(t, Blank).match], ~ExcludeMatch(f.match)
  PROVE  NotExcluded(f)
<1> DEFINE m == f.match
<1> SUFFICES ASSUME NEW x \in Terms,
                    exclude[x] # "none", Literal(x), Wanted(x) \cap (EaNames \cup {"YARA"}) = {},
                    exclude[x] = "size" => In(table, "size") # {},
                    \A n \in NamesOf(f) : n.path \notin ShortPaths,
                    Fits(x, NamesOf(f), AttrsOf(f))
             PROVE  FALSE
  BY DEF NotExcluded
<1>1. Here /\ t \in Terms /\ needed = NeededHashes /\ LookOK(t)
  BY LookedReports
<1>2. f.record = at /\ m = Looked(t, Blank).match
  OBVIOUS
<1>3. required[x] = Specific(x) /\ exclude[x] = TableOf(Specific(x)) /\ required[x] \cap HashMask \subseteq needed
  BY <1>1, NeededOf DEF FindInv, TablesInv
<1>4. NamesOf(f) = MatchNames(m) /\ AttrsOf(f) = MatchAttrs(m)
  BY <1>2 DEF NamesOf, AttrsOf, MatchNames, MatchAttrs, Record
<1>5. \A a \in MatchAttrs(m) : a.opens
  BY <1>1, <1>2, LookedOpens
<1> HIDE DEF m
<1>6. Excludes(x, m)
  BY <1>3, <1>4, <1>5, FitsExcludes
<1>7. CASE exclude[x] = "name"
  <2>1. PICK n \in MatchNames(m) : n.text \in Accepts(x, "NAME_EXACT")
    BY <1>3, <1>4, <1>7, FitsHits
  <2>2. x \in NamesHit(exclude, n)
    BY <1>7, <2>1 DEF NamesHit, In
  <2> QED
    BY <1>6, <2>2 DEF ExcludeMatch, MatchNames, m
<1>8. CASE exclude[x] = "path"
  <2>1. PICK n \in MatchNames(m) : n.path \in Accepts(x, "PATH_EXACT")
    BY <1>3, <1>4, <1>8, FitsHits
  <2>2. x \in NamesHit(exclude, n)
    BY <1>8, <2>1 DEF NamesHit, In
  <2> QED
    BY <1>6, <2>2 DEF ExcludeMatch, MatchNames, m
<1>9. CASE exclude[x] = "size"
  <2>1. PICK a \in MatchAttrs(m) : a.size \in Accepts(x, "SIZE_EQ")
    BY <1>3, <1>4, <1>9, FitsHits
  <2>2. x \in SizesHit(exclude, a)
    BY <1>9, <2>1 DEF SizesHit, In
  <2> QED
    BY <1>6, <1>9, <2>2 DEF ExcludeMatch, MatchAttrs, m
<1>10. CASE exclude[x] = "other"
  BY <1>6, <1>10 DEF ExcludeMatch, In, m
<1>11. exclude[x] \in Tables
  BY <1>3, FitsHits
<1> QED
  BY <1>7, <1>8, <1>9, <1>10, <1>11 DEF Tables

LEMMA DroppedIsExcluded ==
  ASSUME FindInv, NEW t \in todo, Looked(t, Blank).ok, NEW f,
         f = [record |-> at, match |-> Looked(t, Blank).match], ExcludeMatch(f.match)
  PROVE  Excluded(f)
<1> DEFINE m == f.match
<1>1. Here /\ t \in Terms /\ LookOK(t)
  BY LookedReports
<1>2. f.record = at /\ m = Looked(t, Blank).match
  OBVIOUS
<1>3. NamesOf(f) = MatchNames(m) /\ AttrsOf(f) = MatchAttrs(m)
  BY <1>2 DEF NamesOf, AttrsOf, MatchNames, MatchAttrs, Record
<1>4. PICK x \in Terms : exclude[x] # "none" /\ Excludes(x, m)
  <2>1. \A which, v : NamesHit(which, v) \cup SizesHit(which, v) \cup In(which, "other")
                        \subseteq {x \in Terms : which[x] # "none"}
    BY DEF NamesHit, SizesHit, In
  <2> HIDE DEF m
  <2> QED
    BY <2>1 DEF ExcludeMatch, m
<1>5. required[x] = Specific(x)
  BY <1>4 DEF FindInv, TablesInv
<1>6. \A n \in MatchNames(m) : n.here
  <2>1. m.names = LookNames(t)
    BY <1>1, <1>2, LookedBlank
  <2> HIDE DEF m
  <2> QED
    BY <1>1, <2>1, NamesKnown DEF MatchNames
<1> HIDE DEF m
<1> QED
  BY <1>3, <1>4, <1>5, <1>6, ExcludesMeets DEF Excluded

LEMMA StepExcluded == FindInv /\ ExcludedExactly /\ [Next]_vars => ExcludedExactly'
<1> SUFFICES ASSUME FindInv, ExcludedExactly, [Next]_vars PROVE ExcludedExactly'
  OBVIOUS
<1>1. CASE pc = "config"
  BY <1>1, NoneFound DEF ExcludedExactly
<1>2. CASE pc # "config"
  <2>1. \A f : (NotExcluded(f) => NotExcluded(f)') /\ (Excluded(f) => Excluded(f)')
    BY <1>2, StepReports DEF tables, NotExcluded, Excluded, NamesOf, AttrsOf
  <2>2. \A f \in found' \ found : NotExcluded(f)
    BY <1>2, StepReports, FitsIsExcluded
  <2>3. \A f \in dropped' \ dropped : Excluded(f)
    BY <1>2, StepReports, DroppedIsExcluded
  <2>4. (\A f \in found' : NotExcluded(f)') /\ \A f \in dropped' : Excluded(f)'
    BY <2>1, <2>2, <2>3, ExcludedExactlyEach
  <2> QED
    BY <2>4 DEF ExcludedExactly, NotExcluded, Excluded
<1> QED
  BY <1>1, <1>2

\* No match that is reported fits a term of exclusion that the code can compare, and each match
\* that was dropped meets the criteria of one.
THEOREM SearchExcludesWhatIsAsked == Spec => []ExcludedExactly
<1>1. Init => ExcludedExactly
  BY DEF Init, FindInit, ExcludedExactly
<1> QED
  BY <1>1, StepExcluded, SearchInvariant, PTL DEF Spec

-----------------------------------------------------------------------------
(***************************************************************************)
(* Every term that fits a record is done with it, in the list of those to  *)
(* compare, or reached by a name or a stream that is still to be looked up.*)
(***************************************************************************)
LEMMA KeptFitting ==
  ASSUME FindInv, [Next]_vars, pc # "config"
  PROVE  /\ \A i, t : Fitting(i, t)' <=> Fitting(i, t)
         /\ \A i, t : Done(i, t) => Done(i, t)'
<1>1. UNCHANGED tables /\ found \subseteq found' /\ dropped \subseteq dropped'
  BY StepReports
<1> QED
  BY <1>1 DEF Fitting, Done, tables

\* A term that fits a record is reached from its first name, or from its first stream.
LEMMA FitsAhead ==
  ASSUME TablesInv, NEW t \in Terms, NEW r, r.names \in Seq(Range(r.names)), r.attrs \in Seq(Range(r.attrs)),
         table[t] # "none", Literal(t), Fits(t, Range(r.names), {a \in Range(r.attrs) : a.opens})
  PROVE  /\ table[t] \in Tables
         /\ table[t] \in {"name", "path"} =>
              \E p \in DOMAIN r.names : p > 0 /\ t \in NamesHit(table, r.names[p])
         /\ table[t] = "size" =>
              \E p \in DOMAIN r.attrs : p > 0 /\ IsData(r.attrs[p]) /\ t \in SizesHit(table, r.attrs[p])
<1> DEFINE names == Range(r.names)
           attrs == {a \in Range(r.attrs) : a.opens}
<1>1. table[t] = TableOf(Specific(t))
  BY DEF TablesInv
<1>2. /\ \A n \in names : \E p \in DOMAIN r.names : p > 0 /\ r.names[p] = n
      /\ \A a \in attrs : \E p \in DOMAIN r.attrs : p > 0 /\ r.attrs[p] = a
  <2>1. DOMAIN r.names = 1 .. Len(r.names) /\ DOMAIN r.attrs = 1 .. Len(r.attrs)
    BY ListDomain
  <2> QED
    BY <2>1 DEF Range
<1> HIDE DEF names, attrs
<1>3. /\ TableOf(Specific(t)) \in Tables
      /\ TableOf(Specific(t)) = "name" => \E n \in names : n.text \in Accepts(t, "NAME_EXACT")
      /\ TableOf(Specific(t)) = "path" => \E n \in names : n.path \in Accepts(t, "PATH_EXACT")
      /\ TableOf(Specific(t)) = "size" => \E a \in attrs : IsData(a) /\ a.size \in Accepts(t, "SIZE_EQ")
  BY FitsHits DEF names, attrs
<1>4. /\ \A n : table[t] = "name" /\ n.text \in Accepts(t, "NAME_EXACT") => t \in NamesHit(table, n)
      /\ \A n : table[t] = "path" /\ n.path \in Accepts(t, "PATH_EXACT") => t \in NamesHit(table, n)
      /\ \A a : table[t] = "size" /\ a.size \in Accepts(t, "SIZE_EQ") => t \in SizesHit(table, a)
  BY DEF NamesHit, SizesHit, In
<1> QED
  BY <1>1, <1>2, <1>3, <1>4

LEMMA NextRecordSearches ==
  ASSUME FindInv, SearchInv, NextRecord
  PROVE  SearchInv'
<1>1. /\ UNCHANGED <<tables, todo, found, dropped>> /\ todo = {}
      /\ pc \in {"next", "terms"} /\ pos' = 0
      /\ at < Len(volume) => at' = at + 1 /\ pc' = "names"
      /\ ~(at < Len(volume)) => at' = at /\ pc' = "over"
  BY DEF NextRecord
<1>2. volume' = volume /\ table' = table /\ TablesInv
      /\ \A i, t : (Fitting(i, t)' <=> Fitting(i, t)) /\ (Done(i, t)' <=> Done(i, t))
  BY <1>1 DEF tables, Fitting, Done, FindInv
<1>3. \A t \in Terms : at # 0 /\ Fitting(at, t) => Done(at, t)
  BY <1>1 DEF SearchInv, Ahead
<1>4. at \in Nat /\ Len(volume) \in Nat /\ volume \in Volumes /\ at <= Len(volume)
  <2>1. volume \in Seq(Range(volume))
    BY VolumesAssumption DEF FindInv
  <2> QED
    BY <2>1 DEF FindInv
<1>5. CASE ~(at < Len(volume))
  BY <1>1, <1>2, <1>3, <1>5 DEF SearchInv
<1>6. CASE at < Len(volume)
  <2>1. at' = at + 1 /\ pc' = "names" /\ at + 1 \in 1 .. Len(volume)
    BY <1>1, <1>4, <1>6
  <2>2. \A t \in Terms : \A i \in 1 .. at : Fitting(i, t) => Done(i, t)
    BY <1>3, <1>4 DEF SearchInv
  <2>3. ASSUME NEW t \in Terms, Fitting(at + 1, t), table[t] \in {"name", "path"}
        PROVE  NameAhead(t)'
    <3> DEFINE r == volume[at + 1]
    <3>1. r.names \in Seq(Range(r.names)) /\ r.attrs \in Seq(Range(r.attrs))
      BY <1>4, <2>1, RecordIn
    <3>2. table[t] # "none" /\ Literal(t) /\ Fits(t, Range(r.names), {a \in Range(r.attrs) : a.opens})
      BY <2>3 DEF Fitting
    <3> HIDE DEF r
    <3>3. \E p \in DOMAIN r.names : p > 0 /\ t \in NamesHit(table, r.names[p])
      BY <1>2, <2>3, <3>1, <3>2, FitsAhead
    <3>4. Record' = r
      BY <1>2, <2>1 DEF Record, r
    <3> QED
      BY <1>1, <1>2, <3>3, <3>4 DEF NameAhead, NamesHit, In
  <2>4. \A t \in Terms : Fitting(at + 1, t) => Ahead(t)'
    BY <1>2, <2>1, <2>3 DEF Ahead
  <2>5. at' - 1 = at
    BY <1>4, <2>1
  <2> QED
    BY <1>2, <2>1, <2>2, <2>4, <2>5 DEF SearchInv
<1> QED
  BY <1>5, <1>6

\* While a record is compared, what concerns the records before it stays.
LEMMA Compares ==
  ASSUME FindInv, SearchInv, UNCHANGED <<tables, at, found, dropped>>,
         \A t \in Terms : at # 0 /\ Fitting(at, t) => Done(at, t) \/ t \in todo' \/ Ahead(t)'
  PROVE  SearchInv'
<1>1. \A i, t : (Fitting(i, t)' <=> Fitting(i, t)) /\ (Done(i, t)' <=> Done(i, t))
  BY DEF tables, Fitting, Done
<1> QED
  BY <1>1 DEF SearchInv

LEMMA NextNameSearches ==
  ASSUME FindInv, SearchInv, NextName
  PROVE  SearchInv'
<1> DEFINE ns == Record.names
           n == ns[pos + 1]
<1>1. UNCHANGED <<tables, at, found, dropped>> /\ todo = {} /\ pc = "names"
  BY DEF NextName
<1>2. /\ volume' = volume /\ table' = table /\ Record' = Record /\ TablesInv
      /\ Here /\ at # 0 /\ pos \in 0 .. Len(ns)
  BY <1>1 DEF tables, Record, FindInv, Here
<1>3. /\ Len(ns) \in Nat /\ DOMAIN ns = 1 .. Len(ns) /\ pos \in Nat
      /\ Record.names \in Seq(Range(Record.names)) /\ Record.attrs \in Seq(Range(Record.attrs))
  BY <1>2, RecordHere
<1> SUFFICES ASSUME NEW t \in Terms, Fitting(at, t), ~Done(at, t)
             PROVE  t \in todo' \/ Ahead(t)'
  BY <1>1, Compares
<1>4. table[t] \in {"name", "path"} => NameAhead(t)
  BY <1>1, <1>2 DEF SearchInv, Ahead
<1>5. /\ table[t] \in Tables
      /\ table[t] = "size" =>
           \E p \in DOMAIN Record.attrs : p > 0 /\ IsData(Record.attrs[p]) /\ t \in SizesHit(table, Record.attrs[p])
  <2>1. table[t] # "none" /\ Literal(t) /\ Fits(t, Range(ns), {a \in Range(Record.attrs) : a.opens})
    BY DEF Fitting, Record
  <2> HIDE DEF ns
  <2> QED
    BY <1>2, <1>3, <2>1, FitsAhead DEF ns
<1>6. CASE In(table, "name") \cup In(table, "path") = {} \/ pos = Len(ns)
  <2>1. pc' = "sizes" /\ pos' = 0
    BY <1>6 DEF NextName
  <2>2. table[t] \notin {"name", "path"}
    <3> SUFFICES ASSUME table[t] \in {"name", "path"} PROVE FALSE
      OBVIOUS
    <3>1. pos = Len(ns)
      BY <1>6 DEF In
    <3>2. PICK p \in DOMAIN ns : p > pos
      BY <1>4 DEF NameAhead
    <3> HIDE DEF ns
    <3> QED
      BY <1>3, <3>1, <3>2
  <2>3. table[t] = "size" => SizeAhead(t)'
    BY <1>2, <1>5, <2>1 DEF SizeAhead, SizesHit, In
  <2> QED
    BY <1>2, <1>5, <2>1, <2>2, <2>3 DEF Ahead, Tables
<1>7. CASE ~(In(table, "name") \cup In(table, "path") = {} \/ pos = Len(ns))
  <2>1. pos' = pos + 1 /\ (n.here => todo' = NamesHit(table, n) /\ pc' = pc)
    BY <1>7 DEF NextName
  <2>2. n.here
    <3>1. pos + 1 \in DOMAIN ns
      <4> DEFINE k == Len(ns)
      <4>1. pos \in 0 .. k /\ pos # k /\ k \in Nat /\ DOMAIN ns = 1 .. k
        BY <1>2, <1>3, <1>7
      <4> HIDE DEF ns, k
      <4> QED
        BY <4>1
    <3>2. n \in Range(ns)
      BY <3>1 DEF Range
    <3>3. \A v \in Range(ns) : v.here
      BY DEF Fitting, Record
    <3> HIDE DEF ns
    <3> QED
      BY <3>2, <3>3
  <2>3. table[t] \in {"name", "path"} => t \in todo' \/ NameAhead(t)'
    <3> SUFFICES ASSUME table[t] \in {"name", "path"}, t \notin todo' PROVE NameAhead(t)'
      OBVIOUS
    <3>1. PICK p \in DOMAIN ns : p > pos /\ t \in NamesHit(table, ns[p])
      BY <1>4 DEF NameAhead
    <3>2. p # pos + 1
      BY <2>1, <2>2, <3>1
    <3>3. p > pos + 1
      <4> HIDE DEF ns
      <4> QED
        BY <1>3, <3>1, <3>2
    <3> QED
      BY <1>2, <2>1, <3>1, <3>3 DEF NameAhead, NamesHit, In
  <2> QED
    BY <1>1, <1>2, <2>1, <2>2, <2>3 DEF Ahead
<1> QED
  BY <1>6, <1>7

LEMMA NextSizeSearches ==
  ASSUME FindInv, SearchInv, NextSize
  PROVE  SearchInv'
<1> DEFINE streams == Record.attrs
           a == streams[pos + 1]
<1>1. UNCHANGED <<tables, at, found, dropped>> /\ todo = {} /\ pc = "sizes"
  BY DEF NextSize
<1>2. /\ volume' = volume /\ table' = table /\ Record' = Record /\ TablesInv
      /\ Here /\ at # 0 /\ pos \in 0 .. Len(streams)
  BY <1>1 DEF tables, Record, FindInv, Here
<1>3. Len(streams) \in Nat /\ DOMAIN streams = 1 .. Len(streams) /\ pos \in Nat
  BY <1>2, RecordHere
<1> SUFFICES ASSUME NEW t \in Terms, Fitting(at, t), ~Done(at, t)
             PROVE  t \in todo' \/ Ahead(t)'
  BY <1>1, Compares
<1>4. table[t] \in {"size", "other"} /\ (table[t] = "size" => SizeAhead(t))
  BY <1>1, <1>2 DEF SearchInv, Ahead
<1> HIDE DEF a
<1>5. CASE In(table, "size") = {} \/ pos = Len(streams)
  <2>1. pc' = "terms" /\ todo' = In(table, "other")
    BY <1>5 DEF NextSize
  <2>2. table[t] # "size"
    <3> SUFFICES ASSUME table[t] = "size" PROVE FALSE
      OBVIOUS
    <3> DEFINE k == Len(streams)
    <3>1. pos = k /\ k \in Nat /\ DOMAIN streams = 1 .. k
      BY <1>3, <1>5 DEF In
    <3>2. PICK p \in DOMAIN streams : p > pos
      BY <1>4 DEF SizeAhead
    <3> HIDE DEF streams, k
    <3> QED
      BY <3>1, <3>2
  <2> QED
    BY <1>4, <2>1, <2>2 DEF In
<1>6. CASE ~(In(table, "size") = {} \/ pos = Len(streams))
  <2>1. pos' = pos + 1 /\ pc' = pc /\ (IsData(a) => todo' = SizesHit(table, a))
    BY <1>6 DEF NextSize, a
  <2>2. table[t] = "size" => t \in todo' \/ SizeAhead(t)'
    <3> SUFFICES ASSUME table[t] = "size", t \notin todo' PROVE SizeAhead(t)'
      OBVIOUS
    <3>1. PICK p \in DOMAIN streams : p > pos /\ IsData(streams[p]) /\ t \in SizesHit(table, streams[p])
      BY <1>4 DEF SizeAhead
    <3>2. p # pos + 1
      BY <2>1, <3>1 DEF a
    <3>3. p > pos + 1
      <4> HIDE DEF streams
      <4> QED
        BY <1>3, <3>1, <3>2
    <3> QED
      BY <1>2, <2>1, <3>1, <3>3 DEF SizeAhead, SizesHit, In
  <2> QED
    BY <1>1, <1>2, <1>4, <2>1, <2>2 DEF Ahead
<1> QED
  BY <1>5, <1>6

LEMMA LookUpSearches ==
  ASSUME FindInv, SearchInv, NEW u \in Terms, LookUp(u), UNCHANGED sampleVars
  PROVE  SearchInv'
<1>1. /\ UNCHANGED <<tables, pc, at, pos>> /\ u \in todo /\ todo' = todo \ {u}
      /\ \/ ~LookOK(u)
         \/ \E f : f.record = at /\ f.match = Looked(u, Blank).match /\ f \in found' \cup dropped'
  BY LookUpDoes
<1>2. pc # "config" /\ Here /\ table[u] # "none" /\ at # 0 /\ needed = NeededHashes /\ required[u] = Specific(u)
  BY <1>1 DEF FindInv, Here, TablesInv
<1>3. /\ \A i, t : Fitting(i, t)' <=> Fitting(i, t)
      /\ \A i, t : Done(i, t) => Done(i, t)'
  <2>1. [Next]_vars
    BY DEF Next, FindStep
  <2> QED
    BY <1>2, <2>1, KeptFitting
<1>4. \A t : Ahead(t)' <=> Ahead(t)
  BY <1>1 DEF tables, Ahead, NameAhead, SizeAhead, Record, NamesHit, SizesHit, In
<1>5. Fitting(at, u) => Done(at, u)'
  <2> SUFFICES ASSUME Fitting(at, u) PROVE Done(at, u)'
    OBVIOUS
  <2>1. required[u] \cap HashMask \subseteq needed
    BY <1>2, NeededOf
  <2>2. LookOK(u)
    BY <1>2, <2>1, FitsLooks DEF Fitting, Record
  <2>3. Looked(u, Blank).match.term = u
    BY <1>2, <2>2, LookedBlank
  <2> QED
    BY <1>1, <2>2, <2>3 DEF Done
<1> QED
  BY <1>1, <1>3, <1>4, <1>5 DEF SearchInv

LEMMA StepSearch == FindInv /\ SearchInv /\ [Next]_vars => SearchInv'
<1> SUFFICES ASSUME FindInv, SearchInv, [Next]_vars PROVE SearchInv'
  OBVIOUS
<1>1. (FindStep /\ UNCHANGED sampleVars) \/ Return \/ UNCHANGED findVars
  BY DEF Next, vars, SampleAttribute, CallbackReturns, CollectMatchingSamples
<1>2. CASE (\E t \in Terms : AddTerm(t) \/ AddExcludeTerm(t)) \/ Find
  <2>1. pc = "config" /\ at' = at
    BY <1>2 DEF AddTerm, AddExcludeTerm, Free, Find
  <2>2. at' = 0
    BY <2>1 DEF FindInv
  <2> QED
    BY <2>2 DEF SearchInv
<1>3. CASE Return \/ UNCHANGED findVars
  <2>1. UNCHANGED <<tables, pc, at, pos, todo, found, dropped>>
    BY <1>3 DEF Return, findVars
  <2>2. \A t : Ahead(t)' <=> Ahead(t)
    BY <2>1 DEF tables, Ahead, NameAhead, SizeAhead, Record, NamesHit, SizesHit, In
  <2> QED
    BY <2>1, <2>2, Compares DEF SearchInv
<1> QED
  BY <1>1, <1>2, <1>3, NextRecordSearches, NextNameSearches, NextSizeSearches, LookUpSearches DEF FindStep

LEMMA SearchedAll == FindInv /\ SearchInv => FoundAll
<1> SUFFICES ASSUME FindInv, SearchInv, NEW i \in 1 .. Len(volume), NEW t \in Terms, Compared(i), Fitting(i, t)
             PROVE  Done(i, t)
  BY DEF FoundAll, Fitting, Done
<1>1. at \in Nat
  <2>1. volume \in Seq(Range(volume))
    BY VolumesAssumption DEF FindInv
  <2>2. Len(volume) \in Nat
    BY <2>1
  <2> QED
    BY <2>2 DEF FindInv
<1>2. CASE i = at
  BY <1>1, <1>2 DEF Compared, SearchInv, Ahead
<1>3. CASE i # at
  <2>1. i \in 1 .. at - 1
    BY <1>1, <1>3 DEF Compared
  <2> QED
    BY <2>1 DEF SearchInv
<1> QED
  BY <1>2, <1>3

\* A record that has been compared was matched by every term it fits, whatever table the term is in.
THEOREM SearchFindsAll == Spec => []FoundAll
<1>1. Init => SearchInv
  BY DEF Init, FindInit, SearchInv
<1> QED
  BY <1>1, StepSearch, SearchedAll, SearchInvariant, PTL DEF Spec

-----------------------------------------------------------------------------
(***************************************************************************)
(* The samples: what one turn of the callback makes of the match.          *)
(***************************************************************************)
KeysCalled == {Key(at, i) : i \in Range(calling.attrs)}

LEMMA LeastIn ==
  ASSUME NEW S \in SUBSET Nat, S # {}
  PROVE  Min(S) \in S
BY Smallest DEF Min

\* The match the callback is given: its record, its term and its attributes.
LEMMA CalledMatch ==
  ASSUME FindInv, calling # NoMatch
  PROVE  /\ Here /\ calling.term \in Terms /\ calling.attrs \in Seq(DOMAIN volume[at].attrs)
         /\ Len(calling.attrs) \in Nat /\ DOMAIN calling.attrs = 1 .. Len(calling.attrs)
         /\ IsFiniteSet(KeysCalled) /\ SpecOf[calling.term] \in Specs
         /\ \A j \in DOMAIN calling.attrs : volume[at].attrs[calling.attrs[j]].size \in Nat
         /\ pc \notin {"config", "over"}
<1> DEFINE f == [record |-> at, match |-> calling]
           I == DOMAIN volume[at].attrs
           s == calling.attrs
<1>1. f \in found /\ pc \notin {"config", "over"} /\ volume \in Volumes
  BY DEF FindInv
<1>2. Reported(f)
  BY <1>1 DEF FindInv
<1>3. calling.term \in Terms /\ calling.attrs \in Seq(I) /\ at \in 1 .. at
  BY <1>2 DEF Reported
<1>4. Here
  <2>1. volume \in Seq(Range(volume))
    BY <1>1, VolumesAssumption
  <2>2. Len(volume) \in Nat
    BY <2>1
  <2> QED
    BY <1>1, <1>3, <2>2 DEF Here, FindInv
<1>5. \A i \in I : volume[at].attrs[i].size \in Nat
  BY <1>4, RecordIn DEF Here
<1> HIDE DEF I, s
<1>6. Len(s) \in Nat /\ DOMAIN s = 1 .. Len(s) /\ \A j \in DOMAIN s : s[j] \in I
  BY <1>3, ListDomain DEF s
<1>7. IsFiniteSet(KeysCalled)
  <2> DEFINE D == DOMAIN s
  <2>1. IsFiniteSet(D)
    BY <1>6, FS_Interval
  <2>2. KeysCalled = {Key(at, s[j]) : j \in D}
    BY DEF KeysCalled, Range, s
  <2> HIDE DEF D
  <2> DEFINE F == [j \in D |-> Key(at, s[j])]
  <2>3. F \in Surjection(D, KeysCalled)
    BY <2>2 DEF Surjection
  <2> HIDE DEF F
  <2> QED
    BY <2>1, <2>3, FS_Surjection
<1> QED
  BY <1>1, <1>3, <1>4, <1>5, <1>6, <1>7, LimitsAssumption DEF I, s

LEMMA SamplesAdded ==
  ASSUME FindInv, calling # NoMatch, NEW status, samples' = AddSamplesForMatch(status)
  PROVE  /\ DOMAIN samples' = DOMAIN samples \cup KeysCalled
         /\ \A k \in DOMAIN samples : samples'[k] = samples[k]
         /\ \A k \in KeysCalled \ DOMAIN samples :
              /\ samples'[k].spec = SpecOf[calling.term]
              /\ samples'[k].offLimits = (status \notin Within)
              /\ \E j \in DOMAIN calling.attrs :
                   Key(at, calling.attrs[j]) = k /\ samples'[k].size = volume[at].attrs[calling.attrs[j]].size
<1> DEFINE s == calling.attrs
           places(k) == {j \in DOMAIN s : Key(at, s[j]) = k}
           made(k) == [size |-> volume[at].attrs[s[Min(places(k))]].size, spec |-> SpecOf[calling.term],
                       offLimits |-> status \notin Within]
           New == KeysCalled \ DOMAIN samples
           all == [k \in New |-> made(k)]
<1>1. AddSamplesForMatch(status) =
        [k \in DOMAIN samples \cup DOMAIN all |-> IF k \in DOMAIN samples THEN samples[k] ELSE all[k]]
  BY DEF AddSamplesForMatch, KeysCalled
<1>2. DOMAIN all = New
  OBVIOUS
<1>3. \A k \in New : all[k] = made(k)
  OBVIOUS
<1>4. ASSUME NEW k \in New PROVE Min(places(k)) \in places(k)
  <2>1. places(k) # {}
    BY DEF KeysCalled, Range
  <2>2. places(k) \subseteq Nat
    BY CalledMatch
  <2> HIDE DEF places
  <2> QED
    BY <2>1, <2>2, LeastIn
<1> HIDE DEF all, New, made
<1>5. DOMAIN samples' = DOMAIN samples \cup KeysCalled
  BY <1>1, <1>2 DEF New
<1>6. \A k \in DOMAIN samples : samples'[k] = samples[k]
  BY <1>1, <1>2
<1>7. ASSUME NEW k \in New
      PROVE  /\ samples'[k].spec = SpecOf[calling.term]
             /\ samples'[k].offLimits = (status \notin Within)
             /\ \E j \in DOMAIN s : Key(at, s[j]) = k /\ samples'[k].size = volume[at].attrs[s[j]].size
  <2>1. samples'[k] = made(k)
    BY <1>1, <1>2, <1>3 DEF New
  <2>2. PICK j \in DOMAIN s : Key(at, s[j]) = k /\ j = Min(places(k))
    BY <1>4
  <2>3. /\ made(k).spec = SpecOf[calling.term] /\ made(k).offLimits = (status \notin Within)
        /\ made(k).size = volume[at].attrs[s[Min(places(k))]].size
    BY DEF made
  <2> HIDE DEF made, places
  <2> QED
    BY <2>1, <2>2, <2>3
<1> QED
  BY <1>5, <1>6, <1>7 DEF New

\* What is kept after it.
LEMMA KeptAdded ==
  ASSUME FindInv, calling # NoMatch, NEW status, samples' = AddSamplesForMatch(status)
  PROVE  Kept' = Kept \cup (IF status \in Within THEN KeysCalled \ DOMAIN samples ELSE {})
BY SamplesAdded DEF Kept

LEMMA KeptFinite ==
  ASSUME IsFiniteSet(DOMAIN samples)
  PROVE  IsFiniteSet(Kept) /\ Cardinality(Kept) \in Nat
<1>1. Kept \subseteq DOMAIN samples
  BY DEF Kept
<1> QED
  BY <1>1, FS_Subset, FS_CardinalityType

\* The search goes on when no callback is running.
LEMMA SearchWaits ==
  ASSUME FindInv, FindStep
  PROVE  calling = NoMatch /\ pc # "over" /\ calling.attrs = <<>>
<1>1. calling = NoMatch
  BY DEF FindInv, FindStep, AddTerm, AddExcludeTerm, Free, Find, NextRecord, NextName, NextSize, LookUp, Running
<1>2. pc # "over"
  BY DEF FindInv, FindStep, AddTerm, AddExcludeTerm, Free, Find, NextRecord, NextName, NextSize, LookUp
<1> QED
  BY <1>1, <1>2 DEF NoMatch, Blank

LEMMA SearchKeepsSamples ==
  ASSUME FindInv, SampleInv, FindStep, UNCHANGED sampleVars
  PROVE  SampleInv'
<1>1. calling = NoMatch /\ pc # "over" /\ calling.attrs = <<>>
  BY SearchWaits
<1>2. UNCHANGED <<samples, spent, reached, next, collected>>
  BY DEF sampleVars
<1>3. collected = {} /\ next = 1
  BY <1>1 DEF SampleInv
<1>4. FindInv' /\ [Next]_vars
  BY StepFind DEF Next
<1>5. next' \in 1 .. Len(calling'.attrs) + 1
  <2>1. Len(calling'.attrs) \in Nat
    <3>1. CASE calling' = NoMatch
      BY <3>1 DEF NoMatch, Blank
    <3>2. CASE calling' # NoMatch
      <4>1. [record |-> at', match |-> calling'] \in found'
        BY <1>4, <3>2 DEF FindInv
      <4>2. calling'.attrs \in Seq(DOMAIN volume'[at'].attrs)
        BY <1>4, <4>1 DEF FindInv, Reported
      <4> QED
        BY <4>2, ListDomain
    <3> QED
      BY <3>1, <3>2
  <2> QED
    BY <1>2, <1>3, <2>1
<1>6. ASSUME NEW f \in found'
      PROVE  \/ \A i \in Range(f.match.attrs) : Key(f.record, i)' \in DOMAIN samples
             \/ next' = 1 /\ f = [record |-> at', match |-> calling']
  <2>1. CASE pc = "config"
    BY <1>4, <2>1, NoneFound
  <2>2. CASE pc # "config" /\ f \in found
    <3>1. volume' = volume
      BY <1>4, <2>2, StepReports DEF tables
    <3>2. CASE \A i \in Range(f.match.attrs) : Key(f.record, i) \in DOMAIN samples
      BY <3>1, <3>2 DEF Key
    <3>3. CASE f = [record |-> at, match |-> calling]
      BY <1>1, <3>3 DEF Range
    <3> QED
      BY <2>2, <3>2, <3>3 DEF SampleInv
  <2>3. CASE pc # "config" /\ f \notin found
    <3>1. PICK t \in todo : LookUp(t) /\ f = [record |-> at, match |-> Looked(t, Blank).match]
      BY <1>4, <2>3, StepReports
    <3>2. f = [record |-> at', match |-> calling']
      <4>1. t \in Terms
        BY DEF FindInv
      <4> QED
        BY <2>3, <3>1, <4>1, LookUpDoes
    <3> QED
      BY <1>2, <1>3, <3>2
  <2> QED
    BY <2>1, <2>2, <2>3
<1>7. Kept' = Kept
  BY <1>2 DEF Kept
<1> QED
  BY <1>2, <1>3, <1>5, <1>6, <1>7 DEF SampleInv

LEMMA CallbackSamples ==
  ASSUME FindInv, SampleInv, SampleAttribute
  PROVE  SampleInv'
<1> DEFINE s == calling.attrs
           size == volume[at].attrs[s[next]].size
           spec == SpecOf[calling.term]
           status == SampleLimitStatus(spec, size)
<1>1. /\ calling # NoMatch /\ next <= Len(s) /\ next' = next + 1 /\ UNCHANGED <<findVars, collected>>
      /\ samples' = AddSamplesForMatch(status)
      /\ spent' = IF status \in Within /\ ~LastIsDuplicate THEN Account(size, spec) ELSE spent
  BY DEF SampleAttribute
<1>2. /\ volume' = volume /\ at' = at /\ calling' = calling /\ found' = found /\ pc' = pc
  BY <1>1 DEF findVars, tables
<1>3. /\ Len(s) \in Nat /\ DOMAIN s = 1 .. Len(s) /\ spec \in Specs /\ pc # "over" /\ IsFiniteSet(KeysCalled)
      /\ \A j \in DOMAIN s : volume[at].attrs[s[j]].size \in Nat
  BY <1>1, CalledMatch
<1>4. next \in Nat /\ next \in DOMAIN s
  BY <1>1, <1>3 DEF SampleInv
<1>5. size \in Nat
  BY <1>3, <1>4
<1> HIDE DEF status, size, spec
<1>6. /\ DOMAIN samples' = DOMAIN samples \cup KeysCalled
      /\ \A k \in DOMAIN samples : samples'[k] = samples[k]
      /\ \A k \in KeysCalled \ DOMAIN samples :
           /\ samples'[k].spec = spec
           /\ samples'[k].offLimits = (status \notin Within)
           /\ \E j \in DOMAIN s : Key(at, s[j]) = k /\ samples'[k].size = volume[at].attrs[s[j]].size
  BY <1>1, SamplesAdded DEF spec
<1>7. IsFiniteSet(DOMAIN samples')
  <2>1. IsFiniteSet(DOMAIN samples)
    BY DEF SampleInv
  <2>2. IsFiniteSet(DOMAIN samples \cup KeysCalled)
    BY <1>3, <2>1, FS_Union
  <2>3. DOMAIN samples' = DOMAIN samples \cup KeysCalled
    BY <1>6
  <2> QED
    BY <2>2, <2>3
<1>8. \A k \in DOMAIN samples' :
        samples'[k].offLimits \in BOOLEAN /\ samples'[k].spec \in Specs /\ samples'[k].size \in Nat
  BY <1>3, <1>6 DEF SampleInv
<1>9. spent' \in [Specs \cup {All} -> [count : Nat, bytes : Nat]]
  <2>1. spent \in [Specs \cup {All} -> [count : Nat, bytes : Nat]]
    BY DEF SampleInv
  <2>2. \A u \in Specs \cup {All} : /\ spent[u].count + 1 \in Nat /\ spent[u].bytes + size \in Nat
                                  /\ [count |-> spent[u].count + 1, bytes |-> spent[u].bytes + size]
                                       \in [count : Nat, bytes : Nat]
    BY <1>5, <2>1
  <2>3. Account(size, spec) \in [Specs \cup {All} -> [count : Nat, bytes : Nat]]
    BY <2>1, <2>2 DEF Account
  <2> QED
    BY <1>1, <2>1, <2>3
<1>10. \A f \in found' : \A i \in Range(f.match.attrs) : Key(f.record, i)' \in DOMAIN samples'
  <2> SUFFICES ASSUME NEW f \in found, NEW i \in Range(f.match.attrs)
               PROVE  Key(f.record, i) \in DOMAIN samples'
    BY <1>2 DEF Key
  <2>1. CASE f = [record |-> at, match |-> calling]
    BY <1>6, <2>1 DEF KeysCalled
  <2>2. CASE f # [record |-> at, match |-> calling]
    BY <1>6, <2>2 DEF SampleInv
  <2> QED
    BY <2>1, <2>2
<1>11. Kept' = Kept \cup (IF status \in Within THEN KeysCalled \ DOMAIN samples ELSE {})
  BY <1>1, KeptAdded
<1>12. spent'[All].count <= Cardinality(Kept')
  <2>1. /\ IsFiniteSet(Kept) /\ IsFiniteSet(Kept') /\ Kept \subseteq Kept'
        /\ Cardinality(Kept) \in Nat /\ Cardinality(Kept') \in Nat /\ Cardinality(Kept) <= Cardinality(Kept')
    <3>1. IsFiniteSet(Kept) /\ Cardinality(Kept) \in Nat
      BY KeptFinite DEF SampleInv
    <3>2. Kept' \subseteq DOMAIN samples' /\ Kept \subseteq Kept'
      BY <1>11 DEF Kept
    <3>3. IsFiniteSet(Kept')
      BY <1>7, <3>2, FS_Subset
    <3> QED
      BY <3>1, <3>2, <3>3, FS_CardinalityType, FS_Subset
  <2>2. spent[All].count \in Nat /\ spent[All].count <= Cardinality(Kept)
    BY DEF SampleInv
  <2>3. CASE spent' = spent
    BY <2>1, <2>2, <2>3
  <2>4. CASE status \in Within /\ ~LastIsDuplicate /\ spent' = Account(size, spec)
    <3> DEFINE k == Key(at, s[Len(s)])
    <3>1. k \in KeysCalled /\ k \notin DOMAIN samples
      <4>1. Len(s) \in DOMAIN s
        BY <1>1, <1>3, <1>4
      <4> QED
        BY <2>4, <4>1 DEF LastIsDuplicate, KeysCalled, Range
    <3>2. k \in Kept' /\ k \notin Kept
      BY <1>11, <2>4, <3>1 DEF Kept
    <3> HIDE DEF k
    <3>3. Cardinality(Kept \cup {k}) = Cardinality(Kept) + 1 /\ Cardinality(Kept \cup {k}) <= Cardinality(Kept')
      <4>1. Kept \cup {k} \subseteq Kept'
        BY <2>1, <3>2
      <4> QED
        BY <2>1, <3>2, <4>1, FS_AddElement, FS_Subset
    <3>4. spent'[All].count = spent[All].count + 1
      BY <2>4 DEF Account, SampleInv
    <3> QED
      BY <2>1, <2>2, <3>3, <3>4
  <2> QED
    BY <1>1, <2>3, <2>4
<1>13. next' \in 1 .. Len(calling'.attrs) + 1
  BY <1>1, <1>2, <1>3, <1>4
<1>14. collected' = {}
  BY <1>1, <1>3 DEF SampleInv
<1> QED
  BY <1>7, <1>8, <1>9, <1>10, <1>12, <1>13, <1>14 DEF SampleInv

LEMMA ReturnKeepsSamples ==
  ASSUME FindInv, SampleInv, CallbackReturns
  PROVE  SampleInv'
<1>1. /\ next > Len(calling.attrs) /\ next' = 1 /\ UNCHANGED <<samples, spent, reached, collected>>
      /\ UNCHANGED <<tables, pc, at, found>> /\ calling' = NoMatch /\ calling # NoMatch
  BY DEF CallbackReturns, Return
<1>2. Kept' = Kept /\ volume' = volume
  BY <1>1 DEF Kept, tables
<1>3. next' \in 1 .. Len(calling'.attrs) + 1
  BY <1>1 DEF NoMatch, Blank
<1>4. \A f \in found : \A i \in Range(f.match.attrs) : Key(f.record, i) \in DOMAIN samples
  <2> SUFFICES ASSUME NEW f \in found, next = 1, f = [record |-> at, match |-> calling]
               PROVE  Range(f.match.attrs) = {}
    BY DEF SampleInv
  <2>1. Len(calling.attrs) \in Nat /\ DOMAIN calling.attrs = 1 .. Len(calling.attrs)
    BY <1>1, CalledMatch
  <2>2. Len(calling.attrs) = 0
    BY <1>1, <2>1
  <2>3. DOMAIN calling.attrs = {}
    BY <2>1, <2>2
  <2> QED
    BY <2>3 DEF Range
<1> QED
  BY <1>1, <1>2, <1>3, <1>4 DEF SampleInv, Key

LEMMA StepSamples == FindInv /\ SampleInv /\ [Next]_vars => SampleInv'
<1> SUFFICES ASSUME FindInv, SampleInv, [Next]_vars PROVE SampleInv'
  OBVIOUS
<1>1. CASE CollectMatchingSamples
  <2>1. pc = "over" /\ collected' \subseteq Kept /\ UNCHANGED <<findVars, samples, spent, next>>
    BY <1>1 DEF CollectMatchingSamples
  <2>2. volume' = volume /\ pc' = pc /\ at' = at /\ calling' = calling /\ found' = found /\ Kept' = Kept
    BY <2>1 DEF findVars, tables, Kept
  <2> QED
    BY <2>1, <2>2 DEF SampleInv, Key
<1>2. CASE UNCHANGED vars
  <2>1. UNCHANGED <<findVars, samples, spent, next, collected>>
    BY <1>2 DEF vars, sampleVars
  <2>2. volume' = volume /\ pc' = pc /\ at' = at /\ calling' = calling /\ found' = found /\ Kept' = Kept
    BY <2>1 DEF findVars, tables, Kept
  <2> QED
    BY <2>1, <2>2 DEF SampleInv, Key
<1> QED
  BY <1>1, <1>2, SearchKeepsSamples, CallbackSamples, ReturnKeepsSamples DEF Next

LEMMA InitSamples == Init => SampleInv
<1> SUFFICES ASSUME Init PROVE SampleInv
  OBVIOUS
<1>1. samples = <<>> /\ collected = {} /\ next = 1 /\ calling.attrs = <<>> /\ found = {}
  BY DEF Init, FindInit, NoMatch, Blank
<1>2. DOMAIN samples = {}
  BY <1>1
<1>3. IsFiniteSet(DOMAIN samples) /\ Kept = {} /\ Cardinality(Kept) = 0
  BY <1>2, FS_EmptySet DEF Kept
<1>4. spent \in [Specs \cup {All} -> [count : Nat, bytes : Nat]] /\ spent[All].count = 0
  BY DEF Init, Nothing
<1> QED
  BY <1>1, <1>2, <1>3, <1>4 DEF SampleInv

LEMMA SampleInvariant == Spec => []SampleInv
BY InitSamples, StepSamples, SearchInvariant, PTL DEF Spec

\* The type invariant of the search and of the samples.
THEOREM SearchTypes == Spec => []TypeOK
<1>1. FindInv => FindTypeOK
  <2> SUFFICES ASSUME FindInv PROVE FindTypeOK
    OBVIOUS
  <2>1. \A t \in Terms : required[t] \subseteq Criteria /\ {table[t], exclude[t]} \subseteq Tables \cup {"none"}
    BY DEF FindInv, TablesInv
  <2>2. Len(volume) \in Nat
    <3>1. volume \in Seq(Range(volume))
      BY VolumesAssumption DEF FindInv
    <3> QED
      BY <3>1
  <2>3. \A f \in found \cup dropped : f.match.term \in Terms /\ f.record \in 1 .. Len(volume)
    <3> SUFFICES ASSUME NEW f \in found \cup dropped
                 PROVE  f.match.term \in Terms /\ f.record \in 1 .. Len(volume)
      OBVIOUS
    <3>1. f.match.term \in Terms /\ f.record \in 1 .. at
      BY DEF FindInv, Reported
    <3>2. at \in 0 .. Len(volume)
      BY DEF FindInv
    <3> QED
      BY <2>2, <3>1, <3>2
  <2> QED
    BY <2>1, <2>3 DEF FindInv, FindTypeOK
<1>2. SampleInv => GetTypeOK
  BY DEF SampleInv, GetTypeOK
<1> QED
  BY <1>1, <1>2, SearchInvariant, SampleInvariant, PTL DEF TypeOK

\* Once the callback has returned, every attribute of every match has its sample.
THEOREM MatchesAreSampled == Spec => []EveryMatchSampled
<1>1. SampleInv => EveryMatchSampled
  <2> SUFFICES ASSUME SampleInv, calling = NoMatch, NEW f \in found, NEW i \in Range(f.match.attrs)
               PROVE  Key(f.record, i) \in DOMAIN samples
    BY DEF EveryMatchSampled, SampleInv
  <2>1. f # [record |-> at, match |-> calling]
    BY DEF NoMatch, Blank, Range
  <2> QED
    BY <2>1 DEF SampleInv
<1> QED
  BY <1>1, SampleInvariant, PTL

-----------------------------------------------------------------------------
(***************************************************************************)
(* The sum of the sizes of a set of samples.  It is the value, at the set, *)
(* of a function on its subsets, so that it has to be shown that there is  *)
(* one such function; then the sample that is taken away first is of no    *)
(* importance.                                                             *)
(***************************************************************************)
Chosen(x) == CHOOSE k \in x : TRUE

\* g gives each subset of S the sum of the sizes that f has there.
IsTotal(g, f, S) == g = [x \in SUBSET S |-> IF x = {} THEN 0 ELSE f[Chosen(x)].size + g[x \ {Chosen(x)}]]
Total(f, S) == (CHOOSE g : IsTotal(g, f, S))[S]

LEMMA SumUnfold ==
  ASSUME NEW S
  PROVE  MapThenSumSet(Size, S) = Total(samples, S)
BY DEF MapThenSumSet, MapThenFoldSet, Size, IsTotal, Chosen, Total

LEMMA LeastSubset ==
  ASSUME NEW S, IsFiniteSet(S), NEW Bad, Bad \subseteq SUBSET S, Bad # {}
  PROVE  \E x \in Bad : \A y \in Bad : ~(y \subseteq x /\ y # x)
<1>1. FiniteSubsetsOf(S) = SUBSET S
  BY FS_FiniteSubsetsOfFinite
<1>2. IsWellFoundedOn(StrictSubsetOrdering(S), SUBSET S)
  BY <1>1, FS_StrictSubsetOrderingWellFounded
<1>3. PICK x \in Bad : \A y \in Bad : <<y, x>> \notin StrictSubsetOrdering(S)
  BY <1>2, WFMin
<1> QED
  BY <1>3 DEF StrictSubsetOrdering

LEMMA TotalUnique ==
  ASSUME NEW W, IsFiniteSet(W), NEW f, NEW S \in SUBSET W, NEW T \in SUBSET W, NEW g, NEW h,
         IsTotal(g, f, S), IsTotal(h, f, T)
  PROVE  \A x \in SUBSET (S \cap T) : g[x] = h[x]
<1> DEFINE Bad == {x \in SUBSET (S \cap T) : g[x] # h[x]}
<1> SUFFICES ASSUME Bad # {} PROVE FALSE
  OBVIOUS
<1>1. PICK x \in Bad : \A y \in Bad : ~(y \subseteq x /\ y # x)
  <2>1. Bad \subseteq SUBSET W
    OBVIOUS
  <2> HIDE DEF Bad
  <2> QED
    BY <2>1, LeastSubset
<1>2. CASE x = {}
  BY <1>1, <1>2 DEF IsTotal
<1>3. CASE x # {}
  <2>1. Chosen(x) \in x
    BY <1>3 DEF Chosen
  <2>2. x \ {Chosen(x)} \in SUBSET (S \cap T) /\ x \ {Chosen(x)} # x
    BY <1>1, <2>1
  <2>3. g[x \ {Chosen(x)}] = h[x \ {Chosen(x)}]
    BY <1>1, <2>2
  <2>4. /\ g[x] = f[Chosen(x)].size + g[x \ {Chosen(x)}]
        /\ h[x] = f[Chosen(x)].size + h[x \ {Chosen(x)}]
    BY <1>1, <1>3 DEF IsTotal
  <2> QED
    BY <1>1, <2>3, <2>4
<1> QED
  BY <1>2, <1>3

LEMMA TotalExists ==
  ASSUME NEW W, IsFiniteSet(W), NEW f, \A k \in W : f[k].size \in Nat
  PROVE  \E g \in [SUBSET W -> Nat] : IsTotal(g, f, W)
<1> DEFINE Bad == {x \in SUBSET W : ~\E g \in [SUBSET x -> Nat] : IsTotal(g, f, x)}
<1> SUFFICES ASSUME Bad # {} PROVE FALSE
  OBVIOUS
<1>1. PICK S \in Bad : \A y \in Bad : ~(y \subseteq S /\ y # S)
  <2>1. Bad \subseteq SUBSET W
    OBVIOUS
  <2> HIDE DEF Bad
  <2> QED
    BY <2>1, LeastSubset
<1> DEFINE part(x) == CHOOSE g : g \in [SUBSET x -> Nat] /\ IsTotal(g, f, x)
           value(x) == part(x)[x]
           F == [x \in SUBSET S |-> IF x # S THEN value(x) ELSE IF S = {} THEN 0
                                    ELSE f[Chosen(S)].size + value(S \ {Chosen(S)})]
<1>2. \A x \in SUBSET S : x # S => part(x) \in [SUBSET x -> Nat] /\ IsTotal(part(x), f, x)
  BY <1>1
<1> HIDE DEF part
<1>3. \A x \in SUBSET S : x # S => value(x) \in Nat
  BY <1>2
<1>4. S # {} => Chosen(S) \in S /\ f[Chosen(S)].size \in Nat
  BY <1>1 DEF Chosen
<1>5. F \in [SUBSET S -> Nat]
  <2>1. ASSUME S # {} PROVE f[Chosen(S)].size + value(S \ {Chosen(S)}) \in Nat
    <3>1. value(S \ {Chosen(S)}) \in Nat
      BY <1>3, <1>4, <2>1
    <3> HIDE DEF value
    <3> QED
      BY <1>4, <2>1, <3>1
  <2> QED
    BY <1>3, <2>1
<1>6. ASSUME NEW x \in SUBSET S
      PROVE  F[x] = IF x = {} THEN 0 ELSE f[Chosen(x)].size + F[x \ {Chosen(x)}]
  <2>1. CASE x = S
    <3>1. CASE S = {}
      BY <2>1, <3>1
    <3>2. CASE S # {}
      <4>1. S \ {Chosen(S)} \in SUBSET S /\ S \ {Chosen(S)} # S
        BY <1>4, <3>2
      <4>2. F[S \ {Chosen(S)}] = value(S \ {Chosen(S)})
        BY <4>1
      <4> QED
        BY <2>1, <3>2, <4>2
    <3> QED
      BY <3>1, <3>2
  <2>2. CASE x # S
    <3>1. IsTotal(part(x), f, x) /\ F[x] = part(x)[x]
      BY <1>2, <2>2
    <3>2. CASE x = {}
      BY <3>1, <3>2 DEF IsTotal
    <3>3. CASE x # {}
      <4> DEFINE y == x \ {Chosen(x)}
      <4>1. Chosen(x) \in x
        BY <3>3 DEF Chosen
      <4>2. y \in SUBSET S /\ y # S /\ y \in SUBSET (x \cap y) /\ y \in SUBSET x
        BY <4>1
      <4>3. part(x)[x] = f[Chosen(x)].size + part(x)[y]
        BY <3>1, <3>3 DEF IsTotal
      <4>4. part(x)[y] = part(y)[y]
        <5>1. IsTotal(part(y), f, y)
          BY <1>2, <4>2
        <5>2. x \in SUBSET W /\ y \in SUBSET W
          BY <1>1, <4>2
        <5> HIDE DEF y
        <5> QED
          BY <3>1, <4>2, <5>1, <5>2, TotalUnique
      <4>5. F[y] = value(y)
        BY <4>2
      <4> QED
        BY <3>1, <3>3, <4>3, <4>4, <4>5
    <3> QED
      BY <3>2, <3>3
  <2> QED
    BY <2>1, <2>2
<1>7. IsTotal(F, f, S)
  <2>1. F = [x \in SUBSET S |-> F[x]]
    OBVIOUS
  <2> HIDE DEF F
  <2> QED
    BY <1>6, <2>1 DEF IsTotal
<1> HIDE DEF F
<1> QED
  BY <1>1, <1>5, <1>7

\* The sum of a set, from the sum of the set without the sample that is taken away first.
LEMMA TotalStep ==
  ASSUME NEW W, IsFiniteSet(W), NEW f, \A k \in W : f[k].size \in Nat
  PROVE  /\ \A S \in SUBSET W : Total(f, S) \in Nat
         /\ Total(f, {}) = 0
         /\ \A S \in SUBSET W : S # {} => Total(f, S) = f[Chosen(S)].size + Total(f, S \ {Chosen(S)})
<1>1. PICK g \in [SUBSET W -> Nat] : IsTotal(g, f, W)
  BY TotalExists
<1>2. \A S \in SUBSET W : Total(f, S) = g[S]
  <2> SUFFICES ASSUME NEW S \in SUBSET W PROVE Total(f, S) = g[S]
    OBVIOUS
  <2>1. IsFiniteSet(S) /\ \A k \in S : f[k].size \in Nat
    BY FS_Subset
  <2>2. \E h : IsTotal(h, f, S)
    BY <2>1, TotalExists
  <2>3. IsTotal(CHOOSE h : IsTotal(h, f, S), f, S)
    BY <2>2
  <2>4. S \in SUBSET (S \cap W) /\ W \in SUBSET W
    OBVIOUS
  <2> QED
    BY <1>1, <2>3, <2>4, TotalUnique DEF Total
<1>3. \A x \in SUBSET W : g[x] = IF x = {} THEN 0 ELSE f[Chosen(x)].size + g[x \ {Chosen(x)}]
  BY <1>1 DEF IsTotal
<1> QED
  BY <1>1, <1>2, <1>3, ZenonT(60)

\* Whichever sample is taken away.
LEMMA TotalRemove ==
  ASSUME NEW W, IsFiniteSet(W), NEW f, \A k \in W : f[k].size \in Nat
  PROVE  \A S \in SUBSET W : \A k \in S : Total(f, S) = f[k].size + Total(f, S \ {k})
<1> DEFINE Bad == {S \in SUBSET W : \E k \in S : Total(f, S) # f[k].size + Total(f, S \ {k})}
<1> SUFFICES ASSUME Bad # {} PROVE FALSE
  OBVIOUS
<1>1. PICK S \in Bad : \A y \in Bad : ~(y \subseteq S /\ y # S)
  <2>1. Bad \subseteq SUBSET W
    OBVIOUS
  <2> HIDE DEF Bad
  <2> QED
    BY <2>1, LeastSubset
<1>2. PICK k \in S : Total(f, S) # f[k].size + Total(f, S \ {k})
  BY <1>1
<1> DEFINE a == Chosen(S)
<1>3. S \in SUBSET W /\ a \in S
  BY <1>1, <1>2 DEF Chosen
<1>4. Total(f, S) = f[a].size + Total(f, S \ {a})
  BY <1>3, TotalStep
<1> HIDE DEF a
<1>5. a # k
  BY <1>2, <1>4
<1>6. ASSUME NEW x \in S, NEW y \in S, x # y
      PROVE  Total(f, S \ {x}) = f[y].size + Total(f, (S \ {x}) \ {y})
  <2> DEFINE R == S \ {x}
  <2>1. R \in SUBSET W /\ R \subseteq S /\ R # S /\ y \in R
    BY <1>3, <1>6
  <2>2. R \notin Bad
    <3> HIDE DEF R, Bad
    <3> QED
      BY <1>1, <2>1
  <2> HIDE DEF R
  <2>3. Total(f, R) = f[y].size + Total(f, R \ {y})
    BY <2>1, <2>2
  <2> QED
    BY <2>3 DEF R
<1>7. /\ Total(f, S \ {a}) = f[k].size + Total(f, (S \ {a}) \ {k})
      /\ Total(f, S \ {k}) = f[a].size + Total(f, (S \ {k}) \ {a})
  BY <1>3, <1>5, <1>6
<1>8. (S \ {k}) \ {a} = (S \ {a}) \ {k}
  OBVIOUS
<1>9. f[a].size \in Nat /\ f[k].size \in Nat /\ Total(f, (S \ {a}) \ {k}) \in Nat
  BY <1>3, TotalStep
<1> QED
  BY <1>2, <1>4, <1>7, <1>8, <1>9

\* The sum depends on the sizes of the samples of the set only.
LEMMA TotalSame ==
  ASSUME NEW W, IsFiniteSet(W), NEW f, NEW h, \A k \in W : f[k].size \in Nat /\ h[k] = f[k]
  PROVE  Total(h, W) = Total(f, W)
<1>1. PICK g \in [SUBSET W -> Nat] : IsTotal(g, f, W)
  BY TotalExists
<1>2. IsTotal(g, h, W)
  <2>1. \A x \in SUBSET W : x # {} => h[Chosen(x)] = f[Chosen(x)]
    BY DEF Chosen
  <2>2. \A x \in SUBSET W : g[x] = IF x = {} THEN 0 ELSE h[Chosen(x)].size + g[x \ {Chosen(x)}]
    BY <1>1, <2>1 DEF IsTotal
  <2>3. g = [x \in SUBSET W |-> g[x]]
    OBVIOUS
  <2> QED
    BY <2>2, <2>3 DEF IsTotal
<1>3. IsTotal(CHOOSE q : IsTotal(q, h, W), h, W) /\ IsTotal(CHOOSE q : IsTotal(q, f, W), f, W)
  BY <1>1, <1>2
<1>4. W \in SUBSET (W \cap W) /\ W \in SUBSET W
  OBVIOUS
<1>5. Total(h, W) = g[W] /\ Total(f, W) = g[W]
  BY <1>1, <1>2, <1>3, <1>4, TotalUnique DEF Total
<1> QED
  BY <1>5

-----------------------------------------------------------------------------
(***************************************************************************)
(* What is accounted, said of any map of samples: of those that are kept,  *)
(* and of those of one specification, the number and the bytes.            *)
(***************************************************************************)
KeptIn(f) == {k \in DOMAIN f : ~f[k].offLimits}
KeptFor(f, s) == {k \in KeptIn(f) : f[k].spec = s}
Tally(f, K) == [count |-> Cardinality(K), bytes |-> Total(f, K)]
Bounded(l, f, K) ==
  /\ ~Over(Cardinality(K), l.count) /\ ~Over(Total(f, K), l.bytes)
  /\ \A k \in K : ~Over(f[k].size, l.perSample)
Tallied(f, account) ==
  /\ account[All] = Tally(f, KeptIn(f)) /\ Bounded(GlobalLimits, f, KeptIn(f))
  /\ \A s \in Specs : account[s] = Tally(f, KeptFor(f, s)) /\ Bounded(LocalLimits[s], f, KeptFor(f, s))

\* What is accounted after one more sample of the specification c, and that it is within the limits.
Charge(account, size, c) ==
  [s \in DOMAIN account |->
     IF s \in {All, c} THEN [count |-> account[s].count + 1, bytes |-> account[s].bytes + size] ELSE account[s]]
HasRoom(account, size, c) ==
  /\ ~Over(account[All].count + 1, GlobalLimits.count) /\ ~Over(account[c].count + 1, LocalLimits[c].count)
  /\ ~Over(size, GlobalLimits.perSample) /\ ~Over(size + account[All].bytes, GlobalLimits.bytes)
  /\ ~Over(size, LocalLimits[c].perSample) /\ ~Over(size + account[c].bytes, LocalLimits[c].bytes)

\* One more sample, within the limits, is one more of those that are kept.
LEMMA TallyAdd ==
  ASSUME NEW K, IsFiniteSet(K), NEW f, NEW h, NEW k, k \notin K, NEW l,
         \A j \in K : f[j].size \in Nat /\ h[j] = f[j], h[k].size \in Nat,
         Bounded(l, f, K), ~Over(Cardinality(K) + 1, l.count), ~Over(h[k].size + Total(f, K), l.bytes),
         ~Over(h[k].size, l.perSample)
  PROVE  /\ Tally(h, K \cup {k}) = [count |-> Tally(f, K).count + 1, bytes |-> Tally(f, K).bytes + h[k].size]
         /\ Bounded(l, h, K \cup {k})
<1> DEFINE W == K \cup {k}
<1>1. IsFiniteSet(W) /\ Cardinality(W) = Cardinality(K) + 1
  BY FS_AddElement
<1>2. Total(h, K) = Total(f, K) /\ Total(f, K) \in Nat
  <2>1. K \in SUBSET K
    OBVIOUS
  <2> QED
    BY <2>1, TotalSame, TotalStep
<1>3. \A j \in W : h[j].size \in Nat
  OBVIOUS
<1>4. W \in SUBSET W /\ k \in W /\ W \ {k} = K
  OBVIOUS
<1> HIDE DEF W
<1>5. Total(h, W) = h[k].size + Total(h, K)
  BY <1>1, <1>3, <1>4, TotalRemove
<1>6. Total(h, W) = h[k].size + Total(f, K) /\ Total(h, W) = Total(f, K) + h[k].size
  BY <1>2, <1>5
<1>7. \A j \in W : ~Over(h[j].size, l.perSample)
  BY DEF Bounded, W
<1> QED
  BY <1>1, <1>6, <1>7 DEF Tally, Bounded, W

\* What is kept stays what it was.
LEMMA TallySame ==
  ASSUME NEW K, IsFiniteSet(K), NEW f, NEW h, \A j \in K : f[j].size \in Nat /\ h[j] = f[j]
  PROVE  Tally(h, K) = Tally(f, K) /\ \A l : Bounded(l, f, K) => Bounded(l, h, K)
<1>1. Total(h, K) = Total(f, K)
  BY TotalSame
<1> QED
  BY <1>1 DEF Tally, Bounded

LEMMA KeptParts ==
  ASSUME NEW f, IsFiniteSet(DOMAIN f)
  PROVE  /\ KeptIn(f) \subseteq DOMAIN f /\ IsFiniteSet(KeptIn(f))
         /\ \A s : KeptFor(f, s) \subseteq DOMAIN f /\ IsFiniteSet(KeptFor(f, s))
<1>1. KeptIn(f) \subseteq DOMAIN f
  BY DEF KeptIn
<1>2. IsFiniteSet(KeptIn(f))
  BY <1>1, FS_Subset
<1>3. ASSUME NEW s
      PROVE  KeptFor(f, s) \subseteq DOMAIN f /\ IsFiniteSet(KeptFor(f, s))
  <2>1. KeptFor(f, s) \subseteq DOMAIN f
    BY <1>1 DEF KeptFor
  <2> QED
    BY <2>1, FS_Subset
<1> QED
  BY <1>1, <1>2, <1>3

LEMMA TalliedSame ==
  ASSUME NEW f, NEW h, NEW account, IsFiniteSet(DOMAIN f), KeptIn(h) = KeptIn(f), Tallied(f, account),
         \A k \in DOMAIN f : f[k].size \in Nat /\ h[k] = f[k]
  PROVE  Tallied(h, account)
<1>1. ASSUME NEW K \in SUBSET DOMAIN f
      PROVE  Tally(h, K) = Tally(f, K) /\ \A l : Bounded(l, f, K) => Bounded(l, h, K)
  <2>1. IsFiniteSet(K) /\ \A j \in K : f[j].size \in Nat /\ h[j] = f[j]
    BY FS_Subset
  <2> QED
    BY <2>1, TallySame
<1>2. KeptIn(f) \in SUBSET DOMAIN f /\ \A s : KeptFor(f, s) \in SUBSET DOMAIN f
  BY KeptParts
<1>3. \A s : KeptFor(h, s) = KeptFor(f, s)
  BY <1>2 DEF KeptFor, KeptIn
<1>4. Tally(h, KeptIn(h)) = Tally(f, KeptIn(f)) /\ Bounded(GlobalLimits, h, KeptIn(h))
  BY <1>1, <1>2 DEF Tallied
<1>5. ASSUME NEW s \in Specs
      PROVE  account[s] = Tally(h, KeptFor(h, s)) /\ Bounded(LocalLimits[s], h, KeptFor(h, s))
  BY <1>1, <1>2, <1>3 DEF Tallied
<1> QED
  BY <1>4, <1>5 DEF Tallied

LEMMA TalliedAdd ==
  ASSUME NEW f, NEW h, NEW account, NEW k, NEW c \in Specs, NEW size \in Nat, IsFiniteSet(DOMAIN f),
         DOMAIN account = Specs \cup {All}, k \notin DOMAIN f, DOMAIN h = DOMAIN f \cup {k},
         \A j \in DOMAIN f : f[j].size \in Nat /\ h[j] = f[j],
         ~h[k].offLimits, h[k].spec = c, h[k].size = size, Tallied(f, account), HasRoom(account, size, c)
  PROVE  Tallied(h, Charge(account, size, c))
<1> DEFINE new == Charge(account, size, c)
           more(s) == [count |-> account[s].count + 1, bytes |-> account[s].bytes + size]
<1>1. new[All] = more(All) /\ new[c] = more(c) /\ \A s \in Specs \ {c} : new[s] = account[s]
  BY LimitsAssumption DEF Charge
<1> HIDE DEF new
<1>2. /\ KeptIn(h) = KeptIn(f) \cup {k} /\ k \notin KeptIn(f) /\ KeptIn(f) \subseteq DOMAIN f
      /\ KeptFor(h, c) = KeptFor(f, c) \cup {k} /\ k \notin KeptFor(f, c) /\ KeptFor(f, c) \subseteq DOMAIN f
      /\ \A s \in Specs \ {c} : KeptFor(h, s) = KeptFor(f, s) /\ KeptFor(f, s) \subseteq DOMAIN f
  <2>1. KeptIn(h) = KeptIn(f) \cup {k} /\ k \notin KeptIn(f) /\ KeptIn(f) \subseteq DOMAIN f
    BY DEF KeptIn
  <2>2. \A j \in KeptIn(f) : h[j].spec = f[j].spec
    BY <2>1
  <2> QED
    BY <2>1, <2>2 DEF KeptFor
<1>3. IsFiniteSet(KeptIn(f)) /\ \A s : IsFiniteSet(KeptFor(f, s))
  BY KeptParts
<1>4. new[All] = Tally(h, KeptIn(h)) /\ Bounded(GlobalLimits, h, KeptIn(h))
  <2>1. account[All] = Tally(f, KeptIn(f)) /\ Bounded(GlobalLimits, f, KeptIn(f))
    BY DEF Tallied
  <2>2. account[All].count = Cardinality(KeptIn(f)) /\ account[All].bytes = Total(f, KeptIn(f))
    BY <2>1 DEF Tally
  <2>3. /\ Tally(h, KeptIn(f) \cup {k}) =
             [count |-> Tally(f, KeptIn(f)).count + 1, bytes |-> Tally(f, KeptIn(f)).bytes + h[k].size]
        /\ Bounded(GlobalLimits, h, KeptIn(f) \cup {k})
    <3> DEFINE K == KeptIn(f)
    <3>1. IsFiniteSet(K) /\ k \notin K /\ \A j \in K : f[j].size \in Nat /\ h[j] = f[j]
      BY <1>2, <1>3
    <3>2. /\ ~Over(Cardinality(K) + 1, GlobalLimits.count) /\ ~Over(h[k].size + Total(f, K), GlobalLimits.bytes)
          /\ ~Over(h[k].size, GlobalLimits.perSample) /\ h[k].size \in Nat
      BY <2>2 DEF HasRoom
    <3> HIDE DEF K
    <3>3. Bounded(GlobalLimits, f, K)
      BY <2>1 DEF K
    <3>4. /\ Tally(h, K \cup {k}) = [count |-> Tally(f, K).count + 1, bytes |-> Tally(f, K).bytes + h[k].size]
          /\ Bounded(GlobalLimits, h, K \cup {k})
      BY <3>1, <3>2, <3>3, TallyAdd
    <3> QED
      BY <3>4 DEF K
  <2> QED
    BY <1>1, <1>2, <2>1, <2>3
<1>5. new[c] = Tally(h, KeptFor(h, c)) /\ Bounded(LocalLimits[c], h, KeptFor(h, c))
  <2>1. account[c] = Tally(f, KeptFor(f, c)) /\ Bounded(LocalLimits[c], f, KeptFor(f, c))
    BY DEF Tallied
  <2>2. account[c].count = Cardinality(KeptFor(f, c)) /\ account[c].bytes = Total(f, KeptFor(f, c))
    BY <2>1 DEF Tally
  <2>3. /\ Tally(h, KeptFor(f, c) \cup {k}) =
             [count |-> Tally(f, KeptFor(f, c)).count + 1, bytes |-> Tally(f, KeptFor(f, c)).bytes + h[k].size]
        /\ Bounded(LocalLimits[c], h, KeptFor(f, c) \cup {k})
    <3> DEFINE K == KeptFor(f, c)
               L == LocalLimits[c]
    <3>1. IsFiniteSet(K) /\ k \notin K /\ \A j \in K : f[j].size \in Nat /\ h[j] = f[j]
      BY <1>2, <1>3
    <3>2. /\ ~Over(Cardinality(K) + 1, L.count) /\ ~Over(h[k].size + Total(f, K), L.bytes)
          /\ ~Over(h[k].size, L.perSample) /\ h[k].size \in Nat
      BY <2>2 DEF HasRoom
    <3> HIDE DEF K, L
    <3>3. Bounded(L, f, K)
      BY <2>1 DEF K, L
    <3>4. /\ Tally(h, K \cup {k}) = [count |-> Tally(f, K).count + 1, bytes |-> Tally(f, K).bytes + h[k].size]
          /\ Bounded(L, h, K \cup {k})
      BY <3>1, <3>2, <3>3, TallyAdd
    <3> QED
      BY <3>4 DEF K, L
  <2> QED
    BY <1>1, <1>2, <2>1, <2>3
<1>6. ASSUME NEW s \in Specs \ {c}
      PROVE  new[s] = Tally(h, KeptFor(h, s)) /\ Bounded(LocalLimits[s], h, KeptFor(h, s))
  <2>1. account[s] = Tally(f, KeptFor(f, s)) /\ Bounded(LocalLimits[s], f, KeptFor(f, s))
    BY DEF Tallied
  <2>2. KeptFor(h, s) = KeptFor(f, s) /\ KeptFor(f, s) \subseteq DOMAIN f /\ IsFiniteSet(KeptFor(f, s))
    BY <1>2, <1>3
  <2>3. Tally(h, KeptFor(f, s)) = Tally(f, KeptFor(f, s)) /\ Bounded(LocalLimits[s], h, KeptFor(f, s))
    BY <2>1, <2>2, TallySame
  <2> QED
    BY <1>1, <2>1, <2>2, <2>3
<1>7. Tallied(h, new)
  BY <1>4, <1>5, <1>6 DEF Tallied
<1> QED
  BY <1>7 DEF new

-----------------------------------------------------------------------------
(***************************************************************************)
(* While every match has one attribute, each turn of the callback makes    *)
(* one sample at most, and accounts for it.                                *)
(***************************************************************************)
TallyInv ==
  (\A f \in found : Len(f.match.attrs) <= 1) /\ ~GlobalLimits.ignore => Tallied(samples, spent)

LEMMA StatusWithin ==
  ASSUME NEW spec, NEW size, ~GlobalLimits.ignore, SampleLimitStatus(spec, size) \in Within
  PROVE  HasRoom(spent, size, spec)
BY DEF SampleLimitStatus, Within, HasRoom

LEMMA CallbackTallies ==
  ASSUME FindInv, SampleInv, TallyInv, SampleAttribute
  PROVE  TallyInv'
<1> DEFINE s == calling.attrs
           size == volume[at].attrs[s[next]].size
           spec == SpecOf[calling.term]
           status == SampleLimitStatus(spec, size)
           k == Key(at, s[1])
<1>1. /\ calling # NoMatch /\ next <= Len(s) /\ UNCHANGED findVars /\ samples' = AddSamplesForMatch(status)
      /\ spent' = IF status \in Within /\ ~LastIsDuplicate THEN Account(size, spec) ELSE spent
  BY DEF SampleAttribute
<1> SUFFICES ASSUME \A f \in found' : Len(f.match.attrs) <= 1, ~GlobalLimits.ignore
             PROVE  Tallied(samples', spent')
  BY DEF TallyInv
<1>2. found' = found
  BY <1>1 DEF findVars
<1>3. Tallied(samples, spent)
  BY <1>2 DEF TallyInv
<1>4. /\ Len(s) \in Nat /\ DOMAIN s = 1 .. Len(s) /\ spec \in Specs
      /\ \A j \in DOMAIN s : volume[at].attrs[s[j]].size \in Nat
  BY <1>1, CalledMatch
<1>5. Len(s) <= 1
  BY <1>1, <1>2 DEF FindInv
<1>6. next = 1 /\ Len(s) = 1 /\ DOMAIN s = {1}
  <2> DEFINE n == Len(s)
  <2>1. next \in 1 .. n + 1 /\ n \in Nat /\ n <= 1 /\ next <= n /\ DOMAIN s = 1 .. n
    BY <1>1, <1>4, <1>5 DEF SampleInv
  <2> HIDE DEF n
  <2>2. next = 1 /\ n = 1
    BY <2>1
  <2> QED
    BY <2>1, <2>2 DEF n
<1>7. KeysCalled = {k} /\ (LastIsDuplicate <=> k \in DOMAIN samples) /\ size \in Nat
  BY <1>4, <1>6 DEF KeysCalled, Range, LastIsDuplicate
<1>8. /\ DOMAIN samples' = DOMAIN samples \cup {k}
      /\ \A j \in DOMAIN samples : samples'[j] = samples[j]
      /\ k \notin DOMAIN samples =>
           /\ samples'[k].spec = spec /\ samples'[k].offLimits = (status \notin Within)
           /\ samples'[k].size = size
  BY <1>1, <1>6, <1>7, SamplesAdded
<1>9. \A j \in DOMAIN samples : samples[j].size \in Nat
  BY DEF SampleInv
<1>10. IsFiniteSet(DOMAIN samples) /\ DOMAIN spent = Specs \cup {All}
  BY DEF SampleInv
<1>11. status \in Within => HasRoom(spent, size, spec)
  BY StatusWithin
<1> HIDE DEF s, size, spec, status, k
<1>12. CASE status \in Within /\ k \notin DOMAIN samples
  <2>1. spent' = Account(size, spec)
    BY <1>1, <1>7, <1>12
  <2>2. ~samples'[k].offLimits
    BY <1>8, <1>12
  <2>3. spec \in Specs /\ size \in Nat /\ samples'[k].spec = spec /\ samples'[k].size = size
    BY <1>4, <1>7, <1>8, <1>12
  <2>4. \A j \in DOMAIN samples : samples[j].size \in Nat /\ samples'[j] = samples[j]
    BY <1>8, <1>9
  <2>5. DOMAIN samples' = DOMAIN samples \cup {k}
    BY <1>8
  <2>6. HasRoom(spent, size, spec)
    BY <1>11, <1>12
  <2>7. Tallied(samples', Charge(spent, size, spec))
    BY <1>3, <1>10, <1>12, <2>2, <2>3, <2>4, <2>5, <2>6, TalliedAdd
  <2> QED
    BY <2>1, <2>7 DEF Account, Charge
<1>13. CASE ~(status \in Within /\ k \notin DOMAIN samples)
  <2>1. spent' = spent
    BY <1>1, <1>7, <1>13
  <2>2. KeptIn(samples') = KeptIn(samples)
    BY <1>8, <1>13 DEF KeptIn
  <2> QED
    BY <1>3, <1>8, <1>9, <1>10, <2>1, <2>2, TalliedSame
<1> QED
  BY <1>12, <1>13

LEMMA StepTally == FindInv /\ SampleInv /\ TallyInv /\ [Next]_vars => TallyInv'
<1> SUFFICES ASSUME FindInv, SampleInv, TallyInv, [Next]_vars PROVE TallyInv'
  OBVIOUS
<1>1. CASE ~SampleAttribute
  <2>1. UNCHANGED <<samples, spent>>
    BY <1>1 DEF Next, vars, sampleVars, CallbackReturns, CollectMatchingSamples
  <2>2. found \subseteq found'
    <3>1. CASE pc = "config"
      BY <3>1 DEF FindInv
    <3>2. CASE pc # "config"
      BY <3>2, StepReports
    <3> QED
      BY <3>1, <3>2
  <2> QED
    BY <2>1, <2>2 DEF TallyInv
<1> QED
  BY <1>1, CallbackTallies

LEMMA InitTally == Init => TallyInv
<1> SUFFICES ASSUME Init PROVE Tallied(samples, spent)
  BY DEF TallyInv
<1>1. DOMAIN samples = {} /\ spent = [s \in Specs \cup {All} |-> Nothing]
  BY DEF Init
<1>2. KeptIn(samples) = {} /\ \A s : KeptFor(samples, s) = {}
  BY <1>1 DEF KeptIn, KeptFor
<1>3. IsFiniteSet({}) /\ Cardinality({}) = 0
  BY FS_EmptySet
<1>4. Total(samples, {}) = 0
  BY <1>3, TotalStep
<1>5. Tally(samples, {}) = Nothing
  BY <1>3, <1>4 DEF Tally, Nothing
<1>6. \A l : LimitsOK(l) => Bounded(l, samples, {})
  BY <1>3, <1>4 DEF Bounded, LimitsOK, Over
<1> QED
  BY <1>1, <1>2, <1>5, <1>6, LimitsAssumption DEF Tallied

\* While every match has one attribute, what is accounted is what is kept, and it is within the
\* limits of the collection and of each specification.
THEOREM SamplesWithinLimits == Spec => []WithinLimits
<1>1. TallyInv => WithinLimits
  <2> SUFFICES ASSUME Tallied(samples, spent)
               PROVE  /\ spent[All] = [count |-> Cardinality(Kept), bytes |-> MapThenSumSet(Size, Kept)]
                      /\ InLimits(GlobalLimits, Kept)
                      /\ \A s \in Specs : InLimits(LocalLimits[s], {k \in Kept : samples[k].spec = s})
    BY DEF TallyInv, WithinLimits
  <2>1. KeptIn(samples) = Kept /\ \A s : KeptFor(samples, s) = {k \in Kept : samples[k].spec = s}
    BY DEF KeptIn, KeptFor, Kept
  <2>2. \A l, K : Bounded(l, samples, K) => InLimits(l, K)
    BY SumUnfold DEF Bounded, InLimits, Size
  <2>3. MapThenSumSet(Size, Kept) = Total(samples, Kept)
    BY SumUnfold
  <2> QED
    BY <2>1, <2>2, <2>3 DEF Tallied, Tally
<1> QED
  BY <1>1, InitTally, StepTally, SearchInvariant, SampleInvariant, PTL DEF Spec
=============================================================================
