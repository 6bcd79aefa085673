------------------------------- MODULE GetThis ------------------------------
(***************************************************************************)
(* OrcCommand/GetThis_Run.cpp: FindMatchingSamples searches for files with *)
(* FileFind and, in the callback, makes samples of the attributes of each  *)
(* match, within the limits of the whole collection and of the sample      *)
(* specification that the term belongs to; then the samples that are not   *)
(* off limits are collected and every sample is reported.                  *)
(*                                                                         *)
(* The names of samples, their hashes and the format of the output are     *)
(* left out.  A sample stands under the key its set compares: the record   *)
(* and the instance of the attribute; one volume, no snapshot.             *)
(***************************************************************************)
EXTENDS FileFind, FiniteSetsExt

CONSTANTS
  Specs,        \* listofSpecs
  SpecOf,       \* the specification a term belongs to
  GlobalLimits, \* the limits of the collection: see LimitsOK
  LocalLimits,  \* PerSampleLimits of each specification
  Infinite      \* INFINITE: no limit

All == "all"          \* the whole collection
LimitsOK(l) == {l.count, l.bytes, l.perSample} \subseteq Nat /\ l.ignore \in BOOLEAN

ASSUME LimitsAssumption ==
  /\ Infinite \in Nat /\ LimitsOK(GlobalLimits) /\ \A s \in Specs : LimitsOK(LocalLimits[s])
  /\ All \notin Specs /\ \A t \in Terms : SpecOf[t] \in Specs

VARIABLES
  samples,   \* Samples: from a key to the sample
  spent,     \* what is accounted: dwAccumulatedSampleCount, dwlAccumulatedBytesTotal
  reached,   \* the limits that were reached: b...Reached
  next,      \* the attribute of the match that the callback is at
  collected  \* the samples that went into the archive

sampleVars == <<samples, spent, reached, next, collected>>
vars == <<findVars, sampleVars>>

Nothing == [count |-> 0, bytes |-> 0]
Key(r, i) == <<r, volume[r].attrs[i].instance>>
Size(k) == samples[k].size
Kept == {k \in DOMAIN samples : ~samples[k].offLimits}

GetTypeOK ==
  /\ \A k \in DOMAIN samples : samples[k].offLimits \in BOOLEAN /\ samples[k].spec \in Specs
  /\ DOMAIN spent = Specs \cup {All}
  /\ \A s \in DOMAIN spent : spent[s].count \in Nat /\ spent[s].bytes \in Nat
  /\ next \in 1 .. Len(calling.attrs) + 1 /\ collected \subseteq Kept

TypeOK == FindTypeOK /\ GetTypeOK

Init ==
  /\ FindInit /\ samples = <<>> /\ spent = [s \in Specs \cup {All} |-> Nothing]
  /\ reached = {} /\ next = 1 /\ collected = {}

-----------------------------------------------------------------------------
Over(value, limit) == limit # Infinite /\ value > limit

Within == {"NoLimits", "SampleWithinLimits"}

\* Mutant: the total is compared before the sample is added to it.
SampleLimitStatusBefore(spec, size) ==
  CASE Over(spent[All].count + 1, GlobalLimits.count) -> "GlobalSampleCountLimitReached"
    [] Over(spent[spec].count + 1, LocalLimits[spec].count) -> "LocalSampleCountLimitReached"
    [] Over(size, GlobalLimits.perSample) -> "GlobalMaxBytesPerSample"
    [] Over(spent[All].bytes, GlobalLimits.bytes) -> "GlobalMaxBytesTotal"
    [] Over(size, LocalLimits[spec].perSample) -> "LocalMaxBytesPerSample"
    [] OTHER -> "SampleWithinLimits"

\* SampleLimitStatus: the first limit that one more sample of this size passes, in this order.
SampleLimitStatus(spec, size) ==
  LET G == GlobalLimits
      L == LocalLimits[spec]
  IN CASE G.ignore -> "NoLimits"
       [] Over(spent[All].count + 1, G.count) -> "GlobalSampleCountLimitReached"
       [] Over(spent[spec].count + 1, L.count) -> "LocalSampleCountLimitReached"
       [] Over(size, G.perSample) -> "GlobalMaxBytesPerSample"
       [] Over(size + spent[All].bytes, G.bytes) -> "GlobalMaxBytesTotal"
       [] Over(size, L.perSample) -> "LocalMaxBytesPerSample"
       [] Over(size + spent[spec].bytes, L.bytes) -> "LocalMaxBytesTotal"
       [] OTHER -> "SampleWithinLimits"


\* Mutant: a match of which an attribute has its sample makes no other.
AddSamplesForMatchOnce(status) ==
  LET keys == {Key(at, i) : i \in Range(calling.attrs)}
      made == [k \in keys |-> [size |-> 0, spec |-> SpecOf[calling.term], offLimits |-> status \notin Within]]
  IN IF keys \cap DOMAIN samples # {} THEN samples
     ELSE [k \in DOMAIN samples \cup keys |-> IF k \in keys THEN made[k] ELSE samples[k]]

\* AddSamplesForMatch: a sample for each attribute of the match that has none, off limits or not
\* after the one status that is passed.
AddSamplesForMatch(status) ==
  LET keys == {Key(at, i) : i \in Range(calling.attrs)}
      \* of two attributes with one key, the first in the match makes the sample
      attr(k) == volume[at].attrs[calling.attrs[
                   Min({j \in DOMAIN calling.attrs : Key(at, calling.attrs[j]) = k})]]
      made == [k \in keys \ DOMAIN samples |->
                 [size |-> attr(k).size, spec |-> SpecOf[calling.term], offLimits |-> status \notin Within]]
  IN [k \in DOMAIN samples \cup DOMAIN made |-> IF k \in DOMAIN samples THEN samples[k] ELSE made[k]]

\* S_FALSE: the last attribute of the match had a sample.
LastIsDuplicate ==
  LET n == Len(calling.attrs)
      k == Key(at, calling.attrs[n])
  IN k \in DOMAIN samples \/ \E j \in 1 .. n - 1 : Key(at, calling.attrs[j]) = k

Account(size, spec) ==
  [s \in DOMAIN spent |->
     IF s \in {All, spec} THEN [count |-> spent[s].count + 1, bytes |-> spent[s].bytes + size] ELSE spent[s]]

\* The callback of FindMatchingSamples: one turn of its loop over the attributes of the match.
SampleAttribute ==
  LET size == volume[at].attrs[calling.attrs[next]].size
      spec == SpecOf[calling.term]
      status == SampleLimitStatus(spec, size)
  IN /\ calling # NoMatch /\ next <= Len(calling.attrs)
     /\ samples' = AddSamplesForMatch(status)
     /\ spent' = IF status \in Within /\ ~LastIsDuplicate THEN Account(size, spec) ELSE spent
     /\ reached' = IF status \in Within THEN reached ELSE reached \cup {<<status, spec>>}
     /\ next' = next + 1
     /\ UNCHANGED <<findVars, collected>>

CallbackReturns ==
  /\ next > Len(calling.attrs) /\ Return
  /\ next' = 1 /\ UNCHANGED <<samples, spent, reached, collected>>

\* Mutant: every sample is collected.
CollectMatchingSamplesAll ==
  /\ pc = "over" /\ collected # DOMAIN samples
  /\ collected' = DOMAIN samples
  /\ UNCHANGED <<findVars, samples, spent, reached, next>>

\* CollectMatchingSamples: the samples that are not off limits go into the archive or the
\* directory, but those that are refused there.  (A sample without its streams ends the program,
\* which is left out.)
CollectMatchingSamples ==
  /\ pc = "over" /\ collected = {}
  /\ collected' \in SUBSET Kept \ {{}}
  /\ UNCHANGED <<findVars, samples, spent, reached, next>>

Next ==
  \/ FindStep /\ UNCHANGED sampleVars
  \/ SampleAttribute \/ CallbackReturns \/ CollectMatchingSamples

Spec == Init /\ [][Next]_vars

-----------------------------------------------------------------------------
(***************************************************************************)
(* What the search promises, said of the terms as they are configured.     *)
(***************************************************************************)
\* What the criteria of a term mean, once its generic ones have been told apart.
Wanted(t) == (Catalog[t].required \ Generic) \cup Catalog[t].split

Meets(t, c, a) ==
  CASE c \in SizeMask -> IsData(a) /\ a.size \in Accepts(t, c)
    [] c \in AdsNames -> IsData(a) /\ a.name \in Accepts(t, c)
    [] c \in DataMask -> IsData(a) /\ a.content \in Accepts(t, c)
    [] OTHER -> AttrPasses(t, c, a)
NameMeets(t, c, n) == n.here /\ (IF c \in NameMask THEN n.text ELSE n.path) \in Accepts(t, c)

Met(t, c, names, attrs) ==
  IF c \in NameMask \cup PathMask THEN \E n \in names : NameMeets(t, c, n) ELSE \E a \in attrs : Meets(t, c, a)

\* One name or attribute has all that a group of criteria asks for.
Groups == {NameMask, PathMask, DataNameOrSizeMask, AttributeMask, DataMask}
Fits(t, names, attrs) ==
  \A G \in Groups : G \cap Wanted(t) # {} =>
    IF G \in {NameMask, PathMask} THEN \E n \in names : \A c \in G \cap Wanted(t) : NameMeets(t, c, n)
    ELSE \E a \in attrs : \A c \in G \cap Wanted(t) : Meets(t, c, a)

NamesOf(f) == {volume[f.record].names[i] : i \in f.match.names}
AttrsOf(f) == {volume[f.record].attrs[i] : i \in Range(f.match.attrs)}
Closed(r) == {a \in Range(r.attrs) : ~a.opens}

\* The criteria that do not mean in the code what they are named: the exact name of a stream is
\* compared with its prefixes, its regular expression is the file's, an exact EA matches beside
\* some other criteria only;
\* of two sizes with one meaning one is answered, so that none matches; a generic name of a
\* stream or an EA beside a generic name is never told apart.
OneSize == {{"SIZE_GT", "SIZE_GE"}, {"SIZE_LT", "SIZE_LE"}} \cup {{"SIZE_EQ", c} : c \in SizeMask \ {"SIZE_EQ"}}
Literal(t) ==
  /\ Wanted(t) \cap {"ADS_EXACT", "ADS_REGEX", "EA_EXACT"} = {}
  /\ \A sizes \in OneSize : ~(sizes \subseteq Wanted(t))
  /\ "NAME" \in Catalog[t].required => Catalog[t].required \cap Generic = {"NAME"}

\* A match that is reported has, for each criterion of its term, a name in location or an
\* attribute that meets it, whatever the table the term was found by and whatever was compared
\* before it, and it has no name and no attribute that meets none, but the default ones
\* (LookupTermInRecordAddMatching, FindMatch's Reset).
FoundSatisfies ==
  \A f \in found :
    LET t == f.match.term
        W == Wanted(t)
        names == W \cap (NameMask \cup PathMask)
        others == W \ names
        attrs == AttrsOf(f) \cup Closed(volume[f.record])
    IN Literal(t) =>
       /\ \A c \in W : Met(t, c, NamesOf(f), attrs)
       /\ \A n \in NamesOf(f) : n.here /\ (names # {} => \E c \in names : NameMeets(t, c, n))
       /\ \A a \in AttrsOf(f) :
            \/ \E c \in others : Meets(t, c, a)
            \/ IsData(a) /\ a.name = "" /\ (others = {} \/ Closed(volume[f.record]) # {})

\* A record that was compared, all of whose names are in location, has been matched by every
\* term it fits, in whatever table the term is: it was reported, or excluded.  The unnamed stream
\* of a record is compared with a name of stream when another has a name.
Compared(i) == i \in 1 .. at /\ (i = at => todo = {} /\ pc \in {"next", "terms", "over"})
FoundAll ==
  \A i \in 1 .. Len(volume) : \A t \in Terms :
    LET r == volume[i]
        open == {a \in Range(r.attrs) : a.opens}
    IN /\ Compared(i) /\ table[t] # "none" /\ Literal(t) /\ Fits(t, Range(r.names), open)
       /\ \A n \in Range(r.names) : n.here /\ n.path \notin ShortPaths
       /\ Wanted(t) \cap AdsNames # {} => HasNamedData(r)
       => \E f \in found \cup dropped : f.record = i /\ f.match.term = t

\* No reported match fits a term of exclusion, but one by content of a kind that exclusion does
\* not know (YARA, EA) or by size when nothing is searched by size; and a match that was dropped
\* meets every criterion of a term of exclusion, but those of an EA, and is not excluded by
\* these alone.
ExcludedExactly ==
  /\ \A f \in found : \A x \in Terms :
       /\ exclude[x] # "none" /\ Literal(x) /\ Wanted(x) \cap (EaNames \cup {"YARA"}) = {}
       /\ exclude[x] = "size" => In(table, "size") # {}
       /\ \A n \in NamesOf(f) : n.path \notin ShortPaths
       => ~Fits(x, NamesOf(f), AttrsOf(f))
  /\ \A f \in dropped : \E x \in Terms :
       /\ exclude[x] # "none"
       /\ \A c \in Wanted(x) \ (AdsNames \cup EaNames) : Met(x, c, NamesOf(f), AttrsOf(f))
       /\ Wanted(x) \cap EaNames # {} => Wanted(x) \cap AttrMask # {}

-----------------------------------------------------------------------------
\* While every match has one attribute, what is accounted is what is kept, and it stays within the
\* limits of the collection and of each specification: number, bytes and the bytes of each.
InLimits(l, K) ==
  /\ ~Over(Cardinality(K), l.count) /\ ~Over(MapThenSumSet(Size, K), l.bytes)
  /\ \A k \in K : ~Over(Size(k), l.perSample)
WithinLimits ==
  (\A f \in found : Len(f.match.attrs) <= 1) /\ ~GlobalLimits.ignore =>
    /\ spent[All] = [count |-> Cardinality(Kept), bytes |-> MapThenSumSet(Size, Kept)]
    /\ InLimits(GlobalLimits, Kept)
    /\ \A s \in Specs : InLimits(LocalLimits[s], {k \in Kept : samples[k].spec = s})

\* Once the callback has returned, each attribute of each match that was reported has its
\* sample, and no more samples are accounted than are kept.
EveryMatchSampled ==
  calling = NoMatch =>
    /\ \A f \in found : \A i \in Range(f.match.attrs) : Key(f.record, i) \in DOMAIN samples
    /\ spent[All].count <= Cardinality(Kept)

\* Refuted: the samples that are kept are within the limits of the collection
\* (GetThis_Output.cpp: "Global limits imposed on collection").  The first turn of the callback
\* makes a sample of every attribute of the match with the limits it found for the first one.
LimitsKept == ~GlobalLimits.ignore => InLimits(GlobalLimits, Kept)
=============================================================================
