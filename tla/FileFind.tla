------------------------------ MODULE FileFind ------------------------------
(***************************************************************************)
(* OrcLib/FileFind.cpp: the search for files.  Terms are added to a search *)
(* table or to an exclude table, chosen by the criteria they require; then *)
(* every record of a volume is compared, by its names with the terms of an *)
(* exact name or path, by its streams with the terms of an exact size and  *)
(* as a whole with the others.  A term all of whose criteria are met makes *)
(* a match; unless a term excludes it, the callback is given it.           *)
(*                                                                         *)
(* What a criterion accepts (a name, a pattern, a regular expression, a    *)
(* size, a hash...) is the set of the values that pass it.  The finder     *)
(* provides streams (m_bProvideStream); the index entries ($I30), the      *)
(* failures of DataSize and the order of the terms of a table are left out.*)
(***************************************************************************)
EXTENDS Naturals, Sequences, SequencesExt, FiniteSets

CONSTANTS
  Terms,      \* the search terms a configuration may have
  Catalog,    \* what each of them is: see TermOK
  MaxTerms,   \* bound: how many of them are searched for
  MaxExcludeTerms, \* bound: how many of them exclude
  Volumes,    \* the volumes: sequences of records
  ShortPaths, \* the paths shorter than sizeof("x:\\")
  Prefix      \* the prefixes of the name of a stream

NameMask == {"NAME", "NAME_EXACT", "NAME_MATCH", "NAME_REGEX"}
PathMask == {"PATH_EXACT", "PATH_MATCH", "PATH_REGEX"}
SizeMask == {"SIZE_EQ", "SIZE_GT", "SIZE_GE", "SIZE_LT", "SIZE_LE"}
DataNameOrSizeMask == {"ADS", "ADS_EXACT", "ADS_MATCH", "ADS_REGEX"} \cup SizeMask
AttrMask == {"ATTR_TYPE", "ATTR_NAME_EXACT", "ATTR_NAME_MATCH", "ATTR_NAME_REGEX"}
AttributeMask == AttrMask \cup {"EA", "EA_EXACT", "EA_MATCH", "EA_REGEX"}
HashMask == {"DATA_MD5", "DATA_SHA1", "DATA_SHA256"}
DataMask == HashMask \cup {"HEADER", "HEADER_HEX", "HEADER_REGEX", "CONTAINS", "YARA"}
Criteria == NameMask \cup PathMask \cup DataNameOrSizeMask \cup AttributeMask \cup DataMask

AttrNames == {"ATTR_NAME_EXACT", "ATTR_NAME_MATCH", "ATTR_NAME_REGEX"}
EaNames == {"EA_EXACT", "EA_MATCH", "EA_REGEX"}
AdsNames == {"ADS_EXACT", "ADS_MATCH", "ADS_REGEX"}

\* A term: the criteria it is configured with; what a generic name, sub name or EA name turns out
\* to be (an exact name, a pattern or a regular expression); what its criteria accept.
Generic == {"NAME", "ADS", "EA"}
TermOK(c) ==
  /\ c.required \subseteq Criteria /\ DOMAIN c.accepts \subseteq Criteria
  /\ c.split \subseteq (NameMask \ Generic) \cup AdsNames \cup EaNames
  /\ c.required \cap Generic = {} => c.split = {}
RecordOK(r) ==
  /\ r.names \in Seq(Range(r.names)) /\ r.attrs \in Seq(Range(r.attrs))
  /\ \A n \in Range(r.names) : n.here \in BOOLEAN
  /\ r.default \in 1 .. Len(r.names)
  /\ \A a \in Range(r.attrs) : a.size \in Nat /\ a.opens \in BOOLEAN

ASSUME CatalogAssumption == \A t \in Terms : TermOK(Catalog[t])
ASSUME VolumesAssumption ==
  \A v \in Volumes : v \in Seq(Range(v)) /\ \A r \in Range(v) : RecordOK(r)
ASSUME BoundsAssumption == MaxTerms \in Nat /\ MaxExcludeTerms \in Nat

VARIABLES
  volume,    \* the records of the volume, in the order of the walk
  required,  \* Required of each term
  table,     \* where a term is: "none", or one of Tables
  exclude,   \* where a term of exclusion is
  needed,    \* m_NeededHash
  pc,        \* where Find is
  at,        \* the record that is compared
  pos,       \* the name or the stream of it that is looked up
  todo,      \* the terms that are still to be compared
  retval,    \* the match that FindMatch works on
  calling,   \* the match that the callback is given, or NoMatch
  found,     \* m_Matches, with the record of each
  dropped    \* history: the matches that were excluded

tables == <<volume, required, table, exclude, needed>>
findVars == <<tables, pc, at, pos, todo, retval, calling, found, dropped>>

Tables == {"name", "path", "size", "other"}
Blank == [term |-> "none", names |-> {}, attrs |-> <<>>]
NoMatch == Blank
In(which, name) == {t \in Terms : which[t] = name}

FindTypeOK ==
  /\ volume \in Volumes /\ \A t \in Terms : required[t] \subseteq Criteria
  /\ \A t \in Terms : {table[t], exclude[t]} \subseteq Tables \cup {"none"}
  /\ needed \subseteq HashMask
  /\ pc \in {"config", "next", "names", "sizes", "terms", "over"}
  /\ at \in 0 .. Len(volume) /\ todo \subseteq Terms /\ (pc = "next" => todo = {})
  /\ \A f \in found \cup dropped : f.match.term \in Terms /\ f.record \in 1 .. Len(volume)

FindInit ==
  /\ volume \in Volumes
  /\ required = [t \in Terms |-> Catalog[t].required]
  /\ table = [t \in Terms |-> "none"] /\ exclude = [t \in Terms |-> "none"]
  /\ needed = {} /\ pc = "config" /\ at = 0 /\ pos = 0 /\ todo = {}
  /\ retval = Blank /\ calling = NoMatch /\ found = {} /\ dropped = {}

-----------------------------------------------------------------------------
(***************************************************************************)
(* AddTerm and AddExcludeTerm: the combinations that are refused, what the *)
(* generic criteria become, and the table.                                 *)
(***************************************************************************)
Refused(R) ==
  \/ R = {}
  \/ "NAME" \in R /\ R \cap ((NameMask \ {"NAME"}) \cup PathMask \cup EaNames \cup AdsNames) # {}
  \/ R \cap EaNames # {} /\ R \cap AdsNames # {}
  \/ R \cap AttrMask # {} /\ R \cap (EaNames \cup AdsNames) # {}

Specific(t) ==
  LET R == Catalog[t].required
      split == Catalog[t].split
  IN IF "NAME" \in R THEN (R \ {"NAME"}) \cup split
     ELSE (R \ {"ADS", "EA"}) \cup (IF R \cap {"ADS", "EA"} # {} THEN split ELSE {})

TableOf(R) ==
  CASE "NAME_EXACT" \in R -> "name"
    [] "PATH_EXACT" \in R -> "path"
    [] "SIZE_EQ" \in R -> "size"
    [] OTHER -> "other"

Free(t) == pc = "config" /\ table[t] = "none" /\ exclude[t] = "none" /\ ~Refused(Catalog[t].required)
Added(which) == Cardinality({t \in Terms : which[t] # "none"})

AddTerm(t) ==
  /\ Free(t) /\ Added(table) < MaxTerms /\ Added(exclude) = 0
  /\ required' = [required EXCEPT ![t] = Specific(t)]
  /\ table' = [table EXCEPT ![t] = TableOf(Specific(t))]
  /\ UNCHANGED <<volume, exclude, needed, pc, at, pos, todo, retval, calling, found, dropped>>

AddExcludeTerm(t) ==
  /\ Free(t) /\ Added(exclude) < MaxExcludeTerms
  /\ required' = [required EXCEPT ![t] = Specific(t)]
  /\ exclude' = [exclude EXCEPT ![t] = TableOf(Specific(t))]
  /\ UNCHANGED <<volume, table, needed, pc, at, pos, todo, retval, calling, found, dropped>>

\* Mutant: the hashes of the terms of an exact name are forgotten.
NeededHashesOthers ==
  UNION {required[t] \cap HashMask : t \in {u \in Terms : table[u] \notin {"none", "name"} \/ exclude[u] # "none"}}

NeededHashes == UNION {required[t] \cap HashMask : t \in {u \in Terms : table[u] # "none" \/ exclude[u] # "none"}}

\* Find: without a term to search for there is nothing to do.
Find ==
  /\ pc = "config"
  /\ needed' = IF Added(table) = 0 THEN needed ELSE NeededHashes
  /\ pc' = IF Added(table) = 0 THEN "over" ELSE "next"
  /\ UNCHANGED <<volume, required, table, exclude, at, pos, todo, retval, calling, found, dropped>>

-----------------------------------------------------------------------------
(***************************************************************************)
(* The comparison of one criterion, or of the criteria of one group.       *)
(***************************************************************************)
Accepts(t, c) == IF c \in DOMAIN Catalog[t].accepts THEN Catalog[t].accepts[c] ELSE {}
Depends(t, mask) == required[t] \cap mask # {}
Passes(t, mask, value) == \A c \in required[t] \cap mask : value \in Accepts(t, c)

Record == volume[at]
IsData(a) == a.type = "$DATA"
HasNamedData(r) == \E a \in Range(r.attrs) : IsData(a) /\ a.name # ""

\* MatchName: the names that are not in location pass nothing.
NamePasses(t, n) == n.here /\ Passes(t, NameMask, n.text)

\* MatchPath: a path of less than four characters passes nothing.
FullPathPasses(t, n) == n.path \notin ShortPaths /\ Passes(t, PathMask, n.path)
PathPasses(t, n) == n.here /\ FullPathPasses(t, n)

\* SizeMatch answers one criterion of each sort.
SizePasses(t, c, size) ==
  /\ size \in Accepts(t, c)
  /\ "SIZE_EQ" \in required[t] => c = "SIZE_EQ"
  /\ c = "SIZE_GE" => "SIZE_GT" \notin required[t]
  /\ c = "SIZE_LE" => "SIZE_LT" \notin required[t]

\* ExactADS compares as many characters as the attribute's name has; RegexADS takes the regular
\* expression of the file name.
AdsPasses(t, c, name) ==
  \/ c = "ADS_EXACT" /\ \E full \in Accepts(t, c) : name \in Prefix[full]
  \/ c = "ADS_MATCH" /\ name \in Accepts(t, c)
  \/ c = "ADS_REGEX" /\ name \in Accepts(t, "NAME_REGEX")

StreamPasses(t, a) ==
  \A c \in required[t] \cap DataNameOrSizeMask :
    IF c \in SizeMask THEN SizePasses(t, c, a.size) ELSE AdsPasses(t, c, a.name)

AttrPasses(t, c, a) ==
  CASE c = "ATTR_TYPE" -> a.type \in Accepts(t, c)
    [] c \in EaNames -> a.type = "$EA" /\ a.items \cap Accepts(t, c) # {}
    [] OTHER -> a.name \in Accepts(t, c)

\* MatchAttributes: what the last criterion answers is compared with what is required, and
\* ExactEA answers EA_REGEX.
AttributePasses(t, a) ==
  LET tested == required[t] \cap (AttrMask \cup EaNames)
  IN /\ tested # {} /\ \A c \in tested : AttrPasses(t, c, a)
     /\ "EA_EXACT" \in tested => tested \cap ({"EA_MATCH", "EA_REGEX"} \cup AttrNames) # {}

\* The hash of a stream is computed for the needed algorithms only.
DataPasses(t, a) ==
  /\ a.opens /\ Passes(t, DataMask, a.content)
  /\ required[t] \cap HashMask \subseteq needed

-----------------------------------------------------------------------------
(***************************************************************************)
(* LookupTermInRecordAddMatching: group after group adds to the match the  *)
(* names and attributes that pass, and the first without any is the end.   *)
(***************************************************************************)
InOrder(S) ==
  CHOOSE s \in [1 .. Cardinality(S) -> S] : \A j, k \in 1 .. Cardinality(S) : j < k => s[j] < s[k]

\* AddAttributeMatch: an attribute whose streams cannot be opened is not added.
AddAttributes(attrs, S) ==
  attrs \o InOrder({i \in DOMAIN Record.attrs : i \in S \ Range(attrs) /\ Record.attrs[i].opens})

Named(t, mask, Test(_, _)) ==
  IF Depends(t, mask) THEN {i \in DOMAIN Record.names : Test(t, Record.names[i])} ELSE {}
Held(t, mask, Test(_, _), S) ==
  IF Depends(t, mask) THEN {i \in DOMAIN Record.attrs : i \in S /\ Test(t, Record.attrs[i])} ELSE {}

DefaultName ==
  IF Record.names[Record.default].here THEN Record.default
  ELSE CHOOSE i \in DOMAIN Record.names :
         Record.names[i].here /\ \A j \in 1 .. i - 1 : ~Record.names[j].here
DefaultStream ==
  LET unnamed == {i \in DOMAIN Record.attrs : IsData(Record.attrs[i]) /\ Record.attrs[i].name = ""}
  IN {i \in unnamed : \A j \in unnamed : i <= j}

Looked(t, m) ==
  LET data == {i \in DOMAIN Record.attrs : IsData(Record.attrs[i])}
      byName == Named(t, NameMask, NamePasses)
      byPath == Named(t, PathMask, PathPasses)
      byStream == IF HasNamedData(Record) \/ ~Depends(t, AdsNames)
                  THEN Held(t, DataNameOrSizeMask, StreamPasses, data) ELSE {}
      byAttribute == Held(t, AttributeMask, AttributePasses, DOMAIN Record.attrs)
      byData == Held(t, DataMask, DataPasses, data)
      nameOK == Depends(t, NameMask) => byName # {}
      pathOK == nameOK /\ (Depends(t, PathMask) => byPath # {})
      streamOK == pathOK /\ (Depends(t, DataNameOrSizeMask) => byStream # {})
      hereOK == streamOK /\ \E n \in Range(Record.names) : n.here
      attributeOK == hereOK /\ (Depends(t, AttributeMask) => byAttribute # {})
      dataOK == attributeOK /\ (Depends(t, DataMask) => byData # {})
      names == m.names \cup byName \cup (IF nameOK THEN byPath ELSE {})
      streams == AddAttributes(m.attrs, IF pathOK THEN byStream ELSE {})
      attributes == AddAttributes(streams, IF hereOK THEN byAttribute ELSE {})
      attrs == AddAttributes(attributes, IF attributeOK THEN byData ELSE {})
  IN IF dataOK
     THEN [ok |-> TRUE,
           match |-> [term |-> t,
                      names |-> IF names = {} THEN {DefaultName} ELSE names,
                      attrs |-> IF attrs = <<>> THEN AddAttributes(<<>>, DefaultStream) ELSE attrs]]
     ELSE [ok |-> FALSE, match |-> [m EXCEPT !.names = names, !.attrs = attrs]]

-----------------------------------------------------------------------------
(***************************************************************************)
(* ExcludeMatch and LookupTermInMatchExcludeMatching, which compares a     *)
(* term with the names and attributes of a match; the criteria of an EA    *)
(* are not looked at.                                                      *)
(***************************************************************************)
Excludes(x, m) ==
  LET some(mask, Test(_, _), S) == Depends(x, mask) => \E v \in S : Test(x, v)
      names == {Record.names[i] : i \in m.names}
      attrs == {Record.attrs[i] : i \in Range(m.attrs)}
      data == {a \in attrs : IsData(a)}
      attribute(t, a) == required[t] \cap AttrMask # {} /\ \A c \in required[t] \cap AttrMask : AttrPasses(t, c, a)
      content(t, a) == "YARA" \notin required[t] /\ DataPasses(t, a)
  IN /\ some(NameMask, NamePasses, names) /\ some(PathMask, FullPathPasses, names)
     /\ some(DataNameOrSizeMask, StreamPasses, data)
     /\ some(AttributeMask, attribute, attrs) /\ some(DataMask, content, data)

NamesHit(which, n) ==
  {t \in In(which, "name") : n.text \in Accepts(t, "NAME_EXACT")}
    \cup {t \in In(which, "path") : n.path \in Accepts(t, "PATH_EXACT")}
SizesHit(which, a) == {t \in In(which, "size") : a.size \in Accepts(t, "SIZE_EQ")}

\* Mutant: the name alone excludes.
ExcludeMatchByName(m) ==
  \/ \E i \in m.names : NamesHit(exclude, Record.names[i]) # {}
  \/ \E x \in In(exclude, "other") : Excludes(x, m)

\* The exclusions by size are looked at when there are search terms by size.
ExcludeMatch(m) ==
  LET byName == UNION {NamesHit(exclude, Record.names[i]) : i \in m.names}
      bySize == IF In(table, "size") = {} THEN {}
                ELSE UNION {SizesHit(exclude, Record.attrs[i]) : i \in Range(m.attrs)}
  IN \E x \in byName \cup bySize \cup In(exclude, "other") : Excludes(x, m)

\* Mutant: the attributes stay in the match.
ResetNames(m) == [Blank EXCEPT !.attrs = m.attrs]

\* Match::Reset.
Reset(m) == Blank

-----------------------------------------------------------------------------
(***************************************************************************)
(* FindMatch, one comparison at a time.                                    *)
(***************************************************************************)
Running == calling = NoMatch

\* The walker gives the next record, or the walk is over.
NextRecord ==
  /\ Running /\ todo = {} /\ pc \in {"next", "terms"}
  /\ IF at < Len(volume) THEN at' = at + 1 /\ pc' = "names" ELSE pc' = "over" /\ UNCHANGED at
  /\ pos' = 0
  /\ UNCHANGED <<tables, todo, retval, calling, found, dropped>>

\* The next name; a name that is not in location ends the comparison of the record.
NextName ==
  /\ Running /\ todo = {} /\ pc = "names"
  /\ IF In(table, "name") \cup In(table, "path") = {} \/ pos = Len(Record.names)
     THEN pc' = "sizes" /\ pos' = 0 /\ UNCHANGED todo
     ELSE LET n == Record.names[pos + 1]
          IN /\ pos' = pos + 1
             /\ IF n.here THEN todo' = NamesHit(table, n) /\ UNCHANGED pc ELSE pc' = "next" /\ UNCHANGED todo
  /\ UNCHANGED <<tables, at, retval, calling, found, dropped>>

\* The next attribute, if it is a stream; after the last, the terms of no table.
NextSize ==
  /\ Running /\ todo = {} /\ pc = "sizes"
  /\ IF In(table, "size") = {} \/ pos = Len(Record.attrs)
     THEN pc' = "terms" /\ pos' = 0 /\ todo' = In(table, "other")
     ELSE LET a == Record.attrs[pos + 1]
          IN pos' = pos + 1 /\ todo' = (IF IsData(a) THEN SizesHit(table, a) ELSE {}) /\ UNCHANGED pc
  /\ UNCHANGED <<tables, at, retval, calling, found, dropped>>

\* The terms of a name are compared before those of its path.
LookUp(t) ==
  LET looked == Looked(t, retval)
      report == [record |-> at, match |-> looked.match]
      excluded == ExcludeMatch(looked.match)
  IN /\ Running /\ t \in todo /\ (table[t] = "path" => todo \cap In(table, "name") = {})
     /\ todo' = todo \ {t}
     /\ IF looked.ok
        THEN /\ retval' = Blank
             /\ IF excluded THEN dropped' = dropped \cup {report} /\ UNCHANGED <<found, calling>>
                ELSE found' = found \cup {report} /\ calling' = looked.match /\ UNCHANGED dropped
        ELSE retval' = Reset(looked.match) /\ UNCHANGED <<calling, found, dropped>>
     /\ UNCHANGED <<tables, pc, at, pos>>

\* The callback returns.
Return ==
  /\ calling # NoMatch /\ calling' = NoMatch
  /\ UNCHANGED <<tables, pc, at, pos, todo, retval, found, dropped>>

FindStep ==
  \/ \E t \in Terms : AddTerm(t) \/ AddExcludeTerm(t)
  \/ Find \/ NextRecord \/ NextName \/ NextSize
  \/ \E t \in Terms : LookUp(t)
=============================================================================
