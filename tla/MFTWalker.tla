----------------------------- MODULE MFTWalker -----------------------------
(***************************************************************************)
(* OrcLib/MFTWalker.cpp: the walk of a volume's master file table.  The    *)
(* segments of the table are enumerated in order (MFTOnline's              *)
(* EnumMFTRecord); each is parsed and kept in m_MFTMap; a record that is   *)
(* not complete has what it misses (the segments of its attribute list,    *)
(* its base record, the directories of its path) fetched out of order;     *)
(* then the caller's callback is called and the record freed, an entry     *)
(* with a null pointer staying in the map so that it is never added again. *)
(* What could not be completed is called back by a last walk of the map.   *)
(* The same walk of the map is made, to free records, whenever             *)
(* m_CellStoreThreshold of them were added since the last time.            *)
(*                                                                         *)
(* A file is a base record and the segments that hold the attributes that  *)
(* do not fit in it.  The volume is drawn in Init and never changes.  An   *)
(* attribute type stands once in a file: hard links, several streams and   *)
(* the continuation of an attribute over several segments are left out, so *)
(* are the sequence numbers of references.                                 *)
(***************************************************************************)
EXTENDS Naturals, FiniteSets, FiniteSetsExt

CONSTANTS
  Segment,              \* the segments of the table that are walked
  Root,                 \* GetUSNRoot(): the root directory, not walked here
  Volumes,              \* the volumes the walk may be made of
  CellStoreThreshold,   \* m_CellStoreThreshold
  IncludeNotInUse,      \* m_bIncludeNotInUse
  KeepAlive,            \* what KeepAliveCallback may answer
  Stops,                \* whether ProgressCallback may ask to stop
  ReadFaults            \* the reads of the table that may fail: "enum", "fetch"

ASSUME SegmentAssumption ==
  /\ Segment \subseteq Nat \ {0} /\ \E first, last \in Segment : Segment = first .. last
  /\ Root \in Nat \ {0} /\ Root \notin Segment
ASSUME ThresholdAssumption == CellStoreThreshold \in Nat
ASSUME AnswersAssumption ==
  /\ KeepAlive \subseteq BOOLEAN /\ Stops \subseteq BOOLEAN /\ IncludeNotInUse \in BOOLEAN
  /\ ReadFaults \subseteq {"enum", "fetch"}

Types == {"$FILE_NAME", "$INDEX_ROOT", "$DATA"}
None == 0               \* a null pointer, no segment

VARIABLES
  disk,     \* what the table holds, see VolumeOK
  map,      \* m_MFTMap: "absent", "here", or "gone": an entry with a null pointer
  rec,      \* the records of the map
  called,   \* m_bCallbackCalled of the records
  names,    \* m_DirectoryNames: the parent directory of a named directory, or None
  lastWalk, \* m_CellStoreLastWalk
  pc,       \* where the walker is
  cursor,   \* the next segment of the enumeration
  cur,      \* pRecord of AddRecordCallback, or None
  adding,   \* the segment that AddRecord is given
  missing,  \* missingRecords
  fetched,  \* fetchedRecords
  toFetch,  \* what FetchMFTRecord has left to read
  left,     \* what WalkRecords has left to visit
  asked,    \* history: ProgressCallback asked to stop, and in which walk
  calls,    \* history: how often a record was called back
  seen,     \* history: what was known of the record when it was
  unread,   \* history: the segments a failed read kept from the enumeration
  lost      \* history: the segments a failed read kept from a fetch

history == <<asked, calls, seen, unread, lost>>
vars == <<disk, map, rec, called, names, lastWalk, pc, cursor, cur, adding, missing, fetched,
          toFetch, left, asked, calls, seen, unread, lost>>

(***************************************************************************)
(* A volume: whether a segment has its signature, is in use and passes the *)
(* multi-sector fixup; its base record; the attributes it holds; its       *)
(* attribute list, from a type to the segment that holds it; the directory *)
(* that its $FILE_NAME names.                                              *)
(***************************************************************************)
VolumeOK(v) ==
  /\ v.signature \in [Segment -> BOOLEAN] /\ v.inUse \in [Segment -> BOOLEAN]
  /\ v.fixup \in [Segment -> BOOLEAN]
  /\ v.base \in [Segment -> Segment \cup {None}]
  /\ \A s \in Segment : v.base[s] # None => v.base[v.base[s]] = None
  /\ v.holds \in [Segment -> SUBSET Types]
  /\ \A s \in Segment : DOMAIN v.list[s] \subseteq Types /\ \A t \in DOMAIN v.list[s] : v.list[s][t] \in Segment
  /\ v.parent \in [Segment -> Segment \cup {Root}]

ASSUME VolumesAssumption == \A v \in Volumes : VolumeOK(v)

InUse(s) == IncludeNotInUse \/ disk.inUse[s]
Readable(s) == disk.signature[s] /\ InUse(s) /\ disk.fixup[s]

Blank == [parsed |-> FALSE, base |-> None, kids |-> {}, entries |-> [t \in {} |-> None],
          name |-> None, directory |-> FALSE, complete |-> FALSE]

Init ==
  /\ disk \in Volumes
  /\ map = [s \in Segment |-> "absent"]
  /\ rec = [s \in Segment |-> Blank]
  /\ called = [s \in Segment |-> FALSE]
  /\ names = [s \in Segment |-> None]
  /\ lastWalk = 0 /\ pc = "enum" /\ cursor = Min(Segment)
  /\ cur = None /\ adding = None
  /\ missing = {} /\ fetched = {} /\ toFetch = {} /\ left = {}
  /\ asked = "no" /\ calls = [s \in Segment |-> 0]
  /\ seen = [s \in Segment |-> [types |-> {}, lacking |-> {}]]
  /\ unread = {} /\ lost = {}

-----------------------------------------------------------------------------
(***************************************************************************)
(* IsRecordComplete and what it adds to the missing records.               *)
(***************************************************************************)
BaseOf(r, s) == IF r[s].base = None THEN s ELSE r[s].base
Absent(S) == {s \in Segment : s \in S /\ map[s] = "absent"}
HasList(s) == rec[s].kids # {}

\* The first directory of the path from d up that has no name in the map of names.
Lacking(d) ==
  LET up[x \in Segment \cup {Root}] ==
        IF x = Root THEN {} ELSE IF names[x] = None THEN {x} ELSE up[names[x]]
  IN IF d = None THEN {} ELSE up[d]

Orphan(s) == disk.base[s] # None /\ rec[s].base = None

\* AreAttributesComplete: the listed attributes nobody holds yet, and the hosts not parsed.
Unresolved(b) ==
  IF HasList(b) THEN {t \in DOMAIN rec[b].entries : rec[b].entries[t].found = None} ELSE {}
Unparsed(b) ==
  IF HasList(b)
  THEN {rec[b].entries[t].found : t \in DOMAIN rec[b].entries \ Unresolved(b)}
         \cap {h \in Segment : ~rec[h].parsed}
  ELSE {}

\* A record that was once found complete is complete for ever.
Complete(s, strict) ==
  LET b == BaseOf(rec, s) IN
  \/ rec[s].complete
  \/ /\ Absent(rec[s].kids) = {}
     /\ ~Orphan(b)
     /\ strict => Unresolved(b) = {} /\ Unparsed(b) = {} /\ Lacking(rec[b].name) = {}

Missing(s) ==
  LET b == BaseOf(rec, s) IN
  IF rec[s].complete THEN {}
  ELSE Absent(rec[s].kids) \cup (IF Orphan(b) THEN Absent({disk.base[b]}) ELSE {})
         \cup Absent({rec[b].entries[t].listed : t \in Unresolved(b)}) \cup Unparsed(b)
         \cup Absent(Lacking(rec[b].name))

-----------------------------------------------------------------------------
(***************************************************************************)
(* MFTRecord::ParseRecord of segment s, given a base record or None: what  *)
(* the records r become.  A child without its base stays unparsed.  The    *)
(* attributes of a child are entered in its own list and in its base's.    *)
(***************************************************************************)
Enter(entries, s) ==
  [t \in DOMAIN entries \cup disk.holds[s] |->
     [listed |-> IF t \in DOMAIN entries THEN entries[t].listed ELSE None,
      found |-> IF t \in disk.holds[s] THEN s ELSE entries[t].found]]

Listed(s) == [t \in DOMAIN disk.list[s] |-> [listed |-> disk.list[s][t], found |-> None]]

Filled(record, s, entries) ==
  [record EXCEPT !.entries = Enter(entries, s),
                 !.name = IF "$FILE_NAME" \in disk.holds[s] THEN disk.parent[s] ELSE @,
                 !.directory = @ \/ "$INDEX_ROOT" \in disk.holds[s]]

ParseRecord(r, s, base) ==
  LET owner == IF r[s].base = None THEN base ELSE r[s].base
      own == [Filled(r[s], s, IF owner = None THEN Listed(s) ELSE r[s].entries)
                EXCEPT !.base = owner, !.parsed = TRUE,
                       !.kids = {disk.list[s][t] : t \in DOMAIN disk.list[s]}]
  IN IF r[s].parsed \/ (disk.base[s] # None /\ base = None)
     THEN [r EXCEPT ![s].base = owner]
     ELSE IF owner = None THEN [r EXCEPT ![s] = own]
     ELSE [r EXCEPT ![s] = own, ![owner] = Filled(r[owner], s, r[owner].entries)]

\* AddDirectoryName: a directory, known to be one, gets its name once.
AddDirectoryName(r, s) ==
  LET b == BaseOf(r, s) IN
  IF r[b].directory /\ r[b].name # None /\ names[b] = None
  THEN [names EXCEPT ![b] = r[b].name] ELSE names

\* The end of AddRecord: the segments of the attribute list that wait for their base.
Waiting(r, s) ==
  LET entries == r[IF r[s].kids # {} THEN s ELSE BaseOf(r, s)].entries IN
  {entries[t].listed : t \in {u \in DOMAIN entries : entries[u].found = None}}
    \cap {h \in Segment \ {s} : map[h] = "here" /\ ~r[h].parsed}

\* Mutant: the segments read before their base are left as they are.
ParseWaitingNothing(r, s) == r
ParseWaiting(r, s) == FoldSet(LAMBDA h, q : ParseRecord(q, h, s), r, Waiting(r, s))

\* UpdateAttributeList: what the loaded segments hold is entered in the list of s.
Resolve(r, s) ==
  LET held(t) == LET h == r[s].entries[t].listed IN
                 h # None /\ map[h] = "here" /\ t \in DOMAIN r[h].entries
      entries == [t \in DOMAIN r[s].entries |->
                    IF r[s].entries[t].found = None /\ held(t)
                    THEN [r[s].entries[t] EXCEPT !.found = r[r[s].entries[t].listed].entries[t].found]
                    ELSE r[s].entries[t]]
  IN IF r[s].kids = {} THEN r
     ELSE [r EXCEPT ![s].entries = entries,
                    ![s].directory = @ \/ ("$INDEX_ROOT" \in DOMAIN entries
                                            /\ entries["$INDEX_ROOT"].found # None)]

\* DeleteRecord: the record and its child records that are in the map.
Deleted(s) == {s} \cup {k \in rec[s].kids : map[k] = "here"}
\* Mutant: the entry is erased from the map with the record.
DeleteRecordForgets(s) ==
  /\ map' = [x \in Segment |-> IF x \in Deleted(s) THEN "absent" ELSE map[x]]
  /\ rec' = [x \in Segment |-> IF x \in Deleted(s) THEN Blank ELSE rec[x]]
DeleteRecord(s) ==
  /\ map' = [x \in Segment |-> IF x \in Deleted(s) THEN "gone" ELSE map[x]]
  /\ rec' = [x \in Segment |-> IF x \in Deleted(s) THEN Blank ELSE rec[x]]

-----------------------------------------------------------------------------
(***************************************************************************)
(* SimpleCallCallbackForRecord and FullCallCallbackForRecord: child        *)
(* records are not called back, a record is called back once.  The answers *)
(* are of KeepAliveCallback and ProgressCallback.  The record is freed     *)
(* unless it is kept, or was not called back by this call.                 *)
(***************************************************************************)
Callable(s) == disk.base[s] = None /\ ~called[s]

Found(s) == {t \in DOMAIN rec[s].entries : rec[s].entries[t].found # None}

CallCallback(s, keep, r) ==
  /\ calls' = [calls EXCEPT ![s] = @ + 1]
  /\ seen' = [seen EXCEPT ![s] = [types |-> Found(s), lacking |-> Lacking(rec[s].name)]]
  /\ called' = [called EXCEPT ![s] = TRUE]
  /\ IF keep THEN rec' = r /\ UNCHANGED map ELSE DeleteRecord(s)

Judged(s, strict) == [rec EXCEPT ![s].complete = Complete(s, strict)]
Cells == Cardinality({s \in Segment : map[s] = "here"})

-----------------------------------------------------------------------------
(***************************************************************************)
(* MFTOnline::EnumMFTRecord gives the segments to AddRecordCallback one    *)
(* after the other; then Walk makes the final walk of the map.             *)
(***************************************************************************)
\* Mutant: one segment too many.
EnumRecordPast ==
  /\ pc = "enum" /\ cursor \in Segment \cup {Max(Segment) + 1}
  /\ pc' = "add" /\ adding' = cursor
  /\ UNCHANGED <<disk, map, rec, called, names, lastWalk, cursor, cur, missing, fetched,
                 toFetch, left, history>>

EnumRecord ==
  /\ pc = "enum" /\ cursor \in Segment
  /\ pc' = "add" /\ adding' = cursor
  /\ UNCHANGED <<disk, map, rec, called, names, lastWalk, cursor, cur, missing, fetched,
                 toFetch, left, history>>

\* A read of the table fails: the enumeration is over, of what it had left nothing is read.  The
\* table is read by so many segments at a time; any segment may be the first of a read.
EnumFails ==
  /\ pc = "enum" /\ cursor \in Segment /\ "enum" \in ReadFaults
  /\ unread' = {s \in Segment : s >= cursor}
  /\ cursor' = Max(Segment) + 1
  /\ UNCHANGED <<disk, map, rec, called, names, lastWalk, pc, cur, adding, missing, fetched,
                 toFetch, left, asked, calls, seen, lost>>

\* The base records of the map: WalkRecords skips the others.
Walkable == {s \in Segment : map[s] = "here" /\ disk.base[s] = None}

EnumEnds ==
  /\ pc = "enum" /\ cursor \notin Segment
  /\ pc' = "walk" /\ left' = Walkable
  /\ UNCHANGED <<disk, map, rec, called, names, lastWalk, cursor, cur, adding, missing,
                 fetched, toFetch, history>>

\* AddRecordCallback, and with it the call of the enumeration, returns.
NextRecord == pc' = "enum" /\ cursor' = cursor + 1 /\ cur' = None

(***************************************************************************)
(* AddRecord, of the enumeration when cur is None, else of the fetch.      *)
(***************************************************************************)
NothingAdded ==
  /\ adding' = None
  /\ IF cur = None THEN NextRecord ELSE pc' = "fetch" /\ UNCHANGED <<cursor, cur>>
  /\ UNCHANGED <<disk, called, names, lastWalk, missing, fetched, toFetch, left, history>>

SkipRecord ==
  /\ pc = "add" /\ (~disk.signature[adding] \/ map[adding] = "gone")
  /\ NothingAdded
  /\ UNCHANGED <<map, rec>>

Accepted == pc = "add" /\ disk.signature[adding] /\ map[adding] # "gone"
Full == map[adding] = "absent" /\ Cells >= lastWalk + CellStoreThreshold

\* The records that are complete by now are called back and freed to make room.
MakeSpace ==
  /\ Accepted /\ Full
  /\ pc' = "walk" /\ left' = Walkable
  /\ UNCHANGED <<disk, map, rec, called, names, lastWalk, cursor, cur, adding, missing,
                 fetched, toFetch, history>>

GotCell == pc = "cell" \/ (Accepted /\ ~Full)

\* Not in use, or not parsed: deleted, and its entry says so.
RefuseRecord ==
  /\ GotCell /\ ~(InUse(adding) /\ disk.fixup[adding])
  /\ map' = [map EXCEPT ![adding] = "gone"]
  /\ NothingAdded
  /\ UNCHANGED rec

AddRecord ==
  LET s == adding
      base == IF disk.base[s] # None /\ map[disk.base[s]] = "here" THEN disk.base[s] ELSE None
      r == ParseRecord(rec, s, base)
  IN /\ GotCell /\ InUse(s) /\ disk.fixup[s]
     /\ map' = [map EXCEPT ![s] = "here"]
     /\ rec' = ParseWaiting(r, s)
     /\ names' = AddDirectoryName(r, s)
     /\ called' = [called EXCEPT ![s] = @ /\ map[s] = "here"]
     /\ IF cur = None
        THEN /\ pc' = "check" /\ cur' = s /\ adding' = None
             /\ missing' = {} /\ fetched' = {}
        ELSE /\ pc' = "look" /\ UNCHANGED <<cur, adding, missing, fetched>>
     /\ UNCHANGED <<disk, lastWalk, cursor, toFetch, left, history>>

\* The fetch's own question: what the fetched record misses is fetched in the next round.
LookAtFetched ==
  /\ pc = "look"
  /\ missing' = missing \cup Missing(adding)
  /\ rec' = Judged(adding, TRUE)
  /\ pc' = "fetch" /\ adding' = None
  /\ UNCHANGED <<disk, map, called, names, lastWalk, cursor, cur, fetched, toFetch, left, history>>

(***************************************************************************)
(* The loop of AddRecordCallback.  The record is called back when it is    *)
(* complete, or when all it misses was fetched once already; one that is   *)
(* incomplete with nothing to fetch is left to the walks of the map.       *)
(***************************************************************************)
\* Mutant: a record is only called back when nothing at all is missing.
CheckRecordStubborn ==
  LET all == missing \cup Missing(cur) IN
  /\ pc = "check"
  /\ rec' = Judged(cur, TRUE)
  /\ \/ /\ Complete(cur, TRUE)
        /\ pc' = "call" /\ UNCHANGED <<cursor, cur, missing, fetched, toFetch>>
     \/ /\ ~Complete(cur, TRUE) /\ all \subseteq fetched
        /\ NextRecord /\ UNCHANGED <<missing, fetched, toFetch>>
     \/ /\ ~Complete(cur, TRUE) /\ ~(all \subseteq fetched)
        /\ toFetch' = all \ fetched /\ fetched' = fetched \cup all /\ missing' = {}
        /\ pc' = "fetch" /\ UNCHANGED <<cursor, cur>>
  /\ UNCHANGED <<disk, map, called, names, lastWalk, adding, left, history>>

\* Mutant: what was fetched is not remembered.
CheckRecordForgets ==
  LET all == missing \cup Missing(cur) IN
  /\ pc = "check"
  /\ rec' = Judged(cur, TRUE)
  /\ \/ /\ Complete(cur, TRUE) \/ (all # {} /\ all \subseteq fetched)
        /\ pc' = "call" /\ UNCHANGED <<cursor, cur, missing, fetched, toFetch>>
     \/ /\ ~Complete(cur, TRUE) /\ all = {}
        /\ NextRecord /\ UNCHANGED <<missing, fetched, toFetch>>
     \/ /\ ~Complete(cur, TRUE) /\ ~(all \subseteq fetched)
        /\ toFetch' = all \ fetched /\ fetched' = {} /\ missing' = {}
        /\ pc' = "fetch" /\ UNCHANGED <<cursor, cur>>
  /\ UNCHANGED <<disk, map, called, names, lastWalk, adding, left, history>>

CheckRecord ==
  LET all == missing \cup Missing(cur) IN
  /\ pc = "check"
  /\ rec' = Judged(cur, TRUE)
  /\ \/ /\ Complete(cur, TRUE) \/ (all # {} /\ all \subseteq fetched)
        /\ pc' = "call" /\ UNCHANGED <<cursor, cur, missing, fetched, toFetch>>
     \/ /\ ~Complete(cur, TRUE) /\ all = {}
        /\ NextRecord /\ UNCHANGED <<missing, fetched, toFetch>>
     \/ /\ ~Complete(cur, TRUE) /\ ~(all \subseteq fetched)
        /\ toFetch' = all \ fetched /\ fetched' = fetched \cup all /\ missing' = {}
        /\ pc' = "fetch" /\ UNCHANGED <<cursor, cur>>
  /\ UNCHANGED <<disk, map, called, names, lastWalk, adding, left, history>>

\* MFTOnline::FetchMFTRecord, in the order of the segments.  After a segment without
\* signature it compares the segment it has read with the next one asked for: both are lost.
First(S) == {s \in S : \A x \in S : s <= x}

FetchRecord ==
  /\ pc = "fetch"
  /\ \E s \in First(toFetch) :
       IF disk.signature[s]
       THEN pc' = "add" /\ adding' = s /\ toFetch' = toFetch \ {s}
       ELSE /\ toFetch' = (toFetch \ {s}) \ First(toFetch \ {s})
            /\ UNCHANGED <<pc, adding>>
  /\ UNCHANGED <<disk, map, rec, called, names, lastWalk, cursor, cur, missing, fetched, left,
                 history>>

\* A read fails: what was asked for and is not read yet is lost, and the fetch is over.
FetchFails ==
  /\ pc = "fetch" /\ toFetch # {} /\ "fetch" \in ReadFaults
  /\ lost' = lost \cup toFetch /\ toFetch' = {}
  /\ UNCHANGED <<disk, map, rec, called, names, lastWalk, pc, cursor, cur, adding, missing,
                 fetched, left, asked, calls, seen, unread>>

FetchEnds ==
  /\ pc = "fetch" /\ toFetch = {}
  /\ pc' = "update"
  /\ UNCHANGED <<disk, map, rec, called, names, lastWalk, cursor, cur, adding, missing, fetched,
                 toFetch, left, history>>

\* The record, or the base it points to, was freed by a walk made during the fetch.
Dangling == map[cur] # "here" \/ (rec[cur].base # None /\ map[rec[cur].base] # "here")

UpdateRecord ==
  LET r1 == Resolve(rec, cur)
      b == disk.base[cur]
      r2 == IF b # None /\ r1[cur].base = None /\ map[b] = "here"
            THEN [r1 EXCEPT ![cur].base = b] ELSE r1
      r3 == IF r2[cur].base # None THEN Resolve(r2, r2[cur].base) ELSE r2
  IN /\ pc = "update" /\ ~Dangling
     /\ rec' = r3 /\ names' = AddDirectoryName(r3, cur)
     /\ pc' = "check"
     /\ UNCHANGED <<disk, map, called, lastWalk, cursor, cur, adding, missing, fetched, toFetch,
                    left, history>>

\* What the program does with a freed record is not defined: the model stops there.
UseFreed ==
  /\ pc = "update" /\ Dangling
  /\ pc' = "freed"
  /\ UNCHANGED <<disk, map, rec, called, names, lastWalk, cursor, cur, adding, missing, fetched,
                 toFetch, left, history>>

\* The callback, and the end of AddRecordCallback; a stop ends the enumeration and Walk.
\* Mutant: the answer of ProgressCallback is not returned.
CallRecordGoesOn ==
  /\ pc = "call" /\ Callable(cur)
  /\ \E keep \in KeepAlive, stop \in Stops :
       /\ CallCallback(cur, keep, rec)
       /\ NextRecord
       /\ asked' = IF stop THEN "enumeration" ELSE asked
  /\ UNCHANGED <<disk, names, lastWalk, adding, missing, fetched, toFetch, left, unread, lost>>

CallRecord ==
  /\ pc = "call" /\ Callable(cur)
  /\ \E keep \in KeepAlive, stop \in Stops :
       /\ CallCallback(cur, keep, rec)
       /\ IF stop
          THEN pc' = "done" /\ asked' = "enumeration" /\ cur' = None /\ UNCHANGED cursor
          ELSE NextRecord /\ UNCHANGED asked
  /\ UNCHANGED <<disk, names, lastWalk, adding, missing, fetched, toFetch, left, unread, lost>>

CallNothing ==
  /\ pc = "call" /\ ~Callable(cur)
  /\ NextRecord
  /\ UNCHANGED <<disk, map, rec, called, names, lastWalk, adding, missing, fetched, toFetch,
                 left, history>>

(***************************************************************************)
(* WalkRecords, in the order of a hash table.  The final walk calls back   *)
(* the records whose attributes or path stay unknown; the walk that makes  *)
(* space does not.  A stop ends the walk; of the walk that makes space     *)
(* AddRecord ignores it.                                                   *)
(***************************************************************************)
Final == adding = None

WalkRecord(s) ==
  /\ pc = "walk" /\ s \in left
  /\ IF map[s] = "here" /\ Complete(s, ~Final) /\ Callable(s)
     THEN \E keep \in KeepAlive, stop \in Stops :
            /\ CallCallback(s, keep, Judged(s, ~Final))
            /\ left' = IF stop THEN {} ELSE left \ {s}
            /\ asked' = IF stop THEN (IF Final THEN "final" ELSE "space") ELSE asked
            /\ UNCHANGED <<unread, lost>>
     ELSE /\ rec' = IF map[s] = "here" THEN Judged(s, ~Final) ELSE rec
          /\ left' = left \ {s}
          /\ UNCHANGED <<map, called, history>>
  /\ UNCHANGED <<disk, names, lastWalk, pc, cursor, cur, adding, missing, fetched, toFetch>>

WalkEnds ==
  /\ pc = "walk" /\ left = {}
  /\ IF Final THEN pc' = "done" /\ UNCHANGED lastWalk ELSE pc' = "cell" /\ lastWalk' = Cells
  /\ UNCHANGED <<disk, map, rec, called, names, cursor, cur, adding, missing, fetched, toFetch,
                 left, history>>

Step ==
  \/ EnumRecord \/ EnumFails \/ EnumEnds \/ SkipRecord \/ MakeSpace \/ RefuseRecord \/ AddRecord
  \/ LookAtFetched \/ CheckRecord \/ FetchRecord \/ FetchFails \/ FetchEnds \/ UpdateRecord
  \/ UseFreed \/ CallRecord \/ CallNothing \/ WalkEnds \/ \E s \in Segment : WalkRecord(s)

Ended == pc \in {"done", "freed"} /\ UNCHANGED vars

Next == Step \/ Ended

Spec == Init /\ [][Next]_vars
\* One thread runs the walk to its end.
FairSpec == Spec /\ WF_vars(Step)

-----------------------------------------------------------------------------
(***************************************************************************)
(* Properties.                                                             *)
(***************************************************************************)
\* The type invariant.
TypeOK ==
  /\ map \in [Segment -> {"absent", "here", "gone"}]
  /\ called \in [Segment -> BOOLEAN] /\ calls \in [Segment -> Nat]
  /\ names \in [Segment -> Segment \cup {Root, None}]
  /\ lastWalk \in Nat /\ cursor \in Nat
  /\ {cur, adding} \subseteq Segment \cup {None}
  /\ missing \cup fetched \cup toFetch \cup left \cup unread \cup lost \subseteq Segment
  /\ pc \in {"enum", "add", "cell", "look", "check", "fetch", "update", "call", "walk", "done", "freed"}
  /\ asked \in {"no", "enumeration", "space", "final"}

\* A record is called back once, whichever of the enumeration and the walks of the map comes
\* to it, and however often it is fetched again.
CalledOnce == \A s \in Segment : calls[s] <= 1

Base(s) == disk.base[s] = None

\* The attribute lists name segments of their own file.
ListsOwn == \A v \in Volumes, s \in Segment : \A t \in DOMAIN v.list[s] :
              v.list[s][t] = s \/ v.base[v.list[s][t]] = s

\* The attribute lists are complete: an attribute of another segment of a file stands in the list
\* of its base record, one of its own stands there as its own, and only base records have a list.
\* A directory is named by its base record, each segment of a file has the parent of the file,
\* and there are no cycles of directories.
VolumeSound(v) ==
  /\ \A s \in Segment : v.base[s] # None => DOMAIN v.list[s] = {} /\ v.parent[s] = v.parent[v.base[s]]
  /\ \A s \in Segment : v.base[s] = None =>
       /\ \A t \in DOMAIN v.list[s] : v.list[s][t] = s \/ v.base[v.list[s][t]] = s
       /\ \A t \in v.holds[s] \cap DOMAIN v.list[s] : v.list[s][t] = s
       /\ \A h \in Segment : v.base[h] = s => \A t \in v.holds[h] : t \in DOMAIN v.list[s] /\ v.list[s][t] = h
  /\ \A s \in Segment : v.parent[s] # Root => v.base[v.parent[s]] = None
  /\ \A D \in SUBSET Segment : D # {} => \E s \in D : v.parent[s] \notin D
VolumesSound == \A v \in Volumes : VolumeSound(v)

\* A walk nobody stopped calls back every file whose base record can be read and is one of those
\* the enumeration came to: all of the table, or what stands before a read of it that failed
\* (the walk ends there as if the table did; Walk returns what the last walk of the map does).
EveryoneCalled ==
  (pc = "done" /\ asked = "no") =>
     \A s \in Segment \ unread : Base(s) /\ Readable(s) => calls[s] = 1

\* What can be read of the file of base record s.  What a failed read of the table lost, in the
\* enumeration or in a fetch, is not; a fetch loses everything it had left to read.
Got(x) == Readable(x) /\ x \notin unread \cup lost
Legible(s) == UNION {disk.holds[h] : h \in {x \in Segment : Got(x) /\ (x = s \/ disk.base[x] = s)}}

\* A file is called back with all that its readable segments hold, and with the path to it as
\* far as the volume has one: what was missing at the time could not be read, or a failed read
\* of the table lost it before.  Not promised for a volume where a segment has lost its
\* signature (see FetchRecord).
CalledWhole ==
  (\A s \in Segment : disk.signature[s]) =>
     \A s \in Segment : calls[s] > 0 =>
        /\ Legible(s) \subseteq seen[s].types
        /\ \A d \in seen[s].lacking :
             Base(d) /\ Got(d) => ~({"$FILE_NAME", "$INDEX_ROOT"} \subseteq Legible(d))

\* Once ProgressCallback has asked to stop nobody is called back.  A stop that is asked of a
\* walk that makes space is not heeded.
StopHeeded == [][(asked \in {"enumeration", "final"}) => calls' = calls]_vars

\* The same for every stop: the comment at the end of AddRecord says the walker may stop.
EveryStopHeeded == [][asked # "no" => calls' = calls]_vars

\* The walk comes to its end.
WalkOver == <>(pc \in {"done", "freed"})
=============================================================================
