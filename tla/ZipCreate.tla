----------------------------- MODULE ZipCreate ------------------------------
(***************************************************************************)
(* The compressor of OrcLib/ZipCreate.cpp and ArchiveCreate.cpp, over the  *)
(* 7-Zip library.  Items are queued; a flush writes the queued items and   *)
(* those of the previous temporary archive into a new temporary archive,   *)
(* and the last one writes them into the archive itself.  An item's stream *)
(* is closed as soon as it is written, which deletes a file that was       *)
(* opened to be deleted on close.                                          *)
(*                                                                         *)
(* A compressor is a record, and each operation the set of results it may  *)
(* have: the record after it and its HRESULT.                              *)
(***************************************************************************)
EXTENDS Integers, Sequences, FiniteSets

CONSTANTS
  Items,         \* what is added to the archive: files and streams
  Faults         \* the refusals considered, out of AllFaults

\* "add": an item cannot be opened.  "flush": the library, its settings or a
\* new temporary stream cannot be had.  "item": one item is not archived.
\* "update": UpdateItems fails as a whole.  "move": the last copy fails.
\* "open" and "remove" are the agent's.
AllFaults == {"open", "add", "flush", "item", "update", "move", "remove"}

ASSUME ZipAssumption == /\ IsFiniteSet(Items) /\ Faults \subseteq AllFaults

\* m_TempStream before the first flush.
NoTemp == <<>>

\* ready: InitArchive has succeeded; without it m_FormatGUID is null.
\* indexed: the items of m_Items that have an Index.
\* torn: history, the items that an UpdateItems which failed was to write.
Compressors ==
  [queue: SUBSET Items, items: SUBSET Items, indexed: SUBSET Items,
   temp: {NoTemp} \cup {<<s>> : s \in SUBSET Items},
   output: SUBSET Items, closed: BOOLEAN, ready: BOOLEAN, torn: SUBSET Items]

NewCompressor ==
  [queue |-> {}, items |-> {}, indexed |-> {}, temp |-> NoTemp,
   output |-> {}, closed |-> FALSE, ready |-> TRUE, torn |-> {}]

Result(z, hr) == [zip |-> z, hr |-> hr]

\* AddFile and AddStream open the item and queue it.
Additions(z, i) ==
  {Result([z EXCEPT !.queue = @ \cup {i}], "ok")}
    \cup (IF "add" \in Faults THEN {Result(z, "fail")} ELSE {})

\* The items a run of UpdateItems may archive: all of them, or all but some
\* it could not read.
Archivable(s) == IF "item" \in Faults THEN SUBSET s ELSE {s}

\* What the archive UpdateItems starts from holds.
Base(z) == IF z.items = {} THEN {} ELSE z.temp[1]

\* Mutant: the leftovers stay in m_Items, out of the queue.
UpdatedKeepsLeftovers(z, final, new) ==
  LET content == z.indexed \cup new
  IN [z EXCEPT !.items = content, !.indexed = content, !.queue = {},
               !.temp = IF final THEN NoTemp ELSE <<content>>,
               !.output = IF final THEN content ELSE @]

\* UpdateItems succeeds: the new archive holds what had an Index and what is
\* archived now, and the items left over go back to the queue.
Updated(z, final, new) ==
  LET all == z.items \cup z.queue
      content == z.indexed \cup new
  IN [z EXCEPT !.items = content, !.indexed = content, !.queue = all \ content,
               !.temp = IF final THEN NoTemp ELSE <<content>>,
               !.output = IF final THEN content ELSE @]

\* The items UpdateItems is to write: those without an Index.
Unwritten(z) == (z.items \cup z.queue) \ z.indexed

\* UpdateItems fails: the queue has moved to m_Items for good, the items it
\* had done have their Index, and the new archive is dropped.
UpdateFailed(z, final, new) ==
  [z EXCEPT !.items = @ \cup z.queue, !.indexed = @ \cup new, !.queue = {},
            !.output = IF final THEN {} ELSE @, !.torn = @ \cup Unwritten(z)]

\* It starts from the last temporary archive, which must hold what has an
\* Index; it fails with an error or with S_FALSE.
Updates(z, final) ==
  (IF z.indexed \subseteq Base(z)
     THEN {Result(Updated(z, final, new), "ok") : new \in Archivable(Unwritten(z))}
     ELSE {Result(UpdateFailed(z, final, {}), "fail")})
    \cup (IF "update" \in Faults
            THEN {Result(UpdateFailed(z, final, new), hr) :
                    new \in SUBSET Unwritten(z), hr \in {"fail", "false"}}
            ELSE {})

\* Internal_FlushQueue.  Without a format it makes no archiver, and with items
\* but without a temporary archive it uses a null pointer.
Flushes(z, final) ==
  (IF ~z.ready THEN {Result(z, "fail")}
   ELSE IF z.queue = {} THEN {Result(z, "ok")}
   ELSE IF z.items # {} /\ z.temp = NoTemp THEN {Result(z, "crash")}
   ELSE Updates(z, final))
    \cup (IF "flush" \in Faults THEN {Result(z, "fail")} ELSE {})

\* Complete: the last flush, and the temporary archive becomes the archive if
\* there is still one: the flush had nothing to write, or it returned S_FALSE,
\* which is no failure here.
Completions(z) ==
  UNION {IF r.hr \in {"fail", "crash"} THEN {r}
         ELSE IF r.zip.temp = NoTemp THEN {Result([r.zip EXCEPT !.closed = TRUE], "ok")}
         ELSE {Result([r.zip EXCEPT !.output = r.zip.temp[1], !.closed = TRUE], "ok")}
                \cup (IF "move" \in Faults THEN {Result(r.zip, "fail")} ELSE {})
         : r \in Flushes(z, TRUE)}

\* Mutant: every queued item is closed, archived or not.
ClosedAll(before, after) ==
  (after.items \cup before.queue) \ before.indexed

\* The items whose stream an operation closes: those it has written, and at
\* the end all of m_Items.
Closed(before, after) ==
  (IF after.closed THEN after.items ELSE after.indexed) \ before.indexed

\* What the archives made so far hold.
Content(z) == z.output \cup (IF z.temp = NoTemp THEN {} ELSE z.temp[1])
=============================================================================
