--------------------------- MODULE MCImportAgent ---------------------------
(* ImportAgent on small instances: one input file that holds an archive in an archive, items
   for a table, one of them of a format its agent does not import, and an item for the dummy
   flow.  The two archives can use up the bytes and wait for each other. *)
EXTENDS ImportAgent, TLC

CONSTANTS in, zip, zip2, log, csv, xml, table, dummy, q1, q0, main

Archive == {in, zip, zip2, csv, xml, log}
ArchiveRoots == {in}
ArchiveChildren ==
  [i \in Archive |->
     CASE i = in -> <<zip, csv>> [] i = zip -> <<zip2, log>> [] i = zip2 -> <<xml>>
       [] OTHER -> <<>>]
ArchiveFlow ==
  [i \in Archive |-> IF i \in {csv, xml} THEN table ELSE IF i = log THEN dummy ELSE main]
TablesAndDummy == {table, dummy}
OneEach == {q1, q0}
OneEachFlow == [a \in OneEach |-> IF a = q1 THEN table ELSE dummy]
DummyAgent == {q0}
\* What the switches of the agents know: not the item of the dummy flow, nor an XML file.
Known == Archive \ {log, xml}
InMemory == [i \in Archive |-> IF i \in {zip, zip2, log, xml} THEN 1 ELSE 0]
InFiles == [i \in Archive |-> IF i = csv THEN 1 ELSE 0]
=============================================================================
