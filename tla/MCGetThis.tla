------------------------------ MODULE MCGetThis -----------------------------
(***************************************************************************)
(* The terms, records and limits of the runs: a term for each sort of      *)
(* criterion and each table, and records that meet some of them.           *)
(***************************************************************************)
EXTENDS GetThis

Term(req, spl, acc) == [required |-> req, split |-> spl, accepts |-> acc]

MCCatalog ==
  [exactA   |-> Term({"NAME"}, {"NAME_EXACT"}, [NAME_EXACT |-> {"a"}]),
   pathA    |-> Term({"PATH_EXACT"}, {}, [PATH_EXACT |-> {"dir-a"}]),
   nameSize |-> Term({"NAME", "SIZE_GE", "SIZE_LT"}, {"NAME_MATCH"},
                     [NAME_MATCH |-> {"a", "b"}, SIZE_GE |-> {2, 3}, SIZE_LT |-> {1, 2}]),
   streamOfA |-> Term({"NAME"}, {"NAME_EXACT", "ADS_MATCH"},
                     [NAME_EXACT |-> {"a"}, ADS_MATCH |-> {"", "s", "st"}]),
   exactStream |-> Term({"ADS_EXACT", "DATA_MD5"}, {}, [ADS_EXACT |-> {"st"}, DATA_MD5 |-> {"x"}]),
   attr     |-> Term({"ATTR_TYPE", "PATH_REGEX"}, {},
                     [ATTR_TYPE |-> {"$EA", "$DATA"}, PATH_REGEX |-> {"dir-a", "dir-b"}]),
   ea       |-> Term({"EA"}, {"EA_MATCH"}, [EA_MATCH |-> {"e"}]),
   content  |-> Term({"CONTAINS", "SIZE_EQ"}, {}, [CONTAINS |-> {"x"}, SIZE_EQ |-> {2}]),
   yara     |-> Term({"YARA"}, {}, [YARA |-> {"x"}]),
   eaExact  |-> Term({"EA", "ATTR_TYPE"}, {"EA_EXACT"}, [EA_EXACT |-> {"e"}, ATTR_TYPE |-> {"$EA"}]),
   sizes    |-> Term({"SIZE_EQ", "SIZE_GE"}, {}, [SIZE_EQ |-> {2}, SIZE_GE |-> {1, 2}]),
   refused  |-> Term({"NAME", "PATH_MATCH"}, {"NAME_EXACT"}, [NAME_EXACT |-> {"a"}, PATH_MATCH |-> {"dir-a"}]),
   hash     |-> Term({"NAME_EXACT", "DATA_MD5"}, {}, [NAME_EXACT |-> {"b"}, DATA_MD5 |-> {"x"}])]
MCTerms == DOMAIN MCCatalog
MCPrefix == [st |-> {"", "s", "st"}]

Name(text, path, here) == [text |-> text, path |-> path, here |-> here]
A == Name("a", "dir-a", TRUE)
B == Name("b", "dir-b", TRUE)
Out == Name("a", "out-a", FALSE)
Short == Name("a", "top-a", TRUE)

Stream(name, size, content, opens, instance) ==
  [type |-> "$DATA", name |-> name, size |-> size, content |-> content, items |-> {},
   opens |-> opens, instance |-> instance]
Extended == [type |-> "$EA", name |-> "", size |-> 1, content |-> "", items |-> {"e"},
             opens |-> TRUE, instance |-> 4]
One == Stream("", 1, "y", TRUE, 1)
Empty == Stream("", 0, "", TRUE, 1)
EmptyS == Stream("s", 0, "", TRUE, 2)
Plain == Stream("", 2, "y", TRUE, 1)
Two == Stream("", 2, "x", TRUE, 1)
S == Stream("s", 2, "x", TRUE, 2)
Shut == Stream("st", 2, "x", FALSE, 3)

RecordOf(names, attrs, default) == [names |-> names, attrs |-> attrs, default |-> default]
Attributes ==
  {<<One>>, <<Two>>, <<One, S>>, <<S, One>>, <<One, Shut>>, <<Two, Extended>>, <<Plain, Extended>>}
MCRecords ==
  {RecordOf(names, attrs, Len(names)) : names \in {<<A>>, <<A, B>>}, attrs \in Attributes}
    \cup {RecordOf(names, <<S, Two>>, Len(names)) : names \in {<<B, Out>>, <<Out, B>>, <<Short>>}}
MCVolumes ==
  {<<r>> : r \in MCRecords}
    \cup {<<RecordOf(<<A, B>>, attrs, 1), RecordOf(<<B>>, <<attr>>, 1)>> :
            attrs \in {<<Two>>, <<Empty, EmptyS>>}, attr \in {One, Two}}

Limit(count, bytes, perSample) == [count |-> count, bytes |-> bytes, perSample |-> perSample, ignore |-> FALSE]
MCInfinite == 99
MCGlobalLimits == Limit(2, 2, MCInfinite)
MCSpecs == {"small", "few", "free"}
MCSpecOf == [t \in MCTerms |->
  IF t \in {"exactA", "ea"} THEN "small" ELSE IF t \in {"content", "hash"} THEN "free" ELSE "few"]
MCLocalLimits == [small |-> Limit(MCInfinite, MCInfinite, 1), few |-> Limit(1, MCInfinite, MCInfinite),
                   free |-> Limit(MCInfinite, MCInfinite, MCInfinite)]
=============================================================================
