---------------------------- MODULE MCImportBytes ---------------------------
(* ImportBytes on small instances: five contexts with equal items, or four with unequal
   ones. *)
EXTENDS ImportBytes, TLC

CONSTANTS t1, t2, t3, t4, t5

FiveContexts == {t1, t2, t3, t4, t5}
FourContexts == {t1, t2, t3, t4}
UnitItems == [t \in Contexts |-> 1]
MixedItems == [t \in Contexts |-> IF t = t1 THEN 1 ELSE IF t = t2 THEN 2 ELSE IF t = t3 THEN 3 ELSE 1]
=============================================================================
