----------------------------- MODULE MCArchiving ----------------------------
(* Two commands: one leaves a file and has the queue flushed, the other    *)
(* leaves two directories, the first of them empty, and a stream.          *)
EXTENDS Archiving

CONSTANTS f1, f2, s1, d1, d2, console

TheItems == {f1, f2, s1}
TheFiles == {f1, f2}
TheDirs == {d1, d2}
TheDirFiles == [d \in TheDirs |-> IF d = d1 THEN {f2} ELSE {}]
TempFile == [d \in TheDirs |-> 2]
TheThreads == {console}
TheBatches ==
  {<<AddFile(f1), FlushQueue>>,
   <<AddDirectory(d2), AddDirectory(d1), AddStream(s1), FlushQueue>>}
=============================================================================
