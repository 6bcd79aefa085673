---------------------------- MODULE MCMFTWalker ----------------------------
(***************************************************************************)
(* The volumes of the runs: four segments in every arrangement into files, *)
(* a file in one of three layouts, at most one segment that cannot be read.*)
(***************************************************************************)
EXTENDS MFTWalker

N == 4
MCSegment == 1 .. N
MCRoot == N + 1
Nowhere == 0

Bases == {b \in [MCSegment -> 0 .. N] : \A s \in MCSegment : b[s] # 0 => b[b[s]] = 0 /\ b[s] # s}

Files(b) == {s \in MCSegment : b[s] = 0}
Others(b, s) == {h \in MCSegment : b[h] = s}

\* Where the attributes of a file are: a type goes to the base record, or to the first or the
\* last of the other segments.
Layouts(b, s) ==
  LET at(n, i, d) == [t \in Types |-> CASE t = "$FILE_NAME" -> n [] t = "$INDEX_ROOT" -> i [] OTHER -> d]
      first == Min(Others(b, s))
      last == Max(Others(b, s))
  IN IF Others(b, s) = {} THEN {at(s, s, s)}
     ELSE {at(s, s, last), at(s, first, last), at(last, first, s)}

\* The directories files are in: a forest under the root.
Trees(F) ==
  {p \in [F -> F \cup {MCRoot}] :
     \A s \in F : p[s] < s \/ p[s] = MCRoot \/ (p[s] > s /\ p[p[s]] = MCRoot)}

Volume(b, at, p, bad) ==
  LET file(h) == IF b[h] = 0 THEN h ELSE b[h]
      directory(s) == \E f \in Files(b) : p[f] = s
      holds == [h \in MCSegment |->
        {t \in Types : at[file(h)][t] = h /\ (t = "$INDEX_ROOT" => directory(file(h)))}]
      list(s) == [t \in {u \in Types : \E h \in Others(b, s) \cup {s} : u \in holds[h]} |-> at[s][t]]
  IN [base |-> b, holds |-> holds,
      list |-> [s \in MCSegment |-> IF b[s] # 0 \/ Others(b, s) = {} THEN [t \in {} |-> 0] ELSE list(s)],
      parent |-> [h \in MCSegment |-> p[file(h)]],
      signature |-> [h \in MCSegment |-> bad # <<h, "signature">>],
      inUse |-> [h \in MCSegment |-> bad # <<h, "inUse">>],
      fixup |-> [h \in MCSegment |-> bad # <<h, "fixup">>]]

Bad == {<<Nowhere, "none">>, <<1, "fixup">>, <<2, "signature">>, <<2, "fixup">>, <<3, "inUse">>, <<4, "signature">>}

MCVolumes ==
  UNION {{Volume(b, at, p, bad) : at \in {f \in [Files(b) -> UNION {Layouts(b, s) : s \in Files(b)}] :
                                            \A s \in Files(b) : f[s] \in Layouts(b, s)},
                                  p \in Trees(Files(b)), bad \in Bad} : b \in Bases}

\* The volumes of the runs are sound, as the theorems that hold for such volumes ask.
ASSUME SoundAssumption == ListsOwn /\ VolumesSound
=============================================================================
