--------------------------- MODULE MCWolfLauncher ---------------------------
(* An execution of one command, with its statistics. *)
EXTENDS WolfLauncher

CONSTANTS c1, stats, hCmd, hWolf

OneCommand == <<c1>>
TheFiles == {c1, stats}
TheHandlers == TheFiles \cup {hCmd, hWolf}
NoDirs == {}
NoDirFiles == [d \in {} |-> {}]
TheUploads == {Archive}
\* The bits of ROBUSTNESS_COMMAND, ROBUSTNESS_ARCHIVE and ROBUSTNESS_TEMPFILE.
ThePriorities == [h \in TheHandlers |-> IF h = hCmd THEN 7 ELSE IF h = hWolf THEN 2 ELSE 1]
TheThreads == {Main, Console}
=============================================================================
