---------------------------- MODULE MCCompletion ----------------------------
(* Instances of AipuCompletion for TLC. *)
EXTENDS AipuCompletion

CONSTANTS t1, t2, t3

\* one cause per job; a fault comes with an exception
MCEndings == {{"DONE"}, {"EXCEP", "FAULT"}}

\* t1 submits the first and the third job, t2 the second
MCUthread == <<t1, t2, t1>>

\* either every thread waits for its own jobs, or a thread without jobs for all
MCUsages == {[own |-> {t1, t2}, any |-> {}], [own |-> {}, any |-> {t3}]}
=============================================================================
