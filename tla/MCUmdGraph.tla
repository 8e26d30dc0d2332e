----------------------------- MODULE MCUmdGraph -----------------------------
(* Small instances of UmdGraph.                                            *)
EXTENDS UmdGraph, TLC

CONSTANTS t1, t2, b1, b2

\* two threads with a handle each; or one thread with two
OwnBuffers == t1 :> {b1} @@ t2 :> {b2}
OneThread  == t1 :> {b1, b2} @@ t2 :> {}

\* no timeouts and no refusals: every wait polls for its own job, or all sleep and
\* another thread polls
Direct == [poll_opt |-> FALSE, timed |-> FALSE, refuse |-> FALSE,
           max_jobs |-> 3, max_own |-> 1, may_use |-> OwnBuffers]
Polled == [Direct EXCEPT !.poll_opt = TRUE]

\* with timeouts, and a kernel that may refuse a job
TimedThreads == [Direct EXCEPT !.timed = TRUE, !.refuse = TRUE, !.max_jobs = 2]
TimedPolled  == [TimedThreads EXCEPT !.poll_opt = TRUE]
TimedPair    == [TimedThreads EXCEPT !.max_own = 2, !.may_use = OneThread]

MCSetups == {Direct, Polled, TimedThreads, TimedPolled, TimedPair}
=============================================================================
