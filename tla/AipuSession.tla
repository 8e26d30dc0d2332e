----------------------------- MODULE AipuSession -----------------------------
(***************************************************************************)
(* What the kernel driver promises the user of a session about a job, with *)
(* the queues, the locks and the two interrupt halves left out.  A job is  *)
(*   listed   its session_job exists, the manager has not got it (yet)     *)
(*   queued   pending in the manager                                       *)
(*   running  on the device, valid                                         *)
(*   late     ended on the device, the session not told yet                *)
(*   end      the session has been told; QUERYSTATUS delivers it once      *)
(*   stale    cancelled, still on the device                               *)
(*   dead     cancelled, not on the device; the session is never told      *)
(*   gone     its session_job has been freed                               *)
(*                                                                         *)
(* AipuJobManager implements this specification (AipuSessionRefinement);   *)
(* UmdGraph is built on it.                                                *)
(***************************************************************************)
CONSTANT Jobs

VARIABLE phase

Phases == {"none", "listed", "queued", "running", "late", "end", "stale",
           "dead", "gone"}

Init == phase = [j \in Jobs |-> "none"]

\* RUNJOB, in its two halves; when the second one fails the job stays listed
List(j)  == phase[j] = "none"   /\ phase' = [phase EXCEPT ![j] = "listed"]
Queue(j) == phase[j] = "listed" /\ phase' = [phase EXCEPT ![j] = "queued"]

\* no job of an open session is on the device
DeviceFree == \A j \in Jobs : phase[j] \notin {"running", "stale"}

\* what a cancelled job becomes; one that has ended cannot be cancelled
Cancelled(p) == CASE p = "queued"  -> "dead"
                  [] p = "running" -> "stale"
                  [] OTHER         -> p

\* KILL_TIMEOUT_JOB of one job, or the cancellation of the jobs of a closing
\* session
Cancel(S) ==
    phase' = [j \in Jobs |-> IF j \in S THEN Cancelled(phase[j]) ELSE phase[j]]

Start(j) ==
    /\ phase[j] = "queued"
    /\ DeviceFree
    /\ phase' = [phase EXCEPT ![j] = "running"]

\* RUNJOB on an idle device queues the job and starts it
QueueAndStart(j, k) ==
    /\ phase[j] = "listed"
    /\ k = j \/ phase[k] = "queued"
    /\ DeviceFree
    /\ phase' = [phase EXCEPT ![j] = "queued", ![k] = "running"]

\* the interrupt: the job on the device ends, and another one may start
Ended(p) == IF p = "running" THEN "late" ELSE IF p = "stale" THEN "dead" ELSE p

Finish(j) ==
    /\ phase[j] \in {"running", "stale"}
    /\ \/ phase' = [phase EXCEPT ![j] = Ended(@)]
       \/ \E k \in Jobs :
            /\ phase[k] = "queued"
            /\ phase' = [phase EXCEPT ![j] = Ended(@), ![k] = "running"]

\* the bottom half tells the session
Deliver(j) == phase[j] = "late" /\ phase' = [phase EXCEPT ![j] = "end"]

\* QUERYSTATUS hands out ended jobs and nothing else
Collect(R) ==
    /\ \A j \in R : phase[j] = "end"
    /\ phase' = [j \in Jobs |-> IF j \in R THEN "gone" ELSE phase[j]]

\* the session is closed; its jobs have been cancelled before
Close(S) ==
    /\ \A j \in S : phase[j] \in Phases \ {"none", "queued", "running", "gone"}
    /\ phase' = [j \in Jobs |-> IF j \in S THEN "gone" ELSE phase[j]]

Next ==
    \/ \E j \in Jobs : \/ List(j) \/ Queue(j) \/ Start(j) \/ Finish(j)
                       \/ Deliver(j)
                       \/ \E k \in Jobs : QueueAndStart(j, k)
    \/ \E S \in SUBSET Jobs : Cancel(S) \/ Collect(S) \/ Close(S)

Spec == Init /\ [][Next]_phase
=============================================================================
