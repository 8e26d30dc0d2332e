----------------------- MODULE AipuSessionRefinement -----------------------
(* The job manager implements the abstract sessions of AipuSession.        *)
EXTENDS AipuJobManager

\* Where a linked session_job stands, by the state of its aipu_job
LinkedPhase(j) ==
    CASE state[j] = "IDLE"                   -> "listed"
      [] state[j] = "PENDING"                -> "queued"
      [] state[j] = "SCHED" /\ valid[j] = 1  -> "running"
      [] state[j] = "SCHED" /\ valid[j] = 0  -> "stale"
      [] state[j] = "END"   /\ valid[j] = 1  -> "late"
      [] OTHER                               -> "dead"

JobPhase ==
    [j \in Jobs |-> CASE sjob[j] = "NONE"   -> "none"
                      [] sjob[j] = "ACTIVE" -> LinkedPhase(j)
                      [] sjob[j] = "END"    -> "end"
                      [] sjob[j] = "FREED"  -> "gone"]

Kernel == INSTANCE AipuSession WITH phase <- JobPhase

\* The job manager, with its two queues, its unlocked calls and its two interrupt
\* halves, implements the abstract session: a job is delivered at most once and
\* only after the device ended it, a cancelled job is never delivered, and at most
\* one job of the open sessions is on the device.
ImplementsSession == Kernel!Spec
=============================================================================
