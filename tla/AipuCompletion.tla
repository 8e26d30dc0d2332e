--------------------------- MODULE AipuCompletion ---------------------------
(***************************************************************************)
(* The way of a job through the kernel driver, composed from its ends:     *)
(* RUNJOB puts a job into the list of its session (AipuPoll) and hands it  *)
(* to the job manager (AipuUpperHalf), the device ends it, the upper half  *)
(* takes the interrupt access by access, the bottom half reports the job   *)
(* to the session, and the poll() that waits for it returns.               *)
(*                                                                         *)
(* The links are the ones of the code: the session job that                *)
(* aipu_session_add_job makes is the one that                              *)
(* aipu_job_manager_schedule_new_job is given, an aipu_job in state END is *)
(* what the bottom half calls aipu_session_job_done for, and               *)
(* KILL_TIMEOUT_JOB keeps it from doing so.  One session is modelled, and  *)
(* one RUNJOB at a time; jobs are numbered in the order they are submitted *)
(* in.                                                                     *)
(***************************************************************************)
EXTENDS AipuUpperHalf

CONSTANTS Threads, Uthread, Usages     \* of AipuPoll

VARIABLES usage, sjob, queues, single_thread_poll, poll, queue, woken

P == INSTANCE AipuPoll

ASSUME CompletionAssumption == P!PollConstants

session == <<usage, sjob, queues, single_thread_poll, poll, queue, woken>>
allvars == <<vars, session>>

CompletionInit == Init /\ P!Init

\* the job that a RUNJOB under way has listed and not handed over yet
Adding == {j \in Jobs : j > submitted /\ sjob[j] = "active"}

\* t is not inside a RUNJOB
Free(t) == \A j \in Adding : Uthread[j] # t

-----------------------------------------------------------------------------

\* RUNJOB, first half: aipu_session_add_job
RunJobAdd ==
    /\ submitted < MaxJobs /\ Adding = {}
    /\ P!AddJob(submitted + 1)
    /\ UNCHANGED vars

\* RUNJOB, second half: aipu_job_manager_schedule_new_job
RunJobSchedule ==
    /\ submitted + 1 \in Adding
    /\ ScheduleNewJob
    /\ UNCHANGED session

\* KILL_TIMEOUT_JOB by the thread of the job: a pending job is removed, one that
\* was started is marked invalid and left in its queue.  For a job that has ended
\* the ioctl fails and nothing changes.
KillTimeoutJob(j) ==
    /\ j <= submitted /\ Free(Uthread[j])
    /\ state[j] \in {"PENDING", "SCHED"}
    /\ P!KillJob(j)
    /\ state' = [state EXCEPT ![j] = IF @ = "PENDING" THEN "NONE" ELSE @]
    /\ UNCHANGED <<submitted, excep, sched_num, hw, how, ctrl, stat, edge, uh, ret>>

\* aipu_job_manager_update_job_queue_done_irq: the first ended job of the queue
\* that is valid is reported to its session
BottomHalf(j) ==
    /\ state[j] = "END"
    /\ \A k \in Jobs : k < j /\ state[k] = "END" => sjob[k] # "active"
    /\ P!JobDone(j)
    /\ UNCHANGED vars

InterruptStep == Handler /\ UNCHANGED session
DeviceStep    == Finish /\ UNCHANGED session

PollSteps(t)  == (P!PollReady(t) \/ P!PollSleep(t) \/ P!PollAgain(t)) /\ UNCHANGED vars
UserSteps(t)  == Free(t) /\ (P!PollEnter(t) \/ P!GetJobStatus(t)) /\ UNCHANGED vars
TimeoutStep(t) == P!PollTimeout(t) /\ UNCHANGED vars

CompletionNext ==
    \/ RunJobAdd \/ RunJobSchedule
    \/ \E j \in Jobs : KillTimeoutJob(j) \/ BottomHalf(j)
    \/ InterruptStep \/ DeviceStep
    \/ \E t \in Threads : PollSteps(t) \/ UserSteps(t) \/ TimeoutStep(t)

\* The device ends every job it is given; the handler is run for a latched edge and
\* the bottom half after it; a thread inside RUNJOB or poll() runs.  Nothing is
\* assumed of time-outs, kills, new jobs or queries.
CompletionSpec ==
    /\ CompletionInit /\ [][CompletionNext]_allvars
    /\ WF_allvars(DeviceStep) /\ WF_allvars(InterruptStep)
    /\ WF_allvars(RunJobSchedule)
    /\ WF_allvars(\E j \in Jobs : BottomHalf(j))
    /\ \A t \in Threads : WF_allvars(PollSteps(t))

-----------------------------------------------------------------------------
(* Properties.                                                             *)

\* No wake-up is lost: a thread sleeps in poll() while a job it polls for has
\* ended only if a wake-up is on its way to it.
NoLostWakeup == P!NoLostWakeup

\* the jobs whose end lets the poll() of t return: its own, or any if it has none
WaitsFor(t) == {j \in Jobs : /\ sjob[j] \in {"active", "end"}
                             /\ Uthread[j] = t \/ P!Own(t) = {}}

\* A poll() without a timeout returns, from whatever moment on the way of the job
\* it is for: unless the job is killed, or taken by the query of another thread,
\* its end passes the interrupt, the job manager, the session and the wait queue
\* and reaches the thread.
EveryPollReturns ==
    \A t \in Threads :
        (poll[t] # "no" /\ WaitsFor(t) # {}) ~> (poll[t] = "no" \/ WaitsFor(t) = {})
=============================================================================
