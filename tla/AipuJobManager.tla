--------------------------- MODULE AipuJobManager ---------------------------
(***************************************************************************)
(* The kernel job manager (aipu_job_manager.c) with everything that        *)
(* touches its queues: the ioctls of aipu_fops.c, the job list of a        *)
(* session (aipu_session.c), the two interrupt halves (aipu_irq.c, z1.c,   *)
(* z2.c) and the device.                                                   *)
(*                                                                         *)
(* A member of Jobs is one RUNJOB request together with the two kernel     *)
(* objects made for it: the struct aipu_job in a queue of the manager and  *)
(* the struct session_job in the job list of its session.  An action is    *)
(* what one actor does between two points where another one can get in:    *)
(* a region under job_manager->lock or under session->job_lock.            *)
(*                                                                         *)
(* A linked list to which nodes are only ever added at one end is          *)
(* represented by its members and, for each member j, by the set of nodes  *)
(* that were in the list when j was linked: before[j] for the two queues   *)
(* of the manager, older[j] for the job list of a session.                 *)
(***************************************************************************)
EXTENDS Integers, FiniteSets

CONSTANTS
    Jobs,       \* the RUNJOB requests of a behaviour
    Sessions,   \* the open() calls of a behaviour, one struct aipu_session each
    Threads,    \* user threads
    JobIds,     \* values of user_job_desc.job_id
    NoJob,      \* "no job": a null pointer, or the list head
    Owner,      \* Owner[j]: the session (file descriptor) j is submitted on
    Uthread,    \* Uthread[j]: the thread that submits j
    JobId,      \* JobId[j]: the job_id user space gave j
    UserPid,    \* UserPid[s]: the thread that opened s (session->user_pid)
    MaxCnt,     \* largest max_cnt of a QUERYSTATUS
    Outcomes,   \* the interrupts with which the device ends a job
    IdleLag     \* may the idle bits lag behind that interrupt?

ASSUME ConstantsAssumption ==
    /\ NoJob \notin Jobs
    /\ Owner \in [Jobs -> Sessions]
    /\ Uthread \in [Jobs -> Threads]
    /\ JobId \in [Jobs -> JobIds]
    /\ UserPid \in [Sessions -> Threads]
    /\ MaxCnt \in Nat \ {0}
    /\ Outcomes \subseteq {"done", "excep"}
    /\ IdleLag \in BOOLEAN

VARIABLES
    \* struct aipu_job
    state,          \* state[j]; "IDLE" before it is queued, "FREED" after kfree
    valid,          \* valid_flag
    exception_flag, \* exception_flag, as the interrupt that set it
    before,         \* the jobs ahead of j when it was last added to a queue
    \* struct session_job
    sjob,           \* "NONE", "ACTIVE" (linked, state 0), "END" or "FREED"
    exception_type, \* exception_type
    older,          \* the session_jobs already in the list when j was added
    \* struct aipu_session, as the progress of its file descriptor
    session,        \* "closed", "open", then the steps of aipu_release
    \* user threads
    call,           \* call[t]: the job whose RUNJOB ioctl t is executing
    report,         \* report[j]: the status a QUERYSTATUS delivered for j
    \* struct aipu_job_manager
    sched_num,
    \* device
    hw_job,         \* the job the core is executing
    hw_busy,        \* some idle bit of the status register is clear
    irq,            \* DONE/EXCEP bit raised and not yet cleared
    outcome,        \* history: how the device ended j
    \* interrupt handling
    uh,             \* upper half: "idle", or "queue" before aipu_irq_schedulework
    work,           \* the work item is queued
    bh,             \* bottom half: "idle", "scan", "call" or "relock"
    bh_curr,        \* its cursor while the lock is dropped
    bh_next         \* the saved successor of the cursor

jobvars  == <<state, valid, exception_flag, before>>
sjobvars == <<sjob, exception_type, older, report>>
hwvars   == <<hw_job, hw_busy, irq, outcome>>
bhvars   == <<bh, bh_curr, bh_next>>
vars     == <<jobvars, sjobvars, session, call, sched_num, hwvars, uh, work,
              bhvars>>

-----------------------------------------------------------------------------
\* Mutant: two jobs may be scheduled at a time.
MaxSchedNumTwo == 2

\* ZHOUYI_V1_MAX_SCHED_JOB_NUM and ZHOUYI_V2_MAX_SCHED_JOB_NUM
MaxSchedNum == 1

Pending   == {j \in Jobs : state[j] = "PENDING"}
Scheduled == {j \in Jobs : state[j] \in {"SCHED", "END"}}

\* Mutant: the walk starts at the tail.
IsLast(j, S, bf) == j \in S /\ \A k \in S : j \notin bf[k]

\* j is the first of the nodes S of one list whose order is bf
IsFirst(j, S, bf) == j \in S /\ bf[j] \cap S = {}

Init ==
    /\ state = [j \in Jobs |-> "IDLE"]
    /\ valid = [j \in Jobs |-> 1]
    /\ exception_flag = [j \in Jobs |-> "none"]
    /\ before = [j \in Jobs |-> {}]
    /\ sjob = [j \in Jobs |-> "NONE"]
    /\ exception_type = [j \in Jobs |-> "none"]
    /\ older = [j \in Jobs |-> {}]
    /\ session = [s \in Sessions |-> "closed"]
    /\ call = [t \in Threads |-> NoJob]
    /\ report = [j \in Jobs |-> "none"]
    /\ sched_num = 0
    /\ hw_job = NoJob
    /\ hw_busy = 0
    /\ irq = "none"
    /\ outcome = [j \in Jobs |-> "none"]
    /\ uh = "idle"
    /\ work = 0
    /\ bh = "idle"
    /\ bh_curr = NoJob
    /\ bh_next = NoJob

-----------------------------------------------------------------------------
(* Scheduling, called with job_manager->lock held.  The arguments are the  *)
(* job states, the queue order and sched_num as the caller left them.      *)

\* is_idle: the status register shows every unit idle
IsIdle == hw_busy = 0

\* trigger: the descriptor of j is written to the registers and the core started
Trigger(j) == hw_job' = j /\ hw_busy' = 1

\* Mutant: only the idle bits are looked at.
CanTriggerWhenIdle(st, num) ==
    /\ \E k \in Jobs : st[k] = "PENDING"
    /\ IsIdle

CanTrigger(st, num) ==
    /\ \E k \in Jobs : st[k] = "PENDING"
    /\ num < MaxSchedNum
    /\ IsIdle

\* aipu_schedule_pending_job_no_lock: the first pending job is written to the
\* device and moved to the tail of the scheduled queue
SchedulePending(st, bf, num) ==
    \/ /\ CanTrigger(st, num)
       /\ \E j \in Jobs :
            /\ IsFirst(j, {k \in Jobs : st[k] = "PENDING"}, bf)
            /\ state' = [st EXCEPT ![j] = "SCHED"]
            /\ before' = [bf EXCEPT ![j] = {k \in Jobs : st[k] \in {"SCHED", "END"}}]
            /\ Trigger(j)
       /\ sched_num' = num + 1
    \/ /\ ~CanTrigger(st, num)
       /\ state' = st
       /\ before' = bf
       /\ sched_num' = num
       /\ UNCHANGED <<hw_job, hw_busy>>

\* Mutant: a job on the device is unlinked and freed as well.
InvalidateJobsFreesSched(S) ==
    /\ state' = [j \in Jobs |->
                   IF j \in S /\ state[j] # "END" THEN "FREED" ELSE state[j]]
    /\ valid' = valid

\* Mutant: a job on the device is left alone.
InvalidateJobsSkipsSched(S) ==
    /\ state' = [j \in Jobs |->
                   IF j \in S /\ state[j] = "PENDING" THEN "FREED" ELSE state[j]]
    /\ valid' = valid

\* aipu_invalidate_job_no_lock on every job of S: no SoC of this build offers a
\* logic reset, so a job on the device is only marked; one that has ended is
\* left alone
InvalidateJobs(S) ==
    /\ state' = [j \in Jobs |->
                   IF j \in S /\ state[j] = "PENDING" THEN "FREED" ELSE state[j]]
    /\ valid' = [j \in Jobs |->
                   IF j \in S /\ state[j] = "SCHED" THEN 0 ELSE valid[j]]

-----------------------------------------------------------------------------
(* File operations.                                                        *)

\* aipu_open
Open(s) ==
    /\ session[s] = "closed"
    /\ session' = [session EXCEPT ![s] = "open"]
    /\ UNCHANGED <<jobvars, sjobvars, call, sched_num, hwvars, uh, work,
                   bhvars>>

\* RUNJOB, first half: aipu_session_add_job.  A failed allocation changes
\* nothing and is no step.
SessionAddJob(t, j) ==
    /\ call[t] = NoJob
    /\ Uthread[j] = t
    /\ session[Owner[j]] = "open"
    /\ sjob[j] = "NONE"
    /\ sjob' = [sjob EXCEPT ![j] = "ACTIVE"]
    /\ older' = [older EXCEPT ![j] = {k \in Jobs : /\ Owner[k] = Owner[j]
                                                   /\ sjob[k] \in {"ACTIVE", "END"}}]
    /\ call' = [call EXCEPT ![t] = j]
    /\ UNCHANGED <<jobvars, exception_type, report, session, sched_num, hwvars,
                   uh, work, bhvars>>

\* RUNJOB, second half: aipu_job_manager_schedule_new_job
ScheduleNewJob(t) ==
    /\ call[t] # NoJob
    /\ SchedulePending([state EXCEPT ![call[t]] = "PENDING"],
                       [before EXCEPT ![call[t]] = Pending], sched_num)
    /\ call' = [call EXCEPT ![t] = NoJob]
    /\ UNCHANGED <<valid, exception_flag, sjobvars, session, irq, outcome, uh,
                   work, bhvars>>

\* the same when create_aipu_job finds no memory: the ioctl fails and the
\* session_job of the first half stays in the session
ScheduleNewJobNoMem(t) ==
    /\ call[t] # NoJob
    /\ call' = [call EXCEPT ![t] = NoJob]
    /\ UNCHANGED <<jobvars, sjobvars, session, sched_num, hwvars, uh, work,
                   bhvars>>

\* KILL_TIMEOUT_JOB: aipu_invalidate_timeout_job searches the pending queue and
\* then the scheduled one for the first job of this thread with this id.  When
\* it meets none, or one that has ended, the ioctl fails and nothing changes.
KillTimeoutJob(t, id) ==
    LET match == {j \in Jobs : Uthread[j] = t /\ JobId[j] = id}
        where == IF Pending \cap match # {} THEN Pending \cap match
                                            ELSE Scheduled \cap match
    IN /\ call[t] = NoJob
       /\ \E j \in Jobs : /\ IsFirst(j, where, before)
                          /\ state[j] # "END"
                          /\ InvalidateJobs({j})
       /\ UNCHANGED <<exception_flag, before, sjobvars, session, call, sched_num,
                      hwvars, uh, work, bhvars>>

\* QUERYSTATUS: the statuses of R are copied out and their session_jobs freed
GetJobStatus(R) ==
    /\ sjob' = [j \in Jobs |-> IF j \in R THEN "FREED" ELSE sjob[j]]
    /\ report' = [j \in Jobs |->
                    IF j \in R
                      THEN IF exception_type[j] = "none" THEN "DONE" ELSE "EXCEPTION"
                      ELSE report[j]]
    /\ UNCHANGED <<jobvars, exception_type, older, session, call, sched_num,
                   hwvars, uh, work, bhvars>>

\* Mutant: the state of the session_job is not looked at.
EndJobsAnyState(s) == {j \in Jobs : Owner[j] = s /\ sjob[j] \in {"ACTIVE", "END"}}

EndJobs(s) == {j \in Jobs : Owner[j] = s /\ sjob[j] = "END"}

\* aipu_session_get_job_status with get_single_job: the first ended job with
\* that id; session_jobs are added at the head of the list, newest first
QuerySingle(s, id) ==
    /\ session[s] = "open"
    /\ \E j \in EndJobs(s) :
         /\ JobId[j] = id
         /\ \A k \in EndJobs(s) : JobId[k] = id => j \notin older[k]
         /\ GetJobStatus({j})

\* aipu_session_get_job_status without it: the first max_cnt ended jobs
QueryAll(s, max_cnt) ==
    /\ session[s] = "open"
    /\ \E R \in SUBSET EndJobs(s) :
         /\ R # {}
         /\ Cardinality(R) = max_cnt \/ (R = EndJobs(s) /\ Cardinality(R) < max_cnt)
         /\ \A j \in R, k \in EndJobs(s) \ R : k \in older[j]
         /\ GetJobStatus(R)

-----------------------------------------------------------------------------
(* aipu_release.  It runs when the last reference to the file is gone, so  *)
(* no ioctl is in progress on s.                                           *)

\* aipu_job_manager_cancel_session_jobs, under job_manager->lock.  Jobs are
\* matched by the pid in their session; for a job whose session has been freed
\* that is a read of freed memory and may or may not match.
ReleaseCancel(s) ==
    /\ session[s] = "open"
    /\ \A t \in Threads : call[t] # NoJob => Owner[call[t]] # s
    /\ \E stale \in SUBSET {j \in Pending \cup Scheduled :
                              session[Owner[j]] = "destroyed"} :
         InvalidateJobs(stale \cup
            {j \in Pending \cup Scheduled : /\ session[Owner[j]] # "destroyed"
                                            /\ UserPid[Owner[j]] = UserPid[s]})
    /\ session' = [session EXCEPT ![s] = "cancelled"]
    /\ UNCHANGED <<exception_flag, before, sjobvars, call, sched_num, hwvars, uh,
                   work, bhvars>>

\* aipu_session_delete_jobs, under session->job_lock
ReleaseDeleteJobs(s) ==
    /\ session[s] = "cancelled"
    /\ sjob' = [j \in Jobs |->
                  IF Owner[j] = s /\ sjob[j] \in {"ACTIVE", "END"}
                    THEN "FREED" ELSE sjob[j]]
    /\ session' = [session EXCEPT ![s] = "jobs_deleted"]
    /\ UNCHANGED <<jobvars, exception_type, older, report, call, sched_num,
                   hwvars, uh, work, bhvars>>

\* aipu_mm_free_session_buffers: the memory of s goes back to the allocator
ReleaseFreeBuffers(s) ==
    /\ session[s] = "jobs_deleted"
    /\ session' = [session EXCEPT ![s] = "buffers_freed"]
    /\ UNCHANGED <<jobvars, sjobvars, call, sched_num, hwvars, uh, work,
                   bhvars>>

\* aipu_destroy_session
ReleaseDestroy(s) ==
    /\ session[s] = "buffers_freed"
    /\ session' = [session EXCEPT ![s] = "destroyed"]
    /\ UNCHANGED <<jobvars, sjobvars, call, sched_num, hwvars, uh, work,
                   bhvars>>

-----------------------------------------------------------------------------
(* The device.  It ends the program it was given with one DONE or one      *)
(* EXCEP interrupt.                                                        *)

HwFinish(out) ==
    /\ hw_job # NoJob
    /\ outcome' = [outcome EXCEPT ![hw_job] = out]
    /\ irq' = out
    /\ hw_job' = NoJob
    /\ hw_busy' \in IF IdleLag THEN {0, 1} ELSE {0}
    /\ UNCHANGED <<jobvars, sjobvars, session, call, sched_num, uh, work,
                   bhvars>>

\* the idle bits catch up
HwSettle ==
    /\ hw_job = NoJob
    /\ hw_busy = 1
    /\ hw_busy' = 0
    /\ UNCHANGED <<jobvars, sjobvars, session, call, sched_num, hw_job, irq,
                   outcome, uh, work, bhvars>>

-----------------------------------------------------------------------------
(* Interrupt handling.                                                     *)

Running == {j \in Jobs : state[j] = "SCHED"}

\* the job an interrupt is taken to be about, as a set: the first SCHED job of
\* the scheduled queue
IrqJob == {j \in Running : IsFirst(j, Running, before)}

\* the upper half of the core finds the DONE or EXCEP bit and clears it
ClearIrq == irq # "none" /\ irq' = "none"

\* Upper half: the bit is cleared and aipu_job_manager_update_job_state_irq ends
\* that job and schedules a pending one
UhUpdateJobState ==
    /\ uh = "idle"
    /\ ClearIrq
    /\ exception_flag' = [j \in Jobs |->
                            IF j \in IrqJob THEN irq ELSE exception_flag[j]]
    /\ SchedulePending([j \in Jobs |-> IF j \in IrqJob THEN "END" ELSE state[j]],
                       before,
                       IF IrqJob # {} /\ sched_num # 0 THEN sched_num - 1
                                                       ELSE sched_num)
    /\ uh' = "queue"
    /\ UNCHANGED <<valid, sjobvars, session, call, outcome, work, bhvars>>

\* Mutant: work is not queued again while the bottom half runs.
UhScheduleWorkOnce ==
    /\ uh = "queue"
    /\ work' = IF bh = "idle" THEN 1 ELSE work
    /\ uh' = "idle"
    /\ UNCHANGED <<jobvars, sjobvars, session, call, sched_num, hwvars, bhvars>>

\* aipu_irq_schedulework: queue_work does nothing when the item is queued
UhScheduleWork ==
    /\ uh = "queue"
    /\ work' = 1
    /\ uh' = "idle"
    /\ UNCHANGED <<jobvars, sjobvars, session, call, sched_num, hwvars, bhvars>>

\* the single worker takes the item off the queue and calls the bottom half
BhStart ==
    /\ bh = "idle"
    /\ work = 1
    /\ work' = 0
    /\ bh' = "scan"
    /\ UNCHANGED <<jobvars, sjobvars, session, call, sched_num, hwvars, uh,
                   bh_curr, bh_next>>

\* The loop of aipu_job_manager_update_job_queue_done_irq over L, the rest of
\* the list, with the lock held: cancelled jobs that have ended are freed up to
\* the first valid one, for which the lock is dropped with its successor saved
BhLoop(st, L) ==
    LET ended == {j \in L : st[j] = "END"}
        calls == {j \in ended : valid[j] = 1}
    IN \/ /\ calls = {}
          /\ state' = [j \in Jobs |-> IF j \in ended THEN "FREED" ELSE st[j]]
          /\ bh' = "idle"
          /\ bh_curr' = NoJob
          /\ bh_next' = NoJob
       \/ \E v \in calls :
            LET rest == {k \in L : v \in before[k]}
            IN /\ IsFirst(v, calls, before)
               /\ state' = [j \in Jobs |->
                              IF j \in ended \cap before[v] THEN "FREED" ELSE st[j]]
               /\ bh' = "call"
               /\ bh_curr' = v
               /\ \/ rest = {} /\ bh_next' = NoJob
                  \/ \E n \in rest : IsFirst(n, rest, before) /\ bh_next' = n

\* Mutant: the bottom half decrements sched_num too.
BhScanDecrements ==
    /\ bh = "scan"
    /\ BhLoop(state, Scheduled)
    /\ sched_num' = sched_num - 1
    /\ UNCHANGED <<valid, exception_flag, before, sjobvars, session, call, hwvars,
                   uh, work>>

\* the first pass of the loop starts at the head of the scheduled queue
BhScan ==
    /\ bh = "scan"
    /\ BhLoop(state, Scheduled)
    /\ UNCHANGED <<valid, exception_flag, before, sjobvars, session, call,
                   sched_num, hwvars, uh, work>>

\* Mutant: a job that ended with an exception is not marked.
BhSessionJobDoneSkipsExcep ==
    /\ bh = "call"
    /\ sjob' = [sjob EXCEPT ![bh_curr] =
                  IF @ = "ACTIVE" /\ exception_flag[bh_curr] = "done" THEN "END" ELSE @]
    /\ exception_type' = [exception_type EXCEPT ![bh_curr] = "none"]
    /\ bh' = "relock"
    /\ UNCHANGED <<jobvars, older, report, session, call, sched_num, hwvars, uh,
                   work, bh_curr, bh_next>>

\* aipu_session_job_done(curr->session, curr->session_job, curr->exception_flag),
\* without job_manager->lock.  Stores to a session_job already freed are lost.
BhSessionJobDone ==
    /\ bh = "call"
    /\ sjob' = [sjob EXCEPT ![bh_curr] = IF @ = "ACTIVE" THEN "END" ELSE @]
    /\ exception_type' = [exception_type EXCEPT ![bh_curr] = "none"]
    /\ bh' = "relock"
    /\ UNCHANGED <<jobvars, older, report, session, call, sched_num, hwvars, uh,
                   work, bh_curr, bh_next>>

\* the list from the saved successor on; empty when that is the list head
BhRest == {j \in Scheduled : j = bh_next \/ bh_next \in before[j]}

\* the lock is taken again, curr is unlinked and freed, and the loop goes on at
\* the saved successor
BhRelock ==
    /\ bh = "relock"
    /\ BhLoop([state EXCEPT ![bh_curr] = "FREED"], BhRest)
    /\ UNCHANGED <<valid, exception_flag, before, sjobvars, session, call,
                   sched_num, hwvars, uh, work>>

-----------------------------------------------------------------------------
\* Every request has been made and served and every session closed
Finished ==
    /\ \A s \in Sessions : session[s] = "destroyed"
    /\ Pending \cup Scheduled = {}
    /\ hw_busy = 0 /\ uh = "idle" /\ work = 0 /\ bh = "idle"
    /\ UNCHANGED vars

User ==
    \/ \E s \in Sessions :
         \/ Open(s)
         \/ ReleaseCancel(s)
         \/ ReleaseDeleteJobs(s)
         \/ ReleaseFreeBuffers(s)
         \/ ReleaseDestroy(s)
         \/ \E id \in JobIds : QuerySingle(s, id)
         \/ \E n \in 1..MaxCnt : QueryAll(s, n)
    \/ \E t \in Threads :
         \/ \E j \in Jobs : SessionAddJob(t, j)
         \/ ScheduleNewJob(t)
         \/ ScheduleNewJobNoMem(t)
         \/ \E id \in JobIds : KillTimeoutJob(t, id)

Device == (\E out \in Outcomes : HwFinish(out)) \/ HwSettle

BottomHalf == BhStart \/ BhScan \/ BhSessionJobDone \/ BhRelock

Next == User \/ Device \/ UhUpdateJobState \/ UhScheduleWork \/ BottomHalf \/ Finished

Spec == Init /\ [][Next]_vars

\* User threads may stop at any point outside the kernel.  The device ends what
\* it is given, an interrupt raised is taken, and the worker thread runs.
Fairness ==
    /\ WF_vars(\E out \in Outcomes : HwFinish(out))
    /\ WF_vars(UhUpdateJobState)
    /\ WF_vars(UhScheduleWork)
    /\ WF_vars(BottomHalf)

FairSpec == Spec /\ Fairness

-----------------------------------------------------------------------------
(* Properties.                                                             *)

\* The state of every variable is one the program can represent.
TypeOK ==
    /\ state \in [Jobs -> {"IDLE", "PENDING", "SCHED", "END", "FREED"}]
    /\ valid \in [Jobs -> {0, 1}]
    /\ exception_flag \in [Jobs -> {"none", "done", "excep"}]
    /\ before \in [Jobs -> SUBSET Jobs]
    /\ sjob \in [Jobs -> {"NONE", "ACTIVE", "END", "FREED"}]
    /\ exception_type \in [Jobs -> {"none", "excep"}]
    /\ older \in [Jobs -> SUBSET Jobs]
    /\ session \in [Sessions -> {"closed", "open", "cancelled", "jobs_deleted",
                                 "buffers_freed", "destroyed"}]
    /\ call \in [Threads -> Jobs \cup {NoJob}]
    /\ report \in [Jobs -> {"none", "DONE", "EXCEPTION"}]
    /\ sched_num \in Nat
    /\ hw_job \in Jobs \cup {NoJob}
    /\ hw_busy \in {0, 1}
    /\ irq \in {"none", "done", "excep"}
    /\ outcome \in [Jobs -> {"none", "done", "excep"}]
    /\ uh \in {"idle", "queue"}
    /\ work \in {0, 1}
    /\ bh \in {"idle", "scan", "call", "relock"}
    /\ bh_curr \in Jobs \cup {NoJob}
    /\ bh_next \in Jobs \cup {NoJob}

\* The scheduler's picture of the device is right: sched_num counts the SCHED
\* jobs, there is at most one, and it is the job the core is executing or the
\* one whose interrupt is raised.  So the upper half, which ends "the first
\* SCHED job" without asking the device, ends the job the interrupt is about.
OneJobOnDevice ==
    /\ \A j, k \in Jobs : state[j] = "SCHED" /\ state[k] = "SCHED" => j = k
    /\ sched_num = IF \E j \in Jobs : state[j] = "SCHED" THEN 1 ELSE 0
    /\ \A j \in Jobs : state[j] = "SCHED" =>
         \/ hw_job = j /\ irq = "none" /\ outcome[j] = "none"
         \/ hw_job = NoJob /\ irq # "none" /\ irq = outcome[j]
    /\ hw_job # NoJob => state[hw_job] = "SCHED" /\ hw_busy = 1
    /\ irq # "none" => \E j \in Jobs : state[j] = "SCHED"

\* A job the manager holds as ended did end on the device, in the way its
\* exception_flag says, and a job never ends before the device ran it.
EndFlagMatchesDevice ==
    \A j \in Jobs :
        /\ state[j] = "END" => outcome[j] # "none" /\ exception_flag[j] = outcome[j]
        /\ outcome[j] # "none" => state[j] \in {"SCHED", "END", "FREED"}
        /\ sjob[j] = "END" \/ report[j] # "none" => outcome[j] # "none"

\* No ended job is stranded in the scheduled queue: the upper half is about to
\* queue the work, the work is queued, or the bottom half that is running has
\* the job ahead of it.  The successor saved before the unlock may be the list
\* head, so jobs appended meanwhile rely on their own interrupt.
EndedJobWillBeVisited ==
    \A j \in Jobs : state[j] = "END" =>
        \/ uh = "queue"
        \/ work = 1
        \/ bh = "scan"
        \/ j = bh_curr
        \/ j = bh_next
        \/ bh_next \in before[j]

\* The list nodes the bottom half keeps across the unlock stay linked: the
\* cursor is still an ended job and the saved successor is in the queue, behind it.
BhCursorsLinked ==
    /\ bh \in {"call", "relock"} <=> bh_curr # NoJob
    /\ bh_curr # NoJob => state[bh_curr] = "END" /\ valid[bh_curr] = 1
    /\ bh_next # NoJob => /\ bh_curr # NoJob
                          /\ state[bh_next] \in {"SCHED", "END"}
                          /\ bh_curr \in before[bh_next]

\* aipu_release withdraws every job that could still start or be reported as
\* running: a pending job, and a job on the device that is still marked valid,
\* has its session_job and a session that is open.
LiveJobsBacked ==
    \A j \in Jobs :
        state[j] = "PENDING" \/ (state[j] = "SCHED" /\ valid[j] = 1) =>
            sjob[j] = "ACTIVE" /\ session[Owner[j]] = "open"

\* As long as its session is open, the session_job handed to
\* aipu_session_job_done exists and has not been ended before.
BhCallTargetActive ==
    bh = "call" /\ session[Owner[bh_curr]] = "open" => sjob[bh_curr] = "ACTIVE"

\* A completion is never lost: once a job that ran and was not cancelled has
\* left the manager, its session_job has been ended (or its session closed).
NoLostCompletion ==
    \A j \in Jobs :
        state[j] = "FREED" /\ outcome[j] # "none" /\ valid[j] = 1 => sjob[j] # "ACTIVE"

\* Jobs reach the device in the order they entered the pending queue, a new
\* submission overtakes nobody; and completions reach the sessions in the order of
\* the scheduled queue, although the bottom half drops the lock for each of them.
InOrder ==
    [][/\ \A j, k \in Jobs :
            state[j] # "SCHED" /\ state'[j] = "SCHED" /\ j # k /\ state[k] = "PENDING"
               => state[j] = "PENDING" /\ j \in before[k]
       /\ \A j, k \in Jobs :
            sjob[j] = "ACTIVE" /\ sjob'[j] = "END" /\ valid[k] = 1 /\ k # j
               /\ state[k] \in {"SCHED", "END"} => j \in before[k]]_vars

\* Every job that enters the pending queue leaves the manager, and one that ran is
\* reported to its session unless it is cancelled in time: no timer looks at the
\* queues again, so each end has to start the next job and the bottom half.
EveryJobCompletes ==
    \A j \in Jobs :
        /\ state[j] = "PENDING" ~> state[j] = "FREED"
        /\ outcome[j] # "none" ~> (sjob[j] # "ACTIVE" \/ valid[j] = 0)

-----------------------------------------------------------------------------
(* What a comment of the program says and the code does not do.            *)

\* "session and session_job passed by job manager is assumed to be valid and
\* active (not cancelled by userland)": what aipu_session_job_done is handed has
\* not been freed.
JobDoneArgumentsExist ==
    bh = "call" => sjob[bh_curr] # "FREED" /\ session[Owner[bh_curr]] # "destroyed"
=============================================================================
