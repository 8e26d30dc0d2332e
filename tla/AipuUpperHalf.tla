--------------------------- MODULE AipuUpperHalf ---------------------------
(***************************************************************************)
(* The upper half of the interrupt handler of the Zhouyi cores, access by  *)
(* access to the control and status registers, while the device goes on    *)
(* and other CPUs submit jobs.                                             *)
(*                                                                         *)
(* AipuJobManager takes the acknowledgement of an interrupt and the end of *)
(* its job as one step.  Here they are the separate accesses of the code:  *)
(* the status register is read once, each bit found in that value is       *)
(* written back to acknowledge it, and the job manager, called in between, *)
(* may start the next job, which may end and set a bit again before the    *)
(* handler is through.  The interrupt is requested IRQF_TRIGGER_RISING: an *)
(* edge is latched when the line rises, and a line that stays up is not    *)
(* noticed again.                                                          *)
(***************************************************************************)
EXTENDS Naturals, FiniteSets

CONSTANTS
    MaxJobs,    \* bound: jobs submitted in a behaviour
    Endings     \* the sets of status bits the device may set when a job ends

ASSUME UpperHalfAssumption ==
    /\ MaxJobs \in Nat
    /\ Endings \subseteq SUBSET {"DONE", "EXCEP", "FAULT"}

Jobs == 1 .. MaxJobs

VARIABLES
    submitted,  \* jobs handed to the job manager; they start in this order
    state,      \* aipu_job.state
    excep,      \* aipu_job.exception_flag
    sched_num,  \* job_manager.sched_num
    hw,         \* the job on the device, 0 when it is idle
    how,        \* the bits the device set for a job, {} while it has not ended
    ctrl,       \* the control register lets interrupts through
    stat,       \* interrupt bits of the status register
    edge,       \* the interrupt controller has latched a rising edge
    uh,         \* next access of the upper half
    ret         \* the status it has read

vars == <<submitted, state, excep, sched_num, hw, how, ctrl, stat, edge, uh, ret>>
manager == <<submitted, state, excep, sched_num>>
device == <<hw, how>>

Init ==
    /\ submitted = 0
    /\ state = [j \in Jobs |-> "NONE"]
    /\ excep = [j \in Jobs |-> FALSE]
    /\ sched_num = 0
    /\ hw = 0 /\ how = [j \in Jobs |-> {}]
    /\ ctrl = TRUE /\ stat = {} /\ edge = FALSE
    /\ uh = "idle" /\ ret = {}

-----------------------------------------------------------------------------
(* The job manager, under its lock *)

\* aipu_schedule_pending_job_no_lock; max_sched_num is 1
SchedulePending(st, num) ==
    LET pending == {j \in Jobs : st[j] = "PENDING"}
        first == CHOOSE j \in pending : \A k \in pending : j <= k
    IN  IF pending # {} /\ num < 1 /\ hw = 0
        THEN /\ state' = [st EXCEPT ![first] = "SCHED"]
             /\ sched_num' = num + 1
             /\ hw' = first
        ELSE state' = st /\ sched_num' = num /\ UNCHANGED hw

\* aipu_job_manager_schedule_new_job, on any CPU
ScheduleNewJob ==
    /\ submitted < MaxJobs
    /\ submitted' = submitted + 1
    /\ SchedulePending([state EXCEPT ![submitted + 1] = "PENDING"], sched_num)
    /\ UNCHANGED <<excep, how, ctrl, stat, edge, uh, ret>>

\* Mutant: the exception flag is not taken over.
UpdateJobStateNoFlag(flag) ==
    LET sched == {j \in Jobs : state[j] = "SCHED"}
    IN  /\ UNCHANGED <<excep, submitted>>
        /\ SchedulePending([j \in Jobs |-> IF j \in sched THEN "END" ELSE state[j]],
                           IF sched # {} /\ sched_num # 0 THEN sched_num - 1 ELSE sched_num)

\* aipu_job_manager_update_job_state_irq: the scheduled job has ended, there
\* is at most one.
UpdateJobState(flag) ==
    LET sched == {j \in Jobs : state[j] = "SCHED"}
    IN  /\ excep' = [j \in Jobs |-> IF j \in sched THEN flag ELSE excep[j]]
        /\ SchedulePending([j \in Jobs |-> IF j \in sched THEN "END" ELSE state[j]],
                           IF sched # {} /\ sched_num # 0 THEN sched_num - 1 ELSE sched_num)
        /\ UNCHANGED submitted

-----------------------------------------------------------------------------
(* The device: the end of a job sets its bits, and QEMPTY with them or not. *)
HwFinish(bits, qempty) ==
    /\ hw # 0
    /\ how' = [how EXCEPT ![hw] = bits]
    /\ hw' = 0
    /\ stat' = stat \cup bits \cup (IF qempty THEN {"QEMPTY"} ELSE {})
    /\ edge' = (edge \/ (ctrl /\ stat = {}))
    /\ UNCHANGED <<manager, ctrl, uh, ret>>

-----------------------------------------------------------------------------
(* zhouyi_v2_upper_half *)

Goto(p) == uh' = p

\* Mutant: the handler leaves the interrupts let through while it runs.
DisableInterruptNot ==
    /\ uh = "idle" /\ edge
    /\ edge' = FALSE
    /\ Goto("read")
    /\ UNCHANGED <<manager, device, ctrl, stat, ret>>

\* The kernel enters the handler for the edge, and the line is taken down.
DisableInterrupt ==
    /\ uh = "idle" /\ edge
    /\ edge' = FALSE
    /\ ctrl' = FALSE
    /\ Goto("read")
    /\ UNCHANGED <<manager, device, stat, ret>>

ReadStatusReg ==
    /\ uh = "read"
    /\ ret' = stat
    /\ Goto("qempty")
    /\ UNCHANGED <<manager, device, ctrl, stat, edge>>

\* Writing a bit to the status register clears it.
Clear(bit) == IF bit \in ret THEN stat' = stat \ {bit} ELSE UNCHANGED stat

ClearQempty ==
    /\ uh = "qempty"
    /\ Clear("QEMPTY")
    /\ Goto("done")
    /\ UNCHANGED <<manager, device, ctrl, edge, ret>>

ClearDone ==
    /\ uh = "done"
    /\ Clear("DONE")
    /\ Goto("update_done")
    /\ UNCHANGED <<manager, device, ctrl, edge, ret>>

\* The work item queued after it belongs to AipuJobManager.
UpdateDone ==
    /\ uh = "update_done"
    /\ IF "DONE" \in ret THEN UpdateJobState(FALSE) ELSE UNCHANGED <<manager, hw>>
    /\ Goto("excep")
    /\ UNCHANGED <<how, ctrl, stat, edge, ret>>

ClearExcep ==
    /\ uh = "excep"
    /\ Clear("EXCEP")
    /\ Goto("update_excep")
    /\ UNCHANGED <<manager, device, ctrl, edge, ret>>

UpdateExcep ==
    /\ uh = "update_excep"
    /\ IF "EXCEP" \in ret THEN UpdateJobState(TRUE) ELSE UNCHANGED <<manager, hw>>
    /\ Goto("fault")
    /\ UNCHANGED <<how, ctrl, stat, edge, ret>>

\* FAULT is only acknowledged.
ClearFault ==
    /\ uh = "fault"
    /\ Clear("FAULT")
    /\ Goto("enable")
    /\ UNCHANGED <<manager, device, ctrl, edge, ret>>

\* A bit that was set meanwhile makes the line rise again.
EnableInterrupt ==
    /\ uh = "enable"
    /\ ctrl' = TRUE
    /\ edge' = (edge \/ (~ctrl /\ stat # {}))
    /\ ret' = {}
    /\ Goto("idle")
    /\ UNCHANGED <<manager, device, stat>>

-----------------------------------------------------------------------------
Handler ==
    \/ DisableInterrupt \/ ReadStatusReg \/ ClearQempty
    \/ ClearDone \/ UpdateDone \/ ClearExcep \/ UpdateExcep
    \/ ClearFault \/ EnableInterrupt

Finish == \E bits \in Endings, q \in BOOLEAN : HwFinish(bits, q)

Next == ScheduleNewJob \/ Finish \/ Handler

Spec == Init /\ [][Next]_vars

-----------------------------------------------------------------------------
(* Properties *)

\* The one value of the status register that the handler works from tells of
\* one job: a job is ended only when the device has ended it, and as the
\* device did, although the next job may be started and end inside the
\* handler.
EndIsTheJobs ==
    \A j \in Jobs : state[j] = "END" => how[j] # {} /\ excep[j] = ("EXCEP" \in how[j])
============================================================================
