------------------------ MODULE AipuJobManagerProofs ------------------------
(***************************************************************************)
(* Proofs about AipuJobManager, for every set of jobs, sessions and        *)
(* threads: the job manager alone; then that it and the sessions agree     *)
(* about a job (what can still run has its session_job, and no completion  *)
(* is lost); then that the two of them implement AipuSession.              *)
(***************************************************************************)
EXTENDS AipuSessionRefinement, TLAPS

JobState == {"IDLE", "PENDING", "SCHED", "END", "FREED"}

\* A nonzero counter can be decremented.
LEMMA PredNat == ASSUME NEW n \in Nat, n # 0 PROVE n - 1 \in Nat
OBVIOUS

\* Invalidating jobs keeps the job states and valid flags in their types.
LEMMA InvalidateTyped ==
  ASSUME TypeOK, NEW S, InvalidateJobs(S)
  PROVE  state' \in [Jobs -> JobState] /\ valid' \in [Jobs -> {0, 1}]
BY DEF InvalidateJobs, TypeOK, JobState

\* So does scheduling, from whatever queues the caller left.
LEMMA ScheduleTyped ==
  ASSUME TypeOK,
         NEW st \in [Jobs -> JobState], NEW bf \in [Jobs -> SUBSET Jobs], NEW num \in Nat,
         SchedulePending(st, bf, num)
  PROVE  /\ state' \in [Jobs -> JobState]
         /\ before' \in [Jobs -> SUBSET Jobs]
         /\ sched_num' \in Nat
         /\ hw_job' \in Jobs \cup {NoJob}
         /\ hw_busy' \in {0, 1}
<1>1. CASE CanTrigger(st, num)
  <2>1. PICK j \in Jobs : /\ state' = [st EXCEPT ![j] = "SCHED"]
                          /\ before' = [bf EXCEPT ![j] = {k \in Jobs : st[k] \in {"SCHED", "END"}}]
                          /\ hw_job' = j
    BY <1>1 DEF SchedulePending, Trigger
  <2>2. hw_busy' = 1 /\ sched_num' = num + 1
    BY <1>1 DEF SchedulePending, Trigger
  <2>3. {k \in Jobs : st[k] \in {"SCHED", "END"}} \in SUBSET Jobs
    OBVIOUS
  <2>4. before' \in [Jobs -> SUBSET Jobs]
    BY <2>1, <2>3
  <2>5. state' \in [Jobs -> JobState]
    BY <2>1 DEF JobState
  <2> QED
    BY <2>1, <2>2, <2>4, <2>5
<1>2. CASE ~CanTrigger(st, num)
  BY <1>2 DEF SchedulePending, TypeOK
<1> QED
  BY <1>1, <1>2

\* And the loop of the bottom half.
LEMMA BhLoopTyped ==
  ASSUME TypeOK, NEW st \in [Jobs -> JobState], NEW L \in SUBSET Jobs, BhLoop(st, L)
  PROVE  /\ state' \in [Jobs -> JobState]
         /\ bh' \in {"idle", "scan", "call", "relock"}
         /\ bh_curr' \in Jobs \cup {NoJob}
         /\ bh_next' \in Jobs \cup {NoJob}
BY DEF BhLoop, JobState

\* Every step of the specification keeps every variable in its type.
LEMMA TypeStep == TypeOK /\ [Next]_vars => TypeOK'
<1> SUFFICES ASSUME TypeOK, [Next]_vars PROVE TypeOK'
  OBVIOUS
<1> USE ConstantsAssumption DEF TypeOK, jobvars, sjobvars, hwvars, bhvars
<1>1. CASE UNCHANGED vars
  BY <1>1 DEF vars
<1>2. ASSUME NEW s \in Sessions, Open(s) PROVE TypeOK'
  BY <1>2 DEF Open
<1>3. ASSUME NEW s \in Sessions, ReleaseCancel(s) PROVE TypeOK'
  <2>1. state' \in [Jobs -> JobState] /\ valid' \in [Jobs -> {0, 1}]
    BY <1>3, InvalidateTyped DEF ReleaseCancel
  <2> QED
    BY <1>3, <2>1 DEF ReleaseCancel, JobState
<1>4. ASSUME NEW s \in Sessions, ReleaseDeleteJobs(s) PROVE TypeOK'
  BY <1>4 DEF ReleaseDeleteJobs
<1>5. ASSUME NEW s \in Sessions, ReleaseFreeBuffers(s) PROVE TypeOK'
  BY <1>5 DEF ReleaseFreeBuffers
<1>6. ASSUME NEW s \in Sessions, ReleaseDestroy(s) PROVE TypeOK'
  BY <1>6 DEF ReleaseDestroy
<1>7. ASSUME NEW s \in Sessions, NEW id \in JobIds, QuerySingle(s, id) PROVE TypeOK'
  <2>1. PICK R : GetJobStatus(R)
    BY <1>7 DEF QuerySingle
  <2> QED
    BY <2>1 DEF GetJobStatus
<1>8. ASSUME NEW s \in Sessions, NEW n \in 1..MaxCnt, QueryAll(s, n) PROVE TypeOK'
  <2>1. PICK R : GetJobStatus(R)
    BY <1>8 DEF QueryAll
  <2> QED
    BY <2>1 DEF GetJobStatus
<1>9. ASSUME NEW t \in Threads, NEW j \in Jobs, SessionAddJob(t, j) PROVE TypeOK'
  BY <1>9 DEF SessionAddJob
<1>10. ASSUME NEW t \in Threads, ScheduleNewJob(t) PROVE TypeOK'
  <2> DEFINE st == [state EXCEPT ![call[t]] = "PENDING"]
             bf == [before EXCEPT ![call[t]] = Pending]
  <2>1. st \in [Jobs -> JobState] /\ bf \in [Jobs -> SUBSET Jobs]
    BY DEF Pending, JobState
  <2>2. SchedulePending(st, bf, sched_num)
    BY <1>10 DEF ScheduleNewJob
  <2> HIDE DEF st, bf
  <2>3. /\ state' \in [Jobs -> JobState]
        /\ before' \in [Jobs -> SUBSET Jobs]
        /\ sched_num' \in Nat
        /\ hw_job' \in Jobs \cup {NoJob}
        /\ hw_busy' \in {0, 1}
    BY <2>1, <2>2, ScheduleTyped
  <2> QED
    BY <1>10, <2>3 DEF ScheduleNewJob, JobState
<1>11. ASSUME NEW t \in Threads, ScheduleNewJobNoMem(t) PROVE TypeOK'
  BY <1>11 DEF ScheduleNewJobNoMem
<1>12. ASSUME NEW t \in Threads, NEW id \in JobIds, KillTimeoutJob(t, id) PROVE TypeOK'
  <2>1. state' \in [Jobs -> JobState] /\ valid' \in [Jobs -> {0, 1}]
    BY <1>12, InvalidateTyped DEF KillTimeoutJob
  <2> QED
    BY <1>12, <2>1 DEF KillTimeoutJob, JobState
<1>13. ASSUME NEW out \in Outcomes, HwFinish(out) PROVE TypeOK'
  BY <1>13 DEF HwFinish
<1>14. CASE HwSettle
  BY <1>14 DEF HwSettle
<1>15. CASE UhUpdateJobState
  <2> DEFINE st  == [j \in Jobs |-> IF j \in IrqJob THEN "END" ELSE state[j]]
             num == IF IrqJob # {} /\ sched_num # 0 THEN sched_num - 1 ELSE sched_num
  <2>1. st \in [Jobs -> JobState]
    BY DEF JobState
  <2>2. num \in Nat
    <3>1. sched_num # 0 => sched_num - 1 \in Nat
      BY PredNat
    <3> QED
      BY <3>1
  <2>3. SchedulePending(st, before, num)
    BY <1>15 DEF UhUpdateJobState, ClearIrq
  <2> HIDE DEF st, num
  <2>4. /\ state' \in [Jobs -> JobState]
        /\ before' \in [Jobs -> SUBSET Jobs]
        /\ sched_num' \in Nat
        /\ hw_job' \in Jobs \cup {NoJob}
        /\ hw_busy' \in {0, 1}
    BY <2>1, <2>2, <2>3, ScheduleTyped
  <2> QED
    BY <1>15, <2>4 DEF UhUpdateJobState, ClearIrq, JobState
<1>16. CASE UhScheduleWork
  BY <1>16 DEF UhScheduleWork
<1>17. CASE BhStart
  BY <1>17 DEF BhStart
<1>18. CASE BhScan
  <2>1. state \in [Jobs -> JobState] /\ Scheduled \in SUBSET Jobs
    BY DEF Scheduled, JobState
  <2>2. BhLoop(state, Scheduled)
    BY <1>18 DEF BhScan
  <2>3. /\ state' \in [Jobs -> JobState]
        /\ bh' \in {"idle", "scan", "call", "relock"}
        /\ bh_curr' \in Jobs \cup {NoJob}
        /\ bh_next' \in Jobs \cup {NoJob}
    BY <2>1, <2>2, BhLoopTyped
  <2> QED
    BY <1>18, <2>3 DEF BhScan, JobState
<1>19. CASE BhSessionJobDone
  BY <1>19 DEF BhSessionJobDone
<1>20. CASE BhRelock
  <2> DEFINE st == [state EXCEPT ![bh_curr] = "FREED"]
  <2>1. st \in [Jobs -> JobState] /\ BhRest \in SUBSET Jobs
    BY DEF BhRest, Scheduled, JobState
  <2>2. BhLoop(st, BhRest)
    BY <1>20 DEF BhRelock
  <2> HIDE DEF st
  <2>3. /\ state' \in [Jobs -> JobState]
        /\ bh' \in {"idle", "scan", "call", "relock"}
        /\ bh_curr' \in Jobs \cup {NoJob}
        /\ bh_next' \in Jobs \cup {NoJob}
    BY <2>1, <2>2, BhLoopTyped
  <2> QED
    BY <1>20, <2>3 DEF BhRelock, JobState
<1>21. CASE Finished
  BY <1>21 DEF Finished, vars
<1> QED
  BY <1>1, <1>2, <1>3, <1>4, <1>5, <1>6, <1>7, <1>8, <1>9, <1>10, <1>11, <1>12,
     <1>13, <1>14, <1>15, <1>16, <1>17, <1>18, <1>19, <1>20, <1>21
     DEF Next, User, Device, BottomHalf

\* The type invariant of the job manager model.
THEOREM TypeCorrect == Spec => []TypeOK
<1>1. Init => TypeOK
  BY ConstantsAssumption DEF Init, TypeOK
<1> QED
  BY <1>1, TypeStep, PTL DEF Spec

-----------------------------------------------------------------------------
(* What the shared pieces of the actions do to one job.                    *)

\* Invalidation removes a pending job or marks one that is on the device.
LEMMA InvalidateEffect ==
  ASSUME TypeOK, NEW S, InvalidateJobs(S), NEW j \in Jobs
  PROVE  \/ state'[j] = state[j] /\ valid'[j] = valid[j]
         \/ j \in S /\ state[j] = "SCHED" /\ state'[j] = "SCHED" /\ valid'[j] = 0
         \/ j \in S /\ state[j] = "PENDING" /\ state'[j] = "FREED" /\ valid'[j] = valid[j]
BY DEF InvalidateJobs, TypeOK

\* It leaves neither a pending job nor a valid one on the device in the set.
LEMMA InvalidateAll ==
  ASSUME TypeOK, NEW S, InvalidateJobs(S), NEW j \in Jobs, j \in S
  PROVE  state'[j] # "PENDING" /\ ~(state'[j] = "SCHED" /\ valid'[j] = 1)
<1>1. state'[j] = IF state[j] = "PENDING" THEN "FREED" ELSE state[j]
  BY DEF InvalidateJobs
<1>2. valid'[j] = IF state[j] = "SCHED" THEN 0 ELSE valid[j]
  BY DEF InvalidateJobs
<1> QED
  BY <1>1, <1>2

\* Scheduling moves at most one job, from the pending to the scheduled queue.
LEMMA ScheduleEffect ==
  ASSUME TypeOK, NEW st \in [Jobs -> JobState], NEW bf \in [Jobs -> SUBSET Jobs], NEW num,
         SchedulePending(st, bf, num), NEW j \in Jobs
  PROVE  \/ state'[j] = st[j] /\ before'[j] = bf[j]
         \/ /\ st[j] = "PENDING"
            /\ state'[j] = "SCHED"
            /\ before'[j] = {k \in Jobs : st[k] \in {"SCHED", "END"}}
<1>1. CASE CanTrigger(st, num)
  <2>1. PICK i \in Jobs : /\ st[i] = "PENDING"
                          /\ state' = [st EXCEPT ![i] = "SCHED"]
                          /\ before' = [bf EXCEPT ![i] = {k \in Jobs : st[k] \in {"SCHED", "END"}}]
    BY <1>1 DEF SchedulePending, IsFirst
  <2> QED
    BY <2>1
<1>2. CASE ~CanTrigger(st, num)
  BY <1>2 DEF SchedulePending, Trigger
<1> QED
  BY <1>1, <1>2

\* The loop of the bottom half frees ended jobs that were cancelled, and stops
\* at an ended job that was not.
LEMMA BhLoopEffect ==
  ASSUME TypeOK, NEW st \in [Jobs -> JobState], NEW L \in SUBSET Jobs, BhLoop(st, L)
  PROVE  /\ \A j \in Jobs : \/ state'[j] = st[j]
                            \/ j \in L /\ st[j] = "END" /\ state'[j] = "FREED" /\ valid[j] # 1
         /\ \/ bh' = "idle" /\ bh_curr' = NoJob /\ bh_next' = NoJob
            \/ /\ bh' = "call"
               /\ bh_curr' \in L
               /\ st[bh_curr'] = "END"
               /\ state'[bh_curr'] = "END"
               /\ valid[bh_curr'] = 1
<1> DEFINE ended == {j \in L : st[j] = "END"}
           calls == {j \in ended : valid[j] = 1}
<1>1. CASE /\ calls = {}
           /\ state' = [j \in Jobs |-> IF j \in ended THEN "FREED" ELSE st[j]]
           /\ bh' = "idle" /\ bh_curr' = NoJob /\ bh_next' = NoJob
  <2>1. \A j \in Jobs : j \in ended => j \in L /\ st[j] = "END" /\ valid[j] # 1
    BY <1>1
  <2>2. \A j \in Jobs : state'[j] = IF j \in ended THEN "FREED" ELSE st[j]
    BY <1>1
  <2> HIDE DEF ended, calls
  <2> QED
    BY <1>1, <2>1, <2>2
<1>2. ASSUME NEW v \in calls,
             IsFirst(v, calls, before),
             state' = [j \in Jobs |-> IF j \in ended \cap before[v] THEN "FREED" ELSE st[j]],
             bh' = "call", bh_curr' = v
      PROVE  /\ \A j \in Jobs : \/ state'[j] = st[j]
                                \/ j \in L /\ st[j] = "END" /\ state'[j] = "FREED" /\ valid[j] # 1
             /\ bh_curr' \in L
             /\ st[bh_curr'] = "END"
             /\ state'[bh_curr'] = "END"
             /\ valid[bh_curr'] = 1
  <2>1. before[v] \cap calls = {}
    BY <1>2 DEF IsFirst
  <2>2. \A j \in Jobs : j \in ended \cap before[v] => valid[j] # 1
    BY <2>1
  <2>3. v \in L /\ st[v] = "END" /\ valid[v] = 1
    OBVIOUS
  <2>4. v \in Jobs /\ v \notin ended \cap before[v]
    BY <2>2, <2>3
  <2>5. \A j \in Jobs : j \in ended => j \in L /\ st[j] = "END"
    OBVIOUS
  <2>6. \A j \in Jobs : state'[j] = IF j \in ended \cap before[v] THEN "FREED" ELSE st[j]
    BY <1>2
  <2> HIDE DEF ended, calls
  <2>7. state'[v] = "END"
    BY <2>3, <2>4, <2>6
  <2>8. \A j \in Jobs : \/ state'[j] = st[j]
                        \/ j \in L /\ st[j] = "END" /\ state'[j] = "FREED" /\ valid[j] # 1
    BY <2>2, <2>5, <2>6
  <2> QED
    BY <1>2, <2>3, <2>7, <2>8
<1> QED
  BY <1>1, <1>2 DEF BhLoop

-----------------------------------------------------------------------------
(* Who may still reach a job object.                                       *)

\* A job whose RUNJOB is between its two halves is in no queue, its session_job
\* is linked, its session is open, and no other thread is submitting it.
CallFresh ==
    /\ \A t \in Threads : call[t] # NoJob =>
         /\ Uthread[call[t]] = t
         /\ state[call[t]] = "IDLE"
         /\ sjob[call[t]] = "ACTIVE"
         /\ session[Owner[call[t]]] = "open"
    /\ \A j \in Jobs : sjob[j] = "NONE" => state[j] = "IDLE"

\* The cursor the bottom half keeps while it drops the lock is an ended job that
\* nobody can invalidate any more.
CursorEnded ==
    /\ bh \in {"call", "relock"} <=> bh_curr # NoJob
    /\ bh_curr # NoJob => state[bh_curr] = "END" /\ valid[bh_curr] = 1

ReachInv == CallFresh /\ CursorEnded

\* Every step preserves both.
LEMMA ReachStep == TypeOK /\ TypeOK' /\ ReachInv /\ [Next]_vars => ReachInv'
<1> SUFFICES ASSUME TypeOK, TypeOK', CallFresh, CursorEnded, [Next]_vars
             PROVE  CallFresh' /\ CursorEnded'
  BY DEF ReachInv
<1> USE ConstantsAssumption DEF jobvars, sjobvars, hwvars, bhvars
<1>1. CASE UNCHANGED vars
  BY <1>1 DEF vars, CallFresh, CursorEnded
<1>2. ASSUME NEW s \in Sessions, Open(s) PROVE CallFresh' /\ CursorEnded'
  BY <1>2 DEF Open, CallFresh, CursorEnded, TypeOK
<1>3. ASSUME NEW s \in Sessions, ReleaseCancel(s) PROVE CallFresh' /\ CursorEnded'
  <2>1. PICK S : InvalidateJobs(S)
    BY <1>3 DEF ReleaseCancel
  <2>2. \A j \in Jobs : \/ state'[j] = state[j] /\ valid'[j] = valid[j]
                        \/ state[j] \in {"SCHED", "PENDING"}
    BY <2>1, InvalidateEffect
  <2>3. CallFresh'
    BY <1>3, <2>2 DEF ReleaseCancel, CallFresh, TypeOK
  <2>4. CursorEnded'
    BY <1>3, <2>2 DEF ReleaseCancel, CursorEnded, TypeOK
  <2> QED
    BY <2>3, <2>4
<1>4. ASSUME NEW s \in Sessions, ReleaseDeleteJobs(s) PROVE CallFresh' /\ CursorEnded'
  BY <1>4 DEF ReleaseDeleteJobs, CallFresh, CursorEnded, TypeOK
<1>5. ASSUME NEW s \in Sessions, ReleaseFreeBuffers(s) PROVE CallFresh' /\ CursorEnded'
  BY <1>5 DEF ReleaseFreeBuffers, CallFresh, CursorEnded, TypeOK
<1>6. ASSUME NEW s \in Sessions, ReleaseDestroy(s) PROVE CallFresh' /\ CursorEnded'
  BY <1>6 DEF ReleaseDestroy, CallFresh, CursorEnded, TypeOK
<1>7. ASSUME NEW R, GetJobStatus(R), \A j \in R : j \in Jobs /\ sjob[j] = "END"
      PROVE  CallFresh' /\ CursorEnded'
  BY <1>7 DEF GetJobStatus, CallFresh, CursorEnded, TypeOK
<1>8. ASSUME NEW s \in Sessions, NEW id \in JobIds, QuerySingle(s, id)
      PROVE  CallFresh' /\ CursorEnded'
  BY <1>7, <1>8 DEF QuerySingle, EndJobs
<1>9. ASSUME NEW s \in Sessions, NEW n \in 1..MaxCnt, QueryAll(s, n)
      PROVE  CallFresh' /\ CursorEnded'
  BY <1>7, <1>9 DEF QueryAll, EndJobs
<1>10. ASSUME NEW t \in Threads, NEW j \in Jobs, SessionAddJob(t, j)
       PROVE  CallFresh' /\ CursorEnded'
  BY <1>10 DEF SessionAddJob, CallFresh, CursorEnded, TypeOK
<1>11. ASSUME NEW t \in Threads, ScheduleNewJob(t) PROVE CallFresh' /\ CursorEnded'
  <2> DEFINE st == [state EXCEPT ![call[t]] = "PENDING"]
             bf == [before EXCEPT ![call[t]] = Pending]
  <2>1. st \in [Jobs -> JobState] /\ bf \in [Jobs -> SUBSET Jobs]
    BY DEF Pending, JobState, TypeOK
  <2>2. SchedulePending(st, bf, sched_num)
    BY <1>11 DEF ScheduleNewJob
  <2>3. \A j \in Jobs : j # call[t] => st[j] = state[j]
    BY DEF TypeOK
  <2>4. call[t] \in Jobs /\ state[call[t]] = "IDLE" /\ sjob[call[t]] = "ACTIVE"
    BY <1>11 DEF ScheduleNewJob, CallFresh, TypeOK
  <2> HIDE DEF st, bf
  <2>5. \A j \in Jobs : j # call[t] =>
          \/ state'[j] = state[j]
          \/ state[j] = "PENDING" /\ state'[j] = "SCHED"
    BY <2>1, <2>2, <2>3, ScheduleEffect
  <2>6. CallFresh'
    BY <1>11, <2>4, <2>5 DEF ScheduleNewJob, CallFresh, TypeOK
  <2>7. CursorEnded'
    BY <1>11, <2>4, <2>5 DEF ScheduleNewJob, CursorEnded, TypeOK
  <2> QED
    BY <2>6, <2>7
<1>12. ASSUME NEW t \in Threads, ScheduleNewJobNoMem(t) PROVE CallFresh' /\ CursorEnded'
  BY <1>12 DEF ScheduleNewJobNoMem, CallFresh, CursorEnded, TypeOK
<1>13. ASSUME NEW t \in Threads, NEW id \in JobIds, KillTimeoutJob(t, id)
       PROVE  CallFresh' /\ CursorEnded'
  <2>1. PICK S : InvalidateJobs(S)
    BY <1>13 DEF KillTimeoutJob
  <2>2. \A j \in Jobs : \/ state'[j] = state[j] /\ valid'[j] = valid[j]
                        \/ state[j] \in {"SCHED", "PENDING"}
    BY <2>1, InvalidateEffect
  <2>3. CallFresh'
    BY <1>13, <2>2 DEF KillTimeoutJob, CallFresh, TypeOK
  <2>4. CursorEnded'
    BY <1>13, <2>2 DEF KillTimeoutJob, CursorEnded, TypeOK
  <2> QED
    BY <2>3, <2>4
<1>14. ASSUME NEW out \in Outcomes, HwFinish(out) PROVE CallFresh' /\ CursorEnded'
  BY <1>14 DEF HwFinish, CallFresh, CursorEnded, TypeOK
<1>15. CASE HwSettle
  BY <1>15 DEF HwSettle, CallFresh, CursorEnded, TypeOK
<1>16. CASE UhUpdateJobState
  <2> DEFINE st == [j \in Jobs |-> IF j \in IrqJob THEN "END" ELSE state[j]]
             num == IF IrqJob # {} /\ sched_num # 0 THEN sched_num - 1 ELSE sched_num
  <2>1. st \in [Jobs -> JobState]
    BY DEF JobState, TypeOK
  <2>2. SchedulePending(st, before, num)
    BY <1>16 DEF UhUpdateJobState, ClearIrq
  <2>3. \A j \in Jobs : st[j] = state[j] \/ (state[j] = "SCHED" /\ st[j] = "END")
    <3>1. \A j \in IrqJob : state[j] = "SCHED"
      BY DEF IrqJob, Running
    <3>2. \A j \in Jobs : st[j] = IF j \in IrqJob THEN "END" ELSE state[j]
      OBVIOUS
    <3> HIDE DEF st
    <3> QED
      BY <3>1, <3>2
  <2> HIDE DEF st, num
  <2>4. \A j \in Jobs : state'[j] = state[j] \/ state[j] \in {"SCHED", "PENDING"}
    <3>1. before \in [Jobs -> SUBSET Jobs]
      BY DEF TypeOK
    <3>2. \A j \in Jobs : state'[j] = st[j] \/ st[j] = "PENDING"
      BY <2>1, <2>2, <3>1, ScheduleEffect
    <3> QED
      BY <2>3, <3>2
  <2>5. CallFresh'
    BY <1>16, <2>4 DEF UhUpdateJobState, ClearIrq, CallFresh, TypeOK
  <2>6. CursorEnded'
    BY <1>16, <2>4 DEF UhUpdateJobState, ClearIrq, CursorEnded, TypeOK
  <2> QED
    BY <2>5, <2>6
<1>17. CASE UhScheduleWork
  BY <1>17 DEF UhScheduleWork, CallFresh, CursorEnded, TypeOK
<1>18. CASE BhStart
  BY <1>18 DEF BhStart, CallFresh, CursorEnded, TypeOK
<1>19. CASE BhScan
  <2>1. state \in [Jobs -> JobState] /\ Scheduled \in SUBSET Jobs
    BY DEF Scheduled, JobState, TypeOK
  <2>2. BhLoop(state, Scheduled)
    BY <1>19 DEF BhScan
  <2>3. \A j \in Jobs : state'[j] = state[j] \/ state[j] = "END"
    BY <2>1, <2>2, BhLoopEffect
  <2>4. CallFresh'
    BY <1>19, <2>3 DEF BhScan, CallFresh, TypeOK
  <2>5. CursorEnded'
    BY <1>19, <2>1, <2>2, BhLoopEffect DEF BhScan, CursorEnded
  <2> QED
    BY <2>4, <2>5
<1>20. CASE BhSessionJobDone
  BY <1>20 DEF BhSessionJobDone, CallFresh, CursorEnded, TypeOK
<1>21. CASE BhRelock
  <2> DEFINE st == [state EXCEPT ![bh_curr] = "FREED"]
  <2>1. st \in [Jobs -> JobState] /\ BhRest \in SUBSET Jobs
    BY DEF BhRest, Scheduled, JobState, TypeOK
  <2>2. BhLoop(st, BhRest)
    BY <1>21 DEF BhRelock
  <2>3. \A j \in Jobs : st[j] = state[j] \/ (state[j] = "END" /\ st[j] = "FREED")
    <3>1. state \in [Jobs -> JobState] /\ state[bh_curr] = "END"
      BY <1>21 DEF BhRelock, CursorEnded, TypeOK, JobState
    <3> QED
      BY <3>1
  <2> HIDE DEF st
  <2>4. \A j \in Jobs : state'[j] = state[j] \/ state[j] = "END"
    BY <2>1, <2>2, <2>3, BhLoopEffect
  <2>5. CallFresh'
    BY <1>21, <2>4 DEF BhRelock, CallFresh, TypeOK
  <2>6. CursorEnded'
    BY <1>21, <2>1, <2>2, BhLoopEffect DEF BhRelock, CursorEnded
  <2> QED
    BY <2>5, <2>6
<1>22. CASE Finished
  BY <1>1, <1>22 DEF Finished
<1> QED
  BY <1>1, <1>2, <1>3, <1>4, <1>5, <1>6, <1>8, <1>9, <1>10, <1>11, <1>12, <1>13,
     <1>14, <1>15, <1>16, <1>17, <1>18, <1>19, <1>20, <1>21, <1>22
     DEF Next, User, Device, BottomHalf

\* Both hold in every reachable state.
LEMMA ReachInvariant == Spec => []ReachInv
<1>1. Init => ReachInv
  BY ConstantsAssumption DEF Init, ReachInv, CallFresh, CursorEnded
<1> QED
  BY <1>1, ReachStep, TypeCorrect, PTL DEF Spec
-----------------------------------------------------------------------------
(* The manager's picture of the device.                                    *)

\* num counts the SCHED jobs of st, of which there is at most one.
OneSched(st, num) ==
    /\ \A j, k \in Jobs : st[j] = "SCHED" /\ st[k] = "SCHED" => j = k
    /\ \/ num = 0 /\ \A j \in Jobs : st[j] # "SCHED"
       \/ num = 1 /\ \E j \in Jobs : st[j] = "SCHED"

\* The SCHED job is the one the core executes or the one whose interrupt is raised.
HwRunsSched ==
    /\ \A j \in Jobs : state[j] = "SCHED" =>
         \/ hw_job = j /\ irq = "none" /\ outcome[j] = "none"
         \/ hw_job = NoJob /\ irq # "none" /\ irq = outcome[j]
    /\ hw_job # NoJob => state[hw_job] = "SCHED" /\ hw_busy = 1
    /\ irq # "none" => \E j \in Jobs : state[j] = "SCHED"

\* No job is ahead of itself, so the only SCHED job is the one IrqJob finds.
NotBeforeItself == \A j \in Jobs : j \notin before[j]

DeviceInv ==
    /\ OneSched(state, sched_num)
    /\ HwRunsSched
    /\ NotBeforeItself
    /\ EndFlagMatchesDevice

\* The two things aipu_schedule_pending_job_no_lock does.
LEMMA ScheduleCases ==
  ASSUME NEW st, NEW bf, NEW num, SchedulePending(st, bf, num)
  PROVE  \/ \E i \in Jobs :
              /\ st[i] = "PENDING"
              /\ state' = [st EXCEPT ![i] = "SCHED"]
              /\ before' = [bf EXCEPT ![i] = {k \in Jobs : st[k] \in {"SCHED", "END"}}]
              /\ hw_job' = i
              /\ hw_busy' = 1
              /\ num < 1
              /\ sched_num' = num + 1
         \/ /\ state' = st
            /\ before' = bf
            /\ sched_num' = num
            /\ hw_job' = hw_job
            /\ hw_busy' = hw_busy
BY DEF SchedulePending, CanTrigger, Trigger, IsFirst, MaxSchedNum

\* Scheduling on a device that has nothing to do, or on a busy one with its one
\* job scheduled, keeps the picture.
LEMMA ScheduleKeepsDevice ==
  ASSUME NEW st \in [Jobs -> JobState], NEW bf \in [Jobs -> SUBSET Jobs], NEW num,
         SchedulePending(st, bf, num),
         NoJob \notin Jobs,
         OneSched(st, num),
         outcome \in [Jobs -> {"none", "done", "excep"}],
         outcome' = outcome,
         \A j \in Jobs : st[j] = "SCHED" =>
            \/ hw_job = j /\ irq' = "none" /\ outcome[j] = "none"
            \/ hw_job = NoJob /\ irq' # "none" /\ irq' = outcome[j],
         hw_job # NoJob => hw_job \in Jobs /\ st[hw_job] = "SCHED" /\ hw_busy = 1,
         irq' # "none" => \E j \in Jobs : st[j] = "SCHED",
         \A j \in Jobs : j \notin bf[j],
         \A j \in Jobs : outcome[j] # "none" => st[j] \in {"SCHED", "END", "FREED"}
  PROVE  /\ OneSched(state, sched_num)'
         /\ HwRunsSched'
         /\ NotBeforeItself'
         /\ \A j \in Jobs : outcome'[j] # "none" => state'[j] \in {"SCHED", "END", "FREED"}
<1>1. CASE /\ state' = st
           /\ before' = bf
           /\ sched_num' = num
           /\ hw_job' = hw_job
           /\ hw_busy' = hw_busy
  BY <1>1 DEF OneSched, HwRunsSched, NotBeforeItself
<1>2. ASSUME NEW i \in Jobs,
             st[i] = "PENDING",
             state' = [st EXCEPT ![i] = "SCHED"],
             before' = [bf EXCEPT ![i] = {k \in Jobs : st[k] \in {"SCHED", "END"}}],
             hw_job' = i, hw_busy' = 1, num < 1, sched_num' = num + 1
      PROVE  /\ OneSched(state, sched_num)'
             /\ HwRunsSched'
             /\ NotBeforeItself'
             /\ \A j \in Jobs : outcome'[j] # "none" => state'[j] \in {"SCHED", "END", "FREED"}
  <2>1. sched_num' = 1 /\ \A j \in Jobs : st[j] # "SCHED"
    BY <1>2 DEF OneSched
  <2>2. \A j \in Jobs : state'[j] = IF j = i THEN "SCHED" ELSE st[j]
    BY <1>2
  <2>3. OneSched(state, sched_num)'
    BY <2>1, <2>2 DEF OneSched
  <2>4. irq' = "none" /\ outcome'[i] = "none"
    BY <1>2, <2>1
  <2>5. HwRunsSched'
    BY <1>2, <2>1, <2>2, <2>4 DEF HwRunsSched
  <2>6. NotBeforeItself'
    BY <1>2 DEF NotBeforeItself
  <2> QED
    BY <2>2, <2>3, <2>5, <2>6
<1> QED
  BY <1>1, <1>2, ScheduleCases

\* A step that only takes jobs out of the manager and session_jobs out of their
\* sessions keeps the picture.
LEMMA DeviceFrame ==
  ASSUME DeviceInv,
         UNCHANGED <<before, exception_flag, sched_num, hw_job, hw_busy, irq, outcome, report>>,
         hw_job \in Jobs \cup {NoJob},
         \A j \in Jobs : \/ state'[j] = state[j]
                         \/ state[j] \in {"PENDING", "END"} /\ state'[j] = "FREED",
         \A j \in Jobs : sjob'[j] = "END" => sjob[j] = "END"
  PROVE  DeviceInv'
<1>1. OneSched(state, sched_num)'
  BY DEF DeviceInv, OneSched
<1>2. HwRunsSched'
  BY DEF DeviceInv, HwRunsSched
<1>3. NotBeforeItself'
  BY DEF DeviceInv, NotBeforeItself
<1>4. EndFlagMatchesDevice'
  BY DEF DeviceInv, EndFlagMatchesDevice
<1> QED
  BY <1>1, <1>2, <1>3, <1>4 DEF DeviceInv
\* Every step preserves the picture.
LEMMA DeviceStep == TypeOK /\ ReachInv /\ DeviceInv /\ [Next]_vars => DeviceInv'
<1> SUFFICES ASSUME TypeOK, ReachInv, DeviceInv, [Next]_vars PROVE DeviceInv'
  OBVIOUS
<1> USE DEF jobvars, sjobvars, hwvars, bhvars
<1>a. hw_job \in Jobs \cup {NoJob} /\ NoJob \notin Jobs
  BY ConstantsAssumption DEF TypeOK
<1>1. CASE UNCHANGED vars
  BY <1>1, <1>a, DeviceFrame DEF vars
<1>2. ASSUME NEW s \in Sessions, Open(s) PROVE DeviceInv'
  BY <1>2, <1>a, DeviceFrame DEF Open
<1>3. ASSUME NEW s \in Sessions, ReleaseCancel(s) PROVE DeviceInv'
  <2>1. PICK S : InvalidateJobs(S)
    BY <1>3 DEF ReleaseCancel
  <2>2. \A j \in Jobs : \/ state'[j] = state[j]
                        \/ state[j] \in {"PENDING", "END"} /\ state'[j] = "FREED"
    BY <2>1, InvalidateEffect
  <2> QED
    BY <1>3, <1>a, <2>2, DeviceFrame DEF ReleaseCancel
<1>4. ASSUME NEW s \in Sessions, ReleaseDeleteJobs(s) PROVE DeviceInv'
  BY <1>4, <1>a, DeviceFrame DEF ReleaseDeleteJobs
<1>5. ASSUME NEW s \in Sessions, ReleaseFreeBuffers(s) PROVE DeviceInv'
  BY <1>5, <1>a, DeviceFrame DEF ReleaseFreeBuffers
<1>6. ASSUME NEW s \in Sessions, ReleaseDestroy(s) PROVE DeviceInv'
  BY <1>6, <1>a, DeviceFrame DEF ReleaseDestroy
<1>7. ASSUME NEW R, GetJobStatus(R), \A j \in R : j \in Jobs /\ sjob[j] = "END"
      PROVE  DeviceInv'
  <2>1. EndFlagMatchesDevice'
    BY <1>7 DEF GetJobStatus, DeviceInv, EndFlagMatchesDevice
  <2>2. OneSched(state, sched_num)' /\ HwRunsSched' /\ NotBeforeItself'
    BY <1>7 DEF GetJobStatus, DeviceInv, OneSched, HwRunsSched, NotBeforeItself
  <2> QED
    BY <2>1, <2>2 DEF DeviceInv
<1>8. ASSUME NEW s \in Sessions, NEW id \in JobIds, QuerySingle(s, id) PROVE DeviceInv'
  BY <1>7, <1>8 DEF QuerySingle, EndJobs
<1>9. ASSUME NEW s \in Sessions, NEW n \in 1..MaxCnt, QueryAll(s, n) PROVE DeviceInv'
  BY <1>7, <1>9 DEF QueryAll, EndJobs
<1>10. ASSUME NEW t \in Threads, NEW j \in Jobs, SessionAddJob(t, j) PROVE DeviceInv'
  <2>1. \A k \in Jobs : sjob'[k] = "END" => sjob[k] = "END"
    BY <1>10 DEF SessionAddJob, TypeOK
  <2> QED
    BY <1>10, <1>a, <2>1, DeviceFrame DEF SessionAddJob
<1>11. ASSUME NEW t \in Threads, ScheduleNewJob(t) PROVE DeviceInv'
  <2> DEFINE st == [state EXCEPT ![call[t]] = "PENDING"]
             bf == [before EXCEPT ![call[t]] = Pending]
  <2>1. st \in [Jobs -> JobState] /\ bf \in [Jobs -> SUBSET Jobs]
    BY DEF Pending, JobState, TypeOK
  <2>2. SchedulePending(st, bf, sched_num)
    BY <1>11 DEF ScheduleNewJob
  <2>3. call[t] \in Jobs /\ state[call[t]] = "IDLE"
    BY <1>11 DEF ScheduleNewJob, ReachInv, CallFresh, TypeOK
  <2>4. \A j \in Jobs : st[j] = IF j = call[t] THEN "PENDING" ELSE state[j]
    BY <2>3 DEF TypeOK
  <2>5. \A j \in Jobs : j \notin bf[j]
    <3>1. \A j \in Jobs : bf[j] = IF j = call[t] THEN Pending ELSE before[j]
      BY <2>3 DEF TypeOK
    <3> QED
      BY <2>3, <3>1 DEF Pending, DeviceInv, NotBeforeItself
  <2>6. /\ irq' = irq /\ outcome' = outcome /\ exception_flag' = exception_flag
        /\ sjob' = sjob /\ report' = report
    BY <1>11 DEF ScheduleNewJob
  <2>7. outcome \in [Jobs -> {"none", "done", "excep"}]
    BY DEF TypeOK
  <2>8. outcome[call[t]] = "none"
    BY <2>3 DEF DeviceInv, EndFlagMatchesDevice
  <2> HIDE DEF st, bf
  <2>9. OneSched(st, sched_num)
    BY <2>3, <2>4 DEF DeviceInv, OneSched
  <2>10. /\ \A j \in Jobs : st[j] = "SCHED" =>
              \/ hw_job = j /\ irq' = "none" /\ outcome[j] = "none"
              \/ hw_job = NoJob /\ irq' # "none" /\ irq' = outcome[j]
         /\ hw_job # NoJob => hw_job \in Jobs /\ st[hw_job] = "SCHED" /\ hw_busy = 1
         /\ irq' # "none" => \E j \in Jobs : st[j] = "SCHED"
    BY <1>a, <2>3, <2>4, <2>6 DEF DeviceInv, HwRunsSched
  <2>11. \A j \in Jobs : outcome[j] # "none" => st[j] \in {"SCHED", "END", "FREED"}
    BY <2>4, <2>8 DEF DeviceInv, EndFlagMatchesDevice
  <2>12. /\ OneSched(state, sched_num)' /\ HwRunsSched' /\ NotBeforeItself'
         /\ \A j \in Jobs : outcome'[j] # "none" => state'[j] \in {"SCHED", "END", "FREED"}
    BY <1>a, <2>1, <2>2, <2>5, <2>6, <2>7, <2>9, <2>10, <2>11, ScheduleKeepsDevice
  <2>13. \A j \in Jobs : state'[j] = "END" => state[j] = "END"
    BY <2>1, <2>2, <2>4, ScheduleEffect
  <2>14. EndFlagMatchesDevice'
    BY <2>6, <2>12, <2>13 DEF DeviceInv, EndFlagMatchesDevice
  <2> QED
    BY <2>12, <2>14 DEF DeviceInv
<1>12. ASSUME NEW t \in Threads, ScheduleNewJobNoMem(t) PROVE DeviceInv'
  BY <1>12, <1>a, DeviceFrame DEF ScheduleNewJobNoMem
<1>13. ASSUME NEW t \in Threads, NEW id \in JobIds, KillTimeoutJob(t, id) PROVE DeviceInv'
  <2>1. PICK S : InvalidateJobs(S)
    BY <1>13 DEF KillTimeoutJob
  <2>2. \A j \in Jobs : \/ state'[j] = state[j]
                        \/ state[j] \in {"PENDING", "END"} /\ state'[j] = "FREED"
    BY <2>1, InvalidateEffect
  <2> QED
    BY <1>13, <1>a, <2>2, DeviceFrame DEF KillTimeoutJob
<1>14. ASSUME NEW out \in Outcomes, HwFinish(out) PROVE DeviceInv'
  <2>1. out \in {"done", "excep"}
    BY ConstantsAssumption
  <2>2. hw_job \in Jobs /\ state[hw_job] = "SCHED" /\ hw_job' = NoJob /\ irq' = out
    BY <1>14, <1>a DEF HwFinish, DeviceInv, HwRunsSched
  <2>3. \A j \in Jobs : outcome'[j] = IF j = hw_job THEN out ELSE outcome[j]
    BY <1>14 DEF HwFinish, TypeOK
  <2>4. \A j \in Jobs : state[j] = "SCHED" => j = hw_job
    BY <2>2 DEF DeviceInv, OneSched
  <2>5. /\ UNCHANGED <<state, before, exception_flag, sched_num, sjob, report>>
    BY <1>14 DEF HwFinish
  <2>6. HwRunsSched'
    BY <2>1, <2>2, <2>3, <2>4, <2>5 DEF HwRunsSched
  <2>7. EndFlagMatchesDevice'
    BY <2>1, <2>2, <2>3, <2>5 DEF DeviceInv, EndFlagMatchesDevice
  <2>8. OneSched(state, sched_num)' /\ NotBeforeItself'
    BY <2>5 DEF DeviceInv, OneSched, NotBeforeItself
  <2> QED
    BY <2>6, <2>7, <2>8 DEF DeviceInv
<1>15. CASE HwSettle
  <2>1. HwRunsSched'
    BY <1>15 DEF HwSettle, DeviceInv, HwRunsSched
  <2> QED
    BY <1>15, <2>1 DEF HwSettle, DeviceInv, OneSched, NotBeforeItself, EndFlagMatchesDevice
<1>16. CASE UhUpdateJobState
  <2> DEFINE st == [j \in Jobs |-> IF j \in IrqJob THEN "END" ELSE state[j]]
             num == IF IrqJob # {} /\ sched_num # 0 THEN sched_num - 1 ELSE sched_num
  <2>1. st \in [Jobs -> JobState] /\ before \in [Jobs -> SUBSET Jobs]
    BY DEF JobState, TypeOK
  <2>2. SchedulePending(st, before, num)
    BY <1>16 DEF UhUpdateJobState, ClearIrq
  <2>3. PICK r \in Jobs : state[r] = "SCHED"
    BY <1>16 DEF UhUpdateJobState, ClearIrq, DeviceInv, HwRunsSched
  <2>4. Running = {r}
    BY <2>3 DEF DeviceInv, OneSched, Running
  <2>5. IrqJob = {r}
    BY <2>3, <2>4 DEF IrqJob, IsFirst, DeviceInv, NotBeforeItself
  <2>6. num = 0
    <3>1. sched_num = 1
      BY <2>3 DEF DeviceInv, OneSched
    <3> QED
      BY <2>5, <3>1
  <2>7. \A j \in Jobs : st[j] = IF j = r THEN "END" ELSE state[j]
    BY <2>5
  <2>8. /\ irq' = "none" /\ outcome' = outcome /\ sjob' = sjob /\ report' = report
        /\ exception_flag' = [j \in Jobs |-> IF j \in IrqJob THEN irq ELSE exception_flag[j]]
    BY <1>16 DEF UhUpdateJobState, ClearIrq
  <2>9. \A j \in Jobs : exception_flag'[j] = IF j = r THEN irq ELSE exception_flag[j]
    BY <2>5, <2>8
  <2>10. hw_job = NoJob /\ outcome[r] = irq /\ irq # "none"
    BY <1>16, <2>3 DEF UhUpdateJobState, ClearIrq, DeviceInv, HwRunsSched
  <2> HIDE DEF st, num
  <2>11. \A j \in Jobs : st[j] # "SCHED"
    BY <2>3, <2>7 DEF DeviceInv, OneSched
  <2>12. OneSched(st, num)
    BY <2>6, <2>11 DEF OneSched
  <2>13. outcome \in [Jobs -> {"none", "done", "excep"}]
    BY DEF TypeOK
  <2>14. \A j \in Jobs : outcome[j] # "none" => st[j] \in {"SCHED", "END", "FREED"}
    BY <2>7 DEF DeviceInv, EndFlagMatchesDevice
  <2>15. \A j \in Jobs : j \notin before[j]
    BY DEF DeviceInv, NotBeforeItself
  <2>16. /\ OneSched(state, sched_num)' /\ HwRunsSched' /\ NotBeforeItself'
         /\ \A j \in Jobs : outcome'[j] # "none" => state'[j] \in {"SCHED", "END", "FREED"}
    BY <1>a, <2>1, <2>2, <2>8, <2>10, <2>11, <2>12, <2>13, <2>14, <2>15, ScheduleKeepsDevice
  <2>17. \A j \in Jobs : state'[j] = "END" => j = r \/ state[j] = "END"
    BY <2>1, <2>2, <2>7, ScheduleEffect
  <2>18. EndFlagMatchesDevice'
    BY <2>8, <2>9, <2>10, <2>16, <2>17 DEF DeviceInv, EndFlagMatchesDevice
  <2> QED
    BY <2>16, <2>18 DEF DeviceInv
<1>17. CASE UhScheduleWork
  BY <1>17, <1>a, DeviceFrame DEF UhScheduleWork
<1>18. CASE BhStart
  BY <1>18, <1>a, DeviceFrame DEF BhStart
<1>19. CASE BhScan
  <2>1. state \in [Jobs -> JobState] /\ Scheduled \in SUBSET Jobs
    BY DEF Scheduled, JobState, TypeOK
  <2>2. BhLoop(state, Scheduled)
    BY <1>19 DEF BhScan
  <2>3. \A j \in Jobs : \/ state'[j] = state[j]
                        \/ state[j] \in {"PENDING", "END"} /\ state'[j] = "FREED"
    BY <2>1, <2>2, BhLoopEffect
  <2> QED
    BY <1>19, <1>a, <2>3, DeviceFrame DEF BhScan
<1>20. CASE BhSessionJobDone
  <2>1. bh_curr \in Jobs /\ state[bh_curr] = "END"
    BY <1>20 DEF BhSessionJobDone, ReachInv, CursorEnded, TypeOK
  <2>2. \A j \in Jobs : sjob'[j] = "END" => sjob[j] = "END" \/ j = bh_curr
    BY <1>20 DEF BhSessionJobDone, TypeOK
  <2>3. EndFlagMatchesDevice'
    BY <1>20, <2>1, <2>2 DEF BhSessionJobDone, DeviceInv, EndFlagMatchesDevice
  <2>4. OneSched(state, sched_num)' /\ HwRunsSched' /\ NotBeforeItself'
    BY <1>20 DEF BhSessionJobDone, DeviceInv, OneSched, HwRunsSched, NotBeforeItself
  <2> QED
    BY <2>3, <2>4 DEF DeviceInv
<1>21. CASE BhRelock
  <2> DEFINE st == [state EXCEPT ![bh_curr] = "FREED"]
  <2>1. st \in [Jobs -> JobState] /\ BhRest \in SUBSET Jobs
    BY DEF BhRest, Scheduled, JobState, TypeOK
  <2>2. BhLoop(st, BhRest)
    BY <1>21 DEF BhRelock
  <2>3. \A j \in Jobs : st[j] = state[j] \/ (state[j] = "END" /\ st[j] = "FREED")
    <3>1. state \in [Jobs -> JobState] /\ state[bh_curr] = "END"
      BY <1>21 DEF BhRelock, ReachInv, CursorEnded, TypeOK, JobState
    <3> QED
      BY <3>1
  <2> HIDE DEF st
  <2>4. \A j \in Jobs : \/ state'[j] = state[j]
                        \/ state[j] \in {"PENDING", "END"} /\ state'[j] = "FREED"
    BY <2>1, <2>2, <2>3, BhLoopEffect
  <2> QED
    BY <1>21, <1>a, <2>4, DeviceFrame DEF BhRelock
<1>22. CASE Finished
  BY <1>1, <1>22 DEF Finished
<1> QED
  BY <1>1, <1>2, <1>3, <1>4, <1>5, <1>6, <1>8, <1>9, <1>10, <1>11, <1>12, <1>13,
     <1>14, <1>15, <1>16, <1>17, <1>18, <1>19, <1>20, <1>21, <1>22
     DEF Next, User, Device, BottomHalf

\* The picture holds in every reachable state.
LEMMA DeviceInvariant == Spec => []DeviceInv
<1>1. Init => DeviceInv
  BY ConstantsAssumption DEF Init, DeviceInv, OneSched, HwRunsSched, NotBeforeItself,
                             EndFlagMatchesDevice
<1> QED
  BY <1>1, DeviceStep, ReachInvariant, TypeCorrect, PTL DEF Spec

\* At any time at most one job is on the device, it is the one the manager has
\* as SCHED and the one an interrupt is about, and sched_num counts it.
THEOREM DeviceMatchesManager == Spec => []OneJobOnDevice
<1>1. DeviceInv => OneJobOnDevice
  BY DEF DeviceInv, OneSched, HwRunsSched, OneJobOnDevice
<1> QED
  BY <1>1, DeviceInvariant, PTL

\* A job the manager holds as ended did end on the device, as its flag says.
THEOREM EndFlagsCorrect == Spec => []EndFlagMatchesDevice
<1>1. DeviceInv => EndFlagMatchesDevice
  BY DEF DeviceInv
<1> QED
  BY <1>1, DeviceInvariant, PTL

-----------------------------------------------------------------------------
(* The order of the queues.                                                *)

\* Two jobs are in the same queue.
SameQueue(a, b) == \/ a = "PENDING" /\ b = "PENDING"
                   \/ a \in {"SCHED", "END"} /\ b \in {"SCHED", "END"}

\* With the job states st, bf orders each queue: a job is behind only what was
\* linked before it, and of two jobs of a queue exactly one is ahead of the other.
\* In the scheduled queue the ended jobs are ahead of the one still on the device.
Ordered(st, bf) ==
    /\ \A j, k \in Jobs : k \in bf[j] /\ st[j] \in {"SCHED", "END"} =>
         st[k] \in {"SCHED", "END", "FREED"}
    /\ \A j, k \in Jobs : k \in bf[j] /\ st[j] = "PENDING" => st[k] # "IDLE"
    /\ \A j, k \in Jobs : SameQueue(st[j], st[k]) /\ j # k => j \in bf[k] \/ k \in bf[j]
    /\ \A j, k \in Jobs : SameQueue(st[j], st[k]) => ~(j \in bf[k] /\ k \in bf[j])
    /\ \A j, k \in Jobs : st[j] = "END" /\ st[k] = "SCHED" => j \in bf[k]

\* While the lock is dropped the cursor is ahead of every valid job the bottom
\* half has not visited, and the saved successor, if there is one, is the next.
CursorFirst ==
    bh_curr # NoJob =>
      \A k \in Jobs : state[k] \in {"SCHED", "END"} /\ valid[k] = 1 /\ k # bh_curr =>
        /\ bh_curr \in before[k]
        /\ bh_next # NoJob => k = bh_next \/ bh_next \in before[k]

\* Only a job on the device is ever marked as cancelled.
WaitingIsValid == \A j \in Jobs : state[j] \in {"IDLE", "PENDING"} => valid[j] = 1

QueueInv ==
    /\ Ordered(state, before)
    /\ BhCursorsLinked
    /\ CursorFirst
    /\ EndedJobWillBeVisited
    /\ WaitingIsValid

\* Jobs that leave the queues do not disturb the order of those that stay.
LEMMA RemoveKeepsOrder ==
  ASSUME NEW st \in [Jobs -> JobState], NEW st2 \in [Jobs -> JobState],
         NEW bf \in [Jobs -> SUBSET Jobs], Ordered(st, bf),
         \A j \in Jobs : st2[j] = st[j] \/ st2[j] = "FREED"
  PROVE  Ordered(st2, bf)
BY DEF Ordered, SameQueue

\* A job that is added at the tail of the pending queue is behind all of it.
LEMMA AddKeepsOrder ==
  ASSUME NEW st \in [Jobs -> JobState], NEW bf \in [Jobs -> SUBSET Jobs], Ordered(st, bf),
         NEW c \in Jobs, st[c] = "IDLE"
  PROVE  Ordered([st EXCEPT ![c] = "PENDING"],
                 [bf EXCEPT ![c] = {j \in Jobs : st[j] = "PENDING"}])
<1> DEFINE P   == {j \in Jobs : st[j] = "PENDING"}
           st2 == [st EXCEPT ![c] = "PENDING"]
           bf2 == [bf EXCEPT ![c] = P]
<1>1. \A j \in Jobs : st2[j] = IF j = c THEN "PENDING" ELSE st[j]
  OBVIOUS
<1>2. \A j \in Jobs : bf2[j] = IF j = c THEN P ELSE bf[j]
  OBVIOUS
<1>3. \A j \in Jobs : j \in P <=> st[j] = "PENDING"
  OBVIOUS
<1> HIDE DEF P, st2, bf2
<1>4. \A j \in Jobs : st[j] \in {"PENDING", "SCHED", "END"} => c \notin bf[j]
  BY DEF Ordered
<1>5. \A j, k \in Jobs : k \in bf2[j] /\ st2[j] \in {"SCHED", "END"} =>
        st2[k] \in {"SCHED", "END", "FREED"}
  BY <1>1, <1>2, <1>4 DEF Ordered
<1>6. \A j, k \in Jobs : k \in bf2[j] /\ st2[j] = "PENDING" => st2[k] # "IDLE"
  BY <1>1, <1>2, <1>3 DEF Ordered
<1>7. \A j, k \in Jobs : SameQueue(st2[j], st2[k]) /\ j # k => j \in bf2[k] \/ k \in bf2[j]
  BY <1>1, <1>2, <1>3 DEF Ordered, SameQueue
<1>8. \A j, k \in Jobs : SameQueue(st2[j], st2[k]) => ~(j \in bf2[k] /\ k \in bf2[j])
  BY <1>1, <1>2, <1>3, <1>4 DEF Ordered, SameQueue
<1>9. \A j, k \in Jobs : st2[j] = "END" /\ st2[k] = "SCHED" => j \in bf2[k]
  BY <1>1, <1>2 DEF Ordered
<1>10. Ordered(st2, bf2)
  BY <1>5, <1>6, <1>7, <1>8, <1>9 DEF Ordered
<1> QED
  BY <1>10 DEF st2, bf2, P

\* So is a job that is moved to the tail of the scheduled queue, and it is the
\* first of the pending queue that is moved.
LEMMA ScheduleKeepsOrder ==
  ASSUME NEW st \in [Jobs -> JobState], NEW bf \in [Jobs -> SUBSET Jobs], NEW num,
         Ordered(st, bf), SchedulePending(st, bf, num)
  PROVE  /\ Ordered(state', before')
         /\ \A j, k \in Jobs :
              st[j] # "SCHED" /\ state'[j] = "SCHED" /\ j # k /\ st[k] = "PENDING" =>
                st[j] = "PENDING" /\ j \in bf[k]
<1>1. CASE state' = st /\ before' = bf
  BY <1>1
<1>2. CASE ~(state' = st /\ before' = bf)
  <2> DEFINE P == {k \in Jobs : st[k] = "PENDING"}
             S == {k \in Jobs : st[k] \in {"SCHED", "END"}}
  <2>1. PICK i \in Jobs : /\ IsFirst(i, P, bf)
                          /\ state' = [st EXCEPT ![i] = "SCHED"]
                          /\ before' = [bf EXCEPT ![i] = S]
    BY <1>2 DEF SchedulePending
  <2>2. st[i] = "PENDING" /\ \A k \in Jobs : k \in bf[i] => st[k] # "PENDING"
    BY <2>1 DEF IsFirst
  <2>3. \A j \in Jobs : state'[j] = IF j = i THEN "SCHED" ELSE st[j]
    BY <2>1
  <2>4. \A j \in Jobs : before'[j] = IF j = i THEN S ELSE bf[j]
    BY <2>1
  <2>5. \A j \in Jobs : j \in S <=> st[j] \in {"SCHED", "END"}
    OBVIOUS
  <2> HIDE DEF P, S
  <2>6. \A j \in Jobs : st[j] \in {"SCHED", "END"} => i \notin bf[j]
    BY <2>2 DEF Ordered
  <2>7. \A j, k \in Jobs : k \in before'[j] /\ state'[j] \in {"SCHED", "END"} =>
          state'[k] \in {"SCHED", "END", "FREED"}
    BY <2>3, <2>4, <2>5 DEF Ordered
  <2>8. \A j, k \in Jobs : k \in before'[j] /\ state'[j] = "PENDING" => state'[k] # "IDLE"
    BY <2>3, <2>4 DEF Ordered
  <2>9. \A j, k \in Jobs : SameQueue(state'[j], state'[k]) /\ j # k =>
          j \in before'[k] \/ k \in before'[j]
    BY <2>3, <2>4, <2>5 DEF Ordered, SameQueue
  <2>10. \A j, k \in Jobs : SameQueue(state'[j], state'[k]) =>
           ~(j \in before'[k] /\ k \in before'[j])
    BY <2>2, <2>3, <2>4, <2>5, <2>6 DEF Ordered, SameQueue
  <2>11. \A j, k \in Jobs : state'[j] = "END" /\ state'[k] = "SCHED" => j \in before'[k]
    BY <2>3, <2>4, <2>5 DEF Ordered
  <2>12. Ordered(state', before')
    BY <2>7, <2>8, <2>9, <2>10, <2>11 DEF Ordered
  <2>13. \A k \in Jobs : k # i /\ st[k] = "PENDING" => i \in bf[k]
    BY <2>2 DEF Ordered, SameQueue
  <2> QED
    BY <2>2, <2>3, <2>12, <2>13
<1> QED
  BY <1>1, <1>2

\* The list nodes kept across an unlock stay what they are as long as jobs only
\* enter the scheduled queue at its tail and ended jobs are left alone.
LEMMA CursorsKept ==
  ASSUME BhCursorsLinked, CursorFirst,
         bh_curr \in Jobs \cup {NoJob}, bh_next \in Jobs \cup {NoJob},
         UNCHANGED <<bh, bh_curr, bh_next>>,
         \A j \in Jobs : state[j] \in {"SCHED", "END"} =>
           before'[j] = before[j] /\ state'[j] \in {"SCHED", "END"},
         \A j \in Jobs : state[j] = "END" => state'[j] = "END" /\ valid'[j] = valid[j],
         \A j \in Jobs : state[j] \notin {"SCHED", "END"} /\ state'[j] \in {"SCHED", "END"} =>
           \A k \in Jobs : state[k] \in {"SCHED", "END"} => k \in before'[j],
         \A j \in Jobs : state'[j] \in {"SCHED", "END"} /\ valid'[j] = 1 => valid[j] = 1
  PROVE  BhCursorsLinked' /\ CursorFirst'
<1>1. BhCursorsLinked'
  BY DEF BhCursorsLinked
<1>2. CursorFirst'
  BY DEF BhCursorsLinked, CursorFirst
<1> QED
  BY <1>1, <1>2

\* The loop of the bottom half, over the rest L of the queue, stops at the first
\* valid job that ended and keeps its successor in the queue.  What it leaves
\* ended in L is ahead of it.
LEMMA BhLoopOrder ==
  ASSUME NoJob \notin Jobs, NEW st \in [Jobs -> JobState], before \in [Jobs -> SUBSET Jobs],
         NEW L \in SUBSET Jobs, BhLoop(st, L), Ordered(st, before),
         \A j \in L : st[j] \in {"SCHED", "END"},
         valid' = valid, before' = before
  PROVE  /\ state' \in [Jobs -> JobState]
         /\ Ordered(state', before)
         /\ BhCursorsLinked'
         /\ (\A j \in Jobs : st[j] \in {"SCHED", "END"} /\ valid[j] = 1 => j \in L) => CursorFirst'
         /\ \A j \in L : state'[j] = "END" =>
              j = bh_curr' \/ j = bh_next' \/ bh_next' \in before[j]
<1> DEFINE ended == {j \in L : st[j] = "END"}
           calls == {j \in ended : valid[j] = 1}
<1>1. CASE /\ state' = [j \in Jobs |-> IF j \in ended THEN "FREED" ELSE st[j]]
           /\ bh' = "idle" /\ bh_curr' = NoJob /\ bh_next' = NoJob
  <2>1. \A j \in Jobs : state'[j] = IF j \in ended THEN "FREED" ELSE st[j]
    BY <1>1
  <2>2. state' \in [Jobs -> JobState]
    BY <1>1 DEF JobState
  <2>3. \A j \in L : state'[j] # "END"
    BY <2>1
  <2> HIDE DEF ended, calls
  <2>4. Ordered(state', before)
    BY <2>1, <2>2, RemoveKeepsOrder
  <2>5. BhCursorsLinked' /\ CursorFirst'
    BY <1>1 DEF BhCursorsLinked, CursorFirst
  <2> QED
    BY <2>2, <2>3, <2>4, <2>5
<1>2. ASSUME NEW v \in calls,
             IsFirst(v, calls, before),
             state' = [j \in Jobs |-> IF j \in ended \cap before[v] THEN "FREED" ELSE st[j]],
             bh' = "call", bh_curr' = v,
             LET rest == {k \in L : v \in before[k]}
             IN \/ rest = {} /\ bh_next' = NoJob
                \/ \E n \in rest : IsFirst(n, rest, before) /\ bh_next' = n
      PROVE  /\ state' \in [Jobs -> JobState]
             /\ Ordered(state', before)
             /\ BhCursorsLinked'
             /\ (\A j \in Jobs : st[j] \in {"SCHED", "END"} /\ valid[j] = 1 => j \in L) => CursorFirst'
             /\ \A j \in L : state'[j] = "END" =>
                  j = bh_curr' \/ j = bh_next' \/ bh_next' \in before[j]
  <2> DEFINE rest == {k \in L : v \in before[k]}
  <2>1. v \in Jobs /\ v \in L /\ st[v] = "END" /\ valid[v] = 1
    OBVIOUS
  <2>2. \A k \in L : st[k] = "END" /\ valid[k] = 1 => k \notin before[v]
    BY <1>2 DEF IsFirst
  <2>3. \A j \in Jobs : state'[j] =
          IF j \in L /\ st[j] = "END" /\ j \in before[v] THEN "FREED" ELSE st[j]
    BY <1>2
  <2>4. state' \in [Jobs -> JobState]
    BY <1>2 DEF JobState
  <2>5. \/ rest = {} /\ bh_next' = NoJob
        \/ \E n \in rest : IsFirst(n, rest, before) /\ bh_next' = n
    BY <1>2
  <2>6. \A k : k \in rest <=> k \in L /\ v \in before[k]
    OBVIOUS
  <2> HIDE DEF ended, calls, rest
  <2>7. bh_next' # NoJob => bh_next' \in rest /\ \A k \in rest : k \notin before[bh_next']
    BY <2>5 DEF IsFirst
  <2>8. rest # {} => bh_next' # NoJob
    BY <2>5, <2>6
  <2>9. \A j, k \in L : j # k => j \in before[k] \/ k \in before[j]
    BY DEF Ordered, SameQueue
  <2>10. \A j, k \in L : ~(j \in before[k] /\ k \in before[j])
    BY DEF Ordered, SameQueue
  <2>11. \A k \in rest : k = bh_next' \/ bh_next' \in before[k]
    BY <2>6, <2>7, <2>8, <2>9
  <2>12. state'[v] = "END"
    BY <2>1, <2>3, <2>10
  <2>13. Ordered(state', before)
    BY <2>3, <2>4, RemoveKeepsOrder
  <2>14. BhCursorsLinked'
    <3>1. bh' = "call" /\ bh_curr' = v /\ v # NoJob /\ valid'[v] = 1
      BY <1>2, <2>1
    <3>2. bh_next' # NoJob => state'[bh_next'] \in {"SCHED", "END"} /\ v \in before'[bh_next']
      BY <2>1, <2>3, <2>6, <2>7, <2>10
    <3> QED
      BY <2>12, <3>1, <3>2 DEF BhCursorsLinked
  <2>15. ASSUME \A j \in Jobs : st[j] \in {"SCHED", "END"} /\ valid[j] = 1 => j \in L
         PROVE  CursorFirst'
    <3>1. ASSUME NEW k \in Jobs, state'[k] \in {"SCHED", "END"}, valid[k] = 1, k # v
          PROVE  k \in L /\ v \in before[k]
      <4>1. st[k] = state'[k] /\ k \in L
        BY <2>3, <2>15, <3>1
      <4>2. CASE st[k] = "END"
        BY <2>1, <2>2, <2>9, <3>1, <4>1, <4>2
      <4>3. CASE st[k] = "SCHED"
        BY <2>1, <4>1, <4>3 DEF Ordered
      <4>4. st[k] = "END" \/ st[k] = "SCHED"
        BY <3>1, <4>1
      <4> QED
        BY <4>1, <4>2, <4>3, <4>4
    <3> QED
      BY <1>2, <2>6, <2>11, <3>1 DEF CursorFirst
  <2>16. \A j \in L : state'[j] = "END" => j = v \/ j = bh_next' \/ bh_next' \in before[j]
    <3> SUFFICES ASSUME NEW j \in L, state'[j] = "END", j # v
                 PROVE  j = bh_next' \/ bh_next' \in before[j]
      OBVIOUS
    <3>1. st[j] = "END" /\ j \notin before[v]
      BY <2>3
    <3>2. j \in rest
      BY <2>1, <2>6, <2>9, <3>1
    <3> QED
      BY <2>11, <3>2
  <2> QED
    BY <1>2, <2>4, <2>13, <2>14, <2>15, <2>16
<1> QED
  BY <1>1, <1>2 DEF BhLoop

\* A step in which jobs leave the manager or are cancelled while they wait or run.
LEMMA QueueFrame ==
  ASSUME TypeOK, TypeOK', QueueInv,
         UNCHANGED <<before, uh, work, bh, bh_curr, bh_next>>,
         \A j \in Jobs : \/ state'[j] = state[j] /\ valid'[j] = valid[j]
                         \/ state[j] = "SCHED" /\ state'[j] = "SCHED" /\ valid'[j] = 0
                         \/ state[j] = "PENDING" /\ state'[j] = "FREED" /\ valid'[j] = valid[j]
  PROVE  QueueInv'
<1>1. /\ state \in [Jobs -> JobState] /\ state' \in [Jobs -> JobState]
      /\ before \in [Jobs -> SUBSET Jobs]
      /\ bh_curr \in Jobs \cup {NoJob} /\ bh_next \in Jobs \cup {NoJob}
  BY DEF TypeOK, JobState
<1>2. Ordered(state, before)'
  <2>1. \A j \in Jobs : state'[j] = state[j] \/ state'[j] = "FREED"
    OBVIOUS
  <2>2. Ordered(state', before)
    BY <1>1, <2>1, RemoveKeepsOrder DEF QueueInv
  <2> QED
    BY <2>2
<1>3. BhCursorsLinked' /\ CursorFirst'
  BY <1>1, CursorsKept DEF QueueInv
<1>4. EndedJobWillBeVisited'
  BY DEF QueueInv, EndedJobWillBeVisited
<1>5. WaitingIsValid'
  BY DEF QueueInv, WaitingIsValid
<1> QED
  BY <1>2, <1>3, <1>4, <1>5 DEF QueueInv

\* A step that schedules, from the queues st and bf that the caller left.
LEMMA ScheduleKeepsQueues ==
  ASSUME TypeOK, QueueInv,
         NEW st \in [Jobs -> JobState], NEW bf \in [Jobs -> SUBSET Jobs], NEW num,
         SchedulePending(st, bf, num), Ordered(st, bf),
         UNCHANGED <<valid, bh, bh_curr, bh_next>>,
         \A j \in Jobs : state[j] \in {"SCHED", "END"} => bf[j] = before[j],
         \A j \in Jobs : st[j] \in {"SCHED", "END"} <=> state[j] \in {"SCHED", "END"},
         \A j \in Jobs : state[j] = "END" => st[j] = "END",
         \A j \in Jobs : st[j] \in {"IDLE", "PENDING"} => valid[j] = 1
  PROVE  /\ Ordered(state, before)' /\ BhCursorsLinked' /\ CursorFirst' /\ WaitingIsValid'
         /\ \A j \in Jobs : state'[j] = "END" <=> st[j] = "END"
         /\ \A j \in Jobs : state[j] = "END" => before'[j] = before[j]
<1>1. \A j \in Jobs : \/ state'[j] = st[j] /\ before'[j] = bf[j]
                      \/ /\ st[j] = "PENDING"
                         /\ state'[j] = "SCHED"
                         /\ before'[j] = {k \in Jobs : st[k] \in {"SCHED", "END"}}
  BY ScheduleEffect
<1>2. \A j, k \in Jobs : /\ state[j] \notin {"SCHED", "END"} /\ state'[j] \in {"SCHED", "END"}
                         /\ state[k] \in {"SCHED", "END"}
                         => k \in before'[j]
  <2> SUFFICES ASSUME NEW j \in Jobs, NEW k \in Jobs, state[j] \notin {"SCHED", "END"},
                      state'[j] \in {"SCHED", "END"}, state[k] \in {"SCHED", "END"}
               PROVE  k \in before'[j]
    OBVIOUS
  <2>1. before'[j] = {m \in Jobs : st[m] \in {"SCHED", "END"}}
    BY <1>1
  <2>2. st[k] \in {"SCHED", "END"}
    OBVIOUS
  <2> QED
    BY <2>1, <2>2
<1>3. bh_curr \in Jobs \cup {NoJob} /\ bh_next \in Jobs \cup {NoJob}
  BY DEF TypeOK
<1>4. \A j \in Jobs : state[j] \in {"SCHED", "END"} =>
        before'[j] = before[j] /\ state'[j] \in {"SCHED", "END"}
  BY <1>1
<1>5. \A j \in Jobs : state'[j] = "END" <=> st[j] = "END"
  BY <1>1
<1>6. BhCursorsLinked' /\ CursorFirst'
  BY <1>2, <1>3, <1>4, <1>5, CursorsKept DEF QueueInv
<1>7. Ordered(state, before)'
  BY ScheduleKeepsOrder
<1>8. WaitingIsValid'
  BY <1>1 DEF WaitingIsValid
<1> QED
  BY <1>4, <1>5, <1>6, <1>7, <1>8

\* Every step preserves the order of the queues.
LEMMA QueueStep ==
  TypeOK /\ TypeOK' /\ ReachInv /\ DeviceInv /\ QueueInv /\ [Next]_vars => QueueInv'
<1> SUFFICES ASSUME TypeOK, TypeOK', ReachInv, DeviceInv, QueueInv, [Next]_vars PROVE QueueInv'
  OBVIOUS
<1> USE DEF jobvars, sjobvars, hwvars, bhvars
<1>a. NoJob \notin Jobs
  BY ConstantsAssumption
<1>b. /\ state \in [Jobs -> JobState]
      /\ valid \in [Jobs -> {0, 1}]
      /\ before \in [Jobs -> SUBSET Jobs]
      /\ bh_curr \in Jobs \cup {NoJob}
      /\ bh_next \in Jobs \cup {NoJob}
  BY DEF TypeOK, JobState
<1>1. CASE UNCHANGED vars
  BY <1>1, QueueFrame DEF vars
<1>2. ASSUME NEW s \in Sessions, Open(s) PROVE QueueInv'
  BY <1>2, QueueFrame DEF Open
<1>3. ASSUME NEW s \in Sessions, ReleaseCancel(s) PROVE QueueInv'
  <2>1. PICK S : InvalidateJobs(S)
    BY <1>3 DEF ReleaseCancel
  <2>2. \A j \in Jobs : \/ state'[j] = state[j] /\ valid'[j] = valid[j]
                        \/ state[j] = "SCHED" /\ state'[j] = "SCHED" /\ valid'[j] = 0
                        \/ state[j] = "PENDING" /\ state'[j] = "FREED" /\ valid'[j] = valid[j]
    BY <2>1, InvalidateEffect
  <2> QED
    BY <1>3, <2>2, QueueFrame DEF ReleaseCancel
<1>4. ASSUME NEW s \in Sessions,
             ReleaseDeleteJobs(s) \/ ReleaseFreeBuffers(s) \/ ReleaseDestroy(s)
      PROVE  QueueInv'
  BY <1>4, QueueFrame DEF ReleaseDeleteJobs, ReleaseFreeBuffers, ReleaseDestroy
<1>5. ASSUME NEW R, GetJobStatus(R) PROVE QueueInv'
  BY <1>5, QueueFrame DEF GetJobStatus
<1>6. ASSUME NEW s \in Sessions, NEW id \in JobIds, QuerySingle(s, id) PROVE QueueInv'
  BY <1>5, <1>6 DEF QuerySingle
<1>7. ASSUME NEW s \in Sessions, NEW n \in 1..MaxCnt, QueryAll(s, n) PROVE QueueInv'
  BY <1>5, <1>7 DEF QueryAll
<1>8. ASSUME NEW t \in Threads, NEW j \in Jobs, SessionAddJob(t, j) PROVE QueueInv'
  BY <1>8, QueueFrame DEF SessionAddJob
<1>9. ASSUME NEW t \in Threads, ScheduleNewJob(t) PROVE QueueInv'
  <2>1. PICK c \in Jobs : c = call[t] /\ state[c] = "IDLE"
    BY <1>9 DEF ScheduleNewJob, ReachInv, CallFresh, TypeOK
  <2>2. PICK st, bf : /\ st = [state EXCEPT ![c] = "PENDING"]
                      /\ bf = [before EXCEPT ![c] = {j \in Jobs : state[j] = "PENDING"}]
    OBVIOUS
  <2>3. st \in [Jobs -> JobState] /\ bf \in [Jobs -> SUBSET Jobs]
    BY <1>b, <2>2 DEF JobState
  <2>4. SchedulePending(st, bf, sched_num)
    BY <1>9, <2>1, <2>2 DEF ScheduleNewJob, Pending
  <2>5. Ordered(st, bf)
    BY <1>b, <2>1, <2>2, AddKeepsOrder DEF QueueInv
  <2>6. \A j \in Jobs : st[j] = IF j = c THEN "PENDING" ELSE state[j]
    BY <1>b, <2>2
  <2>7. \A j \in Jobs : j # c => bf[j] = before[j]
    BY <1>b, <2>2
  <2>8. \A j \in Jobs : st[j] \in {"IDLE", "PENDING"} => valid[j] = 1
    BY <2>1, <2>6 DEF QueueInv, WaitingIsValid
  <2>9. UNCHANGED <<valid, uh, work, bh, bh_curr, bh_next>>
    BY <1>9 DEF ScheduleNewJob
  <2>10. \A j \in Jobs : state[j] \in {"SCHED", "END"} => bf[j] = before[j]
    BY <2>1, <2>7
  <2>11. \A j \in Jobs : /\ st[j] \in {"SCHED", "END"} <=> state[j] \in {"SCHED", "END"}
                         /\ st[j] = "END" <=> state[j] = "END"
    BY <2>1, <2>6
  <2>12. /\ Ordered(state, before)' /\ BhCursorsLinked' /\ CursorFirst' /\ WaitingIsValid'
         /\ \A j \in Jobs : state'[j] = "END" <=> st[j] = "END"
         /\ \A j \in Jobs : state[j] = "END" => before'[j] = before[j]
    BY <2>3, <2>4, <2>5, <2>8, <2>9, <2>10, <2>11, ScheduleKeepsQueues
  <2>13. EndedJobWillBeVisited'
    BY <2>9, <2>11, <2>12 DEF QueueInv, EndedJobWillBeVisited
  <2> QED
    BY <2>12, <2>13 DEF QueueInv
<1>10. ASSUME NEW t \in Threads, ScheduleNewJobNoMem(t) PROVE QueueInv'
  BY <1>10, QueueFrame DEF ScheduleNewJobNoMem
<1>11. ASSUME NEW t \in Threads, NEW id \in JobIds, KillTimeoutJob(t, id) PROVE QueueInv'
  <2>1. PICK S : InvalidateJobs(S)
    BY <1>11 DEF KillTimeoutJob
  <2>2. \A j \in Jobs : \/ state'[j] = state[j] /\ valid'[j] = valid[j]
                        \/ state[j] = "SCHED" /\ state'[j] = "SCHED" /\ valid'[j] = 0
                        \/ state[j] = "PENDING" /\ state'[j] = "FREED" /\ valid'[j] = valid[j]
    BY <2>1, InvalidateEffect
  <2> QED
    BY <1>11, <2>2, QueueFrame DEF KillTimeoutJob
<1>12. ASSUME NEW out \in Outcomes, HwFinish(out) PROVE QueueInv'
  BY <1>12, QueueFrame DEF HwFinish
<1>13. CASE HwSettle
  BY <1>13, QueueFrame DEF HwSettle
<1>14. CASE UhUpdateJobState
  <2>1. PICK st, num : /\ st = [j \in Jobs |-> IF j \in IrqJob THEN "END" ELSE state[j]]
                       /\ SchedulePending(st, before, num)
    BY <1>14 DEF UhUpdateJobState
  <2>2. st \in [Jobs -> JobState]
    BY <1>b, <2>1 DEF JobState
  <2>3. \A j \in Jobs : st[j] = IF j \in IrqJob THEN "END" ELSE state[j]
    BY <2>1
  <2>4. \A j \in Jobs : /\ j \in IrqJob => state[j] = "SCHED"
                        /\ st[j] = "SCHED" => FALSE
    <3>1. PICK r \in Jobs : state[r] = "SCHED"
      BY <1>14 DEF UhUpdateJobState, ClearIrq, DeviceInv, HwRunsSched
    <3>2. Running = {r}
      BY <3>1 DEF DeviceInv, OneSched, Running
    <3>3. IrqJob = {r}
      BY <3>1, <3>2 DEF IrqJob, IsFirst, DeviceInv, NotBeforeItself
    <3>4. \A j \in Jobs : state[j] = "SCHED" => j = r
      BY <3>1 DEF DeviceInv, OneSched
    <3> QED
      BY <2>3, <3>1, <3>3, <3>4
  <2>5. Ordered(st, before)
    BY <2>3, <2>4 DEF QueueInv, Ordered, SameQueue
  <2>6. UNCHANGED <<valid, bh, bh_curr, bh_next>> /\ uh' = "queue"
    BY <1>14 DEF UhUpdateJobState
  <2>7. \A j \in Jobs : st[j] \in {"IDLE", "PENDING"} => valid[j] = 1
    BY <2>3 DEF QueueInv, WaitingIsValid
  <2>8. \A j \in Jobs : /\ st[j] \in {"SCHED", "END"} <=> state[j] \in {"SCHED", "END"}
                        /\ state[j] = "END" => st[j] = "END"
    BY <2>3, <2>4
  <2>9. Ordered(state, before)' /\ BhCursorsLinked' /\ CursorFirst' /\ WaitingIsValid'
    BY <1>b, <2>1, <2>2, <2>5, <2>6, <2>7, <2>8, ScheduleKeepsQueues
  <2>10. EndedJobWillBeVisited'
    BY <2>6 DEF EndedJobWillBeVisited
  <2> QED
    BY <2>9, <2>10 DEF QueueInv
<1>15. CASE UhScheduleWork
  <2>1. UNCHANGED <<state, valid, before, bh, bh_curr, bh_next>> /\ work' = 1
    BY <1>15 DEF UhScheduleWork
  <2>2. EndedJobWillBeVisited'
    BY <2>1 DEF EndedJobWillBeVisited
  <2>3. Ordered(state, before)' /\ BhCursorsLinked' /\ CursorFirst' /\ WaitingIsValid'
    BY <2>1 DEF QueueInv, BhCursorsLinked, CursorFirst, WaitingIsValid
  <2> QED
    BY <2>2, <2>3 DEF QueueInv
<1>16. CASE BhStart
  <2>1. /\ UNCHANGED <<state, valid, before, bh_curr, bh_next>>
        /\ bh = "idle" /\ bh' = "scan"
    BY <1>16 DEF BhStart
  <2>2. EndedJobWillBeVisited'
    BY <2>1 DEF EndedJobWillBeVisited
  <2>3. Ordered(state, before)' /\ BhCursorsLinked' /\ CursorFirst' /\ WaitingIsValid'
    BY <2>1 DEF QueueInv, BhCursorsLinked, CursorFirst, WaitingIsValid
  <2> QED
    BY <2>2, <2>3 DEF QueueInv
<1>17. CASE BhScan
  <2>1. /\ BhLoop(state, Scheduled) /\ UNCHANGED <<valid, before>>
        /\ Scheduled \in SUBSET Jobs /\ \A j \in Jobs : j \in Scheduled <=> state[j] \in {"SCHED", "END"}
    BY <1>17 DEF BhScan, Scheduled
  <2>2. /\ Ordered(state', before) /\ BhCursorsLinked' /\ CursorFirst'
        /\ \A j \in Scheduled : state'[j] = "END" =>
             j = bh_curr' \/ j = bh_next' \/ bh_next' \in before[j]
    BY <1>a, <1>b, <2>1, BhLoopOrder DEF QueueInv
  <2>3. \A j \in Jobs : state'[j] = state[j] \/ (state[j] = "END" /\ state'[j] = "FREED")
    <3>1. state \in [Jobs -> JobState] /\ Scheduled \in SUBSET Jobs /\ BhLoop(state, Scheduled)
      BY <1>b, <2>1
    <3> QED
      BY <3>1, BhLoopEffect
  <2>4. EndedJobWillBeVisited'
    BY <2>1, <2>2, <2>3 DEF EndedJobWillBeVisited
  <2>5. WaitingIsValid'
    BY <2>1, <2>3 DEF QueueInv, WaitingIsValid
  <2> QED
    BY <2>1, <2>2, <2>4, <2>5 DEF QueueInv
<1>18. CASE BhSessionJobDone
  <2>1. /\ UNCHANGED <<state, valid, before, uh, work, bh_curr, bh_next>>
        /\ bh = "call" /\ bh' = "relock"
    BY <1>18 DEF BhSessionJobDone
  <2>2. EndedJobWillBeVisited'
    BY <2>1 DEF QueueInv, EndedJobWillBeVisited
  <2>3. Ordered(state, before)' /\ BhCursorsLinked' /\ CursorFirst' /\ WaitingIsValid'
    BY <2>1 DEF QueueInv, BhCursorsLinked, CursorFirst, WaitingIsValid
  <2> QED
    BY <2>2, <2>3 DEF QueueInv
<1>19. CASE BhRelock
  <2>1. PICK c \in Jobs : /\ c = bh_curr /\ state[c] = "END"
    BY <1>19, <1>b DEF BhRelock, QueueInv, BhCursorsLinked
  <2>2. PICK st : st = [state EXCEPT ![c] = "FREED"]
    OBVIOUS
  <2>3. /\ st \in [Jobs -> JobState]
        /\ \A j \in Jobs : st[j] = IF j = c THEN "FREED" ELSE state[j]
    BY <1>b, <2>2 DEF JobState
  <2>4. BhLoop(st, BhRest) /\ UNCHANGED <<valid, before, uh, work>> /\ bh = "relock"
    BY <1>19, <2>1, <2>2 DEF BhRelock
  <2>5. /\ BhRest \in SUBSET Jobs
        /\ \A j \in Jobs : j \in BhRest <=>
             state[j] \in {"SCHED", "END"} /\ (j = bh_next \/ bh_next \in before[j])
    BY DEF BhRest, Scheduled
  <2>6. Ordered(st, before)
    BY <1>b, <2>3, RemoveKeepsOrder DEF QueueInv
  <2>7. bh_next # NoJob => bh_next \in Jobs /\ state[bh_next] \in {"SCHED", "END"} /\ c \in before[bh_next]
    BY <1>b, <2>1 DEF QueueInv, BhCursorsLinked
  <2>8. c \notin BhRest
    <3>1. bh_next = NoJob => \A j \in Jobs : j \notin BhRest
      BY <1>a, <1>b, <2>5
    <3>2. bh_next # NoJob => c # bh_next /\ bh_next \notin before[c]
      BY <2>1, <2>7 DEF QueueInv, Ordered, SameQueue
    <3> QED
      BY <2>5, <3>1, <3>2
  <2>9. \A j \in BhRest : st[j] \in {"SCHED", "END"}
    BY <2>3, <2>5, <2>8
  <2>10. /\ Ordered(state', before) /\ BhCursorsLinked'
         /\ (\A j \in Jobs : st[j] \in {"SCHED", "END"} /\ valid[j] = 1 => j \in BhRest) => CursorFirst'
         /\ \A j \in BhRest : state'[j] = "END" =>
              j = bh_curr' \/ j = bh_next' \/ bh_next' \in before[j]
    BY <1>a, <1>b, <2>3, <2>4, <2>5, <2>6, <2>9, BhLoopOrder
  <2>11. CursorFirst'
    <3>1. CASE bh_next = NoJob
      <4>1. BhRest = {}
        BY <1>a, <1>b, <2>5, <3>1
      <4>2. bh_curr' = NoJob
        BY <2>4, <4>1 DEF BhLoop
      <4> QED
        BY <4>2 DEF CursorFirst
    <3>2. CASE bh_next # NoJob
      <4>1. \A j \in Jobs : st[j] \in {"SCHED", "END"} /\ valid[j] = 1 => j \in BhRest
        BY <1>a, <2>1, <2>3, <2>5, <3>2 DEF QueueInv, CursorFirst
      <4> QED
        BY <2>10, <4>1
    <3> QED
      BY <3>1, <3>2
  <2>12. \A j \in Jobs : state'[j] = st[j] \/ (st[j] = "END" /\ state'[j] = "FREED")
    <3>1. st \in [Jobs -> JobState] /\ BhRest \in SUBSET Jobs /\ BhLoop(st, BhRest)
      BY <2>3, <2>4, <2>5
    <3> QED
      BY <3>1, BhLoopEffect
  <2>13. EndedJobWillBeVisited'
    BY <2>1, <2>3, <2>4, <2>5, <2>10, <2>12 DEF QueueInv, EndedJobWillBeVisited
  <2>14. WaitingIsValid'
    BY <2>1, <2>3, <2>4, <2>12 DEF QueueInv, WaitingIsValid
  <2> QED
    BY <2>4, <2>10, <2>11, <2>13, <2>14 DEF QueueInv
<1>20. CASE Finished
  BY <1>1, <1>20 DEF Finished
<1> QED
  BY <1>1, <1>2, <1>3, <1>4, <1>6, <1>7, <1>8, <1>9, <1>10, <1>11, <1>12, <1>13,
     <1>14, <1>15, <1>16, <1>17, <1>18, <1>19, <1>20
     DEF Next, User, Device, BottomHalf

\* The order of the queues holds in every reachable state.
LEMMA QueueInvariant == Spec => []QueueInv
<1>1. Init => QueueInv
  BY DEF Init, QueueInv, Ordered, SameQueue, BhCursorsLinked, CursorFirst,
         EndedJobWillBeVisited, WaitingIsValid
<1> QED
  BY <1>1, QueueStep, DeviceInvariant, ReachInvariant, TypeCorrect, PTL DEF Spec

\* No ended job is stranded in the scheduled queue although the bottom half drops
\* the lock in the middle of its walk: the walk, or another one already asked for,
\* comes to it.
THEOREM NoEndedJobStranded == Spec => []EndedJobWillBeVisited
<1>1. QueueInv => EndedJobWillBeVisited
  BY DEF QueueInv
<1> QED
  BY <1>1, QueueInvariant, PTL

\* The two list nodes that the bottom half keeps while the lock is dropped are
\* still linked, one behind the other, when it takes the lock again.
THEOREM CursorsStayLinked == Spec => []BhCursorsLinked
<1>1. QueueInv => BhCursorsLinked
  BY DEF QueueInv
<1> QED
  BY <1>1, QueueInvariant, PTL

\* A job that starts was the first of the pending queue.
LEMMA StartsInOrder ==
  ASSUME TypeOK, ReachInv, DeviceInv, QueueInv, [Next]_vars,
         NEW j \in Jobs, NEW k \in Jobs,
         state[j] # "SCHED", state'[j] = "SCHED", j # k, state[k] = "PENDING"
  PROVE  state[j] = "PENDING" /\ j \in before[k]
<1> USE DEF jobvars, sjobvars, hwvars, bhvars
<1>a. state \in [Jobs -> JobState] /\ before \in [Jobs -> SUBSET Jobs]
  BY DEF TypeOK, JobState
<1>b. state'[j] # state[j] /\ state' # state
  OBVIOUS
<1>1. ASSUME NEW S, InvalidateJobs(S) PROVE FALSE
  BY <1>1, <1>b, InvalidateEffect
<1>2. ASSUME NEW st \in [Jobs -> JobState], NEW L \in SUBSET Jobs, BhLoop(st, L),
             st[j] \in {state[j], "FREED"}
      PROVE  FALSE
  <2>1. state'[j] = st[j] \/ state'[j] = "FREED"
    BY <1>2, BhLoopEffect
  <2> QED
    BY <1>2, <1>b, <2>1
<1>3. ASSUME NEW t \in Threads, ScheduleNewJob(t)
      PROVE  state[j] = "PENDING" /\ j \in before[k]
  <2>1. PICK c \in Jobs : c = call[t] /\ state[c] = "IDLE"
    BY <1>3 DEF ScheduleNewJob, ReachInv, CallFresh, TypeOK
  <2>2. PICK st, bf : /\ st = [state EXCEPT ![c] = "PENDING"]
                      /\ bf = [before EXCEPT ![c] = {m \in Jobs : state[m] = "PENDING"}]
    OBVIOUS
  <2>3. st \in [Jobs -> JobState] /\ bf \in [Jobs -> SUBSET Jobs]
    BY <1>a, <2>2 DEF JobState
  <2>4. SchedulePending(st, bf, sched_num)
    BY <1>3, <2>1, <2>2 DEF ScheduleNewJob, Pending
  <2>5. Ordered(st, bf)
    BY <1>a, <2>1, <2>2, AddKeepsOrder DEF QueueInv
  <2>6. \A m \in Jobs : st[m] = IF m = c THEN "PENDING" ELSE state[m]
    BY <1>a, <2>2
  <2>7. /\ \A m \in Jobs : m # c => bf[m] = before[m]
        /\ bf[c] = {m \in Jobs : state[m] = "PENDING"}
    BY <1>a, <2>2
  <2>8. st[j] # "SCHED" /\ st[k] = "PENDING" /\ k # c
    BY <2>1, <2>6
  <2>9. j \in bf[k]
    BY <2>3, <2>4, <2>5, <2>8, ScheduleKeepsOrder
  <2>10. j \in before[k]
    BY <2>7, <2>8, <2>9
  <2>11. st[j] = "PENDING"
    BY <2>3, <2>4, <2>5, <2>8, ScheduleKeepsOrder
  <2>12. j # c
    BY <2>1, <2>10 DEF QueueInv, Ordered
  <2> QED
    BY <2>6, <2>10, <2>11, <2>12
<1>4. ASSUME UhUpdateJobState
      PROVE  state[j] = "PENDING" /\ j \in before[k]
  <2>1. PICK st, num : /\ st = [m \in Jobs |-> IF m \in IrqJob THEN "END" ELSE state[m]]
                       /\ SchedulePending(st, before, num)
    BY <1>4 DEF UhUpdateJobState
  <2>2. st \in [Jobs -> JobState]
    BY <1>a, <2>1 DEF JobState
  <2>3. \A m \in Jobs : st[m] = IF m \in IrqJob THEN "END" ELSE state[m]
    BY <2>1
  <2>4. PICK r \in Jobs : state[r] = "SCHED" /\ IrqJob = {r}
    <3>1. PICK r \in Jobs : state[r] = "SCHED"
      BY <1>4 DEF UhUpdateJobState, ClearIrq, DeviceInv, HwRunsSched
    <3>2. Running = {r}
      BY <3>1 DEF DeviceInv, OneSched, Running
    <3>3. IrqJob = {r}
      BY <3>1, <3>2 DEF IrqJob, IsFirst, DeviceInv, NotBeforeItself
    <3> QED
      BY <3>1, <3>3
  <2>5. \A m \in Jobs : state[m] = "SCHED" => m = r
    BY <2>4 DEF DeviceInv, OneSched
  <2>6. Ordered(st, before)
    BY <2>3, <2>4, <2>5 DEF QueueInv, Ordered, SameQueue
  <2>7. st[j] = state[j] /\ st[k] = "PENDING"
    BY <2>3, <2>4
  <2> QED
    BY <1>a, <2>1, <2>2, <2>6, <2>7, ScheduleKeepsOrder
<1>5. ASSUME BhScan PROVE FALSE
  <2>1. Scheduled \in SUBSET Jobs /\ BhLoop(state, Scheduled)
    BY <1>5 DEF BhScan, Scheduled
  <2> QED
    BY <1>2, <1>a, <2>1
<1>6. ASSUME BhRelock PROVE FALSE
  <2>1. PICK st : st = [state EXCEPT ![bh_curr] = "FREED"] /\ BhLoop(st, BhRest)
    BY <1>6 DEF BhRelock
  <2>2. st \in [Jobs -> JobState] /\ st[j] \in {state[j], "FREED"} /\ BhRest \in SUBSET Jobs
    BY <1>a, <2>1 DEF JobState, BhRest, Scheduled
  <2> QED
    BY <1>2, <2>1, <2>2
<1>7. ASSUME NEW s \in Sessions, ReleaseCancel(s) PROVE FALSE
  BY <1>1, <1>7 DEF ReleaseCancel
<1>8. ASSUME NEW t \in Threads, NEW id \in JobIds, KillTimeoutJob(t, id) PROVE FALSE
  BY <1>1, <1>8 DEF KillTimeoutJob
<1>9. \/ \E t \in Threads : ScheduleNewJob(t)
      \/ UhUpdateJobState \/ BhScan \/ BhRelock
      \/ \E s \in Sessions : ReleaseCancel(s)
      \/ \E t \in Threads, id \in JobIds : KillTimeoutJob(t, id)
      \/ state' = state
  BY DEF Next, User, Device, BottomHalf, vars, Open, ReleaseDeleteJobs, ReleaseFreeBuffers,
         ReleaseDestroy, QuerySingle, QueryAll, GetJobStatus, SessionAddJob, ScheduleNewJobNoMem,
         HwFinish, HwSettle, UhScheduleWork, BhStart, BhSessionJobDone, Finished
<1> QED
  BY <1>b, <1>3, <1>4, <1>5, <1>6, <1>7, <1>8, <1>9

\* A session_job that is ended is the one of the cursor.
LEMMA EndsInOrder ==
  ASSUME TypeOK, ReachInv, QueueInv, [Next]_vars,
         NEW j \in Jobs, NEW k \in Jobs,
         sjob[j] = "ACTIVE", sjob'[j] = "END",
         valid[k] = 1, k # j, state[k] \in {"SCHED", "END"}
  PROVE  j \in before[k]
<1> USE DEF jobvars, sjobvars, hwvars, bhvars
<1>a. sjob' # sjob
  BY DEF TypeOK
<1>b. \/ \E s \in Sessions : ReleaseDeleteJobs(s) \/ \E R : GetJobStatus(R)
      \/ \E t \in Threads, i \in Jobs : SessionAddJob(t, i)
      \/ BhSessionJobDone
  BY <1>a DEF Next, User, Device, BottomHalf, vars, Open, ReleaseCancel, ReleaseFreeBuffers,
         ReleaseDestroy, QuerySingle, QueryAll, ScheduleNewJob, ScheduleNewJobNoMem,
         KillTimeoutJob, HwFinish, HwSettle, UhUpdateJobState, UhScheduleWork, BhStart, BhScan,
         BhRelock, Finished
<1>c. \A s \in Sessions : ~ReleaseDeleteJobs(s)
  BY DEF ReleaseDeleteJobs
<1>d. \A R : ~GetJobStatus(R)
  BY DEF GetJobStatus
<1>e. \A t \in Threads, i \in Jobs : ~SessionAddJob(t, i)
  BY DEF SessionAddJob, TypeOK
<1>1. BhSessionJobDone
  BY <1>b, <1>c, <1>d, <1>e
<1>2. j = bh_curr
  BY <1>1 DEF BhSessionJobDone, TypeOK
<1> QED
  BY <1>2, ConstantsAssumption DEF QueueInv, CursorFirst

\* Jobs start in the order in which they were queued, and completions reach the
\* sessions in the order of the scheduled queue.
THEOREM JobsInOrder == Spec => InOrder
<1>1. TypeOK /\ ReachInv /\ DeviceInv /\ QueueInv /\ [Next]_vars =>
        [/\ \A j, k \in Jobs :
              state[j] # "SCHED" /\ state'[j] = "SCHED" /\ j # k /\ state[k] = "PENDING"
                 => state[j] = "PENDING" /\ j \in before[k]
         /\ \A j, k \in Jobs :
              sjob[j] = "ACTIVE" /\ sjob'[j] = "END" /\ valid[k] = 1 /\ k # j
                 /\ state[k] \in {"SCHED", "END"} => j \in before[k]]_vars
  BY StartsInOrder, EndsInOrder
<1> QED
  BY <1>1, QueueInvariant, DeviceInvariant, ReachInvariant, TypeCorrect, PTL DEF Spec, InOrder

-----------------------------------------------------------------------------
(* The job manager and the sessions.                                       *)

\* An ended job that was not cancelled is still owed to its session, unless the
\* bottom half has just delivered it.
EndedJobsOwed ==
    \A j \in Jobs :
        /\ state[j] = "END" /\ valid[j] = 1 /\ session[Owner[j]] = "open"
        /\ ~(bh = "relock" /\ j = bh_curr)
        => sjob[j] = "ACTIVE"

\* When the bottom half takes the lock again, its job has been delivered.
CursorDelivered == bh = "relock" => sjob[bh_curr] # "ACTIVE"

\* A session that has not been opened has no jobs.
ClosedIsEmpty == \A j \in Jobs : session[Owner[j]] = "closed" => sjob[j] = "NONE"

SessionInv ==
    LiveJobsBacked /\ EndedJobsOwed /\ CursorDelivered /\ ClosedIsEmpty /\ NoLostCompletion

\* A step in which jobs only move on, as the manager moves them, in which
\* session_jobs that are awaited stay, and in which nothing is opened or closed.
LEMMA SessionFrame ==
  ASSUME SessionInv, ReachInv, DeviceInv,
         session' = session, sjob' = sjob, bh' = bh, bh_curr' = bh_curr,
         \A j \in Jobs : outcome'[j] = outcome[j] \/ state[j] = "SCHED",
         \A j \in Jobs : valid'[j] = 1 => valid[j] = 1,
         \A j \in Jobs : \/ state'[j] = state[j]
                         \/ state[j] = "PENDING" /\ state'[j] = "SCHED"
                         \/ state[j] = "SCHED" /\ state'[j] = "END"
                         \/ state[j] = "PENDING" /\ state'[j] = "FREED" /\ outcome'[j] = outcome[j]
  PROVE  SessionInv'
<1>1. LiveJobsBacked'
  BY DEF SessionInv, LiveJobsBacked
<1>2. EndedJobsOwed'
  BY DEF SessionInv, LiveJobsBacked, EndedJobsOwed
<1>3. CursorDelivered' /\ ClosedIsEmpty'
  BY DEF SessionInv, CursorDelivered, ClosedIsEmpty
<1>4. NoLostCompletion'
  BY DEF SessionInv, NoLostCompletion, DeviceInv, EndFlagMatchesDevice
<1> QED
  BY <1>1, <1>2, <1>3, <1>4 DEF SessionInv

\* Every step preserves the agreement.
LEMMA SessionStep ==
  TypeOK /\ ReachInv /\ DeviceInv /\ SessionInv /\ [Next]_vars => SessionInv'
<1> SUFFICES ASSUME TypeOK, ReachInv, DeviceInv, SessionInv, [Next]_vars PROVE SessionInv'
  OBVIOUS
<1> USE DEF jobvars, sjobvars, hwvars, bhvars
<1>a. NoJob \notin Jobs /\ Owner \in [Jobs -> Sessions]
  BY ConstantsAssumption
<1>b. /\ state \in [Jobs -> JobState]
      /\ valid \in [Jobs -> {0, 1}]
      /\ before \in [Jobs -> SUBSET Jobs]
      /\ sjob \in [Jobs -> {"NONE", "ACTIVE", "END", "FREED"}]
      /\ bh_curr \in Jobs \cup {NoJob}
  BY DEF TypeOK, JobState
<1>c. session \in [Sessions -> {"closed", "open", "cancelled", "jobs_deleted",
                                "buffers_freed", "destroyed"}]
  BY DEF TypeOK
<1>1. CASE UNCHANGED vars
  BY <1>1, SessionFrame DEF vars
<1>2. ASSUME NEW s \in Sessions, Open(s) PROVE SessionInv'
  <2>1. \A j \in Jobs : Owner[j] = s => sjob[j] = "NONE" /\ state[j] = "IDLE"
    BY <1>2 DEF Open, SessionInv, ClosedIsEmpty, ReachInv, CallFresh
  <2>2. \A j \in Jobs : session'[Owner[j]] = IF Owner[j] = s THEN "open" ELSE session[Owner[j]]
    BY <1>2, <1>a, <1>c DEF Open
  <2>3. UNCHANGED <<state, valid, sjob, bh, bh_curr, outcome>>
    BY <1>2 DEF Open
  <2>4. LiveJobsBacked' /\ EndedJobsOwed' /\ ClosedIsEmpty'
    BY <2>1, <2>2, <2>3 DEF SessionInv, LiveJobsBacked, EndedJobsOwed, ClosedIsEmpty
  <2>5. CursorDelivered' /\ NoLostCompletion'
    BY <2>3 DEF SessionInv, CursorDelivered, NoLostCompletion
  <2> QED
    BY <2>4, <2>5 DEF SessionInv
<1>3. ASSUME NEW s \in Sessions, ReleaseCancel(s) PROVE SessionInv'
  <2> DEFINE own == {j \in Pending \cup Scheduled : /\ session[Owner[j]] # "destroyed"
                                                    /\ UserPid[Owner[j]] = UserPid[s]}
  <2>1. PICK stale : InvalidateJobs(stale \cup own)
    BY <1>3 DEF ReleaseCancel
  <2>2. session[s] = "open" /\ session' = [session EXCEPT ![s] = "cancelled"]
    BY <1>3 DEF ReleaseCancel
  <2>3. \A j \in Jobs : Owner[j] = s /\ state[j] \in {"PENDING", "SCHED"} => j \in own
    BY <2>2 DEF Pending, Scheduled
  <2>4. \A j \in Jobs : session'[Owner[j]] = IF Owner[j] = s THEN "cancelled" ELSE session[Owner[j]]
    BY <2>2, <1>a, <1>c
  <2> HIDE DEF own
  <2>5. \A j \in Jobs : \/ state'[j] = state[j] /\ valid'[j] = valid[j]
                        \/ state[j] = "SCHED" /\ state'[j] = "SCHED" /\ valid'[j] = 0
                        \/ state[j] = "PENDING" /\ state'[j] = "FREED" /\ valid'[j] = valid[j]
    BY <2>1, InvalidateEffect
  <2>6. \A j \in Jobs : j \in own =>
          state'[j] # "PENDING" /\ ~(state'[j] = "SCHED" /\ valid'[j] = 1)
    BY <2>1, InvalidateAll
  <2>7. UNCHANGED <<sjob, bh, bh_curr, outcome>>
    BY <1>3 DEF ReleaseCancel
  <2>8. LiveJobsBacked'
    BY <2>3, <2>4, <2>5, <2>6, <2>7 DEF SessionInv, LiveJobsBacked
  <2>9. EndedJobsOwed' /\ CursorDelivered' /\ ClosedIsEmpty'
    BY <2>4, <2>5, <2>7 DEF SessionInv, EndedJobsOwed, CursorDelivered, ClosedIsEmpty
  <2>10. NoLostCompletion'
    BY <2>5, <2>7 DEF SessionInv, NoLostCompletion, DeviceInv, EndFlagMatchesDevice
  <2> QED
    BY <2>8, <2>9, <2>10 DEF SessionInv
<1>4. ASSUME NEW s \in Sessions, ReleaseDeleteJobs(s) PROVE SessionInv'
  <2>1. session[s] = "cancelled" /\ UNCHANGED <<state, valid, bh, bh_curr, outcome>>
    BY <1>4 DEF ReleaseDeleteJobs
  <2>2. \A j \in Jobs : sjob'[j] = IF Owner[j] = s /\ sjob[j] \in {"ACTIVE", "END"}
                                    THEN "FREED" ELSE sjob[j]
    BY <1>4 DEF ReleaseDeleteJobs
  <2>3. \A j \in Jobs : session'[Owner[j]] = IF Owner[j] = s THEN "jobs_deleted" ELSE session[Owner[j]]
    BY <1>4, <1>a, <1>c DEF ReleaseDeleteJobs
  <2>4. bh = "relock" => bh_curr \in Jobs
    BY <1>b DEF ReachInv, CursorEnded
  <2>5. LiveJobsBacked' /\ EndedJobsOwed'
    BY <2>1, <2>2, <2>3 DEF SessionInv, LiveJobsBacked, EndedJobsOwed
  <2>6. CursorDelivered' /\ ClosedIsEmpty' /\ NoLostCompletion'
    BY <2>1, <2>2, <2>3, <2>4 DEF SessionInv, CursorDelivered, ClosedIsEmpty, NoLostCompletion
  <2> QED
    BY <2>5, <2>6 DEF SessionInv
<1>5. ASSUME NEW s \in Sessions, NEW to \in {"buffers_freed", "destroyed"},
             session[s] # "open", session' = [session EXCEPT ![s] = to],
             UNCHANGED <<state, valid, sjob, bh, bh_curr, outcome>>
      PROVE  SessionInv'
  <2>1. \A j \in Jobs : session'[Owner[j]] = IF Owner[j] = s THEN to ELSE session[Owner[j]]
    BY <1>5, <1>a, <1>c
  <2>2. LiveJobsBacked' /\ EndedJobsOwed' /\ ClosedIsEmpty'
    BY <1>5, <2>1 DEF SessionInv, LiveJobsBacked, EndedJobsOwed, ClosedIsEmpty
  <2>3. CursorDelivered' /\ NoLostCompletion'
    BY <1>5 DEF SessionInv, CursorDelivered, NoLostCompletion
  <2> QED
    BY <2>2, <2>3 DEF SessionInv
<1>6. ASSUME NEW s \in Sessions, ReleaseFreeBuffers(s) \/ ReleaseDestroy(s) PROVE SessionInv'
  BY <1>5, <1>6 DEF ReleaseFreeBuffers, ReleaseDestroy
<1>7. ASSUME NEW R, GetJobStatus(R), \A j \in R : j \in Jobs /\ sjob[j] = "END"
      PROVE  SessionInv'
  <2>1. \A j \in Jobs : sjob'[j] = IF j \in R THEN "FREED" ELSE sjob[j]
    BY <1>7 DEF GetJobStatus
  <2>2. UNCHANGED <<state, valid, session, bh, bh_curr, outcome>>
    BY <1>7 DEF GetJobStatus
  <2>3. bh = "relock" => bh_curr \in Jobs
    BY <1>b DEF ReachInv, CursorEnded
  <2>4. LiveJobsBacked' /\ EndedJobsOwed'
    BY <1>7, <2>1, <2>2 DEF SessionInv, LiveJobsBacked, EndedJobsOwed
  <2>5. CursorDelivered' /\ ClosedIsEmpty' /\ NoLostCompletion'
    BY <1>7, <2>1, <2>2, <2>3 DEF SessionInv, CursorDelivered, ClosedIsEmpty, NoLostCompletion
  <2> QED
    BY <2>4, <2>5 DEF SessionInv
<1>8. ASSUME NEW s \in Sessions, NEW id \in JobIds, QuerySingle(s, id) PROVE SessionInv'
  BY <1>7, <1>8 DEF QuerySingle, EndJobs
<1>9. ASSUME NEW s \in Sessions, NEW n \in 1..MaxCnt, QueryAll(s, n) PROVE SessionInv'
  BY <1>7, <1>9 DEF QueryAll, EndJobs
<1>10. ASSUME NEW t \in Threads, NEW j \in Jobs, SessionAddJob(t, j) PROVE SessionInv'
  <2>1. sjob[j] = "NONE" /\ session[Owner[j]] = "open" /\ state[j] = "IDLE"
    BY <1>10 DEF SessionAddJob, ReachInv, CallFresh
  <2>2. \A k \in Jobs : sjob'[k] = IF k = j THEN "ACTIVE" ELSE sjob[k]
    BY <1>10, <1>b DEF SessionAddJob
  <2>3. UNCHANGED <<state, valid, session, bh, bh_curr, outcome>>
    BY <1>10 DEF SessionAddJob
  <2>4. bh = "relock" => bh_curr \in Jobs /\ bh_curr # j
    BY <1>b, <2>1 DEF ReachInv, CursorEnded
  <2>5. LiveJobsBacked' /\ EndedJobsOwed'
    BY <2>1, <2>2, <2>3 DEF SessionInv, LiveJobsBacked, EndedJobsOwed
  <2>6. CursorDelivered' /\ ClosedIsEmpty' /\ NoLostCompletion'
    BY <2>1, <2>2, <2>3, <2>4 DEF SessionInv, CursorDelivered, ClosedIsEmpty, NoLostCompletion
  <2> QED
    BY <2>5, <2>6 DEF SessionInv
<1>11. ASSUME NEW t \in Threads, ScheduleNewJob(t) PROVE SessionInv'
  <2> DEFINE st == [state EXCEPT ![call[t]] = "PENDING"]
             bf == [before EXCEPT ![call[t]] = Pending]
  <2>1. st \in [Jobs -> JobState] /\ bf \in [Jobs -> SUBSET Jobs]
    BY <1>b DEF Pending, JobState
  <2>2. SchedulePending(st, bf, sched_num)
    BY <1>11 DEF ScheduleNewJob
  <2>3. /\ call[t] \in Jobs /\ state[call[t]] = "IDLE"
        /\ sjob[call[t]] = "ACTIVE" /\ session[Owner[call[t]]] = "open"
    BY <1>11 DEF ScheduleNewJob, ReachInv, CallFresh, TypeOK
  <2>4. \A j \in Jobs : st[j] = IF j = call[t] THEN "PENDING" ELSE state[j]
    BY <1>b, <2>3
  <2> HIDE DEF st, bf
  <2>5. \A j \in Jobs : \/ state'[j] = st[j]
                        \/ st[j] = "PENDING" /\ state'[j] = "SCHED"
    BY <2>1, <2>2, ScheduleEffect
  <2>6. UNCHANGED <<valid, sjob, session, bh, bh_curr, outcome>>
    BY <1>11 DEF ScheduleNewJob
  <2>7. LiveJobsBacked'
    BY <2>3, <2>4, <2>5, <2>6 DEF SessionInv, LiveJobsBacked
  <2>8. EndedJobsOwed' /\ NoLostCompletion'
    BY <2>4, <2>5, <2>6 DEF SessionInv, EndedJobsOwed, NoLostCompletion
  <2>9. CursorDelivered' /\ ClosedIsEmpty'
    BY <2>6 DEF SessionInv, CursorDelivered, ClosedIsEmpty
  <2> QED
    BY <2>7, <2>8, <2>9 DEF SessionInv
<1>12. ASSUME NEW t \in Threads, ScheduleNewJobNoMem(t) PROVE SessionInv'
  BY <1>12, SessionFrame DEF ScheduleNewJobNoMem
<1>13. ASSUME NEW t \in Threads, NEW id \in JobIds, KillTimeoutJob(t, id) PROVE SessionInv'
  <2>1. PICK S : InvalidateJobs(S)
    BY <1>13 DEF KillTimeoutJob
  <2>2. UNCHANGED <<sjob, session, bh, bh_curr, outcome>>
    BY <1>13 DEF KillTimeoutJob
  <2>3. \A j \in Jobs : \/ state'[j] = state[j] /\ valid'[j] = valid[j]
                        \/ state[j] = "SCHED" /\ state'[j] = "SCHED" /\ valid'[j] = 0
                        \/ state[j] = "PENDING" /\ state'[j] = "FREED" /\ valid'[j] = valid[j]
    BY <2>1, InvalidateEffect
  <2> QED
    BY <2>2, <2>3, SessionFrame
<1>14. ASSUME NEW out \in Outcomes, HwFinish(out) PROVE SessionInv'
  <2>1. hw_job \in Jobs /\ state[hw_job] = "SCHED"
    BY <1>14 DEF HwFinish, DeviceInv, HwRunsSched, TypeOK
  <2>2. \A j \in Jobs : outcome'[j] = outcome[j] \/ state[j] = "SCHED"
    BY <1>14, <2>1 DEF HwFinish, TypeOK
  <2>3. UNCHANGED <<state, valid, sjob, session, bh, bh_curr>>
    BY <1>14 DEF HwFinish
  <2> QED
    BY <2>2, <2>3, SessionFrame
<1>15. CASE HwSettle
  BY <1>15, SessionFrame DEF HwSettle
<1>16. CASE UhUpdateJobState
  <2> DEFINE st == [j \in Jobs |-> IF j \in IrqJob THEN "END" ELSE state[j]]
             num == IF IrqJob # {} /\ sched_num # 0 THEN sched_num - 1 ELSE sched_num
  <2>1. st \in [Jobs -> JobState]
    BY <1>b DEF JobState
  <2>2. SchedulePending(st, before, num)
    BY <1>16 DEF UhUpdateJobState
  <2>3. \A j \in Jobs : st[j] = state[j] \/ (state[j] = "SCHED" /\ st[j] = "END")
    <3>1. \A j \in IrqJob : state[j] = "SCHED"
      BY DEF IrqJob, Running
    <3>2. \A j \in Jobs : st[j] = IF j \in IrqJob THEN "END" ELSE state[j]
      OBVIOUS
    <3> HIDE DEF st
    <3> QED
      BY <3>1, <3>2
  <2> HIDE DEF st, num
  <2>4. \A j \in Jobs : \/ state'[j] = st[j]
                        \/ st[j] = "PENDING" /\ state'[j] = "SCHED"
    BY <1>b, <2>1, <2>2, ScheduleEffect
  <2>5. \A j \in Jobs : \/ state'[j] = state[j]
                        \/ state[j] = "PENDING" /\ state'[j] = "SCHED"
                        \/ state[j] = "SCHED" /\ state'[j] = "END"
    BY <2>3, <2>4
  <2>6. UNCHANGED <<valid, sjob, session, bh, bh_curr, outcome>>
    BY <1>16 DEF UhUpdateJobState
  <2> QED
    BY <2>5, <2>6, SessionFrame
<1>17. CASE UhScheduleWork
  BY <1>17, SessionFrame DEF UhScheduleWork
<1>18. ASSUME NEW st \in [Jobs -> JobState], NEW L \in SUBSET Jobs, BhLoop(st, L),
              UNCHANGED <<valid, sjob, session, outcome>>,
              \A j \in Jobs : \/ st[j] = state[j]
                              \/ state[j] = "END" /\ st[j] = "FREED" /\ sjob[j] # "ACTIVE",
              bh = "relock" => st[bh_curr] # "END"
       PROVE  SessionInv'
  <2>1. \A j \in Jobs : \/ state'[j] = st[j]
                        \/ st[j] = "END" /\ state'[j] = "FREED" /\ valid[j] # 1
    BY <1>18, BhLoopEffect
  <2>2. bh' # "relock"
    BY <1>18, BhLoopEffect
  <2>3. LiveJobsBacked'
    BY <1>18, <2>1 DEF SessionInv, LiveJobsBacked
  <2>4. EndedJobsOwed'
    BY <1>18, <2>1 DEF SessionInv, EndedJobsOwed
  <2>5. CursorDelivered' /\ ClosedIsEmpty'
    BY <1>18, <2>2 DEF SessionInv, CursorDelivered, ClosedIsEmpty
  <2>6. NoLostCompletion'
    BY <1>18, <2>1 DEF SessionInv, NoLostCompletion
  <2> QED
    BY <2>3, <2>4, <2>5, <2>6 DEF SessionInv
<1>19. CASE BhScan
  <2>1. Scheduled \in SUBSET Jobs
    BY DEF Scheduled
  <2> QED
    BY <1>18, <1>19, <1>b, <2>1 DEF BhScan
<1>20. CASE BhStart
  <2>1. UNCHANGED <<state, valid, sjob, session, bh_curr, outcome>> /\ bh = "idle" /\ bh' = "scan"
    BY <1>20 DEF BhStart
  <2>2. LiveJobsBacked' /\ EndedJobsOwed'
    BY <2>1 DEF SessionInv, LiveJobsBacked, EndedJobsOwed
  <2>3. CursorDelivered' /\ ClosedIsEmpty' /\ NoLostCompletion'
    BY <2>1 DEF SessionInv, CursorDelivered, ClosedIsEmpty, NoLostCompletion
  <2> QED
    BY <2>2, <2>3 DEF SessionInv
<1>21. CASE BhSessionJobDone
  <2>1. bh_curr \in Jobs /\ state[bh_curr] = "END" /\ bh = "call"
    BY <1>21, <1>b DEF BhSessionJobDone, ReachInv, CursorEnded
  <2>2. \A j \in Jobs : sjob'[j] = IF j = bh_curr /\ sjob[j] = "ACTIVE" THEN "END" ELSE sjob[j]
    BY <1>21, <1>b, <2>1 DEF BhSessionJobDone
  <2>3. UNCHANGED <<state, valid, session, bh_curr, outcome>> /\ bh' = "relock"
    BY <1>21 DEF BhSessionJobDone
  <2>4. LiveJobsBacked' /\ EndedJobsOwed'
    BY <2>1, <2>2, <2>3 DEF SessionInv, LiveJobsBacked, EndedJobsOwed
  <2>5. CursorDelivered' /\ ClosedIsEmpty' /\ NoLostCompletion'
    BY <2>1, <2>2, <2>3 DEF SessionInv, CursorDelivered, ClosedIsEmpty, NoLostCompletion
  <2> QED
    BY <2>4, <2>5 DEF SessionInv
<1>22. CASE BhRelock
  <2> DEFINE st == [state EXCEPT ![bh_curr] = "FREED"]
  <2>1. st \in [Jobs -> JobState] /\ BhRest \in SUBSET Jobs
    BY <1>b DEF BhRest, Scheduled, JobState
  <2>2. BhLoop(st, BhRest) /\ UNCHANGED <<valid, sjob, session, outcome>>
    BY <1>22 DEF BhRelock
  <2>3. bh_curr \in Jobs /\ state[bh_curr] = "END" /\ sjob[bh_curr] # "ACTIVE"
    BY <1>22, <1>b DEF BhRelock, ReachInv, CursorEnded, SessionInv, CursorDelivered
  <2>4. \A j \in Jobs : st[j] = IF j = bh_curr THEN "FREED" ELSE state[j]
    BY <1>b
  <2> HIDE DEF st
  <2> QED
    BY <1>18, <2>1, <2>2, <2>3, <2>4
<1>23. CASE Finished
  BY <1>1, <1>23 DEF Finished
<1> QED
  BY <1>1, <1>2, <1>3, <1>4, <1>6, <1>8, <1>9, <1>10, <1>11, <1>12, <1>13, <1>14,
     <1>15, <1>16, <1>17, <1>19, <1>20, <1>21, <1>22, <1>23
     DEF Next, User, Device, BottomHalf

\* The agreement holds in every reachable state.
LEMMA SessionInvariant == Spec => []SessionInv
<1>1. Init => SessionInv
  BY ConstantsAssumption DEF Init, SessionInv, LiveJobsBacked, EndedJobsOwed, CursorDelivered,
                             ClosedIsEmpty, NoLostCompletion
<1> QED
  BY <1>1, SessionStep, DeviceInvariant, ReachInvariant, TypeCorrect, PTL DEF Spec

\* aipu_release withdraws everything that could still start or be reported as
\* running: such a job has its session_job and an open session.
THEOREM ReleaseWithdrawsJobs == Spec => []LiveJobsBacked
<1>1. SessionInv => LiveJobsBacked
  BY DEF SessionInv
<1> QED
  BY <1>1, SessionInvariant, PTL

\* While its session is open, the session_job that the bottom half hands to
\* aipu_session_job_done exists and has not been ended before.
THEOREM JobDoneOnce == Spec => []BhCallTargetActive
<1>1. TypeOK /\ ReachInv /\ SessionInv => BhCallTargetActive
  BY ConstantsAssumption DEF TypeOK, ReachInv, CursorEnded, SessionInv, EndedJobsOwed, BhCallTargetActive
<1> QED
  BY <1>1, SessionInvariant, ReachInvariant, TypeCorrect, PTL

\* A job that ran and was not cancelled leaves the manager only after its session
\* was told.
THEOREM CompletionsDelivered == Spec => []NoLostCompletion
<1>1. SessionInv => NoLostCompletion
  BY DEF SessionInv
<1> QED
  BY <1>1, SessionInvariant, PTL

-----------------------------------------------------------------------------
(* The job manager implements the abstract sessions of AipuSession.        *)

Phases == Kernel!Phases

\* The phase of a job, from its session_job, its aipu_job and its valid flag.
PhaseOf(sj, st, v) ==
    IF sj = "NONE" THEN "none"
    ELSE IF sj = "END" THEN "end"
    ELSE IF sj = "FREED" THEN "gone"
    ELSE IF st = "IDLE" THEN "listed"
    ELSE IF st = "PENDING" THEN "queued"
    ELSE IF st = "SCHED" /\ v = 1 THEN "running"
    ELSE IF st = "SCHED" /\ v = 0 THEN "stale"
    ELSE IF st = "END" /\ v = 1 THEN "late"
    ELSE "dead"

\* A job is in one of the phases of the abstract session.
LEMMA PhaseTyped ==
  ASSUME NEW sj, NEW st, NEW v
  PROVE  PhaseOf(sj, st, v) \in Phases
BY DEF PhaseOf, Phases, Kernel!Phases

\* JobPhase is that function of the state.
LEMMA PhaseForm ==
  ASSUME TypeOK, TypeOK'
  PROVE  /\ JobPhase = [j \in Jobs |-> PhaseOf(sjob[j], state[j], valid[j])]
         /\ JobPhase' = [j \in Jobs |-> PhaseOf(sjob'[j], state'[j], valid'[j])]
<1>1. \A j \in Jobs : /\ sjob[j] \in {"NONE", "ACTIVE", "END", "FREED"}
                      /\ sjob'[j] \in {"NONE", "ACTIVE", "END", "FREED"}
  BY DEF TypeOK
<1>2. \A j \in Jobs :
        (CASE sjob[j] = "NONE"   -> "none"
           [] sjob[j] = "ACTIVE" -> LinkedPhase(j)
           [] sjob[j] = "END"    -> "end"
           [] sjob[j] = "FREED"  -> "gone") = PhaseOf(sjob[j], state[j], valid[j])
  BY <1>1 DEF LinkedPhase, PhaseOf
<1>3. \A j \in Jobs :
        (CASE sjob'[j] = "NONE"   -> "none"
           [] sjob'[j] = "ACTIVE" -> LinkedPhase(j)'
           [] sjob'[j] = "END"    -> "end"
           [] sjob'[j] = "FREED"  -> "gone") = PhaseOf(sjob'[j], state'[j], valid'[j])
  BY <1>1 DEF LinkedPhase, PhaseOf
<1> QED
  BY <1>2, <1>3 DEF JobPhase

\* Functions that agree everywhere, or but for one or two jobs.
LEMMA AllSame ==
  ASSUME NEW p \in [Jobs -> Phases], NEW q \in [Jobs -> Phases], \A k \in Jobs : q[k] = p[k]
  PROVE  q = p
OBVIOUS

\* A step in which one job changes its phase.
LEMMA OneMoves ==
  ASSUME NEW p \in [Jobs -> Phases], NEW q \in [Jobs -> Phases], NEW j \in Jobs, NEW x,
         \A k \in Jobs : q[k] = IF k = j THEN x ELSE p[k]
  PROVE  q = [p EXCEPT ![j] = x]
OBVIOUS

\* A step in which two do.
LEMMA TwoMove ==
  ASSUME NEW p \in [Jobs -> Phases], NEW q \in [Jobs -> Phases], NEW i \in Jobs, NEW j \in Jobs,
         NEW x, NEW y,
         \A k \in Jobs : q[k] = IF k = j THEN y ELSE IF k = i THEN x ELSE p[k]
  PROVE  q = [p EXCEPT ![i] = x, ![j] = y]
OBVIOUS

\* Invalidating jobs is cancelling them.
LEMMA CancelRefines ==
  ASSUME TypeOK, TypeOK', NEW S, InvalidateJobs(S), sjob' = sjob
  PROVE  Kernel!Next
<1>1. /\ JobPhase = [j \in Jobs |-> PhaseOf(sjob[j], state[j], valid[j])]
      /\ JobPhase' = [j \in Jobs |-> PhaseOf(sjob'[j], state'[j], valid'[j])]
  BY PhaseForm
<1>2. PICK C : C = S \cap Jobs
  OBVIOUS
<1>3. \A j \in Jobs :
        PhaseOf(sjob'[j], state'[j], valid'[j]) =
          IF j \in C THEN Kernel!Cancelled(JobPhase[j]) ELSE JobPhase[j]
  <2> SUFFICES ASSUME NEW j \in Jobs
               PROVE  PhaseOf(sjob'[j], state'[j], valid'[j]) =
                        IF j \in C THEN Kernel!Cancelled(JobPhase[j]) ELSE JobPhase[j]
    OBVIOUS
  <2>1. JobPhase[j] = PhaseOf(sjob[j], state[j], valid[j]) /\ sjob'[j] = sjob[j]
    BY <1>1
  <2>2. /\ state'[j] = IF j \in S /\ state[j] = "PENDING" THEN "FREED" ELSE state[j]
        /\ valid'[j] = IF j \in S /\ state[j] = "SCHED" THEN 0 ELSE valid[j]
    BY DEF InvalidateJobs
  <2>3. CASE j \notin C
    BY <1>2, <2>1, <2>2, <2>3
  <2>4. CASE j \in C
    <3>1. j \in S /\ valid[j] \in {0, 1}
      BY <1>2, <2>4 DEF TypeOK
    <3>2. \A p : Kernel!Cancelled(p) = IF p = "queued" THEN "dead"
                                       ELSE IF p = "running" THEN "stale" ELSE p
      BY DEF Kernel!Cancelled
    <3>3. CASE state[j] = "PENDING"
      BY <2>1, <2>2, <2>4, <3>1, <3>2, <3>3 DEF PhaseOf
    <3>4. CASE state[j] = "SCHED"
      BY <2>1, <2>2, <2>4, <3>1, <3>2, <3>4 DEF PhaseOf
    <3>5. CASE state[j] \notin {"PENDING", "SCHED"}
      <4>1. JobPhase[j] # "queued" /\ JobPhase[j] # "running"
        BY <2>1, <3>5 DEF PhaseOf
      <4>2. state'[j] = state[j] /\ valid'[j] = valid[j]
        BY <2>2, <3>5
      <4> QED
        BY <2>1, <2>4, <3>2, <4>1, <4>2
    <3> QED
      BY <3>3, <3>4, <3>5
  <2> QED
    BY <2>3, <2>4
<1>4. JobPhase' = [j \in Jobs |-> IF j \in C THEN Kernel!Cancelled(JobPhase[j]) ELSE JobPhase[j]]
  BY <1>1, <1>3
<1>5. C \in SUBSET Jobs /\ Kernel!Cancel(C)
  BY <1>2, <1>4 DEF Kernel!Cancel
<1> QED
  BY <1>5 DEF Kernel!Next

\* Handing out ended session_jobs is collecting them.
LEMMA CollectRefines ==
  ASSUME TypeOK, TypeOK', NEW R, GetJobStatus(R), \A j \in R : j \in Jobs /\ sjob[j] = "END"
  PROVE  Kernel!Next
<1>1. /\ JobPhase = [j \in Jobs |-> PhaseOf(sjob[j], state[j], valid[j])]
      /\ JobPhase' = [j \in Jobs |-> PhaseOf(sjob'[j], state'[j], valid'[j])]
  BY PhaseForm
<1>2. /\ \A j \in Jobs : sjob'[j] = IF j \in R THEN "FREED" ELSE sjob[j]
      /\ state' = state /\ valid' = valid
  BY DEF GetJobStatus, jobvars
<1>3. \A j \in R : JobPhase[j] = "end"
  BY <1>1 DEF PhaseOf
<1>4. \A j \in Jobs : PhaseOf(sjob'[j], state'[j], valid'[j]) =
                        IF j \in R THEN "gone" ELSE JobPhase[j]
  BY <1>1, <1>2 DEF PhaseOf
<1>5. JobPhase' = [j \in Jobs |-> IF j \in R THEN "gone" ELSE JobPhase[j]]
  BY <1>1, <1>4
<1>6. R \in SUBSET Jobs /\ Kernel!Collect(R)
  BY <1>3, <1>5 DEF Kernel!Collect
<1> QED
  BY <1>6 DEF Kernel!Next

\* Every step of the manager is a step of the abstract sessions or none.
LEMMA SessionStepRefines ==
  TypeOK /\ TypeOK' /\ ReachInv /\ DeviceInv /\ QueueInv /\ SessionInv /\ [Next]_vars
    => [Kernel!Next]_JobPhase
<1> SUFFICES ASSUME TypeOK, TypeOK', ReachInv, DeviceInv, QueueInv, SessionInv, [Next]_vars
             PROVE  Kernel!Next \/ JobPhase' = JobPhase
  OBVIOUS
<1> USE DEF jobvars, sjobvars, hwvars, bhvars
<1>a. /\ state \in [Jobs -> JobState]
      /\ valid \in [Jobs -> {0, 1}]
      /\ before \in [Jobs -> SUBSET Jobs]
      /\ sjob \in [Jobs -> {"NONE", "ACTIVE", "END", "FREED"}]
      /\ bh_curr \in Jobs \cup {NoJob}
  BY DEF TypeOK, JobState
<1>b. /\ JobPhase = [j \in Jobs |-> PhaseOf(sjob[j], state[j], valid[j])]
      /\ JobPhase' = [j \in Jobs |-> PhaseOf(sjob'[j], state'[j], valid'[j])]
  BY PhaseForm
<1>c. /\ JobPhase \in [Jobs -> Phases] /\ JobPhase' \in [Jobs -> Phases]
      /\ \A j \in Jobs : JobPhase[j] = PhaseOf(sjob[j], state[j], valid[j])
      /\ \A j \in Jobs : JobPhase'[j] = PhaseOf(sjob'[j], state'[j], valid'[j])
  BY <1>b, PhaseTyped
<1>d. \A j \in Jobs : JobPhase[j] \in {"running", "stale"} => state[j] = "SCHED"
  BY <1>c DEF PhaseOf
<1>e. \A j \in Jobs : state[j] = "PENDING" => JobPhase[j] = "queued" /\ valid[j] = 1
  BY <1>c DEF PhaseOf, SessionInv, LiveJobsBacked, QueueInv, WaitingIsValid
<1>1. ASSUME UNCHANGED <<sjob, state, valid>> PROVE JobPhase' = JobPhase
  BY <1>1, <1>b
<1>2. ASSUME NEW s \in Sessions, Open(s) PROVE JobPhase' = JobPhase
  BY <1>1, <1>2 DEF Open
<1>3. ASSUME NEW s \in Sessions, ReleaseCancel(s) PROVE Kernel!Next
  BY <1>3, CancelRefines DEF ReleaseCancel
<1>4. ASSUME NEW s \in Sessions, ReleaseDeleteJobs(s) PROVE Kernel!Next
  <2>1. PICK S : S = {j \in Jobs : Owner[j] = s /\ sjob[j] \in {"ACTIVE", "END"}}
    OBVIOUS
  <2>2. /\ \A j \in Jobs : sjob'[j] = IF j \in S THEN "FREED" ELSE sjob[j]
        /\ state' = state /\ valid' = valid /\ session[s] = "cancelled"
    BY <1>4, <2>1 DEF ReleaseDeleteJobs
  <2>3. \A j \in S : JobPhase[j] \in Kernel!Phases \ {"none", "queued", "running", "gone"}
    <3> SUFFICES ASSUME NEW j \in S
                 PROVE  JobPhase[j] \in Kernel!Phases \ {"none", "queued", "running", "gone"}
      OBVIOUS
    <3>1. j \in Jobs /\ Owner[j] = s /\ sjob[j] \in {"ACTIVE", "END"}
      BY <2>1
    <3>2. ~(state[j] = "PENDING" \/ (state[j] = "SCHED" /\ valid[j] = 1))
      BY <2>2, <3>1 DEF SessionInv, LiveJobsBacked
    <3>3. JobPhase[j] = PhaseOf(sjob[j], state[j], valid[j])
      BY <1>c, <3>1
    <3> QED
      BY <3>1, <3>2, <3>3 DEF PhaseOf, Kernel!Phases
  <2>4. \A j \in Jobs : PhaseOf(sjob'[j], state'[j], valid'[j]) =
                          IF j \in S THEN "gone" ELSE JobPhase[j]
    BY <1>c, <2>2 DEF PhaseOf
  <2>5. JobPhase' = [j \in Jobs |-> IF j \in S THEN "gone" ELSE JobPhase[j]]
    BY <1>b, <2>4
  <2>6. S \in SUBSET Jobs /\ Kernel!Close(S)
    BY <2>1, <2>3, <2>5 DEF Kernel!Close
  <2> QED
    BY <2>6 DEF Kernel!Next
<1>5. ASSUME NEW s \in Sessions, ReleaseFreeBuffers(s) \/ ReleaseDestroy(s)
      PROVE  JobPhase' = JobPhase
  BY <1>1, <1>5 DEF ReleaseFreeBuffers, ReleaseDestroy
<1>6. ASSUME NEW s \in Sessions, NEW id \in JobIds, QuerySingle(s, id) PROVE Kernel!Next
  BY <1>6, CollectRefines DEF QuerySingle, EndJobs
<1>7. ASSUME NEW s \in Sessions, NEW n \in 1..MaxCnt, QueryAll(s, n) PROVE Kernel!Next
  BY <1>7, CollectRefines DEF QueryAll, EndJobs
<1>8. ASSUME NEW t \in Threads, NEW j \in Jobs, SessionAddJob(t, j) PROVE Kernel!Next
  <2>1. sjob[j] = "NONE" /\ state[j] = "IDLE" /\ state' = state /\ valid' = valid
    BY <1>8 DEF SessionAddJob, ReachInv, CallFresh
  <2>2. \A k \in Jobs : sjob'[k] = IF k = j THEN "ACTIVE" ELSE sjob[k]
    BY <1>8, <1>a DEF SessionAddJob
  <2>3. \A k \in Jobs : JobPhase'[k] = IF k = j THEN "listed" ELSE JobPhase[k]
    BY <1>c, <2>1, <2>2 DEF PhaseOf
  <2>4. JobPhase[j] = "none"
    BY <1>c, <2>1 DEF PhaseOf
  <2>5. JobPhase' = [JobPhase EXCEPT ![j] = "listed"]
    BY <1>c, <2>3, OneMoves
  <2> QED
    BY <2>4, <2>5 DEF Kernel!Next, Kernel!List
<1>9. ASSUME NEW t \in Threads, ScheduleNewJob(t) PROVE Kernel!Next
  <2>1. PICK c \in Jobs : c = call[t] /\ state[c] = "IDLE" /\ sjob[c] = "ACTIVE"
    BY <1>9 DEF ScheduleNewJob, ReachInv, CallFresh, TypeOK
  <2>2. PICK st, bf : st = [state EXCEPT ![c] = "PENDING"] /\ SchedulePending(st, bf, sched_num)
    BY <1>9, <2>1 DEF ScheduleNewJob
  <2>3. \A k \in Jobs : st[k] = IF k = c THEN "PENDING" ELSE state[k]
    BY <1>a, <2>2
  <2>4. sjob' = sjob /\ valid' = valid /\ valid[c] = 1
    BY <1>9, <2>1 DEF ScheduleNewJob, QueueInv, WaitingIsValid
  <2>5. JobPhase[c] = "listed"
    BY <1>c, <2>1 DEF PhaseOf
  <2>6. CASE state' = st
    <3>1. \A k \in Jobs : JobPhase'[k] = IF k = c THEN "queued" ELSE JobPhase[k]
      BY <1>c, <2>1, <2>3, <2>4, <2>6 DEF PhaseOf
    <3>2. JobPhase' = [JobPhase EXCEPT ![c] = "queued"]
      BY <1>c, <3>1, OneMoves
    <3> QED
      BY <2>5, <3>2 DEF Kernel!Next, Kernel!Queue
  <2>7. ASSUME NEW i \in Jobs, st[i] = "PENDING", state' = [st EXCEPT ![i] = "SCHED"],
               sched_num < 1
        PROVE  Kernel!Next
    <3>1. \A k \in Jobs : state[k] # "SCHED"
      BY <2>7 DEF DeviceInv, OneSched
    <3>2. Kernel!DeviceFree
      BY <1>d, <3>1 DEF Kernel!DeviceFree
    <3>3. st \in [Jobs -> JobState]
      BY <1>a, <2>2 DEF JobState
    <3>4. \A k \in Jobs : state'[k] = IF k = i THEN "SCHED" ELSE st[k]
      BY <2>7, <3>3
    <3>5. i = c \/ (JobPhase[i] = "queued" /\ valid[i] = 1 /\ sjob[i] = "ACTIVE")
      BY <1>e, <2>3, <2>7 DEF SessionInv, LiveJobsBacked
    <3>6. \A k \in Jobs : JobPhase'[k] =
            IF k = i THEN "running" ELSE IF k = c THEN "queued" ELSE JobPhase[k]
      BY <1>c, <2>1, <2>3, <2>4, <3>4, <3>5 DEF PhaseOf
    <3>7. JobPhase' = [JobPhase EXCEPT ![c] = "queued", ![i] = "running"]
      BY <1>c, <3>6, TwoMove
    <3>8. Kernel!QueueAndStart(c, i)
      BY <2>5, <3>2, <3>5, <3>7 DEF Kernel!QueueAndStart
    <3> QED
      BY <3>8 DEF Kernel!Next
  <2> QED
    BY <2>2, <2>6, <2>7, ScheduleCases
<1>10. ASSUME NEW t \in Threads, ScheduleNewJobNoMem(t) PROVE JobPhase' = JobPhase
  BY <1>1, <1>10 DEF ScheduleNewJobNoMem
<1>11. ASSUME NEW t \in Threads, NEW id \in JobIds, KillTimeoutJob(t, id) PROVE Kernel!Next
  BY <1>11, CancelRefines DEF KillTimeoutJob
<1>12. ASSUME NEW out \in Outcomes, HwFinish(out) PROVE JobPhase' = JobPhase
  BY <1>1, <1>12 DEF HwFinish
<1>13. CASE HwSettle
  BY <1>1, <1>13 DEF HwSettle
<1>14. ASSUME UhUpdateJobState PROVE Kernel!Next \/ JobPhase' = JobPhase
  <2>1. PICK st, num : /\ st = [j \in Jobs |-> IF j \in IrqJob THEN "END" ELSE state[j]]
                       /\ SchedulePending(st, before, num)
    BY <1>14 DEF UhUpdateJobState
  <2>2. PICK r \in Jobs : state[r] = "SCHED" /\ IrqJob = {r}
    <3>1. PICK r \in Jobs : state[r] = "SCHED"
      BY <1>14 DEF UhUpdateJobState, ClearIrq, DeviceInv, HwRunsSched
    <3>2. Running = {r}
      BY <3>1 DEF DeviceInv, OneSched, Running
    <3>3. IrqJob = {r}
      BY <3>1, <3>2 DEF IrqJob, IsFirst, DeviceInv, NotBeforeItself
    <3> QED
      BY <3>1, <3>3
  <2>3. \A k \in Jobs : st[k] = IF k = r THEN "END" ELSE state[k]
    BY <2>1, <2>2
  <2>4. \A k \in Jobs : state[k] = "SCHED" => k = r
    BY <2>2 DEF DeviceInv, OneSched
  <2>5. sjob' = sjob /\ valid' = valid /\ valid[r] \in {0, 1}
    BY <1>14, <1>a DEF UhUpdateJobState
  <2>6. \/ JobPhase[r] \in {"running", "stale"}
           /\ PhaseOf(sjob[r], "END", valid[r]) = Kernel!Ended(JobPhase[r])
        \/ JobPhase[r] \notin {"running", "stale"}
           /\ PhaseOf(sjob[r], "END", valid[r]) = JobPhase[r]
    <3>1. JobPhase[r] = PhaseOf(sjob[r], "SCHED", valid[r])
      BY <1>c, <2>2
    <3> QED
      BY <1>a, <2>5, <3>1 DEF PhaseOf, Kernel!Ended
  <2>7. PICK x : x = PhaseOf(sjob[r], "END", valid[r])
    OBVIOUS
  <2>8. CASE state' = st
    <3>1. \A k \in Jobs : JobPhase'[k] = IF k = r THEN x ELSE JobPhase[k]
      BY <1>c, <2>3, <2>5, <2>7, <2>8
    <3>2. JobPhase' = [JobPhase EXCEPT ![r] = x]
      BY <1>c, <3>1, OneMoves
    <3>3. CASE JobPhase[r] \in {"running", "stale"}
      <4>1. JobPhase' = [JobPhase EXCEPT ![r] = Kernel!Ended(@)]
        BY <1>c, <2>6, <2>7, <3>2, <3>3
      <4> QED
        BY <3>3, <4>1 DEF Kernel!Next, Kernel!Finish
    <3>4. CASE JobPhase[r] \notin {"running", "stale"}
      <4>1. \A k \in Jobs : JobPhase'[k] = JobPhase[k]
        BY <2>6, <2>7, <3>1, <3>4
      <4> QED
        BY <1>c, <4>1, AllSame
    <3> QED
      BY <3>3, <3>4
  <2>9. ASSUME NEW i \in Jobs, st[i] = "PENDING", state' = [st EXCEPT ![i] = "SCHED"]
        PROVE  Kernel!Next
    <3>1. i # r /\ state[i] = "PENDING"
      BY <2>2, <2>3, <2>9
    <3>2. JobPhase[i] = "queued" /\ valid[i] = 1 /\ sjob[i] = "ACTIVE"
      BY <1>e, <3>1 DEF SessionInv, LiveJobsBacked
    <3>3. st \in [Jobs -> JobState]
      BY <1>a, <2>1 DEF JobState
    <3>4. \A k \in Jobs : state'[k] = IF k = i THEN "SCHED" ELSE st[k]
      BY <2>9, <3>3
    <3>5. PhaseOf("ACTIVE", "SCHED", 1) = "running"
      BY DEF PhaseOf
    <3>6. \A k \in Jobs : JobPhase'[k] =
            IF k = i THEN "running" ELSE IF k = r THEN x ELSE JobPhase[k]
      BY <1>c, <2>3, <2>5, <2>7, <3>1, <3>2, <3>4, <3>5
    <3>7. CASE JobPhase[r] \in {"running", "stale"}
      <4>1. JobPhase' = [JobPhase EXCEPT ![r] = x, ![i] = "running"]
        BY <1>c, <3>6, TwoMove
      <4>2. JobPhase' = [JobPhase EXCEPT ![r] = Kernel!Ended(@), ![i] = "running"]
        BY <1>c, <2>6, <2>7, <3>7, <4>1
      <4>3. Kernel!Finish(r)
        BY <3>2, <3>7, <4>2 DEF Kernel!Finish
      <4> QED
        BY <4>3 DEF Kernel!Next
    <3>8. CASE JobPhase[r] \notin {"running", "stale"}
      <4>1. \A k \in Jobs : JobPhase'[k] = IF k = i THEN "running" ELSE JobPhase[k]
        BY <2>6, <2>7, <3>6, <3>8
      <4>2. JobPhase' = [JobPhase EXCEPT ![i] = "running"]
        BY <1>c, <4>1, OneMoves
      <4>3. Kernel!DeviceFree
        BY <1>d, <2>4, <3>8 DEF Kernel!DeviceFree
      <4>4. Kernel!Start(i)
        BY <3>2, <4>2, <4>3 DEF Kernel!Start
      <4> QED
        BY <4>4 DEF Kernel!Next
    <3> QED
      BY <3>7, <3>8
  <2> QED
    BY <2>1, <2>8, <2>9, ScheduleCases
<1>15. CASE UhScheduleWork
  BY <1>1, <1>15 DEF UhScheduleWork
<1>16. CASE BhStart
  BY <1>1, <1>16 DEF BhStart
<1>17. ASSUME NEW st \in [Jobs -> JobState], NEW L \in SUBSET Jobs, BhLoop(st, L),
              valid' = valid, sjob' = sjob,
              \A j \in Jobs : \/ st[j] = state[j]
                              \/ state[j] = "END" /\ st[j] = "FREED" /\ sjob[j] # "ACTIVE"
       PROVE  JobPhase' = JobPhase
  <2>1. \A j \in Jobs : \/ state'[j] = st[j]
                        \/ st[j] = "END" /\ state'[j] = "FREED" /\ valid[j] # 1
    BY <1>17, BhLoopEffect
  <2>2. \A j \in Jobs : JobPhase'[j] = JobPhase[j]
    BY <1>a, <1>c, <1>17, <2>1 DEF PhaseOf
  <2> QED
    BY <1>c, <2>2, AllSame
<1>18. CASE BhScan
  <2>1. Scheduled \in SUBSET Jobs
    BY DEF Scheduled
  <2> QED
    BY <1>17, <1>18, <1>a, <2>1 DEF BhScan
<1>19. ASSUME BhSessionJobDone PROVE Kernel!Next \/ JobPhase' = JobPhase
  <2>1. PICK c \in Jobs : c = bh_curr /\ state[c] = "END" /\ valid[c] = 1
    BY <1>19, <1>a DEF BhSessionJobDone, ReachInv, CursorEnded
  <2>2. \A j \in Jobs : sjob'[j] = IF j = c /\ sjob[j] = "ACTIVE" THEN "END" ELSE sjob[j]
    BY <1>19, <1>a, <2>1 DEF BhSessionJobDone
  <2>3. state' = state /\ valid' = valid
    BY <1>19 DEF BhSessionJobDone
  <2>4. CASE sjob[c] # "ACTIVE"
    <3>1. \A j \in Jobs : JobPhase'[j] = JobPhase[j]
      BY <1>c, <2>2, <2>3, <2>4
    <3> QED
      BY <1>c, <3>1, AllSame
  <2>5. CASE sjob[c] = "ACTIVE"
    <3>1. JobPhase[c] = "late"
      BY <1>c, <2>1, <2>5 DEF PhaseOf
    <3>2. PhaseOf("END", state[c], valid[c]) = "end"
      BY DEF PhaseOf
    <3>3. \A j \in Jobs : JobPhase'[j] = IF j = c THEN "end" ELSE JobPhase[j]
      BY <1>c, <2>2, <2>3, <2>5, <3>2
    <3>4. JobPhase' = [JobPhase EXCEPT ![c] = "end"]
      BY <1>c, <3>3, OneMoves
    <3> QED
      BY <3>1, <3>4 DEF Kernel!Next, Kernel!Deliver
  <2> QED
    BY <2>4, <2>5
<1>20. ASSUME BhRelock PROVE JobPhase' = JobPhase
  <2>1. PICK c \in Jobs : c = bh_curr /\ state[c] = "END" /\ sjob[c] # "ACTIVE"
    BY <1>20, <1>a DEF BhRelock, ReachInv, CursorEnded, SessionInv, CursorDelivered
  <2>2. PICK st : st = [state EXCEPT ![c] = "FREED"] /\ BhLoop(st, BhRest)
    BY <1>20, <2>1 DEF BhRelock
  <2>3. /\ st \in [Jobs -> JobState] /\ BhRest \in SUBSET Jobs
        /\ \A j \in Jobs : st[j] = IF j = c THEN "FREED" ELSE state[j]
    BY <1>a, <2>2 DEF JobState, BhRest, Scheduled
  <2>4. valid' = valid /\ sjob' = sjob
    BY <1>20 DEF BhRelock
  <2> QED
    BY <1>17, <2>1, <2>2, <2>3, <2>4
<1>21. CASE UNCHANGED vars
  BY <1>1, <1>21 DEF vars
<1>22. CASE Finished
  BY <1>21, <1>22 DEF Finished
<1> QED
  BY <1>2, <1>3, <1>4, <1>5, <1>6, <1>7, <1>8, <1>9, <1>10, <1>11, <1>12, <1>13,
     <1>14, <1>15, <1>16, <1>18, <1>19, <1>20, <1>21, <1>22
     DEF Next, User, Device, BottomHalf

\* The queues, the locks and the two interrupt halves give the user of a session
\* what AipuSession promises: a job is delivered at most once and only after the
\* device ended it, a cancelled job never, and one job is on the device at a time.
THEOREM ManagerImplementsSession == Spec => ImplementsSession
<1>1. Init => Kernel!Init
  BY DEF Init, Kernel!Init, JobPhase
<1> QED
  BY <1>1, SessionStepRefines, SessionInvariant, QueueInvariant, DeviceInvariant,
     ReachInvariant, TypeCorrect, PTL DEF Spec, ImplementsSession, Kernel!Spec
=============================================================================
