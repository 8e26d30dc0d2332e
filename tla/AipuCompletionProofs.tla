------------------------- MODULE AipuCompletionProofs -------------------------
(***************************************************************************)
(* Proofs about AipuCompletion, for any number of jobs and threads: the    *)
(* handler ends the job that the device has ended, with the flag of its    *)
(* own end, and no thread sleeps in poll() past the end of its job.        *)
(*                                                                         *)
(* The two invariants do not need each other: HandlerInv relates the       *)
(* status bits, wherever the handler is with them, to the one job that is  *)
(* SCHED, and PollInv puts each waiting thread on the queue that the end of *)
(* its job wakes.                                                          *)
(***************************************************************************)
EXTENDS AipuCompletion, TLAPS, FiniteSetTheorems

-----------------------------------------------------------------------------
(* The interrupt and the job manager.                                      *)

\* The device reports one cause for the end of a job: DONE or EXCEP, not both.
OneCause == \A bits \in Endings : ~("DONE" \in bits /\ "EXCEP" \in bits)

\* The job on the device, or waiting for its end to be noticed, has told bit.
Told(bit) == \E j \in Jobs : state[j] = "SCHED" /\ bit \in how[j]

TypeOK ==
    /\ submitted \in 0 .. MaxJobs
    /\ state \in [Jobs -> {"NONE", "PENDING", "SCHED", "END"}]
    /\ excep \in [Jobs -> BOOLEAN]
    /\ how \in [Jobs -> SUBSET {"DONE", "EXCEP", "FAULT"}]
    /\ hw \in {0} \cup Jobs

\* num counts the SCHED jobs of st, of which there is at most one.
OneSched(st, num) ==
    /\ \A j, k \in Jobs : st[j] = "SCHED" /\ st[k] = "SCHED" => j = k
    /\ \/ num = 0 /\ \A j \in Jobs : st[j] # "SCHED"
       \/ num = 1 /\ \E j \in Jobs : st[j] = "SCHED"

\* The device and the manager: a job runs once, while it is SCHED, and tells one
\* cause when it ends.
DeviceOK ==
    /\ OneSched(state, sched_num)
    /\ hw # 0 => state[hw] = "SCHED" /\ how[hw] = {}
    /\ \A j \in Jobs : state[j] \in {"NONE", "PENDING"} => how[j] = {}
    /\ \A j \in Jobs : j > submitted => state[j] = "NONE"
    /\ \A j \in Jobs : ~("DONE" \in how[j] /\ "EXCEP" \in how[j])

\* A bit in the status register, or in the value the handler has read and not yet
\* dealt with, was told by the job that is SCHED now; and once the handler has
\* cleared it, it is not set again before the manager is called.
SignalsOK ==
    /\ "DONE" \in stat => Told("DONE")
    /\ "EXCEP" \in stat => Told("EXCEP")
    /\ uh \in {"qempty", "done", "update_done"} /\ "DONE" \in ret => Told("DONE")
    /\ uh \in {"qempty", "done", "update_done", "excep", "update_excep"} /\ "EXCEP" \in ret =>
         Told("EXCEP")
    /\ uh = "update_done" /\ "DONE" \in ret => "DONE" \notin stat
    /\ uh = "update_excep" /\ "EXCEP" \in ret => "EXCEP" \notin stat

HandlerInv == TypeOK /\ DeviceOK /\ SignalsOK /\ EndIsTheJobs

-----------------------------------------------------------------------------
(* The session and poll().                                                 *)

\* How the threads of a descriptor may share it: each polls for jobs of its own,
\* or threads that submit none poll for all.
SharedProperly ==
    \A u \in Usages : \/ u.any = {}
                      \/ u.own = {} /\ \A j \in Jobs : Uthread[j] \notin u.any

PollTypeOK ==
    /\ usage \in Usages
    /\ sjob \in [Jobs -> {"none", "active", "dead", "end", "freed"}]
    /\ queues \subseteq Threads
    /\ poll \in [Threads -> {"no", "check", "sleep"}]
    /\ queue \in [Threads -> {"none", "own", "com"}]
    /\ woken \in [Threads -> BOOLEAN]
    /\ single_thread_poll \in BOOLEAN

\* A thread that polls is on the queue that the end of the jobs it waits for wakes.
OnItsQueue ==
    /\ \A j \in Jobs : sjob[j] # "none" => Uthread[j] \in queues
    /\ usage.any = {} => \A t \in Threads : poll[t] # "no" =>
         queue[t] = "own" /\ single_thread_poll /\ P!Own(t) # {}
    /\ usage.any # {} => /\ single_thread_poll = FALSE
                         /\ \A t \in Threads : poll[t] # "no" =>
                              queue[t] = "com" /\ t \in usage.any

PollInv == PollTypeOK /\ OnItsQueue /\ P!NoLostWakeup

-----------------------------------------------------------------------------
(* The steps of the manager, the device and the handler.                   *)

\* A set of numbers that is not empty has a least member.
LEMMA LeastNat ==
  ASSUME NEW T, T \subseteq Nat, T # {}
  PROVE  \E x \in T : \A y \in T : x <= y
<1> DEFINE R == StrictSubsetOrdering(Nat)
           F == FiniteSubsetsOf(Nat)
           I == {1 .. n : n \in T}
<1>1. IsWellFoundedOn(R, F)
  BY FS_StrictSubsetOrderingWellFounded
<1>2. I # {}
  OBVIOUS
<1>3. \A n \in Nat : IsFiniteSet(1 .. n)
  BY FS_Interval
<1>4. I \subseteq F
  BY <1>3 DEF FiniteSubsetsOf
<1>5. PICK X \in I : \A Y \in I : <<Y, X>> \notin R
  <2> HIDE DEF I, F, R
  <2> QED BY <1>1, <1>2, <1>4, WFMin
<1>6. PICK x \in T : X = 1 .. x
  OBVIOUS
<1>7. ASSUME NEW y \in T, y < x PROVE FALSE
  <2>1. 1 .. y \subseteq 1 .. x /\ x \in 1 .. x /\ x \notin 1 .. y
    BY <1>7
  <2>2. <<1 .. y, 1 .. x>> \in R
    BY <2>1, <1>6 DEF StrictSubsetOrdering
  <2> QED
    BY <2>2, <1>5, <1>6
<1> QED BY <1>7

JobStates == {"NONE", "PENDING", "SCHED", "END"}

\* Jobs are positive numbers.
LEMMA JobsNat == MaxJobs \in Nat /\ Jobs \subseteq Nat /\ 0 \notin Jobs
BY UpperHalfAssumption DEF Jobs

\* aipu_schedule_pending_job_no_lock starts a pending job or does nothing.
LEMMA ScheduleCases ==
  ASSUME NEW st \in [Jobs -> JobStates], NEW num, SchedulePending(st, num)
  PROVE  \/ \E i \in Jobs : /\ st[i] = "PENDING" /\ num < 1 /\ hw = 0
                            /\ state' = [st EXCEPT ![i] = "SCHED"]
                            /\ sched_num' = num + 1
                            /\ hw' = i
         \/ state' = st /\ sched_num' = num /\ hw' = hw
<1> DEFINE pending == {j \in Jobs : st[j] = "PENDING"}
           first == CHOOSE j \in pending : \A k \in pending : j <= k
<1>1. ASSUME pending # {} PROVE first \in pending
  <2>1. pending \subseteq Nat
    BY JobsNat
  <2>2. \E j \in pending : \A k \in pending : j <= k
    BY <1>1, <2>1, LeastNat
  <2> QED
    BY <2>2
<1>2. CASE pending # {} /\ num < 1 /\ hw = 0
  <2>1. /\ state' = [st EXCEPT ![first] = "SCHED"]
        /\ sched_num' = num + 1
        /\ hw' = first
    BY <1>2 DEF SchedulePending
  <2>2. first \in Jobs /\ st[first] = "PENDING"
    BY <1>1, <1>2
  <2> HIDE DEF first
  <2> QED
    BY <1>2, <2>1, <2>2
<1>3. CASE ~(pending # {} /\ num < 1 /\ hw = 0)
  BY <1>3 DEF SchedulePending
<1> QED
  BY <1>2, <1>3

\* Starting a job keeps the device and the manager in step, and no job that is
\* SCHED already is touched.
LEMMA ScheduleKeeps ==
  ASSUME NEW st \in [Jobs -> JobStates], NEW num, SchedulePending(st, num),
         hw \in {0} \cup Jobs, how' = how,
         OneSched(st, num),
         hw # 0 => st[hw] = "SCHED" /\ how[hw] = {},
         \A j \in Jobs : st[j] \in {"NONE", "PENDING"} => how[j] = {}
  PROVE  /\ state' \in [Jobs -> JobStates] /\ hw' \in {0} \cup Jobs
         /\ OneSched(state', sched_num')
         /\ hw' # 0 => state'[hw'] = "SCHED" /\ how'[hw'] = {}
         /\ \A j \in Jobs : state'[j] \in {"NONE", "PENDING"} => how'[j] = {}
         /\ \A j \in Jobs : \/ state'[j] = st[j]
                            \/ st[j] = "PENDING" /\ state'[j] = "SCHED"
<1>1. CASE state' = st /\ sched_num' = num /\ hw' = hw
  BY <1>1
<1>2. ASSUME NEW i \in Jobs, st[i] = "PENDING", num < 1, hw = 0,
             state' = [st EXCEPT ![i] = "SCHED"], sched_num' = num + 1, hw' = i
      PROVE  /\ state' \in [Jobs -> JobStates] /\ hw' \in {0} \cup Jobs
             /\ OneSched(state', sched_num')
             /\ hw' # 0 => state'[hw'] = "SCHED" /\ how'[hw'] = {}
             /\ \A j \in Jobs : state'[j] \in {"NONE", "PENDING"} => how'[j] = {}
             /\ \A j \in Jobs : \/ state'[j] = st[j]
                                \/ st[j] = "PENDING" /\ state'[j] = "SCHED"
  <2>1. \A j \in Jobs : state'[j] = IF j = i THEN "SCHED" ELSE st[j]
    BY <1>2
  <2>2. state' \in [Jobs -> JobStates]
    BY <1>2 DEF JobStates
  <2>3. num = 0 /\ \A j \in Jobs : st[j] # "SCHED"
    BY <1>2 DEF OneSched
  <2>4. OneSched(state', sched_num')
    BY <1>2, <2>1, <2>3 DEF OneSched
  <2> QED
    BY <1>2, <2>1, <2>2, <2>4
<1> QED
  BY <1>1, <1>2, ScheduleCases

\* A step that leaves jobs that are SCHED or have ended alone, and what the
\* handler and the device know.
LEMMA SignalFrame ==
  ASSUME SignalsOK, EndIsTheJobs,
         UNCHANGED <<excep, how, stat, uh, ret>>,
         \A j \in Jobs : state[j] = "SCHED" => state'[j] = "SCHED",
         \A j \in Jobs : state'[j] = "END" => state[j] = "END"
  PROVE  SignalsOK' /\ EndIsTheJobs'
<1>1. \A b : Told(b) => Told(b)'
  BY DEF Told
<1>2. SignalsOK'
  BY <1>1 DEF SignalsOK
<1>3. EndIsTheJobs'
  BY DEF EndIsTheJobs
<1> QED
  BY <1>2, <1>3

\* RUNJOB hands a job to the manager.
LEMMA ScheduleNewJobKeeps == HandlerInv /\ ScheduleNewJob => HandlerInv'
<1> SUFFICES ASSUME HandlerInv, ScheduleNewJob PROVE HandlerInv'
  OBVIOUS
<1>1. PICK n \in Jobs : n = submitted + 1 /\ submitted \in Nat /\ submitted < MaxJobs
  BY JobsNat DEF ScheduleNewJob, HandlerInv, TypeOK, Jobs
<1>2. state \in [Jobs -> JobStates] /\ hw \in {0} \cup Jobs /\ state[n] = "NONE"
  <2>1. n > submitted
    BY <1>1
  <2> QED
    BY <2>1 DEF HandlerInv, TypeOK, JobStates, DeviceOK
<1>3. PICK st : /\ st = [state EXCEPT ![n] = "PENDING"]
                /\ SchedulePending(st, sched_num)
  BY <1>1 DEF ScheduleNewJob
<1>4. st \in [Jobs -> JobStates] /\ \A j \in Jobs : st[j] = IF j = n THEN "PENDING" ELSE state[j]
  BY <1>2, <1>3 DEF JobStates
<1>5. UNCHANGED <<excep, how, ctrl, stat, edge, uh, ret>> /\ submitted' = n
  BY <1>1 DEF ScheduleNewJob
<1>6. OneSched(st, sched_num)
  BY <1>2, <1>4 DEF HandlerInv, DeviceOK, OneSched
<1>7. /\ hw # 0 => st[hw] = "SCHED" /\ how[hw] = {}
      /\ \A j \in Jobs : st[j] \in {"NONE", "PENDING"} => how[j] = {}
  BY <1>2, <1>4 DEF HandlerInv, DeviceOK
<1>8. /\ state' \in [Jobs -> JobStates] /\ hw' \in {0} \cup Jobs
      /\ OneSched(state', sched_num')
      /\ hw' # 0 => state'[hw'] = "SCHED" /\ how'[hw'] = {}
      /\ \A j \in Jobs : state'[j] \in {"NONE", "PENDING"} => how'[j] = {}
      /\ \A j \in Jobs : \/ state'[j] = st[j]
                         \/ st[j] = "PENDING" /\ state'[j] = "SCHED"
  BY <1>2, <1>3, <1>4, <1>5, <1>6, <1>7, ScheduleKeeps
<1>9. submitted' \in 0 .. MaxJobs
  BY <1>1, <1>5, JobsNat
<1>10. TypeOK'
  BY <1>5, <1>8, <1>9 DEF HandlerInv, TypeOK, JobStates
<1>11. \A j \in Jobs : j > submitted' => state'[j] = "NONE"
  <2>1. \A j \in Jobs : j > n => j > submitted /\ j # n
    BY <1>1, JobsNat
  <2> QED
    BY <1>4, <1>5, <1>8, <2>1 DEF HandlerInv, DeviceOK
<1>12. DeviceOK'
  BY <1>5, <1>8, <1>11 DEF HandlerInv, DeviceOK
<1>13. SignalsOK' /\ EndIsTheJobs'
  BY <1>2, <1>4, <1>5, <1>8, SignalFrame DEF HandlerInv
<1> QED
  BY <1>10, <1>12, <1>13 DEF HandlerInv

\* KILL_TIMEOUT_JOB removes a pending job.
LEMMA KillKeeps ==
  ASSUME HandlerInv, NEW j \in Jobs, KillTimeoutJob(j)
  PROVE  HandlerInv'
<1>1. state \in [Jobs -> JobStates] /\ hw \in {0} \cup Jobs
  BY DEF HandlerInv, TypeOK, JobStates
<1>2. UNCHANGED <<submitted, excep, sched_num, hw, how, ctrl, stat, edge, uh, ret>>
  BY DEF KillTimeoutJob
<1>3. \A k \in Jobs : state'[k] = IF k = j /\ state[k] = "PENDING" THEN "NONE" ELSE state[k]
  BY <1>1 DEF KillTimeoutJob
<1>4. state' \in [Jobs -> JobStates]
  BY <1>1 DEF KillTimeoutJob, JobStates
<1>5. TypeOK'
  BY <1>2, <1>4 DEF HandlerInv, TypeOK, JobStates
<1>6. OneSched(state', sched_num')
  BY <1>2, <1>3 DEF HandlerInv, DeviceOK, OneSched
<1>7. DeviceOK'
  BY <1>1, <1>2, <1>3, <1>6 DEF HandlerInv, DeviceOK
<1>8. SignalsOK' /\ EndIsTheJobs'
  BY <1>2, <1>3, SignalFrame DEF HandlerInv
<1> QED
  BY <1>5, <1>7, <1>8 DEF HandlerInv

\* The device ends its job.
LEMMA FinishKeeps ==
  ASSUME OneCause, HandlerInv, NEW bits \in Endings, NEW q \in BOOLEAN, HwFinish(bits, q)
  PROVE  HandlerInv'
<1>1. hw \in Jobs /\ state[hw] = "SCHED" /\ how[hw] = {} /\ hw' = 0
  BY DEF HwFinish, HandlerInv, TypeOK, DeviceOK
<1>2. bits \subseteq {"DONE", "EXCEP", "FAULT"} /\ ~("DONE" \in bits /\ "EXCEP" \in bits)
  BY UpperHalfAssumption DEF OneCause
<1>3. PICK h \in Jobs : h = hw
  BY <1>1
<1>4. \A j \in Jobs : how'[j] = IF j = h THEN bits ELSE how[j]
  BY <1>1, <1>3 DEF HwFinish, HandlerInv, TypeOK
<1>5. how' \in [Jobs -> SUBSET {"DONE", "EXCEP", "FAULT"}]
  BY <1>2 DEF HwFinish, HandlerInv, TypeOK
<1>6. UNCHANGED <<submitted, state, excep, sched_num, ctrl, uh, ret>>
  BY DEF HwFinish, manager
<1>7. \A b \in {"DONE", "EXCEP"} : b \in stat' => b \in stat \/ b \in bits
  BY DEF HwFinish
<1>8. TypeOK'
  BY <1>1, <1>5, <1>6 DEF HandlerInv, TypeOK
<1>9. DeviceOK'
  BY <1>1, <1>2, <1>3, <1>4, <1>6 DEF HandlerInv, DeviceOK, OneSched
<1>10. ~Told("DONE") /\ ~Told("EXCEP")
  BY <1>1 DEF HandlerInv, DeviceOK, OneSched, Told
<1>11. \A b \in {"DONE", "EXCEP"} : b \in bits => Told(b)'
  BY <1>1, <1>3, <1>4, <1>6 DEF Told
<1>12. SignalsOK'
  BY <1>6, <1>7, <1>10, <1>11 DEF HandlerInv, SignalsOK
<1>13. EndIsTheJobs'
  BY <1>1, <1>3, <1>4, <1>6 DEF HandlerInv, EndIsTheJobs
<1> QED
  BY <1>8, <1>9, <1>12, <1>13 DEF HandlerInv

\* The manager ends the SCHED job for a bit that this job told.
LEMMA UpdateKeeps ==
  ASSUME HandlerInv, NEW b \in {"DONE", "EXCEP"}, Told(b),
         UpdateJobState(b = "EXCEP"), UNCHANGED <<how, stat, ret>>
  PROVE  /\ TypeOK' /\ DeviceOK' /\ EndIsTheJobs'
         /\ \A c \in {"DONE", "EXCEP"} : Told(c) => c = b
<1> DEFINE sched == {j \in Jobs : state[j] = "SCHED"}
<1>1. PICK r \in Jobs : state[r] = "SCHED" /\ b \in how[r]
  BY DEF Told
<1>2. \A j \in Jobs : state[j] = "SCHED" <=> j = r
  BY <1>1 DEF HandlerInv, DeviceOK, OneSched
<1>3. sched_num = 1
  BY <1>1 DEF HandlerInv, DeviceOK, OneSched
<1>4. hw = 0
  BY <1>1, <1>2 DEF HandlerInv, TypeOK, DeviceOK
<1>5. sched = {r}
  BY <1>2
<1>6. PICK st : /\ st = [j \in Jobs |-> IF j \in sched THEN "END" ELSE state[j]]
                /\ SchedulePending(st, 0)
  <2>1. (IF sched # {} /\ sched_num # 0 THEN sched_num - 1 ELSE sched_num) = 0
    BY <1>3, <1>5
  <2> QED
    BY <2>1 DEF UpdateJobState
<1>7. /\ state \in [Jobs -> JobStates] /\ hw \in {0} \cup Jobs
      /\ excep \in [Jobs -> BOOLEAN]
  BY DEF HandlerInv, TypeOK, JobStates
<1>8. submitted' = submitted /\ excep' = [j \in Jobs |-> IF j \in sched THEN b = "EXCEP" ELSE excep[j]]
  BY DEF UpdateJobState
<1>9. st \in [Jobs -> JobStates] /\ \A j \in Jobs : st[j] = IF j = r THEN "END" ELSE state[j]
  BY <1>5, <1>6, <1>7 DEF JobStates
<1>10. /\ \A j \in Jobs : j # r => excep'[j] = excep[j]
       /\ excep'[r] = (b = "EXCEP")
       /\ excep' \in [Jobs -> BOOLEAN]
  <2> HIDE DEF sched
  <2>1. \A j \in Jobs : j # r => excep'[j] = excep[j]
    BY <1>5, <1>8
  <2>2. excep'[r] = (b = "EXCEP")
    BY <1>5, <1>8
  <2>3. excep' \in [Jobs -> BOOLEAN]
    BY <1>7, <1>8
  <2> QED
    BY <2>1, <2>2, <2>3
<1> HIDE DEF sched
<1>11. OneSched(st, 0)
  BY <1>2, <1>9 DEF OneSched
<1>12. \A j \in Jobs : st[j] \in {"NONE", "PENDING"} => how[j] = {}
  BY <1>9 DEF HandlerInv, DeviceOK
<1>13. /\ state' \in [Jobs -> JobStates] /\ hw' \in {0} \cup Jobs
       /\ OneSched(state', sched_num')
       /\ hw' # 0 => state'[hw'] = "SCHED" /\ how'[hw'] = {}
       /\ \A j \in Jobs : state'[j] \in {"NONE", "PENDING"} => how'[j] = {}
       /\ \A j \in Jobs : \/ state'[j] = st[j]
                          \/ st[j] = "PENDING" /\ state'[j] = "SCHED"
  BY <1>4, <1>6, <1>7, <1>9, <1>11, <1>12, ScheduleKeeps
<1>14. TypeOK'
  BY <1>8, <1>10, <1>13 DEF HandlerInv, TypeOK, JobStates
<1>15. \A j \in Jobs : j > submitted' => state'[j] = "NONE"
  BY <1>1, <1>8, <1>9, <1>13 DEF HandlerInv, DeviceOK
<1>16. DeviceOK'
  BY <1>13, <1>15 DEF HandlerInv, DeviceOK
<1>17. ~("DONE" \in how[r] /\ "EXCEP" \in how[r])
  BY DEF HandlerInv, DeviceOK
<1>18. (b = "EXCEP") = ("EXCEP" \in how[r])
  BY <1>1, <1>17
<1>19. EndIsTheJobs'
  <2> SUFFICES ASSUME NEW j \in Jobs, state'[j] = "END"
               PROVE  how'[j] # {} /\ excep'[j] = ("EXCEP" \in how'[j])
    BY DEF EndIsTheJobs
  <2>1. how' = how
    OBVIOUS
  <2>2. CASE j = r
    BY <1>1, <1>10, <1>18, <2>1, <2>2
  <2>3. CASE j # r
    <3>1. state[j] = "END" /\ excep'[j] = excep[j]
      BY <1>9, <1>10, <1>13, <2>3
    <3>2. how[j] # {} /\ excep[j] = ("EXCEP" \in how[j])
      BY <3>1 DEF HandlerInv, EndIsTheJobs
    <3> QED
      BY <2>1, <3>1, <3>2
  <2> QED
    BY <2>2, <2>3
<1>20. \A c \in {"DONE", "EXCEP"} : Told(c) => c = b
  BY <1>1, <1>2, <1>17 DEF Told
<1> QED
  BY <1>14, <1>16, <1>19, <1>20

\* Each access of the upper half.
LEMMA HandlerKeeps == HandlerInv /\ Handler => HandlerInv'
<1> SUFFICES ASSUME HandlerInv, Handler PROVE HandlerInv'
  OBVIOUS
<1>1. ASSUME UNCHANGED <<submitted, state, excep, sched_num, hw, how>>
      PROVE  /\ TypeOK' /\ DeviceOK' /\ EndIsTheJobs'
             /\ \A b : Told(b)' <=> Told(b)
  <2>1. TypeOK'
    BY <1>1 DEF HandlerInv, TypeOK
  <2>2. DeviceOK'
    BY <1>1 DEF HandlerInv, DeviceOK, OneSched
  <2>3. EndIsTheJobs'
    BY <1>1 DEF HandlerInv, EndIsTheJobs
  <2>4. \A b : Told(b)' <=> Told(b)
    BY <1>1 DEF Told
  <2> QED
    BY <2>1, <2>2, <2>3, <2>4
<1>2. CASE DisableInterrupt
  <2>1. UNCHANGED <<submitted, state, excep, sched_num, hw, how, stat, ret>> /\ uh' = "read"
    BY <1>2 DEF DisableInterrupt, Goto, manager, device
  <2>2. SignalsOK'
    BY <1>1, <2>1 DEF HandlerInv, SignalsOK
  <2> QED
    BY <1>1, <2>1, <2>2 DEF HandlerInv
<1>3. CASE ReadStatusReg
  <2>1. /\ UNCHANGED <<submitted, state, excep, sched_num, hw, how, stat>>
        /\ uh' = "qempty" /\ ret' = stat
    BY <1>3 DEF ReadStatusReg, Goto, manager, device
  <2>2. SignalsOK'
    BY <1>1, <2>1 DEF HandlerInv, SignalsOK
  <2> QED
    BY <1>1, <2>1, <2>2 DEF HandlerInv
<1>4. CASE ClearQempty
  <2>1. /\ UNCHANGED <<submitted, state, excep, sched_num, hw, how, ret>>
        /\ uh = "qempty" /\ uh' = "done" /\ stat' \subseteq stat
    BY <1>4 DEF ClearQempty, Clear, Goto, manager, device
  <2>2. SignalsOK'
    BY <1>1, <2>1 DEF HandlerInv, SignalsOK
  <2> QED
    BY <1>1, <2>1, <2>2 DEF HandlerInv
<1>5. CASE ClearDone
  <2>1. /\ UNCHANGED <<submitted, state, excep, sched_num, hw, how, ret>>
        /\ uh = "done" /\ uh' = "update_done" /\ stat' \subseteq stat
        /\ "DONE" \in ret => "DONE" \notin stat'
    BY <1>5 DEF ClearDone, Clear, Goto, manager, device
  <2>2. SignalsOK'
    BY <1>1, <2>1 DEF HandlerInv, SignalsOK
  <2> QED
    BY <1>1, <2>1, <2>2 DEF HandlerInv
<1>6. CASE UpdateDone
  <2>1. uh = "update_done" /\ uh' = "excep" /\ UNCHANGED <<how, ctrl, stat, edge, ret>>
    BY <1>6 DEF UpdateDone, Goto
  <2>2. CASE "DONE" \in ret
    <3>1. Told("DONE") /\ "DONE" \notin stat
      BY <2>1, <2>2 DEF HandlerInv, SignalsOK
    <3>2. ("DONE" = "EXCEP") = FALSE
      OBVIOUS
    <3>3. UpdateJobState("DONE" = "EXCEP")
      BY <1>6, <2>2, <3>2 DEF UpdateDone
    <3>4. /\ TypeOK' /\ DeviceOK' /\ EndIsTheJobs'
          /\ \A c \in {"DONE", "EXCEP"} : Told(c) => c = "DONE"
      BY <2>1, <3>1, <3>3, UpdateKeeps
    <3>5. "EXCEP" \notin stat /\ "EXCEP" \notin ret
      BY <2>1, <3>4 DEF HandlerInv, SignalsOK
    <3>6. SignalsOK'
      BY <2>1, <3>1, <3>5 DEF SignalsOK
    <3> QED
      BY <3>4, <3>6 DEF HandlerInv
  <2>3. CASE "DONE" \notin ret
    <3>1. UNCHANGED <<submitted, state, excep, sched_num, hw>>
      BY <1>6, <2>3 DEF UpdateDone, manager
    <3>2. SignalsOK'
      BY <1>1, <2>1, <2>3, <3>1 DEF HandlerInv, SignalsOK
    <3> QED
      BY <1>1, <2>1, <3>1, <3>2 DEF HandlerInv
  <2> QED
    BY <2>2, <2>3
<1>7. CASE ClearExcep
  <2>1. /\ UNCHANGED <<submitted, state, excep, sched_num, hw, how, ret>>
        /\ uh = "excep" /\ uh' = "update_excep" /\ stat' \subseteq stat
        /\ "EXCEP" \in ret => "EXCEP" \notin stat'
    BY <1>7 DEF ClearExcep, Clear, Goto, manager, device
  <2>2. SignalsOK'
    BY <1>1, <2>1 DEF HandlerInv, SignalsOK
  <2> QED
    BY <1>1, <2>1, <2>2 DEF HandlerInv
<1>8. CASE UpdateExcep
  <2>1. uh = "update_excep" /\ uh' = "fault" /\ UNCHANGED <<how, ctrl, stat, edge, ret>>
    BY <1>8 DEF UpdateExcep, Goto
  <2>2. CASE "EXCEP" \in ret
    <3>1. Told("EXCEP") /\ "EXCEP" \notin stat
      BY <2>1, <2>2 DEF HandlerInv, SignalsOK
    <3>2. ("EXCEP" = "EXCEP") = TRUE
      OBVIOUS
    <3>3. UpdateJobState("EXCEP" = "EXCEP")
      BY <1>8, <2>2, <3>2 DEF UpdateExcep
    <3>4. /\ TypeOK' /\ DeviceOK' /\ EndIsTheJobs'
          /\ \A c \in {"DONE", "EXCEP"} : Told(c) => c = "EXCEP"
      BY <2>1, <3>1, <3>3, UpdateKeeps
    <3>5. "DONE" \notin stat
      BY <2>1, <3>4 DEF HandlerInv, SignalsOK
    <3>6. SignalsOK'
      BY <2>1, <3>1, <3>5 DEF SignalsOK
    <3> QED
      BY <3>4, <3>6 DEF HandlerInv
  <2>3. CASE "EXCEP" \notin ret
    <3>1. UNCHANGED <<submitted, state, excep, sched_num, hw>>
      BY <1>8, <2>3 DEF UpdateExcep, manager
    <3>2. SignalsOK'
      BY <1>1, <2>1, <3>1 DEF HandlerInv, SignalsOK
    <3> QED
      BY <1>1, <2>1, <3>1, <3>2 DEF HandlerInv
  <2> QED
    BY <2>2, <2>3
<1>9. CASE ClearFault
  <2>1. /\ UNCHANGED <<submitted, state, excep, sched_num, hw, how, ret>>
        /\ uh' = "enable" /\ stat' \subseteq stat
    BY <1>9 DEF ClearFault, Clear, Goto, manager, device
  <2>2. SignalsOK'
    BY <1>1, <2>1 DEF HandlerInv, SignalsOK
  <2> QED
    BY <1>1, <2>1, <2>2 DEF HandlerInv
<1>10. CASE EnableInterrupt
  <2>1. /\ UNCHANGED <<submitted, state, excep, sched_num, hw, how, stat>> /\ uh' = "idle"
    BY <1>10 DEF EnableInterrupt, Goto, manager, device
  <2>2. SignalsOK'
    BY <1>1, <2>1 DEF HandlerInv, SignalsOK
  <2> QED
    BY <1>1, <2>1, <2>2 DEF HandlerInv
<1> QED
  BY <1>2, <1>3, <1>4, <1>5, <1>6, <1>7, <1>8, <1>9, <1>10 DEF Handler
-----------------------------------------------------------------------------
\* Every step of the composition keeps the invariant of the handler: what the
\* session and poll() do leaves the registers and the manager alone.
LEMMA HandlerStep ==
  ASSUME OneCause, HandlerInv, [CompletionNext]_allvars
  PROVE  HandlerInv'
<1>1. CASE UNCHANGED vars
  <2>1. TypeOK'
    BY <1>1 DEF vars, HandlerInv, TypeOK
  <2>2. DeviceOK'
    BY <1>1 DEF vars, HandlerInv, DeviceOK, OneSched
  <2>3. SignalsOK'
    BY <1>1 DEF vars, HandlerInv, SignalsOK, Told
  <2>4. EndIsTheJobs'
    BY <1>1 DEF vars, HandlerInv, EndIsTheJobs
  <2> QED
    BY <2>1, <2>2, <2>3, <2>4 DEF HandlerInv
<1>2. CASE ScheduleNewJob
  BY <1>2, ScheduleNewJobKeeps
<1>3. CASE \E j \in Jobs : KillTimeoutJob(j)
  BY <1>3, KillKeeps
<1>4. CASE Handler
  BY <1>4, HandlerKeeps
<1>5. CASE Finish
  BY <1>5, FinishKeeps DEF Finish
<1> QED
  BY <1>1, <1>2, <1>3, <1>4, <1>5
     DEF CompletionNext, allvars, RunJobAdd, RunJobSchedule, BottomHalf, InterruptStep,
         DeviceStep, PollSteps, UserSteps, TimeoutStep

\* It holds at the start.
LEMMA HandlerStart == CompletionInit => HandlerInv
<1> SUFFICES ASSUME Init PROVE HandlerInv
  BY DEF CompletionInit
<1>1. TypeOK
  BY JobsNat DEF Init, TypeOK
<1>2. DeviceOK
  BY JobsNat DEF Init, DeviceOK, OneSched
<1>3. SignalsOK
  BY DEF Init, SignalsOK
<1>4. EndIsTheJobs
  BY DEF Init, EndIsTheJobs
<1> QED
  BY <1>1, <1>2, <1>3, <1>4 DEF HandlerInv

\* Whatever the interleaving of the handler's accesses with the device, the other
\* CPUs and the session: a job that aipu_job_manager_update_job_state_irq has ended
\* is one that the device has ended, with the flag of its own end.
THEOREM EndsAreTheJobs == OneCause => (CompletionSpec => []EndIsTheJobs)
<1> SUFFICES ASSUME OneCause PROVE CompletionSpec => []EndIsTheJobs
  OBVIOUS
<1>1. CompletionInit => HandlerInv
  BY HandlerStart
<1>2. HandlerInv /\ [CompletionNext]_allvars => HandlerInv'
  BY HandlerStep
<1>3. HandlerInv => EndIsTheJobs
  BY DEF HandlerInv
<1> QED
  BY <1>1, <1>2, <1>3, PTL DEF CompletionSpec

-----------------------------------------------------------------------------
(* The session and poll().                                                 *)

\* AddJob: the thread of the job is not in poll(), the others wait for other jobs.
LEMMA AddJobPolls ==
  ASSUME SharedProperly, PollInv, NEW j \in Jobs, P!AddJob(j)
  PROVE  PollInv'
<1>1. Uthread[j] \in Threads
  BY CompletionAssumption DEF P!PollConstants
<1>2. UNCHANGED <<usage, single_thread_poll, poll, queue, woken>>
  BY DEF P!AddJob, P!pollvars
<1>3. \A k \in Jobs : sjob'[k] = IF k = j THEN "active" ELSE sjob[k]
  BY DEF P!AddJob, PollInv, PollTypeOK
<1>4. PollTypeOK'
  <2>1. sjob' \in [Jobs -> {"none", "active", "dead", "end", "freed"}]
    BY DEF P!AddJob, PollInv, PollTypeOK
  <2>2. queues' \subseteq Threads
    BY <1>1 DEF P!AddJob, P!CreateThreadWaitQueue, PollInv, PollTypeOK
  <2> QED
    BY <1>2, <2>1, <2>2 DEF PollInv, PollTypeOK
<1>5. \A t \in Threads : poll[t] # "no" => P!Own(t)' = P!Own(t)
  BY <1>3 DEF P!AddJob, P!Own, P!Listed
<1>6. P!Ended' = P!Ended
  BY <1>3 DEF P!AddJob, P!Ended
<1>7. OnItsQueue'
  <2>1. \A k \in Jobs : sjob'[k] # "none" => Uthread[k] \in queues'
    BY <1>3 DEF P!AddJob, P!CreateThreadWaitQueue, PollInv, OnItsQueue
  <2> QED
    BY <1>2, <1>5, <2>1 DEF PollInv, OnItsQueue
<1>8. P!NoLostWakeup'
  <2>1. \A t \in Threads : poll[t] # "no" => P!HasEndJob(t)' = P!HasEndJob(t)
    BY <1>5, <1>6 DEF P!HasEndJob
  <2> QED
    BY <1>2, <2>1 DEF PollInv, P!NoLostWakeup
<1> QED
  BY <1>4, <1>7, <1>8 DEF PollInv

\* KILL_TIMEOUT_JOB: the job stays listed, and was not ended.
LEMMA KillJobPolls ==
  ASSUME SharedProperly, PollInv, NEW j \in Jobs, P!KillJob(j)
  PROVE  PollInv'
<1>1. UNCHANGED <<usage, queues, single_thread_poll, poll, queue, woken>>
  BY DEF P!KillJob, P!pollvars
<1>2. \A k \in Jobs : sjob'[k] = IF k = j THEN "dead" ELSE sjob[k]
  BY DEF P!KillJob, PollInv, PollTypeOK
<1>3. PollTypeOK'
  <2>1. sjob' \in [Jobs -> {"none", "active", "dead", "end", "freed"}]
    BY DEF P!KillJob, PollInv, PollTypeOK
  <2> QED
    BY <1>1, <2>1 DEF PollInv, PollTypeOK
<1>4. P!Listed' = P!Listed /\ P!Ended' = P!Ended
  BY <1>2 DEF P!KillJob, P!Listed, P!Ended
<1>5. \A t \in Threads : P!Own(t)' = P!Own(t) /\ P!HasEndJob(t)' = P!HasEndJob(t)
  BY <1>4 DEF P!Own, P!HasEndJob
<1>6. OnItsQueue'
  BY <1>1, <1>2, <1>5 DEF P!KillJob, PollInv, OnItsQueue
<1>7. P!NoLostWakeup'
  BY <1>1, <1>5 DEF PollInv, P!NoLostWakeup
<1> QED
  BY <1>3, <1>6, <1>7 DEF PollInv

\* aipu_session_job_done wakes the queue the thread of the job is on, or the common
\* queue, as single_thread_poll says: the one the waiting thread was put on.
LEMMA JobDonePolls ==
  ASSUME SharedProperly, PollInv, NEW j \in Jobs, P!JobDone(j)
  PROVE  PollInv'
<1>1. UNCHANGED <<usage, queues, single_thread_poll, poll, queue>>
  BY DEF P!JobDone
<1>2. \A k \in Jobs : sjob'[k] = IF k = j THEN "end" ELSE sjob[k]
  BY DEF P!JobDone, PollInv, PollTypeOK
<1>3. sjob[j] = "active" /\ Uthread[j] \in queues /\ Uthread[j] \in Threads
  BY DEF P!JobDone, PollInv, PollTypeOK, OnItsQueue
<1>4. /\ woken' \in [Threads -> BOOLEAN]
      /\ \A t \in Threads : woken[t] => woken'[t]
  BY DEF P!JobDone, P!WakeUp, PollInv, PollTypeOK
<1>5. PollTypeOK'
  <2>1. sjob' \in [Jobs -> {"none", "active", "dead", "end", "freed"}]
    BY DEF P!JobDone, PollInv, PollTypeOK
  <2> QED
    BY <1>1, <1>4, <2>1 DEF PollInv, PollTypeOK
<1>6. P!Listed' = P!Listed
  BY <1>2, <1>3 DEF P!Listed
<1>7. \A t \in Threads : P!Own(t)' = P!Own(t)
  BY <1>6 DEF P!Own
<1>8. \A k \in Jobs : k \in P!Ended' <=> k \in P!Ended \/ k = j
  BY <1>2 DEF P!Ended
<1>9. OnItsQueue'
  BY <1>1, <1>2, <1>3, <1>7 DEF PollInv, OnItsQueue
<1>10. ASSUME NEW t \in Threads, poll[t] = "sleep", P!HasEndJob(t)', ~woken'[t]
       PROVE  FALSE
  <2>1. ~P!HasEndJob(t)
    BY <1>4, <1>10 DEF PollInv, P!NoLostWakeup
  <2>2. CASE usage.any = {}
    <3>1. queue[t] = "own" /\ single_thread_poll /\ P!Own(t) # {}
      BY <1>10, <2>2 DEF PollInv, OnItsQueue
    <3>2. P!Own(t) \cap P!Ended = {} /\ P!Own(t) \cap P!Ended' # {}
      BY <1>7, <1>10, <2>1, <3>1 DEF P!HasEndJob
    <3>3. Uthread[j] = t
      BY <1>8, <3>2 DEF P!Own, P!Listed, P!Ended
    <3> QED
      BY <1>3, <1>10, <3>1, <3>3 DEF P!JobDone, P!WakeUp
  <2>3. CASE usage.any # {}
    <3>1. queue[t] = "com" /\ ~single_thread_poll
      BY <1>10, <2>3 DEF PollInv, OnItsQueue
    <3> QED
      BY <1>10, <3>1 DEF P!JobDone, P!WakeUp
  <2> QED
    BY <2>2, <2>3
<1>11. P!NoLostWakeup'
  <2>1. ASSUME NEW t \in Threads, poll'[t] = "sleep", P!HasEndJob(t)' PROVE woken'[t]
    BY <1>1, <1>10, <2>1
  <2> QED
    BY <2>1 DEF P!NoLostWakeup
<1> QED
  BY <1>5, <1>9, <1>11 DEF PollInv

\* A step of one thread inside poll() leaves the jobs and the queues alone, so what
\* the other threads wait for and where they are woken stay as they were.
LEMMA PollFrame ==
  ASSUME PollInv, NEW t \in Threads,
         UNCHANGED <<usage, sjob, queues>>,
         single_thread_poll' = (single_thread_poll \/ (P!Own(t) # {} /\ t \in queues)),
         poll' \in [Threads -> {"no", "check", "sleep"}],
         queue' \in [Threads -> {"none", "own", "com"}],
         woken' \in [Threads -> BOOLEAN],
         \A u \in Threads \ {t} : poll'[u] = poll[u] /\ queue'[u] = queue[u] /\ woken'[u] = woken[u],
         poll'[t] # "no" => /\ usage.any = {} => queue'[t] = "own" /\ P!Own(t) # {} /\ t \in queues
                            /\ usage.any # {} => queue'[t] = "com" /\ t \in usage.any,
         usage.any # {} => P!Own(t) = {},
         poll'[t] = "sleep" => ~P!HasEndJob(t) \/ woken'[t]
  PROVE  PollInv'
<1>1. PollTypeOK'
  BY DEF PollInv, PollTypeOK
<1>2. \A u \in Threads : P!Own(u)' = P!Own(u) /\ P!HasEndJob(u)' = P!HasEndJob(u)
  BY DEF P!Own, P!Listed, P!Ended, P!HasEndJob
<1>3. \A j \in Jobs : sjob'[j] # "none" => Uthread[j] \in queues'
  BY DEF PollInv, OnItsQueue
<1>4. ASSUME usage.any = {}, NEW u \in Threads, poll'[u] # "no"
      PROVE  queue'[u] = "own" /\ single_thread_poll' /\ P!Own(u)' # {}
  <2>1. CASE u = t
    <3>1. queue'[t] = "own" /\ P!Own(t) # {} /\ t \in queues
      BY <1>4, <2>1
    <3> QED
      BY <1>2, <2>1, <3>1
  <2>2. CASE u # t
    <3>1. poll[u] # "no" /\ queue'[u] = queue[u]
      BY <1>4, <2>2
    <3>2. queue[u] = "own" /\ single_thread_poll /\ P!Own(u) # {}
      BY <1>4, <3>1 DEF PollInv, OnItsQueue
    <3> QED
      BY <1>2, <3>1, <3>2
  <2> QED
    BY <2>1, <2>2
<1>5. ASSUME usage.any # {}
      PROVE  /\ single_thread_poll' = FALSE
             /\ \A u \in Threads : poll'[u] # "no" => queue'[u] = "com" /\ u \in usage.any
  BY <1>5 DEF PollInv, OnItsQueue
<1>6. OnItsQueue'
  BY <1>3, <1>4, <1>5 DEF OnItsQueue
<1>7. P!NoLostWakeup'
  BY <1>2 DEF PollInv, P!NoLostWakeup
<1> QED
  BY <1>1, <1>6, <1>7 DEF PollInv

\* The threads that poll for all jobs have none of their own.
LEMMA AnyHasNoOwn ==
  ASSUME SharedProperly, PollInv, NEW t \in usage.any
  PROVE  P!Own(t) = {} /\ usage.own = {}
BY DEF SharedProperly, PollInv, PollTypeOK, P!Own, P!Listed

\* A thread with a job in the list has a queue.
LEMMA OwnHasQueue ==
  ASSUME PollInv, NEW t, P!Own(t) # {}
  PROVE  t \in queues
BY DEF PollInv, OnItsQueue, P!Own, P!Listed

\* poll() enters aipu_poll: where single_thread_poll puts the thread.
LEMMA PollEnterPolls ==
  ASSUME SharedProperly, PollInv, NEW t \in Threads, P!PollEnter(t)
  PROVE  PollInv'
<1>1. /\ UNCHANGED <<usage, sjob, queues>>
      /\ single_thread_poll' = (single_thread_poll \/ (P!Own(t) # {} /\ t \in queues))
  BY DEF P!PollEnter, P!AddPollWaitQueue
<1>2. /\ poll' \in [Threads -> {"no", "check", "sleep"}]
      /\ queue' \in [Threads -> {"none", "own", "com"}]
      /\ woken' \in [Threads -> BOOLEAN]
  BY DEF P!PollEnter, P!AddPollWaitQueue, PollInv, PollTypeOK
<1>3. \A u \in Threads \ {t} : poll'[u] = poll[u] /\ queue'[u] = queue[u] /\ woken'[u] = woken[u]
  BY DEF P!PollEnter, P!AddPollWaitQueue, PollInv, PollTypeOK
<1>4. /\ poll'[t] = "check"
      /\ queue'[t] = IF P!Own(t) # {} /\ t \in queues THEN "own"
                     ELSE IF ~single_thread_poll THEN "com" ELSE "none"
  BY DEF P!PollEnter, P!AddPollWaitQueue, PollInv, PollTypeOK
<1>5. usage.any = {} => P!Own(t) # {} /\ t \in queues
  BY OwnHasQueue DEF P!PollEnter
<1>6. usage.any # {} => t \in usage.any /\ P!Own(t) = {} /\ ~single_thread_poll
  <2> SUFFICES ASSUME usage.any # {} PROVE t \in usage.any /\ P!Own(t) = {} /\ ~single_thread_poll
    OBVIOUS
  <2>1. usage.own = {}
    BY AnyHasNoOwn
  <2>2. t \in usage.any
    BY <2>1 DEF P!PollEnter
  <2>3. P!Own(t) = {}
    BY <2>2, AnyHasNoOwn
  <2>4. ~single_thread_poll
    BY DEF PollInv, OnItsQueue
  <2> QED
    BY <2>2, <2>3, <2>4
<1> QED
  BY <1>1, <1>2, <1>3, <1>4, <1>5, <1>6, PollFrame

\* What a thread inside poll() knows of its queue.
LEMMA InsidePoll ==
  ASSUME SharedProperly, PollInv, NEW t \in Threads, poll[t] # "no"
  PROVE  /\ usage.any = {} => queue[t] = "own" /\ P!Own(t) # {} /\ t \in queues /\ single_thread_poll
         /\ usage.any # {} => queue[t] = "com" /\ t \in usage.any /\ P!Own(t) = {}
<1>1. usage.any = {} => queue[t] = "own" /\ P!Own(t) # {} /\ t \in queues /\ single_thread_poll
  BY OwnHasQueue DEF PollInv, OnItsQueue
<1>2. usage.any # {} => queue[t] = "com" /\ t \in usage.any /\ P!Own(t) = {}
  BY AnyHasNoOwn DEF PollInv, OnItsQueue
<1> QED
  BY <1>1, <1>2

\* poll() returns: POLLIN or the timeout.
LEMMA PollLeavePolls ==
  ASSUME SharedProperly, PollInv, NEW t \in Threads, poll[t] # "no", P!PollLeave(t)
  PROVE  PollInv'
<1>1. UNCHANGED <<usage, sjob, queues, single_thread_poll>>
  BY DEF P!PollLeave
<1>2. /\ poll' \in [Threads -> {"no", "check", "sleep"}]
      /\ queue' \in [Threads -> {"none", "own", "com"}]
      /\ woken' \in [Threads -> BOOLEAN]
  BY DEF P!PollLeave, PollInv, PollTypeOK
<1>3. \A u \in Threads \ {t} : poll'[u] = poll[u] /\ queue'[u] = queue[u] /\ woken'[u] = woken[u]
  BY DEF P!PollLeave, PollInv, PollTypeOK
<1>4. poll'[t] = "no"
  BY DEF P!PollLeave, PollInv, PollTypeOK
<1>5. /\ single_thread_poll' = (single_thread_poll \/ (P!Own(t) # {} /\ t \in queues))
      /\ usage.any # {} => P!Own(t) = {}
  BY <1>1, InsidePoll DEF PollInv, PollTypeOK
<1> QED
  BY <1>1, <1>2, <1>3, <1>4, <1>5, PollFrame

\* aipu_poll found no ended job: the thread sleeps.
LEMMA PollSleepPolls ==
  ASSUME SharedProperly, PollInv, NEW t \in Threads, P!PollSleep(t)
  PROVE  PollInv'
<1>1. UNCHANGED <<usage, sjob, queues, single_thread_poll, queue, woken>> /\ ~P!HasEndJob(t)
  BY DEF P!PollSleep
<1>2. poll[t] # "no"
  BY DEF P!PollSleep
<1>3. /\ poll' \in [Threads -> {"no", "check", "sleep"}]
      /\ \A u \in Threads \ {t} : poll'[u] = poll[u]
  BY DEF P!PollSleep, PollInv, PollTypeOK
<1>4. single_thread_poll' = (single_thread_poll \/ (P!Own(t) # {} /\ t \in queues))
  BY <1>1, <1>2, InsidePoll DEF PollInv, PollTypeOK
<1>5. /\ queue' \in [Threads -> {"none", "own", "com"}]
      /\ woken' \in [Threads -> BOOLEAN]
  BY <1>1 DEF PollInv, PollTypeOK
<1> QED
  BY <1>1, <1>2, <1>3, <1>4, <1>5, InsidePoll, PollFrame

\* aipu_poll after a wake-up.
LEMMA PollAgainPolls ==
  ASSUME SharedProperly, PollInv, NEW t \in Threads, P!PollAgain(t)
  PROVE  PollInv'
<1>1. /\ UNCHANGED <<usage, sjob, queues, queue>>
      /\ single_thread_poll' = (single_thread_poll \/ (P!Own(t) # {} /\ t \in queues))
  BY DEF P!PollAgain
<1>2. poll[t] # "no"
  BY DEF P!PollAgain
<1>3. /\ poll' \in [Threads -> {"no", "check", "sleep"}]
      /\ woken' \in [Threads -> BOOLEAN]
      /\ \A u \in Threads \ {t} : poll'[u] = poll[u] /\ woken'[u] = woken[u]
      /\ poll'[t] = "check"
  BY DEF P!PollAgain, PollInv, PollTypeOK
<1>4. queue' \in [Threads -> {"none", "own", "com"}]
  BY <1>1 DEF PollInv, PollTypeOK
<1> QED
  BY <1>1, <1>2, <1>3, <1>4, InsidePoll, PollFrame

\* QUERYSTATUS frees ended jobs: a thread that waits for jobs of its own keeps them,
\* since only it may take them, and fewer ended jobs wake nobody.
LEMMA GetJobStatusPolls ==
  ASSUME SharedProperly, PollInv, NEW t \in Threads, P!GetJobStatus(t)
  PROVE  PollInv'
<1>1. PICK R \in SUBSET P!Ended :
        /\ R # {}
        /\ t \notin usage.any => R \subseteq P!Own(t)
        /\ sjob' = [j \in Jobs |-> IF j \in R THEN "freed" ELSE sjob[j]]
  BY DEF P!GetJobStatus
<1>2. UNCHANGED <<usage, queues, single_thread_poll, poll, queue, woken>> /\ poll[t] = "no"
  BY DEF P!GetJobStatus, P!pollvars
<1>3. PollTypeOK'
  <2>1. sjob' \in [Jobs -> {"none", "active", "dead", "end", "freed"}]
    BY <1>1 DEF PollInv, PollTypeOK
  <2> QED
    BY <1>2, <2>1 DEF PollInv, PollTypeOK
<1>4. P!Listed' = P!Listed \ R /\ P!Ended' = P!Ended \ R
  BY <1>1 DEF P!Listed, P!Ended
<1>5. ASSUME usage.any = {}, NEW u \in Threads, poll[u] # "no"
      PROVE  P!Own(u)' = P!Own(u) /\ P!HasEndJob(u)' = P!HasEndJob(u)
  <2>1. u # t
    BY <1>2, <1>5
  <2>2. R \cap P!Own(u) = {}
    BY <1>1, <1>5, <2>1 DEF P!Own
  <2>3. P!Own(u)' = P!Own(u)
    BY <1>4, <2>2 DEF P!Own
  <2>4. P!Own(u) # {}
    BY <1>5, InsidePoll
  <2> QED
    BY <1>4, <2>2, <2>3, <2>4 DEF P!HasEndJob
<1>6. ASSUME usage.any # {}, NEW u \in Threads, poll[u] # "no", P!HasEndJob(u)'
      PROVE  P!HasEndJob(u)
  <2>1. P!Own(u) = {} /\ P!Own(u)' = {}
    BY <1>4, <1>6, InsidePoll DEF P!Own
  <2> QED
    BY <1>4, <1>6, <2>1 DEF P!HasEndJob
<1>7. OnItsQueue'
  <2>1. \A j \in Jobs : sjob'[j] # "none" => Uthread[j] \in queues'
    BY <1>1, <1>2 DEF PollInv, OnItsQueue, P!Ended
  <2> QED
    BY <1>2, <1>5, <2>1 DEF PollInv, OnItsQueue
<1>8. P!NoLostWakeup'
  BY <1>2, <1>5, <1>6 DEF PollInv, P!NoLostWakeup
<1> QED
  BY <1>3, <1>7, <1>8 DEF PollInv

\* No more jobs are handed over than there are.
LEMMA SubmittedStep ==
  ASSUME submitted \in 0 .. MaxJobs, [CompletionNext]_allvars
  PROVE  submitted' \in 0 .. MaxJobs
<1>1. CASE UNCHANGED submitted
  BY <1>1
<1>2. CASE submitted < MaxJobs /\ submitted' = submitted + 1
  BY <1>2, JobsNat
<1>3. ASSUME NEW f, UpdateJobState(f) PROVE UNCHANGED submitted
  BY <1>3 DEF UpdateJobState
<1>4. Handler => UNCHANGED submitted
  BY <1>3 DEF Handler, DisableInterrupt, ReadStatusReg, ClearQempty, ClearDone, UpdateDone,
              ClearExcep, UpdateExcep, ClearFault, EnableInterrupt, manager
<1>5. Finish => UNCHANGED submitted
  BY DEF Finish, HwFinish, manager
<1> QED
  BY <1>1, <1>2, <1>4, <1>5
     DEF CompletionNext, allvars, vars, RunJobAdd, RunJobSchedule, ScheduleNewJob, KillTimeoutJob,
         BottomHalf, InterruptStep, DeviceStep, PollSteps, UserSteps, TimeoutStep

\* Every step of the composition keeps the invariant of the wait queues.
LEMMA PollStep ==
  ASSUME SharedProperly, PollInv, submitted \in 0 .. MaxJobs, [CompletionNext]_allvars
  PROVE  PollInv'
<1>1. CASE UNCHANGED session
  <2>1. UNCHANGED <<usage, sjob, queues, single_thread_poll, poll, queue, woken>>
    BY <1>1 DEF session
  <2>2. PollTypeOK'
    BY <2>1 DEF PollInv, PollTypeOK
  <2>3. \A t \in Threads : P!Own(t)' = P!Own(t) /\ P!HasEndJob(t)' = P!HasEndJob(t)
    BY <2>1 DEF P!Own, P!Listed, P!Ended, P!HasEndJob
  <2>4. OnItsQueue'
    BY <2>1, <2>3 DEF PollInv, OnItsQueue
  <2>5. P!NoLostWakeup'
    BY <2>1, <2>3 DEF PollInv, P!NoLostWakeup
  <2> QED
    BY <2>2, <2>4, <2>5 DEF PollInv
<1>2. CASE RunJobAdd
  <2>1. submitted + 1 \in Jobs
    BY <1>2, JobsNat DEF RunJobAdd, Jobs
  <2> QED
    BY <1>2, <2>1, AddJobPolls DEF RunJobAdd
<1>3. CASE \E j \in Jobs : KillTimeoutJob(j)
  BY <1>3, KillJobPolls DEF KillTimeoutJob
<1>4. CASE \E j \in Jobs : BottomHalf(j)
  BY <1>4, JobDonePolls DEF BottomHalf
<1>5. ASSUME NEW t \in Threads, PollSteps(t) PROVE PollInv'
  <2>1. CASE P!PollReady(t)
    BY <2>1, PollLeavePolls DEF P!PollReady
  <2>2. CASE P!PollSleep(t)
    BY <2>2, PollSleepPolls
  <2>3. CASE P!PollAgain(t)
    BY <2>3, PollAgainPolls
  <2> QED
    BY <1>5, <2>1, <2>2, <2>3 DEF PollSteps
<1>6. ASSUME NEW t \in Threads, UserSteps(t) PROVE PollInv'
  BY <1>6, PollEnterPolls, GetJobStatusPolls DEF UserSteps
<1>7. ASSUME NEW t \in Threads, TimeoutStep(t) PROVE PollInv'
  BY <1>7, PollLeavePolls DEF TimeoutStep, P!PollTimeout
<1> QED
  BY <1>1, <1>2, <1>3, <1>4, <1>5, <1>6, <1>7
     DEF CompletionNext, allvars, RunJobSchedule, InterruptStep, DeviceStep

\* It holds at the start.
LEMMA PollStart == CompletionInit => PollInv
<1> SUFFICES ASSUME P!Init PROVE PollInv
  BY DEF CompletionInit
<1>1. PollTypeOK
  BY DEF P!Init, PollTypeOK
<1>2. OnItsQueue
  BY DEF P!Init, OnItsQueue
<1>3. P!NoLostWakeup
  BY DEF P!Init, P!NoLostWakeup
<1> QED
  BY <1>1, <1>2, <1>3 DEF PollInv

\* No thread sleeps in poll() past the end of its job without a wake-up on its way,
\* whatever the handler, the bottom half, kills, queries and timeouts do in between,
\* as long as the threads of the descriptor share it in one of the two ways.
THEOREM NoWakeupIsLost == SharedProperly => (CompletionSpec => []NoLostWakeup)
<1> SUFFICES ASSUME SharedProperly PROVE CompletionSpec => []NoLostWakeup
  OBVIOUS
<1> DEFINE I == submitted \in 0 .. MaxJobs /\ PollInv
<1>1. CompletionInit => I
  BY PollStart, JobsNat DEF CompletionInit, Init
<1>2. I /\ [CompletionNext]_allvars => I'
  BY PollStep, SubmittedStep
<1>3. I => NoLostWakeup
  BY DEF PollInv, NoLostWakeup
<1> HIDE DEF I
<1> QED
  BY <1>1, <1>2, <1>3, PTL DEF CompletionSpec
=============================================================================
