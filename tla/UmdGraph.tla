------------------------------ MODULE UmdGraph ------------------------------
(***************************************************************************)
(* The jobs of one loaded graph in the user-mode driver (graph.cpp) as the *)
(* threads of an application use them through AIPU_create_job, _flush_job, *)
(* _get_job_status, _poll_jobs_status and _clean_job (context.cpp,         *)
(* device_ctrl.cpp, dev_op_wrapper.cpp), on top of one kernel session      *)
(* (AipuSession).                                                          *)
(*                                                                         *)
(* A member o of Objs is a job_desc_t; objects are numbered in the order   *)
(* in which they are made.  The kernel's session_job for it is o as well.  *)
(* An id is counted from the first id of the graph (graph id << 16).  An   *)
(* action is what a thread does between two points where another one can   *)
(* get in: job_queue_lock, job->lock, a system call, or an access to a     *)
(* field that no lock protects.                                            *)
(***************************************************************************)
EXTENDS Naturals, Sequences, SequencesExt

CONSTANTS
    MaxJobs,    \* bound: the most jobs created in a behaviour
    Bufs,       \* the handles AIPU_alloc_tensor_buffers returned
    Threads,    \* application threads that schedule jobs
    Poller,     \* the thread that calls AIPU_poll_jobs_status
    NoBuf,      \* no buffer
    Setups      \* the applications to look at, see below

ASSUME ConstantsAssumption ==
    /\ MaxJobs \in Nat \ {0}
    /\ Poller \notin Threads
    /\ NoBuf \notin Bufs
    /\ Setups \subseteq [poll_opt : BOOLEAN, timed : BOOLEAN, refuse : BOOLEAN,
                         max_jobs : 1..MaxJobs, max_own : 1..MaxJobs,
                         may_use : [Threads -> SUBSET Bufs]]

Objs == 1..MaxJobs
Ids  == 0..MaxJobs-1

VARIABLES
    setup,      \* the member of Setups this behaviour is about
    \* struct job_desc
    jstate,     \* state; "NONE" before it is made and "DELETED" after delete
    id,         \* id
    buf_handle, \* buf_handle
    \* class Graph
    jobs,       \* map from id to object; 0 where there is none
    sched,      \* deque of ids
    is_free,    \* tbuf_info_t.is_free of every handle
    \* kernel session
    phase,      \* AipuSession
    list,       \* its session_jobs
    older,      \* for each of them, and of the batch, those listed before it
    uthread,    \* the thread that submitted o
    \* threads
    pc,         \* where it is in its call
    arg,        \* the id (or the handle) it was called with
    ptr,        \* the job_desc_t it holds a pointer to, or the one it collected
    result,     \* what the last wait returned
    mine,       \* the jobs it created and has not cleaned; it knows their ids
    max_cnt,    \* the poller's get_max_poll_job_cnt
    batch       \* the statuses the poller has read and not applied yet

table   == <<jstate, id, buf_handle, jobs, sched, is_free>>
kernel  == <<phase, list, older, uthread>>
thread  == <<pc, arg, ptr, result, mine>>
poll    == <<max_cnt, batch>>
vars    == <<setup, table, kernel, thread, poll>>

K == INSTANCE AipuSession WITH Jobs <- Objs

Callers == Threads \cup {Poller}

PollOpt == setup.poll_opt   \* rt_cfg.poll_opt
Timed == setup.timed        \* waits have a timeout > 0; otherwise an infinite one
Refuse == setup.refuse      \* RUNJOB may fail (no memory in the kernel)
MayUse == setup.may_use     \* MayUse[t]: the handles thread t creates jobs with

Init ==
    /\ setup \in Setups
    /\ jstate = [o \in Objs |-> "NONE"]
    /\ id = [o \in Objs |-> 0]
    /\ buf_handle = [o \in Objs |-> NoBuf]
    /\ jobs = [i \in Ids |-> 0]
    /\ sched = <<>>
    /\ is_free = [b \in Bufs |-> TRUE]
    /\ K!Init
    /\ list = {}
    /\ older = [o \in Objs |-> {}]
    /\ uthread = [o \in Objs |-> Poller]
    /\ pc = [t \in Callers |-> "idle"]
    /\ arg = [t \in Callers |-> 0]
    /\ ptr = [t \in Callers |-> 0]
    /\ result = [t \in Threads |-> "none"]
    /\ mine = [t \in Threads |-> {}]
    /\ max_cnt = 1
    /\ batch = {}

\* the jobs S without those known by the id i
Without(S, i) == {o \in S : id[o] # i}

Goto(t, l) == pc' = [pc EXCEPT ![t] = l]

\* a call returns; its arguments are forgotten
Return(t) ==
    /\ Goto(t, "idle")
    /\ arg' = [arg EXCEPT ![t] = 0]
    /\ ptr' = [ptr EXCEPT ![t] = 0]

\* a wait returns with r
WaitReturn(t, r) == Return(t) /\ result' = [result EXCEPT ![t] = r]

-----------------------------------------------------------------------------
(* build_new_job                                                           *)

\* Mutant: a scheduled job does not count.
ExistsUnscheduled(i) == jobs[i] # 0 /\ jstate[jobs[i]] \in {"BUILT", "DONE", "EXCEPTION"}

\* is_job_exist_inner; jobs in state TIMEOUT or NO_STATE do not count
Exists(i) == jobs[i] # 0 /\ jstate[jobs[i]] \in {"BUILT", "SCHED", "DONE", "EXCEPTION"}

\* create_job_id_inner: the first id with no such job
CreateJobId == CHOOSE i \in Ids : ~Exists(i) /\ \A k \in Ids : k < i => Exists(k)

\* the jobs still to be made, of the setup.max_jobs
Fresh == {o \in 1..setup.max_jobs : jstate[o] = "NONE"}

\* the handle is found free
BuildTest(t, b) ==
    /\ pc[t] = "idle"
    /\ b \in MayUse[t]
    /\ Fresh # {}
    /\ Cardinality(mine[t]) < setup.max_own
    /\ is_free[b]
    /\ Goto(t, "claim")
    /\ arg' = [arg EXCEPT ![t] = b]
    /\ UNCHANGED <<setup, table, kernel, ptr, result, mine, poll>>

\* it is marked as used and its read-only data and descriptors are loaded and
\* patched (GraphBinary models the patching)
BuildClaim(t) ==
    /\ pc[t] = "claim"
    /\ is_free' = [is_free EXCEPT ![arg[t]] = FALSE]
    /\ Goto(t, "insert")
    /\ UNCHANGED <<setup, jstate, id, buf_handle, jobs, sched, kernel, arg,
                   ptr, result, mine, poll>>

\* the job is made and entered in the table, under job_queue_lock
BuildInsert(t) ==
    \E o \in Objs :
        /\ pc[t] = "insert"
        /\ o \in Fresh /\ \A p \in Fresh : o <= p
        /\ jstate' = [jstate EXCEPT ![o] = "BUILT"]
        /\ id' = [id EXCEPT ![o] = CreateJobId]
        /\ buf_handle' = [buf_handle EXCEPT ![o] = arg[t]]
        /\ jobs' = [jobs EXCEPT ![CreateJobId] = o]
        /\ mine' = [mine EXCEPT ![t] = @ \cup {o}]
        /\ Return(t)
        /\ UNCHANGED <<setup, sched, is_free, kernel, result, poll>>

-----------------------------------------------------------------------------
(* flush_job                                                               *)

\* the id of a job the thread has not flushed before
FlushTest(t, o) ==
    LET i == id[o] IN
    /\ pc[t] = "idle"
    /\ o \in mine[t]
    /\ jstate[o] = "BUILT"
    /\ jobs[i] # 0
    /\ jstate[jobs[i]] = "BUILT"
    /\ ptr' = [ptr EXCEPT ![t] = jobs[i]]
    /\ Goto(t, "mark")
    /\ UNCHANGED <<setup, table, kernel, arg, result, mine, poll>>

FlushMark(t) ==
    /\ pc[t] = "mark"
    /\ jstate' = [jstate EXCEPT ![ptr[t]] = "SCHED"]
    /\ sched' = Append(sched, id[ptr[t]])
    /\ Goto(t, "ioctl")
    /\ UNCHANGED <<setup, id, buf_handle, jobs, is_free, kernel, arg, ptr,
                   result, mine, poll>>

\* schedule_job_on_aipu, RUNJOB: the session_job is listed
FlushList(t) ==
    /\ pc[t] = "ioctl"
    /\ K!List(ptr[t])
    /\ list' = list \cup {ptr[t]}
    /\ older' = [older EXCEPT ![ptr[t]] = list]
    /\ uthread' = [uthread EXCEPT ![ptr[t]] = t]
    /\ Goto(t, "queue")
    /\ UNCHANGED <<setup, table, arg, ptr, result, mine, poll>>

\* ... and queued, or started at once; flush_job returns
FlushQueue(t) ==
    /\ pc[t] = "queue"
    /\ \/ K!Queue(ptr[t])
       \/ \E o \in Objs : K!QueueAndStart(ptr[t], o)
    /\ Return(t)
    /\ UNCHANGED <<setup, table, list, older, uthread, result, mine, poll>>

\* the ioctl fails before the session_job is listed or after: the state is set to
\* NO_STATE, without a lock, and flush_job returns success all the same
FlushRefused(t) ==
    /\ pc[t] \in {"ioctl", "queue"}
    /\ Refuse
    /\ jstate' = [jstate EXCEPT ![ptr[t]] = "NO_STATE"]
    /\ Return(t)
    /\ UNCHANGED <<setup, id, buf_handle, jobs, sched, is_free, kernel, result,
                   mine, poll>>

-----------------------------------------------------------------------------
(* wait_for_job_end                                                        *)

\* poll() on the device returns POLLIN: with a job of its own in the list a
\* thread waits for one of those, otherwise for any
Ended == {o \in list : phase[o] = "end"}

\* Mutant: any ended job wakes every thread.
ReadyForAny(t) == Ended # {}

\* Mutant: the jobs of the thread itself are left out.
ReadyForOthers(t) == {o \in Ended : uthread[o] # t} # {}

ReadyFor(t) ==
    LET own == {o \in list : uthread[o] = t}
    IN IF own # {} THEN Ended \cap own # {} ELSE Ended # {}

\* the job has ended already: get_job_status
WaitEnded(t, o) ==
    LET i == id[o] IN
    /\ pc[t] = "idle"
    /\ o \in mine[t]
    /\ jobs[i] # 0
    /\ jstate[jobs[i]] \in {"DONE", "EXCEPTION", "TIMEOUT"}
    /\ WaitReturn(t, jstate[jobs[i]])
    /\ UNCHANGED <<setup, table, kernel, mine, poll>>

\* it has not: is_job_sched rejects a job that was only built and no other
WaitEnter(t, o) ==
    LET i == id[o] IN
    /\ pc[t] = "idle"
    /\ o \in mine[t]
    /\ jobs[i] # 0
    /\ jstate[jobs[i]] \in {"SCHED", "NO_STATE"}
    /\ Goto(t, IF PollOpt THEN "sleep" ELSE "poll")
    /\ arg' = [arg EXCEPT ![t] = i]
    /\ ptr' = [ptr EXCEPT ![t] = jobs[i]]
    /\ UNCHANGED <<setup, table, kernel, result, mine, poll>>

\* the id has been taken out of the table behind the thread's back
WaitNotExist(t, o) ==
    LET i == id[o] IN
    /\ pc[t] = "idle"
    /\ o \in mine[t]
    /\ jobs[i] = 0
    /\ mine' = [mine EXCEPT ![t] = Without(@, i)]
    /\ WaitReturn(t, "JOB_NOT_EXIST")
    /\ UNCHANGED <<setup, table, kernel, poll>>

\* poll_status: poll()
PollReady(t) ==
    /\ pc[t] = "poll"
    /\ ReadyFor(t)
    /\ Goto(t, "query")
    /\ UNCHANGED <<setup, table, kernel, arg, ptr, result, mine, poll>>

PollTimeout(t) ==
    /\ pc[t] = "poll"
    /\ Timed
    /\ ~ReadyFor(t)
    /\ Goto(t, "kill")
    /\ UNCHANGED <<setup, table, kernel, arg, ptr, result, mine, poll>>

\* QUERYSTATUS hands out S: it leaves the list and keeps its order.
HandOut(S) ==
    /\ K!Collect(S)
    /\ list' = list \ S
    /\ older' = [o \in Objs |-> IF o \in S THEN older[o] \cap S ELSE older[o] \ S]

\* the first one of S in the list, which has the newest job in front
Newest(S) == {o \in S : \A p \in S : o \notin older[p]}

\* QUERYSTATUS of the one job: the newest ended one with that id is handed out;
\* without one the ioctl and with it the wait fails
QuerySingle(t) ==
    LET match == {o \in Ended : id[o] = arg[t]}
    IN /\ pc[t] = "query" /\ t \in Threads
       /\ \/ /\ match = {}
             /\ WaitReturn(t, "NULL_PTR")
             /\ UNCHANGED kernel
          \/ \E o \in Newest(match) :
             /\ HandOut({o})
             /\ ptr' = [ptr EXCEPT ![t] = o]
             /\ Goto(t, "update")
             /\ UNCHANGED <<uthread, arg, result>>
       /\ UNCHANGED <<setup, table, mine, poll>>

\* update_job_status(&status, 0): the job now in the table under that id
WaitUpdate(t) ==
    /\ pc[t] = "update" /\ t \in Threads
    /\ \/ /\ jobs[arg[t]] = 0
          /\ jstate' = jstate
          /\ WaitReturn(t, "JOB_NOT_EXIST")
       \/ \E st \in {"DONE", "EXCEPTION"} :
            /\ jobs[arg[t]] # 0
            /\ jstate' = [jstate EXCEPT ![jobs[arg[t]]] = st]
            /\ WaitReturn(t, st)
    /\ UNCHANGED <<setup, id, buf_handle, jobs, sched, is_free, kernel, mine,
                   poll>>

\* KILL_TIMEOUT_JOB: the jobs of this thread with this id; a pending one is found
\* first, and one that has ended hides the others while it is still linked
Oldest(S) == {o \in S : \A p \in S : o <= p}

KillTarget(t, i) ==
    LET match(ph) == {o \in Objs : uthread[o] = t /\ id[o] = i /\ phase[o] \in ph}
    IN IF match({"queued"}) # {} THEN {Oldest(match({"queued"}))}
       ELSE IF match({"late"}) # {} THEN {{}}
       ELSE IF match({"end", "gone"}) # {} THEN {{}, match({"running"})}
       ELSE {match({"running"})}

WaitKill(t) ==
    /\ pc[t] = "kill"
    /\ \E S \in KillTarget(t, arg[t]) : K!Cancel(S)
    /\ Goto(t, "timeout")
    /\ UNCHANGED <<setup, table, list, older, uthread, arg, ptr, result, mine, poll>>

\* ... and the state is set to TIMEOUT: by wait_for_job_end in the table, by
\* wait_for_job_end_sleep through its pointer and without the lock (a store to a
\* deleted object is lost)
WaitTimeout(t) ==
    LET o == IF PollOpt THEN ptr[t] ELSE jobs[arg[t]]
    IN /\ pc[t] = "timeout"
       /\ jstate' = [p \in Objs |-> IF p = o /\ jstate[p] # "DELETED"
                                      THEN "TIMEOUT" ELSE jstate[p]]
       /\ WaitReturn(t, "TIMEOUT")
       /\ UNCHANGED <<setup, id, buf_handle, jobs, sched, is_free, kernel,
                      mine, poll>>

\* wait_for_job_end_sleep wakes up: with an infinite timeout only when the state
\* is final, with a timed wait at any moment
SleepWake(t) ==
    LET final == jstate[ptr[t]] \in {"DONE", "EXCEPTION"}
    IN /\ pc[t] = "sleep"
       /\ final \/ Timed
       /\ \/ final /\ WaitReturn(t, jstate[ptr[t]])
          \/ ~final /\ Goto(t, "kill") /\ UNCHANGED <<arg, ptr, result>>
       /\ UNCHANGED <<setup, table, kernel, mine, poll>>

-----------------------------------------------------------------------------
(* poll_job_status, in a thread of its own                                 *)

\* get_max_poll_job_cnt
PollCount ==
    /\ PollOpt
    /\ pc[Poller] = "idle"
    /\ max_cnt' = 1 + Len(sched)
    /\ Goto(Poller, "poll")
    /\ UNCHANGED <<setup, table, kernel, arg, ptr, result, mine, batch>>

PollerReady ==
    /\ pc[Poller] = "poll"
    /\ ReadyFor(Poller)
    /\ Goto(Poller, "query")
    /\ UNCHANGED <<setup, table, kernel, arg, ptr, result, mine, poll>>

\* the first max_cnt ended jobs of the list
Taken == {o \in Ended : Cardinality({p \in Ended : o \in older[p]}) < max_cnt}

\* Mutant: one status is read and the rest of the answer is thrown away.
QueryAllFirst ==
    /\ pc[Poller] = "query"
    /\ HandOut(Taken)
    /\ batch' = Newest(Taken)
    /\ Goto(Poller, "update")
    /\ UNCHANGED <<setup, table, uthread, arg, ptr, result, mine, max_cnt>>

\* QUERYSTATUS of at most max_cnt jobs
QueryAll ==
    /\ pc[Poller] = "query"
    /\ HandOut(Taken)
    /\ batch' = Taken
    /\ Goto(Poller, "update")
    /\ UNCHANGED <<setup, table, uthread, arg, ptr, result, mine, max_cnt>>

\* update_job_status(&status, 1) of the next one; an id that is not in the table
\* ends the loop
BatchUpdate ==
    /\ pc[Poller] = "update"
    /\ \E o \in Newest(batch) :
        \/ \E st \in {"DONE", "EXCEPTION"} :
            /\ jobs[id[o]] # 0
            /\ jstate' = [jstate EXCEPT ![jobs[id[o]]] = st]
            /\ batch' = batch \ {o}
        \/ /\ jobs[id[o]] = 0
           /\ jstate' = jstate
           /\ batch' = {}
    /\ older' = [p \in Objs |-> IF p \in batch \ batch' THEN {} ELSE older[p]]
    /\ UNCHANGED <<setup, id, buf_handle, jobs, sched, is_free, phase, list, uthread,
                   thread, max_cnt>>

BatchEnd ==
    /\ pc[Poller] = "update"
    /\ batch = {}
    /\ Goto(Poller, "idle")
    /\ UNCHANGED <<setup, table, kernel, arg, ptr, result, mine, poll>>

-----------------------------------------------------------------------------
(* clean_job                                                               *)

\* Mutant: a scheduled job can be cleaned as well.
CleanFreeScheduled(t, o) ==
    LET i == id[o] IN
    /\ pc[t] = "idle"
    /\ o \in mine[t]
    /\ jobs[i] # 0
    /\ jstate[jobs[i]] # "BUILT"
    /\ ptr' = [ptr EXCEPT ![t] = jobs[i]]
    /\ is_free' = [is_free EXCEPT ![buf_handle[jobs[i]]] = TRUE]
    /\ Goto(t, "erase")
    /\ UNCHANGED <<setup, jstate, id, buf_handle, jobs, sched, kernel, arg,
                   result, mine, poll>>

\* the buffer of a job that is neither built nor scheduled is free again
CleanFree(t, o) ==
    LET i == id[o] IN
    /\ pc[t] = "idle"
    /\ o \in mine[t]
    /\ jobs[i] # 0
    /\ jstate[jobs[i]] \notin {"BUILT", "SCHED"}
    /\ ptr' = [ptr EXCEPT ![t] = jobs[i]]
    /\ is_free' = [is_free EXCEPT ![buf_handle[jobs[i]]] = TRUE]
    /\ Goto(t, "erase")
    /\ UNCHANGED <<setup, jstate, id, buf_handle, jobs, sched, kernel, arg,
                   result, mine, poll>>

\* delete_from_sched_queue_inner: the first entry with this id
DeleteFromSched(i) ==
    IF \E n \in DOMAIN sched : sched[n] = i
      THEN RemoveAt(sched, CHOOSE n \in DOMAIN sched :
                             sched[n] = i /\ \A m \in 1..n-1 : sched[m] # i)
      ELSE sched

\* the job leaves the table, under job_queue_lock, and is deleted
CleanErase(t) ==
    LET o == ptr[t]
    IN /\ pc[t] = "erase"
       /\ sched' = DeleteFromSched(id[o])
       /\ jobs' = [jobs EXCEPT ![id[o]] = 0]
       /\ jstate' = [jstate EXCEPT ![o] = "DELETED"]
       /\ mine' = [mine EXCEPT ![t] = Without(@, id[o])]
       /\ Return(t)
       /\ UNCHANGED <<setup, id, buf_handle, is_free, kernel, result, poll>>

-----------------------------------------------------------------------------
\* The kernel and the device (AipuJobManager implements these steps)
Session ==
    /\ \E o \in Objs : K!Start(o) \/ K!Finish(o) \/ K!Deliver(o)
    /\ UNCHANGED <<setup, table, list, older, uthread, thread, poll>>

Create(t) == (\E b \in Bufs : BuildTest(t, b)) \/ BuildClaim(t) \/ BuildInsert(t)

Flush(t) == (\E o \in Objs : FlushTest(t, o)) \/ FlushMark(t) \/ FlushList(t)
            \/ FlushQueue(t) \/ FlushRefused(t)

\* the steps of a wait after its entry
Wait(t) == \/ PollReady(t) \/ PollTimeout(t) \/ QuerySingle(t) \/ WaitUpdate(t)
           \/ WaitKill(t) \/ WaitTimeout(t) \/ SleepWake(t)

StartWait(t) == \E o \in Objs : WaitEnded(t, o) \/ WaitEnter(t, o) \/ WaitNotExist(t, o)

Clean(t) == (\E o \in Objs : CleanFree(t, o)) \/ CleanErase(t)

Poll == PollCount \/ PollerReady \/ QueryAll \/ BatchUpdate \/ BatchEnd

Next ==
    \/ \E t \in Threads : Create(t) \/ Flush(t) \/ StartWait(t) \/ Wait(t) \/ Clean(t)
    \/ Poll
    \/ Session

Spec == Init /\ [][Next]_vars

\* Threads run and the polling thread polls again and again; the kernel starts
\* and ends what it is given and reports it, which AipuJobManager guarantees.
FairSpec ==
    /\ Spec
    /\ \A t \in Threads : WF_vars(Wait(t)) /\ WF_vars(Flush(t))
    /\ WF_vars(Poll)
    /\ WF_vars(Session)

-----------------------------------------------------------------------------
(* Properties.                                                             *)

\* AIPU_JOB_STATUS_DONE, "job execution successfully": as long as nobody uses a
\* timeout, a job is marked as ended only with its own status, so never while it is
\* queued or on the device.
EndIsTrue ==
    ~Timed => \A o \in Objs : jstate[o] \in {"DONE", "EXCEPTION"} => phase[o] = "gone"

\* The buffer of a job that is queued or on the device is not used by anyone else,
\* as long as no timeout gives it up and no two threads ask for one handle: no
\* other job of the table has it and no thread is loading data into it.
\* AIPU_STATUS_ERROR_BUSY_HANDLE, "Job buffer handle provided is not a free one
\* which is under using by another job", is what should prevent that.
BufferExclusive ==
    \A o \in Objs : ~Timed /\ phase[o] \in {"queued", "running", "stale"} =>
        /\ ~is_free[buf_handle[o]]
        /\ \A i \in Ids : jobs[i] # 0 /\ buf_handle[jobs[i]] = buf_handle[o]
                            => jobs[i] = o
        /\ \A t \in Threads : pc[t] \in {"claim", "insert"} => arg[t] # buf_handle[o]

\* one thread uses the graph
Alone == ~PollOpt /\ \E t \in Threads : \A u \in Threads \ {t} : MayUse[u] = {}

\* No status is lost between the kernel, which hands it out once, and the table:
\* a collected job still marked as scheduled has its status in the hands of a
\* thread that is going to apply it.  ("This API is used to poll and update all
\* jobs' status share the same context.")  With timeouts that takes one
\* thread which polls for itself: the id of a job that timed out is given to
\* another one, and the status of the first goes to the wrong job.
NoStatusLost ==
    \A o \in Objs : (~Timed \/ Alone) /\ phase[o] = "gone" /\ jstate[o] = "SCHED" =>
        \/ \E t \in Threads : pc[t] = "update" /\ ptr[t] = o
        \/ o \in batch

\* Without timeouts a wait for a scheduled job gives its status, never an error:
\* the one job of the thread has ended when poll() says that something has.  ("in
\* single thread application, application need no such additional operations")
WaitSucceeds ==
    \A t \in Threads :
        ~Timed /\ setup.max_own = 1 => result[t] \notin {"NULL_PTR", "JOB_NOT_EXIST"}

\* Every wait returns: without a timeout when the kernel takes every job, and with
\* one whatever happens to the job.
WaitReturns ==
    \A t \in Threads : pc[t] \in {"poll", "query", "update", "sleep"} ~> pc[t] = "idle"
=============================================================================
