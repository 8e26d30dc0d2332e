------------------------------ MODULE AipuPoll ------------------------------
(***************************************************************************)
(* poll() on a file descriptor of the driver: aipu_poll (aipu_fops.c), the *)
(* wait queues of a session (aipu_thread_waitqueue.c) and the functions of *)
(* aipu_session.c that choose the queue a thread sleeps on and the queue   *)
(* the end of a job wakes.                                                 *)
(*                                                                         *)
(* One session is modelled.  poll() itself is the kernel's: it calls       *)
(* aipu_poll once to be put on a queue and to test the condition, sleeps   *)
(* if it is false, and calls aipu_poll again after each wake-up.           *)
(***************************************************************************)
EXTENDS FiniteSets

CONSTANTS
    Jobs,           \* the jobs submitted on the descriptor
    Threads,        \* the threads that use it
    Uthread,        \* Uthread[j]: the thread that submits j
    Usages          \* the ways the threads may share the descriptor, see usage

\* what is assumed of the constants
PollConstants ==
    /\ Uthread \in [Jobs -> Threads]
    /\ Usages \subseteq [own : SUBSET Threads, any : SUBSET Threads]

VARIABLES
    usage,              \* usage.own: the threads that poll and query only for jobs of
                        \* their own; usage.any: the threads that do for all jobs
    sjob,               \* session_job: "none", "active", "dead" (killed), "end", "freed"
    queues,             \* threads that have a wait queue
    single_thread_poll, \* the flag of the session
    poll,               \* poll[t]: "no", "check" or "sleep"
    queue,              \* queue[t]: where poll put t: "none", "own" or "com"
    woken               \* woken[t]: a wake-up has reached the poll of t

vars == <<usage, sjob, queues, single_thread_poll, poll, queue, woken>>
pollvars == <<poll, queue, woken>>

Init ==
    /\ usage \in Usages
    /\ sjob = [j \in Jobs |-> "none"]
    /\ queues = {}
    /\ single_thread_poll = FALSE
    /\ poll = [t \in Threads |-> "no"]
    /\ queue = [t \in Threads |-> "none"]
    /\ woken = [t \in Threads |-> FALSE]

Listed == {j \in Jobs : sjob[j] \in {"active", "dead", "end"}}
Own(t) == {j \in Listed : Uthread[j] = t}
Ended  == {j \in Jobs : sjob[j] = "end"}

-----------------------------------------------------------------------------

\* aipu_session_thread_has_end_job: a thread with a job in the list is asked
\* for its own jobs, another one for all
HasEndJob(t) == IF Own(t) # {} THEN Own(t) \cap Ended # {} ELSE Ended # {}

\* create_thread_wait_queue_no_lock: a queue for a thread that has none yet
CreateThreadWaitQueue(t) == queues' = queues \cup {t}

\* aipu_session_add_job: the job is listed and its thread given a queue
AddJob(j) ==
    /\ sjob[j] = "none"
    /\ poll[Uthread[j]] = "no"
    /\ sjob' = [sjob EXCEPT ![j] = "active"]
    /\ CreateThreadWaitQueue(Uthread[j])
    /\ UNCHANGED <<usage, single_thread_poll, pollvars>>

\* KILL_TIMEOUT_JOB: the job manager forgets the job, the session does not
KillJob(j) ==
    /\ sjob[j] = "active"
    /\ poll[Uthread[j]] = "no"
    /\ sjob' = [sjob EXCEPT ![j] = "dead"]
    /\ UNCHANGED <<usage, queues, single_thread_poll, pollvars>>

WakeUp(S) == woken' = [t \in Threads |-> woken[t] \/ (poll[t] # "no" /\ t \in S)]

\* Mutant: the end of a job wakes the common queue.
JobDoneComWait(j) ==
    /\ sjob[j] = "active"
    /\ sjob' = [sjob EXCEPT ![j] = "end"]
    /\ WakeUp({t \in Threads : queue[t] = "com"})
    /\ UNCHANGED <<usage, queues, single_thread_poll, poll, queue>>

\* aipu_session_job_done
JobDone(j) ==
    /\ sjob[j] = "active"
    /\ sjob' = [sjob EXCEPT ![j] = "end"]
    /\ IF single_thread_poll
         THEN IF Uthread[j] \in queues
                THEN WakeUp({t \in {Uthread[j]} : queue[t] = "own"})
                ELSE UNCHANGED woken
         ELSE WakeUp({t \in Threads : queue[t] = "com"})
    /\ UNCHANGED <<usage, queues, single_thread_poll, poll, queue>>

\* aipu_session_add_poll_wait_queue: single_thread_poll, once set, stays set
AddPollWaitQueue(t) ==
    /\ single_thread_poll' = (single_thread_poll \/ (Own(t) # {} /\ t \in queues))
    /\ queue' = [queue EXCEPT ![t] =
                   IF Own(t) # {} /\ t \in queues THEN "own"
                   ELSE IF ~single_thread_poll THEN "com" ELSE "none"]

\* poll(): a thread of usage.own polls while it has a job
PollEnter(t) ==
    /\ poll[t] = "no"
    /\ t \in usage.any \/ (t \in usage.own /\ Own(t) # {})
    /\ AddPollWaitQueue(t)
    /\ poll' = [poll EXCEPT ![t] = "check"]
    /\ woken' = [woken EXCEPT ![t] = FALSE]
    /\ UNCHANGED <<usage, sjob, queues>>

PollLeave(t) ==
    /\ poll' = [poll EXCEPT ![t] = "no"]
    /\ queue' = [queue EXCEPT ![t] = "none"]
    /\ woken' = [woken EXCEPT ![t] = FALSE]
    /\ UNCHANGED <<usage, sjob, queues, single_thread_poll>>

\* the second half of aipu_poll: POLLIN, or the thread goes to sleep
PollReady(t) == poll[t] = "check" /\ HasEndJob(t) /\ PollLeave(t)

PollSleep(t) ==
    /\ poll[t] = "check" /\ ~HasEndJob(t)
    /\ poll' = [poll EXCEPT ![t] = "sleep"]
    /\ UNCHANGED <<usage, sjob, queues, single_thread_poll, queue, woken>>

\* aipu_poll again; the thread keeps its place on the queue
PollAgain(t) ==
    /\ poll[t] = "sleep" /\ woken[t]
    /\ poll' = [poll EXCEPT ![t] = "check"]
    /\ woken' = [woken EXCEPT ![t] = FALSE]
    /\ single_thread_poll' = (single_thread_poll \/ (Own(t) # {} /\ t \in queues))
    /\ UNCHANGED <<usage, sjob, queues, queue>>

PollTimeout(t) == poll[t] = "sleep" /\ PollLeave(t)

\* QUERYSTATUS: a thread of usage.own takes one job of its own, one of
\* usage.any as many as it asked for
GetJobStatus(t) ==
    /\ poll[t] = "no"
    /\ \E R \in SUBSET Ended :
         /\ R # {}
         /\ t \notin usage.any => R \subseteq Own(t) /\ Cardinality(R) = 1
         /\ sjob' = [j \in Jobs |-> IF j \in R THEN "freed" ELSE sjob[j]]
    /\ UNCHANGED <<usage, queues, single_thread_poll, pollvars>>

Next ==
    \/ \E j \in Jobs : AddJob(j) \/ KillJob(j) \/ JobDone(j)
    \/ \E t \in Threads :
         \/ PollEnter(t) \/ PollReady(t) \/ PollSleep(t) \/ PollAgain(t)
         \/ PollTimeout(t) \/ GetJobStatus(t)

Spec == Init /\ [][Next]_vars

-----------------------------------------------------------------------------
(* Properties.                                                             *)

\* No wake-up is lost: a thread sleeps in poll() while its condition is true only
\* if a wake-up is on its way to it.
NoLostWakeup == \A t \in Threads : poll[t] = "sleep" /\ HasEndJob(t) => woken[t]
=============================================================================
