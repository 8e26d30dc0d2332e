-------------------------- MODULE UmdGraphProofs ---------------------------
(***************************************************************************)
(* Proofs about UmdGraph, for any jobs, handles, threads and setups.  In   *)
(* a setup without timeouts every thread has handles of its own and the    *)
(* kernel takes every job (HandlesApart), as the documentation asks.  A    *)
(* job is then marked as ended only with its own status, the buffer of a   *)
(* job on the device is nobody else's, no status is lost between the       *)
(* kernel and the table, and a wait gets the status it waits for.          *)
(*                                                                         *)
(* The ids of jobs are reused, and every step goes through an id.  What    *)
(* keeps jobs apart: an id in use is not given out (TableOK), a thread     *)
(* works on jobs of its own (OwnersOK, ThreadOK), and, without timeouts, a *)
(* job keeps its entry of the table and its buffer until its thread cleans *)
(* it (OwnOK), while its state follows what the kernel does (JobsOK).      *)
(***************************************************************************)
EXTENDS UmdGraph, TLAPS, FiniteSetTheorems, WellFoundedInduction

-----------------------------------------------------------------------------
\* Who uses no timeout gives each thread its own handles, and the kernel refuses nothing.
HandlesApart ==
    \A s \in Setups : ~s.timed =>
        /\ ~s.refuse
        /\ \A t, u \in Threads : t # u => s.may_use[t] \cap s.may_use[u] = {}

\* What the theorems are about: no timeouts, or one thread that polls for itself
Calm == ~Timed
Core == Calm \/ Alone

-----------------------------------------------------------------------------
(* The inductive invariant.                                                *)

JobStates  == {"NONE", "BUILT", "SCHED", "DONE", "EXCEPTION", "TIMEOUT", "NO_STATE", "DELETED"}
FlushPcs   == {"mark", "ioctl", "queue"}
WaitPcs    == {"poll", "query", "update", "kill", "timeout", "sleep"}
ThreadPcs  == {"idle", "claim", "insert", "erase"} \cup FlushPcs \cup WaitPcs

GraphTypeOK ==
    /\ setup \in Setups
    /\ jstate \in [Objs -> JobStates]
    /\ id \in [Objs -> Ids]
    /\ buf_handle \in [Objs -> Bufs \cup {NoBuf}]
    /\ jobs \in [Ids -> {0} \cup Objs]
    /\ is_free \in [Bufs -> BOOLEAN]
    /\ phase \in [Objs -> K!Phases]
    /\ list \subseteq Objs /\ batch \subseteq Objs
    /\ older \in [Objs -> SUBSET Objs]
    /\ uthread \in [Objs -> Callers]
    /\ DOMAIN pc = Callers /\ arg \in [Callers -> Ids \cup Bufs] /\ DOMAIN result = Threads
    /\ ptr \in [Callers -> {0} \cup Objs]
    /\ \A t \in Threads : pc[t] \in ThreadPcs
    /\ mine \in [Threads -> SUBSET Objs]

\* Either the threads poll or the poller does.
PollerOK ==
    /\ pc[Poller] \in {"idle", "poll", "query", "update"}
    /\ PollOpt => \A t \in Threads : pc[t] \notin {"poll", "query", "update"}
    /\ ~PollOpt => pc[Poller] = "idle"
    /\ pc[Poller] # "update" => batch = {}

\* An entry of the table is a job with that id; a job that counts has its entry, and
\* its id is nobody else's; the kernel knows nothing of a job before it is flushed.
TableOK ==
    /\ \A i \in Ids : jobs[i] # 0 =>
         id[jobs[i]] = i /\ jstate[jobs[i]] \notin {"NONE", "DELETED"}
    /\ \A o \in Objs : jstate[o] \in {"BUILT", "SCHED", "DONE", "EXCEPTION"} => jobs[id[o]] = o
    /\ \A o \in Objs : jstate[o] \in {"NONE", "BUILT"} => phase[o] = "none"

\* A job of the table belongs to one thread.
OwnersOK ==
    /\ \A t, u \in Threads : t # u => mine[t] \cap mine[u] = {}
    /\ \A i \in Ids : jobs[i] # 0 => \E t \in Threads : jobs[i] \in mine[t]

\* A thread flushes and cleans its own jobs; while it waits it knows the id, and a status
\* it has in hand has been collected.  Where one thread is alone, the others do nothing.
ThreadOK(t) ==
    /\ \A o \in mine[t] : jstate[o] # "NONE"
    /\ pc[t] \in FlushPcs \cup {"erase"} => ptr[t] \in mine[t]
    /\ pc[t] = "mark" => jstate[ptr[t]] = "BUILT"
    /\ pc[t] \in {"ioctl", "queue"} => jstate[ptr[t]] = "SCHED"
    /\ pc[t] = "erase" => jstate[ptr[t]] \notin {"BUILT", "SCHED"} /\ jobs[id[ptr[t]]] = ptr[t]
    /\ pc[t] \in WaitPcs => ptr[t] \in Objs /\ arg[t] = id[ptr[t]]
    /\ pc[t] = "update" => phase[ptr[t]] = "gone"
    /\ pc[t] \in {"claim", "insert"} => arg[t] \in MayUse[t] \cap Bufs
    /\ Alone /\ MayUse[t] = {} => pc[t] = "idle" /\ mine[t] = {}

\* Without timeouts the state of a job follows what the kernel did with it, ...
OnDevice == {"queued", "running", "late", "end"}
JobsOK ==
    /\ \A o \in Objs : jstate[o] \notin {"TIMEOUT", "NO_STATE"}
    /\ \A o \in Objs : phase[o] \in {"none", "listed", "gone"} \cup OnDevice
    /\ \A o \in Objs : phase[o] \in {"listed"} \cup OnDevice => jstate[o] = "SCHED"
    /\ \A o \in Objs : jstate[o] \in {"DONE", "EXCEPTION"} => phase[o] = "gone"
    /\ \A o \in Objs : jstate[o] = "SCHED" /\ phase[o] = "none" =>
         \E t \in Threads : pc[t] = "ioctl" /\ ptr[t] = o
    /\ \A o \in Objs : phase[o] = "listed" => \E t \in Threads : pc[t] = "queue" /\ ptr[t] = o
    /\ \A o \in batch : phase[o] = "gone" /\ jstate[o] = "SCHED"
    /\ \A o \in Objs : o \in list <=> phase[o] \in {"listed"} \cup OnDevice
    /\ \A o \in list : \A t \in Threads : uthread[o] = t <=> o \in mine[t]

\* ... a job keeps its entry, and its buffer is its own until its thread cleans it, ...
OwnOK(t) ==
    /\ \A o \in mine[t] : jobs[id[o]] = o
    /\ \A o \in mine[t] : buf_handle[o] \in MayUse[t] \cap Bufs
    /\ \A o, p \in mine[t] : buf_handle[o] = buf_handle[p] => o = p
    /\ \A o \in mine[t] : ~is_free[buf_handle[o]] \/ (pc[t] = "erase" /\ ptr[t] = o)
    /\ pc[t] \in {"claim", "insert"} => \A o \in mine[t] : buf_handle[o] # arg[t]
    /\ pc[t] = "insert" => ~is_free[arg[t]]

\* ... and a thread that waits knows how far its job is.
WaitOK(t) ==
    /\ pc[t] \notin {"kill", "timeout"}
    /\ pc[t] \in WaitPcs => ptr[t] \in mine[t]
    /\ pc[t] = "ioctl" => phase[ptr[t]] = "none"
    /\ pc[t] = "queue" => phase[ptr[t]] = "listed"
    /\ pc[t] \in {"poll", "query"} => phase[ptr[t]] \in OnDevice
    /\ pc[t] = "update" => jstate[ptr[t]] = "SCHED"
    /\ setup.max_own = 1 =>
         /\ \A o, p \in mine[t] : o = p
         /\ pc[t] \in {"claim", "insert"} => mine[t] = {}
         /\ pc[t] = "query" => phase[ptr[t]] = "end"
         /\ result[t] \notin {"NULL_PTR", "JOB_NOT_EXIST"}

CoreInv ==
    /\ GraphTypeOK /\ PollerOK /\ TableOK /\ OwnersOK
    /\ \A t \in Threads : ThreadOK(t)
    /\ NoStatusLost
    /\ Calm => JobsOK
    /\ Calm => \A t \in Threads : OwnOK(t) /\ WaitOK(t)

GraphInv == setup \in Setups /\ (Core => CoreInv)

-----------------------------------------------------------------------------
(* What a step leaves alone.                                               *)

\* The setup is chosen once.
LEMMA SetupStays ==
  ASSUME setup' = setup
  PROVE  /\ Calm' <=> Calm
         /\ Alone' <=> Alone
         /\ Core' <=> Core
         /\ PollOpt' = PollOpt /\ MayUse' = MayUse /\ Timed' = Timed
<1>1. PollOpt' = PollOpt /\ MayUse' = MayUse /\ Timed' = Timed
  BY DEF PollOpt, MayUse, Timed
<1>2. Calm' <=> Calm
  BY <1>1 DEF Calm
<1>3. Alone' <=> Alone
  BY <1>1 DEF Alone
<1> QED
  BY <1>1, <1>2, <1>3 DEF Core

\* What the setups say without timeouts
LEMMA CalmSetup ==
  ASSUME HandlesApart, setup \in Setups, Calm
  PROVE  /\ ~Refuse
         /\ \A t, u \in Threads : t # u => MayUse[t] \cap MayUse[u] = {}
BY DEF HandlesApart, Calm, Timed, Refuse, MayUse

\* A thread that does anything has a handle.
LEMMA ActiveHasHandle ==
  ASSUME NEW t \in Threads, ThreadOK(t), pc[t] # "idle" \/ mine[t] # {}, Core, ~Calm
  PROVE  MayUse[t] # {}
BY DEF ThreadOK, Core

\* With timeouts one thread is alone, and the others do nothing.
LEMMA OthersIdle ==
  ASSUME Core, ~Calm, NEW t \in Threads, MayUse[t] # {}, NEW u \in Threads \ {t}, ThreadOK(u)
  PROVE  Alone /\ MayUse[u] = {} /\ pc[u] = "idle" /\ mine[u] = {}
<1>1. Alone
  BY DEF Core
<1>2. MayUse[u] = {}
  BY <1>1 DEF Alone
<1> QED
  BY <1>1, <1>2 DEF ThreadOK

\* How a job moves on while the kernel works on it
Moves(p, q) == q = p \/ (p \in OnDevice /\ q \in OnDevice /\ p # "end")

\* A status is applied to a job that has been collected.
Applied(o) == phase[o] = "gone" /\ jstate[o] = "SCHED" /\ jstate'[o] \in {"DONE", "EXCEPTION"}

\* Without timeouts a thread does not mind that its jobs move on, or that the poller collects
\* them and applies their statuses.
LEMMA CalmThread ==
  ASSUME CoreInv, Calm, NEW u \in Threads, UNCHANGED setup,
         pc'[u] = pc[u], arg'[u] = arg[u], ptr'[u] = ptr[u],
         result'[u] = result[u], mine'[u] = mine[u],
         \A o \in mine[u] : /\ id'[o] = id[o] /\ buf_handle'[o] = buf_handle[o]
                            /\ jobs'[id[o]] = jobs[id[o]],
         \A o \in mine[u] : jstate'[o] = jstate[o] \/ (PollOpt /\ Applied(o)),
         \A o \in mine[u] : \/ Moves(phase[o], phase'[o])
                            \/ PollOpt /\ phase[o] = "end" /\ phase'[o] = "gone",
         \A b \in MayUse[u] \cap Bufs : is_free'[b] = is_free[b]
  PROVE  ThreadOK(u)' /\ OwnOK(u)' /\ WaitOK(u)'
<1>1. ThreadOK(u) /\ OwnOK(u) /\ WaitOK(u) /\ (PollOpt => pc[u] \notin {"poll", "query", "update"})
  BY DEF CoreInv, PollerOK
<1>2. MayUse' = MayUse /\ (Alone' <=> Alone)
  BY SetupStays
<1>3. pc[u] \in FlushPcs \cup WaitPcs \cup {"erase"} => ptr[u] \in mine[u]
  BY <1>1 DEF ThreadOK, WaitOK
<1>4. ThreadOK(u)'
  <2>1. /\ \A o \in mine[u] : jstate'[o] # "NONE"
        /\ pc[u] \in FlushPcs \cup {"erase"} => ptr[u] \in mine[u]
    BY <1>1 DEF ThreadOK, Applied
  <2>2. pc[u] = "mark" => jstate'[ptr[u]] = "BUILT"
    BY <1>1, <1>3 DEF ThreadOK, FlushPcs, Applied
  <2>3. pc[u] \in {"ioctl", "queue"} => jstate'[ptr[u]] = "SCHED"
    BY <1>1, <1>3 DEF ThreadOK, WaitOK, FlushPcs, Applied
  <2>4. pc[u] = "erase" =>
          jstate'[ptr[u]] \notin {"BUILT", "SCHED"} /\ jobs'[id'[ptr[u]]] = ptr[u]
    BY <1>1, <1>3 DEF ThreadOK, Applied
  <2>5. pc[u] \in WaitPcs => ptr[u] \in Objs /\ arg[u] = id'[ptr[u]]
    BY <1>1, <1>3 DEF ThreadOK
  <2>6. pc[u] = "update" => phase'[ptr[u]] = "gone"
    BY <1>1, <1>3 DEF ThreadOK, WaitPcs, Moves, OnDevice
  <2>7. /\ pc[u] \in {"claim", "insert"} => arg[u] \in MayUse[u] \cap Bufs
        /\ Alone /\ MayUse[u] = {} => pc[u] = "idle" /\ mine[u] = {}
    BY <1>1 DEF ThreadOK
  <2> QED
    BY <1>2, <2>1, <2>2, <2>3, <2>4, <2>5, <2>6, <2>7 DEF ThreadOK
<1>5. OwnOK(u)'
  <2>1. \A o \in mine[u] : jobs'[id'[o]] = o
    BY <1>1 DEF OwnOK
  <2>2. \A o \in mine[u] : buf_handle'[o] \in MayUse[u] \cap Bufs
    BY <1>1 DEF OwnOK
  <2>3. \A o, p \in mine[u] : buf_handle'[o] = buf_handle'[p] => o = p
    BY <1>1 DEF OwnOK
  <2>4. \A o \in mine[u] : ~is_free'[buf_handle'[o]] \/ (pc[u] = "erase" /\ ptr[u] = o)
    BY <1>1 DEF OwnOK
  <2>5. pc[u] \in {"claim", "insert"} => \A o \in mine[u] : buf_handle'[o] # arg[u]
    BY <1>1 DEF OwnOK
  <2>6. pc[u] = "insert" => ~is_free'[arg[u]]
    BY <1>1 DEF OwnOK, ThreadOK
  <2> QED
    BY <1>2, <2>1, <2>2, <2>3, <2>4, <2>5, <2>6 DEF OwnOK
<1>6. WaitOK(u)'
  <2>1. /\ pc[u] = "ioctl" => phase'[ptr[u]] = "none"
        /\ pc[u] = "queue" => phase'[ptr[u]] = "listed"
        /\ pc[u] \in {"poll", "query"} => phase'[ptr[u]] \in OnDevice
    BY <1>1, <1>3 DEF WaitOK, FlushPcs, WaitPcs, Moves, OnDevice
  <2>2. pc[u] = "update" => jstate'[ptr[u]] = "SCHED"
    BY <1>1, <1>3 DEF WaitOK, WaitPcs
  <2>3. setup.max_own = 1 /\ pc[u] = "query" => phase'[ptr[u]] = "end"
    BY <1>1, <1>3 DEF WaitOK, WaitPcs, Moves
  <2> QED
    BY <1>1, <2>1, <2>2, <2>3 DEF WaitOK
<1> QED
  BY <1>4, <1>5, <1>6

\* A step of t does not disturb another thread, if without timeouts it leaves that
\* thread's jobs alone.
LEMMA OtherThread ==
  ASSUME CoreInv, Core, NEW t \in Threads, MayUse[t] # {}, NEW u \in Threads \ {t},
         UNCHANGED setup, pc'[u] = pc[u], arg'[u] = arg[u], ptr'[u] = ptr[u],
         result'[u] = result[u], mine'[u] = mine[u],
         Calm => \A o \in mine[u] :
                    /\ id'[o] = id[o] /\ buf_handle'[o] = buf_handle[o] /\ jstate'[o] = jstate[o]
                    /\ jobs'[id[o]] = jobs[id[o]] /\ Moves(phase[o], phase'[o]),
         Calm => \A b \in Bufs \ MayUse[t] : is_free'[b] = is_free[b],
         Calm => \A v \in Threads \ {t} : MayUse[v] \cap MayUse[t] = {}
  PROVE  ThreadOK(u)' /\ (Calm => OwnOK(u)' /\ WaitOK(u)')
<1>1. ThreadOK(u)
  BY DEF CoreInv
<1>2. CASE ~Calm
  <2>1. pc[u] = "idle" /\ mine[u] = {}
    BY <1>1, <1>2, OthersIdle
  <2> QED
    BY <1>2, <2>1 DEF ThreadOK, FlushPcs, WaitPcs
<1>3. CASE Calm
  <2>1. \A o \in mine[u] :
           /\ id'[o] = id[o] /\ buf_handle'[o] = buf_handle[o] /\ jstate'[o] = jstate[o]
           /\ jobs'[id[o]] = jobs[id[o]] /\ Moves(phase[o], phase'[o])
    BY <1>3
  <2>2. \A b \in MayUse[u] \cap Bufs : is_free'[b] = is_free[b]
    BY <1>3
  <2> QED
    BY <1>3, <2>1, <2>2, CalmThread
<1> QED
  BY <1>2, <1>3

\* A step that changes only what t knows: its place, its arguments and its result.
LEMMA ThreadStep ==
  ASSUME CoreInv, Core, HandlesApart, NEW t \in Threads, MayUse[t] # {},
         UNCHANGED <<setup, table, kernel, mine, poll>>,
         NEW l \in ThreadPcs, NEW a \in Ids \cup Bufs, NEW o \in {0} \cup Objs,
         pc' = [pc EXCEPT ![t] = l], arg' = [arg EXCEPT ![t] = a], ptr' = [ptr EXCEPT ![t] = o],
         DOMAIN result' = Threads, \A u \in Threads \ {t} : result'[u] = result[u],
         PollOpt => l \notin {"poll", "query", "update"},
         pc[t] \notin {"ioctl", "queue", "erase", "update"},
         ThreadOK(t)', Calm => OwnOK(t)' /\ WaitOK(t)'
  PROVE  CoreInv'
<1>0. t \in Callers /\ Poller \in Callers /\ t # Poller /\ (\A u \in Threads : u \in Callers)
  BY ConstantsAssumption DEF Callers
<1>1. GraphTypeOK /\ PollerOK /\ TableOK /\ OwnersOK /\ NoStatusLost
      /\ (Calm => JobsOK)
  BY DEF CoreInv
<1>2. /\ pc'[t] = l /\ ptr'[t] = o
      /\ \A u \in Callers \ {t} : pc'[u] = pc[u] /\ arg'[u] = arg[u] /\ ptr'[u] = ptr[u]
      /\ DOMAIN pc' = Callers /\ arg' \in [Callers -> Ids \cup Bufs]
      /\ ptr' \in [Callers -> {0} \cup Objs]
  BY <1>0, <1>1 DEF GraphTypeOK
<1>3. (Calm' <=> Calm) /\ (Alone' <=> Alone) /\ PollOpt' = PollOpt /\ Timed' = Timed
  BY SetupStays
<1>4. UNCHANGED <<jstate, id, buf_handle, jobs, sched, is_free, phase, list, older, uthread, batch>>
  BY DEF table, kernel, poll
<1>5. GraphTypeOK'
  <2>1. \A u \in Threads : pc'[u] \in ThreadPcs
    BY <1>0, <1>1, <1>2 DEF GraphTypeOK
  <2> QED
    BY <1>1, <1>2, <1>4, <2>1 DEF GraphTypeOK
<1>6. PollerOK'
  <2>1. pc'[Poller] = pc[Poller]
    BY <1>0, <1>2
  <2>2. PollOpt => \A u \in Threads : pc'[u] \notin {"poll", "query", "update"}
    BY <1>0, <1>1, <1>2 DEF PollerOK
  <2> QED
    BY <1>1, <1>3, <1>4, <2>1, <2>2 DEF PollerOK
<1>7. TableOK'
  BY <1>1, <1>4 DEF TableOK
<1>8. OwnersOK'
  BY <1>1, <1>4 DEF OwnersOK
<1>9. \A u \in Threads : ThreadOK(u)' /\ (Calm => OwnOK(u)' /\ WaitOK(u)')
  <2>1. ASSUME NEW u \in Threads \ {t} PROVE ThreadOK(u)' /\ (Calm => OwnOK(u)' /\ WaitOK(u)')
    <3>1. Calm => \A v \in Threads \ {t} : MayUse[v] \cap MayUse[t] = {}
      BY <1>1, CalmSetup DEF GraphTypeOK
    <3>2. pc'[u] = pc[u] /\ arg'[u] = arg[u] /\ ptr'[u] = ptr[u] /\ mine'[u] = mine[u]
      BY <1>0, <1>2
    <3>3. \A p \in mine[u] :
             /\ id'[p] = id[p] /\ buf_handle'[p] = buf_handle[p] /\ jstate'[p] = jstate[p]
             /\ jobs'[id[p]] = jobs[id[p]] /\ Moves(phase[p], phase'[p])
      BY <1>4 DEF Moves
    <3>4. \A b \in Bufs \ MayUse[t] : is_free'[b] = is_free[b]
      BY <1>4
    <3> QED
      BY <3>1, <3>2, <3>3, <3>4, OtherThread
  <2> QED
    BY <2>1
<1>10. NoStatusLost'
  <2>1. \A u \in Threads : pc[u] = "update" => pc'[u] = "update" /\ ptr'[u] = ptr[u]
    BY <1>0, <1>2
  <2> QED
    BY <1>1, <1>3, <1>4, <2>1 DEF NoStatusLost
<1>11. Calm => JobsOK'
  <2>1. \A u \in Threads : pc[u] \in {"ioctl", "queue"} => pc'[u] = pc[u] /\ ptr'[u] = ptr[u]
    BY <1>0, <1>2
  <2> SUFFICES ASSUME Calm PROVE JobsOK'
    OBVIOUS
  <2>2. JobsOK
    BY <1>1
  <2>3. \A p \in Objs : jstate[p] = "SCHED" /\ phase[p] = "none" =>
          \E u \in Threads : pc'[u] = "ioctl" /\ ptr'[u] = p
    BY <2>1, <2>2 DEF JobsOK
  <2>4. \A p \in Objs : phase[p] = "listed" => \E u \in Threads : pc'[u] = "queue" /\ ptr'[u] = p
    BY <2>1, <2>2 DEF JobsOK
  <2> QED
    BY <1>4, <2>2, <2>3, <2>4 DEF JobsOK
<1> QED
  BY <1>3, <1>5, <1>6, <1>7, <1>8, <1>9, <1>10, <1>11 DEF CoreInv

\* A thread in a call, or with a job, has a handle.
LEMMA HasHandle ==
  ASSUME CoreInv, Core, NEW t \in Threads, pc[t] # "idle" \/ mine[t] # {}
  PROVE  MayUse[t] # {}
<1>1. ThreadOK(t) /\ (Calm => OwnOK(t) /\ WaitOK(t)) /\ pc[t] \in ThreadPcs
  BY DEF CoreInv, GraphTypeOK
<1>2. CASE ~Calm
  BY <1>1, <1>2, ActiveHasHandle
<1>3. CASE Calm
  <2>1. mine[t] # {} => MayUse[t] # {}
    BY <1>1, <1>3 DEF OwnOK
  <2>2. pc[t] \in {"claim", "insert"} => MayUse[t] # {}
    BY <1>1 DEF ThreadOK
  <2>3. pc[t] \notin {"idle", "claim", "insert"} => ptr[t] \in mine[t]
    BY <1>1, <1>3 DEF ThreadPcs, ThreadOK, WaitOK
  <2> QED
    BY <2>1, <2>2, <2>3
<1> QED
  BY <1>2, <1>3

\* The id of an own job leads to an own job, and without timeouts to that one.
LEMMA OwnEntry ==
  ASSUME CoreInv, Core, NEW t \in Threads, NEW o \in mine[t], jobs[id[o]] # 0
  PROVE  /\ o \in Objs /\ id[o] \in Ids /\ jobs[id[o]] \in mine[t] /\ jobs[id[o]] \in Objs
         /\ id[jobs[id[o]]] = id[o] /\ jstate[jobs[id[o]]] \notin {"NONE", "DELETED"}
         /\ Calm => jobs[id[o]] = o
<1>1. o \in Objs /\ id[o] \in Ids /\ jobs[id[o]] \in Objs
  BY DEF CoreInv, GraphTypeOK
<1>2. id[jobs[id[o]]] = id[o] /\ jstate[jobs[id[o]]] \notin {"NONE", "DELETED"}
  BY <1>1 DEF CoreInv, TableOK
<1>3. Calm => jobs[id[o]] = o
  BY DEF CoreInv, OwnOK
<1>4. jobs[id[o]] \in mine[t]
  <2>1. PICK v \in Threads : jobs[id[o]] \in mine[v]
    BY <1>1 DEF CoreInv, OwnersOK
  <2>2. CASE Calm
    BY <1>3, <2>2
  <2>3. CASE ~Calm
    <3>1. MayUse[t] # {}
      BY HasHandle
    <3>2. v = t
      BY <2>1, <2>3, <3>1, OthersIdle DEF CoreInv
    <3> QED
      BY <2>1, <3>2
  <2> QED
    BY <2>2, <2>3
<1> QED
  BY <1>1, <1>2, <1>3, <1>4

\* What a thread has of its own is as it was, when its step touches no job.
LEMMA OwnStays ==
  ASSUME CoreInv, NEW t \in Threads, UNCHANGED <<setup, table, kernel, mine, poll>>,
         pc[t] # "erase"
  PROVE  /\ \A o \in mine[t] : jstate'[o] # "NONE"
         /\ Calm => /\ \A o \in mine[t] : jobs'[id'[o]] = o
                    /\ \A o \in mine[t] : buf_handle'[o] \in MayUse'[t] \cap Bufs
                    /\ \A o, p \in mine[t] : buf_handle'[o] = buf_handle'[p] => o = p
                    /\ \A o \in mine[t] : ~is_free'[buf_handle'[o]]
         /\ Calm /\ setup.max_own = 1 => \A o, p \in mine[t] : o = p
<1>1. UNCHANGED <<jstate, id, buf_handle, jobs, is_free>> /\ MayUse' = MayUse
  BY SetupStays DEF table
<1>2. ThreadOK(t) /\ (Calm => OwnOK(t) /\ WaitOK(t))
  BY DEF CoreInv
<1> QED
  BY <1>1, <1>2 DEF ThreadOK, OwnOK, WaitOK

\* A call returns without having touched a job.
LEMMA ReturnStep ==
  ASSUME CoreInv, Core, HandlesApart, NEW t \in Threads, MayUse[t] # {},
         UNCHANGED <<setup, table, kernel, mine, poll>>, Return(t),
         DOMAIN result' = Threads, \A u \in Threads \ {t} : result'[u] = result[u],
         pc[t] \notin {"ioctl", "queue", "erase", "update"},
         Calm /\ setup.max_own = 1 => result'[t] \notin {"NULL_PTR", "JOB_NOT_EXIST"}
  PROVE  CoreInv'
<1>1. /\ pc' = [pc EXCEPT ![t] = "idle"] /\ arg' = [arg EXCEPT ![t] = 0]
      /\ ptr' = [ptr EXCEPT ![t] = 0]
  BY DEF Return, Goto
<1>2. t \in DOMAIN pc /\ pc'[t] = "idle"
  BY <1>1 DEF CoreInv, GraphTypeOK, Callers
<1>3. MayUse' = MayUse
  BY SetupStays
<1>4. ThreadOK(t)'
  BY <1>2, <1>3, OwnStays DEF ThreadOK, FlushPcs, WaitPcs
<1>5. Calm => OwnOK(t)'
  BY <1>2, <1>3, OwnStays DEF OwnOK
<1>6. Calm => WaitOK(t)'
  BY <1>2, OwnStays DEF WaitOK, WaitPcs
<1>7. "idle" \in ThreadPcs /\ 0 \in Ids
  BY ConstantsAssumption DEF ThreadPcs, Ids
<1> QED
  BY <1>1, <1>4, <1>5, <1>6, <1>7, ThreadStep

-----------------------------------------------------------------------------
(* The steps that read a field and go on.                                  *)

\* build_new_job finds a handle free: no job of the thread has it.
LEMMA BuildTestStep ==
  ASSUME CoreInv, Core, HandlesApart, NEW t \in Threads, NEW b \in Bufs, BuildTest(t, b)
  PROVE  CoreInv'
<1>1. /\ pc[t] = "idle" /\ b \in MayUse[t] /\ is_free[b] /\ Cardinality(mine[t]) < setup.max_own
      /\ pc' = [pc EXCEPT ![t] = "claim"] /\ arg' = [arg EXCEPT ![t] = b]
      /\ UNCHANGED <<setup, table, kernel, ptr, result, mine, poll>>
  BY DEF BuildTest, Goto
<1>2. pc'[t] = "claim" /\ arg'[t] = b /\ ptr'[t] = ptr[t]
  BY <1>1 DEF CoreInv, GraphTypeOK, Callers
<1>3. MayUse' = MayUse /\ MayUse[t] # {}
  BY <1>1, SetupStays
<1>4. ThreadOK(t)'
  BY <1>1, <1>2, <1>3, OwnStays DEF ThreadOK, FlushPcs, WaitPcs
<1>5. Calm => OwnOK(t)'
  <2>1. Calm => \A o \in mine[t] : ~is_free[buf_handle[o]]
    BY <1>1 DEF CoreInv, OwnOK
  <2>2. UNCHANGED <<buf_handle, is_free>>
    BY <1>1 DEF table
  <2> QED
    BY <1>1, <1>2, <1>3, <2>1, <2>2, OwnStays DEF OwnOK
<1>6. setup.max_own = 1 => mine[t] = {}
  <2>1. IsFiniteSet(mine[t])
    <3>1. mine[t] \subseteq 1 .. MaxJobs
      BY DEF CoreInv, GraphTypeOK, Objs
    <3>2. IsFiniteSet(1 .. MaxJobs)
      BY FS_Interval, ConstantsAssumption
    <3> QED
      BY <3>1, <3>2, FS_Subset
  <2>2. Cardinality(mine[t]) \in Nat /\ (Cardinality(mine[t]) = 0 <=> mine[t] = {})
    BY <2>1, FS_CardinalityType, FS_EmptySet
  <2> QED
    BY <1>1, <2>2
<1>7. Calm => WaitOK(t)'
  <2>1. Calm /\ setup.max_own = 1 => result[t] \notin {"NULL_PTR", "JOB_NOT_EXIST"}
    BY DEF CoreInv, WaitOK
  <2> QED
    BY <1>1, <1>2, <1>6, <2>1, OwnStays DEF WaitOK, WaitPcs
<1>8. "claim" \in ThreadPcs /\ ptr[t] \in {0} \cup Objs /\ ptr' = [ptr EXCEPT ![t] = ptr[t]]
  BY <1>1 DEF ThreadPcs, CoreInv, GraphTypeOK, Callers
<1>9. DOMAIN result' = Threads
  BY <1>1 DEF CoreInv, GraphTypeOK
<1> QED
  BY <1>1, <1>3, <1>4, <1>5, <1>7, <1>8, <1>9, ThreadStep

\* flush_job finds its job built.
LEMMA FlushTestStep ==
  ASSUME CoreInv, Core, HandlesApart, NEW t \in Threads, NEW o \in Objs, FlushTest(t, o)
  PROVE  CoreInv'
<1>1. /\ pc[t] = "idle" /\ o \in mine[t] /\ jobs[id[o]] # 0 /\ jstate[jobs[id[o]]] = "BUILT"
      /\ pc' = [pc EXCEPT ![t] = "mark"] /\ ptr' = [ptr EXCEPT ![t] = jobs[id[o]]]
      /\ UNCHANGED <<setup, table, kernel, arg, result, mine, poll>>
  BY DEF FlushTest, Goto
<1>2. jobs[id[o]] \in mine[t] /\ jobs[id[o]] \in Objs
  BY <1>1, OwnEntry
<1>3. pc'[t] = "mark" /\ ptr'[t] = jobs[id[o]]
  BY <1>1 DEF CoreInv, GraphTypeOK, Callers
<1>4. MayUse' = MayUse /\ MayUse[t] # {}
  BY <1>1, SetupStays, HasHandle
<1>5. jstate' = jstate
  BY <1>1 DEF table
<1>6. ThreadOK(t)'
  BY <1>1, <1>2, <1>3, <1>4, <1>5, OwnStays DEF ThreadOK, FlushPcs, WaitPcs
<1>7. Calm => OwnOK(t)'
  BY <1>1, <1>3, <1>4, OwnStays DEF OwnOK
<1>8. Calm => WaitOK(t)'
  <2>1. Calm /\ setup.max_own = 1 => result[t] \notin {"NULL_PTR", "JOB_NOT_EXIST"}
    BY DEF CoreInv, WaitOK
  <2> QED
    BY <1>1, <1>3, <2>1, OwnStays DEF WaitOK, WaitPcs
<1>9. "mark" \in ThreadPcs
  BY DEF ThreadPcs, FlushPcs
<1>10. DOMAIN result' = Threads
  BY <1>1 DEF CoreInv, GraphTypeOK
<1>11. arg' = [arg EXCEPT ![t] = arg[t]] /\ arg[t] \in Ids \cup Bufs
  BY <1>1 DEF CoreInv, GraphTypeOK, Callers
<1> QED
  BY <1>1, <1>2, <1>4, <1>6, <1>7, <1>8, <1>9, <1>10, <1>11, ThreadStep

\* get_job_status of a job that has ended
LEMMA WaitEndedStep ==
  ASSUME CoreInv, Core, HandlesApart, NEW t \in Threads, NEW o \in Objs, WaitEnded(t, o)
  PROVE  CoreInv'
<1>1. /\ pc[t] = "idle" /\ o \in mine[t]
      /\ jstate[jobs[id[o]]] \in {"DONE", "EXCEPTION", "TIMEOUT"}
      /\ Return(t) /\ result' = [result EXCEPT ![t] = jstate[jobs[id[o]]]]
      /\ UNCHANGED <<setup, table, kernel, mine, poll>>
  BY DEF WaitEnded, WaitReturn
<1>2. /\ DOMAIN result' = Threads /\ \A u \in Threads \ {t} : result'[u] = result[u]
      /\ result'[t] = jstate[jobs[id[o]]]
  BY <1>1 DEF CoreInv, GraphTypeOK
<1>3. MayUse[t] # {}
  BY <1>1, HasHandle
<1> QED
  BY <1>1, <1>2, <1>3, ReturnStep

\* A job that the kernel has is not in the hands of an idle thread, so it is on its way.
LEMMA WaitEnterOnDevice ==
  ASSUME CoreInv, Calm, ~PollOpt, NEW t \in Threads, pc[t] = "idle", NEW o \in mine[t],
         jstate[o] = "SCHED"
  PROVE  phase[o] \in OnDevice
<1>1. o \in Objs
  BY DEF CoreInv, GraphTypeOK
<1>2. \A v \in Threads : o \in mine[v] => v = t
  BY DEF CoreInv, OwnersOK
<1>3. \A v \in Threads : ptr[v] = o => pc[v] \notin {"ioctl", "queue"}
  BY <1>2 DEF CoreInv, ThreadOK, FlushPcs
<1>4. \A v \in Threads : ptr[v] = o => pc[v] # "update"
  BY <1>2 DEF CoreInv, WaitOK, WaitPcs
<1>5. batch = {}
  BY DEF CoreInv, PollerOK
<1>6. JobsOK /\ NoStatusLost
  BY DEF CoreInv
<1>7. phase[o] # "none" /\ phase[o] # "listed"
  BY <1>1, <1>3, <1>6 DEF JobsOK
<1>8. phase[o] # "gone"
  BY <1>1, <1>4, <1>5, <1>6 DEF NoStatusLost, Calm
<1> QED
  BY <1>1, <1>6, <1>7, <1>8 DEF JobsOK

\* is_job_sched lets a scheduled job pass.
LEMMA WaitEnterStep ==
  ASSUME CoreInv, Core, HandlesApart, NEW t \in Threads, NEW o \in Objs, WaitEnter(t, o)
  PROVE  CoreInv'
<1>1. /\ pc[t] = "idle" /\ o \in mine[t] /\ jobs[id[o]] # 0
      /\ jstate[jobs[id[o]]] \in {"SCHED", "NO_STATE"}
      /\ arg' = [arg EXCEPT ![t] = id[o]] /\ ptr' = [ptr EXCEPT ![t] = jobs[id[o]]]
      /\ UNCHANGED <<setup, table, kernel, result, mine, poll>>
  BY DEF WaitEnter
<1>2. PICK l \in {"sleep", "poll"} : l = (IF PollOpt THEN "sleep" ELSE "poll")
                                      /\ pc' = [pc EXCEPT ![t] = l]
  BY DEF WaitEnter, Goto
<1>3. /\ jobs[id[o]] \in mine[t] /\ jobs[id[o]] \in Objs /\ id[o] \in Ids
      /\ id[jobs[id[o]]] = id[o] /\ (Calm => jobs[id[o]] = o)
  BY <1>1, OwnEntry
<1>4. pc'[t] = l /\ arg'[t] = id[o] /\ ptr'[t] = jobs[id[o]]
  BY <1>1, <1>2 DEF CoreInv, GraphTypeOK, Callers
<1>5. MayUse' = MayUse /\ MayUse[t] # {}
  BY <1>1, SetupStays, HasHandle
<1>6. jstate' = jstate /\ id' = id /\ phase' = phase
  BY <1>1 DEF table, kernel
<1>7. ThreadOK(t)'
  BY <1>1, <1>2, <1>3, <1>4, <1>5, <1>6, OwnStays DEF ThreadOK, FlushPcs, WaitPcs
<1>8. Calm => OwnOK(t)'
  BY <1>1, <1>2, <1>4, <1>5, OwnStays DEF OwnOK
<1>9. Calm => WaitOK(t)'
  <2> SUFFICES ASSUME Calm PROVE WaitOK(t)'
    OBVIOUS
  <2>1. setup.max_own = 1 => result[t] \notin {"NULL_PTR", "JOB_NOT_EXIST"}
    BY DEF CoreInv, WaitOK
  <2>2. jobs[id[o]] = o /\ jstate[o] = "SCHED"
    BY <1>1, <1>3 DEF CoreInv, JobsOK
  <2>3. l = "poll" => phase[o] \in OnDevice
    BY <1>1, <1>2, <2>2, WaitEnterOnDevice
  <2> QED
    BY <1>1, <1>2, <1>3, <1>4, <1>6, <2>1, <2>2, <2>3, OwnStays DEF WaitOK, WaitPcs
<1>10. l \in ThreadPcs /\ (PollOpt => l \notin {"poll", "query", "update"})
  BY <1>2 DEF ThreadPcs, WaitPcs
<1>11. DOMAIN result' = Threads
  BY <1>1 DEF CoreInv, GraphTypeOK
<1> QED
  BY <1>1, <1>2, <1>3, <1>5, <1>7, <1>8, <1>9, <1>10, <1>11, ThreadStep

\* A wait goes on with the job it is about.
LEMMA WaitStep ==
  ASSUME CoreInv, Core, HandlesApart, NEW t \in Threads, NEW l \in {"query", "kill", "timeout"},
         pc[t] \in {"poll", "sleep"}, pc' = [pc EXCEPT ![t] = l],
         PollOpt => l # "query",
         UNCHANGED <<setup, table, kernel, arg, ptr, result, mine, poll>>,
         Calm => /\ l = "query" /\ pc[t] = "poll"
                 /\ setup.max_own = 1 => phase[ptr[t]] = "end"
  PROVE  CoreInv'
<1>1. pc'[t] = l
  BY DEF CoreInv, GraphTypeOK, Callers
<1>2. MayUse' = MayUse /\ MayUse[t] # {}
  BY SetupStays, HasHandle
<1>3. jstate' = jstate /\ id' = id /\ phase' = phase
  BY DEF table, kernel
<1>4. ptr[t] \in Objs /\ arg[t] = id[ptr[t]]
  BY DEF CoreInv, ThreadOK, WaitPcs
<1>5. ThreadOK(t)'
  BY <1>1, <1>2, <1>3, <1>4, OwnStays DEF ThreadOK, FlushPcs, WaitPcs
<1>6. Calm => OwnOK(t)'
  BY <1>1, <1>2, OwnStays DEF OwnOK
<1>7. Calm => WaitOK(t)'
  <2> SUFFICES ASSUME Calm PROVE WaitOK(t)'
    OBVIOUS
  <2>1. WaitOK(t)
    BY DEF CoreInv
  <2>2. ptr[t] \in mine[t] /\ phase[ptr[t]] \in OnDevice
    BY <2>1 DEF WaitOK, WaitPcs
  <2> QED
    BY <1>1, <1>3, <2>1, <2>2 DEF WaitOK
<1>8. l \in ThreadPcs
  BY DEF ThreadPcs, WaitPcs
<1>9. /\ DOMAIN result' = Threads /\ arg' = [arg EXCEPT ![t] = arg[t]]
      /\ ptr' = [ptr EXCEPT ![t] = ptr[t]] /\ arg[t] \in Ids \cup Bufs
  BY DEF CoreInv, GraphTypeOK, Callers
<1> QED
  BY <1>2, <1>4, <1>5, <1>6, <1>7, <1>8, <1>9, ThreadStep

\* poll() returns: what has ended is the one job of the thread.
LEMMA PollReadyStep ==
  ASSUME CoreInv, Core, HandlesApart, NEW t \in Threads, PollReady(t)
  PROVE  CoreInv'
<1>1. /\ pc[t] = "poll" /\ ReadyFor(t) /\ pc' = [pc EXCEPT ![t] = "query"]
      /\ UNCHANGED <<setup, table, kernel, arg, ptr, result, mine, poll>>
  BY DEF PollReady, Goto
<1>2. ~PollOpt
  BY <1>1 DEF CoreInv, PollerOK
<1>3. ASSUME Calm, setup.max_own = 1 PROVE phase[ptr[t]] = "end"
  <2>1. /\ ptr[t] \in mine[t] /\ phase[ptr[t]] \in OnDevice
        /\ \A o, p \in mine[t] : o = p
    BY <1>1, <1>3 DEF CoreInv, WaitOK, WaitPcs
  <2>2. JobsOK /\ ptr[t] \in Objs
    BY <1>3, <2>1 DEF CoreInv, GraphTypeOK
  <2>3. ptr[t] \in list /\ uthread[ptr[t]] = t
    BY <2>1, <2>2 DEF JobsOK
  <2>4. PICK x \in list : phase[x] = "end" /\ uthread[x] = t
    BY <1>1, <2>3 DEF ReadyFor, Ended
  <2>5. x \in mine[t]
    BY <2>2, <2>4 DEF JobsOK
  <2> QED
    BY <2>1, <2>4, <2>5
<1> QED
  BY <1>1, <1>2, <1>3, WaitStep

\* poll() gives up: only with timeouts.
LEMMA PollTimeoutStep ==
  ASSUME CoreInv, Core, HandlesApart, NEW t \in Threads, PollTimeout(t)
  PROVE  CoreInv'
<1>1. /\ pc[t] = "poll" /\ Timed /\ pc' = [pc EXCEPT ![t] = "kill"]
      /\ UNCHANGED <<setup, table, kernel, arg, ptr, result, mine, poll>>
  BY DEF PollTimeout, Goto
<1>2. ~Calm
  BY <1>1 DEF Calm
<1> QED
  BY <1>1, <1>2, WaitStep

\* wait_for_job_end_sleep wakes up with the final state, or, with timeouts, without it.
LEMMA SleepWakeStep ==
  ASSUME CoreInv, Core, HandlesApart, NEW t \in Threads, SleepWake(t)
  PROVE  CoreInv'
<1>1. pc[t] = "sleep" /\ UNCHANGED <<setup, table, kernel, mine, poll>>
  BY DEF SleepWake
<1>2. MayUse[t] # {}
  BY <1>1, HasHandle
<1>3. CASE jstate[ptr[t]] \in {"DONE", "EXCEPTION"} /\ WaitReturn(t, jstate[ptr[t]])
  <2>1. Return(t) /\ result' = [result EXCEPT ![t] = jstate[ptr[t]]]
    BY <1>3 DEF WaitReturn
  <2>2. /\ DOMAIN result' = Threads /\ \A u \in Threads \ {t} : result'[u] = result[u]
        /\ result'[t] = jstate[ptr[t]]
    BY <2>1 DEF CoreInv, GraphTypeOK
  <2> QED
    BY <1>1, <1>2, <1>3, <2>1, <2>2, ReturnStep
<1>4. CASE Timed /\ Goto(t, "kill") /\ UNCHANGED <<arg, ptr, result>>
  <2>1. ~Calm /\ pc' = [pc EXCEPT ![t] = "kill"]
    BY <1>4 DEF Calm, Goto
  <2> QED
    BY <1>1, <1>4, <2>1, WaitStep
<1> QED
  BY <1>3, <1>4 DEF SleepWake

\* QUERYSTATUS of one job finds none that has ended: not the only job of a thread.
LEMMA QueryNothingStep ==
  ASSUME CoreInv, Core, HandlesApart, NEW t \in Threads, pc[t] = "query",
         {o \in Ended : id[o] = arg[t]} = {}, WaitReturn(t, "NULL_PTR"),
         UNCHANGED <<setup, table, kernel, mine, poll>>
  PROVE  CoreInv'
<1>1. Return(t) /\ result' = [result EXCEPT ![t] = "NULL_PTR"]
  BY DEF WaitReturn
<1>2. DOMAIN result' = Threads /\ \A u \in Threads \ {t} : result'[u] = result[u]
  BY <1>1 DEF CoreInv, GraphTypeOK
<1>3. ~(Calm /\ setup.max_own = 1)
  <2> SUFFICES ASSUME Calm, setup.max_own = 1 PROVE FALSE
    OBVIOUS
  <2>1. phase[ptr[t]] = "end" /\ ptr[t] \in Objs /\ arg[t] = id[ptr[t]]
    BY DEF CoreInv, WaitOK, ThreadOK, WaitPcs
  <2>2. ptr[t] \in list
    BY <2>1 DEF CoreInv, JobsOK, OnDevice
  <2> QED
    BY <2>1, <2>2 DEF Ended
<1>4. MayUse[t] # {}
  BY HasHandle
<1> QED
  BY <1>1, <1>2, <1>3, <1>4, ReturnStep

-----------------------------------------------------------------------------
(* The steps that change a job.                                            *)

\* A step of t: what remains to be shown of it.
LEMMA ActionOf ==
  ASSUME CoreInv, Core, HandlesApart, NEW t \in Threads, MayUse[t] # {}, UNCHANGED <<setup, batch>>,
         NEW l \in ThreadPcs, pc' = [pc EXCEPT ![t] = l],
         PollOpt => l \notin {"poll", "query", "update"},
         \A u \in Threads \ {t} :
            arg'[u] = arg[u] /\ ptr'[u] = ptr[u] /\ result'[u] = result[u] /\ mine'[u] = mine[u],
         Calm => \A u \in Threads \ {t} : \A o \in mine[u] :
                    /\ id'[o] = id[o] /\ buf_handle'[o] = buf_handle[o] /\ jstate'[o] = jstate[o]
                    /\ jobs'[id[o]] = jobs[id[o]] /\ Moves(phase[o], phase'[o]),
         Calm => \A b \in Bufs \ MayUse[t] : is_free'[b] = is_free[b],
         GraphTypeOK', TableOK', OwnersOK', NoStatusLost', Calm => JobsOK',
         ThreadOK(t)', Calm => OwnOK(t)' /\ WaitOK(t)'
  PROVE  CoreInv'
<1>1. t # Poller /\ Poller \in Callers /\ t \in Callers /\ (\A u \in Threads : u \in Callers)
  BY ConstantsAssumption DEF Callers
<1>2. /\ pc'[t] = l /\ \A u \in Callers \ {t} : pc'[u] = pc[u]
  BY <1>1 DEF CoreInv, GraphTypeOK
<1>3. (Calm' <=> Calm) /\ PollOpt' = PollOpt
  BY SetupStays
<1>4. PollerOK'
  <2>1. PollerOK
    BY DEF CoreInv
  <2>2. pc'[Poller] = pc[Poller]
    BY <1>1, <1>2
  <2>3. PollOpt => \A u \in Threads : pc'[u] \notin {"poll", "query", "update"}
    BY <1>1, <1>2, <2>1 DEF PollerOK
  <2> QED
    BY <1>3, <2>1, <2>2, <2>3 DEF PollerOK
<1>5. ASSUME NEW u \in Threads \ {t}
      PROVE  ThreadOK(u)' /\ (Calm => OwnOK(u)' /\ WaitOK(u)')
  <2>1. pc'[u] = pc[u]
    BY <1>1, <1>2
  <2>2. Calm => \A v \in Threads \ {t} : MayUse[v] \cap MayUse[t] = {}
    BY CalmSetup DEF CoreInv, GraphTypeOK
  <2>3. Calm => \A o \in mine[u] :
                    /\ id'[o] = id[o] /\ buf_handle'[o] = buf_handle[o] /\ jstate'[o] = jstate[o]
                    /\ jobs'[id[o]] = jobs[id[o]] /\ Moves(phase[o], phase'[o])
    OBVIOUS
  <2> QED
    BY <2>1, <2>2, <2>3, OtherThread
<1>6. \A u \in Threads : ThreadOK(u)' /\ (Calm => OwnOK(u)' /\ WaitOK(u)')
  BY <1>5
<1> QED
  BY <1>3, <1>4, <1>6 DEF CoreInv

\* The job a thread works on is not another one's.
LEMMA NotAnothers ==
  ASSUME CoreInv, NEW t \in Threads, NEW o \in mine[t]
  PROVE  o \in Objs /\ \A u \in Threads \ {t} : o \notin mine[u]
BY DEF CoreInv, GraphTypeOK, OwnersOK

\* build_new_job marks the handle.
LEMMA BuildClaimStep ==
  ASSUME CoreInv, Core, HandlesApart, NEW t \in Threads, BuildClaim(t)
  PROVE  CoreInv'
<1>1. /\ pc[t] = "claim" /\ is_free' = [is_free EXCEPT ![arg[t]] = FALSE]
      /\ pc' = [pc EXCEPT ![t] = "insert"]
      /\ UNCHANGED <<setup, jstate, id, buf_handle, jobs, sched, kernel, arg, ptr, result, mine, poll>>
  BY DEF BuildClaim, Goto
<1>2. UNCHANGED <<phase, list, older, uthread, batch>>
  BY <1>1 DEF kernel, poll
<1>3. MayUse[t] # {} /\ MayUse' = MayUse /\ (Calm' <=> Calm) /\ (Alone' <=> Alone) /\ Timed' = Timed
  BY <1>1, HasHandle, SetupStays
<1>4. arg[t] \in MayUse[t] \cap Bufs
  BY <1>1 DEF CoreInv, ThreadOK
<1>5. t \in Callers /\ pc'[t] = "insert" /\ \A u \in Threads \ {t} : pc'[u] = pc[u]
  BY <1>1 DEF CoreInv, GraphTypeOK, Callers
<1>6. /\ is_free' \in [Bufs -> BOOLEAN] /\ is_free'[arg[t]] = FALSE
      /\ \A b \in Bufs \ {arg[t]} : is_free'[b] = is_free[b]
  BY <1>1, <1>4 DEF CoreInv, GraphTypeOK
<1>7. GraphTypeOK'
  <2>1. \A u \in Threads : pc'[u] \in ThreadPcs
    BY <1>5 DEF CoreInv, GraphTypeOK, ThreadPcs
  <2>2. DOMAIN pc' = Callers
    BY <1>1 DEF CoreInv, GraphTypeOK
  <2> QED
    BY <1>1, <1>2, <1>6, <2>1, <2>2 DEF CoreInv, GraphTypeOK
<1>8. TableOK' /\ OwnersOK'
  BY <1>1, <1>2 DEF CoreInv, TableOK, OwnersOK
<1>9. NoStatusLost'
  <2>1. \A u \in Threads : pc[u] = "update" => pc'[u] = "update"
    BY <1>1, <1>5
  <2> QED
    BY <1>1, <1>2, <1>3, <2>1 DEF CoreInv, NoStatusLost
<1>10. Calm => JobsOK'
  <2> SUFFICES ASSUME Calm PROVE JobsOK'
    OBVIOUS
  <2>1. JobsOK
    BY DEF CoreInv
  <2>2. \A u \in Threads : pc[u] \in {"ioctl", "queue"} => pc'[u] = pc[u]
    BY <1>1, <1>5
  <2>3. /\ \A o \in Objs : jstate[o] = "SCHED" /\ phase[o] = "none" =>
             \E u \in Threads : pc'[u] = "ioctl" /\ ptr[u] = o
        /\ \A o \in Objs : phase[o] = "listed" => \E u \in Threads : pc'[u] = "queue" /\ ptr[u] = o
    BY <2>1, <2>2 DEF JobsOK
  <2> QED
    BY <1>1, <1>2, <2>1, <2>3 DEF JobsOK
<1>11. ThreadOK(t)'
  <2>1. ThreadOK(t)
    BY DEF CoreInv
  <2> QED
    BY <1>1, <1>2, <1>3, <1>4, <1>5, <2>1 DEF ThreadOK, FlushPcs, WaitPcs
<1>12. Calm => OwnOK(t)'
  <2> SUFFICES ASSUME Calm PROVE OwnOK(t)'
    OBVIOUS
  <2>1. OwnOK(t)
    BY DEF CoreInv
  <2>2. \A o \in mine[t] : ~is_free'[buf_handle[o]]
    BY <1>1, <1>6, <2>1 DEF OwnOK
  <2> QED
    BY <1>1, <1>3, <1>5, <1>6, <2>1, <2>2 DEF OwnOK
<1>13. Calm => WaitOK(t)'
  <2>1. Calm => WaitOK(t)
    BY DEF CoreInv
  <2> QED
    BY <1>1, <1>5, <2>1 DEF WaitOK, WaitPcs
<1>14. \A b \in Bufs \ MayUse[t] : is_free'[b] = is_free[b]
  BY <1>4, <1>6
<1>15. \A u \in Threads \ {t} : \A o \in mine[u] :
          /\ id'[o] = id[o] /\ buf_handle'[o] = buf_handle[o] /\ jstate'[o] = jstate[o]
          /\ jobs'[id[o]] = jobs[id[o]] /\ Moves(phase[o], phase'[o])
  BY <1>1, <1>2 DEF Moves
<1>16. "insert" \in ThreadPcs
  BY DEF ThreadPcs
<1> QED
  BY <1>1, <1>2, <1>3, <1>7, <1>8, <1>9, <1>10, <1>11, <1>12, <1>13, <1>14, <1>15, <1>16, ActionOf

\* A set of natural numbers has a least element.
LEMMA LeastNat ==
  ASSUME NEW T, T \subseteq Nat, T # {}
  PROVE  \E x \in T : \A y \in T : x <= y
<1> DEFINE Shorter == StrictSubsetOrdering(Nat)
           Starts == {1 .. n : n \in T}
<1>1. Starts \subseteq FiniteSubsetsOf(Nat)
  <2>1. \A n \in Nat : IsFiniteSet(1 .. n)
    BY FS_Interval
  <2> QED
    BY <2>1 DEF FiniteSubsetsOf
<1>2. Starts # {}
  OBVIOUS
<1>3. PICK X \in Starts : \A Y \in Starts : <<Y, X>> \notin Shorter
  <2>1. IsWellFoundedOn(Shorter, FiniteSubsetsOf(Nat))
    BY FS_StrictSubsetOrderingWellFounded
  <2> HIDE DEF Starts, Shorter
  <2> QED
    BY <1>1, <1>2, <2>1, WFMin
<1>4. PICK x \in T : X = 1 .. x
  OBVIOUS
<1>5. ASSUME NEW y \in T, y < x PROVE FALSE
  <2>1. 1 .. y \subseteq 1 .. x /\ x \in 1 .. x /\ x \notin 1 .. y
    BY <1>5
  <2>2. <<1 .. y, 1 .. x>> \in Shorter
    BY <2>1, <1>4 DEF StrictSubsetOrdering
  <2> QED
    BY <1>3, <1>4, <1>5, <2>2
<1> QED
  BY <1>5

\* create_job_id_inner: there are as many ids as jobs, and a job still to be made has none,
\* so one is left, and it is not the id of a job that counts.
LEMMA FreeId ==
  ASSUME GraphTypeOK, TableOK, NEW o \in Objs, jstate[o] = "NONE"
  PROVE  CreateJobId \in Ids /\ ~Exists(CreateJobId)
<1> DEFINE Free == {i \in Ids : ~Exists(i)}
<1>1. Free # {}
  <2> SUFFICES ASSUME \A i \in Ids : Exists(i) PROVE FALSE
    OBVIOUS
  <2>1. jobs \in [Ids -> Objs \ {o}]
    BY DEF Exists, GraphTypeOK
  <2>2. MaxJobs \in Nat /\ MaxJobs > 0
    BY ConstantsAssumption
  <2>3. IsFiniteSet(Ids) /\ Cardinality(Ids) = MaxJobs
    BY <2>2, FS_Interval DEF Ids
  <2>4. IsFiniteSet(Objs) /\ Cardinality(Objs) = MaxJobs
    BY <2>2, FS_Interval DEF Objs
  <2>5. IsFiniteSet(Objs \ {o}) /\ Cardinality(Objs \ {o}) = MaxJobs - 1
    BY <2>4, FS_RemoveElement
  <2>6. PICK i \in Ids, k \in Ids : i # k /\ jobs[i] = jobs[k]
    BY <2>1, <2>2, <2>3, <2>5, FS_PigeonHole
  <2>7. id[jobs[i]] = i /\ id[jobs[k]] = k
    BY DEF TableOK, Exists
  <2> QED
    BY <2>6, <2>7
<1>2. Free \subseteq Nat
  BY ConstantsAssumption DEF Ids
<1>3. PICK i \in Free : \A k \in Free : i <= k
  BY <1>1, <1>2, LeastNat
<1>4. i \in Ids /\ ~Exists(i) /\ \A k \in Ids : k < i => Exists(k)
  BY <1>2, <1>3
<1> QED
  BY <1>4 DEF CreateJobId

\* build_new_job enters the job in the table, in place of no job that counts.
LEMMA BuildInsertStep ==
  ASSUME CoreInv, Core, HandlesApart, NEW t \in Threads, BuildInsert(t)
  PROVE  CoreInv'
<1>1. PICK o \in Objs :
        /\ pc[t] = "insert" /\ jstate[o] = "NONE"
        /\ jstate' = [jstate EXCEPT ![o] = "BUILT"]
        /\ id' = [id EXCEPT ![o] = CreateJobId]
        /\ buf_handle' = [buf_handle EXCEPT ![o] = arg[t]]
        /\ jobs' = [jobs EXCEPT ![CreateJobId] = o]
        /\ mine' = [mine EXCEPT ![t] = @ \cup {o}]
        /\ Return(t)
        /\ UNCHANGED <<setup, sched, is_free, kernel, result, poll>>
  BY DEF BuildInsert, Fresh
<1>2. GraphTypeOK /\ TableOK /\ OwnersOK /\ NoStatusLost /\ ThreadOK(t)
      /\ (\A u \in Threads : ThreadOK(u)) /\ (Calm => JobsOK /\ OwnOK(t) /\ WaitOK(t))
  BY DEF CoreInv
<1>3. PICK c \in Ids : c = CreateJobId /\ ~Exists(c)
  BY <1>1, <1>2, FreeId
<1>4. UNCHANGED <<is_free, phase, list, older, uthread, batch, result>>
  BY <1>1 DEF kernel, poll
<1>5. MayUse[t] # {} /\ MayUse' = MayUse /\ (Calm' <=> Calm) /\ (Alone' <=> Alone) /\ Timed' = Timed
  BY <1>1, HasHandle, SetupStays
<1>6. arg[t] \in MayUse[t] \cap Bufs
  BY <1>1, <1>2 DEF ThreadOK
<1>7. /\ pc' = [pc EXCEPT ![t] = "idle"] /\ t \in Callers /\ DOMAIN pc' = Callers
      /\ pc'[t] = "idle" /\ (\A u \in Threads \ {t} : pc'[u] = pc[u])
      /\ arg' \in [Callers -> Ids \cup Bufs] /\ ptr' \in [Callers -> {0} \cup Objs]
      /\ \A u \in Threads \ {t} : arg'[u] = arg[u] /\ ptr'[u] = ptr[u]
  BY <1>1, <1>2, ConstantsAssumption DEF GraphTypeOK, Return, Goto, Callers, Ids
<1>8. /\ jstate' \in [Objs -> JobStates] /\ jstate'[o] = "BUILT"
      /\ \A p \in Objs \ {o} : jstate'[p] = jstate[p]
  BY <1>1, <1>2 DEF GraphTypeOK, JobStates
<1>9. id' \in [Objs -> Ids] /\ id'[o] = c /\ \A p \in Objs \ {o} : id'[p] = id[p]
  BY <1>1, <1>2, <1>3 DEF GraphTypeOK
<1>10. /\ buf_handle' \in [Objs -> Bufs \cup {NoBuf}] /\ buf_handle'[o] = arg[t]
       /\ \A p \in Objs \ {o} : buf_handle'[p] = buf_handle[p]
  BY <1>1, <1>2, <1>6 DEF GraphTypeOK
<1>11. jobs' \in [Ids -> {0} \cup Objs] /\ jobs'[c] = o /\ \A i \in Ids \ {c} : jobs'[i] = jobs[i]
  BY <1>1, <1>2, <1>3 DEF GraphTypeOK
<1>12. /\ mine' \in [Threads -> SUBSET Objs] /\ mine'[t] = mine[t] \cup {o}
       /\ \A u \in Threads \ {t} : mine'[u] = mine[u]
  BY <1>1, <1>2 DEF GraphTypeOK
<1>13. /\ \A u \in Threads : o \notin mine[u] /\ mine[u] \subseteq Objs
       /\ phase[o] = "none"
       /\ \A i \in Ids : jobs[i] # o
  BY <1>1, <1>2 DEF ThreadOK, TableOK, GraphTypeOK, Objs
<1>14. Calm => jobs[c] = 0
  <2>1. jobs[c] # 0 => jobs[c] \in Objs /\ jstate[jobs[c]] \in {"TIMEOUT", "NO_STATE"}
    BY <1>2, <1>3 DEF Exists, TableOK, GraphTypeOK, JobStates
  <2> QED
    BY <1>2, <2>1 DEF JobsOK
<1>15. GraphTypeOK'
  <2>1. \A u \in Threads : pc'[u] \in ThreadPcs
    BY <1>2, <1>7 DEF GraphTypeOK, ThreadPcs
  <2> QED
    BY <1>1, <1>2, <1>4, <1>7, <1>8, <1>9, <1>10, <1>11, <1>12, <2>1 DEF GraphTypeOK
<1>16. TableOK'
  <2>1. \A i \in Ids : jobs'[i] # 0 =>
           id'[jobs'[i]] = i /\ jstate'[jobs'[i]] \notin {"NONE", "DELETED"}
    BY <1>2, <1>8, <1>9, <1>11, <1>13 DEF TableOK, GraphTypeOK
  <2>2. ASSUME NEW p \in Objs, jstate'[p] \in {"BUILT", "SCHED", "DONE", "EXCEPTION"}
        PROVE  jobs'[id'[p]] = p
    <3>1. CASE p = o
      BY <3>1, <1>9, <1>11
    <3>2. CASE p # o
      <4>1. jobs[id[p]] = p /\ id[p] \in Ids /\ p # 0
        BY <1>2, <1>8, <2>2, <3>2 DEF TableOK, GraphTypeOK, Objs
      <4>2. id[p] # c
        BY <1>3, <1>8, <2>2, <3>2, <4>1 DEF Exists
      <4> QED
        BY <1>9, <1>11, <3>2, <4>1, <4>2
    <3> QED
      BY <3>1, <3>2
  <2>3. \A p \in Objs : jstate'[p] \in {"NONE", "BUILT"} => phase'[p] = "none"
    BY <1>2, <1>4, <1>8, <1>13 DEF TableOK
  <2> QED
    BY <2>1, <2>2, <2>3 DEF TableOK
<1>17. OwnersOK'
  <2>1. \A u, v \in Threads : u # v => mine'[u] \cap mine'[v] = {}
    BY <1>2, <1>12, <1>13 DEF OwnersOK
  <2>2. ASSUME NEW i \in Ids, jobs'[i] # 0 PROVE \E u \in Threads : jobs'[i] \in mine'[u]
    <3>1. CASE i = c
      BY <1>11, <1>12, <3>1
    <3>2. CASE i # c
      <4>1. PICK u \in Threads : jobs[i] \in mine[u]
        BY <1>2, <1>11, <2>2, <3>2 DEF OwnersOK
      <4> QED
        BY <1>11, <1>12, <3>2, <4>1
    <3> QED
      BY <3>1, <3>2
  <2> QED
    BY <2>1, <2>2 DEF OwnersOK
<1>18. NoStatusLost'
  <2>1. \A u \in Threads : pc[u] = "update" => pc'[u] = "update" /\ ptr'[u] = ptr[u]
    BY <1>1, <1>7
  <2> QED
    BY <1>2, <1>4, <1>5, <1>8, <1>13, <2>1 DEF NoStatusLost
<1>19. Calm => JobsOK'
  <2> SUFFICES ASSUME Calm PROVE JobsOK'
    OBVIOUS
  <2>1. JobsOK
    BY <1>2
  <2>2. \A u \in Threads : pc[u] \in {"ioctl", "queue"} => pc'[u] = pc[u] /\ ptr'[u] = ptr[u]
    BY <1>1, <1>7
  <2>3. /\ \A p \in Objs : jstate'[p] = "SCHED" /\ phase[p] = "none" =>
             \E u \in Threads : pc'[u] = "ioctl" /\ ptr'[u] = p
        /\ \A p \in Objs : phase[p] = "listed" => \E u \in Threads : pc'[u] = "queue" /\ ptr'[u] = p
    BY <1>8, <2>1, <2>2 DEF JobsOK
  <2>4. /\ \A p \in Objs : jstate'[p] \notin {"TIMEOUT", "NO_STATE"}
        /\ \A p \in Objs : phase[p] \in {"listed"} \cup OnDevice => jstate'[p] = "SCHED"
        /\ \A p \in Objs : jstate'[p] \in {"DONE", "EXCEPTION"} => phase[p] = "gone"
        /\ \A p \in batch : phase[p] = "gone" /\ jstate'[p] = "SCHED"
    BY <1>2, <1>8, <1>13, <2>1 DEF JobsOK, OnDevice, GraphTypeOK
  <2>5. \A p \in list : \A u \in Threads : uthread[p] = u <=> p \in mine'[u]
    <3>1. o \notin list
      BY <1>13, <2>1 DEF JobsOK, OnDevice
    <3> QED
      BY <1>12, <2>1, <3>1 DEF JobsOK
  <2> QED
    BY <1>4, <2>1, <2>3, <2>4, <2>5 DEF JobsOK
<1>20. ThreadOK(t)'
  <2>1. \A p \in mine'[t] : jstate'[p] # "NONE"
    BY <1>2, <1>8, <1>12, <1>13 DEF ThreadOK
  <2> QED
    BY <1>5, <1>7, <2>1 DEF ThreadOK, FlushPcs, WaitPcs
<1>21. Calm => OwnOK(t)'
  <2> SUFFICES ASSUME Calm PROVE OwnOK(t)'
    OBVIOUS
  <2>1. OwnOK(t)
    BY <1>2
  <2>2. \A p \in mine'[t] : jobs'[id'[p]] = p
    <3>1. \A p \in mine[t] : p # o /\ id[p] \in Ids /\ id[p] # c /\ jobs[id[p]] = p
      BY <1>2, <1>13, <1>14, <2>1 DEF OwnOK, GraphTypeOK, Objs
    <3> QED
      BY <1>9, <1>11, <1>12, <1>13, <3>1
  <2>3. \A p \in mine'[t] : buf_handle'[p] \in MayUse[t] \cap Bufs
    BY <1>6, <1>10, <1>12, <1>13, <2>1 DEF OwnOK
  <2>4. \A p, q \in mine'[t] : buf_handle'[p] = buf_handle'[q] => p = q
    BY <1>1, <1>10, <1>12, <1>13, <2>1 DEF OwnOK
  <2>5. \A p \in mine'[t] : ~is_free'[buf_handle'[p]]
    BY <1>1, <1>4, <1>10, <1>12, <1>13, <2>1 DEF OwnOK
  <2> QED
    BY <1>5, <1>7, <2>2, <2>3, <2>4, <2>5 DEF OwnOK
<1>22. Calm => WaitOK(t)'
  <2> SUFFICES ASSUME Calm PROVE WaitOK(t)'
    OBVIOUS
  <2>1. setup.max_own = 1 => mine[t] = {} /\ result[t] \notin {"NULL_PTR", "JOB_NOT_EXIST"}
    BY <1>1, <1>2 DEF WaitOK
  <2> QED
    BY <1>1, <1>4, <1>7, <1>12, <2>1 DEF WaitOK, WaitPcs
<1>23. Calm => \A u \in Threads \ {t} : \A p \in mine[u] :
          /\ id'[p] = id[p] /\ buf_handle'[p] = buf_handle[p] /\ jstate'[p] = jstate[p]
          /\ jobs'[id[p]] = jobs[id[p]] /\ Moves(phase[p], phase'[p])
  <2> SUFFICES ASSUME Calm, NEW u \in Threads \ {t}, NEW p \in mine[u]
               PROVE  /\ id'[p] = id[p] /\ buf_handle'[p] = buf_handle[p] /\ jstate'[p] = jstate[p]
                      /\ jobs'[id[p]] = jobs[id[p]] /\ Moves(phase[p], phase'[p])
    OBVIOUS
  <2>1. p \in Objs \ {o} /\ p # 0
    BY <1>13 DEF Objs
  <2>2. jobs[id[p]] = p /\ id[p] \in Ids
    BY <1>2, <2>1 DEF CoreInv, OwnOK, GraphTypeOK
  <2>3. id[p] # c
    BY <1>14, <2>1, <2>2
  <2> QED
    BY <1>4, <1>8, <1>9, <1>10, <1>11, <2>1, <2>2, <2>3 DEF Moves
<1>24. "idle" \in ThreadPcs /\ \A b \in Bufs \ MayUse[t] : is_free'[b] = is_free[b]
  BY <1>4 DEF ThreadPcs
<1>25. \A u \in Threads \ {t} :
          arg'[u] = arg[u] /\ ptr'[u] = ptr[u] /\ result'[u] = result[u] /\ mine'[u] = mine[u]
  BY <1>4, <1>7, <1>12
<1> QED
  BY <1>1, <1>4, <1>5, <1>7, <1>15, <1>16, <1>17, <1>18, <1>19, <1>20, <1>21, <1>22, <1>23,
     <1>24, <1>25, ActionOf

\* Where the threads are after a step of t
LEMMA GotoEffect ==
  ASSUME GraphTypeOK, NEW t \in Threads, NEW l \in ThreadPcs, Goto(t, l)
  PROVE  /\ pc' = [pc EXCEPT ![t] = l] /\ DOMAIN pc' = Callers /\ pc'[t] = l
         /\ \A u \in Threads \ {t} : pc'[u] = pc[u]
         /\ \A u \in Threads : pc'[u] \in ThreadPcs
BY DEF GraphTypeOK, Goto, Callers

\* ... that returns
LEMMA ReturnEffect ==
  ASSUME GraphTypeOK, NEW t \in Threads, Return(t)
  PROVE  /\ pc' = [pc EXCEPT ![t] = "idle"] /\ DOMAIN pc' = Callers /\ pc'[t] = "idle"
         /\ "idle" \in ThreadPcs
         /\ \A u \in Threads \ {t} : pc'[u] = pc[u] /\ arg'[u] = arg[u] /\ ptr'[u] = ptr[u]
         /\ \A u \in Threads : pc'[u] \in ThreadPcs
         /\ arg' \in [Callers -> Ids \cup Bufs] /\ ptr' \in [Callers -> {0} \cup Objs]
<1>1. "idle" \in ThreadPcs /\ Goto(t, "idle") /\ 0 \in Ids
  BY ConstantsAssumption DEF ThreadPcs, Return, Ids
<1>2. /\ arg' = [arg EXCEPT ![t] = 0] /\ ptr' = [ptr EXCEPT ![t] = 0]
      /\ t \in Callers /\ \A u \in Threads : u \in Callers
  BY DEF Return, Callers
<1> QED
  BY <1>1, <1>2, GotoEffect DEF GraphTypeOK

\* flush_job marks the job as scheduled.
LEMMA FlushMarkStep ==
  ASSUME CoreInv, Core, HandlesApart, NEW t \in Threads, FlushMark(t)
  PROVE  CoreInv'
<1> DEFINE o == ptr[t]
<1>1. /\ pc[t] = "mark" /\ jstate' = [jstate EXCEPT ![o] = "SCHED"] /\ Goto(t, "ioctl")
      /\ UNCHANGED <<setup, id, buf_handle, jobs, is_free, kernel, arg, ptr, result, mine, poll>>
  BY DEF FlushMark
<1>2. GraphTypeOK /\ TableOK /\ OwnersOK /\ NoStatusLost /\ ThreadOK(t)
      /\ (Calm => JobsOK /\ OwnOK(t) /\ WaitOK(t))
  BY DEF CoreInv
<1>3. UNCHANGED <<phase, list, older, uthread, batch>>
  BY <1>1 DEF kernel, poll
<1>4. MayUse[t] # {} /\ MayUse' = MayUse /\ (Calm' <=> Calm) /\ (Alone' <=> Alone) /\ Timed' = Timed
  BY <1>1, HasHandle, SetupStays
<1>5. o \in mine[t] /\ jstate[o] = "BUILT"
  BY <1>1, <1>2 DEF ThreadOK, FlushPcs
<1>6. o \in Objs /\ \A u \in Threads \ {t} : o \notin mine[u]
  BY <1>5, NotAnothers
<1>7. phase[o] = "none" /\ jobs[id[o]] = o
  BY <1>2, <1>5, <1>6 DEF TableOK
<1>8. "ioctl" \in ThreadPcs
  BY DEF ThreadPcs, FlushPcs
<1>9. /\ pc' = [pc EXCEPT ![t] = "ioctl"] /\ DOMAIN pc' = Callers /\ pc'[t] = "ioctl"
      /\ \A u \in Threads \ {t} : pc'[u] = pc[u]
      /\ \A u \in Threads : pc'[u] \in ThreadPcs
  BY <1>1, <1>2, <1>8, GotoEffect
<1>10. /\ jstate' \in [Objs -> JobStates] /\ jstate'[o] = "SCHED"
       /\ \A p \in Objs \ {o} : jstate'[p] = jstate[p]
  BY <1>1, <1>2, <1>6 DEF GraphTypeOK, JobStates
<1> HIDE DEF o
<1>11. GraphTypeOK'
  BY <1>1, <1>2, <1>3, <1>9, <1>10 DEF GraphTypeOK
<1>12. TableOK'
  BY <1>1, <1>2, <1>3, <1>5, <1>6, <1>7, <1>10 DEF TableOK, GraphTypeOK
<1>13. OwnersOK'
  BY <1>1, <1>2 DEF OwnersOK
<1>14. NoStatusLost'
  <2>1. \A u \in Threads : pc[u] = "update" => pc'[u] = "update"
    BY <1>1, <1>9
  <2> QED
    BY <1>1, <1>2, <1>3, <1>4, <1>7, <1>10, <2>1 DEF NoStatusLost
<1>15. Calm => JobsOK'
  <2> SUFFICES ASSUME Calm PROVE JobsOK'
    OBVIOUS
  <2>1. JobsOK
    BY <1>2
  <2>2. \A u \in Threads : pc[u] \in {"ioctl", "queue"} => pc'[u] = pc[u]
    BY <1>1, <1>9
  <2>3. ASSUME NEW p \in Objs, jstate'[p] = "SCHED", phase[p] = "none"
        PROVE  \E u \in Threads : pc'[u] = "ioctl" /\ ptr[u] = p
    <3>1. CASE p = o
      BY <1>9, <3>1 DEF o
    <3>2. CASE p # o
      BY <1>10, <2>1, <2>2, <2>3, <3>2 DEF JobsOK
    <3> QED
      BY <3>1, <3>2
  <2>4. \A p \in Objs : phase[p] = "listed" => \E u \in Threads : pc'[u] = "queue" /\ ptr[u] = p
    BY <2>1, <2>2 DEF JobsOK
  <2>5. /\ \A p \in Objs : jstate'[p] \notin {"TIMEOUT", "NO_STATE"}
        /\ \A p \in Objs : phase[p] \in {"listed"} \cup OnDevice => jstate'[p] = "SCHED"
        /\ \A p \in Objs : jstate'[p] \in {"DONE", "EXCEPTION"} => phase[p] = "gone"
        /\ \A p \in batch : phase[p] = "gone" /\ jstate'[p] = "SCHED"
    BY <1>2, <1>10, <2>1 DEF JobsOK, GraphTypeOK
  <2> QED
    BY <1>1, <1>3, <2>1, <2>3, <2>4, <2>5 DEF JobsOK
<1>16. ThreadOK(t)'
  <2>1. \A p \in mine[t] : jstate'[p] # "NONE"
    BY <1>2, <1>10 DEF ThreadOK, GraphTypeOK
  <2>2. jstate'[ptr'[t]] = "SCHED" /\ ptr'[t] \in mine[t]
    BY <1>1, <1>5, <1>10 DEF o
  <2> QED
    BY <1>1, <1>4, <1>9, <2>1, <2>2 DEF ThreadOK, FlushPcs, WaitPcs
<1>17. Calm => OwnOK(t)'
  BY <1>1, <1>2, <1>4, <1>9 DEF OwnOK
<1>18. Calm => WaitOK(t)'
  <2>1. phase'[ptr'[t]] = "none"
    BY <1>1, <1>3, <1>7 DEF o
  <2> QED
    BY <1>1, <1>2, <1>9, <2>1 DEF WaitOK, WaitPcs
<1>19. \A u \in Threads \ {t} : \A p \in mine[u] :
          /\ id'[p] = id[p] /\ buf_handle'[p] = buf_handle[p] /\ jstate'[p] = jstate[p]
          /\ jobs'[id[p]] = jobs[id[p]] /\ Moves(phase[p], phase'[p])
  BY <1>1, <1>2, <1>3, <1>6, <1>10 DEF Moves, GraphTypeOK
<1> QED
  BY <1>1, <1>3, <1>4, <1>8, <1>9, <1>11, <1>12, <1>13, <1>14, <1>15, <1>16, <1>17, <1>18,
     <1>19, ActionOf

\* RUNJOB: the kernel lists the job as one of this thread.
LEMMA FlushListStep ==
  ASSUME CoreInv, Core, HandlesApart, NEW t \in Threads, FlushList(t)
  PROVE  CoreInv'
<1> DEFINE o == ptr[t]
<1>1. /\ pc[t] = "ioctl" /\ Goto(t, "queue")
      /\ phase[o] = "none" /\ phase' = [phase EXCEPT ![o] = "listed"]
      /\ list' = list \cup {o} /\ older' = [older EXCEPT ![o] = list]
      /\ uthread' = [uthread EXCEPT ![o] = t]
      /\ UNCHANGED <<setup, table, arg, ptr, result, mine, poll>>
  BY DEF FlushList, K!List
<1>2. GraphTypeOK /\ TableOK /\ OwnersOK /\ NoStatusLost /\ ThreadOK(t)
      /\ (Calm => JobsOK /\ OwnOK(t) /\ WaitOK(t))
  BY DEF CoreInv
<1>3. UNCHANGED <<jstate, id, buf_handle, jobs, sched, is_free, batch>>
  BY <1>1 DEF table, poll
<1>4. MayUse[t] # {} /\ MayUse' = MayUse /\ (Calm' <=> Calm) /\ (Alone' <=> Alone) /\ Timed' = Timed
  BY <1>1, HasHandle, SetupStays
<1>5. o \in mine[t] /\ jstate[o] = "SCHED"
  BY <1>1, <1>2 DEF ThreadOK, FlushPcs
<1>6. o \in Objs /\ \A u \in Threads \ {t} : o \notin mine[u]
  BY <1>5, NotAnothers
<1>7. "queue" \in ThreadPcs
  BY DEF ThreadPcs, FlushPcs
<1>8. /\ pc' = [pc EXCEPT ![t] = "queue"] /\ DOMAIN pc' = Callers /\ pc'[t] = "queue"
      /\ \A u \in Threads \ {t} : pc'[u] = pc[u]
      /\ \A u \in Threads : pc'[u] \in ThreadPcs
  BY <1>1, <1>2, <1>7, GotoEffect
<1>9. /\ phase' \in [Objs -> K!Phases] /\ phase'[o] = "listed"
      /\ \A p \in Objs \ {o} : phase'[p] = phase[p]
  BY <1>1, <1>2, <1>6 DEF GraphTypeOK, K!Phases
<1>10. /\ uthread' \in [Objs -> Callers] /\ uthread'[o] = t
       /\ \A p \in Objs \ {o} : uthread'[p] = uthread[p]
  BY <1>1, <1>2, <1>6 DEF GraphTypeOK, Callers
<1>11. list' \subseteq Objs /\ older' \in [Objs -> SUBSET Objs]
  BY <1>1, <1>2, <1>6 DEF GraphTypeOK
<1>12. Calm => o \notin batch
  BY <1>1, <1>2 DEF JobsOK
<1>13. phase[o] = "none" /\ ptr[t] = o /\ UNCHANGED <<setup, arg, ptr, result, mine>>
  BY <1>1
<1> HIDE DEF o
<1>14. GraphTypeOK'
  BY <1>2, <1>3, <1>8, <1>9, <1>10, <1>11, <1>13 DEF GraphTypeOK
<1>15. TableOK'
  BY <1>2, <1>3, <1>5, <1>9 DEF TableOK
<1>16. OwnersOK'
  BY <1>2, <1>3, <1>13 DEF OwnersOK
<1>17. NoStatusLost'
  <2>1. \A u \in Threads : pc[u] = "update" => pc'[u] = "update"
    BY <1>1, <1>8
  <2> QED
    BY <1>2, <1>3, <1>4, <1>9, <1>13, <2>1 DEF NoStatusLost
<1>18. Calm => JobsOK'
  <2> SUFFICES ASSUME Calm PROVE JobsOK'
    OBVIOUS
  <2>1. JobsOK
    BY <1>2
  <2>2. \A u \in Threads \ {t} : pc'[u] = pc[u]
    BY <1>8
  <2>3. ASSUME NEW p \in Objs, jstate[p] = "SCHED", phase'[p] = "none"
        PROVE  \E u \in Threads : pc'[u] = "ioctl" /\ ptr[u] = p
    <3>1. p # o
      BY <1>9, <2>3
    <3>2. PICK u \in Threads : pc[u] = "ioctl" /\ ptr[u] = p
      BY <1>9, <2>1, <2>3, <3>1 DEF JobsOK
    <3> QED
      BY <1>13, <2>2, <3>1, <3>2
  <2>4. ASSUME NEW p \in Objs, phase'[p] = "listed"
        PROVE  \E u \in Threads : pc'[u] = "queue" /\ ptr[u] = p
    <3>1. CASE p = o
      BY <1>8, <1>13, <3>1
    <3>2. CASE p # o
      <4>1. PICK u \in Threads : pc[u] = "queue" /\ ptr[u] = p
        BY <1>9, <2>1, <2>4, <3>2 DEF JobsOK
      <4> QED
        BY <1>13, <2>2, <3>2, <4>1
    <3> QED
      BY <3>1, <3>2
  <2>5. /\ \A p \in Objs : phase'[p] \in {"none", "listed", "gone"} \cup OnDevice
        /\ \A p \in Objs : phase'[p] \in {"listed"} \cup OnDevice => jstate[p] = "SCHED"
        /\ \A p \in Objs : jstate[p] \in {"DONE", "EXCEPTION"} => phase'[p] = "gone"
        /\ \A p \in batch : phase'[p] = "gone" /\ jstate[p] = "SCHED"
    BY <1>2, <1>5, <1>9, <1>12, <2>1 DEF JobsOK, GraphTypeOK
  <2>6. \A p \in Objs : p \in list' <=> phase'[p] \in {"listed"} \cup OnDevice
    BY <1>1, <1>9, <2>1 DEF JobsOK
  <2>7. \A p \in list' : \A u \in Threads : uthread'[p] = u <=> p \in mine[u]
    BY <1>1, <1>2, <1>5, <1>6, <1>10, <2>1 DEF JobsOK, GraphTypeOK
  <2> QED
    BY <1>3, <1>13, <2>1, <2>3, <2>4, <2>5, <2>6, <2>7 DEF JobsOK
<1>19. ThreadOK(t)'
  <2>1. \A p \in mine[t] : jstate[p] # "NONE"
    BY <1>2 DEF ThreadOK
  <2> QED
    BY <1>3, <1>4, <1>5, <1>8, <1>13, <2>1 DEF ThreadOK, FlushPcs, WaitPcs
<1>20. Calm => OwnOK(t)'
  BY <1>1, <1>2, <1>3, <1>4, <1>8, <1>13 DEF OwnOK
<1>21. Calm => WaitOK(t)'
  BY <1>1, <1>2, <1>8, <1>9, <1>13 DEF WaitOK, WaitPcs
<1>22. \A u \in Threads \ {t} : \A p \in mine[u] :
          /\ id'[p] = id[p] /\ buf_handle'[p] = buf_handle[p] /\ jstate'[p] = jstate[p]
          /\ jobs'[id[p]] = jobs[id[p]] /\ Moves(phase[p], phase'[p])
  BY <1>2, <1>3, <1>6, <1>9 DEF Moves, GraphTypeOK
<1> QED
  BY <1>3, <1>4, <1>7, <1>8, <1>13, <1>14, <1>15, <1>16, <1>17, <1>18, <1>19, <1>20, <1>21,
     <1>22, ActionOf

\* ... and takes it: it is queued, and it or another one is started.
LEMMA FlushQueueStep ==
  ASSUME CoreInv, Core, HandlesApart, NEW t \in Threads, FlushQueue(t)
  PROVE  CoreInv'
<1> DEFINE o == ptr[t]
<1>1. /\ pc[t] = "queue" /\ Return(t)
      /\ UNCHANGED <<setup, table, list, older, uthread, result, mine, poll>>
  BY DEF FlushQueue
<1>2. GraphTypeOK /\ TableOK /\ OwnersOK /\ NoStatusLost /\ ThreadOK(t)
      /\ (Calm => JobsOK /\ OwnOK(t) /\ WaitOK(t))
  BY DEF CoreInv
<1>3. UNCHANGED <<jstate, id, buf_handle, jobs, sched, is_free, batch>>
  BY <1>1 DEF table, poll
<1>4. MayUse[t] # {} /\ MayUse' = MayUse /\ (Calm' <=> Calm) /\ (Alone' <=> Alone) /\ Timed' = Timed
  BY <1>1, HasHandle, SetupStays
<1>5. o \in mine[t] /\ jstate[o] = "SCHED"
  BY <1>1, <1>2 DEF ThreadOK, FlushPcs
<1>6. o \in Objs /\ \A u \in Threads \ {t} : o \notin mine[u]
  BY <1>5, NotAnothers
<1>7. /\ pc' = [pc EXCEPT ![t] = "idle"] /\ DOMAIN pc' = Callers /\ pc'[t] = "idle"
      /\ "idle" \in ThreadPcs
      /\ \A u \in Threads \ {t} : pc'[u] = pc[u] /\ arg'[u] = arg[u] /\ ptr'[u] = ptr[u]
      /\ \A u \in Threads : pc'[u] \in ThreadPcs
      /\ arg' \in [Callers -> Ids \cup Bufs] /\ ptr' \in [Callers -> {0} \cup Objs]
  BY <1>1, <1>2, ReturnEffect
<1>8. /\ phase' \in [Objs -> K!Phases]
      /\ phase[o] = "listed" /\ phase'[o] \in {"queued", "running"}
      /\ \A p \in Objs \ {o} : phase'[p] = phase[p] \/ (phase[p] = "queued" /\ phase'[p] = "running")
  <2>1. phase \in [Objs -> K!Phases] /\ "queued" \in K!Phases /\ "running" \in K!Phases
    BY <1>2 DEF GraphTypeOK, K!Phases
  <2>2. CASE phase[o] = "listed" /\ phase' = [phase EXCEPT ![o] = "queued"]
    BY <1>6, <2>1, <2>2
  <2>3. ASSUME NEW k \in Objs, k = o \/ phase[k] = "queued", phase[o] = "listed",
               phase' = [phase EXCEPT ![o] = "queued", ![k] = "running"]
        PROVE  <1>8!:
    BY <1>6, <2>1, <2>3
  <2> QED
    BY <2>2, <2>3 DEF FlushQueue, K!Queue, K!QueueAndStart
<1>9. ptr[t] = o
  OBVIOUS
<1> HIDE DEF o
<1>10. GraphTypeOK'
  BY <1>1, <1>2, <1>3, <1>7, <1>8 DEF GraphTypeOK
<1>11. TableOK'
  BY <1>2, <1>3, <1>5, <1>8 DEF TableOK
<1>12. OwnersOK'
  BY <1>1, <1>2, <1>3 DEF OwnersOK
<1>13. NoStatusLost'
  <2>1. \A u \in Threads : pc[u] = "update" => pc'[u] = "update" /\ ptr'[u] = ptr[u]
    BY <1>1, <1>7
  <2>2. \A p \in Objs : phase'[p] = "gone" => phase[p] = "gone"
    BY <1>8
  <2> QED
    BY <1>2, <1>3, <1>4, <2>1, <2>2 DEF NoStatusLost
<1>14. Calm => JobsOK'
  <2> SUFFICES ASSUME Calm PROVE JobsOK'
    OBVIOUS
  <2>1. JobsOK
    BY <1>2
  <2>2. ASSUME NEW p \in Objs, jstate[p] = "SCHED", phase'[p] = "none"
        PROVE  \E u \in Threads : pc'[u] = "ioctl" /\ ptr'[u] = p
    <3>1. PICK u \in Threads : pc[u] = "ioctl" /\ ptr[u] = p
      BY <1>8, <2>1, <2>2 DEF JobsOK
    <3> QED
      BY <1>1, <1>7, <3>1
  <2>3. ASSUME NEW p \in Objs, phase'[p] = "listed"
        PROVE  \E u \in Threads : pc'[u] = "queue" /\ ptr'[u] = p
    <3>1. PICK u \in Threads : pc[u] = "queue" /\ ptr[u] = p
      BY <1>8, <2>1, <2>3 DEF JobsOK
    <3>2. u # t
      BY <1>8, <1>9, <2>3, <3>1
    <3> QED
      BY <1>7, <3>1, <3>2
  <2>4. /\ \A p \in Objs : phase'[p] \in {"none", "listed", "gone"} \cup OnDevice
        /\ \A p \in Objs : phase'[p] \in {"listed"} \cup OnDevice => jstate[p] = "SCHED"
        /\ \A p \in Objs : jstate[p] \in {"DONE", "EXCEPTION"} => phase'[p] = "gone"
        /\ \A p \in batch : phase'[p] = "gone" /\ jstate[p] = "SCHED"
    BY <1>2, <1>5, <1>8, <2>1 DEF JobsOK, OnDevice, GraphTypeOK
  <2>5. \A p \in Objs : p \in list <=> phase'[p] \in {"listed"} \cup OnDevice
    BY <1>8, <2>1 DEF JobsOK, OnDevice
  <2> QED
    BY <1>1, <1>3, <2>1, <2>2, <2>3, <2>4, <2>5 DEF JobsOK
<1>15. ThreadOK(t)'
  BY <1>1, <1>2, <1>3, <1>4, <1>5, <1>7 DEF ThreadOK, FlushPcs, WaitPcs
<1>16. Calm => OwnOK(t)'
  BY <1>1, <1>2, <1>3, <1>4, <1>7 DEF OwnOK
<1>17. Calm => WaitOK(t)'
  BY <1>1, <1>2, <1>7 DEF WaitOK, WaitPcs
<1>18. \A u \in Threads \ {t} : \A p \in mine[u] :
          /\ id'[p] = id[p] /\ buf_handle'[p] = buf_handle[p] /\ jstate'[p] = jstate[p]
          /\ jobs'[id[p]] = jobs[id[p]] /\ Moves(phase[p], phase'[p])
  BY <1>2, <1>3, <1>6, <1>8 DEF Moves, OnDevice, GraphTypeOK
<1> QED
  BY <1>1, <1>3, <1>4, <1>7, <1>10, <1>11, <1>12, <1>13, <1>14, <1>15, <1>16, <1>17, <1>18, ActionOf

\* QUERYSTATUS of one job: without timeouts the newest ended job with that id is the thread's.
LEMMA QueryJobStep ==
  ASSUME CoreInv, Core, HandlesApart, NEW t \in Threads, pc[t] = "query",
         NEW o \in Ended, id[o] = arg[t], HandOut({o}), ptr' = [ptr EXCEPT ![t] = o],
         Goto(t, "update"), UNCHANGED <<setup, table, uthread, arg, result, mine, poll>>
  PROVE  CoreInv'
<1>1. GraphTypeOK /\ TableOK /\ OwnersOK /\ NoStatusLost /\ ThreadOK(t) /\ PollerOK
      /\ (Calm => JobsOK /\ OwnOK(t) /\ WaitOK(t))
  BY DEF CoreInv
<1>2. UNCHANGED <<jstate, id, buf_handle, jobs, sched, is_free, batch>>
  BY DEF table, poll
<1>3. MayUse[t] # {} /\ MayUse' = MayUse /\ (Calm' <=> Calm) /\ (Alone' <=> Alone) /\ Timed' = Timed
  BY HasHandle, SetupStays
<1>4. o \in Objs /\ o \in list /\ phase[o] = "end" /\ ~PollOpt
  BY <1>1 DEF Ended, GraphTypeOK, PollerOK
<1>5. "update" \in ThreadPcs
  BY DEF ThreadPcs, WaitPcs
<1>6. /\ pc' = [pc EXCEPT ![t] = "update"] /\ DOMAIN pc' = Callers /\ pc'[t] = "update"
      /\ \A u \in Threads \ {t} : pc'[u] = pc[u]
      /\ \A u \in Threads : pc'[u] \in ThreadPcs
  BY <1>1, <1>5, GotoEffect
<1>7. /\ ptr' \in [Callers -> {0} \cup Objs] /\ ptr'[t] = o
      /\ \A u \in Threads \ {t} : ptr'[u] = ptr[u]
  BY <1>1, <1>4 DEF GraphTypeOK, Callers
<1>8. /\ phase' \in [Objs -> K!Phases] /\ phase'[o] = "gone"
      /\ \A p \in Objs \ {o} : phase'[p] = phase[p]
  BY <1>1, <1>4 DEF HandOut, K!Collect, GraphTypeOK, K!Phases
<1>9. list' = list \ {o} /\ older' \in [Objs -> SUBSET Objs]
  BY <1>1, <1>4 DEF HandOut, GraphTypeOK
<1>10. Calm => o = ptr[t] /\ o \in mine[t] /\ jstate[o] = "SCHED"
  <2> SUFFICES ASSUME Calm PROVE o = ptr[t] /\ o \in mine[t] /\ jstate[o] = "SCHED"
    OBVIOUS
  <2>1. jstate[o] = "SCHED"
    BY <1>1, <1>4 DEF JobsOK, OnDevice
  <2>2. jobs[id[o]] = o
    BY <1>1, <1>4, <2>1 DEF TableOK
  <2>3. ptr[t] \in mine[t] /\ arg[t] = id[ptr[t]]
    BY <1>1 DEF WaitOK, ThreadOK, WaitPcs
  <2>4. jobs[id[ptr[t]]] = ptr[t]
    BY <1>1, <2>3 DEF OwnOK
  <2> QED
    BY <2>1, <2>2, <2>3, <2>4
<1>11. GraphTypeOK'
  BY <1>1, <1>2, <1>6, <1>7, <1>8, <1>9 DEF GraphTypeOK
<1>12. TableOK'
  BY <1>1, <1>2, <1>4, <1>8 DEF TableOK
<1>13. OwnersOK'
  BY <1>1, <1>2 DEF OwnersOK
<1>14. NoStatusLost'
  <2> SUFFICES ASSUME Core, NEW p \in Objs, phase'[p] = "gone", jstate[p] = "SCHED"
               PROVE  (\E u \in Threads : pc'[u] = "update" /\ ptr'[u] = p) \/ p \in batch
    BY <1>2, <1>3 DEF NoStatusLost
  <2>1. CASE p = o
    BY <1>6, <1>7, <2>1
  <2>2. CASE p # o
    <3>1. (\E u \in Threads : pc[u] = "update" /\ ptr[u] = p) \/ p \in batch
      BY <1>1, <1>8, <2>2 DEF NoStatusLost, Core, Calm
    <3> QED
      BY <1>6, <1>7, <3>1
  <2> QED
    BY <2>1, <2>2
<1>15. Calm => JobsOK'
  <2> SUFFICES ASSUME Calm PROVE JobsOK'
    OBVIOUS
  <2>1. JobsOK
    BY <1>1
  <2>2. \A u \in Threads : pc[u] \in {"ioctl", "queue"} => pc'[u] = pc[u] /\ ptr'[u] = ptr[u]
    BY <1>6, <1>7
  <2>3. /\ \A p \in Objs : jstate[p] = "SCHED" /\ phase'[p] = "none" =>
             \E u \in Threads : pc'[u] = "ioctl" /\ ptr'[u] = p
        /\ \A p \in Objs : phase'[p] = "listed" => \E u \in Threads : pc'[u] = "queue" /\ ptr'[u] = p
    BY <1>8, <2>1, <2>2 DEF JobsOK
  <2>4. /\ \A p \in Objs : phase'[p] \in {"none", "listed", "gone"} \cup OnDevice
        /\ \A p \in Objs : phase'[p] \in {"listed"} \cup OnDevice => jstate[p] = "SCHED"
        /\ \A p \in Objs : jstate[p] \in {"DONE", "EXCEPTION"} => phase'[p] = "gone"
        /\ \A p \in batch : phase'[p] = "gone" /\ jstate[p] = "SCHED"
    BY <1>1, <1>8, <2>1 DEF JobsOK, OnDevice, GraphTypeOK
  <2>5. \A p \in Objs : p \in list' <=> phase'[p] \in {"listed"} \cup OnDevice
    BY <1>8, <1>9, <2>1 DEF JobsOK, OnDevice
  <2> QED
    BY <1>2, <1>9, <2>1, <2>3, <2>4, <2>5 DEF JobsOK
<1>16. ThreadOK(t)'
  <2>1. \A p \in mine[t] : jstate[p] # "NONE"
    BY <1>1 DEF ThreadOK
  <2> QED
    BY <1>2, <1>3, <1>4, <1>6, <1>7, <1>8, <2>1 DEF ThreadOK, FlushPcs, WaitPcs
<1>17. Calm => OwnOK(t)'
  BY <1>1, <1>2, <1>3, <1>6 DEF OwnOK
<1>18. Calm => WaitOK(t)'
  BY <1>1, <1>2, <1>6, <1>7, <1>10 DEF WaitOK, WaitPcs
<1>19. Calm => \A u \in Threads \ {t} : \A p \in mine[u] :
          /\ id'[p] = id[p] /\ buf_handle'[p] = buf_handle[p] /\ jstate'[p] = jstate[p]
          /\ jobs'[id[p]] = jobs[id[p]] /\ Moves(phase[p], phase'[p])
  <2>1. Calm => \A u \in Threads \ {t} : \A p \in mine[u] : p \in Objs \ {o}
    BY <1>1, <1>10 DEF OwnersOK, GraphTypeOK
  <2> QED
    BY <1>2, <1>8, <2>1 DEF Moves
<1> QED
  BY <1>2, <1>3, <1>4, <1>5, <1>6, <1>7, <1>11, <1>12, <1>13, <1>14, <1>15, <1>16, <1>17, <1>18,
     <1>19, ActionOf

\* Either way the wait keeps to the invariant.
LEMMA QuerySingleStep ==
  ASSUME CoreInv, Core, HandlesApart, NEW t \in Threads, QuerySingle(t)
  PROVE  CoreInv'
<1>1. pc[t] = "query" /\ UNCHANGED <<setup, table, mine, poll>>
  BY DEF QuerySingle
<1>2. CASE {o \in Ended : id[o] = arg[t]} = {} /\ WaitReturn(t, "NULL_PTR") /\ UNCHANGED kernel
  BY <1>1, <1>2, QueryNothingStep
<1>3. ASSUME NEW o \in Newest({p \in Ended : id[p] = arg[t]}),
             HandOut({o}), ptr' = [ptr EXCEPT ![t] = o],
             Goto(t, "update"), UNCHANGED <<uthread, arg, result>>
      PROVE  CoreInv'
  <2>1. o \in Ended /\ id[o] = arg[t]
    BY DEF Newest
  <2> QED
    BY <1>1, <1>3, <2>1, QueryJobStep
<1> QED
  BY <1>2, <1>3 DEF QuerySingle

\* A call returns after it has set the state of a job: without timeouts that is the status
\* of the job the thread waited for.
LEMMA EndStep ==
  ASSUME CoreInv, Core, HandlesApart, NEW t \in Threads, MayUse[t] # {}, Return(t),
         UNCHANGED <<setup, id, buf_handle, jobs, is_free, kernel, mine, poll>>,
         DOMAIN result' = Threads, \A u \in Threads \ {t} : result'[u] = result[u],
         DOMAIN jstate' = Objs,
         \A p \in Objs :
            \/ jstate'[p] = jstate[p]
            \/ ~Calm /\ jstate'[p] \in {"TIMEOUT", "NO_STATE"}
            \/ /\ jstate'[p] \in {"DONE", "EXCEPTION"} /\ jobs[id[p]] = p
               /\ Calm => p = ptr[t],
         jstate' \in [Objs -> JobStates],
         pc[t] = "update" => jstate'[ptr[t]] # "SCHED",
         Calm => pc[t] = "update",
         Calm /\ setup.max_own = 1 => result'[t] \notin {"NULL_PTR", "JOB_NOT_EXIST"}
  PROVE  CoreInv'
<1>1. GraphTypeOK /\ TableOK /\ OwnersOK /\ NoStatusLost /\ ThreadOK(t) /\ PollerOK
      /\ (Calm => JobsOK /\ OwnOK(t) /\ WaitOK(t))
  BY DEF CoreInv
<1>2. UNCHANGED <<phase, list, older, uthread, batch>>
  BY DEF kernel, poll
<1>3. MayUse' = MayUse /\ (Calm' <=> Calm) /\ (Alone' <=> Alone) /\ Timed' = Timed
  BY SetupStays
<1>4. /\ pc' = [pc EXCEPT ![t] = "idle"] /\ DOMAIN pc' = Callers /\ pc'[t] = "idle"
      /\ "idle" \in ThreadPcs
      /\ \A u \in Threads \ {t} : pc'[u] = pc[u] /\ arg'[u] = arg[u] /\ ptr'[u] = ptr[u]
      /\ \A u \in Threads : pc'[u] \in ThreadPcs
      /\ arg' \in [Callers -> Ids \cup Bufs] /\ ptr' \in [Callers -> {0} \cup Objs]
  BY <1>1, ReturnEffect
<1>5. Calm => /\ ptr[t] \in mine[t] /\ phase[ptr[t]] = "gone" /\ batch = {}
  BY <1>1 DEF WaitOK, WaitPcs, ThreadOK, PollerOK
<1>6. GraphTypeOK'
  BY <1>1, <1>2, <1>4 DEF GraphTypeOK
<1>7. TableOK'
  <2>1. \A i \in Ids : jobs[i] # 0 => id[jobs[i]] = i /\ jstate'[jobs[i]] \notin {"NONE", "DELETED"}
    BY <1>1 DEF TableOK, GraphTypeOK
  <2>2. \A p \in Objs : jstate'[p] \in {"BUILT", "SCHED", "DONE", "EXCEPTION"} => jobs[id[p]] = p
    BY <1>1 DEF TableOK
  <2>3. \A p \in Objs : jstate'[p] \in {"NONE", "BUILT"} => phase[p] = "none"
    BY <1>1 DEF TableOK
  <2> QED
    BY <1>2, <2>1, <2>2, <2>3 DEF TableOK
<1>8. OwnersOK'
  BY <1>1 DEF OwnersOK
<1>9. NoStatusLost'
  <2> SUFFICES ASSUME Core, NEW p \in Objs, phase[p] = "gone", jstate'[p] = "SCHED"
               PROVE  (\E u \in Threads : pc'[u] = "update" /\ ptr'[u] = p) \/ p \in batch
    BY <1>2, <1>3 DEF NoStatusLost
  <2>1. (\E u \in Threads : pc[u] = "update" /\ ptr[u] = p) \/ p \in batch
    BY <1>1 DEF NoStatusLost, Core, Calm
  <2> QED
    BY <1>4, <2>1
<1>10. Calm => JobsOK'
  <2> SUFFICES ASSUME Calm PROVE JobsOK'
    OBVIOUS
  <2>1. JobsOK
    BY <1>1
  <2>2. \A u \in Threads : pc[u] \in {"ioctl", "queue"} => pc'[u] = pc[u] /\ ptr'[u] = ptr[u]
    BY <1>4
  <2>3. /\ \A p \in Objs : jstate'[p] = "SCHED" /\ phase[p] = "none" =>
             \E u \in Threads : pc'[u] = "ioctl" /\ ptr'[u] = p
        /\ \A p \in Objs : phase[p] = "listed" => \E u \in Threads : pc'[u] = "queue" /\ ptr'[u] = p
    BY <2>1, <2>2 DEF JobsOK
  <2>4. /\ \A p \in Objs : jstate'[p] \notin {"TIMEOUT", "NO_STATE"}
        /\ \A p \in Objs : phase[p] \in {"listed"} \cup OnDevice => jstate'[p] = "SCHED"
        /\ \A p \in Objs : jstate'[p] \in {"DONE", "EXCEPTION"} => phase[p] = "gone"
    BY <1>5, <2>1 DEF JobsOK, OnDevice
  <2> QED
    BY <1>2, <1>5, <2>1, <2>3, <2>4 DEF JobsOK
<1>11. ThreadOK(t)'
  <2>1. \A p \in mine[t] : jstate'[p] # "NONE"
    BY <1>1 DEF ThreadOK, GraphTypeOK
  <2> QED
    BY <1>3, <1>4, <2>1 DEF ThreadOK, FlushPcs, WaitPcs
<1>12. Calm => OwnOK(t)'
  BY <1>1, <1>3, <1>4 DEF OwnOK
<1>13. Calm => WaitOK(t)'
  BY <1>1, <1>4 DEF WaitOK, WaitPcs
<1>14. Calm => \A u \in Threads \ {t} : \A p \in mine[u] :
          /\ id'[p] = id[p] /\ buf_handle'[p] = buf_handle[p] /\ jstate'[p] = jstate[p]
          /\ jobs'[id[p]] = jobs[id[p]] /\ Moves(phase[p], phase'[p])
  <2>1. Calm => \A u \in Threads \ {t} : \A p \in mine[u] : p \in Objs /\ p # ptr[t]
    BY <1>1, <1>5 DEF OwnersOK, GraphTypeOK
  <2> QED
    BY <1>2, <2>1 DEF Moves
<1>15. /\ \A u \in Threads \ {t} :
             arg'[u] = arg[u] /\ ptr'[u] = ptr[u] /\ result'[u] = result[u] /\ mine'[u] = mine[u]
       /\ \A b \in Bufs \ MayUse[t] : is_free'[b] = is_free[b]
  BY <1>4
<1>16. UNCHANGED <<setup, batch>>
  BY <1>2
<1> QED
  BY <1>4, <1>6, <1>7, <1>8, <1>9, <1>10, <1>11, <1>12, <1>13, <1>14, <1>15, <1>16, ActionOf

\* RUNJOB fails: only with timeouts, where the kernel may refuse a job.
LEMMA FlushRefusedStep ==
  ASSUME CoreInv, Core, HandlesApart, NEW t \in Threads, FlushRefused(t)
  PROVE  CoreInv'
<1>1. /\ pc[t] \in {"ioctl", "queue"} /\ Refuse /\ Return(t)
      /\ jstate' = [jstate EXCEPT ![ptr[t]] = "NO_STATE"]
      /\ UNCHANGED <<setup, id, buf_handle, jobs, is_free, kernel, result, mine, poll>>
  BY DEF FlushRefused
<1>2. ~Calm /\ MayUse[t] # {}
  BY <1>1, HasHandle, CalmSetup DEF CoreInv, GraphTypeOK
<1>3. jstate' \in [Objs -> JobStates] /\ DOMAIN jstate' = Objs
  BY <1>1 DEF CoreInv, GraphTypeOK, JobStates
<1>4. \A p \in Objs : jstate'[p] = jstate[p] \/ jstate'[p] \in {"TIMEOUT", "NO_STATE"}
  BY <1>1 DEF CoreInv, GraphTypeOK
<1>5. DOMAIN result' = Threads /\ \A u \in Threads \ {t} : result'[u] = result[u]
  BY <1>1 DEF CoreInv, GraphTypeOK
<1> QED
  BY <1>1, <1>2, <1>3, <1>4, <1>5, EndStep

\* update_job_status finds the job of the status under its id, whose status has not been
\* applied before.
LEMMA WaitUpdateStep ==
  ASSUME CoreInv, Core, HandlesApart, NEW t \in Threads, WaitUpdate(t)
  PROVE  CoreInv'
<1>1. pc[t] = "update" /\ UNCHANGED <<setup, id, buf_handle, jobs, is_free, kernel, mine, poll>>
  BY DEF WaitUpdate
<1>2. GraphTypeOK /\ TableOK /\ ThreadOK(t) /\ (Calm => JobsOK /\ OwnOK(t) /\ WaitOK(t))
  BY DEF CoreInv
<1>3. MayUse[t] # {}
  BY <1>1, HasHandle
<1>4. ptr[t] \in Objs /\ arg[t] = id[ptr[t]] /\ id[ptr[t]] \in Ids
  BY <1>1, <1>2 DEF ThreadOK, WaitPcs, GraphTypeOK
<1>5. Calm => jobs[arg[t]] = ptr[t]
  BY <1>1, <1>2, <1>4 DEF WaitOK, WaitPcs, OwnOK
<1>6. jstate[ptr[t]] = "SCHED" => jobs[arg[t]] = ptr[t]
  BY <1>2, <1>4 DEF TableOK
<1>7. ptr[t] # 0
  BY <1>4 DEF Objs
<1>8. CASE jobs[arg[t]] = 0 /\ jstate' = jstate /\ WaitReturn(t, "JOB_NOT_EXIST")
  <2>1. ~Calm /\ jstate[ptr[t]] # "SCHED"
    BY <1>5, <1>6, <1>7, <1>8
  <2>2. /\ DOMAIN result' = Threads /\ \A u \in Threads \ {t} : result'[u] = result[u]
        /\ Return(t)
    BY <1>2, <1>8 DEF WaitReturn, GraphTypeOK
  <2>3. jstate' \in [Objs -> JobStates] /\ DOMAIN jstate' = Objs
    BY <1>2, <1>8 DEF GraphTypeOK
  <2>4. \A p \in Objs : jstate'[p] = jstate[p]
    BY <1>8
  <2>5. jstate'[ptr[t]] # "SCHED"
    BY <1>8, <2>1
  <2> QED
    BY <1>1, <1>3, <2>1, <2>2, <2>3, <2>4, <2>5, EndStep
<1>9. ASSUME NEW st \in {"DONE", "EXCEPTION"}, jobs[arg[t]] # 0,
             jstate' = [jstate EXCEPT ![jobs[arg[t]]] = st], WaitReturn(t, st)
      PROVE  CoreInv'
  <2>1. jobs[arg[t]] \in Objs /\ id[jobs[arg[t]]] = arg[t]
    BY <1>2, <1>4, <1>9 DEF GraphTypeOK, TableOK
  <2>2. /\ DOMAIN result' = Threads /\ \A u \in Threads \ {t} : result'[u] = result[u]
        /\ Return(t) /\ result'[t] = st
    BY <1>2, <1>9 DEF WaitReturn, GraphTypeOK
  <2>3. /\ jstate' \in [Objs -> JobStates] /\ DOMAIN jstate' = Objs
        /\ jstate'[jobs[arg[t]]] = st
        /\ \A p \in Objs \ {jobs[arg[t]]} : jstate'[p] = jstate[p]
    BY <1>2, <1>9, <2>1 DEF GraphTypeOK, JobStates
  <2>4. \A p \in Objs : \/ jstate'[p] = jstate[p]
                        \/ /\ jstate'[p] \in {"DONE", "EXCEPTION"} /\ jobs[id[p]] = p
                           /\ Calm => p = ptr[t]
    BY <1>5, <2>1, <2>3
  <2>5. jstate'[ptr[t]] # "SCHED"
    BY <1>4, <1>6, <2>3
  <2> QED
    BY <1>1, <1>3, <2>2, <2>3, <2>4, <2>5, EndStep
<1> QED
  BY <1>8, <1>9 DEF WaitUpdate

\* The state is set to TIMEOUT.
LEMMA WaitTimeoutStep ==
  ASSUME CoreInv, Core, HandlesApart, NEW t \in Threads, WaitTimeout(t)
  PROVE  CoreInv'
<1>1. /\ pc[t] = "timeout" /\ Return(t) /\ result' = [result EXCEPT ![t] = "TIMEOUT"]
      /\ UNCHANGED <<setup, id, buf_handle, jobs, is_free, kernel, mine, poll>>
  BY DEF WaitTimeout, WaitReturn
<1>2. PICK o : jstate' = [p \in Objs |-> IF p = o /\ jstate[p] # "DELETED"
                                           THEN "TIMEOUT" ELSE jstate[p]]
  BY DEF WaitTimeout
<1>3. ~Calm /\ MayUse[t] # {}
  BY <1>1, HasHandle DEF CoreInv, WaitOK
<1>4. /\ jstate' \in [Objs -> JobStates] /\ DOMAIN jstate' = Objs
      /\ \A p \in Objs : jstate'[p] = jstate[p] \/ jstate'[p] \in {"TIMEOUT", "NO_STATE"}
  BY <1>2 DEF CoreInv, GraphTypeOK, JobStates
<1>5. DOMAIN result' = Threads /\ \A u \in Threads \ {t} : result'[u] = result[u]
  BY <1>1 DEF CoreInv, GraphTypeOK
<1> QED
  BY <1>1, <1>3, <1>4, <1>5, EndStep

\* KILL_TIMEOUT_JOB of one thread that is alone: a job that has not been flushed, or that has
\* been collected, stays as it is.
LEMMA WaitKillStep ==
  ASSUME CoreInv, Core, HandlesApart, NEW t \in Threads, WaitKill(t)
  PROVE  CoreInv'
<1>1. /\ pc[t] = "kill" /\ Goto(t, "timeout")
      /\ UNCHANGED <<setup, table, list, older, uthread, arg, ptr, result, mine, poll>>
  BY DEF WaitKill
<1>2. GraphTypeOK /\ TableOK /\ OwnersOK /\ NoStatusLost /\ ThreadOK(t)
  BY DEF CoreInv
<1>3. ~Calm /\ MayUse[t] # {}
  BY <1>1, HasHandle DEF CoreInv, WaitOK
<1>4. UNCHANGED <<jstate, id, buf_handle, jobs, is_free, batch>>
  BY <1>1 DEF table, poll
<1>5. MayUse' = MayUse /\ (Alone' <=> Alone) /\ Timed' = Timed
  BY <1>1, SetupStays
<1>6. "timeout" \in ThreadPcs
  BY DEF ThreadPcs, WaitPcs
<1>7. /\ pc' = [pc EXCEPT ![t] = "timeout"] /\ DOMAIN pc' = Callers /\ pc'[t] = "timeout"
      /\ \A u \in Threads \ {t} : pc'[u] = pc[u]
      /\ \A u \in Threads : pc'[u] \in ThreadPcs
  BY <1>1, <1>2, <1>6, GotoEffect
<1>8. /\ phase' \in [Objs -> K!Phases]
      /\ \A p \in Objs : phase[p] \in {"none", "gone"} \/ phase'[p] \in {"none", "gone"}
                           => phase'[p] = phase[p]
  <2>1. PICK S : phase' = [p \in Objs |-> IF p \in S THEN K!Cancelled(phase[p]) ELSE phase[p]]
    BY DEF WaitKill, K!Cancel
  <2>2. \A p \in Objs : phase[p] \in K!Phases
    BY <1>2 DEF GraphTypeOK
  <2>3. \A q \in K!Phases : /\ K!Cancelled(q) \in K!Phases
                            /\ q \in {"none", "gone"} \/ K!Cancelled(q) \in {"none", "gone"}
                                 => K!Cancelled(q) = q
    BY DEF K!Cancelled, K!Phases
  <2> QED
    BY <2>1, <2>2, <2>3
<1>9. GraphTypeOK'
  BY <1>1, <1>2, <1>4, <1>7, <1>8 DEF GraphTypeOK
<1>10. TableOK' /\ OwnersOK'
  BY <1>1, <1>2, <1>4, <1>8 DEF TableOK, OwnersOK
<1>11. NoStatusLost'
  <2>1. \A u \in Threads : pc[u] = "update" => pc'[u] = "update"
    BY <1>1, <1>7
  <2>2. \A p \in Objs : phase'[p] = "gone" => phase[p] = "gone"
    BY <1>8
  <2> QED
    BY <1>1, <1>2, <1>4, <1>5, <2>1, <2>2 DEF NoStatusLost
<1>12. ThreadOK(t)'
  BY <1>1, <1>2, <1>3, <1>4, <1>5, <1>7 DEF ThreadOK, FlushPcs, WaitPcs
<1> QED
  BY <1>1, <1>3, <1>4, <1>6, <1>7, <1>9, <1>10, <1>11, <1>12, ActionOf

\* The job of a thread leaves the table only when the thread cleans it, without timeouts.
LEMMA WaitNotExistStep ==
  ASSUME CoreInv, Core, HandlesApart, NEW t \in Threads, NEW o \in Objs, WaitNotExist(t, o)
  PROVE  CoreInv'
<1>1. /\ pc[t] = "idle" /\ o \in mine[t] /\ jobs[id[o]] = 0
      /\ mine' = [mine EXCEPT ![t] = Without(@, id[o])]
      /\ Return(t) /\ result' = [result EXCEPT ![t] = "JOB_NOT_EXIST"]
      /\ UNCHANGED <<setup, table, kernel, poll>>
  BY DEF WaitNotExist, WaitReturn
<1>2. GraphTypeOK /\ TableOK /\ OwnersOK /\ NoStatusLost /\ ThreadOK(t) /\ (Calm => OwnOK(t))
  BY DEF CoreInv
<1>3. ~Calm /\ MayUse[t] # {}
  <2>1. o # 0
    BY DEF Objs
  <2> QED
    BY <1>1, <1>2, <2>1, HasHandle DEF OwnOK
<1>4. UNCHANGED <<jstate, id, buf_handle, jobs, is_free, phase, list, older, uthread, batch>>
  BY <1>1 DEF table, kernel, poll
<1>5. MayUse' = MayUse /\ (Alone' <=> Alone) /\ Timed' = Timed
  BY <1>1, SetupStays
<1>6. /\ pc' = [pc EXCEPT ![t] = "idle"] /\ DOMAIN pc' = Callers /\ pc'[t] = "idle"
      /\ "idle" \in ThreadPcs
      /\ \A u \in Threads \ {t} : pc'[u] = pc[u] /\ arg'[u] = arg[u] /\ ptr'[u] = ptr[u]
      /\ \A u \in Threads : pc'[u] \in ThreadPcs
      /\ arg' \in [Callers -> Ids \cup Bufs] /\ ptr' \in [Callers -> {0} \cup Objs]
  BY <1>1, <1>2, ReturnEffect
<1>7. /\ mine' \in [Threads -> SUBSET Objs]
      /\ mine'[t] = {p \in mine[t] : id[p] # id[o]}
      /\ \A u \in Threads \ {t} : mine'[u] = mine[u]
  BY <1>1, <1>2 DEF GraphTypeOK, Without
<1>8. DOMAIN result' = Threads /\ \A u \in Threads \ {t} : result'[u] = result[u]
  BY <1>1, <1>2 DEF GraphTypeOK
<1>9. GraphTypeOK'
  BY <1>1, <1>2, <1>4, <1>6, <1>7, <1>8 DEF GraphTypeOK
<1>10. TableOK'
  BY <1>2, <1>4 DEF TableOK
<1>11. OwnersOK'
  <2>1. \A u, v \in Threads : u # v => mine'[u] \cap mine'[v] = {}
    BY <1>2, <1>7 DEF OwnersOK
  <2>2. ASSUME NEW i \in Ids, jobs[i] # 0 PROVE \E u \in Threads : jobs[i] \in mine'[u]
    <3>1. PICK u \in Threads : jobs[i] \in mine[u]
      BY <1>2, <2>2 DEF OwnersOK
    <3>2. id[jobs[i]] = i
      BY <1>2, <2>2 DEF TableOK
    <3> QED
      BY <1>1, <1>7, <2>2, <3>1, <3>2
  <2> QED
    BY <1>4, <2>1, <2>2 DEF OwnersOK
<1>12. NoStatusLost'
  <2>1. \A u \in Threads : pc[u] = "update" => pc'[u] = "update" /\ ptr'[u] = ptr[u]
    BY <1>1, <1>6
  <2> QED
    BY <1>2, <1>4, <1>5, <2>1 DEF NoStatusLost
<1>13. ThreadOK(t)'
  BY <1>1, <1>2, <1>3, <1>4, <1>5, <1>6, <1>7 DEF ThreadOK, FlushPcs, WaitPcs
<1> QED
  BY <1>1, <1>3, <1>4, <1>6, <1>7, <1>8, <1>9, <1>10, <1>11, <1>12, <1>13, ActionOf

\* clean_job gives the buffer of a job that has ended back: without timeouts the job's own.
LEMMA CleanFreeStep ==
  ASSUME CoreInv, Core, HandlesApart, NEW t \in Threads, NEW o \in Objs, CleanFree(t, o)
  PROVE  CoreInv'
<1> DEFINE q == jobs[id[o]]
<1>1. /\ pc[t] = "idle" /\ o \in mine[t] /\ q # 0 /\ jstate[q] \notin {"BUILT", "SCHED"}
      /\ ptr' = [ptr EXCEPT ![t] = q] /\ is_free' = [is_free EXCEPT ![buf_handle[q]] = TRUE]
      /\ Goto(t, "erase")
      /\ UNCHANGED <<setup, jstate, id, buf_handle, jobs, sched, kernel, arg, result, mine, poll>>
  BY DEF CleanFree
<1>2. GraphTypeOK /\ TableOK /\ OwnersOK /\ NoStatusLost /\ ThreadOK(t)
      /\ (Calm => JobsOK /\ OwnOK(t) /\ WaitOK(t))
  BY DEF CoreInv
<1>3. UNCHANGED <<phase, list, older, uthread, batch>>
  BY <1>1 DEF kernel, poll
<1>4. MayUse[t] # {} /\ MayUse' = MayUse /\ (Calm' <=> Calm) /\ (Alone' <=> Alone) /\ Timed' = Timed
  BY <1>1, HasHandle, SetupStays
<1>5. q \in mine[t] /\ q \in Objs /\ id[q] = id[o] /\ id[o] \in Ids
  BY <1>1, OwnEntry
<1>6. "erase" \in ThreadPcs
  BY DEF ThreadPcs
<1>7. /\ pc' = [pc EXCEPT ![t] = "erase"] /\ DOMAIN pc' = Callers /\ pc'[t] = "erase"
      /\ \A u \in Threads \ {t} : pc'[u] = pc[u]
      /\ \A u \in Threads : pc'[u] \in ThreadPcs
  BY <1>1, <1>2, <1>6, GotoEffect
<1>8. /\ ptr' \in [Callers -> {0} \cup Objs] /\ ptr'[t] = q
      /\ \A u \in Threads \ {t} : ptr'[u] = ptr[u]
  BY <1>1, <1>2, <1>5 DEF GraphTypeOK, Callers
<1>9. /\ is_free' \in [Bufs -> BOOLEAN]
      /\ \A b \in Bufs \ {buf_handle[q]} : is_free'[b] = is_free[b]
  BY <1>1, <1>2 DEF GraphTypeOK
<1>10. jobs[id[q]] = q
  BY <1>5
<1> HIDE DEF q
<1>11. GraphTypeOK'
  BY <1>1, <1>2, <1>3, <1>7, <1>8, <1>9 DEF GraphTypeOK
<1>12. TableOK' /\ OwnersOK'
  BY <1>1, <1>2, <1>3 DEF TableOK, OwnersOK
<1>13. NoStatusLost'
  <2>1. \A u \in Threads : pc[u] = "update" => pc'[u] = "update" /\ ptr'[u] = ptr[u]
    BY <1>1, <1>7, <1>8
  <2> QED
    BY <1>1, <1>2, <1>3, <1>4, <2>1 DEF NoStatusLost
<1>14. Calm => JobsOK'
  <2> SUFFICES ASSUME Calm PROVE JobsOK'
    OBVIOUS
  <2>1. JobsOK
    BY <1>2
  <2>2. \A u \in Threads : pc[u] \in {"ioctl", "queue"} => pc'[u] = pc[u] /\ ptr'[u] = ptr[u]
    BY <1>1, <1>7, <1>8
  <2>3. /\ \A p \in Objs : jstate[p] = "SCHED" /\ phase[p] = "none" =>
             \E u \in Threads : pc'[u] = "ioctl" /\ ptr'[u] = p
        /\ \A p \in Objs : phase[p] = "listed" => \E u \in Threads : pc'[u] = "queue" /\ ptr'[u] = p
    BY <2>1, <2>2 DEF JobsOK
  <2> QED
    BY <1>1, <1>3, <2>1, <2>3 DEF JobsOK
<1>15. ThreadOK(t)'
  BY <1>1, <1>2, <1>4, <1>5, <1>7, <1>8, <1>10 DEF ThreadOK, FlushPcs, WaitPcs
<1>16. Calm => OwnOK(t)'
  <2> SUFFICES ASSUME Calm PROVE OwnOK(t)'
    OBVIOUS
  <2>1. OwnOK(t)
    BY <1>2
  <2>2. \A p \in mine[t] : ~is_free'[buf_handle[p]] \/ p = q
    BY <1>1, <1>5, <1>9, <2>1 DEF OwnOK
  <2> QED
    BY <1>1, <1>4, <1>7, <1>8, <2>1, <2>2 DEF OwnOK
<1>17. Calm => WaitOK(t)'
  BY <1>1, <1>2, <1>7 DEF WaitOK, WaitPcs
<1>18. Calm => \A b \in Bufs \ MayUse[t] : is_free'[b] = is_free[b]
  BY <1>2, <1>5, <1>9 DEF OwnOK
<1>19. \A u \in Threads \ {t} : \A p \in mine[u] :
          /\ id'[p] = id[p] /\ buf_handle'[p] = buf_handle[p] /\ jstate'[p] = jstate[p]
          /\ jobs'[id[p]] = jobs[id[p]] /\ Moves(phase[p], phase'[p])
  BY <1>1, <1>3 DEF Moves
<1> QED
  BY <1>1, <1>3, <1>4, <1>6, <1>7, <1>8, <1>11, <1>12, <1>13, <1>14, <1>15, <1>16, <1>17, <1>18,
     <1>19, ActionOf

\* ... and takes it out of the table.
LEMMA CleanEraseStep ==
  ASSUME CoreInv, Core, HandlesApart, NEW t \in Threads, CleanErase(t)
  PROVE  CoreInv'
<1> DEFINE q == ptr[t]
<1>1. /\ pc[t] = "erase" /\ Return(t)
      /\ jobs' = [jobs EXCEPT ![id[q]] = 0] /\ jstate' = [jstate EXCEPT ![q] = "DELETED"]
      /\ mine' = [mine EXCEPT ![t] = Without(@, id[q])]
      /\ UNCHANGED <<setup, id, buf_handle, is_free, kernel, result, poll>>
  BY DEF CleanErase
<1>2. GraphTypeOK /\ TableOK /\ OwnersOK /\ NoStatusLost /\ ThreadOK(t)
      /\ (Calm => JobsOK /\ OwnOK(t) /\ WaitOK(t))
  BY DEF CoreInv
<1>3. UNCHANGED <<phase, list, older, uthread, batch>>
  BY <1>1 DEF kernel, poll
<1>4. MayUse[t] # {} /\ MayUse' = MayUse /\ (Calm' <=> Calm) /\ (Alone' <=> Alone) /\ Timed' = Timed
  BY <1>1, HasHandle, SetupStays
<1>5. q \in mine[t] /\ jstate[q] \notin {"BUILT", "SCHED"} /\ jobs[id[q]] = q
  BY <1>1, <1>2 DEF ThreadOK
<1>6. q \in Objs /\ id[q] \in Ids /\ (\A u \in Threads \ {t} : q \notin mine[u])
  BY <1>2, <1>5, NotAnothers DEF GraphTypeOK
<1>7. /\ pc' = [pc EXCEPT ![t] = "idle"] /\ DOMAIN pc' = Callers /\ pc'[t] = "idle"
      /\ "idle" \in ThreadPcs
      /\ \A u \in Threads \ {t} : pc'[u] = pc[u] /\ arg'[u] = arg[u] /\ ptr'[u] = ptr[u]
      /\ \A u \in Threads : pc'[u] \in ThreadPcs
      /\ arg' \in [Callers -> Ids \cup Bufs] /\ ptr' \in [Callers -> {0} \cup Objs]
  BY <1>1, <1>2, ReturnEffect
<1>8. /\ jobs' \in [Ids -> {0} \cup Objs] /\ jobs'[id[q]] = 0
      /\ \A i \in Ids \ {id[q]} : jobs'[i] = jobs[i]
  BY <1>1, <1>2, <1>6 DEF GraphTypeOK
<1>9. /\ jstate' \in [Objs -> JobStates] /\ jstate'[q] = "DELETED"
      /\ \A p \in Objs \ {q} : jstate'[p] = jstate[p]
  BY <1>1, <1>2, <1>6 DEF GraphTypeOK, JobStates
<1>10. /\ mine' \in [Threads -> SUBSET Objs]
       /\ mine'[t] = {p \in mine[t] : id[p] # id[q]}
       /\ \A u \in Threads \ {t} : mine'[u] = mine[u]
  BY <1>1, <1>2 DEF GraphTypeOK, Without
<1> HIDE DEF q
<1>11. GraphTypeOK'
  BY <1>1, <1>2, <1>3, <1>7, <1>8, <1>9, <1>10 DEF GraphTypeOK
<1>12. TableOK'
  <2>1. ASSUME NEW i \in Ids, jobs'[i] # 0
        PROVE  id[jobs'[i]] = i /\ jstate'[jobs'[i]] \notin {"NONE", "DELETED"}
    <3>1. i # id[q] /\ jobs'[i] = jobs[i] /\ jobs[i] \in Objs
      BY <1>2, <1>8, <2>1 DEF GraphTypeOK
    <3>2. id[jobs[i]] = i /\ jstate[jobs[i]] \notin {"NONE", "DELETED"}
      BY <1>2, <2>1, <3>1 DEF TableOK
    <3> QED
      BY <1>9, <3>1, <3>2
  <2>2. ASSUME NEW p \in Objs, jstate'[p] \in {"BUILT", "SCHED", "DONE", "EXCEPTION"}
        PROVE  jobs'[id[p]] = p
    <3>1. p # q
      BY <1>9, <2>2
    <3>2. jobs[id[p]] = p /\ id[p] \in Ids
      BY <1>2, <1>9, <2>2, <3>1 DEF TableOK, GraphTypeOK
    <3> QED
      BY <1>5, <1>8, <3>1, <3>2
  <2>3. \A p \in Objs : jstate'[p] \in {"NONE", "BUILT"} => phase[p] = "none"
    BY <1>2, <1>9 DEF TableOK
  <2> QED
    BY <1>1, <1>3, <2>1, <2>2, <2>3 DEF TableOK
<1>13. OwnersOK'
  <2>1. \A u, v \in Threads : u # v => mine'[u] \cap mine'[v] = {}
    BY <1>2, <1>10 DEF OwnersOK
  <2>2. ASSUME NEW i \in Ids, jobs'[i] # 0 PROVE \E u \in Threads : jobs'[i] \in mine'[u]
    <3>1. i # id[q] /\ jobs'[i] = jobs[i]
      BY <1>8, <2>2
    <3>2. PICK u \in Threads : jobs[i] \in mine[u]
      BY <1>2, <2>2, <3>1 DEF OwnersOK
    <3>3. id[jobs[i]] = i
      BY <1>2, <2>2, <3>1 DEF TableOK
    <3> QED
      BY <1>10, <3>1, <3>2, <3>3
  <2> QED
    BY <2>1, <2>2 DEF OwnersOK
<1>14. NoStatusLost'
  <2>1. \A u \in Threads : pc[u] = "update" => pc'[u] = "update" /\ ptr'[u] = ptr[u]
    BY <1>1, <1>7
  <2>2. \A p \in Objs : jstate'[p] = "SCHED" => jstate[p] = "SCHED"
    BY <1>9
  <2> QED
    BY <1>2, <1>3, <1>4, <2>1, <2>2 DEF NoStatusLost
<1>15. Calm => JobsOK' /\ mine'[t] = mine[t] \ {q}
  <2> SUFFICES ASSUME Calm PROVE JobsOK' /\ mine'[t] = mine[t] \ {q}
    OBVIOUS
  <2>1. JobsOK /\ OwnOK(t)
    BY <1>2
  <2>2. \A u \in Threads : pc[u] \in {"ioctl", "queue"} => pc'[u] = pc[u] /\ ptr'[u] = ptr[u]
    BY <1>1, <1>7
  <2>3. /\ \A p \in Objs : jstate'[p] = "SCHED" /\ phase[p] = "none" =>
             \E u \in Threads : pc'[u] = "ioctl" /\ ptr'[u] = p
        /\ \A p \in Objs : phase[p] = "listed" => \E u \in Threads : pc'[u] = "queue" /\ ptr'[u] = p
    BY <1>9, <2>1, <2>2 DEF JobsOK
  <2>4. /\ \A p \in Objs : jstate'[p] \notin {"TIMEOUT", "NO_STATE"}
        /\ \A p \in Objs : phase[p] \in {"listed"} \cup OnDevice => jstate'[p] = "SCHED"
        /\ \A p \in Objs : jstate'[p] \in {"DONE", "EXCEPTION"} => phase[p] = "gone"
        /\ \A p \in batch : phase[p] = "gone" /\ jstate'[p] = "SCHED"
    BY <1>2, <1>5, <1>9, <2>1 DEF JobsOK, GraphTypeOK
  <2>5. mine'[t] = mine[t] \ {q}
    <3>1. \A p \in mine[t] : id[p] = id[q] => p = q
      BY <1>5, <2>1 DEF OwnOK
    <3> QED
      BY <1>10, <3>1
  <2>6. \A p \in list : \A u \in Threads : uthread[p] = u <=> p \in mine'[u]
    <3>1. q \notin list
      BY <1>5, <1>6, <2>1 DEF JobsOK
    <3> QED
      BY <1>10, <2>1, <2>5, <3>1 DEF JobsOK
  <2> QED
    BY <1>3, <2>1, <2>3, <2>4, <2>5, <2>6 DEF JobsOK
<1>16. ThreadOK(t)'
  <2>1. \A p \in mine'[t] : jstate'[p] # "NONE"
    BY <1>2, <1>9, <1>10 DEF ThreadOK, GraphTypeOK
  <2> QED
    BY <1>4, <1>7, <2>1 DEF ThreadOK, FlushPcs, WaitPcs
<1>17. Calm => OwnOK(t)'
  <2> SUFFICES ASSUME Calm PROVE OwnOK(t)'
    OBVIOUS
  <2>1. OwnOK(t) /\ mine'[t] = mine[t] \ {q}
    BY <1>2, <1>15
  <2>2. \A p \in mine'[t] : jobs'[id[p]] = p
    <3>1. \A p \in mine[t] \ {q} : jobs[id[p]] = p /\ id[p] \in Ids
      BY <1>2, <2>1 DEF OwnOK, GraphTypeOK
    <3> QED
      BY <1>5, <1>8, <2>1, <3>1
  <2>3. \A p \in mine'[t] : ~is_free[buf_handle[p]]
    BY <2>1 DEF OwnOK, q
  <2> QED
    BY <1>1, <1>4, <1>7, <2>1, <2>2, <2>3 DEF OwnOK
<1>18. Calm => WaitOK(t)'
  BY <1>1, <1>2, <1>7, <1>15 DEF WaitOK, WaitPcs
<1>19. Calm => \A u \in Threads \ {t} : \A p \in mine[u] :
          /\ id'[p] = id[p] /\ buf_handle'[p] = buf_handle[p] /\ jstate'[p] = jstate[p]
          /\ jobs'[id[p]] = jobs[id[p]] /\ Moves(phase[p], phase'[p])
  <2> SUFFICES ASSUME Calm, NEW u \in Threads \ {t}, NEW p \in mine[u]
               PROVE  /\ id'[p] = id[p] /\ buf_handle'[p] = buf_handle[p] /\ jstate'[p] = jstate[p]
                      /\ jobs'[id[p]] = jobs[id[p]] /\ Moves(phase[p], phase'[p])
    OBVIOUS
  <2>1. p \in Objs \ {q} /\ id[p] \in Ids
    BY <1>2, <1>6 DEF GraphTypeOK
  <2>2. jobs[id[p]] = p
    BY DEF CoreInv, OwnOK
  <2>3. id[p] # id[q]
    BY <1>5, <2>1, <2>2
  <2> QED
    BY <1>1, <1>3, <1>8, <1>9, <2>1, <2>3 DEF Moves
<1>20. /\ \A u \in Threads \ {t} :
             arg'[u] = arg[u] /\ ptr'[u] = ptr[u] /\ result'[u] = result[u] /\ mine'[u] = mine[u]
       /\ \A b \in Bufs \ MayUse[t] : is_free'[b] = is_free[b]
  BY <1>1, <1>7, <1>10
<1> QED
  BY <1>1, <1>3, <1>4, <1>7, <1>11, <1>12, <1>13, <1>14, <1>15, <1>16, <1>17, <1>18, <1>19, <1>20,
     ActionOf

-----------------------------------------------------------------------------
(* The steps of the poller, and of the kernel and the device.              *)

\* Without timeouts: jobs move on, and the poller collects ended ones into its batch and
\* applies their statuses.
LEMMA BackgroundStep ==
  ASSUME CoreInv, Calm,
         UNCHANGED <<setup, id, buf_handle, jobs, is_free, uthread, arg, ptr, result, mine>>,
         \A u \in Threads : pc'[u] = pc[u], DOMAIN pc' = Callers, PollerOK',
         jstate' \in [Objs -> JobStates], phase' \in [Objs -> K!Phases],
         older' \in [Objs -> SUBSET Objs], batch' \subseteq Objs,
         \A o \in Objs : jstate'[o] = jstate[o] \/ (PollOpt /\ Applied(o)),
         \A o \in Objs : \/ Moves(phase[o], phase'[o])
                         \/ PollOpt /\ phase[o] = "end" /\ phase'[o] = "gone",
         list' = {o \in list : phase'[o] # "gone"},
         \A o \in batch' : phase'[o] = "gone" /\ jstate'[o] = "SCHED",
         \A o \in Objs : phase'[o] = "gone" /\ jstate'[o] = "SCHED" /\ (o \in batch \/ phase[o] = "end")
                         => o \in batch'
  PROVE  CoreInv'
<1>1. GraphTypeOK /\ TableOK /\ OwnersOK /\ NoStatusLost /\ JobsOK
  BY DEF CoreInv
<1>2. MayUse' = MayUse /\ (Calm' <=> Calm) /\ (Alone' <=> Alone) /\ Timed' = Timed
  BY SetupStays
<1>3. \A o \in Objs : \/ phase'[o] = phase[o]
                      \/ phase[o] \in OnDevice /\ phase'[o] \in OnDevice
                      \/ phase[o] = "end" /\ phase'[o] = "gone"
  BY DEF Moves
<1>4. \A o \in Objs : \/ jstate'[o] = jstate[o]
                      \/ /\ phase[o] = "gone" /\ jstate[o] = "SCHED"
                         /\ jstate'[o] \in {"DONE", "EXCEPTION"}
  BY DEF Applied
<1>5. GraphTypeOK'
  <2>1. list' \subseteq Objs
    BY <1>1 DEF GraphTypeOK
  <2> QED
    BY <1>1, <2>1 DEF GraphTypeOK
<1>6. TableOK'
  <2>1. \A i \in Ids : jobs[i] # 0 => id[jobs[i]] = i /\ jstate'[jobs[i]] \notin {"NONE", "DELETED"}
    BY <1>1, <1>4 DEF TableOK, GraphTypeOK
  <2>2. \A o \in Objs : jstate'[o] \in {"BUILT", "SCHED", "DONE", "EXCEPTION"} => jobs[id[o]] = o
    BY <1>1, <1>4 DEF TableOK
  <2>3. \A o \in Objs : jstate'[o] \in {"NONE", "BUILT"} => phase'[o] = "none"
    BY <1>1, <1>3, <1>4 DEF TableOK, OnDevice
  <2> QED
    BY <2>1, <2>2, <2>3 DEF TableOK
<1>7. OwnersOK'
  BY <1>1 DEF OwnersOK
<1>8. NoStatusLost'
  <2> SUFFICES ASSUME NEW o \in Objs, phase'[o] = "gone", jstate'[o] = "SCHED"
               PROVE  (\E u \in Threads : pc'[u] = "update" /\ ptr[u] = o) \/ o \in batch'
    BY DEF NoStatusLost
  <2>1. jstate[o] = "SCHED"
    BY <1>4
  <2>2. CASE phase[o] = "gone"
    <3>1. (\E u \in Threads : pc[u] = "update" /\ ptr[u] = o) \/ o \in batch
      BY <1>1, <2>1, <2>2 DEF NoStatusLost, Calm
    <3> QED
      BY <3>1
  <2>3. CASE phase[o] # "gone"
    BY <1>3, <2>3 DEF OnDevice
  <2> QED
    BY <2>2, <2>3
<1>9. JobsOK'
  <2>1. \A o \in Objs : jstate'[o] = "SCHED" /\ phase'[o] = "none" =>
          \E u \in Threads : pc'[u] = "ioctl" /\ ptr[u] = o
    BY <1>1, <1>3, <1>4 DEF JobsOK, OnDevice
  <2>2. \A o \in Objs : phase'[o] = "listed" => \E u \in Threads : pc'[u] = "queue" /\ ptr[u] = o
    BY <1>1, <1>3 DEF JobsOK, OnDevice
  <2>3. \A o \in Objs : jstate'[o] \notin {"TIMEOUT", "NO_STATE"}
    BY <1>1, <1>4 DEF JobsOK
  <2>4. \A o \in Objs : phase'[o] \in {"none", "listed", "gone"} \cup OnDevice
    BY <1>1, <1>3 DEF JobsOK
  <2>5. \A o \in Objs : phase'[o] \in {"listed"} \cup OnDevice => jstate'[o] = "SCHED"
    BY <1>1, <1>3, <1>4 DEF JobsOK, OnDevice
  <2>6. \A o \in Objs : jstate'[o] \in {"DONE", "EXCEPTION"} => phase'[o] = "gone"
    BY <1>1, <1>3, <1>4 DEF JobsOK, OnDevice
  <2>7. \A o \in Objs : o \in list' <=> phase'[o] \in {"listed"} \cup OnDevice
    BY <1>1, <1>3 DEF JobsOK, OnDevice
  <2>8. \A o \in list' : \A u \in Threads : uthread[o] = u <=> o \in mine[u]
    BY <1>1 DEF JobsOK
  <2> QED
    BY <2>1, <2>2, <2>3, <2>4, <2>5, <2>6, <2>7, <2>8 DEF JobsOK
<1>10. \A u \in Threads : ThreadOK(u)' /\ OwnOK(u)' /\ WaitOK(u)'
  <2> SUFFICES ASSUME NEW u \in Threads PROVE ThreadOK(u)' /\ OwnOK(u)' /\ WaitOK(u)'
    OBVIOUS
  <2>1. mine[u] \subseteq Objs
    BY <1>1 DEF GraphTypeOK
  <2> QED
    BY <2>1, CalmThread
<1> QED
  BY <1>5, <1>6, <1>7, <1>8, <1>9, <1>10 DEF CoreInv

\* The poller runs only where the application asked for it, so where no timeout is used.
LEMMA PollerIsCalm ==
  ASSUME CoreInv, Core, pc[Poller] # "idle" \/ PollOpt
  PROVE  Calm /\ PollOpt
BY DEF CoreInv, PollerOK, Core, Alone

\* A step of the poller that only goes on
LEMMA PollerStep ==
  ASSUME CoreInv, Core, PollOpt, NEW l \in {"idle", "poll", "query"}, Goto(Poller, l),
         pc[Poller] = "update" => batch = {},
         UNCHANGED <<setup, table, kernel, arg, ptr, result, mine, batch>>
  PROVE  CoreInv'
<1>1. Calm
  BY PollerIsCalm
<1>2. UNCHANGED <<jstate, id, buf_handle, jobs, is_free, phase, list, older, uthread>>
  BY DEF table, kernel
<1>3. /\ \A u \in Threads : pc'[u] = pc[u]
      /\ DOMAIN pc' = Callers /\ pc'[Poller] = l
  BY ConstantsAssumption DEF CoreInv, GraphTypeOK, Goto, Callers
<1>4. PollOpt' = PollOpt
  BY SetupStays
<1>5. PollerOK'
  BY <1>3, <1>4 DEF CoreInv, PollerOK
<1>6. GraphTypeOK /\ JobsOK
  BY <1>1 DEF CoreInv
<1>7. \A o \in Objs : Moves(phase[o], phase'[o])
  BY <1>2 DEF Moves
<1>8. list' = {o \in list : phase'[o] # "gone"}
  BY <1>2, <1>6 DEF JobsOK, GraphTypeOK, OnDevice
<1>9. \A o \in Objs : ~(phase'[o] = "gone" /\ phase[o] = "end")
  BY <1>2
<1>10. \A o \in batch' : phase'[o] = "gone" /\ jstate'[o] = "SCHED"
  BY <1>2, <1>6 DEF JobsOK
<1>11. /\ jstate' \in [Objs -> JobStates] /\ phase' \in [Objs -> K!Phases]
       /\ older' \in [Objs -> SUBSET Objs] /\ batch' \subseteq Objs
  BY <1>2, <1>6 DEF GraphTypeOK
<1> QED
  BY <1>1, <1>2, <1>3, <1>5, <1>7, <1>8, <1>9, <1>10, <1>11, BackgroundStep

\* QUERYSTATUS hands the poller some of the jobs that have ended.
LEMMA QueryAllStep ==
  ASSUME CoreInv, Core, QueryAll
  PROVE  CoreInv'
<1>1. /\ pc[Poller] = "query" /\ HandOut(Taken) /\ batch' = Taken /\ Goto(Poller, "update")
      /\ UNCHANGED <<setup, table, uthread, arg, ptr, result, mine>>
  BY DEF QueryAll
<1>2. Calm /\ PollOpt
  BY <1>1, PollerIsCalm
<1>3. UNCHANGED <<jstate, id, buf_handle, jobs, is_free>>
  BY <1>1 DEF table
<1>4. GraphTypeOK /\ JobsOK /\ PollerOK /\ batch = {}
  BY <1>1, <1>2 DEF CoreInv, PollerOK
<1>5. Taken \subseteq Objs /\ \A o \in Taken : o \in list /\ phase[o] = "end"
  BY <1>4 DEF Taken, Ended, GraphTypeOK
<1>6. \A o \in Taken : jstate[o] = "SCHED"
  BY <1>4, <1>5 DEF JobsOK, OnDevice
<1>7. /\ \A u \in Threads : pc'[u] = pc[u]
      /\ DOMAIN pc' = Callers /\ pc'[Poller] = "update"
  BY <1>1, <1>4, ConstantsAssumption DEF GraphTypeOK, Goto, Callers
<1>8. PollerOK'
  <2>1. PollOpt' = PollOpt
    BY <1>1, SetupStays
  <2> QED
    BY <1>2, <1>4, <1>7, <2>1 DEF PollerOK
<1>9. /\ phase' \in [Objs -> K!Phases]
      /\ \A o \in Taken : phase'[o] = "gone"
      /\ \A o \in Objs \ Taken : phase'[o] = phase[o]
  BY <1>1, <1>4, <1>5 DEF HandOut, K!Collect, GraphTypeOK, K!Phases
<1>10. list' = list \ Taken /\ older' \in [Objs -> SUBSET Objs]
  BY <1>1, <1>4 DEF HandOut, GraphTypeOK
<1> HIDE DEF Taken
<1>11. \A o \in Objs : \/ Moves(phase[o], phase'[o])
                       \/ PollOpt /\ phase[o] = "end" /\ phase'[o] = "gone"
  BY <1>2, <1>5, <1>9 DEF Moves
<1>12. list' = {o \in list : phase'[o] # "gone"}
  <2>1. \A o \in list : o \in Objs /\ phase[o] # "gone"
    BY <1>4 DEF JobsOK, GraphTypeOK, OnDevice
  <2> QED
    BY <1>9, <1>10, <2>1
<1>13. \A o \in batch' : phase'[o] = "gone" /\ jstate'[o] = "SCHED"
  BY <1>1, <1>3, <1>6, <1>9
<1>14. \A o \in Objs : phase'[o] = "gone" /\ (o \in batch \/ phase[o] = "end") => o \in batch'
  BY <1>1, <1>4, <1>9
<1>15. jstate' \in [Objs -> JobStates] /\ batch' \subseteq Objs
  BY <1>1, <1>3, <1>4, <1>5 DEF GraphTypeOK
<1> QED
  BY <1>1, <1>2, <1>3, <1>7, <1>8, <1>9, <1>10, <1>11, <1>12, <1>13, <1>14, <1>15, BackgroundStep

\* update_job_status of a batch: every job in it has its entry of the table.
LEMMA BatchUpdateStep ==
  ASSUME CoreInv, Core, BatchUpdate
  PROVE  CoreInv'
<1>1. /\ pc[Poller] = "update"
      /\ UNCHANGED <<setup, id, buf_handle, jobs, is_free, phase, list, uthread, thread>>
  BY DEF BatchUpdate
<1>2. Calm /\ PollOpt
  BY <1>1, PollerIsCalm
<1>3. GraphTypeOK /\ JobsOK /\ PollerOK /\ TableOK
  BY <1>2 DEF CoreInv
<1>4. UNCHANGED <<pc, arg, ptr, result, mine>>
  BY <1>1 DEF thread
<1>5. \A o \in batch : o \in Objs /\ jobs[id[o]] = o /\ o # 0 /\ phase[o] = "gone" /\ jstate[o] = "SCHED"
  BY <1>3 DEF JobsOK, TableOK, GraphTypeOK, Objs
<1>6. PICK o \in batch, st \in {"DONE", "EXCEPTION"} :
         jstate' = [jstate EXCEPT ![o] = st] /\ batch' = batch \ {o}
  <2>1. PICK o \in Newest(batch) :
           \/ \E st \in {"DONE", "EXCEPTION"} :
               /\ jobs[id[o]] # 0
               /\ jstate' = [jstate EXCEPT ![jobs[id[o]]] = st]
               /\ batch' = batch \ {o}
           \/ /\ jobs[id[o]] = 0
              /\ jstate' = jstate
              /\ batch' = {}
    BY DEF BatchUpdate
  <2>2. o \in batch
    BY DEF Newest
  <2>3. jobs[id[o]] = o /\ o # 0
    BY <1>5, <2>2
  <2> QED
    BY <2>1, <2>2, <2>3
<1>7. /\ jstate' \in [Objs -> JobStates] /\ jstate'[o] = st
      /\ \A p \in Objs \ {o} : jstate'[p] = jstate[p]
  BY <1>3, <1>5, <1>6 DEF GraphTypeOK, JobStates
<1>8. older' \in [Objs -> SUBSET Objs]
  <2>1. older' = [p \in Objs |-> IF p \in batch \ batch' THEN {} ELSE older[p]]
    BY DEF BatchUpdate
  <2> QED
    BY <1>3, <2>1 DEF GraphTypeOK
<1>9. PollerOK'
  <2>1. PollOpt' = PollOpt
    BY <1>1, SetupStays
  <2> QED
    BY <1>1, <1>3, <1>4, <2>1 DEF PollerOK
<1>10. \A p \in Objs : jstate'[p] = jstate[p] \/ (PollOpt /\ Applied(p))
  BY <1>2, <1>5, <1>7 DEF Applied
<1>11. \A p \in Objs : Moves(phase[p], phase'[p])
  BY <1>1 DEF Moves
<1>12. list' = {p \in list : phase'[p] # "gone"}
  BY <1>1, <1>3 DEF JobsOK, GraphTypeOK, OnDevice
<1>13. batch' \subseteq Objs /\ \A p \in batch' : phase'[p] = "gone" /\ jstate'[p] = "SCHED"
  BY <1>1, <1>5, <1>6, <1>7
<1>14. \A p \in Objs : phase'[p] = "gone" /\ jstate'[p] = "SCHED" /\ (p \in batch \/ phase[p] = "end")
                         => p \in batch'
  BY <1>1, <1>6, <1>7
<1>15. (\A u \in Threads : pc'[u] = pc[u]) /\ DOMAIN pc' = Callers /\ phase' \in [Objs -> K!Phases]
  BY <1>1, <1>3, <1>4 DEF GraphTypeOK
<1> QED
  BY <1>1, <1>2, <1>4, <1>7, <1>8, <1>9, <1>10, <1>11, <1>12, <1>13, <1>14, <1>15, BackgroundStep

\* poll_job_status keeps to the invariant.
LEMMA PollStep ==
  ASSUME CoreInv, Core, Poll
  PROVE  CoreInv'
<1>1. CASE PollCount
  <2>1. /\ PollOpt /\ pc[Poller] = "idle" /\ Goto(Poller, "poll")
        /\ UNCHANGED <<setup, table, kernel, arg, ptr, result, mine, batch>>
    BY <1>1 DEF PollCount
  <2> QED
    BY <2>1, PollerStep
<1>2. CASE PollerReady
  <2>1. /\ pc[Poller] = "poll" /\ Goto(Poller, "query")
        /\ UNCHANGED <<setup, table, kernel, arg, ptr, result, mine, batch>>
    BY <1>2 DEF PollerReady, poll
  <2> QED
    BY <2>1, PollerIsCalm, PollerStep
<1>3. CASE QueryAll
  BY <1>3, QueryAllStep
<1>4. CASE BatchUpdate
  BY <1>4, BatchUpdateStep
<1>5. CASE BatchEnd
  <2>1. /\ pc[Poller] = "update" /\ batch = {} /\ Goto(Poller, "idle")
        /\ UNCHANGED <<setup, table, kernel, arg, ptr, result, mine, batch>>
    BY <1>5 DEF BatchEnd, poll
  <2> QED
    BY <2>1, PollerIsCalm, PollerStep
<1> QED
  BY <1>1, <1>2, <1>3, <1>4, <1>5 DEF Poll

\* What the kernel and the device do to a job that they have
LEMMA SessionEffect ==
  ASSUME GraphTypeOK, Session
  PROVE  /\ phase' \in [Objs -> K!Phases]
         /\ \A o \in Objs : \/ phase'[o] = phase[o]
                            \/ phase[o] = "queued" /\ phase'[o] = "running"
                            \/ phase[o] = "running" /\ phase'[o] = "late"
                            \/ phase[o] = "stale" /\ phase'[o] = "dead"
                            \/ phase[o] = "late" /\ phase'[o] = "end"
<1>1. PICK j \in Objs : K!Start(j) \/ K!Finish(j) \/ K!Deliver(j)
  BY DEF Session
<1>2. phase \in [Objs -> K!Phases]
  BY DEF GraphTypeOK
<1>3. {"running", "late", "dead", "end"} \subseteq K!Phases
  BY DEF K!Phases
<1>4. CASE K!Start(j)
  BY <1>2, <1>3, <1>4 DEF K!Start
<1>5. CASE K!Deliver(j)
  BY <1>2, <1>3, <1>5 DEF K!Deliver
<1>6. CASE K!Finish(j)
  <2>1. \/ phase[j] = "running" /\ K!Ended(phase[j]) = "late"
        \/ phase[j] = "stale" /\ K!Ended(phase[j]) = "dead"
    BY <1>6 DEF K!Finish, K!Ended
  <2>2. CASE phase' = [phase EXCEPT ![j] = K!Ended(@)]
    BY <1>2, <1>3, <2>1, <2>2
  <2>3. ASSUME NEW k \in Objs, phase[k] = "queued",
               phase' = [phase EXCEPT ![j] = K!Ended(@), ![k] = "running"]
        PROVE  /\ phase' \in [Objs -> K!Phases]
               /\ \A o \in Objs : \/ phase'[o] = phase[o]
                                  \/ phase[o] = "queued" /\ phase'[o] = "running"
                                  \/ phase[o] = "running" /\ phase'[o] = "late"
                                  \/ phase[o] = "stale" /\ phase'[o] = "dead"
    <3>1. k # j
      BY <2>1, <2>3
    <3>2. /\ phase'[j] = K!Ended(phase[j]) /\ phase'[k] = "running"
          /\ \A o \in Objs \ {j, k} : phase'[o] = phase[o]
          /\ phase' \in [Objs -> K!Phases]
      BY <1>2, <1>3, <2>1, <2>3, <3>1
    <3> QED
      BY <2>1, <2>3, <3>2
  <2> QED
    BY <1>6, <2>2, <2>3 DEF K!Finish
<1> QED
  BY <1>1, <1>4, <1>5, <1>6

\* A job that the kernel does not have yet, or has handed out, stays as it is.
LEMMA SessionStep ==
  ASSUME CoreInv, Core, Session
  PROVE  CoreInv'
<1>1. UNCHANGED <<setup, table, list, older, uthread, thread, poll>>
  BY DEF Session
<1>2. UNCHANGED <<jstate, id, buf_handle, jobs, is_free, list, older, uthread, pc, arg, ptr,
                  result, mine, batch>>
  BY <1>1 DEF table, thread, poll
<1>3. GraphTypeOK /\ PollerOK /\ TableOK /\ OwnersOK /\ NoStatusLost
  BY DEF CoreInv
<1>4. /\ phase' \in [Objs -> K!Phases]
      /\ \A o \in Objs : \/ phase'[o] = phase[o]
                         \/ phase[o] = "queued" /\ phase'[o] = "running"
                         \/ phase[o] = "running" /\ phase'[o] = "late"
                         \/ phase[o] = "stale" /\ phase'[o] = "dead"
                         \/ phase[o] = "late" /\ phase'[o] = "end"
  BY <1>3, SessionEffect
<1>5. MayUse' = MayUse /\ (Calm' <=> Calm) /\ (Alone' <=> Alone) /\ Timed' = Timed /\ PollOpt' = PollOpt
  BY <1>1, SetupStays
<1>6. PollerOK'
  BY <1>2, <1>3, <1>5 DEF PollerOK
<1>7. CASE Calm
  <2>1. JobsOK
    BY <1>7 DEF CoreInv
  <2>2. \A o \in Objs : Moves(phase[o], phase'[o])
    BY <1>4, <2>1 DEF Moves, JobsOK, OnDevice
  <2>3. list' = {o \in list : phase'[o] # "gone"}
    BY <1>2, <1>3, <1>4, <2>1 DEF JobsOK, GraphTypeOK, OnDevice
  <2>4. \A o \in batch' : phase'[o] = "gone" /\ jstate'[o] = "SCHED"
    BY <1>2, <1>3, <1>4, <2>1 DEF JobsOK, GraphTypeOK
  <2>5. \A o \in Objs : ~(phase'[o] = "gone" /\ phase[o] = "end")
    BY <1>4
  <2>6. /\ \A u \in Threads : pc'[u] = pc[u]
        /\ \A o \in Objs : jstate'[o] = jstate[o]
        /\ DOMAIN pc' = Callers /\ jstate' \in [Objs -> JobStates]
        /\ older' \in [Objs -> SUBSET Objs] /\ batch' \subseteq Objs
    BY <1>2, <1>3 DEF GraphTypeOK
  <2> QED
    BY <1>1, <1>2, <1>4, <1>6, <1>7, <2>2, <2>3, <2>4, <2>5, <2>6, BackgroundStep
<1>8. CASE ~Calm
  <2>1. GraphTypeOK'
    BY <1>1, <1>2, <1>3, <1>4 DEF GraphTypeOK
  <2>2. TableOK' /\ OwnersOK'
    BY <1>2, <1>3, <1>4 DEF TableOK, OwnersOK
  <2>3. NoStatusLost'
    <3>1. \A o \in Objs : phase'[o] = "gone" => phase[o] = "gone"
      BY <1>4
    <3> QED
      BY <1>2, <1>3, <1>5, <3>1 DEF NoStatusLost
  <2>4. ASSUME NEW u \in Threads PROVE ThreadOK(u)'
    <3>1. ThreadOK(u)
      BY DEF CoreInv
    <3>2. pc[u] = "update" => phase'[ptr[u]] = "gone"
      BY <1>4, <3>1 DEF ThreadOK, WaitPcs
    <3> QED
      BY <1>2, <1>5, <3>1, <3>2 DEF ThreadOK
  <2> QED
    BY <1>5, <1>6, <1>8, <2>1, <2>2, <2>3, <2>4 DEF CoreInv
<1> QED
  BY <1>7, <1>8

-----------------------------------------------------------------------------
(* The invariant.                                                          *)

\* No job has been made.
LEMMA GraphInit ==
  ASSUME Init
  PROVE  CoreInv
<1>1. 0 \in Ids /\ (\A o \in Objs : o # 0)
  BY ConstantsAssumption DEF Ids, Objs
<1>2. phase = [o \in Objs |-> "none"]
  BY DEF Init, K!Init
<1>3. \A t \in Threads : t \in Callers /\ t # Poller
  BY ConstantsAssumption DEF Callers
<1>4. GraphTypeOK
  <2>1. jstate \in [Objs -> JobStates] /\ id \in [Objs -> Ids] /\ jobs \in [Ids -> {0} \cup Objs]
    BY <1>1 DEF Init, JobStates
  <2>2. buf_handle \in [Objs -> Bufs \cup {NoBuf}] /\ is_free \in [Bufs -> BOOLEAN]
    BY DEF Init
  <2>3. /\ phase \in [Objs -> K!Phases] /\ list \subseteq Objs /\ batch \subseteq Objs
        /\ older \in [Objs -> SUBSET Objs] /\ uthread \in [Objs -> Callers]
    BY <1>2 DEF Init, K!Phases, Callers
  <2>4. /\ DOMAIN pc = Callers /\ arg \in [Callers -> Ids \cup Bufs] /\ DOMAIN result = Threads
        /\ ptr \in [Callers -> {0} \cup Objs]
        /\ \A t \in Threads : pc[t] \in ThreadPcs
        /\ mine \in [Threads -> SUBSET Objs]
    BY <1>1, <1>3 DEF Init, ThreadPcs
  <2> QED
    BY <2>1, <2>2, <2>3, <2>4 DEF GraphTypeOK, Init
<1>5. /\ \A t \in Callers : pc[t] = "idle"
      /\ \A t \in Threads : mine[t] = {} /\ result[t] = "none"
      /\ \A o \in Objs : jstate[o] = "NONE" /\ phase[o] = "none"
      /\ \A i \in Ids : jobs[i] = 0
      /\ batch = {} /\ list = {}
  BY <1>2 DEF Init
<1>6. PollerOK
  BY <1>3, <1>5 DEF PollerOK, Callers
<1>7. TableOK /\ OwnersOK /\ NoStatusLost /\ JobsOK
  BY <1>5 DEF TableOK, OwnersOK, NoStatusLost, JobsOK, OnDevice
<1>8. \A t \in Threads : ThreadOK(t) /\ OwnOK(t) /\ WaitOK(t)
  BY <1>3, <1>5 DEF ThreadOK, OwnOK, WaitOK, FlushPcs, WaitPcs
<1> QED
  BY <1>4, <1>6, <1>7, <1>8 DEF CoreInv

\* The setup is chosen once.
LEMMA NextKeepsSetup ==
  ASSUME [Next]_vars
  PROVE  setup' = setup
<1>1. CASE UNCHANGED vars
  BY <1>1 DEF vars
<1>2. ASSUME NEW t \in Threads, Create(t) PROVE setup' = setup
  BY <1>2 DEF Create, BuildTest, BuildClaim, BuildInsert
<1>3. ASSUME NEW t \in Threads, Flush(t) PROVE setup' = setup
  BY <1>3 DEF Flush, FlushTest, FlushMark, FlushList, FlushQueue, FlushRefused
<1>4. ASSUME NEW t \in Threads, StartWait(t) PROVE setup' = setup
  BY <1>4 DEF StartWait, WaitEnded, WaitEnter, WaitNotExist
<1>5. ASSUME NEW t \in Threads, Wait(t) PROVE setup' = setup
  BY <1>5 DEF Wait, PollReady, PollTimeout, QuerySingle, WaitUpdate, WaitKill, WaitTimeout, SleepWake
<1>6. ASSUME NEW t \in Threads, Clean(t) PROVE setup' = setup
  BY <1>6 DEF Clean, CleanFree, CleanErase
<1>7. CASE Poll
  BY <1>7 DEF Poll, PollCount, PollerReady, QueryAll, BatchUpdate, BatchEnd
<1>8. CASE Session
  BY <1>8 DEF Session
<1> QED
  BY <1>1, <1>2, <1>3, <1>4, <1>5, <1>6, <1>7, <1>8 DEF Next

\* Every step keeps to the invariant.
LEMMA NextStep ==
  ASSUME CoreInv, Core, HandlesApart, Next
  PROVE  CoreInv'
<1>1. ASSUME NEW t \in Threads, Create(t) PROVE CoreInv'
  <2>1. ASSUME NEW b \in Bufs, BuildTest(t, b) PROVE CoreInv'
    BY <2>1, BuildTestStep
  <2>2. CASE BuildClaim(t)
    BY <2>2, BuildClaimStep
  <2>3. CASE BuildInsert(t)
    BY <2>3, BuildInsertStep
  <2> QED
    BY <1>1, <2>1, <2>2, <2>3 DEF Create
<1>2. ASSUME NEW t \in Threads, Flush(t) PROVE CoreInv'
  <2>1. ASSUME NEW o \in Objs, FlushTest(t, o) PROVE CoreInv'
    BY <2>1, FlushTestStep
  <2>2. CASE FlushMark(t)
    BY <2>2, FlushMarkStep
  <2>3. CASE FlushList(t)
    BY <2>3, FlushListStep
  <2>4. CASE FlushQueue(t)
    BY <2>4, FlushQueueStep
  <2>5. CASE FlushRefused(t)
    BY <2>5, FlushRefusedStep
  <2> QED
    BY <1>2, <2>1, <2>2, <2>3, <2>4, <2>5 DEF Flush
<1>3. ASSUME NEW t \in Threads, StartWait(t) PROVE CoreInv'
  <2>1. PICK o \in Objs : WaitEnded(t, o) \/ WaitEnter(t, o) \/ WaitNotExist(t, o)
    BY <1>3 DEF StartWait
  <2>2. CASE WaitEnded(t, o)
    BY <2>2, WaitEndedStep
  <2>3. CASE WaitEnter(t, o)
    BY <2>3, WaitEnterStep
  <2>4. CASE WaitNotExist(t, o)
    BY <2>4, WaitNotExistStep
  <2> QED
    BY <2>1, <2>2, <2>3, <2>4
<1>4. ASSUME NEW t \in Threads, Wait(t) PROVE CoreInv'
  <2>1. CASE PollReady(t)
    BY <2>1, PollReadyStep
  <2>2. CASE PollTimeout(t)
    BY <2>2, PollTimeoutStep
  <2>3. CASE QuerySingle(t)
    BY <2>3, QuerySingleStep
  <2>4. CASE WaitUpdate(t)
    BY <2>4, WaitUpdateStep
  <2>5. CASE WaitKill(t)
    BY <2>5, WaitKillStep
  <2>6. CASE WaitTimeout(t)
    BY <2>6, WaitTimeoutStep
  <2>7. CASE SleepWake(t)
    BY <2>7, SleepWakeStep
  <2> QED
    BY <1>4, <2>1, <2>2, <2>3, <2>4, <2>5, <2>6, <2>7 DEF Wait
<1>5. ASSUME NEW t \in Threads, Clean(t) PROVE CoreInv'
  <2>1. ASSUME NEW o \in Objs, CleanFree(t, o) PROVE CoreInv'
    BY <2>1, CleanFreeStep
  <2>2. CASE CleanErase(t)
    BY <2>2, CleanEraseStep
  <2> QED
    BY <1>5, <2>1, <2>2 DEF Clean
<1>6. CASE Poll
  BY <1>6, PollStep
<1>7. CASE Session
  BY <1>7, SessionStep
<1> QED
  BY <1>1, <1>2, <1>3, <1>4, <1>5, <1>6, <1>7 DEF Next

\* The invariant is about the state.
LEMMA GraphStutter ==
  ASSUME CoreInv, UNCHANGED vars
  PROVE  CoreInv'
<1>1. UNCHANGED <<setup, jstate, id, buf_handle, jobs, is_free, phase, list, older, uthread,
                  pc, arg, ptr, result, mine, batch>>
  BY DEF vars, table, kernel, thread, poll
<1>2. MayUse' = MayUse /\ (Calm' <=> Calm) /\ (Alone' <=> Alone) /\ Timed' = Timed /\ PollOpt' = PollOpt
  BY <1>1, SetupStays
<1>3. GraphTypeOK' /\ PollerOK' /\ TableOK' /\ OwnersOK' /\ NoStatusLost' /\ (Calm => JobsOK')
  <2>1. GraphTypeOK /\ PollerOK /\ TableOK /\ OwnersOK /\ NoStatusLost /\ (Calm => JobsOK)
    BY DEF CoreInv
  <2>2. GraphTypeOK'
    BY <1>1, <2>1 DEF GraphTypeOK
  <2>3. PollerOK' /\ TableOK' /\ OwnersOK'
    BY <1>1, <1>2, <2>1 DEF PollerOK, TableOK, OwnersOK
  <2>4. NoStatusLost'
    BY <1>1, <1>2, <2>1 DEF NoStatusLost
  <2>5. Calm => JobsOK'
    BY <1>1, <1>2, <2>1 DEF JobsOK
  <2> QED
    BY <2>2, <2>3, <2>4, <2>5
<1>4. ASSUME NEW t \in Threads PROVE ThreadOK(t)' /\ (Calm => OwnOK(t)' /\ WaitOK(t)')
  <2>1. ThreadOK(t) /\ (Calm => OwnOK(t) /\ WaitOK(t))
    BY DEF CoreInv
  <2>2. ThreadOK(t)'
    BY <1>1, <1>2, <2>1 DEF ThreadOK
  <2>3. Calm => OwnOK(t)' /\ WaitOK(t)'
    BY <1>1, <1>2, <2>1 DEF OwnOK, WaitOK
  <2> QED
    BY <2>2, <2>3
<1> QED
  BY <1>2, <1>3, <1>4 DEF CoreInv

\* What keeps the jobs of the threads apart: an id in use is not given out, a thread works on
\* its own jobs, and without timeouts a job keeps its entry and its buffer while it is in use.
THEOREM GraphInvariant == HandlesApart => (Spec => []GraphInv)
<1> SUFFICES ASSUME HandlesApart PROVE Spec => []GraphInv
  OBVIOUS
<1>1. Init => GraphInv
  BY GraphInit DEF GraphInv, Init
<1>2. GraphInv /\ [Next]_vars => GraphInv'
  <2> SUFFICES ASSUME GraphInv, [Next]_vars PROVE GraphInv'
    OBVIOUS
  <2>1. setup' = setup /\ (Core' <=> Core)
    BY NextKeepsSetup, SetupStays
  <2>2. Core => CoreInv'
    <3>1. Core /\ Next => CoreInv'
      BY NextStep DEF GraphInv
    <3>2. Core /\ UNCHANGED vars => CoreInv'
      BY GraphStutter DEF GraphInv
    <3> QED
      BY <3>1, <3>2
  <2> QED
    BY <2>1, <2>2 DEF GraphInv
<1> QED
  BY <1>1, <1>2, PTL DEF Spec

-----------------------------------------------------------------------------
(* What follows.                                                           *)

\* update_job_status marks a job as ended only with its own status, so never while it is
\* queued or on the device, as long as nobody uses a timeout.
THEOREM EndsAreTrue == HandlesApart => (Spec => []EndIsTrue)
<1> SUFFICES ASSUME HandlesApart PROVE Spec => []EndIsTrue
  OBVIOUS
<1>1. GraphInv => EndIsTrue
  BY DEF GraphInv, Core, Calm, CoreInv, JobsOK, EndIsTrue
<1> QED
  BY <1>1, GraphInvariant, PTL

\* The job the kernel works on has its entry, so its thread still has its buffer.
LEMMA BufferIsExclusive ==
  ASSUME CoreInv, Calm, HandlesApart, NEW o \in Objs, phase[o] \in {"queued", "running", "stale"}
  PROVE  /\ ~is_free[buf_handle[o]]
         /\ \A i \in Ids : jobs[i] # 0 /\ buf_handle[jobs[i]] = buf_handle[o] => jobs[i] = o
         /\ \A t \in Threads : pc[t] \in {"claim", "insert"} => arg[t] # buf_handle[o]
<1>1. GraphTypeOK /\ TableOK /\ OwnersOK /\ JobsOK
  BY DEF CoreInv
<1>2. jstate[o] = "SCHED"
  BY <1>1 DEF JobsOK, OnDevice
<1>3. jobs[id[o]] = o /\ id[o] \in Ids /\ o # 0
  BY <1>1, <1>2 DEF TableOK, GraphTypeOK, Objs
<1>4. PICK t \in Threads : o \in mine[t]
  BY <1>1, <1>3 DEF OwnersOK
<1>5. OwnOK(t) /\ ThreadOK(t)
  BY DEF CoreInv
<1>6. buf_handle[o] \in MayUse[t] \cap Bufs
  BY <1>4, <1>5 DEF OwnOK
<1>7. \A u \in Threads : buf_handle[o] \in MayUse[u] => u = t
  BY <1>1, <1>6, CalmSetup DEF GraphTypeOK
<1>8. ~is_free[buf_handle[o]]
  BY <1>2, <1>4, <1>5 DEF OwnOK, ThreadOK
<1>9. ASSUME NEW i \in Ids, jobs[i] # 0, buf_handle[jobs[i]] = buf_handle[o]
      PROVE  jobs[i] = o
  <2>1. PICK u \in Threads : jobs[i] \in mine[u]
    BY <1>1, <1>9 DEF OwnersOK
  <2>2. buf_handle[jobs[i]] \in MayUse[u]
    BY <2>1 DEF CoreInv, OwnOK
  <2>3. u = t
    BY <1>7, <1>9, <2>2
  <2> QED
    BY <1>4, <1>5, <1>9, <2>1, <2>3 DEF OwnOK
<1>10. ASSUME NEW u \in Threads, pc[u] \in {"claim", "insert"}, arg[u] = buf_handle[o]
       PROVE  FALSE
  <2>1. arg[u] \in MayUse[u]
    BY <1>10 DEF CoreInv, ThreadOK
  <2>2. u = t
    BY <1>7, <1>10, <2>1
  <2> QED
    BY <1>4, <1>5, <1>10, <2>2 DEF OwnOK
<1> QED
  BY <1>8, <1>9, <1>10

\* The buffer of a job that is queued or on the device is marked as used, and nobody else
\* has it, or is loading data into it.
THEOREM BuffersAreExclusive == HandlesApart => (Spec => []BufferExclusive)
<1> SUFFICES ASSUME HandlesApart PROVE Spec => []BufferExclusive
  OBVIOUS
<1>1. GraphInv => BufferExclusive
  <2> SUFFICES ASSUME GraphInv, Calm PROVE BufferExclusive
    BY DEF BufferExclusive, Calm
  <2>1. CoreInv
    BY DEF GraphInv, Core
  <2> QED
    BY <2>1, BufferIsExclusive DEF BufferExclusive
<1> QED
  BY <1>1, GraphInvariant, PTL

\* A status that the kernel has handed out reaches its job: a collected job still marked as
\* scheduled has it in the hands of a thread.
THEOREM StatusesArrive == HandlesApart => (Spec => []NoStatusLost)
<1> SUFFICES ASSUME HandlesApart PROVE Spec => []NoStatusLost
  OBVIOUS
<1>1. GraphInv => NoStatusLost
  <2>1. Core \/ NoStatusLost
    BY DEF NoStatusLost, Core, Calm
  <2> QED
    BY <2>1 DEF GraphInv, CoreInv
<1> QED
  BY <1>1, GraphInvariant, PTL

\* A wait of a thread with one job gets the status, never an error.
THEOREM WaitsSucceed == HandlesApart => (Spec => []WaitSucceeds)
<1> SUFFICES ASSUME HandlesApart PROVE Spec => []WaitSucceeds
  OBVIOUS
<1>1. GraphInv => WaitSucceeds
  BY DEF GraphInv, Core, Calm, CoreInv, WaitOK, WaitSucceeds
<1> QED
  BY <1>1, GraphInvariant, PTL
====
