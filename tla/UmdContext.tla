----------------------------- MODULE UmdContext -----------------------------
(***************************************************************************)
(* The contexts of the user-mode driver and their graph tables             *)
(* (ctx_ref_map.cpp, context.cpp), as the threads of one process use them  *)
(* through the standard API (standard_api_impl.cpp).                       *)
(*                                                                         *)
(* Every API function looks its context up by handle and then calls the    *)
(* context; every function about a graph looks the graph up by id and then *)
(* calls the Graph object.  Neither look-up takes a reference: what it     *)
(* returns is a bare pointer.  An action is what a thread does between two *)
(* points where another one can get in: CtxRefMap.lock, gt_lock, or a      *)
(* pointer it holds.                                                       *)
(*                                                                         *)
(* What a graph does with its buffers and jobs is in UmdBuffers and        *)
(* UmdGraph; here a graph has at most one buffer handle with one job, which *)
(* is enough for is_unload_ok to say no and for unload to fail half way.   *)
(***************************************************************************)
EXTENDS Integers, FiniteSets, FiniteSetsExt

CONSTANTS
    Threads,    \* the threads of the application
    MaxCtx,     \* bound: the most MainContext objects made in a behaviour
    MaxObjs,    \* bound: the most Graph objects made in a behaviour
    Setups      \* the applications to look at, see below

ASSUME ContextAssumption ==
    /\ MaxCtx \in Nat \ {0}
    /\ MaxObjs \in Nat \ {0}
    /\ \A s \in Setups : /\ DOMAIN s.may = Threads
                         /\ s.max_ctx \in 1..MaxCtx /\ s.max_objs \in 1..MaxObjs
                         /\ s.open_fails \in BOOLEAN

Ctxs == 1..MaxCtx
Objs == 1..MaxObjs
\* Handles are 0xFFFFFFFF downwards; here counted from 0xFFFFFFFF.
Handles == 0..MaxCtx
\* create_unique_graph_id_inner starts at 1.
Gids == 1..MaxObjs+1
Absent  == -1
NullPtr == 0

VARIABLES
    setup,      \* the member of Setups this behaviour is about
    data,       \* CtxRefMap: handle -> context object, or 0
    ctx,        \* life of every MainContext
    fd,         \* DeviceCtrl.fd of every context
    graphs,     \* graph table of every context
    obj,        \* life of every Graph object
    job,        \* its job and the handle that is built on, see JobStates
    pc,         \* where a thread is in its call
    handle,     \* the context handle it was called with
    cptr,       \* the MainContext it holds a pointer to
    gid,        \* the graph id it works on
    gptr,       \* the Graph it holds a pointer to
    mine,       \* the graphs <<handle, id>> it loaded and has not unloaded
    open        \* the handles the application has from AIPU_init_ctx

vars == <<setup, data, ctx, fd, graphs, obj, job, pc, handle, cptr, gid, gptr,
          mine, open>>
tables == <<setup, data, ctx, fd, graphs, obj, job>>

May == setup.may                \* May[t]: the API functions thread t calls
OpenFails == setup.open_fails   \* open("/dev/aipu") may fail
\* the objects still to be made
NewCtxs == {c \in 1..setup.max_ctx : ctx[c] = "none"}
NewObjs == {g \in 1..setup.max_objs : obj[g] = "none"}

Init ==
    /\ setup \in Setups
    /\ data = [h \in Handles |-> NullPtr]
    /\ ctx = [c \in Ctxs |-> "none"]
    /\ fd = [c \in Ctxs |-> "none"]
    /\ graphs = [c \in Ctxs |-> [i \in Gids |-> Absent]]
    /\ obj = [g \in Objs |-> "none"]
    /\ job = [g \in Objs |-> "none"]
    /\ pc = [t \in Threads |-> "idle"]
    /\ handle = [t \in Threads |-> 0]
    /\ cptr = [t \in Threads |-> NullPtr]
    /\ gid = [t \in Threads |-> 0]
    /\ gptr = [t \in Threads |-> NullPtr]
    /\ mine = [t \in Threads |-> {}]
    /\ open = {}

At(t, where) == pc[t] = where
Goto(t, where) == pc' = [pc EXCEPT ![t] = where]
\* The call returns; the thread's pointers go out of scope.
Return(t) ==
    /\ Goto(t, "idle")
    /\ cptr' = [cptr EXCEPT ![t] = NullPtr]
    /\ gptr' = [gptr EXCEPT ![t] = NullPtr]

\* MainContext::graphs of the context the thread holds a pointer to
Table(t) == graphs[cptr[t]]
SetEntry(t, i, g) == graphs' = [graphs EXCEPT ![cptr[t]][i] = g]
CtxLive(c) == c # NullPtr /\ ctx[c] # "deleted"
ObjLive(g) == g # NullPtr /\ obj[g] # "deleted"

-----------------------------------------------------------------------------
(* CtxRefMap *)

\* create_ctx_ref: the first free handle from 0xFFFFFFFF down
FreeHandle == Min({h \in Handles : data[h] = NullPtr})

\* What the application sees to (pthread_join): nobody else is in a call with
\* handle h when one of the two calls is AIPU_deinit_ctx.
DeinitPcs == {"deinit_ctx", "force_deinit", "destroy_ctx_ref"}
Allowed(t, op, h) ==
    \A u \in Threads \ {t} :
        (~At(u, "idle") /\ handle[u] = h) => {op, pc[u]} \cap DeinitPcs = {}

\* get_ctx_ref, and what every API function does with it: INVALID_CTX, or the
\* call of the context's function `op'.
Call(t, op) ==
    /\ At(t, "idle")
    /\ op \in May[t]
    /\ \E h \in open :
        /\ Allowed(t, op, h)
        /\ handle' = [handle EXCEPT ![t] = h]
        /\ IF data[h] = NullPtr
           THEN UNCHANGED <<pc, cptr>>
           ELSE Goto(t, op) /\ cptr' = [cptr EXCEPT ![t] = data[h]]
    /\ UNCHANGED <<tables, gid, gptr, mine, open>>

\* The same for a function about one of the graphs the thread has loaded
CallGraph(t, op) ==
    /\ At(t, "idle")
    /\ op \in May[t]
    /\ \E d \in mine[t] :
        /\ d[1] \in open
        /\ Allowed(t, op, d[1])
        /\ handle' = [handle EXCEPT ![t] = d[1]]
        /\ gid' = [gid EXCEPT ![t] = d[2]]
        /\ IF data[d[1]] = NullPtr
           THEN UNCHANGED <<pc, cptr>>
           ELSE Goto(t, op) /\ cptr' = [cptr EXCEPT ![t] = data[d[1]]]
    /\ UNCHANGED <<tables, gptr, mine, open>>

-----------------------------------------------------------------------------
(* Contexts *)

\* AIPU_init_ctx: the context is in the map before its device is open.
InitCtx(t) ==
    /\ At(t, "idle")
    /\ "init_ctx" \in May[t]
    /\ \E c \in NewCtxs :
        /\ c = Min(NewCtxs)
        /\ data' = [data EXCEPT ![FreeHandle] = c]
        /\ handle' = [handle EXCEPT ![t] = FreeHandle]
        /\ ctx' = [ctx EXCEPT ![c] = "made"]
        /\ cptr' = [cptr EXCEPT ![t] = c]
    /\ Goto(t, "init")
    /\ UNCHANGED <<setup, fd, graphs, obj, job, gid, gptr, mine, open>>

\* MainContext::init, DeviceCtrl::init, dev_op_wrapper_open.  When open()
\* fails, ret is still 0 and info.fd has never been written.
OpenDevice(t, outcome) ==
    /\ At(t, "init")
    /\ fd' = [fd EXCEPT ![cptr[t]] = outcome]
    /\ ctx' = [ctx EXCEPT ![cptr[t]] = "live"]
    /\ open' = open \cup {handle[t]}
    /\ Return(t)
    /\ UNCHANGED <<setup, data, graphs, obj, job, handle, gid, mine>>

InitOk(t) == OpenDevice(t, "open")
InitNoDevice(t) == OpenFails /\ OpenDevice(t, "garbage")

\* REQSHMMAP or QUERYCAP fails: the descriptor is closed, the context deleted.
InitRefused(t) ==
    /\ At(t, "init")
    /\ data' = [data EXCEPT ![handle[t]] = NullPtr]
    /\ ctx' = [ctx EXCEPT ![cptr[t]] = "deleted"]
    /\ Return(t)
    /\ UNCHANGED <<setup, fd, graphs, obj, job, handle, gid, mine, open>>

\* AIPU_deinit_ctx
DeinitCtx(t) == Call(t, "deinit_ctx")

\* "none": no job, the handle is free; "BUSY": no job, but a build_new_job that
\* was refused has left the handle busy; "HALF": no job, and an unload has freed
\* everything up to the busy handle.
JobStates == {"none", "BUILT", "SCHED", "DONE", "BUSY", "HALF"}

\* is_unload_ok: all jobs have ended.
JobEnded(g) == job[g] \notin {"BUILT", "SCHED"}

\* is_deinit_ok: calls is_unload_ok on every entry of the table.
IsDeinitOk(t) ==
    /\ At(t, "deinit_ctx")
    /\ \A i \in Gids : Table(t)[i] # Absent => ObjLive(Table(t)[i])
    /\ IF \A i \in Gids : Table(t)[i] # Absent => JobEnded(Table(t)[i])
       THEN Goto(t, "force_deinit") /\ UNCHANGED <<cptr, gptr>>
       ELSE Return(t)
    /\ UNCHANGED <<tables, handle, gid, mine, open>>

\* force_deinit: unload of every graph, whose result is ignored and whose
\* object is not deleted; the table is cleared and the device closed, which
\* also frees the memory of a graph whose unload ended half way.
ForceDeinit(t) ==
    LET tab == Table(t)
        All == {tab[i] : i \in {k \in Gids : tab[k] # Absent}}
    IN  /\ At(t, "force_deinit")
        /\ \A g \in All : ObjLive(g)
        /\ obj' = [g \in Objs |->
                     IF g \in All /\ JobEnded(g) THEN "unloaded" ELSE obj[g]]
        /\ job' = [g \in Objs |->
                     IF g \in All /\ JobEnded(g) THEN "none" ELSE job[g]]
        /\ graphs' = [graphs EXCEPT ![cptr[t]] = [i \in Gids |-> Absent]]
        /\ fd' = [fd EXCEPT ![cptr[t]] = "closed"]
        /\ Goto(t, "destroy_ctx_ref")
        /\ UNCHANGED <<setup, data, ctx, handle, cptr, gid, gptr, mine, open>>

\* destroy_ctx_ref, then delete of the application's handle
DestroyCtxRef(t) ==
    /\ At(t, "destroy_ctx_ref")
    /\ ctx' = [ctx EXCEPT ![data[handle[t]]] = "deleted"]
    /\ data' = [data EXCEPT ![handle[t]] = NullPtr]
    /\ open' = open \ {handle[t]}
    /\ Return(t)
    /\ mine' = [u \in Threads |-> {d \in mine[u] : d[1] # handle[t]}]
    /\ UNCHANGED <<setup, fd, graphs, obj, job, handle, gid>>

-----------------------------------------------------------------------------
(* Graph table *)

\* AIPU_load_graph and AIPU_load_graph_helper
LoadGraph(t) == Call(t, "load_graph")

\* Mutant: only loaded graphs are skipped, not reservations.
CreateUniqueGraphIdNoReservation(tab) == Min({i \in Gids : tab[i] \in {Absent, NullPtr}})

CreateUniqueGraphId(tab) == Min({i \in Gids : tab[i] = Absent})

\* bound: there are ids enough
IdsLeft(tab) == \E i \in Gids : tab[i] = Absent

\* load_graph, first part: reserve an id with a null entry.
LoadReserve(t) ==
    /\ At(t, "load_graph")
    /\ NewObjs # {} /\ IdsLeft(Table(t))
    /\ LET i == CreateUniqueGraphId(Table(t)) IN
        /\ gid' = [gid EXCEPT ![t] = i]
        /\ SetEntry(t, i, NullPtr)
    /\ Goto(t, "create_graph_object")
    /\ UNCHANGED <<setup, data, ctx, fd, obj, job, handle, cptr, gptr, mine,
                   open>>

\* parse_graph refuses the binary before anything is reserved.
LoadInvalid(t) ==
    /\ At(t, "load_graph")
    /\ Return(t)
    /\ UNCHANGED <<tables, handle, gid, mine, open>>

\* create_graph_object: new Graph and Graph::load, which may fail.
CreateGraphObject(t) ==
    /\ At(t, "create_graph_object")
    /\ \E g \in NewObjs :
        /\ g = Min(NewObjs)
        /\ obj' = [obj EXCEPT ![g] = "loaded"]
        /\ gptr' = [gptr EXCEPT ![t] = g]
    /\ Goto(t, "publish")
    /\ UNCHANGED <<setup, data, ctx, fd, graphs, job, handle, cptr, gid, mine,
                   open>>

CreateGraphObjectFails(t) ==
    /\ At(t, "create_graph_object")
    /\ Goto(t, "erase")
    /\ UNCHANGED <<tables, handle, cptr, gid, gptr, mine, open>>

\* load_graph, second part: the entry points to the object.
LoadPublish(t) ==
    /\ At(t, "publish")
    /\ SetEntry(t, gid[t], gptr[t])
    /\ mine' = [mine EXCEPT ![t] = @ \cup {<<handle[t], gid[t]>>}]
    /\ Return(t)
    /\ UNCHANGED <<setup, data, ctx, fd, obj, job, handle, gid, open>>

\* graphs.erase(id): the end of load_graph after a failure, and of
\* unload_graph
EraseEntry(t) ==
    /\ At(t, "erase")
    /\ SetEntry(t, gid[t], Absent)
    /\ mine' = [mine EXCEPT ![t] = @ \ {<<handle[t], gid[t]>>}]
    /\ Return(t)
    /\ UNCHANGED <<setup, data, ctx, fd, obj, job, handle, gid, open>>

\* get_graph_object, and the caller's test of its result
GetGraphObject(t, op, next) ==
    /\ At(t, op)
    /\ IF Table(t)[gid[t]] \in {Absent, NullPtr}
       THEN Return(t)
       ELSE /\ gptr' = [gptr EXCEPT ![t] = Table(t)[gid[t]]]
            /\ Goto(t, next)
            /\ UNCHANGED cptr
    /\ UNCHANGED <<tables, handle, gid, mine, open>>

\* AIPU_unload_graph
UnloadGraph(t) == CallGraph(t, "unload_graph")
UnloadLookup(t) == GetGraphObject(t, "unload_graph", "destroy_graph_object")

\* Graph::unload deletes the ended jobs and frees the text and the static
\* buffers, then fails with BUSY_HANDLE: a job that has ended keeps its handle
\* until it is cleaned.
UnloadHalf(g) == JobEnded(g) /\ job[g] # "none"

\* Mutant: the result of the unload is not looked at before the entry goes.
DestroyGraphObjectIgnoresUnload(t) ==
    /\ At(t, "destroy_graph_object")
    /\ ObjLive(gptr[t])
    /\ Goto(t, "erase")
    /\ IF job[gptr[t]] = "none"
       THEN obj' = [obj EXCEPT ![gptr[t]] = "deleted"]
       ELSE UNCHANGED obj
    /\ UNCHANGED <<setup, data, ctx, fd, graphs, job, handle, cptr, gid, gptr, mine, open>>

\* destroy_graph_object: Graph::unload and, when it succeeds, delete; the table
\* still has the pointer.  When it does not, unload_graph returns and both the
\* object and its entry stay.
DestroyGraphObject(t) ==
    /\ At(t, "destroy_graph_object")
    /\ ObjLive(gptr[t])
    /\ \/ /\ job[gptr[t]] = "none"
          /\ obj' = [obj EXCEPT ![gptr[t]] = "deleted"]
          /\ Goto(t, "erase")
          /\ UNCHANGED <<job, cptr, gptr>>
       \/ /\ job[gptr[t]] # "none"
          /\ job' = [job EXCEPT ![gptr[t]] = IF UnloadHalf(gptr[t]) THEN "HALF" ELSE @]
          /\ Return(t)
          /\ UNCHANGED obj
    /\ UNCHANGED <<setup, data, ctx, fd, graphs, handle, gid, mine, open>>

-----------------------------------------------------------------------------
(* Functions about a graph: look it up, then call it. *)

CreateJob(t) == CallGraph(t, "create_job")
FlushJob(t) == CallGraph(t, "flush_job")
GetJobStatus(t) == CallGraph(t, "get_job_status")
CleanJob(t) == CallGraph(t, "clean_job")
AllocTensorBuffers(t) == CallGraph(t, "alloc_tensor_buffers")
FreeTensorBuffers(t) == CallGraph(t, "free_tensor_buffers")
SetDumpOptions(t) == CallGraph(t, "set_dump_options")
GetDebugInfo(t) == CallGraph(t, "get_debug_info")

CreateNewJob(t) == GetGraphObject(t, "create_job", "build_new_job")
CtxFlushJob(t) == GetGraphObject(t, "flush_job", "Graph::flush_job")
WaitForJobEnd(t) == GetGraphObject(t, "get_job_status", "Graph::wait")
CtxCleanJob(t) == GetGraphObject(t, "clean_job", "Graph::clean_job")
CtxAllocBuffers(t) == GetGraphObject(t, "alloc_tensor_buffers", "Graph::buffers")
CtxFreeBuffers(t) == GetGraphObject(t, "free_tensor_buffers", "Graph::buffers")
CtxDumpOptions(t) == GetGraphObject(t, "set_dump_options", "Graph::job_info")
CtxDebugInfo(t) == GetGraphObject(t, "get_debug_info", "Graph::job_info")

\* A method of the Graph object: the job goes from one state to the next, or
\* the method refuses and nothing changes.
GraphMethod(t, where, from, to) ==
    /\ At(t, where)
    /\ ObjLive(gptr[t])
    /\ job' = [job EXCEPT ![gptr[t]] = IF @ = from THEN to ELSE @]
    /\ Return(t)
    /\ UNCHANGED <<setup, data, ctx, fd, graphs, obj, handle, gid, mine, open>>

BuildNewJob(t) == GraphMethod(t, "build_new_job", "none", "BUILT")
\* The parameter map is refused after the handle was claimed (is_free = false).
BuildRefused(t) == GraphMethod(t, "build_new_job", "none", "BUSY")
GraphFlushJob(t) == GraphMethod(t, "Graph::flush_job", "BUILT", "SCHED")
GraphWait(t) == GraphMethod(t, "Graph::wait", "SCHED", "DONE")
GraphCleanJob(t) == GraphMethod(t, "Graph::clean_job", "DONE", "none")
GraphBuffers(t) == GraphMethod(t, "Graph::buffers", "none", "none")
GraphJobInfo(t) == GraphMethod(t, "Graph::job_info", "none", "none")

\* AIPU_poll_jobs_status
PollJobsStatus(t) == Call(t, "poll_jobs_status")

\* get_max_poll_job_cnt: calls get_sched_job_cnt on every non-null entry.
GetMaxPollJobCnt(t) ==
    /\ At(t, "poll_jobs_status")
    /\ \A i \in Gids : Table(t)[i] \notin {Absent, NullPtr} => ObjLive(Table(t)[i])
    /\ Goto(t, "poll_status")
    /\ UNCHANGED <<tables, handle, cptr, gid, gptr, mine, open>>

\* ctrl.poll_status: the kernel reports a job of the context, or times out.
PollStatus(t) ==
    /\ At(t, "poll_status")
    /\ \/ \E i \in Gids :
            /\ Table(t)[i] \in Objs
            /\ job[Table(t)[i]] = "SCHED"
            /\ gid' = [gid EXCEPT ![t] = i]
            /\ Goto(t, "poll_lookup")
            /\ UNCHANGED <<cptr, gptr>>
       \/ Return(t) /\ UNCHANGED gid
    /\ UNCHANGED <<tables, handle, mine, open>>

PollLookup(t) == GetGraphObject(t, "poll_lookup", "update_job_status")
UpdateJobStatus(t) == GraphMethod(t, "update_job_status", "SCHED", "DONE")

-----------------------------------------------------------------------------
ContextStep(t) ==
    \/ InitCtx(t) \/ InitOk(t) \/ InitNoDevice(t) \/ InitRefused(t)
    \/ DeinitCtx(t) \/ IsDeinitOk(t) \/ ForceDeinit(t) \/ DestroyCtxRef(t)

TableStep(t) ==
    \/ LoadGraph(t) \/ LoadInvalid(t) \/ LoadReserve(t) \/ CreateGraphObject(t)
    \/ CreateGraphObjectFails(t) \/ LoadPublish(t) \/ EraseEntry(t)
    \/ UnloadGraph(t) \/ UnloadLookup(t) \/ DestroyGraphObject(t)

GraphStep(t) ==
    \/ CreateJob(t) \/ CreateNewJob(t) \/ BuildNewJob(t) \/ BuildRefused(t)
    \/ FlushJob(t) \/ CtxFlushJob(t) \/ GraphFlushJob(t)
    \/ GetJobStatus(t) \/ WaitForJobEnd(t) \/ GraphWait(t)
    \/ CleanJob(t) \/ CtxCleanJob(t) \/ GraphCleanJob(t)
    \/ AllocTensorBuffers(t) \/ CtxAllocBuffers(t)
    \/ FreeTensorBuffers(t) \/ CtxFreeBuffers(t) \/ GraphBuffers(t)
    \/ SetDumpOptions(t) \/ CtxDumpOptions(t)
    \/ GetDebugInfo(t) \/ CtxDebugInfo(t) \/ GraphJobInfo(t)

PollStep(t) ==
    \/ PollJobsStatus(t) \/ GetMaxPollJobCnt(t) \/ PollStatus(t)
    \/ PollLookup(t) \/ UpdateJobStatus(t)

Next == \E t \in Threads :
    ContextStep(t) \/ TableStep(t) \/ GraphStep(t) \/ PollStep(t)

Spec == Init /\ [][Next]_vars

-----------------------------------------------------------------------------
(* Properties *)

GraphMethods == {"destroy_graph_object", "build_new_job", "Graph::flush_job",
                 "Graph::wait", "Graph::clean_job", "Graph::buffers",
                 "Graph::job_info", "update_job_status"}

\* No thread is about to call a method of a context or of a graph that has
\* been deleted, or through a null entry of the table: get_ctx_ref and
\* get_graph_object return bare pointers that nothing keeps alive, and
\* get_max_poll_job_cnt, is_deinit_ok and force_deinit walk the whole table.  The
\* application has to join its threads before it gives a context up, and no thread
\* may poll beside one that unloads.
PointersLive == \A t \in Threads :
    /\ ~At(t, "idle") => CtxLive(cptr[t])
    /\ pc[t] \in GraphMethods => ObjLive(gptr[t])
    /\ At(t, "poll_jobs_status") => \A i \in Gids :
            Table(t)[i] \notin {Absent, NullPtr} => ObjLive(Table(t)[i])
    /\ pc[t] \in {"deinit_ctx", "force_deinit"} => \A i \in Gids :
            Table(t)[i] # Absent => ObjLive(Table(t)[i])

\* A graph descriptor that AIPU_load_graph returned stays good until its own
\* thread unloads it or its context is torn down: its entry is a Graph that
\* lives, no other thread was given the same id, and nobody but a thread that
\* unloads its own graphs finds one of them without its text and its static
\* buffers (an unload that ended on a busy handle).
OwnGraphLoaded ==
    /\ \A t, u \in Threads : t # u => mine[t] \cap mine[u] = {}
    /\ \A t \in Threads : \A d \in mine[t] :
        /\ d[1] \in open /\ ~At(t, "erase")
        /\ \A u \in Threads : At(u, "destroy_ctx_ref") => handle[u] # d[1]
        => LET g == graphs[data[d[1]]][d[2]] IN
             /\ g \in Objs /\ obj[g] = "loaded"
             /\ job[g] = "HALF" => "unload_graph" \in May[t]

\* No Graph is lost with device memory behind it: one that has not been unloaded
\* to the end can be found in the table of a context that is in the map, whatever
\* failed on the way (a load, an unload that ended on a busy handle, a deinit that
\* was refused), or the thread that loads it is about to put it there.
NoGraphLost == \A g \in Objs : obj[g] = "loaded" =>
    \/ \E h \in Handles, i \in Gids : data[h] # NullPtr /\ graphs[data[h]][i] = g
    \/ \E t \in Threads : At(t, "publish") /\ gptr[t] = g
=============================================================================
