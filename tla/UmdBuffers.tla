----------------------------- MODULE UmdBuffers -----------------------------
(***************************************************************************)
(* The device memory of one graph in the user-mode driver (ARM build,      *)
(* group allocation): the text and static buffers of Graph::load, the      *)
(* stack, rodata and reuse buffers of alloc_thread_buffer, and who frees   *)
(* them (free_thread_buffer, Graph::unload, destroy_graph_object), on top  *)
(* of the REQBUF and FREEBUF calls of dev_op_wrapper.cpp.                  *)
(*                                                                         *)
(* A kernel buffer is a number, fresh for every REQBUF.  A buffer_desc_t   *)
(* is the number of the buffer it was filled with, and 0 where its va is   *)
(* null.  One application thread makes the calls, so a whole API call is   *)
(* one action; each allocation in it may fail, in the ioctl or in mmap.    *)
(***************************************************************************)
EXTENDS Naturals, Sequences, FiniteSets, FiniteSetsExt, SequencesExt

CONSTANTS
    MaxBufs,    \* bound: REQBUF calls in a behaviour
    Handles,    \* bound: the buffer handles, in the order they are given out
    Setups      \* the graphs and applications to look at, see below

ASSUME BuffersAssumption ==
    /\ MaxBufs \in Nat
    /\ Handles \subseteq Nat
    /\ Setups \subseteq [has_static : BOOLEAN, mmap_fails : BOOLEAN,
                         bad_map : BOOLEAN, frees_all : BOOLEAN]

Bufs == 1..MaxBufs
Null == 0

VARIABLES
    setup,      \* the member of Setups this behaviour is about
    \* kernel and address space
    held,       \* buffers on the session's list (REQBUF without FREEBUF)
    mapped,     \* buffers mapped into the process
    used,       \* REQBUF calls that succeeded
    \* Graph
    graph,      \* life of the object
    text,       \* pbuf.text
    static,     \* pbuf.static_group
    tbufs,      \* tbufs: handle -> tbuf_info_t
    jobs,       \* handle -> state of the job that uses it
    \* history
    badfree,    \* a buffer was freed that the process does not hold
    status      \* what the last call returned

vars == <<setup, held, mapped, used, graph, text, static, tbufs, jobs, badfree,
          status>>
kernel == <<held, mapped, used, badfree>>

HasStatic == setup.has_static   \* the graph has static sections
MmapFails == setup.mmap_fails   \* mmap of a buffer the kernel gave may fail
BadMap == setup.bad_map         \* build_new_job refuses the graph's parameter map
FreesAll == setup.frees_all     \* the application cleans every job and frees every
                                \* handle before it unloads the graph
Empty == [h \in {} |-> Null]

Init ==
    /\ setup \in Setups
    /\ held = {} /\ mapped = {} /\ used = 0
    /\ graph = "none"
    /\ text = Null /\ static = Null
    /\ tbufs = Empty
    /\ jobs = Empty
    /\ badfree = FALSE
    /\ status = "SUCCESS"

-----------------------------------------------------------------------------
(* dev_op_wrapper_malloc and dev_op_wrapper_free *)

\* The outcomes of allocating up to n buffers one after the other: `got' of
\* them succeed; if not all do, the next one fails, and the failure is of
\* mmap when `lost', which leaves a buffer in the kernel that nothing
\* refers to.
Outcomes(n) ==
    {[got |-> k, lost |-> l] : k \in 0..n, l \in BOOLEAN}
        \ {[got |-> n, lost |-> TRUE]}

\* The i-th buffer of the call, and all that the outcome takes.
Nth(i) == used + i
Malloc(o) == (used+1)..(used + o.got)
Lost(o) == IF o.lost THEN {used + o.got + 1} ELSE {}

\* After the allocations of outcome o and the frees of `freed', in this call
MallocAndFree(o, freed) ==
    /\ o.lost => MmapFails
    /\ used + o.got + Cardinality(Lost(o)) <= MaxBufs
    /\ used' = used + o.got + Cardinality(Lost(o))
    /\ held' = (held \cup Malloc(o) \cup Lost(o)) \ freed
    /\ mapped' = (mapped \cup Malloc(o)) \ freed
    /\ badfree' = (badfree \/ ~(freed \subseteq held \cup Malloc(o)))

\* free_buf of every descriptor of fs: munmap, then FREEBUF
Free(fs) ==
    /\ held' = held \ fs
    /\ mapped' = mapped \ fs
    /\ badfree' = (badfree \/ ~(fs \subseteq held))
    /\ UNCHANGED used

Returns(s) == status' = s

-----------------------------------------------------------------------------
(* Graph::load *)

Loads == IF HasStatic THEN 2 ELSE 1

\* load: text, then the group of the static sections.
LoadGraph ==
    /\ graph = "none"
    /\ MallocAndFree([got |-> Loads, lost |-> FALSE], {})
    /\ text' = Nth(1)
    /\ static' = IF HasStatic THEN Nth(2) ELSE Null
    /\ graph' = "loaded"
    /\ Returns("SUCCESS")
    /\ UNCHANGED <<setup, tbufs, jobs>>

\* Mutant: create_graph_object deletes the object without unload.
LoadGraphFailsNoUnload ==
    /\ graph = "none"
    /\ \E o \in Outcomes(Loads) :
        o.got < Loads /\ MallocAndFree(o, {})
    /\ Returns("BUF_ALLOC_FAIL")
    /\ UNCHANGED <<setup, graph, text, static, tbufs, jobs>>

\* An allocation fails: create_graph_object unloads what there is and deletes
\* the object.
LoadGraphFails ==
    /\ graph = "none"
    /\ \E o \in Outcomes(Loads) :
        o.got < Loads /\ MallocAndFree(o, Malloc(o))
    /\ Returns("BUF_ALLOC_FAIL")
    /\ UNCHANGED <<setup, graph, text, static, tbufs, jobs>>

-----------------------------------------------------------------------------
(* Thread buffers *)

\* create_buf_handle_inner: the first handle that is not in use
FreeHandle == Min(Handles \ DOMAIN tbufs)

\* alloc_thread_buffer: stack, rodata (with the descriptors), reuse group.
AllocThreadBuffer ==
    /\ graph = "loaded"
    /\ Handles \ DOMAIN tbufs # {}
    /\ MallocAndFree([got |-> 3, lost |-> FALSE], {})
    /\ tbufs' = [h \in DOMAIN tbufs \cup {FreeHandle} |->
                    IF h = FreeHandle
                    THEN [stack |-> Nth(1), rodata |-> Nth(2), reuse |-> Nth(3),
                          is_free |-> TRUE]
                    ELSE tbufs[h]]
    /\ Returns("SUCCESS")
    /\ UNCHANGED <<setup, graph, text, static, jobs>>

\* Its labels free_ro_reuse, free_stack and delete_tbuf
AllocThreadBufferFails ==
    /\ graph = "loaded"
    /\ \E o \in Outcomes(3) :
        o.got < 3 /\ MallocAndFree(o, Malloc(o))
    /\ Returns("BUF_ALLOC_FAIL")
    /\ UNCHANGED <<setup, graph, text, static, tbufs, jobs>>

Parts(b) == {b.stack, b.rodata, b.reuse}
Without(f, h) == [x \in DOMAIN f \ {h} |-> f[x]]

\* Mutant: a handle a job uses can be freed.
FreeThreadBufferBusy(h) ==
    /\ graph = "loaded"
    /\ h \in DOMAIN tbufs
    /\ Free(Parts(tbufs[h]))
    /\ tbufs' = Without(tbufs, h)
    /\ Returns("SUCCESS")
    /\ UNCHANGED <<setup, graph, text, static, jobs>>

\* free_thread_buffer: rodata, stack, reuse group, then the entry
FreeThreadBuffer(h) ==
    /\ graph = "loaded"
    /\ h \in DOMAIN tbufs
    /\ IF tbufs[h].is_free
       THEN /\ Free(Parts(tbufs[h]))
            /\ tbufs' = Without(tbufs, h)
            /\ Returns("SUCCESS")
       ELSE /\ Returns("BUSY_HANDLE")
            /\ UNCHANGED <<kernel, tbufs>>
    /\ UNCHANGED <<setup, graph, text, static, jobs>>

-----------------------------------------------------------------------------
(* Jobs, as far as they hold a buffer.  A handle has at most one job, so a  *)
(* job is named by its handle; UmdGraph has the rest.                       *)

\* build_new_job marks the buffer used before it can refuse the map.
BuildNewJob(h) ==
    /\ graph = "loaded"
    /\ h \in DOMAIN tbufs /\ tbufs[h].is_free
    /\ tbufs' = [tbufs EXCEPT ![h].is_free = FALSE]
    /\ IF BadMap
       THEN Returns("INVALID_SIZE") /\ UNCHANGED jobs
       ELSE /\ jobs' = [x \in DOMAIN jobs \cup {h} |->
                            IF x = h THEN "BUILT" ELSE jobs[x]]
            /\ Returns("SUCCESS")
    /\ UNCHANGED <<setup, kernel, graph, text, static>>

JobGoes(h, from, to) ==
    /\ graph = "loaded"
    /\ h \in DOMAIN jobs /\ jobs[h] = from
    /\ jobs' = [jobs EXCEPT ![h] = to]
    /\ Returns("SUCCESS")
    /\ UNCHANGED <<setup, kernel, graph, text, static, tbufs>>

FlushJob(h) == JobGoes(h, "BUILT", "SCHED")
JobEnds(h) == JobGoes(h, "SCHED", "DONE")
JobTimesOut(h) == JobGoes(h, "SCHED", "TIMEOUT")

\* clean_job
CleanJob(h) ==
    /\ graph = "loaded"
    /\ h \in DOMAIN jobs /\ jobs[h] \in {"DONE", "TIMEOUT"}
    /\ tbufs' = [x \in DOMAIN tbufs |->
                    IF x = h THEN [tbufs[x] EXCEPT !.is_free = TRUE] ELSE tbufs[x]]
    /\ jobs' = Without(jobs, h)
    /\ Returns("SUCCESS")
    /\ UNCHANGED <<setup, kernel, graph, text, static>>

-----------------------------------------------------------------------------
(* Graph::unload *)

\* is_unload_ok
IsUnloadOk == \A h \in DOMAIN jobs : jobs[h] = "DONE"

\* The application's side
MayUnload == FreesAll => DOMAIN jobs = {} /\ DOMAIN tbufs = {}

UnloadRefused ==
    /\ graph = "loaded" /\ MayUnload
    /\ ~IsUnloadOk
    /\ Returns("INVALID_OP")
    /\ UNCHANGED <<setup, kernel, graph, text, static, tbufs, jobs>>

\* Before the loop over the thread buffers: the jobs are deleted, text and the
\* static group freed.  text is reset, the static group's descriptor is not;
\* when it is freed again the ioctl fails and unload ends there.
PbufParts == {text, static} \ {Null}
StaticGone == static # Null /\ static \notin held

\* The loop frees the thread buffers in the order of their handles.  It ends
\* with BUSY_HANDLE at the first one that is not free: deleting the jobs did
\* not make their buffers free.  free_thread_buffer erases the map's element
\* that the loop's iterator stands on, so after the first one has been freed
\* the iterator is invalid, and the loop may go on or end anywhere.
FirstBusy == {h \in DOMAIN tbufs :
    ~tbufs[h].is_free /\ \A x \in DOMAIN tbufs : x < h => tbufs[x].is_free}
BeforeBusy == {h \in DOMAIN tbufs : \A b \in FirstBusy : h < b}
LoopFrees == {F \in SUBSET BeforeBusy :
    BeforeBusy # {} => Min(BeforeBusy) \in F}
FreedParts(F) == UNION {Parts(tbufs[h]) : h \in F}

\* The loop ends; destroy_graph_object deletes the object, and with it what is
\* left of the map.
UnloadGraph ==
    /\ graph = "loaded" /\ MayUnload
    /\ IsUnloadOk
    /\ ~StaticGone
    /\ \E F \in LoopFrees :
        /\ FirstBusy # {} => F # {}
        /\ Free(PbufParts \cup FreedParts(F))
    /\ graph' = "none"
    /\ text' = Null /\ static' = Null
    /\ tbufs' = Empty /\ jobs' = Empty
    /\ Returns("SUCCESS")
    /\ UNCHANGED setup

\* The loop meets a handle that is not free.
UnloadBusy ==
    /\ graph = "loaded" /\ MayUnload
    /\ IsUnloadOk
    /\ ~StaticGone
    /\ FirstBusy # {}
    /\ \E F \in LoopFrees :
        /\ Free(PbufParts \cup FreedParts(F))
        /\ tbufs' = [h \in DOMAIN tbufs \ F |-> tbufs[h]]
    /\ text' = Null
    /\ jobs' = Empty
    /\ Returns("BUSY_HANDLE")
    /\ UNCHANGED <<setup, graph, static>>

\* Unload again after UnloadBusy: munmap and FREEBUF of the static group,
\* which has been freed.
UnloadAgain ==
    /\ graph = "loaded" /\ MayUnload
    /\ IsUnloadOk
    /\ StaticGone
    /\ Free(PbufParts)
    /\ text' = Null
    /\ jobs' = Empty
    /\ Returns("BUF_FREE_FAIL")
    /\ UNCHANGED <<setup, graph, static, tbufs>>

-----------------------------------------------------------------------------
Next ==
    \/ LoadGraph \/ LoadGraphFails
    \/ AllocThreadBuffer \/ AllocThreadBufferFails
    \/ UnloadRefused \/ UnloadGraph \/ UnloadBusy \/ UnloadAgain
    \/ \E h \in Handles :
        \/ FreeThreadBuffer(h) \/ BuildNewJob(h) \/ FlushJob(h)
        \/ JobEnds(h) \/ JobTimesOut(h) \/ CleanJob(h)

Spec == Init /\ [][Next]_vars

-----------------------------------------------------------------------------
(* Properties *)

Reachable == ({text, static} \ {Null}) \cup FreedParts(DOMAIN tbufs)

\* The memory of an application that frees what it allocated, where only REQBUF
\* fails: every buffer the kernel holds for it can still be freed, as some
\* descriptor of the graph refers to it, and a buffer is freed once.  It takes in
\* every error path of load and of alloc_thread_buffer.
NoLeak == FreesAll /\ ~MmapFails => held \subseteq Reachable /\ ~badfree

\* A handle the application has is whole, even after an unload that ended half way:
\* its three buffers are held, and no other handle or the graph shares one of them.
\* What a scheduled job runs on is held: the text, the static data and its thread
\* buffer, which is marked used.  (After an unload that ended half way a job may be
\* built on a graph without text.)
ScheduledMemoryHeld ==
    /\ FreedParts(DOMAIN tbufs) \subseteq held
    /\ \A h \in DOMAIN tbufs :
        /\ Cardinality(Parts(tbufs[h])) = 3
        /\ Parts(tbufs[h]) \cap {text, static} = {}
        /\ \A k \in DOMAIN tbufs \ {h} : Parts(tbufs[h]) \cap Parts(tbufs[k]) = {}
    /\ \A h \in DOMAIN jobs : FreesAll /\ jobs[h] = "SCHED" =>
        /\ text \in held
        /\ HasStatic => static \in held
        /\ h \in DOMAIN tbufs
        /\ ~tbufs[h].is_free
=============================================================================
