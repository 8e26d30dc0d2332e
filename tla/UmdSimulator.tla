---------------------------- MODULE UmdSimulator ----------------------------
(***************************************************************************)
(* The x86 build of DeviceCtrl, where a job is a run of the simulator: the *)
(* device addresses a graph is given when it is loaded, and the files a    *)
(* job's input and output go through.                                      *)
(*                                                                         *)
(* Every graph has a thread of its own, which loads it, takes its thread   *)
(* buffer, runs jobs on it, frees it and unloads the graph; graphs of one  *)
(* context share its DeviceCtrl.  Nothing is locked during a load, so      *)
(* every access to simulation_malloc_top is a step.  Sizes are in pages.   *)
(***************************************************************************)
EXTENDS Naturals, Sequences, FiniteSets, FiniteSetsExt

CONSTANTS
    Graphs,     \* the graphs, and the threads that use them
    Contexts,   \* the contexts
    Dir,        \* Dir[c]: cfg_file_dir and output_dir of context c
    Sizes,      \* pages of each part of a graph
    Align,      \* align_in_page of stack, static and reuse sections
    Word,       \* pages in 2^32 bytes, scaled: what a uint32_t can tell apart
    Setups      \* bound: the applications, records of
                \*   ctx          the context each graph is loaded into
                \*   id           its graph id, unique in the context
                \*   old_arch     Z1 with use_new_arch_sim = 0
                \*   output_sets  the output tensors, sequences of [off, size]
                \*   max_loads    bound: graphs loaded in a behaviour
                \*   max_runs     bound: jobs of a behaviour
                \*   one_loader   graphs are loaded one at a time

Parts == {"text", "rodata", "stack", "static", "reuse"}

ASSUME SimulatorAssumption ==
    /\ Sizes \in [Parts -> Nat \ {0}]
    /\ {Align, Word} \subseteq Nat \ {0}
    /\ \A s \in Setups :
        /\ s.ctx \in [Graphs -> Contexts]
        /\ \A g, h \in Graphs : g # h /\ s.ctx[g] = s.ctx[h] => s.id[g] # s.id[h]
        /\ {s.max_loads, s.max_runs} \subseteq Nat
        /\ {s.old_arch, s.one_loader} \subseteq BOOLEAN

\* The parts in the order a load allocates them, then the data buffer that
\* holds stack, static and reuse sections
Order == <<"text", "rodata", "stack", "static", "reuse", "data">>
Position(p) == CHOOSE i \in DOMAIN Order : Order[i] = p

VARIABLE setup      \* what the application is like; never changes

Ctx == setup.ctx
Id == setup.id
OldArch == setup.old_arch
MaxLoads == setup.max_loads
MaxRuns == setup.max_runs
OneLoader == setup.one_loader
Dirs == {Dir[c] : c \in Contexts}

VARIABLES
    top,        \* simulation_malloc_top of each context
    wrapped,    \* history: a sum for some top has gone beyond a uint32_t
    entry,      \* graphs: the graph has an entry (simulation_res_t)
    outputs,    \* the outputs of the entry
    whole,      \* odata_whole_pa and odata_whole_size of the entry
    pa,         \* g, part -> address, of parts that have one
    size,       \* bytes of the data buffer, in pages
    tbuf,       \* the graph has its thread buffer
    handle,     \* the application has been given it
    job,        \* state of the graph's job
    glock,      \* holder of each context's glock
    cfgfile,    \* runtime.cfg of each directory: the job it was written for
    files,      \* the other files: name -> what is in it
    result,     \* what the last job found in its output files
    pc,         \* the next step of each thread
    run,        \* jobs the thread has run
    loads       \* counter for the bound

vars == <<setup, top, wrapped, entry, outputs, whole, pa, size, tbuf, handle,
          job, glock, cfgfile, files, result, pc, run, loads>>

memory == <<setup, top, wrapped, pa, size, loads>>
tables == <<entry, outputs, tbuf, handle>>
disk == <<cfgfile, files, result>>

NoPa == Word      \* above all addresses: the part has none

Init ==
    /\ setup \in Setups
    /\ top = [c \in Contexts |-> 0]
    /\ wrapped = FALSE
    /\ entry = [g \in Graphs |-> FALSE]
    /\ outputs \in [Graphs -> setup.output_sets]
    /\ whole = [g \in Graphs |-> [off |-> 0, size |-> 0]]
    /\ pa = [g \in Graphs |-> [p \in Parts |-> NoPa]]
    /\ size = [g \in Graphs |-> 0]
    /\ tbuf = [g \in Graphs |-> FALSE]
    /\ handle = [g \in Graphs |-> FALSE]
    /\ job = [g \in Graphs |-> "NONE"]
    /\ glock = [c \in Contexts |-> {}]
    /\ cfgfile = [d \in Dirs |-> {}]
    /\ files = [n \in {} |-> {}]
    /\ result = [g \in Graphs |-> {}]
    /\ pc = [g \in Graphs |-> "idle"]
    /\ run = [g \in Graphs |-> 0]
    /\ loads = 0

At(g, l) == pc[g] = l
Goto(g, l) == pc' = [pc EXCEPT ![g] = l]

-----------------------------------------------------------------------------
(* Graph::load: alloc_text_buffer, load_text_buffer,                        *)
(* simulation_alloc_data_buffer, simulation_set_io_info                     *)

\* get_aligned_addr, in pages: n counts up until the product, a uint32_t, is
\* not below.  When no n does that, the loop does not end.
Stops(a) == {n \in 0..(Word - 1) : (n * Align) % Word >= a}
Aligned(a) == (Min(Stops(a)) * Align) % Word
DataParts == {"stack", "static", "reuse"}
PartPa(p, t) == IF p \in DataParts THEN Aligned(t) ELSE t

LoadGraph(g) ==
    /\ At(g, "idle") /\ ~entry[g]
    /\ loads < MaxLoads
    /\ OneLoader => \A h \in Graphs : pc[h] \notin Parts \cup {"code", "data"}
    /\ loads' = loads + 1
    /\ Goto(g, "text")
    /\ UNCHANGED <<setup, top, wrapped, entry, outputs, whole, pa, size, tbuf,
                   handle, job, glock, disk, run>>

\* Read simulation_malloc_top: it is the address of the next part.
ReadTop(g) ==
    /\ \E p \in Parts : At(g, p) /\ pa[g][p] = NoPa
    /\ pc[g] \in DataParts => Stops(top[Ctx[g]]) # {}
    /\ pa' = [pa EXCEPT ![g][pc[g]] = PartPa(pc[g], top[Ctx[g]])]
    /\ UNCHANGED <<setup, top, wrapped, tables, whole, size, job, glock, disk,
                   pc, run, loads>>

Next1(p) == Order[Position(p) + 1]

\* Mutant: the top is left at the last page of the part.
TopAfterShort(g, p) == (pa[g][p] + Sizes[p] - 1) % Word

TopAfter(g, p) == (pa[g][p] + Sizes[p]) % Word

\* Write it back, and go on to the next part.
WriteTop(g) ==
    /\ \E p \in Parts : At(g, p) /\ pa[g][p] # NoPa
    /\ top' = [top EXCEPT ![Ctx[g]] = TopAfter(g, pc[g])]
    /\ wrapped' = (wrapped \/ pa[g][pc[g]] + Sizes[pc[g]] >= Word)
    /\ Goto(g, IF pc[g] = "text" THEN "code" ELSE Next1(pc[g]))
    /\ UNCHANGED <<setup, tables, whole, pa, size, job, glock, disk, run,
                   loads>>

\* A file's name: directory, what it is, graph id, address
Name(g, k) == <<Dir[Ctx[g]], k, Id[g], pa[g][IF k = "data" THEN "stack" ELSE k]>>
Write(n, v) == files' = [x \in DOMAIN files \cup {n} |-> IF x = n THEN v ELSE files[x]]

\* load_text_buffer writes the code to its file and makes the entry.
LoadText(g) ==
    /\ At(g, "code")
    /\ Write(Name(g, "text"), <<g, 0>>)
    /\ entry' = [entry EXCEPT ![g] = TRUE]
    /\ Goto(g, "rodata")
    /\ UNCHANGED <<memory, outputs, whole, tbuf, handle, job, glock, cfgfile,
                   result, run>>

\* The file cannot be written: the graph object is destroyed again, and
\* simulation_malloc_top stays where it is.  What there is of the file is never
\* read: a later load that comes to its name writes it anew.
LoadTextFails(g) ==
    /\ At(g, "code")
    /\ pa' = [pa EXCEPT ![g] = [p \in Parts |-> NoPa]]
    /\ Goto(g, "idle")
    /\ UNCHANGED <<setup, top, wrapped, size, loads, tables, whole, job, glock,
                   disk, run>>

\* The data buffer covers what lies between the stack and the top; malloc_buf
\* refuses a size of 0, which fails the load, and counts the pages once more.
\* Then the io info and the thread buffer.
DataSize(g) == (top[Ctx[g]] + Word - pa[g]["stack"]) % Word

AllocData(g) ==
    /\ At(g, "data")
    /\ LET ok == DataSize(g) # 0
       IN /\ tbuf' = [tbuf EXCEPT ![g] = ok]
          /\ entry' = [entry EXCEPT ![g] = ok]
          /\ pa' = IF ok THEN pa ELSE [pa EXCEPT ![g] = [p \in Parts |-> NoPa]]
    /\ size' = [size EXCEPT ![g] = DataSize(g)]
    /\ top' = [top EXCEPT ![Ctx[g]] = (@ + DataSize(g)) % Word]
    /\ wrapped' = (wrapped \/ top[Ctx[g]] + DataSize(g) >= Word)
    /\ Goto(g, "idle")
    /\ UNCHANGED <<setup, outputs, whole, handle, job, glock, disk, run, loads>>

-----------------------------------------------------------------------------
(* Thread buffer *)

\* alloc_thread_buffer only looks the buffer up.
AllocThreadBuffer(g) ==
    /\ At(g, "idle") /\ entry[g] /\ tbuf[g] /\ ~handle[g]
    /\ handle' = [handle EXCEPT ![g] = TRUE]
    /\ UNCHANGED <<memory, entry, outputs, whole, tbuf, job, glock, disk, pc,
                   run>>

\* free_thread_buffer: rodata, then simulation_free_data_buffer
FreeThreadBuffer(g) ==
    /\ At(g, "idle") /\ handle[g] /\ job[g] = "NONE"
    /\ tbuf' = [tbuf EXCEPT ![g] = FALSE]
    /\ handle' = [handle EXCEPT ![g] = FALSE]
    /\ size' = [size EXCEPT ![g] = 0]
    /\ UNCHANGED <<setup, top, wrapped, pa, loads, entry, outputs, whole, job,
                   glock, disk, pc, run>>

\* Graph::unload, which frees a thread buffer that is left, and
\* DeviceCtrl::unload_graph.  simulation_malloc_top does not come down.
UnloadGraph(g) ==
    /\ At(g, "idle") /\ entry[g] /\ job[g] = "NONE"
    /\ entry' = [entry EXCEPT ![g] = FALSE]
    /\ pa' = [pa EXCEPT ![g] = [p \in Parts |-> NoPa]]
    /\ tbuf' = [tbuf EXCEPT ![g] = FALSE]
    /\ handle' = [handle EXCEPT ![g] = FALSE]
    /\ size' = [size EXCEPT ![g] = 0]
    /\ UNCHANGED <<setup, top, wrapped, loads, outputs, whole, job, glock,
                   disk, pc, run>>

-----------------------------------------------------------------------------
(* schedule_job_on_aipu *)

BuildJob(g) ==
    /\ At(g, "idle") /\ handle[g] /\ job[g] = "NONE"
    /\ MapThenSumSet(LAMBDA h : run[h], Graphs) < MaxRuns
    /\ run' = [run EXCEPT ![g] = @ + 1]
    /\ job' = [job EXCEPT ![g] = "SCHED"]
    /\ Goto(g, "lock")
    /\ UNCHANGED <<memory, tables, whole, glock, disk>>

\* Mutant: jobs of one context run without the lock.
LockGlockNot(g) ==
    /\ At(g, "lock")
    /\ Goto(g, "w_rodata")
    /\ UNCHANGED <<memory, tables, whole, job, glock, disk, run>>

LockGlock(g) ==
    /\ At(g, "lock")
    /\ glock[Ctx[g]] = {}
    /\ glock' = [glock EXCEPT ![Ctx[g]] = {g}]
    /\ Goto(g, "w_rodata")
    /\ UNCHANGED <<memory, tables, whole, job, disk, run>>

WriteInputFile(g, k) == Write(Name(g, k), <<g, run[g]>>)

\* update_simulation_rtcfg: the two input files of the job, then runtime.cfg
UpdateRodata(g) ==
    /\ At(g, "w_rodata")
    /\ WriteInputFile(g, "rodata")
    /\ Goto(g, "w_data")
    /\ UNCHANGED <<memory, tables, whole, job, glock, cfgfile, result, run>>

UpdateData(g) ==
    /\ At(g, "w_data")
    /\ WriteInputFile(g, "data")
    /\ Goto(g, "w_cfg")
    /\ UNCHANGED <<memory, tables, whole, job, glock, cfgfile, result, run>>

\* The last of the tensors by address decides where the outputs end.
Lowest(o) == CHOOSE i \in DOMAIN o : \A k \in DOMAIN o : o[i].off <= o[k].off
Highest(o) == CHOOSE i \in DOMAIN o : \A k \in DOMAIN o : o[i].off >= o[k].off

\* odata_whole of update_simulation_rtcfg_z1_old_arch
OdataWhole(o) ==
    [off |-> o[Lowest(o)].off,
     size |-> o[Highest(o)].off + o[Highest(o)].size - o[Lowest(o)].off]

WriteCfg(g) ==
    /\ At(g, "w_cfg")
    /\ cfgfile' = [cfgfile EXCEPT ![Dir[Ctx[g]]] =
            {[text |-> Name(g, "text"), rodata |-> Name(g, "rodata"),
              data |-> Name(g, "data"), out |-> Name(g, "reuse")]}]
    /\ whole' = IF OldArch THEN [whole EXCEPT ![g] = OdataWhole(outputs[g])]
                ELSE whole
    /\ Goto(g, "system")
    /\ UNCHANGED <<memory, tables, job, glock, files, result, run>>

\* The simulator: it reads what runtime.cfg names and writes the outputs.
System(g) ==
    /\ At(g, "system")
    /\ \E c \in cfgfile[Dir[Ctx[g]]] :
        Write(c.out, {[k \in {"text", "rodata", "data"} |-> files[c[k]]]})
    /\ Goto(g, "outputs")
    /\ UNCHANGED <<memory, tables, whole, job, glock, cfgfile, result, run>>

\* The outputs are loaded from the file of this graph.
LoadOutputs(g) ==
    /\ At(g, "outputs")
    /\ Name(g, "reuse") \in DOMAIN files
    /\ result' = [result EXCEPT ![g] = files[Name(g, "reuse")]]
    /\ job' = [job EXCEPT ![g] = "DONE"]
    /\ Goto(g, "unlock")
    /\ UNCHANGED <<memory, tables, whole, glock, cfgfile, files, run>>

\* A file cannot be written, the simulator fails, or the output is missing.
JobException(g) ==
    /\ pc[g] \in {"w_rodata", "w_data", "w_cfg", "system", "outputs"}
    /\ job' = [job EXCEPT ![g] = "EXCEPTION"]
    /\ Goto(g, "unlock")
    /\ UNCHANGED <<memory, tables, whole, glock, disk, run>>

\* Mutant: the error path returns without the unlock.
UnlockGlockOnSuccess(g) ==
    /\ At(g, "unlock")
    /\ glock' = IF job[g] = "DONE" THEN [glock EXCEPT ![Ctx[g]] = {}] ELSE glock
    /\ Goto(g, "idle")
    /\ UNCHANGED <<memory, tables, whole, job, disk, run>>

UnlockGlock(g) ==
    /\ At(g, "unlock")
    /\ glock' = [glock EXCEPT ![Ctx[g]] = {}]
    /\ Goto(g, "idle")
    /\ UNCHANGED <<memory, tables, whole, job, disk, run>>

\* clean_job
CleanJob(g) ==
    /\ At(g, "idle") /\ job[g] \in {"DONE", "EXCEPTION"}
    /\ job' = [job EXCEPT ![g] = "NONE"]
    /\ UNCHANGED <<memory, tables, whole, glock, disk, pc, run>>

-----------------------------------------------------------------------------
Steps(g) ==
    \/ ReadTop(g) \/ WriteTop(g) \/ LoadText(g) \/ LoadTextFails(g) \/ AllocData(g)
    \/ LockGlock(g) \/ UpdateRodata(g) \/ UpdateData(g) \/ WriteCfg(g)
    \/ System(g) \/ LoadOutputs(g) \/ JobException(g) \/ UnlockGlock(g)

Calls(g) ==
    \/ LoadGraph(g) \/ AllocThreadBuffer(g) \/ FreeThreadBuffer(g)
    \/ UnloadGraph(g) \/ BuildJob(g) \/ CleanJob(g)

Next == \E g \in Graphs : Steps(g) \/ Calls(g)

Spec == Init /\ [][Next]_vars

\* A call that has begun goes on; the mutex is fair enough to be had in the
\* end by each of a finite number of jobs.
LiveSpec == Spec /\ \A g \in Graphs : WF_vars(Steps(g))

-----------------------------------------------------------------------------
(* What the promises below rest on: nothing in the library sees to it. *)

\* The graphs of a context are loaded one at a time: nothing keeps a second
\* load from reading simulation_malloc_top before the first has written it.
LoadersApart == \A s \in Setups :
    s.one_loader \/ \A g, h \in Graphs : g # h => s.ctx[g] # s.ctx[h]

\* Every context writes to a directory of its own: a file's name has the id of
\* the graph, which is unique in its context only.
OwnDirectories == \A c, d \in Contexts : c # d => Dir[c] # Dir[d]

\* The output tensors of a graph are different places.
TensorsApart == \A s \in Setups : \A o \in s.output_sets :
    /\ o \in Seq([off : Nat, size : Nat \ {0}])
    /\ \A i, k \in DOMAIN o : i # k =>
        o[i].off + o[i].size <= o[k].off \/ o[k].off + o[k].size <= o[i].off

-----------------------------------------------------------------------------
(* Properties *)

Area(a, n) == a..(a + n - 1)
Areas(g) ==
    {Area(pa[g]["text"], Sizes["text"]), Area(pa[g]["rodata"], Sizes["rodata"]),
     Area(pa[g]["stack"], size[g])}

\* Stack, static and reuse sections lie apart in the data buffer, so that
\* the addresses the application gets for tensors are inside it.
SectionsInData(g) ==
    /\ \A p \in {"stack", "static", "reuse"} :
        Area(pa[g][p], Sizes[p]) \subseteq Area(pa[g]["stack"], size[g])
    /\ pa[g]["stack"] + Sizes["stack"] <= pa[g]["static"]
    /\ pa[g]["static"] + Sizes["static"] <= pa[g]["reuse"]

\* The device memory of the graphs of a context, until simulation_malloc_top
\* has gone round its 4 GB: a graph's text, rodata and data lie apart, the data
\* buffer holds its sections, and everything lies apart from what every other
\* graph has.
GraphsDisjoint == ~wrapped =>
    /\ \A g \in Graphs : tbuf[g] => SectionsInData(g)
    /\ \A g, h \in Graphs : (Ctx[g] = Ctx[h] /\ tbuf[g] /\ tbuf[h]) =>
        \A a \in Areas(g), b \in Areas(h) : (g # h \/ a # b) => a \cap b = {}

\* A job that is done has the output of its own graph's code on its own
\* input, and on the old Z1 simulator what is loaded back covers every output
\* tensor.
ResultIsOwn == \A g \in Graphs : job[g] = "DONE" =>
    /\ result[g] = {[text |-> <<g, 0>>, rodata |-> <<g, run[g]>>, data |-> <<g, run[g]>>]}
    /\ OldArch => \A i \in DOMAIN outputs[g] :
        Area(outputs[g][i].off, outputs[g][i].size)
            \subseteq Area(whole[g].off, whole[g].size)

\* Every job that is flushed ends, DONE or EXCEPTION: also when the job
\* before it in the context failed.
JobsEnd == \A g \in Graphs : job[g] = "SCHED" ~> job[g] \in {"DONE", "EXCEPTION"}
=============================================================================
