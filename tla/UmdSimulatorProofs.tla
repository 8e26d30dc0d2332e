------------------------- MODULE UmdSimulatorProofs -------------------------
(***************************************************************************)
(* Proofs about the simulator build of DeviceCtrl, module UmdSimulator,    *)
(* for every number of graphs and contexts and every layout of the parts:  *)
(* graphs that are loaded one at a time lie apart (GraphsDisjoint) as long *)
(* as the addresses given away stay in 4 GB, and contexts that write to    *)
(* different directories give every job its own output (ResultIsOwn).      *)
(*                                                                         *)
(* Control says where in its calls a thread can be with what it has.  On   *)
(* top of it Memory says what lies below simulation_malloc_top while and   *)
(* after a graph is loaded, until a sum has wrapped, and Jobs what is in   *)
(* the files of a job at each step of its run.                             *)
(***************************************************************************)
EXTENDS UmdSimulator, TLAPS, FiniteSetTheorems

\* The places of a thread: in Graph::load, or between the lock and the unlock
Loading == Parts \cup {"code", "data"}
Locked == {"w_rodata", "w_data", "w_cfg", "system", "outputs", "unlock"}

\* Where a thread can be, and what its graph has there.
Control(g) ==
    /\ tbuf[g] => entry[g] /\ pc[g] \notin Loading
    /\ handle[g] => tbuf[g]
    /\ entry[g] => pc[g] \notin {"text", "code"}
    /\ pc[g] \in Loading \ {"text", "code"} => entry[g]
    /\ job[g] # "NONE" => handle[g]
    /\ pc[g] = "lock" \/ pc[g] \in Locked \ {"unlock"} => job[g] = "SCHED"
    /\ pc[g] = "unlock" => job[g] # "NONE"

\* The types of the variables that control uses.
ControlTypes ==
    /\ setup \in Setups
    /\ entry \in [Graphs -> BOOLEAN] /\ tbuf \in [Graphs -> BOOLEAN]
    /\ handle \in [Graphs -> BOOLEAN]
    /\ pc \in [Graphs -> Loading \cup Locked \cup {"idle", "lock"}]
    /\ job \in [Graphs -> {"NONE", "SCHED", "DONE", "EXCEPTION"}]
    /\ glock \in [Contexts -> SUBSET Graphs]
    /\ run \in [Graphs -> Nat]
    /\ outputs \in [Graphs -> setup.output_sets]
    /\ DOMAIN pa = Graphs /\ \A g \in Graphs : DOMAIN pa[g] = Parts
    /\ DOMAIN size = Graphs /\ DOMAIN whole = Graphs /\ DOMAIN result = Graphs
    /\ DOMAIN cfgfile = Dirs

ControlInv == ControlTypes /\ \A g \in Graphs : Control(g)

-----------------------------------------------------------------------------
(* Memory *)

Top(g) == top[Ctx[g]]
End(g, p) == pa[g][p] + Sizes[p]
DataEnd(g) == pa[g]["stack"] + size[g]

\* Parts a load has not come to have no address yet.
Unread(g) ==
    /\ pc[g] = "idle" /\ ~entry[g] => pa[g]["text"] = NoPa
    /\ (pc[g] = "idle" /\ ~entry[g]) \/ pc[g] \in {"text", "code"} =>
            pa[g]["rodata"] = NoPa
    /\ (pc[g] = "idle" /\ ~entry[g]) \/ pc[g] \in {"text", "code", "rodata"} =>
            pa[g]["stack"] = NoPa
    /\ (pc[g] = "idle" /\ ~entry[g]) \/ pc[g] \in {"text", "code", "rodata", "stack"} =>
            pa[g]["static"] = NoPa
    /\ (pc[g] = "idle" /\ ~entry[g])
            \/ pc[g] \in {"text", "code", "rodata", "stack", "static"} =>
            pa[g]["reuse"] = NoPa

\* What a load has put below the top, part after part; the part it is at is
\* above the top until the top is written back.
Climbs(g) ==
    /\ pc[g] \in Loading \ {"text"} => End(g, "text") <= Top(g)
    /\ pc[g] \in {"stack", "static", "reuse", "data"} =>
            End(g, "text") <= pa[g]["rodata"] /\ End(g, "rodata") <= Top(g)
    /\ pc[g] \in {"static", "reuse", "data"} =>
            End(g, "rodata") <= pa[g]["stack"] /\ End(g, "stack") <= Top(g)
    /\ pc[g] \in {"reuse", "data"} =>
            End(g, "stack") <= pa[g]["static"] /\ End(g, "static") <= Top(g)
    /\ pc[g] = "data" =>
            End(g, "static") <= pa[g]["reuse"] /\ End(g, "reuse") <= Top(g)
    /\ \A p \in Parts : pc[g] = p /\ pa[g][p] # NoPa => Top(g) <= pa[g][p]

\* A graph that is loaded: its parts one after the other, all below the top.
Stacked(g) ==
    /\ End(g, "text") <= pa[g]["rodata"] /\ End(g, "rodata") <= pa[g]["stack"]
    /\ End(g, "stack") <= pa[g]["static"] /\ End(g, "static") <= pa[g]["reuse"]
    /\ End(g, "reuse") <= DataEnd(g) /\ DataEnd(g) <= Top(g)

\* The load of h has its first address.
HasText(h) == pc[h] \in Loading /\ (pc[h] = "text" => pa[h]["text"] # NoPa)

\* Two graphs of a context: one lies below the other, and below one that is
\* being loaded.
Above(g, h) ==
    /\ tbuf[g] /\ HasText(h) => DataEnd(g) <= pa[h]["text"]
    /\ tbuf[g] /\ tbuf[h] => DataEnd(g) <= pa[h]["text"] \/ DataEnd(h) <= pa[g]["text"]

Memory ==
    /\ top \in [Contexts -> Nat] /\ size \in [Graphs -> Nat]
    /\ \A c \in Contexts : top[c] < Word
    /\ pa \in [Graphs -> [Parts -> Nat]]
    /\ \A g \in Graphs : Unread(g) /\ Climbs(g) /\ (tbuf[g] => Stacked(g))
    /\ \A g, h \in Graphs : g # h /\ Ctx[g] = Ctx[h] =>
        /\ pc[g] \notin Loading \/ pc[h] \notin Loading
        /\ Above(g, h)

-----------------------------------------------------------------------------
(* Jobs *)

\* The names a job of g uses.
Cfg(g) == [text |-> Name(g, "text"), rodata |-> Name(g, "rodata"),
           data |-> Name(g, "data"), out |-> Name(g, "reuse")]

\* What a job of g is to find in its output.
Own(g) == {[text |-> <<g, 0>>, rodata |-> <<g, run[g]>>, data |-> <<g, run[g]>>]}

Holds(n, v) == n \in DOMAIN files /\ files[n] = v

\* The lock, the files and the result of g at each step of its job.
Job(g) ==
    /\ pc[g] \in Locked => glock[Ctx[g]] = {g}
    /\ entry[g] => Holds(Name(g, "text"), <<g, 0>>)
    /\ pc[g] \in {"w_data", "w_cfg", "system"} => Holds(Name(g, "rodata"), <<g, run[g]>>)
    /\ pc[g] \in {"w_cfg", "system"} => Holds(Name(g, "data"), <<g, run[g]>>)
    /\ pc[g] = "system" => cfgfile[Dir[Ctx[g]]] = {Cfg(g)}
    /\ pc[g] = "outputs" => Holds(Name(g, "reuse"), Own(g))
    /\ job[g] = "DONE" => result[g] = Own(g)
    /\ OldArch /\ (pc[g] \in {"system", "outputs"} \/ job[g] = "DONE") =>
            whole[g] = OdataWhole(outputs[g])

Jobs == \A g \in Graphs : Job(g)

-----------------------------------------------------------------------------
(* Control: every step keeps it. *)

\* The order of the parts: Position finds each of them, Next1 its successor.
LEMMA NextPart ==
    /\ Next1("rodata") = "stack" /\ Next1("stack") = "static"
    /\ Next1("static") = "reuse" /\ Next1("reuse") = "data"
<1>1. /\ DOMAIN Order = 1 .. 6
      /\ Order[1] = "text" /\ Order[2] = "rodata" /\ Order[3] = "stack"
      /\ Order[4] = "static" /\ Order[5] = "reuse" /\ Order[6] = "data"
  BY DEF Order
<1>2. \A i \in 1 .. 6 : i \in {1, 2, 3, 4, 5, 6}
  OBVIOUS
<1>3. Position("rodata") = 2 /\ Position("stack") = 3
  BY <1>1, <1>2 DEF Position
<1>4. Position("static") = 4 /\ Position("reuse") = 5
  BY <1>1, <1>2 DEF Position
<1> QED  BY <1>1, <1>3, <1>4 DEF Next1

\* A load begins only where there is no entry.
LEMMA LoadGraphControl ==
    ASSUME ControlInv, NEW g \in Graphs, LoadGraph(g)
    PROVE  ControlInv'
<1>1. ControlTypes'
  BY DEF ControlInv, ControlTypes, Loading, Locked, Parts, Dirs,
         LoadGraph, At, Goto, memory, tables, disk
<1>2. ASSUME NEW h \in Graphs PROVE Control(h)'
  BY DEF ControlInv, ControlTypes, Control, Loading, Locked, Parts,
         LoadGraph, At, Goto, memory, tables, disk
<1> QED  BY <1>1, <1>2 DEF ControlInv

\* Reading the top changes no control.
LEMMA ReadTopControl ==
    ASSUME ControlInv, NEW g \in Graphs, ReadTop(g)
    PROVE  ControlInv'
<1>1. ControlTypes'
  BY DEF ControlInv, ControlTypes, Loading, Locked, Parts, Dirs,
         ReadTop, At, Goto, memory, tables, disk
<1>2. ASSUME NEW h \in Graphs PROVE Control(h)'
  BY DEF ControlInv, ControlTypes, Control, Loading, Locked, Parts,
         ReadTop, At, Goto, memory, tables, disk
<1> QED  BY <1>1, <1>2 DEF ControlInv

\* Writing it goes on to the next part.
LEMMA WriteTopControl ==
    ASSUME ControlInv, NEW g \in Graphs, WriteTop(g)
    PROVE  ControlInv'
<1>1. ControlTypes'
  BY NextPart DEF ControlInv, ControlTypes, Loading, Locked, Parts, Dirs,
         WriteTop, At, Goto, memory, tables, disk
<1>2. ASSUME NEW h \in Graphs PROVE Control(h)'
  BY NextPart DEF ControlInv, ControlTypes, Control, Loading, Locked, Parts,
         WriteTop, At, Goto, memory, tables, disk
<1> QED  BY <1>1, <1>2 DEF ControlInv

\* load_text_buffer makes the entry.
LEMMA LoadTextControl ==
    ASSUME ControlInv, NEW g \in Graphs, LoadText(g)
    PROVE  ControlInv'
<1>1. ControlTypes'
  BY DEF ControlInv, ControlTypes, Loading, Locked, Parts, Dirs,
         LoadText, At, Goto, memory, tables, disk
<1>2. ASSUME NEW h \in Graphs PROVE Control(h)'
  BY DEF ControlInv, ControlTypes, Control, Loading, Locked, Parts,
         LoadText, At, Goto, memory, tables, disk
<1> QED  BY <1>1, <1>2 DEF ControlInv

\* A load whose text cannot be written leaves the thread with nothing.
LEMMA LoadTextFailsControl ==
    ASSUME ControlInv, NEW g \in Graphs, LoadTextFails(g)
    PROVE  ControlInv'
<1>1. ControlTypes'
  BY DEF ControlInv, ControlTypes, Loading, Locked, Parts, Dirs,
         LoadTextFails, At, Goto, memory, tables, disk
<1>2. ASSUME NEW h \in Graphs PROVE Control(h)'
  BY DEF ControlInv, ControlTypes, Control, Loading, Locked, Parts,
         LoadTextFails, At, Goto, memory, tables, disk
<1> QED  BY <1>1, <1>2 DEF ControlInv

\* The end of a load.
LEMMA AllocDataControl ==
    ASSUME ControlInv, NEW g \in Graphs, AllocData(g)
    PROVE  ControlInv'
<1>1. ControlTypes'
  BY DEF ControlInv, ControlTypes, Loading, Locked, Parts, Dirs,
         AllocData, At, Goto, memory, tables, disk
<1>2. ASSUME NEW h \in Graphs PROVE Control(h)'
  BY DEF ControlInv, ControlTypes, Control, Loading, Locked, Parts,
         AllocData, At, Goto, memory, tables, disk
<1> QED  BY <1>1, <1>2 DEF ControlInv

\* The application is given the thread buffer.
LEMMA AllocThreadBufferControl ==
    ASSUME ControlInv, NEW g \in Graphs, AllocThreadBuffer(g)
    PROVE  ControlInv'
<1>1. ControlTypes'
  BY DEF ControlInv, ControlTypes, Loading, Locked, Parts, Dirs,
         AllocThreadBuffer, At, Goto, memory, tables, disk
<1>2. ASSUME NEW h \in Graphs PROVE Control(h)'
  BY DEF ControlInv, ControlTypes, Control, Loading, Locked, Parts,
         AllocThreadBuffer, At, Goto, memory, tables, disk
<1> QED  BY <1>1, <1>2 DEF ControlInv

\* It gives it back when no job is left.
LEMMA FreeThreadBufferControl ==
    ASSUME ControlInv, NEW g \in Graphs, FreeThreadBuffer(g)
    PROVE  ControlInv'
<1>1. ControlTypes'
  BY DEF ControlInv, ControlTypes, Loading, Locked, Parts, Dirs,
         FreeThreadBuffer, At, Goto, memory, tables, disk
<1>2. ASSUME NEW h \in Graphs PROVE Control(h)'
  BY DEF ControlInv, ControlTypes, Control, Loading, Locked, Parts,
         FreeThreadBuffer, At, Goto, memory, tables, disk
<1> QED  BY <1>1, <1>2 DEF ControlInv

\* The entry goes when no job is left.
LEMMA UnloadGraphControl ==
    ASSUME ControlInv, NEW g \in Graphs, UnloadGraph(g)
    PROVE  ControlInv'
<1>1. ControlTypes'
  BY DEF ControlInv, ControlTypes, Loading, Locked, Parts, Dirs,
         UnloadGraph, At, Goto, memory, tables, disk
<1>2. ASSUME NEW h \in Graphs PROVE Control(h)'
  BY DEF ControlInv, ControlTypes, Control, Loading, Locked, Parts,
         UnloadGraph, At, Goto, memory, tables, disk
<1> QED  BY <1>1, <1>2 DEF ControlInv

\* A job is made for a thread buffer.
LEMMA BuildJobControl ==
    ASSUME ControlInv, NEW g \in Graphs, BuildJob(g)
    PROVE  ControlInv'
<1>1. ControlTypes'
  BY DEF ControlInv, ControlTypes, Loading, Locked, Parts, Dirs,
         BuildJob, At, Goto, memory, tables, disk
<1>2. ASSUME NEW h \in Graphs PROVE Control(h)'
  BY DEF ControlInv, ControlTypes, Control, Loading, Locked, Parts,
         BuildJob, At, Goto, memory, tables, disk
<1> QED  BY <1>1, <1>2 DEF ControlInv

\* The job gets the lock.
LEMMA LockGlockControl ==
    ASSUME ControlInv, NEW g \in Graphs, LockGlock(g)
    PROVE  ControlInv'
<1>1. ControlTypes'
  BY DEF ControlInv, ControlTypes, Loading, Locked, Parts, Dirs,
         LockGlock, At, Goto, memory, tables, disk
<1>2. ASSUME NEW h \in Graphs PROVE Control(h)'
  BY DEF ControlInv, ControlTypes, Control, Loading, Locked, Parts,
         LockGlock, At, Goto, memory, tables, disk
<1> QED  BY <1>1, <1>2 DEF ControlInv

\* The first input file.
LEMMA UpdateRodataControl ==
    ASSUME ControlInv, NEW g \in Graphs, UpdateRodata(g)
    PROVE  ControlInv'
<1>1. ControlTypes'
  BY DEF ControlInv, ControlTypes, Loading, Locked, Parts, Dirs,
         UpdateRodata, At, Goto, memory, tables, disk
<1>2. ASSUME NEW h \in Graphs PROVE Control(h)'
  BY DEF ControlInv, ControlTypes, Control, Loading, Locked, Parts,
         UpdateRodata, At, Goto, memory, tables, disk
<1> QED  BY <1>1, <1>2 DEF ControlInv

\* The second input file.
LEMMA UpdateDataControl ==
    ASSUME ControlInv, NEW g \in Graphs, UpdateData(g)
    PROVE  ControlInv'
<1>1. ControlTypes'
  BY DEF ControlInv, ControlTypes, Loading, Locked, Parts, Dirs,
         UpdateData, At, Goto, memory, tables, disk
<1>2. ASSUME NEW h \in Graphs PROVE Control(h)'
  BY DEF ControlInv, ControlTypes, Control, Loading, Locked, Parts,
         UpdateData, At, Goto, memory, tables, disk
<1> QED  BY <1>1, <1>2 DEF ControlInv

\* runtime.cfg.
LEMMA WriteCfgControl ==
    ASSUME ControlInv, NEW g \in Graphs, WriteCfg(g)
    PROVE  ControlInv'
<1>1. ControlTypes'
  BY DEF ControlInv, ControlTypes, Loading, Locked, Parts, Dirs,
         WriteCfg, At, Goto, memory, tables, disk
<1>2. ASSUME NEW h \in Graphs PROVE Control(h)'
  BY DEF ControlInv, ControlTypes, Control, Loading, Locked, Parts,
         WriteCfg, At, Goto, memory, tables, disk
<1> QED  BY <1>1, <1>2 DEF ControlInv

\* The simulator.
LEMMA SystemControl ==
    ASSUME ControlInv, NEW g \in Graphs, System(g)
    PROVE  ControlInv'
<1>1. ControlTypes'
  BY DEF ControlInv, ControlTypes, Loading, Locked, Parts, Dirs,
         System, At, Goto, memory, tables, disk
<1>2. ASSUME NEW h \in Graphs PROVE Control(h)'
  BY DEF ControlInv, ControlTypes, Control, Loading, Locked, Parts,
         System, At, Goto, memory, tables, disk
<1> QED  BY <1>1, <1>2 DEF ControlInv

\* The job is done.
LEMMA LoadOutputsControl ==
    ASSUME ControlInv, NEW g \in Graphs, LoadOutputs(g)
    PROVE  ControlInv'
<1>1. ControlTypes'
  BY DEF ControlInv, ControlTypes, Loading, Locked, Parts, Dirs,
         LoadOutputs, At, Goto, memory, tables, disk
<1>2. ASSUME NEW h \in Graphs PROVE Control(h)'
  BY DEF ControlInv, ControlTypes, Control, Loading, Locked, Parts,
         LoadOutputs, At, Goto, memory, tables, disk
<1> QED  BY <1>1, <1>2 DEF ControlInv

\* The job failed.
LEMMA JobExceptionControl ==
    ASSUME ControlInv, NEW g \in Graphs, JobException(g)
    PROVE  ControlInv'
<1>1. ControlTypes'
  BY DEF ControlInv, ControlTypes, Loading, Locked, Parts, Dirs,
         JobException, At, Goto, memory, tables, disk
<1>2. ASSUME NEW h \in Graphs PROVE Control(h)'
  BY DEF ControlInv, ControlTypes, Control, Loading, Locked, Parts,
         JobException, At, Goto, memory, tables, disk
<1> QED  BY <1>1, <1>2 DEF ControlInv

\* The lock is given back.
LEMMA UnlockGlockControl ==
    ASSUME ControlInv, NEW g \in Graphs, UnlockGlock(g)
    PROVE  ControlInv'
<1>1. ControlTypes'
  BY DEF ControlInv, ControlTypes, Loading, Locked, Parts, Dirs,
         UnlockGlock, At, Goto, memory, tables, disk
<1>2. ASSUME NEW h \in Graphs PROVE Control(h)'
  BY DEF ControlInv, ControlTypes, Control, Loading, Locked, Parts,
         UnlockGlock, At, Goto, memory, tables, disk
<1> QED  BY <1>1, <1>2 DEF ControlInv

\* The job is forgotten.
LEMMA CleanJobControl ==
    ASSUME ControlInv, NEW g \in Graphs, CleanJob(g)
    PROVE  ControlInv'
<1>1. ControlTypes'
  BY DEF ControlInv, ControlTypes, Loading, Locked, Parts, Dirs,
         CleanJob, At, Goto, memory, tables, disk
<1>2. ASSUME NEW h \in Graphs PROVE Control(h)'
  BY DEF ControlInv, ControlTypes, Control, Loading, Locked, Parts,
         CleanJob, At, Goto, memory, tables, disk
<1> QED  BY <1>1, <1>2 DEF ControlInv

\* Every step keeps Control.
LEMMA ControlNext ==
    ASSUME ControlInv, [Next]_vars
    PROVE  ControlInv'
<1>1. CASE UNCHANGED vars
  BY <1>1 DEF vars, ControlInv, ControlTypes, Control, Dirs
<1>2. ASSUME NEW g \in Graphs, Steps(g) PROVE ControlInv'
  BY <1>2, ReadTopControl, WriteTopControl, LoadTextControl,
         LoadTextFailsControl, AllocDataControl, LockGlockControl,
         UpdateRodataControl, UpdateDataControl, WriteCfgControl,
         SystemControl, LoadOutputsControl, JobExceptionControl,
         UnlockGlockControl
     DEF Steps
<1>3. ASSUME NEW g \in Graphs, Calls(g) PROVE ControlInv'
  BY <1>3, LoadGraphControl, AllocThreadBufferControl, FreeThreadBufferControl,
     UnloadGraphControl, BuildJobControl, CleanJobControl DEF Calls
<1> QED  BY <1>1, <1>2, <1>3 DEF Next

\* A behaviour begins with idle threads that have nothing.
LEMMA ControlInit ==
    ASSUME Init
    PROVE  ControlInv
<1>1. ControlTypes
  BY DEF Init, ControlTypes, Parts
<1>2. ASSUME NEW g \in Graphs PROVE Control(g)
  BY DEF Init, Control, Loading, Locked, Parts
<1> QED  BY <1>1, <1>2 DEF ControlInv

-----------------------------------------------------------------------------
(* What a step of one thread leaves alone of another. *)

Keeps(h) ==
    /\ setup' = setup
    /\ pc'[h] = pc[h] /\ job'[h] = job[h] /\ run'[h] = run[h]
    /\ entry'[h] = entry[h] /\ outputs'[h] = outputs[h] /\ pa'[h] = pa[h]
    /\ result'[h] = result[h] /\ whole'[h] = whole[h]
    /\ tbuf'[h] = tbuf[h] /\ size'[h] = size[h]

\* A thread changes the state of its own graph and job only.
LEMMA ForeignKeeps ==
    ASSUME ControlInv, NEW g \in Graphs, NEW h \in Graphs, g # h,
           Steps(g) \/ Calls(g)
    PROVE  Keeps(h)
<1> USE DEF ControlInv, ControlTypes, Keeps, At, Goto, memory, tables, disk
<1>1. CASE ReadTop(g)
  BY <1>1 DEF ReadTop
<1>2. CASE WriteTop(g)
  BY <1>2 DEF WriteTop
<1>3. CASE LoadText(g)
  BY <1>3 DEF LoadText
<1>4. CASE AllocData(g)
  BY <1>4 DEF AllocData
<1>5. CASE LockGlock(g)
  BY <1>5 DEF LockGlock
<1>6. CASE UpdateRodata(g)
  BY <1>6 DEF UpdateRodata
<1>7. CASE UpdateData(g)
  BY <1>7 DEF UpdateData
<1>8. CASE WriteCfg(g)
  BY <1>8 DEF WriteCfg
<1>9. CASE System(g)
  BY <1>9 DEF System
<1>10. CASE LoadOutputs(g)
  BY <1>10 DEF LoadOutputs
<1>11. CASE JobException(g)
  BY <1>11 DEF JobException
<1>12. CASE UnlockGlock(g)
  BY <1>12 DEF UnlockGlock
<1>13. CASE LoadGraph(g)
  BY <1>13 DEF LoadGraph
<1>14. CASE AllocThreadBuffer(g)
  BY <1>14 DEF AllocThreadBuffer
<1>15. CASE FreeThreadBuffer(g)
  BY <1>15 DEF FreeThreadBuffer
<1>16. CASE UnloadGraph(g)
  BY <1>16 DEF UnloadGraph
<1>17. CASE BuildJob(g)
  BY <1>17 DEF BuildJob
<1>18. CASE CleanJob(g)
  BY <1>18 DEF CleanJob
<1>19. CASE LoadTextFails(g)
  BY <1>19 DEF LoadTextFails
<1> QED  BY <1>1, <1>2, <1>3, <1>4, <1>5, <1>6, <1>7, <1>8, <1>9, <1>10, <1>11,
         <1>12, <1>13, <1>14, <1>15, <1>16, <1>17, <1>18, <1>19
     DEF Steps, Calls

\* The context of a graph, and its directory.
LEMMA ContextOf ==
    ASSUME ControlTypes, NEW g \in Graphs
    PROVE  Ctx[g] \in Contexts /\ Dir[Ctx[g]] \in Dirs
BY SimulatorAssumption DEF ControlTypes, Ctx, Dirs

\* Files of different graphs have different names: they differ in the id, or
\* in the directory.
LEMMA NamesApart ==
    ASSUME OwnDirectories, ControlTypes, NEW g \in Graphs, NEW h \in Graphs,
           g # h, NEW k, NEW m
    PROVE  Name(g, k) # Name(h, m)
<1>1. Ctx[g] \in Contexts /\ Ctx[h] \in Contexts
  BY ContextOf
<1>2. Ctx[g] # Ctx[h] \/ Id[g] # Id[h]
  BY SimulatorAssumption DEF ControlTypes, Ctx, Id
<1>3. Dir[Ctx[g]] # Dir[Ctx[h]] \/ Id[g] # Id[h]
  BY <1>1, <1>2 DEF OwnDirectories
<1> QED  BY <1>3 DEF Name

\* So have the files of a graph.
LEMMA KindsApart ==
    ASSUME NEW g \in Graphs, NEW k, NEW m, k # m
    PROVE  Name(g, k) # Name(g, m)
BY DEF Name

\* Writing a file leaves the others as they are.
LEMMA WriteEffect ==
    ASSUME NEW n, NEW v, Write(n, v)
    PROVE  /\ n \in DOMAIN files' /\ files'[n] = v
           /\ \A x \in DOMAIN files : x # n =>
                x \in DOMAIN files' /\ files'[x] = files[x]
BY DEF Write

KeepsFiles(h) == \A k : Name(h, k) \in DOMAIN files =>
    Name(h, k) \in DOMAIN files' /\ files'[Name(h, k)] = files[Name(h, k)]

\* A thread writes to files of its own graph only, the simulator too: it takes
\* their names from the runtime.cfg of the job that holds the lock.
LEMMA ForeignFiles ==
    ASSUME OwnDirectories, ControlInv, Jobs, NEW g \in Graphs, NEW h \in Graphs,
           g # h, Steps(g) \/ Calls(g)
    PROVE  KeepsFiles(h)
<1>0. ASSUME NEW k, NEW v, Write(Name(g, k), v) PROVE KeepsFiles(h)
  BY <1>0, NamesApart, WriteEffect DEF KeepsFiles, ControlInv
<1> USE DEF KeepsFiles, memory, tables, disk
<1>1. CASE ReadTop(g)
  BY <1>1 DEF ReadTop
<1>2. CASE WriteTop(g)
  BY <1>2 DEF WriteTop
<1>3. CASE LoadText(g)
  BY <1>3, <1>0 DEF LoadText
<1>4. CASE AllocData(g)
  BY <1>4 DEF AllocData
<1>5. CASE LockGlock(g)
  BY <1>5 DEF LockGlock
<1>6. CASE UpdateRodata(g)
  BY <1>6, <1>0 DEF UpdateRodata, WriteInputFile
<1>7. CASE UpdateData(g)
  BY <1>7, <1>0 DEF UpdateData, WriteInputFile
<1>8. CASE WriteCfg(g)
  BY <1>8 DEF WriteCfg
<1>9. CASE System(g)
  <2>1. cfgfile[Dir[Ctx[g]]] = {Cfg(g)}
    BY <1>9 DEF System, At, Jobs, Job
  <2>2. \E v : Write(Name(g, "reuse"), v)
    BY <1>9, <2>1 DEF System, Cfg
  <2> QED  BY <2>2, <1>0
<1>10. CASE LoadOutputs(g)
  BY <1>10 DEF LoadOutputs
<1>11. CASE JobException(g)
  BY <1>11 DEF JobException
<1>12. CASE UnlockGlock(g)
  BY <1>12 DEF UnlockGlock
<1>13. CASE LoadGraph(g)
  BY <1>13 DEF LoadGraph
<1>14. CASE AllocThreadBuffer(g)
  BY <1>14 DEF AllocThreadBuffer
<1>15. CASE FreeThreadBuffer(g)
  BY <1>15 DEF FreeThreadBuffer
<1>16. CASE UnloadGraph(g)
  BY <1>16 DEF UnloadGraph
<1>17. CASE BuildJob(g)
  BY <1>17 DEF BuildJob
<1>18. CASE CleanJob(g)
  BY <1>18 DEF CleanJob
<1>19. CASE LoadTextFails(g)
  BY <1>19 DEF LoadTextFails
<1> QED  BY <1>1, <1>2, <1>3, <1>4, <1>5, <1>6, <1>7, <1>8, <1>9, <1>10, <1>11,
         <1>12, <1>13, <1>14, <1>15, <1>16, <1>17, <1>18, <1>19
     DEF Steps, Calls

\* Two jobs of one context are not both between lock and unlock.
LEMMA LockedApart ==
    ASSUME Jobs, NEW g \in Graphs, NEW h \in Graphs, g # h,
           pc[g] \in Locked, pc[h] \in Locked
    PROVE  Ctx[g] # Ctx[h]
BY DEF Jobs, Job

\* A thread does not take the lock from the job that has it.
LEMMA ForeignLock ==
    ASSUME ControlInv, Jobs, NEW g \in Graphs, NEW h \in Graphs, g # h,
           Steps(g) \/ Calls(g), pc[h] \in Locked
    PROVE  glock'[Ctx[h]] = glock[Ctx[h]]
<1> USE DEF memory, tables, disk
<1>1. CASE ReadTop(g)
  BY <1>1 DEF ReadTop
<1>2. CASE WriteTop(g)
  BY <1>2 DEF WriteTop
<1>3. CASE LoadText(g)
  BY <1>3 DEF LoadText
<1>4. CASE AllocData(g)
  BY <1>4 DEF AllocData
<1>5. CASE LockGlock(g)
  <2>1. glock[Ctx[g]] = {} /\ glock[Ctx[h]] = {h}
    BY <1>5 DEF LockGlock, Jobs, Job
  <2> QED  BY <1>5, <2>1, ContextOf DEF LockGlock, ControlInv, ControlTypes
<1>6. CASE UpdateRodata(g)
  BY <1>6 DEF UpdateRodata
<1>7. CASE UpdateData(g)
  BY <1>7 DEF UpdateData
<1>8. CASE WriteCfg(g)
  BY <1>8 DEF WriteCfg
<1>9. CASE System(g)
  BY <1>9 DEF System
<1>10. CASE LoadOutputs(g)
  BY <1>10 DEF LoadOutputs
<1>11. CASE JobException(g)
  BY <1>11 DEF JobException
<1>12. CASE UnlockGlock(g)
  <2>1. pc[g] \in Locked
    BY <1>12 DEF UnlockGlock, At, Locked
  <2> QED  BY <1>12, <2>1, LockedApart, ContextOf
           DEF UnlockGlock, ControlInv, ControlTypes
<1>13. CASE LoadGraph(g)
  BY <1>13 DEF LoadGraph
<1>14. CASE AllocThreadBuffer(g)
  BY <1>14 DEF AllocThreadBuffer
<1>15. CASE FreeThreadBuffer(g)
  BY <1>15 DEF FreeThreadBuffer
<1>16. CASE UnloadGraph(g)
  BY <1>16 DEF UnloadGraph
<1>17. CASE BuildJob(g)
  BY <1>17 DEF BuildJob
<1>18. CASE CleanJob(g)
  BY <1>18 DEF CleanJob
<1>19. CASE LoadTextFails(g)
  BY <1>19 DEF LoadTextFails
<1> QED  BY <1>1, <1>2, <1>3, <1>4, <1>5, <1>6, <1>7, <1>8, <1>9, <1>10, <1>11,
         <1>12, <1>13, <1>14, <1>15, <1>16, <1>17, <1>18, <1>19
     DEF Steps, Calls

\* Nor does it write the runtime.cfg of a job that runs.
LEMMA ForeignCfg ==
    ASSUME OwnDirectories, ControlInv, Jobs, NEW g \in Graphs, NEW h \in Graphs,
           g # h, Steps(g) \/ Calls(g), pc[h] \in Locked
    PROVE  cfgfile'[Dir[Ctx[h]]] = cfgfile[Dir[Ctx[h]]]
<1> USE DEF memory, tables, disk
<1>1. CASE ReadTop(g)
  BY <1>1 DEF ReadTop
<1>2. CASE WriteTop(g)
  BY <1>2 DEF WriteTop
<1>3. CASE LoadText(g)
  BY <1>3 DEF LoadText
<1>4. CASE AllocData(g)
  BY <1>4 DEF AllocData
<1>5. CASE LockGlock(g)
  BY <1>5 DEF LockGlock
<1>6. CASE UpdateRodata(g)
  BY <1>6 DEF UpdateRodata
<1>7. CASE UpdateData(g)
  BY <1>7 DEF UpdateData
<1>8. CASE WriteCfg(g)
  <2>1. pc[g] \in Locked
    BY <1>8 DEF WriteCfg, At, Locked
  <2>2. Dir[Ctx[g]] # Dir[Ctx[h]]
    BY <2>1, LockedApart, ContextOf DEF OwnDirectories, ControlInv
  <2> QED  BY <1>8, <2>2, ContextOf DEF WriteCfg, ControlInv, ControlTypes
<1>9. CASE System(g)
  BY <1>9 DEF System
<1>10. CASE LoadOutputs(g)
  BY <1>10 DEF LoadOutputs
<1>11. CASE JobException(g)
  BY <1>11 DEF JobException
<1>12. CASE UnlockGlock(g)
  BY <1>12 DEF UnlockGlock
<1>13. CASE LoadGraph(g)
  BY <1>13 DEF LoadGraph
<1>14. CASE AllocThreadBuffer(g)
  BY <1>14 DEF AllocThreadBuffer
<1>15. CASE FreeThreadBuffer(g)
  BY <1>15 DEF FreeThreadBuffer
<1>16. CASE UnloadGraph(g)
  BY <1>16 DEF UnloadGraph
<1>17. CASE BuildJob(g)
  BY <1>17 DEF BuildJob
<1>18. CASE CleanJob(g)
  BY <1>18 DEF CleanJob
<1>19. CASE LoadTextFails(g)
  BY <1>19 DEF LoadTextFails
<1> QED  BY <1>1, <1>2, <1>3, <1>4, <1>5, <1>6, <1>7, <1>8, <1>9, <1>10, <1>11,
         <1>12, <1>13, <1>14, <1>15, <1>16, <1>17, <1>18, <1>19
     DEF Steps, Calls

\* The place of the outputs depends on the output tensors only.
LEMMA WholeFrame ==
    ASSUME NEW g \in Graphs, outputs'[g] = outputs[g]
    PROVE  OdataWhole(outputs[g])' = OdataWhole(outputs[g])
BY DEF OdataWhole, Lowest, Highest

\* A step that leaves a job and its files alone, and under the lock also the
\* lock and runtime.cfg, keeps what is said of the job.
LEMMA JobFrame ==
    ASSUME NEW h \in Graphs, Job(h), Keeps(h), KeepsFiles(h),
           pc[h] \in Locked => /\ glock'[Ctx[h]] = glock[Ctx[h]]
                              /\ cfgfile'[Dir[Ctx[h]]] = cfgfile[Dir[Ctx[h]]]
    PROVE  Job(h)'
<1>1. Keeps(h)
  OBVIOUS
<1>2. KeepsFiles(h)
  OBVIOUS
<1>3. \A k : Name(h, k)' = Name(h, k)
  BY <1>1 DEF Keeps, Name, Ctx, Id
<1>4. Job(h)
  OBVIOUS
<1>5. pc[h] \in Locked => glock'[Ctx[h]] = {h}
  BY <1>4 DEF Job
<1>6. pc[h] = "system" => cfgfile'[Dir[Ctx[h]]] = {Cfg(h)}
  BY <1>4 DEF Job, Locked
<1>7. ASSUME NEW k, NEW v, Holds(Name(h, k), v)
      PROVE  Name(h, k) \in DOMAIN files' /\ files'[Name(h, k)] = v
  BY <1>7, <1>2 DEF Holds, KeepsFiles
<1>8. Cfg(h)' = Cfg(h) /\ Own(h)' = Own(h)
  BY <1>1, <1>3 DEF Cfg, Own, Keeps
<1>9. (pc[h] \in Locked => glock[Ctx[h]] = {h})'
  BY <1>1, <1>5 DEF Keeps, Ctx
<1>10. (entry[h] => Holds(Name(h, "text"), <<h, 0>>))'
  BY <1>1, <1>3, <1>4, <1>7 DEF Keeps, Job, Holds
<1>11. (pc[h] \in {"w_data", "w_cfg", "system"} => Holds(Name(h, "rodata"), <<h, run[h]>>))'
  BY <1>1, <1>3, <1>4, <1>7 DEF Keeps, Job, Holds
<1>12. (pc[h] \in {"w_cfg", "system"} => Holds(Name(h, "data"), <<h, run[h]>>))'
  BY <1>1, <1>3, <1>4, <1>7 DEF Keeps, Job, Holds
<1>13. (pc[h] = "system" => cfgfile[Dir[Ctx[h]]] = {Cfg(h)})'
  BY <1>1, <1>6, <1>8 DEF Keeps, Ctx
<1>14. (pc[h] = "outputs" => Holds(Name(h, "reuse"), Own(h)))'
  BY <1>1, <1>3, <1>4, <1>7, <1>8 DEF Keeps, Job, Holds
<1>15. (job[h] = "DONE" => result[h] = Own(h))'
  BY <1>1, <1>4, <1>8 DEF Keeps, Job
<1>16. (OldArch /\ (pc[h] \in {"system", "outputs"} \/ job[h] = "DONE") =>
            whole[h] = OdataWhole(outputs[h]))'
  BY <1>1, <1>4, WholeFrame DEF Keeps, Job, OldArch
<1> QED  BY <1>9, <1>10, <1>11, <1>12, <1>13, <1>14, <1>15, <1>16 DEF Job

\* So the job of another thread stays as it is.
LEMMA ForeignJob ==
    ASSUME OwnDirectories, ControlInv, Jobs, NEW g \in Graphs, NEW h \in Graphs,
           g # h, Steps(g) \/ Calls(g)
    PROVE  Job(h)'
<1>1. Job(h)
  BY DEF Jobs
<1> QED  BY <1>1, JobFrame, ForeignKeeps, ForeignFiles, ForeignLock, ForeignCfg

-----------------------------------------------------------------------------
(* Jobs: the steps of the thread itself. *)

\* A step that writes no file and does not bring the job further.
LEMMA OwnQuiet ==
    ASSUME NEW g \in Graphs, Job(g),
           setup' = setup, pa'[g] = pa[g], UNCHANGED <<disk, glock>>,
           run'[g] = run[g], whole'[g] = whole[g], outputs'[g] = outputs[g],
           entry'[g] => entry[g],
           pc'[g] \in Locked => pc[g] \in Locked,
           pc'[g] \notin {"w_data", "w_cfg", "system", "outputs"},
           job'[g] = "DONE" => job[g] = "DONE"
    PROVE  Job(g)'
<1>1. \A k : Name(g, k)' = Name(g, k)
  BY DEF Name, Ctx, Id
<1>2. Own(g)' = Own(g)
  BY DEF Own
<1>3. (pc[g] \in Locked => glock[Ctx[g]] = {g})'
  BY DEF Job, Ctx
<1>4. (entry[g] => Holds(Name(g, "text"), <<g, 0>>))'
  BY <1>1 DEF Job, Holds, disk
<1>5. (job[g] = "DONE" => result[g] = Own(g))'
  BY <1>2 DEF Job, disk
<1>6. (OldArch /\ (pc[g] \in {"system", "outputs"} \/ job[g] = "DONE") =>
            whole[g] = OdataWhole(outputs[g]))'
  BY WholeFrame DEF Job, OldArch
<1> QED  BY <1>3, <1>4, <1>5, <1>6 DEF Job

\* The steps of a load and of the thread buffer, and the ends of a job.
LEMMA QuietJob ==
    ASSUME ControlInv, Jobs, NEW g \in Graphs,
           \/ LoadGraph(g) \/ WriteTop(g) \/ AllocThreadBuffer(g)
           \/ FreeThreadBuffer(g) \/ JobException(g) \/ CleanJob(g)
    PROVE  Job(g)'
<1>0. Job(g)
  BY DEF Jobs
<1> USE DEF ControlInv, ControlTypes, At, Goto, memory, tables, Locked
<1>1. CASE LoadGraph(g)
  BY <1>0, <1>1, OwnQuiet DEF LoadGraph
<1>2. CASE WriteTop(g)
  BY <1>0, <1>2, OwnQuiet, NextPart DEF WriteTop, Parts
<1>3. CASE AllocThreadBuffer(g)
  BY <1>0, <1>3, OwnQuiet DEF AllocThreadBuffer
<1>4. CASE FreeThreadBuffer(g)
  BY <1>0, <1>4, OwnQuiet DEF FreeThreadBuffer
<1>5. CASE JobException(g)
  BY <1>0, <1>5, OwnQuiet DEF JobException
<1>6. CASE CleanJob(g)
  BY <1>0, <1>6, OwnQuiet DEF CleanJob
<1> QED  BY <1>1, <1>2, <1>3, <1>4, <1>5, <1>6

\* A thread that loads has no job.
LEMMA NoJobInLoad ==
    ASSUME ControlInv, NEW g \in Graphs, pc[g] \in Loading
    PROVE  job[g] = "NONE"
BY DEF ControlInv, Control

\* Reading the top gives an address to a part whose file is not written yet.
LEMMA ReadTopJob ==
    ASSUME ControlInv, Jobs, NEW g \in Graphs, ReadTop(g)
    PROVE  Job(g)'
<1>1. /\ pc[g] \in Parts /\ pc' = pc /\ job' = job /\ setup' = setup
      /\ entry' = entry /\ UNCHANGED disk
      /\ \A p \in Parts : p # pc[g] => pa'[g][p] = pa[g][p]
  BY DEF ReadTop, At, ControlInv, ControlTypes, tables
<1>2. job'[g] = "NONE" /\ pc'[g] \notin Locked
  BY <1>1, NoJobInLoad DEF Loading, Parts, Locked
<1>3. entry[g] => pa'[g]["text"] = pa[g]["text"]
  BY <1>1 DEF ControlInv, Control, Parts
<1>4. (entry[g] => Holds(Name(g, "text"), <<g, 0>>))'
  BY <1>1, <1>3 DEF Jobs, Job, Holds, Name, Ctx, Id, disk
<1> QED  BY <1>2, <1>4 DEF Job, Locked

\* load_text_buffer writes the file that the entry promises.
LEMMA LoadTextJob ==
    ASSUME ControlInv, Jobs, NEW g \in Graphs, LoadText(g)
    PROVE  Job(g)'
<1>1. /\ pc[g] = "code" /\ pc'[g] = "rodata" /\ job' = job
      /\ pa' = pa /\ setup' = setup
      /\ Write(Name(g, "text"), <<g, 0>>)
  BY DEF LoadText, At, Goto, ControlInv, ControlTypes, memory
<1>2. job'[g] = "NONE"
  BY <1>1, NoJobInLoad DEF Loading
<1>3. Holds(Name(g, "text"), <<g, 0>>)'
  BY <1>1, WriteEffect DEF Holds, Name, Ctx, Id
<1> QED  BY <1>1, <1>2, <1>3 DEF Job, Locked

\* An entry that is gone promises nothing.
LEMMA UnloadGraphJob ==
    ASSUME ControlInv, Jobs, NEW g \in Graphs, UnloadGraph(g)
    PROVE  Job(g)'
<1>1. /\ pc[g] = "idle" /\ pc' = pc /\ ~entry'[g]
      /\ job[g] = "NONE" /\ job' = job
  BY DEF UnloadGraph, At, ControlInv, ControlTypes
<1> QED  BY <1>1 DEF Job, Locked

\* So for a load that fails at its text.
LEMMA LoadTextFailsJob ==
    ASSUME ControlInv, Jobs, NEW g \in Graphs, LoadTextFails(g)
    PROVE  Job(g)'
<1>1. /\ pc[g] = "code" /\ pc'[g] = "idle" /\ entry' = entry /\ job' = job
  BY DEF LoadTextFails, At, Goto, ControlInv, ControlTypes, tables
<1>2. ~entry'[g] /\ job'[g] = "NONE"
  BY <1>1, NoJobInLoad DEF ControlInv, Control, Loading
<1> QED  BY <1>1, <1>2 DEF Job, Locked

\* The end of a load keeps the entry and its text, or gives both up.
LEMMA AllocDataJob ==
    ASSUME ControlInv, Jobs, NEW g \in Graphs, AllocData(g)
    PROVE  Job(g)'
<1>1. /\ pc[g] = "data" /\ pc'[g] = "idle" /\ job' = job
      /\ setup' = setup /\ UNCHANGED disk
      /\ entry'[g] => pa' = pa
  BY DEF AllocData, At, Goto, ControlInv, ControlTypes
<1>2. job'[g] = "NONE" /\ entry[g]
  BY <1>1, NoJobInLoad DEF ControlInv, Control, Loading
<1>3. (entry[g] => Holds(Name(g, "text"), <<g, 0>>))'
  BY <1>1, <1>2 DEF Jobs, Job, Holds, Name, Ctx, Id, disk
<1> QED  BY <1>1, <1>2, <1>3 DEF Job, Locked

\* A new job: the text file is there from the load.
LEMMA BuildJobJob ==
    ASSUME ControlInv, Jobs, NEW g \in Graphs, BuildJob(g)
    PROVE  Job(g)'
<1>1. /\ pc'[g] = "lock" /\ job'[g] = "SCHED"
      /\ pa' = pa /\ setup' = setup /\ entry' = entry /\ UNCHANGED disk
  BY DEF BuildJob, At, Goto, ControlInv, ControlTypes, memory, tables
<1>2. (entry[g] => Holds(Name(g, "text"), <<g, 0>>))'
  BY <1>1 DEF Jobs, Job, Holds, Name, Ctx, Id, disk
<1> QED  BY <1>1, <1>2 DEF Job, Locked

\* The lock.
LEMMA LockGlockJob ==
    ASSUME ControlInv, Jobs, NEW g \in Graphs, LockGlock(g)
    PROVE  Job(g)'
<1>1. /\ pc[g] = "lock" /\ pc'[g] = "w_rodata" /\ job' = job
      /\ pa' = pa /\ setup' = setup /\ entry' = entry /\ UNCHANGED disk
  BY DEF LockGlock, At, Goto, ControlInv, ControlTypes, memory, tables
<1>2. job'[g] = "SCHED"
  BY <1>1 DEF ControlInv, Control
<1>3. (glock[Ctx[g]] = {g})'
  BY <1>1, ContextOf DEF LockGlock, ControlInv, ControlTypes, Ctx
<1>4. (entry[g] => Holds(Name(g, "text"), <<g, 0>>))'
  BY <1>1 DEF Jobs, Job, Holds, Name, Ctx, Id, disk
<1> QED  BY <1>1, <1>2, <1>3, <1>4 DEF Job

\* The unlock ends what holds only under the lock.
LEMMA UnlockGlockJob ==
    ASSUME ControlInv, Jobs, NEW g \in Graphs, UnlockGlock(g)
    PROVE  Job(g)'
<1>1. /\ pc'[g] = "idle" /\ job' = job /\ run' = run /\ whole' = whole
      /\ pa' = pa /\ setup' = setup /\ UNCHANGED <<disk, tables>>
  BY DEF UnlockGlock, At, Goto, ControlInv, ControlTypes, memory, tables
<1>2. (entry[g] => Holds(Name(g, "text"), <<g, 0>>))'
  BY <1>1 DEF Jobs, Job, Holds, Name, Ctx, Id, disk, tables
<1>3. (job[g] = "DONE" => result[g] = Own(g))'
  BY <1>1 DEF Jobs, Job, Own, disk
<1>4. (OldArch /\ job[g] = "DONE" => whole[g] = OdataWhole(outputs[g]))'
  <2>1. outputs'[g] = outputs[g]
    BY <1>1 DEF tables
  <2> QED  BY <1>1, <2>1, WholeFrame DEF Jobs, Job, OldArch
<1> QED  BY <1>1, <1>2, <1>3, <1>4 DEF Job, Locked

\* The first input file.  Writing it leaves the text file alone.
LEMMA UpdateRodataJob ==
    ASSUME ControlInv, Jobs, NEW g \in Graphs, UpdateRodata(g)
    PROVE  Job(g)'
<1>1. /\ pc[g] = "w_rodata" /\ pc'[g] = "w_data" /\ UNCHANGED <<memory, tables>>
      /\ job' = job /\ run' = run /\ glock' = glock
      /\ Write(Name(g, "rodata"), <<g, run[g]>>)
  BY DEF UpdateRodata, WriteInputFile, At, Goto, ControlInv, ControlTypes
<1>2. \A k : Name(g, k)' = Name(g, k)
  BY <1>1 DEF Name, Ctx, Id, memory
<1>3. job'[g] = "SCHED" /\ glock'[Ctx[g]] = {g} /\ Ctx' = Ctx
  BY <1>1 DEF ControlInv, Control, Jobs, Job, Locked, Ctx, memory
<1>4. (entry[g] => Holds(Name(g, "text"), <<g, 0>>))'
  BY <1>1, <1>2, WriteEffect, KindsApart DEF Jobs, Job, Holds, tables
<1>5. Holds(Name(g, "rodata"), <<g, run[g]>>)'
  BY <1>1, <1>2, WriteEffect DEF Holds
<1> QED  BY <1>1, <1>3, <1>4, <1>5 DEF Job

\* The second input file.
LEMMA UpdateDataJob ==
    ASSUME ControlInv, Jobs, NEW g \in Graphs, UpdateData(g)
    PROVE  Job(g)'
<1>1. /\ pc[g] = "w_data" /\ pc'[g] = "w_cfg" /\ UNCHANGED <<memory, tables>>
      /\ job' = job /\ run' = run /\ glock' = glock
      /\ Write(Name(g, "data"), <<g, run[g]>>)
  BY DEF UpdateData, WriteInputFile, At, Goto, ControlInv, ControlTypes
<1>2. \A k : Name(g, k)' = Name(g, k)
  BY <1>1 DEF Name, Ctx, Id, memory
<1>3. job'[g] = "SCHED" /\ glock'[Ctx[g]] = {g} /\ Ctx' = Ctx
  BY <1>1 DEF ControlInv, Control, Jobs, Job, Locked, Ctx, memory
<1>4. (entry[g] => Holds(Name(g, "text"), <<g, 0>>))'
  BY <1>1, <1>2, WriteEffect, KindsApart DEF Jobs, Job, Holds, tables
<1>5. Holds(Name(g, "rodata"), <<g, run[g]>>)'
  BY <1>1, <1>2, WriteEffect, KindsApart DEF Jobs, Job, Holds
<1>6. Holds(Name(g, "data"), <<g, run[g]>>)'
  BY <1>1, <1>2, WriteEffect DEF Holds
<1> QED  BY <1>1, <1>3, <1>4, <1>5, <1>6 DEF Job

\* runtime.cfg names the files of this job, and the old simulator learns where
\* the outputs are.
LEMMA WriteCfgJob ==
    ASSUME ControlInv, Jobs, NEW g \in Graphs, WriteCfg(g)
    PROVE  Job(g)'
<1>1. /\ pc[g] = "w_cfg" /\ pc'[g] = "system" /\ UNCHANGED <<memory, tables>>
      /\ job' = job /\ run' = run /\ glock' = glock /\ files' = files
  BY DEF WriteCfg, At, Goto, ControlInv, ControlTypes
<1>2. \A k : Name(g, k)' = Name(g, k)
  BY <1>1 DEF Name, Ctx, Id, memory
<1>3. job'[g] = "SCHED" /\ glock'[Ctx[g]] = {g} /\ Ctx' = Ctx /\ OldArch' = OldArch
  BY <1>1 DEF ControlInv, Control, Jobs, Job, Locked, Ctx, OldArch, memory
<1>4. (entry[g] => Holds(Name(g, "text"), <<g, 0>>))'
  BY <1>1, <1>2 DEF Jobs, Job, Holds, tables
<1>5. Holds(Name(g, "rodata"), <<g, run[g]>>)' /\ Holds(Name(g, "data"), <<g, run[g]>>)'
  BY <1>1, <1>2 DEF Jobs, Job, Holds
<1>6. (cfgfile[Dir[Ctx[g]]] = {Cfg(g)})'
  <2>1. Cfg(g)' = Cfg(g)
    BY <1>2 DEF Cfg
  <2>2. cfgfile'[Dir[Ctx[g]]] = {Cfg(g)}
    BY ContextOf DEF WriteCfg, ControlInv, ControlTypes, Cfg
  <2> QED  BY <1>3, <2>1, <2>2
<1>7. (OldArch => whole[g] = OdataWhole(outputs[g]))'
  <2>1. OldArch => whole'[g] = OdataWhole(outputs[g])
    BY DEF WriteCfg, ControlInv, ControlTypes
  <2>2. outputs'[g] = outputs[g]
    BY <1>1 DEF tables
  <2> QED  BY <1>3, <2>1, <2>2, WholeFrame
<1> QED  BY <1>1, <1>3, <1>4, <1>5, <1>6, <1>7 DEF Job

\* The simulator reads the three inputs of this job and writes its output.
LEMMA SystemJob ==
    ASSUME ControlInv, Jobs, NEW g \in Graphs, System(g)
    PROVE  Job(g)'
<1>1. /\ pc[g] = "system" /\ pc'[g] = "outputs" /\ UNCHANGED <<memory, tables>>
      /\ job' = job /\ run' = run /\ glock' = glock /\ whole' = whole
  BY DEF System, At, Goto, ControlInv, ControlTypes
<1>2. \A k : Name(g, k)' = Name(g, k)
  BY <1>1 DEF Name, Ctx, Id, memory
<1>3. /\ job'[g] = "SCHED" /\ glock'[Ctx[g]] = {g} /\ Ctx' = Ctx /\ OldArch' = OldArch
      /\ entry[g]
  BY <1>1 DEF ControlInv, Control, Jobs, Job, Locked, Ctx, OldArch, memory
<1>4. /\ files[Name(g, "text")] = <<g, 0>> /\ files[Name(g, "rodata")] = <<g, run[g]>>
      /\ files[Name(g, "data")] = <<g, run[g]>> /\ cfgfile[Dir[Ctx[g]]] = {Cfg(g)}
  BY <1>1, <1>3 DEF Jobs, Job, Holds
<1>5. [k \in {"text", "rodata", "data"} |-> files[Cfg(g)[k]]]
        = [text |-> <<g, 0>>, rodata |-> <<g, run[g]>>, data |-> <<g, run[g]>>]
  BY <1>4 DEF Cfg
<1>6. Write(Name(g, "reuse"), Own(g))
  <2>1. Write(Cfg(g).out, {[k \in {"text", "rodata", "data"} |-> files[Cfg(g)[k]]]})
    BY <1>4 DEF System
  <2>2. Cfg(g).out = Name(g, "reuse")
    BY DEF Cfg
  <2> QED  BY <1>5, <2>1, <2>2 DEF Own
<1>7. (entry[g] => Holds(Name(g, "text"), <<g, 0>>))'
  BY <1>1, <1>2, <1>6, WriteEffect, KindsApart DEF Jobs, Job, Holds, tables
<1>8. Holds(Name(g, "reuse"), Own(g))'
  BY <1>1, <1>2, <1>6, WriteEffect DEF Holds, Own
<1>9. (OldArch => whole[g] = OdataWhole(outputs[g]))'
  <2>1. outputs'[g] = outputs[g]
    BY <1>1 DEF tables
  <2> QED  BY <1>1, <1>3, <2>1, WholeFrame DEF Jobs, Job
<1> QED  BY <1>1, <1>3, <1>7, <1>8, <1>9 DEF Job

\* The job takes its output from its own file.
LEMMA LoadOutputsJob ==
    ASSUME ControlInv, Jobs, NEW g \in Graphs, LoadOutputs(g)
    PROVE  Job(g)'
<1>1. /\ pc[g] = "outputs" /\ pc'[g] = "unlock" /\ UNCHANGED <<memory, tables>>
      /\ run' = run /\ glock' = glock /\ whole' = whole /\ files' = files
      /\ result'[g] = files[Name(g, "reuse")]
  BY DEF LoadOutputs, At, Goto, ControlInv, ControlTypes
<1>2. \A k : Name(g, k)' = Name(g, k)
  BY <1>1 DEF Name, Ctx, Id, memory
<1>3. glock'[Ctx[g]] = {g} /\ Ctx' = Ctx /\ OldArch' = OldArch
  BY <1>1 DEF Jobs, Job, Locked, Ctx, OldArch, memory
<1>4. (entry[g] => Holds(Name(g, "text"), <<g, 0>>))'
  BY <1>1, <1>2 DEF Jobs, Job, Holds, tables
<1>5. (result[g] = Own(g))'
  BY <1>1 DEF Jobs, Job, Holds, Own
<1>6. (OldArch => whole[g] = OdataWhole(outputs[g]))'
  <2>1. outputs'[g] = outputs[g]
    BY <1>1 DEF tables
  <2> QED  BY <1>1, <1>3, <2>1, WholeFrame DEF Jobs, Job
<1> QED  BY <1>1, <1>3, <1>4, <1>5, <1>6 DEF Job

\* Every step keeps Jobs.
LEMMA JobsNext ==
    ASSUME OwnDirectories, ControlInv, Jobs, [Next]_vars
    PROVE  Jobs'
<1>1. CASE UNCHANGED vars
  BY <1>1, JobFrame DEF vars, Jobs, Keeps, KeepsFiles
<1>2. ASSUME NEW g \in Graphs, Steps(g) \/ Calls(g) PROVE Jobs'
  <2>1. Job(g)'
    BY <1>2, QuietJob, ReadTopJob, LoadTextJob, LoadTextFailsJob, AllocDataJob,
       UnloadGraphJob, BuildJobJob,
       LockGlockJob, UnlockGlockJob, UpdateRodataJob, UpdateDataJob,
       WriteCfgJob, SystemJob, LoadOutputsJob DEF Steps, Calls
  <2>2. ASSUME NEW h \in Graphs, g # h PROVE Job(h)'
    BY <1>2, <2>2, ForeignJob
  <2> QED  BY <2>1, <2>2 DEF Jobs
<1> QED  BY <1>1, <1>2 DEF Next

\* At the beginning there is no entry and no job.
LEMMA JobsInit ==
    ASSUME Init
    PROVE  Jobs
BY DEF Init, Jobs, Job, Locked

-----------------------------------------------------------------------------
(* The outputs of the old simulator. *)

\* Finitely many numbers have a least.
LEMMA LeastOf ==
    ASSUME NEW n \in Nat \ {0}, NEW f \in [1 .. n -> Int]
    PROVE  \E i \in 1 .. n : \A k \in 1 .. n : f[i] <= f[k]
<1> DEFINE Below(i) == {k \in 1 .. n : f[k] < f[i]}
           R == StrictSubsetOrdering(1 .. n)
           F == FiniteSubsetsOf(1 .. n)
           I == {Below(i) : i \in 1 .. n}
<1>1. IsFiniteSet(1 .. n)
  BY FS_Interval
<1>2. IsWellFoundedOn(R, F)
  BY FS_StrictSubsetOrderingWellFounded
<1>3. I \subseteq F
  BY <1>1, FS_Subset DEF FiniteSubsetsOf
<1>4. I # {}
  <2>1. 1 \in 1 .. n
    OBVIOUS
  <2>2. Below(1) \in I
    BY <2>1
  <2> HIDE DEF I
  <2> QED  BY <2>2
<1>5. PICK X \in I : \A Y \in I : <<Y, X>> \notin R
  <2> HIDE DEF I, F, R
  <2> QED  BY <1>2, <1>3, <1>4, WFMin
<1>6. PICK i \in 1 .. n : X = Below(i)
  OBVIOUS
<1>7. ASSUME NEW k \in 1 .. n, f[k] < f[i] PROVE FALSE
  <2>1. f[k] \in Int /\ f[i] \in Int
    OBVIOUS
  <2>2. k \in Below(i) /\ k \notin Below(k)
    BY <1>7, <2>1
  <2>3. ASSUME NEW j \in Below(k) PROVE j \in Below(i)
    <3>1. j \in 1 .. n /\ f[j] < f[k] /\ f[j] \in Int
      OBVIOUS
    <3> QED  BY <1>7, <2>1, <3>1
  <2>4. Below(k) \in SUBSET (1 .. n) /\ Below(i) \in SUBSET (1 .. n)
    OBVIOUS
  <2>5. Below(k) \in I
    OBVIOUS
  <2> HIDE DEF Below, I
  <2>6. Below(k) \subseteq Below(i) /\ Below(k) # Below(i)
    BY <2>2, <2>3
  <2>7. <<Below(k), Below(i)>> \in R
    BY <2>4, <2>6 DEF StrictSubsetOrdering
  <2> QED  BY <1>5, <1>6, <2>5, <2>7
<1>8. \A k \in 1 .. n : f[k] \in Int
  OBVIOUS
<1>9. \A k \in 1 .. n : f[i] <= f[k]
  BY <1>7, <1>8
<1> QED  BY <1>9

\* And a greatest.
LEMMA GreatestOf ==
    ASSUME NEW n \in Nat \ {0}, NEW f \in [1 .. n -> Int]
    PROVE  \E i \in 1 .. n : \A k \in 1 .. n : f[i] >= f[k]
<1>1. \A k \in 1 .. n : f[k] \in Int
  OBVIOUS
<1>2. PICK e \in [1 .. n -> Int] : \A k \in 1 .. n : e[k] = 0 - f[k]
  <2>1. [k \in 1 .. n |-> 0 - f[k]] \in [1 .. n -> Int]
    BY <1>1
  <2> QED  BY <2>1
<1>3. PICK i \in 1 .. n : \A k \in 1 .. n : e[i] <= e[k]
  BY LeastOf
<1>4. \A k \in 1 .. n : f[i] >= f[k]
  BY <1>1, <1>2, <1>3
<1> QED  BY <1>4

\* odata_whole runs from the lowest tensor to the end of the highest: tensors
\* that are different places lie inside.
LEMMA WholeCovers ==
    ASSUME NEW o \in Seq([off : Nat, size : Nat \ {0}]),
           \A i, k \in DOMAIN o : i # k =>
             o[i].off + o[i].size <= o[k].off \/ o[k].off + o[k].size <= o[i].off,
           NEW t \in DOMAIN o
    PROVE  Area(o[t].off, o[t].size)
             \subseteq Area(OdataWhole(o).off, OdataWhole(o).size)
<1>1. PICK n \in Nat \ {0} : DOMAIN o = 1 .. n
  <2>1. DOMAIN o = 1 .. Len(o) /\ Len(o) \in Nat
    OBVIOUS
  <2>2. Len(o) # 0
    BY <2>1
  <2> QED  BY <2>1, <2>2
<1>2. \A i \in 1 .. n : o[i].off \in Nat /\ o[i].size \in Nat /\ o[i].size # 0
  <2>1. \A i \in DOMAIN o : o[i] \in [off : Nat, size : Nat \ {0}]
    <3> DEFINE T == [off : Nat, size : Nat \ {0}]
    <3>1. o \in Seq(T)
      OBVIOUS
    <3> HIDE DEF T
    <3>2. \A i \in DOMAIN o : o[i] \in T
      BY <3>1
    <3> QED  BY <3>2 DEF T
  <2> QED  BY <1>1, <2>1
<1>3. PICK f \in [1 .. n -> Int] : \A i \in 1 .. n : o[i].off = f[i]
  <2>1. [i \in 1 .. n |-> o[i].off] \in [1 .. n -> Int]
    BY <1>2
  <2> QED  BY <2>1
<1>4. /\ Lowest(o) \in 1 .. n
      /\ \A k \in 1 .. n : o[Lowest(o)].off <= o[k].off
  <2>1. PICK i \in 1 .. n : \A k \in 1 .. n : f[i] <= f[k]
    BY LeastOf
  <2>2. \A k \in 1 .. n : o[i].off <= o[k].off
    BY <1>3, <2>1
  <2> QED  BY <1>1, <2>2 DEF Lowest
<1>5. /\ Highest(o) \in 1 .. n
      /\ \A k \in 1 .. n : o[Highest(o)].off >= o[k].off
  <2>1. PICK i \in 1 .. n : \A k \in 1 .. n : f[i] >= f[k]
    BY GreatestOf
  <2>2. \A k \in 1 .. n : o[i].off >= o[k].off
    BY <1>3, <2>1
  <2> QED  BY <1>1, <2>2 DEF Highest
<1>6. PICK lo \in 1 .. n : lo = Lowest(o)
  BY <1>4
<1>7. PICK hi \in 1 .. n : hi = Highest(o)
  BY <1>5
<1>8. t \in 1 .. n /\ o[lo].off <= o[t].off /\ o[t].off <= o[hi].off
  BY <1>1, <1>2, <1>4, <1>5, <1>6, <1>7
<1>9. t # hi => \/ o[t].off + o[t].size <= o[hi].off
                \/ o[hi].off + o[hi].size <= o[t].off
  BY <1>1, <1>8
<1>10. /\ OdataWhole(o).off = o[lo].off
       /\ OdataWhole(o).size = o[hi].off + o[hi].size - o[lo].off
  BY <1>6, <1>7 DEF OdataWhole
<1>11. PICK a, b, c, d, e \in Nat :
         /\ a = o[lo].off /\ b = o[t].off /\ c = o[hi].off
         /\ d = o[t].size /\ e = o[hi].size
  BY <1>2, <1>8
<1>12. e # 0 /\ a <= b /\ b <= c /\ (t = hi => d = e /\ b = c)
  BY <1>2, <1>8, <1>11
<1>13. t # hi => b + d <= c \/ c + e <= b
  BY <1>9, <1>11
<1>14. b + d <= c + e
  BY <1>12, <1>13
<1>15. a + (c + e - a) - 1 = c + e - 1
  OBVIOUS
<1>16. b .. (b + d - 1) \subseteq a .. (a + (c + e - a) - 1)
  BY <1>12, <1>14, <1>15
<1> QED  BY <1>10, <1>11, <1>16 DEF Area

\* Every job that is done, in whichever order the threads of however many graphs
\* run, has the output of its own graph on its own input, and the old simulator
\* loads back every output tensor: schedule_job_on_aipu under glock, for
\* contexts that write to directories of their own.
THEOREM ResultIsOwnEver ==
    OwnDirectories /\ TensorsApart => (Spec => []ResultIsOwn)
<1> SUFFICES ASSUME OwnDirectories, TensorsApart
             PROVE  Spec => []ResultIsOwn
  OBVIOUS
<1>1. Init => ControlInv /\ Jobs
  BY ControlInit, JobsInit
<1>2. ControlInv /\ Jobs /\ [Next]_vars => ControlInv' /\ Jobs'
  BY ControlNext, JobsNext
<1>3. ControlInv /\ Jobs => ResultIsOwn
  <2> SUFFICES ASSUME ControlInv, Jobs, NEW g \in Graphs, job[g] = "DONE"
               PROVE  /\ result[g] = Own(g)
                      /\ OldArch => \A i \in DOMAIN outputs[g] :
                            Area(outputs[g][i].off, outputs[g][i].size)
                              \subseteq Area(whole[g].off, whole[g].size)
    BY DEF ResultIsOwn, Own
  <2>1. result[g] = Own(g) /\ (OldArch => whole[g] = OdataWhole(outputs[g]))
    BY DEF Jobs, Job
  <2>2. outputs[g] \in setup.output_sets /\ setup \in Setups
    BY DEF ControlInv, ControlTypes
  <2>3. ASSUME NEW i \in DOMAIN outputs[g]
        PROVE  Area(outputs[g][i].off, outputs[g][i].size)
                 \subseteq Area(OdataWhole(outputs[g]).off, OdataWhole(outputs[g]).size)
    BY <2>2, WholeCovers DEF TensorsApart
  <2> QED  BY <2>1, <2>3
<1> QED  BY <1>1, <1>2, <1>3, PTL DEF Spec

-----------------------------------------------------------------------------
(* Memory. *)

\* A set of naturals that is not empty has a least member.
LEMMA LeastNat ==
    ASSUME NEW T, T \subseteq Nat, T # {}
    PROVE  \E x \in T : \A y \in T : x <= y
<1> DEFINE Shorter == StrictSubsetOrdering(Nat)
           Starts == {1 .. n : n \in T}
<1>1. Starts \subseteq FiniteSubsetsOf(Nat)
  <2>1. \A n \in Nat : IsFiniteSet(1 .. n)
    BY FS_Interval
  <2> QED  BY <2>1 DEF FiniteSubsetsOf
<1>2. Starts # {}
  OBVIOUS
<1>3. PICK X \in Starts : \A Y \in Starts : <<Y, X>> \notin Shorter
  <2>1. IsWellFoundedOn(Shorter, FiniteSubsetsOf(Nat))
    BY FS_StrictSubsetOrderingWellFounded
  <2> HIDE DEF Starts, Shorter
  <2> QED  BY <1>1, <1>2, <2>1, WFMin
<1>4. PICK x \in T : X = 1 .. x
  OBVIOUS
<1>5. ASSUME NEW y \in T, y < x PROVE FALSE
  <2>1. 1 .. y \subseteq 1 .. x /\ x \in 1 .. x /\ x \notin 1 .. y
    BY <1>5
  <2>2. <<1 .. y, 1 .. x>> \in Shorter
    BY <2>1 DEF StrictSubsetOrdering
  <2> QED  BY <1>3, <1>4, <2>2
<1> QED  BY <1>5

\* Sums and differences that fit are exact.
LEMMA SmallMod ==
    ASSUME NEW x \in Nat, NEW A \in Nat \ {0}, x < A
    PROVE  x % A = x /\ (x + A) % A = x
OBVIOUS

\* get_aligned_addr does not go down, when its loop ends.
LEMMA AlignedAbove ==
    ASSUME NEW a \in Nat, Stops(a) # {}
    PROVE  Aligned(a) \in Nat /\ a <= Aligned(a)
<1>1. Align \in Nat /\ Word \in Nat \ {0}
  BY SimulatorAssumption
<1>0. Stops(a) \subseteq Nat
  <2>1. Stops(a) \subseteq 0 .. (Word - 1)
    BY DEF Stops
  <2>2. 0 .. (Word - 1) \subseteq Nat
    OBVIOUS
  <2> QED  BY <2>1, <2>2
<1>2. PICK n \in Stops(a) : \A m \in Stops(a) : n <= m
  BY <1>0, LeastNat
<1>3. Min(Stops(a)) \in Stops(a)
  BY <1>2 DEF Min
<1>4. PICK k \in Nat : k = Min(Stops(a))
  BY <1>0, <1>3
<1>5. a <= ((k * Align) % Word)
  BY <1>3, <1>4 DEF Stops
<1>6. k * Align \in Nat
  BY <1>1
<1>7. ((k * Align) % Word) \in Nat
  BY <1>1, <1>6
<1> QED  BY <1>4, <1>5, <1>7 DEF Aligned

\* The address of a part is not below the top it is taken from.
LEMMA PartPaAbove ==
    ASSUME NEW t \in Nat, NEW p, p \in DataParts => Stops(t) # {}
    PROVE  PartPa(p, t) \in Nat /\ t <= PartPa(p, t)
BY AlignedAbove DEF PartPa

\* What Memory says of one graph, and of two.
Solid(g) == Unread(g) /\ Climbs(g) /\ (tbuf[g] => Stacked(g))
Pair(g, h) == g # h /\ Ctx[g] = Ctx[h] =>
    /\ pc[g] \notin Loading \/ pc[h] \notin Loading
    /\ Above(g, h)
MemoryTypes ==
    /\ top \in [Contexts -> Nat] /\ size \in [Graphs -> Nat]
    /\ \A c \in Contexts : top[c] < Word
    /\ pa \in [Graphs -> [Parts -> Nat]]

\* Memory is made of these.
LEMMA MemoryParts ==
    Memory <=> /\ MemoryTypes
               /\ \A g \in Graphs : Solid(g)
               /\ \A g, h \in Graphs : Pair(g, h)
BY DEF Memory, MemoryTypes, Solid, Pair

\* What is known of every graph: the sizes of its parts and its numbers.
LEMMA MemoryNat ==
    ASSUME ControlInv, MemoryTypes, NEW g \in Graphs
    PROVE  /\ Ctx[g] \in Contexts /\ Top(g) \in Nat /\ size[g] \in Nat
           /\ \A p \in Parts : pa[g][p] \in Nat /\ Sizes[p] \in Nat /\ 1 <= Sizes[p]
           /\ {"text", "rodata", "stack", "static", "reuse"} \subseteq Parts
<1>1. Ctx[g] \in Contexts
  BY ContextOf DEF ControlInv
<1>2. \A p \in Parts : Sizes[p] \in Nat /\ 1 <= Sizes[p]
  BY SimulatorAssumption
<1> QED  BY <1>1, <1>2 DEF MemoryTypes, Top, Parts

\* While a graph loads, no other thread of its context moves the top, and no
\* thread ever lowers it.
TopMoves(g) ==
    /\ top' \in [Contexts -> Nat] /\ \A c \in Contexts : top'[c] < Word
    /\ \A c \in Contexts : top[c] <= top'[c]
    /\ \A c \in Contexts : c # Ctx[g] \/ pc[g] \notin Loading => top'[c] = top[c]

\* A step that leaves the top alone moves it nowhere.
LEMMA TopStays ==
    ASSUME MemoryTypes, NEW g \in Graphs, top' = top
    PROVE  TopMoves(g)
BY DEF TopMoves, MemoryTypes

\* Writing the top back puts it above the part, when it fits.
LEMMA WriteTopMoves ==
    ASSUME ControlInv, Memory, NEW g \in Graphs, WriteTop(g), ~wrapped'
    PROVE  /\ TopMoves(g)
           /\ top' = [top EXCEPT ![Ctx[g]] = End(g, pc[g])]
<1>1. PICK p \in Parts : pc[g] = p /\ pa[g][p] # NoPa
  BY DEF WriteTop, At
<1>2. /\ top' = [top EXCEPT ![Ctx[g]] = (End(g, p) % Word)]
      /\ wrapped' = (wrapped \/ End(g, p) >= Word)
  BY <1>1 DEF WriteTop, TopAfter, End
<1>3. Top(g) <= pa[g][p]
  BY <1>1 DEF Memory, Climbs
<1>4. /\ Ctx[g] \in Contexts /\ Top(g) \in Nat /\ pa[g][p] \in Nat /\ Sizes[p] \in Nat
      /\ MemoryTypes /\ Word \in Nat \ {0}
  BY MemoryNat, MemoryParts, SimulatorAssumption
<1>5. pc[g] \in Loading
  BY <1>1 DEF Loading
<1>6. End(g, p) \in Nat /\ top[Ctx[g]] <= End(g, p)
  BY <1>3, <1>4 DEF Top, End
<1>7. ~(End(g, p) >= Word)
  BY <1>2
<1>8. End(g, p) < Word
  BY <1>4, <1>6, <1>7
<1>9. (End(g, p) % Word) = End(g, p)
  BY <1>4, <1>6, <1>8, SmallMod
<1>10. top' = [top EXCEPT ![Ctx[g]] = End(g, p)]
  BY <1>2, <1>9
<1>11. TopMoves(g)
  BY <1>4, <1>5, <1>6, <1>8, <1>10 DEF TopMoves, MemoryTypes
<1> QED  BY <1>1, <1>10, <1>11

\* malloc_buf is not refused, and counts the pages of the data buffer once more.
LEMMA AllocDataMoves ==
    ASSUME ControlInv, Memory, NEW g \in Graphs, AllocData(g), ~wrapped'
    PROVE  /\ TopMoves(g) /\ size' = [size EXCEPT ![g] = Top(g) - pa[g]["stack"]]
           /\ Top(g) - pa[g]["stack"] \in Nat /\ DataSize(g) # 0
<1>1. /\ pc[g] = "data" /\ pc[g] \in Loading
      /\ size' = [size EXCEPT ![g] = DataSize(g)]
      /\ top' = [top EXCEPT ![Ctx[g]] = ((Top(g) + DataSize(g)) % Word)]
      /\ wrapped' = (wrapped \/ Top(g) + DataSize(g) >= Word)
  BY DEF AllocData, At, Loading, Top
<1>2. End(g, "stack") <= Top(g)
  BY <1>1 DEF Memory, Climbs
<1>3. /\ Ctx[g] \in Contexts /\ Top(g) \in Nat /\ pa[g]["stack"] \in Nat
      /\ Sizes["stack"] \in Nat /\ 1 <= Sizes["stack"] /\ MemoryTypes
      /\ Word \in Nat \ {0}
  BY MemoryNat, MemoryParts, SimulatorAssumption
<1>4. Top(g) < Word
  BY <1>3 DEF MemoryTypes, Top
<1>5. PICK d \in Nat : d = Top(g) - pa[g]["stack"] /\ d # 0 /\ d < Word
  BY <1>2, <1>3, <1>4 DEF End
<1>6. DataSize(g) = d
  <2>1. top[Ctx[g]] + Word - pa[g]["stack"] = d + Word
    BY <1>3, <1>5 DEF Top
  <2>2. ((d + Word) % Word) = d
    BY <1>3, <1>5, SmallMod
  <2> QED  BY <2>1, <2>2 DEF DataSize
<1>7. ~(Top(g) + d >= Word)
  BY <1>1, <1>6
<1>8. Top(g) + d \in Nat /\ Top(g) + d < Word /\ top[Ctx[g]] <= Top(g) + d
  BY <1>3, <1>5, <1>7 DEF Top
<1>9. ((Top(g) + d) % Word) = Top(g) + d
  BY <1>3, <1>8, SmallMod
<1>10. top' = [top EXCEPT ![Ctx[g]] = Top(g) + d]
  BY <1>1, <1>6, <1>9
<1>11. TopMoves(g)
  BY <1>1, <1>3, <1>8, <1>10 DEF TopMoves, MemoryTypes
<1> QED  BY <1>1, <1>5, <1>6, <1>11

\* How the steps of a thread move the top.
LEMMA TopEffect ==
    ASSUME ControlInv, Memory, NEW g \in Graphs, Steps(g) \/ Calls(g), ~wrapped'
    PROVE  TopMoves(g)
<1>0. MemoryTypes
  BY MemoryParts
<1> USE DEF memory
<1>1. CASE ReadTop(g)
  BY <1>1, <1>0, TopStays DEF ReadTop
<1>2. CASE WriteTop(g)
  BY <1>2, WriteTopMoves
<1>3. CASE LoadText(g)
  BY <1>3, <1>0, TopStays DEF LoadText
<1>4. CASE AllocData(g)
  BY <1>4, AllocDataMoves
<1>5. CASE LockGlock(g)
  BY <1>5, <1>0, TopStays DEF LockGlock
<1>6. CASE UpdateRodata(g)
  BY <1>6, <1>0, TopStays DEF UpdateRodata
<1>7. CASE UpdateData(g)
  BY <1>7, <1>0, TopStays DEF UpdateData
<1>8. CASE WriteCfg(g)
  BY <1>8, <1>0, TopStays DEF WriteCfg
<1>9. CASE System(g)
  BY <1>9, <1>0, TopStays DEF System
<1>10. CASE LoadOutputs(g)
  BY <1>10, <1>0, TopStays DEF LoadOutputs
<1>11. CASE JobException(g)
  BY <1>11, <1>0, TopStays DEF JobException
<1>12. CASE UnlockGlock(g)
  BY <1>12, <1>0, TopStays DEF UnlockGlock
<1>13. CASE LoadGraph(g)
  BY <1>13, <1>0, TopStays DEF LoadGraph
<1>14. CASE AllocThreadBuffer(g)
  BY <1>14, <1>0, TopStays DEF AllocThreadBuffer
<1>15. CASE FreeThreadBuffer(g)
  BY <1>15, <1>0, TopStays DEF FreeThreadBuffer
<1>16. CASE UnloadGraph(g)
  BY <1>16, <1>0, TopStays DEF UnloadGraph
<1>17. CASE BuildJob(g)
  BY <1>17, <1>0, TopStays DEF BuildJob
<1>18. CASE CleanJob(g)
  BY <1>18, <1>0, TopStays DEF CleanJob
<1>19. CASE LoadTextFails(g)
  BY <1>19, <1>0, TopStays DEF LoadTextFails
<1> QED  BY <1>1, <1>2, <1>3, <1>4, <1>5, <1>6, <1>7, <1>8, <1>9, <1>10, <1>11,
         <1>12, <1>13, <1>14, <1>15, <1>16, <1>17, <1>18, <1>19
     DEF Steps, Calls

\* What another graph has stays where it is, and below the top.
LEMMA ForeignSolid ==
    ASSUME ControlInv, Memory, NEW g \in Graphs, NEW h \in Graphs, g # h,
           Steps(g) \/ Calls(g), ~wrapped'
    PROVE  Solid(h)'
<1>1. Keeps(h) /\ TopMoves(g)
  BY ForeignKeeps, TopEffect
<1>2. Unread(h) /\ Climbs(h) /\ (tbuf[h] => Stacked(h))
  BY DEF Memory
<1>3. Ctx' = Ctx /\ Ctx[h] \in Contexts /\ Ctx[g] \in Contexts
  BY <1>1, ContextOf DEF Keeps, Ctx, ControlInv
<1>4. Unread(h)'
  BY <1>1, <1>2 DEF Keeps, Unread
<1>5. Climbs(h)'
  <2>1. pc[h] \in Loading => Top(h)' = Top(h)
    <3>1. pc[h] \in Loading => Ctx[g] # Ctx[h] \/ pc[g] \notin Loading
      BY DEF Memory
    <3> QED  BY <1>1, <1>3, <3>1 DEF TopMoves, Top
  <2>2. \A p : End(h, p)' = End(h, p)
    BY <1>1 DEF Keeps, End
  <2>3. CASE pc[h] \in Loading
    BY <1>1, <1>2, <2>1, <2>2, <2>3 DEF Keeps, Climbs
  <2>4. CASE pc[h] \notin Loading
    BY <1>1, <2>4 DEF Keeps, Climbs, Loading, Parts
  <2> QED  BY <2>3, <2>4
<1>6. (tbuf[h] => Stacked(h))'
  <2>1. Top(h) <= Top(h)' /\ Top(h) \in Nat /\ Top(h)' \in Nat
    BY <1>1, <1>3 DEF TopMoves, Top, Memory
  <2>2. \A p : End(h, p)' = End(h, p)
    BY <1>1 DEF Keeps, End
  <2>3. DataEnd(h)' = DataEnd(h) /\ DataEnd(h) \in Nat
    BY <1>1, MemoryNat, MemoryParts DEF Keeps, DataEnd, Parts
  <2>4. tbuf[h] => DataEnd(h) <= Top(h)'
    BY <1>2, <2>1, <2>3 DEF Stacked
  <2> QED  BY <1>1, <1>2, <2>2, <2>3, <2>4 DEF Keeps, Stacked
<1> QED  BY <1>4, <1>5, <1>6 DEF Solid

\* Two others stay as they are to each other.
LEMMA ForeignPair ==
    ASSUME ControlInv, Memory, NEW g \in Graphs, NEW h \in Graphs, NEW k \in Graphs,
           g # h, g # k, Steps(g) \/ Calls(g)
    PROVE  Pair(h, k)'
<1>1. Keeps(h) /\ Keeps(k)
  BY ForeignKeeps
<1>2. Pair(h, k)
  BY MemoryParts
<1> QED  BY <1>1, <1>2 DEF Keeps, Pair, Above, HasText, DataEnd, Ctx

\* What a step of g has to show of g itself.
OwnMemory(g) ==
    /\ MemoryTypes /\ Solid(g)
    /\ \A h \in Graphs : g # h => Pair(g, h) /\ Pair(h, g)

\* The steps of a job and of the thread buffer: no address, no top, no load.
LEMMA QuietMemory ==
    ASSUME ControlInv, Memory, NEW g \in Graphs, Steps(g) \/ Calls(g),
           setup' = setup, UNCHANGED <<top, pa>>, pc[g] \notin Loading,
           pc'[g] \notin Loading,
           pc'[g] = "idle" /\ ~entry'[g] => pc[g] = "idle" /\ ~entry[g],
           \/ size' = size /\ tbuf'[g] = tbuf[g]
           \/ size' \in [Graphs -> Nat] /\ ~tbuf'[g]
    PROVE  OwnMemory(g)'
<1>1. MemoryTypes /\ Solid(g)
  BY MemoryParts
<1>2. MemoryTypes'
  BY <1>1 DEF MemoryTypes
<1>3. Unread(g)'
  BY <1>1 DEF Solid, Unread, Loading, Parts
<1>4. Climbs(g)'
  BY DEF Climbs, Loading, Parts
<1>5. (tbuf[g] => Stacked(g))'
  BY <1>1 DEF Solid, Stacked, End, DataEnd, Top, Ctx
<1>6. ASSUME NEW h \in Graphs, g # h PROVE Pair(g, h)' /\ Pair(h, g)'
  <2>1. Keeps(h)
    BY <1>6, ForeignKeeps
  <2>2. Pair(g, h) /\ Pair(h, g)
    BY MemoryParts
  <2>3. ~HasText(g)'
    BY DEF HasText
  <2>4. tbuf'[g] => DataEnd(g)' = DataEnd(g) /\ tbuf[g]
    BY DEF DataEnd
  <2>5. DataEnd(h)' = DataEnd(h) /\ HasText(h)' = HasText(h) /\ Ctx' = Ctx
    BY <2>1 DEF Keeps, DataEnd, HasText, Ctx
  <2>6. Ctx[g] = Ctx[h] => Above(g, h)' /\ Above(h, g)'
    BY <1>6, <2>1, <2>2, <2>3, <2>4, <2>5 DEF Pair, Above, Keeps
  <2> QED  BY <2>5, <2>6 DEF Pair
<1> QED  BY <1>2, <1>3, <1>4, <1>5, <1>6 DEF OwnMemory, Solid

\* Every one of those steps.
LEMMA JobMemory ==
    ASSUME ControlInv, Memory, NEW g \in Graphs,
           \/ LockGlock(g) \/ UpdateRodata(g) \/ UpdateData(g) \/ WriteCfg(g)
           \/ System(g) \/ LoadOutputs(g) \/ JobException(g) \/ UnlockGlock(g)
           \/ AllocThreadBuffer(g) \/ FreeThreadBuffer(g) \/ BuildJob(g)
           \/ CleanJob(g)
    PROVE  OwnMemory(g)'
<1>0. Steps(g) \/ Calls(g)
  BY DEF Steps, Calls
<1>1. job[g] # "NONE" => entry[g]
  BY DEF ControlInv, Control
<1> USE DEF ControlInv, ControlTypes, At, Goto, memory, tables, Loading, Parts
<1>2. CASE LockGlock(g)
  BY <1>0, <1>2, QuietMemory DEF LockGlock
<1>3. CASE UpdateRodata(g)
  BY <1>0, <1>3, QuietMemory DEF UpdateRodata
<1>4. CASE UpdateData(g)
  BY <1>0, <1>4, QuietMemory DEF UpdateData
<1>5. CASE WriteCfg(g)
  BY <1>0, <1>5, QuietMemory DEF WriteCfg
<1>6. CASE System(g)
  BY <1>0, <1>6, QuietMemory DEF System
<1>7. CASE LoadOutputs(g)
  BY <1>0, <1>7, QuietMemory DEF LoadOutputs
<1>8. CASE JobException(g)
  BY <1>0, <1>8, QuietMemory DEF JobException
<1>9. CASE UnlockGlock(g)
  <2>1. entry[g]
    BY <1>1, <1>9 DEF UnlockGlock, Control
  <2> QED  BY <1>0, <1>9, <2>1, QuietMemory DEF UnlockGlock
<1>10. CASE AllocThreadBuffer(g)
  BY <1>0, <1>10, QuietMemory DEF AllocThreadBuffer
<1>11. CASE FreeThreadBuffer(g)
  <2>1. size' \in [Graphs -> Nat] /\ ~tbuf'[g]
    BY <1>11 DEF FreeThreadBuffer, Memory
  <2> QED  BY <1>0, <1>11, <2>1, QuietMemory DEF FreeThreadBuffer
<1>12. CASE BuildJob(g)
  BY <1>0, <1>12, QuietMemory DEF BuildJob
<1>13. CASE CleanJob(g)
  BY <1>0, <1>13, QuietMemory DEF CleanJob
<1> QED  BY <1>2, <1>3, <1>4, <1>5, <1>6, <1>7, <1>8, <1>9, <1>10, <1>11, <1>12,
         <1>13

\* A graph that is unloaded has no addresses and claims none.
LEMMA UnloadGraphMemory ==
    ASSUME ControlInv, Memory, NEW g \in Graphs, UnloadGraph(g)
    PROVE  OwnMemory(g)'
<1>1. /\ pc[g] = "idle" /\ pc' = pc /\ ~tbuf'[g] /\ ~entry'[g] /\ setup' = setup
      /\ \A p \in Parts : pa'[g][p] = NoPa
  BY DEF UnloadGraph, At, ControlInv, ControlTypes
<1>2. MemoryTypes'
  BY SimulatorAssumption DEF UnloadGraph, Memory, MemoryTypes, NoPa
<1>3. Solid(g)'
  BY <1>1 DEF Solid, Unread, Climbs, Loading, Parts
<1>4. ASSUME NEW h \in Graphs, g # h PROVE Pair(g, h)' /\ Pair(h, g)'
  BY <1>1 DEF Pair, Above, HasText, Loading, Parts
<1> QED  BY <1>2, <1>3, <1>4 DEF OwnMemory

\* So has one whose load fails at its text.
LEMMA LoadTextFailsMemory ==
    ASSUME ControlInv, Memory, NEW g \in Graphs, LoadTextFails(g)
    PROVE  OwnMemory(g)'
<1>1. /\ pc[g] = "code" /\ pc'[g] = "idle" /\ UNCHANGED <<top, size, tbuf, entry>>
      /\ setup' = setup /\ \A p \in Parts : pa'[g][p] = NoPa
      /\ \A h \in Graphs : h # g => pc'[h] = pc[h]
  BY DEF LoadTextFails, At, Goto, ControlInv, ControlTypes, tables
<1>2. ~tbuf'[g] /\ ~entry'[g]
  BY <1>1 DEF ControlInv, Control, Loading
<1>3. MemoryTypes'
  BY <1>1, SimulatorAssumption DEF LoadTextFails, Memory, MemoryTypes, NoPa
<1>4. Solid(g)'
  BY <1>1, <1>2 DEF Solid, Unread, Climbs, Loading, Parts
<1>5. ASSUME NEW h \in Graphs, g # h PROVE Pair(g, h)' /\ Pair(h, g)'
  BY <1>1, <1>2 DEF Pair, Above, HasText, Loading, Parts
<1> QED  BY <1>3, <1>4, <1>5 DEF OwnMemory

\* A load begins where no other graph of the context is being loaded.
LEMMA LoadGraphMemory ==
    ASSUME LoadersApart, ControlInv, Memory, NEW g \in Graphs, LoadGraph(g)
    PROVE  OwnMemory(g)'
<1>1. /\ pc[g] = "idle" /\ ~entry[g] /\ pc'[g] = "text" /\ UNCHANGED <<top, pa, size>>
      /\ setup' = setup /\ tbuf' = tbuf
      /\ \A h \in Graphs : h # g => pc'[h] = pc[h]
      /\ OneLoader => \A h \in Graphs : pc[h] \notin Loading
  BY DEF LoadGraph, At, Goto, ControlInv, ControlTypes, Loading
<1>2. ~tbuf[g]
  BY <1>1 DEF ControlInv, Control
<1>3. Unread(g) /\ \A p \in Parts : pa[g][p] = NoPa
  BY <1>1 DEF Memory, Unread, Parts
<1>4. MemoryTypes'
  BY <1>1 DEF Memory, MemoryTypes
<1>5. Solid(g)'
  BY <1>1, <1>2, <1>3 DEF Solid, Unread, Climbs, Loading, Parts
<1>6. ASSUME NEW h \in Graphs, g # h PROVE Pair(g, h)' /\ Pair(h, g)'
  <2>1. Ctx[g] = Ctx[h] => pc[h] \notin Loading
    BY <1>1, <1>6 DEF LoadersApart, ControlInv, ControlTypes, OneLoader, Ctx
  <2>2. ~HasText(g)'
    BY <1>1, <1>3 DEF HasText, Parts
  <2>3. Ctx' = Ctx
    BY <1>1 DEF Ctx
  <2> QED  BY <1>1, <1>2, <1>6, <2>1, <2>2, <2>3 DEF Pair, Above
<1> QED  BY <1>4, <1>5, <1>6 DEF OwnMemory

\* load_text_buffer changes no address.
LEMMA LoadTextMemory ==
    ASSUME ControlInv, Memory, NEW g \in Graphs, LoadText(g)
    PROVE  OwnMemory(g)'
<1>1. /\ pc[g] = "code" /\ pc'[g] = "rodata" /\ UNCHANGED <<top, pa, size>>
      /\ setup' = setup /\ tbuf' = tbuf /\ entry'[g]
      /\ \A h \in Graphs : h # g => pc'[h] = pc[h]
  BY DEF LoadText, At, Goto, ControlInv, ControlTypes, memory
<1>2. MemoryTypes' /\ ~tbuf[g] /\ Solid(g)
  BY <1>1, MemoryParts DEF MemoryTypes, ControlInv, Control, Loading
<1>3. Solid(g)'
  <2>1. Unread(g)'
    BY <1>1, <1>2 DEF Solid, Unread
  <2>2. Climbs(g)'
    BY <1>1, <1>2 DEF Solid, Unread, Climbs, End, Top, Ctx, Loading, Parts
  <2> QED  BY <1>1, <1>2, <2>1, <2>2 DEF Solid
<1>4. ASSUME NEW h \in Graphs, g # h PROVE Pair(g, h)' /\ Pair(h, g)'
  <2>1. Pair(g, h) /\ Pair(h, g)
    BY MemoryParts
  <2> QED  BY <1>1, <1>2, <1>4, <2>1
           DEF Pair, Above, HasText, DataEnd, Ctx, Loading, Parts
<1> QED  BY <1>2, <1>3, <1>4 DEF OwnMemory

\* Reading the top: the part gets an address above everything in the context.
LEMMA ReadTopMemory ==
    ASSUME ControlInv, Memory, NEW g \in Graphs, ReadTop(g)
    PROVE  OwnMemory(g)'
<1>1. PICK p \in Parts : pc[g] = p /\ pa[g][p] = NoPa
  BY DEF ReadTop, At
<1>2. /\ pa' = [pa EXCEPT ![g][p] = PartPa(p, Top(g))]
      /\ UNCHANGED <<setup, top, size, pc, tbuf, entry>>
      /\ p \in DataParts => Stops(Top(g)) # {}
  BY <1>1 DEF ReadTop, tables, Top
<1>3. MemoryTypes /\ Solid(g) /\ Top(g) \in Nat
  BY MemoryNat, MemoryParts
<1>4. PartPa(p, Top(g)) \in Nat /\ Top(g) <= PartPa(p, Top(g))
  BY <1>2, <1>3, PartPaAbove
<1>5. MemoryTypes'
  BY <1>2, <1>3, <1>4 DEF MemoryTypes
<1>6. /\ pa'[g][p] = PartPa(p, Top(g))
      /\ \A q \in Parts : q # p => pa'[g][q] = pa[g][q]
      /\ \A h \in Graphs : h # g => pa'[h] = pa[h]
  BY <1>2, <1>3 DEF MemoryTypes
<1>7. ~tbuf[g] /\ pc[g] \in Loading /\ Ctx' = Ctx
  BY <1>1, <1>2 DEF ControlInv, Control, Loading, Ctx
<1>8. Unread(g)'
  BY <1>1, <1>2, <1>3, <1>6 DEF Solid, Unread, Parts
<1>9. Climbs(g)'
  <2>1. Top(g)' = Top(g)
    BY <1>2, <1>7 DEF Top
  <2>2. \A q \in Parts : q # p => End(g, q)' = End(g, q)
    BY <1>6 DEF End
  <2> QED  BY <1>1, <1>2, <1>3, <1>4, <1>6, <2>1, <2>2 DEF Solid, Climbs, Parts, Loading
<1>10. ASSUME NEW h \in Graphs, g # h PROVE Pair(g, h)' /\ Pair(h, g)'
  <2>1. Pair(g, h) /\ Pair(h, g) /\ Solid(h)
    BY MemoryParts
  <2>2. DataEnd(h)' = DataEnd(h) /\ DataEnd(h) \in Nat
    BY <1>2, <1>3, <1>6, <1>10, MemoryNat DEF DataEnd, Parts
  <2>3. Ctx[g] = Ctx[h] /\ tbuf[h] => DataEnd(h) <= Top(g)
    BY <2>1 DEF Solid, Stacked, Top
  <2>4. Ctx[g] = Ctx[h] /\ tbuf[h] /\ HasText(g)' => DataEnd(h) <= pa'[g]["text"]
    <3>1. CASE p = "text"
      BY <1>3, <1>4, <1>6, <2>2, <2>3, <3>1
    <3>2. CASE p # "text"
      <4>1. pa'[g]["text"] = pa[g]["text"]
        BY <1>6, <3>2 DEF Parts
      <4>2. HasText(g)
        BY <1>1, <1>7, <3>2 DEF HasText
      <4> QED  BY <1>10, <2>1, <4>1, <4>2 DEF Pair, Above
    <3> QED  BY <3>1, <3>2
  <2> QED  BY <1>2, <1>7, <1>10, <2>1, <2>2, <2>4 DEF Pair, Above
<1> QED  BY <1>2, <1>5, <1>7, <1>8, <1>9, <1>10 DEF OwnMemory, Solid

\* Writing the top back: the part lies between the old top and the new one.
LEMMA WriteTopMemory ==
    ASSUME ControlInv, Memory, NEW g \in Graphs, WriteTop(g), ~wrapped'
    PROVE  OwnMemory(g)'
<1>1. PICK p \in Parts : pc[g] = p /\ pa[g][p] # NoPa
  BY DEF WriteTop, At
<1>2. /\ UNCHANGED <<setup, pa, size, tbuf, entry>>
      /\ top' = [top EXCEPT ![Ctx[g]] = End(g, p)] /\ TopMoves(g)
      /\ pc'[g] = IF p = "text" THEN "code" ELSE Next1(p)
      /\ \A h \in Graphs : h # g => pc'[h] = pc[h]
  BY <1>1, WriteTopMoves DEF WriteTop, At, Goto, tables, ControlInv,
         ControlTypes
<1>3. MemoryTypes /\ Solid(g)
  BY MemoryParts
<1>4. /\ Ctx[g] \in Contexts /\ Top(g) \in Nat
      /\ \A q \in Parts : pa[g][q] \in Nat /\ Sizes[q] \in Nat
  BY <1>3, MemoryNat
<1>5. /\ Top(g)' = End(g, p) /\ Top(g) <= pa[g][p] /\ Ctx' = Ctx
      /\ Top(g) <= End(g, p)
  BY <1>1, <1>2, <1>3, <1>4 DEF Top, End, MemoryTypes, Solid, Climbs, Ctx
<1>6. \A q \in Parts : End(g, q) \in Nat /\ End(g, q)' = End(g, q)
  BY <1>2, <1>4 DEF End
<1>7. ~tbuf[g] /\ pc[g] \in Loading /\ pc'[g] \in Loading /\ pc'[g] # "text"
  BY <1>1, <1>2, NextPart DEF ControlInv, Control, Loading, Parts
<1>8. MemoryTypes'
  BY <1>2, <1>3, <1>4 DEF MemoryTypes, TopMoves
<1>9. Unread(g)'
  BY <1>1, <1>2, <1>3, NextPart DEF Solid, Unread, Parts
<1>10. Climbs(g)'
  <2>1. CASE p = "text"
    <3>1. pc'[g] = "code"
      BY <1>2, <2>1
    <3> QED  BY <1>5, <1>6, <2>1, <3>1 DEF Climbs, Parts
  <2>2. CASE p = "rodata"
    <3>1. pc'[g] = "stack" /\ pa'[g]["stack"] = NoPa
      BY <1>1, <1>2, <1>3, <2>2, NextPart DEF Solid, Unread
    <3>2. End(g, "text") <= Top(g)
      BY <1>1, <1>3, <2>2 DEF Solid, Climbs, Loading, Parts
    <3>3. End(g, "text") <= pa'[g]["rodata"] /\ End(g, "text") <= Top(g)'
      BY <1>2, <1>4, <1>5, <1>6, <2>2, <3>2 DEF Parts
    <3> QED  BY <1>5, <1>6, <2>2, <3>1, <3>3 DEF Climbs, Parts
  <2>3. CASE p = "stack"
    <3>1. pc'[g] = "static" /\ pa'[g]["static"] = NoPa
      BY <1>1, <1>2, <1>3, <2>3, NextPart DEF Solid, Unread
    <3>2. /\ End(g, "text") <= Top(g) /\ End(g, "rodata") <= Top(g)
          /\ End(g, "text") <= pa[g]["rodata"]
      BY <1>1, <1>3, <2>3 DEF Solid, Climbs, Loading, Parts
    <3>3. /\ End(g, "rodata") <= pa'[g]["stack"] /\ End(g, "rodata") <= Top(g)'
          /\ End(g, "text") <= Top(g)' /\ End(g, "text") <= pa'[g]["rodata"]
      BY <1>2, <1>4, <1>5, <1>6, <2>3, <3>2 DEF Parts
    <3> QED  BY <1>5, <1>6, <2>3, <3>1, <3>3 DEF Climbs, Parts
  <2>4. CASE p = "static"
    <3>1. pc'[g] = "reuse" /\ pa'[g]["reuse"] = NoPa
      BY <1>1, <1>2, <1>3, <2>4, NextPart DEF Solid, Unread
    <3>2. /\ End(g, "text") <= Top(g) /\ End(g, "rodata") <= Top(g)
          /\ End(g, "stack") <= Top(g) /\ End(g, "text") <= pa[g]["rodata"]
          /\ End(g, "rodata") <= pa[g]["stack"]
      BY <1>1, <1>3, <2>4 DEF Solid, Climbs, Loading, Parts
    <3>3. /\ End(g, "stack") <= pa'[g]["static"] /\ End(g, "stack") <= Top(g)'
          /\ End(g, "text") <= Top(g)' /\ End(g, "text") <= pa'[g]["rodata"]
          /\ End(g, "rodata") <= Top(g)' /\ End(g, "rodata") <= pa'[g]["stack"]
      BY <1>2, <1>4, <1>5, <1>6, <2>4, <3>2 DEF Parts
    <3> QED  BY <1>5, <1>6, <2>4, <3>1, <3>3 DEF Climbs, Parts
  <2>5. CASE p = "reuse"
    <3>1. pc'[g] = "data"
      BY <1>2, <2>5, NextPart
    <3>2. /\ End(g, "text") <= Top(g) /\ End(g, "rodata") <= Top(g)
          /\ End(g, "stack") <= Top(g) /\ End(g, "static") <= Top(g)
          /\ End(g, "text") <= pa[g]["rodata"] /\ End(g, "rodata") <= pa[g]["stack"]
          /\ End(g, "stack") <= pa[g]["static"]
      BY <1>1, <1>3, <2>5 DEF Solid, Climbs, Loading, Parts
    <3>3. /\ End(g, "static") <= pa'[g]["reuse"] /\ End(g, "static") <= Top(g)'
          /\ End(g, "text") <= Top(g)' /\ End(g, "text") <= pa'[g]["rodata"]
          /\ End(g, "rodata") <= Top(g)' /\ End(g, "rodata") <= pa'[g]["stack"]
          /\ End(g, "stack") <= Top(g)' /\ End(g, "stack") <= pa'[g]["static"]
      BY <1>2, <1>4, <1>5, <1>6, <2>5, <3>2 DEF Parts
    <3> QED  BY <1>5, <1>6, <2>5, <3>1, <3>3 DEF Climbs, Parts
  <2> QED  BY <2>1, <2>2, <2>3, <2>4, <2>5 DEF Parts
<1>11. ASSUME NEW h \in Graphs, g # h PROVE Pair(g, h)' /\ Pair(h, g)'
  <2>1. Pair(g, h) /\ Pair(h, g)
    BY MemoryParts
  <2>2. HasText(g)
    BY <1>1, <1>7 DEF HasText
  <2>3. DataEnd(h)' = DataEnd(h)
    BY <1>2 DEF DataEnd
  <2> QED  BY <1>2, <1>5, <1>7, <1>11, <2>1, <2>2, <2>3 DEF Pair, Above
<1> QED  BY <1>2, <1>7, <1>8, <1>9, <1>10, <1>11 DEF OwnMemory, Solid

\* The end of a load: the data buffer reaches from the stack to the top.
LEMMA AllocDataMemory ==
    ASSUME ControlInv, Memory, NEW g \in Graphs, AllocData(g), ~wrapped'
    PROVE  OwnMemory(g)'
<1>1. /\ pc[g] = "data" /\ pc'[g] = "idle" /\ entry'[g]
      /\ UNCHANGED <<setup, pa>>
      /\ \A h \in Graphs : h # g => /\ pc'[h] = pc[h] /\ tbuf'[h] = tbuf[h]
                                    /\ size'[h] = size[h]
  BY AllocDataMoves DEF AllocData, At, Goto, ControlInv, ControlTypes
<1>2. /\ TopMoves(g) /\ size' = [size EXCEPT ![g] = Top(g) - pa[g]["stack"]]
      /\ Top(g) - pa[g]["stack"] \in Nat
  BY AllocDataMoves
<1>3. MemoryTypes /\ Solid(g) /\ entry[g]
  BY <1>1, MemoryParts DEF ControlInv, Control, Loading
<1>4. /\ Ctx[g] \in Contexts /\ Top(g) \in Nat
      /\ \A q \in Parts : pa[g][q] \in Nat /\ Sizes[q] \in Nat
  BY <1>3, MemoryNat
<1>5. MemoryTypes'
  BY <1>1, <1>2, <1>3 DEF TopMoves, MemoryTypes
<1>6. /\ Ctx' = Ctx /\ DataEnd(g)' = Top(g) /\ Top(g) <= Top(g)'
      /\ \A q \in Parts : End(g, q)' = End(g, q)
  BY <1>1, <1>2, <1>3, <1>4 DEF Ctx, DataEnd, Top, End, TopMoves, MemoryTypes,
         Parts
<1>7. Unread(g)' /\ Climbs(g)'
  BY <1>1, <1>3 DEF Unread, Climbs, Loading, Parts
<1>8. Stacked(g)'
  BY <1>1, <1>3, <1>6 DEF Solid, Climbs, Stacked, Parts
<1>9. ASSUME NEW h \in Graphs, g # h PROVE Pair(g, h)' /\ Pair(h, g)'
  <2>1. Pair(g, h) /\ Pair(h, g)
    BY MemoryParts
  <2>2. HasText(g) /\ ~HasText(g)' /\ pc[g] \in Loading /\ pc'[g] \notin Loading
    BY <1>1 DEF HasText, Loading, Parts
  <2>3. DataEnd(h)' = DataEnd(h) /\ HasText(h)' = HasText(h)
    BY <1>1, <1>9 DEF DataEnd, HasText
  <2>4. Ctx[g] = Ctx[h] => ~HasText(h)
    BY <1>9, <2>1, <2>2 DEF Pair, HasText
  <2>5. Ctx[g] = Ctx[h] /\ tbuf[h] => DataEnd(h) <= pa[g]["text"]
    BY <1>9, <2>1, <2>2 DEF Pair, Above
  <2> QED  BY <1>1, <1>6, <1>9, <2>2, <2>3, <2>4, <2>5 DEF Pair, Above
<1> QED  BY <1>5, <1>7, <1>8, <1>9 DEF OwnMemory, Solid

\* Every step keeps Memory, as long as no sum wraps.
LEMMA MemoryNext ==
    ASSUME LoadersApart, ControlInv, Memory, [Next]_vars, ~wrapped'
    PROVE  Memory'
<1>1. CASE UNCHANGED vars
  BY <1>1 DEF vars, Memory, Unread, Climbs, Stacked, Above, HasText, Top, End,
              DataEnd, Ctx
<1>2. ASSUME NEW g \in Graphs, Steps(g) \/ Calls(g) PROVE Memory'
  <2>1. OwnMemory(g)'
    BY <1>2, JobMemory, UnloadGraphMemory, LoadGraphMemory, LoadTextMemory,
       LoadTextFailsMemory,
       ReadTopMemory, WriteTopMemory, AllocDataMemory DEF Steps, Calls
  <2>2. ASSUME NEW h \in Graphs PROVE Solid(h)'
    BY <1>2, <2>1, ForeignSolid DEF OwnMemory
  <2>3. ASSUME NEW h \in Graphs, NEW k \in Graphs PROVE Pair(h, k)'
    <3>1. CASE h = k
      BY <3>1 DEF Pair
    <3>2. CASE h # k /\ (h = g \/ k = g)
      BY <2>1, <3>2 DEF OwnMemory
    <3>3. CASE h # g /\ k # g
      BY <1>2, <3>3, ForeignPair
    <3> QED  BY <3>1, <3>2, <3>3
  <2> QED  BY <2>1, <2>2, <2>3 DEF OwnMemory, Memory, MemoryTypes, Solid, Pair
<1> QED  BY <1>1, <1>2 DEF Next

\* At the beginning no graph has an address.
LEMMA MemoryInit ==
    ASSUME Init
    PROVE  Memory
<1>1. MemoryTypes
  BY SimulatorAssumption DEF Init, MemoryTypes, NoPa
<1>2. ASSUME NEW g \in Graphs PROVE Solid(g)
  BY DEF Init, Solid, Unread, Climbs, Loading, Parts
<1>3. ASSUME NEW g \in Graphs, NEW h \in Graphs PROVE Pair(g, h)
  BY DEF Init, Pair, Above, Loading, Parts
<1> QED  BY <1>1, <1>2, <1>3, MemoryParts

\* What has wrapped has wrapped for good.
LEMMA WrappedStays ==
    ASSUME wrapped, [Next]_vars
    PROVE  wrapped'
<1>1. CASE UNCHANGED vars
  BY <1>1 DEF vars
<1>2. ASSUME NEW g \in Graphs, Steps(g) PROVE wrapped'
  BY <1>2 DEF Steps, ReadTop, WriteTop, LoadText, LoadTextFails, AllocData,
         LockGlock, UpdateRodata, UpdateData, WriteCfg, System, LoadOutputs,
         JobException, UnlockGlock, memory
<1>3. ASSUME NEW g \in Graphs, Calls(g) PROVE wrapped'
  BY <1>3 DEF Calls, LoadGraph, AllocThreadBuffer, FreeThreadBuffer,
         UnloadGraph, BuildJob, CleanJob, memory
<1> QED  BY <1>1, <1>2, <1>3 DEF Next

\* Ranges of addresses, one after the other, have nothing in common.
LEMMA AreasApart ==
    ASSUME NEW a \in Nat, NEW n \in Nat, NEW b \in Nat, NEW m \in Nat, a + n <= b
    PROVE  Area(a, n) \cap Area(b, m) = {} /\ Area(b, m) \cap Area(a, n) = {}
BY DEF Area

\* A range of addresses lies between two bounds when its ends do.
LEMMA AreaWithin ==
    ASSUME NEW x \in Nat, NEW a \in Nat, NEW n \in Nat, NEW e \in Nat,
           x <= a, a + n <= e
    PROVE  Area(a, n) \subseteq x .. (e - 1)
BY DEF Area

\* However many graphs there are, whatever the sizes and the alignment of their
\* parts, and whichever loads fail: as long as no address and no sum has gone
\* beyond a uint32_t, sections lie apart in the data buffer that holds them, and
\* graphs of a context have no device memory in common, when they are loaded one
\* at a time (alloc_text_buffer, simulation_alloc_data_buffer, malloc_buf).
THEOREM GraphsDisjointEver == LoadersApart => (Spec => []GraphsDisjoint)
<1> SUFFICES ASSUME LoadersApart
             PROVE  Spec => []GraphsDisjoint
  OBVIOUS
<1> DEFINE MemoryInv == wrapped \/ Memory
<1>1. Init => ControlInv /\ MemoryInv
  BY ControlInit, MemoryInit
<1>2. ControlInv /\ MemoryInv /\ [Next]_vars => ControlInv' /\ MemoryInv'
  BY ControlNext, MemoryNext, WrappedStays
<1>3. ControlInv /\ MemoryInv => GraphsDisjoint
  <2> SUFFICES ASSUME ControlInv, Memory, ~wrapped
               PROVE  GraphsDisjoint
    BY DEF GraphsDisjoint
  <2>1. MemoryTypes /\ \A g, h \in Graphs : Pair(g, h)
    BY MemoryParts
  <2>2. ASSUME NEW g \in Graphs
        PROVE  /\ \A p \in Parts : pa[g][p] \in Nat /\ Sizes[p] \in Nat
               /\ size[g] \in Nat /\ \A p \in Parts : End(g, p) = pa[g][p] + Sizes[p]
    BY <2>1, MemoryNat DEF End
  <2>3. ASSUME NEW g \in Graphs, tbuf[g] PROVE SectionsInData(g)
    BY <2>2, <2>3 DEF Memory, Stacked, SectionsInData, End, DataEnd, Area, Parts
  <2>4. ASSUME NEW g \in Graphs, tbuf[g],
               NEW a \in Areas(g), NEW b \in Areas(g), a # b
        PROVE  a \cap b = {}
    <3>1. /\ pa[g]["text"] + Sizes["text"] <= pa[g]["rodata"]
          /\ pa[g]["rodata"] + Sizes["rodata"] <= pa[g]["stack"]
          /\ pa[g]["text"] + Sizes["text"] <= pa[g]["stack"]
      BY <2>2, <2>4 DEF Memory, Stacked, End, Parts
    <3>2. /\ pa[g]["text"] \in Nat /\ pa[g]["rodata"] \in Nat
          /\ pa[g]["stack"] \in Nat /\ size[g] \in Nat
          /\ Sizes["text"] \in Nat /\ Sizes["rodata"] \in Nat
      BY <2>2, <2>4 DEF Parts
    <3> DEFINE T == Area(pa[g]["text"], Sizes["text"])
               R == Area(pa[g]["rodata"], Sizes["rodata"])
               S == Area(pa[g]["stack"], size[g])
    <3>3. T \cap R = {} /\ R \cap T = {}
      BY <3>1, <3>2, AreasApart
    <3>4. R \cap S = {} /\ S \cap R = {}
      BY <3>1, <3>2, AreasApart
    <3>5. T \cap S = {} /\ S \cap T = {}
      BY <3>1, <3>2, AreasApart
    <3>6. a \in {T, R, S} /\ b \in {T, R, S}
      BY <2>4 DEF Areas
    <3> HIDE DEF T, R, S
    <3> QED  BY <2>4, <3>3, <3>4, <3>5, <3>6
  <2>5. ASSUME NEW g \in Graphs, tbuf[g], NEW a \in Areas(g)
        PROVE  a \subseteq pa[g]["text"] .. (DataEnd(g) - 1)
    <3>1. /\ pa[g]["text"] + Sizes["text"] <= DataEnd(g)
          /\ pa[g]["rodata"] + Sizes["rodata"] <= DataEnd(g)
          /\ pa[g]["text"] <= pa[g]["rodata"] /\ pa[g]["text"] <= pa[g]["stack"]
      BY <2>2, <2>5 DEF Memory, Stacked, End, DataEnd, Parts
    <3>2. /\ DataEnd(g) \in Nat /\ size[g] \in Nat
          /\ DataEnd(g) = pa[g]["stack"] + size[g]
          /\ \A p \in {"text", "rodata", "stack"} :
                pa[g][p] \in Nat /\ Sizes[p] \in Nat
      BY <2>2 DEF DataEnd, Parts
    <3>3. ASSUME NEW q \in Nat, NEW n \in Nat,
                 pa[g]["text"] <= q, q + n <= DataEnd(g)
          PROVE  Area(q, n) \subseteq pa[g]["text"] .. (DataEnd(g) - 1)
      <4>1. pa[g]["text"] \in Nat /\ DataEnd(g) \in Nat
        BY <3>2
      <4> QED  BY <3>3, <4>1, AreaWithin
    <3>4. /\ pa[g]["text"] <= pa[g]["text"]
          /\ pa[g]["stack"] + size[g] <= DataEnd(g)
      BY <3>2
    <3>5. Area(pa[g]["text"], Sizes["text"])
              \subseteq pa[g]["text"] .. (DataEnd(g) - 1)
      BY <3>1, <3>2, <3>3, <3>4
    <3>6. Area(pa[g]["rodata"], Sizes["rodata"])
              \subseteq pa[g]["text"] .. (DataEnd(g) - 1)
      BY <3>1, <3>2, <3>3
    <3>7. Area(pa[g]["stack"], size[g])
              \subseteq pa[g]["text"] .. (DataEnd(g) - 1)
      BY <3>1, <3>2, <3>3, <3>4
    <3> QED  BY <2>5, <3>5, <3>6, <3>7 DEF Areas
  <2>6. ASSUME NEW g \in Graphs, NEW h \in Graphs, g # h, Ctx[g] = Ctx[h],
               tbuf[g], tbuf[h], NEW a \in Areas(g), NEW b \in Areas(h)
        PROVE  a \cap b = {}
    <3>1. DataEnd(g) <= pa[h]["text"] \/ DataEnd(h) <= pa[g]["text"]
      BY <2>1, <2>6 DEF Pair, Above
    <3>2. /\ a \subseteq pa[g]["text"] .. (DataEnd(g) - 1)
          /\ b \subseteq pa[h]["text"] .. (DataEnd(h) - 1)
      BY <2>5, <2>6
    <3>3. /\ DataEnd(g) \in Nat /\ DataEnd(h) \in Nat
          /\ pa[g]["text"] \in Nat /\ pa[h]["text"] \in Nat
      BY <2>2, <2>6 DEF DataEnd, Parts
    <3> QED  BY <3>1, <3>2, <3>3
  <2> QED  BY <2>3, <2>4, <2>6 DEF GraphsDisjoint
<1> QED  BY <1>1, <1>2, <1>3, PTL DEF Spec
=============================================================================
