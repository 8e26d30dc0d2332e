-------------------------- MODULE AipuDriverProofs --------------------------
(***************************************************************************)
(* Proofs about the life cycle of the driver, module AipuDriver: NoFault   *)
(* and NothingLeaks, for every platform and every set of calls that fail.  *)
(*                                                                         *)
(* The inductive invariant says of every resource at which places of       *)
(* aipu_probe, aipu_remove and deinit_aipu_priv it can be held, and which  *)
(* pointer finds it there.                                                 *)
(***************************************************************************)
EXTENDS AipuDriver, TLAPS

\* The places of aipu_probe and of deinit_aipu_priv, in their order
ProbePlaces == {"misc", "sysfs", "resources", "ioregion", "irq", "jm", "soc",
                "mem", "enable", "drvdata"}
DeinitPlaces == {"d_sysfs", "d_mm", "d_misc", "d_soc", "d_core", "d_wq",
                 "d_irq", "d_end"}

Resources == {"misc", "sysfs", "core_req", "core_map", "stray_map", "soc_req",
              "soc_map", "wq", "irq", "region", "sram_head", "ddr_head", "node",
              "reserved", "cma"}
Pointers == {"misc", "sysfs", "core0", "soc", "drvdata", "ddr_head"}

\* The driver is at one of the places, or it is bound and holds everything: a
\* probe that returns 0 after a failing of_address_to_resource has released
\* everything, and has not set drvdata.
While(places) == pc \in places \/ (pc = "bound" /\ "drvdata" \in ptr)

\* The platform on which NoFault promises that there is no fault at all
Peaceful ==
    /\ ~Busy /\ ~SharedLine /\ ~Smp
    /\ Failures \cap {"misc_kzalloc", "misc_register", "block_list"} = {}

\* Types of the variables.
TypeOK ==
    /\ setup \in Setups
    /\ pc \in ProbePlaces \cup DeinitPlaces \cup {"unbound", "bound"}
    /\ held \subseteq Resources /\ ptr \subseteq Pointers
    /\ failed \subseteq AllFailures
    /\ ret \in Int
    /\ leaving \in BOOLEAN /\ init_done \in BOOLEAN /\ file \in BOOLEAN
    /\ intr \in {0, 1} /\ done \in {0, 1} /\ work \in {0, 1}
    /\ uh \in {"idle", "queue"}
    /\ binds \in Nat
    /\ fault \in {"none", "sysfs_pointer", "driver_data", "workqueue",
                  "job_manager", "core0", "block_list"}

\* The interrupt line and the work queue come and go with core0, the queue one
\* step before the line; the upper half runs only while the line is held and
\* work is queued only while there is a queue.
IrqInv ==
    /\ "irq" \in held =>
        /\ While({"jm", "soc", "mem", "enable", "drvdata", "d_sysfs", "d_mm",
               "d_misc", "d_soc", "d_core", "d_wq", "d_irq"})
        /\ "core0" \in ptr
    /\ "wq" \in held => "irq" \in held /\ pc # "d_irq"
    /\ "irq" \in held => "wq" \in held \/ pc = "d_irq"
    /\ uh = "queue" => "irq" \in held
    /\ work = 1 => "wq" \in held

\* The job manager is there whenever a probe returns 0, even the one that lost
\* everything else; drvdata is set by a probe that succeeds and by no other.
BoundInv ==
    /\ pc \in {"soc", "mem", "enable", "drvdata", "bound"} => init_done
    /\ pc \in DeinitPlaces /\ ~leaving /\ ret = 0 => init_done
    /\ pc = "unbound" \/ pc \in ProbePlaces => "drvdata" \notin ptr
    /\ pc \in DeinitPlaces /\ ~leaving => "drvdata" \notin ptr
    /\ pc \in ProbePlaces => ~leaving
    /\ pc = "bound" => fault = "none"

\* What a platform without disturbances adds: jobs, the upper half and files
\* exist only while the device is bound, and the sysfs files whenever they are
\* about to be removed.
PeacefulInv ==
    Peaceful =>
        /\ done = 1 \/ uh = "queue" \/ file => pc = "bound"
        /\ While({"resources", "ioregion", "irq", "jm", "soc", "mem", "enable",
               "drvdata", "d_sysfs"}) => "sysfs" \in ptr
        /\ fault = "none"

\* Where each of the other resources can be held.  An I/O region that is mapped is
\* found through core0 and soc.
HeldInv ==
    /\ "misc" \in held =>
        /\ While((ProbePlaces \ {"misc"}) \cup {"d_sysfs", "d_mm", "d_misc"})
        /\ "misc" \in ptr
    /\ "sysfs" \in held =>
        While((ProbePlaces \ {"misc", "sysfs"}) \cup {"d_sysfs"})
    /\ "region" \in held => While({"enable", "drvdata", "d_sysfs", "d_mm"})
    /\ "soc_map" \in held =>
        /\ While({"mem", "enable", "drvdata", "d_sysfs", "d_mm", "d_misc",
                  "d_soc"})
        /\ "soc" \in ptr
    /\ "core_map" \in held =>
        /\ While({"irq", "jm", "soc", "mem", "enable", "drvdata", "d_sysfs",
               "d_mm", "d_misc", "d_soc", "d_core"})
        /\ pc = "irq" \/ "core0" \in ptr

\* What is held for good, and the failing calls it takes.  The list of regions is
\* missing during a probe only if its head could not be allocated.
LostInv ==
    /\ "core_req" \in held =>
        \/ "core_map" \in held
        \/ "ioremap" \in failed \/ "workqueue" \in failed
        \/ "request_irq" \in failed
    /\ "soc_req" \in held => "soc_map" \in held \/ "ioremap" \in failed
    /\ "stray_map" \in held => "workqueue" \in failed \/ "request_irq" \in failed
    /\ "node" \in held =>
        \/ "of_address_to_resource" \in failed \/ "reserved_mem" \in failed
        \/ "dma_alloc" \in failed \/ "region_head" \in failed
    /\ "reserved" \in held => "dma_alloc" \in failed \/ "region_head" \in failed
    /\ "cma" \in held => "region_head" \in failed
    /\ pc \in ProbePlaces => "ddr_head" \in ptr \/ "region_head" \in failed

\* The inductive invariant.
Inv == TypeOK /\ IrqInv /\ BoundInv /\ PeacefulInv /\ HeldInv /\ LostInv

-----------------------------------------------------------------------------
(* One lemma for each step of the driver: it preserves the invariant. *)

\* init_aipu_priv: nothing is held yet but what an earlier probe lost.
LEMMA ProbeInitPrivInv ==
    ASSUME Inv, ProbeInitPriv
    PROVE  Inv'
<1> PICK heads \in SUBSET RegionHeads :
          /\ heads = RegionHeads \/ "region_head" \in Failures
          /\ held' = held \cup heads
          /\ ptr' = (ptr \ {"misc", "core0", "soc", "ddr_head"})
                      \cup (heads \cap {"ddr_head"})
          /\ failed' = IF heads = RegionHeads THEN failed
                                              ELSE failed \cup {"region_head"}
  BY DEF ProbeInitPriv
<1>0. heads \subseteq {"sram_head", "ddr_head"}
  BY DEF RegionHeads
<1>1. TypeOK'
  <2>1. failed' \subseteq AllFailures
    BY DEF Inv, TypeOK, AllFailures
  <2>2. ret' \in Int /\ pc' \in ProbePlaces \cup DeinitPlaces
    BY DEF ProbePlaces, ProbeInitPriv
  <2>3. leaving' \in BOOLEAN
    BY DEF ProbeInitPriv
  <2>4. binds' \in Nat
    BY DEF Inv, TypeOK, ProbeInitPriv
  <2>5. held' \subseteq Resources /\ ptr' \subseteq Pointers
    BY <1>0 DEF Inv, TypeOK, Resources, Pointers
  <2> QED  BY <2>1, <2>2, <2>3, <2>4, <2>5 DEF Inv, TypeOK, ProbeInitPriv
<1>2. IrqInv'
  BY <1>0 DEF Inv, IrqInv, While, ProbeInitPriv
<1>3. BoundInv'
  BY DEF Inv, BoundInv, ProbePlaces, DeinitPlaces, ProbeInitPriv
<1>4. PeacefulInv'
  BY DEF Inv, PeacefulInv, While, Peaceful, Busy, SharedLine, Smp, Failures,
         ProbeInitPriv
<1>5. HeldInv'
  BY <1>0 DEF Inv, HeldInv, While, ProbePlaces, ProbeInitPriv
<1>6. LostInv'
  BY <1>0 DEF Inv, LostInv, HeldInv, While, ProbePlaces, ProbeInitPriv,
         RegionHeads
<1> QED  BY <1>1, <1>2, <1>3, <1>4, <1>5, <1>6 DEF Inv

\* init_misc_dev: a device that is not registered has its pointer set.
LEMMA ProbeInitMiscInv ==
    ASSUME Inv, ProbeInitMisc
    PROVE  Inv'
<1>1. TypeOK'
  <2>1. failed' \subseteq AllFailures
    BY DEF Inv, TypeOK, AllFailures, ProbeInitMisc, Fails, Proceeds
  <2>2. ret' \in Int /\ pc' \in ProbePlaces \cup DeinitPlaces
    BY DEF Inv, TypeOK, ProbePlaces, DeinitPlaces, ProbeInitMisc, Fails,
           Proceeds
  <2>3. held' \subseteq Resources /\ ptr' \subseteq Pointers
    BY DEF Inv, TypeOK, Resources, Pointers, ProbeInitMisc
  <2> QED  BY <2>1, <2>2, <2>3 DEF Inv, TypeOK, ProbeInitMisc, others
<1>2. IrqInv'
  BY DEF Inv, IrqInv, While, ProbeInitMisc, others
<1>3. BoundInv'
  BY DEF Inv, TypeOK, BoundInv, DeinitPlaces, ProbeInitMisc, Fails, Proceeds
<1>4. PeacefulInv'
  BY DEF Inv, PeacefulInv, While, Peaceful, Busy, SharedLine, Smp, Failures,
         ProbeInitMisc, Fails, Proceeds, others
<1>5. HeldInv'
  BY DEF Inv, HeldInv, While, ProbePlaces, ProbeInitMisc, Fails,
         Proceeds
<1>6. LostInv'
  BY DEF Inv, LostInv, ProbePlaces, ProbeInitMisc, Fails, Proceeds
<1> QED  BY <1>1, <1>2, <1>3, <1>4, <1>5, <1>6 DEF Inv

\* aipu_create_sysfs sets the pointer aipu_destroy_sysfs follows.
LEMMA ProbeCreateSysfsInv ==
    ASSUME Inv, ProbeCreateSysfs
    PROVE  Inv'
<1>1. TypeOK'
  BY DEF Inv, TypeOK, Resources, Pointers, ProbePlaces, AllFailures,
         ProbeCreateSysfs, Proceeds, others
<1>2. IrqInv'
  BY DEF Inv, IrqInv, While, ProbeCreateSysfs, others
<1>3. BoundInv'
  BY DEF Inv, TypeOK, BoundInv, DeinitPlaces, ProbeCreateSysfs, Proceeds
<1>4. PeacefulInv'
  BY DEF Inv, PeacefulInv, Peaceful, Busy, SharedLine, Smp, Failures,
         ProbeCreateSysfs, others
<1>5. HeldInv'
  BY DEF Inv, HeldInv, While, ProbePlaces, ProbeCreateSysfs, Proceeds
<1>6. LostInv'
  BY DEF Inv, LostInv, ProbePlaces, ProbeCreateSysfs, Proceeds
<1> QED  BY <1>1, <1>2, <1>3, <1>4, <1>5, <1>6 DEF Inv

\* platform_get_resource acquires nothing.
LEMMA ProbeGetResourcesInv ==
    ASSUME Inv, ProbeGetResources
    PROVE  Inv'
<1>1. TypeOK'
  <2>1. failed' \subseteq AllFailures
    BY DEF Inv, TypeOK, AllFailures, ProbeGetResources, Fails, Proceeds
  <2>2. ret' \in Int /\ pc' \in ProbePlaces \cup DeinitPlaces
    BY DEF Inv, TypeOK, ProbePlaces, DeinitPlaces, ProbeGetResources, Fails,
           Proceeds
  <2> QED  BY <2>1, <2>2 DEF Inv, TypeOK, ProbeGetResources, others
<1>2. IrqInv'
  BY DEF Inv, IrqInv, While, ProbeGetResources, others
<1>3. BoundInv'
  BY DEF Inv, TypeOK, BoundInv, DeinitPlaces, ProbeGetResources, Fails,
         Proceeds
<1>4. PeacefulInv'
  BY DEF Inv, PeacefulInv, While, Peaceful, Busy, SharedLine, Smp, Failures,
         ProbeGetResources, others
<1>5. HeldInv'
  BY DEF Inv, HeldInv, While, ProbePlaces, ProbeGetResources, Fails,
         Proceeds
<1>6. LostInv'
  BY DEF Inv, LostInv, ProbePlaces, ProbeGetResources, Fails, Proceeds
<1> QED  BY <1>1, <1>2, <1>3, <1>4, <1>5, <1>6 DEF Inv

\* The I/O region of the core: an error path that keeps the reservation is
\* one of those Clean rules out.
LEMMA ProbeCreateCoreInv ==
    ASSUME Inv, ProbeCreateCore
    PROVE  Inv'
<1>1. TypeOK'
  <2>1. failed' \subseteq AllFailures
    BY DEF Inv, TypeOK, AllFailures, ProbeCreateCore, Fails, Proceeds,
           CreateIoRegion, Req, Map
  <2>2. ret' \in Int /\ pc' \in ProbePlaces \cup DeinitPlaces
    BY DEF Inv, TypeOK, ProbePlaces, DeinitPlaces, ProbeCreateCore, Fails,
           Proceeds, CreateIoRegion, Req, Map
  <2>3. held' \subseteq Resources /\ ptr' \subseteq Pointers
    BY DEF Inv, TypeOK, Resources, ProbeCreateCore, CreateIoRegion, Req, Map
  <2> QED  BY <2>1, <2>2, <2>3 DEF Inv, TypeOK, ProbeCreateCore, others
<1>2. IrqInv'
  BY DEF Inv, IrqInv, While, ProbeCreateCore, CreateIoRegion, Req, Map, others
<1>3. BoundInv'
  BY DEF Inv, TypeOK, BoundInv, DeinitPlaces, ProbeCreateCore, Fails, Proceeds,
         CreateIoRegion, Req, Map
<1>4. PeacefulInv'
  BY DEF Inv, PeacefulInv, While, Peaceful, Busy, SharedLine, Smp, Failures,
         ProbeCreateCore, CreateIoRegion, Req, Map, others
<1>5. HeldInv'
  BY DEF Inv, HeldInv, While, ProbePlaces, ProbeCreateCore, Fails,
         Proceeds, CreateIoRegion, Req, Map
<1>6. LostInv'
  BY DEF Inv, LostInv, ProbePlaces, ProbeCreateCore, Fails, Proceeds,
         CreateIoRegion, Req, Map
<1> QED  BY <1>1, <1>2, <1>3, <1>4, <1>5, <1>6 DEF Inv

\* aipu_create_irq_object: the line, the queue and core0 come together, or
\* the probe has lost its I/O region.
LEMMA ProbeCreateIrqInv ==
    ASSUME Inv, ProbeCreateIrq
    PROVE  Inv'
<1>1. TypeOK'
  <2>1. failed' \subseteq AllFailures
    BY DEF Inv, TypeOK, AllFailures, ProbeCreateIrq, Fails, Proceeds
  <2>2. ret' \in Int /\ pc' \in ProbePlaces \cup DeinitPlaces
    BY DEF Inv, TypeOK, ProbePlaces, DeinitPlaces, ProbeCreateIrq, Fails,
           Proceeds
  <2>3. held' \subseteq Resources /\ ptr' \subseteq Pointers
    BY DEF Inv, TypeOK, Resources, Pointers, ProbeCreateIrq
  <2> QED  BY <2>1, <2>2, <2>3 DEF Inv, TypeOK, ProbeCreateIrq, others
<1>2. IrqInv'
  BY DEF Inv, IrqInv, While, ProbeCreateIrq, Proceeds, others
<1>3. BoundInv'
  BY DEF Inv, TypeOK, BoundInv, DeinitPlaces, ProbeCreateIrq, Fails, Proceeds
<1>4. PeacefulInv'
  BY DEF Inv, PeacefulInv, While, Peaceful, Busy, SharedLine, Smp, Failures,
         ProbeCreateIrq, others
<1>5. HeldInv'
  BY DEF Inv, HeldInv, While, ProbePlaces, ProbeCreateIrq, Fails, Proceeds,
         Mapped
<1>6. LostInv'
  BY DEF Inv, LostInv, ProbePlaces, ProbeCreateIrq, Fails, Proceeds,
         Mapped
<1> QED  BY <1>1, <1>2, <1>3, <1>4, <1>5, <1>6 DEF Inv

\* aipu_init_job_manager runs once.
LEMMA ProbeInitJobManagerInv ==
    ASSUME Inv, ProbeInitJobManager
    PROVE  Inv'
<1>1. TypeOK'
  <2>1. failed' \subseteq AllFailures
    BY DEF Inv, TypeOK, AllFailures, ProbeInitJobManager, Fails, Proceeds
  <2>2. ret' \in Int /\ pc' \in ProbePlaces \cup DeinitPlaces
    BY DEF Inv, TypeOK, ProbePlaces, DeinitPlaces, ProbeInitJobManager, Fails,
           Proceeds
  <2> QED  BY <2>1, <2>2 DEF Inv, TypeOK, ProbeInitJobManager, others
<1>2. IrqInv'
  BY DEF Inv, IrqInv, While, ProbeInitJobManager, Fails, Proceeds, others
<1>3. BoundInv'
  BY DEF Inv, TypeOK, BoundInv, DeinitPlaces, ProbeInitJobManager, Fails,
         Proceeds
<1>4. PeacefulInv'
  BY DEF Inv, PeacefulInv, While, Peaceful, Busy, SharedLine, Smp, Failures,
         ProbeInitJobManager, others
<1>5. HeldInv'
  BY DEF Inv, HeldInv, While, ProbePlaces, ProbeInitJobManager, Fails,
         Proceeds
<1>6. LostInv'
  BY DEF Inv, LostInv, ProbePlaces, ProbeInitJobManager, Fails, Proceeds
<1> QED  BY <1>1, <1>2, <1>3, <1>4, <1>5, <1>6 DEF Inv

\* The I/O region of the SoC, as that of the core.
LEMMA ProbeInitSocInv ==
    ASSUME Inv, ProbeInitSoc
    PROVE  Inv'
<1>1. TypeOK'
  <2>1. failed' \subseteq AllFailures
    BY DEF Inv, TypeOK, AllFailures, ProbeInitSoc, Fails, Proceeds,
           CreateIoRegion, Req, Map
  <2>2. ret' \in Int /\ pc' \in ProbePlaces \cup DeinitPlaces
    BY DEF Inv, TypeOK, ProbePlaces, DeinitPlaces, ProbeInitSoc, Fails,
           Proceeds, CreateIoRegion, Req, Map
  <2>3. held' \subseteq Resources /\ ptr' \subseteq Pointers
    BY DEF Inv, TypeOK, Resources, Pointers, ProbeInitSoc, CreateIoRegion, Req,
           Map
  <2> QED  BY <2>1, <2>2, <2>3 DEF Inv, TypeOK, ProbeInitSoc, others
<1>2. IrqInv'
  BY DEF Inv, IrqInv, While, ProbeInitSoc, Fails, Proceeds, CreateIoRegion,
         Req, Map, others, HasSoc
<1>3. BoundInv'
  BY DEF Inv, TypeOK, BoundInv, DeinitPlaces, ProbeInitSoc, Fails, Proceeds,
         CreateIoRegion, Req, Map, HasSoc
<1>4. PeacefulInv'
  BY DEF Inv, PeacefulInv, While, Peaceful, Busy, SharedLine, Smp, Failures,
         ProbeInitSoc, CreateIoRegion, Req, Map, others, HasSoc
<1>5. HeldInv'
  BY DEF Inv, HeldInv, While, ProbePlaces, ProbeInitSoc, Fails,
         Proceeds, CreateIoRegion, Req, Map, HasSoc
<1>6. LostInv'
  BY DEF Inv, LostInv, ProbePlaces, ProbeInitSoc, Fails, Proceeds,
         CreateIoRegion, Req, Map, HasSoc
<1> QED  BY <1>1, <1>2, <1>3, <1>4, <1>5, <1>6 DEF Inv

\* The memory region: the error path that returns 0 comes after the job
\* manager.
LEMMA ProbeMemoryRegionInv ==
    ASSUME Inv, ProbeMemoryRegion
    PROVE  Inv'
<1>1. TypeOK'
  <2>1. failed' \subseteq AllFailures
    BY DEF Inv, TypeOK, AllFailures, ProbeMemoryRegion, MemoryRegionFails,
           Fails, Proceeds
  <2>2. ret' \in Int /\ pc' \in ProbePlaces \cup DeinitPlaces
    BY DEF Inv, TypeOK, ProbePlaces, DeinitPlaces, ProbeMemoryRegion,
           MemoryRegionFails, Fails, Proceeds
  <2>3. held' \subseteq Resources /\ ptr' \subseteq Pointers
    BY DEF Inv, TypeOK, Resources, ProbeMemoryRegion, MemoryRegionFails
  <2> QED  BY <2>1, <2>2, <2>3 DEF Inv, TypeOK, ProbeMemoryRegion
<1>2. IrqInv'
  BY DEF Inv, IrqInv, While, ProbeMemoryRegion, MemoryRegionFails, Fails,
         Proceeds
<1>3. BoundInv'
  BY DEF Inv, TypeOK, BoundInv, DeinitPlaces, ProbeMemoryRegion,
         MemoryRegionFails, Fails, Proceeds
<1>4. PeacefulInv'
  BY DEF Inv, PeacefulInv, While, Peaceful, Busy, SharedLine, Smp, Failures,
         ProbeMemoryRegion, MemoryRegionFails, Fails, Proceeds
<1>5. HeldInv'
  BY DEF Inv, HeldInv, While, ProbePlaces, ProbeMemoryRegion,
         MemoryRegionFails, Fails, Proceeds
<1>6. LostInv'
  BY DEF Inv, LostInv, ProbePlaces, ProbeMemoryRegion, MemoryRegionFails,
         Fails, Proceeds
<1> QED  BY <1>1, <1>2, <1>3, <1>4, <1>5, <1>6 DEF Inv

\* aipu_priv_enable_interrupt touches one register.
LEMMA ProbeEnableInterruptInv ==
    ASSUME Inv, ProbeEnableInterrupt
    PROVE  Inv'
<1>1. TypeOK'
  BY DEF Inv, TypeOK, ProbePlaces, AllFailures, ProbeEnableInterrupt, Proceeds
<1>2. IrqInv'
  BY DEF Inv, IrqInv, While, ProbeEnableInterrupt, Proceeds
<1>3. BoundInv'
  BY DEF Inv, TypeOK, BoundInv, DeinitPlaces, ProbeEnableInterrupt, Proceeds
<1>4. PeacefulInv'
  BY DEF Inv, PeacefulInv, While, Peaceful, Busy, SharedLine, Smp, Failures,
         ProbeEnableInterrupt
<1>5. HeldInv'
  BY DEF Inv, HeldInv, While, ProbePlaces, ProbeEnableInterrupt,
         Proceeds
<1>6. LostInv'
  BY DEF Inv, LostInv, ProbePlaces, ProbeEnableInterrupt, Proceeds
<1> QED  BY <1>1, <1>2, <1>3, <1>4, <1>5, <1>6 DEF Inv

\* platform_set_drvdata: from here on the device is bound.
LEMMA ProbeSetDrvdataInv ==
    ASSUME Inv, ProbeSetDrvdata
    PROVE  Inv'
<1>1. TypeOK'
  BY DEF Inv, TypeOK, Pointers, AllFailures, ProbeSetDrvdata, Proceeds, others
<1>2. IrqInv'
  BY DEF Inv, IrqInv, While, ProbeSetDrvdata, Proceeds, others
<1>3. BoundInv'
  BY DEF Inv, BoundInv, ProbePlaces, DeinitPlaces, ProbeSetDrvdata, Running,
         Proceeds, others
<1>4. PeacefulInv'
  BY DEF Inv, PeacefulInv, While, Peaceful, Busy, SharedLine, Smp, Failures,
         ProbeSetDrvdata, others
<1>5. HeldInv'
  BY DEF Inv, HeldInv, While, ProbeSetDrvdata, Proceeds
<1>6. LostInv'
  BY DEF Inv, LostInv, ProbeSetDrvdata, Proceeds, ProbePlaces
<1> QED  BY <1>1, <1>2, <1>3, <1>4, <1>5, <1>6 DEF Inv

\* aipu_remove starts deinit_aipu_priv, or finds no drvdata and then nothing
\* is held.
LEMMA RemoveInv ==
    ASSUME Inv, Remove
    PROVE  Inv'
<1>1. TypeOK'
  BY DEF Inv, TypeOK, DeinitPlaces, AllFailures, Remove
<1>2. IrqInv'
  BY DEF Inv, IrqInv, While, Remove
<1>3. BoundInv'
  BY DEF Inv, BoundInv, ProbePlaces, Remove
<1>4. PeacefulInv'
  BY DEF Inv, PeacefulInv, While, Peaceful, Busy, SharedLine, Smp, Failures,
         Remove, Running
<1>5. HeldInv'
  BY DEF Inv, HeldInv, While, ProbePlaces, Remove
<1>6. LostInv'
  BY DEF Inv, LostInv, ProbePlaces, Remove
<1> QED  BY <1>1, <1>2, <1>3, <1>4, <1>5, <1>6 DEF Inv

\* aipu_destroy_sysfs finds its pointer set on a platform without disturbances.
LEMMA DeinitSysfsInv ==
    ASSUME Inv, DeinitSysfs
    PROVE  Inv'
<1>1. TypeOK'
  BY DEF Inv, TypeOK, DeinitPlaces, AllFailures, DeinitSysfs, Deinit
<1>2. IrqInv'
  BY DEF Inv, IrqInv, While, DeinitSysfs, Deinit
<1>3. BoundInv'
  BY DEF Inv, TypeOK, BoundInv, ProbePlaces, DeinitSysfs, Deinit
<1>4. PeacefulInv'
  BY DEF Inv, PeacefulInv, While, Peaceful, Busy, SharedLine, Smp, Failures,
         DeinitSysfs, Deinit
<1>5. HeldInv'
  BY DEF Inv, HeldInv, While, DeinitSysfs, Deinit
<1>6. LostInv'
  BY DEF Inv, LostInv, DeinitSysfs, Deinit, ProbePlaces
<1> QED  BY <1>1, <1>2, <1>3, <1>4, <1>5, <1>6 DEF Inv

\* The memory region is given back.
LEMMA DeinitMmInv ==
    ASSUME Inv, DeinitMm
    PROVE  Inv'
<1>1. TypeOK'
  BY DEF Inv, TypeOK, DeinitPlaces, AllFailures, DeinitMm, Deinit
<1>2. IrqInv'
  BY DEF Inv, IrqInv, While, DeinitMm, Deinit
<1>3. BoundInv'
  BY DEF Inv, TypeOK, BoundInv, ProbePlaces, DeinitMm, Deinit
<1>4. PeacefulInv'
  BY DEF Inv, PeacefulInv, While, Peaceful, Busy, SharedLine, Smp, Failures,
         DeinitMm, Deinit
<1>5. HeldInv'
  BY DEF Inv, HeldInv, While, ProbePlaces, DeinitMm, Deinit
<1>6. LostInv'
  BY DEF Inv, LostInv, ProbePlaces, DeinitMm, Deinit
<1> QED  BY <1>1, <1>2, <1>3, <1>4, <1>5, <1>6 DEF Inv

\* misc_deregister.
LEMMA DeinitMiscInv ==
    ASSUME Inv, DeinitMisc
    PROVE  Inv'
<1>1. TypeOK'
  BY DEF Inv, TypeOK, DeinitPlaces, AllFailures, DeinitMisc, Deinit
<1>2. IrqInv'
  BY DEF Inv, IrqInv, While, DeinitMisc, Deinit
<1>3. BoundInv'
  BY DEF Inv, TypeOK, BoundInv, ProbePlaces, DeinitMisc, Deinit
<1>4. PeacefulInv'
  BY DEF Inv, PeacefulInv, While, Peaceful, Busy, SharedLine, Smp, Failures,
         DeinitMisc, Deinit
<1>5. HeldInv'
  BY DEF Inv, HeldInv, While, ProbePlaces, DeinitMisc, Deinit
<1>6. LostInv'
  BY DEF Inv, LostInv, ProbePlaces, DeinitMisc, Deinit
<1> QED  BY <1>1, <1>2, <1>3, <1>4, <1>5, <1>6 DEF Inv

\* The I/O region of the SoC is given back, if the SoC was created.
LEMMA DeinitSocInv ==
    ASSUME Inv, DeinitSoc
    PROVE  Inv'
<1>1. TypeOK'
  BY DEF Inv, TypeOK, DeinitPlaces, AllFailures, DeinitSoc, Deinit,
         DestroyIoRegion, Req, Map
<1>2. IrqInv'
  BY DEF Inv, IrqInv, While, DeinitSoc, Deinit, DestroyIoRegion, Req, Map
<1>3. BoundInv'
  BY DEF Inv, TypeOK, BoundInv, ProbePlaces, DeinitSoc, Deinit,
         DestroyIoRegion, Req, Map
<1>4. PeacefulInv'
  BY DEF Inv, PeacefulInv, While, Peaceful, Busy, SharedLine, Smp, Failures,
         DeinitSoc, Deinit, DestroyIoRegion, Req, Map
<1>5. HeldInv'
  BY DEF Inv, HeldInv, While, ProbePlaces, DeinitSoc, Deinit,
         DestroyIoRegion, Req, Map
<1>6. LostInv'
  BY DEF Inv, LostInv, ProbePlaces, DeinitSoc, Deinit, DestroyIoRegion, Req,
         Map
<1> QED  BY <1>1, <1>2, <1>3, <1>4, <1>5, <1>6 DEF Inv

\* The I/O region of the core is given back, if the core was created.
LEMMA DeinitCoreInv ==
    ASSUME Inv, DeinitCore
    PROVE  Inv'
<1>1. TypeOK'
  BY DEF Inv, TypeOK, DeinitPlaces, AllFailures, DeinitCore, Deinit,
         DestroyIoRegion, Req, Map
<1>2. IrqInv'
  BY DEF Inv, IrqInv, While, DeinitCore, Deinit, DestroyIoRegion, Req, Map
<1>3. BoundInv'
  BY DEF Inv, TypeOK, BoundInv, ProbePlaces, DeinitCore, Deinit,
         DestroyIoRegion, Req, Map
<1>4. PeacefulInv'
  BY DEF Inv, PeacefulInv, While, Peaceful, Busy, SharedLine, Smp, Failures,
         DeinitCore, Deinit, DestroyIoRegion, Req, Map
<1>5. HeldInv'
  BY DEF Inv, HeldInv, While, ProbePlaces, DeinitCore, Deinit,
         DestroyIoRegion, Req, Map
<1>6. LostInv'
  BY DEF Inv, LostInv, ProbePlaces, DeinitCore, Deinit, DestroyIoRegion,
         Req, Map
<1> QED  BY <1>1, <1>2, <1>3, <1>4, <1>5, <1>6 DEF Inv

\* The work queue goes when no work is queued.
LEMMA DeinitWorkqueueInv ==
    ASSUME Inv, DeinitWorkqueue
    PROVE  Inv'
<1>1. TypeOK'
  BY DEF Inv, TypeOK, DeinitPlaces, AllFailures, DeinitWorkqueue, Deinit
<1>2. IrqInv'
  BY DEF Inv, IrqInv, While, DeinitWorkqueue, Deinit
<1>3. BoundInv'
  BY DEF Inv, TypeOK, BoundInv, ProbePlaces, DeinitWorkqueue, Deinit
<1>4. PeacefulInv'
  BY DEF Inv, PeacefulInv, While, Peaceful, Busy, SharedLine, Smp, Failures,
         DeinitWorkqueue, Deinit
<1>5. HeldInv'
  BY DEF Inv, HeldInv, While, ProbePlaces, DeinitWorkqueue, Deinit
<1>6. LostInv'
  BY DEF Inv, LostInv, ProbePlaces, DeinitWorkqueue, Deinit
<1> QED  BY <1>1, <1>2, <1>3, <1>4, <1>5, <1>6 DEF Inv

\* The line goes when no upper half runs.
LEMMA DeinitIrqInv ==
    ASSUME Inv, DeinitIrq
    PROVE  Inv'
<1>1. TypeOK'
  BY DEF Inv, TypeOK, DeinitPlaces, AllFailures, DeinitIrq, Deinit
<1>2. IrqInv'
  BY DEF Inv, IrqInv, DeinitIrq, Deinit
<1>3. BoundInv'
  BY DEF Inv, TypeOK, BoundInv, ProbePlaces, DeinitIrq, Deinit
<1>4. PeacefulInv'
  BY DEF Inv, PeacefulInv, While, Peaceful, Busy, SharedLine, Smp, Failures,
         DeinitIrq, Deinit
<1>5. HeldInv'
  BY DEF Inv, HeldInv, While, ProbePlaces, DeinitIrq, Deinit
<1>6. LostInv'
  BY DEF Inv, LostInv, ProbePlaces, DeinitIrq, Deinit
<1> QED  BY <1>1, <1>2, <1>3, <1>4, <1>5, <1>6 DEF Inv

\* The end of deinit_aipu_priv: nothing is held, whoever called it.
LEMMA DeinitDoneInv ==
    ASSUME Inv, DeinitDone
    PROVE  Inv'
<1>1. TypeOK'
  BY DEF Inv, TypeOK, AllFailures, DeinitDone
<1>2. IrqInv'
  BY DEF Inv, IrqInv, While, DeinitDone
<1>3. BoundInv'
  BY DEF Inv, TypeOK, BoundInv, ProbePlaces, DeinitDone, Running
<1>4. PeacefulInv'
  BY DEF Inv, TypeOK, BoundInv, PeacefulInv, While, Peaceful, Busy, SharedLine,
         Smp, Failures, DeinitDone
<1>5. HeldInv'
  BY DEF Inv, HeldInv, While, ProbePlaces, DeinitDone
<1>6. LostInv'
  BY DEF Inv, LostInv, ProbePlaces, DeinitDone
<1> QED  BY <1>1, <1>2, <1>3, <1>4, <1>5, <1>6 DEF Inv

\* The core ends a job.
LEMMA HwDoneInv ==
    ASSUME Inv, HwDone
    PROVE  Inv'
<1>1. TypeOK'
  BY DEF Inv, TypeOK, AllFailures, HwDone
<1>2. IrqInv'
  BY DEF Inv, IrqInv, While, HwDone
<1>3. BoundInv'
  BY DEF Inv, BoundInv, HwDone
<1>4. PeacefulInv'
  BY DEF Inv, PeacefulInv, While, Peaceful, Busy, SharedLine, Smp, Failures,
         HwDone
<1>5. HeldInv'
  BY DEF Inv, HeldInv, While, HwDone
<1>6. LostInv'
  BY DEF Inv, LostInv, HwDone, ProbePlaces
<1> QED  BY <1>1, <1>2, <1>3, <1>4, <1>5, <1>6 DEF Inv

\* The upper half finds drvdata and core0 on a platform without disturbances.
LEMMA UhEnterInv ==
    ASSUME Inv, UhEnter
    PROVE  Inv'
<1>1. TypeOK'
  BY DEF Inv, TypeOK, AllFailures, UhEnter
<1>2. IrqInv'
  BY DEF Inv, IrqInv, While, UhEnter
<1>3. BoundInv'
  BY DEF Inv, IrqInv, BoundInv, While, UhEnter
<1>4. PeacefulInv'
  BY DEF Inv, IrqInv, PeacefulInv, While, Peaceful, Busy, SharedLine, Smp,
         Failures, UhEnter
<1>5. HeldInv'
  BY DEF Inv, HeldInv, While, UhEnter
<1>6. LostInv'
  BY DEF Inv, LostInv, UhEnter, ProbePlaces
<1> QED  BY <1>1, <1>2, <1>3, <1>4, <1>5, <1>6 DEF Inv

\* aipu_irq_schedulework finds the work queue there.
LEMMA UhQueueInv ==
    ASSUME Inv, UhQueue
    PROVE  Inv'
<1>1. TypeOK'
  BY DEF Inv, TypeOK, AllFailures, UhQueue
<1>2. IrqInv'
  BY DEF Inv, IrqInv, While, UhQueue
<1>3. BoundInv'
  BY DEF Inv, IrqInv, BoundInv, UhQueue
<1>4. PeacefulInv'
  BY DEF Inv, IrqInv, PeacefulInv, While, Peaceful, Busy, SharedLine, Smp,
         Failures, UhQueue
<1>5. HeldInv'
  BY DEF Inv, HeldInv, While, UhQueue
<1>6. LostInv'
  BY DEF Inv, LostInv, UhQueue, ProbePlaces
<1> QED  BY <1>1, <1>2, <1>3, <1>4, <1>5, <1>6 DEF Inv

\* The bottom half runs while there is a work queue.
LEMMA BottomHalfInv ==
    ASSUME Inv, BottomHalf
    PROVE  Inv'
<1>1. TypeOK'
  BY DEF Inv, TypeOK, AllFailures, BottomHalf
<1>2. IrqInv'
  BY DEF Inv, IrqInv, While, BottomHalf
<1>3. BoundInv'
  BY DEF Inv, IrqInv, BoundInv, BottomHalf
<1>4. PeacefulInv'
  BY DEF Inv, IrqInv, PeacefulInv, While, Peaceful, Busy, SharedLine, Smp,
         Failures, BottomHalf
<1>5. HeldInv'
  BY DEF Inv, HeldInv, While, BottomHalf
<1>6. LostInv'
  BY DEF Inv, LostInv, BottomHalf, ProbePlaces
<1> QED  BY <1>1, <1>2, <1>3, <1>4, <1>5, <1>6 DEF Inv

\* A file is opened.
LEMMA OpenInv ==
    ASSUME Inv, Open
    PROVE  Inv'
<1>1. TypeOK'
  BY DEF Inv, TypeOK, AllFailures, Open
<1>2. IrqInv'
  BY DEF Inv, IrqInv, While, Open
<1>3. BoundInv'
  BY DEF Inv, BoundInv, Open
<1>4. PeacefulInv'
  BY DEF Inv, PeacefulInv, While, Peaceful, Busy, SharedLine, Smp, Failures,
         Open
<1>5. HeldInv'
  BY DEF Inv, HeldInv, While, Open
<1>6. LostInv'
  BY DEF Inv, LostInv, Open, ProbePlaces
<1> QED  BY <1>1, <1>2, <1>3, <1>4, <1>5, <1>6 DEF Inv

\* A file is closed.
LEMMA CloseInv ==
    ASSUME Inv, Close
    PROVE  Inv'
<1>1. TypeOK'
  BY DEF Inv, TypeOK, AllFailures, Close, Running
<1>2. IrqInv'
  BY DEF Inv, IrqInv, While, Close
<1>3. BoundInv'
  BY DEF Inv, BoundInv, Close
<1>4. PeacefulInv'
  BY DEF Inv, PeacefulInv, While, Peaceful, Busy, SharedLine, Smp, Failures,
         Close
<1>5. HeldInv'
  BY DEF Inv, HeldInv, While, Close
<1>6. LostInv'
  BY DEF Inv, LostInv, Close, ProbePlaces
<1> QED  BY <1>1, <1>2, <1>3, <1>4, <1>5, <1>6 DEF Inv

\* A job of a bound device finds the job manager.
LEMMA RunJobInv ==
    ASSUME Inv, RunJob
    PROVE  Inv'
<1>1. TypeOK'
  BY DEF Inv, TypeOK, AllFailures, RunJob
<1>2. IrqInv'
  BY DEF Inv, IrqInv, While, RunJob
<1>3. BoundInv'
  BY DEF Inv, BoundInv, RunJob
<1>4. PeacefulInv'
  BY DEF Inv, BoundInv, PeacefulInv, While, Peaceful, Busy, SharedLine, Smp,
         Failures, RunJob
<1>5. HeldInv'
  BY DEF Inv, HeldInv, While, RunJob
<1>6. LostInv'
  BY DEF Inv, LostInv, RunJob, ProbePlaces
<1> QED  BY <1>1, <1>2, <1>3, <1>4, <1>5, <1>6 DEF Inv

-----------------------------------------------------------------------------
(* The theorems. *)

\* The initial state: nothing is held and nothing runs.
LEMMA InitInv ==
    ASSUME Init
    PROVE  Inv
<1>1. TypeOK
  <2>1. leaving \in BOOLEAN /\ init_done \in BOOLEAN /\ file \in BOOLEAN
    BY DEF Init
  <2>2. pc \in ProbePlaces \cup DeinitPlaces \cup {"unbound", "bound"}
    BY DEF Init
  <2> QED  BY <2>1, <2>2 DEF Init, TypeOK
<1>2. IrqInv /\ BoundInv /\ PeacefulInv /\ HeldInv /\ LostInv
  BY DEF Init, IrqInv, BoundInv, PeacefulInv, HeldInv, LostInv, While,
         ProbePlaces, DeinitPlaces
<1> QED  BY <1>1, <1>2 DEF Inv

\* Every step of the probe, of the remove, of the interrupt and of the users
\* preserves the invariant.
LEMMA NextInv ==
    ASSUME Inv, [Next]_vars
    PROVE  Inv'
<1>1. CASE UNCHANGED vars
  BY <1>1 DEF vars, Inv, TypeOK, IrqInv, BoundInv, PeacefulInv, HeldInv,
         LostInv, While, Peaceful, Busy, SharedLine, Smp, Failures
<1>2. CASE Probe
  BY <1>2, ProbeInitPrivInv, ProbeInitMiscInv, ProbeCreateSysfsInv,
     ProbeGetResourcesInv, ProbeCreateCoreInv, ProbeCreateIrqInv,
     ProbeInitJobManagerInv, ProbeInitSocInv, ProbeMemoryRegionInv,
     ProbeEnableInterruptInv, ProbeSetDrvdataInv DEF Probe
<1>3. CASE Teardown
  BY <1>3, RemoveInv, DeinitSysfsInv, DeinitMmInv, DeinitMiscInv, DeinitSocInv,
     DeinitCoreInv, DeinitWorkqueueInv, DeinitIrqInv, DeinitDoneInv DEF
            Teardown
<1>4. CASE HwDone \/ UhEnter \/ UhQueue \/ BottomHalf \/ Open \/ Close \/ RunJob
  BY <1>4, HwDoneInv, UhEnterInv, UhQueueInv, BottomHalfInv, OpenInv, CloseInv,
     RunJobInv
<1> QED  BY <1>1, <1>2, <1>3, <1>4 DEF Next

\* What a behaviour of the driver never leaves.
LEMMA Invariance == Spec => []Inv
<1>1. Init => Inv
  BY InitInv
<1>2. Inv /\ [Next]_vars => Inv'
  BY NextInv
<1> QED  BY <1>1, <1>2, PTL DEF Spec

\* The variables keep their types.
THEOREM TypeCorrect == Spec => []TypeOK
<1>1. Inv => TypeOK
  BY DEF Inv
<1> QED  BY <1>1, Invariance, PTL

\* For every platform and whichever calls fail: a bound device is never used
\* without its driver data, its job manager or its work queue, and where users
\* and interrupts stay away from a probe and a remove, no step of either follows
\* a NULL pointer (aipu_probe, aipu_remove, aipu_irq_handler_upper_half), but for
\* the calls NoFault excepts.
THEOREM NoFaultEver == Spec => []NoFault
<1>1. Inv => NoFault
  BY DEF Inv, BoundInv, PeacefulInv, Peaceful, NoFault
<1> QED  BY <1>1, Invariance, PTL

\* For every platform and whichever calls fail: a driver that is not bound holds
\* the list heads of aipu_init_mm and, of everything else, only what the calls that
\* failed make aipu_probe lose (LostBy).
THEOREM NothingLeaksEver == Spec => []NothingLeaks
<1>1. Inv => NothingLeaks
  <2> SUFFICES ASSUME Inv, pc = "unbound",
                      NEW r \in held \ RegionHeads
               PROVE  r \in DOMAIN LostBy /\ LostBy[r] \cap failed # {}
    BY DEF NothingLeaks
  <2>1. r \in {"core_req", "soc_req", "stray_map", "node", "reserved", "cma"}
    BY DEF Inv, TypeOK, IrqInv, HeldInv, While, Resources, RegionHeads,
           ProbePlaces
  <2>2. r \in DOMAIN LostBy
    BY <2>1 DEF LostBy
  <2>3. "core_map" \notin held /\ "soc_map" \notin held
    BY DEF Inv, HeldInv, While
  <2>4. \E c \in failed : c \in LostBy[r]
    BY <2>1, <2>3 DEF Inv, LostInv, LostBy
  <2> QED  BY <2>2, <2>4
<1> QED  BY <1>1, Invariance, PTL
=============================================================================
