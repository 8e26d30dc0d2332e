----------------------------- MODULE AipuDriver -----------------------------
(***************************************************************************)
(* The life cycle of the kernel driver: aipu_probe and aipu_remove         *)
(* (aipu_platform_driver.c) with the constructors and destructors they     *)
(* call (aipu.c, aipu_core.c, aipu_irq.c, aipu_io.c, aipu_soc.c,           *)
(* aipu_sysfs.c, aipu_job_manager.c), every one of which may fail, while   *)
(* interrupts arrive and users open and use /dev/aipu.                     *)
(*                                                                         *)
(* held is the set of kernel resources that are acquired, ptr the set of   *)
(* pointers that are not NULL.  The two differ where a constructor fails   *)
(* half way.  Memory of devm_kzalloc is the driver core's and not counted. *)
(* A step that follows a pointer that is NULL, or uses a resource that is  *)
(* gone, is recorded in fault and ends the behaviour.  SRAM regions are    *)
(* configured off (config.h), so there is one memory region.               *)
(***************************************************************************)
EXTENDS Integers, FiniteSets

CONSTANTS
    Setups,     \* the platforms and the surroundings to look at, see below
    MaxBinds    \* bound on the number of probes

\* Every call of the probe that can fail, by the name of the callee or of what it
\* should have made: region_head is a list head of aipu_init_mm, block_list one of
\* the two blocks of aipu_init_region, reserved_mem anything in aipu_mm_add_region
\* up to of_reserved_mem_device_init_by_idx, dma_alloc the calls that follow it
AllFailures == {"region_head", "misc_kzalloc", "misc_register", "get_resource",
                "core_kzalloc", "request_mem_region", "ioremap", "workqueue",
                "request_irq", "job_manager", "soc_region", "memory_region",
                "of_address_to_resource", "reserved_mem", "dma_alloc",
                "block_list"}

ASSUME DriverAssumption ==
    /\ Setups \subseteq
         [failures : SUBSET AllFailures, busy : BOOLEAN, shared_line : BOOLEAN,
          smp : BOOLEAN, has_soc : BOOLEAN]
    /\ MaxBinds \in Nat \ {0}

VARIABLES
    setup,      \* the member of Setups this behaviour is about
    pc,         \* where aipu_probe, aipu_remove or deinit_aipu_priv is
    held,       \* resources acquired and not released
    ptr,        \* misc, core0, soc and mm.ddr_head of aipu_priv, drvdata of the
                \* device and the static pointer of aipu_sysfs.c, if not NULL
    ret,        \* what aipu_probe is about to return, or returned last
    leaving,    \* deinit_aipu_priv was called by aipu_remove
    init_done,  \* job_manager.init_done
    intr,       \* interrupt enable bit of the core
    done,       \* the core has raised DONE
    uh,         \* upper half: "idle", or "queue" before aipu_irq_schedulework
    work,       \* the work item is queued
    file,       \* somebody has the node open
    binds,      \* probes so far
    failed,     \* history: the calls that failed
    fault       \* "none", or the first use of something that is not there

vars == <<setup, pc, held, ptr, ret, leaving, init_done, intr, done, uh, work,
          file, binds, failed, fault>>

\* what no step of the probe itself touches
others == <<setup, intr, done, uh, work, file, binds, fault>>

Failures == setup.failures       \* the calls of a probe that may fail
Busy == setup.busy               \* users and the core may be active at any time
SharedLine == setup.shared_line  \* another device may raise the interrupt line
Smp == setup.smp                 \* another CPU may run inside the upper half
HasSoc == setup.has_soc          \* the device tree has a SoC register region

Init ==
    /\ setup \in Setups
    /\ pc = "unbound"
    /\ held = {} /\ ptr = {} /\ failed = {}
    /\ ret = 0 /\ leaving = FALSE /\ init_done = FALSE
    /\ intr = 0 /\ done = 0 /\ uh = "idle" /\ work = 0
    /\ file = FALSE
    /\ binds = 0
    /\ fault = "none"

\* on one CPU nothing runs between the two steps of the upper half
Running == fault = "none" /\ (Smp \/ uh = "idle")

\* the registers of the core are mapped (region->kern is not NULL)
Mapped == "core_map" \in held

-----------------------------------------------------------------------------
(* aipu_probe.  Fails(c): callee c fails and the probe goes to its error   *)
(* label.  Proceeds: it goes on with the next call.                        *)

Fails(c, err) ==
    /\ c \in Failures
    /\ ret' = err
    /\ failed' = failed \cup {c}
    /\ pc' = "d_sysfs"

Proceeds(next) == pc' = next /\ UNCHANGED <<ret, failed>>

\* what aipu_init_mm allocates
RegionHeads == {"sram_head", "ddr_head"}

\* init_aipu_priv resets its pointers, then aipu_init_mm makes two list heads and
\* does not look whether it got them
ProbeInitPriv ==
    /\ Running /\ pc = "unbound" /\ binds < MaxBinds
    /\ binds' = binds + 1
    /\ pc' = "misc" /\ ret' = 0 /\ leaving' = FALSE
    /\ \E heads \in SUBSET RegionHeads :
          /\ heads = RegionHeads \/ "region_head" \in Failures
          /\ held' = held \cup heads
          /\ ptr' = (ptr \ {"misc", "core0", "soc", "ddr_head"})
                      \cup (heads \cap {"ddr_head"})
          /\ failed' = IF heads = RegionHeads THEN failed
                                              ELSE failed \cup {"region_head"}
    /\ UNCHANGED <<setup, init_done, intr, done, uh, work, file, fault>>

\* init_misc_dev: from here on the node can be opened
ProbeInitMisc ==
    /\ Running /\ pc = "misc"
    /\ \/ /\ Proceeds("sysfs")
          /\ ptr' = ptr \cup {"misc"} /\ held' = held \cup {"misc"}
       \/ Fails("misc_kzalloc", -12) /\ UNCHANGED <<ptr, held>>
       \/ Fails("misc_register", -16) /\ ptr' = ptr \cup {"misc"} /\ UNCHANGED held
    /\ UNCHANGED <<leaving, init_done, others>>

\* aipu_create_sysfs; the results of device_create_file are not looked at
ProbeCreateSysfs ==
    /\ Running /\ pc = "sysfs"
    /\ Proceeds("resources")
    /\ ptr' = ptr \cup {"sysfs"} /\ held' = held \cup {"sysfs"}
    /\ UNCHANGED <<leaving, init_done, others>>

\* platform_get_resource for the registers and for the interrupt
ProbeGetResources ==
    /\ Running /\ pc = "resources"
    /\ Proceeds("ioregion") \/ Fails("get_resource", -22)
    /\ UNCHANGED <<held, ptr, leaving, init_done, others>>

\* the reservation and the mapping of the I/O region of the core and of the SoC
Req == [core |-> "core_req", soc |-> "soc_req"]
Map == [core |-> "core_map", soc |-> "soc_map"]

\* aipu_create_ioregion: the error label returns the region, not NULL, so its
\* callers go on with a region that is not mapped
CreateIoRegion(r, next, err) ==
    /\ \/ /\ Req[r] \notin held
          /\ Proceeds(next)
          /\ held' = held \cup {Req[r], Map[r]}
       \/ /\ Req[r] \in held
          /\ Proceeds(next) /\ UNCHANGED held
       \/ /\ "request_mem_region" \in Failures
          /\ pc' = next
          /\ failed' = failed \cup {"request_mem_region"}
          /\ UNCHANGED <<ret, held>>
       \/ /\ Req[r] \notin held /\ "ioremap" \in Failures
          /\ pc' = next
          /\ failed' = failed \cup {"ioremap"}
          /\ held' = held \cup {Req[r]}
          /\ UNCHANGED ret
       \/ Fails(err, -14) /\ UNCHANGED held

\* create_aipu_core up to the I/O region
ProbeCreateCore ==
    /\ Running /\ pc = "ioregion"
    /\ CreateIoRegion("core", "irq", "core_kzalloc")
    /\ UNCHANGED <<ptr, leaving, init_done, others>>

\* create_aipu_core, the rest: aipu_create_irq_object destroys what it made when
\* it fails, create_aipu_core does not: core0 stays NULL, and with it goes the last
\* pointer to the I/O region, which stays reserved and mapped
ProbeCreateIrq ==
    /\ Running /\ pc = "irq"
    /\ \/ /\ Proceeds("jm")
          /\ held' = held \cup {"wq", "irq"} /\ ptr' = ptr \cup {"core0"}
       \/ /\ \E c \in {"workqueue", "request_irq"} : Fails(c, -14)
          /\ held' = IF Mapped THEN (held \ {"core_map"}) \cup {"stray_map"}
                               ELSE held
          /\ UNCHANGED ptr
    /\ UNCHANGED <<leaving, init_done, others>>

\* aipu_init_job_manager: init_done survives a remove, so it runs once
ProbeInitJobManager ==
    /\ Running /\ pc = "jm"
    /\ \/ Proceeds("soc") /\ init_done' = TRUE
       \/ ~init_done /\ Fails("job_manager", -12) /\ UNCHANGED init_done
    /\ UNCHANGED <<held, ptr, leaving, others>>

\* aipu_priv_init_soc and create_aipu_soc
ProbeInitSoc ==
    /\ Running /\ pc = "soc"
    /\ IF HasSoc
         THEN /\ CreateIoRegion("soc", "mem", "soc_region")
              /\ ptr' = IF pc' = "mem" THEN ptr \cup {"soc"} ELSE ptr
         ELSE Proceeds("mem") /\ UNCHANGED <<held, ptr>>
    /\ UNCHANGED <<leaving, init_done, others>>

\* The memory-region node; a failing of_address_to_resource leaves ret at 0.  The
\* node is put only when the region was added.  aipu_mm_add_region gives back
\* nothing: not the reserved memory when the DMA memory cannot be had, neither of
\* them when there is no list to link the region into.
MemoryRegionFails ==
    \/ Fails("memory_region", -12) /\ UNCHANGED held
    \/ Fails("of_address_to_resource", 0) /\ held' = held \cup {"node"}
    \/ Fails("reserved_mem", -12) /\ held' = held \cup {"node"}
    \/ Fails("dma_alloc", -12) /\ held' = held \cup {"node", "reserved"}
    \/ /\ "ddr_head" \notin ptr
       /\ ret' = -22 /\ pc' = "d_sysfs" /\ UNCHANGED failed
       /\ held' = held \cup {"node", "reserved", "cma"}

\* aipu_init_region links one new block to the other without looking whether it
\* got them
ProbeMemoryRegion ==
    /\ Running /\ pc = "mem"
    /\ \/ /\ "ddr_head" \in ptr
          /\ Proceeds("enable") /\ held' = held \cup {"region"}
          /\ UNCHANGED fault
       \/ MemoryRegionFails /\ UNCHANGED fault
       \/ /\ "block_list" \in Failures
          /\ failed' = failed \cup {"block_list"}
          /\ fault' = "block_list"
          /\ UNCHANGED <<pc, ret, held>>
    /\ UNCHANGED <<ptr, leaving, init_done, setup, intr, done, uh, work, file,
                   binds>>

\* aipu_priv_enable_interrupt: a write to an unmapped region does nothing
ProbeEnableInterrupt ==
    /\ Running /\ pc = "enable"
    /\ Proceeds("drvdata")
    /\ intr' = IF Mapped THEN 1 ELSE intr
    /\ UNCHANGED <<setup, held, ptr, leaving, init_done, done, uh, work, file,
                   binds, fault>>

\* platform_set_drvdata, and return 0
ProbeSetDrvdata ==
    /\ Running /\ pc = "drvdata"
    /\ Proceeds("bound")
    /\ ptr' = ptr \cup {"drvdata"}
    /\ UNCHANGED <<held, leaving, init_done, others>>

-----------------------------------------------------------------------------
(* aipu_remove and deinit_aipu_priv.                                       *)

\* a module with an open file is not unloaded, but its device may be unbound, and
\* a job may outlive its file: both only if Busy.  Without drvdata nothing is
\* released.
Remove ==
    /\ Running /\ pc = "bound"
    /\ Busy \/ (~file /\ done = 0)
    /\ leaving' = TRUE
    /\ IF "drvdata" \in ptr
         THEN pc' = "d_sysfs" /\ intr' = IF Mapped THEN 0 ELSE intr
         ELSE pc' = "unbound" /\ UNCHANGED intr
    /\ UNCHANGED <<setup, held, ptr, ret, init_done, done, uh, work, file,
                   binds, failed, fault>>

Deinit(from, next) ==
    /\ Running /\ pc = from
    /\ pc' = next
    /\ UNCHANGED <<setup, ret, leaving, init_done, intr, done, uh, work, file,
                   binds, failed>>

\* aipu_destroy_sysfs follows its static pointer without testing it
DeinitSysfs ==
    /\ Deinit("d_sysfs", "d_mm")
    /\ fault' = IF "sysfs" \in ptr THEN "none" ELSE "sysfs_pointer"
    /\ ptr' = ptr \ {"sysfs"} /\ held' = held \ {"sysfs"}

\* aipu_deinit_mm gives back the region in the list; the memset at its end drops
\* the list heads, which are never freed
DeinitMm ==
    /\ Deinit("d_mm", "d_misc")
    /\ held' = held \ {"region"}
    /\ ptr' = ptr \ {"ddr_head"}
    /\ UNCHANGED fault

\* misc_deregister on a device that is not registered only warns
DeinitMisc ==
    /\ Deinit("d_misc", "d_soc")
    /\ held' = IF "misc" \in ptr THEN held \ {"misc"} ELSE held
    /\ UNCHANGED <<ptr, fault>>

\* aipu_destroy_ioregion releases both, if the region is mapped
DestroyIoRegion(r) ==
    held' = IF Map[r] \in held THEN held \ {Req[r], Map[r]} ELSE held

DeinitSoc ==
    /\ Deinit("d_soc", "d_core")
    /\ IF "soc" \in ptr THEN DestroyIoRegion("soc") ELSE UNCHANGED held
    /\ UNCHANGED <<ptr, fault>>

\* destroy_aipu_core: first the I/O region
DeinitCore ==
    /\ Deinit("d_core", IF "core0" \in ptr THEN "d_wq" ELSE "d_end")
    /\ IF "core0" \in ptr THEN DestroyIoRegion("core") ELSE UNCHANGED held
    /\ UNCHANGED <<ptr, fault>>

\* Mutant: the work queue is destroyed without being drained.
DeinitWorkqueueUndrained ==
    /\ Deinit("d_wq", "d_irq")
    /\ held' = held \ {"wq"}
    /\ UNCHANGED <<ptr, fault>>

\* aipu_destroy_irq_object: the work queue is drained and destroyed ...
DeinitWorkqueue ==
    /\ Deinit("d_wq", "d_irq")
    /\ work = 0
    /\ held' = held \ {"wq"}
    /\ UNCHANGED <<ptr, fault>>

\* Mutant: the interrupt line is not given back.
DeinitIrqKeepsLine ==
    /\ Deinit("d_irq", "d_end")
    /\ uh = "idle"
    /\ UNCHANGED <<held, ptr, fault>>

\* ... and only then free_irq, which waits for a running handler
DeinitIrq ==
    /\ Deinit("d_irq", "d_end")
    /\ uh = "idle"
    /\ held' = held \ {"irq"}
    /\ UNCHANGED <<ptr, fault>>

\* aipu_deinit_job_manager empties the queues; then the caller returns.  The
\* driver core clears drvdata of a device that is no longer bound.
DeinitDone ==
    /\ Running /\ pc = "d_end"
    /\ pc' = IF ~leaving /\ ret = 0 THEN "bound" ELSE "unbound"
    /\ ptr' = IF pc' = "unbound" THEN ptr \ {"drvdata"} ELSE ptr
    /\ UNCHANGED <<setup, held, ret, leaving, init_done, intr, done, uh, work,
                   file, binds, failed, fault>>

-----------------------------------------------------------------------------
(* The device and the two interrupt halves.                                *)

\* A job that is on the core ends
HwDone ==
    /\ Running /\ Mapped /\ done = 0
    /\ pc = "bound" \/ Busy
    /\ done' = 1
    /\ UNCHANGED <<setup, pc, held, ptr, ret, leaving, init_done, intr, uh,
                   work, file, binds, failed, fault>>

\* aipu_irq_handler_upper_half follows drvdata and core0, then the handler of
\* the core disables the interrupt and reads the status, 0 when unmapped
UhEnter ==
    /\ Running /\ "irq" \in held /\ uh = "idle"
    /\ SharedLine \/ (intr = 1 /\ done = 1)
    /\ IF {"drvdata", "core0"} \subseteq ptr
         THEN /\ UNCHANGED fault
              /\ IF Mapped /\ done = 1
                   THEN intr' = 0 /\ done' = 0 /\ uh' = "queue"
                   ELSE UNCHANGED <<intr, done, uh>>
         ELSE fault' = "driver_data" /\ UNCHANGED <<intr, done, uh>>
    /\ UNCHANGED <<setup, pc, held, ptr, ret, leaving, init_done, work, file,
                   binds, failed>>

\* Mutant: the interrupt is not enabled again.
UhQueueStaysDisabled ==
    /\ fault = "none" /\ uh = "queue"
    /\ uh' = "idle"
    /\ IF "wq" \in held THEN work' = 1 /\ UNCHANGED fault
                        ELSE fault' = "workqueue" /\ UNCHANGED work
    /\ UNCHANGED <<setup, pc, held, ptr, ret, leaving, init_done, intr, done,
                   file, binds, failed>>

\* aipu_irq_schedulework, then the interrupt is enabled again
UhQueue ==
    /\ fault = "none" /\ uh = "queue"
    /\ uh' = "idle"
    /\ IF "wq" \in held THEN work' = 1 /\ UNCHANGED fault
                        ELSE fault' = "workqueue" /\ UNCHANGED work
    /\ intr' = IF Mapped THEN 1 ELSE intr
    /\ UNCHANGED <<setup, pc, held, ptr, ret, leaving, init_done, done, file,
                   binds, failed>>

\* the bottom half runs from the work queue
BottomHalf ==
    /\ Running /\ work = 1
    /\ work' = 0
    /\ fault' = IF "wq" \in held THEN "none" ELSE "workqueue"
    /\ UNCHANGED <<setup, pc, held, ptr, ret, leaving, init_done, intr, done,
                   uh, file, binds, failed>>

-----------------------------------------------------------------------------
(* Users of the node.                                                      *)

Open ==
    /\ Running /\ "misc" \in held /\ ~file
    /\ Busy \/ pc = "bound"
    /\ file' = TRUE
    /\ UNCHANGED <<setup, pc, held, ptr, ret, leaving, init_done, intr, done,
                   uh, work, binds, failed, fault>>

Close ==
    /\ Running /\ file
    /\ file' = FALSE
    /\ UNCHANGED <<setup, pc, held, ptr, ret, leaving, init_done, intr, done,
                   uh, work, binds, failed, fault>>

\* RUNJOB takes the lock and the queues of the job manager, then asks the core
\* whether it is idle: core0 is NULL before the probe has set it and points to
\* released memory after the device is unbound
RunJob ==
    /\ Running /\ file
    /\ fault' = IF ~init_done THEN "job_manager"
                ELSE IF pc = "unbound" /\ "core0" \in ptr THEN "core0" ELSE "none"
    /\ UNCHANGED <<setup, pc, held, ptr, ret, leaving, init_done, intr, done,
                   uh, work, file, binds, failed>>

Probe ==
    \/ ProbeInitPriv \/ ProbeInitMisc \/ ProbeCreateSysfs \/ ProbeGetResources
    \/ ProbeCreateCore \/ ProbeCreateIrq \/ ProbeInitJobManager \/ ProbeInitSoc
    \/ ProbeMemoryRegion \/ ProbeEnableInterrupt \/ ProbeSetDrvdata

Teardown ==
    \/ Remove \/ DeinitSysfs \/ DeinitMm \/ DeinitMisc \/ DeinitSoc \/ DeinitCore
    \/ DeinitWorkqueue \/ DeinitIrq \/ DeinitDone

Next ==
    \/ Probe \/ Teardown
    \/ HwDone \/ UhEnter \/ UhQueue \/ BottomHalf
    \/ Open \/ Close \/ RunJob

Spec == Init /\ [][Next]_vars

\* the driver core runs a probe or a remove to its end, the CPU the handlers
LiveSpec == Spec /\ WF_vars(Probe) /\ WF_vars(Teardown /\ pc # "bound")
                 /\ WF_vars(UhEnter) /\ WF_vars(UhQueue) /\ WF_vars(BottomHalf)

-----------------------------------------------------------------------------
(* Properties.                                                             *)

\* Without users or jobs during a probe or a remove, on one CPU and on an
\* interrupt line of its own, no probe, no remove and no interrupt in between
\* follows a NULL pointer or uses a resource that is gone, whichever calls fail,
\* except the ones up to the creation of the sysfs files (aipu_destroy_sysfs then
\* follows NULL) and the two kzallocs of aipu_init_region, which are not tested.
\* Whatever else goes on, a device that is bound is never the victim: what is used
\* too early or too late is used while a probe or a remove is on its way, or after.
NoFault ==
    \/ pc = "bound"
    \/ ~Busy /\ ~SharedLine /\ ~Smp
       /\ Failures \cap {"misc_kzalloc", "misc_register", "block_list"} = {}
    => fault = "none"

\* Which failing calls make the probe lose which resource for good: a reservation
\* whose ioremap failed, the I/O region of a core that got no interrupt, the
\* reference to the memory node, and what aipu_mm_add_region had when it failed
LostBy == [core_req |-> {"ioremap", "workqueue", "request_irq"},
           soc_req |-> {"ioremap"},
           stray_map |-> {"workqueue", "request_irq"},
           node |-> {"of_address_to_resource", "reserved_mem", "dma_alloc",
                     "region_head"},
           reserved |-> {"dma_alloc", "region_head"},
           cma |-> {"region_head"}]

\* A driver that is not bound holds nothing but the two list heads, which every
\* probe and remove leaves behind, and what the calls that failed made it lose.  In
\* particular a probe in which nothing failed, and its remove, give back the
\* interrupt line, the work queue, the node, the registers and the memory.
NothingLeaks ==
    pc = "unbound" =>
        \A r \in held \ RegionHeads :
            r \in DOMAIN LostBy /\ LostBy[r] \cap failed # {}

\* As long as the device stays bound every DONE of the core is taken by the
\* upper half: the interrupt is enabled again each time it was disabled, and each
\* time the device is bound again, whatever failed before.
DoneIsTaken ==
    (~Busy /\ done = 1 /\ pc = "bound") ~> (done = 0 \/ pc # "bound")
=============================================================================
