------------------------------ MODULE UmdLayout ------------------------------
(***************************************************************************)
(* Where a graph's sections lie in device memory and what a job reads      *)
(* there: the offsets of alloc_group_buffers, the tensors' addresses of    *)
(* create_iobuf_info, the addresses build_new_job loads into rodata and    *)
(* the descriptors, the job's configuration on its way through             *)
(* schedule_job_on_aipu, and the segment registers of zhouyi_v2_trigger.   *)
(*                                                                         *)
(* The application allocates one thread buffer and runs jobs on it, one    *)
(* after the other.  A word is 2^32 scaled to WordSize; addresses may      *)
(* exceed it.  The parameter map has one entry for a static and one for a  *)
(* reuse sub-section, the latter also an io tensor.                        *)
(***************************************************************************)
EXTENDS Naturals, Sequences, FiniteSets, FiniteSetsExt, SequencesExt

CONSTANTS
    WordSize,   \* 2^32, scaled
    Page,       \* bytes of a page, scaled
    Shapes,     \* bound: the section lists, sequences of [size, align]
    Machines    \* bound: the machines and graphs, records of
                \*   bases       addresses the kernel may give a group
                \*   code_bases  addresses of text, rodata and stack
                \*   shm_offset  host_aipu_shm_offset
                \*   asid        Z2 with a graph that has the ASID flag
                \*   entry_pc    the graph's entry, an offset in its text

\* A section has a size and an alignment, both uint32_t, as is the entry;
\* shared memory lies above its offset.
ASSUME LayoutAssumption ==
    /\ {WordSize, Page} \subseteq Nat \ {0}
    /\ Shapes \subseteq Seq([size : 1..(WordSize - 1), align : 1..(WordSize - 1)])
    /\ \A s \in Machines :
        /\ s.bases \cup s.code_bases \subseteq Nat
        /\ s.shm_offset \in Nat /\ s.asid \in BOOLEAN /\ s.entry_pc \in 0..(WordSize - 1)
        /\ \A b \in s.bases \cup s.code_bases : b >= s.shm_offset

VARIABLE machine    \* the machine, the graph's flag and entry; never changes

Bases == machine.bases
CodeBases == machine.code_bases
ShmOffset == machine.shm_offset
Asid == machine.asid
EntryPc == machine.entry_pc

GroupKinds == {"static", "reuse"}
RoSize == 3         \* rodata_size: one word for each entry, one for code
DcrSize == 1        \* dcr_size
Words == 0..(RoSize + DcrSize - 1)

\* The places the entries are loaded at, and the segments that the bits
\* outside of addr_mask select with ASID.  Without ASID the mask is full.
At(k) == IF k = "static" THEN 0 ELSE 1
Segment(k) == IF k = "static" THEN 1 ELSE 2
AddrMask == IF Asid THEN WordSize \div 4 ELSE WordSize

\* rodata and descriptors in the file
File == [w \in Words |->
    IF Asid /\ w = At("static") THEN Segment("static") * AddrMask
    ELSE IF Asid /\ w = At("reuse") THEN Segment("reuse") * AddrMask
    ELSE 0]

VARIABLES
    step,       \* what the application does next
    sections,   \* kind -> the section descriptors of the graph
    entry,      \* kind -> the sub-section of the parameter map: [sec, off]
    group,      \* static_group and reuse_group: [pa, size]
    buf,        \* static_buf and reuse_buf
    pa,         \* host addresses of text, rodata (with the descriptors), stack
    tensor,     \* iobuf: address of the io tensor
    mem,        \* the words of the rodata buffer
    job,        \* user_job_desc of the job that was built
    core        \* segment base and start_pc registers

layout_vars == <<machine, step, sections, entry, group, buf, pa, tensor, mem, job, core>>

None == [pa |-> 0, size |-> 0]
NoJob == [start_pc |-> 0, data_0 |-> 0, data_1 |-> 0, static |-> 0, reuse |-> 0]
NoCore == [base |-> [s \in 0..2 |-> 0], start_pc |-> 0]

LayoutInit ==
    /\ machine \in Machines
    /\ step = "load"
    /\ sections \in [GroupKinds -> Shapes]
    /\ entry \in {e \in [GroupKinds -> [sec : 1..3, off : 0..1]] : \A k \in GroupKinds :
                    /\ e[k].sec \in DOMAIN sections[k]
                    /\ e[k].off < sections[k][e[k].sec].size}
    /\ group = [k \in GroupKinds |-> None]
    /\ buf = [k \in GroupKinds |-> <<>>]
    /\ pa = [x \in {"text", "rodata", "stack"} |-> 0]
    /\ tensor = 0
    /\ mem = File
    /\ job = NoJob
    /\ core = NoCore

-----------------------------------------------------------------------------
(* alloc_group_buffers *)

\* Mutant: the last multiple below instead of the first one above.
GetAlignedAddrDown(base, align) == (base \div (align * Page)) * (align * Page)

\* get_aligned_addr: n counts up until the product, a uint32_t, is not below
\* the base.  The loop ends when some n does that.
Multiple(n, align) == (n * align * Page) % WordSize
Stops(base, align) == {n \in 0..(WordSize - 1) : Multiple(n, align) >= base}
GetAlignedAddr(base, align) == Multiple(Min(Stops(base, align)), align)

\* The first section is at the group's start, each other one at the first
\* aligned offset behind the one before it, in uint32_t.
Offsets(secs) ==
    LET offs[i \in DOMAIN secs] ==
            IF i = 1 THEN 0
            ELSE GetAlignedAddr((offs[i-1] + secs[i-1].size) % WordSize, secs[i].align)
    IN offs

\* tot_bytes, and whether every loop on the way to it ends
TotBytes(secs) == (Offsets(secs)[Len(secs)] + secs[Len(secs)].size) % WordSize
LoopsEnd(secs) == \A i \in 2..Len(secs) :
    Stops((Offsets(secs)[i-1] + secs[i-1].size) % WordSize, secs[i].align) # {}

\* malloc_buf: the kernel gives an address with the alignment asked for.
Overlap(a, n, b, m) == a < b + m /\ b < a + n
MallocBuf(align, size) == {b \in Bases : b % (align * Page) = 0
    /\ \A k \in GroupKinds : ~Overlap(b, size, group[k].pa, group[k].size)}

\* The offsets, the group with the alignment of the first section, its
\* children
AllocGroupBuffers(k) ==
    LET secs == sections[k]
        offs == Offsets(secs)
    IN /\ LoopsEnd(secs) /\ TotBytes(secs) # 0
       /\ \E b \in MallocBuf(secs[1].align, TotBytes(secs)) :
            /\ group' = [group EXCEPT ![k] = [pa |-> b, size |-> TotBytes(secs)]]
            /\ buf' = [buf EXCEPT ![k] =
                        [i \in DOMAIN secs |-> [pa |-> b + offs[i], size |-> secs[i].size]]]

\* A loop of get_aligned_addr that never ends, a total of 0, which malloc_buf
\* refuses, or no room in the kernel: the application gets no further.
NoGroup(k) ==
    LET secs == sections[k]
    IN LoopsEnd(secs) => TotBytes(secs) = 0 \/ MallocBuf(secs[1].align, TotBytes(secs)) = {}
Stuck ==
    /\ \/ step = "load" /\ NoGroup("static")
       \/ step = "alloc" /\ NoGroup("reuse")
    /\ UNCHANGED layout_vars

\* Graph::load: text and the static sections
Load ==
    /\ step = "load"
    /\ AllocGroupBuffers("static")
    /\ \E b \in CodeBases : pa' = [pa EXCEPT !.text = b]
    /\ step' = "alloc"
    /\ UNCHANGED <<machine, sections, entry, tensor, mem, job, core>>

\* create_iobuf_info
IobufPa(bufs) == bufs["reuse"][entry["reuse"].sec].pa + entry["reuse"].off

\* alloc_thread_buffer: stack, rodata and descriptors in one buffer, reuse
AllocThreadBufferAt ==
    /\ step = "alloc"
    /\ AllocGroupBuffers("reuse")
    /\ \E r, s \in CodeBases \ {pa["text"]} :
        r # s /\ pa' = [pa EXCEPT !.rodata = r, !.stack = s]
    /\ tensor' = IobufPa(buf')
    /\ step' = "ready"
    /\ UNCHANGED <<machine, sections, entry, mem, job, core>>

-----------------------------------------------------------------------------
(* build_new_job *)

Host2Dev(a) == a - ShmOffset

\* Mutant: the offset of the sub-section is left out.
SubSecPaNoOffset(k) ==
    (Host2Dev(buf[k][entry[k].sec].pa) + WordSize - (IF Asid THEN group[k].pa % WordSize ELSE 0)) % WordSize

\* sub_sec_pa, a uint32_t: with ASID relative to the group's host address
SubSecPa(k) ==
    (Host2Dev(buf[k][entry[k].sec].pa + entry[k].off)
        + WordSize - (IF Asid THEN group[k].pa % WordSize ELSE 0)) % WordSize

\* (sub_sec_pa & addr_mask) | (word & ~addr_mask), for a mask of low bits
Masked(new, old) == (new % AddrMask) + (old \div AddrMask) * AddrMask

\* load_buffer of rodata and descriptors
LoadBuffer == File

\* The words after the parameter map is applied to rodata and the descriptor
\* map, one node that points to the code in rodata, to the descriptors
Loaded ==
    [w \in Words |->
        IF \E k \in GroupKinds : w = At(k)
        THEN LET k == CHOOSE x \in GroupKinds : w = At(x)
             IN Masked(SubSecPa(k), LoadBuffer[w])
        ELSE IF w = RoSize THEN (Host2Dev(pa["rodata"]) + 2) % WordSize
        ELSE LoadBuffer[w]]

\* job->config, and user_job_desc in schedule_job_on_aipu
BuildNewJobAt ==
    /\ step = "ready"
    /\ mem' = Loaded
    /\ job' = [start_pc |-> Host2Dev(pa["text"]) + EntryPc,
               data_0 |-> Host2Dev(pa["rodata"]),
               data_1 |-> Host2Dev(pa["stack"]),
               static |-> Host2Dev(group["static"].pa),
               reuse |-> Host2Dev(group["reuse"].pa)]
    /\ step' = "built"
    /\ UNCHANGED <<machine, sections, entry, group, buf, pa, tensor, core>>

-----------------------------------------------------------------------------
(* zhouyi_v2_trigger *)

Low(a) == a % WordSize
High(a) == (a \div WordSize) * WordSize
Ase0Start == Min({job.start_pc, job.data_0, job.data_1})

\* The base registers: the low word of segment 0 is always 0.
SegmentBases ==
    IF Asid THEN [s \in 0..2 |-> IF s = 0 THEN High(Ase0Start)
                                 ELSE IF s = 1 THEN job.static ELSE job.reuse]
    ELSE [s \in 0..2 |-> High(job.start_pc)]

StartPc == IF Asid THEN Low(job.start_pc - Ase0Start) ELSE Low(job.start_pc)

Trigger ==
    /\ step = "built"
    /\ core' = [base |-> SegmentBases, start_pc |-> StartPc]
    /\ step' = "running"
    /\ UNCHANGED <<machine, sections, entry, group, buf, pa, tensor, mem, job>>

\* The device: it may write any word of rodata before it ends.
Run ==
    /\ step = "running"
    /\ \E w \in Words, v \in {0, 1} : mem' = [mem EXCEPT ![w] = v]
    /\ step' = "ready"
    /\ core' = NoCore
    /\ job' = NoJob
    /\ UNCHANGED <<machine, sections, entry, group, buf, pa, tensor>>

-----------------------------------------------------------------------------
LayoutNext ==
    Load \/ AllocThreadBufferAt \/ Stuck \/ BuildNewJobAt \/ Trigger \/ Run

LayoutSpec == LayoutInit /\ [][LayoutNext]_layout_vars

-----------------------------------------------------------------------------
(* Properties *)

\* The layout of a list of sections without the limits of uint32_t, to say
\* which lists it can hold: those that take less than 4 GB.
ExactAligned(base, align) ==
    Min({n * align * Page : n \in 0..base} \ 0..(base - 1))
ExactOffsets(secs) ==
    LET offs[i \in DOMAIN secs] ==
            IF i = 1 THEN 0
            ELSE ExactAligned(offs[i-1] + secs[i-1].size, secs[i].align)
    IN offs
Below4G(secs) == ExactOffsets(secs)[Len(secs)] + secs[Len(secs)].size < WordSize

\* The children of a group of less than 4 GB lie in it, in their order and
\* without overlap, each with its size, at a multiple of its alignment from
\* the group's start; the address itself has the alignment when that divides
\* the first one's.
GroupsTiled == \A k \in GroupKinds : Below4G(sections[k]) => \A i \in DOMAIN buf[k] :
    /\ buf[k][i].size = sections[k][i].size
    /\ buf[k][i].pa >= group[k].pa
    /\ buf[k][i].pa + buf[k][i].size <= group[k].pa + group[k].size
    /\ i > 1 => buf[k][i].pa >= buf[k][i-1].pa + buf[k][i-1].size
    /\ (buf[k][i].pa - group[k].pa) % (sections[k][i].align * Page) = 0
    /\ sections[k][1].align % sections[k][i].align = 0 =>
        buf[k][i].pa % (sections[k][i].align * Page) = 0

\* The address the core forms from a word of rodata
DeviceAddr(w) ==
    IF Asid THEN core.base[w \div AddrMask] + (w % AddrMask) ELSE core.base[0] + w

\* Whatever the job before it left in the buffer, a job starts on the rodata
\* of the file with the addresses of this buffer.
RodataFresh ==
    \A w \in Words \ {At(k) : k \in GroupKinds} :
        mem[w] = IF w = RoSize THEN (pa["rodata"] - ShmOffset + 2) % WordSize ELSE File[w]

\* The address of the graph's first instruction
EntryPa == pa["text"] + EntryPc
CodeStarts == {EntryPa, pa["rodata"], pa["stack"]}

\* The core starts at the entry of the graph, with ASID when the lowest of
\* the entry, rodata and stack lies on a multiple of 4 GB: the low base
\* register of the segment is 0.
CodeAtStart ==
    (Asid => (Min(CodeStarts) - ShmOffset) % WordSize = 0)
        => core.base[0] + core.start_pc + ShmOffset = EntryPa

\* The addresses fit their words.  Without ASID the core has one window of a
\* word, that of the entry, and every group lies in it.  With ASID a group is
\* a segment, whose offsets have a quarter of a word; the shared memory is
\* not displaced within a word, and the entry lies within a word of the rest.
SegmentsFit ==
    /\ 4 <= WordSize
    /\ \A k \in GroupKinds : Below4G(sections[k])
    /\ Asid =>
        /\ ShmOffset % WordSize = 0
        /\ \A k \in GroupKinds : group[k].size <= AddrMask
        /\ \A a \in CodeStarts : EntryPa < a + WordSize
    /\ ~Asid => LET window == High(EntryPa - ShmOffset) + ShmOffset
                IN \A k \in GroupKinds :
                    /\ window <= group[k].pa
                    /\ group[k].pa + group[k].size <= window + WordSize

\* A running job whose addresses fit their words finds, where its rodata
\* says, the sub-sections of the parameter map, and the io tensor there is
\* the one the application was given the address of: "offset(s) in rodata
\* section where sub-section base address should be loaded".  The core starts
\* at the entry.  The rest of rodata is fresh in any case.
JobFindsSections == step = "running" =>
    /\ RodataFresh
    /\ SegmentsFit =>
        /\ \A k \in GroupKinds :
            DeviceAddr(mem[At(k)]) + ShmOffset = buf[k][entry[k].sec].pa + entry[k].off
        /\ DeviceAddr(mem[At("reuse")]) + ShmOffset = tensor
        /\ CodeAtStart
=============================================================================
