---------------------------- MODULE UmdLoadProofs ----------------------------
(***************************************************************************)
(* Proofs about what becomes of a graph that is loaded.                    *)
(*                                                                         *)
(* Its memory (UmdBuffers), for any number of handles and REQBUF calls and *)
(* any graph: an application that frees what it allocated leaks nothing    *)
(* whichever allocations fail, and the memory of a handle, or of a job on  *)
(* the device, is held.  The fresh buffers of a call are above `used' and  *)
(* all others below, so that nothing new can be shared (BufTypeOK).  Whole *)
(* is what a handle owns; TextHeld and JobsMarked say why an orderly       *)
(* application can never free a buffer twice or under a job.               *)
(*                                                                         *)
(* Its file (UmdGraphBinary), whatever it says: the parts of the header    *)
(* lie in it unless a sum wraps, every entry of the parameter map has a    *)
(* sub-section that exists, and the io tensors are in the order of their   *)
(* numbers.  ParserInv says what each check has established by the time    *)
(* the next statement runs.                                                *)
(*                                                                         *)
(* Its layout (UmdLayout), for any sections, page size, word size and      *)
(* placement by the kernel: the sections of a group below 4 GB tile it at  *)
(* their alignment, and a job whose addresses fit their words finds its    *)
(* sub-sections, its io tensor and its entry.                              *)
(* The offsets are a recursion over the sections; that it has a result,    *)
(* and what the result is, rests on LeastNat.                              *)
(***************************************************************************)
EXTENDS UmdBuffers, UmdGraphBinary, UmdLayout, TLAPS, FiniteSetTheorems

-----------------------------------------------------------------------------
(* The memory of a graph: the inductive invariant.                         *)

\* tbuf_info_t
TBuf == [stack : Nat, rodata : Nat, reuse : Nat, is_free : BOOLEAN]

BufTypeOK ==
    /\ setup \in Setups
    /\ used \in Nat /\ held \subseteq 1..used /\ badfree \in BOOLEAN
    /\ graph \in {"none", "loaded"}
    /\ text \in 0..used /\ static \in 0..used
    /\ tbufs \in [DOMAIN tbufs -> TBuf] /\ DOMAIN tbufs \subseteq Handles
    /\ jobs \in [DOMAIN jobs -> {"BUILT", "SCHED", "DONE", "TIMEOUT"}]

\* The three buffers of a handle are held and nobody else's.
WholeBuf(b) ==
    /\ b.stack # b.rodata /\ b.stack # b.reuse /\ b.rodata # b.reuse
    /\ Parts(b) \subseteq held
    /\ text \notin Parts(b) /\ static \notin Parts(b)
Whole ==
    /\ \A h \in DOMAIN tbufs : WholeBuf(tbufs[h])
    /\ \A h, k \in DOMAIN tbufs : h # k => Parts(tbufs[h]) \cap Parts(tbufs[k]) = {}

\* Without a graph there is nothing; what an application that frees everything has
\* loaded, it holds.
TextHeld ==
    /\ graph = "none" => text = Null /\ static = Null /\ DOMAIN tbufs = {} /\ DOMAIN jobs = {}
    /\ FreesAll /\ graph = "loaded" =>
         text \in held /\ (IF HasStatic THEN static \in held ELSE static = Null)

\* The handle of its job is marked used.
JobsMarked == FreesAll => \A h \in DOMAIN jobs : h \in DOMAIN tbufs /\ ~tbufs[h].is_free

BufInv == BufTypeOK /\ Whole /\ TextHeld /\ JobsMarked /\ NoLeak

-----------------------------------------------------------------------------
(* Numbers and buffers.                                                    *)

\* A set of naturals has a least element.
LEMMA LeastNat ==
  ASSUME NEW T, T \subseteq Nat, T # {}
  PROVE  \E x \in T : \A y \in T : x <= y
<1> DEFINE Shorter == StrictSubsetOrdering(Nat)
           Starts == {1 .. n : n \in T}
<1>1. Starts \subseteq FiniteSubsetsOf(Nat)
  <2>1. \A n \in Nat : IsFiniteSet(1 .. n)
    BY FS_Interval
  <2> QED
    BY <2>1 DEF FiniteSubsetsOf
<1>2. Starts # {}
  OBVIOUS
<1>3. PICK X \in Starts : \A Y \in Starts : <<Y, X>> \notin Shorter
  <2>1. IsWellFoundedOn(Shorter, FiniteSubsetsOf(Nat))
    BY FS_StrictSubsetOrderingWellFounded
  <2> HIDE DEF Starts, Shorter
  <2> QED
    BY <1>1, <1>2, <2>1, WFMin
<1>4. PICK x \in T : X = 1 .. x
  OBVIOUS
<1>5. ASSUME NEW y \in T, y < x PROVE FALSE
  <2>1. 1 .. y \subseteq 1 .. x /\ x \in 1 .. x /\ x \notin 1 .. y
    BY <1>5
  <2>2. <<1 .. y, 1 .. x>> \in Shorter
    BY <2>1, <1>4 DEF StrictSubsetOrdering
  <2> QED
    BY <1>3, <1>4, <1>5, <2>2
<1> QED
  BY <1>5

\* create_buf_handle_inner gives a handle that is not in use.
LEMMA FreeHandleIsFree ==
  ASSUME Handles \ DOMAIN tbufs # {}
  PROVE  FreeHandle \in Handles \ DOMAIN tbufs
<1> DEFINE T == Handles \ DOMAIN tbufs
<1>1. Handles \subseteq Nat
  BY BuffersAssumption
<1>2. T \subseteq Nat /\ T # {}
  BY <1>1
<1>3. \E x \in T : \A y \in T : x <= y
  <2> HIDE DEF T
  <2> QED
    BY <1>2, LeastNat
<1> QED
  BY <1>3 DEF FreeHandle, Min

\* What a call leaves that allocates, and frees what it has allocated or nothing: the
\* buffers there were, and of the fresh ones those it keeps.
LEMMA MallocEffect ==
  ASSUME BufTypeOK, NEW o, o.got \in Nat, o.lost \in BOOLEAN, NEW freed,
         freed \subseteq Malloc(o), MallocAndFree(o, freed)
  PROVE  /\ used' \in Nat /\ used' >= used + o.got
         /\ held \subseteq held' /\ held' \subseteq 1 .. used'
         /\ Malloc(o) \ freed \subseteq held'
         /\ badfree' = badfree
         /\ ~MmapFails => held' \subseteq held \cup (Malloc(o) \ freed)
<1>1. used \in Nat /\ held \subseteq 1 .. used /\ badfree \in BOOLEAN
  BY DEF BufTypeOK
<1>2. o.got \in Nat /\ o.lost \in BOOLEAN
  OBVIOUS
<1>3. /\ Lost(o) = IF o.lost THEN {used + o.got + 1} ELSE {}
      /\ Cardinality(Lost(o)) = IF o.lost THEN 1 ELSE 0
  BY FS_EmptySet, FS_Singleton DEF Lost
<1>4. used' = used + o.got + (IF o.lost THEN 1 ELSE 0)
  BY <1>3 DEF MallocAndFree
<1>5. held' = (held \cup Malloc(o) \cup Lost(o)) \ freed
  BY DEF MallocAndFree
<1>6. Malloc(o) \cap held = {}
  BY <1>1, <1>2 DEF Malloc
<1>7. held' \subseteq 1 .. used'
  <2>1. used' \in Nat /\ used' >= used + o.got
    BY <1>1, <1>2, <1>4
  <2>2. held \subseteq 1 .. used' /\ Malloc(o) \subseteq 1 .. used'
    BY <1>1, <1>2, <2>1 DEF Malloc
  <2>3. Lost(o) \subseteq 1 .. used'
    BY <1>1, <1>2, <1>3, <1>4
  <2> QED
    BY <1>5, <2>2, <2>3
<1>8. badfree' = badfree
  BY <1>1 DEF MallocAndFree
<1>9. ~MmapFails => Lost(o) = {}
  BY <1>3 DEF MallocAndFree
<1> QED
  BY <1>1, <1>2, <1>4, <1>5, <1>6, <1>7, <1>8, <1>9

\* A handle's three buffers are three buffers.
LEMMA ThreeParts ==
  ASSUME NEW b, b.stack # b.rodata, b.stack # b.reuse, b.rodata # b.reuse
  PROVE  Cardinality(Parts(b)) = 3
<1>1. IsFiniteSet({b.stack}) /\ Cardinality({b.stack}) = 1
  BY FS_Singleton
<1>2. {b.stack, b.rodata} = {b.stack} \cup {b.rodata}
  OBVIOUS
<1>3. IsFiniteSet({b.stack, b.rodata}) /\ Cardinality({b.stack, b.rodata}) = 2
  BY <1>1, <1>2, FS_AddElement
<1>4. Parts(b) = {b.stack, b.rodata} \cup {b.reuse}
  BY DEF Parts
<1> QED
  BY <1>3, <1>4, FS_AddElement

-----------------------------------------------------------------------------
(* The steps.                                                              *)

\* A call that keeps nothing of what it allocated
LEMMA KeepsNothing ==
  ASSUME BufInv, UNCHANGED <<setup, graph, text, static, tbufs, jobs, badfree>>,
         used' \in Nat, used' >= used, held \subseteq held', held' \subseteq 1 .. used',
         ~MmapFails => held' \subseteq held
  PROVE  BufInv'
<1>1. BufTypeOK'
  BY DEF BufInv, BufTypeOK
<1>2. Whole'
  BY DEF BufInv, Whole, WholeBuf, Parts
<1>3. TextHeld'
  BY DEF BufInv, TextHeld, FreesAll, HasStatic
<1>4. JobsMarked'
  BY DEF BufInv, JobsMarked, FreesAll
<1>5. NoLeak'
  BY DEF BufInv, NoLeak, Reachable, FreedParts, Parts, FreesAll, MmapFails
<1> QED
  BY <1>1, <1>2, <1>3, <1>4, <1>5 DEF BufInv

\* A call about jobs changes no buffer
LEMMA KeepsBuffers ==
  ASSUME BufInv, UNCHANGED <<setup, kernel, graph, text, static>>,
         tbufs' \in [DOMAIN tbufs -> TBuf],
         \A h \in DOMAIN tbufs :
            /\ tbufs'[h].stack = tbufs[h].stack /\ tbufs'[h].rodata = tbufs[h].rodata
            /\ tbufs'[h].reuse = tbufs[h].reuse
  PROVE  Whole' /\ NoLeak'
<1>1. DOMAIN tbufs' = DOMAIN tbufs
  OBVIOUS
<1>2. \A h \in DOMAIN tbufs : Parts(tbufs'[h]) = Parts(tbufs[h])
  BY DEF Parts
<1>3. Whole'
  <2>1. \A h \in DOMAIN tbufs : WholeBuf(tbufs[h])
    BY DEF BufInv, Whole
  <2>2. \A h \in DOMAIN tbufs : WholeBuf(tbufs[h])'
    BY <2>1 DEF WholeBuf, kernel, Parts
  <2>3. \A h \in DOMAIN tbufs' : WholeBuf(tbufs[h])'
    BY <1>1, <2>2
  <2>4. \A h, k \in DOMAIN tbufs' : h # k => Parts(tbufs'[h]) \cap Parts(tbufs'[k]) = {}
    BY <1>1, <1>2 DEF BufInv, Whole
  <2> QED
    BY <2>3, <2>4 DEF Whole, Parts
<1>4. FreedParts(DOMAIN tbufs)' = FreedParts(DOMAIN tbufs)
  <2>1. FreedParts(DOMAIN tbufs)' = UNION {Parts(tbufs'[h]) : h \in DOMAIN tbufs}
    BY <1>1 DEF FreedParts, Parts
  <2>2. {Parts(tbufs'[h]) : h \in DOMAIN tbufs} = {Parts(tbufs[h]) : h \in DOMAIN tbufs}
    BY <1>2
  <2> QED
    BY <2>1, <2>2 DEF FreedParts
<1>5. NoLeak'
  <2>1. Reachable' = Reachable
    BY <1>4 DEF Reachable
  <2> QED
    BY <2>1 DEF BufInv, NoLeak, FreesAll, MmapFails, kernel
<1> QED
  BY <1>3, <1>5

\* The handles of F, and perhaps text and the static group, are freed: the other
\* handles keep theirs.
LEMMA FreesHandles ==
  ASSUME BufInv, NEW F \in SUBSET DOMAIN tbufs, NEW P \in SUBSET {text, static},
         Free(P \cup FreedParts(F)), UNCHANGED setup,
         tbufs' = [h \in DOMAIN tbufs \ F |-> tbufs[h]],
         text' \in {text, Null}, static' \in {static, Null}
  PROVE  /\ Whole'
         /\ held' \subseteq 1 .. used' /\ used' \in Nat /\ badfree' \in BOOLEAN
         /\ tbufs' \in [DOMAIN tbufs' -> TBuf] /\ DOMAIN tbufs' \subseteq Handles
         /\ text' \in 0 .. used' /\ static' \in 0 .. used'
<1>1. /\ used \in Nat /\ held \subseteq 1 .. used /\ badfree \in BOOLEAN
      /\ tbufs \in [DOMAIN tbufs -> TBuf] /\ DOMAIN tbufs \subseteq Handles
      /\ text \in 0 .. used /\ static \in 0 .. used
  BY DEF BufInv, BufTypeOK
<1>2. /\ held' = held \ (P \cup FreedParts(F)) /\ used' = used
      /\ badfree' \in BOOLEAN
  BY <1>1 DEF Free
<1>3. DOMAIN tbufs' = DOMAIN tbufs \ F /\ \A h \in DOMAIN tbufs' : tbufs'[h] = tbufs[h]
  OBVIOUS
<1>4. ASSUME NEW h \in DOMAIN tbufs' PROVE WholeBuf(tbufs[h])'
  <2>1. WholeBuf(tbufs[h])
    BY <1>3 DEF BufInv, Whole
  <2>2. \A k \in F : Parts(tbufs[h]) \cap Parts(tbufs[k]) = {}
    BY <1>3 DEF BufInv, Whole
  <2>3. Parts(tbufs[h]) \cap FreedParts(F) = {}
    BY <2>2 DEF FreedParts
  <2>4. Parts(tbufs[h]) \subseteq held'
    BY <1>2, <2>1, <2>3 DEF WholeBuf
  <2>5. Null \notin Parts(tbufs[h])
    BY <1>1, <2>1 DEF WholeBuf, Null
  <2> QED
    BY <1>3, <2>1, <2>4, <2>5 DEF WholeBuf, Parts
<1>5. \A h, k \in DOMAIN tbufs' : h # k => Parts(tbufs'[h]) \cap Parts(tbufs'[k]) = {}
  BY <1>3 DEF BufInv, Whole
<1>6. Whole'
  BY <1>4, <1>5 DEF Whole, Parts
<1>7. tbufs' \in [DOMAIN tbufs' -> TBuf] /\ DOMAIN tbufs' \subseteq Handles
  BY <1>1, <1>3
<1> QED
  BY <1>1, <1>2, <1>6, <1>7 DEF Null

\* load: text and static are the call's own.
LEMMA LoadGraphStep ==
  ASSUME BufInv, LoadGraph
  PROVE  BufInv'
<1> DEFINE o == [got |-> Loads, lost |-> FALSE]
<1>1. Loads \in Nat /\ Loads = (IF HasStatic THEN 2 ELSE 1)
  BY DEF Loads
<1>2. o.lost \in BOOLEAN /\ o.got = Loads
  OBVIOUS
<1>3. MallocAndFree(o, {})
  BY DEF LoadGraph
<1>4. /\ used' \in Nat /\ used' >= used + Loads
      /\ held \subseteq held' /\ held' \subseteq 1 .. used' /\ Malloc(o) \subseteq held'
      /\ badfree' = badfree
      /\ ~MmapFails => held' \subseteq held \cup Malloc(o)
  <2> HIDE DEF o
  <2>1. {} \subseteq Malloc(o) /\ Malloc(o) \ {} = Malloc(o) /\ BufTypeOK
    BY DEF BufInv
  <2> QED
    BY <1>1, <1>2, <1>3, <2>1, MallocEffect
<1>5. /\ text = Null /\ static = Null /\ DOMAIN tbufs = {} /\ DOMAIN jobs = {}
      /\ UNCHANGED <<setup, tbufs, jobs>> /\ graph' = "loaded"
  BY DEF BufInv, TextHeld, LoadGraph
<1>6. used \in Nat /\ Malloc(o) = (used+1) .. (used + Loads)
  BY <1>1, <1>2 DEF Malloc, BufInv, BufTypeOK
<1>7. /\ text' = used + 1 /\ text' \in Malloc(o)
      /\ IF HasStatic THEN static' = used + 2 /\ static' \in Malloc(o) ELSE static' = Null
  <2>1. text' = used + 1 /\ static' = (IF HasStatic THEN used + 2 ELSE Null)
    BY DEF LoadGraph, Nth
  <2>2. text' \in Malloc(o)
    BY <1>1, <1>6, <2>1
  <2>3. HasStatic => used + 2 \in Malloc(o)
    BY <1>1, <1>6
  <2> QED
    BY <2>1, <2>2, <2>3
<1>8. \A x \in Malloc(o) : x # Null /\ x \in {text', static'}
  BY <1>1, <1>6, <1>7 DEF Null
<1> HIDE DEF o
<1>9. text' \in 0 .. used' /\ static' \in 0 .. used'
  <2>1. held' \subseteq 0 .. used' /\ 0 \in 0 .. used'
    BY <1>4
  <2>2. text' \in held' /\ static' \in held' \cup {0}
    BY <1>4, <1>7 DEF Null
  <2> QED
    BY <2>1, <2>2
<1>10. BufTypeOK'
  BY <1>4, <1>5, <1>9 DEF BufInv, BufTypeOK
<1>11. Whole'
  BY <1>5 DEF Whole
<1>12. TextHeld'
  <2>1. text' \in held' /\ (IF HasStatic THEN static' \in held' ELSE static' = Null)
    BY <1>4, <1>7
  <2> QED
    BY <1>5, <2>1 DEF TextHeld, HasStatic
<1>13. JobsMarked'
  BY <1>5 DEF JobsMarked
<1>14. NoLeak'
  <2> SUFFICES ASSUME FreesAll, ~MmapFails PROVE held' \subseteq Reachable' /\ ~badfree'
    BY <1>5 DEF NoLeak, FreesAll, MmapFails
  <2>1. held = {} /\ ~badfree
    BY <1>5 DEF BufInv, NoLeak, Reachable, FreedParts
  <2>2. held' \subseteq {text', static'} \ {Null}
    BY <1>4, <1>8, <2>1
  <2> QED
    BY <1>4, <2>1, <2>2 DEF Reachable, Null
<1> QED
  BY <1>10, <1>11, <1>12, <1>13, <1>14 DEF BufInv

\* The error path of load: what has been allocated is freed.
LEMMA LoadGraphFailsStep ==
  ASSUME BufInv, LoadGraphFails
  PROVE  BufInv'
<1>1. Loads \in Nat
  BY DEF Loads
<1>2. PICK o \in Outcomes(Loads) : MallocAndFree(o, Malloc(o))
  BY DEF LoadGraphFails
<1>3. o.got \in Nat /\ o.lost \in BOOLEAN /\ used \in Nat /\ BufTypeOK
  BY <1>1 DEF Outcomes, BufInv, BufTypeOK
<1>4. /\ used' \in Nat /\ used' >= used + o.got
      /\ held \subseteq held' /\ held' \subseteq 1 .. used'
      /\ badfree' = badfree
      /\ ~MmapFails => held' \subseteq held \cup (Malloc(o) \ Malloc(o))
  BY <1>1, <1>2, <1>3, MallocEffect
<1>5. used' >= used /\ (~MmapFails => held' \subseteq held)
  BY <1>3, <1>4
<1>6. UNCHANGED <<setup, graph, text, static, tbufs, jobs>>
  BY DEF LoadGraphFails
<1> QED
  BY <1>4, <1>5, <1>6, KeepsNothing

\* The error path of alloc_thread_buffer: likewise.
LEMMA AllocThreadBufferFailsStep ==
  ASSUME BufInv, AllocThreadBufferFails
  PROVE  BufInv'
<1>1. PICK o \in Outcomes(3) : MallocAndFree(o, Malloc(o))
  BY DEF AllocThreadBufferFails
<1>2. o.got \in Nat /\ o.lost \in BOOLEAN /\ used \in Nat /\ BufTypeOK
  BY DEF Outcomes, BufInv, BufTypeOK
<1>3. /\ used' \in Nat /\ used' >= used + o.got
      /\ held \subseteq held' /\ held' \subseteq 1 .. used'
      /\ badfree' = badfree
      /\ ~MmapFails => held' \subseteq held \cup (Malloc(o) \ Malloc(o))
  BY <1>1, <1>2, MallocEffect
<1>4. used' >= used /\ (~MmapFails => held' \subseteq held)
  BY <1>2, <1>3
<1>5. UNCHANGED <<setup, graph, text, static, tbufs, jobs>>
  BY DEF AllocThreadBufferFails
<1> QED
  BY <1>3, <1>4, <1>5, KeepsNothing

\* alloc_thread_buffer: a new handle with three fresh buffers.
LEMMA AllocThreadBufferStep ==
  ASSUME BufInv, AllocThreadBuffer
  PROVE  BufInv'
<1> DEFINE o == [got |-> 3, lost |-> FALSE]
<1>1. o.got = 3 /\ o.lost \in BOOLEAN /\ MallocAndFree(o, {})
  BY DEF AllocThreadBuffer
<1>2. /\ used' \in Nat /\ used' >= used + 3
      /\ held \subseteq held' /\ held' \subseteq 1 .. used' /\ Malloc(o) \subseteq held'
      /\ badfree' = badfree
      /\ ~MmapFails => held' \subseteq held \cup Malloc(o)
  <2> HIDE DEF o
  <2>1. {} \subseteq Malloc(o) /\ Malloc(o) \ {} = Malloc(o) /\ BufTypeOK
    BY DEF BufInv
  <2> QED
    BY <1>1, <2>1, MallocEffect
<1>3. /\ used \in Nat /\ held \subseteq 1 .. used
      /\ text \in 0 .. used /\ static \in 0 .. used
      /\ tbufs \in [DOMAIN tbufs -> TBuf] /\ DOMAIN tbufs \subseteq Handles
  BY DEF BufInv, BufTypeOK
<1>4. Malloc(o) = (used+1) .. (used+3)
  BY <1>1 DEF Malloc
<1> HIDE DEF o
<1>5. UNCHANGED <<setup, graph, text, static, jobs>> /\ graph = "loaded"
  BY DEF AllocThreadBuffer
<1>6. PICK n \in Handles \ DOMAIN tbufs :
         tbufs' = [h \in DOMAIN tbufs \cup {n} |->
                     IF h = n THEN [stack |-> used+1, rodata |-> used+2, reuse |-> used+3,
                                    is_free |-> TRUE]
                     ELSE tbufs[h]]
  BY FreeHandleIsFree DEF AllocThreadBuffer, Nth
<1>7. /\ DOMAIN tbufs' = DOMAIN tbufs \cup {n}
      /\ \A h \in DOMAIN tbufs : tbufs'[h] = tbufs[h]
      /\ tbufs'[n] = [stack |-> used+1, rodata |-> used+2, reuse |-> used+3, is_free |-> TRUE]
  BY <1>6
<1>8. Parts(tbufs'[n]) = Malloc(o)
  BY <1>3, <1>4, <1>7 DEF Parts
<1>9. BufTypeOK'
  <2>1. tbufs'[n] \in TBuf
    BY <1>3, <1>7 DEF TBuf
  <2>2. \A h \in DOMAIN tbufs' : tbufs'[h] \in TBuf
    BY <1>3, <1>7, <2>1
  <2>3. tbufs' \in [DOMAIN tbufs' -> TBuf]
    BY <1>6, <2>2
  <2>4. DOMAIN tbufs' \subseteq Handles
    BY <1>3, <1>7
  <2>5. text \in 0 .. used' /\ static \in 0 .. used'
    BY <1>2, <1>3
  <2> QED
    BY <1>2, <1>5, <2>3, <2>4, <2>5 DEF BufInv, BufTypeOK
<1>10. \A h \in DOMAIN tbufs : WholeBuf(tbufs[h])
  BY DEF BufInv, Whole
<1>11. \A h \in DOMAIN tbufs : Parts(tbufs[h]) \cap Malloc(o) = {}
  BY <1>3, <1>4, <1>10 DEF WholeBuf
<1>12. Whole'
  <2>1. ASSUME NEW h \in DOMAIN tbufs PROVE WholeBuf(tbufs[h])'
    <3>1. WholeBuf(tbufs[h])
      BY <1>10
    <3>2. Parts(tbufs'[h]) = Parts(tbufs[h]) /\ Parts(tbufs[h]) \subseteq held'
      BY <1>2, <1>7, <3>1 DEF WholeBuf
    <3> QED
      BY <1>5, <1>7, <3>1, <3>2 DEF WholeBuf, Parts
  <2>2. WholeBuf(tbufs[n])'
    <3>1. /\ tbufs'[n].stack = used+1 /\ tbufs'[n].rodata = used+2 /\ tbufs'[n].reuse = used+3
      BY <1>7
    <3>2. text \notin Parts(tbufs'[n]) /\ static \notin Parts(tbufs'[n])
      BY <1>3, <1>4, <1>8
    <3>3. Parts(tbufs'[n]) \subseteq held'
      BY <1>2, <1>8
    <3> QED
      BY <1>3, <1>5, <3>1, <3>2, <3>3 DEF WholeBuf, Parts
  <2>3. \A h \in DOMAIN tbufs' : WholeBuf(tbufs[h])'
    BY <1>7, <2>1, <2>2
  <2>4. \A h, k \in DOMAIN tbufs : h # k => Parts(tbufs'[h]) \cap Parts(tbufs'[k]) = {}
    BY <1>7 DEF BufInv, Whole
  <2>5. \A h \in DOMAIN tbufs : Parts(tbufs'[h]) \cap Parts(tbufs'[n]) = {}
    BY <1>7, <1>8, <1>11
  <2>6. \A h, k \in DOMAIN tbufs' : h # k => Parts(tbufs'[h]) \cap Parts(tbufs'[k]) = {}
    BY <1>7, <2>4, <2>5
  <2> QED
    BY <2>3, <2>6 DEF Whole, Parts
<1>13. TextHeld'
  BY <1>2, <1>5 DEF BufInv, TextHeld, FreesAll, HasStatic
<1>14. JobsMarked'
  <2>1. FreesAll => \A h \in DOMAIN jobs : h \in DOMAIN tbufs /\ ~tbufs[h].is_free
    BY DEF BufInv, JobsMarked
  <2> QED
    BY <1>5, <1>7, <2>1 DEF JobsMarked, FreesAll
<1>15. NoLeak'
  <2> SUFFICES ASSUME FreesAll, ~MmapFails PROVE held' \subseteq Reachable' /\ ~badfree'
    BY <1>5 DEF NoLeak, FreesAll, MmapFails
  <2>1. held \subseteq Reachable /\ ~badfree
    BY DEF BufInv, NoLeak
  <2>2. Reachable' = ({text, static} \ {Null}) \cup UNION {Parts(tbufs'[h]) : h \in DOMAIN tbufs'}
    BY <1>5 DEF Reachable, FreedParts, Parts, Null
  <2>3. \A h \in DOMAIN tbufs' : Parts(tbufs'[h]) \subseteq Reachable'
    BY <2>2
  <2>4. Malloc(o) \subseteq Reachable'
    BY <1>7, <1>8, <2>3
  <2>5. \A h \in DOMAIN tbufs : Parts(tbufs[h]) \subseteq Reachable'
    BY <1>7, <2>3
  <2>6. FreedParts(DOMAIN tbufs) \subseteq Reachable'
    BY <2>5 DEF FreedParts
  <2>7. {text, static} \ {Null} \subseteq Reachable'
    BY <2>2
  <2>8. Reachable \subseteq Reachable'
    BY <2>6, <2>7 DEF Reachable
  <2> QED
    BY <1>2, <2>1, <2>4, <2>8
<1> QED
  BY <1>9, <1>12, <1>13, <1>14, <1>15 DEF BufInv

\* free_thread_buffer: a handle no job uses, and its three buffers.
LEMMA FreeThreadBufferStep ==
  ASSUME BufInv, NEW h \in Handles, FreeThreadBuffer(h)
  PROVE  BufInv'
<1>1. CASE ~tbufs[h].is_free
  <2>1. UNCHANGED <<setup, graph, text, static, tbufs, jobs, badfree, held, used>>
    BY <1>1 DEF FreeThreadBuffer, kernel
  <2>2. used \in Nat /\ held \subseteq 1 .. used
    BY DEF BufInv, BufTypeOK
  <2> QED
    BY <2>1, <2>2, KeepsNothing
<1>2. CASE tbufs[h].is_free
  <2>1. /\ h \in DOMAIN tbufs /\ graph = "loaded"
        /\ Free(Parts(tbufs[h]))
        /\ tbufs' = [x \in DOMAIN tbufs \ {h} |-> tbufs[x]]
        /\ UNCHANGED <<setup, graph, text, static, jobs>>
    BY <1>2 DEF FreeThreadBuffer, Without
  <2>2. {} \cup FreedParts({h}) = Parts(tbufs[h])
    BY DEF FreedParts
  <2>3. /\ Whole'
        /\ held' \subseteq 1 .. used' /\ used' \in Nat /\ badfree' \in BOOLEAN
        /\ tbufs' \in [DOMAIN tbufs' -> TBuf] /\ DOMAIN tbufs' \subseteq Handles
        /\ text' \in 0 .. used' /\ static' \in 0 .. used'
    <3>1. {h} \in SUBSET DOMAIN tbufs /\ {} \in SUBSET {text, static}
      BY <2>1
    <3>2. Free({} \cup FreedParts({h}))
      BY <2>1, <2>2
    <3> QED
      BY <2>1, <3>1, <3>2, FreesHandles
  <2>4. BufTypeOK'
    BY <2>1, <2>3 DEF BufInv, BufTypeOK
  <2>5. WholeBuf(tbufs[h])
    BY <2>1 DEF BufInv, Whole
  <2>6. held' = held \ Parts(tbufs[h]) /\ badfree' = badfree
    <3>1. badfree \in BOOLEAN /\ Parts(tbufs[h]) \subseteq held
      BY <2>5 DEF WholeBuf, BufInv, BufTypeOK
    <3> QED
      BY <2>1, <3>1 DEF Free
  <2>7. TextHeld'
    BY <2>1, <2>5, <2>6 DEF BufInv, TextHeld, FreesAll, HasStatic, WholeBuf
  <2>8. JobsMarked'
    <3>1. FreesAll => \A k \in DOMAIN jobs : k \in DOMAIN tbufs /\ ~tbufs[k].is_free
      BY DEF BufInv, JobsMarked
    <3> QED
      BY <1>2, <2>1, <3>1 DEF JobsMarked, FreesAll
  <2>9. NoLeak'
    <3> SUFFICES ASSUME FreesAll, ~MmapFails PROVE held' \subseteq Reachable' /\ ~badfree'
      BY <2>1 DEF NoLeak, FreesAll, MmapFails
    <3>1. held \subseteq Reachable /\ ~badfree
      BY DEF BufInv, NoLeak
    <3>2. /\ DOMAIN tbufs' = DOMAIN tbufs \ {h}
          /\ \A k \in DOMAIN tbufs' : tbufs'[k] = tbufs[k]
      BY <2>1
    <3>3. Reachable' = ({text, static} \ {Null}) \cup UNION {Parts(tbufs'[k]) : k \in DOMAIN tbufs'}
      BY <2>1 DEF Reachable, FreedParts, Parts, Null
    <3>4. ASSUME NEW x \in held' PROVE x \in Reachable'
      <4>1. x \in Reachable /\ x \notin Parts(tbufs[h])
        BY <2>6, <3>1
      <4>2. CASE x \in {text, static} \ {Null}
        BY <3>3, <4>2
      <4>3. CASE x \in FreedParts(DOMAIN tbufs)
        <5>1. PICK k \in DOMAIN tbufs : x \in Parts(tbufs[k])
          BY <4>3 DEF FreedParts
        <5>2. k \in DOMAIN tbufs' /\ x \in Parts(tbufs'[k])
          BY <3>2, <4>1, <5>1
        <5> QED
          BY <3>3, <5>2
      <4> QED
        BY <4>1, <4>2, <4>3 DEF Reachable
    <3> QED
      BY <2>6, <3>1, <3>4
  <2> QED
    BY <2>3, <2>4, <2>7, <2>8, <2>9 DEF BufInv
<1> QED
  BY <1>1, <1>2

\* build_new_job: the handle is marked before the job exists.
LEMMA BuildNewJobStep ==
  ASSUME BufInv, NEW h \in Handles, BuildNewJob(h)
  PROVE  BufInv'
<1>1. /\ h \in DOMAIN tbufs /\ graph = "loaded"
      /\ tbufs' = [tbufs EXCEPT ![h].is_free = FALSE]
      /\ UNCHANGED <<setup, kernel, graph, text, static>>
      /\ \/ jobs' = jobs
         \/ jobs' = [x \in DOMAIN jobs \cup {h} |-> IF x = h THEN "BUILT" ELSE jobs[x]]
  BY DEF BuildNewJob
<1>2. /\ tbufs \in [DOMAIN tbufs -> TBuf] /\ DOMAIN tbufs \subseteq Handles
      /\ jobs \in [DOMAIN jobs -> {"BUILT", "SCHED", "DONE", "TIMEOUT"}]
  BY DEF BufInv, BufTypeOK
<1>3. tbufs' \in [DOMAIN tbufs -> TBuf]
  BY <1>1, <1>2 DEF TBuf
<1>4. \A k \in DOMAIN tbufs :
         /\ tbufs'[k].stack = tbufs[k].stack /\ tbufs'[k].rodata = tbufs[k].rodata
         /\ tbufs'[k].reuse = tbufs[k].reuse
  BY <1>1, <1>2 DEF TBuf
<1>5. Whole' /\ NoLeak'
  BY <1>1, <1>3, <1>4, KeepsBuffers
<1>6. /\ jobs' \in [DOMAIN jobs' -> {"BUILT", "SCHED", "DONE", "TIMEOUT"}]
      /\ DOMAIN jobs' \subseteq DOMAIN jobs \cup {h}
  BY <1>1, <1>2
<1>7. DOMAIN tbufs' = DOMAIN tbufs
  BY <1>3
<1>8. BufTypeOK'
  BY <1>1, <1>3, <1>6, <1>7 DEF BufInv, BufTypeOK, kernel
<1>9. TextHeld'
  BY <1>1 DEF BufInv, TextHeld, FreesAll, HasStatic, kernel
<1>10. JobsMarked'
  <2> SUFFICES ASSUME FreesAll, NEW k \in DOMAIN jobs'
               PROVE  k \in DOMAIN tbufs' /\ ~tbufs'[k].is_free
    BY <1>1 DEF JobsMarked, FreesAll
  <2>1. k # h => k \in DOMAIN tbufs /\ ~tbufs[k].is_free
    BY <1>6 DEF BufInv, JobsMarked
  <2>2. ~tbufs'[h].is_free
    BY <1>1, <1>2 DEF TBuf
  <2>3. k # h => tbufs'[k] = tbufs[k]
    BY <1>1
  <2> QED
    BY <1>1, <1>7, <2>1, <2>2, <2>3
<1> QED
  BY <1>5, <1>8, <1>9, <1>10 DEF BufInv

\* flush_job and the ends of a job
LEMMA JobGoesStep ==
  ASSUME BufInv, NEW h, NEW from, NEW to \in {"SCHED", "DONE", "TIMEOUT"}, JobGoes(h, from, to)
  PROVE  BufInv'
<1>1. /\ UNCHANGED <<setup, kernel, graph, text, static, tbufs>>
      /\ jobs' = [jobs EXCEPT ![h] = to] /\ h \in DOMAIN jobs
  BY DEF JobGoes
<1>2. tbufs \in [DOMAIN tbufs -> TBuf] /\ jobs \in [DOMAIN jobs -> {"BUILT", "SCHED", "DONE", "TIMEOUT"}]
  BY DEF BufInv, BufTypeOK
<1>3. DOMAIN jobs' = DOMAIN jobs /\ jobs' \in [DOMAIN jobs -> {"BUILT", "SCHED", "DONE", "TIMEOUT"}]
  BY <1>1, <1>2
<1>4. Whole' /\ NoLeak'
  BY <1>1, <1>2, KeepsBuffers
<1>5. BufTypeOK'
  BY <1>1, <1>3 DEF BufInv, BufTypeOK, kernel
<1>6. TextHeld'
  BY <1>1, <1>3 DEF BufInv, TextHeld, FreesAll, HasStatic, kernel
<1>7. JobsMarked'
  BY <1>1, <1>3 DEF BufInv, JobsMarked, FreesAll
<1> QED
  BY <1>4, <1>5, <1>6, <1>7 DEF BufInv

\* clean_job: the job is deleted and its handle, if it is still there, unmarked.
LEMMA CleanJobStep ==
  ASSUME BufInv, NEW h \in Handles, CleanJob(h)
  PROVE  BufInv'
<1>1. /\ UNCHANGED <<setup, kernel, graph, text, static>> /\ graph = "loaded"
      /\ tbufs' = [x \in DOMAIN tbufs |->
                     IF x = h THEN [tbufs[x] EXCEPT !.is_free = TRUE] ELSE tbufs[x]]
      /\ jobs' = [x \in DOMAIN jobs \ {h} |-> jobs[x]]
  BY DEF CleanJob, Without
<1>2. tbufs \in [DOMAIN tbufs -> TBuf] /\ jobs \in [DOMAIN jobs -> {"BUILT", "SCHED", "DONE", "TIMEOUT"}]
  BY DEF BufInv, BufTypeOK
<1>3. tbufs' \in [DOMAIN tbufs -> TBuf]
  BY <1>1, <1>2 DEF TBuf
<1>4. \A k \in DOMAIN tbufs :
         /\ tbufs'[k].stack = tbufs[k].stack /\ tbufs'[k].rodata = tbufs[k].rodata
         /\ tbufs'[k].reuse = tbufs[k].reuse
  BY <1>1, <1>2 DEF TBuf
<1>5. Whole' /\ NoLeak'
  BY <1>1, <1>3, <1>4, KeepsBuffers
<1>6. /\ jobs' \in [DOMAIN jobs' -> {"BUILT", "SCHED", "DONE", "TIMEOUT"}]
      /\ DOMAIN jobs' = DOMAIN jobs \ {h}
  BY <1>1, <1>2
<1>7. DOMAIN tbufs' = DOMAIN tbufs
  BY <1>3
<1>8. BufTypeOK'
  BY <1>1, <1>3, <1>6, <1>7 DEF BufInv, BufTypeOK, kernel
<1>9. TextHeld'
  BY <1>1 DEF BufInv, TextHeld, FreesAll, HasStatic, kernel
<1>10. JobsMarked'
  <2> SUFFICES ASSUME FreesAll, NEW k \in DOMAIN jobs'
               PROVE  k \in DOMAIN tbufs' /\ ~tbufs'[k].is_free
    BY <1>1 DEF JobsMarked, FreesAll
  <2>1. k # h /\ k \in DOMAIN tbufs /\ ~tbufs[k].is_free
    BY <1>6 DEF BufInv, JobsMarked
  <2>2. tbufs'[k] = tbufs[k]
    BY <1>1, <2>1
  <2> QED
    BY <1>7, <2>1, <2>2
<1> QED
  BY <1>5, <1>8, <1>9, <1>10 DEF BufInv

\* unload, to the end: nothing is left; an application that freed its handles had only
\* text and the static group.
LEMMA UnloadGraphStep ==
  ASSUME BufInv, UnloadGraph
  PROVE  BufInv'
<1>1. PICK F \in LoopFrees : Free(PbufParts \cup FreedParts(F))
  BY DEF UnloadGraph
<1>2. /\ UNCHANGED setup /\ graph' = "none" /\ text' = Null /\ static' = Null
      /\ DOMAIN tbufs' = {} /\ tbufs' = [x \in {} |-> Null]
      /\ DOMAIN jobs' = {} /\ jobs' = [x \in {} |-> Null]
  BY DEF UnloadGraph, Empty
<1>3. /\ used \in Nat /\ held \subseteq 1 .. used /\ badfree \in BOOLEAN /\ setup \in Setups
  BY DEF BufInv, BufTypeOK
<1>4. /\ used' = used /\ held' \subseteq 1 .. used'
      /\ badfree' \in BOOLEAN
  BY <1>1, <1>3 DEF Free
<1>5. BufTypeOK'
  <2>1. tbufs' \in [DOMAIN tbufs' -> TBuf] /\ DOMAIN tbufs' \subseteq Handles
    BY <1>2
  <2>2. jobs' \in [DOMAIN jobs' -> {"BUILT", "SCHED", "DONE", "TIMEOUT"}]
    BY <1>2
  <2>3. text' \in 0 .. used' /\ static' \in 0 .. used'
    BY <1>2, <1>3, <1>4 DEF Null
  <2> QED
    BY <1>2, <1>3, <1>4, <2>1, <2>2, <2>3 DEF BufTypeOK
<1>6. Whole'
  BY <1>2 DEF Whole
<1>7. TextHeld'
  BY <1>2 DEF TextHeld
<1>8. JobsMarked'
  BY <1>2 DEF JobsMarked
<1>9. NoLeak'
  <2> SUFFICES ASSUME FreesAll, ~MmapFails PROVE held' \subseteq Reachable' /\ ~badfree'
    BY <1>2 DEF NoLeak, FreesAll, MmapFails
  <2>1. DOMAIN tbufs = {} /\ graph = "loaded"
    BY DEF UnloadGraph, MayUnload
  <2>2. F = {}
    BY <2>1 DEF LoopFrees, BeforeBusy
  <2>3. FreedParts(F) = {} /\ FreedParts(DOMAIN tbufs) = {}
    BY <2>1, <2>2 DEF FreedParts
  <2>4. held \subseteq PbufParts /\ ~badfree
    BY <2>3 DEF BufInv, NoLeak, Reachable, PbufParts
  <2>5. PbufParts \subseteq held
    BY <2>1 DEF BufInv, TextHeld, PbufParts
  <2> QED
    BY <1>1, <2>3, <2>4, <2>5 DEF Free
<1> QED
  BY <1>5, <1>6, <1>7, <1>8, <1>9 DEF BufInv

\* An application that frees everything never gets an unload that ends half way.
LEMMA OrderlyUnload ==
  ASSUME BufInv, graph = "loaded", MayUnload, FreesAll
  PROVE  FirstBusy = {} /\ ~StaticGone
<1>1. DOMAIN tbufs = {}
  BY DEF MayUnload
<1>2. FirstBusy = {}
  BY <1>1 DEF FirstBusy
<1>3. ~StaticGone
  BY DEF BufInv, TextHeld, StaticGone
<1> QED
  BY <1>2, <1>3

\* unload, up to a handle that is not free: the handles behind it stay whole.
LEMMA UnloadBusyStep ==
  ASSUME BufInv, UnloadBusy
  PROVE  BufInv'
<1>1. PICK F \in LoopFrees : /\ Free(PbufParts \cup FreedParts(F))
                             /\ tbufs' = [h \in DOMAIN tbufs \ F |-> tbufs[h]]
  BY DEF UnloadBusy
<1>2. /\ UNCHANGED <<setup, graph, static>> /\ text' = Null /\ graph = "loaded"
      /\ jobs' = [x \in {} |-> Null] /\ DOMAIN jobs' = {}
  BY DEF UnloadBusy, Empty
<1>3. ~FreesAll
  BY OrderlyUnload DEF UnloadBusy
<1>4. F \in SUBSET DOMAIN tbufs /\ PbufParts \in SUBSET {text, static}
  BY DEF LoopFrees, BeforeBusy, PbufParts
<1>5. /\ Whole'
      /\ held' \subseteq 1 .. used' /\ used' \in Nat /\ badfree' \in BOOLEAN
      /\ tbufs' \in [DOMAIN tbufs' -> TBuf] /\ DOMAIN tbufs' \subseteq Handles
      /\ text' \in 0 .. used' /\ static' \in 0 .. used'
  BY <1>1, <1>2, <1>4, FreesHandles
<1>6. jobs' \in [DOMAIN jobs' -> {"BUILT", "SCHED", "DONE", "TIMEOUT"}]
  BY <1>2
<1>7. BufTypeOK'
  BY <1>2, <1>5, <1>6 DEF BufInv, BufTypeOK
<1>8. TextHeld'
  BY <1>2, <1>3 DEF TextHeld, FreesAll
<1>9. JobsMarked' /\ NoLeak'
  BY <1>2, <1>3 DEF JobsMarked, NoLeak, FreesAll
<1> QED
  BY <1>5, <1>7, <1>8, <1>9 DEF BufInv

\* unload once more: the handles stay as they are.
LEMMA UnloadAgainStep ==
  ASSUME BufInv, UnloadAgain
  PROVE  BufInv'
<1>1. /\ Free(PbufParts) /\ UNCHANGED <<setup, graph, static, tbufs>> /\ text' = Null
      /\ graph = "loaded" /\ jobs' = [x \in {} |-> Null] /\ DOMAIN jobs' = {}
  BY DEF UnloadAgain, Empty
<1>2. ~FreesAll
  BY OrderlyUnload DEF UnloadAgain
<1>3. PbufParts \in SUBSET {text, static} /\ {} \in SUBSET DOMAIN tbufs
  BY DEF PbufParts
<1>4. Free(PbufParts \cup FreedParts({}))
  <2>1. PbufParts \cup FreedParts({}) = PbufParts
    BY DEF FreedParts
  <2> QED
    BY <1>1, <2>1
<1>5. tbufs' = [h \in DOMAIN tbufs \ {} |-> tbufs[h]]
  <2>1. tbufs = [h \in DOMAIN tbufs |-> tbufs[h]] /\ DOMAIN tbufs \ {} = DOMAIN tbufs
    BY DEF BufInv, BufTypeOK
  <2> QED
    BY <1>1, <2>1
<1>6. /\ Whole'
      /\ held' \subseteq 1 .. used' /\ used' \in Nat /\ badfree' \in BOOLEAN
      /\ tbufs' \in [DOMAIN tbufs' -> TBuf] /\ DOMAIN tbufs' \subseteq Handles
      /\ text' \in 0 .. used' /\ static' \in 0 .. used'
  BY <1>1, <1>3, <1>4, <1>5, FreesHandles
<1>7. jobs' \in [DOMAIN jobs' -> {"BUILT", "SCHED", "DONE", "TIMEOUT"}]
  BY <1>1
<1>8. BufTypeOK'
  BY <1>1, <1>6, <1>7 DEF BufInv, BufTypeOK
<1>9. TextHeld'
  BY <1>1, <1>2 DEF TextHeld, FreesAll
<1>10. JobsMarked' /\ NoLeak'
  BY <1>1, <1>2 DEF JobsMarked, NoLeak, FreesAll
<1> QED
  BY <1>6, <1>8, <1>9, <1>10 DEF BufInv

-----------------------------------------------------------------------------
(* The theorems.                                                           *)

\* Every step of the driver keeps the invariant.
LEMMA BufInvInductive ==
  BufInv /\ [Next]_vars => BufInv'
<1> SUFFICES ASSUME BufInv, [Next]_vars PROVE BufInv'
  OBVIOUS
<1>1. used \in Nat /\ held \subseteq 1 .. used
  BY DEF BufInv, BufTypeOK
<1>2. CASE LoadGraph
  BY <1>2, LoadGraphStep
<1>3. CASE LoadGraphFails
  BY <1>3, LoadGraphFailsStep
<1>4. CASE AllocThreadBuffer
  BY <1>4, AllocThreadBufferStep
<1>5. CASE AllocThreadBufferFails
  BY <1>5, AllocThreadBufferFailsStep
<1>6. CASE UnloadRefused
  <2>1. UNCHANGED <<setup, graph, text, static, tbufs, jobs, badfree, held, used>>
    BY <1>6 DEF UnloadRefused, kernel
  <2> QED
    BY <1>1, <2>1, KeepsNothing
<1>7. CASE UnloadGraph
  BY <1>7, UnloadGraphStep
<1>8. CASE UnloadBusy
  BY <1>8, UnloadBusyStep
<1>9. CASE UnloadAgain
  BY <1>9, UnloadAgainStep
<1>10. ASSUME NEW h \in Handles, FreeThreadBuffer(h) PROVE BufInv'
  BY <1>10, FreeThreadBufferStep
<1>11. ASSUME NEW h \in Handles, BuildNewJob(h) PROVE BufInv'
  BY <1>11, BuildNewJobStep
<1>12. ASSUME NEW h \in Handles, FlushJob(h) PROVE BufInv'
  BY <1>12, JobGoesStep DEF FlushJob
<1>13. ASSUME NEW h \in Handles, JobEnds(h) PROVE BufInv'
  BY <1>13, JobGoesStep DEF JobEnds
<1>14. ASSUME NEW h \in Handles, JobTimesOut(h) PROVE BufInv'
  BY <1>14, JobGoesStep DEF JobTimesOut
<1>15. ASSUME NEW h \in Handles, CleanJob(h) PROVE BufInv'
  BY <1>15, CleanJobStep
<1>16. CASE UNCHANGED vars
  <2>1. UNCHANGED <<setup, graph, text, static, tbufs, jobs, badfree, held, used>>
    BY <1>16 DEF vars
  <2> QED
    BY <1>1, <2>1, KeepsNothing
<1> QED
  BY <1>2, <1>3, <1>4, <1>5, <1>6, <1>7, <1>8, <1>9, <1>10, <1>11, <1>12,
         <1>13, <1>14, <1>15, <1>16 DEF Next

\* Before the graph is loaded there is nothing to own.
LEMMA BufInvInit ==
  Init => BufInv
<1> SUFFICES ASSUME Init PROVE BufInv
  OBVIOUS
<1>1. /\ setup \in Setups /\ held = {} /\ used = 0 /\ graph = "none" /\ text = 0 /\ static = 0
      /\ tbufs = [x \in {} |-> Null] /\ jobs = [x \in {} |-> Null] /\ badfree = FALSE
      /\ DOMAIN tbufs = {} /\ DOMAIN jobs = {}
  BY DEF Init, Empty, Null
<1>2. BufTypeOK
  <2>1. tbufs \in [DOMAIN tbufs -> TBuf] /\ DOMAIN tbufs \subseteq Handles
    BY <1>1
  <2>2. jobs \in [DOMAIN jobs -> {"BUILT", "SCHED", "DONE", "TIMEOUT"}]
    BY <1>1
  <2>3. used \in Nat /\ held \subseteq 1 .. used /\ text \in 0 .. used /\ static \in 0 .. used
    BY <1>1
  <2> QED
    BY <1>1, <2>1, <2>2, <2>3 DEF BufTypeOK
<1>3. Whole /\ JobsMarked
  BY <1>1 DEF Whole, JobsMarked
<1>4. TextHeld
  BY <1>1 DEF TextHeld, Null
<1>5. NoLeak
  BY <1>1 DEF NoLeak
<1> QED
  BY <1>2, <1>3, <1>4, <1>5 DEF BufInv

\* What is fresh, whole and marked stays so through every call of Graph::load,
\* alloc_thread_buffer, free_thread_buffer and Graph::unload, and their error paths.
THEOREM BuffersInvariant == Spec => []BufInv
<1> QED
  BY BufInvInit, BufInvInductive, PTL DEF Spec

\* Whichever REQBUF fails in load or in alloc_thread_buffer, an application that frees
\* what it allocated can still free every buffer the kernel holds for it, and frees none
\* twice.
THEOREM NothingIsLeaked == Spec => []NoLeak
<1>1. BufInv => NoLeak
  BY DEF BufInv
<1> QED
  BY <1>1, BuffersInvariant, PTL

\* However an unload ends, the handles it leaves have three buffers of their own, held in
\* the kernel; and no call takes memory from under a scheduled job of an application that
\* frees in order.
THEOREM JobMemoryIsHeld == Spec => []ScheduledMemoryHeld
<1>1. BufInv => ScheduledMemoryHeld
  <2> SUFFICES ASSUME BufInv PROVE ScheduledMemoryHeld
    OBVIOUS
  <2>1. \A h \in DOMAIN tbufs : WholeBuf(tbufs[h])
    BY DEF BufInv, Whole
  <2>2. FreedParts(DOMAIN tbufs) \subseteq held
    BY <2>1 DEF FreedParts, WholeBuf
  <2>3. \A h \in DOMAIN tbufs :
          /\ Cardinality(Parts(tbufs[h])) = 3
          /\ Parts(tbufs[h]) \cap {text, static} = {}
    BY <2>1, ThreeParts DEF WholeBuf
  <2>4. \A h \in DOMAIN tbufs : \A k \in DOMAIN tbufs \ {h} :
          Parts(tbufs[h]) \cap Parts(tbufs[k]) = {}
    BY DEF BufInv, Whole
  <2>5. ASSUME NEW h \in DOMAIN jobs, FreesAll
        PROVE  /\ text \in held /\ (HasStatic => static \in held)
               /\ h \in DOMAIN tbufs /\ ~tbufs[h].is_free
    <3>1. graph = "loaded"
      BY DEF BufInv, TextHeld, BufTypeOK
    <3>2. text \in held /\ (HasStatic => static \in held)
      BY <2>5, <3>1 DEF BufInv, TextHeld
    <3>3. h \in DOMAIN tbufs /\ ~tbufs[h].is_free
      BY <2>5 DEF BufInv, JobsMarked
    <3> QED
      BY <3>2, <3>3
  <2> QED
    BY <2>2, <2>3, <2>4, <2>5 DEF ScheduledMemoryHeld
<1> QED
  BY <1>1, BuffersInvariant, PTL

-----------------------------------------------------------------------------
(* The parser.                                                             *)

\* The statements of the parser: the header's, the loops over the descriptors,
\* the rest.
HeaderPlaces == {"parse", "ident", "text", "rodata", "data", "bss"}
SectionPlaces == {"bss_hdr", "section", "sub", "ro", "list", "node", "sort"}
ParserPlaces == HeaderPlaces \cup SectionPlaces \cup {"match", "done"}

\* A field of the header.
Field == 0..(Word - 1)
Header == [size : Field, filesize : Field, version : Nat, flag : Nat,
           entry : Field, text : Field, text_size : Field,
           rodata : Field, rodata_size : Field, data : Field, data_size : Field,
           bss : Field, bss_size : Field]

\* The tables of graph_info_t.
Offset == {0, 1}
SectionTable == Seq(Seq(Offset))
ParamEntry == [type : Kinds, sec : Nat, sub : Nat, off : Offset]
IoTensor == [id : Nat, sec : Nat, off : Offset]
GraphInfo == [static : SectionTable, reuse : SectionTable, params : Seq(ParamEntry),
              input : Seq(IoTensor), output : Seq(IoTensor), dump : Seq(IoTensor),
              dcr : Nat]
Desc == [kind : Kinds, sec : Nat, sub : Nat, type : Types, id : Nat,
         off : Offset, ro : Nat]
Section == [kind : Kinds, subs : Seq(Offset), subcnt : Nat, ro : Nat]

ParserTypes ==
    /\ bound \in Bounds /\ pc \in ParserPlaces /\ hdr \in Header
    /\ sec \in Section /\ info \in GraphInfo /\ file \in Seq(Desc)

\* What the checks that are behind the parser have established: the parts of the
\* file follow one another, modulo Word.
HeaderChecked ==
    /\ pc \in {"text", "rodata", "data", "bss", "bss_hdr"} =>
        hdr.filesize <= hdr.size
    /\ pc \in {"rodata", "data", "bss", "bss_hdr"} =>
        /\ hdr.entry < hdr.text_size /\ 1 <= hdr.text
        /\ Add(hdr.text, hdr.text_size) <= hdr.rodata
    /\ pc \in {"data", "bss", "bss_hdr"} =>
        Add(hdr.rodata, hdr.rodata_size) <= hdr.data
    /\ pc \in {"bss", "bss_hdr"} => Add(hdr.data, hdr.data_size) <= hdr.bss
    /\ pc = "bss_hdr" => Add(hdr.bss, hdr.bss_size) <= hdr.filesize

\* An entry of the parameter map refers to a section that is in its table, or to
\* the one that is being read and is put there next.
InSection == pc \in {"sub", "ro"}
Refers(p) ==
    \/ /\ p.sec < Len(info[p.type])
       /\ p.sub < Len(info[p.type][p.sec + 1])
       /\ p.off = info[p.type][p.sec + 1][p.sub + 1]
    \/ /\ InSection /\ p.type = sec.kind /\ p.sec = Len(info[sec.kind])
       /\ p.sub < Len(sec.subs) /\ p.off = sec.subs[p.sub + 1]

\* So does a tensor, to a section of the reuse table.
RefersReuse(x) ==
    \/ x.sec < Len(info["reuse"])
    \/ InSection /\ sec.kind = "reuse" /\ x.sec = Len(info["reuse"])

References == ret = "SUCCESS" =>
    /\ pc = "ro" => Len(sec.subs) > 0
    /\ \A i \in DOMAIN info["params"] : Refers(info["params"][i])
    /\ \A t \in IoTypes : \A i \in DOMAIN info[t] : RefersReuse(info[t][i])

\* Until they are sorted, the tensors of a type are the ones that were read, as
\* many as there were.
Listed(t) ==
    /\ Len(info[t]) = Cardinality(Described(t))
    /\ {info[t][i] : i \in DOMAIN info[t]}
            = {Tensor(file[k]) : k \in Described(t)}

\* Then they are in the order of their ids.
Numbered(t) == IdsArePermutation("output") /\ IdsArePermutation(t) =>
    /\ Len(info[t]) = Cardinality(Described(t))
    /\ \A i \in DOMAIN info[t] :
        /\ info[t][i].id = i - 1
        /\ \E k \in Described(t) : info[t][i] = Tensor(file[k])

Tensors == ret = "SUCCESS" => \A t \in {"input", "output"} :
    IF pc \in {"match", "done"} THEN Numbered(t) ELSE Listed(t)

\* An error ends the parse.
ErrorEnds == ret # "SUCCESS" => pc = "done"

ParserInv == ErrorEnds /\ ParserTypes /\ HeaderChecked /\ References /\ Tensors

\* A bounded one has a greatest.
LEMMA GreatestNat ==
  ASSUME NEW T, T \subseteq Nat, T # {}, NEW n \in Nat, \A y \in T : y <= n
  PROVE  \E x \in T : \A y \in T : y <= x
<1> DEFINE U == {n - y : y \in T}
<1>1. U \subseteq Nat /\ U # {}
  <2>1. ASSUME NEW y \in T PROVE n - y \in Nat
    <3>1. y \in Nat /\ y <= n
      OBVIOUS
    <3> QED
      BY <3>1
  <2> QED
    BY <2>1
<1>2. PICK u \in U : \A v \in U : u <= v
  BY <1>1, LeastNat
<1>3. PICK x \in T : u = n - x
  OBVIOUS
<1>4. \A y \in T : n - x <= n - y
  BY <1>2, <1>3
<1>5. \A y \in T : y \in Nat
  OBVIOUS
<1> QED
  BY <1>4, <1>5

\* What fits is its own remainder.
LEMMA SmallMod ==
  ASSUME NEW x \in Nat, NEW A \in Nat \ {0}, x < A
  PROVE  x % A = x /\ x \div A = 0
OBVIOUS

\* Two fields are added modulo Word; a sum that fits is exact.
LEMMA FieldSum ==
  ASSUME NEW a \in Field, NEW b \in Field
  PROVE  Add(a, b) \in Nat /\ (a + b < Word => Add(a, b) = a + b)
<1>1. Word \in Nat \ {0} /\ a + b \in Nat
  BY BinaryAssumption DEF Field
<1>2. ((a + b) % Word) \in Nat
  BY <1>1
<1> QED
  BY <1>1, <1>2, SmallMod DEF Add

\* The fields that a file of the family can have.
LEMMA FieldsOf ==
  ASSUME bound \in Bounds
  PROVE  /\ bound.fields \subseteq Field /\ bound.ids \subseteq Nat
         /\ bound.subs \in Nat /\ bound.ro \in Nat /\ 0 \in Field
BY BinaryAssumption DEF Field

\* Fields are numbers.
LEMMA HeaderNat ==
  ASSUME hdr \in Header
  PROVE  /\ hdr.size \in Nat /\ hdr.filesize \in Nat
         /\ hdr.entry \in Nat /\ hdr.text \in Nat /\ hdr.text_size \in Nat
         /\ hdr.rodata \in Nat /\ hdr.rodata_size \in Nat
         /\ hdr.data \in Nat /\ hdr.data_size \in Nat
         /\ hdr.bss \in Nat /\ hdr.bss_size \in Nat
<1>1. Field \subseteq Nat
  BY DEF Field
<1> QED
  BY <1>1 DEF Header

\* A step outside of the loops over the descriptors.
LEMMA TablesKept ==
  ASSUME References, Tensors, info' = info, sec' = sec, file' = file,
         ret' = "SUCCESS" => ret = "SUCCESS",
         ret' = "SUCCESS" => ~InSection /\ ~InSection',
         ret' = "SUCCESS" => pc \in {"match", "done"} <=> pc' \in {"match", "done"}
  PROVE  References' /\ Tensors'
<1>1. References'
  BY DEF References, Refers, RefersReuse, InSection
<1>2. ASSUME NEW t PROVE Numbered(t)' = Numbered(t) /\ Listed(t)' = Listed(t)
  BY DEF Numbered, Listed, IdsArePermutation, Described
<1>3. Tensors'
  BY <1>2 DEF Tensors
<1> QED
  BY <1>1, <1>3

\* Every step goes on, or returns an error.
LEMMA ErrorEndsNext ==
  ASSUME ErrorEnds, ParseNext
  PROVE  ErrorEnds'
<1>1. CASE ParseGraph \/ CheckIdent \/ CheckText \/ CheckRodata \/ CheckData
  BY <1>1 DEF ErrorEnds, ParseGraph, CheckIdent, CheckText, CheckRodata,
         CheckData, Goto, Fail
<1>2. CASE CheckBss \/ BssHeader \/ ReadSection \/ ReadSubSection \/ ReadRoEntry
  BY <1>2 DEF ErrorEnds, CheckBss, BssHeader, ReadSection, ReadSubSection,
     ReadRoEntry, Goto, Fail
<1>3. CASE EndSubSection \/ EndSection \/ EndSections
  BY <1>3 DEF ErrorEnds, EndSubSection, EndSection, EndSections, Goto
<1>4. CASE ReadList \/ ReadNode \/ SortIoTensors \/ MatchTargetDev
  BY <1>4 DEF ErrorEnds, ReadList, ReadNode, SortIoTensors, MatchTargetDev,
     Goto, Fail
<1> QED
  BY <1>1, <1>2, <1>3, <1>4 DEF ParseNext

\* parse_graph: the size of the file.
LEMMA ParseGraphInv ==
  ASSUME ParserInv, ParseGraph
  PROVE  ParserInv'
<1>1. ParserTypes' /\ HeaderChecked'
  BY FieldsOf DEF ParserInv, ParserTypes, HeaderChecked, ParseGraph, Goto, Fail,
     bss, Header, ParserPlaces, HeaderPlaces, SectionPlaces
<1>2. References' /\ Tensors'
  BY TablesKept DEF ParserInv, ParseGraph, Goto, Fail, bss, InSection
<1> QED
  BY ErrorEndsNext, <1>1, <1>2 DEF ParserInv, ParseNext

\* parse_graph_header: the file is at least as long as it says.
LEMMA CheckIdentInv ==
  ASSUME ParserInv, CheckIdent
  PROVE  ParserInv'
<1>1. PICK f \in bound.fields, v \in {3, 4, 5}, g \in {0, 1} :
         /\ hdr' = [hdr EXCEPT !.filesize = f, !.version = v, !.flag = g]
         /\ pc' = "done" \/ (pc' = "text" /\ ~(hdr.size < f))
  <2>1. PICK magic, sizeok \in BOOLEAN, f \in bound.fields, v \in {3, 4, 5}, ll \in {0, 1} :
          /\ hdr' = [hdr EXCEPT !.filesize = f, !.version = v,
                                !.flag = IF v = 4 THEN ll ELSE 0]
          /\ IF ~magic \/ hdr.size < f THEN Fail("INVALID_GBIN")
             ELSE IF v \notin {3, 4} THEN Fail("GVERSION_UNSUPPORTED")
             ELSE IF ~sizeok THEN Fail("INVALID_GBIN") ELSE Goto("text")
    BY DEF CheckIdent
  <2>2. pc' = "done" \/ (pc' = "text" /\ ~(hdr.size < f))
    BY <2>1 DEF Goto, Fail
  <2>3. (IF v = 4 THEN ll ELSE 0) \in {0, 1}
    OBVIOUS
  <2> QED
    BY <2>1, <2>2, <2>3
<1>2. f \in Field /\ f \in Nat /\ hdr \in Header
  BY FieldsOf DEF ParserInv, ParserTypes, Field
<1>3. hdr' \in Header
  <2>1. v \in Nat /\ g \in Nat
    OBVIOUS
  <2> QED
    BY <1>1, <1>2, <2>1 DEF Header
<1>4. ParserTypes'
  BY <1>1, <1>3 DEF ParserInv, ParserTypes, CheckIdent, bss,
     ParserPlaces, HeaderPlaces, SectionPlaces
<1>5. HeaderChecked'
  <2>1. hdr'.filesize = f /\ hdr'.size = hdr.size
    BY <1>1, <1>2 DEF Header
  <2> QED
    BY <1>1, <1>2, <2>1, HeaderNat DEF HeaderChecked
<1>6. References' /\ Tensors'
  BY TablesKept DEF ParserInv, CheckIdent, Goto, Fail, bss, InSection
<1> QED
  BY ErrorEndsNext, <1>4, <1>5, <1>6 DEF ParserInv, ParseNext

\* The text lies behind the header and before the rodata.
LEMMA CheckTextInv ==
  ASSUME ParserInv, CheckText
  PROVE  ParserInv'
<1>1. PICK e, o, n, r \in bound.fields :
         /\ hdr' = [hdr EXCEPT !.entry = e, !.text = o, !.text_size = n, !.rodata = r]
         /\ IF e >= n \/ o < HdrSize \/ Add(o, n) > r \/ n = 0
            THEN Fail("INVALID_GBIN") ELSE Goto("rodata")
  BY DEF CheckText
<1>2. {e, o, n, r} \subseteq Field /\ o \in Field /\ hdr \in Header
  BY FieldsOf DEF ParserInv, ParserTypes, Header
<1>3. Add(o, n) \in Nat
  BY <1>2, FieldSum
<1>4. {e, o, n, r} \subseteq Nat
  BY <1>2 DEF Field
<1>5. hdr' \in Header
  BY <1>1, <1>2 DEF Header
<1>6. ParserTypes'
  BY <1>1, <1>5 DEF ParserInv, ParserTypes, CheckText, Goto, Fail, bss,
     ParserPlaces, HeaderPlaces, SectionPlaces
<1>7. HeaderChecked'
  <2>1. /\ hdr'.entry = e /\ hdr'.text = o
        /\ hdr'.text_size = n /\ hdr'.rodata = r
        /\ hdr'.size = hdr.size /\ hdr'.filesize = hdr.filesize
        /\ hdr'.rodata_size = hdr.rodata_size /\ hdr'.data = hdr.data
        /\ hdr'.data_size = hdr.data_size /\ hdr'.bss = hdr.bss
        /\ hdr'.bss_size = hdr.bss_size
    BY <1>1, <1>2 DEF Header
  <2>2. pc' = "done" \/ (pc' = "rodata" /\ ~(e >= n \/ o < HdrSize \/ Add(o, n) > r \/ n = 0))
    BY <1>1 DEF Goto, Fail
  <2>3. pc = "text" /\ HeaderChecked
    BY DEF ParserInv, CheckText
  <2> QED
    BY <1>2, <1>3, <1>4, <2>1, <2>2, <2>3, HeaderNat DEF HeaderChecked, HdrSize
<1>8. References' /\ Tensors'
  BY TablesKept DEF ParserInv, CheckText, Goto, Fail, bss, InSection
<1> QED
  BY ErrorEndsNext, <1>6, <1>7, <1>8 DEF ParserInv, ParseNext

\* The rodata lies before the data.
LEMMA CheckRodataInv ==
  ASSUME ParserInv, CheckRodata
  PROVE  ParserInv'
<1>1. PICK n, d \in bound.fields :
         /\ hdr' = [hdr EXCEPT !.rodata_size = n, !.data = d]
         /\ IF Add(hdr.rodata, n) > d \/ n = 0
            THEN Fail("INVALID_GBIN") ELSE Goto("data")
  BY DEF CheckRodata
<1>2. {n, d} \subseteq Field /\ hdr.rodata \in Field /\ hdr \in Header
  BY FieldsOf DEF ParserInv, ParserTypes, Header
<1>3. Add(hdr.rodata, n) \in Nat
  BY <1>2, FieldSum
<1>4. {n, d} \subseteq Nat
  BY <1>2 DEF Field
<1>5. hdr' \in Header
  BY <1>1, <1>2 DEF Header
<1>6. ParserTypes'
  BY <1>1, <1>5 DEF ParserInv, ParserTypes, CheckRodata, Goto, Fail, bss,
     ParserPlaces, HeaderPlaces, SectionPlaces
<1>7. HeaderChecked'
  <2>1. /\ hdr'.rodata_size = n /\ hdr'.data = d
        /\ hdr'.size = hdr.size /\ hdr'.filesize = hdr.filesize
        /\ hdr'.entry = hdr.entry /\ hdr'.text = hdr.text
        /\ hdr'.text_size = hdr.text_size /\ hdr'.rodata = hdr.rodata
        /\ hdr'.data_size = hdr.data_size /\ hdr'.bss = hdr.bss
        /\ hdr'.bss_size = hdr.bss_size
    BY <1>1, <1>2 DEF Header
  <2>2. pc' = "done" \/ (pc' = "data" /\ ~(Add(hdr.rodata, n) > d \/ n = 0))
    BY <1>1 DEF Goto, Fail
  <2>3. pc = "rodata" /\ HeaderChecked
    BY DEF ParserInv, CheckRodata
  <2> QED
    BY <1>2, <1>3, <1>4, <2>1, <2>2, <2>3, HeaderNat DEF HeaderChecked, HdrSize
<1>8. References' /\ Tensors'
  BY TablesKept DEF ParserInv, CheckRodata, Goto, Fail, bss, InSection
<1> QED
  BY ErrorEndsNext, <1>6, <1>7, <1>8 DEF ParserInv, ParseNext

\* The data lies before the bss.
LEMMA CheckDataInv ==
  ASSUME ParserInv, CheckData
  PROVE  ParserInv'
<1>1. PICK n, b \in bound.fields :
         /\ hdr' = [hdr EXCEPT !.data_size = n, !.bss = b]
         /\ IF Add(hdr.data, n) > b
            THEN Fail("INVALID_GBIN") ELSE Goto("bss")
  BY DEF CheckData
<1>2. {n, b} \subseteq Field /\ hdr.data \in Field /\ hdr \in Header
  BY FieldsOf DEF ParserInv, ParserTypes, Header
<1>3. Add(hdr.data, n) \in Nat
  BY <1>2, FieldSum
<1>4. {n, b} \subseteq Nat
  BY <1>2 DEF Field
<1>5. hdr' \in Header
  BY <1>1, <1>2 DEF Header
<1>6. ParserTypes'
  BY <1>1, <1>5 DEF ParserInv, ParserTypes, CheckData, Goto, Fail, bss,
     ParserPlaces, HeaderPlaces, SectionPlaces
<1>7. HeaderChecked'
  <2>1. /\ hdr'.data_size = n /\ hdr'.bss = b
        /\ hdr'.size = hdr.size /\ hdr'.filesize = hdr.filesize
        /\ hdr'.entry = hdr.entry /\ hdr'.text = hdr.text
        /\ hdr'.text_size = hdr.text_size /\ hdr'.rodata = hdr.rodata
        /\ hdr'.rodata_size = hdr.rodata_size /\ hdr'.data = hdr.data
        /\ hdr'.bss_size = hdr.bss_size
    BY <1>1, <1>2 DEF Header
  <2>2. pc' = "done" \/ (pc' = "bss" /\ ~(Add(hdr.data, n) > b))
    BY <1>1 DEF Goto, Fail
  <2>3. pc = "data" /\ HeaderChecked
    BY DEF ParserInv, CheckData
  <2> QED
    BY <1>2, <1>3, <1>4, <2>1, <2>2, <2>3, HeaderNat DEF HeaderChecked, HdrSize
<1>8. References' /\ Tensors'
  BY TablesKept DEF ParserInv, CheckData, Goto, Fail, bss, InSection
<1> QED
  BY ErrorEndsNext, <1>6, <1>7, <1>8 DEF ParserInv, ParseNext

\* The bss lies in the file.
LEMMA CheckBssInv ==
  ASSUME ParserInv, CheckBss
  PROVE  ParserInv'
<1>1. PICK n \in bound.fields :
         /\ hdr' = [hdr EXCEPT !.bss_size = n]
         /\ IF Add(hdr.bss, n) > hdr.filesize \/ n = 0
            THEN Fail("INVALID_GBIN") ELSE Goto("bss_hdr")
  BY DEF CheckBss
<1>2. {n} \subseteq Field /\ hdr.bss \in Field /\ hdr \in Header
  BY FieldsOf DEF ParserInv, ParserTypes, Header
<1>3. Add(hdr.bss, n) \in Nat
  BY <1>2, FieldSum
<1>4. {n} \subseteq Nat
  BY <1>2 DEF Field
<1>5. hdr' \in Header
  BY <1>1, <1>2 DEF Header
<1>6. ParserTypes'
  BY <1>1, <1>5 DEF ParserInv, ParserTypes, CheckBss, Goto, Fail, bss,
     ParserPlaces, HeaderPlaces, SectionPlaces
<1>7. HeaderChecked'
  <2>1. /\ hdr'.bss_size = n /\ hdr'.size = hdr.size
        /\ hdr'.filesize = hdr.filesize /\ hdr'.entry = hdr.entry
        /\ hdr'.text = hdr.text /\ hdr'.text_size = hdr.text_size
        /\ hdr'.rodata = hdr.rodata /\ hdr'.rodata_size = hdr.rodata_size
        /\ hdr'.data = hdr.data /\ hdr'.data_size = hdr.data_size
        /\ hdr'.bss = hdr.bss
    BY <1>1, <1>2 DEF Header
  <2>2. pc' = "done" \/ (pc' = "bss_hdr" /\ ~(Add(hdr.bss, n) > hdr.filesize \/ n = 0))
    BY <1>1 DEF Goto, Fail
  <2>3. pc = "bss" /\ HeaderChecked
    BY DEF ParserInv, CheckBss
  <2> QED
    BY <1>2, <1>3, <1>4, <2>1, <2>2, <2>3, HeaderNat DEF HeaderChecked, HdrSize
<1>8. References' /\ Tensors'
  BY TablesKept DEF ParserInv, CheckBss, Goto, Fail, bss, InSection
<1> QED
  BY ErrorEndsNext, <1>6, <1>7, <1>8 DEF ParserInv, ParseNext

\* A step of the loops: only the tables and the place change.
LEMMA HeaderKept ==
  ASSUME HeaderChecked, hdr' = hdr, pc' \notin HeaderPlaces \cup {"bss_hdr"}
  PROVE  HeaderChecked'
BY DEF HeaderChecked, HeaderPlaces

\* bss_header.
LEMMA BssHeaderInv ==
  ASSUME ParserInv, BssHeader
  PROVE  ParserInv'
<1>1. pc' \in {"done", "section"} /\ hdr' = hdr /\ bound' = bound
  BY DEF BssHeader, Goto, Fail
<1>2. ParserTypes' /\ HeaderChecked'
  BY <1>1, HeaderKept DEF ParserInv, ParserTypes, BssHeader, ParserPlaces,
         HeaderPlaces, SectionPlaces
<1>3. References' /\ Tensors'
  BY TablesKept DEF ParserInv, BssHeader, Goto, Fail, InSection
<1> QED
  BY ErrorEndsNext, <1>2, <1>3 DEF ParserInv, ParseNext

\* The next section descriptor; whatever was read before is in the tables.
LEMMA ReadSectionInv ==
  ASSUME ParserInv, ReadSection
  PROVE  ParserInv'
<1>1. pc' \in {"done", "sub"} /\ hdr' = hdr /\ bound' = bound /\ info' = info /\ file' = file
  BY DEF ReadSection, Goto, Fail
<1>2. sec' \in Section
  <2>1. CASE sec' = sec
    BY <2>1 DEF ParserInv, ParserTypes
  <2>2. CASE sec' # sec
    <3>1. PICK n \in 0..bound.subs :
            sec' = [kind |-> Kind, subs |-> <<>>, subcnt |-> n, ro |-> 0]
      BY <2>2 DEF ReadSection
    <3>2. n \in Nat /\ Kind \in Kinds
      BY FieldsOf DEF ParserInv, ParserTypes, Kind, Kinds
    <3>3. <<>> \in Seq(Offset)
      OBVIOUS
    <3> QED
      BY <3>1, <3>2, <3>3 DEF Section
  <2> QED
    BY <2>1, <2>2
<1>3. ParserTypes' /\ HeaderChecked'
  BY <1>1, <1>2, HeaderKept DEF ParserInv, ParserTypes, ParserPlaces,
         HeaderPlaces, SectionPlaces
<1>4. CASE ret' = "SUCCESS"
  <2>1. ret = "SUCCESS" /\ pc = "section" /\ pc' = "sub"
    BY <1>4 DEF ReadSection, Goto, Fail
  <2>2. References'
    BY <1>1, <2>1 DEF ParserInv, References, Refers, RefersReuse, InSection
  <2>3. ASSUME NEW t PROVE Listed(t)' = Listed(t)
    BY <1>1 DEF Listed, Described
  <2>4. Tensors'
    BY <2>1, <2>3 DEF ParserInv, Tensors
  <2> QED
    BY <1>3, <2>2, <2>4, ErrorEndsNext DEF ParserInv, ParseNext
<1>5. ret' # "SUCCESS" => References' /\ Tensors'
  BY DEF References, Tensors
<1> QED
  BY ErrorEndsNext, <1>3, <1>4, <1>5 DEF ParserInv, ParseNext

\* The places of the current sub-section are all read.
LEMMA EndSubSectionInv ==
  ASSUME ParserInv, EndSubSection
  PROVE  ParserInv'
<1>1. /\ pc = "ro" /\ pc' = "sub" /\ hdr' = hdr /\ bound' = bound /\ info' = info
      /\ file' = file /\ sec' = sec /\ ret' = ret
  BY DEF EndSubSection, Goto, bss
<1>2. ParserTypes' /\ HeaderChecked'
  BY <1>1, HeaderKept DEF ParserInv, ParserTypes, ParserPlaces, HeaderPlaces,
         SectionPlaces
<1>3. References'
  BY <1>1 DEF ParserInv, References, Refers, RefersReuse, InSection
<1>4. ASSUME NEW t PROVE Listed(t)' = Listed(t)
  BY <1>1 DEF Listed, Described
<1>5. Tensors'
  BY <1>1, <1>4 DEF ParserInv, Tensors
<1> QED
  BY ErrorEndsNext, <1>2, <1>3, <1>5 DEF ParserInv, ParseNext

\* All descriptors are read.
LEMMA EndSectionsInv ==
  ASSUME ParserInv, EndSections
  PROVE  ParserInv'
<1>1. pc' \in {"list", "sort"} /\ hdr' = hdr /\ bound' = bound
  BY DEF EndSections, Goto
<1>2. ParserTypes' /\ HeaderChecked'
  BY <1>1, HeaderKept DEF ParserInv, ParserTypes, EndSections, bss,
         ParserPlaces, HeaderPlaces, SectionPlaces
<1>3. References' /\ Tensors'
  BY <1>1, TablesKept DEF ParserInv, EndSections, Goto, bss, InSection
<1> QED
  BY ErrorEndsNext, <1>2, <1>3 DEF ParserInv, ParseNext

\* The head of the linked list.
LEMMA ReadListInv ==
  ASSUME ParserInv, ReadList
  PROVE  ParserInv'
<1>1. pc' \in {"done", "node"} /\ hdr' = hdr /\ bound' = bound
  BY DEF ReadList, Goto, Fail
<1>2. ParserTypes' /\ HeaderChecked'
  BY <1>1, HeaderKept DEF ParserInv, ParserTypes, ReadList, ParserPlaces,
     HeaderPlaces, SectionPlaces
<1>3. References' /\ Tensors'
  BY TablesKept DEF ParserInv, ReadList, Goto, Fail, InSection
<1> QED
  BY ErrorEndsNext, <1>2, <1>3 DEF ParserInv, ParseNext

\* match_target_dev.
LEMMA MatchTargetDevInv ==
  ASSUME ParserInv, MatchTargetDev
  PROVE  ParserInv'
<1>1. pc' = "done" /\ hdr' = hdr /\ bound' = bound
  BY DEF MatchTargetDev, Goto, Fail
<1>2. ParserTypes' /\ HeaderChecked'
  BY <1>1, HeaderKept DEF ParserInv, ParserTypes, MatchTargetDev, bss,
         ParserPlaces, HeaderPlaces, SectionPlaces
<1>3. References' /\ Tensors'
  BY <1>1, TablesKept DEF ParserInv, MatchTargetDev, Goto, Fail, bss, InSection
<1> QED
  BY ErrorEndsNext, <1>2, <1>3 DEF ParserInv, ParseNext

\* What a table holds when something was appended.
LEMMA Appended ==
  ASSUME NEW S, NEW s \in Seq(S), NEW x \in S
  PROVE  /\ Append(s, x) \in Seq(S) /\ Len(Append(s, x)) = Len(s) + 1
         /\ DOMAIN Append(s, x) = DOMAIN s \cup {Len(s) + 1}
         /\ \A i \in DOMAIN s : Append(s, x)[i] = s[i]
         /\ Append(s, x)[Len(s) + 1] = x
         /\ Len(s) \in Nat /\ DOMAIN s = 1 .. Len(s)
OBVIOUS

\* The fields of the tables.
LEMMA InfoTypes ==
  ASSUME info \in GraphInfo
  PROVE  /\ info["params"] \in Seq(ParamEntry)
         /\ \A k \in Kinds : info[k] \in Seq(Seq(Offset)) /\ Len(info[k]) \in Nat
         /\ \A t \in IoTypes : info[t] \in Seq(IoTensor)
BY DEF GraphInfo, SectionTable, Kinds, IoTypes

\* What is in the tables.
LEMMA InfoEntries ==
  ASSUME References, ret = "SUCCESS", info \in GraphInfo
  PROVE  /\ \A i \in DOMAIN info["params"] :
                info["params"][i] \in ParamEntry /\ Refers(info["params"][i])
         /\ \A t \in IoTypes : \A i \in DOMAIN info[t] :
                info[t][i] \in IoTensor /\ RefersReuse(info[t][i])
<1>1. info["params"] \in Seq(ParamEntry) /\ \A t \in IoTypes : info[t] \in Seq(IoTensor)
  BY InfoTypes
<1>2. ASSUME NEW i \in DOMAIN info["params"]
      PROVE  info["params"][i] \in ParamEntry /\ Refers(info["params"][i])
  BY <1>1 DEF References
<1>3. ASSUME NEW t \in IoTypes, NEW i \in DOMAIN info[t]
      PROVE  info[t][i] \in IoTensor /\ RefersReuse(info[t][i])
  <2>1. info[t] \in Seq(IoTensor)
    BY <1>1
  <2> QED
    BY <2>1 DEF References
<1> QED
  BY <1>2, <1>3

\* A step that neither reads nor moves a tensor of the type.
LEMMA ListedKept ==
  ASSUME NEW t, file' = file, info'[t] = info[t]
  PROVE  Listed(t)' = Listed(t)
<1>1. Described(t)' = Described(t)
  BY DEF Described
<1>2. {Tensor(file[k]) : k \in Described(t)}' = {Tensor(file[k]) : k \in Described(t)}
  BY <1>1 DEF Tensor
<1>3. {info[t][i] : i \in DOMAIN info[t]}' = {info[t][i] : i \in DOMAIN info[t]}
  OBVIOUS
<1>4. Len(info[t])' = Len(info[t]) /\ Cardinality(Described(t))' = Cardinality(Described(t))
  BY <1>1
<1> QED
  BY <1>2, <1>3, <1>4 DEF Listed

\* One entry of the parameter map, for the sub-section that was read last.
LEMMA ReadRoEntryInv ==
  ASSUME ParserInv, ReadRoEntry
  PROVE  ParserInv'
<1>1. /\ pc = "ro" /\ pc' \in {"done", "ro"} /\ hdr' = hdr /\ bound' = bound
      /\ file' = file /\ sec \in Section /\ info \in GraphInfo /\ ret = "SUCCESS"
  BY DEF ReadRoEntry, Goto, Fail, ParserInv, ParserTypes, ErrorEnds
<1>2. HeaderChecked'
  BY <1>1, HeaderKept DEF ParserInv, HeaderPlaces
<1>3. CASE ~IsValidPtr(1)
  <2>1. info' = info /\ sec' = sec /\ pc' = "done" /\ ret' # "SUCCESS"
    BY <1>3 DEF ReadRoEntry, Fail
  <2>2. ParserTypes'
    BY <1>1, <2>1 DEF ParserInv, ParserTypes, ParserPlaces
  <2>3. References' /\ Tensors'
    BY <2>1 DEF References, Tensors
  <2> QED
    BY <1>2, <2>2, <2>3, ErrorEndsNext DEF ParserInv, ParseNext
<1>4. CASE IsValidPtr(1)
  <2>1. /\ info' = [info EXCEPT !.params = Append(@, Param)]
        /\ sec' = [sec EXCEPT !.ro = @ - 1] /\ sec.ro > 0 /\ pc' = "ro" /\ ret' = ret
    BY <1>4 DEF ReadRoEntry, Goto
  <2>2. sec.subs \in Seq(Offset) /\ Len(sec.subs) > 0 /\ sec.kind \in Kinds /\ sec.ro \in Nat
    BY <1>1 DEF ParserInv, References, Section
  <2>3. Last(sec.subs) \in Offset /\ Last(sec.subs) = sec.subs[Len(sec.subs)]
    BY <2>2 DEF Last
  <2>4. Len(sec.subs) - 1 \in Nat /\ Len(info[sec.kind]) \in Nat
    BY <1>1, <2>2, InfoTypes
  <2>5. Param \in ParamEntry
    BY <2>2, <2>3, <2>4 DEF ParamEntry, Param, SecIter
  <2>6. info["params"] \in Seq(ParamEntry)
    BY <1>1, InfoTypes
  <2>7. /\ info'["params"] = Append(info["params"], Param)
        /\ \A x \in {"static", "reuse", "input", "output", "dump"} : info'[x] = info[x]
    BY <1>1, <2>1 DEF GraphInfo
  <2>8. info' \in GraphInfo
    <3>1. Append(info["params"], Param) \in Seq(ParamEntry)
      BY <2>5, <2>6, Appended
    <3> QED
      BY <1>1, <2>1, <3>1 DEF GraphInfo
  <2>9. sec' \in Section /\ sec'.subs = sec.subs /\ sec'.kind = sec.kind
    <3>1. sec.ro - 1 \in Nat
      BY <2>1, <2>2
    <3> QED
      BY <1>1, <2>1, <3>1 DEF Section
  <2>10. ParserTypes'
    BY <1>1, <2>1, <2>8, <2>9 DEF ParserInv, ParserTypes
  <2>11. ASSUME NEW q \in ParamEntry, Refers(q) PROVE Refers(q)'
    <3>1. q.type \in Kinds
      BY DEF ParamEntry
    <3>2. info'[q.type] = info[q.type] /\ info'[sec.kind] = info[sec.kind]
      BY <2>2, <2>7, <3>1 DEF Kinds
    <3> QED
      BY <1>1, <2>1, <2>9, <2>11, <3>2 DEF Refers, InSection
  <2>12. ASSUME NEW q, q = Param PROVE Refers(q)'
    <3>1. info'[sec.kind] = info[sec.kind]
      BY <2>2, <2>7 DEF Kinds
    <3>2. /\ q.type = sec.kind /\ q.sec = Len(info[sec.kind]) /\ q.sub = Len(sec.subs) - 1
          /\ q.off = sec.subs[Len(sec.subs)]
      BY <2>3, <2>12 DEF Param, SecIter
    <3>3. q.sub < Len(sec.subs) /\ q.sub + 1 = Len(sec.subs)
      BY <2>2, <3>2
    <3> QED
      BY <1>1, <2>1, <2>9, <3>1, <3>2, <3>3 DEF Refers, InSection
  <2>13. \A i \in DOMAIN info'["params"] : Refers(info["params"][i])'
    <3>1. ASSUME NEW i \in DOMAIN info'["params"], NEW q, q = info'["params"][i]
          PROVE  Refers(q)'
      <4>1. CASE i \in DOMAIN info["params"]
        <5>1. q = info["params"][i] /\ q \in ParamEntry
          BY <2>5, <2>6, <2>7, <3>1, <4>1, Appended
        <5>2. Refers(q)
          BY <1>1, <4>1, <5>1 DEF ParserInv, References
        <5> QED
          BY <2>11, <5>1, <5>2
      <4>2. CASE i \notin DOMAIN info["params"]
        BY <2>5, <2>6, <2>7, <2>12, <3>1, <4>2, Appended
      <4> QED
        BY <4>1, <4>2
    <3> QED
      BY <3>1
  <2>14. \A t \in IoTypes : \A i \in DOMAIN info'[t] : RefersReuse(info[t][i])'
    <3>1. \A t \in IoTypes : info'[t] = info[t]
      BY <2>7 DEF IoTypes
    <3>2. info'["reuse"] = info["reuse"]
      BY <2>7
    <3> QED
      BY <1>1, <2>1, <2>9, <3>1, <3>2 DEF ParserInv, References, RefersReuse,
             InSection
  <2>15. References'
    BY <1>1, <2>1, <2>2, <2>9, <2>13, <2>14 DEF References
  <2>16. Tensors'
    <3>1. ASSUME NEW t \in {"input", "output"} PROVE Listed(t)' = Listed(t)
      BY <1>1, <2>7, ListedKept
    <3> QED
      BY <1>1, <2>1, <3>1 DEF ParserInv, Tensors
  <2> QED
    BY <1>2, <2>10, <2>15, <2>16, ErrorEndsNext DEF ParserInv, ParseNext
<1> QED
  BY <1>3, <1>4

\* A section is put into its table: what referred to the section being read now
\* refers to the table's last.
LEMMA EndSectionInv ==
  ASSUME ParserInv, EndSection
  PROVE  ParserInv'
<1>1. /\ pc = "sub" /\ pc' = "section" /\ hdr' = hdr /\ bound' = bound
      /\ file' = file /\ sec' = sec /\ ret' = ret /\ ret = "SUCCESS"
      /\ sec \in Section /\ info \in GraphInfo
      /\ info' = [info EXCEPT ![sec.kind] = Append(@, sec.subs)]
  BY DEF EndSection, Goto, ParserInv, ParserTypes, ErrorEnds
<1>2. HeaderChecked'
  BY <1>1, HeaderKept DEF ParserInv, HeaderPlaces
<1>3. /\ sec.kind \in {"static", "reuse"} /\ sec.subs \in Seq(Offset)
      /\ \A k \in {"static", "reuse"} : info[k] \in Seq(Seq(Offset))
  BY <1>1, InfoTypes DEF Section, Kinds
<1>4. /\ info'[sec.kind] = Append(info[sec.kind], sec.subs)
      /\ \A x \in {"static", "reuse", "params", "input", "output", "dump"} \ {sec.kind} :
            info'[x] = info[x]
  BY <1>1, <1>3 DEF GraphInfo
<1>5. /\ Append(info[sec.kind], sec.subs) \in Seq(Seq(Offset))
      /\ Len(info'[sec.kind]) = Len(info[sec.kind]) + 1
      /\ \A i \in 1 .. Len(info[sec.kind]) : info'[sec.kind][i] = info[sec.kind][i]
      /\ info'[sec.kind][Len(info[sec.kind]) + 1] = sec.subs
      /\ Len(info[sec.kind]) \in Nat
  BY <1>3, <1>4, Appended
<1>6. ParserTypes'
  <2>1. CASE sec.kind = "static"
    <3>1. info' = [info EXCEPT !.static = Append(@, sec.subs)]
      BY <1>1, <2>1
    <3> QED
      BY <1>1, <1>5, <2>1, <3>1 DEF ParserInv, ParserTypes, GraphInfo,
             SectionTable, ParserPlaces, SectionPlaces
  <2>2. CASE sec.kind = "reuse"
    <3>1. info' = [info EXCEPT !.reuse = Append(@, sec.subs)]
      BY <1>1, <2>2
    <3> QED
      BY <1>1, <1>5, <2>2, <3>1 DEF ParserInv, ParserTypes, GraphInfo,
             SectionTable, ParserPlaces, SectionPlaces
  <2> QED
    BY <1>3, <2>1, <2>2
<1>7. ASSUME NEW q \in ParamEntry, Refers(q) PROVE Refers(q)'
  <2>1. q.type \in {"static", "reuse"} /\ q.sec \in Nat /\ q.sub \in Nat
    BY DEF ParamEntry, Kinds
  <2>2. CASE q.type # sec.kind
    <3>1. info'[q.type] = info[q.type]
      BY <1>4, <2>1, <2>2
    <3> QED
      BY <1>7, <2>2, <3>1 DEF Refers
  <2>3. CASE q.type = sec.kind /\ q.sec < Len(info[sec.kind])
    <3>1. q.sec + 1 \in 1 .. Len(info[sec.kind])
      BY <1>5, <2>1, <2>3
    <3>2. info'[q.type][q.sec + 1] = info[q.type][q.sec + 1] /\ q.sec < Len(info'[q.type])
      <4>1. info'[sec.kind][q.sec + 1] = info[sec.kind][q.sec + 1]
        BY <1>5, <3>1
      <4>2. q.sec < Len(info'[sec.kind])
        BY <1>5, <2>1, <2>3
      <4> QED
        BY <2>3, <4>1, <4>2
    <3>3. /\ q.sub < Len(info[q.type][q.sec + 1])
          /\ q.off = info[q.type][q.sec + 1][q.sub + 1]
      BY <1>5, <1>7, <2>1, <2>3 DEF Refers
    <3> QED
      BY <3>2, <3>3 DEF Refers
  <2>4. CASE q.type = sec.kind /\ ~(q.sec < Len(info[sec.kind]))
    <3>1. /\ q.sec = Len(info[sec.kind]) /\ q.sub < Len(sec.subs)
          /\ q.off = sec.subs[q.sub + 1]
      BY <1>7, <2>4 DEF Refers
    <3>2. q.sec < Len(info'[q.type]) /\ info'[q.type][q.sec + 1] = sec.subs
      BY <1>5, <2>4, <3>1
    <3> QED
      BY <3>1, <3>2 DEF Refers
  <2> QED
    BY <2>2, <2>3, <2>4
<1>8. ASSUME NEW x \in IoTensor, RefersReuse(x) PROVE RefersReuse(x)'
  <2>1. x.sec \in Nat /\ Len(info["reuse"]) \in Nat
    BY <1>3 DEF IoTensor
  <2>2. CASE sec.kind = "reuse"
    BY <1>5, <1>8, <2>1, <2>2 DEF RefersReuse
  <2>3. CASE sec.kind # "reuse"
    <3>1. info'["reuse"] = info["reuse"]
      BY <1>4, <2>3
    <3> QED
      BY <1>8, <2>3, <3>1 DEF RefersReuse
  <2> QED
    BY <2>2, <2>3
<1>9. info'["params"] = info["params"] /\ \A t \in IoTypes : info'[t] = info[t]
  BY <1>3, <1>4 DEF IoTypes
<1>10. References'
  <2>1. ASSUME NEW i \in DOMAIN info'["params"] PROVE Refers(info["params"][i])'
    <3>1. info["params"][i] \in ParamEntry /\ Refers(info["params"][i])
      BY <1>1, <1>9, InfoEntries DEF ParserInv
    <3>2. ASSUME NEW q, q = info["params"][i] PROVE Refers(q)'
      BY <1>7, <3>1, <3>2
    <3> QED
      BY <1>9, <3>2
  <2>2. ASSUME NEW t \in IoTypes, NEW i \in DOMAIN info'[t]
        PROVE  RefersReuse(info[t][i])'
    <3>1. info[t][i] \in IoTensor /\ RefersReuse(info[t][i])
      BY <1>1, <1>9, InfoEntries DEF ParserInv
    <3>2. ASSUME NEW x, x = info[t][i] PROVE RefersReuse(x)'
      BY <1>8, <3>1, <3>2
    <3> QED
      BY <1>9, <3>2
  <2> QED
    BY <1>1, <2>1, <2>2 DEF References
<1>11. Tensors'
  <2>1. ASSUME NEW t \in {"input", "output"} PROVE Listed(t)' = Listed(t)
    BY <1>1, <1>9, ListedKept DEF IoTypes
  <2> QED
    BY <1>1, <2>1 DEF ParserInv, Tensors
<1> QED
  BY <1>2, <1>6, <1>10, <1>11, ErrorEndsNext DEF ParserInv, ParseNext

\* A node of the linked list.
LEMMA ReadNodeInv ==
  ASSUME ParserInv, ReadNode
  PROVE  ParserInv'
<1>1. /\ pc = "node" /\ pc' \in {"node", "sort"} /\ hdr' = hdr /\ bound' = bound
      /\ file' = file /\ sec' = sec /\ ret' = ret /\ ret = "SUCCESS" /\ info \in GraphInfo
      /\ info' = info \/ info' = [info EXCEPT !.dcr = @ + 1]
  BY DEF ReadNode, Goto, ParserInv, ParserTypes, ErrorEnds
<1>2. HeaderChecked'
  BY <1>1, HeaderKept DEF ParserInv, HeaderPlaces
<1>3. /\ info' \in GraphInfo
      /\ \A x \in {"static", "reuse", "params", "input", "output", "dump"} : info'[x] = info[x]
  BY <1>1 DEF GraphInfo
<1>4. ParserTypes'
  BY <1>1, <1>3 DEF ParserInv, ParserTypes, ParserPlaces, SectionPlaces
<1>5. References'
  <2>1. ASSUME NEW i \in DOMAIN info["params"] PROVE Refers(info["params"][i])'
    <3>1. info["params"][i] \in ParamEntry /\ Refers(info["params"][i])
      BY <1>1, InfoTypes DEF ParserInv, References
    <3>2. info["params"][i].type \in {"static", "reuse"}
      BY <3>1 DEF ParamEntry, Kinds
    <3> QED
      BY <1>1, <1>3, <3>1, <3>2 DEF Refers, InSection
  <2>2. \A t \in IoTypes : info'[t] = info[t]
    BY <1>3 DEF IoTypes
  <2> QED
    BY <1>1, <1>3, <2>1, <2>2 DEF ParserInv, References, RefersReuse, InSection
<1>6. Tensors'
  <2>1. ASSUME NEW t \in {"input", "output"} PROVE Listed(t)' = Listed(t)
    BY <1>1, <1>3, ListedKept
  <2> QED
    BY <1>1, <2>1 DEF ParserInv, Tensors
<1> QED
  BY <1>2, <1>4, <1>5, <1>6, ErrorEndsNext DEF ParserInv, ParseNext

\* The descriptors of a type after another descriptor was read.
LEMMA DescribedNext ==
  ASSUME file \in Seq(Desc), NEW d \in Desc, file' = Append(file, d), NEW t
  PROVE  /\ \A k \in DOMAIN file : file'[k] = file[k]
         /\ d.kind = "reuse" /\ d.type = t =>
              /\ Described(t)' = Described(t) \cup {Len(file) + 1}
              /\ file'[Len(file) + 1] = d
              /\ Cardinality(Described(t)') = Cardinality(Described(t)) + 1
         /\ ~(d.kind = "reuse" /\ d.type = t) => Described(t)' = Described(t)
<1>1. /\ DOMAIN file' = DOMAIN file \cup {Len(file) + 1} /\ file'[Len(file) + 1] = d
      /\ \A k \in DOMAIN file : file'[k] = file[k]
      /\ Len(file) \in Nat /\ DOMAIN file = 1 .. Len(file)
  BY Appended
<1>2. d.kind = "reuse" /\ d.type = t => Described(t)' = Described(t) \cup {Len(file) + 1}
  BY <1>1 DEF Described
<1>3. ~(d.kind = "reuse" /\ d.type = t) => Described(t)' = Described(t)
  BY <1>1 DEF Described
<1>4. IsFiniteSet(Described(t)) /\ Len(file) + 1 \notin Described(t)
  <2>1. Described(t) \subseteq 1 .. Len(file)
    BY <1>1 DEF Described
  <2>2. IsFiniteSet(1 .. Len(file))
    BY <1>1, FS_Interval
  <2>3. IsFiniteSet(Described(t))
    BY <2>1, <2>2, FS_Subset
  <2> QED
    BY <1>1, <2>1, <2>3
<1>5. Cardinality(Described(t) \cup {Len(file) + 1}) = Cardinality(Described(t)) + 1
  BY <1>4, FS_AddElement
<1> QED
  BY <1>1, <1>2, <1>3, <1>5

\* A sub-section, and the tensor it describes.
LEMMA ReadSubSectionInv ==
  ASSUME ParserInv, ReadSubSection
  PROVE  ParserInv'
<1>1. /\ pc = "sub" /\ pc' \in {"done", "ro"} /\ hdr' = hdr /\ bound' = bound
      /\ sec \in Section /\ info \in GraphInfo /\ ret = "SUCCESS" /\ file \in Seq(Desc)
  BY DEF ReadSubSection, Goto, Fail, ParserInv, ParserTypes, ErrorEnds
<1>2. HeaderChecked'
  BY <1>1, HeaderKept DEF ParserInv, HeaderPlaces
<1>3. CASE ~IsValidPtr(SubWords)
  <2>1. info' = info /\ sec' = sec /\ file' = file /\ pc' = "done" /\ ret' # "SUCCESS"
    BY <1>3 DEF ReadSubSection, Fail
  <2>2. ParserTypes'
    BY <1>1, <2>1 DEF ParserInv, ParserTypes, ParserPlaces
  <2>3. References' /\ Tensors'
    BY <2>1 DEF References, Tensors
  <2> QED
    BY <1>2, <2>2, <2>3, ErrorEndsNext DEF ParserInv, ParseNext
<1>4. CASE IsValidPtr(SubWords)
  <2> DEFINE D(t, id, o, n) ==
               [kind |-> sec.kind, sec |-> SecIter, sub |-> SubIter,
                type |-> t, id |-> id, off |-> o, ro |-> n]
  <2>0. PICK t \in Types, id \in bound.ids, o \in {0, 1}, n \in 0..bound.ro :
          /\ file' = Append(file, D(t, id, o, n))
          /\ info' = FillIoTensorDesc(D(t, id, o, n))
          /\ sec' = [sec EXCEPT !.subs = Append(@, o), !.ro = n]
          /\ Goto("ro")
    BY <1>4, Zenon DEF ReadSubSection
  <2>a. PICK d : d = D(t, id, o, n)
    OBVIOUS
  <2>1. /\ d = [kind |-> sec.kind, sec |-> SecIter, sub |-> SubIter,
                type |-> t, id |-> id, off |-> o, ro |-> n]
        /\ file' = Append(file, d) /\ info' = FillIoTensorDesc(d)
        /\ sec' = [sec EXCEPT !.subs = Append(@, o), !.ro = n]
        /\ pc' = "ro" /\ ret' = ret
    BY <2>0, <2>a, Zenon DEF Goto
  <2>2. /\ sec.kind \in Kinds /\ sec.subs \in Seq(Offset) /\ Len(sec.subs) \in Nat
        /\ SecIter = Len(info[sec.kind]) /\ Len(info[sec.kind]) \in Nat
        /\ SubIter = Len(sec.subs)
    <3>1. sec.kind \in Kinds /\ sec.subs \in Seq(Offset)
      BY <1>1 DEF Section
    <3> QED
      BY <1>1, <3>1, InfoTypes DEF SecIter, SubIter
  <2>3. id \in Nat /\ n \in Nat /\ o \in Offset
    BY FieldsOf DEF ParserInv, ParserTypes, Offset
  <2>4. d \in Desc
    BY <2>1, <2>2, <2>3 DEF Desc
  <2>5. Tensor(d) \in IoTensor /\ Tensor(d).sec = Len(info[sec.kind])
    BY <2>1, <2>2, <2>3 DEF Tensor, IoTensor
  <2>6. /\ sec' \in Section /\ sec'.kind = sec.kind /\ sec'.subs = Append(sec.subs, o)
        /\ Len(sec'.subs) = Len(sec.subs) + 1
        /\ \A i \in 1 .. Len(sec.subs) : sec'.subs[i] = sec.subs[i]
    <3>1. /\ Append(sec.subs, o) \in Seq(Offset)
          /\ Len(Append(sec.subs, o)) = Len(sec.subs) + 1
          /\ \A i \in 1 .. Len(sec.subs) : Append(sec.subs, o)[i] = sec.subs[i]
      BY <2>2, <2>3, Appended
    <3>2. sec' \in Section /\ sec'.kind = sec.kind /\ sec'.subs = Append(sec.subs, o)
      BY <1>1, <2>1, <2>3, <3>1 DEF Section
    <3> QED
      BY <3>1, <3>2
  <2>7. /\ info' \in GraphInfo
        /\ \A x \in {"static", "reuse", "params"} : info'[x] = info[x]
        /\ \A u \in IoTypes :
              info'[u] = IF d.kind = "reuse" /\ d.type = u
                         THEN Append(info[u], Tensor(d)) ELSE info[u]
    <3>1. CASE ~(d.kind = "reuse" /\ d.type \in IoTypes)
      BY <1>1, <2>1, <3>1 DEF FillIoTensorDesc
    <3>2. ASSUME NEW u \in IoTypes, d.kind = "reuse", d.type = u
          PROVE  /\ info' = [info EXCEPT ![u] = Append(@, Tensor(d))]
                 /\ Append(info[u], Tensor(d)) \in Seq(IoTensor)
      BY <1>1, <2>1, <2>5, <3>2, InfoTypes, Appended DEF FillIoTensorDesc
    <3>3. CASE d.kind = "reuse" /\ d.type = "input"
      <4>1. /\ info' = [info EXCEPT !.input = Append(@, Tensor(d))]
            /\ Append(info["input"], Tensor(d)) \in Seq(IoTensor)
        BY <3>2, <3>3 DEF IoTypes
      <4> QED
        BY <1>1, <3>3, <4>1 DEF GraphInfo, IoTypes
    <3>4. CASE d.kind = "reuse" /\ d.type = "output"
      <4>1. /\ info' = [info EXCEPT !.output = Append(@, Tensor(d))]
            /\ Append(info["output"], Tensor(d)) \in Seq(IoTensor)
        BY <3>2, <3>4 DEF IoTypes
      <4> QED
        BY <1>1, <3>4, <4>1 DEF GraphInfo, IoTypes
    <3>5. CASE d.kind = "reuse" /\ d.type = "dump"
      <4>1. /\ info' = [info EXCEPT !.dump = Append(@, Tensor(d))]
            /\ Append(info["dump"], Tensor(d)) \in Seq(IoTensor)
        BY <3>2, <3>5 DEF IoTypes
      <4> QED
        BY <1>1, <3>5, <4>1 DEF GraphInfo, IoTypes
    <3> QED
      BY <3>1, <3>3, <3>4, <3>5 DEF IoTypes
  <2>8. file' \in Seq(Desc)
    BY <1>1, <2>1, <2>4, Appended
  <2>9. ParserTypes'
    BY <1>1, <2>6, <2>7, <2>8 DEF ParserInv, ParserTypes, ParserPlaces,
           SectionPlaces
  <2>10. ASSUME NEW q \in ParamEntry, Refers(q) PROVE Refers(q)'
    <3>1. q.type \in Kinds /\ q.sub \in Nat
      BY DEF ParamEntry
    <3>2. info'[q.type] = info[q.type] /\ info'[sec.kind] = info[sec.kind]
      BY <2>2, <2>7, <3>1 DEF Kinds
    <3>3. q.sub < Len(sec.subs) =>
            q.sub < Len(sec'.subs) /\ sec'.subs[q.sub + 1] = sec.subs[q.sub + 1]
      BY <2>2, <2>6, <3>1
    <3> QED
      BY <1>1, <2>1, <2>6, <2>10, <3>2, <3>3 DEF Refers, InSection
  <2>11. ASSUME NEW x, RefersReuse(x) PROVE RefersReuse(x)'
    BY <1>1, <2>1, <2>6, <2>7, <2>11 DEF RefersReuse, InSection
  <2>12. ASSUME NEW x, x = Tensor(d), d.kind = "reuse" PROVE RefersReuse(x)'
    <3>1. sec.kind = "reuse"
      BY <2>1, <2>12
    <3> QED
      BY <1>1, <2>1, <2>5, <2>6, <2>7, <2>12, <3>1 DEF RefersReuse, InSection
  <2>13. References'
    <3>1. ASSUME NEW i \in DOMAIN info'["params"], NEW q, q = info'["params"][i]
          PROVE  Refers(q)'
      <4>1. q = info["params"][i] /\ i \in DOMAIN info["params"]
        BY <2>7, <3>1
      <4>2. q \in ParamEntry /\ Refers(q)
        BY <1>1, <4>1, InfoEntries DEF ParserInv
      <4> QED
        BY <2>10, <4>2
    <3>2. ASSUME NEW u \in IoTypes, NEW i \in DOMAIN info'[u], NEW x, x = info'[u][i]
          PROVE  RefersReuse(x)'
      <4>1. CASE info'[u] = info[u]
        <5>1. RefersReuse(x)
          BY <1>1, <3>2, <4>1, InfoEntries DEF ParserInv
        <5> QED
          BY <2>11, <5>1
      <4>2. CASE d.kind = "reuse" /\ info'[u] = Append(info[u], Tensor(d))
        <5>1. info[u] \in Seq(IoTensor)
          BY <1>1, InfoTypes
        <5>2. x = Tensor(d) \/ (i \in DOMAIN info[u] /\ x = info[u][i])
          BY <2>5, <3>2, <4>2, <5>1, Appended
        <5>3. i \in DOMAIN info[u] => RefersReuse(info[u][i])
          BY <1>1, InfoEntries DEF ParserInv
        <5> QED
          BY <2>11, <2>12, <4>2, <5>2, <5>3
      <4> QED
        BY <2>7, <4>1, <4>2
    <3>3. Len(sec'.subs) > 0
      BY <2>2, <2>6
    <3> QED
      BY <3>1, <3>2, <3>3 DEF References
  <2>14. ASSUME NEW u \in {"input", "output"} PROVE Listed(u)'
    <3>1. Listed(u) /\ u \in IoTypes /\ info[u] \in Seq(IoTensor)
      BY <1>1, InfoTypes DEF ParserInv, Tensors, IoTypes
    <3>2. CASE ~(d.kind = "reuse" /\ d.type = u)
      <4>1. info'[u] = info[u] /\ Described(u)' = Described(u)
        BY <1>1, <2>1, <2>4, <2>7, <3>1, <3>2, DescribedNext
      <4>2. \A k \in Described(u) : file'[k] = file[k]
        BY <1>1, <2>1, <2>4, DescribedNext DEF Described
      <4>3. {Tensor(file[k]) : k \in Described(u)}' = {Tensor(file[k]) : k \in Described(u)}
        BY <4>1, <4>2 DEF Tensor
      <4> QED
        BY <3>1, <4>1, <4>3 DEF Listed
    <3>3. CASE d.kind = "reuse" /\ d.type = u
      <4>1. /\ info'[u] = Append(info[u], Tensor(d))
            /\ Described(u)' = Described(u) \cup {Len(file) + 1}
            /\ file'[Len(file) + 1] = d
            /\ Cardinality(Described(u)') = Cardinality(Described(u)) + 1
            /\ \A k \in Described(u) : file'[k] = file[k]
        <5>1. info'[u] = Append(info[u], Tensor(d))
          BY <2>7, <3>1, <3>3
        <5>2. /\ Described(u)' = Described(u) \cup {Len(file) + 1}
              /\ file'[Len(file) + 1] = d
              /\ Cardinality(Described(u)') = Cardinality(Described(u)) + 1
              /\ \A k \in DOMAIN file : file'[k] = file[k]
          BY <1>1, <2>1, <2>4, <3>3, DescribedNext
        <5>3. Described(u) \subseteq DOMAIN file
          BY DEF Described
        <5> QED
          BY <5>1, <5>2, <5>3
      <4>2. /\ Len(info'[u]) = Len(info[u]) + 1
            /\ DOMAIN info'[u] = DOMAIN info[u] \cup {Len(info[u]) + 1}
            /\ \A i \in DOMAIN info[u] : info'[u][i] = info[u][i]
            /\ info'[u][Len(info[u]) + 1] = Tensor(d)
        BY <2>5, <3>1, <4>1, Appended
      <4>3. Len(info[u])' = Cardinality(Described(u))'
        BY <3>1, <4>1, <4>2 DEF Listed
      <4>4. {info'[u][i] : i \in DOMAIN info'[u]}
              = {info[u][i] : i \in DOMAIN info[u]} \cup {Tensor(d)}
        BY <4>2
      <4>5. {Tensor(file'[k]) : k \in Described(u)'}
              = {Tensor(file[k]) : k \in Described(u)} \cup {Tensor(d)}
        BY <4>1
      <4> QED
        BY <3>1, <4>3, <4>4, <4>5 DEF Listed, Tensor
    <3> QED
      BY <3>2, <3>3
  <2>15. Tensors'
    BY <2>1, <2>14 DEF Tensors
  <2> QED
    BY <1>2, <2>9, <2>13, <2>15, ErrorEndsNext DEF ParserInv, ParseNext
<1> QED
  BY <1>3, <1>4

\* sort_io_tensor: every place of the result has one of the tensors, and if their
\* ids are 0 to n - 1 the loop runs to its end and each is at the place of its id.
LEMMA SortEffect ==
  ASSUME NEW ts \in Seq(IoTensor)
  PROVE  /\ Sort(ts) \in Seq(IoTensor) /\ Len(Sort(ts)) = Len(ts)
         /\ DOMAIN Sort(ts) = DOMAIN ts
         /\ \A p \in DOMAIN ts : \E i \in DOMAIN ts : Sort(ts)[p] = ts[i]
         /\ {ts[i].id : i \in DOMAIN ts} = 0..(Len(ts) - 1) =>
              /\ ~SortFails(ts)
              /\ \A p \in DOMAIN ts : Sort(ts)[p].id = p - 1
<1>1. DOMAIN ts = 1 .. Len(ts) /\ Len(ts) \in Nat /\ \A i \in DOMAIN ts : ts[i] \in IoTensor
  OBVIOUS
<1>2. ASSUME NEW p \in DOMAIN ts, StoredAt(ts, p) # {}
      PROVE  Max(StoredAt(ts, p)) \in StoredAt(ts, p)
  <2> DEFINE T == StoredAt(ts, p)
  <2>1. T \subseteq Nat /\ T # {} /\ \A y \in T : y <= Len(ts)
    BY <1>1, <1>2 DEF StoredAt, SortSteps
  <2> HIDE DEF T
  <2>2. PICK x \in T : \A y \in T : y <= x
    BY <1>1, <2>1, GreatestNat
  <2>3. \A y \in T : x >= y
    BY <2>2
  <2>4. Max(T) \in T
    BY <2>3 DEF Max
  <2> QED
    BY <2>4 DEF T
<1>3. ASSUME NEW p \in DOMAIN ts
      PROVE  \E i \in DOMAIN ts :
               /\ Sort(ts)[p] = ts[i]
               /\ i \in StoredAt(ts, p) \/ (i = p /\ StoredAt(ts, p) = {})
  <2>1. CASE StoredAt(ts, p) = {}
    BY <2>1 DEF Sort
  <2>2. CASE StoredAt(ts, p) # {}
    <3>1. Max(StoredAt(ts, p)) \in StoredAt(ts, p)
      BY <1>2, <2>2
    <3>2. StoredAt(ts, p) \subseteq DOMAIN ts
      BY DEF StoredAt, SortSteps
    <3>3. Sort(ts)[p] = ts[Max(StoredAt(ts, p))]
      BY <2>2 DEF Sort
    <3> QED
      BY <3>1, <3>2, <3>3
  <2> QED
    BY <2>1, <2>2
<1>4. DOMAIN Sort(ts) = DOMAIN ts
  BY DEF Sort
<1>5. Sort(ts) \in [1 .. Len(ts) -> IoTensor]
  <2>1. Sort(ts) = [p \in 1 .. Len(ts) |-> Sort(ts)[p]]
    BY <1>1 DEF Sort
  <2>2. \A p \in 1 .. Len(ts) : Sort(ts)[p] \in IoTensor
    BY <1>1, <1>3
  <2> QED
    BY <2>1, <2>2
<1>6. Sort(ts) \in Seq(IoTensor) /\ Len(Sort(ts)) = Len(ts)
  BY <1>1, <1>5
<1>7. ASSUME {ts[i].id : i \in DOMAIN ts} = 0..(Len(ts) - 1)
      PROVE  ~SortFails(ts) /\ \A p \in DOMAIN ts : Sort(ts)[p].id = p - 1
  <2>1. \A i \in DOMAIN ts : ts[i].id < Len(ts)
    <3>1. \A i \in DOMAIN ts : ts[i].id \in 0..(Len(ts) - 1)
      BY <1>7
    <3> QED
      BY <1>1, <3>1
  <2>2. SortSteps(ts) = DOMAIN ts
    BY <1>1, <2>1 DEF SortSteps
  <2>3. ASSUME NEW p \in DOMAIN ts PROVE Sort(ts)[p].id = p - 1
    <3>1. PICK i \in DOMAIN ts :
            /\ Sort(ts)[p] = ts[i]
            /\ i \in StoredAt(ts, p) \/ (i = p /\ StoredAt(ts, p) = {})
      BY <1>3
    <3>2. CASE i \in StoredAt(ts, p)
      BY <3>1, <3>2 DEF StoredAt
    <3>3. CASE i = p /\ StoredAt(ts, p) = {}
      <4>1. p - 1 \in 0..(Len(ts) - 1)
        BY <1>1
      <4>2. PICK k \in DOMAIN ts : ts[k].id = p - 1
        BY <1>7, <4>1
      <4>3. k = p
        BY <2>2, <3>3, <4>2 DEF StoredAt
      <4> QED
        BY <3>1, <3>3, <4>2, <4>3
    <3> QED
      BY <3>1, <3>2, <3>3
  <2> QED
    BY <2>2, <2>3 DEF SortFails
<1> QED
  BY <1>1, <1>3, <1>4, <1>6, <1>7

\* If the file numbers the tensors of a type, the ones that were read have these
\* numbers.
LEMMA ListedIds ==
  ASSUME NEW t \in {"input", "output"}, info \in GraphInfo, Listed(t),
         IdsArePermutation(t)
  PROVE  {info[t][i].id : i \in DOMAIN info[t]} = 0..(Len(info[t]) - 1)
<1>1. ASSUME NEW k \in Described(t) PROVE Tensor(file[k]).id = file[k].id
  BY DEF Tensor
<1>2. {info[t][i] : i \in DOMAIN info[t]} = {Tensor(file[k]) : k \in Described(t)}
  BY DEF Listed
<1>3. {info[t][i].id : i \in DOMAIN info[t]} = {file[k].id : k \in Described(t)}
  <2>1. ASSUME NEW i \in DOMAIN info[t] PROVE \E k \in Described(t) : info[t][i].id = file[k].id
    <3>1. PICK k \in Described(t) : info[t][i] = Tensor(file[k])
      BY <1>2
    <3> QED
      BY <1>1, <3>1
  <2>2. ASSUME NEW k \in Described(t) PROVE \E i \in DOMAIN info[t] : info[t][i].id = file[k].id
    <3>1. PICK i \in DOMAIN info[t] : info[t][i] = Tensor(file[k])
      BY <1>2
    <3> QED
      BY <1>1, <3>1
  <2> QED
    BY <2>1, <2>2
<1>4. Len(info[t]) = Cardinality(Described(t))
  BY DEF Listed
<1> QED
  BY <1>3, <1>4 DEF IdsArePermutation

\* The outputs and the inputs are sorted.
LEMMA SortIoTensorsInv ==
  ASSUME ParserInv, SortIoTensors
  PROVE  ParserInv'
<1>1. /\ pc = "sort" /\ pc' = "match" /\ hdr' = hdr /\ bound' = bound
      /\ file' = file /\ sec' = sec /\ ret' = ret /\ ret = "SUCCESS" /\ info \in GraphInfo
      /\ info' = [info EXCEPT !.output = Sort(@),
                              !.input = IF SortFails(info.output) THEN @ ELSE Sort(@)]
  BY DEF SortIoTensors, Goto, ParserInv, ParserTypes, ErrorEnds
<1>2. HeaderChecked'
  BY <1>1, HeaderKept DEF ParserInv, HeaderPlaces
<1>3. info["output"] \in Seq(IoTensor) /\ info["input"] \in Seq(IoTensor)
  BY <1>1, InfoTypes DEF IoTypes
<1>4. /\ Sort(info["output"]) \in Seq(IoTensor) /\ Sort(info["input"]) \in Seq(IoTensor)
  BY <1>3, SortEffect
<1>5. /\ info' \in GraphInfo
      /\ info'["output"] = Sort(info["output"])
      /\ info'["input"] = IF SortFails(info["output"]) THEN info["input"]
                          ELSE Sort(info["input"])
      /\ \A x \in {"static", "reuse", "params", "dump"} : info'[x] = info[x]
  BY <1>1, <1>3, <1>4 DEF GraphInfo
<1>6. ParserTypes'
  BY <1>1, <1>5 DEF ParserInv, ParserTypes, ParserPlaces
<1>7. ASSUME NEW t \in IoTypes, NEW i \in DOMAIN info'[t]
      PROVE  \E k \in DOMAIN info[t] : info'[t][i] = info[t][k]
  BY <1>3, <1>5, SortEffect DEF IoTypes
<1>8. References'
  <2>1. ASSUME NEW i \in DOMAIN info["params"] PROVE Refers(info["params"][i])'
    <3>1. info["params"][i] \in ParamEntry /\ Refers(info["params"][i])
      BY <1>1, InfoEntries DEF ParserInv
    <3>2. info["params"][i].type \in {"static", "reuse"}
      BY <3>1 DEF ParamEntry, Kinds
    <3> QED
      BY <1>1, <1>5, <3>1, <3>2 DEF Refers, InSection
  <2>2. ASSUME NEW t \in IoTypes, NEW i \in DOMAIN info'[t], NEW x, x = info'[t][i]
        PROVE  RefersReuse(x)'
    <3>1. PICK k \in DOMAIN info[t] : x = info[t][k]
      BY <1>7, <2>2
    <3>2. RefersReuse(x)
      BY <1>1, <3>1, InfoEntries DEF ParserInv
    <3> QED
      BY <1>1, <1>5, <3>2 DEF RefersReuse, InSection
  <2> QED
    BY <1>1, <1>5, <2>1, <2>2 DEF References
<1>9. ASSUME NEW t \in {"input", "output"} PROVE Numbered(t)'
  <2>1. SUFFICES ASSUME IdsArePermutation("output"), IdsArePermutation(t)
                 PROVE  /\ Len(info'[t]) = Cardinality(Described(t))
                        /\ \A i \in DOMAIN info'[t] :
                             /\ info'[t][i].id = i - 1
                             /\ \E k \in Described(t) : info'[t][i] = Tensor(file[k])
    <3>1. /\ IdsArePermutation("output")' = IdsArePermutation("output")
          /\ IdsArePermutation(t)' = IdsArePermutation(t)
          /\ Described(t)' = Described(t)
      BY <1>1 DEF IdsArePermutation, Described
    <3> QED
      BY <1>1, <3>1 DEF Numbered
  <2>2. Listed(t) /\ Listed("output")
    BY <1>1 DEF ParserInv, Tensors
  <2>3. ~SortFails(info["output"])
    BY <1>1, <1>3, <2>1, <2>2, ListedIds, SortEffect
  <2>4. info'[t] = Sort(info[t]) /\ info[t] \in Seq(IoTensor)
    BY <1>3, <1>5, <2>3
  <2>5. {info[t][i].id : i \in DOMAIN info[t]} = 0..(Len(info[t]) - 1)
    BY <1>1, <2>1, <2>2, ListedIds
  <2>6. /\ Len(info'[t]) = Len(info[t]) /\ DOMAIN info'[t] = DOMAIN info[t]
        /\ \A i \in DOMAIN info'[t] : info'[t][i].id = i - 1
        /\ \A i \in DOMAIN info'[t] : \E k \in DOMAIN info[t] : info'[t][i] = info[t][k]
    <3> DEFINE ts == info[t]
    <3>1. ts \in Seq(IoTensor) /\ {ts[i].id : i \in DOMAIN ts} = 0..(Len(ts) - 1)
      BY <2>4, <2>5
    <3> HIDE DEF ts
    <3>2. /\ Len(Sort(ts)) = Len(ts) /\ DOMAIN Sort(ts) = DOMAIN ts
          /\ \A i \in DOMAIN ts : Sort(ts)[i].id = i - 1
          /\ \A i \in DOMAIN ts : \E k \in DOMAIN ts : Sort(ts)[i] = ts[k]
      BY <3>1, SortEffect
    <3> QED
      BY <2>4, <3>2 DEF ts
  <2>7. \A k \in DOMAIN info[t] : \E m \in Described(t) : info[t][k] = Tensor(file[m])
    BY <2>2 DEF Listed
  <2> QED
    BY <2>2, <2>6, <2>7 DEF Listed
<1>10. Tensors'
  BY <1>1, <1>9 DEF Tensors
<1> QED
  BY <1>2, <1>6, <1>8, <1>10, ErrorEndsNext DEF ParserInv, ParseNext

\* Nothing has been read at the beginning.
LEMMA ParserStarts ==
  ASSUME ParseInit
  PROVE  ParserInv
<1>1. ErrorEnds /\ HeaderChecked
  BY DEF ParseInit, ErrorEnds, HeaderChecked
<1>2. ParserTypes
  <2>1. 0 \in Field /\ 0 \in Nat
    BY BinaryAssumption DEF Field
  <2>2. hdr \in Header
    BY <2>1 DEF ParseInit, Header
  <2>3. sec \in Section
    BY DEF ParseInit, NoSec, Section, Kinds
  <2>4. info \in GraphInfo /\ file \in Seq(Desc)
    BY DEF ParseInit, GraphInfo, SectionTable
  <2> QED
    BY <2>2, <2>3, <2>4 DEF ParserTypes, ParseInit, ParserPlaces, HeaderPlaces
<1>3. References
  BY DEF ParseInit, References, IoTypes
<1>4. ASSUME NEW t \in {"input", "output"} PROVE Listed(t)
  <2>1. info[t] = <<>> /\ Described(t) = {}
    BY DEF ParseInit, Described
  <2>2. Cardinality({}) = 0
    BY FS_EmptySet
  <2> QED
    BY <2>1, <2>2 DEF Listed
<1>5. Tensors
  BY <1>4 DEF Tensors, ParseInit
<1> QED
  BY <1>1, <1>2, <1>3, <1>5 DEF ParserInv

\* Every step of the parser.
LEMMA ParserNext ==
  ASSUME ParserInv, [ParseNext]_parse_vars
  PROVE  ParserInv'
<1>1. CASE ParseNext
  BY <1>1, ParseGraphInv, CheckIdentInv, CheckTextInv, CheckRodataInv,
         CheckDataInv, CheckBssInv, BssHeaderInv, ReadSectionInv,
         ReadSubSectionInv, ReadRoEntryInv, EndSubSectionInv, EndSectionInv,
         EndSectionsInv, ReadListInv, ReadNodeInv, SortIoTensorsInv,
         MatchTargetDevInv DEF ParseNext
<1>2. CASE UNCHANGED parse_vars
  <2>1. /\ bound' = bound /\ pc' = pc /\ ret' = ret /\ hdr' = hdr /\ sec' = sec
        /\ info' = info /\ file' = file
    BY <1>2 DEF parse_vars
  <2>2. ErrorEnds' /\ ParserTypes' /\ HeaderChecked'
    BY <2>1 DEF ParserInv, ErrorEnds, ParserTypes, HeaderChecked
  <2>3. References'
    BY <2>1 DEF ParserInv, References, Refers, RefersReuse, InSection
  <2>4. ASSUME NEW t PROVE Numbered(t)' = Numbered(t) /\ Listed(t)' = Listed(t)
    BY <2>1 DEF Numbered, Listed, IdsArePermutation, Described
  <2>5. Tensors'
    BY <2>1, <2>4 DEF ParserInv, Tensors
  <2> QED
    BY <2>2, <2>3, <2>5 DEF ParserInv
<1> QED
  BY <1>1, <1>2

\* The invariant of the parser, for every family of files.
THEOREM ParserInvariant == ParseSpec => []ParserInv
<1>1. ParseInit => ParserInv
  BY ParserStarts
<1>2. ParserInv /\ [ParseNext]_parse_vars => ParserInv'
  BY ParserNext
<1> QED
  BY <1>1, <1>2, PTL DEF ParseSpec

\* Parts of the file, one behind the other.
LEMMA PartsApart ==
  ASSUME NEW a \in Nat, NEW n \in Nat, NEW b \in Nat, NEW m \in Nat, a + n <= b
  PROVE  Part(a, n) \cap Part(b, m) = {}
BY DEF Part

\* A graph that passes parse_graph_header has its header, text, rodata, data and bss
\* apart from each other and inside the file that was mapped, and its entry inside the
\* text, provided that no offset and size of its header add up to 2^32 or more.
THEOREM HeaderIsSafe == ParseSpec => []SectionsInFile
<1>1. ParserInv => SectionsInFile
  <2> SUFFICES ASSUME ParserInv, pc = "bss_hdr", EndsFit
               PROVE  /\ \A i, j \in DOMAIN Sections :
                           /\ i # j => Sections[i] \cap Sections[j] = {}
                           /\ Sections[i] \subseteq 0..(hdr.size - 1)
                      /\ hdr.text + hdr.entry \in Part(hdr.text, hdr.text_size)
    BY DEF SectionsInFile
  <2>1. /\ hdr.filesize <= hdr.size /\ hdr.entry < hdr.text_size /\ 1 <= hdr.text
        /\ hdr.text + hdr.text_size <= hdr.rodata
        /\ hdr.rodata + hdr.rodata_size <= hdr.data
        /\ hdr.data + hdr.data_size <= hdr.bss
        /\ hdr.bss + hdr.bss_size <= hdr.filesize
    <3>1. /\ hdr.filesize <= hdr.size /\ hdr.entry < hdr.text_size /\ 1 <= hdr.text
          /\ Add(hdr.text, hdr.text_size) <= hdr.rodata
          /\ Add(hdr.rodata, hdr.rodata_size) <= hdr.data
          /\ Add(hdr.data, hdr.data_size) <= hdr.bss
          /\ Add(hdr.bss, hdr.bss_size) <= hdr.filesize
      BY DEF ParserInv, HeaderChecked
    <3>2. /\ hdr.text \in Field /\ hdr.text_size \in Field
          /\ hdr.rodata \in Field /\ hdr.rodata_size \in Field
          /\ hdr.data \in Field /\ hdr.data_size \in Field
          /\ hdr.bss \in Field /\ hdr.bss_size \in Field
      BY DEF ParserInv, ParserTypes, Header
    <3>3. /\ Add(hdr.text, hdr.text_size) = hdr.text + hdr.text_size
          /\ Add(hdr.rodata, hdr.rodata_size) = hdr.rodata + hdr.rodata_size
          /\ Add(hdr.data, hdr.data_size) = hdr.data + hdr.data_size
          /\ Add(hdr.bss, hdr.bss_size) = hdr.bss + hdr.bss_size
      BY <3>2, FieldSum DEF EndsFit
    <3> QED
      BY <3>1, <3>3
  <2>2. /\ hdr.size \in Nat /\ hdr.filesize \in Nat
        /\ hdr.entry \in Nat /\ hdr.text \in Nat /\ hdr.text_size \in Nat
        /\ hdr.rodata \in Nat /\ hdr.rodata_size \in Nat
        /\ hdr.data \in Nat /\ hdr.data_size \in Nat
        /\ hdr.bss \in Nat /\ hdr.bss_size \in Nat
    BY HeaderNat DEF ParserInv, ParserTypes
  <2>3. hdr.text + hdr.entry \in Part(hdr.text, hdr.text_size)
    BY <2>1, <2>2 DEF Part
  <2>4. /\ DOMAIN Sections = 1 .. 5
        /\ Sections[1] = 0 .. 0
        /\ Sections[2] = hdr.text .. (hdr.text + hdr.text_size - 1)
        /\ Sections[3] = hdr.rodata .. (hdr.rodata + hdr.rodata_size - 1)
        /\ Sections[4] = hdr.data .. (hdr.data + hdr.data_size - 1)
        /\ Sections[5] = hdr.bss .. (hdr.bss + hdr.bss_size - 1)
    BY DEF Sections, Part, HdrSize
  <2>5. \A i \in 1 .. 5 : Sections[i] \subseteq 0..(hdr.size - 1)
    <3>1. /\ 0 .. 0 \subseteq 0..(hdr.size - 1)
          /\ hdr.text .. (hdr.text + hdr.text_size - 1) \subseteq 0..(hdr.size - 1)
          /\ hdr.rodata .. (hdr.rodata + hdr.rodata_size - 1) \subseteq 0..(hdr.size - 1)
          /\ hdr.data .. (hdr.data + hdr.data_size - 1) \subseteq 0..(hdr.size - 1)
          /\ hdr.bss .. (hdr.bss + hdr.bss_size - 1) \subseteq 0..(hdr.size - 1)
      BY <2>1, <2>2
    <3>2. \A i \in 1 .. 5 : i \in {1, 2, 3, 4, 5}
      OBVIOUS
    <3> QED
      BY <2>4, <3>1, <3>2
  <2>6. \A i, j \in 1 .. 5 : i < j => Sections[i] \cap Sections[j] = {}
    <3>1. /\ Sections[1] = Part(0, 1)
          /\ Sections[2] = Part(hdr.text, hdr.text_size)
          /\ Sections[3] = Part(hdr.rodata, hdr.rodata_size)
          /\ Sections[4] = Part(hdr.data, hdr.data_size)
          /\ Sections[5] = Part(hdr.bss, hdr.bss_size)
      BY DEF Sections, HdrSize
    <3>2. Sections[1] \cap Sections[2] = {}
      <4>1. 0 \in Nat /\ 1 \in Nat /\ hdr.text \in Nat /\ hdr.text_size \in Nat /\ 0 + 1 <= hdr.text
        BY <2>1, <2>2
      <4>2. Part(0, 1) \cap Part(hdr.text, hdr.text_size) = {}
        BY <4>1, PartsApart
      <4> QED
        BY <3>1, <4>2
    <3>3. Sections[1] \cap Sections[3] = {}
      <4>1. 0 \in Nat /\ 1 \in Nat /\ hdr.rodata \in Nat /\ hdr.rodata_size \in Nat /\ 0 + 1 <= hdr.rodata
        BY <2>1, <2>2
      <4>2. Part(0, 1) \cap Part(hdr.rodata, hdr.rodata_size) = {}
        BY <4>1, PartsApart
      <4> QED
        BY <3>1, <4>2
    <3>4. Sections[1] \cap Sections[4] = {}
      <4>1. 0 \in Nat /\ 1 \in Nat /\ hdr.data \in Nat /\ hdr.data_size \in Nat /\ 0 + 1 <= hdr.data
        BY <2>1, <2>2
      <4>2. Part(0, 1) \cap Part(hdr.data, hdr.data_size) = {}
        BY <4>1, PartsApart
      <4> QED
        BY <3>1, <4>2
    <3>5. Sections[1] \cap Sections[5] = {}
      <4>1. 0 \in Nat /\ 1 \in Nat /\ hdr.bss \in Nat /\ hdr.bss_size \in Nat /\ 0 + 1 <= hdr.bss
        BY <2>1, <2>2
      <4>2. Part(0, 1) \cap Part(hdr.bss, hdr.bss_size) = {}
        BY <4>1, PartsApart
      <4> QED
        BY <3>1, <4>2
    <3>6. Sections[2] \cap Sections[3] = {}
      <4>1. hdr.text \in Nat /\ hdr.text_size \in Nat /\ hdr.rodata \in Nat /\ hdr.rodata_size \in Nat /\ hdr.text + hdr.text_size <= hdr.rodata
        BY <2>1, <2>2
      <4>2. Part(hdr.text, hdr.text_size) \cap Part(hdr.rodata, hdr.rodata_size) = {}
        BY <4>1, PartsApart
      <4> QED
        BY <3>1, <4>2
    <3>7. Sections[2] \cap Sections[4] = {}
      <4>1. hdr.text \in Nat /\ hdr.text_size \in Nat /\ hdr.data \in Nat /\ hdr.data_size \in Nat /\ hdr.text + hdr.text_size <= hdr.data
        BY <2>1, <2>2
      <4>2. Part(hdr.text, hdr.text_size) \cap Part(hdr.data, hdr.data_size) = {}
        BY <4>1, PartsApart
      <4> QED
        BY <3>1, <4>2
    <3>8. Sections[2] \cap Sections[5] = {}
      <4>1. hdr.text \in Nat /\ hdr.text_size \in Nat /\ hdr.bss \in Nat /\ hdr.bss_size \in Nat /\ hdr.text + hdr.text_size <= hdr.bss
        BY <2>1, <2>2
      <4>2. Part(hdr.text, hdr.text_size) \cap Part(hdr.bss, hdr.bss_size) = {}
        BY <4>1, PartsApart
      <4> QED
        BY <3>1, <4>2
    <3>9. Sections[3] \cap Sections[4] = {}
      <4>1. hdr.rodata \in Nat /\ hdr.rodata_size \in Nat /\ hdr.data \in Nat /\ hdr.data_size \in Nat /\ hdr.rodata + hdr.rodata_size <= hdr.data
        BY <2>1, <2>2
      <4>2. Part(hdr.rodata, hdr.rodata_size) \cap Part(hdr.data, hdr.data_size) = {}
        BY <4>1, PartsApart
      <4> QED
        BY <3>1, <4>2
    <3>10. Sections[3] \cap Sections[5] = {}
      <4>1. hdr.rodata \in Nat /\ hdr.rodata_size \in Nat /\ hdr.bss \in Nat /\ hdr.bss_size \in Nat /\ hdr.rodata + hdr.rodata_size <= hdr.bss
        BY <2>1, <2>2
      <4>2. Part(hdr.rodata, hdr.rodata_size) \cap Part(hdr.bss, hdr.bss_size) = {}
        BY <4>1, PartsApart
      <4> QED
        BY <3>1, <4>2
    <3>11. Sections[4] \cap Sections[5] = {}
      <4>1. hdr.data \in Nat /\ hdr.data_size \in Nat /\ hdr.bss \in Nat /\ hdr.bss_size \in Nat /\ hdr.data + hdr.data_size <= hdr.bss
        BY <2>1, <2>2
      <4>2. Part(hdr.data, hdr.data_size) \cap Part(hdr.bss, hdr.bss_size) = {}
        BY <4>1, PartsApart
      <4> QED
        BY <3>1, <4>2
    <3>12. \A i \in 1 .. 5 : i \in {1, 2, 3, 4, 5}
      OBVIOUS
    <3> QED
      BY <3>2, <3>3, <3>4, <3>5, <3>6, <3>7,
         <3>8, <3>9, <3>10, <3>11, <3>12
  <2>7. ASSUME NEW i \in 1 .. 5, NEW j \in 1 .. 5, i # j
        PROVE  Sections[i] \cap Sections[j] = {}
    <3>1. i < j \/ j < i
      BY <2>7
    <3> QED
      BY <2>6, <3>1
  <2> QED
    BY <2>3, <2>4, <2>5, <2>7
<1> QED
  BY <1>1, ParserInvariant, PTL

\* Whatever descriptors a graph has, when it is accepted every entry of the
\* parameter map and every tensor refers to a section and a sub-section that are
\* there: create_iobuf_info indexes without a check, and build_new_job never has to
\* refuse a section.
THEOREM ReferencesAreSafe == ParseSpec => []RefsInRange
<1>1. ParserInv => RefsInRange
  <2> SUFFICES ASSUME ParserInv, pc = "done", ret = "SUCCESS"
               PROVE  /\ \A i \in DOMAIN info.params : LET p == info.params[i] IN
                           /\ p.sec < Len(info[p.type])
                           /\ p.sub < Len(info[p.type][p.sec + 1])
                           /\ p.off = info[p.type][p.sec + 1][p.sub + 1]
                      /\ \A t \in IoTypes : \A i \in DOMAIN info[t] :
                           info[t][i].sec < Len(info["reuse"])
    BY DEF RefsInRange, Accepted
  <2>1. /\ \A i \in DOMAIN info["params"] : Refers(info["params"][i])
        /\ \A t \in IoTypes : \A i \in DOMAIN info[t] : RefersReuse(info[t][i])
    BY DEF ParserInv, References
  <2>2. ~InSection
    BY DEF InSection
  <2> QED
    BY <2>1, <2>2 DEF Refers, RefersReuse
<1> QED
  BY <1>1, ParserInvariant, PTL

\* Whatever the order of the tensors in the file: if their ids are 0 to n - 1, the
\* tensor with number i is the one with id i, and there are as many as described
\* (sort_io_tensor).
THEOREM TensorsAreNumbered == ParseSpec => []TensorsById
<1>1. ParserInv => TensorsById
  <2> SUFFICES ASSUME ParserInv, pc = "done", ret = "SUCCESS",
                      NEW t \in {"input", "output"},
                      IdsArePermutation("output"), IdsArePermutation(t)
               PROVE  /\ Len(info[t]) = Cardinality(Described(t))
                      /\ \A i \in DOMAIN info[t] :
                           /\ info[t][i].id = i - 1
                           /\ \E k \in Described(t) : info[t][i] = Tensor(file[k])
    BY DEF TensorsById, Accepted
  <2>1. Numbered(t)
    BY DEF ParserInv, Tensors
  <2> QED
    BY <2>1 DEF Numbered
<1> QED
  BY <1>1, ParserInvariant, PTL

-----------------------------------------------------------------------------
(* The layout.                                                             *)

\* A multiple.
LEMMA MultMod ==
  ASSUME NEW k \in Int, NEW A \in Nat \ {0}
  PROVE  (k * A) % A = 0
OBVIOUS

\* A remainder of zero makes a multiple.
LEMMA ModZero ==
  ASSUME NEW x \in Nat, NEW A \in Nat \ {0}, x % A = 0
  PROVE  \E k \in Nat : x = k * A
OBVIOUS

\* The sum of two multiples.
LEMMA ModSum ==
  ASSUME NEW x \in Nat, NEW y \in Nat, NEW A \in Nat \ {0}, x % A = 0, y % A = 0
  PROVE  (x + y) % A = 0
<1>1. PICK j \in Nat : x = j * A
  BY ModZero
<1>2. PICK k \in Nat : y = k * A
  BY ModZero
<1>3. x + y = (j + k) * A /\ j + k \in Int
  BY <1>1, <1>2
<1>4. ((j + k) * A) % A = 0
  BY <1>3, MultMod
<1> QED
  BY <1>3, <1>4

\* A multiple of a multiple: x of a's pages, a of c.
LEMMA ModChain ==
  ASSUME NEW x \in Nat, NEW a \in Nat \ {0}, NEW c \in Nat \ {0}, NEW p \in Nat \ {0},
         x % (a * p) = 0, a % c = 0
  PROVE  x % (c * p) = 0
<1>1. a * p \in Nat \ {0} /\ c * p \in Nat \ {0}
  OBVIOUS
<1>2. PICK m \in Nat : x = m * (a * p)
  BY <1>1, ModZero
<1>3. PICK n \in Nat : a = n * c
  BY ModZero
<1>4. x = (m * n) * (c * p) /\ m * n \in Int
  BY <1>2, <1>3
<1>5. ((m * n) * (c * p)) % (c * p) = 0
  BY <1>1, <1>4, MultMod
<1> QED
  BY <1>4, <1>5

\* Whole words are cut off.
LEMMA ModPlusWords ==
  ASSUME NEW x \in Nat, NEW k \in Nat, NEW W \in Nat \ {0}, x < W
  PROVE  (x + k * W) % W = x
OBVIOUS

\* The first multiple that is not below the address in unbounded arithmetic.
LEMMA AlignedUp ==
  ASSUME NEW base \in Nat, NEW align \in Nat \ {0}, Page \in Nat \ {0}
  PROVE  /\ ExactAligned(base, align) \in Nat
         /\ ExactAligned(base, align) >= base
         /\ ExactAligned(base, align) % (align * Page) = 0
<1> DEFINE T == {n * align * Page : n \in 0..base} \ 0..(base - 1)
<1>1. T \subseteq Nat
  OBVIOUS
<1>2. base * align * Page \in T
  <2>1. align * Page \in Nat /\ align * Page >= 1
    OBVIOUS
  <2>2. \A n \in Nat : n >= 1 => base * n >= base
    OBVIOUS
  <2>3. base * (align * Page) >= base /\ base * align * Page = base * (align * Page)
    BY <2>1, <2>2
  <2> QED
    BY <2>1, <2>3
<1>3. PICK x \in T : \A y \in T : x <= y
  BY <1>1, <1>2, LeastNat
<1>4. ExactAligned(base, align) \in T
  BY <1>3 DEF ExactAligned, Min
<1>5. PICK n \in 0..base : ExactAligned(base, align) = n * align * Page
  BY <1>4
<1>6. (n * (align * Page)) % (align * Page) = 0
  <2>1. align * Page \in Nat \ {0} /\ n \in Int
    OBVIOUS
  <2> QED
    BY <2>1, MultMod
<1>7. n * align * Page = n * (align * Page)
  OBVIOUS
<1>8. ExactAligned(base, align) \in Nat /\ ExactAligned(base, align) >= base
  <2> HIDE DEF T
  <2>1. ExactAligned(base, align) \in Nat /\ ExactAligned(base, align) \notin 0..(base - 1)
    BY <1>1, <1>4 DEF T
  <2> QED
    BY <2>1
<1> QED
  BY <1>5, <1>6, <1>7, <1>8

-----------------------------------------------------------------------------
(* The offsets of the sections of a group.                                 *)

\* A section descriptor.
SecDesc == [size : 1..(WordSize - 1), align : 1..(WordSize - 1)]

\* Its fields are numbers.
LEMMA SecFields ==
  ASSUME NEW s \in Seq(SecDesc), NEW j \in DOMAIN s
  PROVE  s[j].size \in Nat \ {0} /\ s[j].align \in Nat \ {0}
<1>1. s[j] \in SecDesc
  OBVIOUS
<1> QED
  BY <1>1, LayoutAssumption DEF SecDesc

\* The offsets of the first n sections, in unbounded arithmetic.
ExactOf(f, s, n) ==
    f = [i \in 1..n |-> IF i = 1 THEN 0
                        ELSE ExactAligned(f[i-1] + s[i-1].size, s[i].align)]

\* The loop has a result for every list of sections: a shortest prefix without one
\* could be computed from the one before it.
LEMMA ExactExist ==
  ASSUME NEW s \in Seq(SecDesc)
  PROVE  \E f : ExactOf(f, s, Len(s))
<1> DEFINE T == {n \in 0..Len(s) : ~ \E f : ExactOf(f, s, n)}
<1>0. Len(s) \in Nat
  OBVIOUS
<1>1. SUFFICES ASSUME T # {} PROVE FALSE
  BY <1>0
<1>2. PICK n \in T : \A m \in T : n <= m
  <2>1. T \subseteq Nat
    BY <1>0
  <2> HIDE DEF T
  <2> QED
    BY <1>1, <2>1, LeastNat
<1>3. n # 0
  <2>1. ExactOf(<<>>, s, 0)
    <3>1. 1..0 = {}
      OBVIOUS
    <3> QED
      BY <3>1 DEF ExactOf
  <2> QED
    BY <2>1
<1>4. n \in Nat /\ n - 1 \in 0..Len(s) /\ n - 1 \notin T
  BY <1>0, <1>2, <1>3
<1>5. PICK f : ExactOf(f, s, n - 1)
  BY <1>4
<1> DEFINE g == [i \in 1..n |-> IF i = 1 THEN 0
                 ELSE ExactAligned(f[i-1] + s[i-1].size, s[i].align)]
<1>6. \A i \in 1..(n - 1) : g[i] = f[i]
  BY <1>4, <1>5 DEF ExactOf
<1>7. ExactOf(g, s, n)
  <2>1. ASSUME NEW i \in 1..n, i # 1
        PROVE  g[i] = ExactAligned(g[i-1] + s[i-1].size, s[i].align)
    <3>1. i - 1 \in 1..(n - 1)
      BY <1>4, <2>1
    <3>2. g[i-1] = f[i-1]
      BY <1>6, <3>1
    <3>3. g[i] = ExactAligned(f[i-1] + s[i-1].size, s[i].align)
      BY <2>1
    <3> HIDE DEF g
    <3> QED
      BY <3>2, <3>3
  <2>2. \A i \in 1..n : i = 1 => g[i] = 0
    OBVIOUS
  <2>3. g = [i \in 1..n |-> g[i]]
    OBVIOUS
  <2> HIDE DEF g
  <2>4. \A i \in 1..n : g[i] = IF i = 1 THEN 0
                 ELSE ExactAligned(g[i-1] + s[i-1].size, s[i].align)
    BY <2>1, <2>2
  <2> QED
    BY <2>3, <2>4 DEF ExactOf
<1> HIDE DEF g
<1> QED
  BY <1>2, <1>7

\* So the recursion of the model is what it says.
LEMMA ExactUnfold ==
  ASSUME NEW s \in Seq(SecDesc)
  PROVE  ExactOf(ExactOffsets(s), s, Len(s))
<1>1. DOMAIN s = 1..Len(s)
  OBVIOUS
<1>2. PICK f : f = [i \in DOMAIN s |-> IF i = 1 THEN 0
                        ELSE ExactAligned(f[i-1] + s[i-1].size, s[i].align)]
  BY <1>1, ExactExist DEF ExactOf
<1>3. ExactOffsets(s) = [i \in DOMAIN s |-> IF i = 1 THEN 0
                        ELSE ExactAligned(ExactOffsets(s)[i-1] + s[i-1].size, s[i].align)]
  BY <1>2 DEF ExactOffsets
<1> QED
  BY <1>1, <1>3 DEF ExactOf

\* An offset is a number; a section starts at its alignment, behind the one before.
LEMMA ExactStep ==
  ASSUME NEW s \in Seq(SecDesc), Page \in Nat \ {0}, NEW i \in DOMAIN s
  PROVE  /\ ExactOffsets(s)[i] \in Nat
         /\ ExactOffsets(s)[i] % (s[i].align * Page) = 0
         /\ i > 1 => ExactOffsets(s)[i] >= ExactOffsets(s)[i-1] + s[i-1].size
         /\ i = 1 => ExactOffsets(s)[i] = 0
<1> DEFINE f == ExactOffsets(s)
           Good(j) == f[j] \in Nat
           T == {j \in DOMAIN s : ~Good(j)}
<1>1. DOMAIN s = 1..Len(s) /\ Len(s) \in Nat
  OBVIOUS
<1>2. \A j \in DOMAIN s : s[j].size \in Nat \ {0} /\ s[j].align \in Nat \ {0}
  BY SecFields
<1>3. \A j \in DOMAIN s : f[j] = IF j = 1 THEN 0
          ELSE ExactAligned(f[j-1] + s[j-1].size, s[j].align)
  <2>1. ExactOf(f, s, Len(s))
    BY ExactUnfold
  <2> HIDE DEF f
  <2> QED
    BY <1>1, <2>1 DEF ExactOf
<1> HIDE DEF f
<1>4. ASSUME NEW j \in DOMAIN s, j # 1, Good(j - 1)
      PROVE  /\ Good(j) /\ f[j] >= f[j-1] + s[j-1].size
             /\ f[j] % (s[j].align * Page) = 0
  <2>1. j - 1 \in DOMAIN s
    BY <1>1, <1>4
  <2>2. f[j-1] + s[j-1].size \in Nat /\ s[j].align \in Nat \ {0}
    BY <1>2, <1>4, <2>1
  <2>3. f[j] = ExactAligned(f[j-1] + s[j-1].size, s[j].align)
    BY <1>3, <1>4
  <2>4. /\ ExactAligned(f[j-1] + s[j-1].size, s[j].align) \in Nat
        /\ ExactAligned(f[j-1] + s[j-1].size, s[j].align) >= f[j-1] + s[j-1].size
        /\ ExactAligned(f[j-1] + s[j-1].size, s[j].align) % (s[j].align * Page) = 0
    BY <2>2, AlignedUp
  <2> QED
    BY <2>3, <2>4
<1>5. ASSUME T # {} PROVE FALSE
  <2>1. T \subseteq Nat
    BY <1>1
  <2>2. PICK j \in T : \A m \in T : j <= m
    <3> HIDE DEF T
    <3> QED
      BY <1>5, <2>1, LeastNat
  <2>3. j # 1
    BY <1>3
  <2>4. j - 1 \in DOMAIN s /\ j - 1 \notin T
    BY <1>1, <2>2, <2>3
  <2> QED
    BY <1>4, <2>3, <2>4
<1>6. \A j \in DOMAIN s : Good(j)
  BY <1>5
<1>7. CASE i = 1
  <2>1. f[i] = 0
    BY <1>3, <1>7
  <2>2. s[i].align * Page \in Nat \ {0}
    BY <1>2
  <2>3. 0 % (s[i].align * Page) = 0
    BY <2>2, SmallMod
  <2> QED
    BY <1>7, <2>1, <2>3 DEF f
<1>8. CASE i # 1
  <2>1. i - 1 \in DOMAIN s
    BY <1>1, <1>8
  <2>2. Good(i) /\ f[i] >= f[i-1] + s[i-1].size /\ f[i] % (s[i].align * Page) = 0
    BY <1>4, <1>6, <1>8, <2>1
  <2> QED
    BY <1>8, <2>2 DEF f
<1> QED
  BY <1>7, <1>8

\* No section ends behind the last one.
LEMMA ExactEnd ==
  ASSUME NEW s \in Seq(SecDesc), Page \in Nat \ {0}, NEW i \in DOMAIN s
  PROVE  ExactOffsets(s)[i] + s[i].size <= ExactOffsets(s)[Len(s)] + s[Len(s)].size
<1> DEFINE f == ExactOffsets(s)
           T == {j \in i..Len(s) : f[i] + s[i].size > f[j] + s[j].size}
<1>1. DOMAIN s = 1..Len(s) /\ Len(s) \in Nat
  OBVIOUS
<1>2. \A j \in DOMAIN s : /\ f[j] \in Nat /\ s[j].size \in Nat
                          /\ j > 1 => f[j] >= f[j-1] + s[j-1].size
  <2> TAKE j \in DOMAIN s
  <2>1. f[j] \in Nat /\ (j > 1 => f[j] >= f[j-1] + s[j-1].size)
    BY ExactStep
  <2>2. s[j].size \in Nat
    BY SecFields
  <2> QED
    BY <2>1, <2>2
<1> HIDE DEF f
<1>3. SUFFICES ASSUME T # {} PROVE FALSE
  <2>1. Len(s) \in i..Len(s) /\ Len(s) \in DOMAIN s
    BY <1>1
  <2>2. Len(s) \notin T
    BY <1>3
  <2>3. ~(f[i] + s[i].size > f[Len(s)] + s[Len(s)].size)
    BY <2>1, <2>2
  <2>4. f[i] + s[i].size <= f[Len(s)] + s[Len(s)].size
    BY <1>2, <2>1, <2>3
  <2> QED
    BY <2>4 DEF f
<1>4. T \subseteq Nat
  BY <1>1
<1>5. PICK j \in T : \A m \in T : j <= m
  <2> HIDE DEF T
  <2> QED
    BY <1>3, <1>4, LeastNat
<1>6. j # i /\ j \in DOMAIN s /\ j - 1 \in DOMAIN s /\ j > 1
  BY <1>1, <1>2, <1>5
<1>7. j - 1 \notin T /\ j - 1 \in i..Len(s)
  BY <1>1, <1>4, <1>5, <1>6
<1>8. f[i] + s[i].size <= f[j-1] + s[j-1].size
  BY <1>2, <1>6, <1>7
<1>9. f[i] + s[i].size > f[j] + s[j].size
  BY <1>5
<1>10. /\ f[i] \in Nat /\ s[i].size \in Nat /\ f[j] \in Nat /\ s[j].size \in Nat
       /\ f[j-1] \in Nat /\ s[j-1].size \in Nat /\ f[j] >= f[j-1] + s[j-1].size
  BY <1>2, <1>6
<1>11. \A a, b, c, d, u, v \in Nat : a + b <= c + d /\ u >= c + d => ~(a + b > u + v)
  OBVIOUS
<1> HIDE DEF T
<1> QED
  BY <1>8, <1>9, <1>10, <1>11

-----------------------------------------------------------------------------
(* The same offsets in the arithmetic of uint32_t.                         *)

\* The offsets of the first n sections, as alloc_group_buffers computes them.
OffsetsOf(f, s, n) ==
    f = [i \in 1..n |-> IF i = 1 THEN 0
                        ELSE GetAlignedAddr((f[i-1] + s[i-1].size) % WordSize, s[i].align)]

\* The loop has a result for every list of sections: a shortest prefix without one
\* could be computed from the one before it.
LEMMA OffsetsExist ==
  ASSUME NEW s \in Seq(SecDesc)
  PROVE  \E f : OffsetsOf(f, s, Len(s))
<1> DEFINE T == {n \in 0..Len(s) : ~ \E f : OffsetsOf(f, s, n)}
<1>0. Len(s) \in Nat
  OBVIOUS
<1>1. SUFFICES ASSUME T # {} PROVE FALSE
  BY <1>0
<1>2. PICK n \in T : \A m \in T : n <= m
  <2>1. T \subseteq Nat
    BY <1>0
  <2> HIDE DEF T
  <2> QED
    BY <1>1, <2>1, LeastNat
<1>3. n # 0
  <2>1. OffsetsOf(<<>>, s, 0)
    <3>1. 1..0 = {}
      OBVIOUS
    <3> QED
      BY <3>1 DEF OffsetsOf
  <2> QED
    BY <2>1
<1>4. n \in Nat /\ n - 1 \in 0..Len(s) /\ n - 1 \notin T
  BY <1>0, <1>2, <1>3
<1>5. PICK f : OffsetsOf(f, s, n - 1)
  BY <1>4
<1> DEFINE g == [i \in 1..n |-> IF i = 1 THEN 0
                 ELSE GetAlignedAddr((f[i-1] + s[i-1].size) % WordSize, s[i].align)]
<1>6. \A i \in 1..(n - 1) : g[i] = f[i]
  BY <1>4, <1>5 DEF OffsetsOf
<1>7. OffsetsOf(g, s, n)
  <2>1. ASSUME NEW i \in 1..n, i # 1
        PROVE  g[i] = GetAlignedAddr((g[i-1] + s[i-1].size) % WordSize, s[i].align)
    <3>1. i - 1 \in 1..(n - 1)
      BY <1>4, <2>1
    <3>2. g[i-1] = f[i-1]
      BY <1>6, <3>1
    <3>3. g[i] = GetAlignedAddr((f[i-1] + s[i-1].size) % WordSize, s[i].align)
      BY <2>1
    <3> HIDE DEF g
    <3> QED
      BY <3>2, <3>3
  <2>2. \A i \in 1..n : i = 1 => g[i] = 0
    OBVIOUS
  <2>3. g = [i \in 1..n |-> g[i]]
    OBVIOUS
  <2> HIDE DEF g
  <2>4. \A i \in 1..n : g[i] = IF i = 1 THEN 0
                 ELSE GetAlignedAddr((g[i-1] + s[i-1].size) % WordSize, s[i].align)
    BY <2>1, <2>2
  <2> QED
    BY <2>3, <2>4 DEF OffsetsOf
<1> HIDE DEF g
<1> QED
  BY <1>2, <1>7

\* So the recursion of the model is what it says.
LEMMA OffsetsUnfold ==
  ASSUME NEW s \in Seq(SecDesc)
  PROVE  OffsetsOf(Offsets(s), s, Len(s))
<1>1. DOMAIN s = 1..Len(s)
  OBVIOUS
<1>2. PICK f : f = [i \in DOMAIN s |-> IF i = 1 THEN 0
                        ELSE GetAlignedAddr((f[i-1] + s[i-1].size) % WordSize, s[i].align)]
  BY <1>1, OffsetsExist DEF OffsetsOf
<1>3. Offsets(s) = [i \in DOMAIN s |-> IF i = 1 THEN 0
                        ELSE GetAlignedAddr((Offsets(s)[i-1] + s[i-1].size) % WordSize, s[i].align)]
  BY <1>2 DEF Offsets
<1> QED
  BY <1>1, <1>3 DEF OffsetsOf

\* When the loop of get_aligned_addr ends, its result is a number.
LEMMA AlignedNat ==
  ASSUME NEW base, NEW align \in Nat \ {0}, Stops(base, align) # {}
  PROVE  GetAlignedAddr(base, align) \in Nat
<1>1. Page \in Nat \ {0} /\ WordSize \in Nat \ {0}
  BY LayoutAssumption
<1>2. Stops(base, align) \subseteq Nat
  BY <1>1 DEF Stops
<1>3. PICK x \in Stops(base, align) : \A y \in Stops(base, align) : x <= y
  BY <1>2, LeastNat
<1>4. Min(Stops(base, align)) \in Stops(base, align)
  BY <1>3 DEF Min
<1>5. PICK n \in Nat : n = Min(Stops(base, align))
  BY <1>2, <1>4
<1>6. n * align * Page \in Nat
  BY <1>1
<1>7. (n * align * Page) % WordSize \in Nat
  BY <1>1, <1>6
<1> QED
  BY <1>5, <1>7 DEF GetAlignedAddr, Multiple

\* Below 4 GB nothing wraps: the loop of get_aligned_addr ends, at the exact result.
LEMMA AlignedExact ==
  ASSUME NEW base \in Nat, NEW align \in Nat \ {0}, ExactAligned(base, align) < WordSize
  PROVE  /\ Stops(base, align) # {}
         /\ GetAlignedAddr(base, align) = ExactAligned(base, align)
<1> DEFINE A == align * Page
           T == {n * align * Page : n \in 0..base} \ 0..(base - 1)
           e == ExactAligned(base, align)
<1>1. Page \in Nat \ {0} /\ WordSize \in Nat \ {0} /\ A \in Nat \ {0}
  BY LayoutAssumption
<1>2. e \in Nat /\ e >= base
  BY <1>1, AlignedUp
<1>3. e \in T /\ \A y \in T : e <= y
  <2>1. T \subseteq Nat
    BY <1>1
  <2>2. T # {}
    <3>1. base * align * Page = base * A /\ base * A \in Nat
      BY <1>1
    <3>2. base * A >= base
      <4>1. \A n \in Nat \ {0} : base * n >= base
        OBVIOUS
      <4> QED
        BY <1>1, <4>1
    <3>3. base \in 0..base /\ base * A \notin 0..(base - 1)
      BY <3>1, <3>2
    <3> HIDE DEF A
    <3> QED
      BY <3>1, <3>3
  <2>3. PICK x \in T : \A y \in T : x <= y
    <3> HIDE DEF T
    <3> QED
      BY <2>1, <2>2, LeastNat
  <2> QED
    BY <2>3 DEF ExactAligned, Min
<1>4. PICK n \in 0..base : e = n * align * Page
  BY <1>3
<1>5. \A m \in Nat : m * align * Page = m * A /\ m * A \in Nat
  BY <1>1
<1>6. e = n * A /\ n \in Nat
  BY <1>4, <1>5
<1>7. e < WordSize
  OBVIOUS
<1>8. ASSUME NEW m \in Nat, m <= n
      PROVE  Multiple(m, align) = m * A /\ m * A <= e
  <2>1. m * A <= n * A
    <3>1. \A a \in Nat : m * a <= n * a
      BY <1>6, <1>8
    <3> QED
      BY <1>1, <3>1
  <2>2. m * A \in Nat /\ m * A < WordSize
    <3> HIDE DEF A, e
    <3> QED
      BY <1>1, <1>2, <1>5, <1>6, <1>7, <2>1
  <2>3. (m * A) % WordSize = m * A
    BY <1>1, <2>2, SmallMod
  <2> QED
    BY <1>5, <1>6, <2>1, <2>3 DEF Multiple
<1>9. n \in Stops(base, align)
  <2>1. n < WordSize
    <3>1. \A a \in Nat \ {0} : n * a >= n
      BY <1>6
    <3>2. n * A >= n
      BY <1>1, <3>1
    <3> HIDE DEF A, e
    <3> QED
      BY <1>1, <1>2, <1>6, <1>7, <3>2
  <2>2. Multiple(n, align) >= base
    <3>1. Multiple(n, align) = n * A
      BY <1>6, <1>8
    <3> HIDE DEF A, e
    <3> QED
      BY <1>2, <1>6, <3>1
  <2>3. n \in 0..(WordSize - 1)
    BY <1>1, <1>6, <2>1
  <2> QED
    BY <2>2, <2>3 DEF Stops
<1>10. ASSUME NEW m \in Stops(base, align) PROVE n <= m
  <2>1. m \in Nat /\ Multiple(m, align) >= base
    BY <1>1 DEF Stops
  <2>2. SUFFICES ASSUME m < n PROVE FALSE
    BY <1>6, <2>1
  <2>3. Multiple(m, align) = m * A
    BY <1>6, <1>8, <2>1, <2>2
  <2>4. m * align * Page \in T
    <3>1. m \in 0..base
      BY <1>4, <2>1, <2>2
    <3>2. m * A \in Nat /\ m * align * Page = m * A /\ m * A >= base
      BY <1>5, <2>1, <2>3
    <3>3. m * A \notin 0..(base - 1)
      <4> HIDE DEF A
      <4> QED
        BY <3>2
    <3> QED
      BY <3>1, <3>2, <3>3
  <2>5. e <= m * A
    BY <1>3, <1>5, <2>1, <2>4
  <2>6. m * A < n * A
    <3>1. \A a \in Nat \ {0} : m * a < n * a
      BY <1>6, <2>1, <2>2
    <3> QED
      BY <1>1, <3>1
  <2> HIDE DEF A, e
  <2>7. m * A \in Nat
    BY <1>5, <2>1
  <2> QED
    BY <1>2, <1>6, <2>5, <2>6, <2>7
<1>11. Min(Stops(base, align)) = n
  <2>1. Min(Stops(base, align)) \in Stops(base, align)
        /\ \A y \in Stops(base, align) : Min(Stops(base, align)) <= y
    BY <1>9, <1>10 DEF Min
  <2>2. Stops(base, align) \subseteq Nat
    BY <1>1 DEF Stops
  <2>3. Min(Stops(base, align)) <= n /\ n <= Min(Stops(base, align))
    BY <1>9, <1>10, <2>1
  <2>4. Min(Stops(base, align)) \in Nat
    BY <2>1, <2>2
  <2>5. \A x, y \in Nat : x <= y /\ y <= x => x = y
    OBVIOUS
  <2> QED
    BY <1>6, <2>3, <2>4, <2>5
<1>12. Multiple(n, align) = e
  BY <1>6, <1>8
<1> QED
  BY <1>9, <1>11, <1>12 DEF GetAlignedAddr

\* When every loop ends, every offset is a number.
LEMMA OffsetsNat ==
  ASSUME NEW s \in Seq(SecDesc), LoopsEnd(s), NEW i \in DOMAIN s
  PROVE  Offsets(s)[i] \in Nat
<1>1. DOMAIN s = 1..Len(s) /\ Len(s) \in Nat
  OBVIOUS
<1>2. Offsets(s)[i] = IF i = 1 THEN 0
        ELSE GetAlignedAddr((Offsets(s)[i-1] + s[i-1].size) % WordSize, s[i].align)
  BY <1>1, OffsetsUnfold DEF OffsetsOf
<1>3. CASE i # 1
  <2>1. i \in 2..Len(s)
    BY <1>1, <1>3
  <2>2. Stops((Offsets(s)[i-1] + s[i-1].size) % WordSize, s[i].align) # {}
    BY <2>1 DEF LoopsEnd
  <2>3. s[i].align \in Nat \ {0}
    BY SecFields
  <2> QED
    BY <1>2, <1>3, <2>2, <2>3, AlignedNat
<1> QED
  BY <1>2, <1>3

\* A list that takes less than 4 GB gets the exact offsets.
LEMMA OffsetsExact ==
  ASSUME NEW s \in Seq(SecDesc), 1 \in DOMAIN s, Below4G(s)
  PROVE  /\ \A i \in DOMAIN s : Offsets(s)[i] = ExactOffsets(s)[i]
         /\ TotBytes(s) = ExactOffsets(s)[Len(s)] + s[Len(s)].size
<1> DEFINE f == Offsets(s)
           x == ExactOffsets(s)
           T == {i \in DOMAIN s : f[i] # x[i]}
<1>1. /\ DOMAIN s = 1..Len(s) /\ Len(s) \in DOMAIN s
      /\ Page \in Nat \ {0} /\ WordSize \in Nat \ {0}
  BY LayoutAssumption
<1>2. \A i \in DOMAIN s : f[i] = IF i = 1 THEN 0
        ELSE GetAlignedAddr((f[i-1] + s[i-1].size) % WordSize, s[i].align)
  <2>1. OffsetsOf(f, s, Len(s))
    BY OffsetsUnfold
  <2> HIDE DEF f
  <2> QED
    BY <1>1, <2>1 DEF OffsetsOf
<1>3. \A i \in DOMAIN s : x[i] = IF i = 1 THEN 0
        ELSE ExactAligned(x[i-1] + s[i-1].size, s[i].align)
  <2>1. ExactOf(x, s, Len(s))
    BY ExactUnfold
  <2> HIDE DEF x
  <2> QED
    BY <1>1, <2>1 DEF ExactOf
<1>4. \A i \in DOMAIN s : /\ x[i] \in Nat /\ s[i].size \in Nat /\ s[i].align \in Nat \ {0}
                          /\ x[i] + s[i].size < WordSize /\ x[i] < WordSize
  <2> TAKE i \in DOMAIN s
  <2>1. x[i] \in Nat /\ x[Len(s)] \in Nat
    BY <1>1, ExactStep
  <2>2. s[i].size \in Nat /\ s[i].align \in Nat \ {0} /\ s[Len(s)].size \in Nat
    BY <1>1, SecFields
  <2>3. x[i] + s[i].size <= x[Len(s)] + s[Len(s)].size
    BY <1>1, ExactEnd
  <2>4. x[Len(s)] + s[Len(s)].size < WordSize
    BY DEF Below4G
  <2>5. \A u, v, a, b \in Nat : u + v <= a + b /\ a + b < WordSize
          => u + v < WordSize /\ u < WordSize
    BY <1>1
  <2> HIDE DEF x
  <2> QED
    BY <2>1, <2>2, <2>3, <2>4, <2>5
<1> HIDE DEF f, x
<1>5. ASSUME NEW i \in DOMAIN s, i # 1, f[i-1] = x[i-1]
      PROVE  f[i] = x[i]
  <2>1. i - 1 \in DOMAIN s
    BY <1>1, <1>5
  <2> DEFINE b == x[i-1] + s[i-1].size
  <2>2. b \in Nat /\ b < WordSize
    BY <1>4, <2>1
  <2>3. x[i] = ExactAligned(b, s[i].align) /\ x[i] < WordSize
    BY <1>3, <1>4, <1>5
  <2>4. f[i] = GetAlignedAddr(b % WordSize, s[i].align)
    BY <1>2, <1>5
  <2> HIDE DEF b
  <2>5. b % WordSize = b
    BY <1>1, <2>2, SmallMod
  <2>6. s[i].align \in Nat \ {0}
    BY <1>4
  <2>7. GetAlignedAddr(b, s[i].align) = ExactAligned(b, s[i].align)
    BY <2>2, <2>3, <2>6, AlignedExact
  <2> QED
    BY <2>3, <2>4, <2>5, <2>7
<1>6. ASSUME T # {} PROVE FALSE
  <2>1. T \subseteq Nat
    BY <1>1
  <2>2. PICK j \in T : \A m \in T : j <= m
    <3> HIDE DEF T
    <3> QED
      BY <1>6, <2>1, LeastNat
  <2>3. j # 1
    BY <1>2, <1>3
  <2>4. j - 1 \in DOMAIN s /\ j - 1 \notin T
    BY <1>1, <2>2, <2>3
  <2> QED
    BY <1>5, <2>3, <2>4
<1>7. \A i \in DOMAIN s : f[i] = x[i]
  BY <1>6
<1>8. TotBytes(s) = (x[Len(s)] + s[Len(s)].size) % WordSize
  BY <1>1, <1>7 DEF TotBytes, f
<1>9. (x[Len(s)] + s[Len(s)].size) % WordSize = x[Len(s)] + s[Len(s)].size
  <2>1. x[Len(s)] + s[Len(s)].size \in Nat /\ x[Len(s)] + s[Len(s)].size < WordSize
    BY <1>1, <1>4
  <2> QED
    BY <1>1, <2>1, SmallMod
<1> QED
  BY <1>7, <1>8, <1>9 DEF f, x

-----------------------------------------------------------------------------
(* The inductive invariant of the layout.                                  *)

Buffer == [pa : Nat, size : Nat]
CodePlaces == {"text", "rodata", "stack"}

LayoutTypes ==
    /\ machine \in Machines
    /\ step \in {"load", "alloc", "ready", "built", "running"}
    /\ sections \in [GroupKinds -> Seq(SecDesc)]
    /\ \A k \in GroupKinds : /\ entry[k].sec \in DOMAIN sections[k]
                          /\ entry[k].off \in Nat
                          /\ entry[k].off < sections[k][entry[k].sec].size
    /\ group \in [GroupKinds -> Buffer]
    /\ buf = [k \in GroupKinds |-> buf[k]]
    /\ pa \in [CodePlaces -> Nat]

\* The groups the application has asked for by now.
Asked(k) == step # "load" /\ (k = "reuse" => step # "alloc")
GroupsGiven == \A k \in GroupKinds :
    IF Asked(k) THEN /\ group[k].pa \in Bases
                     /\ DOMAIN buf[k] = DOMAIN sections[k]
                     /\ \A i \in DOMAIN buf[k] : buf[k][i] \in Buffer
                ELSE buf[k] = <<>>

\* The code has its place, and the io tensor lies in its section.
CodeGiven ==
    /\ step # "load" => pa["text"] \in CodeBases
    /\ step \notin {"load", "alloc"} =>
        /\ \A x \in CodePlaces : pa[x] \in CodeBases
        /\ tensor = IobufPa(buf)

\* The job's configuration as a function of the memory of the graph.
JobOf == [start_pc |-> Host2Dev(pa["text"]) + EntryPc,
          data_0 |-> Host2Dev(pa["rodata"]),
          data_1 |-> Host2Dev(pa["stack"]),
          static |-> Host2Dev(group["static"].pa),
          reuse |-> Host2Dev(group["reuse"].pa)]

\* What the built job holds has not changed since, nor have the registers.
JobKept ==
    /\ step \in {"built", "running"} =>
        mem = Loaded /\ job = JobOf
    /\ step = "running" => core = [base |-> SegmentBases, start_pc |-> StartPc]

LayoutInv == LayoutTypes /\ GroupsGiven /\ CodeGiven /\ JobKept /\ GroupsTiled

\* GroupsTiled for one group: its buffers, the group, its sections.
TiledBy(bs, g, s) == Below4G(s) => \A i \in DOMAIN bs :
    /\ bs[i].size = s[i].size
    /\ bs[i].pa >= g.pa
    /\ bs[i].pa + bs[i].size <= g.pa + g.size
    /\ i > 1 => bs[i].pa >= bs[i-1].pa + bs[i-1].size
    /\ (bs[i].pa - g.pa) % (s[i].align * Page) = 0
    /\ s[1].align % s[i].align = 0 => bs[i].pa % (s[i].align * Page) = 0

LEMMA TiledEach ==
  GroupsTiled <=> \A k \in GroupKinds : TiledBy(buf[k], group[k], sections[k])
BY DEF GroupsTiled, TiledBy

\* What AllocGroupBuffers makes of a list of sections.
GroupAt(b, s) == [pa |-> b, size |-> TotBytes(s)]
BufsAt(b, s) == [i \in DOMAIN s |-> [pa |-> b + Offsets(s)[i], size |-> s[i].size]]

\* It tiles the group, from an address that has the first section's alignment.
LEMMA NewGroup ==
  ASSUME Page \in Nat \ {0}, NEW s \in Seq(SecDesc), 1 \in DOMAIN s,
         NEW b \in Nat, b % (s[1].align * Page) = 0, LoopsEnd(s)
  PROVE  /\ GroupAt(b, s) \in Buffer
         /\ DOMAIN BufsAt(b, s) = DOMAIN s
         /\ \A i \in DOMAIN s : BufsAt(b, s)[i] \in Buffer
         /\ TiledBy(BufsAt(b, s), GroupAt(b, s), s)
<1> DEFINE f == ExactOffsets(s)
           n == Len(s)
<1>1. DOMAIN s = 1..n /\ n \in DOMAIN s /\ WordSize \in Nat \ {0}
  BY LayoutAssumption
<1>2. ASSUME NEW i \in DOMAIN s
      PROVE  /\ f[i] \in Nat /\ s[i].size \in Nat /\ s[i].align \in Nat \ {0}
             /\ f[i] % (s[i].align * Page) = 0
             /\ i > 1 => f[i] >= f[i-1] + s[i-1].size
             /\ f[i] + s[i].size <= f[n] + s[n].size
  <2>1. /\ f[i] \in Nat /\ f[i] % (s[i].align * Page) = 0
        /\ i > 1 => f[i] >= f[i-1] + s[i-1].size
    BY ExactStep
  <2>2. s[i].size \in Nat /\ s[i].align \in Nat \ {0}
    BY SecFields
  <2>3. f[i] + s[i].size <= f[n] + s[n].size
    BY ExactEnd
  <2> QED
    BY <2>1, <2>2, <2>3
<1> HIDE DEF f, n
<1>3. /\ GroupAt(b, s) = [pa |-> b, size |-> TotBytes(s)]
      /\ BufsAt(b, s) = [i \in DOMAIN s |-> [pa |-> b + Offsets(s)[i], size |-> s[i].size]]
  BY DEF GroupAt, BufsAt
<1>4. GroupAt(b, s) \in Buffer
  <2>1. Offsets(s)[n] \in Nat /\ s[n].size \in Nat
    BY <1>1, <1>2, OffsetsNat
  <2>2. TotBytes(s) = (Offsets(s)[n] + s[n].size) % WordSize
    BY DEF TotBytes, n
  <2>3. \A u, v \in Nat : (u + v) % WordSize \in Nat
    BY <1>1
  <2>4. TotBytes(s) \in Nat
    BY <2>1, <2>2, <2>3
  <2> QED
    BY <1>3, <2>4 DEF Buffer
<1>5. ASSUME NEW i \in DOMAIN s
      PROVE  BufsAt(b, s)[i] \in Buffer
  <2>1. Offsets(s)[i] \in Nat /\ s[i].size \in Nat
    BY <1>2, OffsetsNat
  <2> QED
    BY <1>3, <2>1 DEF Buffer
<1>6. ASSUME NEW i \in DOMAIN s
      PROVE  /\ s[i].size = s[i].size
             /\ b + f[i] >= b
             /\ b + f[i] + s[i].size <= b + (f[n] + s[n].size)
             /\ i > 1 => i - 1 \in DOMAIN s /\ b + f[i] >= b + f[i-1] + s[i-1].size
             /\ (b + f[i] - b) % (s[i].align * Page) = 0
             /\ s[1].align % s[i].align = 0 => (b + f[i]) % (s[i].align * Page) = 0
  <2>1. /\ f[i] \in Nat /\ s[i].size \in Nat /\ f[n] \in Nat /\ s[n].size \in Nat
        /\ s[i].align \in Nat \ {0} /\ s[1].align \in Nat \ {0}
        /\ f[i] + s[i].size <= f[n] + s[n].size
    BY <1>1, <1>2
  <2>2. b + f[i] >= b /\ b + f[i] + s[i].size <= b + (f[n] + s[n].size)
    <3>1. \A u, v, x, y \in Nat :
            u + v <= x + y => b + u >= b /\ b + u + v <= b + (x + y)
      OBVIOUS
    <3> QED
      BY <2>1, <3>1
  <2>3. ASSUME i > 1 PROVE i - 1 \in DOMAIN s /\ b + f[i] >= b + f[i-1] + s[i-1].size
    <3>1. i - 1 \in DOMAIN s
      BY <1>1, <2>3
    <3>2. f[i-1] \in Nat /\ s[i-1].size \in Nat /\ f[i] >= f[i-1] + s[i-1].size
      BY <1>2, <2>3, <3>1
    <3> QED
      BY <2>1, <3>1, <3>2
  <2>4. (b + f[i] - b) % (s[i].align * Page) = 0
    <3>1. b + f[i] - b = f[i]
      BY <2>1
    <3> QED
      BY <1>2, <3>1
  <2>5. ASSUME s[1].align % s[i].align = 0 PROVE (b + f[i]) % (s[i].align * Page) = 0
    <3>1. b % (s[i].align * Page) = 0
      BY <2>1, <2>5, ModChain
    <3>2. f[i] % (s[i].align * Page) = 0
      BY <1>2
    <3>3. s[i].align * Page \in Nat \ {0}
      <4>1. \A a \in Nat \ {0} : a * Page \in Nat \ {0}
        OBVIOUS
      <4> QED
        BY <2>1, <4>1
    <3> QED
      BY <2>1, <3>1, <3>2, <3>3, ModSum
  <2> QED
    BY <2>2, <2>3, <2>4, <2>5
<1>7. TiledBy(BufsAt(b, s), GroupAt(b, s), s)
  <2>0. SUFFICES ASSUME Below4G(s) PROVE TiledBy(BufsAt(b, s), GroupAt(b, s), s)
    BY DEF TiledBy
  <2> DEFINE bs == BufsAt(b, s)
             g == GroupAt(b, s)
  <2>e. /\ TotBytes(s) = f[n] + s[n].size
        /\ \A i \in DOMAIN s : Offsets(s)[i] = f[i]
    BY <2>0, OffsetsExact DEF f, n
  <2>1. DOMAIN bs = DOMAIN s /\ g.pa = b /\ g.size = f[n] + s[n].size
    BY <1>3, <2>e
  <2>2. \A i \in DOMAIN s : bs[i].pa = b + f[i] /\ bs[i].size = s[i].size
    BY <1>3, <2>e
  <2> HIDE DEF bs, g
  <2>3. ASSUME NEW i \in DOMAIN s
        PROVE  /\ bs[i].size = s[i].size
               /\ bs[i].pa >= g.pa
               /\ bs[i].pa + bs[i].size <= g.pa + g.size
               /\ i > 1 => bs[i].pa >= bs[i-1].pa + bs[i-1].size
               /\ (bs[i].pa - g.pa) % (s[i].align * Page) = 0
               /\ s[1].align % s[i].align = 0 => bs[i].pa % (s[i].align * Page) = 0
    <3>1. bs[i].size = s[i].size /\ bs[i].pa >= g.pa
      BY <1>6, <2>1, <2>2
    <3>2. bs[i].pa + bs[i].size <= g.pa + g.size
      BY <1>6, <2>1, <2>2
    <3>3. i > 1 => bs[i].pa >= bs[i-1].pa + bs[i-1].size
      BY <1>6, <2>1, <2>2
    <3>4. /\ (bs[i].pa - g.pa) % (s[i].align * Page) = 0
          /\ s[1].align % s[i].align = 0 => bs[i].pa % (s[i].align * Page) = 0
      <4>1. /\ (b + f[i] - b) % (s[i].align * Page) = 0
            /\ s[1].align % s[i].align = 0 => (b + f[i]) % (s[i].align * Page) = 0
        BY <1>6
      <4>2. bs[i].pa = b + f[i] /\ g.pa = b
        BY <2>1, <2>2
      <4>3. bs[i].pa - g.pa = f[i] /\ f[i] % (s[i].align * Page) = 0
        <5>1. \A u \in Nat : \A x, y : x = b + u /\ y = b => x - y = u
          OBVIOUS
        <5> QED
          BY <1>2, <4>2, <5>1
      <4>4. \A x : /\ x = b + f[i] /\ (b + f[i]) % (s[i].align * Page) = 0
                   => x % (s[i].align * Page) = 0
        BY Zenon
      <4>5. (bs[i].pa - g.pa) % (s[i].align * Page) = 0
        BY <4>3, Zenon
      <4> QED
        BY <4>1, <4>2, <4>4, <4>5, Zenon
    <3> QED
      BY <3>1, <3>2, <3>3, <3>4
  <2>4. TiledBy(bs, g, s)
    BY <2>1, <2>3 DEF TiledBy
  <2> QED
    BY <2>4 DEF bs, g
<1> QED
  BY <1>3, <1>4, <1>5, <1>7

-----------------------------------------------------------------------------
(* Every step keeps it.                                                    *)

\* alloc_group_buffers for one group: the others stay, this one is tiled.
LEMMA AllocGroup ==
  ASSUME LayoutTypes, NEW k \in GroupKinds, AllocGroupBuffers(k)
  PROVE  /\ group' \in [GroupKinds -> Buffer]
         /\ buf' = [j \in GroupKinds |-> buf'[j]]
         /\ \A j \in GroupKinds : j # k => group'[j] = group[j] /\ buf'[j] = buf[j]
         /\ group'[k].pa \in Bases
         /\ DOMAIN buf'[k] = DOMAIN sections[k]
         /\ \A i \in DOMAIN sections[k] : buf'[k][i] \in Buffer
         /\ TiledBy(buf'[k], group'[k], sections[k])
<1> DEFINE s == sections[k]
<1>1. /\ s \in Seq(SecDesc) /\ entry[k].sec \in DOMAIN s
      /\ group \in [GroupKinds -> Buffer] /\ buf = [j \in GroupKinds |-> buf[j]]
      /\ Page \in Nat \ {0}
  BY LayoutAssumption DEF LayoutTypes
<1>2. 1 \in DOMAIN s
  <2>1. DOMAIN s = 1..Len(s)
    BY <1>1
  <2> QED
    BY <1>1, <2>1
<1>3. LoopsEnd(s) /\ \E b \in MallocBuf(s[1].align, TotBytes(s)) :
        /\ group' = [group EXCEPT ![k] = GroupAt(b, s)]
        /\ buf' = [buf EXCEPT ![k] = BufsAt(b, s)]
  BY DEF AllocGroupBuffers, GroupAt, BufsAt
<1>b. PICK b \in MallocBuf(s[1].align, TotBytes(s)) :
        /\ group' = [group EXCEPT ![k] = GroupAt(b, s)]
        /\ buf' = [buf EXCEPT ![k] = BufsAt(b, s)]
  BY <1>3
<1>4. b \in Bases /\ b % (s[1].align * Page) = 0
  BY <1>b DEF MallocBuf
<1>5. Bases \subseteq Nat
  BY LayoutAssumption DEF Bases, LayoutTypes
<1>6. /\ GroupAt(b, s) \in Buffer
      /\ DOMAIN BufsAt(b, s) = DOMAIN s
      /\ \A i \in DOMAIN s : BufsAt(b, s)[i] \in Buffer
      /\ TiledBy(BufsAt(b, s), GroupAt(b, s), s)
  BY <1>1, <1>2, <1>3, <1>4, <1>5, NewGroup
<1>7. GroupAt(b, s).pa = b
  BY DEF GroupAt
<1> HIDE DEF s
<1>8. /\ group' \in [GroupKinds -> Buffer] /\ group'[k] = GroupAt(b, s)
      /\ \A j \in GroupKinds : j # k => group'[j] = group[j]
  BY <1>1, <1>b, <1>6
<1>9. /\ buf' = [j \in GroupKinds |-> buf'[j]] /\ buf'[k] = BufsAt(b, s)
      /\ \A j \in GroupKinds : j # k => buf'[j] = buf[j]
  BY <1>1, <1>b
<1> QED
  BY <1>4, <1>6, <1>7, <1>8, <1>9 DEF s

\* Nothing is laid out at first.
LEMMA LayoutStarts ==
  ASSUME LayoutInit
  PROVE  LayoutInv
<1>1. LayoutTypes
  <2>1. None \in Buffer /\ group \in [GroupKinds -> Buffer]
    BY DEF LayoutInit, None, Buffer
  <2>2. sections \in [GroupKinds -> Seq(SecDesc)]
    BY LayoutAssumption DEF LayoutInit, SecDesc
  <2>3. \A k \in GroupKinds : /\ entry[k].sec \in DOMAIN sections[k]
                           /\ entry[k].off \in Nat
                           /\ entry[k].off < sections[k][entry[k].sec].size
    <3>1. entry \in [GroupKinds -> [sec : 1..3, off : 0..1]]
      BY DEF LayoutInit
    <3>2. \A k \in GroupKinds : entry[k].off \in Nat
      BY <3>1
    <3>3. \A k \in GroupKinds : /\ entry[k].sec \in DOMAIN sections[k]
                             /\ entry[k].off < sections[k][entry[k].sec].size
      BY DEF LayoutInit
    <3> QED
      BY <3>2, <3>3
  <2>4. buf = [k \in GroupKinds |-> buf[k]] /\ pa \in [CodePlaces -> Nat]
    BY DEF LayoutInit, CodePlaces
  <2>5. machine \in Machines /\ step = "load"
    BY DEF LayoutInit
  <2> QED
    BY <2>1, <2>2, <2>3, <2>4, <2>5 DEF LayoutTypes
<1>2. \A k \in GroupKinds : buf[k] = <<>>
  BY DEF LayoutInit
<1>3. step = "load"
  BY DEF LayoutInit
<1>4. GroupsGiven /\ CodeGiven /\ JobKept
  BY <1>2, <1>3 DEF GroupsGiven, CodeGiven, JobKept, Asked
<1>5. GroupsTiled
  <2>1. DOMAIN <<>> = {}
    OBVIOUS
  <2>2. \A k \in GroupKinds : TiledBy(buf[k], group[k], sections[k])
    BY <1>2, <2>1 DEF TiledBy
  <2> QED
    BY <2>2, TiledEach
<1> QED
  BY <1>1, <1>4, <1>5 DEF LayoutInv

\* GroupsTiled after a step, one group at a time.
LEMMA TiledEachNext ==
  GroupsTiled' <=> \A k \in GroupKinds : TiledBy(buf'[k], group'[k], sections'[k])
BY DEF GroupsTiled, TiledBy, GroupKinds

\* Graph::load: the static group.
LEMMA LoadInv ==
  ASSUME LayoutInv, Load
  PROVE  LayoutInv'
<1>1. /\ step = "load" /\ step' = "alloc" /\ AllocGroupBuffers("static")
      /\ UNCHANGED <<machine, sections, entry>>
      /\ \E b \in CodeBases : pa' = [pa EXCEPT !.text = b]
  BY DEF Load
<1>2. LayoutTypes /\ "static" \in GroupKinds /\ "reuse" \in GroupKinds
  BY DEF LayoutInv, GroupKinds
<1>3. /\ group' \in [GroupKinds -> Buffer]
      /\ buf' = [j \in GroupKinds |-> buf'[j]]
      /\ \A j \in GroupKinds : j # "static" => group'[j] = group[j] /\ buf'[j] = buf[j]
      /\ group'["static"].pa \in Bases
      /\ DOMAIN buf'["static"] = DOMAIN sections["static"]
      /\ \A i \in DOMAIN sections["static"] : buf'["static"][i] \in Buffer
      /\ TiledBy(buf'["static"], group'["static"], sections["static"])
  BY <1>1, <1>2, AllocGroup
<1>4. pa' \in [CodePlaces -> Nat] /\ pa'["text"] \in CodeBases
  <2>1. CodeBases \subseteq Nat
    BY <1>2, LayoutAssumption DEF CodeBases, LayoutTypes
  <2> QED
    BY <1>1, <1>2, <2>1 DEF LayoutTypes, CodePlaces
<1>5. Bases' = Bases /\ CodeBases' = CodeBases
  BY <1>1 DEF Bases, CodeBases
<1>6. LayoutTypes'
  BY <1>1, <1>2, <1>3, <1>4 DEF LayoutTypes
<1>7. buf["reuse"] = <<>>
  BY <1>1, <1>2 DEF LayoutInv, GroupsGiven, Asked
<1>8. GroupsGiven'
  BY <1>1, <1>2, <1>3, <1>5, <1>7 DEF GroupsGiven, Asked, GroupKinds
<1>9. CodeGiven' /\ JobKept'
  BY <1>1, <1>4, <1>5 DEF CodeGiven, JobKept
<1>10. GroupsTiled'
  <2>1. TiledBy(buf["reuse"], group["reuse"], sections["reuse"])
    BY <1>2, TiledEach DEF LayoutInv
  <2>2. \A k \in GroupKinds : TiledBy(buf'[k], group'[k], sections'[k])
    BY <1>1, <1>2, <1>3, <2>1 DEF GroupKinds
  <2> QED
    BY <2>2, TiledEachNext
<1> QED
  BY <1>6, <1>8, <1>9, <1>10 DEF LayoutInv

\* Graph::alloc_thread_buffer: the reuse group, rodata and stack.
LEMMA AllocThreadBufferInv ==
  ASSUME LayoutInv, AllocThreadBufferAt
  PROVE  LayoutInv'
<1>1. /\ step = "alloc" /\ step' = "ready" /\ AllocGroupBuffers("reuse")
      /\ UNCHANGED <<machine, sections, entry>>
      /\ \E r, s \in CodeBases : pa' = [pa EXCEPT !.rodata = r, !.stack = s]
      /\ tensor' = IobufPa(buf')
  BY DEF AllocThreadBufferAt
<1>2. LayoutTypes /\ "static" \in GroupKinds /\ "reuse" \in GroupKinds
  BY DEF LayoutInv, GroupKinds
<1>3. /\ group' \in [GroupKinds -> Buffer]
      /\ buf' = [j \in GroupKinds |-> buf'[j]]
      /\ \A j \in GroupKinds : j # "reuse" => group'[j] = group[j] /\ buf'[j] = buf[j]
      /\ group'["reuse"].pa \in Bases
      /\ DOMAIN buf'["reuse"] = DOMAIN sections["reuse"]
      /\ \A i \in DOMAIN sections["reuse"] : buf'["reuse"][i] \in Buffer
      /\ TiledBy(buf'["reuse"], group'["reuse"], sections["reuse"])
  BY <1>1, <1>2, AllocGroup
<1>4. pa' \in [CodePlaces -> Nat] /\ \A x \in CodePlaces : pa'[x] \in CodeBases
  <2>1. CodeBases \subseteq Nat
    BY <1>2, LayoutAssumption DEF CodeBases, LayoutTypes
  <2>2. pa["text"] \in CodeBases
    BY <1>1 DEF LayoutInv, CodeGiven
  <2> QED
    BY <1>1, <1>2, <2>1, <2>2 DEF LayoutTypes, CodePlaces
<1>5. Bases' = Bases /\ CodeBases' = CodeBases
  BY <1>1 DEF Bases, CodeBases
<1>6. LayoutTypes'
  BY <1>1, <1>2, <1>3, <1>4 DEF LayoutTypes
<1>7. /\ group["static"].pa \in Bases
      /\ DOMAIN buf["static"] = DOMAIN sections["static"]
      /\ \A i \in DOMAIN buf["static"] : buf["static"][i] \in Buffer
  BY <1>1, <1>2 DEF LayoutInv, GroupsGiven, Asked
<1>8. GroupsGiven'
  BY <1>1, <1>2, <1>3, <1>5, <1>7 DEF GroupsGiven, Asked, GroupKinds
<1>9. CodeGiven' /\ JobKept'
  <2>1. tensor' = IobufPa(buf)'
    BY <1>1 DEF IobufPa
  <2> QED
    BY <1>1, <1>4, <1>5, <2>1 DEF CodeGiven, JobKept, CodePlaces
<1>10. GroupsTiled'
  <2>1. TiledBy(buf["static"], group["static"], sections["static"])
    BY <1>2, TiledEach DEF LayoutInv
  <2>2. \A k \in GroupKinds : TiledBy(buf'[k], group'[k], sections'[k])
    BY <1>1, <1>2, <1>3, <2>1 DEF GroupKinds
  <2> QED
    BY <2>2, TiledEachNext
<1> QED
  BY <1>6, <1>8, <1>9, <1>10 DEF LayoutInv

\* The steps of a job leave the memory of the graph alone.
LEMMA MemoryKept ==
  ASSUME LayoutInv, UNCHANGED <<machine, sections, entry, group, buf, pa, tensor>>,
         step \in {"ready", "built", "running"}, step' \in {"ready", "built", "running"}
  PROVE  LayoutTypes' /\ GroupsGiven' /\ CodeGiven' /\ GroupsTiled'
<1>1. LayoutTypes'
  BY DEF LayoutInv, LayoutTypes
<1>2. Bases' = Bases /\ CodeBases' = CodeBases
  BY DEF Bases, CodeBases
<1>3. GroupsGiven'
  BY <1>2 DEF LayoutInv, GroupsGiven, Asked
<1>4. CodeGiven'
  BY <1>2 DEF LayoutInv, CodeGiven, IobufPa
<1>5. GroupsTiled'
  BY DEF LayoutInv, GroupsTiled
<1> QED
  BY <1>1, <1>3, <1>4, <1>5

\* What a job is built from stays with the memory of the graph.
LEMMA LoadedKept ==
  ASSUME UNCHANGED <<machine, sections, entry, group, buf, pa, tensor>>
  PROVE  Loaded' = Loaded /\ JobOf' = JobOf
BY DEF Loaded, JobOf, Host2Dev, ShmOffset, SubSecPa, Masked, AddrMask,
       Asid, EntryPc, LoadBuffer, File

\* build_new_job: its own configuration, on fresh rodata.
LEMMA BuildNewJobInv ==
  ASSUME LayoutInv, BuildNewJobAt
  PROVE  LayoutInv'
<1>1. /\ step = "ready" /\ step' = "built"
      /\ UNCHANGED <<machine, sections, entry, group, buf, pa, tensor>>
      /\ mem' = Loaded /\ job' = JobOf
  BY DEF BuildNewJobAt, JobOf
<1>2. LayoutTypes' /\ GroupsGiven' /\ CodeGiven' /\ GroupsTiled'
  BY <1>1, MemoryKept
<1>3. Loaded' = Loaded /\ JobOf' = JobOf
  BY <1>1, LoadedKept
<1>4. JobKept'
  BY <1>1, <1>3 DEF JobKept
<1> QED
  BY <1>2, <1>4 DEF LayoutInv

\* zhouyi_v2_trigger: the registers from the configuration.
LEMMA TriggerInv ==
  ASSUME LayoutInv, Trigger
  PROVE  LayoutInv'
<1>1. /\ step = "built" /\ step' = "running"
      /\ UNCHANGED <<machine, sections, entry, group, buf, pa, tensor, mem, job>>
      /\ core' = [base |-> SegmentBases, start_pc |-> StartPc]
  BY DEF Trigger
<1>2. LayoutTypes' /\ GroupsGiven' /\ CodeGiven' /\ GroupsTiled'
  BY <1>1, MemoryKept
<1>3. Loaded' = Loaded /\ JobOf' = JobOf
  BY <1>1, LoadedKept
<1>4. SegmentBases' = SegmentBases /\ StartPc' = StartPc
  BY <1>1 DEF SegmentBases, StartPc, Asid, Ase0Start, High, Low
<1>5. mem = Loaded /\ job = JobOf
  BY <1>1 DEF LayoutInv, JobKept
<1>6. JobKept'
  <2>1. mem' = Loaded' /\ job' = JobOf'
    BY <1>1, <1>3, <1>5
  <2>2. core' = [base |-> SegmentBases', start_pc |-> StartPc']
    BY <1>1, <1>4
  <2> QED
    BY <2>1, <2>2 DEF JobKept
<1> QED
  BY <1>2, <1>6 DEF LayoutInv

\* The device ends the job; the next one is built afresh.
LEMMA RunInv ==
  ASSUME LayoutInv, Run
  PROVE  LayoutInv'
<1>1. /\ step = "running" /\ step' = "ready"
      /\ UNCHANGED <<machine, sections, entry, group, buf, pa, tensor>>
  BY DEF Run
<1>2. LayoutTypes' /\ GroupsGiven' /\ CodeGiven' /\ GroupsTiled'
  BY <1>1, MemoryKept
<1>3. JobKept'
  BY <1>1 DEF JobKept
<1> QED
  BY <1>2, <1>3 DEF LayoutInv

\* Nothing happens.
LEMMA LayoutStutter ==
  ASSUME LayoutInv, UNCHANGED layout_vars
  PROVE  LayoutInv'
<1>1. UNCHANGED <<machine, step, sections, entry, group, buf, pa, tensor, mem, job, core>>
  BY DEF layout_vars
<1>2. LayoutTypes' /\ GroupsTiled'
  BY <1>1 DEF LayoutInv, LayoutTypes, GroupsTiled
<1>3. Bases' = Bases /\ CodeBases' = CodeBases
  BY <1>1 DEF Bases, CodeBases
<1>4. GroupsGiven' /\ CodeGiven'
  BY <1>1, <1>3 DEF LayoutInv, GroupsGiven, Asked, CodeGiven, IobufPa
<1>5. Loaded' = Loaded /\ JobOf' = JobOf
  BY <1>1, LoadedKept
<1>6. SegmentBases' = SegmentBases /\ StartPc' = StartPc
  BY <1>1 DEF SegmentBases, StartPc, Asid, Ase0Start, High, Low
<1>7. JobKept'
  BY <1>1, <1>5, <1>6 DEF LayoutInv, JobKept
<1> QED
  BY <1>2, <1>4, <1>7 DEF LayoutInv

\* The invariant of the layout holds in every reachable state, for every list of
\* sections, page size, word size and placement by the kernel.
THEOREM LayoutInvariant == LayoutSpec => []LayoutInv
<1>1. LayoutInit => LayoutInv
  BY LayoutStarts
<1>2. LayoutInv /\ [LayoutNext]_layout_vars => LayoutInv'
  BY LoadInv, AllocThreadBufferInv, BuildNewJobInv, TriggerInv, RunInv,
         LayoutStutter
     DEF LayoutNext, Stuck
<1> QED
  BY <1>1, <1>2, PTL DEF LayoutSpec

\* alloc_group_buffers: the sections of a group that takes less than 4 GB lie in it in
\* their order, without overlap, each at a multiple of its alignment from the group's
\* start, whatever their sizes and wherever the group is.
THEOREM GroupsAreTiled == LayoutSpec => []GroupsTiled
<1>1. LayoutInv => GroupsTiled
  BY DEF LayoutInv
<1> QED
  BY <1>1, LayoutInvariant, PTL

-----------------------------------------------------------------------------
(* What a running job reads.                                               *)

\* An address in the window h.
LEMMA InWindow ==
  ASSUME NEW a \in Nat, NEW h \in Nat, NEW W \in Nat \ {0},
         h * W <= a, a < h * W + W
  PROVE  a \div W = h /\ a % W = a - h * W
<1> DEFINE r == a - h * W
<1>1. r \in Nat /\ r < W /\ a = r + h * W
  OBVIOUS
<1> HIDE DEF r
<1>2. a % W = r
  <2>1. (r + h * W) % W = r
    BY <1>1, ModPlusWords
  <2> QED
    BY <1>1, <2>1
<1>3. (a \div W) * W = h * W /\ a \div W \in Int
  <2>1. a = (a \div W) * W + (a % W) /\ a \div W \in Int
    OBVIOUS
  <2> QED
    BY <1>1, <1>2, <2>1
<1>4. \A q, k \in Int : q * W = k * W => q = k
  OBVIOUS
<1>5. a \div W = h
  BY <1>3, <1>4
<1> QED
  BY <1>2, <1>5 DEF r

\* The sub-section of an entry lies in its group, above the shared memory's offset.
LEMMA SubInGroup ==
  ASSUME LayoutInv, NEW k \in GroupKinds, Asked(k), Below4G(sections[k])
  PROVE  LET a == buf[k][entry[k].sec].pa + entry[k].off
         IN  /\ group[k].pa \in Nat /\ group[k].size \in Nat /\ ShmOffset \in Nat
             /\ buf[k][entry[k].sec].pa \in Nat /\ entry[k].off \in Nat
             /\ group[k].pa <= a /\ a < group[k].pa + group[k].size
             /\ ShmOffset <= group[k].pa
<1> DEFINE i == entry[k].sec
<1>1. /\ group[k] \in Buffer /\ i \in DOMAIN sections[k] /\ entry[k].off \in Nat
      /\ entry[k].off < sections[k][i].size
  BY DEF LayoutInv, LayoutTypes
<1>2. group[k].pa \in Bases /\ i \in DOMAIN buf[k] /\ buf[k][i] \in Buffer
  BY <1>1 DEF LayoutInv, GroupsGiven
<1>3. ShmOffset \in Nat /\ group[k].pa >= ShmOffset
  BY <1>2, LayoutAssumption DEF LayoutInv, LayoutTypes, Bases, ShmOffset
<1>4. /\ buf[k][i].size = sections[k][i].size /\ buf[k][i].pa >= group[k].pa
      /\ buf[k][i].pa + buf[k][i].size <= group[k].pa + group[k].size
  BY <1>2 DEF LayoutInv, GroupsTiled
<1> HIDE DEF i
<1>5. /\ group[k].pa \in Nat /\ group[k].size \in Nat
      /\ buf[k][i].pa \in Nat /\ buf[k][i].size \in Nat
  BY <1>1, <1>2 DEF Buffer
<1>6. \A p, n, b, m, o, z \in Nat :
        p >= z /\ b >= p /\ b + m <= p + n /\ o < m
          => p <= b + o /\ b + o < p + n /\ z <= p
  OBVIOUS
<1>7. group[k].pa <= buf[k][i].pa + entry[k].off
      /\ buf[k][i].pa + entry[k].off < group[k].pa + group[k].size
  BY <1>1, <1>3, <1>4, <1>5, <1>6
<1>8. ShmOffset <= group[k].pa
  BY <1>3, <1>5
<1> QED
  BY <1>1, <1>3, <1>5, <1>7, <1>8 DEF i

\* The words of rodata that the parameter map sets, and the others.
LEMMA LoadedWords ==
  /\ \A k \in GroupKinds : Loaded[At(k)] = Masked(SubSecPa(k), File[At(k)])
  /\ \A k \in GroupKinds : File[At(k)] = IF Asid THEN Segment(k) * AddrMask ELSE 0
  /\ \A w \in Words \ {At(k) : k \in GroupKinds} :
       Loaded[w] = IF w = RoSize THEN (Host2Dev(pa["rodata"]) + 2) % WordSize
                                     ELSE File[w]
<1>1. At("static") = 0 /\ At("reuse") = 1 /\ Words = 0..3 /\ RoSize = 3
  BY DEF At, Words, RoSize, DcrSize
<1>2. \A k \in GroupKinds : (CHOOSE x \in GroupKinds : At(k) = At(x)) = k
  BY <1>1 DEF GroupKinds
<1>3. \A k \in GroupKinds : At(k) \in Words
  BY <1>1 DEF GroupKinds
<1>4. \A k \in GroupKinds : Loaded[At(k)] = Masked(SubSecPa(k), File[At(k)])
  BY <1>2, <1>3 DEF Loaded, LoadBuffer
<1>5. \A k \in GroupKinds : File[At(k)] = IF Asid THEN Segment(k) * AddrMask ELSE 0
  <2>1. \A w \in Words : File[w] =
          IF Asid /\ w = At("static") THEN Segment("static") * AddrMask
          ELSE IF Asid /\ w = At("reuse") THEN Segment("reuse") * AddrMask
          ELSE 0
    BY DEF File
  <2> QED
    BY <1>1, <1>3, <2>1 DEF GroupKinds
<1>6. ASSUME NEW w \in Words, w \notin {At(k) : k \in GroupKinds}
      PROVE  Loaded[w] = IF w = RoSize THEN (Host2Dev(pa["rodata"]) + 2) % WordSize
                                           ELSE File[w]
  BY <1>6 DEF Loaded, LoadBuffer
<1> QED
  BY <1>4, <1>5, <1>6

\* The entry as the host and as the core see it.
LEMMA EntryPlace ==
  ASSUME LayoutInv, step = "running"
  PROVE  /\ EntryPa \in Nat /\ ShmOffset \in Nat /\ EntryPa >= ShmOffset
         /\ job.start_pc = EntryPa - ShmOffset
         /\ \A x \in CodePlaces : pa[x] \in Nat /\ pa[x] >= ShmOffset
<1>1. machine \in Machines /\ WordSize \in Nat \ {0}
  BY LayoutAssumption DEF LayoutInv, LayoutTypes
<1>2. EntryPc \in 0..(WordSize - 1) /\ ShmOffset \in Nat
  BY <1>1, LayoutAssumption DEF EntryPc, ShmOffset
<1>3. \A x \in CodePlaces : pa[x] \in Nat /\ pa[x] >= ShmOffset
  BY <1>1, LayoutAssumption DEF LayoutInv, LayoutTypes, CodeGiven, CodeBases,
         ShmOffset
<1>4. EntryPa = pa["text"] + EntryPc /\ "text" \in CodePlaces
  BY DEF EntryPa, CodePlaces
<1>5. job.start_pc = (pa["text"] - ShmOffset) + EntryPc
  BY DEF LayoutInv, JobKept, JobOf, Host2Dev
<1>6. EntryPc \in Nat /\ pa["text"] \in Nat /\ pa["text"] >= ShmOffset
  BY <1>1, <1>2, <1>3, <1>4
<1>7. \A t, e, z \in Nat : t >= z =>
        t + e \in Nat /\ t + e >= z /\ (t - z) + e = (t + e) - z
  OBVIOUS
<1> QED
  BY <1>2, <1>3, <1>4, <1>5, <1>6, <1>7

\* With ASID, what is loaded is the offset in the group and the segment's number.
LEMMA AsidWord ==
  ASSUME LayoutInv, SegmentsFit, Asid, step = "running",
         NEW k \in GroupKinds
  PROVE  DeviceAddr(mem[At(k)]) + ShmOffset
           = buf[k][entry[k].sec].pa + entry[k].off
<1> DEFINE b == buf[k][entry[k].sec].pa
           o == entry[k].off
           g == group[k].pa
           z == ShmOffset
           A == AddrMask
           s == Segment(k)
           d == (b + o) - g
<1>1. /\ g \in Nat /\ z \in Nat /\ b \in Nat /\ o \in Nat /\ z <= g
      /\ g <= b + o /\ b + o < g + group[k].size /\ group[k].size \in Nat
  BY SubInGroup DEF Asked, SegmentsFit
<1>2. WordSize \in Nat \ {0} /\ 4 <= WordSize
  BY LayoutAssumption DEF SegmentsFit
<1>3. A = WordSize \div 4 /\ group[k].size <= A /\ z % WordSize = 0
  BY DEF SegmentsFit, AddrMask
<1>4. A \in Nat \ {0} /\ A < WordSize
  BY <1>2, <1>3
<1>5. s \in {1, 2} /\ core.base[s] = g - z
  <2>1. core.base = SegmentBases
    BY DEF LayoutInv, JobKept
  <2>2. SegmentBases = [x \in 0..2 |-> IF x = 0 THEN High(Ase0Start)
                                         ELSE IF x = 1 THEN job.static ELSE job.reuse]
    BY DEF SegmentBases
  <2>3. job.static = group["static"].pa - z /\ job.reuse = group["reuse"].pa - z
    BY DEF LayoutInv, JobKept, JobOf, Host2Dev
  <2>4. \/ k = "static" /\ s = 1
        \/ k = "reuse" /\ s = 2
    BY DEF GroupKinds, Segment
  <2>5. SegmentBases[1] = job.static /\ SegmentBases[2] = job.reuse
    BY <2>2
  <2> QED
    BY <2>1, <2>3, <2>4, <2>5
<1>6. mem[At(k)] = Masked(SubSecPa(k), s * A)
  BY LoadedWords DEF LayoutInv, JobKept
<1>7. SubSecPa(k) = (((b + o) - z) + WordSize - (g % WordSize)) % WordSize
  BY DEF SubSecPa, Host2Dev
<1>8. \A w : DeviceAddr(w) = core.base[w \div A] + (w % A)
  BY DEF DeviceAddr
<1>9. Masked(SubSecPa(k), s * A) = (SubSecPa(k) % A) + ((s * A) \div A) * A
  BY DEF Masked
<1> HIDE DEF b, o, g, z, A, s
<1>10. d \in Nat /\ d < A /\ d < WordSize
  <2>1. \A n \in Nat : b + o < g + n /\ n <= A => (b + o) - g < A
    BY <1>1, <1>4
  <2>2. (b + o) - g < A
    BY <1>1, <1>3, <2>1
  <2>3. (b + o) - g \in Nat
    BY <1>1
  <2> HIDE DEF d
  <2>4. \A x \in Nat : x < A => x < WordSize
    BY <1>2, <1>4
  <2> QED
    BY <2>2, <2>3, <2>4 DEF d
<1>11. SubSecPa(k) = d
  <2>1. PICK m \in Nat : z = m * WordSize
    BY <1>1, <1>2, <1>3, ModZero
  <2> DEFINE q == g \div WordSize
             r == g % WordSize
  <2>2. q \in Nat /\ r \in Nat /\ r < WordSize /\ g = q * WordSize + r
    BY <1>1, <1>2
  <2> HIDE DEF q, r
  <2>3. q - m + 1 \in Nat
    <3>1. m * WordSize < (q + 1) * WordSize
      BY <1>1, <1>2, <2>1, <2>2
    <3>2. \A x, y \in Int : x * WordSize < y * WordSize => x < y
      BY <1>2
    <3>3. m < q + 1
      BY <2>2, <3>1, <3>2
    <3> QED
      BY <2>2, <3>3
  <2>4. ((b + o) - z) + WordSize - r = d + (q - m + 1) * WordSize
    <3>1. (q - m + 1) * WordSize = q * WordSize - m * WordSize + WordSize
      BY <1>2, <2>2
    <3> QED
      BY <1>1, <1>2, <2>1, <2>2, <3>1
  <2>5. (d + (q - m + 1) * WordSize) % WordSize = d
    BY <1>2, <1>10, <2>3, ModPlusWords
  <2>6. SubSecPa(k) = (((b + o) - z) + WordSize - r) % WordSize
    BY <1>7 DEF r
  <2> QED
    BY <2>4, <2>5, <2>6
<1> HIDE DEF d
<1>12. Masked(SubSecPa(k), s * A) = d + s * A
  <2>1. d % A = d
    BY <1>4, <1>10, SmallMod
  <2>2. (s * A) \div A = s
    <3>1. s \in Nat /\ s * A \in Nat /\ s * A < s * A + A
      BY <1>4, <1>5
    <3> QED
      BY <1>4, <3>1, InWindow
  <2> QED
    BY <1>9, <1>11, <2>1, <2>2
<1>13. (d + s * A) \div A = s /\ (d + s * A) % A = d
  <2>1. /\ s \in Nat /\ d + s * A \in Nat /\ s * A <= d + s * A
        /\ d + s * A < s * A + A /\ (d + s * A) - s * A = d
    BY <1>4, <1>5, <1>10
  <2> QED
    BY <1>4, <2>1, InWindow
<1>14. DeviceAddr(mem[At(k)]) = (g - z) + d
  <2>1. mem[At(k)] = d + s * A
    BY <1>6, <1>12
  <2>2. DeviceAddr(d + s * A) = core.base[s] + d
    BY <1>8, <1>13
  <2> QED
    BY <1>5, <2>1, <2>2
<1>15. (g - z) + d + z = b + o
  BY <1>1 DEF d
<1> QED
  BY <1>14, <1>15 DEF b, o, z

\* Without, the address in the window of the text.
LEMMA FlatWord ==
  ASSUME LayoutInv, SegmentsFit, ~Asid, step = "running",
         NEW k \in GroupKinds
  PROVE  DeviceAddr(mem[At(k)]) + ShmOffset
           = buf[k][entry[k].sec].pa + entry[k].off
<1> DEFINE b == buf[k][entry[k].sec].pa
           o == entry[k].off
           z == ShmOffset
           a == (b + o) - z
           t == EntryPa - z
           h == t \div WordSize
<1>1. /\ group[k].pa \in Nat /\ z \in Nat /\ b \in Nat /\ o \in Nat /\ z <= group[k].pa
      /\ group[k].pa <= b + o /\ b + o < group[k].pa + group[k].size
      /\ group[k].size \in Nat
  BY SubInGroup DEF Asked, SegmentsFit
<1>2. WordSize \in Nat \ {0} /\ AddrMask = WordSize
  BY LayoutAssumption DEF AddrMask
<1>3. EntryPa \in Nat /\ EntryPa >= z
  BY EntryPlace
<1>4. High(t) + z <= group[k].pa /\ group[k].pa + group[k].size <= High(t) + z + WordSize
  BY DEF SegmentsFit
<1>5. core.base[0] = High(t)
  <2>1. core.base = SegmentBases
    BY DEF LayoutInv, JobKept
  <2>2. SegmentBases = [x \in 0..2 |-> High(job.start_pc)]
    BY DEF SegmentBases
  <2>3. job.start_pc = t
    BY EntryPlace
  <2> QED
    BY <2>1, <2>2, <2>3
<1>6. High(t) = h * WordSize
  BY DEF High
<1>7. mem[At(k)] = Masked(SubSecPa(k), 0)
  BY LoadedWords DEF LayoutInv, JobKept
<1>8. SubSecPa(k) = (a + WordSize - 0) % WordSize
  BY DEF SubSecPa, Host2Dev
<1>9. Masked(SubSecPa(k), 0) = (SubSecPa(k) % WordSize) + (0 \div WordSize) * WordSize
  BY <1>2 DEF Masked
<1>10. \A w : DeviceAddr(w) = core.base[0] + w
  BY DEF DeviceAddr
<1>11. t \in Nat /\ h \in Nat /\ h * WordSize \in Nat
  <2>1. t \in Nat
    BY <1>1, <1>3
  <2> HIDE DEF t
  <2>2. h \in Nat
    BY <1>2, <2>1
  <2> HIDE DEF h
  <2> QED
    BY <1>2, <2>1, <2>2
<1> HIDE DEF b, o, z, a, t, h
<1>12. a \in Nat /\ h * WordSize <= a /\ a < h * WordSize + WordSize /\ a + z = b + o
  <2>1. \A W, x, p, n \in Nat :
          /\ x + z <= p /\ p <= b + o /\ b + o < p + n /\ p + n <= x + z + W
          => /\ (b + o) - z \in Nat /\ x <= (b + o) - z /\ (b + o) - z < x + W
             /\ (b + o) - z + z = b + o
    BY <1>1
  <2> QED
    BY <1>1, <1>2, <1>4, <1>6, <1>11, <2>1 DEF a
<1>13. SubSecPa(k) = a - h * WordSize
  <2>1. /\ a + WordSize \in Nat /\ h + 1 \in Nat /\ (h + 1) * WordSize = h * WordSize + WordSize
        /\ (h + 1) * WordSize <= a + WordSize /\ a + WordSize < (h + 1) * WordSize + WordSize
    BY <1>2, <1>11, <1>12
  <2>2. (a + WordSize) % WordSize = (a + WordSize) - (h + 1) * WordSize
    BY <1>2, <2>1, InWindow
  <2>3. (a + WordSize) - (h + 1) * WordSize = a - h * WordSize /\ a + WordSize - 0 = a + WordSize
    BY <1>2, <1>11, <1>12, <2>1
  <2> QED
    BY <1>8, <2>2, <2>3
<1>14. mem[At(k)] = a - h * WordSize
  <2>1. a - h * WordSize \in Nat /\ a - h * WordSize < WordSize
    BY <1>2, <1>11, <1>12
  <2>2. (a - h * WordSize) % WordSize = a - h * WordSize
    BY <1>2, <2>1, SmallMod
  <2>3. (0 \div WordSize) * WordSize = 0
    BY <1>2
  <2> QED
    BY <1>7, <1>9, <1>13, <2>1, <2>2, <2>3
<1>15. DeviceAddr(mem[At(k)]) = h * WordSize + (a - h * WordSize)
  BY <1>5, <1>6, <1>10, <1>14
<1>16. h * WordSize + (a - h * WordSize) + z = b + o
  BY <1>1, <1>11, <1>12
<1> QED
  BY <1>15, <1>16 DEF b, o, z

\* The least of entry, rodata and stack, as the core and as the host see them.
LEMMA LeastCode ==
  ASSUME LayoutInv, step = "running"
  PROVE  /\ Min(CodeStarts) \in CodeStarts
         /\ Ase0Start = Min(CodeStarts) - ShmOffset
         /\ \A a \in CodeStarts : a \in Nat /\ a >= ShmOffset /\ Min(CodeStarts) <= a
<1> DEFINE T == CodeStarts
           z == ShmOffset
           U == {EntryPa - z, pa["rodata"] - z, pa["stack"] - z}
<1>1. T = {EntryPa, pa["rodata"], pa["stack"]} /\ T \subseteq Nat
  BY EntryPlace DEF CodeStarts, CodePlaces
<1>2. z \in Nat /\ \A x \in T : x >= z
  BY <1>1, EntryPlace DEF CodePlaces
<1>3. {job.start_pc, job.data_0, job.data_1} = U
  <2>1. job.start_pc = EntryPa - z
    BY EntryPlace
  <2> QED
    BY <2>1 DEF LayoutInv, JobKept, JobOf, Host2Dev
<1> HIDE DEF T, z
<1>4. PICK m \in T : \A y \in T : m <= y
  BY <1>1, LeastNat
<1>5. Min(T) = m
  <2>1. Min(T) \in T /\ \A y \in T : Min(T) <= y
    BY <1>4 DEF Min
  <2> QED
    BY <1>1, <1>4, <2>1
<1>6. U \subseteq Nat /\ m - z \in U /\ \A u \in U : m - z <= u
  <2>1. \A x \in T : x \in Nat /\ x - z \in Nat /\ m - z <= x - z
    <3>1. \A x \in T : x \in Nat /\ x >= z
      BY <1>1, <1>2
    <3> QED
      BY <1>1, <1>2, <1>4, <3>1
  <2> QED
    BY <1>1, <1>4, <2>1
<1>7. Min(U) = m - z
  <2> HIDE DEF U
  <2>1. Min(U) \in U /\ \A y \in U : Min(U) <= y
    BY <1>6 DEF Min
  <2>2. Min(U) \in Nat /\ m - z \in Nat /\ Min(U) <= m - z /\ m - z <= Min(U)
    BY <1>6, <2>1
  <2>3. \A x, y \in Nat : x <= y /\ y <= x => x = y
    OBVIOUS
  <2> QED
    BY <2>2, <2>3, Zenon
<1>8. Ase0Start = Min(U)
  BY <1>3 DEF Ase0Start
<1>9. \A x \in T : x \in Nat /\ x >= z /\ m <= x
  BY <1>1, <1>2, <1>4
<1> QED
  BY <1>4, <1>5, <1>7, <1>8, <1>9 DEF T, z

\* The core starts at the entry.
LEMMA StartsAtEntry ==
  ASSUME LayoutInv, SegmentsFit, step = "running"
  PROVE  CodeAtStart
<1> DEFINE z == ShmOffset
           t == EntryPa
           m == Min(CodeStarts)
<1>1. t \in Nat /\ z \in Nat /\ t >= z /\ WordSize \in Nat \ {0}
  BY EntryPlace, LayoutAssumption
<1>2. core.base = SegmentBases /\ core.start_pc = StartPc /\ job.start_pc = t - z
  BY EntryPlace DEF LayoutInv, JobKept
<1>3. SUFFICES ASSUME Asid => (m - z) % WordSize = 0
               PROVE  core.base[0] + core.start_pc + z = t
  BY DEF CodeAtStart
<1>4. CASE Asid
  <2>1. /\ m \in CodeStarts /\ Ase0Start = m - z
        /\ \A a \in CodeStarts : a \in Nat /\ a >= z /\ m <= a
    BY LeastCode
  <2>3. m \in Nat /\ m >= z /\ t < m + WordSize /\ m <= t
    <3>1. t < m + WordSize
      BY <1>4, <2>1 DEF SegmentsFit
    <3>2. t \in CodeStarts
      BY DEF CodeStarts
    <3> HIDE DEF m, t, z
    <3> QED
      BY <2>1, <3>1, <3>2
  <2>4. core.base[0] = ((m - z) \div WordSize) * WordSize
    <3>1. SegmentBases[0] = High(Ase0Start)
      BY <1>4 DEF SegmentBases
    <3> QED
      BY <1>2, <2>1, <3>1 DEF High
  <2>5. core.start_pc = ((t - z) - (m - z)) % WordSize
    BY <1>2, <1>4, <2>1 DEF StartPc, Low
  <2> HIDE DEF m, t, z
  <2>6. m - z \in Nat /\ (m - z) % WordSize = 0
    BY <1>1, <1>3, <1>4, <2>3
  <2>7. PICK j \in Nat : m - z = j * WordSize
    BY <1>1, <2>6, ModZero
  <2>8. (m - z) \div WordSize = j
    <3>1. m - z >= j * WordSize /\ m - z < j * WordSize + WordSize
      BY <1>1, <2>6, <2>7
    <3> QED
      BY <1>1, <2>6, <3>1, InWindow
  <2>9. (t - z) - (m - z) \in Nat /\ (t - z) - (m - z) < WordSize /\ (t - z) - (m - z) = t - m
    BY <1>1, <2>3
  <2>10. core.start_pc = t - m
    BY <1>1, <2>5, <2>9, SmallMod
  <2>11. core.base[0] = m - z
    BY <2>4, <2>7, <2>8
  <2>12. (m - z) + (t - m) + z = t
    BY <1>1, <2>3
  <2> QED
    BY <2>10, <2>11, <2>12
<1>5. CASE ~Asid
  <2>1. core.base[0] = ((t - z) \div WordSize) * WordSize
    <3>1. SegmentBases[0] = High(job.start_pc)
      BY <1>5 DEF SegmentBases
    <3> QED
      BY <1>2, <3>1 DEF High
  <2>2. core.start_pc = (t - z) % WordSize
    BY <1>2, <1>5 DEF StartPc, Low
  <2> HIDE DEF t, z
  <2>3. t - z \in Nat
    BY <1>1
  <2>4. \A x \in Nat : (x \div WordSize) * WordSize + (x % WordSize) = x
    BY <1>1
  <2>5. core.base[0] + core.start_pc = t - z
    BY <2>1, <2>2, <2>3, <2>4
  <2> QED
    BY <1>1, <2>5
<1> QED
  BY <1>4, <1>5

\* build_new_job and zhouyi_v2_trigger: wherever the kernel puts the groups and the
\* code, a job runs on fresh rodata, and as long as the addresses fit their words it
\* finds its sub-sections, its io tensor and its entry where they are.
THEOREM JobsFindTheirSections == LayoutSpec => []JobFindsSections
<1>1. LayoutInv => JobFindsSections
  <2> SUFFICES ASSUME LayoutInv, step = "running"
               PROVE  JobFindsSections
    BY DEF JobFindsSections
  <2>0. RodataFresh
    <3>1. mem = Loaded
      BY DEF LayoutInv, JobKept
    <3> QED
      BY <3>1, LoadedWords DEF RodataFresh, Host2Dev
  <2> SUFFICES ASSUME SegmentsFit PROVE JobFindsSections
    BY <2>0 DEF JobFindsSections
  <2>1. \A k \in GroupKinds : DeviceAddr(mem[At(k)]) + ShmOffset
                             = buf[k][entry[k].sec].pa + entry[k].off
    BY AsidWord, FlatWord
  <2>2. tensor = buf["reuse"][entry["reuse"].sec].pa + entry["reuse"].off
    BY DEF LayoutInv, CodeGiven, IobufPa
  <2>3. CodeAtStart
    BY StartsAtEntry
  <2> QED
    BY <2>0, <2>1, <2>2, <2>3 DEF JobFindsSections, GroupKinds
<1>2. LayoutSpec => []LayoutInv
  BY LayoutInvariant
<1> QED
  BY <1>1, <1>2, PTL

=============================================================================
