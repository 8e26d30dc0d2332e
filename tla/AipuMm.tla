------------------------------- MODULE AipuMm -------------------------------
(***************************************************************************)
(* The kernel memory manager (aipu_mm.c) under the ioctls that use it:     *)
(* REQBUF and FREEBUF of aipu_fops.c, the buffer list of a session         *)
(* (aipu_session.c) and the release of a file.                             *)
(*                                                                         *)
(* A region is a list of blocks.  Its mutex covers one search of the list  *)
(* and the change that follows; the list of buffers of a session has a     *)
(* mutex of its own, taken before or after.  The build has SRAM disabled   *)
(* and the compact allocation flag, so there is one list of DDR regions.   *)
(***************************************************************************)
EXTENDS Integers, Sequences, FiniteSets, FiniteSetsExt

CONSTANTS
    Threads, Sessions,
    Sharings,       \* the ways the threads may share the files, see SessionOf
    RegionCnt,      \* ddr_cnt; regions are 0 .. RegionCnt - 1
    Base, Size,     \* Base[r], Size[r]: pa and tot_bytes of region r
    PageSize,
    Word,           \* 2^64: addresses and sizes are u64
    Word32,         \* 2^32: the fields of a request are __u32
    Requests,       \* the REQBUF arguments: bytes, align_in_page, data_type, region_id
    MatchRegion     \* the version is Z2: ro/stack goes to a given region

Regions == 0 .. RegionCnt - 1

ASSUME MmAssumption ==
    /\ Sharings \subseteq [Threads -> Sessions]
    /\ RegionCnt \in Nat
    /\ PageSize \in Nat \ {0}
    /\ Base \in [Regions -> Nat] /\ Size \in [Regions -> Nat \ {0}]
    /\ \A r \in Regions :
         /\ Base[r] % PageSize = 0 /\ Size[r] % PageSize = 0
         \* the regions of every device tree of the repository lie above their
         \* own size; below, the subtraction in AllocStart would wrap
         /\ Size[r] <= Base[r]
         /\ Base[r] + 2 * Size[r] <= Word
    /\ \A r, q \in Regions : Base[r] < Base[q] => Base[r] + Size[r] <= Base[q]
    /\ \A r, q \in Regions : Base[r] = Base[q] => r = q
    /\ Word \in Nat /\ Word32 \in Nat \ {0}
    /\ Requests \subseteq [bytes : Nat \ {0}, align_in_page : Nat \ {0},
                           data_type : {"TEXT", "RO_STACK", "STATIC"}, region_id : Regions]
    \* ALIGN rounds up only to a power of two; the library's sizes and alignments
    \* have 32 bits, so that no sum with an address of a region leaves the word
    /\ \A q \in Requests :
         /\ \E k \in 0 .. 31 : q.align_in_page = 2 ^ k
         \* the product in Alignment has 32 bits: 2^20 pages and more make it 0
         /\ q.align_in_page * PageSize < Word32
         /\ \A r \in Regions :
              Base[r] + Size[r] + q.align_in_page * PageSize + q.bytes + PageSize <= Word
    /\ MatchRegion \in {0, 1}

NoBuf == [pa |-> 0, bytes |-> 0]
NoReq == [bytes |-> 0, align_in_page |-> 0, data_type |-> "STATIC", region_id |-> 0]

VARIABLES
    SessionOf,  \* SessionOf[t]: the session whose file t uses; it does not change
    blk,        \* blk[r]: the block list of region r
    tot_free,   \* tot_free[r]: tot_free_bytes of region r
    sbuf,       \* sbuf[s]: the buffers in the list of session s
    session,    \* "open", "closing", "detaching" (in aipu_release) or "closed"
    rel,        \* rel[s]: the buffer aipu_release has freed and not yet detached
    at,         \* at[t]: "idle", "scan", "try", "add" (REQBUF) or "free" (FREEBUF)
    cur,        \* cur[t]: the region t looks at
    req,        \* req[t]: the buf_request of t
    buf,        \* buf[t]: the buffer t has allocated or detached
    leaked      \* history: buffers whose session_buf could not be created

vars == <<SessionOf, blk, tot_free, sbuf, session, rel, at, cur, req, buf,
          leaked>>

-----------------------------------------------------------------------------
Roundup(x, n) == ((x + n - 1) \div n) * n

\* get_alloc_size with the compact flag
AllocSize(bytes) == Roundup(bytes, PageSize)

\* align_in_page * 4 * 1024, which is computed in 32 bits
Alignment(q) == (q.align_in_page * PageSize) % Word32

\* text and ro/stack are searched upwards, everything else downwards
Upwards(q) == q.data_type \in {"TEXT", "RO_STACK"}

\* the address a request would get in block b
AllocStart(b, q) ==
    IF Upwards(q)
      THEN Roundup(b.pa, Alignment(q)) % Word
      ELSE (((b.pa + b.bytes - AllocSize(q.bytes)) % Word) \div Alignment(q)) * Alignment(q)

\* Mutant: the comparison with the end of the block is strict.
FitsStrictly(b, q) ==
    LET start == AllocStart(b, q)
        end   == (start + AllocSize(q.bytes)) % Word
    IN /\ b.state = "FREE"
       /\ end < b.pa + b.bytes
       /\ ~Upwards(q) => start >= b.pa

\* Mutant: the state of the block is not looked at.
FitsAnyState(b, q) ==
    LET start == AllocStart(b, q)
        end   == (start + AllocSize(q.bytes)) % Word
    IN /\ end <= b.pa + b.bytes
       /\ ~Upwards(q) => start >= b.pa

Fits(b, q) ==
    LET start == AllocStart(b, q)
        end   == (start + AllocSize(q.bytes)) % Word
    IN /\ b.state = "FREE"
       /\ end <= b.pa + b.bytes
       /\ ~Upwards(q) => start >= b.pa

\* aipu_mm_find_block_candidate_no_lock: the first block, in the direction of
\* the request, that fits it; 0 if there is none
Candidate(L, q) ==
    LET fit == {i \in DOMAIN L : Fits(L[i], q)}
    IN IF fit = {} THEN 0 ELSE IF Upwards(q) THEN Min(fit) ELSE Max(fit)

Piece(pa, bytes, st) ==
    IF bytes = 0 THEN <<>> ELSE <<[pa |-> pa, bytes |-> bytes, state |-> st]>>

\* Mutant: the rest behind the allocated part is forgotten.
SplitBlockNoBack(L, i, start, n) ==
    SubSeq(L, 1, i - 1)
      \o Piece(L[i].pa, start - L[i].pa, L[i].state)
      \o Piece(start, n, "ALLOCATED")
      \o SubSeq(L, i + 1, Len(L))

\* aipu_mm_split_block_no_lock
SplitBlock(L, i, start, n) ==
    SubSeq(L, 1, i - 1)
      \o Piece(L[i].pa, start - L[i].pa, L[i].state)
      \o Piece(start, n, "ALLOCATED")
      \o Piece(start + n, L[i].pa + L[i].bytes - (start + n), "FREE")
      \o SubSeq(L, i + 1, Len(L))

\* the second half of aipu_mm_free_in_region: block i becomes free and is
\* merged with the free blocks before and behind it
MergeBlocks(L, i) ==
    LET lo == IF i > 1 /\ L[i - 1].state = "FREE" THEN i - 1 ELSE i
        hi == IF i < Len(L) /\ L[i + 1].state = "FREE" THEN i + 1 ELSE i
        bytes == IF lo = i THEN L[i].bytes ELSE L[lo].bytes + L[i].bytes
    IN SubSeq(L, 1, lo - 1)
         \o <<[pa |-> L[lo].pa,
               bytes |-> IF hi = i THEN bytes ELSE bytes + L[hi].bytes,
               state |-> "FREE"]>>
         \o SubSeq(L, hi + 1, Len(L))

\* aipu_mm_find_region
RegionOf(b) ==
    {r \in Regions : Base[r] <= b.pa /\ b.pa + b.bytes <= Base[r] + Size[r]}

\* aipu_mm_free: the block is looked up by its address and size, whatever its
\* state.  The two error returns, a buffer in no region or no block of it, are
\* no step: BuffersAreBlocks shows that no caller meets them.
MmFree(b) ==
    \E r \in RegionOf(b) :
        LET match == {i \in DOMAIN blk[r] : blk[r][i].pa = b.pa /\ blk[r][i].bytes = b.bytes}
        IN /\ match # {}
           /\ blk' = [blk EXCEPT ![r] = MergeBlocks(@, Min(match))]
           /\ tot_free' = [tot_free EXCEPT ![r] = @ + b.bytes]
-----------------------------------------------------------------------------
\* aipu_init_mm and aipu_mm_add_region for every region
Init ==
    /\ SessionOf \in Sharings
    /\ blk = [r \in Regions |-> <<[pa |-> Base[r], bytes |-> Size[r], state |-> "FREE"]>>]
    /\ tot_free = Size
    /\ sbuf = [s \in Sessions |-> {}]
    /\ session = [s \in Sessions |-> "closed"]
    /\ rel = [s \in Sessions |-> NoBuf]
    /\ at = [t \in Threads |-> "idle"]
    /\ cur = [t \in Threads |-> 0]
    /\ req = [t \in Threads |-> NoReq]
    /\ buf = [t \in Threads |-> NoBuf]
    /\ leaked = {}

\* aipu_open
Open(s) ==
    /\ session[s] = "closed"
    /\ session' = [session EXCEPT ![s] = "open"]
    /\ UNCHANGED <<SessionOf, blk, tot_free, sbuf, rel, at, cur, req, buf,
                   leaked>>

\* REQBUF: aipu_mm_alloc starts at the head of the region list, where the region
\* added last is
ReqBuf(t, q) ==
    /\ at[t] = "idle"
    /\ session[SessionOf[t]] = "open"
    /\ at' = [at EXCEPT ![t] = "scan"]
    /\ cur' = [cur EXCEPT ![t] = RegionCnt - 1]
    /\ req' = [req EXCEPT ![t] = q]
    /\ UNCHANGED <<SessionOf, blk, tot_free, sbuf, session, rel, buf, leaked>>

\* aipu_mm_scan_regions_alloc looks at the next region, without its lock
ScanRegion(t) ==
    LET q == req[t]
        go == IF MatchRegion = 1 /\ q.data_type = "RO_STACK"
                THEN q.region_id = cur[t]
                ELSE tot_free[cur[t]] >= AllocSize(q.bytes)
    IN /\ at[t] = "scan"
       /\ cur[t] >= 0
       /\ \/ /\ go
             /\ at' = [at EXCEPT ![t] = "try"]
             /\ UNCHANGED cur
          \/ /\ ~go
             /\ cur' = [cur EXCEPT ![t] = @ - 1]
             /\ UNCHANGED at
       /\ UNCHANGED <<SessionOf, blk, tot_free, sbuf, session, rel, req, buf,
                      leaked>>

\* the list is exhausted and the ioctl fails
ScanFails(t) ==
    /\ at[t] = "scan"
    /\ cur[t] = -1
    /\ at' = [at EXCEPT ![t] = "idle"]
    /\ cur' = [cur EXCEPT ![t] = 0]
    /\ req' = [req EXCEPT ![t] = NoReq]
    /\ UNCHANGED <<SessionOf, blk, tot_free, sbuf, session, rel, buf, leaked>>

\* aipu_mm_try_alloc_in_region and, when it succeeds, the change of the list
TryAlloc(t) ==
    LET r == cur[t]
        i == Candidate(blk[r], req[t])
        n == AllocSize(req[t].bytes)
        start == AllocStart(blk[r][i], req[t])
    IN /\ at[t] = "try"
       /\ i # 0
       /\ blk' = [blk EXCEPT ![r] = SplitBlock(@, i, start, n)]
       /\ tot_free' = [tot_free EXCEPT ![r] = @ - n]
       /\ buf' = [buf EXCEPT ![t] = [pa |-> start, bytes |-> n]]
       /\ at' = [at EXCEPT ![t] = "add"]
       /\ cur' = [cur EXCEPT ![t] = 0]
       /\ req' = [req EXCEPT ![t] = NoReq]
       /\ UNCHANGED <<SessionOf, sbuf, session, rel, leaked>>

\* it fails when no block fits, or when a block must be split and there is no
\* memory for the new one; the scan goes on.  A block taken from the middle of
\* another needs a second new one, whose creation is not checked: there the code
\* follows a NULL pointer, and the model takes it that the memory is found.
TryAllocFails(t) ==
    LET r == cur[t]
        i == Candidate(blk[r], req[t])
    IN /\ at[t] = "try"
       /\ i # 0 => blk[r][i].bytes # AllocSize(req[t].bytes)
       /\ at' = [at EXCEPT ![t] = "scan"]
       /\ cur' = [cur EXCEPT ![t] = @ - 1]
       /\ UNCHANGED <<SessionOf, blk, tot_free, sbuf, session, rel, req, buf,
                      leaked>>

\* aipu_session_add_buf
AddBuf(t) ==
    /\ at[t] = "add"
    /\ sbuf' = [sbuf EXCEPT ![SessionOf[t]] = @ \cup {buf[t]}]
    /\ at' = [at EXCEPT ![t] = "idle"]
    /\ buf' = [buf EXCEPT ![t] = NoBuf]
    /\ UNCHANGED <<SessionOf, blk, tot_free, session, rel, cur, req, leaked>>

\* the same when create_session_buf finds no memory: the ioctl fails and the
\* buffer is in nobody's list
AddBufFails(t) ==
    /\ at[t] = "add"
    /\ leaked' = leaked \cup {buf[t]}
    /\ at' = [at EXCEPT ![t] = "idle"]
    /\ buf' = [buf EXCEPT ![t] = NoBuf]
    /\ UNCHANGED <<SessionOf, blk, tot_free, sbuf, session, rel, cur, req>>

\* Mutant: the buffer is found in the session's list and not taken off it.
DetachBufKeeps(t, b) ==
    /\ at[t] = "idle"
    /\ session[SessionOf[t]] = "open"
    /\ b \in sbuf[SessionOf[t]]
    /\ sbuf' = sbuf
    /\ buf' = [buf EXCEPT ![t] = b]
    /\ at' = [at EXCEPT ![t] = "free"]
    /\ UNCHANGED <<SessionOf, blk, tot_free, session, rel, cur, req, leaked>>

\* FREEBUF: aipu_session_detach_buf first.  A descriptor that is not in the list
\* is an error and changes nothing.
DetachBuf(t, b) ==
    /\ at[t] = "idle"
    /\ session[SessionOf[t]] = "open"
    /\ b \in sbuf[SessionOf[t]]
    /\ sbuf' = [sbuf EXCEPT ![SessionOf[t]] = @ \ {b}]
    /\ buf' = [buf EXCEPT ![t] = b]
    /\ at' = [at EXCEPT ![t] = "free"]
    /\ UNCHANGED <<SessionOf, blk, tot_free, session, rel, cur, req, leaked>>

\* and then aipu_mm_free
FreeBuf(t) ==
    /\ at[t] = "free"
    /\ MmFree(buf[t])
    /\ at' = [at EXCEPT ![t] = "idle"]
    /\ buf' = [buf EXCEPT ![t] = NoBuf]
    /\ UNCHANGED <<SessionOf, sbuf, session, rel, cur, req, leaked>>

\* aipu_release: no ioctl is in progress on the file
Release(s) ==
    /\ session[s] = "open"
    /\ \A t \in Threads : SessionOf[t] = s => at[t] = "idle"
    /\ session' = [session EXCEPT ![s] = "closing"]
    /\ UNCHANGED <<SessionOf, blk, tot_free, sbuf, rel, at, cur, req, buf,
                   leaked>>

\* aipu_mm_free_session_buffers: the buffer at the head of the list is freed
ReleaseFree(s, b) ==
    /\ session[s] = "closing"
    /\ b \in sbuf[s]
    /\ MmFree(b)
    /\ rel' = [rel EXCEPT ![s] = b]
    /\ session' = [session EXCEPT ![s] = "detaching"]
    /\ UNCHANGED <<SessionOf, sbuf, at, cur, req, buf, leaked>>

\* and detached
ReleaseDetach(s) ==
    /\ session[s] = "detaching"
    /\ sbuf' = [sbuf EXCEPT ![s] = @ \ {rel[s]}]
    /\ rel' = [rel EXCEPT ![s] = NoBuf]
    /\ session' = [session EXCEPT ![s] = "closing"]
    /\ UNCHANGED <<SessionOf, blk, tot_free, at, cur, req, buf, leaked>>

\* Mutant: one buffer is freed, the rest of the list goes with the session.
ReleaseDoneEarly(s) ==
    /\ session[s] = "closing"
    /\ Cardinality(sbuf[s]) <= 1
    /\ sbuf' = [sbuf EXCEPT ![s] = {}]
    /\ session' = [session EXCEPT ![s] = "closed"]
    /\ UNCHANGED <<SessionOf, blk, tot_free, rel, at, cur, req, buf, leaked>>

\* until the list is empty; aipu_destroy_session
ReleaseDone(s) ==
    /\ session[s] = "closing"
    /\ sbuf[s] = {}
    /\ session' = [session EXCEPT ![s] = "closed"]
    /\ UNCHANGED <<SessionOf, blk, tot_free, sbuf, rel, at, cur, req, buf,
                   leaked>>

Next ==
    \/ \E t \in Threads :
         \/ \E q \in Requests : ReqBuf(t, q)
         \/ ScanRegion(t) \/ ScanFails(t)
         \/ TryAlloc(t) \/ TryAllocFails(t)
         \/ AddBuf(t) \/ AddBufFails(t)
         \/ \E b \in sbuf[SessionOf[t]] : DetachBuf(t, b)
         \/ FreeBuf(t)
    \/ \E s \in Sessions :
         \/ Open(s) \/ Release(s) \/ ReleaseDetach(s) \/ ReleaseDone(s)
         \/ \E b \in sbuf[s] : ReleaseFree(s, b)

Spec == Init /\ [][Next]_vars

-----------------------------------------------------------------------------
(* Properties.                                                             *)

Blocks(r) == {blk[r][i] : i \in DOMAIN blk[r]}

\* the addresses of region r that lie in a free block
FreeBytes(r) ==
    {a \in Base[r] .. Base[r] + Size[r] - 1 :
        \E b \in Blocks(r) : b.state = "FREE" /\ b.pa <= a /\ a < b.pa + b.bytes}

\* the buffers that are somebody's: in a session's list and not yet freed by
\* aipu_release, or in the hands of a thread between two locks
Held ==
    (UNION {sbuf[s] \ {rel[s]} : s \in Sessions})
      \cup {buf[t] : t \in {u \in Threads : at[u] \in {"add", "free"}}}

\* the buffers that are allocated in some region
Allocated ==
    UNION {{[pa |-> b.pa, bytes |-> b.bytes] :
              b \in {c \in Blocks(r) : c.state = "ALLOCATED"}} : r \in Regions}

\* However blocks are split and merged, the list of a region is in address order
\* and covers it without a gap, an overlap or an empty block; no two neighbours are
\* both free, so free memory does not fragment by itself; and tot_free_bytes,
\* which the scan trusts without the lock, is what the free blocks have.
BlocksTileRegion ==
    \A r \in Regions :
        LET L == blk[r]
        IN /\ Len(L) > 0
           /\ L[1].pa = Base[r]
           /\ L[Len(L)].pa + L[Len(L)].bytes = Base[r] + Size[r]
           /\ \A i \in 1 .. Len(L) - 1 :
                /\ L[i].pa + L[i].bytes = L[i + 1].pa
                /\ ~(L[i].state = "FREE" /\ L[i + 1].state = "FREE")
           /\ \A i \in 1 .. Len(L) : L[i].bytes > 0 /\ L[i].bytes % PageSize = 0
           /\ tot_free[r] = Cardinality(FreeBytes(r))

\* A buffer that a session or a thread holds is exactly one allocated block, and
\* it has one holder: aipu_mm_free, which looks neither at the state of the block
\* it finds nor at who asks, never frees somebody else's memory or a free block.
BuffersAreBlocks ==
    /\ Held \cup leaked \subseteq Allocated
    /\ \A s, u \in Sessions : s # u => (sbuf[s] \ {rel[s]}) \cap (sbuf[u] \ {rel[u]}) = {}
    /\ \A t \in Threads : at[t] \in {"add", "free"} =>
         /\ \A s \in Sessions : buf[t] \notin sbuf[s] \ {rel[s]}
         /\ \A u \in Threads : u # t /\ at[u] \in {"add", "free"} => buf[u] # buf[t]
    /\ leaked \cap Held = {}

\* Nothing is lost but the buffers of a REQBUF that failed half way: an allocated
\* block has a holder, so when every session is closed the region is one free
\* block again.
AllMemoryReturned ==
    /\ Allocated \subseteq Held \cup leaked
    /\ (leaked = {} /\ \A s \in Sessions : session[s] = "closed") =>
         \A r \in Regions :
            blk[r] = <<[pa |-> Base[r], bytes |-> Size[r], state |-> "FREE"]>>

\* The search is exact for every request that the scan lets through: it finds a
\* block if and only if some free block of the region has room for the request at
\* its alignment, and what it chooses is the lowest such address for text and
\* ro/stack and the highest for the rest.
CandidateExact ==
    \A r \in Regions : \A q \in {p \in Requests : Upwards(p) \/ AllocSize(p.bytes) <= tot_free[r]} :
        LET n == AllocSize(q.bytes)
            room == {a \in Base[r] .. Base[r] + Size[r] - 1 :
                       /\ a % Alignment(q) = 0
                       /\ \E b \in Blocks(r) : /\ b.state = "FREE"
                                               /\ b.pa <= a
                                               /\ a + n <= b.pa + b.bytes}
            i == Candidate(blk[r], q)
        IN IF room = {}
             THEN i = 0
             ELSE /\ i # 0
                  /\ AllocStart(blk[r][i], q) = IF Upwards(q) THEN Min(room) ELSE Max(room)

\* Seen from outside, the allocator hands out disjoint buffers of whole pages and
\* takes them back one at a time.
Memory == INSTANCE AipuMemory WITH out <- Allocated
ImplementsMemory == Memory!Spec
=============================================================================
