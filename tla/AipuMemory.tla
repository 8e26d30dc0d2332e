----------------------------- MODULE AipuMemory -----------------------------
(***************************************************************************)
(* What the driver's memory manager promises: buffers of whole pages,      *)
(* inside the memory regions, that never overlap while they are out.       *)
(***************************************************************************)
EXTENDS Integers

CONSTANTS
    PageSize,
    Base,       \* Base[r], Size[r]: physical address and bytes of region r
    Size

VARIABLE
    out         \* the buffers handed out, as records of pa and bytes

InRegion(b) ==
    \E r \in DOMAIN Base : Base[r] <= b.pa /\ b.pa + b.bytes <= Base[r] + Size[r]

Overlap(a, b) == a.pa < b.pa + b.bytes /\ b.pa < a.pa + a.bytes

Init == out = {}

Alloc(b) ==
    /\ b.pa % PageSize = 0
    /\ b.bytes % PageSize = 0 /\ b.bytes > 0
    /\ InRegion(b)
    /\ \A a \in out : ~Overlap(a, b)
    /\ out' = out \cup {b}

Free(b) == b \in out /\ out' = out \ {b}

Next == (\E b \in out' \ out : Alloc(b)) \/ (\E b \in out : Free(b))

Spec == Init /\ [][Next]_out
=============================================================================
