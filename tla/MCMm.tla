-------------------------------- MODULE MCMm --------------------------------
(* Instances of AipuMm for TLC: pages of two bytes.                        *)
EXTENDS AipuMm, TLC

CONSTANTS t1, t2, s1, s2

\* two threads, each with a file of its own; or both on the same one
OwnFiles == t1 :> s1 @@ t2 :> s2
OneFile  == t1 :> s1 @@ t2 :> s1
MCSharings == {OwnFiles, OneFile}

\* two regions, of four and of two pages
TwoBase == 0 :> 10 @@ 1 :> 18
TwoSize == 0 :> 8 @@ 1 :> 4

Req(n, a, ty, r) == [bytes |-> n, align_in_page |-> a, data_type |-> ty, region_id |-> r]

\* one aligned page upwards (region 0 starts off the alignment, so the page
\* lies in the middle of its free block), ro/stack in the region searched
\* last, two aligned pages downwards
TwoRequests == {Req(1, 2, "TEXT", 0), Req(2, 1, "RO_STACK", 0), Req(3, 2, "STATIC", 0)}
=============================================================================
