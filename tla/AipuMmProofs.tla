----------------------------- MODULE AipuMmProofs -----------------------------
(***************************************************************************)
(* Proofs about AipuMm, for every number of regions, sessions and threads, *)
(* and every size of request: the lists always tile the regions, every     *)
(* buffer has one holder, nothing is lost, the search is exact, and the    *)
(* allocator implements AipuMemory.                                        *)
(*                                                                         *)
(* MmInv is inductive.  Its parts say of each region that its blocks tile  *)
(* it, of each thread where in REQBUF or FREEBUF it is, of each session    *)
(* what it lists, and of each buffer who holds it.                         *)
(*                                                                         *)
(* The first part is about the lists of blocks alone: what                 *)
(* aipu_mm_split_block_no_lock and aipu_mm_free_in_region do to a list, of *)
(* any length.  Both replace a few neighbouring blocks by others: a split  *)
(* replaces a free block by its one to three pieces, freeing replaces a    *)
(* block and its free neighbours by one.  Spliced is that replacement, and *)
(* its lemmas say what it preserves (the tiling, no two free neighbours)   *)
(* and what it changes (the allocated blocks and the free bytes).          *)
(* SplitEffect and MergeEffect are what the second part uses.              *)
(***************************************************************************)
EXTENDS AipuMm, TLAPS, FiniteSetTheorems, SequenceTheorems

-----------------------------------------------------------------------------
(* Lists of blocks.                                                        *)

\* What a list of blocks holds: aipu_block, without the links of the list.
Block == [pa : Nat, bytes : Nat, state : {"FREE", "ALLOCATED"}]
Blk(pa, n, st) == [pa |-> pa, bytes |-> n, state |-> st]

\* Blk makes a block.
LEMMA BlkType ==
  ASSUME NEW pa \in Nat, NEW n \in Nat, NEW st \in {"FREE", "ALLOCATED"}
  PROVE  Blk(pa, n, st) \in Block
BY DEF Blk, Block

\* The list of one block.
LEMMA SeqOne ==
  ASSUME NEW x \in Block
  PROVE  <<x>> \in Seq(Block) /\ Len(<<x>>) = 1 /\ <<x>>[1] = x
OBVIOUS

\* Piece is the block, or no block where nothing is left over.
LEMMA PieceProperties ==
  ASSUME NEW pa \in Nat, NEW n \in Nat, NEW st \in {"FREE", "ALLOCATED"}
  PROVE  /\ Piece(pa, n, st) \in Seq(Block)
         /\ n = 0 => Len(Piece(pa, n, st)) = 0
         /\ n # 0 => /\ Len(Piece(pa, n, st)) = 1
                     /\ Piece(pa, n, st)[1] = Blk(pa, n, st)
<1>1. CASE n = 0
  BY <1>1 DEF Piece
<1>2. CASE n # 0
  <2>1. Piece(pa, n, st) = <<Blk(pa, n, st)>>
    BY <1>2 DEF Piece, Blk
  <2> QED
    BY <1>2, <2>1, BlkType, SeqOne
<1> QED
  BY <1>1, <1>2

\* A list with the blocks lo to hi replaced by the sequence P.
Spliced(L, lo, hi, P) == SubSeq(L, 1, lo - 1) \o P \o SubSeq(L, hi + 1, Len(L))

\* What the list M is when it is L with the blocks lo to hi replaced by P.
IsSplice(M, L, lo, hi, P) ==
    /\ M \in Seq(Block)
    /\ Len(M) = Len(L) + Len(P) - (hi - lo + 1)
    /\ \A k \in 1 .. lo - 1 : M[k] = L[k]
    /\ \A k \in 1 .. Len(P) : M[lo - 1 + k] = P[k]
    /\ \A k \in lo + Len(P) .. Len(M) : M[k] = L[k + (hi - lo + 1) - Len(P)]

\* Spliced says by SubSeq and \o what IsSplice says position by position.
LEMMA Splice ==
  ASSUME NEW L \in Seq(Block), NEW P \in Seq(Block),
         NEW lo \in 1 .. Len(L), NEW hi \in lo .. Len(L)
  PROVE  IsSplice(Spliced(L, lo, hi, P), L, lo, hi, P)
<1> DEFINE M == Spliced(L, lo, hi, P)
<1> DEFINE A == SubSeq(L, 1, lo - 1)
           B == SubSeq(L, hi + 1, Len(L))
<1>0. /\ \A k \in 1 .. lo - 1 : L[k] \in Block 
      /\ \A k \in hi + 1 .. Len(L) : L[k] \in Block 
      /\ Len(L) \in Nat /\ Len(P) \in Nat
  OBVIOUS
<1>1. /\ A \in Seq(Block) /\ Len(A) = lo - 1
      /\ \A k \in 1 .. lo - 1 : A[k] = L[k]
    BY <1>0, SubSeqProperties
<1>2. /\ B \in Seq(Block) /\ Len(B) = Len(L) - hi
      /\ \A k \in 1 .. Len(L) - hi : B[k] = L[hi + k]
    BY <1>0, SubSeqProperties
<1>3. M = (A \o P) \o B
  BY DEF Spliced
<1> HIDE DEF M
<1>a. A \in Seq(Block) /\ B \in Seq(Block)
  BY <1>1, <1>2
<1> HIDE DEF A, B
<1> DEFINE Q == A \o P
<1>4. /\ Q \in Seq(Block) /\ Len(Q) = Len(A) + Len(P)
      /\ \A k \in 1 .. Len(A) + Len(P) : Q[k] = IF k <= Len(A) THEN A[k] ELSE P[k - Len(A)]
  BY <1>a, ConcatProperties
<1>b. M = Q \o B
  BY <1>3
<1> HIDE DEF Q
<1>d. Q \in Seq(Block) /\ Len(Q) = lo - 1 + Len(P)
  BY <1>0, <1>1, <1>4
<1>e. ASSUME NEW k \in 1 .. lo - 1 PROVE Q[k] = L[k]
  <2>1. k \in 1 .. Len(A) + Len(P) /\ k <= Len(A)
    BY <1>0, <1>1
  <2>2. Q[k] = A[k]
    BY <1>4, <2>1
  <2> QED
    BY <1>1, <2>2
<1>f. ASSUME NEW k \in 1 .. Len(P) PROVE Q[lo - 1 + k] = P[k]
  <2>1. lo - 1 + k \in 1 .. Len(A) + Len(P) /\ ~(lo - 1 + k <= Len(A)) /\ lo - 1 + k - Len(A) = k
    BY <1>0, <1>1
  <2> DEFINE m == lo - 1 + k
  <2>2. m \in 1 .. Len(A) + Len(P) /\ ~(m <= Len(A)) /\ m - Len(A) = k
    BY <2>1
  <2> HIDE DEF m
  <2>3. Q[m] = P[m - Len(A)]
    BY <1>4, <2>2
  <2> QED
    BY <2>2, <2>3 DEF m
<1>c. /\ M \in Seq(Block) /\ Len(M) = Len(Q) + Len(B)
      /\ \A k \in 1 .. Len(Q) + Len(B) : M[k] = IF k <= Len(Q) THEN Q[k] ELSE B[k - Len(Q)]
  <2>1. Q \in Seq(Block)
    BY <1>4
  <2> QED
    BY <1>a, <1>b, <2>1, ConcatProperties
<1>5. /\ Q \in Seq(Block) /\ Len(Q) = lo - 1 + Len(P)
      /\ \A k \in 1 .. lo - 1 : Q[k] = L[k]
      /\ \A k \in 1 .. Len(P) : Q[lo - 1 + k] = P[k]
  BY <1>d, <1>e, <1>f
<1>6. /\ M \in Seq(Block) /\ Len(M) = lo - 1 + Len(P) + Len(L) - hi
      /\ \A k \in 1 .. Len(M) : M[k] = IF k <= Len(Q) THEN Q[k] ELSE B[k - Len(Q)]
  BY <1>c, <1>5, <1>2, <1>0
<1>7. \A k \in 1 .. lo - 1 : M[k] = L[k]
  BY <1>0, <1>5, <1>6
<1>8. \A k \in 1 .. Len(P) : M[lo - 1 + k] = P[k]
  BY SMTT(30), <1>0, <1>5, <1>6
<1>9. ASSUME NEW k \in lo + Len(P) .. Len(M) PROVE M[k] = L[k + (hi - lo + 1) - Len(P)]
  <2>1. /\ k \in 1 .. Len(M) /\ ~(k <= Len(Q)) /\ k - Len(Q) \in 1 .. Len(L) - hi
        /\ hi + (k - Len(Q)) = k + (hi - lo + 1) - Len(P)
    BY <1>0, <1>5, <1>6
  <2> QED
    BY <1>2, <1>6, <2>1
<1>10. M \in Seq(Block) /\ Len(M) = Len(L) + Len(P) - (hi - lo + 1)
  BY <1>0, <1>6
<1> QED
  BY <1>7, <1>8, <1>9, <1>10 DEF IsSplice, M

\* the address after the block
End(b) == b.pa + b.bytes

\* The blocks of L lie side by side and in order from the address from to to.
Tiling(L, from, to) ==
    /\ L \in Seq(Block) /\ Len(L) > 0
    /\ L[1].pa = from /\ End(L[Len(L)]) = to
    /\ \A k, m \in 1 .. Len(L) : m = k + 1 => End(L[k]) = L[m].pa
    /\ \A k \in 1 .. Len(L) :
         L[k].bytes > 0 /\ L[k].bytes % PageSize = 0 /\ L[k].pa % PageSize = 0
    /\ \A k, m \in 1 .. Len(L) : k < m => End(L[k]) <= L[m].pa

\* No two neighbours are free: the free blocks were merged.
Coalesced(L) ==
    \A k, m \in 1 .. Len(L) : m = k + 1 => ~(L[k].state = "FREE" /\ L[m].state = "FREE")

\* A block of a list has the fields of a block.
LEMMA BlockFields ==
  ASSUME NEW L \in Seq(Block), NEW k \in 1 .. Len(L)
  PROVE  L[k].pa \in Nat /\ L[k].bytes \in Nat /\ End(L[k]) \in Nat
         /\ L[k].state \in {"FREE", "ALLOCATED"} /\ End(L[k]) = L[k].pa + L[k].bytes
<1>1. L[k] \in Block
  OBVIOUS
<1> QED
  BY <1>1 DEF Block, End

\* A block of a tiling lies within its bounds and is not empty.
LEMMA TilingBounds ==
  ASSUME NEW L, NEW from, NEW to, Tiling(L, from, to), NEW k \in 1 .. Len(L)
  PROVE  from <= L[k].pa /\ End(L[k]) <= to /\ L[k].pa < End(L[k])
<1>1. L \in Seq(Block) /\ Len(L) \in Nat /\ 1 \in 1 .. Len(L) /\ Len(L) \in 1 .. Len(L)
  BY DEF Tiling
<1>2. /\ L[1].pa \in Nat /\ L[1].bytes \in Nat /\ End(L[1]) = L[1].pa + L[1].bytes
      /\ L[k].pa \in Nat /\ L[k].bytes \in Nat /\ End(L[k]) = L[k].pa + L[k].bytes
      /\ L[Len(L)].pa \in Nat /\ L[Len(L)].bytes \in Nat
      /\ End(L[Len(L)]) = L[Len(L)].pa + L[Len(L)].bytes
  BY <1>1, BlockFields
<1>3. L[k].bytes > 0
  BY DEF Tiling
<1>4. k = 1 \/ End(L[1]) <= L[k].pa
  BY <1>1 DEF Tiling
<1>5. k = Len(L) \/ End(L[k]) <= L[Len(L)].pa
  BY <1>1 DEF Tiling
<1>6. from = L[1].pa /\ to = End(L[Len(L)])
  BY DEF Tiling
<1> QED
  BY SMTT(30), <1>2, <1>3, <1>4, <1>5, <1>6

\* Where the blocks of a spliced list come from, and where the others go.
Zones(M, L, lo, hi, P, d) ==
    /\ M \in Seq(Block) /\ Len(M) = Len(L) + d
    /\ \A k \in 1 .. Len(M) : \/ k \in 1 .. lo - 1 /\ M[k] = L[k]
                              \/ \E j \in 1 .. Len(P) : k = lo - 1 + j /\ M[k] = P[j]
                              \/ \E j \in hi + 1 .. Len(L) : k = j + d /\ M[k] = L[j]
    /\ \A j \in 1 .. lo - 1 : j \in 1 .. Len(M) /\ M[j] = L[j]
    /\ \A j \in 1 .. Len(P) : \E k \in 1 .. Len(M) : k = lo - 1 + j /\ M[k] = P[j]
    /\ \A j \in hi + 1 .. Len(L) : \E k \in 1 .. Len(M) : k = j + d /\ M[k] = L[j]

\* Every position of a spliced list is in L or in P, and none is forgotten.
LEMMA SpliceZones ==
  ASSUME NEW L \in Seq(Block), NEW P \in Seq(Block),
         NEW lo \in 1 .. Len(L), NEW hi \in lo .. Len(L)
  PROVE  Zones(Spliced(L, lo, hi, P), L, lo, hi, P, Len(P) - (hi - lo + 1))
<1> DEFINE M == Spliced(L, lo, hi, P)
           d == Len(P) - (hi - lo + 1)
           n == Len(L)
           p == Len(P)
           c == hi - lo + 1
<1>1. n \in Nat /\ p \in Nat /\ lo \in Nat /\ hi \in Nat /\ 1 <= lo /\ lo <= hi /\ hi <= n
  OBVIOUS
<1>2. /\ M \in Seq(Block)
      /\ Len(M) = n + p - c
      /\ \A k \in 1 .. lo - 1 : M[k] = L[k]
      /\ \A k \in 1 .. p : M[lo - 1 + k] = P[k]
      /\ \A k \in lo + p .. Len(M) : M[k] = L[k + c - p]
  BY Splice DEF IsSplice
<1>3. d = p - c /\ c \in Nat /\ c = hi - lo + 1
  BY <1>1
<1> HIDE DEF M, d, n, p, c
<1>4. d \in Int /\ Len(M) = n + d /\ Len(M) \in Int
  BY <1>1, <1>2, <1>3
<1>5. ASSUME NEW j \in 1 .. lo - 1 PROVE j \in 1 .. Len(M) /\ M[j] = L[j]
  <2>1. j \in 1 .. Len(M)
    BY <1>1, <1>3, <1>4
  <2> QED
    BY <1>2, <2>1
<1>6. ASSUME NEW j \in 1 .. p PROVE \E k \in 1 .. Len(M) : k = lo - 1 + j /\ M[k] = P[j]
  <2>1. lo - 1 + j \in 1 .. Len(M)
    BY <1>1, <1>3, <1>4
  <2>2. M[lo - 1 + j] = P[j]
    BY <1>2
  <2> QED
    BY <2>1, <2>2
<1>7. ASSUME NEW j \in hi + 1 .. n PROVE \E k \in 1 .. Len(M) : k = j + d /\ M[k] = L[j]
  <2> DEFINE k == j + d
  <2>1. k \in 1 .. Len(M) /\ k \in lo + p .. Len(M) /\ k + c - p = j
    BY <1>1, <1>3, <1>4
  <2> HIDE DEF k
  <2>2. M[k] = L[k + c - p]
    BY <1>2, <2>1
  <2> QED
    BY <2>1, <2>2 DEF k
<1>8. ASSUME NEW k \in 1 .. Len(M)
      PROVE  \/ k \in 1 .. lo - 1 /\ M[k] = L[k]
             \/ \E j \in 1 .. p : k = lo - 1 + j /\ M[k] = P[j]
             \/ \E j \in hi + 1 .. n : k = j + d /\ M[k] = L[j]
  <2>1. CASE k < lo
    <3>1. k \in 1 .. lo - 1
      BY <1>1, <2>1
    <3> QED
      BY <1>5, <3>1
  <2>2. CASE lo <= k /\ k < lo + p
    <3> DEFINE j == k - (lo - 1)
    <3>1. j \in 1 .. p /\ k = lo - 1 + j
      BY <1>1, <2>2
    <3> HIDE DEF j
    <3> QED
      BY <1>6, <3>1
  <2>3. CASE lo + p <= k
    <3> DEFINE j == k - d
    <3>1. j \in hi + 1 .. n /\ k = j + d
      BY <1>1, <1>3, <1>4, <2>3
    <3> HIDE DEF j
    <3> QED
      BY <1>7, <3>1
  <2> QED
    BY <1>1, <2>1, <2>2, <2>3
<1> QED
  BY <1>2, <1>4, <1>5, <1>6, <1>7, <1>8 DEF Zones, n, p, M, d

\* Replacing some blocks by blocks that tile the same addresses keeps the tiling.
LEMMA SpliceTiling ==
  ASSUME NEW L, NEW from, NEW to, Tiling(L, from, to),
         NEW lo \in 1 .. Len(L), NEW hi \in lo .. Len(L),
         NEW P, Tiling(P, L[lo].pa, End(L[hi]))
  PROVE  Tiling(Spliced(L, lo, hi, P), from, to)
<1> DEFINE M == Spliced(L, lo, hi, P)
           d == Len(P) - (hi - lo + 1)
           n == Len(L)
           p == Len(P)
           s == Len(M)
           GoodBlock(b) == /\ b.pa \in Nat /\ b.bytes \in Nat /\ End(b) \in Nat
                           /\ b.bytes > 0 /\ b.bytes % PageSize = 0 /\ b.pa % PageSize = 0
<1>0. L \in Seq(Block) /\ P \in Seq(Block) /\ p > 0
  BY DEF Tiling
<1>1. n \in Nat /\ p \in Nat /\ lo \in Nat /\ hi \in Nat /\ 1 <= lo /\ lo <= hi /\ hi <= n /\ d \in Int
  BY <1>0
<1>2. Zones(M, L, lo, hi, P, d)
  BY <1>0, SpliceZones
<1>3. d = p - (hi - lo + 1) /\ p > 0
  BY <1>0
<1>4. M \in Seq(Block) /\ s \in Nat
  BY <1>2 DEF Zones
<1>5. /\ \A k \in 1 .. n : GoodBlock(L[k])
      /\ \A k \in 1 .. p : GoodBlock(P[k])
  BY <1>0, BlockFields DEF Tiling
<1>6. /\ \A k, m \in 1 .. n : m = k + 1 => End(L[k]) = L[m].pa
      /\ \A k, m \in 1 .. p : m = k + 1 => End(P[k]) = P[m].pa
  BY DEF Tiling
<1>7. /\ \A k, m \in 1 .. n : k < m => End(L[k]) <= L[m].pa
      /\ \A k, m \in 1 .. p : k < m => End(P[k]) <= P[m].pa
  BY DEF Tiling
<1>8. \A k \in 1 .. p : L[lo].pa <= P[k].pa /\ End(P[k]) <= End(L[hi])
  BY TilingBounds
<1>9. L[1].pa = from /\ End(L[n]) = to /\ P[1].pa = L[lo].pa /\ End(P[p]) = End(L[hi])
  BY DEF Tiling
<1>10. s = n + d
  BY <1>2 DEF Zones
<1>11. \A k \in 1 .. s : \/ k \in 1 .. lo - 1 /\ M[k] = L[k]
                         \/ \E j \in 1 .. p : k = lo - 1 + j /\ M[k] = P[j]
                         \/ \E j \in hi + 1 .. n : k = j + d /\ M[k] = L[j]
  BY <1>2 DEF Zones
<1> HIDE DEF M, d, n, p, s, GoodBlock
<1>12. \A k \in 1 .. s : GoodBlock(M[k])
  BY <1>1, <1>5, <1>11
<1>13. M[1].pa = from
  <2>1. 1 \in 1 .. s
    BY <1>0, <1>1, <1>3, <1>10 DEF p
  <2>2. CASE lo = 1
    BY <1>1, <1>3, <1>9, <1>11, <2>1, <2>2
  <2>3. CASE lo # 1
    BY <1>1, <1>3, <1>9, <1>11, <2>1, <2>3
  <2> QED
    BY <2>2, <2>3
<1>14. End(M[s]) = to
  <2>1. s \in 1 .. s
    BY <1>0, <1>1, <1>3, <1>10 DEF p
  <2>2. CASE hi = n
    BY <1>1, <1>3, <1>9, <1>10, <1>11, <2>1, <2>2
  <2>3. CASE hi # n
    BY <1>1, <1>3, <1>9, <1>10, <1>11, <2>1, <2>3
  <2> QED
    BY <2>2, <2>3
<1>15. ASSUME NEW k \in 1 .. s, NEW m \in 1 .. s, k < m
       PROVE  End(M[k]) <= M[m].pa /\ (m = k + 1 => End(M[k]) = M[m].pa)
  <2>1. \A j \in 1 .. lo - 1 : End(L[j]) <= L[lo].pa /\ (j = lo - 1 => End(L[j]) = L[lo].pa)
    BY <1>1, <1>6, <1>7
  <2>2. \A j \in hi + 1 .. n : End(L[hi]) <= L[j].pa /\ (j = hi + 1 => End(L[hi]) = L[j].pa)
    BY <1>1, <1>6, <1>7
  <2>3. L[lo].pa <= End(L[hi]) /\ L[lo].pa \in Nat /\ End(L[hi]) \in Nat
    BY SMTT(30), <1>1, <1>5, <1>7 DEF GoodBlock, End
  <2>4. \A j \in 1 .. n : GoodBlock(L[j]) => L[j].pa <= End(L[j]) /\ L[j].pa \in Nat /\ End(L[j]) \in Nat
    BY DEF GoodBlock, End
  <2>5. \A j \in 1 .. p : GoodBlock(P[j]) => P[j].pa <= End(P[j]) /\ P[j].pa \in Nat /\ End(P[j]) \in Nat
    BY DEF GoodBlock, End
  <2> DEFINE Follows(b, c) == End(b) <= c.pa /\ (m = k + 1 => End(b) = c.pa)
  <2>6. CASE k \in 1 .. lo - 1 /\ M[k] = L[k]
    <3>1. CASE m \in 1 .. lo - 1 /\ M[m] = L[m]
      <4>1. k \in 1 .. n /\ m \in 1 .. n
        BY <1>1, <2>6, <3>1
      <4>2. End(L[k]) <= L[m].pa
        BY <1>7, <1>15, <4>1
      <4>3. m = k + 1 => End(L[k]) = L[m].pa
        BY <1>6, <4>1
      <4> QED
        BY <2>6, <3>1, <4>2, <4>3
    <3>2. ASSUME NEW j \in 1 .. p, m = lo - 1 + j PROVE Follows(L[k], P[j])
      <4>1. m = k + 1 => k = lo - 1 /\ j = 1
        BY <1>1, <2>6, <3>2
      <4>2. End(L[k]) <= L[lo].pa /\ L[lo].pa <= P[j].pa /\ End(L[k]) \in Nat /\ P[j].pa \in Nat
        BY <1>1, <1>5, <1>8, <2>1, <2>4, <2>5, <2>6
      <4>3. k = lo - 1 => End(L[k]) = L[lo].pa
        BY <2>1, <2>6
      <4> QED
        BY SMTT(30), <1>9, <2>3, <4>1, <4>2, <4>3
    <3>3. ASSUME NEW j \in hi + 1 .. n, m = j + d PROVE Follows(L[k], L[j])
      <4>1. m # k + 1 /\ k < j /\ k \in 1 .. n /\ j \in 1 .. n
        BY <1>1, <1>3, <2>6, <3>3
      <4> QED
        BY <1>7, <4>1
    <3> QED
      BY <1>11, <2>6, <3>1, <3>2, <3>3
  <2>7. ASSUME NEW i \in 1 .. p, k = lo - 1 + i, M[k] = P[i] PROVE Follows(M[k], M[m])
    <3>1. ASSUME NEW j \in 1 .. p, m = lo - 1 + j PROVE Follows(P[i], P[j])
      BY <1>1, <1>6, <1>7, <1>15, <2>7, <3>1
    <3>2. ASSUME NEW j \in hi + 1 .. n, m = j + d PROVE Follows(P[i], L[j])
      <4>1. m = k + 1 => i = p /\ j = hi + 1
        <5>1. i \in Int /\ j \in Int /\ i <= p /\ hi + 1 <= j
          BY <1>1
        <5>2. m = j + (p - (hi - lo + 1)) /\ k = lo - 1 + i
          BY <1>3, <2>7, <3>2
        <5> QED
          BY <1>1, <5>1, <5>2
      <4>2. j \in 1 .. n
        BY <1>1
      <4>3. End(P[i]) <= End(L[hi]) /\ End(L[hi]) <= L[j].pa /\ End(P[i]) \in Nat /\ L[j].pa \in Nat
        BY <1>5, <1>8, <2>2, <2>4, <2>5, <4>2
      <4>4. j = hi + 1 => End(L[hi]) = L[j].pa
        BY <2>2
      <4> QED
        BY SMTT(30), <1>9, <2>3, <4>1, <4>3, <4>4
    <3>3. ~(m \in 1 .. lo - 1)
      BY <1>1, <1>15, <2>7
    <3> QED
      BY <1>11, <2>7, <3>1, <3>2, <3>3
  <2>8. ASSUME NEW i \in hi + 1 .. n, k = i + d, M[k] = L[i] PROVE Follows(M[k], M[m])
    <3>1. ASSUME NEW j \in hi + 1 .. n, m = j + d PROVE Follows(L[i], L[j])
      <4>1. i < j /\ (m = k + 1 => j = i + 1) /\ i \in 1 .. n /\ j \in 1 .. n
        BY SMTT(30), <1>1, <1>15, <2>8, <3>1
      <4> QED
        BY <1>6, <1>7, <4>1
    <3>2. ~(m \in 1 .. lo - 1) /\ \A j \in 1 .. p : m # lo - 1 + j
      <4>1. m >= lo + p /\ m \in Int
        BY <1>1, <1>3, <1>15, <2>8
      <4> QED
        BY <1>1, <4>1
    <3> QED
      BY <1>11, <2>8, <3>1, <3>2
  <2> QED
    BY <1>11, <2>6, <2>7, <2>8
<1>16. \A k, m \in 1 .. s : m = k + 1 => End(M[k]) = M[m].pa
  BY <1>4, <1>15
<1>17. \A k, m \in 1 .. s : k < m => End(M[k]) <= M[m].pa
  BY <1>15
<1>18. \A k \in 1 .. s : M[k].bytes > 0 /\ M[k].bytes % PageSize = 0 /\ M[k].pa % PageSize = 0
  BY <1>12 DEF GoodBlock
<1>19. s > 0
  BY <1>1, <1>3, <1>10
<1> QED
  BY <1>4, <1>13, <1>14, <1>16, <1>17, <1>18, <1>19 DEF Tiling, M, s

\* Concatenations, position by position.
LEMMA ConcatOne ==
  ASSUME NEW x \in Block, NEW y \in Block
  PROVE  <<x>> \o <<y>> = <<x, y>>
<1>1. <<x>> \in Seq(Block) /\ <<y>> \in Seq(Block) /\ Len(<<x>>) = 1 /\ Len(<<y>>) = 1
  OBVIOUS
<1>2. /\ <<x>> \o <<y>> \in Seq(Block) /\ Len(<<x>> \o <<y>>) = 2
      /\ \A k \in 1 .. 2 : (<<x>> \o <<y>>)[k] = IF k <= 1 THEN <<x>>[k] ELSE <<y>>[k - 1]
  BY <1>1, ConcatProperties
<1>3. \A k \in 1 .. 2 : (<<x>> \o <<y>>)[k] = <<x, y>>[k]
  <2>1. (<<x>> \o <<y>>)[1] = x /\ (<<x>> \o <<y>>)[2] = y
    BY <1>2
  <2>2. \A k \in 1 .. 2 : k = 1 \/ k = 2
    OBVIOUS
  <2> QED
    BY <2>1, <2>2
<1>4. <<x, y>> \in Seq(Block) /\ Len(<<x, y>>) = 2
  OBVIOUS
<1> QED
  BY <1>2, <1>3, <1>4, SeqEqual
\* A list of two and a block.
LEMMA ConcatTwo ==
  ASSUME NEW x \in Block, NEW y \in Block, NEW z \in Block
  PROVE  <<x, y>> \o <<z>> = <<x, y, z>>
<1>1. <<x, y>> \in Seq(Block) /\ <<z>> \in Seq(Block) /\ Len(<<x, y>>) = 2 /\ Len(<<z>>) = 1
  OBVIOUS
<1>2. /\ <<x, y>> \o <<z>> \in Seq(Block) /\ Len(<<x, y>> \o <<z>>) = 3
      /\ \A k \in 1 .. 3 : (<<x, y>> \o <<z>>)[k] = IF k <= 2 THEN <<x, y>>[k] ELSE <<z>>[k - 2]
  BY <1>1, ConcatProperties
<1>3. \A k \in 1 .. 3 : (<<x, y>> \o <<z>>)[k] = <<x, y, z>>[k]
  <2>1. (<<x, y>> \o <<z>>)[1] = x /\ (<<x, y>> \o <<z>>)[2] = y /\ (<<x, y>> \o <<z>>)[3] = z
    BY <1>2
  <2>2. \A k \in 1 .. 3 : k = 1 \/ k = 2 \/ k = 3
    OBVIOUS
  <2> QED
    BY <2>1, <2>2
<1>4. <<x, y, z>> \in Seq(Block) /\ Len(<<x, y, z>>) = 3
  OBVIOUS
<1> QED
  BY <1>2, <1>3, <1>4, SeqEqual
\* The empty list on either side.
LEMMA ConcatNone ==
  ASSUME NEW s \in Seq(Block)
  PROVE  <<>> \o s = s /\ s \o <<>> = s
BY ConcatEmptySeq


\* A splice makes no two free neighbours if its two ends do not.
LEMMA SpliceCoalesced ==
  ASSUME NEW L \in Seq(Block), NEW P \in Seq(Block), Len(P) > 0,
         NEW lo \in 1 .. Len(L), NEW hi \in lo .. Len(L),
         Coalesced(L), Coalesced(P),
         \A k \in 1 .. Len(L) : k = lo - 1 => ~(L[k].state = "FREE" /\ P[1].state = "FREE"),
         \A k \in 1 .. Len(L) : k = hi + 1 => ~(P[Len(P)].state = "FREE" /\ L[k].state = "FREE")
  PROVE  Coalesced(Spliced(L, lo, hi, P))
<1> DEFINE M == Spliced(L, lo, hi, P)
           d == Len(P) - (hi - lo + 1)
           n == Len(L)
           p == Len(P)
           s == Len(M)
<1>1. n \in Nat /\ p \in Nat /\ p > 0 /\ lo \in Nat /\ hi \in Nat /\ 1 <= lo /\ lo <= hi /\ hi <= n
  OBVIOUS
<1>2. Zones(M, L, lo, hi, P, d)
  BY SpliceZones
<1>3. d = p - (hi - lo + 1) /\ d \in Int
  BY <1>1
<1>4. s \in Nat
  BY <1>2 DEF Zones
<1>5. \A k \in 1 .. s : \/ k \in 1 .. lo - 1 /\ M[k] = L[k]
                        \/ \E j \in 1 .. p : k = lo - 1 + j /\ M[k] = P[j]
                        \/ \E j \in hi + 1 .. n : k = j + d /\ M[k] = L[j]
  BY <1>2 DEF Zones
<1>6. /\ \A k, m \in 1 .. n : m = k + 1 => ~(L[k].state = "FREE" /\ L[m].state = "FREE")
      /\ \A k, m \in 1 .. p : m = k + 1 => ~(P[k].state = "FREE" /\ P[m].state = "FREE")
  BY DEF Coalesced
<1>7. /\ \A k \in 1 .. n : k = lo - 1 => ~(L[k].state = "FREE" /\ P[1].state = "FREE")
      /\ \A k \in 1 .. n : k = hi + 1 => ~(P[p].state = "FREE" /\ L[k].state = "FREE")
  OBVIOUS
<1> HIDE DEF M, d, n, p, s
<1>8. ASSUME NEW k \in 1 .. s, NEW m \in 1 .. s, m = k + 1
      PROVE  ~(M[k].state = "FREE" /\ M[m].state = "FREE")
  <2> DEFINE Apart(b, c) == ~(b.state = "FREE" /\ c.state = "FREE")
  <2>1. CASE k \in 1 .. lo - 1 /\ M[k] = L[k]
    <3>1. CASE m \in 1 .. lo - 1 /\ M[m] = L[m]
      <4>1. k \in 1 .. n /\ m \in 1 .. n
        BY <1>1, <2>1, <3>1
      <4> QED
        BY <1>6, <1>8, <2>1, <3>1, <4>1
    <3>2. ASSUME NEW j \in 1 .. p, m = lo - 1 + j PROVE Apart(L[k], P[j])
      <4>1. k = lo - 1 /\ j = 1 /\ k \in 1 .. n
        BY <1>1, <1>8, <2>1, <3>2
      <4> QED
        BY <1>7, <4>1
    <3>3. ASSUME NEW j \in hi + 1 .. n, m = j + d PROVE FALSE
      <4>1. j \in Int /\ hi + 1 <= j /\ k <= lo - 1
        BY <1>1, <2>1
      <4> QED
        BY <1>1, <1>3, <1>8, <3>3, <4>1
    <3> QED
      BY <1>5, <2>1, <3>1, <3>2, <3>3
  <2>2. ASSUME NEW i \in 1 .. p, k = lo - 1 + i, M[k] = P[i] PROVE Apart(M[k], M[m])
    <3>1. ASSUME NEW j \in 1 .. p, m = lo - 1 + j PROVE Apart(P[i], P[j])
      BY <1>1, <1>6, <1>8, <2>2, <3>1
    <3>2. ASSUME NEW j \in hi + 1 .. n, m = j + d PROVE Apart(P[i], L[j])
      <4>1. i \in Int /\ j \in Int /\ i <= p /\ hi + 1 <= j /\ j \in 1 .. n
        BY <1>1
      <4>2. m = j + (p - (hi - lo + 1)) /\ k = lo - 1 + i
        BY <1>3, <2>2, <3>2
      <4>3. i = p /\ j = hi + 1
        BY <1>1, <1>8, <4>1, <4>2
      <4> QED
        BY <1>7, <4>1, <4>3
    <3>3. ~(m \in 1 .. lo - 1)
      BY <1>1, <1>8, <2>2
    <3> QED
      BY <1>5, <2>2, <3>1, <3>2, <3>3
  <2>3. ASSUME NEW i \in hi + 1 .. n, k = i + d, M[k] = L[i] PROVE Apart(M[k], M[m])
    <3>1. ASSUME NEW j \in hi + 1 .. n, m = j + d PROVE Apart(L[i], L[j])
      <4>1. j = i + 1 /\ i \in 1 .. n /\ j \in 1 .. n
        BY <1>1, <1>3, <1>8, <2>3, <3>1
      <4> QED
        BY <1>6, <4>1
    <3>2. ~(m \in 1 .. lo - 1) /\ \A j \in 1 .. p : m # lo - 1 + j
      <4>1. m >= lo + p /\ m \in Int
        BY SMTT(30), <1>1, <1>3, <1>8, <2>3
      <4> QED
        BY <1>1, <4>1
    <3> QED
      BY <1>5, <2>3, <3>1, <3>2
  <2> QED
    BY <1>5, <2>1, <2>2, <2>3
<1> QED
  BY <1>8 DEF Coalesced, M, s

-----------------------------------------------------------------------------
\* the buffer that an allocated block is
BufOf(b) == [pa |-> b.pa, bytes |-> b.bytes]

\* x is an allocated block of L; a is the address of a free byte of L
HasAlloc(L, x) == \E k \in 1 .. Len(L) : L[k].state = "ALLOCATED" /\ BufOf(L[k]) = x
IsFree(L, a) == \E k \in 1 .. Len(L) : L[k].state = "FREE" /\ L[k].pa <= a /\ a < End(L[k])

\* What a spliced list has is what the rest of L has, and what P has.
Contents(M, L, lo, hi, P) ==
    /\ \A x : HasAlloc(M, x) <=>
                \/ HasAlloc(P, x)
                \/ \E j \in 1 .. Len(L) : /\ j < lo \/ hi < j
                                          /\ L[j].state = "ALLOCATED" /\ BufOf(L[j]) = x
    /\ \A a : IsFree(M, a) <=>
                \/ IsFree(P, a)
                \/ \E j \in 1 .. Len(L) : /\ j < lo \/ hi < j
                                          /\ L[j].state = "FREE" /\ L[j].pa <= a /\ a < End(L[j])

\* What is allocated, and which bytes are free, after a splice.
LEMMA SpliceContents ==
  ASSUME NEW L \in Seq(Block), NEW P \in Seq(Block),
         NEW lo \in 1 .. Len(L), NEW hi \in lo .. Len(L)
  PROVE  Contents(Spliced(L, lo, hi, P), L, lo, hi, P)
<1> DEFINE M == Spliced(L, lo, hi, P)
           n == Len(L)
           p == Len(P)
           d == Len(P) - (hi - lo + 1)
<1>1. n \in Nat /\ p \in Nat /\ lo \in Nat /\ hi \in Nat /\ 1 <= lo /\ lo <= hi /\ hi <= n
  OBVIOUS
<1>2. Zones(M, L, lo, hi, P, d)
  BY SpliceZones
<1>3. \A k \in 1 .. Len(M) : \/ \E j \in 1 .. n : (j < lo \/ hi < j) /\ M[k] = L[j]
                             \/ \E j \in 1 .. p : M[k] = P[j]
  <2> HIDE DEF M, d
  <2> SUFFICES ASSUME NEW k \in 1 .. Len(M)
               PROVE  \/ \E j \in 1 .. n : (j < lo \/ hi < j) /\ M[k] = L[j]
                      \/ \E j \in 1 .. p : M[k] = P[j]
    OBVIOUS
  <2>1. \/ k \in 1 .. lo - 1 /\ M[k] = L[k]
        \/ \E j \in 1 .. p : M[k] = P[j]
        \/ \E j \in hi + 1 .. n : M[k] = L[j]
    BY <1>2 DEF Zones
  <2>2. \A j \in hi + 1 .. n : j \in 1 .. n /\ hi < j
    BY <1>1
  <2>3. \A j \in 1 .. lo - 1 : j \in 1 .. n /\ j < lo
    BY <1>1
  <2> QED
    BY <2>1, <2>2, <2>3
<1>4. \A j \in 1 .. n : (j < lo \/ hi < j) => \E k \in 1 .. Len(M) : M[k] = L[j]
  <2> HIDE DEF M, d
  <2> SUFFICES ASSUME NEW j \in 1 .. n, j < lo \/ hi < j
               PROVE  \E k \in 1 .. Len(M) : M[k] = L[j]
    OBVIOUS
  <2>1. j \in 1 .. lo - 1 \/ j \in hi + 1 .. n
    BY <1>1
  <2> QED
    BY <1>2, <2>1 DEF Zones
<1>5. \A j \in 1 .. p : \E k \in 1 .. Len(M) : M[k] = P[j]
  <2> HIDE DEF M, d
  <2> QED
    BY <1>2 DEF Zones
<1> HIDE DEF M, n, p, d
<1>6. ASSUME NEW x
      PROVE  HasAlloc(M, x) <=> \/ HasAlloc(P, x)
                                \/ \E j \in 1 .. n : /\ j < lo \/ hi < j
                                                     /\ L[j].state = "ALLOCATED" /\ BufOf(L[j]) = x
  <2>1. HasAlloc(P, x) <=> \E k \in 1 .. p : P[k].state = "ALLOCATED" /\ BufOf(P[k]) = x
    BY DEF HasAlloc, p
  <2>2. HasAlloc(M, x) <=> \E k \in 1 .. Len(M) : M[k].state = "ALLOCATED" /\ BufOf(M[k]) = x
    BY DEF HasAlloc
  <2>3. ASSUME HasAlloc(P, x) PROVE HasAlloc(M, x)
    BY <1>5, <2>1, <2>2, <2>3
  <2>4. ASSUME NEW j \in 1 .. n, j < lo \/ hi < j, L[j].state = "ALLOCATED", BufOf(L[j]) = x
        PROVE  HasAlloc(M, x)
    BY <1>4, <2>2, <2>4
  <2>5. ASSUME HasAlloc(M, x), ~HasAlloc(P, x)
        PROVE  \E j \in 1 .. n : /\ j < lo \/ hi < j
                                /\ L[j].state = "ALLOCATED" /\ BufOf(L[j]) = x
    <3>1. PICK k \in 1 .. Len(M) : M[k].state = "ALLOCATED" /\ BufOf(M[k]) = x
      BY <2>2, <2>5
    <3>2. ~\E j \in 1 .. p : M[k] = P[j]
      BY <2>1, <2>5, <3>1
    <3>3. PICK j \in 1 .. n : (j < lo \/ hi < j) /\ M[k] = L[j]
      BY <1>3, <3>2
    <3> QED
      BY <3>1, <3>3
  <2> QED
    BY <2>3, <2>4, <2>5
<1>7. ASSUME NEW a
      PROVE  IsFree(M, a) <=> \/ IsFree(P, a)
                              \/ \E j \in 1 .. n : /\ j < lo \/ hi < j
                                                   /\ L[j].state = "FREE" /\ L[j].pa <= a /\ a < End(L[j])
  <2>1. IsFree(P, a) <=> \E k \in 1 .. p : P[k].state = "FREE" /\ P[k].pa <= a /\ a < End(P[k])
    BY DEF IsFree, p
  <2>2. IsFree(M, a) <=> \E k \in 1 .. Len(M) : M[k].state = "FREE" /\ M[k].pa <= a /\ a < End(M[k])
    BY DEF IsFree
  <2> QED
    BY SMTT(30), <1>3, <1>4, <1>5, <2>1, <2>2
<1> QED
  BY <1>6, <1>7 DEF Contents, M, n

-----------------------------------------------------------------------------
(* Lists of one, two and three blocks.                                     *)

\* a block of whole pages that is not empty
GoodBlock(b) ==
    b \in Block /\ b.bytes > 0 /\ b.bytes % PageSize = 0 /\ b.pa % PageSize = 0

\* Its fields as numbers.
LEMMA GoodFields ==
  ASSUME NEW b, GoodBlock(b)
  PROVE  b.pa \in Nat /\ b.bytes \in Nat /\ End(b) \in Nat /\ b.pa < End(b)
BY DEF GoodBlock, Block, End

\* A block alone tiles its own addresses.
LEMMA ListOfOne ==
  ASSUME NEW b, GoodBlock(b)
  PROVE  /\ Tiling(<<b>>, b.pa, End(b)) /\ Coalesced(<<b>>)
         /\ \A x : HasAlloc(<<b>>, x) <=> b.state = "ALLOCATED" /\ BufOf(b) = x
         /\ \A a : IsFree(<<b>>, a) <=> b.state = "FREE" /\ b.pa <= a /\ a < End(b)
<1>1. <<b>> \in Seq(Block) /\ Len(<<b>>) = 1 /\ <<b>>[1] = b
  BY DEF GoodBlock
<1> DEFINE P == <<b>>
<1> HIDE DEF P
<1>2. P \in Seq(Block) /\ Len(P) = 1 /\ P[1] = b
  BY <1>1 DEF P
<1>3. \A k \in 1 .. Len(P) : k = 1
  BY <1>2
<1>4. Tiling(P, b.pa, End(b))
  BY <1>2, <1>3 DEF Tiling, GoodBlock
<1>5. Coalesced(P)
  BY <1>3 DEF Coalesced
<1>6. \A x : HasAlloc(P, x) <=> b.state = "ALLOCATED" /\ BufOf(b) = x
  BY <1>2, <1>3 DEF HasAlloc
<1>7. \A a : IsFree(P, a) <=> b.state = "FREE" /\ b.pa <= a /\ a < End(b)
  BY <1>2, <1>3 DEF IsFree
<1> QED
  BY <1>4, <1>5, <1>6, <1>7 DEF P

\* the list of two blocks, as a tiling and by what it has
TwoBlocks(P, b, c) ==
    /\ Tiling(P, b.pa, End(c)) /\ Coalesced(P)
    /\ \A x : HasAlloc(P, x) <=> \/ b.state = "ALLOCATED" /\ BufOf(b) = x
                                 \/ c.state = "ALLOCATED" /\ BufOf(c) = x
    /\ \A a : IsFree(P, a) <=> \/ b.state = "FREE" /\ b.pa <= a /\ a < End(b)
                               \/ c.state = "FREE" /\ c.pa <= a /\ a < End(c)

\* Two blocks side by side.
LEMMA ListOfTwo ==
  ASSUME NEW b, GoodBlock(b), NEW c, GoodBlock(c), End(b) = c.pa,
         ~(b.state = "FREE" /\ c.state = "FREE")
  PROVE  TwoBlocks(<<b, c>>, b, c)
<1>1. <<b, c>> \in Seq(Block) /\ Len(<<b, c>>) = 2 /\ <<b, c>>[1] = b /\ <<b, c>>[2] = c
  BY DEF GoodBlock
<1> DEFINE P == <<b, c>>
<1> HIDE DEF P
<1>2. P \in Seq(Block) /\ Len(P) = 2 /\ P[1] = b /\ P[2] = c
  BY <1>1 DEF P
<1>3. 1 \in 1 .. Len(P) /\ 2 \in 1 .. Len(P) /\ \A k \in 1 .. Len(P) : k = 1 \/ k = 2
  BY <1>2
<1>a. End(b) \in Nat /\ c.pa \in Nat
  BY GoodFields
<1>4. Tiling(P, b.pa, End(c))
  <2>1. \A k, m \in 1 .. Len(P) : m = k + 1 => End(P[k]) = P[m].pa
    BY <1>2, <1>3
  <2>2. \A k, m \in 1 .. Len(P) : k < m => End(P[k]) <= P[m].pa
    BY <1>2, <1>3, <1>a
  <2> QED
    BY <1>2, <1>3, <2>1, <2>2 DEF Tiling, GoodBlock
<1>5. Coalesced(P)
  BY <1>2, <1>3 DEF Coalesced
<1>6. \A x : HasAlloc(P, x) <=> \/ b.state = "ALLOCATED" /\ BufOf(b) = x
                                \/ c.state = "ALLOCATED" /\ BufOf(c) = x
  BY <1>2, <1>3 DEF HasAlloc
<1>7. \A a : IsFree(P, a) <=> \/ b.state = "FREE" /\ b.pa <= a /\ a < End(b)
                              \/ c.state = "FREE" /\ c.pa <= a /\ a < End(c)
  BY <1>2, <1>3 DEF IsFree
<1> QED
  BY <1>4, <1>5, <1>6, <1>7 DEF TwoBlocks, P

\* the list of three blocks, likewise
ThreeBlocks(P, b, c, e) ==
    /\ Tiling(P, b.pa, End(e)) /\ Coalesced(P)
    /\ \A x : HasAlloc(P, x) <=> \/ b.state = "ALLOCATED" /\ BufOf(b) = x
                                 \/ BufOf(c) = x
                                 \/ e.state = "ALLOCATED" /\ BufOf(e) = x
    /\ \A a : IsFree(P, a) <=> \/ b.state = "FREE" /\ b.pa <= a /\ a < End(b)
                               \/ e.state = "FREE" /\ e.pa <= a /\ a < End(e)

\* Three blocks side by side, the middle one allocated.
LEMMA ListOfThree ==
  ASSUME NEW b, GoodBlock(b), NEW c, GoodBlock(c), NEW e, GoodBlock(e),
         End(b) = c.pa, End(c) = e.pa, c.state = "ALLOCATED"
  PROVE  ThreeBlocks(<<b, c, e>>, b, c, e)
<1>1. /\ <<b, c, e>> \in Seq(Block) /\ Len(<<b, c, e>>) = 3
      /\ <<b, c, e>>[1] = b /\ <<b, c, e>>[2] = c /\ <<b, c, e>>[3] = e
  BY DEF GoodBlock
<1> DEFINE P == <<b, c, e>>
<1> HIDE DEF P
<1>2. P \in Seq(Block) /\ Len(P) = 3 /\ P[1] = b /\ P[2] = c /\ P[3] = e
  BY <1>1 DEF P
<1>3. /\ 1 \in 1 .. Len(P) /\ 2 \in 1 .. Len(P) /\ 3 \in 1 .. Len(P)
      /\ \A k \in 1 .. Len(P) : k = 1 \/ k = 2 \/ k = 3
  BY <1>2
<1>a. End(b) \in Nat /\ c.pa \in Nat /\ End(c) \in Nat /\ e.pa \in Nat /\ c.pa < End(c)
  BY GoodFields
<1>4. Tiling(P, b.pa, End(e))
  <2>1. \A k, m \in 1 .. Len(P) : m = k + 1 => End(P[k]) = P[m].pa
    BY <1>2, <1>3
  <2>2. \A k, m \in 1 .. Len(P) : k < m => End(P[k]) <= P[m].pa
    BY <1>2, <1>3, <1>a
  <2> QED
    BY <1>2, <1>3, <2>1, <2>2 DEF Tiling, GoodBlock
<1>5. Coalesced(P)
  BY <1>2, <1>3 DEF Coalesced
<1>6. \A x : HasAlloc(P, x) <=> \/ b.state = "ALLOCATED" /\ BufOf(b) = x
                                \/ BufOf(c) = x
                                \/ e.state = "ALLOCATED" /\ BufOf(e) = x
  BY <1>2, <1>3 DEF HasAlloc
<1>7. \A a : IsFree(P, a) <=> \/ b.state = "FREE" /\ b.pa <= a /\ a < End(b)
                              \/ e.state = "FREE" /\ e.pa <= a /\ a < End(e)
  BY <1>2, <1>3 DEF IsFree
<1> QED
  BY <1>4, <1>5, <1>6, <1>7 DEF ThreeBlocks, P

\* Sums and differences of multiples of A are multiples of A.
LEMMA MultMod ==
  ASSUME NEW k \in Int, NEW A \in Nat \ {0}
  PROVE  (k * A) % A = 0
OBVIOUS

\* The sum.
LEMMA ModSum ==
  ASSUME NEW x \in Nat, NEW y \in Nat, NEW A \in Nat \ {0}, x % A = 0, y % A = 0
  PROVE  (x + y) % A = 0
<1>1. PICK j \in Int : x = j * A
  OBVIOUS
<1>2. PICK k \in Int : y = k * A
  OBVIOUS
<1>3. x + y = (j + k) * A /\ j + k \in Int
  BY <1>1, <1>2
<1>4. ((j + k) * A) % A = 0
  BY <1>3, MultMod
<1> QED
  BY <1>3, <1>4

\* The difference.
LEMMA ModDifference ==
  ASSUME NEW x \in Nat, NEW y \in Nat, NEW A \in Nat \ {0}, x % A = 0, y % A = 0, x <= y
  PROVE  (y - x) % A = 0
<1>1. PICK j \in Int : x = j * A
  OBVIOUS
<1>2. PICK k \in Int : y = k * A
  OBVIOUS
<1>3. y - x = (k - j) * A /\ k - j \in Int
  BY <1>1, <1>2
<1>4. ((k - j) * A) % A = 0
  BY <1>3, MultMod
<1> QED
  BY <1>3, <1>4

-----------------------------------------------------------------------------
(* What the two changes of a list do.                                      *)

\* aipu_mm_free_in_region: the list still tiles its region, no two neighbours
\* are free, and what was allocated is now free.
LEMMA MergeEffect ==
  ASSUME NEW L, NEW from, NEW to, Tiling(L, from, to), Coalesced(L),
         NEW i \in 1 .. Len(L), L[i].state = "ALLOCATED"
  PROVE  /\ Tiling(MergeBlocks(L, i), from, to) /\ Coalesced(MergeBlocks(L, i))
         /\ \A x : HasAlloc(MergeBlocks(L, i), x) <=> HasAlloc(L, x) /\ x # BufOf(L[i])
         /\ \A a \in Int : IsFree(MergeBlocks(L, i), a) <=>
                             IsFree(L, a) \/ (L[i].pa <= a /\ a < End(L[i]))
<1> DEFINE lo == IF i > 1 /\ L[i - 1].state = "FREE" THEN i - 1 ELSE i
           hi == IF i < Len(L) /\ L[i + 1].state = "FREE" THEN i + 1 ELSE i
           n == Len(L)
           b == Blk(L[lo].pa, End(L[hi]) - L[lo].pa, "FREE")
<1>0. L \in Seq(Block)
  BY DEF Tiling
<1>1. n \in Nat /\ i \in 1 .. n
  BY <1>0
<1>2. /\ lo \in 1 .. n /\ hi \in lo .. n /\ hi \in 1 .. n /\ lo <= i /\ i <= hi
      /\ lo = i \/ (lo = i - 1 /\ L[lo].state = "FREE")
      /\ hi = i \/ (hi = i + 1 /\ L[hi].state = "FREE")
  BY <1>1
<1>3. /\ \A k \in 1 .. n : k = i - 1 /\ L[k].state = "FREE" => lo = k
      /\ \A k \in 1 .. n : k = i + 1 /\ L[k].state = "FREE" => hi = k
  BY <1>1
<1>4. \A k \in 1 .. n : /\ L[k].pa \in Nat /\ L[k].bytes \in Nat /\ End(L[k]) \in Nat
                        /\ End(L[k]) = L[k].pa + L[k].bytes /\ L[k].bytes > 0 /\ L[k].pa < End(L[k])
  BY <1>0, BlockFields DEF Tiling
<1>a. \A k \in 1 .. n : L[k].bytes % PageSize = 0 /\ L[k].pa % PageSize = 0
  BY DEF Tiling
<1>b. \A k, m \in 1 .. n : m = k + 1 => End(L[k]) = L[m].pa
  BY DEF Tiling
<1>c. \A k, m \in 1 .. n : k < m => End(L[k]) <= L[m].pa
  BY DEF Tiling
<1>5. MergeBlocks(L, i) = Spliced(L, lo, hi, <<b>>)
  <2> DEFINE bytes == IF lo = i THEN L[i].bytes ELSE L[lo].bytes + L[i].bytes
             all == IF hi = i THEN bytes ELSE bytes + L[hi].bytes
  <2>1. MergeBlocks(L, i) = SubSeq(L, 1, lo - 1) \o <<[pa |-> L[lo].pa, bytes |-> all, state |-> "FREE"]>>
                              \o SubSeq(L, hi + 1, Len(L))
    BY DEF MergeBlocks
  <2> HIDE DEF lo, hi, n
  <2>2. all = End(L[hi]) - L[lo].pa
    <3>1. /\ lo = i \/ End(L[lo]) = L[i].pa
          /\ hi = i \/ End(L[i]) = L[hi].pa
      <4>1. lo = i \/ i = lo + 1
        BY <1>1, <1>2
      <4>2. hi = i \/ hi = i + 1
        BY <1>2
      <4> QED
        BY <1>1, <1>2, <1>b, <4>1, <4>2
    <3>2. /\ L[lo].pa \in Nat /\ L[lo].bytes \in Nat /\ End(L[lo]) = L[lo].pa + L[lo].bytes
          /\ L[i].pa \in Nat /\ L[i].bytes \in Nat /\ End(L[i]) = L[i].pa + L[i].bytes
          /\ L[hi].pa \in Nat /\ L[hi].bytes \in Nat /\ End(L[hi]) = L[hi].pa + L[hi].bytes
      BY <1>1, <1>2, <1>4
    <3>3. CASE lo = i /\ hi = i
      BY <3>2, <3>3
    <3>4. CASE lo = i /\ hi # i
      BY <3>1, <3>2, <3>4
    <3>5. CASE lo # i /\ hi = i
      BY <3>1, <3>2, <3>5
    <3>6. CASE lo # i /\ hi # i
      <4>1. all = (L[lo].bytes + L[i].bytes) + L[hi].bytes
        BY <3>6
      <4>2. End(L[lo]) = L[i].pa /\ End(L[i]) = L[hi].pa
        BY <3>1, <3>6
      <4>3. /\ L[i].pa = L[lo].pa + L[lo].bytes /\ L[hi].pa = L[i].pa + L[i].bytes
            /\ End(L[hi]) = L[hi].pa + L[hi].bytes
        BY <3>2, <4>2
      <4>4. L[hi].pa = (L[lo].pa + L[lo].bytes) + L[i].bytes
        BY <4>3
      <4> HIDE DEF all
      <4>5. PICK p1 \in Nat, b1 \in Nat, b2 \in Nat, b3 \in Nat, p3 \in Nat :
              /\ p1 = L[lo].pa /\ b1 = L[lo].bytes /\ b2 = L[i].bytes
              /\ p3 = L[hi].pa /\ b3 = L[hi].bytes
        BY <3>2
      <4>6. p3 = (p1 + b1) + b2 /\ all = (b1 + b2) + b3 /\ End(L[hi]) = p3 + b3
        BY <4>1, <4>3, <4>4, <4>5
      <4>7. (b1 + b2) + b3 = (p3 + b3) - p1
        BY <4>6
      <4> QED
        BY <4>5, <4>6, <4>7
    <3> QED
      BY <3>3, <3>4, <3>5, <3>6
  <2> HIDE DEF all, bytes
  <2> QED
    BY <2>1, <2>2 DEF Spliced, Blk
<1> HIDE DEF lo, hi, n
<1>6. L[lo].pa <= L[i].pa /\ End(L[i]) <= End(L[hi])
  <2>1. (lo = i \/ lo < i) /\ (hi = i \/ i < hi)
    BY <1>1, <1>2
  <2>2. lo = i \/ End(L[lo]) <= L[i].pa
    BY <1>1, <1>2, <1>c, <2>1
  <2>3. hi = i \/ End(L[i]) <= L[hi].pa
    BY <1>1, <1>2, <1>c, <2>1
  <2>4. /\ L[lo].pa \in Nat /\ End(L[lo]) \in Nat /\ L[lo].pa < End(L[lo])
        /\ L[i].pa \in Nat /\ End(L[i]) \in Nat /\ L[i].pa < End(L[i])
        /\ L[hi].pa \in Nat /\ End(L[hi]) \in Nat /\ L[hi].pa < End(L[hi])
    BY <1>1, <1>2, <1>4
  <2> QED
    BY <2>2, <2>3, <2>4
<1>7. GoodBlock(b) /\ b.pa = L[lo].pa /\ End(b) = End(L[hi]) /\ b.state = "FREE"
  <2>1. /\ L[lo].pa \in Nat /\ End(L[hi]) \in Nat /\ L[lo].pa < End(L[hi])
        /\ L[lo].pa % PageSize = 0
    <3>1. /\ L[lo].pa \in Nat /\ End(L[hi]) \in Nat /\ L[lo].pa % PageSize = 0
          /\ L[i].pa \in Nat /\ End(L[i]) \in Nat /\ L[i].pa < End(L[i])
      BY <1>1, <1>2, <1>4, <1>a
    <3> QED
      BY <1>6, <3>1
  <2>p. PageSize \in Nat \ {0}
    BY MmAssumption
  <2>2. End(L[hi]) % PageSize = 0
    <3>1. /\ L[hi].pa \in Nat /\ L[hi].bytes \in Nat /\ End(L[hi]) = L[hi].pa + L[hi].bytes
          /\ L[hi].pa % PageSize = 0 /\ L[hi].bytes % PageSize = 0
      BY <1>2, <1>4, <1>a
    <3> QED
      BY <2>p, <3>1, ModSum
  <2>3. (End(L[hi]) - L[lo].pa) % PageSize = 0
    BY <2>1, <2>2, <2>p, ModDifference
  <2>4. End(L[hi]) - L[lo].pa \in Nat /\ End(L[hi]) - L[lo].pa > 0
    BY <2>1
  <2>5. /\ b \in Block /\ b.pa = L[lo].pa /\ b.bytes = End(L[hi]) - L[lo].pa
        /\ b.state = "FREE"
    BY <2>1, <2>4, BlkType DEF Blk
  <2> HIDE DEF b
  <2> QED
    BY <2>1, <2>3, <2>4, <2>5 DEF GoodBlock, End
<1> HIDE DEF b
<1>8. /\ Tiling(<<b>>, L[lo].pa, End(L[hi])) /\ Coalesced(<<b>>) /\ <<b>> \in Seq(Block)
      /\ \A x : ~HasAlloc(<<b>>, x)
      /\ \A a : IsFree(<<b>>, a) <=> L[lo].pa <= a /\ a < End(L[hi])
  BY <1>7, ListOfOne DEF Tiling
<1>9. Tiling(MergeBlocks(L, i), from, to)
  BY <1>2, <1>5, <1>8, SpliceTiling DEF n
<1>10. Coalesced(MergeBlocks(L, i))
  <2>1. Len(<<b>>) = 1 /\ <<b>>[1] = b
    OBVIOUS
  <2>2. \A k \in 1 .. n : k = lo - 1 \/ k = hi + 1 => L[k].state # "FREE"
    <3>1. \A k, m \in 1 .. n : m = k + 1 => ~(L[k].state = "FREE" /\ L[m].state = "FREE")
      BY DEF Coalesced, n
    <3>2. ASSUME NEW k \in 1 .. n, k = lo - 1 PROVE L[k].state # "FREE"
      <4>1. CASE lo = i
        BY <1>1, <1>3, <3>2, <4>1
      <4>2. CASE lo # i
        <5>1. L[lo].state = "FREE" /\ lo = k + 1
          BY <1>1, <1>2, <3>2, <4>2
        <5> QED
          BY <1>2, <3>1, <5>1
      <4> QED
        BY <4>1, <4>2
    <3>3. ASSUME NEW k \in 1 .. n, k = hi + 1 PROVE L[k].state # "FREE"
      <4>1. CASE hi = i
        BY <1>1, <1>3, <3>3, <4>1
      <4>2. CASE hi # i
        <5>1. L[hi].state = "FREE" /\ k = hi + 1
          BY <1>1, <1>2, <3>3, <4>2
        <5> QED
          BY <1>2, <3>1, <5>1
      <4> QED
        BY <4>1, <4>2
    <3> QED
      BY <3>2, <3>3
  <2> DEFINE P == <<b>>
  <2>3. Len(P) > 0 /\ P \in Seq(Block) /\ Coalesced(P)
    BY <1>8, <2>1
  <2>4. \A k \in 1 .. Len(L) : k = lo - 1 => ~(L[k].state = "FREE" /\ P[1].state = "FREE")
    BY <2>2 DEF n
  <2>5. \A k \in 1 .. Len(L) : k = hi + 1 => ~(P[Len(P)].state = "FREE" /\ L[k].state = "FREE")
    BY <2>2 DEF n
  <2>6. lo \in 1 .. Len(L) /\ hi \in lo .. Len(L) /\ MergeBlocks(L, i) = Spliced(L, lo, hi, P)
    BY <1>2, <1>5 DEF n
  <2> HIDE DEF P
  <2>7. Coalesced(Spliced(L, lo, hi, P))
    BY <1>0, <2>3, <2>4, <2>5, <2>6, SpliceCoalesced
  <2> QED
    BY <2>6, <2>7
<1>11. /\ \A x : HasAlloc(MergeBlocks(L, i), x) <=>
                   \E j \in 1 .. n : /\ j < lo \/ hi < j
                                     /\ L[j].state = "ALLOCATED" /\ BufOf(L[j]) = x
       /\ \A a : IsFree(MergeBlocks(L, i), a) <=>
                   \/ L[lo].pa <= a /\ a < End(L[hi])
                   \/ \E j \in 1 .. n : /\ j < lo \/ hi < j
                                        /\ L[j].state = "FREE" /\ L[j].pa <= a /\ a < End(L[j])
  <2>1. lo \in 1 .. Len(L) /\ hi \in lo .. Len(L) /\ <<b>> \in Seq(Block)
    BY <1>2, <1>8 DEF n
  <2>2. Contents(MergeBlocks(L, i), L, lo, hi, <<b>>)
    BY <1>0, <1>5, <2>1, SpliceContents
  <2> QED
    BY <1>8, <2>2 DEF Contents, n
<1>12. ASSUME NEW x
       PROVE  HasAlloc(MergeBlocks(L, i), x) <=> HasAlloc(L, x) /\ x # BufOf(L[i])
  <2>1. HasAlloc(L, x) <=> \E j \in 1 .. n : L[j].state = "ALLOCATED" /\ BufOf(L[j]) = x
    BY DEF HasAlloc, n
  <2>2. \A j \in 1 .. n : BufOf(L[j]) = BufOf(L[i]) => j = i
    <3>1. ASSUME NEW j \in 1 .. n, L[j].pa = L[i].pa PROVE j = i
      <4>1. j < i \/ i < j \/ j = i
        BY <1>1
      <4>2. /\ L[j].pa \in Nat /\ End(L[j]) \in Nat /\ L[j].pa < End(L[j])
            /\ L[i].pa \in Nat /\ End(L[i]) \in Nat /\ L[i].pa < End(L[i])
        BY <1>1, <1>4
      <4> QED
        BY <1>1, <1>c, <3>1, <4>1, <4>2
    <3> QED
      BY <3>1 DEF BufOf
  <2>3. \A j \in 1 .. n : L[j].state = "ALLOCATED" /\ j # i => j < lo \/ hi < j
    BY <1>1, <1>2
  <2>4. \A j \in 1 .. n : j < lo \/ hi < j => j # i
    BY <1>1, <1>2
  <2> QED
    BY <1>1, <1>11, <2>1, <2>2, <2>3, <2>4
<1>13. ASSUME NEW a \in Int
       PROVE  IsFree(MergeBlocks(L, i), a) <=> IsFree(L, a) \/ (L[i].pa <= a /\ a < End(L[i]))
  <2>1. IsFree(L, a) <=> \E j \in 1 .. n : L[j].state = "FREE" /\ L[j].pa <= a /\ a < End(L[j])
    BY DEF IsFree, n
  <2>2. ASSUME L[lo].pa <= a, a < End(L[hi])
        PROVE  IsFree(L, a) \/ (L[i].pa <= a /\ a < End(L[i]))
    <3>1. CASE a < L[i].pa
      <4>1. lo = i - 1 /\ L[lo].state = "FREE" /\ End(L[lo]) = L[i].pa
        <5>1. L[i].pa \in Nat /\ (lo = i => FALSE)
          BY <1>1, <1>4, <2>2, <3>1
        <5>2. i = lo + 1
          BY <1>1, <1>2, <5>1
        <5> QED
          BY <1>1, <1>2, <1>b, <5>1, <5>2
      <4> QED
        BY <1>2, <2>1, <2>2, <3>1, <4>1
    <3>2. CASE End(L[i]) <= a
      <4>1. hi = i + 1 /\ L[hi].state = "FREE" /\ End(L[i]) = L[hi].pa
        <5>1. hi # i
          BY <1>1, <1>4, <2>2, <3>2
        <5> QED
          BY <1>1, <1>2, <1>b, <5>1
      <4> QED
        BY <1>2, <2>1, <2>2, <3>2, <4>1
    <3>3. L[i].pa \in Nat /\ End(L[i]) \in Nat
      BY <1>1, <1>4
    <3> QED
      BY <3>1, <3>2, <3>3
  <2>3. \A j \in 1 .. n : /\ ~(j < lo \/ hi < j) /\ L[j].pa <= a /\ a < End(L[j])
                          => L[lo].pa <= a /\ a < End(L[hi])
    <3> SUFFICES ASSUME NEW j \in 1 .. n, ~(j < lo \/ hi < j), L[j].pa <= a, a < End(L[j])
                 PROVE  L[lo].pa <= a /\ a < End(L[hi])
      OBVIOUS
    <3>1. j = lo \/ lo < j
      BY <1>1, <1>2
    <3>2. j = hi \/ j < hi
      BY <1>1, <1>2
    <3>3. /\ L[lo].pa \in Nat /\ End(L[lo]) \in Nat /\ L[j].pa \in Nat /\ End(L[j]) \in Nat
          /\ L[hi].pa \in Nat /\ End(L[hi]) \in Nat /\ L[lo].pa <= End(L[lo]) /\ L[hi].pa <= End(L[hi])
      BY SMTT(30), <1>2, <1>4
    <3>4. (lo < j => End(L[lo]) <= L[j].pa) /\ (j < hi => End(L[j]) <= L[hi].pa)
      BY <1>2, <1>c
    <3> QED
      BY SMTT(30), <3>1, <3>2, <3>3, <3>4
  <2>4. L[i].pa <= a /\ a < End(L[i]) => L[lo].pa <= a /\ a < End(L[hi])
    BY <1>1, <1>2, <2>3
  <2> QED
    BY <1>11, <2>1, <2>2, <2>3, <2>4
<1> QED
  BY <1>9, <1>10, <1>12, <1>13

\* The pieces a split makes of a block: they tile it, and hold the new buffer.
Pieces(b, start, n) ==
    Piece(b.pa, start - b.pa, b.state) \o Piece(start, n, "ALLOCATED")
      \o Piece(start + n, End(b) - (start + n), "FREE")

\* The pieces of b: a tiling of it whose only allocated block is the new buffer.
IsSplit(P, b, start, n) ==
    /\ P \in Seq(Block) /\ Tiling(P, b.pa, End(b)) /\ Coalesced(P)
    /\ \A x : HasAlloc(P, x) <=> x = [pa |-> start, bytes |-> n]
    /\ \A a \in Int : IsFree(P, a) <=> b.pa <= a /\ a < End(b) /\ ~(start <= a /\ a < start + n)

\* The one, two or three pieces that a split leaves are such.
LEMMA SplitPieces ==
  ASSUME NEW b, GoodBlock(b), b.state = "FREE", NEW start \in Nat, NEW n \in Nat \ {0},
         start % PageSize = 0, n % PageSize = 0,
         b.pa <= start, start + n <= End(b)
  PROVE  IsSplit(Pieces(b, start, n), b, start, n)
<1> DEFINE P == Pieces(b, start, n)
           front == Blk(b.pa, start - b.pa, "FREE")
           mid == Blk(start, n, "ALLOCATED")
           back == Blk(start + n, End(b) - (start + n), "FREE")
<1>0. PageSize \in Nat \ {0}
  BY MmAssumption
<1>1. /\ b.pa \in Nat /\ End(b) \in Nat /\ b.pa % PageSize = 0 /\ b.bytes % PageSize = 0
      /\ End(b) = b.pa + b.bytes /\ b.bytes \in Nat
  BY GoodFields DEF GoodBlock, End
<1>2. End(b) % PageSize = 0 /\ (start + n) % PageSize = 0
  <2>1. End(b) % PageSize = 0
    BY <1>0, <1>1, ModSum
  <2>2. (start + n) % PageSize = 0
    BY <1>0, ModSum
  <2> QED
    BY <2>1, <2>2
<1>3. start - b.pa \in Nat /\ End(b) - (start + n) \in Nat /\ start + n \in Nat
  BY <1>1
<1>4. (start - b.pa) % PageSize = 0 /\ (End(b) - (start + n)) % PageSize = 0
  BY <1>0, <1>1, <1>2, <1>3, ModDifference
<1>5. /\ mid \in Block /\ mid.pa = start /\ mid.bytes = n /\ mid.state = "ALLOCATED"
  BY BlkType DEF Blk
<1>6. /\ front \in Block /\ front.pa = b.pa /\ front.bytes = start - b.pa /\ front.state = "FREE"
  BY <1>1, <1>3, BlkType DEF Blk
<1>7. /\ back \in Block /\ back.pa = start + n /\ back.bytes = End(b) - (start + n) /\ back.state = "FREE"
  BY <1>3, BlkType DEF Blk
<1>8. P = (IF start = b.pa THEN <<>> ELSE <<front>>) \o <<mid>>
            \o (IF start + n = End(b) THEN <<>> ELSE <<back>>)
  <2>1. Piece(b.pa, start - b.pa, b.state) = IF start = b.pa THEN <<>> ELSE <<front>>
    BY <1>1 DEF Piece, Blk
  <2>2. Piece(start, n, "ALLOCATED") = <<mid>>
    BY DEF Piece, Blk
  <2>3. Piece(start + n, End(b) - (start + n), "FREE") = IF start + n = End(b) THEN <<>> ELSE <<back>>
    <3>1. End(b) - (start + n) = 0 <=> start + n = End(b)
      BY <1>1
    <3> QED
      BY <3>1 DEF Piece, Blk
  <2>4. P = Piece(b.pa, start - b.pa, b.state) \o Piece(start, n, "ALLOCATED")
               \o Piece(start + n, End(b) - (start + n), "FREE")
    BY DEF Pieces
  <2> HIDE DEF P, front, mid, back
  <2>5. P = (IF start = b.pa THEN <<>> ELSE <<front>>) \o Piece(start, n, "ALLOCATED")
               \o Piece(start + n, End(b) - (start + n), "FREE")
    BY <2>1, <2>4
  <2>6. P = (IF start = b.pa THEN <<>> ELSE <<front>>) \o <<mid>>
               \o Piece(start + n, End(b) - (start + n), "FREE")
    BY <2>2, <2>5
  <2> QED
    BY <2>3, <2>6
<1> HIDE DEF P, front, mid, back
<1>9. GoodBlock(mid) /\ End(mid) = start + n /\ BufOf(mid) = [pa |-> start, bytes |-> n]
  BY <1>5 DEF GoodBlock, End, BufOf
<1>10. start # b.pa => GoodBlock(front) /\ End(front) = start
  BY <1>1, <1>3, <1>4, <1>6 DEF GoodBlock, End
<1>11. start + n # End(b) => GoodBlock(back) /\ End(back) = End(b)
  BY <1>1, <1>2, <1>3, <1>4, <1>7 DEF GoodBlock, End
<1>12. <<mid>> \in Seq(Block) /\ <<front>> \in Seq(Block) /\ <<back>> \in Seq(Block)
       /\ <<mid, back>> \in Seq(Block) /\ <<front, mid>> \in Seq(Block)
       /\ <<front, mid, back>> \in Seq(Block)
  BY <1>5, <1>6, <1>7
<1>13. CASE start = b.pa /\ start + n = End(b)
  <2>1. P = <<mid>>
    BY <1>8, <1>12, <1>13, ConcatNone
  <2>2. /\ Tiling(P, mid.pa, End(mid)) /\ Coalesced(P)
        /\ \A x : HasAlloc(P, x) <=> mid.state = "ALLOCATED" /\ BufOf(mid) = x
        /\ \A a : IsFree(P, a) <=> mid.state = "FREE" /\ mid.pa <= a /\ a < End(mid)
    BY <1>9, <2>1, ListOfOne
  <2>3. P \in Seq(Block) /\ Tiling(P, b.pa, End(b)) /\ Coalesced(P)
    BY <1>5, <1>9, <1>12, <1>13, <2>1, <2>2
  <2>4. \A x : HasAlloc(P, x) <=> x = [pa |-> start, bytes |-> n]
    BY <1>5, <1>9, <2>2
  <2>5. \A a \in Int : IsFree(P, a) <=> b.pa <= a /\ a < End(b) /\ ~(start <= a /\ a < start + n)
    <3>1. \A a \in Int : IsFree(P, a) <=> FALSE
      BY <1>5, <2>2
    <3> QED
      BY <1>1, <1>3, <1>13, <3>1
  <2> QED
    BY <2>3, <2>4, <2>5 DEF IsSplit, P
<1>14. CASE start # b.pa /\ start + n = End(b)
  <2>1. P = <<front, mid>>
    BY <1>5, <1>6, <1>8, <1>12, <1>14, ConcatNone, ConcatOne
  <2>2. TwoBlocks(P, front, mid)
    BY <1>5, <1>6, <1>9, <1>10, <1>14, <2>1, ListOfTwo
  <2>3. P \in Seq(Block) /\ Tiling(P, b.pa, End(b)) /\ Coalesced(P)
    BY <1>6, <1>9, <1>12, <1>14, <2>1, <2>2 DEF TwoBlocks
  <2>4. \A x : HasAlloc(P, x) <=> x = [pa |-> start, bytes |-> n]
    BY <1>5, <1>6, <1>9, <2>2 DEF TwoBlocks
  <2>5. \A a \in Int : IsFree(P, a) <=> b.pa <= a /\ a < End(b) /\ ~(start <= a /\ a < start + n)
    <3>1. \A a \in Int : IsFree(P, a) <=> b.pa <= a /\ a < start
      BY <1>5, <1>6, <1>10, <1>14, <2>2 DEF TwoBlocks
    <3> QED
      BY <1>1, <1>3, <1>14, <3>1
  <2> QED
    BY <2>3, <2>4, <2>5 DEF IsSplit, P
<1>15. CASE start = b.pa /\ start + n # End(b)
  <2>1. P = <<mid, back>>
    BY <1>5, <1>7, <1>8, <1>12, <1>15, ConcatNone, ConcatOne
  <2>2. TwoBlocks(P, mid, back)
    BY <1>5, <1>7, <1>9, <1>11, <1>15, <2>1, ListOfTwo
  <2>3. P \in Seq(Block) /\ Tiling(P, b.pa, End(b)) /\ Coalesced(P)
    BY <1>5, <1>7, <1>11, <1>12, <1>15, <2>1, <2>2 DEF TwoBlocks
  <2>4. \A x : HasAlloc(P, x) <=> x = [pa |-> start, bytes |-> n]
    BY <1>5, <1>7, <1>9, <2>2 DEF TwoBlocks
  <2>5. \A a \in Int : IsFree(P, a) <=> b.pa <= a /\ a < End(b) /\ ~(start <= a /\ a < start + n)
    <3>1. \A a \in Int : IsFree(P, a) <=> start + n <= a /\ a < End(b)
      BY <1>5, <1>7, <1>11, <1>15, <2>2 DEF TwoBlocks
    <3> QED
      BY <1>1, <1>3, <1>15, <3>1
  <2> QED
    BY <2>3, <2>4, <2>5 DEF IsSplit, P
<1>16. CASE start # b.pa /\ start + n # End(b)
  <2>1. P = <<front, mid, back>>
    BY <1>5, <1>6, <1>7, <1>8, <1>12, <1>16, ConcatOne, ConcatTwo
  <2>2. ThreeBlocks(P, front, mid, back)
    BY <1>5, <1>6, <1>7, <1>9, <1>10, <1>11, <1>16, <2>1, ListOfThree
  <2>3. P \in Seq(Block) /\ Tiling(P, b.pa, End(b)) /\ Coalesced(P)
    BY <1>6, <1>11, <1>12, <1>16, <2>1, <2>2 DEF ThreeBlocks
  <2>4. \A x : HasAlloc(P, x) <=> x = [pa |-> start, bytes |-> n]
    BY <1>6, <1>7, <1>9, <2>2 DEF ThreeBlocks
  <2>5. \A a \in Int : IsFree(P, a) <=> b.pa <= a /\ a < End(b) /\ ~(start <= a /\ a < start + n)
    <3>1. \A a \in Int : IsFree(P, a) <=> (b.pa <= a /\ a < start) \/ (start + n <= a /\ a < End(b))
      BY <1>6, <1>7, <1>10, <1>11, <1>16, <2>2 DEF ThreeBlocks
    <3> QED
      BY <1>1, <1>3, <1>16, <3>1
  <2> QED
    BY <2>3, <2>4, <2>5 DEF IsSplit, P
<1> QED
  BY <1>13, <1>14, <1>15, <1>16 DEF P

\* aipu_mm_split_block_no_lock: the new buffer is cut out of a free block, and
\* nothing else changes.
IsCut(M, L, from, to, start, n) ==
    /\ Tiling(M, from, to) /\ Coalesced(M)
    /\ \A x : HasAlloc(M, x) <=> HasAlloc(L, x) \/ x = [pa |-> start, bytes |-> n]
    /\ \A a \in Int : IsFree(M, a) <=> IsFree(L, a) /\ ~(start <= a /\ a < start + n)

\* Concatenation is associative.
LEMMA BlocksAssociate ==
  ASSUME NEW s \in Seq(Block), NEW t \in Seq(Block), NEW u \in Seq(Block)
  PROVE  (s \o t) \o u = s \o (t \o u)
BY ConcatAssociative

\* SplitBlock is the concatenation of what is before, the pieces and what is after.
LEMMA SplitForm ==
  ASSUME NEW L, NEW i, NEW start, NEW n, NEW rest,
         rest = L[i].pa + L[i].bytes - (start + n)
  PROVE  SplitBlock(L, i, start, n) =
           (((SubSeq(L, 1, i - 1) \o Piece(L[i].pa, start - L[i].pa, L[i].state))
              \o Piece(start, n, "ALLOCATED"))
              \o Piece(start + n, rest, "FREE"))
              \o SubSeq(L, i + 1, Len(L))
BY Zenon DEF SplitBlock

\* So it replaces one block by its pieces.
LEMMA SplitIsSplice ==
  ASSUME NEW L \in Seq(Block), NEW i \in 1 .. Len(L), L[i].state = "FREE", NEW start \in Nat, NEW n \in Nat,
         L[i].pa <= start, start + n <= End(L[i])
  PROVE  SplitBlock(L, i, start, n) = Spliced(L, i, i, Pieces(L[i], start, n))
<1> DEFINE A == SubSeq(L, 1, i - 1)
           B == SubSeq(L, i + 1, Len(L))
           X == Piece(L[i].pa, start - L[i].pa, L[i].state)
           Y == Piece(start, n, "ALLOCATED")
           Z == Piece(start + n, End(L[i]) - (start + n), "FREE")
<1>1. L[i].pa \in Nat /\ L[i].bytes \in Nat /\ End(L[i]) \in Nat /\ start + n \in Nat
      /\ End(L[i]) = L[i].pa + L[i].bytes
  BY BlockFields
<1>10. End(L[i]) - (start + n) = L[i].pa + L[i].bytes - (start + n)
  BY <1>1
<1>2. start - L[i].pa \in Nat /\ End(L[i]) - (start + n) \in Nat
  BY <1>1
<1>3. X \in Seq(Block) /\ Y \in Seq(Block) /\ Z \in Seq(Block)
  BY <1>1, <1>2, PieceProperties
<1>4. A \in Seq(Block)
  <2>1. \A k \in 1 .. i - 1 : L[k] \in Block
    OBVIOUS
  <2> QED
    BY <2>1, SubSeqProperties
<1>5. SplitBlock(L, i, start, n) = (((A \o X) \o Y) \o Z) \o B
  BY <1>10, SplitForm
<1>6. Spliced(L, i, i, Pieces(L[i], start, n)) = (A \o ((X \o Y) \o Z)) \o B
  BY DEF Spliced, Pieces
<1> HIDE DEF A, B, X, Y, Z
<1>7. X \o Y \in Seq(Block)
  BY <1>3, ConcatProperties
<1>8. (A \o X) \o Y = A \o (X \o Y)
  BY <1>3, <1>4, BlocksAssociate, Zenon
<1>9. (A \o (X \o Y)) \o Z = A \o ((X \o Y) \o Z)
  BY <1>3, <1>4, <1>7, BlocksAssociate, ZenonT(30)
<1> QED
  BY <1>5, <1>6, <1>8, <1>9

\* And the list it leaves has the new buffer and is otherwise the list it was.
LEMMA SplitEffect ==
  ASSUME NEW L, NEW from, NEW to, Tiling(L, from, to), Coalesced(L),
         NEW i \in 1 .. Len(L), L[i].state = "FREE",
         NEW start \in Nat, NEW n \in Nat \ {0}, start % PageSize = 0, n % PageSize = 0,
         L[i].pa <= start, start + n <= End(L[i])
  PROVE  IsCut(SplitBlock(L, i, start, n), L, from, to, start, n)
<1> DEFINE P == Pieces(L[i], start, n)
           M == SplitBlock(L, i, start, n)
<1>0. L \in Seq(Block) /\ GoodBlock(L[i])
  <2>1. L \in Seq(Block)
    BY DEF Tiling
  <2>2. L[i] \in Block
    BY <2>1
  <2> QED
    BY <2>1, <2>2 DEF Tiling, GoodBlock
<1>1. IsSplit(P, L[i], start, n)
  BY <1>0, SplitPieces
<1>2. M = Spliced(L, i, i, P)
  BY <1>0, SplitIsSplice
<1> HIDE DEF P, M
<1>3. P \in Seq(Block) /\ Tiling(P, L[i].pa, End(L[i])) /\ Coalesced(P) /\ Len(P) > 0
  BY <1>1 DEF IsSplit, Tiling
<1>4. i \in i .. Len(L)
  BY <1>0
<1>5. Tiling(M, from, to)
  BY <1>2, <1>3, <1>4, SpliceTiling
<1>6. Coalesced(M)
  <2>1. \A k, m \in 1 .. Len(L) : m = k + 1 => ~(L[k].state = "FREE" /\ L[m].state = "FREE")
    BY DEF Coalesced
  <2>2. \A k \in 1 .. Len(L) : k = i - 1 => L[k].state # "FREE"
    <3>1. \A k \in 1 .. Len(L) : k = i - 1 => i = k + 1
      BY <1>0
    <3> QED
      BY <2>1, <3>1
  <2>3. \A k \in 1 .. Len(L) : k = i + 1 => L[k].state # "FREE"
    BY <1>0, <2>1
  <2> QED
    BY <1>0, <1>2, <1>3, <1>4, <2>2, <2>3, SpliceCoalesced
<1>7. Contents(M, L, i, i, P)
  BY <1>0, <1>2, <1>3, <1>4, SpliceContents
<1>8. \A j \in 1 .. Len(L) : j < i \/ i < j <=> j # i
  BY <1>0
<1>9. \A x : HasAlloc(M, x) <=> HasAlloc(L, x) \/ x = [pa |-> start, bytes |-> n]
  <2> SUFFICES ASSUME NEW x
               PROVE  HasAlloc(M, x) <=> HasAlloc(L, x) \/ x = [pa |-> start, bytes |-> n]
    OBVIOUS
  <2>1. HasAlloc(M, x) <=> \/ HasAlloc(P, x)
                           \/ \E j \in 1 .. Len(L) : j # i /\ L[j].state = "ALLOCATED" /\ BufOf(L[j]) = x
    BY <1>7, <1>8 DEF Contents
  <2>2. HasAlloc(P, x) <=> x = [pa |-> start, bytes |-> n]
    BY <1>1 DEF IsSplit
  <2>3. HasAlloc(L, x) <=> \E j \in 1 .. Len(L) : L[j].state = "ALLOCATED" /\ BufOf(L[j]) = x
    BY DEF HasAlloc
  <2> QED
    BY <2>1, <2>2, <2>3
<1>10. \A a \in Int : IsFree(M, a) <=> IsFree(L, a) /\ ~(start <= a /\ a < start + n)
  <2> SUFFICES ASSUME NEW a \in Int
               PROVE  IsFree(M, a) <=> IsFree(L, a) /\ ~(start <= a /\ a < start + n)
    OBVIOUS
  <2>1. IsFree(M, a) <=> \/ IsFree(P, a)
                         \/ \E j \in 1 .. Len(L) : j # i /\ L[j].state = "FREE" /\ L[j].pa <= a /\ a < End(L[j])
    BY <1>7, <1>8 DEF Contents
  <2>2. IsFree(P, a) <=> L[i].pa <= a /\ a < End(L[i]) /\ ~(start <= a /\ a < start + n)
    BY <1>1 DEF IsSplit
  <2>3. IsFree(L, a) <=> \E j \in 1 .. Len(L) : L[j].state = "FREE" /\ L[j].pa <= a /\ a < End(L[j])
    BY DEF IsFree
  <2>4. \A j \in 1 .. Len(L) : j # i /\ L[j].pa <= a /\ a < End(L[j]) => ~(L[i].pa <= a /\ a < End(L[i]))
    <3> SUFFICES ASSUME NEW j \in 1 .. Len(L), j # i, L[j].pa <= a, a < End(L[j])
                 PROVE  ~(L[i].pa <= a /\ a < End(L[i]))
      OBVIOUS
    <3>1. End(L[j]) <= L[i].pa \/ End(L[i]) <= L[j].pa
      BY <1>0 DEF Tiling
    <3>2. L[i].pa \in Nat /\ End(L[i]) \in Nat /\ L[j].pa \in Nat /\ End(L[j]) \in Nat
      BY <1>0, BlockFields
    <3> QED
      BY SMTT(30), <3>1, <3>2
  <2>5. L[i].pa \in Nat /\ End(L[i]) \in Nat
    BY <1>0, BlockFields
  <2>6. start <= a /\ a < start + n => L[i].pa <= a /\ a < End(L[i])
    BY <2>5
  <2> QED
    BY <2>1, <2>2, <2>3, <2>4, <2>6
<1> QED
  BY <1>5, <1>6, <1>9, <1>10 DEF IsCut, M

-----------------------------------------------------------------------------
(* Numbers: least and greatest elements, multiples.                        *)

\* A set of naturals that is not empty has a least element.
LEMMA LeastNat ==
  ASSUME NEW T, T \subseteq Nat, T # {}
  PROVE  \E x \in T : \A y \in T : x <= y
<1> DEFINE R == StrictSubsetOrdering(Nat)
           F == FiniteSubsetsOf(Nat)
           I == {1 .. n : n \in T}
<1>1. IsWellFoundedOn(R, F)
  BY FS_StrictSubsetOrderingWellFounded
<1>2. I # {}
  OBVIOUS
<1>3. \A n \in Nat : IsFiniteSet(1 .. n)
  BY FS_Interval
<1>4. I \subseteq F
  BY <1>3 DEF FiniteSubsetsOf
<1>5. PICK X \in I : \A Y \in I : <<Y, X>> \notin R
  <2> HIDE DEF I, F, R
  <2> QED BY <1>1, <1>2, <1>4, WFMin
<1>6. PICK x \in T : X = 1 .. x
  OBVIOUS
<1>7. ASSUME NEW y \in T, y < x PROVE FALSE
  <2>1. 1 .. y \subseteq 1 .. x /\ x \in 1 .. x /\ x \notin 1 .. y
    BY <1>7
  <2>2. <<1 .. y, 1 .. x>> \in R
    BY <2>1, <1>6 DEF StrictSubsetOrdering
  <2> QED
    BY <2>2, <1>5, <1>6
<1> QED BY <1>7

\* One that is bounded has a greatest.
LEMMA GreatestNat ==
  ASSUME NEW T, T \subseteq Nat, T # {}, NEW n \in Nat, \A y \in T : y <= n
  PROVE  \E x \in T : \A y \in T : y <= x
<1> DEFINE U == {n - y : y \in T}
<1>1. U \subseteq Nat /\ U # {}
  <2>1. ASSUME NEW y \in T PROVE n - y \in Nat
    <3>1. y \in Nat /\ y <= n
      OBVIOUS
    <3> QED
      BY <3>1
  <2> QED
    BY <2>1
<1>2. PICK u \in U : \A v \in U : u <= v
  BY <1>1, LeastNat
<1>3. PICK x \in T : u = n - x
  OBVIOUS
<1>4. \A y \in T : n - x <= n - y
  BY <1>2, <1>3
<1>5. \A y \in T : y \in Nat
  OBVIOUS
<1> QED
  BY <1>4, <1>5

\* Min chooses it.
LEMMA MinOf ==
  ASSUME NEW T, T \subseteq Nat, T # {}
  PROVE  Min(T) \in T /\ \A y \in T : Min(T) <= y
BY LeastNat DEF Min

\* Max chooses it.
LEMMA MaxOf ==
  ASSUME NEW T, T \subseteq Nat, T # {}, NEW n \in Nat, \A y \in T : y <= n
  PROVE  Max(T) \in T /\ \A y \in T : y <= Max(T)
<1>1. \E x \in T : \A y \in T : y <= x
  BY GreatestNat
<1>2. PICK x \in T : \A y \in T : y <= x
  BY <1>1
<1>3. \A y \in T : x >= y
  BY <1>2
<1> QED
  BY <1>3 DEF Max

\* The quotient, by what it bounds.
LEMMA DivBounds ==
  ASSUME NEW x \in Nat, NEW A \in Nat \ {0}
  PROVE  /\ x \div A \in Nat
         /\ (x \div A) * A \in Nat
         /\ (x \div A) * A <= x
         /\ x < (x \div A) * A + A
OBVIOUS

\* A remainder of zero makes a multiple.
LEMMA ModZero ==
  ASSUME NEW x \in Nat, NEW A \in Nat \ {0}, x % A = 0
  PROVE  \E k \in Nat : x = k * A
OBVIOUS

\* Multiples of A that are less than A apart.
LEMMA MultMono ==
  ASSUME NEW k \in Nat, NEW m \in Nat, NEW A \in Nat \ {0}, k * A < m * A + A
  PROVE  k * A <= m * A
OBVIOUS

\* Nothing wraps below the width of the word.
LEMMA SmallMod ==
  ASSUME NEW x \in Nat, NEW W \in Nat, x < W
  PROVE  x % W = x
OBVIOUS

\* Rounding down gives the greatest multiple that is not above x.
LEMMA RoundDown ==
  ASSUME NEW x \in Nat, NEW A \in Nat \ {0}
  PROVE  /\ (x \div A) * A \in Nat /\ (x \div A) * A <= x
         /\ ((x \div A) * A) % A = 0
         /\ \A y \in Nat : y % A = 0 /\ y <= x => y <= (x \div A) * A
<1>1. /\ x \div A \in Nat /\ (x \div A) * A \in Nat
      /\ (x \div A) * A <= x /\ x < (x \div A) * A + A
  BY DivBounds
<1>2. ((x \div A) * A) % A = 0
  BY <1>1, MultMod
<1>3. ASSUME NEW y \in Nat, y % A = 0, y <= x PROVE y <= (x \div A) * A
  <2>1. PICK k \in Nat : y = k * A
    BY <1>3, ModZero
  <2>2. k * A < (x \div A) * A + A
    BY <1>1, <1>3, <2>1
  <2> QED
    BY <1>1, <2>1, <2>2, MultMono
<1> QED
  BY <1>1, <1>2, <1>3

\* Roundup gives the least multiple that is not below x.
LEMMA RoundUp ==
  ASSUME NEW x \in Nat, NEW A \in Nat \ {0}
  PROVE  /\ Roundup(x, A) \in Nat /\ x <= Roundup(x, A) /\ Roundup(x, A) < x + A
         /\ Roundup(x, A) % A = 0
         /\ \A y \in Nat : y % A = 0 /\ x <= y => Roundup(x, A) <= y
<1> DEFINE z == x + A - 1
           R == (z \div A) * A
<1>1. z \in Nat /\ Roundup(x, A) = R
  BY DEF Roundup
<1>2. z = x + A - 1 /\ A \in Nat /\ A > 0
  OBVIOUS
<1> HIDE DEF z
<1>3. /\ R \in Nat /\ R <= z /\ R % A = 0 /\ z < R + A /\ z \div A \in Nat
  BY <1>1, RoundDown, DivBounds
<1>4. ASSUME NEW y \in Nat, y % A = 0, x <= y PROVE R <= y
  <2>1. PICK k \in Nat : y = k * A
    BY <1>4, ModZero
  <2>2. (z \div A) * A < k * A + A
    BY <1>2, <1>3, <1>4, <2>1
  <2> QED
    BY <1>3, <2>1, <2>2, MultMono
<1> HIDE DEF R
<1>5. x <= R /\ R < x + A
  BY <1>1, <1>2, <1>3
<1> QED
  BY <1>1, <1>3, <1>4, <1>5

\* A multiple of a multiple of A.
LEMMA ModOfMultiple ==
  ASSUME NEW x \in Nat, NEW A \in Nat \ {0}, NEW k \in Nat \ {0}, x % (k * A) = 0
  PROVE  x % A = 0
<1>1. k * A \in Nat \ {0}
  OBVIOUS
<1>2. PICK m \in Nat : x = m * (k * A)
  BY <1>1, ModZero
<1>3. x = (m * k) * A /\ m * k \in Int
  BY <1>2
<1>4. ((m * k) * A) % A = 0
  BY <1>3, MultMod
<1> QED
  BY <1>3, <1>4

-----------------------------------------------------------------------------
(* Where a request is put.                                                 *)

\* What MmAssumption says of the pages and of each region.
LEMMA Constants ==
  /\ PageSize \in Nat \ {0} /\ Word \in Nat /\ RegionCnt \in Nat
  /\ \A r \in Regions : /\ Base[r] \in Nat /\ Size[r] \in Nat \ {0}
                        /\ Base[r] % PageSize = 0 /\ Size[r] % PageSize = 0
                        /\ Size[r] <= Base[r]
  /\ \A r, q \in Regions :
       r # q => Base[r] + Size[r] <= Base[q] \/ Base[q] + Size[q] <= Base[r]
<1>1. /\ PageSize \in Nat \ {0} /\ Word \in Nat /\ RegionCnt \in Nat
      /\ Base \in [Regions -> Nat] /\ Size \in [Regions -> Nat \ {0}]
  BY MmAssumption
<1>2. \A r \in Regions : Base[r] \in Nat /\ Size[r] \in Nat \ {0}
  BY <1>1
<1>3. \A r \in Regions : Base[r] % PageSize = 0 /\ Size[r] % PageSize = 0 /\ Size[r] <= Base[r]
  BY MmAssumption
<1>4. /\ \A r, q \in Regions : Base[r] < Base[q] => Base[r] + Size[r] <= Base[q]
      /\ \A r, q \in Regions : Base[r] = Base[q] => r = q
  BY MmAssumption
<1>5. ASSUME NEW r \in Regions, NEW q \in Regions, r # q
      PROVE  Base[r] + Size[r] <= Base[q] \/ Base[q] + Size[q] <= Base[r]
  <2>1. Base[r] \in Nat /\ Base[q] \in Nat /\ Base[r] # Base[q]
    BY <1>2, <1>4, <1>5
  <2>2. Base[r] < Base[q] \/ Base[q] < Base[r]
    BY <2>1
  <2> QED
    BY <1>4, <2>2
<1> QED
  BY <1>1, <1>2, <1>3, <1>5

\* A request asks for whole pages at a page boundary, and the sums that the search
\* makes with it fit into a word.
LEMMA RequestFacts ==
  ASSUME NEW q \in Requests
  PROVE  /\ q.bytes \in Nat \ {0} /\ q.align_in_page \in Nat \ {0}
         /\ Alignment(q) \in Nat \ {0} /\ Alignment(q) = q.align_in_page * PageSize
         /\ AllocSize(q.bytes) \in Nat \ {0} /\ AllocSize(q.bytes) % PageSize = 0
         /\ AllocSize(q.bytes) < q.bytes + PageSize
         /\ \A r \in Regions : Base[r] + Size[r] + Alignment(q) + AllocSize(q.bytes) <= Word
<1>1. q.bytes \in Nat \ {0} /\ q.align_in_page \in Nat \ {0}
  BY MmAssumption
<1>2. PageSize \in Nat \ {0}
  BY Constants
<1>3. Alignment(q) = q.align_in_page * PageSize /\ Alignment(q) \in Nat \ {0}
  <2>1. PICK m \in Nat \ {0} : m = q.align_in_page * PageSize
    BY <1>1, <1>2
  <2>2. m < Word32 /\ Word32 \in Nat \ {0}
    BY <2>1, MmAssumption
  <2>3. (m % Word32) = m
    BY <2>2
  <2> QED  BY <2>1, <2>3 DEF Alignment
<1>4. /\ AllocSize(q.bytes) \in Nat /\ q.bytes <= AllocSize(q.bytes)
      /\ AllocSize(q.bytes) < q.bytes + PageSize /\ AllocSize(q.bytes) % PageSize = 0
  BY <1>1, <1>2, RoundUp DEF AllocSize
<1>5. ASSUME NEW r \in Regions
      PROVE  Base[r] + Size[r] + Alignment(q) + AllocSize(q.bytes) <= Word
  <2>1. Base[r] + Size[r] + q.align_in_page * PageSize + q.bytes + PageSize <= Word
    BY MmAssumption
  <2>2. Base[r] \in Nat /\ Size[r] \in Nat /\ Word \in Nat
    BY Constants
  <2>3. Base[r] + Size[r] + Alignment(q) + q.bytes + PageSize <= Word
    BY <1>3, <2>1
  <2> QED
    BY <1>1, <1>2, <1>3, <1>4, <2>2, <2>3
<1> QED
  BY <1>1, <1>3, <1>4, <1>5

\* the request goes upwards, or is not larger than the region
Sized(q, r) == Upwards(q) \/ AllocSize(q.bytes) <= Size[r]

\* No sum or difference of the search leaves the word, so the address is the
\* first multiple of the alignment in the block, or the last one with room.
LEMMA StartUp ==
  ASSUME NEW r \in Regions, NEW q \in Requests, Upwards(q),
         NEW b \in Block, Base[r] <= b.pa, End(b) <= Base[r] + Size[r]
  PROVE  /\ AllocStart(b, q) \in Nat /\ AllocStart(b, q) % Alignment(q) = 0
         /\ b.pa <= AllocStart(b, q)
         /\ Fits(b, q) <=> b.state = "FREE" /\ AllocStart(b, q) + AllocSize(q.bytes) <= End(b)
         /\ \A a \in Nat : a % Alignment(q) = 0 /\ b.pa <= a => AllocStart(b, q) <= a
<1> DEFINE A == Alignment(q)
           n == AllocSize(q.bytes)
           R == Roundup(b.pa, A)
<1>1. /\ A \in Nat \ {0} /\ n \in Nat \ {0} /\ Base[r] + Size[r] + A + n <= Word
      /\ Base[r] \in Nat /\ Size[r] \in Nat /\ Word \in Nat
  BY RequestFacts, Constants
<1>2. b.pa \in Nat /\ b.bytes \in Nat /\ End(b) = b.pa + b.bytes
  BY DEF Block, End
<1>3. /\ R \in Nat /\ b.pa <= R /\ R < b.pa + A /\ R % A = 0
      /\ \A y \in Nat : y % A = 0 /\ b.pa <= y => R <= y
  BY <1>1, <1>2, RoundUp
<1>4. AllocStart(b, q) = R % Word
  BY DEF AllocStart
<1>5. Fits(b, q) <=> /\ b.state = "FREE"
                     /\ (AllocStart(b, q) + n) % Word <= b.pa + b.bytes
  BY DEF Fits
<1> HIDE DEF A, n, R
<1>6. R + n < Word /\ R < Word /\ R + n \in Nat
  BY <1>1, <1>2, <1>3
<1>7. R % Word = R /\ (R + n) % Word = R + n
  BY <1>1, <1>3, <1>6, SmallMod
<1>8. AllocStart(b, q) = R
  BY <1>4, <1>7
<1> QED
  BY <1>2, <1>3, <1>5, <1>7, <1>8 DEF A, n

\* A request that goes downwards gets the last aligned address with room behind it.
LEMMA StartDown ==
  ASSUME NEW r \in Regions, NEW q \in Requests, ~Upwards(q), AllocSize(q.bytes) <= Size[r],
         NEW b \in Block, Base[r] <= b.pa, End(b) <= Base[r] + Size[r]
  PROVE  /\ AllocStart(b, q) \in Nat /\ AllocStart(b, q) % Alignment(q) = 0
         /\ AllocStart(b, q) + AllocSize(q.bytes) <= End(b)
         /\ Fits(b, q) <=> b.state = "FREE" /\ b.pa <= AllocStart(b, q)
         /\ \A a \in Nat : a % Alignment(q) = 0 /\ a + AllocSize(q.bytes) <= End(b)
                             => a <= AllocStart(b, q)
<1> DEFINE A == Alignment(q)
           n == AllocSize(q.bytes)
           e == End(b) - n
           R == (e \div A) * A
<1>1. /\ A \in Nat \ {0} /\ n \in Nat \ {0} /\ Base[r] + Size[r] + A + n <= Word
      /\ Base[r] \in Nat /\ Size[r] \in Nat /\ Word \in Nat /\ Size[r] <= Base[r] /\ n <= Size[r]
  BY RequestFacts, Constants
<1>2. b.pa \in Nat /\ b.bytes \in Nat /\ End(b) = b.pa + b.bytes /\ End(b) \in Nat
  BY DEF Block, End
<1>3. AllocStart(b, q) = (((b.pa + b.bytes - n) % Word) \div A) * A
  BY DEF AllocStart
<1>4. Fits(b, q) <=> /\ b.state = "FREE"
                     /\ (AllocStart(b, q) + n) % Word <= b.pa + b.bytes
                     /\ AllocStart(b, q) >= b.pa
  BY DEF Fits
<1>a. e = End(b) - n
  OBVIOUS
<1>b. R = (e \div A) * A
  OBVIOUS
<1> HIDE DEF A, n, e, R
<1>5. b.pa + b.bytes - n = e /\ e \in Nat /\ e < Word
  BY <1>1, <1>2, <1>a
<1>6. e % Word = e
  BY <1>1, <1>5, SmallMod
<1>7. AllocStart(b, q) = R
  BY <1>3, <1>5, <1>6, <1>b
<1>8. /\ R \in Nat /\ R <= e /\ R % A = 0
      /\ \A y \in Nat : y % A = 0 /\ y <= e => y <= R
  <2>1. /\ (e \div A) * A \in Nat /\ (e \div A) * A <= e /\ ((e \div A) * A) % A = 0
        /\ \A y \in Nat : y % A = 0 /\ y <= e => y <= (e \div A) * A
    BY <1>1, <1>5, RoundDown
  <2> QED
    BY <1>b, <2>1
<1>9. R + n <= End(b) /\ R + n < Word /\ R + n \in Nat
  BY <1>1, <1>2, <1>8, <1>a
<1>10. (R + n) % Word = R + n
  BY <1>1, <1>9, SmallMod
<1>11. Fits(b, q) <=> b.state = "FREE" /\ b.pa <= R
  BY <1>2, <1>4, <1>7, <1>8, <1>9, <1>10
<1>12. \A y \in Nat : y % A = 0 /\ y + n <= End(b) => y <= R
  <2>1. \A y \in Nat : y + n <= End(b) => y <= e
    BY <1>1, <1>2, <1>a
  <2> QED
    BY <1>8, <2>1
<1> QED
  BY <1>7, <1>8, <1>9, <1>11, <1>12 DEF A, n

\* A block that fits has room for whole pages at the address.
LEMMA FitsRoom ==
  ASSUME NEW r \in Regions, NEW q \in Requests, Sized(q, r),
         NEW b \in Block, Base[r] <= b.pa, End(b) <= Base[r] + Size[r], Fits(b, q)
  PROVE  /\ b.state = "FREE" /\ AllocStart(b, q) \in Nat
         /\ b.pa <= AllocStart(b, q) /\ AllocStart(b, q) + AllocSize(q.bytes) <= End(b)
         /\ AllocStart(b, q) % Alignment(q) = 0
         /\ AllocStart(b, q) % PageSize = 0
<1>1. /\ b.state = "FREE" /\ AllocStart(b, q) \in Nat
      /\ b.pa <= AllocStart(b, q) /\ AllocStart(b, q) + AllocSize(q.bytes) <= End(b)
      /\ AllocStart(b, q) % Alignment(q) = 0
  <2>1. CASE Upwards(q)
    BY <2>1, StartUp
  <2>2. CASE ~Upwards(q)
    BY <2>2, StartDown DEF Sized
  <2> QED
    BY <2>1, <2>2
<1>2. AllocStart(b, q) % (q.align_in_page * PageSize) = 0
  BY <1>1, RequestFacts
<1>3. AllocStart(b, q) % PageSize = 0
  BY <1>1, <1>2, RequestFacts, Constants, ModOfMultiple
<1> QED
  BY <1>1, <1>3

\* A request that the scan has let through finds the block it would get: a
\* free one, and the address lies in it.
LEMMA CandidateFits ==
  ASSUME NEW L \in Seq(Block), NEW q, Candidate(L, q) # 0
  PROVE  Candidate(L, q) \in 1 .. Len(L) /\ Fits(L[Candidate(L, q)], q)
<1> DEFINE fit == {i \in DOMAIN L : Fits(L[i], q)}
<1>1. DOMAIN L = 1 .. Len(L) /\ Len(L) \in Nat
  OBVIOUS
<1>2. fit \subseteq Nat /\ \A i \in fit : i <= Len(L)
  BY <1>1
<1>3. Candidate(L, q) = IF fit = {} THEN 0 ELSE IF Upwards(q) THEN Min(fit) ELSE Max(fit)
  BY DEF Candidate
<1>a. \A i \in fit : i \in 1 .. Len(L) /\ Fits(L[i], q)
  BY <1>1
<1> HIDE DEF fit
<1>4. fit # {}
  BY <1>3
<1>5. Min(fit) \in fit /\ Max(fit) \in fit
  BY <1>1, <1>2, <1>4, MinOf, MaxOf
<1>6. Candidate(L, q) \in fit
  BY <1>3, <1>4, <1>5
<1> QED
  BY <1>6, <1>a

-----------------------------------------------------------------------------
(* The inductive invariant.                                                *)

\* a buffer of an ioctl: its address and its length
Buffer == [pa : Nat, bytes : Nat]

\* the types of the variables
MmTypeOK ==
    /\ SessionOf \in [Threads -> Sessions]
    /\ blk \in [Regions -> Seq(Block)]
    /\ tot_free \in [Regions -> Nat]
    /\ sbuf \in [Sessions -> SUBSET Buffer]
    /\ session \in [Sessions -> {"open", "closing", "detaching", "closed"}]
    /\ rel \in [Sessions -> Buffer]
    /\ at \in [Threads -> {"idle", "scan", "try", "add", "free"}]
    /\ cur \in [Threads -> Int]
    /\ req \in [Threads -> Requests \cup {NoReq}]
    /\ buf \in [Threads -> Buffer]
    /\ leaked \in SUBSET Buffer

\* the blocks of a region tile it, with no two free neighbours, and tot_free_bytes
\* counts its free bytes
RegionOK(r) ==
    /\ Tiling(blk[r], Base[r], Base[r] + Size[r])
    /\ Coalesced(blk[r])
    /\ tot_free[r] = Cardinality(FreeBytes(r))

\* a file with an ioctl in progress is open; the scan is inside the list of
\* regions, and looks into a region only for a request that can be in it
ThreadOK(t) ==
    /\ at[t] # "idle" => session[SessionOf[t]] = "open"
    /\ at[t] \in {"scan", "try"} => req[t] \in Requests /\ cur[t] \in -1 .. RegionCnt - 1
    /\ at[t] = "try" => cur[t] \in Regions /\ Sized(req[t], cur[t])

\* aipu_release has freed at most the one buffer it is about to detach
SessionOK(s) ==
    /\ session[s] = "detaching" => rel[s] \in sbuf[s]
    /\ session[s] # "detaching" => rel[s] = NoBuf
    /\ session[s] = "closed" => sbuf[s] = {}
    /\ NoBuf \notin sbuf[s]

\* The inductive invariant: the lists, the threads, the sessions, and who holds what.
MmInv ==
    /\ MmTypeOK
    /\ \A r \in Regions : RegionOK(r)
    /\ \A t \in Threads : ThreadOK(t)
    /\ \A s \in Sessions : SessionOK(s)
    /\ BuffersAreBlocks
    /\ Allocated \subseteq Held \cup leaked

\* the same sets, said of the lists and of the holders
FreeOf(L, r) == {a \in Base[r] .. Base[r] + Size[r] - 1 : IsFree(L, a)}

\* FreeBytes is FreeOf the list, before and after a step.
LEMMA FreeBytesOf ==
  ASSUME NEW r \in Regions
  PROVE  /\ blk[r] \in Seq(Block) => FreeBytes(r) = FreeOf(blk[r], r)
         /\ blk'[r] \in Seq(Block) => FreeBytes(r)' = FreeOf(blk'[r], r)
<1>1. ASSUME blk[r] \in Seq(Block) PROVE FreeBytes(r) = FreeOf(blk[r], r)
  <2>1. DOMAIN blk[r] = 1 .. Len(blk[r])
    BY <1>1
  <2>2. \A a : (\E b \in Blocks(r) : b.state = "FREE" /\ b.pa <= a /\ a < b.pa + b.bytes)
                 <=> IsFree(blk[r], a)
    BY <2>1 DEF Blocks, IsFree, End
  <2> QED
    BY <2>2 DEF FreeBytes, FreeOf
<1>2. ASSUME blk'[r] \in Seq(Block) PROVE FreeBytes(r)' = FreeOf(blk'[r], r)
  <2>1. DOMAIN blk'[r] = 1 .. Len(blk'[r])
    BY <1>2
  <2>2. \A a : (\E b \in Blocks(r)' : b.state = "FREE" /\ b.pa <= a /\ a < b.pa + b.bytes)
                 <=> IsFree(blk'[r], a)
    BY <2>1 DEF Blocks, IsFree, End
  <2> QED
    BY <2>2 DEF FreeBytes, FreeOf
<1> QED
  BY <1>1, <1>2

\* Allocated is what the lists have.
LEMMA AllocatedIs ==
  /\ blk \in [Regions -> Seq(Block)] =>
       \A x : x \in Allocated <=> \E r \in Regions : HasAlloc(blk[r], x)
  /\ blk' \in [Regions -> Seq(Block)] =>
       \A x : x \in Allocated' <=> \E r \in Regions : HasAlloc(blk'[r], x)
<1>1. ASSUME blk \in [Regions -> Seq(Block)], NEW x
      PROVE  x \in Allocated <=> \E r \in Regions : HasAlloc(blk[r], x)
  <2>1. \A r \in Regions : DOMAIN blk[r] = 1 .. Len(blk[r])
    BY <1>1
  <2>2. x \in Allocated <=> \E r \in Regions : \E b \in Blocks(r) : b.state = "ALLOCATED" /\ BufOf(b) = x
    BY DEF Allocated, BufOf
  <2> QED
    BY <2>1, <2>2 DEF Blocks, HasAlloc
<1>2. ASSUME blk' \in [Regions -> Seq(Block)], NEW x
      PROVE  x \in Allocated' <=> \E r \in Regions : HasAlloc(blk'[r], x)
  <2>1. \A r \in Regions : DOMAIN blk'[r] = 1 .. Len(blk'[r])
    BY <1>2
  <2>2. x \in Allocated' <=> \E r \in Regions : \E b \in Blocks(r)' : b.state = "ALLOCATED" /\ BufOf(b) = x
    BY DEF Allocated, BufOf
  <2> QED
    BY <2>1, <2>2 DEF Blocks, HasAlloc
<1> QED
  BY <1>1, <1>2

\* Held is what the sessions list and what the threads carry.
LEMMA HeldIs ==
  /\ \A x : x \in Held <=> \/ \E s \in Sessions : x \in sbuf[s] \ {rel[s]}
                           \/ \E t \in Threads : at[t] \in {"add", "free"} /\ buf[t] = x
  /\ \A x : x \in Held' <=> \/ \E s \in Sessions : x \in sbuf'[s] \ {rel'[s]}
                            \/ \E t \in Threads : at'[t] \in {"add", "free"} /\ buf'[t] = x
<1>1. ASSUME NEW x
      PROVE  x \in Held <=> \/ \E s \in Sessions : x \in sbuf[s] \ {rel[s]}
                            \/ \E t \in Threads : at[t] \in {"add", "free"} /\ buf[t] = x
  <2>1. x \in Held <=> \/ x \in UNION {sbuf[s] \ {rel[s]} : s \in Sessions}
                       \/ x \in {buf[t] : t \in {u \in Threads : at[u] \in {"add", "free"}}}
    BY DEF Held
  <2>2. x \in {buf[t] : t \in {u \in Threads : at[u] \in {"add", "free"}}}
          <=> \E t \in Threads : at[t] \in {"add", "free"} /\ buf[t] = x
    OBVIOUS
  <2>3. x \in UNION {sbuf[s] \ {rel[s]} : s \in Sessions}
          <=> \E s \in Sessions : x \in sbuf[s] \ {rel[s]}
    OBVIOUS
  <2> QED
    BY <2>1, <2>2, <2>3
<1>2. ASSUME NEW x
      PROVE  x \in Held' <=> \/ \E s \in Sessions : x \in sbuf'[s] \ {rel'[s]}
                             \/ \E t \in Threads : at'[t] \in {"add", "free"} /\ buf'[t] = x
  <2>1. x \in Held' <=> \/ x \in UNION {sbuf'[s] \ {rel'[s]} : s \in Sessions}
                        \/ x \in {buf'[t] : t \in {u \in Threads : at'[u] \in {"add", "free"}}}
    BY DEF Held
  <2>2. x \in {buf'[t] : t \in {u \in Threads : at'[u] \in {"add", "free"}}}
          <=> \E t \in Threads : at'[t] \in {"add", "free"} /\ buf'[t] = x
    OBVIOUS
  <2>3. x \in UNION {sbuf'[s] \ {rel'[s]} : s \in Sessions}
          <=> \E s \in Sessions : x \in sbuf'[s] \ {rel'[s]}
    OBVIOUS
  <2> QED
    BY <2>1, <2>2, <2>3
<1> QED
  BY <1>1, <1>2

\* An allocated buffer is in one region only, has its address to itself, and
\* shares no byte with a free block.
LEMMA HasAllocFacts ==
  ASSUME NEW L, NEW r \in Regions, Tiling(L, Base[r], Base[r] + Size[r]),
         NEW x, HasAlloc(L, x)
  PROVE  \E k \in 1 .. Len(L) :
           /\ L[k].state = "ALLOCATED" /\ BufOf(L[k]) = x
           /\ x.pa = L[k].pa /\ x.bytes = L[k].bytes
           /\ x \in Buffer /\ x.pa + x.bytes = End(L[k]) /\ x.bytes > 0
           /\ x.pa % PageSize = 0 /\ x.bytes % PageSize = 0
           /\ Base[r] <= x.pa /\ x.pa + x.bytes <= Base[r] + Size[r]
<1>1. PICK k \in 1 .. Len(L) : L[k].state = "ALLOCATED" /\ BufOf(L[k]) = x
  BY DEF HasAlloc
<1>2. L \in Seq(Block)
  BY DEF Tiling
<1>3. /\ L[k].pa \in Nat /\ L[k].bytes \in Nat /\ End(L[k]) = L[k].pa + L[k].bytes
      /\ L[k].bytes > 0 /\ L[k].bytes % PageSize = 0 /\ L[k].pa % PageSize = 0
  BY <1>2, BlockFields DEF Tiling
<1>4. Base[r] <= L[k].pa /\ End(L[k]) <= Base[r] + Size[r]
  BY TilingBounds
<1>5. x = [pa |-> L[k].pa, bytes |-> L[k].bytes]
  BY <1>1 DEF BufOf
<1>6. x.pa = L[k].pa /\ x.bytes = L[k].bytes /\ x \in Buffer
  BY <1>3, <1>5 DEF Buffer
<1> QED
  BY <1>1, <1>3, <1>4, <1>6

\* Regions do not overlap, so a buffer lies in one.
LEMMA SameRegion ==
  ASSUME NEW r \in Regions, NEW q \in Regions, NEW x \in Buffer, x.bytes > 0,
         Base[r] <= x.pa, x.pa + x.bytes <= Base[r] + Size[r],
         Base[q] <= x.pa, x.pa + x.bytes <= Base[q] + Size[q]
  PROVE  r = q
<1>1. x.pa \in Nat /\ x.bytes \in Nat
  BY DEF Buffer
<1>2. Base[r] \in Nat /\ Base[q] \in Nat /\ Size[r] \in Nat /\ Size[q] \in Nat
  BY Constants
<1>3. r # q => Base[r] + Size[r] <= Base[q] \/ Base[q] + Size[q] <= Base[r]
  BY Constants
<1> QED
  BY <1>1, <1>2, <1>3

-----------------------------------------------------------------------------
(* What allocating and freeing do to the regions.                          *)

RegionsOK == \A r \in Regions : RegionOK(r)

\* The free bytes of a region can be counted.
LEMMA FreeBytesFinite ==
  ASSUME NEW r \in Regions, NEW L
  PROVE  IsFiniteSet(FreeOf(L, r))
<1>1. Base[r] \in Int /\ Base[r] + Size[r] - 1 \in Int
  BY Constants
<1>2. IsFiniteSet(Base[r] .. Base[r] + Size[r] - 1)
  BY <1>1, FS_Interval
<1> QED
  BY <1>2, FS_Subset DEF FreeOf

\* the bytes of a range
Bytes(start, n) == start .. start + n - 1

\* So can the bytes of a range: there are as many as it is long.
LEMMA BytesCount ==
  ASSUME NEW start \in Nat, NEW n \in Nat
  PROVE  /\ IsFiniteSet(Bytes(start, n)) /\ Cardinality(Bytes(start, n)) = n
         /\ \A a : a \in Bytes(start, n) <=> a \in Int /\ start <= a /\ a < start + n
<1>1. start \in Int /\ start + n - 1 \in Int
  OBVIOUS
<1>2. /\ IsFiniteSet(start .. start + n - 1)
      /\ Cardinality(start .. start + n - 1) = IF start > start + n - 1 THEN 0 ELSE start + n - 1 - start + 1
  BY <1>1, FS_Interval
<1>3. (IF start > start + n - 1 THEN 0 ELSE start + n - 1 - start + 1) = n
  OBVIOUS
<1>4. \A a : a \in start .. start + n - 1 <=> a \in Int /\ start <= a /\ a < start + n
  OBVIOUS
<1> QED
  BY <1>2, <1>3, <1>4 DEF Bytes

\* A region whose list and counter stay is as it was.
LEMMA OtherRegions ==
  ASSUME blk \in [Regions -> Seq(Block)], blk' \in [Regions -> Seq(Block)],
         NEW r \in Regions, RegionOK(r), blk'[r] = blk[r], tot_free'[r] = tot_free[r]
  PROVE  RegionOK(r)'
<1>1. FreeBytes(r)' = FreeBytes(r)
  BY FreeBytesOf
<1> QED
  BY <1>1 DEF RegionOK

\* the allocated buffers are those of before, and x
Gains(x) == \A y : y \in Allocated' <=> y \in Allocated \/ y = x

\* Splitting a free block of a region allocates one buffer and keeps all regions.
LEMMA AllocEffect ==
  ASSUME MmTypeOK, RegionsOK, NEW r \in Regions, NEW i \in 1 .. Len(blk[r]),
         blk[r][i].state = "FREE",
         NEW start \in Nat, NEW n \in Nat \ {0}, start % PageSize = 0, n % PageSize = 0,
         blk[r][i].pa <= start, start + n <= End(blk[r][i]),
         blk' = [blk EXCEPT ![r] = SplitBlock(@, i, start, n)],
         tot_free' = [tot_free EXCEPT ![r] = @ - n]
  PROVE  /\ blk' \in [Regions -> Seq(Block)] /\ tot_free' \in [Regions -> Nat]
         /\ RegionsOK'
         /\ Gains([pa |-> start, bytes |-> n])
<1> DEFINE L == blk[r]
           M == SplitBlock(L, i, start, n)
           from == Base[r]
           to == Base[r] + Size[r]
<1>0. blk \in [Regions -> Seq(Block)] /\ tot_free \in [Regions -> Nat]
  BY DEF MmTypeOK
<1>1. Tiling(L, from, to) /\ Coalesced(L) /\ tot_free[r] = Cardinality(FreeBytes(r))
  BY DEF RegionsOK, RegionOK
<1>2. IsCut(M, L, from, to, start, n)
  BY <1>1, SplitEffect
<1>3. blk'[r] = M /\ \A p \in Regions : p # r => blk'[p] = blk[p]
  BY <1>0
<1>4. tot_free'[r] = tot_free[r] - n /\ \A p \in Regions : p # r => tot_free'[p] = tot_free[p]
  BY <1>0
<1>5. M \in Seq(Block) /\ Tiling(M, from, to) /\ Coalesced(M)
  BY <1>2 DEF IsCut, Tiling
<1> HIDE DEF M
<1>6. blk' \in [Regions -> Seq(Block)]
  BY <1>0, <1>3, <1>5
<1>7. FreeBytes(r) = FreeOf(L, r) /\ FreeBytes(r)' = FreeOf(M, r)
  BY <1>0, <1>3, <1>5, FreeBytesOf
<1>b. /\ Base[r] \in Nat /\ Size[r] \in Nat
      /\ from <= L[i].pa /\ End(L[i]) <= to /\ L[i].pa \in Nat /\ End(L[i]) \in Nat
  BY <1>0, <1>1, Constants, TilingBounds, BlockFields
<1>8. Bytes(start, n) \subseteq FreeOf(L, r)
  <2> SUFFICES ASSUME NEW a \in Bytes(start, n) PROVE a \in FreeOf(L, r)
    OBVIOUS
  <2>1. a \in Int /\ start <= a /\ a < start + n
    BY BytesCount
  <2>2. L[i].pa <= a /\ a < End(L[i])
    BY <1>b, <2>1
  <2>3. IsFree(L, a)
    BY <2>2 DEF IsFree
  <2>4. a \in Base[r] .. Base[r] + Size[r] - 1
    BY SMTT(30), <1>b, <2>1, <2>2
  <2> QED
    BY <2>3, <2>4 DEF FreeOf
<1>9. FreeOf(M, r) = FreeOf(L, r) \ Bytes(start, n)
  <2>1. \A a \in Int : IsFree(M, a) <=> IsFree(L, a) /\ a \notin Bytes(start, n)
    BY <1>2, BytesCount DEF IsCut
  <2>2. \A a \in Base[r] .. Base[r] + Size[r] - 1 : a \in Int
    OBVIOUS
  <2> QED
    BY <2>1, <2>2 DEF FreeOf
<1>10. Cardinality(FreeOf(M, r)) = Cardinality(FreeOf(L, r)) - n
  <2>1. Cardinality(FreeOf(M, r)) = Cardinality(FreeOf(L, r)) - Cardinality(FreeOf(L, r) \cap Bytes(start, n))
    BY <1>9, FreeBytesFinite, FS_Difference
  <2>2. FreeOf(L, r) \cap Bytes(start, n) = Bytes(start, n)
    BY <1>8
  <2> QED
    BY <2>1, <2>2, BytesCount
<1>11. Cardinality(FreeOf(M, r)) \in Nat
  BY FreeBytesFinite, FS_CardinalityType
<1>12. tot_free'[r] = Cardinality(FreeBytes(r)')
  BY <1>1, <1>4, <1>7, <1>10
<1>13. tot_free' \in [Regions -> Nat]
  <2>1. tot_free[r] - n \in Nat
    BY <1>1, <1>7, <1>10, <1>11
  <2> QED
    BY <1>0, <2>1
<1>14. RegionsOK'
  <2> SUFFICES ASSUME NEW p \in Regions PROVE RegionOK(p)'
    BY DEF RegionsOK
  <2>1. CASE p = r
    BY <1>3, <1>5, <1>12, <2>1 DEF RegionOK
  <2>2. CASE p # r
    <3>1. RegionOK(p)
      BY DEF RegionsOK
    <3> QED
      BY <1>0, <1>3, <1>4, <1>6, <2>2, <3>1, OtherRegions
  <2> QED
    BY <2>1, <2>2
<1>15. ASSUME NEW x
       PROVE  x \in Allocated' <=> x \in Allocated \/ x = [pa |-> start, bytes |-> n]
  <2>1. x \in Allocated' <=> \E p \in Regions : HasAlloc(blk'[p], x)
    BY <1>6, AllocatedIs
  <2>2. x \in Allocated <=> \E p \in Regions : HasAlloc(blk[p], x)
    BY <1>0, AllocatedIs
  <2>3. HasAlloc(M, x) <=> HasAlloc(L, x) \/ x = [pa |-> start, bytes |-> n]
    BY <1>2 DEF IsCut
  <2> QED
    BY <1>3, <2>1, <2>2, <2>3
<1>16. Gains([pa |-> start, bytes |-> n])
  BY <1>15 DEF Gains
<1> QED
  BY <1>6, <1>13, <1>14, <1>16

\* The new buffer overlaps no buffer that was allocated before.
LEMMA AllocApart ==
  ASSUME MmTypeOK, RegionsOK, NEW r \in Regions, NEW i \in 1 .. Len(blk[r]),
         blk[r][i].state = "FREE",
         NEW start \in Nat, NEW n \in Nat \ {0},
         blk[r][i].pa <= start, start + n <= End(blk[r][i]),
         NEW x \in Allocated
  PROVE  /\ x.pa \in Nat /\ x.bytes \in Nat
         /\ x.pa + x.bytes <= start \/ start + n <= x.pa
<1>0. blk \in [Regions -> Seq(Block)]
  BY DEF MmTypeOK
<1>1. PICK p \in Regions : HasAlloc(blk[p], x)
  BY <1>0, AllocatedIs
<1>2. /\ Tiling(blk[p], Base[p], Base[p] + Size[p])
      /\ Tiling(blk[r], Base[r], Base[r] + Size[r])
  BY DEF RegionsOK, RegionOK
<1>3. PICK k \in 1 .. Len(blk[p]) :
        /\ blk[p][k].state = "ALLOCATED" /\ BufOf(blk[p][k]) = x
        /\ x.pa = blk[p][k].pa /\ x.bytes = blk[p][k].bytes
        /\ x \in Buffer /\ x.pa + x.bytes = End(blk[p][k]) /\ x.bytes > 0
        /\ x.pa % PageSize = 0 /\ x.bytes % PageSize = 0
        /\ Base[p] <= x.pa /\ x.pa + x.bytes <= Base[p] + Size[p]
  BY <1>1, <1>2, HasAllocFacts
<1>4. x.pa \in Nat /\ x.bytes \in Nat
  BY <1>3 DEF Buffer
<1>5. /\ Base[r] <= blk[r][i].pa /\ End(blk[r][i]) <= Base[r] + Size[r]
      /\ blk[r][i].pa \in Nat /\ End(blk[r][i]) \in Nat
  BY <1>0, <1>2, TilingBounds, BlockFields
<1>6. CASE p # r
  <2>1. Base[r] + Size[r] <= Base[p] \/ Base[p] + Size[p] <= Base[r]
    BY <1>6, Constants
  <2>2. Base[r] \in Nat /\ Base[p] \in Nat /\ Size[r] \in Nat /\ Size[p] \in Nat
    BY Constants
  <2>3. /\ Base[p] <= x.pa /\ x.pa + x.bytes <= Base[p] + Size[p]
        /\ Base[r] <= start /\ start + n <= Base[r] + Size[r]
    <3>1. Base[p] <= x.pa /\ x.pa + x.bytes <= Base[p] + Size[p]
      BY <1>3
    <3>2. Base[r] <= start /\ start + n <= Base[r] + Size[r]
      <4>1. PICK lo \in Nat, hi \in Nat : lo = blk[r][i].pa /\ hi = End(blk[r][i])
        BY <1>5
      <4>2. Base[r] <= lo /\ lo <= start
        BY <1>5, <4>1
      <4>3. hi <= Base[r] + Size[r] /\ start + n <= hi
        BY <1>5, <4>1
      <4>4. Base[r] + Size[r] \in Nat /\ start + n \in Nat
        BY <2>2
      <4> QED
        BY SMTT(30), <2>2, <4>2, <4>3, <4>4
    <3> QED
      BY <3>1, <3>2
  <2>4. CASE Base[r] + Size[r] <= Base[p]
    BY <1>4, <2>2, <2>3, <2>4
  <2>5. CASE Base[p] + Size[p] <= Base[r]
    BY SMTT(30), <1>4, <2>2, <2>3, <2>5
  <2> QED
    BY <1>4, <2>1, <2>4, <2>5
<1>7. CASE p = r
  <2>1. k # i
    BY <1>3, <1>7
  <2>2. k < i \/ i < k
    <3>1. k \in Int /\ i \in Int
      BY <1>0
    <3> QED
      BY <2>1, <3>1
  <2>3. End(blk[r][k]) <= blk[r][i].pa \/ End(blk[r][i]) <= blk[r][k].pa
    BY <1>2, <1>7, <2>2 DEF Tiling
  <2> QED
    BY SMTT(30), <1>3, <1>4, <1>5, <1>7, <2>3
<1> QED
  BY <1>4, <1>6, <1>7

\* Freeing an allocated buffer finds its block and no other.
LEMMA FreeEffect ==
  ASSUME MmTypeOK, RegionsOK, NEW x \in Allocated, MmFree(x)
  PROVE  /\ blk' \in [Regions -> Seq(Block)] /\ tot_free' \in [Regions -> Nat]
         /\ RegionsOK'
         /\ \A y : y \in Allocated' <=> y \in Allocated /\ y # x
<1>0. blk \in [Regions -> Seq(Block)] /\ tot_free \in [Regions -> Nat]
  BY DEF MmTypeOK
<1>1. PICK p \in Regions : HasAlloc(blk[p], x)
  BY <1>0, AllocatedIs
<1>2. \A q \in Regions : Tiling(blk[q], Base[q], Base[q] + Size[q]) /\ Coalesced(blk[q])
  BY DEF RegionsOK, RegionOK
<1>3. PICK k \in 1 .. Len(blk[p]) :
        /\ blk[p][k].state = "ALLOCATED" /\ BufOf(blk[p][k]) = x
        /\ x.pa = blk[p][k].pa /\ x.bytes = blk[p][k].bytes
        /\ x \in Buffer /\ x.pa + x.bytes = End(blk[p][k]) /\ x.bytes > 0
        /\ x.pa % PageSize = 0 /\ x.bytes % PageSize = 0
        /\ Base[p] <= x.pa /\ x.pa + x.bytes <= Base[p] + Size[p]
  BY <1>1, <1>2, HasAllocFacts
<1>4. PICK r \in RegionOf(x) :
        LET match == {i \in DOMAIN blk[r] : blk[r][i].pa = x.pa /\ blk[r][i].bytes = x.bytes}
        IN /\ match # {}
           /\ blk' = [blk EXCEPT ![r] = MergeBlocks(@, Min(match))]
           /\ tot_free' = [tot_free EXCEPT ![r] = @ + x.bytes]
  BY DEF MmFree
<1>5. r = p
  <2>1. r \in Regions /\ Base[r] <= x.pa /\ x.pa + x.bytes <= Base[r] + Size[r]
    BY DEF RegionOf
  <2> QED
    BY <1>3, <2>1, SameRegion
<1> DEFINE L == blk[p]
           match == {i \in DOMAIN L : L[i].pa = x.pa /\ L[i].bytes = x.bytes}
           M == MergeBlocks(L, k)
           from == Base[p]
           to == Base[p] + Size[p]
<1>6. L \in Seq(Block) /\ Tiling(L, from, to) /\ Coalesced(L) /\ DOMAIN L = 1 .. Len(L) /\ Len(L) \in Nat
  BY <1>0, <1>2
<1>7. \A i \in 1 .. Len(L) : L[i].pa = x.pa => i = k
  <2> SUFFICES ASSUME NEW i \in 1 .. Len(L), L[i].pa = x.pa, i # k PROVE FALSE
    OBVIOUS
  <2>1. i < k \/ k < i
    <3>1. i \in Int /\ k \in Int
      BY <1>6
    <3> QED
      BY <3>1
  <2>2. End(L[i]) <= L[k].pa \/ End(L[k]) <= L[i].pa
    BY <1>6, <2>1 DEF Tiling
  <2>3. /\ L[i].pa \in Nat /\ L[k].pa \in Nat /\ End(L[i]) \in Nat /\ End(L[k]) \in Nat
        /\ L[i].pa < End(L[i]) /\ L[k].pa < End(L[k])
    BY <1>6, BlockFields, TilingBounds
  <2> QED
    BY <1>3, <2>2, <2>3
<1>8. match = {k}
  BY <1>3, <1>6, <1>7
<1>9. Min(match) = k
  <2>1. match \subseteq Nat /\ match # {}
    BY <1>6, <1>8
  <2>2. Min(match) \in match
    BY <2>1, MinOf
  <2> QED
    BY <1>8, <2>2
<1>10. blk' = [blk EXCEPT ![p] = M] /\ tot_free' = [tot_free EXCEPT ![p] = @ + x.bytes]
  BY <1>4, <1>5, <1>9
<1>11. /\ Tiling(M, from, to) /\ Coalesced(M)
       /\ \A y : HasAlloc(M, y) <=> HasAlloc(L, y) /\ y # BufOf(L[k])
       /\ \A a \in Int : IsFree(M, a) <=> IsFree(L, a) \/ (L[k].pa <= a /\ a < End(L[k]))
  BY <1>3, <1>6, MergeEffect
<1> HIDE DEF match, M
<1>12. blk'[p] = M /\ \A q \in Regions : q # p => blk'[q] = blk[q]
  BY <1>0, <1>10
<1>13. tot_free'[p] = tot_free[p] + x.bytes /\ \A q \in Regions : q # p => tot_free'[q] = tot_free[q]
  BY <1>0, <1>10
<1>14. M \in Seq(Block)
  BY <1>11 DEF Tiling
<1>15. blk' \in [Regions -> Seq(Block)]
  BY <1>0, <1>10, <1>14
<1>16. FreeBytes(p) = FreeOf(L, p) /\ FreeBytes(p)' = FreeOf(M, p)
  BY <1>0, <1>12, <1>14, FreeBytesOf
<1>17. x.pa \in Nat /\ x.bytes \in Nat
  BY <1>3 DEF Buffer
<1>18. \A a : a \in Bytes(x.pa, x.bytes) <=> a \in Int /\ L[k].pa <= a /\ a < End(L[k])
  <2>1. L[k].pa = x.pa /\ End(L[k]) = x.pa + x.bytes
    BY <1>3
  <2> QED
    BY <1>17, <2>1, BytesCount
<1>19. Base[p] \in Nat /\ Size[p] \in Nat
  BY Constants
<1>20. FreeOf(M, p) = FreeOf(L, p) \cup Bytes(x.pa, x.bytes)
  <2>1. \A a \in Int : IsFree(M, a) <=> IsFree(L, a) \/ a \in Bytes(x.pa, x.bytes)
    BY <1>11, <1>18
  <2>2. \A a \in Base[p] .. Base[p] + Size[p] - 1 : a \in Int
    OBVIOUS
  <2>3. \A a \in Bytes(x.pa, x.bytes) : a \in Base[p] .. Base[p] + Size[p] - 1
    <3> SUFFICES ASSUME NEW a \in Bytes(x.pa, x.bytes)
                 PROVE  a \in Base[p] .. Base[p] + Size[p] - 1
      OBVIOUS
    <3>1. a \in Int /\ x.pa <= a /\ a < x.pa + x.bytes
      BY <1>17, BytesCount
    <3>2. Base[p] <= x.pa /\ x.pa + x.bytes <= Base[p] + Size[p]
      BY <1>3
    <3> QED
      BY <1>17, <1>19, <3>1, <3>2
  <2> QED
    BY <2>1, <2>2, <2>3 DEF FreeOf
<1>21. FreeOf(L, p) \cap Bytes(x.pa, x.bytes) = {}
  <2> SUFFICES ASSUME NEW a \in Int, IsFree(L, a), L[k].pa <= a, a < End(L[k]) PROVE FALSE
    BY <1>18 DEF FreeOf
  <2>1. PICK i \in 1 .. Len(L) : L[i].state = "FREE" /\ L[i].pa <= a /\ a < End(L[i])
    BY DEF IsFree
  <2>2. i # k
    BY <1>3, <2>1
  <2>3. i < k \/ k < i
    <3>1. i \in Int /\ k \in Int
      BY <1>6
    <3> QED
      BY <2>2, <3>1
  <2>4. End(L[i]) <= L[k].pa \/ End(L[k]) <= L[i].pa
    BY <1>6, <2>3 DEF Tiling
  <2>5. L[i].pa \in Nat /\ L[k].pa \in Nat /\ End(L[i]) \in Nat /\ End(L[k]) \in Nat
    BY <1>6, BlockFields
  <2> QED
    BY <2>1, <2>4, <2>5
<1>22. Cardinality(FreeOf(M, p)) = Cardinality(FreeOf(L, p)) + x.bytes
  <2>1. /\ IsFiniteSet(Bytes(x.pa, x.bytes)) /\ Cardinality(Bytes(x.pa, x.bytes)) = x.bytes
    BY <1>17, BytesCount
  <2>2. Cardinality(FreeOf(M, p)) = Cardinality(FreeOf(L, p)) + x.bytes - Cardinality({})
    BY <1>20, <1>21, <2>1, FreeBytesFinite, FS_Union
  <2>3. Cardinality(FreeOf(L, p)) \in Nat
    BY FreeBytesFinite, FS_CardinalityType
  <2> QED
    BY <1>17, <2>2, <2>3, FS_EmptySet
<1>23. tot_free'[p] = Cardinality(FreeBytes(p)')
  <2>1. tot_free[p] = Cardinality(FreeBytes(p))
    BY DEF RegionsOK, RegionOK
  <2> QED
    BY <1>13, <1>16, <1>22, <2>1
<1>24. tot_free' \in [Regions -> Nat]
  <2>1. tot_free[p] + x.bytes \in Nat
    BY <1>0, <1>17
  <2> QED
    BY <1>0, <1>10, <2>1
<1>25. RegionsOK'
  <2> SUFFICES ASSUME NEW q \in Regions PROVE RegionOK(q)'
    BY DEF RegionsOK
  <2>1. CASE q = p
    BY <1>11, <1>12, <1>23, <2>1 DEF RegionOK
  <2>2. CASE q # p
    <3>1. RegionOK(q)
      BY DEF RegionsOK
    <3> QED
      BY <1>0, <1>12, <1>13, <1>15, <2>2, <3>1, OtherRegions
  <2> QED
    BY <2>1, <2>2
<1>26. ASSUME NEW y PROVE y \in Allocated' <=> y \in Allocated /\ y # x
  <2>1. y \in Allocated' <=> \E q \in Regions : HasAlloc(blk'[q], y)
    BY <1>15, AllocatedIs
  <2>2. y \in Allocated <=> \E q \in Regions : HasAlloc(blk[q], y)
    BY <1>0, AllocatedIs
  <2>3. HasAlloc(M, y) <=> HasAlloc(L, y) /\ y # x
    BY <1>3, <1>11
  <2>4. \A q \in Regions : HasAlloc(blk[q], x) => q = p
    <3> SUFFICES ASSUME NEW q \in Regions, HasAlloc(blk[q], x) PROVE q = p
      OBVIOUS
    <3>1. Base[q] <= x.pa /\ x.pa + x.bytes <= Base[q] + Size[q]
      BY <1>2, HasAllocFacts
    <3> QED
      BY <1>3, <3>1, SameRegion
  <2> QED
    BY <1>12, <2>1, <2>2, <2>3, <2>4
<1> QED
  BY <1>15, <1>24, <1>25, <1>26

-----------------------------------------------------------------------------
(* Every step keeps the invariant.                                         *)

ThreadsOK == \A t \in Threads : ThreadOK(t)
SessionsOK == \A s \in Sessions : SessionOK(s)

\* The invariant by its parts, before and after a step.
LEMMA InvParts ==
  /\ MmInv <=> /\ MmTypeOK /\ RegionsOK /\ ThreadsOK /\ SessionsOK
               /\ BuffersAreBlocks /\ Allocated \subseteq Held \cup leaked
  /\ MmInv' <=> /\ MmTypeOK' /\ RegionsOK' /\ ThreadsOK' /\ SessionsOK'
                /\ BuffersAreBlocks' /\ Allocated' \subseteq Held' \cup leaked'
BY DEF MmInv, RegionsOK, ThreadsOK, SessionsOK

\* A step that leaves the lists alone leaves the regions alone.
LEMMA QuietRegions ==
  ASSUME MmTypeOK, RegionsOK, UNCHANGED <<blk, tot_free>>
  PROVE  RegionsOK' /\ Allocated' = Allocated
<1>1. blk' = blk /\ tot_free' = tot_free
  OBVIOUS
<1>2. Allocated' = Allocated
  BY <1>1 DEF Allocated, Blocks
<1>3. RegionsOK'
  BY <1>1 DEF RegionsOK, RegionOK, FreeBytes, Blocks
<1> QED
  BY <1>2, <1>3

\* A step that moves no buffer keeps what holds of the holders.
LEMMA QuietHolders ==
  ASSUME MmTypeOK, MmTypeOK', BuffersAreBlocks, Allocated \subseteq Held \cup leaked,
         Allocated' = Allocated, leaked' = leaked,
         \A s \in Sessions : sbuf'[s] \ {rel'[s]} = sbuf[s] \ {rel[s]},
         \A t \in Threads : /\ at'[t] \in {"add", "free"} <=> at[t] \in {"add", "free"}
                            /\ buf'[t] = buf[t]
  PROVE  BuffersAreBlocks' /\ Allocated' \subseteq Held' \cup leaked'
<1>1. Held' = Held
  BY HeldIs
<1>2. Held' \cup leaked' \subseteq Allocated'
  BY <1>1 DEF BuffersAreBlocks
<1>3. \A s, u \in Sessions : s # u => (sbuf'[s] \ {rel'[s]}) \cap (sbuf'[u] \ {rel'[u]}) = {}
  BY DEF BuffersAreBlocks
<1>4. \A t \in Threads : at'[t] \in {"add", "free"} =>
         /\ \A s \in Sessions : buf'[t] \notin sbuf'[s] \ {rel'[s]}
         /\ \A u \in Threads : u # t /\ at'[u] \in {"add", "free"} => buf'[u] # buf'[t]
  BY DEF BuffersAreBlocks
<1>5. leaked' \cap Held' = {}
  BY <1>1 DEF BuffersAreBlocks
<1> QED
  BY <1>1, <1>2, <1>3, <1>4, <1>5 DEF BuffersAreBlocks

\* tot_free_bytes is at most the size of the region
LEMMA TotFreeBound ==
  ASSUME MmTypeOK, RegionsOK, NEW r \in Regions
  PROVE  tot_free[r] <= Size[r]
<1>1. Base[r] \in Nat /\ Size[r] \in Nat \ {0}
  BY Constants
<1>2. /\ IsFiniteSet(Base[r] .. Base[r] + Size[r] - 1)
      /\ Cardinality(Base[r] .. Base[r] + Size[r] - 1) = Size[r]
  <2>1. Base[r] .. Base[r] + Size[r] - 1 = Bytes(Base[r], Size[r])
    BY DEF Bytes
  <2> QED
    BY <1>1, <2>1, BytesCount
<1>3. Cardinality(FreeBytes(r)) <= Size[r]
  BY <1>2, FS_Subset DEF FreeBytes
<1> QED
  BY <1>3 DEF RegionsOK, RegionOK

\* An allocated buffer is not the null buffer.
LEMMA AllocatedNotNull ==
  ASSUME MmTypeOK, RegionsOK, NEW x \in Allocated
  PROVE  x # NoBuf /\ x \in Buffer
<1>1. PICK r \in Regions : HasAlloc(blk[r], x)
  BY AllocatedIs DEF MmTypeOK
<1>2. Tiling(blk[r], Base[r], Base[r] + Size[r])
  BY DEF RegionsOK, RegionOK
<1>3. x \in Buffer /\ x.bytes > 0
  BY <1>1, <1>2, HasAllocFacts
<1> QED
  BY <1>3 DEF NoBuf

-----------------------------------------------------------------------------
\* Each action keeps the invariant.  REQBUF begins: it holds nothing yet.
LEMMA ReqBufKeeps ==
  ASSUME MmInv, NEW t \in Threads, NEW q \in Requests, ReqBuf(t, q)
  PROVE  MmInv'
<1> USE InvParts
<1>1. MmTypeOK /\ MmTypeOK'
  BY Constants DEF ReqBuf, MmTypeOK
<1>2. RegionsOK' /\ Allocated' = Allocated
  BY QuietRegions DEF ReqBuf
<1>3. ThreadsOK'
  <2>1. RegionCnt - 1 \in -1 .. RegionCnt - 1
    BY Constants
  <2>2. ThreadOK(t)'
    BY <1>1, <2>1 DEF ReqBuf, MmTypeOK, ThreadOK
  <2>3. ASSUME NEW u \in Threads, u # t PROVE ThreadOK(u)'
    BY <1>1, <2>3 DEF ReqBuf, MmTypeOK, ThreadOK, ThreadsOK
  <2> QED
    BY <2>2, <2>3 DEF ThreadsOK
<1>4. SessionsOK'
  BY DEF ReqBuf, SessionsOK, SessionOK
<1>5. \A u \in Threads : at'[u] \in {"add", "free"} <=> at[u] \in {"add", "free"}
  BY <1>1 DEF ReqBuf, MmTypeOK
<1>6. BuffersAreBlocks' /\ Allocated' \subseteq Held' \cup leaked'
  BY <1>1, <1>2, <1>5, QuietHolders DEF ReqBuf
<1> QED
  BY <1>1, <1>2, <1>3, <1>4, <1>6

\* The scan passes a region over, or chooses it because it may hold the request.
LEMMA ScanRegionKeeps ==
  ASSUME MmInv, NEW t \in Threads, ScanRegion(t)
  PROVE  MmInv'
<1> USE InvParts
<1>0. /\ at[t] = "scan" /\ req[t] \in Requests /\ cur[t] \in -1 .. RegionCnt - 1 /\ cur[t] >= 0
      /\ cur[t] \in Regions
  <2>1. at[t] = "scan" /\ cur[t] >= 0
    BY DEF ScanRegion
  <2>2. req[t] \in Requests /\ cur[t] \in -1 .. RegionCnt - 1
    BY <2>1 DEF ThreadsOK, ThreadOK
  <2> QED
    BY <2>1, <2>2, Constants DEF Regions
<1>1. MmTypeOK /\ MmTypeOK'
  <2>1. cur' \in [Threads -> Int]
    BY <1>0 DEF ScanRegion, MmTypeOK
  <2>2. at' \in [Threads -> {"idle", "scan", "try", "add", "free"}]
    BY DEF ScanRegion, MmTypeOK
  <2> QED
    BY <2>1, <2>2 DEF ScanRegion, MmTypeOK
<1>2. RegionsOK' /\ Allocated' = Allocated
  BY QuietRegions DEF ScanRegion
<1>3. ThreadsOK'
  <2>1. ThreadOK(t)'
    <3>1. CASE at' = [at EXCEPT ![t] = "try"] /\ UNCHANGED cur
      <4>1. at'[t] = "try" /\ cur'[t] = cur[t] /\ req'[t] = req[t]
        BY <1>1, <3>1 DEF ScanRegion, MmTypeOK
      <4>2. Sized(req[t], cur[t])
        <5>1. \/ req[t].data_type = "RO_STACK"
              \/ tot_free[cur[t]] >= AllocSize(req[t].bytes)
          <6>1. at' # at
            BY <1>0, <1>1, <4>1
          <6> QED
            BY <6>1 DEF ScanRegion
        <5>2. tot_free[cur[t]] <= Size[cur[t]]
          BY <1>0, <1>1, TotFreeBound
        <5>3. /\ tot_free[cur[t]] \in Nat /\ Size[cur[t]] \in Nat
              /\ AllocSize(req[t].bytes) \in Nat
          BY <1>0, <1>1, Constants, RequestFacts DEF MmTypeOK
        <5>4. tot_free[cur[t]] >= AllocSize(req[t].bytes) => AllocSize(req[t].bytes) <= Size[cur[t]]
          BY <5>2, <5>3
        <5> QED
          BY <5>1, <5>4 DEF Sized, Upwards
      <4>3. session'[SessionOf'[t]] = "open"
        BY <1>0 DEF ScanRegion, ThreadsOK, ThreadOK
      <4>4. Sized(req'[t], cur'[t])
        BY <4>1, <4>2
      <4> QED
        BY <1>0, <4>1, <4>3, <4>4 DEF ThreadOK
    <3>2. CASE cur' = [cur EXCEPT ![t] = @ - 1] /\ UNCHANGED at
      <4>1. cur'[t] = cur[t] - 1 /\ at'[t] = "scan" /\ req'[t] = req[t]
        BY <1>0, <1>1, <3>2 DEF ScanRegion, MmTypeOK
      <4>2. cur'[t] \in -1 .. RegionCnt - 1
        BY <1>0, <4>1, Constants
      <4>3. session'[SessionOf'[t]] = "open"
        BY <1>0 DEF ScanRegion, ThreadsOK, ThreadOK
      <4> QED
        BY <1>0, <4>1, <4>2, <4>3 DEF ThreadOK
    <3> QED
      BY <3>1, <3>2 DEF ScanRegion
  <2>2. ASSUME NEW u \in Threads, u # t PROVE ThreadOK(u)'
    <3>1. ThreadOK(u)
      BY DEF ThreadsOK
    <3>2. /\ at'[u] = at[u] /\ cur'[u] = cur[u] /\ req'[u] = req[u]
          /\ session' = session /\ SessionOf' = SessionOf
      BY <1>1, <2>2 DEF ScanRegion, MmTypeOK
    <3> QED
      BY <3>1, <3>2 DEF ThreadOK, Sized
  <2> QED
    BY <2>1, <2>2 DEF ThreadsOK
<1>4. SessionsOK'
  BY DEF ScanRegion, SessionsOK, SessionOK
<1>5. \A u \in Threads : at'[u] \in {"add", "free"} <=> at[u] \in {"add", "free"}
  BY <1>0, <1>1 DEF ScanRegion, MmTypeOK
<1>6. BuffersAreBlocks' /\ Allocated' \subseteq Held' \cup leaked'
  BY <1>1, <1>2, <1>5, QuietHolders DEF ScanRegion
<1> QED
  BY <1>1, <1>2, <1>3, <1>4, <1>6

\* what the other threads see of a step of t
LEMMA OtherThreads ==
  ASSUME NEW t \in Threads, ThreadsOK, session' = session, SessionOf' = SessionOf,
         \A u \in Threads : u # t => at'[u] = at[u] /\ cur'[u] = cur[u] /\ req'[u] = req[u],
         ThreadOK(t)'
  PROVE  ThreadsOK'
<1>1. ASSUME NEW u \in Threads, u # t PROVE ThreadOK(u)'
  <2>1. ThreadOK(u)
    BY DEF ThreadsOK
  <2>2. at'[u] = at[u] /\ cur'[u] = cur[u] /\ req'[u] = req[u]
    BY <1>1
  <2> QED
    BY <2>1, <2>2 DEF ThreadOK, Sized
<1> QED
  BY <1>1 DEF ThreadsOK

\* No region is left.
LEMMA ScanFailsKeeps ==
  ASSUME MmInv, NEW t \in Threads, ScanFails(t)
  PROVE  MmInv'
<1> USE InvParts
<1>1. MmTypeOK /\ MmTypeOK'
  BY DEF ScanFails, MmTypeOK
<1>2. RegionsOK' /\ Allocated' = Allocated
  BY QuietRegions DEF ScanFails
<1>3. ThreadsOK'
  <2>1. ThreadOK(t)'
    BY <1>1 DEF ScanFails, MmTypeOK, ThreadOK
  <2>2. \A u \in Threads : u # t => at'[u] = at[u] /\ cur'[u] = cur[u] /\ req'[u] = req[u]
    BY <1>1 DEF ScanFails, MmTypeOK
  <2> QED
    BY <2>1, <2>2, OtherThreads DEF ScanFails
<1>4. SessionsOK'
  BY DEF ScanFails, SessionsOK, SessionOK
<1>5. \A u \in Threads : at'[u] \in {"add", "free"} <=> at[u] \in {"add", "free"}
  BY <1>1 DEF ScanFails, MmTypeOK
<1>6. BuffersAreBlocks' /\ Allocated' \subseteq Held' \cup leaked'
  BY <1>1, <1>2, <1>5, QuietHolders DEF ScanFails
<1> QED
  BY <1>1, <1>2, <1>3, <1>4, <1>6

\* The region the scan chose has no block that fits, or a split fails for want of memory.
LEMMA TryAllocFailsKeeps ==
  ASSUME MmInv, NEW t \in Threads, TryAllocFails(t)
  PROVE  MmInv'
<1> USE InvParts
<1>0. /\ at[t] = "try" /\ session[SessionOf[t]] = "open"
      /\ req[t] \in Requests /\ cur[t] \in 0 .. RegionCnt - 1
  BY DEF TryAllocFails, ThreadsOK, ThreadOK, Regions
<1>1. MmTypeOK /\ MmTypeOK'
  <2>1. cur' \in [Threads -> Int]
    BY <1>0 DEF TryAllocFails, MmTypeOK
  <2> QED
    BY <2>1 DEF TryAllocFails, MmTypeOK
<1>2. RegionsOK' /\ Allocated' = Allocated
  BY QuietRegions DEF TryAllocFails
<1>3. ThreadsOK'
  <2>1. at'[t] = "scan" /\ cur'[t] = cur[t] - 1
    BY <1>1 DEF TryAllocFails, MmTypeOK
  <2>2. cur'[t] \in -1 .. RegionCnt - 1
    BY <1>0, <2>1, Constants
  <2>3. ThreadOK(t)'
    BY <1>0, <2>1, <2>2 DEF TryAllocFails, ThreadOK
  <2>4. \A u \in Threads : u # t => at'[u] = at[u] /\ cur'[u] = cur[u] /\ req'[u] = req[u]
    BY <1>1 DEF TryAllocFails, MmTypeOK
  <2> QED
    BY <2>3, <2>4, OtherThreads DEF TryAllocFails
<1>4. SessionsOK'
  BY DEF TryAllocFails, SessionsOK, SessionOK
<1>5. \A u \in Threads : at'[u] \in {"add", "free"} <=> at[u] \in {"add", "free"}
  BY <1>0, <1>1 DEF TryAllocFails, MmTypeOK
<1>6. BuffersAreBlocks' /\ Allocated' \subseteq Held' \cup leaked'
  BY <1>1, <1>2, <1>5, QuietHolders DEF TryAllocFails
<1> QED
  BY <1>1, <1>2, <1>3, <1>4, <1>6

\* What TryAlloc does: its buffer x is new, whole pages of one region.
Allocates(x) ==
    /\ x \in Buffer /\ x.bytes > 0
    /\ x.pa % PageSize = 0 /\ x.bytes % PageSize = 0
    /\ \E r \in Regions : Base[r] <= x.pa /\ x.pa + x.bytes <= Base[r] + Size[r]
    /\ \A y \in Allocated : y.pa + y.bytes <= x.pa \/ x.pa + x.bytes <= y.pa
    /\ x \notin Allocated
    /\ \A y : y \in Allocated' <=> y \in Allocated \/ y = x
    /\ blk' \in [Regions -> Seq(Block)] /\ tot_free' \in [Regions -> Nat]
    /\ RegionsOK'

\* The buffer TryAlloc takes is one.
LEMMA TryAllocEffect ==
  ASSUME MmTypeOK, RegionsOK, ThreadsOK, NEW t \in Threads, TryAlloc(t)
  PROVE  Allocates(buf'[t])
<1> DEFINE r == cur[t]
           L == blk[r]
           q == req[t]
           i == Candidate(L, q)
           n == AllocSize(q.bytes)
           start == AllocStart(L[i], q)
           x == [pa |-> start, bytes |-> n]
<1>1. at[t] = "try" /\ r \in Regions /\ q \in Requests /\ Sized(q, r)
  BY DEF TryAlloc, ThreadsOK, ThreadOK
<1>2. /\ i # 0
      /\ blk' = [blk EXCEPT ![r] = SplitBlock(@, i, start, n)]
      /\ tot_free' = [tot_free EXCEPT ![r] = @ - n]
      /\ buf' = [buf EXCEPT ![t] = x]
  BY DEF TryAlloc
<1>3. L \in Seq(Block) /\ buf \in [Threads -> Buffer]
  BY <1>1 DEF MmTypeOK
<1>4. i \in 1 .. Len(L) /\ Fits(L[i], q)
  BY <1>2, <1>3, CandidateFits
<1>5. Tiling(L, Base[r], Base[r] + Size[r])
  BY <1>1 DEF RegionsOK, RegionOK
<1>6. L[i] \in Block /\ Base[r] <= L[i].pa /\ End(L[i]) <= Base[r] + Size[r]
      /\ L[i].pa \in Nat /\ End(L[i]) \in Nat
  BY <1>3, <1>4, <1>5, TilingBounds, BlockFields
<1>7. /\ L[i].state = "FREE" /\ start \in Nat /\ L[i].pa <= start /\ start + n <= End(L[i])
      /\ start % PageSize = 0
  BY <1>1, <1>4, <1>6, FitsRoom
<1>8. n \in Nat \ {0} /\ n % PageSize = 0
  BY <1>1, RequestFacts
<1> HIDE DEF i, start, n, L, q, r
<1>9. /\ blk' \in [Regions -> Seq(Block)] /\ tot_free' \in [Regions -> Nat]
      /\ RegionsOK'
      /\ \A y : y \in Allocated' <=> y \in Allocated \/ y = x
  <2>1. /\ i \in 1 .. Len(blk[r]) /\ blk[r][i].state = "FREE"
        /\ blk[r][i].pa <= start /\ start + n <= End(blk[r][i])
    BY <1>4, <1>7 DEF L
  <2> HIDE DEF x
  <2>2. Gains([pa |-> start, bytes |-> n])
    BY <1>1, <1>2, <1>7, <1>8, <2>1, AllocEffect
  <2>3. /\ blk' \in [Regions -> Seq(Block)] /\ tot_free' \in [Regions -> Nat]
        /\ RegionsOK'
    BY <1>1, <1>2, <1>7, <1>8, <2>1, AllocEffect
  <2> QED
    BY <2>2, <2>3 DEF x, Gains
<1>10. \A y \in Allocated : /\ y.pa \in Nat /\ y.bytes \in Nat
                            /\ y.pa + y.bytes <= start \/ start + n <= y.pa
  BY <1>1, <1>4, <1>7, <1>8, AllocApart DEF L
<1>11. x \notin Allocated
  <2> SUFFICES ASSUME x \in Allocated PROVE FALSE
    OBVIOUS
  <2>1. x.pa = start /\ x.bytes = n
    OBVIOUS
  <2>2. start + n <= start
    BY <1>7, <1>8, <1>10, <2>1
  <2> QED
    BY <1>7, <1>8, <2>2
<1>12. x \in Buffer /\ x.pa = start /\ x.bytes = n /\ buf'[t] = x
  BY <1>2, <1>3, <1>7, <1>8 DEF Buffer
<1>13. Base[r] <= start /\ start + n <= Base[r] + Size[r]
  <2>1. Base[r] \in Nat /\ Size[r] \in Nat
    BY <1>1, Constants
  <2> QED
    BY <1>6, <1>7, <1>8, <2>1
<1> HIDE DEF x
<1>14. \E p \in Regions : Base[p] <= x.pa /\ x.pa + x.bytes <= Base[p] + Size[p]
  BY <1>1, <1>12, <1>13
<1>15. \A y \in Allocated : y.pa + y.bytes <= x.pa \/ x.pa + x.bytes <= y.pa
  BY <1>10, <1>12
<1> QED
  <2>1. Allocates(x)
    BY <1>7, <1>8, <1>9, <1>11, <1>12, <1>14, <1>15 DEF Allocates
  <2> QED
    BY <1>12, <2>1

\* A buffer is taken: its thread holds it.
LEMMA TryAllocKeeps ==
  ASSUME MmInv, NEW t \in Threads, TryAlloc(t)
  PROVE  MmInv'
<1> USE InvParts
<1>0. Allocates(buf'[t])
  BY TryAllocEffect
<1> DEFINE x == buf'[t]
<1>a. /\ x \in Buffer /\ x \notin Allocated /\ RegionsOK'
      /\ blk' \in [Regions -> Seq(Block)] /\ tot_free' \in [Regions -> Nat]
      /\ \A y : y \in Allocated' <=> y \in Allocated \/ y = x
  BY <1>0 DEF Allocates
<1>b. /\ at[t] = "try" /\ session[SessionOf[t]] = "open"
      /\ UNCHANGED <<SessionOf, sbuf, session, rel, leaked>>
      /\ at' = [at EXCEPT ![t] = "add"]
      /\ cur' = [cur EXCEPT ![t] = 0]
      /\ req' = [req EXCEPT ![t] = NoReq]
  BY DEF TryAlloc, ThreadsOK, ThreadOK
<1>c. \A u \in Threads : u # t => buf'[u] = buf[u]
  BY DEF TryAlloc, MmTypeOK
<1>1. MmTypeOK /\ MmTypeOK'
  <2>1. buf' \in [Threads -> Buffer]
    <3>1. \E z : buf' = [buf EXCEPT ![t] = z]
      BY DEF TryAlloc
    <3>2. buf \in [Threads -> Buffer]
      BY DEF MmTypeOK
    <3> QED
      BY <1>a, <3>1, <3>2
  <2>2. /\ at' \in [Threads -> {"idle", "scan", "try", "add", "free"}]
        /\ cur' \in [Threads -> Int] /\ req' \in [Threads -> Requests \cup {NoReq}]
    BY <1>b DEF MmTypeOK
  <2> QED
    BY <1>a, <1>b, <2>1, <2>2 DEF MmTypeOK
<1> HIDE DEF x
<1>3. ThreadsOK'
  <2>1. ThreadOK(t)'
    BY <1>1, <1>b DEF MmTypeOK, ThreadOK
  <2>2. \A u \in Threads : u # t => at'[u] = at[u] /\ cur'[u] = cur[u] /\ req'[u] = req[u]
    BY <1>1, <1>b DEF MmTypeOK
  <2> QED
    BY <1>b, <2>1, <2>2, OtherThreads
<1>4. SessionsOK'
  BY <1>b DEF SessionsOK, SessionOK
<1>5. /\ at'[t] = "add" /\ buf'[t] = x
      /\ \A u \in Threads : u # t => at'[u] = at[u]
  BY <1>1, <1>b DEF MmTypeOK, x
<1>6. \A y : y \in Held' <=> y \in Held \/ y = x
  <2>1. at[t] \notin {"add", "free"}
    BY <1>b
  <2> QED
    BY <1>b, <1>c, <1>5, <2>1, HeldIs
<1>7. Held \cup leaked \subseteq Allocated /\ x \notin Held /\ x \notin leaked
  BY <1>a DEF BuffersAreBlocks, x
<1>8. BuffersAreBlocks'
  <2>1. Held' \cup leaked' \subseteq Allocated' /\ leaked' \cap Held' = {}
    BY <1>6, <1>7, <1>a, <1>b DEF BuffersAreBlocks, x
  <2>2. \A s, u \in Sessions : s # u => (sbuf'[s] \ {rel'[s]}) \cap (sbuf'[u] \ {rel'[u]}) = {}
    BY <1>b DEF BuffersAreBlocks
  <2>3. \A s \in Sessions : x \notin sbuf[s] \ {rel[s]}
    BY <1>7, HeldIs
  <2>4. \A u \in Threads : at[u] \in {"add", "free"} => buf[u] # x
    BY <1>7, HeldIs
  <2>5. \A v \in Threads : at'[v] \in {"add", "free"} =>
          /\ \A s \in Sessions : buf'[v] \notin sbuf'[s] \ {rel'[s]}
          /\ \A u \in Threads : u # v /\ at'[u] \in {"add", "free"} => buf'[u] # buf'[v]
    BY <1>5, <1>b, <1>c, <2>3, <2>4 DEF BuffersAreBlocks
  <2> QED
    BY <2>1, <2>2, <2>5 DEF BuffersAreBlocks
<1>9. Allocated' \subseteq Held' \cup leaked'
  BY <1>6, <1>a, <1>b DEF x
<1> QED
  BY <1>1, <1>3, <1>4, <1>8, <1>9, <1>a

\* What the other sessions see of a step of z.
LEMMA OtherSessions ==
  ASSUME NEW z, SessionsOK, SessionOK(z)',
         \A s \in Sessions : s # z => /\ sbuf'[s] = sbuf[s] /\ rel'[s] = rel[s]
                                      /\ session'[s] = session[s]
  PROVE  SessionsOK'
<1>1. ASSUME NEW s \in Sessions, s # z PROVE SessionOK(s)'
  <2>1. SessionOK(s)
    BY DEF SessionsOK
  <2>2. sbuf'[s] = sbuf[s] /\ rel'[s] = rel[s] /\ session'[s] = session[s]
    BY <1>1
  <2> QED
    BY <2>1, <2>2 DEF SessionOK
<1> QED
  BY <1>1 DEF SessionsOK

\* The buffer is handed from its thread to the list of the session.
LEMMA AddBufKeeps ==
  ASSUME MmInv, NEW t \in Threads, AddBuf(t)
  PROVE  MmInv'
<1> USE InvParts
<1>x. PICK x : x = buf[t]
  OBVIOUS
<1>z. PICK z \in Sessions : z = SessionOf[t]
  BY DEF MmTypeOK
<1>0. /\ at[t] = "add" /\ session[z] = "open" /\ z \in Sessions /\ rel[z] = NoBuf
      /\ x \in Held /\ x \in Allocated /\ x # NoBuf /\ x \in Buffer
  <2>1. at[t] = "add"
    BY DEF AddBuf
  <2>2. x \in Held
    BY <1>x, <2>1, HeldIs
  <2>3. x \in Allocated
    BY <2>2 DEF BuffersAreBlocks
  <2>4. session[z] = "open" /\ z \in Sessions
    BY <1>z, <2>1 DEF ThreadsOK, ThreadOK
  <2>5. rel[z] = NoBuf
    BY <2>4 DEF SessionsOK, SessionOK
  <2> QED
    BY <2>1, <2>2, <2>3, <2>4, <2>5, AllocatedNotNull
<1>b. /\ UNCHANGED <<SessionOf, blk, tot_free, session, rel, cur, req, leaked>>
      /\ sbuf' = [sbuf EXCEPT ![z] = @ \cup {x}]
      /\ at' = [at EXCEPT ![t] = "idle"]
      /\ buf' = [buf EXCEPT ![t] = NoBuf]
  BY <1>x, <1>z DEF AddBuf
<1>1. MmTypeOK /\ MmTypeOK'
  <2>1. sbuf' \in [Sessions -> SUBSET Buffer]
    BY <1>0, <1>b DEF MmTypeOK
  <2>2. buf' \in [Threads -> Buffer]
    BY <1>b DEF MmTypeOK, Buffer, NoBuf
  <2>3. at' \in [Threads -> {"idle", "scan", "try", "add", "free"}]
    BY <1>b DEF MmTypeOK
  <2> QED
    BY <1>b, <2>1, <2>2, <2>3 DEF MmTypeOK
<1>2. RegionsOK' /\ Allocated' = Allocated
  BY <1>b, QuietRegions
<1>c. /\ at'[t] = "idle" /\ \A u \in Threads : u # t => at'[u] = at[u] /\ buf'[u] = buf[u]
      /\ sbuf'[z] = sbuf[z] \cup {x} /\ \A s \in Sessions : s # z => sbuf'[s] = sbuf[s]
      /\ z \in Sessions /\ rel'[z] = NoBuf
  BY <1>0, <1>1, <1>b DEF MmTypeOK
<1>3. ThreadsOK'
  <2>1. ThreadOK(t)'
    BY <1>c DEF ThreadOK
  <2> QED
    BY <1>b, <1>c, <2>1, OtherThreads
<1>4. SessionsOK'
  <2>1. SessionOK(z)'
    <3>1. SessionOK(z)
      BY <1>0 DEF SessionsOK
    <3>2. /\ session'[z] = "open" /\ session[z] = "open" /\ rel'[z] = NoBuf
          /\ sbuf'[z] = sbuf[z] \cup {x} /\ x # NoBuf
      BY <1>0, <1>b, <1>c
    <3> QED
      BY <3>1, <3>2 DEF SessionOK
  <2> QED
    BY <1>b, <1>c, <2>1, OtherSessions
<1>5. Held' = Held
  <2>1. ASSUME NEW y PROVE y \in Held' <=> y \in Held
    <3>1. y = x => y \in Held /\ y \in Held'
      BY <1>0, <1>c, HeldIs
    <3>2. ASSUME y # x PROVE y \in Held' <=> y \in Held
      BY <1>b, <1>c, <1>x, <3>2, HeldIs
    <3> QED
      BY <3>1, <3>2
  <2> QED
    BY <2>1
<1>6. BuffersAreBlocks'
  <2>1. Held' \cup leaked' \subseteq Allocated' /\ leaked' \cap Held' = {}
    BY <1>2, <1>5, <1>b DEF BuffersAreBlocks
  <2>2. \A s \in Sessions : x \notin sbuf[s] \ {rel[s]}
    BY <1>0, <1>x DEF BuffersAreBlocks
  <2>3. \A u \in Threads : u # t /\ at[u] \in {"add", "free"} => buf[u] # x
    BY <1>0, <1>x DEF BuffersAreBlocks
  <2>4. \A s, u \in Sessions : s # u => (sbuf'[s] \ {rel'[s]}) \cap (sbuf'[u] \ {rel'[u]}) = {}
    <3>1. \A s \in Sessions : sbuf'[s] \ {rel'[s]} \subseteq (sbuf[s] \ {rel[s]}) \cup {x}
      BY <1>b, <1>c
    <3>2. \A s \in Sessions : s # z => sbuf'[s] \ {rel'[s]} = sbuf[s] \ {rel[s]}
      BY <1>b, <1>c
    <3>3. \A s, u \in Sessions : s # u => (sbuf[s] \ {rel[s]}) \cap (sbuf[u] \ {rel[u]}) = {}
      BY DEF BuffersAreBlocks
    <3> QED
      BY <2>2, <3>1, <3>2, <3>3
  <2>5. \A v \in Threads : at'[v] \in {"add", "free"} =>
          /\ \A s \in Sessions : buf'[v] \notin sbuf'[s] \ {rel'[s]}
          /\ \A u \in Threads : u # v /\ at'[u] \in {"add", "free"} => buf'[u] # buf'[v]
    <3> SUFFICES ASSUME NEW v \in Threads, at'[v] \in {"add", "free"}
                 PROVE  /\ \A s \in Sessions : buf'[v] \notin sbuf'[s] \ {rel'[s]}
                        /\ \A u \in Threads : u # v /\ at'[u] \in {"add", "free"} => buf'[u] # buf'[v]
      OBVIOUS
    <3>1. v # t /\ at[v] \in {"add", "free"} /\ buf'[v] = buf[v]
      BY <1>c
    <3>2. buf[v] # x
      BY <2>3, <3>1
    <3>3. \A s \in Sessions : buf[v] \notin sbuf[s] \ {rel[s]}
      BY <3>1 DEF BuffersAreBlocks
    <3>4. \A u \in Threads : u # v /\ at[u] \in {"add", "free"} => buf[u] # buf[v]
      BY <3>1 DEF BuffersAreBlocks
    <3> QED
      BY <1>b, <1>c, <3>1, <3>2, <3>3, <3>4
  <2> QED
    BY <2>1, <2>4, <2>5 DEF BuffersAreBlocks
<1>7. Allocated' \subseteq Held' \cup leaked'
  BY <1>2, <1>5, <1>b
<1> QED
  BY <1>1, <1>2, <1>3, <1>4, <1>6, <1>7

\* A step after which x has no holder, and nothing else has changed hands.
LEMMA Dropped ==
  ASSUME MmTypeOK, MmTypeOK', BuffersAreBlocks, NEW x \in Held,
         \A s \in Sessions : sbuf'[s] \ {rel'[s]} = (sbuf[s] \ {rel[s]}) \ {x},
         \A t \in Threads : /\ at'[t] \in {"add", "free"} <=> at[t] \in {"add", "free"} /\ buf[t] # x
                            /\ at'[t] \in {"add", "free"} => buf'[t] = buf[t]
  PROVE  /\ \A y : y \in Held' <=> y \in Held /\ y # x
         /\ \A s, u \in Sessions : s # u => (sbuf'[s] \ {rel'[s]}) \cap (sbuf'[u] \ {rel'[u]}) = {}
         /\ \A t \in Threads : at'[t] \in {"add", "free"} =>
              /\ \A s \in Sessions : buf'[t] \notin sbuf'[s] \ {rel'[s]}
              /\ \A u \in Threads : u # t /\ at'[u] \in {"add", "free"} => buf'[u] # buf'[t]
<1>1. ASSUME NEW y PROVE y \in Held' <=> y \in Held /\ y # x
  <2>1. y \in Held' <=> \/ \E s \in Sessions : y \in sbuf'[s] \ {rel'[s]}
                        \/ \E t \in Threads : at'[t] \in {"add", "free"} /\ buf'[t] = y
    BY HeldIs
  <2>2. y \in Held <=> \/ \E s \in Sessions : y \in sbuf[s] \ {rel[s]}
                       \/ \E t \in Threads : at[t] \in {"add", "free"} /\ buf[t] = y
    BY HeldIs
  <2>3. (\E s \in Sessions : y \in sbuf'[s] \ {rel'[s]})
          <=> (\E s \in Sessions : y \in sbuf[s] \ {rel[s]}) /\ y # x
    OBVIOUS
  <2>4. (\E t \in Threads : at'[t] \in {"add", "free"} /\ buf'[t] = y)
          <=> (\E t \in Threads : at[t] \in {"add", "free"} /\ buf[t] = y) /\ y # x
    OBVIOUS
  <2> QED
    BY <2>1, <2>2, <2>3, <2>4
<1>2. \A s, u \in Sessions : s # u => (sbuf'[s] \ {rel'[s]}) \cap (sbuf'[u] \ {rel'[u]}) = {}
  <2>1. \A s, u \in Sessions : s # u => (sbuf[s] \ {rel[s]}) \cap (sbuf[u] \ {rel[u]}) = {}
    BY DEF BuffersAreBlocks
  <2> QED
    BY <2>1
<1>3. \A t \in Threads : at'[t] \in {"add", "free"} =>
        /\ \A s \in Sessions : buf'[t] \notin sbuf'[s] \ {rel'[s]}
        /\ \A u \in Threads : u # t /\ at'[u] \in {"add", "free"} => buf'[u] # buf'[t]
  <2>1. \A t \in Threads : at[t] \in {"add", "free"} =>
          /\ \A s \in Sessions : buf[t] \notin sbuf[s] \ {rel[s]}
          /\ \A u \in Threads : u # t /\ at[u] \in {"add", "free"} => buf[u] # buf[t]
    BY DEF BuffersAreBlocks
  <2> QED
    BY <2>1
<1> QED
  BY <1>1, <1>2, <1>3

\* aipu_session_add_buf failed: the buffer of the thread is leaked.
LEMMA AddBufFailsKeeps ==
  ASSUME MmInv, NEW t \in Threads, AddBufFails(t)
  PROVE  MmInv'
<1> USE InvParts
<1>x. PICK x : x = buf[t]
  OBVIOUS
<1>0. at[t] = "add" /\ x \in Held /\ x \in Allocated /\ x \in Buffer /\ x \notin leaked
  <2>1. at[t] = "add"
    BY DEF AddBufFails
  <2>2. x \in Held
    BY <1>x, <2>1, HeldIs
  <2>3. x \in Allocated /\ x \notin leaked
    BY <2>2 DEF BuffersAreBlocks
  <2> QED
    BY <2>1, <2>2, <2>3, AllocatedNotNull
<1>b. /\ UNCHANGED <<SessionOf, blk, tot_free, sbuf, session, rel, cur, req>>
      /\ leaked' = leaked \cup {x}
      /\ at' = [at EXCEPT ![t] = "idle"]
      /\ buf' = [buf EXCEPT ![t] = NoBuf]
  BY <1>x DEF AddBufFails
<1>1. MmTypeOK /\ MmTypeOK'
  <2>1. buf' \in [Threads -> Buffer]
    BY <1>b DEF MmTypeOK, Buffer, NoBuf
  <2>2. at' \in [Threads -> {"idle", "scan", "try", "add", "free"}]
    BY <1>b DEF MmTypeOK
  <2> QED
    BY <1>0, <1>b, <2>1, <2>2 DEF MmTypeOK
<1>2. RegionsOK' /\ Allocated' = Allocated
  BY <1>b, QuietRegions
<1>c. at'[t] = "idle" /\ \A u \in Threads : u # t => at'[u] = at[u] /\ buf'[u] = buf[u]
  BY <1>1, <1>b DEF MmTypeOK
<1>3. ThreadsOK'
  <2>1. ThreadOK(t)'
    BY <1>c DEF ThreadOK
  <2> QED
    BY <1>b, <1>c, <2>1, OtherThreads
<1>4. SessionsOK'
  BY <1>b DEF SessionsOK, SessionOK
<1>5. \A s \in Sessions : sbuf'[s] \ {rel'[s]} = (sbuf[s] \ {rel[s]}) \ {x}
  <2>1. \A s \in Sessions : x \notin sbuf[s] \ {rel[s]}
    BY <1>0, <1>x DEF BuffersAreBlocks
  <2> QED
    BY <1>b, <2>1
<1>6. \A u \in Threads : /\ at'[u] \in {"add", "free"} <=> at[u] \in {"add", "free"} /\ buf[u] # x
                         /\ at'[u] \in {"add", "free"} => buf'[u] = buf[u]
  <2>1. \A u \in Threads : u # t /\ at[u] \in {"add", "free"} => buf[u] # x
    BY <1>0, <1>x DEF BuffersAreBlocks
  <2> QED
    BY <1>c, <1>x, <2>1
<1>7. /\ \A y : y \in Held' <=> y \in Held /\ y # x
      /\ \A s, u \in Sessions : s # u => (sbuf'[s] \ {rel'[s]}) \cap (sbuf'[u] \ {rel'[u]}) = {}
      /\ \A v \in Threads : at'[v] \in {"add", "free"} =>
           /\ \A s \in Sessions : buf'[v] \notin sbuf'[s] \ {rel'[s]}
           /\ \A u \in Threads : u # v /\ at'[u] \in {"add", "free"} => buf'[u] # buf'[v]
  BY <1>0, <1>1, <1>5, <1>6, Dropped
<1>8. Held' \cup leaked' \subseteq Allocated' /\ leaked' \cap Held' = {}
  BY <1>0, <1>2, <1>7, <1>b DEF BuffersAreBlocks
<1>9. BuffersAreBlocks'
  BY <1>7, <1>8 DEF BuffersAreBlocks
<1>10. Allocated' \subseteq Held' \cup leaked'
  BY <1>2, <1>7, <1>b
<1> QED
  BY <1>1, <1>2, <1>3, <1>4, <1>9, <1>10

\* FREEBUF takes a buffer out of the list of the session: its thread holds it.
LEMMA DetachKeeps ==
  ASSUME MmInv, NEW t \in Threads, NEW x, DetachBuf(t, x)
  PROVE  MmInv'
<1> USE InvParts
<1>z. PICK z \in Sessions : z = SessionOf[t]
  BY DEF MmTypeOK
<1>0. /\ at[t] = "idle" /\ session[z] = "open" /\ x \in sbuf[z] /\ rel[z] = NoBuf
      /\ x # NoBuf /\ x \in Buffer
  <2>1. at[t] = "idle" /\ session[z] = "open" /\ x \in sbuf[z]
    BY <1>z DEF DetachBuf
  <2>2. rel[z] = NoBuf /\ NoBuf \notin sbuf[z]
    BY <2>1 DEF SessionsOK, SessionOK
  <2> QED
    BY <2>1, <2>2 DEF MmTypeOK
<1>b. /\ UNCHANGED <<SessionOf, blk, tot_free, session, rel, cur, req, leaked>>
      /\ sbuf' = [sbuf EXCEPT ![z] = @ \ {x}]
      /\ at' = [at EXCEPT ![t] = "free"]
      /\ buf' = [buf EXCEPT ![t] = x]
  BY <1>z DEF DetachBuf
<1>1. MmTypeOK /\ MmTypeOK'
  <2>1. sbuf' \in [Sessions -> SUBSET Buffer]
    BY <1>b DEF MmTypeOK
  <2>2. buf' \in [Threads -> Buffer]
    BY <1>0, <1>b DEF MmTypeOK
  <2>3. at' \in [Threads -> {"idle", "scan", "try", "add", "free"}]
    BY <1>b DEF MmTypeOK
  <2> QED
    BY <1>b, <2>1, <2>2, <2>3 DEF MmTypeOK
<1>2. RegionsOK' /\ Allocated' = Allocated
  BY <1>b, QuietRegions
<1>c. /\ at'[t] = "free" /\ buf'[t] = x
      /\ \A u \in Threads : u # t => at'[u] = at[u] /\ buf'[u] = buf[u]
      /\ sbuf'[z] = sbuf[z] \ {x} /\ \A s \in Sessions : s # z => sbuf'[s] = sbuf[s]
      /\ rel'[z] = NoBuf
  BY <1>0, <1>1, <1>b DEF MmTypeOK
<1>3. ThreadsOK'
  <2>1. ThreadOK(t)'
    BY <1>0, <1>b, <1>c, <1>z DEF ThreadOK
  <2> QED
    BY <1>b, <1>c, <2>1, OtherThreads
<1>4. SessionsOK'
  <2>1. SessionOK(z)'
    <3>1. SessionOK(z)
      BY DEF SessionsOK
    <3>2. /\ session'[z] = "open" /\ session[z] = "open" /\ rel'[z] = NoBuf
          /\ sbuf'[z] = sbuf[z] \ {x}
      BY <1>0, <1>b, <1>c
    <3> QED
      BY <3>1, <3>2 DEF SessionOK
  <2> QED
    BY <1>b, <1>c, <2>1, OtherSessions
<1>d. /\ x \in sbuf[z] \ {rel[z]}
      /\ \A s \in Sessions : sbuf'[s] \ {rel'[s]} = (sbuf[s] \ {rel[s]}) \ {x}
      /\ \A u \in Threads : at[u] \in {"add", "free"} => buf[u] # x
  <2>1. x \in sbuf[z] \ {rel[z]}
    BY <1>0
  <2>2. \A s \in Sessions : s # z => x \notin sbuf[s] \ {rel[s]}
    BY <2>1 DEF BuffersAreBlocks
  <2>3. ASSUME NEW s \in Sessions
        PROVE  sbuf'[s] \ {rel'[s]} = (sbuf[s] \ {rel[s]}) \ {x}
    <3>1. CASE s = z
      BY <1>0, <1>c, <3>1
    <3>2. CASE s # z
      <4>1. sbuf'[s] = sbuf[s] /\ rel'[s] = rel[s] /\ x \notin sbuf[s] \ {rel[s]}
        BY <1>b, <1>c, <2>2, <3>2
      <4> QED
        BY <4>1
    <3> QED
      BY <3>1, <3>2
  <2>4. \A u \in Threads : at[u] \in {"add", "free"} => buf[u] # x
    BY <2>1 DEF BuffersAreBlocks
  <2> QED
    BY <2>1, <2>3, <2>4
<1>5. Held' = Held
  <2>1. ASSUME NEW y PROVE y \in Held' <=> y \in Held
    <3>1. y = x => y \in Held /\ y \in Held'
      BY <1>c, <1>d, HeldIs
    <3>2. ASSUME y # x PROVE y \in Held' <=> y \in Held
      <4>1. \A s \in Sessions : y \in sbuf'[s] \ {rel'[s]} <=> y \in sbuf[s] \ {rel[s]}
        BY <1>d, <3>2
      <4>2. \A u \in Threads : at'[u] \in {"add", "free"} /\ buf'[u] = y
                                 <=> at[u] \in {"add", "free"} /\ buf[u] = y
        BY <1>0, <1>c, <3>2
      <4> QED
        BY <4>1, <4>2, HeldIs
    <3> QED
      BY <3>1, <3>2
  <2> QED
    BY <2>1
<1>6. BuffersAreBlocks'
  <2>1. Held' \cup leaked' \subseteq Allocated' /\ leaked' \cap Held' = {}
    BY <1>2, <1>5, <1>b DEF BuffersAreBlocks
  <2>2. \A s, u \in Sessions : s # u => (sbuf'[s] \ {rel'[s]}) \cap (sbuf'[u] \ {rel'[u]}) = {}
    BY <1>d DEF BuffersAreBlocks
  <2>3. \A v \in Threads : at'[v] \in {"add", "free"} =>
          /\ \A s \in Sessions : buf'[v] \notin sbuf'[s] \ {rel'[s]}
          /\ \A u \in Threads : u # v /\ at'[u] \in {"add", "free"} => buf'[u] # buf'[v]
    <3>1. \A v \in Threads : at[v] \in {"add", "free"} =>
            /\ \A s \in Sessions : buf[v] \notin sbuf[s] \ {rel[s]}
            /\ \A u \in Threads : u # v /\ at[u] \in {"add", "free"} => buf[u] # buf[v]
      BY DEF BuffersAreBlocks
    <3> QED
      BY <1>c, <1>d, <3>1
  <2> QED
    BY <2>1, <2>2, <2>3 DEF BuffersAreBlocks
<1>7. Allocated' \subseteq Held' \cup leaked'
  BY <1>2, <1>5, <1>b
<1> QED
  BY <1>1, <1>2, <1>3, <1>4, <1>6, <1>7

\* And gives it back to the region.
LEMMA FreeBufKeeps ==
  ASSUME MmInv, NEW t \in Threads, FreeBuf(t)
  PROVE  MmInv'
<1> USE InvParts
<1>x. PICK x : x = buf[t]
  OBVIOUS
<1>0. at[t] = "free" /\ x \in Held /\ x \in Allocated /\ x \notin leaked /\ MmFree(x)
  <2>1. at[t] = "free" /\ MmFree(x)
    BY <1>x DEF FreeBuf
  <2>2. x \in Held
    BY <1>x, <2>1, HeldIs
  <2> QED
    BY <2>1, <2>2 DEF BuffersAreBlocks
<1>b. /\ UNCHANGED <<SessionOf, sbuf, session, rel, cur, req, leaked>>
      /\ at' = [at EXCEPT ![t] = "idle"]
      /\ buf' = [buf EXCEPT ![t] = NoBuf]
  BY DEF FreeBuf
<1>2. /\ blk' \in [Regions -> Seq(Block)] /\ tot_free' \in [Regions -> Nat] /\ RegionsOK'
      /\ \A y : y \in Allocated' <=> y \in Allocated /\ y # x
  BY <1>0, FreeEffect
<1>1. MmTypeOK /\ MmTypeOK'
  <2>1. buf' \in [Threads -> Buffer]
    BY <1>b DEF MmTypeOK, Buffer, NoBuf
  <2>2. at' \in [Threads -> {"idle", "scan", "try", "add", "free"}]
    BY <1>b DEF MmTypeOK
  <2> QED
    BY <1>2, <1>b, <2>1, <2>2 DEF MmTypeOK
<1>c. at'[t] = "idle" /\ \A u \in Threads : u # t => at'[u] = at[u] /\ buf'[u] = buf[u]
  BY <1>1, <1>b DEF MmTypeOK
<1>3. ThreadsOK'
  <2>1. ThreadOK(t)'
    BY <1>c DEF ThreadOK
  <2> QED
    BY <1>b, <1>c, <2>1, OtherThreads
<1>4. SessionsOK'
  BY <1>b DEF SessionsOK, SessionOK
<1>5. \A s \in Sessions : sbuf'[s] \ {rel'[s]} = (sbuf[s] \ {rel[s]}) \ {x}
  <2>1. \A s \in Sessions : x \notin sbuf[s] \ {rel[s]}
    BY <1>0, <1>x DEF BuffersAreBlocks
  <2> QED
    BY <1>b, <2>1
<1>6. \A u \in Threads : /\ at'[u] \in {"add", "free"} <=> at[u] \in {"add", "free"} /\ buf[u] # x
                         /\ at'[u] \in {"add", "free"} => buf'[u] = buf[u]
  <2>1. \A u \in Threads : u # t /\ at[u] \in {"add", "free"} => buf[u] # x
    BY <1>0, <1>x DEF BuffersAreBlocks
  <2> QED
    BY <1>c, <1>x, <2>1
<1>7. /\ \A y : y \in Held' <=> y \in Held /\ y # x
      /\ \A s, u \in Sessions : s # u => (sbuf'[s] \ {rel'[s]}) \cap (sbuf'[u] \ {rel'[u]}) = {}
      /\ \A v \in Threads : at'[v] \in {"add", "free"} =>
           /\ \A s \in Sessions : buf'[v] \notin sbuf'[s] \ {rel'[s]}
           /\ \A u \in Threads : u # v /\ at'[u] \in {"add", "free"} => buf'[u] # buf'[v]
  BY <1>0, <1>1, <1>5, <1>6, Dropped
<1>8. Held' \cup leaked' \subseteq Allocated' /\ leaked' \cap Held' = {}
  BY <1>0, <1>2, <1>7, <1>b DEF BuffersAreBlocks
<1>9. BuffersAreBlocks'
  BY <1>7, <1>8 DEF BuffersAreBlocks
<1>10. Allocated' \subseteq Held' \cup leaked'
  BY <1>2, <1>7, <1>b
<1> QED
  BY <1>1, <1>2, <1>3, <1>4, <1>9, <1>10

\* A file is opened with an empty list.
LEMMA OpenKeeps ==
  ASSUME MmInv, NEW z \in Sessions, Open(z)
  PROVE  MmInv'
<1> USE InvParts
<1>1. MmTypeOK /\ MmTypeOK'
  BY DEF Open, MmTypeOK
<1>2. RegionsOK' /\ Allocated' = Allocated
  BY QuietRegions DEF Open
<1>b. /\ session[z] = "closed" /\ session'[z] = "open"
      /\ \A s \in Sessions : s # z => session'[s] = session[s]
      /\ UNCHANGED <<SessionOf, blk, tot_free, sbuf, rel, at, cur, req, buf, leaked>>
  BY <1>1 DEF Open, MmTypeOK
<1>3. ThreadsOK'
  <2> SUFFICES ASSUME NEW t \in Threads PROVE ThreadOK(t)'
    BY DEF ThreadsOK
  <2>1. ThreadOK(t) /\ SessionOf[t] \in Sessions
    BY <1>1 DEF ThreadsOK, MmTypeOK
  <2>2. session[SessionOf[t]] = "open" => session'[SessionOf'[t]] = "open"
    BY <1>b, <2>1
  <2> QED
    BY <1>b, <2>1, <2>2 DEF ThreadOK, Sized
<1>4. SessionsOK'
  <2>1. SessionOK(z)'
    <3>1. SessionOK(z)
      BY DEF SessionsOK
    <3> QED
      BY <1>b, <3>1 DEF SessionOK
  <2> QED
    BY <1>b, <2>1, OtherSessions
<1>5. BuffersAreBlocks' /\ Allocated' \subseteq Held' \cup leaked'
  BY <1>1, <1>2, <1>b, QuietHolders
<1> QED
  BY <1>1, <1>2, <1>3, <1>4, <1>5

\* once aipu_release has begun, no thread is in an ioctl on the file
LEMMA ReleasedThreads ==
  ASSUME MmTypeOK, ThreadsOK, NEW z \in Sessions, session[z] # "open",
         \A s \in Sessions : s # z => session'[s] = session[s],
         UNCHANGED <<SessionOf, at, cur, req>>
  PROVE  ThreadsOK'
<1> SUFFICES ASSUME NEW t \in Threads PROVE ThreadOK(t)'
  BY DEF ThreadsOK
<1>1. ThreadOK(t) /\ SessionOf[t] \in Sessions
  BY DEF ThreadsOK, MmTypeOK
<1>2. at[t] # "idle" => session[SessionOf[t]] = "open" /\ SessionOf[t] # z
  BY <1>1 DEF ThreadOK
<1>3. at'[t] # "idle" => session'[SessionOf'[t]] = "open"
  BY <1>1, <1>2
<1> QED
  BY <1>1, <1>3 DEF ThreadOK, Sized

\* A file is closed once no thread is in an ioctl on it.
LEMMA ReleaseKeeps ==
  ASSUME MmInv, NEW z \in Sessions, Release(z)
  PROVE  MmInv'
<1> USE InvParts
<1>1. MmTypeOK /\ MmTypeOK'
  BY DEF Release, MmTypeOK
<1>2. RegionsOK' /\ Allocated' = Allocated
  BY QuietRegions DEF Release
<1>b. /\ session[z] = "open" /\ session'[z] = "closing"
      /\ \A t \in Threads : SessionOf[t] = z => at[t] = "idle"
      /\ \A s \in Sessions : s # z => session'[s] = session[s]
      /\ UNCHANGED <<SessionOf, blk, tot_free, sbuf, rel, at, cur, req, buf, leaked>>
  BY <1>1 DEF Release, MmTypeOK
<1>3. ThreadsOK'
  <2> SUFFICES ASSUME NEW t \in Threads PROVE ThreadOK(t)'
    BY DEF ThreadsOK
  <2>1. ThreadOK(t) /\ SessionOf[t] \in Sessions
    BY <1>1 DEF ThreadsOK, MmTypeOK
  <2>2. at[t] # "idle" => session'[SessionOf'[t]] = "open"
    BY <1>b, <2>1 DEF ThreadOK
  <2> QED
    BY <1>b, <2>1, <2>2 DEF ThreadOK, Sized
<1>4. SessionsOK'
  <2>1. SessionOK(z)'
    <3>1. SessionOK(z)
      BY DEF SessionsOK
    <3> QED
      BY <1>b, <3>1 DEF SessionOK
  <2> QED
    BY <1>b, <2>1, OtherSessions
<1>5. BuffersAreBlocks' /\ Allocated' \subseteq Held' \cup leaked'
  BY <1>1, <1>2, <1>b, QuietHolders
<1> QED
  BY <1>1, <1>2, <1>3, <1>4, <1>5

\* aipu_release gives a buffer of its list back to the region.
LEMMA ReleaseFreeKeeps ==
  ASSUME MmInv, NEW z \in Sessions, NEW x \in sbuf[z], ReleaseFree(z, x)
  PROVE  MmInv'
<1> USE InvParts
<1>0. /\ session[z] = "closing" /\ rel[z] = NoBuf /\ x # NoBuf /\ x \in Buffer
      /\ x \in Held /\ x \in Allocated /\ x \notin leaked /\ MmFree(x)
  <2>1. session[z] = "closing" /\ MmFree(x)
    BY DEF ReleaseFree
  <2>2. rel[z] = NoBuf /\ NoBuf \notin sbuf[z]
    BY <2>1 DEF SessionsOK, SessionOK
  <2>3. x \in Held
    BY <2>2, HeldIs
  <2> QED
    BY <2>1, <2>2, <2>3 DEF BuffersAreBlocks, MmTypeOK
<1>b. /\ UNCHANGED <<SessionOf, sbuf, at, cur, req, buf, leaked>>
      /\ rel' = [rel EXCEPT ![z] = x]
      /\ session' = [session EXCEPT ![z] = "detaching"]
  BY DEF ReleaseFree
<1>2. /\ blk' \in [Regions -> Seq(Block)] /\ tot_free' \in [Regions -> Nat] /\ RegionsOK'
      /\ \A y : y \in Allocated' <=> y \in Allocated /\ y # x
  BY <1>0, FreeEffect
<1>1. MmTypeOK /\ MmTypeOK'
  <2>1. rel' \in [Sessions -> Buffer]
    BY <1>0, <1>b DEF MmTypeOK
  <2>2. session' \in [Sessions -> {"open", "closing", "detaching", "closed"}]
    BY <1>b DEF MmTypeOK
  <2> QED
    BY <1>2, <1>b, <2>1, <2>2 DEF MmTypeOK
<1>c. /\ rel'[z] = x /\ session'[z] = "detaching"
      /\ \A s \in Sessions : s # z => rel'[s] = rel[s] /\ session'[s] = session[s]
  BY <1>1, <1>b DEF MmTypeOK
<1>3. ThreadsOK'
  BY <1>0, <1>1, <1>b, <1>c, ReleasedThreads
<1>4. SessionsOK'
  <2>1. SessionOK(z)'
    <3>1. SessionOK(z)
      BY DEF SessionsOK
    <3> QED
      BY <1>b, <1>c, <3>1 DEF SessionOK
  <2> QED
    BY <1>b, <1>c, <2>1, OtherSessions
<1>5. \A s \in Sessions : sbuf'[s] \ {rel'[s]} = (sbuf[s] \ {rel[s]}) \ {x}
  <2>1. x \in sbuf[z] \ {rel[z]}
    BY <1>0
  <2>2. \A s \in Sessions : s # z => x \notin sbuf[s] \ {rel[s]}
    BY <2>1 DEF BuffersAreBlocks
  <2>3. NoBuf \notin sbuf[z]
    BY DEF SessionsOK, SessionOK
  <2>4. ASSUME NEW s \in Sessions
        PROVE  sbuf'[s] \ {rel'[s]} = (sbuf[s] \ {rel[s]}) \ {x}
    <3>1. CASE s = z
      BY <1>0, <1>b, <1>c, <2>3, <3>1
    <3>2. CASE s # z
      <4>1. sbuf'[s] = sbuf[s] /\ rel'[s] = rel[s] /\ x \notin sbuf[s] \ {rel[s]}
        BY <1>b, <1>c, <2>2, <3>2
      <4> QED
        BY <4>1
    <3> QED
      BY <3>1, <3>2
  <2> QED
    BY <2>4
<1>6. \A u \in Threads : /\ at'[u] \in {"add", "free"} <=> at[u] \in {"add", "free"} /\ buf[u] # x
                         /\ at'[u] \in {"add", "free"} => buf'[u] = buf[u]
  <2>1. x \in sbuf[z] \ {rel[z]}
    BY <1>0
  <2>2. \A u \in Threads : at[u] \in {"add", "free"} => buf[u] # x
    BY <2>1 DEF BuffersAreBlocks
  <2> QED
    BY <1>b, <2>2
<1>7. /\ \A y : y \in Held' <=> y \in Held /\ y # x
      /\ \A s, u \in Sessions : s # u => (sbuf'[s] \ {rel'[s]}) \cap (sbuf'[u] \ {rel'[u]}) = {}
      /\ \A v \in Threads : at'[v] \in {"add", "free"} =>
           /\ \A s \in Sessions : buf'[v] \notin sbuf'[s] \ {rel'[s]}
           /\ \A u \in Threads : u # v /\ at'[u] \in {"add", "free"} => buf'[u] # buf'[v]
  BY <1>0, <1>1, <1>5, <1>6, Dropped
<1>8. Held' \cup leaked' \subseteq Allocated' /\ leaked' \cap Held' = {}
  BY <1>0, <1>2, <1>7, <1>b DEF BuffersAreBlocks
<1>9. BuffersAreBlocks'
  BY <1>7, <1>8 DEF BuffersAreBlocks
<1>10. Allocated' \subseteq Held' \cup leaked'
  BY <1>2, <1>7, <1>b
<1> QED
  BY <1>1, <1>2, <1>3, <1>4, <1>9, <1>10

\* And takes it out of the list.
LEMMA ReleaseDetachKeeps ==
  ASSUME MmInv, NEW z \in Sessions, ReleaseDetach(z)
  PROVE  MmInv'
<1> USE InvParts
<1>0. session[z] = "detaching" /\ rel[z] \in sbuf[z] /\ NoBuf \notin sbuf[z]
  BY DEF ReleaseDetach, SessionsOK, SessionOK
<1>b. /\ UNCHANGED <<SessionOf, blk, tot_free, at, cur, req, buf, leaked>>
      /\ sbuf' = [sbuf EXCEPT ![z] = @ \ {rel[z]}]
      /\ rel' = [rel EXCEPT ![z] = NoBuf]
      /\ session' = [session EXCEPT ![z] = "closing"]
  BY DEF ReleaseDetach
<1>1. MmTypeOK /\ MmTypeOK'
  <2>1. sbuf' \in [Sessions -> SUBSET Buffer]
    BY <1>b DEF MmTypeOK
  <2>2. rel' \in [Sessions -> Buffer]
    BY <1>b DEF MmTypeOK, Buffer, NoBuf
  <2>3. session' \in [Sessions -> {"open", "closing", "detaching", "closed"}]
    BY <1>b DEF MmTypeOK
  <2> QED
    BY <1>b, <2>1, <2>2, <2>3 DEF MmTypeOK
<1>2. RegionsOK' /\ Allocated' = Allocated
  BY <1>b, QuietRegions
<1>c. /\ sbuf'[z] = sbuf[z] \ {rel[z]} /\ rel'[z] = NoBuf /\ session'[z] = "closing"
      /\ \A s \in Sessions : s # z => /\ sbuf'[s] = sbuf[s] /\ rel'[s] = rel[s]
                                      /\ session'[s] = session[s]
  BY <1>1, <1>b DEF MmTypeOK
<1>3. ThreadsOK'
  BY <1>0, <1>1, <1>b, <1>c, ReleasedThreads
<1>4. SessionsOK'
  <2>1. SessionOK(z)'
    BY <1>0, <1>c DEF SessionOK
  <2> QED
    BY <1>c, <2>1, OtherSessions
<1>5. \A s \in Sessions : sbuf'[s] \ {rel'[s]} = sbuf[s] \ {rel[s]}
  <2> SUFFICES ASSUME NEW s \in Sessions PROVE sbuf'[s] \ {rel'[s]} = sbuf[s] \ {rel[s]}
    OBVIOUS
  <2>1. CASE s = z
    BY <1>0, <1>c, <2>1
  <2>2. CASE s # z
    BY <1>c, <2>2
  <2> QED
    BY <2>1, <2>2
<1>6. BuffersAreBlocks' /\ Allocated' \subseteq Held' \cup leaked'
  BY <1>1, <1>2, <1>5, <1>b, QuietHolders
<1> QED
  BY <1>1, <1>2, <1>3, <1>4, <1>6

\* Until the list is empty.
LEMMA ReleaseDoneKeeps ==
  ASSUME MmInv, NEW z \in Sessions, ReleaseDone(z)
  PROVE  MmInv'
<1> USE InvParts
<1>1. MmTypeOK /\ MmTypeOK'
  BY DEF ReleaseDone, MmTypeOK
<1>2. RegionsOK' /\ Allocated' = Allocated
  BY QuietRegions DEF ReleaseDone
<1>b. /\ session[z] = "closing" /\ session'[z] = "closed" /\ sbuf[z] = {}
      /\ \A s \in Sessions : s # z => session'[s] = session[s]
      /\ UNCHANGED <<SessionOf, blk, tot_free, sbuf, rel, at, cur, req, buf, leaked>>
  BY <1>1 DEF ReleaseDone, MmTypeOK
<1>3. ThreadsOK'
  BY <1>1, <1>b, ReleasedThreads
<1>4. SessionsOK'
  <2>1. SessionOK(z)'
    <3>1. SessionOK(z)
      BY DEF SessionsOK
    <3> QED
      BY <1>b, <3>1 DEF SessionOK
  <2> QED
    BY <1>b, <2>1, OtherSessions
<1>5. BuffersAreBlocks' /\ Allocated' \subseteq Held' \cup leaked'
  BY <1>1, <1>2, <1>b, QuietHolders
<1> QED
  BY <1>1, <1>2, <1>3, <1>4, <1>5

-----------------------------------------------------------------------------
(* The theorems.                                                           *)

\* At the start each region is one free block.
LEMMA InitKeeps == Init => MmInv
<1> SUFFICES ASSUME Init PROVE MmInv
  OBVIOUS
<1> DEFINE b(r) == Blk(Base[r], Size[r], "FREE")
<1>1. /\ SessionOf \in Sharings /\ Sharings \subseteq [Threads -> Sessions]
      /\ Size \in [Regions -> Nat \ {0}]
  BY MmAssumption DEF Init
<1>2. \A r \in Regions : blk[r] = <<b(r)>> /\ tot_free[r] = Size[r]
  BY DEF Init, Blk
<1>3. \A r \in Regions : /\ GoodBlock(b(r)) /\ b(r).state = "FREE"
                         /\ b(r).pa = Base[r] /\ End(b(r)) = Base[r] + Size[r]
  <2> SUFFICES ASSUME NEW r \in Regions
               PROVE  /\ GoodBlock(b(r)) /\ b(r).state = "FREE"
                      /\ b(r).pa = Base[r] /\ End(b(r)) = Base[r] + Size[r]
    OBVIOUS
  <2>1. /\ Base[r] \in Nat /\ Size[r] \in Nat \ {0}
        /\ Base[r] % PageSize = 0 /\ Size[r] % PageSize = 0
    BY Constants
  <2>2. b(r) \in Block /\ b(r).pa = Base[r] /\ b(r).bytes = Size[r] /\ b(r).state = "FREE"
    BY <2>1, BlkType DEF Blk
  <2> QED
    BY <2>1, <2>2 DEF GoodBlock, End
<1> HIDE DEF b
<1>4. \A r \in Regions : <<b(r)>> \in Seq(Block)
  BY <1>3 DEF GoodBlock
<1>5. blk \in [Regions -> Seq(Block)]
  <2>1. blk = [r \in Regions |-> blk[r]]
    BY DEF Init
  <2> QED
    BY <1>2, <1>4, <2>1
<1>6. MmTypeOK
  <2>1. tot_free \in [Regions -> Nat]
    BY <1>1 DEF Init
  <2> QED
    BY <1>1, <1>5, <2>1 DEF Init, MmTypeOK, Buffer, NoBuf
<1>7. \A r \in Regions : /\ Tiling(blk[r], Base[r], Base[r] + Size[r]) /\ Coalesced(blk[r])
                         /\ \A x : ~HasAlloc(blk[r], x)
                         /\ \A a : IsFree(blk[r], a) <=> Base[r] <= a /\ a < Base[r] + Size[r]
  <2> SUFFICES ASSUME NEW r \in Regions
               PROVE  /\ Tiling(blk[r], Base[r], Base[r] + Size[r]) /\ Coalesced(blk[r])
                      /\ \A x : ~HasAlloc(blk[r], x)
                      /\ \A a : IsFree(blk[r], a) <=> Base[r] <= a /\ a < Base[r] + Size[r]
    OBVIOUS
  <2>1. /\ Tiling(<<b(r)>>, b(r).pa, End(b(r))) /\ Coalesced(<<b(r)>>)
        /\ \A x : HasAlloc(<<b(r)>>, x) <=> b(r).state = "ALLOCATED" /\ BufOf(b(r)) = x
        /\ \A a : IsFree(<<b(r)>>, a) <=> b(r).state = "FREE" /\ b(r).pa <= a /\ a < End(b(r))
    BY <1>3, ListOfOne
  <2> QED
    BY <1>2, <1>3, <2>1
<1>8. ASSUME NEW r \in Regions PROVE RegionOK(r)
  <2>1. Base[r] \in Nat /\ Size[r] \in Nat
    BY Constants
  <2>2. FreeBytes(r) = FreeOf(blk[r], r)
    BY <1>5, FreeBytesOf
  <2>3. FreeOf(blk[r], r) = Bytes(Base[r], Size[r])
    <3>1. \A a \in Base[r] .. Base[r] + Size[r] - 1 : Base[r] <= a /\ a < Base[r] + Size[r]
      BY <2>1
    <3> QED
      BY <1>7, <3>1 DEF FreeOf, Bytes
  <2>4. Cardinality(FreeBytes(r)) = Size[r]
    BY <2>1, <2>2, <2>3, BytesCount
  <2> QED
    BY <1>2, <1>7, <2>4 DEF RegionOK
<1>9. Allocated = {}
  BY <1>5, <1>7, AllocatedIs
<1>10. Held = {} /\ leaked = {}
  <2>1. /\ \A s \in Sessions : sbuf[s] = {}
        /\ \A t \in Threads : at[t] \notin {"add", "free"}
        /\ leaked = {}
    BY DEF Init
  <2> QED
    BY <2>1, HeldIs
<1>11. BuffersAreBlocks /\ Allocated \subseteq Held \cup leaked
  BY <1>9, <1>10 DEF Init, BuffersAreBlocks
<1>12. ThreadsOK /\ SessionsOK
  BY DEF Init, ThreadsOK, ThreadOK, SessionsOK, SessionOK
<1>13. RegionsOK
  BY <1>8 DEF RegionsOK
<1> QED
  BY <1>6, <1>11, <1>12, <1>13, InvParts

\* A step that changes nothing keeps it.
LEMMA StutterKeeps ==
  ASSUME MmInv, UNCHANGED vars
  PROVE  MmInv'
<1> USE InvParts
<1>1. MmTypeOK /\ MmTypeOK'
  BY DEF vars, MmTypeOK
<1>2. RegionsOK' /\ Allocated' = Allocated
  BY QuietRegions DEF vars
<1>3. ThreadsOK' /\ SessionsOK'
  BY DEF vars, ThreadsOK, ThreadOK, Sized, SessionsOK, SessionOK
<1>4. BuffersAreBlocks' /\ Allocated' \subseteq Held' \cup leaked'
  BY <1>1, <1>2, QuietHolders DEF vars
<1> QED
  BY <1>1, <1>2, <1>3, <1>4

\* The inductive invariant holds in every state the program can reach.
THEOREM MmInvariant == Spec => []MmInv
<1>1. Init => MmInv
  BY InitKeeps
<1>2. MmInv /\ [Next]_vars => MmInv'
  <2> SUFFICES ASSUME MmInv, [Next]_vars PROVE MmInv'
    OBVIOUS
  <2>1. ASSUME NEW t \in Threads, NEW q \in Requests, ReqBuf(t, q) PROVE MmInv'
    BY <2>1, ReqBufKeeps
  <2>2. ASSUME NEW t \in Threads, ScanRegion(t) PROVE MmInv'
    BY <2>2, ScanRegionKeeps
  <2>3. ASSUME NEW t \in Threads, ScanFails(t) PROVE MmInv'
    BY <2>3, ScanFailsKeeps
  <2>4. ASSUME NEW t \in Threads, TryAlloc(t) PROVE MmInv'
    BY <2>4, TryAllocKeeps
  <2>5. ASSUME NEW t \in Threads, TryAllocFails(t) PROVE MmInv'
    BY <2>5, TryAllocFailsKeeps
  <2>6. ASSUME NEW t \in Threads, AddBuf(t) PROVE MmInv'
    BY <2>6, AddBufKeeps
  <2>7. ASSUME NEW t \in Threads, AddBufFails(t) PROVE MmInv'
    BY <2>7, AddBufFailsKeeps
  <2>8. ASSUME NEW t \in Threads, NEW b \in sbuf[SessionOf[t]], DetachBuf(t, b) PROVE MmInv'
    BY <2>8, DetachKeeps
  <2>9. ASSUME NEW t \in Threads, FreeBuf(t) PROVE MmInv'
    BY <2>9, FreeBufKeeps
  <2>10. ASSUME NEW s \in Sessions, Open(s) PROVE MmInv'
    BY <2>10, OpenKeeps
  <2>11. ASSUME NEW s \in Sessions, Release(s) PROVE MmInv'
    BY <2>11, ReleaseKeeps
  <2>12. ASSUME NEW s \in Sessions, ReleaseDetach(s) PROVE MmInv'
    BY <2>12, ReleaseDetachKeeps
  <2>13. ASSUME NEW s \in Sessions, ReleaseDone(s) PROVE MmInv'
    BY <2>13, ReleaseDoneKeeps
  <2>14. ASSUME NEW s \in Sessions, NEW b \in sbuf[s], ReleaseFree(s, b) PROVE MmInv'
    BY <2>14, ReleaseFreeKeeps
  <2>15. CASE UNCHANGED vars
    BY <2>15, StutterKeeps
  <2> QED
    BY <2>1, <2>2, <2>3, <2>4, <2>5, <2>6, <2>7, <2>8, <2>9, <2>10, <2>11, <2>12,
       <2>13, <2>14, <2>15 DEF Next
<1> QED
  BY <1>1, <1>2, PTL DEF Spec

\* Blocks are split and merged without a gap, an overlap or two free neighbours,
\* and tot_free_bytes counts the free bytes, for any regions and requests.
THEOREM BlocksAlwaysTileRegion == Spec => []BlocksTileRegion
<1>1. MmInv => BlocksTileRegion
  <2> SUFFICES ASSUME MmInv, NEW r \in Regions
               PROVE  LET L == blk[r]
                      IN /\ Len(L) > 0
                         /\ L[1].pa = Base[r]
                         /\ L[Len(L)].pa + L[Len(L)].bytes = Base[r] + Size[r]
                         /\ \A i \in 1 .. Len(L) - 1 :
                              /\ L[i].pa + L[i].bytes = L[i + 1].pa
                              /\ ~(L[i].state = "FREE" /\ L[i + 1].state = "FREE")
                         /\ \A i \in 1 .. Len(L) : L[i].bytes > 0 /\ L[i].bytes % PageSize = 0
                         /\ tot_free[r] = Cardinality(FreeBytes(r))
    BY DEF BlocksTileRegion
  <2> DEFINE L == blk[r]
  <2>1. /\ Tiling(L, Base[r], Base[r] + Size[r]) /\ Coalesced(L)
        /\ tot_free[r] = Cardinality(FreeBytes(r)) /\ Len(L) \in Nat
    BY DEF MmInv, RegionOK, Tiling
  <2> HIDE DEF L
  <2>2. /\ Len(L) > 0 /\ L[1].pa = Base[r]
        /\ L[Len(L)].pa + L[Len(L)].bytes = Base[r] + Size[r]
        /\ \A i \in 1 .. Len(L) : L[i].bytes > 0 /\ L[i].bytes % PageSize = 0
    BY <2>1 DEF Tiling, End
  <2>3. ASSUME NEW i \in 1 .. Len(L) - 1
        PROVE  /\ L[i].pa + L[i].bytes = L[i + 1].pa
               /\ ~(L[i].state = "FREE" /\ L[i + 1].state = "FREE")
    <3> DEFINE m == i + 1
    <3>1. i \in 1 .. Len(L) /\ m \in 1 .. Len(L) /\ m = i + 1
      BY <2>1
    <3> HIDE DEF m
    <3>2. End(L[i]) = L[m].pa
      BY <2>1, <3>1 DEF Tiling
    <3>3. ~(L[i].state = "FREE" /\ L[m].state = "FREE")
      BY <2>1, <3>1 DEF Coalesced
    <3> QED
      BY <3>2, <3>3 DEF m, End
  <2> QED
    BY <2>1, <2>2, <2>3 DEF L
<1> QED
  BY <1>1, MmInvariant, PTL

\* Every buffer that somebody holds is one allocated block with one holder.
THEOREM BuffersAlwaysBlocks == Spec => []BuffersAreBlocks
<1>1. MmInv => BuffersAreBlocks
  BY DEF MmInv
<1> QED
  BY <1>1, MmInvariant, PTL

\* Nothing is lost: an allocated block has a holder or is a buffer of a REQBUF
\* that failed, and the regions are whole again when all files are closed.
THEOREM MemoryAlwaysReturned == Spec => []AllMemoryReturned
<1>1. MmInv => AllMemoryReturned
  <2> SUFFICES ASSUME MmInv PROVE AllMemoryReturned
    OBVIOUS
  <2> USE InvParts
  <2>1. Allocated \subseteq Held \cup leaked
    BY DEF MmInv
  <2>2. ASSUME leaked = {}, \A s \in Sessions : session[s] = "closed", NEW r \in Regions
        PROVE  blk[r] = <<[pa |-> Base[r], bytes |-> Size[r], state |-> "FREE"]>>
    <3> DEFINE L == blk[r]
    <3>1. /\ \A s \in Sessions : sbuf[s] = {}
          /\ \A t \in Threads : at[t] = "idle"
      BY <2>2 DEF SessionsOK, SessionOK, ThreadsOK, ThreadOK, MmTypeOK
    <3>2. Allocated = {}
      BY <2>1, <2>2, <3>1, HeldIs
    <3>3. Tiling(L, Base[r], Base[r] + Size[r]) /\ Coalesced(L) /\ L \in Seq(Block) /\ Len(L) \in Nat
      BY DEF RegionsOK, RegionOK, Tiling
    <3>4. blk \in [Regions -> Seq(Block)]
      BY DEF MmTypeOK
    <3> HIDE DEF L
    <3>5. \A k \in 1 .. Len(L) : L[k].state = "FREE"
      <4> SUFFICES ASSUME NEW k \in 1 .. Len(L), L[k].state # "FREE" PROVE FALSE
        OBVIOUS
      <4>1. L[k].state = "ALLOCATED"
        BY <3>3, BlockFields
      <4>2. HasAlloc(L, BufOf(L[k]))
        BY <4>1 DEF HasAlloc
      <4>3. BufOf(L[k]) \in Allocated
        BY <3>4, <4>2, AllocatedIs DEF L
      <4> QED
        BY <3>2, <4>3
    <3>6. Len(L) = 1
      <4> SUFFICES ASSUME Len(L) # 1 PROVE FALSE
        OBVIOUS
      <4>1. 1 \in 1 .. Len(L) /\ 2 \in 1 .. Len(L)
        <5>1. Len(L) > 0
          BY <3>3 DEF Tiling
        <5>2. PICK n \in Nat : n = Len(L)
          BY <3>3
        <5>3. 1 \in 1 .. n /\ 2 \in 1 .. n
          BY <5>1, <5>2
        <5> QED
          BY <5>2, <5>3
      <4> QED
        BY SMTT(30), <3>3, <3>5, <4>1 DEF Coalesced
    <3>7. L[1] \in Block /\ L[1].pa = Base[r] /\ L[1].pa + L[1].bytes = Base[r] + Size[r] /\ L[1].state = "FREE"
      BY <3>3, <3>5, <3>6 DEF Tiling, End
    <3>8. L[1] = [pa |-> Base[r], bytes |-> Size[r], state |-> "FREE"]
      <4>1. Base[r] \in Nat /\ Size[r] \in Nat /\ L[1].bytes \in Nat
        BY <3>7, Constants DEF Block
      <4>2. L[1].bytes = Size[r]
        BY <3>7, <4>1
      <4> QED
        BY <3>7, <4>2 DEF Block
    <3>9. L = <<L[1]>>
      BY <3>3, <3>6
    <3> QED
      BY <3>8, <3>9 DEF L
  <2> QED
    BY <2>1, <2>2 DEF AllMemoryReturned
<1> QED
  BY <1>1, MmInvariant, PTL

-----------------------------------------------------------------------------
(* The search for a block.                                                 *)

\* The least element is Min.
LEMMA MinIs ==
  ASSUME NEW T, T \subseteq Nat, NEW x \in T, \A y \in T : x <= y
  PROVE  Min(T) = x
<1>1. Min(T) \in T /\ \A y \in T : Min(T) <= y
  BY MinOf
<1>2. Min(T) \in Nat /\ x \in Nat /\ Min(T) <= x /\ x <= Min(T)
  BY <1>1
<1> QED
  BY <1>2

\* The greatest element is Max.
LEMMA MaxIs ==
  ASSUME NEW T, T \subseteq Nat, NEW x \in T, \A y \in T : y <= x
  PROVE  Max(T) = x
<1>1. x \in Nat
  OBVIOUS
<1>2. Max(T) \in T /\ \A y \in T : y <= Max(T)
  BY <1>1, MaxOf
<1>3. Max(T) \in Nat /\ Max(T) <= x /\ x <= Max(T)
  BY <1>2
<1> QED
  BY <1>1, <1>3

\* the addresses at which a free block has room for the request
RoomIn(L, r, q) ==
    {a \in Base[r] .. Base[r] + Size[r] - 1 :
        /\ a % Alignment(q) = 0
        /\ \E k \in 1 .. Len(L) : /\ L[k].state = "FREE" /\ L[k].pa <= a
                                  /\ a + AllocSize(q.bytes) <= End(L[k])}

\* A block that fits is room for the request.
LEMMA FitHasRoom ==
  ASSUME NEW r \in Regions, NEW q \in Requests, Sized(q, r),
         NEW L, Tiling(L, Base[r], Base[r] + Size[r]),
         NEW k \in 1 .. Len(L), Fits(L[k], q)
  PROVE  AllocStart(L[k], q) \in RoomIn(L, r, q)
<1> DEFINE a == AllocStart(L[k], q)
           n == AllocSize(q.bytes)
<1>1. /\ L[k] \in Block /\ Base[r] <= L[k].pa /\ End(L[k]) <= Base[r] + Size[r]
      /\ L[k].pa \in Nat /\ End(L[k]) \in Nat
  <2>1. L \in Seq(Block) /\ L[k] \in Block
    BY DEF Tiling
  <2>2. Base[r] <= L[k].pa /\ End(L[k]) <= Base[r] + Size[r]
    BY Constants, TilingBounds
  <2>3. L[k].pa \in Nat /\ End(L[k]) \in Nat
    BY <2>1, BlockFields
  <2> QED
    BY <2>1, <2>2, <2>3
<1>2. /\ L[k].state = "FREE" /\ a \in Nat /\ L[k].pa <= a /\ a + n <= End(L[k])
      /\ a % Alignment(q) = 0
  BY <1>1, FitsRoom
<1>3. n \in Nat \ {0} /\ Base[r] \in Nat /\ Size[r] \in Nat
  BY RequestFacts, Constants
<1> HIDE DEF a, n
<1>4. PICK lo \in Nat, hi \in Nat : lo = L[k].pa /\ hi = End(L[k])
  BY <1>1
<1>5. lo <= a /\ a + n <= hi /\ Base[r] <= lo /\ hi <= Base[r] + Size[r]
  BY <1>1, <1>2, <1>4
<1>6. PICK b \in Nat, s \in Nat : b = Base[r] /\ s = Size[r]
  BY <1>3
<1>7. b <= a /\ a <= b + s - 1 /\ a \in Nat
  <2>1. b <= lo /\ lo <= a /\ a + n <= hi /\ hi <= b + s /\ n \in Nat /\ n # 0 /\ a \in Nat
    BY <1>2, <1>3, <1>5, <1>6
  <2> QED
    BY <2>1
<1>8. a \in Base[r] .. Base[r] + Size[r] - 1
  BY <1>6, <1>7
<1> QED
  BY <1>2, <1>8 DEF RoomIn, a, n

\* Room for the request is in a block that fits, no further than its address.
LEMMA RoomHasFit ==
  ASSUME NEW r \in Regions, NEW q \in Requests, Sized(q, r),
         NEW L, Tiling(L, Base[r], Base[r] + Size[r]),
         NEW a \in RoomIn(L, r, q)
  PROVE  \E k \in 1 .. Len(L) :
           /\ Fits(L[k], q) /\ L[k].pa <= a /\ a + AllocSize(q.bytes) <= End(L[k])
           /\ Upwards(q) => AllocStart(L[k], q) <= a
           /\ ~Upwards(q) => a <= AllocStart(L[k], q)
<1> DEFINE n == AllocSize(q.bytes)
<1>1. a \in Base[r] .. Base[r] + Size[r] - 1 /\ a % Alignment(q) = 0
  BY DEF RoomIn
<1>2. PICK k \in 1 .. Len(L) : L[k].state = "FREE" /\ L[k].pa <= a /\ a + n <= End(L[k])
  BY DEF RoomIn
<1>3. /\ L[k] \in Block /\ Base[r] <= L[k].pa /\ End(L[k]) <= Base[r] + Size[r]
      /\ L[k].pa \in Nat /\ End(L[k]) \in Nat
  <2>1. L \in Seq(Block) /\ L[k] \in Block
    BY DEF Tiling
  <2>2. Base[r] <= L[k].pa /\ End(L[k]) <= Base[r] + Size[r]
    BY Constants, TilingBounds
  <2>3. L[k].pa \in Nat /\ End(L[k]) \in Nat
    BY <2>1, BlockFields
  <2> QED
    BY <2>1, <2>2, <2>3
<1>4. n \in Nat \ {0} /\ Base[r] \in Nat /\ Size[r] \in Nat
  BY RequestFacts, Constants
<1>5. a \in Nat
  BY <1>1, <1>4
<1> HIDE DEF n
<1>6. CASE Upwards(q)
  <2>1. /\ AllocStart(L[k], q) \in Nat /\ AllocStart(L[k], q) <= a
        /\ Fits(L[k], q) <=> L[k].state = "FREE" /\ AllocStart(L[k], q) + n <= End(L[k])
    BY <1>1, <1>2, <1>3, <1>5, <1>6, StartUp DEF n
  <2>2. AllocStart(L[k], q) + n <= End(L[k])
    BY <1>2, <1>3, <1>4, <1>5, <2>1
  <2> QED
    BY <1>2, <1>6, <2>1, <2>2 DEF n
<1>7. CASE ~Upwards(q)
  <2>1. /\ AllocStart(L[k], q) \in Nat /\ a <= AllocStart(L[k], q)
        /\ Fits(L[k], q) <=> L[k].state = "FREE" /\ L[k].pa <= AllocStart(L[k], q)
    BY <1>1, <1>2, <1>3, <1>5, <1>7, StartDown DEF n, Sized
  <2>2. L[k].pa <= AllocStart(L[k], q)
    BY <1>2, <1>3, <1>5, <2>1
  <2> QED
    BY <1>2, <1>7, <2>1, <2>2 DEF n
<1> QED
  BY <1>6, <1>7

\* The block the search takes: there is one if there is room, and it is the best.
LEMMA CandidateIsBest ==
  ASSUME NEW r \in Regions, NEW q \in Requests, Sized(q, r),
         NEW L, Tiling(L, Base[r], Base[r] + Size[r])
  PROVE  IF RoomIn(L, r, q) = {}
           THEN Candidate(L, q) = 0
           ELSE /\ Candidate(L, q) # 0
                /\ AllocStart(L[Candidate(L, q)], q) =
                     IF Upwards(q) THEN Min(RoomIn(L, r, q)) ELSE Max(RoomIn(L, r, q))
<1> DEFINE fit == {k \in DOMAIN L : Fits(L[k], q)}
           room == RoomIn(L, r, q)
           i == Candidate(L, q)
           n == AllocSize(q.bytes)
<1>1. L \in Seq(Block) /\ DOMAIN L = 1 .. Len(L) /\ Len(L) \in Nat
  BY DEF Tiling
<1>2. i = IF fit = {} THEN 0 ELSE IF Upwards(q) THEN Min(fit) ELSE Max(fit)
  BY DEF Candidate
<1>3. \A k : k \in fit <=> k \in 1 .. Len(L) /\ Fits(L[k], q)
  BY <1>1
<1> HIDE DEF fit, room, i, n
<1>4. fit \subseteq Nat /\ \A k \in fit : k <= Len(L) /\ k >= 1
  BY <1>1, <1>3
<1>5. \A k \in fit : AllocStart(L[k], q) \in room
  BY <1>3, FitHasRoom DEF room
<1>6. \A a \in room : \E k \in fit :
        /\ L[k].pa <= a /\ a + n <= End(L[k])
        /\ Upwards(q) => AllocStart(L[k], q) <= a
        /\ ~Upwards(q) => a <= AllocStart(L[k], q)
  BY <1>3, RoomHasFit DEF room, n
<1>7. room \subseteq Nat
  BY Constants DEF room, RoomIn
<1>8. n \in Nat \ {0}
  BY RequestFacts DEF n
<1>9. \A k \in fit : /\ AllocStart(L[k], q) \in Nat
                     /\ L[k].pa <= AllocStart(L[k], q) /\ AllocStart(L[k], q) + n <= End(L[k])
                     /\ L[k].pa \in Nat /\ End(L[k]) \in Nat
  <2> SUFFICES ASSUME NEW k \in fit
               PROVE  /\ AllocStart(L[k], q) \in Nat
                      /\ L[k].pa <= AllocStart(L[k], q) /\ AllocStart(L[k], q) + n <= End(L[k])
                      /\ L[k].pa \in Nat /\ End(L[k]) \in Nat
    OBVIOUS
  <2>1. k \in 1 .. Len(L) /\ Fits(L[k], q)
    BY <1>3
  <2>2. /\ L[k] \in Block /\ Base[r] <= L[k].pa /\ End(L[k]) <= Base[r] + Size[r]
        /\ L[k].pa \in Nat /\ End(L[k]) \in Nat
    BY <1>1, <2>1, TilingBounds, BlockFields
  <2> QED
    BY <2>1, <2>2, FitsRoom DEF n
<1>10. CASE room = {}
  <2>1. fit = {}
    BY <1>5, <1>10
  <2>2. i = 0
    BY <1>2, <2>1
  <2> QED
    BY <1>10, <2>2 DEF room, i
<1>11. CASE room # {}
  <2>1. fit # {}
    BY <1>6, <1>11
  <2>2. CASE Upwards(q)
    <3>1. i \in fit /\ \A k \in fit : i <= k
      BY <1>2, <1>4, <2>1, <2>2, MinOf
    <3>2. ASSUME NEW a \in room PROVE AllocStart(L[i], q) <= a
      <4>1. PICK k \in fit : L[k].pa <= a /\ AllocStart(L[k], q) <= a
        BY <1>6, <2>2
      <4>2. CASE k = i
        BY <4>1, <4>2
      <4>3. CASE k # i
        <5>1. i \in 1 .. Len(L) /\ k \in 1 .. Len(L) /\ i < k
          BY <1>1, <1>3, <1>4, <3>1, <4>3
        <5>2. End(L[i]) <= L[k].pa
          BY <5>1 DEF Tiling
        <5>3. AllocStart(L[i], q) \in Nat /\ AllocStart(L[i], q) + n <= End(L[i]) /\ End(L[i]) \in Nat
          BY <1>9, <3>1
        <5>4. L[k].pa \in Nat /\ a \in Nat
          BY <1>7, <1>9
        <5> QED
          BY <1>8, <4>1, <5>2, <5>3, <5>4
      <4> QED
        BY <4>2, <4>3
    <3>3. AllocStart(L[i], q) = Min(room)
      BY <1>5, <1>7, <3>1, <3>2, MinIs
    <3>4. i # 0
      BY <1>4, <3>1
    <3> QED
      BY <1>11, <2>2, <3>3, <3>4 DEF room, i
  <2>3. CASE ~Upwards(q)
    <3>1. i \in fit /\ \A k \in fit : k <= i
      BY <1>1, <1>2, <1>4, <2>1, <2>3, MaxOf
    <3>2. ASSUME NEW a \in room PROVE a <= AllocStart(L[i], q)
      <4>1. PICK k \in fit : a + n <= End(L[k]) /\ a <= AllocStart(L[k], q)
        BY <1>6, <2>3
      <4>2. CASE k = i
        BY <4>1, <4>2
      <4>3. CASE k # i
        <5>1. i \in 1 .. Len(L) /\ k \in 1 .. Len(L) /\ k < i
          BY <1>1, <1>3, <1>4, <3>1, <4>3
        <5>2. End(L[k]) <= L[i].pa
          BY <5>1 DEF Tiling
        <5>3. AllocStart(L[i], q) \in Nat /\ L[i].pa <= AllocStart(L[i], q) /\ L[i].pa \in Nat
          BY <1>9, <3>1
        <5>4. End(L[k]) \in Nat /\ a \in Nat
          BY <1>7, <1>9
        <5> QED
          BY <1>8, <4>1, <5>2, <5>3, <5>4
      <4> QED
        BY <4>2, <4>3
    <3>3. AllocStart(L[i], q) = Max(room)
      BY <1>5, <1>7, <3>1, <3>2, MaxIs
    <3>4. i # 0
      BY <1>4, <3>1
    <3> QED
      BY <1>11, <2>3, <3>3, <3>4 DEF room, i
  <2> QED
    BY <2>2, <2>3
<1> QED
  BY <1>10, <1>11

\* The search finds a block exactly when some free block has room, and takes
\* the lowest or the highest address there is.
THEOREM SearchAlwaysExact == Spec => []CandidateExact
<1>1. MmInv => CandidateExact
  <2> SUFFICES ASSUME MmInv, NEW r \in Regions, NEW q \in Requests,
                      Upwards(q) \/ AllocSize(q.bytes) <= tot_free[r]
               PROVE  LET n == AllocSize(q.bytes)
                          room == {a \in Base[r] .. Base[r] + Size[r] - 1 :
                                     /\ a % Alignment(q) = 0
                                     /\ \E b \in Blocks(r) : /\ b.state = "FREE"
                                                             /\ b.pa <= a
                                                             /\ a + n <= b.pa + b.bytes}
                          i == Candidate(blk[r], q)
                      IN IF room = {}
                           THEN i = 0
                           ELSE /\ i # 0
                                /\ AllocStart(blk[r][i], q) = IF Upwards(q) THEN Min(room) ELSE Max(room)
    BY DEF CandidateExact
  <2> DEFINE n == AllocSize(q.bytes)
             room == {a \in Base[r] .. Base[r] + Size[r] - 1 :
                        /\ a % Alignment(q) = 0
                        /\ \E b \in Blocks(r) : /\ b.state = "FREE"
                                                /\ b.pa <= a
                                                /\ a + n <= b.pa + b.bytes}
  <2>1. MmTypeOK /\ RegionsOK
    BY InvParts
  <2>2. Tiling(blk[r], Base[r], Base[r] + Size[r]) /\ DOMAIN blk[r] = 1 .. Len(blk[r])
    BY <2>1 DEF RegionsOK, RegionOK, MmTypeOK
  <2>3. Sized(q, r)
    <3>1. tot_free[r] <= Size[r] /\ tot_free[r] \in Nat /\ Size[r] \in Nat /\ n \in Nat
      BY <2>1, TotFreeBound, Constants, RequestFacts DEF MmTypeOK
    <3> QED
      BY <3>1 DEF Sized
  <2>4. room = RoomIn(blk[r], r, q)
    BY <2>2 DEF RoomIn, Blocks, End
  <2>5. IF RoomIn(blk[r], r, q) = {}
          THEN Candidate(blk[r], q) = 0
          ELSE /\ Candidate(blk[r], q) # 0
               /\ AllocStart(blk[r][Candidate(blk[r], q)], q) =
                    IF Upwards(q) THEN Min(RoomIn(blk[r], r, q)) ELSE Max(RoomIn(blk[r], r, q))
    BY <2>2, <2>3, CandidateIsBest
  <2> HIDE DEF room
  <2>6. IF room = {}
          THEN Candidate(blk[r], q) = 0
          ELSE /\ Candidate(blk[r], q) # 0
               /\ AllocStart(blk[r][Candidate(blk[r], q)], q) =
                    IF Upwards(q) THEN Min(room) ELSE Max(room)
    BY <2>4, <2>5
  <2> QED
    BY <2>6 DEF room
<1> QED
  BY <1>1, MmInvariant, PTL

-----------------------------------------------------------------------------
(* The allocator implements AipuMemory.                                    *)

\* a step that takes no buffer and frees none
LEMMA QuietMemory ==
  ASSUME UNCHANGED blk
  PROVE  UNCHANGED Allocated
BY DEF Allocated, Blocks

\* A buffer taken is a step of the abstract memory.
LEMMA TryAllocRefines ==
  ASSUME MmInv, NEW t \in Threads, TryAlloc(t)
  PROVE  Memory!Next
<1> DEFINE x == buf'[t]
<1>1. Allocates(x)
  BY TryAllocEffect, InvParts
<1> HIDE DEF x
<1>2. Allocated' = Allocated \cup {x} /\ x \in Allocated' \ Allocated
  BY <1>1 DEF Allocates
<1>3. Memory!InRegion(x)
  <2>1. DOMAIN Base = Regions
    BY MmAssumption
  <2> QED
    BY <1>1, <2>1 DEF Allocates, Memory!InRegion
<1>4. \A a \in Allocated : ~Memory!Overlap(a, x)
  <2> SUFFICES ASSUME NEW a \in Allocated PROVE ~Memory!Overlap(a, x)
    OBVIOUS
  <2>1. a \in Buffer /\ x \in Buffer
    BY <1>1, AllocatedNotNull, InvParts DEF Allocates
  <2>2. a.pa + a.bytes <= x.pa \/ x.pa + x.bytes <= a.pa
    BY <1>1 DEF Allocates
  <2> QED
    BY <2>1, <2>2 DEF Memory!Overlap, Buffer
<1>5. Memory!Alloc(x)
  BY <1>1, <1>2, <1>3, <1>4 DEF Memory!Alloc, Allocates
<1> QED
  BY <1>2, <1>5 DEF Memory!Next

\* So is a buffer given back.
LEMMA MmFreeRefines ==
  ASSUME MmInv, NEW x \in Held, MmFree(x)
  PROVE  Memory!Next
<1>1. x \in Allocated
  BY DEF MmInv, BuffersAreBlocks
<1>2. \A y : y \in Allocated' <=> y \in Allocated /\ y # x
  BY <1>1, FreeEffect, InvParts
<1>3. Allocated' = Allocated \ {x}
  BY <1>2
<1> QED
  BY <1>1, <1>3 DEF Memory!Next, Memory!Free

\* Whatever the threads do, the allocator hands out disjoint buffers of whole
\* pages inside the regions, and takes each of them back once.
THEOREM MmImplementsMemory == Spec => ImplementsMemory
<1>1. Init => Memory!Init
  <2>1. Init => Allocated = {}
    <3> SUFFICES ASSUME Init PROVE Allocated = {}
      OBVIOUS
    <3>1. \A r \in Regions : DOMAIN blk[r] = {1} /\ blk[r][1].state = "FREE"
      BY DEF Init
    <3> QED
      BY <3>1 DEF Allocated, Blocks
  <2> QED
    BY <2>1 DEF Memory!Init
<1>2. MmInv /\ [Next]_vars => [Memory!Next]_Allocated
  <2> SUFFICES ASSUME MmInv, [Next]_vars PROVE Memory!Next \/ UNCHANGED Allocated
    OBVIOUS
  <2>1. ASSUME NEW t \in Threads, NEW q \in Requests, ReqBuf(t, q) PROVE UNCHANGED Allocated
    BY <2>1, QuietMemory DEF ReqBuf
  <2>2. ASSUME NEW t \in Threads, ScanRegion(t) PROVE UNCHANGED Allocated
    BY <2>2, QuietMemory DEF ScanRegion
  <2>3. ASSUME NEW t \in Threads, ScanFails(t) PROVE UNCHANGED Allocated
    BY <2>3, QuietMemory DEF ScanFails
  <2>4. ASSUME NEW t \in Threads, TryAlloc(t) PROVE Memory!Next
    BY <2>4, TryAllocRefines
  <2>5. ASSUME NEW t \in Threads, TryAllocFails(t) PROVE UNCHANGED Allocated
    BY <2>5, QuietMemory DEF TryAllocFails
  <2>6. ASSUME NEW t \in Threads, AddBuf(t) PROVE UNCHANGED Allocated
    BY <2>6, QuietMemory DEF AddBuf
  <2>7. ASSUME NEW t \in Threads, AddBufFails(t) PROVE UNCHANGED Allocated
    BY <2>7, QuietMemory DEF AddBufFails
  <2>8. ASSUME NEW t \in Threads, NEW b \in sbuf[SessionOf[t]], DetachBuf(t, b)
        PROVE  UNCHANGED Allocated
    BY <2>8, QuietMemory DEF DetachBuf
  <2>9. ASSUME NEW t \in Threads, FreeBuf(t) PROVE Memory!Next
    <3>1. buf[t] \in Held /\ MmFree(buf[t])
      BY <2>9, HeldIs DEF FreeBuf
    <3> QED
      BY <3>1, MmFreeRefines
  <2>10. ASSUME NEW s \in Sessions, Open(s) PROVE UNCHANGED Allocated
    BY <2>10, QuietMemory DEF Open
  <2>11. ASSUME NEW s \in Sessions, Release(s) PROVE UNCHANGED Allocated
    BY <2>11, QuietMemory DEF Release
  <2>12. ASSUME NEW s \in Sessions, ReleaseDetach(s) PROVE UNCHANGED Allocated
    BY <2>12, QuietMemory DEF ReleaseDetach
  <2>13. ASSUME NEW s \in Sessions, ReleaseDone(s) PROVE UNCHANGED Allocated
    BY <2>13, QuietMemory DEF ReleaseDone
  <2>14. ASSUME NEW s \in Sessions, NEW b \in sbuf[s], ReleaseFree(s, b) PROVE Memory!Next
    <3>1. session[s] = "closing" /\ MmFree(b)
      BY <2>14 DEF ReleaseFree
    <3>2. rel[s] = NoBuf /\ NoBuf \notin sbuf[s]
      BY <3>1, InvParts DEF SessionsOK, SessionOK
    <3>3. b \in Held
      BY <3>2, HeldIs
    <3> QED
      BY <3>1, <3>3, MmFreeRefines
  <2>15. CASE UNCHANGED vars
    BY <2>15, QuietMemory DEF vars
  <2> QED
    BY <2>1, <2>2, <2>3, <2>4, <2>5, <2>6, <2>7, <2>8, <2>9, <2>10, <2>11, <2>12,
       <2>13, <2>14, <2>15 DEF Next
<1> QED
  BY <1>1, <1>2, MmInvariant, PTL DEF Spec, ImplementsMemory, Memory!Spec
=============================================================================
