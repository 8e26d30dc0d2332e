----------------------------- MODULE MCUmdLayout -----------------------------
(* Instances of UmdLayout for TLC: pages of 2 bytes, words of 6 bits. *)
EXTENDS UmdLayout

S(n, a) == [size |-> n, align |-> a]
\* one to three sections, with the alignment rising, falling and even
SomeShapes == {<<S(3, 1)>>, <<S(1, 1), S(3, 2)>>, <<S(3, 2), S(1, 1)>>,
               <<S(2, 1), S(1, 1), S(1, 1)>>, <<S(1, 2), S(5, 1), S(2, 2)>>}
\* a total, a product and a loop that the 4 GB of a word are too few for
LargeShapes == {<<S(60, 1), S(6, 1)>>, <<S(61, 1), S(1, 3)>>, <<S(63, 1), S(1, 1)>>}
AllShapes == SomeShapes \cup LargeShapes

\* addresses above a shared-memory offset, within one word
Flat == [bases |-> {74, 78, 84, 96, 108}, code_bases |-> {66, 68, 70},
         shm_offset |-> 64, asid |-> FALSE, entry_pc |-> 1]
\* groups below, within and above the second word; an entry at the text's
\* start, and one that is not
AsidAt(pc) == [bases |-> {24, 74, 132, 200, 216}, code_bases |-> {64, 66, 70},
             shm_offset |-> 0, asid |-> TRUE, entry_pc |-> pc]
SomeMachines == {Flat, AsidAt(0), AsidAt(1)}
=============================================================================
