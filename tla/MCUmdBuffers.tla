---------------------------- MODULE MCUmdBuffers ----------------------------
(* Instances of UmdBuffers for TLC: two handles. *)
EXTENDS UmdBuffers

TwoHandles == 1..2

\* an application that cleans and frees before it unloads, for a graph with and
\* without static data; one that unloads whenever it likes, while mmap may fail;
\* and a graph whose jobs are refused
Orderly  == [has_static |-> TRUE, mmap_fails |-> FALSE, bad_map |-> FALSE,
             frees_all |-> TRUE]
Careless == [Orderly EXCEPT !.mmap_fails = TRUE, !.frees_all = FALSE]

MCSetups == {Orderly, [Orderly EXCEPT !.has_static = FALSE], Careless,
             [Careless EXCEPT !.bad_map = TRUE]}
=============================================================================
