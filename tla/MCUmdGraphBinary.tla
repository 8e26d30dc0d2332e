-------------------------- MODULE MCUmdGraphBinary --------------------------
(* Instances of UmdGraphBinary for TLC. *)
EXTENDS UmdGraphBinary

\* every header over six values, with next to nothing in the bss section
Headers == [fields |-> 0..5, sections |-> 1, subs |-> 0, ro |-> 0, nodes |-> 1,
            ids |-> {0}, bypass |-> TRUE]

\* headers in which an offset and a size add up to more than a word
Wraps == [Headers EXCEPT !.fields = {1, 2, Word - 1}]

\* few headers (text at 1, rodata at 2, data at 3 and empty, bss at 3), and up to
\* two sections of each kind with two sub-sections each
Descriptors == [Headers EXCEPT !.fields = 0..4, !.sections = 2, !.subs = 2, !.ro = 1,
                               !.bypass = FALSE]

\* one section with up to three tensors
Tensors == [Headers EXCEPT !.fields = 0..4, !.subs = 3, !.nodes = 2, !.ids = {0, 1, 2}]

MCBounds == {Headers, Wraps, Descriptors, Tensors}
=============================================================================
