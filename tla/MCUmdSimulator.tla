--------------------------- MODULE MCUmdSimulator ---------------------------
(* Instances of UmdSimulator for TLC: two graphs, in one or two contexts. *)
EXTENDS UmdSimulator, TLC

CONSTANTS g1, g2

TwoGraphs == {g1, g2}
TwoContexts == {"c", "d"}
OwnDirs == "c" :> "x" @@ "d" :> "y"
Pages == [p \in Parts |-> IF p = "static" THEN 2 ELSE 1]

O(a, n) == [off |-> a, size |-> n]

\* two graphs of a context
Together ==
    [ctx |-> g1 :> "c" @@ g2 :> "c", id |-> g1 :> 1 @@ g2 :> 2, old_arch |-> FALSE,
     output_sets |-> {<<O(0, 1)>>}, max_loads |-> 2, max_runs |-> 3,
     one_loader |-> TRUE]
\* the same graph id in two contexts, outputs in and out of order
Apart ==
    [ctx |-> g1 :> "c" @@ g2 :> "d", id |-> g1 :> 1 @@ g2 :> 1, old_arch |-> TRUE,
     output_sets |-> {<<O(0, 2), O(3, 1)>>, <<O(4, 3), O(0, 1), O(2, 1)>>},
     max_loads |-> 2, max_runs |-> 4, one_loader |-> FALSE]
\* loads to beyond the end of the address space, and one job
Round == [Together EXCEPT !.max_loads = 4, !.max_runs = 1]
AllSetups == {Together, Apart, Round}

ASSUME InstancesAssumption == LoadersApart /\ OwnDirectories /\ TensorsApart
=============================================================================
