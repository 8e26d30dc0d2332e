------------------------------ MODULE MCDriver ------------------------------
(* Instances of AipuDriver for TLC. *)
EXTENDS AipuDriver

\* one CPU, an interrupt line of its own, nobody active during probe and remove,
\* every call up to the creation of the sysfs files succeeds, and the two blocks of
\* a region are there
Quiet == [failures |-> AllFailures \ {"misc_kzalloc", "misc_register", "block_list"},
          busy |-> FALSE, shared_line |-> FALSE, smp |-> FALSE, has_soc |-> TRUE]

\* the opposite in every respect
Hostile == [failures |-> AllFailures,
            busy |-> TRUE, shared_line |-> TRUE, smp |-> TRUE, has_soc |-> FALSE]

MCSetups == {Quiet, Hostile}
=============================================================================
