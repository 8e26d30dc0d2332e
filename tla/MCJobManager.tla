---------------------------- MODULE MCJobManager ----------------------------
(* Small instances of AipuJobManager.                                      *)
EXTENDS AipuSessionRefinement, TLC

CONSTANTS j1, j2, j3, s1, s2, t1, t2, id1, id2

\* Three jobs of two threads on one descriptor; t1 reuses its job id
ThreeOwner   == [j \in Jobs |-> s1]
ThreeUthread == j1 :> t1 @@ j2 :> t1 @@ j3 :> t2
ThreeJobId   == j1 :> id1 @@ j2 :> id1 @@ j3 :> id2
OnePid       == s1 :> t1

\* Two jobs of one thread with the same id, each on its own descriptor
TwoOwner   == j1 :> s1 @@ j2 :> s2
TwoUthread == [j \in Jobs |-> t1]
TwoJobId   == [j \in Jobs |-> id1]
TwoPids    == s1 :> t1 @@ s2 :> t2   \* opened by two threads
=============================================================================
