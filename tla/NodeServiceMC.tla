---------------------------- MODULE NodeServiceMC ----------------------------
(* NodeService on small instances.  Goroutines are interchangeable. *)
EXTENDS NodeService, TLC

ThreadSymmetry == Permutations(Threads)
=============================================================================
