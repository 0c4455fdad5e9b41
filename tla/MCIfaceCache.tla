---------------------------- MODULE MCIfaceCache ----------------------------
(* Instances of IfaceCache for TLC. *)
EXTENDS IfaceCache, TLC

ThreadSymmetry == Permutations(Threads)

=============================================================================
