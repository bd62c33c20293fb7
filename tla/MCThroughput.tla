---------------------------- MODULE MCThroughput ----------------------------
(***************************************************************************)
(* Model of Throughput for TLC: inode numbers are interchangeable, and so  *)
(* are feeders; no property names one of them.                             *)
(***************************************************************************)
EXTENDS Throughput, TLC

Symmetry == Permutations(Inodes) \cup Permutations(Feeders)

=============================================================================
