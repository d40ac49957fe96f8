---------------------------- MODULE MCMemoryJobs ----------------------------
(* Small instances of MemoryJobs.  Sessions and threads are interchangeable *)
(* and no property tells them apart.                                        *)
EXTENDS MemoryJobs, TLC

CONSTANTS w1, w2, w3, t1, t2

Symmetry == Permutations(Worker) \union Permutations(Thread)
=============================================================================
