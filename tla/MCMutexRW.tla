------------------------------ MODULE MCMutexRW ------------------------------
(* OSMutexRW on small instances.                                              *)
EXTENDS OSMutexRW, TLC

Exchange == Permutations(Thread)
=============================================================================
