------------------------------ MODULE MCThread ------------------------------
(* OSThread on small instances.  The threads other than the launcher and the  *)
(* idle thread can be exchanged; no property names one of them.               *)
EXTENDS OSThread

Exchange == Permutations(Thread \ {Launcher, Idle})
=============================================================================
