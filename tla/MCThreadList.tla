---------------------------- MODULE MCThreadList ----------------------------
(* OSThreadList on a small instance.                                          *)
EXTENDS OSThreadList, TLC

CONSTANTS a, b, c

ListThread == {Launcher, Idle, a, b, c}
ThreePriorities == 0..2
Exchange == Permutations({a, b, c})
=============================================================================
