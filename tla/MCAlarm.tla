------------------------------ MODULE MCAlarm ------------------------------
(* OSAlarm on a small instance.                                               *)
EXTENDS OSAlarm, TLC

Exchange == Permutations(Alarm)
=============================================================================
