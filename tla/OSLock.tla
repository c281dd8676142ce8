------------------------------- MODULE OSLock -------------------------------
(* What a lock word of libraries/os/src/os_spinLock.c promises its users: at  *)
(* every moment at most one lock ID holds it, and only the holder gives it    *)
(* up.  OSSpinLock is shown to implement this module.                         *)

CONSTANTS
  LockID,  \* the lock IDs in use
  None     \* no lock ID

VARIABLE
  holder   \* the lock ID that holds the word, or None

Init == holder = None

Acquire(id) == holder = None /\ holder' = id

Release(id) == holder = id /\ holder' = None

Next == \E id \in LockID : Acquire(id) \/ Release(id)

Spec == Init /\ [][Next]_holder
=============================================================================
