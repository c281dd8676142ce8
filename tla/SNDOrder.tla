------------------------------ MODULE SNDOrder -------------------------------
(* What the sound command protocol promises: a command that is taken and      *)
(* pushed is executed once, after those pushed before it, and is not taken    *)
(* again before that.                                                         *)
EXTENDS SequencesExt

CONSTANT Command

VARIABLES
  taken,   \* the commands callers hold
  pending  \* the commands pushed and not executed, the oldest first

vars == <<taken, pending>>

Init == taken = {} /\ pending \in [1..1 -> Command]

Take(c) ==
  /\ c \notin taken \cup ToSet(pending)
  /\ taken' = taken \cup {c}
  /\ UNCHANGED pending

Push(c) ==
  /\ c \in taken
  /\ taken' = taken \ {c}
  /\ pending' = Append(pending, c)

Execute ==
  /\ pending # <<>>
  /\ pending' = Tail(pending)
  /\ UNCHANGED taken

Next == Execute \/ \E c \in Command : Take(c) \/ Push(c)
Spec == Init /\ [][Next]_vars
=============================================================================
