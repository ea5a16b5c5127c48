------------------------------- MODULE TaskFifo -------------------------------
(***************************************************************************)
(* What the scheduler promises, without lists, activities or interrupts:   *)
(* a posted task waits at most once, tasks run one at a time and to        *)
(* completion, in the order of their posts, and a task of the low-priority *)
(* queue starts only when no other task waits.                             *)
(***************************************************************************)
EXTENDS Sequences, Naturals

CONSTANTS
  Task,      \* ordinary tasks
  QTask,     \* low-priority tasks
  Nobody     \* values of running that are not a task

VARIABLES fifo, q_fifo, running

fifoVars == <<fifo, q_fifo, running>>

Waits(t, s) == \E i \in 1..Len(s) : s[i] = t

Init == fifo = << >> /\ q_fifo = << >> /\ running \in Nobody

Post(t) ==
  /\ ~Waits(t, fifo)
  /\ fifo' = Append(fifo, t)
  /\ UNCHANGED <<q_fifo, running>>

PostQ(t) ==
  /\ ~Waits(t, q_fifo)
  /\ q_fifo' = Append(q_fifo, t)
  /\ UNCHANGED <<fifo, running>>

Start ==
  /\ running \in Nobody
  /\ fifo # << >>
  /\ running' = Head(fifo) /\ fifo' = Tail(fifo)
  /\ UNCHANGED q_fifo

StartQ ==
  /\ running \in Nobody
  /\ fifo = << >> /\ q_fifo # << >>
  /\ running' = Head(q_fifo) /\ q_fifo' = Tail(q_fifo)
  /\ UNCHANGED fifo

Finish ==
  /\ running' \in Nobody
  /\ UNCHANGED <<fifo, q_fifo>>

Next ==
  \/ \E t \in Task : Post(t)
  \/ \E t \in QTask : PostQ(t)
  \/ Start \/ StartQ \/ Finish

Spec == Init /\ [][Next]_fifoVars
==============================================================================
