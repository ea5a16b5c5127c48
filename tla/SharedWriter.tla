----------------------------- MODULE SharedWriter -----------------------------
(***************************************************************************)
(* What the virtualized writer promises its clients: each has at most one  *)
(* write outstanding, one write at a time is served, every write that was  *)
(* accepted is answered once, and clients are served round robin.          *)
(***************************************************************************)
EXTENDS Naturals

CONSTANT NUM_CLIENTS

VARIABLES
  waiting,   \* clients with an accepted and unanswered write
  serving    \* the one that is served, or NUM_CLIENTS

Clients == 0..(NUM_CLIENTS - 1)

Init == waiting = {} /\ serving = NUM_CLIENTS

(* The first of W after c in the circle of clients. *)
NextOf(c, W) ==
  CHOOSE d \in W : \A e \in W : (d + NUM_CLIENTS - c) % NUM_CLIENTS <= (e + NUM_CLIENTS - c) % NUM_CLIENTS

Accept(c) ==
  /\ c \notin waiting
  /\ waiting' = waiting \cup {c}
  /\ serving' = IF serving = NUM_CLIENTS THEN c ELSE serving

Answer ==
  /\ serving \in waiting
  /\ waiting' = waiting \ {serving}
  /\ serving' = IF waiting' = {} THEN NUM_CLIENTS ELSE NextOf(serving, waiting')

Next == (\E c \in Clients : Accept(c)) \/ Answer

(* The write that is served is answered, and so is every other in its turn. *)
Spec == Init /\ [][Next]_<<waiting, serving>> /\ WF_<<waiting, serving>>(Answer)
==============================================================================
