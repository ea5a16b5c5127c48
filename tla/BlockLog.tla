------------------------------- MODULE BlockLog -------------------------------
(***************************************************************************)
(* What a streaming logger promises: entries queue up to a capacity, then  *)
(* are dropped; a block of the oldest entries is handed to the port, stays *)
(* in the queue while the port sends it, and leaves when the port is done. *)
(* With block = 1 the entries are sent one by one.                         *)
(***************************************************************************)
EXTENDS Naturals, Sequences

CONSTANTS
  Record,      \* entries
  Capacity     \* entries the log holds

VARIABLES
  block,   \* entries sent at once; it does not change
  queue,   \* accepted entries that have not been sent, oldest first
  out      \* the block that the port sends, or << >>

logVars == <<block, queue, out>>

Init == block \in 1..Capacity /\ queue = << >> /\ out = << >>

Accept(e) ==
  /\ Len(queue) < Capacity
  /\ queue' = Append(queue, e)
  /\ UNCHANGED <<block, out>>

Send ==
  /\ out = << >> /\ Len(queue) >= block
  /\ out' = SubSeq(queue, 1, block)
  /\ UNCHANGED <<block, queue>>

Sent ==
  /\ out # << >>
  /\ out' = << >>
  /\ queue' = SubSeq(queue, block + 1, Len(queue))
  /\ UNCHANGED block

Next == (\E e \in Record : Accept(e)) \/ Send \/ Sent

Spec == Init /\ [][Next]_logVars
==============================================================================
