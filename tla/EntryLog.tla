------------------------------- MODULE EntryLog -------------------------------
(***************************************************************************)
(* The logger that streams its entries one by one over the serial port     *)
(* (QuantoLogMyUARTWriterP.nc): slots are reserved and filled as in        *)
(* CompressedLog, the entry to send next is named by the pointer m_w_entry *)
(* and copied to xe by a low-priority task.                                *)
(***************************************************************************)
EXTENDS LogBuffer, Sequences

VARIABLES
  m_w_entry,    \* slot of the entry to send next
  preparing,    \* PrepareWriteTask is posted
  reposting,    \* writeDone is between its atomic section and its post
  xe,           \* the copy that the port sends, or None when it is idle
  sends         \* the port has been called and has not signalled writeDone

vars == <<ring, m_w_entry, m_state, preparing, reposting, local, xe, sends>>

Init ==
  /\ BufferInit
  /\ m_w_entry = None
  /\ preparing = FALSE /\ reposting = FALSE
  /\ xe = None /\ sends = FALSE

StartDone ==
  /\ m_state = "S_STOPPED"
  /\ m_state' = "S_STARTED"
  /\ UNCHANGED <<ring, m_w_entry, preparing, reposting, local, xe, sends>>

(* Mutant: the pointer is moved to every new entry. *)
ReserveEntry_MovesPointer == m_w_entry' = m_tail

(* The pointer names the first entry of an empty log. *)
ReserveEntry == m_w_entry' = IF m_size = 0 THEN m_tail ELSE m_w_entry

(* recordChange by a handler. *)
HandlerRecords(e) ==
  /\ Reserve /\ ReserveEntry
  /\ buf' = [buf EXCEPT ![m_tail] = e]
  /\ preparing' = (preparing \/ m_size = 0)
  /\ UNCHANGED <<m_head, m_state, reposting, local, xe, sends>>

Ready == slot = None /\ ~reposting

(* recordChange by the main program. *)
TaskReserves(e) ==
  /\ Ready
  /\ Claim(e, m_size = 0) /\ ReserveEntry
  /\ UNCHANGED <<buf, m_head, m_state, preparing, reposting, xe, sends>>

TaskFills ==
  /\ Fill
  /\ preparing' = (preparing \/ to_write)
  /\ UNCHANGED <<m_head, m_tail, m_size, m_w_entry, m_state, reposting, xe, sends>>

(* PrepareWriteTask.runTask: what it reads changes under it only if a slot *)
(* that waits is overwritten, and it ends by calling the port.             *)
PrepareWrite ==
  /\ Ready /\ preparing
  /\ preparing' = FALSE
  /\ xe' = buf[m_w_entry]
  /\ sends' = TRUE
  /\ UNCHANGED <<ring, m_w_entry, m_state, reposting, local>>

(* Mutant: the task is posted only when the buffer was full. *)
WriteDone_NoRepost ==
  /\ Ready /\ sends
  /\ sends' = FALSE
  /\ Release(1)
  /\ reposting' = (m_size = BUFFERSIZE)
  /\ m_w_entry' = IF m_size' > 0 THEN m_head' ELSE m_w_entry
  /\ UNCHANGED <<buf, m_tail, m_state, preparing, local, xe>>

(* PortWriter.writeDone: the atomic section ... *)
WriteDone ==
  /\ Ready /\ sends
  /\ sends' = FALSE
  /\ Release(1)
  /\ reposting' = (m_size' > 0)
  /\ m_w_entry' = IF m_size' > 0 THEN m_head' ELSE m_w_entry
  /\ UNCHANGED <<buf, m_tail, m_state, preparing, local, xe>>

(* ... and the post after it. *)
Repost ==
  /\ reposting
  /\ reposting' = FALSE /\ preparing' = TRUE
  /\ UNCHANGED <<ring, m_w_entry, m_state, local, xe, sends>>

Next ==
  \/ StartDone
  \/ \E e \in Record : HandlerRecords(e) \/ TaskReserves(e)
  \/ TaskFills \/ PrepareWrite \/ WriteDone \/ Repost

Spec == Init /\ [][Next]_vars

(* As for CompressedLog. *)
Fairness ==
  /\ WF_vars(TaskFills) /\ WF_vars(Repost)
  /\ SF_vars(PrepareWrite) /\ SF_vars(WriteDone)

------------------------------------------------------------------------------
TypeOK ==
  /\ BufferTypeOK
  /\ m_w_entry \in Slots \cup {None} /\ xe \in Record \cup {None}
  /\ {preparing, reposting, sends} \subseteq BOOLEAN

(* What the port is sending. *)
Out == IF sends THEN <<xe>> ELSE << >>
==============================================================================
