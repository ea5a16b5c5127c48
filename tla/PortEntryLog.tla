----------------------------- MODULE PortEntryLog -----------------------------
(***************************************************************************)
(* The logger for the byte-wide processor port (QuantoLogPortWriterP.nc    *)
(* over PortWriterP.nc).  Its recordChange looks for a free slot in one    *)
(* atomic section, fills the slot outside, and takes it in a second one.   *)
(***************************************************************************)
EXTENDS LogBuffer, Sequences

VARIABLES
  m_w_entry,    \* slot of the entry to send next
  preparing,    \* PrepareWriteTask is posted
  filled,       \* the main program has filled its slot
  xe,           \* the copy that the port sends
  m_busy        \* PortWriterP: WriteBufferTask is posted

vars == <<ring, m_w_entry, m_state, preparing, local, filled, xe, m_busy>>

(* The port needs no start; to_write is the flag of recordChange and of    *)
(* writeDone. *)
Init ==
  /\ BufferInit
  /\ m_w_entry = None /\ preparing = FALSE /\ filled = FALSE
  /\ xe = None /\ m_busy = FALSE

(* The second atomic section, for the slot s. *)
Take(s) ==
  /\ m_tail' = (m_tail + 1) % BUFFERSIZE
  /\ m_size' = m_size + 1
  /\ m_w_entry' = IF m_size = 0 THEN s ELSE m_w_entry

HandlerRecords(e) ==
  /\ HasRoom
  /\ buf' = [buf EXCEPT ![m_tail] = e]
  /\ Take(m_tail)
  /\ preparing' = (preparing \/ m_size = 0)
  /\ UNCHANGED <<m_head, m_state, local, filled, xe, m_busy>>

Ready == slot = None /\ ~to_write

(* recordChange by the main program, in four steps. *)
TaskFindsSlot(e) ==
  /\ Ready /\ HasRoom
  /\ slot' = m_tail /\ entry' = e
  /\ UNCHANGED <<ring, m_w_entry, m_state, preparing, to_write, filled, xe, m_busy>>

TaskFills ==
  /\ slot # None /\ ~filled
  /\ buf' = [buf EXCEPT ![slot] = entry]
  /\ filled' = TRUE
  /\ UNCHANGED <<m_head, m_tail, m_size, m_w_entry, m_state, preparing, local, xe, m_busy>>

TaskTakes ==
  /\ filled
  /\ Take(slot)
  /\ to_write' = (m_size = 0)
  /\ slot' = None /\ entry' = None /\ filled' = FALSE
  /\ UNCHANGED <<buf, m_head, m_state, preparing, xe, m_busy>>

Posts ==
  /\ to_write
  /\ to_write' = FALSE /\ preparing' = TRUE
  /\ UNCHANGED <<ring, m_w_entry, m_state, slot, entry, filled, xe, m_busy>>

(* PrepareWriteTask.runTask with PortWriter.write. *)
PrepareWrite ==
  /\ Ready /\ preparing
  /\ preparing' = FALSE
  /\ xe' = buf[m_w_entry]
  /\ m_busy' = TRUE
  /\ UNCHANGED <<ring, m_w_entry, m_state, local, filled>>

(* WriteBufferTask.runTask, which signals writeDone. *)
WriteBuffer ==
  /\ Ready /\ m_busy
  /\ m_busy' = FALSE
  /\ Release(1)
  /\ to_write' = (m_size' > 0)
  /\ m_w_entry' = IF m_size' > 0 THEN m_head' ELSE m_w_entry
  /\ UNCHANGED <<buf, m_tail, m_state, preparing, slot, entry, filled, xe>>

Next ==
  \/ \E e \in Record : HandlerRecords(e) \/ TaskFindsSlot(e)
  \/ TaskFills \/ TaskTakes \/ Posts \/ PrepareWrite \/ WriteBuffer

Spec == Init /\ [][Next]_vars

------------------------------------------------------------------------------
(* QuantoLog/README.txt calls buf a producer-consumer buffer: entries that *)
(* were recorded leave it once and unchanged.  A handler that records      *)
(* while the main program fills a slot uses the same slot.                 *)
Log == INSTANCE BlockLog
         WITH Capacity <- BUFFERSIZE, block <- 1,
              queue <- [i \in 1..m_size |-> buf[(m_head + i - 1) % BUFFERSIZE]],
              out <- IF m_busy THEN <<xe>> ELSE << >>
ProducerConsumer == Log!Spec
==============================================================================
