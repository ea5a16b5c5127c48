------------------------------ MODULE LogBuffer ------------------------------
(***************************************************************************)
(* What the loggers that stream have in common: a ring of slots.           *)
(* recordChange reserves a slot in an atomic section and fills it outside  *)
(* of it; called by the main program it is two steps, with calls by        *)
(* handlers between them, called by a handler it is one.                   *)
(***************************************************************************)
EXTENDS Naturals

CONSTANTS
  BUFFERSIZE,   \* slots of buf
  Record,       \* entries
  None          \* no entry, no slot

ASSUME SizeAssumption ==
  BUFFERSIZE \in Nat \ {0} /\ None \notin Record \cup 0..(BUFFERSIZE - 1)

VARIABLES
  buf, m_head, m_tail, m_size,
  m_state,      \* "S_STOPPED" until the writer has started
  slot, entry,  \* recordChange of the main program: its slot and value, or None
  to_write      \* and its flag

ring  == <<buf, m_head, m_tail, m_size>>
local == <<slot, entry, to_write>>

Slots == 0..(BUFFERSIZE - 1)

BufferInit ==
  /\ buf = [s \in Slots |-> None]
  /\ m_head = 0 /\ m_tail = 0 /\ m_size = 0
  /\ m_state = "S_STOPPED"
  /\ slot = None /\ entry = None /\ to_write = FALSE

HasRoom_OffByOne == m_size <= BUFFERSIZE   \* mutant

HasRoom == m_size < BUFFERSIZE

(* The atomic section of recordChange on a buffer with room. *)
Reserve ==
  /\ m_state = "S_STARTED" /\ HasRoom
  /\ m_size' = m_size + 1
  /\ m_tail' = (m_tail + 1) % BUFFERSIZE

(* The main program keeps its slot; posts says that it must post the task. *)
Claim(e, posts) == Reserve /\ slot' = m_tail /\ entry' = e /\ to_write' = posts

Fill ==
  /\ slot # None
  /\ buf' = [buf EXCEPT ![slot] = entry]
  /\ slot' = None /\ entry' = None /\ to_write' = FALSE

(* n entries have been sent. *)
Release(n) ==
  /\ m_head' = (m_head + n) % BUFFERSIZE
  /\ m_size' = m_size - n

(* Entry i of the log, oldest first, reserved or filled. *)
EntryAt(i) ==
  LET s == (m_head + i - 1) % BUFFERSIZE IN IF s = slot THEN entry ELSE buf[s]

Entries == [i \in 1..m_size |-> EntryAt(i)]

BufferTypeOK ==
  /\ buf \in [Slots -> Record \cup {None}]
  /\ m_head \in Slots /\ m_tail \in Slots /\ m_size \in 0..BUFFERSIZE
  /\ m_state \in {"S_STOPPED", "S_STARTED"}
  /\ slot \in Slots \cup {None} /\ entry \in Record \cup {None}
  /\ to_write \in BOOLEAN
==============================================================================
