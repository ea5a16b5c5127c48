---------------------------- MODULE CompressedLog ----------------------------
(***************************************************************************)
(* The logger that compresses its entries in blocks and streams them over  *)
(* the serial port (QuantoLogCompressedMyUartWriterP.nc).  The coding of a *)
(* block is left out: bits holds the entries that were read for it.        *)
(***************************************************************************)
EXTENDS LogBuffer, Sequences

CONSTANT
  CBLOCKSIZE    \* entries compressed at once

(* CompressTask reads e[0..CBLOCKSIZE-1] from buf[m_head] without a modulo. *)
ASSUME BlockAssumption ==
  CBLOCKSIZE \in Nat \ {0} /\ BUFFERSIZE % CBLOCKSIZE = 0

VARIABLES
  compressing,  \* CompressTask is posted
  pc,           \* step of the task that runs: see below
  bits,         \* entries the bit buffer encodes
  port          \* PortWriter: "idle", or "busy" until it signals writeDone

vars == <<ring, m_state, compressing, pc, local, bits, port>>

(* pc is "code" in all code but CompressTask and writeDone; "encode" and   *)
(* "paint" are in CompressTask, before the block is read and before the    *)
(* CPU is painted with the writer's activity, "write" before the port is   *)
(* called; "repost" is after writeDone's atomic section.                   *)
Init ==
  /\ BufferInit
  /\ compressing = FALSE /\ pc = "code"
  /\ bits = << >> /\ port = "idle"

(* WriterControl.startDone. *)
StartDone ==
  /\ m_state = "S_STOPPED"
  /\ m_state' = "S_STARTED"
  /\ UNCHANGED <<ring, compressing, pc, local, bits, port>>

(* Mutant: the block must be exceeded. *)
FillsBlock_Late == m_size = CBLOCKSIZE

FillsBlock == m_size + 1 = CBLOCKSIZE

(* Main program code that is not inside of a recordChange. *)
Ready == slot = None

(* recordChange by a handler; without room nothing happens. *)
HandlerRecords(e) ==
  /\ Reserve
  /\ buf' = [buf EXCEPT ![m_tail] = e]
  /\ compressing' = (compressing \/ FillsBlock)
  /\ UNCHANGED <<m_head, m_state, pc, local, bits, port>>

TaskReserves(e) ==
  /\ Ready /\ pc = "code"
  /\ Claim(e, FillsBlock)
  /\ UNCHANGED <<buf, m_head, m_state, compressing, pc, bits, port>>

(* The rest of recordChange: the entry is filled and the task is posted.   *)
TaskFills ==
  /\ Fill
  /\ compressing' = (compressing \/ to_write)
  /\ UNCHANGED <<m_head, m_tail, m_size, m_state, pc, bits, port>>

(* CompressTask.runTask. *)
CompressStarts ==
  /\ Ready /\ pc = "code" /\ compressing
  /\ compressing' = FALSE
  /\ pc' = "encode"
  /\ UNCHANGED <<ring, m_state, local, bits, port>>

CompressEncodes ==
  /\ Ready /\ pc = "encode"
  /\ bits' = [i \in 1..CBLOCKSIZE |-> buf[m_head + i - 1]]
  /\ pc' = "paint"
  /\ UNCHANGED <<ring, m_state, compressing, local, port>>

(* set(act_quanto_write) is a change of activity, and is recorded. *)
CompressPaints ==
  /\ Ready /\ pc = "paint"
  /\ pc' = "write"
  /\ \/ /\ \E e \in Record : Claim(e, FillsBlock)
        /\ UNCHANGED <<buf, m_head>>
     \/ ~HasRoom /\ UNCHANGED <<ring, local>>
  /\ UNCHANGED <<m_state, compressing, bits, port>>

CompressWrites ==
  /\ Ready /\ pc = "write"
  /\ port' = "busy"
  /\ pc' = "code"
  /\ UNCHANGED <<ring, m_state, compressing, local, bits>>

(* Mutant: what is left waits for the next entry. *)
BlockWaits_Never(n) == FALSE

BlockWaits(n) == n >= CBLOCKSIZE

(* PortWriter.writeDone: the atomic section, and the post after it. *)
WriteDone ==
  /\ Ready /\ pc = "code" /\ port = "busy"
  /\ port' = "idle"
  /\ Release(CBLOCKSIZE)
  /\ pc' = IF BlockWaits(m_size') THEN "repost" ELSE "code"
  /\ UNCHANGED <<buf, m_tail, m_state, compressing, local, bits>>

Repost ==
  /\ pc = "repost"
  /\ compressing' = TRUE
  /\ pc' = "code"
  /\ UNCHANGED <<ring, m_state, local, bits, port>>

Next ==
  \/ StartDone
  \/ \E e \in Record : HandlerRecords(e) \/ TaskReserves(e)
  \/ TaskFills
  \/ CompressStarts \/ CompressEncodes \/ CompressPaints \/ CompressWrites
  \/ WriteDone \/ Repost

Spec == Init /\ [][Next]_vars

(* Tasks run to completion, the low-priority task gets the CPU now and     *)
(* then (other tasks that record disable it for a moment, hence SF), and   *)
(* the port answers every write.                                           *)
Fairness ==
  /\ WF_vars(TaskFills) /\ WF_vars(CompressEncodes) /\ WF_vars(CompressPaints)
  /\ WF_vars(CompressWrites) /\ WF_vars(Repost)
  /\ SF_vars(CompressStarts) /\ SF_vars(WriteDone)

------------------------------------------------------------------------------
TypeOK ==
  /\ BufferTypeOK
  /\ compressing \in BOOLEAN
  /\ pc \in {"code", "encode", "paint", "write", "repost"}
  /\ bits = << >> \/ bits \in [1..CBLOCKSIZE -> Record]
  /\ port \in {"idle", "busy"}

(* A full block is in one pair of hands: whenever the buffer holds one,    *)
(* exactly one of the posted task, the running task, the port, and the     *)
(* code about to post is responsible for it, and otherwise none is.        *)
(* CompressTask and writeDone assume it without a check.                   *)
Hands == {h \in {"posted", "task", "port", "poster", "recorder"} :
            \/ h = "posted" /\ compressing
            \/ h = "task" /\ pc \in {"encode", "paint", "write"}
            \/ h = "port" /\ port = "busy"
            \/ h = "poster" /\ pc = "repost"
            \/ h = "recorder" /\ to_write}

OneHand ==
  /\ m_size >= CBLOCKSIZE <=> Hands # {}
  /\ \A g, h \in Hands : g = h

(* What the port is sending. *)
Out == IF port = "busy" THEN bits ELSE << >>
==============================================================================
