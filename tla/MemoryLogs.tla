------------------------------ MODULE MemoryLogs ------------------------------
(***************************************************************************)
(* A node is built with one of the loggers that the application starts and *)
(* flushes by QuantoLog: the staged one (with or without continuous), the  *)
(* raw one, or the one that dumps continuously.  The variables of the      *)
(* other two keep their initial values.                                    *)
(***************************************************************************)
EXTENDS StagedLog, Sequences

CONSTANTS
  Record, None,   \* entries, no entry
  BUFFERSIZE,     \* slots of the continuous logger
  Counter         \* 2^8, the range of its counters

BufferAssumption ==
  /\ LogAssumption
  /\ {BUFFERSIZE, Counter} \subseteq Nat \ {0} /\ BUFFERSIZE < Counter
  /\ None \notin Record /\ "idle" \notin Record \cup {None}

VARIABLE logger   \* the one that is built in

VARIABLES
  log, rawCount, rawState, report_index, total_reports, rawFulls,
  change, reserved, rawSlot, uart_msg, kept, rawReport

VARIABLES
  buffer, m_head, m_tail, m_count, m_sending, m_dump_posted, dumpState,
  posting, tasks, uart

rawVars ==
  <<log, rawCount, rawState, report_index, total_reports, rawFulls,
    change, reserved, rawSlot, uart_msg, kept, rawReport>>
dumpVars ==
  <<buffer, m_head, m_tail, m_count, m_sending, m_dump_posted, dumpState,
    posting, tasks, uart>>

Raw == INSTANCE RawLog
         WITH count <- rawCount, m_state <- rawState, fulls <- rawFulls,
              slot <- rawSlot, report <- rawReport

Dumping == INSTANCE ContinuousLog WITH m_state <- dumpState, Byte <- Counter

InitMemory ==
  /\ Init /\ Raw!Init /\ Dumping!Init
  /\ logger # "staged" => ~continuous

NextMemory ==
  /\ UNCHANGED continuous
  /\ \/ logger = "staged" /\ Next /\ UNCHANGED <<rawVars, dumpVars>>
     \/ logger = "raw" /\ Raw!Next /\ UNCHANGED <<vars, dumpVars>>
     \/ logger = "continuous" /\ Dumping!Next /\ UNCHANGED <<vars, rawVars>>

memoryVars == <<continuous, vars, rawVars, dumpVars>>

(* The staged logger by itself. *)
SpecStaged ==
  /\ logger = "staged" /\ InitMemory
  /\ [][NextMemory /\ UNCHANGED logger]_<<logger, memoryVars>>

(* Loggers that are not built in have no fair action enabled. *)
FairMemory == Fairness /\ Raw!Fairness

------------------------------------------------------------------------------
MemoryTypeOK == TypeOK /\ Raw!TypeOK /\ Dumping!TypeOK

(* The report of the raw logger is what was recorded, in order.  The       *)
(* messages of a staged flush tell the log from its start, in order and    *)
(* each index once, and each slot below count that they tell is filled,    *)
(* although a flush or a full log may come in while a recordChange of the  *)
(* main program was interrupted.  They may tell one index more, count,     *)
(* which is not filled (see DumpsWhatItLogged), and, when changes counted  *)
(* on in a full log, indices beyond it.  The flush is in one pair of       *)
(* hands: its task is posted or a message is being sent, never both.       *)
FlushTellsLog == SlotsAreFilled /\ TellsInOrder /\ Raw!ReportTellsLog /\ OneFlush

(* While the continuous logger logs, an entry never waits without a dump   *)
(* or a message under way, and m_dump_posted, which keeps everybody else   *)
(* from posting, is not left set without a dump to clear it.  dump leaves  *)
(* it set when it finds the logger stopping, and a send may fail or be     *)
(* refused; initState must make up for both.                               *)
DumpsKeepGoing == Dumping!DumpsGoOn

(* A flush ends only after every entry was sent.                           *)
FlushIsComplete ==
  [][/\ RoundEnds => AllIsSent
     /\ Raw!ReportEnds => Raw!ReportIsComplete]_memoryVars

(* A flush of entries ends, unless the staged logger has a multiple of 256 *)
(* of them: its enterFlush then posts nothing and it stays in S_FLUSH.     *)
FlushesEnd ==
  /\ m_state = "S_FLUSH" /\ count % Byte # 0 ~> m_state \in {"S_IDLE", "S_REC"}
  /\ rawState = "S_REP_LOG" ~> rawState = "S_IDLE"
==============================================================================
