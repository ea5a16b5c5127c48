------------------------------- MODULE Loggers -------------------------------
(***************************************************************************)
(* A node is built with one event logger: one of the two that stream, one  *)
(* of the three that QuantoLog starts and flushes, or the one that adds up *)
(* times.  The variables of the other loggers keep their initial values.   *)
(***************************************************************************)
EXTENDS CompressedLog

CONSTANTS
  LOGSIZE, N, Byte, Word, MaxOver,   \* of the loggers in memory
  DUMPSIZE, Counter,                 \* slots and counters of the continuous one
  Res, Activity, UNKNOWN, REPORT_INTERVAL, Half, Clock, MaxTime

VARIABLES
  logger,   \* the one that is built in
  \* of the entry logger, beside those it has in common with the compressed one
  m_w_entry, preparing, reposting, xe, sends,
  \* of the staged logger
  continuous, filled, count, m_report_index, m_missed_flush, stagedState,
  flushing, fulls, at, stagedSlot, n, report, told,
  \* of the raw logger
  log, rawCount, rawState, report_index, total_reports, rawFulls,
  change, reserved, rawSlot, uart_msg, kept, rawReport,
  \* of the continuous logger
  buffer, dumpHead, dumpTail, m_count, m_sending, m_dump_posted, dumpState,
  posting, tasks, uart,
  \* of the accounting logger
  clock, m_slot, m_report_pending, m_slot_start, m_current_act, m_last_time,
  m_time, reading, reportPosted, total_time, m_body_msg, writing

E == INSTANCE EntryLog

Memory == INSTANCE MemoryLogs
            WITH BUFFERSIZE <- DUMPSIZE, m_state <- stagedState,
                 slot <- stagedSlot, m_head <- dumpHead, m_tail <- dumpTail

Accounting == INSTANCE AccountingLog

ASSUME MemoryAssumption == Memory!BufferAssumption
ASSUME TimesAssumption == Accounting!AccountingAssumption

both == <<ring, m_state, local>>
compressedVars == <<compressing, pc, bits, port>>
entryVars == <<m_w_entry, preparing, reposting, xe, sends>>
streamVars == <<both, compressedVars, entryVars>>

memoryVars ==
  <<continuous, filled, count, m_report_index, m_missed_flush, stagedState,
    flushing, fulls, at, stagedSlot, n, report, told,
    log, rawCount, rawState, report_index, total_reports, rawFulls,
    change, reserved, rawSlot, uart_msg, kept, rawReport,
    buffer, dumpHead, dumpTail, m_count, m_sending, m_dump_posted, dumpState,
    posting, tasks, uart>>

accountVars ==
  <<clock, m_slot, m_report_pending, m_slot_start, m_current_act, m_last_time,
    m_time, reading, reportPosted, total_time, m_body_msg, writing>>

logVars == <<logger, streamVars, memoryVars, accountVars>>

InitStreams == Init /\ E!Init

NextStream ==
  \/ logger = "compressed" /\ Next /\ UNCHANGED entryVars
  \/ logger = "entry" /\ E!Next /\ UNCHANGED compressedVars

(* Only the logger that is built in has enabled actions. *)
FairStreams == Fairness /\ E!Fairness

InitLogs ==
  /\ logger \in {"compressed", "entry", "staged", "raw", "continuous",
                "accounting"}
  /\ InitStreams /\ Memory!InitMemory /\ Accounting!Init

NextLogs ==
  /\ UNCHANGED logger
  /\ \/ NextStream /\ UNCHANGED <<memoryVars, accountVars>>
     \/ Memory!NextMemory /\ UNCHANGED <<streamVars, accountVars>>
     \/ /\ logger = "accounting" /\ Accounting!Next
        /\ UNCHANGED <<streamVars, memoryVars>>

(* Loggers that are not built in have no fair action enabled. *)
FairLogs ==
  /\ InitLogs /\ [][NextLogs]_logVars
  /\ FairStreams /\ Memory!FairMemory

------------------------------------------------------------------------------
(* The variables of all loggers have their types.                          *)
LogsTypeOK == TypeOK /\ E!TypeOK /\ Memory!MemoryTypeOK /\ Accounting!TypeOK

(* A full block of the compressing logger is in exactly one pair of hands: *)
(* the posted task, the running task, the port, or the code about to post; *)
(* CompressTask and writeDone assume it without a check.                   *)
BlockInOneHand == logger = "compressed" => OneHand

BlockOf == IF logger = "compressed" THEN CBLOCKSIZE ELSE 1
OutOf == IF logger = "compressed" THEN Out ELSE E!Out
Log == INSTANCE BlockLog
         WITH Capacity <- BUFFERSIZE, block <- BlockOf,
              queue <- Entries, out <- OutOf

(* Every accepted entry is sent exactly once, in the order in which slots  *)
(* were reserved, in blocks (of one entry without compression) that no     *)
(* later entry has overwritten, though handlers record while a block is    *)
(* read, while a slot is reserved and not filled, and while the pointer to *)
(* the next entry waits for the task that uses it.                         *)
ImplementsBlockLog == Log!Spec

(* The log drains: whenever it holds a block, a block is sent after a      *)
(* while, and so a full buffer gets room again.                            *)
BlocksAreSent ==
  /\ m_size >= BlockOf ~> OutOf # << >>
  /\ m_size = BUFFERSIZE ~> m_size < BUFFERSIZE

(* The properties of the loggers in memory, by the names a run uses; see   *)
(* MemoryLogs for what each says.                                          *)

(* A raw report is what was recorded; a staged flush tells the log from    *)
(* its start, in order, each index once, and every index below count that  *)
(* is in the log is filled.  It may go on to the index count, which is not. *)
FlushTellsLog == Memory!FlushTellsLog

(* An entry of the continuous logger never waits without a dump, a message *)
(* under way or somebody about to post.                                    *)
DumpsKeepGoing == Memory!DumpsKeepGoing

(* A flush ends only after every entry was sent.                           *)
FlushIsComplete == Memory!FlushIsComplete

(* A flush of entries ends.                                                *)
FlushesEnd == Memory!FlushesEnd

(* A report of times is consistent: for every resource the times of the    *)
(* activities add up to the interval of the header, although handlers      *)
(* record while it is sent, may record between the reading of the time and *)
(* its use by the main program, and may end the interval there.  Nothing   *)
(* is lost or counted twice when the slots are switched, and the slot that *)
(* is sent and cleared is not written to.  (QuantoLogCumulativeP.nc:30-48.) *)
ReportAddsUp == Accounting!BodyAddsUp
==============================================================================
