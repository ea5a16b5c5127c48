------------------------------ MODULE StagedLog ------------------------------
(***************************************************************************)
(* The logger that fills a log, then flushes it N entries per message, and *)
(* ends with a report on the flush itself (QuantoLogStagedMyUARTP.nc).     *)
(* With continuous it flushes by itself and records again; without, it     *)
(* tells the application, which calls record and flush from tasks.         *)
(***************************************************************************)
EXTENDS Integers, Sequences

CONSTANTS
  LOGSIZE,      \* entries of log
  N,            \* entries of a message
  Byte,         \* 2^8: enterFlush keeps count in a uint8_t
  Word,         \* 2^16: m_missed_flush is a uint16_t
  MaxOver       \* bound on the changes that count beyond LOGSIZE

LogAssumption ==
  {LOGSIZE, N, Byte, Word, MaxOver} \subseteq Nat \ {0}

VARIABLES
  continuous,       \* flush when full, record when flushed; it does not change
  filled,          \* slots of log that hold an entry of this round
  count, m_report_index, m_missed_flush, m_state,
  flushing,        \* the task flush is posted
  fulls,           \* the task signalFull is posted
  at,              \* step of the main program
  slot,            \* slot of its recordChange, or LOGSIZE for none
  n,               \* entries of the message that the UART sends, or 0
  report           \* that message is the report of the flush

VARIABLE told      \* history: the indices that this round's messages have told

local   == <<at, slot>>
message == <<n, report, told>>
vars    == <<filled, count, m_report_index, m_missed_flush, m_state,
             flushing, fulls, local, message>>

Slots == 0..(LOGSIZE - 1)

Init ==
  /\ continuous \in BOOLEAN
  /\ filled = {} /\ count = 0 /\ m_report_index = 0 /\ m_missed_flush = 0
  /\ m_state = "S_IDLE"
  /\ flushing = FALSE /\ fulls = FALSE
  /\ at = "code" /\ slot = LOGSIZE
  /\ n = 0 /\ report = FALSE /\ told = << >>

(* Mutant: the flush of a single entry is not posted. *)
EnterFlush_NeedsTwo ==
  /\ m_state' = "S_FLUSH"
  /\ m_missed_flush' = 0 /\ m_report_index' = 0
  /\ flushing' = (flushing \/ count' % Byte > 1)

(* Mutant: the flush goes on where the last one ended. *)
EnterFlush_KeepsIndex ==
  /\ m_state' = "S_FLUSH"
  /\ m_missed_flush' = 0 /\ UNCHANGED m_report_index
  /\ flushing' = (flushing \/ count' % Byte # 0)

EnterFlush ==
  /\ m_state' = "S_FLUSH"
  /\ m_missed_flush' = 0 /\ m_report_index' = 0
  /\ flushing' = (flushing \/ count' % Byte # 0)

EnterFull ==
  \/ continuous /\ EnterFlush /\ UNCHANGED fulls
  \/ ~continuous /\ m_state' = "S_FULL" /\ fulls' = TRUE
     /\ UNCHANGED <<flushing, m_missed_flush, m_report_index>>

Unless == UNCHANGED <<m_state, m_missed_flush, m_report_index, flushing, fulls>>

(* recordChange by a handler; while the task that took the last slot has   *)
(* not entered S_FULL, handlers count on.                                  *)
HandlerRecords ==
  /\ m_state = "S_REC" /\ count < LOGSIZE + MaxOver
  /\ count' = count + 1
  /\ filled' = IF count < LOGSIZE THEN filled \cup {count} ELSE filled
  /\ IF count' = LOGSIZE THEN EnterFull ELSE Unless
  /\ UNCHANGED <<local, message>>

(* recordChange by anyone during a flush only counts. *)
Missed ==
  /\ m_state = "S_FLUSH"
  /\ m_missed_flush' = (m_missed_flush + 1) % Word
  /\ UNCHANGED <<filled, count, m_report_index, m_state, flushing, fulls, local, message>>

(* recordChange by the main program: the state, the slot, the entry, and   *)
(* enterFull for the last one.                                             *)
TaskReadsState ==
  /\ at = "code" /\ m_state = "S_REC"
  /\ at' = "recording"
  /\ UNCHANGED <<filled, count, m_report_index, m_missed_flush, m_state,
                 flushing, fulls, slot, message>>

FreeSlot == IF count < LOGSIZE THEN count ELSE LOGSIZE

TaskReserves ==
  /\ at = "recording"
  /\ count' = count + 1
  /\ slot' = FreeSlot
  /\ at' = IF count' = LOGSIZE THEN "fillingLast" ELSE "filling"
  /\ UNCHANGED <<filled, m_report_index, m_missed_flush, m_state, flushing, fulls, message>>

TaskFills ==
  /\ at \in {"filling", "fillingLast"}
  /\ filled' = filled \cup ({slot} \cap Slots)
  /\ slot' = LOGSIZE
  /\ at' = IF at = "filling" THEN "code" ELSE "full"
  /\ UNCHANGED <<count, m_report_index, m_missed_flush, m_state, flushing, fulls, message>>

TaskFull ==
  /\ at = "full"
  /\ at' = "code"
  /\ UNCHANGED <<filled, count, slot, message>>
  /\ EnterFull

SignalFull ==
  /\ at = "code" /\ fulls
  /\ fulls' = FALSE
  /\ UNCHANGED <<filled, count, m_report_index, m_missed_flush, m_state,
                 flushing, local, message>>

EnterRec == count' = 0 /\ filled' = {} /\ told' = << >> /\ m_state' = "S_REC"

record ==
  /\ at = "code" /\ m_state = "S_IDLE"
  /\ EnterRec
  /\ UNCHANGED <<m_report_index, m_missed_flush, flushing, fulls, local, n, report>>

CanFlush == m_state \in {"S_REC", "S_FULL"}

(* QuantoLog.flush looks at the state first; enterFlush is a later step.   *)
flush ==
  /\ at = "code" /\ CanFlush
  /\ at' = "flush"
  /\ UNCHANGED <<filled, count, m_report_index, m_missed_flush, m_state,
                 flushing, fulls, slot, message>>

TaskEntersFlush ==
  /\ at = "flush"
  /\ UNCHANGED <<filled, count, fulls, slot, message>>
  /\ EnterFlush
  /\ at' = "code"

(* logNextMsg reads while the index is not beyond count: one entry more    *)
(* than there are when they do not end at a message boundary.              *)
LogNextMsg ==
  LET last == IF m_report_index + N <= count + 1 THEN m_report_index + N ELSE count + 1
  IN  /\ m_report_index' = last /\ n' = last - m_report_index
      /\ told' = told \o [i \in 1..(last - m_report_index) |-> m_report_index + i - 1]

(* The task flush. *)
FlushTask ==
  /\ at = "code" /\ flushing
  /\ flushing' = FALSE
  /\ LogNextMsg /\ report' = FALSE
  /\ UNCHANGED <<filled, count, m_missed_flush, m_state, fulls, local>>

(* Mutant: the round ends before the index has reached count. *)
More_Never == FALSE

More == m_report_index < count

(* UARTSend.sendDone: the next message, the report, or the end. *)
SendDone ==
  /\ at = "code" /\ n > 0
  /\ \/ /\ More
        /\ flushing' = TRUE /\ n' = 0
        /\ UNCHANGED <<filled, count, m_report_index, m_state, report, told>>
     \/ /\ ~More /\ m_report_index = count
        /\ m_report_index' = m_report_index + 1
        /\ n' = 1 /\ report' = TRUE
        /\ UNCHANGED <<filled, count, m_state, flushing, told>>
     \/ /\ ~More /\ m_report_index # count
        /\ n' = 0 /\ report' = FALSE
        /\ IF continuous THEN EnterRec
           ELSE m_state' = "S_IDLE" /\ UNCHANGED <<filled, count, told>>
        /\ UNCHANGED <<m_report_index, flushing>>
  /\ UNCHANGED <<m_missed_flush, fulls, local>>

Next ==
  \/ HandlerRecords \/ Missed
  \/ TaskReadsState \/ TaskReserves \/ TaskFills \/ TaskFull
  \/ SignalFull \/ record \/ flush \/ TaskEntersFlush
  \/ FlushTask \/ SendDone

Spec == Init /\ [][Next /\ UNCHANGED continuous]_<<continuous, vars>>

(* The code of a task goes on, tasks run and the UART answers. *)
Fairness ==
  /\ WF_vars(TaskReserves) /\ WF_vars(TaskFills) /\ WF_vars(TaskFull)
  /\ WF_vars(TaskEntersFlush)
  /\ SF_vars(FlushTask) /\ SF_vars(SendDone)

------------------------------------------------------------------------------
TypeOK ==
  /\ filled \subseteq Slots /\ count \in 0..(LOGSIZE + MaxOver + 1)
  /\ m_report_index \in 0..(LOGSIZE + MaxOver + 2) /\ m_missed_flush \in 0..(Word - 1)
  /\ m_state \in {"S_IDLE", "S_REC", "S_FULL", "S_FLUSH"}
  /\ {continuous, flushing, fulls, report} \subseteq BOOLEAN
  /\ at \in {"code", "recording", "filling", "fillingLast", "full", "flush"}
  /\ slot \in 0..LOGSIZE /\ n \in 0..N

(* The flush is in one pair of hands: the task is posted or a message is   *)
(* being sent, never both, and only during a flush.                        *)
OneFlush ==
  /\ ~(flushing /\ n > 0)
  /\ flushing \/ n > 0 => m_state = "S_FLUSH"

(* Every slot that was taken is filled before the first message is built,  *)
(* although the slot may have been taken by a task that was interrupted by *)
(* the handler that filled the last one.                                   *)
SlotsAreFilled ==
  at = "code" /\ m_state = "S_FLUSH" => \A s \in Slots : s < count => s \in filled

(* The messages tell the log from its start, in order and each index once, *)
(* and what they tell is filled: but for the index count, which they may   *)
(* go on to, and indices beyond the log when changes counted on.           *)
TellsInOrder ==
  \A i \in DOMAIN told :
    /\ told[i] = i - 1 /\ told[i] <= count
    /\ told[i] < count /\ told[i] \in Slots => told[i] \in filled

(* A round ends only after every entry was sent: action and property.      *)
RoundEnds == m_state = "S_FLUSH" /\ m_state' # "S_FLUSH"
AllIsSent == \A s \in Slots : s < count => \E i \in DOMAIN told : told[i] = s

(* The comment on line 2 says that the logger dumps what it logged to the  *)
(* UART.  logNextMsg goes on to the entry with index count.                *)
DumpsWhatItLogged ==
  n > 0 /\ ~report => (m_report_index - n)..(m_report_index - 1) \subseteq filled
==============================================================================
