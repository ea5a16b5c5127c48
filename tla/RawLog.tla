-------------------------------- MODULE RawLog --------------------------------
(***************************************************************************)
(* The logger that records in memory and reports on demand, one entry per  *)
(* message (QuantoLogRawUARTP.nc).  The application calls record and flush *)
(* from tasks; recordChange is called by tasks and handlers.  A recordChange *)
(* of the main program is three steps: it reads m_state, takes a slot in   *)
(* an atomic section, and fills it.                                        *)
(***************************************************************************)
EXTENDS Naturals, Sequences

CONSTANTS
  LOGSIZE,   \* entries of log
  Record,    \* entries
  None       \* no entry

VARIABLES
  log, count, m_state, report_index, total_reports,
  fulls,     \* the task full is posted
  change,    \* entry of the main program's recordChange, or None
  reserved,  \* it is past its atomic section
  slot,      \* its slot, or LOGSIZE for none
  uart_msg   \* the message that the UART sends, or << >>

(* History: the entries in the order of their slots, and the report.       *)
VARIABLES kept, report

local == <<change, reserved, slot>>
reporting == <<report_index, total_reports, uart_msg, report>>
vars  == <<log, count, m_state, reporting, fulls, local, kept>>

Slots == 0..(LOGSIZE - 1)

Init ==
  /\ log = [s \in Slots |-> None] /\ count = 0
  /\ m_state = "S_IDLE"
  /\ report_index = 0 /\ total_reports = 0
  /\ fulls = FALSE /\ change = None /\ reserved = FALSE /\ slot = LOGSIZE
  /\ uart_msg = << >>
  /\ kept = << >> /\ report = << >>

Ready == change = None

HasRoom == count < LOGSIZE

(* The atomic section of recordChange for the entry e. *)
Count(e) ==
  /\ count' = count + 1
  /\ m_state' = IF HasRoom THEN m_state ELSE "S_FULL"
  /\ kept' = IF count < LOGSIZE THEN Append(kept, e) ELSE kept

HandlerRecords(e) ==
  /\ m_state = "S_REC"
  /\ Count(e)
  /\ log' = IF HasRoom THEN [log EXCEPT ![count] = e] ELSE log
  /\ fulls' = (fulls \/ m_state' = "S_FULL")
  /\ UNCHANGED <<reporting, local>>

TaskReadsState(e) ==
  /\ Ready /\ m_state = "S_REC"
  /\ change' = e
  /\ UNCHANGED <<log, count, m_state, reporting, fulls, reserved, slot, kept>>

TaskReserves ==
  /\ ~Ready /\ ~reserved
  /\ Count(change)
  /\ reserved' = TRUE
  /\ slot' = IF HasRoom THEN count ELSE LOGSIZE
  /\ UNCHANGED <<log, reporting, fulls, change>>

TaskFills ==
  /\ reserved
  /\ log' = IF slot = LOGSIZE THEN log ELSE [log EXCEPT ![slot] = change]
  /\ fulls' = (fulls \/ m_state = "S_FULL")
  /\ change' = None /\ reserved' = FALSE /\ slot' = LOGSIZE
  /\ UNCHANGED <<count, m_state, reporting, kept>>

(* The task full tells the application, which decides what to do. *)
SignalFull ==
  /\ Ready /\ fulls
  /\ fulls' = FALSE
  /\ UNCHANGED <<log, count, m_state, reporting, local, kept>>

record ==
  /\ Ready /\ m_state = "S_IDLE"
  /\ m_state' = "S_REC"
  /\ UNCHANGED <<log, count, reporting, fulls, local, kept>>

(* Mutant: changes that found the log full are reported too. *)
TotalReports_All == count

TotalReports == IF count > LOGSIZE THEN LOGSIZE ELSE count

(* flush: the first message of the report is the number of changes. *)
flush ==
  /\ Ready /\ m_state \in {"S_REC", "S_FULL"}
  /\ m_state' = "S_REP_LOG"
  /\ total_reports' = TotalReports
  /\ report_index' = 0
  /\ uart_msg' = <<count>>
  /\ UNCHANGED <<log, count, fulls, local, kept, report>>

(* Mutant: the report ends one entry early. *)
MoreToReport_EndsEarly == report_index + 1 < total_reports

MoreToReport == report_index < total_reports

(* Mutant: the state is left to the application. *)
InitState_KeepsState ==
  /\ count' = 0 /\ report_index' = 0 /\ total_reports' = 0
  /\ UNCHANGED m_state

InitState ==
  /\ count' = 0 /\ report_index' = 0 /\ total_reports' = 0
  /\ m_state' = "S_IDLE"

(* sendDone: the next entry, or initState. *)
SendDone ==
  /\ Ready /\ uart_msg # << >>
  /\ IF MoreToReport
     THEN /\ uart_msg' = <<log[report_index]>>
          /\ report_index' = report_index + 1
          /\ report' = report \o uart_msg
          /\ UNCHANGED <<count, m_state, total_reports, kept>>
     ELSE /\ uart_msg' = << >>
          /\ InitState
          /\ kept' = << >> /\ report' = << >>
  /\ UNCHANGED <<log, fulls, local>>

Next ==
  \/ \E e \in Record : HandlerRecords(e) \/ TaskReadsState(e)
  \/ TaskReserves \/ TaskFills
  \/ SignalFull \/ record \/ flush \/ SendDone

Spec == Init /\ [][Next]_vars

(* The code of a task goes on and the UART answers. *)
Fairness == WF_vars(TaskReserves) /\ WF_vars(TaskFills) /\ WF_vars(SendDone)

------------------------------------------------------------------------------
(* A handler may fill the log between the test of m_state and the slot.    *)
TypeOK ==
  /\ log \in [Slots -> Record \cup {None}]
  /\ count \in 0..(LOGSIZE + 2)
  /\ m_state \in {"S_IDLE", "S_REC", "S_FULL", "S_REP_LOG"}
  /\ report_index \in 0..LOGSIZE /\ total_reports \in 0..LOGSIZE
  /\ {fulls, reserved} \subseteq BOOLEAN /\ change \in Record \cup {None}
  /\ slot \in 0..LOGSIZE

(* What is sent is what was recorded, in order and with the count first.   *)
ReportTellsLog ==
  m_state = "S_REP_LOG" =>
    report \o uart_msg = <<count>> \o SubSeq(kept, 1, report_index)

(* The logger is idle again only after all that it kept was reported:      *)
(* action and property.                                                    *)
ReportEnds == m_state = "S_REP_LOG" /\ m_state' = "S_IDLE"
ReportIsComplete == report_index = Len(kept)
==============================================================================
