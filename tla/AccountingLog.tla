---------------------------- MODULE AccountingLog ----------------------------
(***************************************************************************)
(* The logger that adds up, for every resource, the time spent on behalf   *)
(* of each activity, and reports the sums when an interval is over         *)
(* (QuantoLogCumulativeP.nc).  Changes go to one of two slots while the    *)
(* other one is reported: a header, then one message per resource.  All    *)
(* that the report reads belongs to the slot that recordChange leaves      *)
(* alone, so the task is one step.  The port accepts and answers.          *)
(***************************************************************************)
EXTENDS Integers, FiniteSetsExt

CONSTANTS
  Res,              \* 0..RESOURCE_COUNT-1
  Activity, UNKNOWN, None,
  REPORT_INTERVAL,
  Half, Clock,      \* 2^16, of m_time; 2^32, of the times
  MaxTime           \* bound on the clock

VARIABLES
  clock,
  m_slot, m_report_pending, m_slot_start,
  m_current_act, m_last_time, m_time,
  reading,          \* recordChange of the main program that has read the time
  reportPosted,     \* ReportTask is posted
  total_time,       \* of the header
  m_body_msg,       \* resource and times of the last body
  writing           \* what the port sends: "nothing", "header" or "body"

slots == <<m_slot, m_report_pending, m_slot_start>>
times == <<m_current_act, m_last_time, m_time>>
messages == <<total_time, m_body_msg, writing>>
vars == <<clock, slots, times, reading, reportPosted, messages>>

RESOURCE_COUNT == Cardinality(Res)
Cleared == [r \in Res |-> [a \in Activity |-> 0]]

Init ==
  /\ clock = 0
  /\ m_slot = 0 /\ m_report_pending = 0 /\ m_slot_start = [s \in 0..1 |-> 0]
  /\ m_current_act = [r \in Res |-> UNKNOWN]
  /\ m_last_time = [r \in Res |-> 0]
  /\ m_time = [s \in 0..1 |-> Cleared]
  /\ reading = None /\ reportPosted = FALSE
  /\ total_time = 0 /\ writing = "nothing"
  /\ m_body_msg = [res |-> 0, time |-> Cleared[0]]

Tick ==
  /\ clock < MaxTime
  /\ clock' = clock + 1
  /\ UNCHANGED <<slots, times, reading, reportPosted, messages>>

(* m_time[m_slot] with the times of the resources in closed up to now.     *)
Close(closed, now) ==
  [r \in Res |->
     IF r \in closed
     THEN [m_time[m_slot][r] EXCEPT
             ![m_current_act[r]] = (@ + now - m_last_time[r]) % Half]
     ELSE m_time[m_slot][r]]

(* Mutant: the slot that is being reported is not guarded. *)
IntervalIsOver_NoGuard(now) == (now - m_slot_start[m_slot]) % Clock > REPORT_INTERVAL

IntervalIsOver(now) ==
  m_report_pending = 0 /\ (now - m_slot_start[m_slot]) % Clock > REPORT_INTERVAL

(* The atomic section of recordChange, and the post: the resource res has  *)
(* the activity act since now.                                             *)
Change(res, act, now) ==
  LET over == IntervalIsOver(now)
      closed == IF over THEN Res ELSE {res}
  IN /\ m_time' = [m_time EXCEPT ![m_slot] = Close(closed, now)]
     /\ m_last_time' = [r \in Res |-> IF r \in closed THEN now ELSE m_last_time[r]]
     /\ m_current_act' = [m_current_act EXCEPT ![res] = act]
     /\ m_report_pending' = IF over THEN RESOURCE_COUNT + 1 ELSE m_report_pending
     /\ m_slot' = IF over THEN 1 - m_slot ELSE m_slot
     /\ m_slot_start' = IF over THEN [m_slot_start EXCEPT ![1 - m_slot] = now] ELSE m_slot_start
     /\ reportPosted' = (reportPosted \/ over)
     /\ UNCHANGED <<clock, messages>>

HandlerRecords(res, act) == Change(res, act, clock) /\ UNCHANGED reading

(* recordChange of the main program reads the time before that section.    *)
TaskReads(res, act) ==
  /\ reading = None
  /\ reading' = [res |-> res, act |-> act, now |-> clock]
  /\ UNCHANGED <<clock, slots, times, reportPosted, messages>>

TaskRecords ==
  /\ reading # None
  /\ Change(reading.res, reading.act, reading.now)
  /\ reading' = None

(* ReportTask.runTask: the header for the first of the messages that are   *)
(* pending; the slot is cleared with the last.                             *)
ReportTask ==
  LET r_slot == 1 - m_slot
      res == RESOURCE_COUNT - m_report_pending
  IN /\ reading = None /\ reportPosted
     /\ reportPosted' = FALSE
     /\ IF m_report_pending = RESOURCE_COUNT + 1
        THEN /\ total_time' = (m_slot_start[m_slot] - m_slot_start[r_slot]) % Half
             /\ writing' = "header"
             /\ UNCHANGED m_body_msg
        ELSE /\ m_body_msg' = [res |-> res, time |-> m_time[r_slot][res]]
             /\ writing' = "body"
             /\ UNCHANGED total_time
     /\ m_time' = IF m_report_pending = 1 THEN [m_time EXCEPT ![r_slot] = Cleared] ELSE m_time
     /\ UNCHANGED <<clock, slots, m_current_act, m_last_time, reading>>

WriteDone ==
  /\ reading = None /\ writing # "nothing"
  /\ writing' = "nothing"
  /\ m_report_pending' = m_report_pending - 1
  /\ reportPosted' = (m_report_pending' # 0)
  /\ UNCHANGED <<clock, m_slot, m_slot_start, times, reading, total_time, m_body_msg>>

Next ==
  \/ Tick
  \/ \E res \in Res, act \in Activity : HandlerRecords(res, act) \/ TaskReads(res, act)
  \/ TaskRecords \/ ReportTask \/ WriteDone

Spec == Init /\ [][Next]_vars

------------------------------------------------------------------------------
TypeOK ==
  /\ clock \in 0..MaxTime
  /\ m_slot \in 0..1 /\ m_report_pending \in 0..(RESOURCE_COUNT + 1)
  /\ m_slot_start \in [0..1 -> 0..MaxTime]
  /\ m_current_act \in [Res -> Activity]
  /\ m_last_time \in [Res -> 0..MaxTime]
  /\ m_time \in [0..1 -> [Res -> [Activity -> 0..(Half - 1)]]]
  /\ reading \in {None} \cup [res : Res, act : Activity, now : 0..MaxTime]
  /\ reportPosted \in BOOLEAN
  /\ writing \in {"nothing", "header", "body"}

(* The times reported of a resource add up to the length of the interval   *)
(* in the header, modulo 2^16.                                             *)
BodyAddsUp ==
  writing = "body" =>
    MapThenSumSet(LAMBDA a : m_body_msg.time[a], Activity) % Half = total_time

AccountingAssumption ==
  /\ UNKNOWN \in Activity /\ None \notin Activity /\ IsFiniteSet(Activity)
  /\ IsFiniteSet(Res) /\ Res = 0..(RESOURCE_COUNT - 1)
  /\ {REPORT_INTERVAL, MaxTime} \subseteq Nat /\ {Half, Clock} \subseteq Nat \ {0}
  /\ Clock % Half = 0 /\ MaxTime < Clock
==============================================================================
