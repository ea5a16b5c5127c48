---------------------------- MODULE ContinuousLog ----------------------------
(***************************************************************************)
(* The logger that sends every entry in a message of its own as soon as it *)
(* can (QuantoLogContinuousUARTP.nc).  recordChange fills its slot in the  *)
(* atomic section, so one action does for tasks and handlers alike; only   *)
(* the post follows it.                                                    *)
(*                                                                         *)
(* The serial stack below is taken as its interfaces say: start and stop   *)
(* are answered by an event from a task, stop after a send that is going   *)
(* on; a send while another is going on fails.                             *)
(***************************************************************************)
EXTENDS Naturals, Sequences, SequencesExt

CONSTANTS
  BUFFERSIZE,   \* slots of buffer
  Byte,         \* 2^8: m_tail and m_count are uint8_t
  Record,       \* entries
  None          \* no entry

VARIABLES
  buffer, m_head, m_tail, m_count,
  m_sending, m_dump_posted, m_state,
  posting,    \* the main program has set m_dump_posted and will post dump
  tasks,      \* posted tasks in order: "dump", "startDone", "stopDone"
  uart        \* entry that the UART sends; "idle" when it sends none

ring == <<buffer, m_head, m_tail, m_count>>
vars == <<ring, m_sending, m_dump_posted, m_state, posting, tasks, uart>>

Slots == 0..(BUFFERSIZE - 1)

(* Boot.booted has started the serial port. *)
Init ==
  /\ buffer = [s \in Slots |-> None]
  /\ m_head = 0 /\ m_tail = 0 /\ m_count = 0
  /\ m_sending = FALSE /\ m_dump_posted = FALSE
  /\ m_state = "STOPPED"
  /\ posting = FALSE /\ tasks = <<"startDone">> /\ uart = "idle"

Posted(t) == Contains(tasks, t)
Post(t) == IF Posted(t) THEN tasks ELSE Append(tasks, t)

(* Mutant: the head goes past the end. *)
NextSlot_NoModulo(s) == s + 1

NextSlot(s) == (s + 1) % BUFFERSIZE

(* The atomic section of recordChange on a buffer that is not full. *)
Store(e) ==
  /\ m_count # BUFFERSIZE
  /\ buffer' = [buffer EXCEPT ![m_head] = e]
  /\ m_head' = NextSlot(m_head)
  /\ m_count' = (m_count + 1) % Byte
  /\ m_dump_posted' = TRUE
  /\ UNCHANGED <<m_tail, m_sending, m_state, uart>>

HandlerRecords(e) ==
  /\ Store(e)
  /\ tasks' = IF m_dump_posted THEN tasks ELSE Post("dump")
  /\ UNCHANGED posting

TaskRecords(e) ==
  /\ ~posting
  /\ Store(e)
  /\ posting' = ~m_dump_posted
  /\ UNCHANGED tasks

TaskPosts ==
  /\ posting
  /\ posting' = FALSE /\ tasks' = Post("dump")
  /\ UNCHANGED <<ring, m_sending, m_dump_posted, m_state, uart>>

NextTask(t) == ~posting /\ tasks # << >> /\ Head(tasks) = t

(* What the code reads at m_tail; beyond the buffer it may be anything. *)
Tails == IF m_tail \in Slots THEN {buffer[m_tail]} ELSE Record \cup {None}

(* Mutant: the flag is not cleared. *)
Dump_KeepsFlag ==
  /\ NextTask("dump")
  /\ IF m_state \in {"STOPPING", "STOPPED"}
     THEN tasks' = Tail(tasks) /\ UNCHANGED <<m_sending, m_dump_posted, uart>>
     ELSE /\ uart = "idle"
          /\ uart' \in Tails /\ m_sending' = TRUE
          /\ tasks' = Tail(tasks)
          /\ UNCHANGED m_dump_posted
  /\ UNCHANGED <<ring, m_state, posting>>

(* The task dump: a send that fails is tried again. *)
Dump ==
  /\ NextTask("dump")
  /\ IF m_state \in {"STOPPING", "STOPPED"}
     THEN tasks' = Tail(tasks) /\ UNCHANGED <<m_sending, m_dump_posted, uart>>
     ELSE \/ /\ uart = "idle"
             /\ uart' \in Tails /\ m_sending' = TRUE
             /\ m_dump_posted' = FALSE
             /\ tasks' = Tail(tasks)
          \/ /\ uart # "idle"
             /\ m_dump_posted' = TRUE
             /\ tasks' = Append(Tail(tasks), "dump")
             /\ UNCHANGED <<m_sending, uart>>
  /\ UNCHANGED <<ring, m_state, posting>>

(* UARTSend.sendDone with its status; m_tail goes on beyond the buffer. *)
SendDone(ok) ==
  /\ ~posting /\ uart # "idle"
  /\ uart' = "idle" /\ m_sending' = FALSE
  /\ m_tail' = (IF ok THEN (m_tail + 1) % Byte ELSE m_tail)
  /\ m_count' = (IF ok THEN (m_count + Byte - 1) % Byte ELSE m_count)
  /\ IF m_count' > 0 /\ ~m_dump_posted
     THEN m_dump_posted' = TRUE /\ tasks' = Post("dump")
     ELSE UNCHANGED <<m_dump_posted, tasks>>
  /\ UNCHANGED <<buffer, m_head, m_state, posting>>

(* QuantoLog.record and flush by the application. *)
record ==
  /\ ~posting /\ m_state = "STOPPED"
  /\ m_state' = "STARTING"
  /\ tasks' = Post("startDone")
  /\ UNCHANGED <<ring, m_sending, m_dump_posted, posting, uart>>

flush ==
  /\ ~posting /\ m_state = "LOGGING"
  /\ m_state' = "STOPPING"
  /\ UNCHANGED <<ring, m_sending, m_dump_posted, posting, tasks, uart>>

(* The serial port has nothing more to send. *)
SerialStops ==
  /\ m_state = "STOPPING" /\ uart = "idle" /\ ~Posted("stopDone")
  /\ tasks' = Post("stopDone")
  /\ UNCHANGED <<ring, m_sending, m_dump_posted, m_state, posting, uart>>

StopDone ==
  /\ NextTask("stopDone")
  /\ tasks' = Tail(tasks)
  /\ m_state' = "STOPPED"
  /\ UNCHANGED <<ring, m_sending, m_dump_posted, posting, uart>>

(* SerialControl.startDone: initState, or another start. *)
StartDone ==
  /\ NextTask("startDone")
  /\ \/ /\ tasks' = Tail(tasks)
        /\ m_state' = "LOGGING"
        /\ m_head' = 0 /\ m_tail' = 0 /\ m_count' = 0
        /\ m_sending' = FALSE /\ m_dump_posted' = FALSE
        /\ UNCHANGED <<buffer, posting, uart>>
     \/ /\ tasks' = Append(Tail(tasks), "startDone")
        /\ UNCHANGED <<ring, m_sending, m_dump_posted, m_state, posting, uart>>

Next ==
  \/ \E e \in Record : HandlerRecords(e) \/ TaskRecords(e)
  \/ TaskPosts \/ Dump
  \/ \E ok \in BOOLEAN : SendDone(ok)
  \/ record \/ flush \/ SerialStops \/ StopDone \/ StartDone

Spec == Init /\ [][Next]_vars

------------------------------------------------------------------------------
TypeOK ==
  /\ buffer \in [Slots -> Record \cup {None}]
  /\ m_head \in Slots /\ {m_tail, m_count} \subseteq 0..(Byte - 1)
  /\ {m_sending, m_dump_posted, posting} \subseteq BOOLEAN
  /\ m_state \in {"STARTING", "LOGGING", "STOPPING", "STOPPED"}
  /\ uart \in Record \cup {None, "idle"}

(* While it logs, an entry never waits without a hand on it: the dump is   *)
(* on its way or a message is being sent whose end will post it, and       *)
(* m_dump_posted, which keeps everybody else from posting, is not left set *)
(* without a dump to clear it.  dump returns with the flag set when it     *)
(* finds the logger stopping, and a send may fail or be refused; initState *)
(* must make up for both.                                                  *)
DumpsGoOn ==
  m_state = "LOGGING" =>
    /\ m_count > 0 => m_dump_posted \/ uart # "idle"
    /\ m_dump_posted => posting \/ Posted("dump")
==============================================================================
