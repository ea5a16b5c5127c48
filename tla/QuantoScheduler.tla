--------------------------- MODULE QuantoScheduler ---------------------------
(***************************************************************************)
(* The Quanto scheduler with the CPU's activity and the interrupt handlers *)
(* around it: SingleContextSchedulerQuantoTasksP.nc over                   *)
(* SingleContextImplP.nc, McuSleepP.nc and the enterInterrupt /            *)
(* exitInterrupt pair that every TOSH_SIGNAL of the MSP430 code opens and  *)
(* closes with.                                                            *)
(*                                                                         *)
(* One CPU: either a handler runs (isr), which nothing preempts, or the    *)
(* main program (pc), which a handler preempts wherever interrupts are     *)
(* on.  The main program is the code of main or of a task ("code"), the    *)
(* head of the task loop ("loop") or McuSleep.sleep ("sleep").             *)
(***************************************************************************)
EXTENDS SingleContext, Naturals, Sequences

CONSTANTS
  NO_TASK,      \* end-of-list marker (255 in the code)
  ACT_INVALID,  \* the activity stored for a task that is not posted
  Task,     \* tasks of TaskBasic
  QTask,    \* tasks of TaskQuanto
  Main      \* stands for main and Boot.booted in current

ASSUME TaskAssumption ==
  /\ Task \cap QTask = {}
  /\ NO_TASK \notin Task \cup QTask \cup {Main}
  /\ Main \notin Task \cup QTask
  /\ ACT_INVALID \notin Act

VARIABLES
  m,         \* m_head, m_tail, m_next, m_act
  m_q,       \* m_q_head, m_q_tail, m_q_next, m_q_act
  m_wokeup,  \* sleep has returned and no pop has consumed it yet
  pc,        \* where the main program is
  booting,   \* main has not enabled interrupts yet
  current,   \* the task that runs, Main, or NO_TASK in the loop
  c,         \* runNextTask's saved activity, Idle when it saves none
  pending,   \* activity swapped in by set or bind, event still to come
  isr,       \* proxy of the handler that runs, or ACT_INVALID
  saved,     \* the handler's ctx variable
  woken      \* a handler has run since sleep turned the CPU off

(* History: the posted tasks in order, the activity each was posted under, *)
(* and the activity the code that runs has been given or has chosen.       *)
VARIABLES order, q_order, posted, want

tasks    == <<m, m_q, order, q_order, posted>>
program  == <<pc, booting, current, c, want>>
handler  == <<isr, saved, woken>>
vars     == <<contextVars, tasks, program, handler, m_wokeup, pending>>

-----------------------------------------------------------------------------
(***************************************************************************)
(* The task list: an intrusive linked list over the task identifiers.  The *)
(* code has it twice, m_head, m_tail, m_next, m_act for the TinyOS tasks   *)
(* and m_q_* for the low-priority TaskQuanto tasks; here one list is a     *)
(* record [head, tail, next, act] and the operators are shared.            *)
(***************************************************************************)

(* Scheduler.init: nothing is linked and every activity is invalid. *)
EmptyList(T) ==
  [head |-> NO_TASK, tail |-> NO_TASK,
   next |-> [t \in T |-> NO_TASK], act |-> [t \in T |-> ACT_INVALID]]

(* Mutant: the tail, which has no successor, does not count as waiting. *)
IsWaiting_ForgetsTail(q, id) == q.next[id] # NO_TASK

(* Only the tail has no successor, so a task waits iff it has one or is it. *)
IsWaiting(q, id) == q.next[id] # NO_TASK \/ q.tail = id

(* Mutant: the task is linked in front of the head. *)
Push_InFront(q, id, a) ==
  IF IsWaiting(q, id) THEN q
  ELSE [head |-> id,
        tail |-> IF q.head = NO_TASK THEN id ELSE q.tail,
        next |-> [q.next EXCEPT ![id] = q.head],
        act  |-> [q.act EXCEPT ![id] = a]]

(* Link id behind the tail; a task that waits already is left alone. *)
Push(q, id, a) ==
  IF IsWaiting(q, id) THEN q
  ELSE [head |-> IF q.head = NO_TASK THEN id ELSE q.head,
        tail |-> id,
        next |-> IF q.head = NO_TASK THEN q.next ELSE [q.next EXCEPT ![q.tail] = id],
        act  |-> [q.act EXCEPT ![id] = a]]

(* Unlink the head of a list that is not empty. *)
Pop(q) ==
  LET rest == q.next[q.head]
  IN  [head |-> rest,
       tail |-> IF rest = NO_TASK THEN NO_TASK ELSE q.tail,
       next |-> [q.next EXCEPT ![q.head] = NO_TASK],
       act  |-> [q.act EXCEPT ![q.head] = ACT_INVALID]]

(* The list as a type: pointers over the tasks T, activities of A. *)
Lists(T, A) ==
  [head : T \cup {NO_TASK}, tail : T \cup {NO_TASK},
   next : [T -> T \cup {NO_TASK}], act : [T -> A \cup {ACT_INVALID}]]

(* The tasks of a sequence. *)
Members(s) == {s[i] : i \in 1..Len(s)}

(***************************************************************************)
(* The list q over the tasks T represents the sequence s: the head and the *)
(* tail are its ends, next is the successor, and nothing else is linked.   *)
(***************************************************************************)
Linked(q, s, T) ==
  /\ \A i, j \in 1..Len(s) : s[i] = s[j] => i = j
  /\ s = << >> => q.head = NO_TASK /\ q.tail = NO_TASK
  /\ s # << >> => q.head = s[1] /\ q.tail = s[Len(s)]
  /\ \A i \in 1..Len(s) : q.next[s[i]] = IF i < Len(s) THEN s[i + 1] ELSE NO_TASK
  /\ \A t \in T \ Members(s) : q.next[t] = NO_TASK

-----------------------------------------------------------------------------
AllTasks == Task \cup QTask

Init ==
  /\ ContextInit
  /\ m = EmptyList(Task) /\ m_q = EmptyList(QTask)
  /\ order = << >> /\ q_order = << >>
  /\ posted = [t \in AllTasks |-> ACT_INVALID]
  /\ m_wokeup = FALSE
  /\ pc = "code" /\ booting = TRUE /\ current = Main /\ c = Idle /\ want = Idle
  /\ pending = ACT_INVALID
  /\ isr = ACT_INVALID /\ saved = ACT_INVALID /\ woken = FALSE

------------------------------------------------------------------------------
(* What running code does.  A handler runs with interrupts off and in one  *)
(* piece between the others; the main program waits while it does.         *)

InHandler == isr # ACT_INVALID
InCode == pc = "code" /\ ~InHandler /\ pending = ACT_INVALID
Running == InHandler \/ InCode

(* TaskBasic.postTask: SUCCESS, or EBUSY and no change. *)
PostTask(t) ==
  /\ Running
  /\ m' = Push(m, t, m_context)
  /\ IF IsWaiting(m, t)
     THEN UNCHANGED <<order, posted>>
     ELSE order' = Append(order, t) /\ posted' = [posted EXCEPT ![t] = m_context]
  /\ UNCHANGED <<contextVars, m_q, q_order, program, handler, m_wokeup, pending>>

(* TaskQuanto.postTask: the activity is the caller's argument. *)
PostQTask(t, act) ==
  /\ Running
  /\ m_q' = Push(m_q, t, act)
  /\ IF IsWaiting(m_q, t)
     THEN UNCHANGED <<q_order, posted>>
     ELSE q_order' = Append(q_order, t) /\ posted' = [posted EXCEPT ![t] = act]
  /\ UNCHANGED <<contextVars, m, order, program, handler, m_wokeup, pending>>

(* set or bind in the main program: the event waits outside of the atomic section. *)
TaskSwaps(n) ==
  /\ InCode
  /\ Swap(n)
  /\ want' = n
  /\ pending' = IF n # m_context THEN n ELSE ACT_INVALID
  /\ UNCHANGED <<tasks, pc, booting, current, c, handler, m_wokeup>>

(* Mutant: an event is signalled although nothing changed. *)
TaskAnnounces_Always ==
  /\ pc = "code" /\ ~InHandler
  /\ Announce(pending)
  /\ pending' = ACT_INVALID
  /\ UNCHANGED <<tasks, program, handler, m_wokeup>>

TaskAnnounces ==
  /\ pc = "code" /\ ~InHandler /\ pending # ACT_INVALID
  /\ Announce(pending)
  /\ pending' = ACT_INVALID
  /\ UNCHANGED <<tasks, program, handler, m_wokeup>>

------------------------------------------------------------------------------
(* Interrupt handlers.                                                     *)

(* The boot sequence and the task loop's atomic section, the only place    *)
(* where m_wokeup holds, run with interrupts off.                          *)
InterruptsOn_Nested == ~booting /\ ~m_wokeup   \* mutant: handlers nest

InterruptsOn == ~booting /\ ~m_wokeup /\ ~InHandler

EnterHandler(p) ==
  /\ InterruptsOn
  /\ isr' = p /\ saved' = m_context
  /\ EnterInterrupt(p)
  /\ woken' = (pc = "sleep")
  /\ UNCHANGED <<tasks, program, m_wokeup, pending>>

HandlerBinds(n) ==
  /\ InHandler
  /\ Set(n)
  /\ UNCHANGED <<tasks, program, handler, m_wokeup, pending>>

ExitHandler ==
  /\ InHandler
  /\ ExitInterrupt(saved)
  /\ isr' = ACT_INVALID /\ saved' = ACT_INVALID
  /\ UNCHANGED <<tasks, program, woken, m_wokeup, pending>>

------------------------------------------------------------------------------
(* popTask and popQTask on a list that is not empty: unlink the head and   *)
(* take its activity, leaving the interrupt if the CPU has just woken up.  *)

Resume(act) == IF m_wokeup THEN ExitInterrupt(act) ELSE Set(act)

PopTask ==
  /\ m.head # NO_TASK
  /\ m' = Pop(m)
  /\ Resume(m.act[m.head])
  /\ current' = m.head
  /\ order' = Tail(order)
  /\ want' = posted[m.head]
  /\ posted' = [posted EXCEPT ![m.head] = ACT_INVALID]
  /\ UNCHANGED <<m_q, q_order>>

(* Mutant: the low-priority list is served first. *)
PopQTask_First ==
  /\ m_q.head # NO_TASK
  /\ m_q' = Pop(m_q)
  /\ Resume(m_q.act[m_q.head])
  /\ current' = m_q.head
  /\ q_order' = Tail(q_order)
  /\ want' = posted[m_q.head]
  /\ posted' = [posted EXCEPT ![m_q.head] = ACT_INVALID]
  /\ UNCHANGED <<m, order>>

PopQTask ==
  /\ m.head = NO_TASK /\ m_q.head # NO_TASK
  /\ m_q' = Pop(m_q)
  /\ Resume(m_q.act[m_q.head])
  /\ current' = m_q.head
  /\ q_order' = Tail(q_order)
  /\ want' = posted[m_q.head]
  /\ posted' = [posted EXCEPT ![m_q.head] = ACT_INVALID]
  /\ UNCHANGED <<m, order>>

NothingToRun == m.head = NO_TASK /\ m_q.head = NO_TASK

(* Scheduler.taskLoop: the pops and McuSleep.sleep are one atomic section; *)
(* the task itself runs outside of it.                                     *)
Dispatch(Popped) ==
  /\ pc = "loop" /\ ~InHandler
  /\ Popped
  /\ m_wokeup' = FALSE
  /\ pc' = "code"
  /\ UNCHANGED <<booting, c, handler, pending>>

RunTask  == Dispatch(PopTask)
RunQTask == Dispatch(PopQTask)

(* Both lists are empty: the CPU turns idle and the interrupts are enabled *)
(* by the instruction that stops it.                                       *)
Sleep ==
  /\ pc = "loop" /\ ~InHandler
  /\ NothingToRun
  /\ IF m_wokeup THEN ExitInterruptIdle ELSE Set(Idle)
  /\ m_wokeup' = FALSE
  /\ pc' = "sleep" /\ current' = NO_TASK /\ want' = Idle
  /\ UNCHANGED <<tasks, booting, c, handler, pending>>

(* The first handler to return wakes the CPU; more may run before sleep    *)
(* disables the interrupts again.                                          *)
Wake ==
  /\ pc = "sleep" /\ ~InHandler /\ woken
  /\ pc' = "loop" /\ m_wokeup' = TRUE /\ woken' = FALSE
  /\ UNCHANGED <<contextVars, tasks, booting, current, c, want, isr, saved, pending>>

(* Main runs the tasks of the boot sequence to the last one. *)
RunNextTask(Popped) ==
  /\ booting /\ InCode /\ current = Main
  /\ Popped
  /\ m_wokeup' = FALSE /\ c' = m_context
  /\ UNCHANGED <<pc, booting, handler, pending>>

BootRunsTask  == RunNextTask(PopTask)
BootRunsQTask == RunNextTask(PopQTask)

(* The call that finds nothing sets idle and puts the old activity back;   *)
(* main then enables the interrupts and signals Boot.booted.               *)
EndBoot ==
  /\ booting /\ InCode /\ current = Main
  /\ NothingToRun
  /\ m_wokeup' = FALSE
  /\ logged' = (IF m_context # Idle THEN m_context ELSE logged)
  /\ booting' = FALSE
  /\ UNCHANGED <<m_context, tasks, pc, current, c, want, handler, pending>>

(* The code that runs returns: to main's runNextTask, which restores the   *)
(* activity, or to the head of the loop, which does not.                   *)
Return ==
  /\ InCode
  /\ \/ /\ booting /\ current # Main
        /\ Set(c)
        /\ current' = Main /\ want' = c /\ c' = Idle
        /\ UNCHANGED pc
     \/ /\ ~booting
        /\ pc' = "loop" /\ current' = NO_TASK
        /\ UNCHANGED <<contextVars, want, c>>
  /\ UNCHANGED <<tasks, booting, handler, m_wokeup, pending>>

Next ==
  \/ \E t \in Task : PostTask(t)
  \/ \E t \in QTask, act \in Act : PostQTask(t, act)
  \/ \E n \in Act : TaskSwaps(n) \/ HandlerBinds(n)
  \/ TaskAnnounces
  \/ \E p \in Proxy : EnterHandler(p)
  \/ ExitHandler
  \/ RunTask \/ RunQTask \/ Sleep \/ Wake
  \/ BootRunsTask \/ BootRunsQTask \/ EndBoot
  \/ Return

Spec == Init /\ [][Next]_vars

(* The scheduler's own steps are taken as long as the handlers leave the   *)
(* CPU some time (strong fairness: a handler only ever delays them), and   *)
(* handlers and tasks return, as TinyOS code must.                         *)
SchedulerStep ==
  RunTask \/ RunQTask \/ Sleep \/ Wake \/ BootRunsTask \/ BootRunsQTask \/ EndBoot

Fairness ==
  /\ WF_vars(ExitHandler)
  /\ SF_vars(TaskAnnounces) /\ SF_vars(Return) /\ SF_vars(SchedulerStep)

FairSpec == Spec /\ Fairness

------------------------------------------------------------------------------
(* The variables have their types; a pending event excludes the loop.      *)
TypeOK ==
  /\ m_context \in Act /\ logged \in Act
  /\ m \in Lists(Task, Act) /\ m_q \in Lists(QTask, Act)
  /\ order \in Seq(Task) /\ q_order \in Seq(QTask)
  /\ posted \in [AllTasks -> Act \cup {ACT_INVALID}]
  /\ m_wokeup \in BOOLEAN /\ booting \in BOOLEAN /\ woken \in BOOLEAN
  /\ pc \in {"code", "loop", "sleep"}
  /\ current \in AllTasks \cup {Main, NO_TASK}
  /\ c \in Act /\ want \in Act
  /\ pending \in Act \cup {ACT_INVALID}
  /\ isr \in Proxy \cup {ACT_INVALID}
  /\ saved \in Act \cup {ACT_INVALID}

(* The linked lists hold the posted tasks in the order of their posts, each *)
(* once and with the activity it was posted under, whatever mixture of     *)
(* posts by tasks and handlers and of pops built them (pushTask, popTask). *)
ListsHoldPosts ==
  /\ Linked(m, order, Task) /\ Linked(m_q, q_order, QTask)
  /\ \A t \in Task : m.act[t] = posted[t]
  /\ \A t \in QTask : m_q.act[t] = posted[t]
  /\ \A t \in Task : posted[t] # ACT_INVALID <=> t \in Members(order)
  /\ \A t \in QTask : posted[t] # ACT_INVALID <=> t \in Members(q_order)

(* Code runs under the activity it was posted under or has set since,      *)
(* however many handlers came in between, unless that activity is idle     *)
(* (exitInterrupt does not restore idle).                                  *)
CodeKeepsItsActivity ==
  want = Idle \/ (IF InHandler THEN saved ELSE m_context) = want

(* The events never charge the CPU to an activity other than the one it    *)
(* has, except to idle: a handler between the swap and the event of a set  *)
(* to idle leaves its activity in place, and the late event then says idle. *)
LogTellsContext ==
  pending = ACT_INVALID => logged \in {m_context, Idle}

(* The CPU is only ever put to sleep as idle, for the node and for the log, *)
(* with no task waiting.                                                   *)
SleepsIdle ==
  pc = "sleep" /\ ~woken =>
    /\ m_context = Idle /\ logged = Idle
    /\ order = << >> /\ q_order = << >>

(* The scheduler implements the two queues of TaskFifo.                    *)
Fifo == INSTANCE TaskFifo
          WITH Nobody <- {Main, NO_TASK},
               fifo <- order, q_fifo <- q_order, running <- current
ImplementsTaskFifo == Fifo!Spec

(* A task of TaskBasic that was posted (postTask's SUCCESS) eventually     *)
(* runs, and one of TaskQuanto once the ordinary tasks and the handlers    *)
(* stop posting ordinary tasks: two tasks that post each other starve it.  *)
Runs(t) == (posted[t] # ACT_INVALID) ~> (current = t)
PostedTasksRun ==
  /\ \A t \in Task : Runs(t)
  /\ <>[](order = << >>) => \A t \in QTask : Runs(t)

(* README:92 states this for every activity: a task starts under the       *)
(* activity it was posted under.                                           *)
TasksStartAsPosted ==
  [][current' \in AllTasks /\ current' # current
       => m_context' = posted[current']]_vars

==============================================================================
