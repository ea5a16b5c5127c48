----------------------------- MODULE KernelProofs -----------------------------
(***************************************************************************)
(* Theorems about QuantoScheduler for any sets of tasks and activities,    *)
(* and at the end what they and those about VirtualizeTimer say of Kernel. *)
(*                                                                         *)
(* The invariant is proved in two layers.  QueueInv says what the queues   *)
(* hold; it carries the types, since the activity that a pop hands to the  *)
(* CPU is valid only because the list holds what was posted.  ContextInv   *)
(* then follows the activity through handlers, pending events, sleep and   *)
(* wake-up.                                                                *)
(***************************************************************************)
EXTENDS Kernel, WellFoundedInduction, TLAPS

(* The linked list of tasks represents a sequence of distinct tasks:       *)
(* a push appends, a pop takes the head, isWaiting tests membership.       *)

(* Scheduler.init: the list after initialisation is the empty sequence. *)
LEMMA EmptyLinked ==
  ASSUME NEW T
  PROVE  Linked(EmptyList(T), << >>, T)
BY DEF Linked, EmptyList, Members

(* isWaiting: a task has a successor or is the tail iff it is in the list. *)
LEMMA WaitingIsMember ==
  ASSUME NEW T, NO_TASK \notin T,
         NEW A, NEW q \in Lists(T, A), NEW s \in Seq(T), Linked(q, s, T),
         NEW id \in T
  PROVE  IsWaiting(q, id) <=> id \in Members(s)
<1>1. ASSUME id \in Members(s) PROVE IsWaiting(q, id)
  <2>1. PICK i \in 1..Len(s) : s[i] = id
    BY <1>1 DEF Members
  <2>2. CASE i < Len(s)
    <3>1. q.next[id] = s[i + 1]
      BY <2>1, <2>2 DEF Linked
    <3>2. s[i + 1] \in T
      BY <2>2, <2>1
    <3> QED
      BY <3>1, <3>2 DEF IsWaiting
  <2>3. CASE i = Len(s)
    <3>1. s # << >> /\ q.tail = s[Len(s)]
      BY <2>1 DEF Linked
    <3> QED
      BY <3>1, <2>1, <2>3 DEF IsWaiting
  <2> QED
    BY <2>1, <2>2, <2>3
<1>2. ASSUME id \notin Members(s) PROVE ~IsWaiting(q, id)
  <2>1. q.next[id] = NO_TASK
    BY <1>2 DEF Linked
  <2>2. CASE s = << >>
    BY <2>1, <2>2 DEF Linked, IsWaiting
  <2>3. CASE s # << >>
    <3>1. q.tail = s[Len(s)] /\ Len(s) \in 1..Len(s)
      BY <2>3 DEF Linked
    <3>2. q.tail \in Members(s)
      BY <3>1 DEF Members
    <3> QED
      BY <2>1, <3>2, <1>2 DEF IsWaiting
  <2> QED
    BY <2>2, <2>3
<1> QED
  BY <1>1, <1>2

(* pushTask: a task that does not wait is appended. *)
LEMMA PushLinked ==
  ASSUME NEW T, NO_TASK \notin T,
         NEW A, NEW q \in Lists(T, A), NEW s \in Seq(T), Linked(q, s, T),
         NEW id \in T, NEW a \in A, ~IsWaiting(q, id)
  PROVE  Linked(Push(q, id, a), Append(s, id), T)
<1> DEFINE r == Push(q, id, a)
           u == Append(s, id)
<1>1. id \notin Members(s)
  BY WaitingIsMember
<1>2. /\ Len(u) = Len(s) + 1 /\ u \in Seq(T) /\ u[Len(u)] = id /\ u # << >>
      /\ \A i \in 1..Len(s) : u[i] = s[i]
  OBVIOUS
<1>3. Members(u) = Members(s) \cup {id}
  BY <1>2 DEF Members
<1>4. \A i, j \in 1..Len(u) : u[i] = u[j] => i = j
  BY <1>1, <1>2 DEF Linked, Members
<1>5. q.next[id] = NO_TASK
  BY <1>1 DEF Linked
<1>6. CASE s = << >>
  <2>1. r.head = id /\ r.tail = id /\ r.next = q.next
    BY <1>6 DEF Push, Linked
  <2>2. Len(s) = 0
    BY <1>6
  <2> QED
    BY <1>2, <1>3, <1>4, <1>5, <2>1, <2>2, <1>6 DEF Linked, Members
<1>7. CASE s # << >>
  <2>1. q.head = s[1] /\ q.tail = s[Len(s)] /\ Len(s) \in 1..Len(s) /\ 1 \in 1..Len(s)
    BY <1>7 DEF Linked
  <2>2. q.head # NO_TASK /\ q.tail \in T
    BY <2>1
  <2>3. r.head = s[1] /\ r.tail = id /\ r.next = [q.next EXCEPT ![q.tail] = id]
    BY <2>1, <2>2 DEF Push
  <2>4. q.next \in [T -> T \cup {NO_TASK}]
    BY DEF Lists
  <2>5. \A i \in 1..Len(u) : r.next[u[i]] = IF i < Len(u) THEN u[i + 1] ELSE NO_TASK
    <3> SUFFICES ASSUME NEW i \in 1..Len(u)
                 PROVE  r.next[u[i]] = IF i < Len(u) THEN u[i + 1] ELSE NO_TASK
      OBVIOUS
    <3>1. CASE i = Len(u)
      <4>1. q.tail # id
        BY <1>1, <2>1 DEF Members
      <4> QED
        BY <3>1, <4>1, <1>2, <1>5, <2>2, <2>3, <2>4
    <3>2. CASE i = Len(s)
      BY <3>2, <1>2, <2>1, <2>2, <2>3, <2>4
    <3>3. CASE i < Len(s)
      <4>1. u[i] = s[i] /\ s[i] \in T /\ u[i + 1] = s[i + 1]
        BY <3>3, <1>2
      <4>2. s[i] # s[Len(s)]
        BY <3>3, <2>1 DEF Linked
      <4>3. q.next[s[i]] = s[i + 1]
        BY <3>3 DEF Linked
      <4> QED
        BY <3>3, <4>1, <4>2, <4>3, <1>2, <2>1, <2>3, <2>4
    <3> QED
      BY <3>1, <3>2, <3>3, <1>2
  <2>6. \A t \in T \ Members(u) : r.next[t] = NO_TASK
    <3>1. q.tail \in Members(s)
      BY <2>1 DEF Members
    <3> QED
      BY <3>1, <1>3, <2>3, <2>4 DEF Linked
  <2>7. u[1] = s[1]
    BY <1>2, <2>1
  <2> QED
    BY <1>2, <1>4, <2>3, <2>5, <2>6, <2>7 DEF Linked
<1> QED
  BY <1>6, <1>7

(* popTask: a list that is not empty gives up its first task. *)
LEMMA PopLinked ==
  ASSUME NEW T, NO_TASK \notin T,
         NEW A, NEW q \in Lists(T, A), NEW s \in Seq(T), Linked(q, s, T),
         q.head # NO_TASK
  PROVE  /\ s # << >> /\ q.head = Head(s) /\ q.head \in T
         /\ Tail(s) \in Seq(T) /\ Linked(Pop(q), Tail(s), T)
         /\ Members(Tail(s)) = Members(s) \ {q.head}
<1> DEFINE r == Pop(q)
           u == Tail(s)
<1>1. s # << >> /\ q.head = s[1] /\ q.head = Head(s) /\ q.tail = s[Len(s)]
  BY DEF Linked
<1>2. /\ Len(s) \in Nat /\ Len(s) >= 1 /\ 1 \in 1..Len(s) /\ s[1] \in T
      /\ u \in Seq(T) /\ Len(u) = Len(s) - 1
      /\ \A i \in 1..Len(u) : u[i] = s[i + 1] /\ i + 1 \in 1..Len(s)
  BY <1>1
<1>3. q.next \in [T -> T \cup {NO_TASK}]
  BY DEF Lists
<1>4. r.next = [q.next EXCEPT ![s[1]] = NO_TASK] /\ r.head = q.next[s[1]]
  BY <1>1 DEF Pop
<1>5. \A i, j \in 1..Len(u) : u[i] = u[j] => i = j
  BY <1>2 DEF Linked
<1>6. \A i \in 1..Len(u) : u[i] # s[1] /\ u[i] \in T
  BY <1>2 DEF Linked
<1>7. \A i \in 1..Len(u) : r.next[u[i]] = IF i < Len(u) THEN u[i + 1] ELSE NO_TASK
  <2> SUFFICES ASSUME NEW i \in 1..Len(u)
               PROVE  r.next[u[i]] = IF i < Len(u) THEN u[i + 1] ELSE NO_TASK
    OBVIOUS
  <2>1. q.next[s[i + 1]] = IF i + 1 < Len(s) THEN s[i + 2] ELSE NO_TASK
    BY <1>2 DEF Linked
  <2>2. i < Len(u) => u[i + 1] = s[i + 2]
    BY <1>2
  <2>3. r.next[u[i]] = q.next[s[i + 1]]
    BY <1>2, <1>3, <1>4, <1>6
  <2> QED
    BY <2>1, <2>2, <2>3, <1>2
<1>8. Members(u) = Members(s) \ {s[1]}
  <2>1. \A t \in Members(u) : t \in Members(s) /\ t # s[1]
    BY <1>2, <1>6 DEF Members
  <2>2. ASSUME NEW t \in Members(s), t # s[1] PROVE t \in Members(u)
    <3>1. PICK j \in 1..Len(s) : s[j] = t
      BY DEF Members
    <3>2. j - 1 \in 1..Len(u) /\ u[j - 1] = s[j]
      BY <3>1, <2>2, <1>2
    <3> QED
      BY <3>1, <3>2 DEF Members
  <2> QED
    BY <2>1, <2>2
<1>9. \A t \in T \ Members(u) : r.next[t] = NO_TASK
  BY <1>2, <1>3, <1>4, <1>8 DEF Linked
<1>10. u = << >> => r.head = NO_TASK /\ r.tail = NO_TASK
  <2> SUFFICES ASSUME u = << >> PROVE r.head = NO_TASK /\ r.tail = NO_TASK
    OBVIOUS
  <2>1. Len(s) = 1
    BY <1>2
  <2>2. q.next[s[1]] = NO_TASK
    BY <2>1, <1>2 DEF Linked
  <2> QED
    BY <2>2, <1>1 DEF Pop
<1>11. u # << >> => r.head = u[1] /\ r.tail = u[Len(u)]
  <2> SUFFICES ASSUME u # << >> PROVE r.head = u[1] /\ r.tail = u[Len(u)]
    OBVIOUS
  <2>1. Len(u) >= 1 /\ Len(s) > 1
    BY <1>2
  <2>2. q.next[s[1]] = s[2] /\ u[1] = s[2]
    BY <2>1, <1>2 DEF Linked
  <2>3. s[2] \in T /\ u[Len(u)] = s[Len(s)]
    BY <2>1, <1>2
  <2> QED
    BY <2>2, <2>3, <1>1 DEF Pop
<1>12. Linked(r, u, T)
  BY <1>5, <1>7, <1>9, <1>10, <1>11 DEF Linked
<1> QED
  BY <1>1, <1>2, <1>8, <1>12

(* The list keeps its type, and a push or a pop touches the activity of    *)
(* one task only.                                                          *)
LEMMA EmptyType ==
  ASSUME NEW T, NEW A
  PROVE  EmptyList(T) \in Lists(T, A)
BY DEF EmptyList, Lists

LEMMA PushType ==
  ASSUME NEW T, NEW A, NEW q \in Lists(T, A), NEW id \in T, NEW a \in A
  PROVE  /\ Push(q, id, a) \in Lists(T, A)
         /\ IsWaiting(q, id) => Push(q, id, a) = q
         /\ ~IsWaiting(q, id) => Push(q, id, a).act = [q.act EXCEPT ![id] = a]
BY DEF Push, Lists

LEMMA PopType ==
  ASSUME NEW T, NEW A, NEW q \in Lists(T, A), q.head # NO_TASK
  PROVE  /\ q.head \in T
         /\ Pop(q) \in Lists(T, A)
         /\ Pop(q).act = [q.act EXCEPT ![q.head] = ACT_INVALID]
BY DEF Pop, Lists

(* A list without a head holds no task. *)
LEMMA HeadlessIsEmpty ==
  ASSUME NEW T, NO_TASK \notin T, NEW q, NEW s \in Seq(T), Linked(q, s, T),
         q.head = NO_TASK
  PROVE  s = << >>
BY DEF Linked

------------------------------------------------------------------------------
(* The first layer. *)

(* A handler that runs has saved an activity. *)
HandlerSaves == InHandler => saved # ACT_INVALID

QueueInv == TypeOK /\ ListsHoldPosts /\ HandlerSaves

(* What each place of the program implies. *)
Control ==
  /\ pc # "code" => pending = ACT_INVALID /\ current = NO_TASK /\ ~booting
  /\ pc = "code" => current # NO_TASK
  /\ m_wokeup => pc = "loop" /\ ~InHandler
  /\ booting => ~InHandler
  /\ pc = "sleep" /\ InHandler => woken

(* The event to come is that of the code's last choice; a handler's own    *)
(* events follow its activity at once.                                     *)
EventsFollow ==
  /\ pending # ACT_INVALID => pending = want
  /\ InHandler => logged = m_context

ContextInv ==
  Control /\ EventsFollow /\ CodeKeepsItsActivity /\ LogTellsContext /\ SleepsIdle

------------------------------------------------------------------------------
(* An activity taken from a list that holds the posts is a real one. *)
LEMMA PoppedTask ==
  ASSUME QueueInv, m.head # NO_TASK
  PROVE  /\ m.head \in Task /\ m.head \in Members(order)
         /\ order # << >> /\ m.head = Head(order)
         /\ m.act[m.head] = posted[m.head] /\ posted[m.head] \in Act
<1>1. m \in Lists(Task, Act) /\ order \in Seq(Task) /\ Linked(m, order, Task)
  BY DEF QueueInv, TypeOK, ListsHoldPosts
<1>2. m.head \in Task /\ order # << >> /\ m.head = Head(order)
  BY <1>1, PopLinked, TaskAssumption
<1>3. m.head \in Members(order)
  BY <1>1, <1>2 DEF Members
<1>4. m.act[m.head] = posted[m.head] /\ posted[m.head] \in Act
  BY <1>2, <1>3 DEF QueueInv, TypeOK, ListsHoldPosts, AllTasks
<1> QED
  BY <1>2, <1>3, <1>4

LEMMA PoppedQTask ==
  ASSUME QueueInv, m_q.head # NO_TASK
  PROVE  /\ m_q.head \in QTask /\ m_q.head \in Members(q_order)
         /\ q_order # << >> /\ m_q.head = Head(q_order)
         /\ m_q.act[m_q.head] = posted[m_q.head] /\ posted[m_q.head] \in Act
<1>1. m_q \in Lists(QTask, Act) /\ q_order \in Seq(QTask) /\ Linked(m_q, q_order, QTask)
  BY DEF QueueInv, TypeOK, ListsHoldPosts
<1>2. m_q.head \in QTask /\ q_order # << >> /\ m_q.head = Head(q_order)
  BY <1>1, PopLinked, TaskAssumption
<1>3. m_q.head \in Members(q_order)
  BY <1>1, <1>2 DEF Members
<1>4. m_q.act[m_q.head] = posted[m_q.head] /\ posted[m_q.head] \in Act
  BY <1>2, <1>3 DEF QueueInv, TypeOK, ListsHoldPosts, AllTasks
<1> QED
  BY <1>2, <1>3, <1>4

(* Appending a task adds it to the members. *)
LEMMA AppendMembers ==
  ASSUME NEW T, NEW s \in Seq(T), NEW t \in T
  PROVE  Members(Append(s, t)) = Members(s) \cup {t}
<1>1. Append(s, t) \in Seq(T) /\ Len(Append(s, t)) = Len(s) + 1 /\ Len(s) \in Nat
  OBVIOUS
<1>2. \A i \in 1..Len(s) : Append(s, t)[i] = s[i]
  OBVIOUS
<1>3. Append(s, t)[Len(s) + 1] = t
  OBVIOUS
<1> QED
  BY <1>1, <1>2, <1>3 DEF Members

(* postTask leaves the lists and what they hold in step. *)
LEMMA PostTaskQueue ==
  ASSUME QueueInv, NEW t \in Task, PostTask(t)
  PROVE  QueueInv'
<1>1. m \in Lists(Task, Act) /\ order \in Seq(Task) /\ Linked(m, order, Task)
      /\ m_context \in Act /\ posted \in [AllTasks -> Act \cup {ACT_INVALID}]
  BY DEF QueueInv, TypeOK, ListsHoldPosts
<1>2. m' = Push(m, t, m_context) /\ m' \in Lists(Task, Act)
  BY <1>1, PushType DEF PostTask
<1>3. CASE IsWaiting(m, t)
  <2>1. m' = m /\ order' = order /\ posted' = posted
    <3>1. Push(m, t, m_context) = m
      BY <1>3 DEF Push
    <3> QED
      BY <1>2, <1>3, <3>1 DEF PostTask
  <2> QED
    BY <2>1 DEF QueueInv, TypeOK, ListsHoldPosts, HandlerSaves, InHandler, PostTask,
                contextVars, program, handler
<1>4. CASE ~IsWaiting(m, t)
  <2>1. order' = Append(order, t) /\ posted' = [posted EXCEPT ![t] = m_context]
    BY <1>4 DEF PostTask
  <2>2. m'.act = [m.act EXCEPT ![t] = m_context]
    BY <1>1, <1>2, <1>4, PushType
  <2>3. Linked(m', order', Task)
    BY <1>1, <1>2, <1>4, <2>1, PushLinked, TaskAssumption
  <2>4. Members(order') = Members(order) \cup {t}
    BY <1>1, <2>1, AppendMembers
  <2>5. TypeOK' /\ HandlerSaves'
    BY <1>1, <1>2, <2>1 DEF QueueInv, TypeOK, HandlerSaves, InHandler, PostTask,
                contextVars, program, handler, AllTasks
  <2>6. m.act \in [Task -> Act \cup {ACT_INVALID}]
    BY <1>1 DEF Lists
  <2>7. ListsHoldPosts'
    <3>1. t \notin QTask /\ t \in AllTasks /\ Task \subseteq AllTasks /\ QTask \subseteq AllTasks
          /\ m_context # ACT_INVALID
      BY <1>1, TaskAssumption DEF AllTasks
    <3> QED
      BY <1>1, <2>1, <2>2, <2>3, <2>4, <2>6, <3>1 DEF QueueInv, ListsHoldPosts, PostTask
  <2> QED
    BY <2>5, <2>7 DEF QueueInv
<1> QED
  BY <1>3, <1>4

LEMMA PostQTaskQueue ==
  ASSUME QueueInv, NEW t \in QTask, NEW act \in Act, PostQTask(t, act)
  PROVE  QueueInv'
<1>1. m_q \in Lists(QTask, Act) /\ q_order \in Seq(QTask) /\ Linked(m_q, q_order, QTask)
      /\ posted \in [AllTasks -> Act \cup {ACT_INVALID}]
  BY DEF QueueInv, TypeOK, ListsHoldPosts
<1>2. m_q' = Push(m_q, t, act) /\ m_q' \in Lists(QTask, Act)
  BY <1>1, PushType DEF PostQTask
<1>3. CASE IsWaiting(m_q, t)
  <2>1. m_q' = m_q /\ q_order' = q_order /\ posted' = posted
    <3>1. Push(m_q, t, act) = m_q
      BY <1>3 DEF Push
    <3> QED
      BY <1>2, <1>3, <3>1 DEF PostQTask
  <2> QED
    BY <2>1 DEF QueueInv, TypeOK, ListsHoldPosts, HandlerSaves, InHandler, PostQTask,
                contextVars, program, handler
<1>4. CASE ~IsWaiting(m_q, t)
  <2>1. q_order' = Append(q_order, t) /\ posted' = [posted EXCEPT ![t] = act]
    BY <1>4 DEF PostQTask
  <2>2. m_q'.act = [m_q.act EXCEPT ![t] = act]
    BY <1>1, <1>2, <1>4, PushType
  <2>3. Linked(m_q', q_order', QTask)
    BY <1>1, <1>2, <1>4, <2>1, PushLinked, TaskAssumption
  <2>4. Members(q_order') = Members(q_order) \cup {t}
    BY <1>1, <2>1, AppendMembers
  <2>5. TypeOK' /\ HandlerSaves'
    BY <1>1, <1>2, <2>1 DEF QueueInv, TypeOK, HandlerSaves, InHandler, PostQTask,
                contextVars, program, handler, AllTasks
  <2>6. m_q.act \in [QTask -> Act \cup {ACT_INVALID}]
    BY <1>1 DEF Lists
  <2>7. ListsHoldPosts'
    <3>1. t \notin Task /\ t \in AllTasks /\ Task \subseteq AllTasks /\ QTask \subseteq AllTasks
          /\ act # ACT_INVALID
      BY TaskAssumption DEF AllTasks
    <3> QED
      BY <1>1, <2>1, <2>2, <2>3, <2>4, <2>6, <3>1 DEF QueueInv, ListsHoldPosts, PostQTask
  <2> QED
    BY <2>5, <2>7 DEF QueueInv
<1> QED
  BY <1>3, <1>4

(* A pop takes one task out of its list and out of what is posted. *)
LEMMA PopTaskQueue ==
  ASSUME QueueInv, PopTask
  PROVE  /\ m' \in Lists(Task, Act) /\ m_q' \in Lists(QTask, Act)
         /\ order' \in Seq(Task) /\ q_order' \in Seq(QTask)
         /\ posted' \in [AllTasks -> Act \cup {ACT_INVALID}]
         /\ m_context' \in Act /\ logged' \in Act /\ want' \in Act
         /\ current' \in Task
         /\ ListsHoldPosts'
<1>1. /\ m.head \in Task /\ m.head \in Members(order)
      /\ order # << >> /\ m.head = Head(order)
      /\ m.act[m.head] = posted[m.head] /\ posted[m.head] \in Act
  BY PoppedTask DEF PopTask
<1>2. m \in Lists(Task, Act) /\ order \in Seq(Task) /\ Linked(m, order, Task)
      /\ posted \in [AllTasks -> Act \cup {ACT_INVALID}]
      /\ m_q \in Lists(QTask, Act) /\ q_order \in Seq(QTask)
  BY DEF QueueInv, TypeOK, ListsHoldPosts
<1>3. m' \in Lists(Task, Act) /\ m'.act = [m.act EXCEPT ![m.head] = ACT_INVALID]
  <2>1. m' = Pop(m) /\ m.head # NO_TASK
    BY DEF PopTask
  <2> QED
    BY <1>2, <2>1, PopType
<1>4. order' \in Seq(Task) /\ Linked(m', order', Task) /\ Members(order') = Members(order) \ {m.head}
  BY <1>1, <1>2, PopLinked, TaskAssumption DEF PopTask
<1>5. m_context' \in Act /\ logged' \in Act /\ want' \in Act
  BY <1>1 DEF PopTask, Resume, ExitInterrupt, Set, contextVars, QueueInv, TypeOK
<1>6. m.act \in [Task -> Act \cup {ACT_INVALID}]
  BY <1>2 DEF Lists
<1>7. m.head \notin QTask /\ Task \subseteq AllTasks /\ QTask \subseteq AllTasks
  BY <1>1, TaskAssumption DEF AllTasks
<1>8. ListsHoldPosts'
  BY <1>2, <1>3, <1>4, <1>6, <1>7, <1>1 DEF PopTask, QueueInv, ListsHoldPosts
<1>9. posted' \in [AllTasks -> Act \cup {ACT_INVALID}]
  BY <1>2 DEF PopTask
<1> QED
  BY <1>1, <1>2, <1>3, <1>4, <1>5, <1>8, <1>9 DEF PopTask

LEMMA PopQTaskQueue ==
  ASSUME QueueInv, PopQTask
  PROVE  /\ m' \in Lists(Task, Act) /\ m_q' \in Lists(QTask, Act)
         /\ order' \in Seq(Task) /\ q_order' \in Seq(QTask)
         /\ posted' \in [AllTasks -> Act \cup {ACT_INVALID}]
         /\ m_context' \in Act /\ logged' \in Act /\ want' \in Act
         /\ current' \in QTask
         /\ ListsHoldPosts'
<1>1. /\ m_q.head \in QTask /\ m_q.head \in Members(q_order)
      /\ q_order # << >> /\ m_q.head = Head(q_order)
      /\ m_q.act[m_q.head] = posted[m_q.head] /\ posted[m_q.head] \in Act
  BY PoppedQTask DEF PopQTask
<1>2. m_q \in Lists(QTask, Act) /\ q_order \in Seq(QTask) /\ Linked(m_q, q_order, QTask)
      /\ posted \in [AllTasks -> Act \cup {ACT_INVALID}]
      /\ m \in Lists(Task, Act) /\ order \in Seq(Task)
  BY DEF QueueInv, TypeOK, ListsHoldPosts
<1>3. m_q' \in Lists(QTask, Act) /\ m_q'.act = [m_q.act EXCEPT ![m_q.head] = ACT_INVALID]
  <2>1. m_q' = Pop(m_q) /\ m_q.head # NO_TASK
    BY DEF PopQTask
  <2> QED
    BY <1>2, <2>1, PopType
<1>4. q_order' \in Seq(QTask) /\ Linked(m_q', q_order', QTask) /\ Members(q_order') = Members(q_order) \ {m_q.head}
  BY <1>1, <1>2, PopLinked, TaskAssumption DEF PopQTask
<1>5. m_context' \in Act /\ logged' \in Act /\ want' \in Act
  BY <1>1 DEF PopQTask, Resume, ExitInterrupt, Set, contextVars, QueueInv, TypeOK
<1>6. m_q.act \in [QTask -> Act \cup {ACT_INVALID}]
  BY <1>2 DEF Lists
<1>7. m_q.head \notin Task /\ Task \subseteq AllTasks /\ QTask \subseteq AllTasks
  BY <1>1, TaskAssumption DEF AllTasks
<1>8. ListsHoldPosts'
  BY <1>2, <1>3, <1>4, <1>6, <1>7, <1>1 DEF PopQTask, QueueInv, ListsHoldPosts
<1>9. posted' \in [AllTasks -> Act \cup {ACT_INVALID}]
  BY <1>2 DEF PopQTask
<1> QED
  BY <1>1, <1>2, <1>3, <1>4, <1>5, <1>8, <1>9 DEF PopQTask

LEMMA QueueInvInit == Init => QueueInv
<1> SUFFICES ASSUME Init PROVE QueueInv
  OBVIOUS
<1>1. m \in Lists(Task, Act) /\ m_q \in Lists(QTask, Act)
  BY EmptyType DEF Init
<1>2. Linked(m, order, Task) /\ Linked(m_q, q_order, QTask)
  BY EmptyLinked DEF Init
<1>3. TypeOK /\ HandlerSaves
  <2>1. Idle \in Act
    BY ActAssumption
  <2>2. order \in Seq(Task) /\ q_order \in Seq(QTask)
    BY DEF Init
  <2>3. posted \in [AllTasks -> Act \cup {ACT_INVALID}]
    BY DEF Init
  <2>4. m_wokeup \in BOOLEAN /\ booting \in BOOLEAN /\ woken \in BOOLEAN
    BY DEF Init
  <2> QED
    BY <1>1, <2>1, <2>2, <2>3, <2>4 DEF Init, ContextInit, TypeOK, HandlerSaves, InHandler
<1>4. ListsHoldPosts
  BY <1>2 DEF Init, ListsHoldPosts, EmptyList, AllTasks, Members
<1> QED
  BY <1>3, <1>4 DEF QueueInv

LEMMA QueueInvNext == QueueInv /\ [Next]_vars => QueueInv'
<1> SUFFICES ASSUME QueueInv, [Next]_vars PROVE QueueInv'
  OBVIOUS
<1> USE DEF InHandler
<1>1. ASSUME UNCHANGED tasks PROVE ListsHoldPosts'
  BY <1>1 DEF tasks, QueueInv, ListsHoldPosts
<1>2. ASSUME NEW t \in Task, PostTask(t) PROVE QueueInv'
  BY <1>2, PostTaskQueue
<1>3. ASSUME NEW t \in QTask, NEW act \in Act, PostQTask(t, act) PROVE QueueInv'
  BY <1>3, PostQTaskQueue
<1>4. ASSUME NEW n \in Act, TaskSwaps(n) PROVE QueueInv'
  BY <1>4, <1>1 DEF TaskSwaps, Swap, QueueInv, TypeOK, HandlerSaves, tasks, handler
<1>5. ASSUME NEW n \in Act, HandlerBinds(n) PROVE QueueInv'
  BY <1>5, <1>1 DEF HandlerBinds, Set, QueueInv, TypeOK, HandlerSaves, tasks, program, handler
<1>6. ASSUME TaskAnnounces PROVE QueueInv'
  BY <1>6, <1>1 DEF TaskAnnounces, Announce, QueueInv, TypeOK, HandlerSaves, tasks, program, handler
<1>7. ASSUME NEW p \in Proxy, EnterHandler(p) PROVE QueueInv'
  <2>1. p \in Act /\ p # ACT_INVALID /\ m_context # ACT_INVALID
    BY ActAssumption, TaskAssumption DEF QueueInv, TypeOK
  <2> QED
    BY <1>7, <1>1, <2>1 DEF EnterHandler, EnterInterrupt, QueueInv, TypeOK, HandlerSaves, tasks, program
<1>8. ASSUME ExitHandler PROVE QueueInv'
  BY <1>8, <1>1 DEF ExitHandler, ExitInterrupt, contextVars, QueueInv, TypeOK, HandlerSaves, tasks, program
<1>9. ASSUME RunTask PROVE QueueInv'
  BY <1>9, PopTaskQueue DEF RunTask, Dispatch, QueueInv, TypeOK, HandlerSaves, AllTasks, handler
<1>10. ASSUME RunQTask PROVE QueueInv'
  BY <1>10, PopQTaskQueue DEF RunQTask, Dispatch, QueueInv, TypeOK, HandlerSaves, AllTasks, handler
<1>11. ASSUME Sleep PROVE QueueInv'
  BY <1>11, <1>1, ActAssumption DEF Sleep, ExitInterruptIdle, Set, QueueInv, TypeOK, HandlerSaves, tasks, handler
<1>12. ASSUME Wake PROVE QueueInv'
  BY <1>12, <1>1 DEF Wake, contextVars, QueueInv, TypeOK, HandlerSaves, tasks
<1>13. ASSUME BootRunsTask PROVE QueueInv'
  <2>1. c' \in Act
    BY <1>13 DEF BootRunsTask, RunNextTask, QueueInv, TypeOK
  <2> QED
    BY <1>13, <2>1, PopTaskQueue DEF BootRunsTask, RunNextTask, QueueInv, TypeOK, HandlerSaves, AllTasks, handler
<1>14. ASSUME BootRunsQTask PROVE QueueInv'
  <2>1. c' \in Act
    BY <1>14 DEF BootRunsQTask, RunNextTask, QueueInv, TypeOK
  <2> QED
    BY <1>14, <2>1, PopQTaskQueue DEF BootRunsQTask, RunNextTask, QueueInv, TypeOK, HandlerSaves, AllTasks, handler
<1>15. ASSUME EndBoot PROVE QueueInv'
  BY <1>15, <1>1 DEF EndBoot, QueueInv, TypeOK, HandlerSaves, tasks, handler
<1>16. ASSUME Return PROVE QueueInv'
  BY <1>16, <1>1, ActAssumption DEF Return, Set, contextVars, QueueInv, TypeOK, HandlerSaves, tasks, handler
<1>17. CASE UNCHANGED vars
  BY <1>17, <1>1 DEF vars, contextVars, tasks, program, handler, QueueInv, TypeOK, HandlerSaves
<1> QED
  BY <1>2, <1>3, <1>4, <1>5, <1>6, <1>7, <1>8, <1>9, <1>10, <1>11, <1>12, <1>13,
     <1>14, <1>15, <1>16, <1>17 DEF Next

(* The variables keep their types. *)
THEOREM TypeCorrect == Spec => []TypeOK
<1>1. QueueInv => TypeOK
  BY DEF QueueInv
<1> QED
  BY QueueInvInit, QueueInvNext, <1>1, PTL DEF Spec

(* The linked lists hold the posts in order, whatever the interleaving. *)
THEOREM ListsCorrect == Spec => []ListsHoldPosts
<1>1. QueueInv => ListsHoldPosts
  BY DEF QueueInv
<1> QED
  BY QueueInvInit, QueueInvNext, <1>1, PTL DEF Spec

------------------------------------------------------------------------------
(* The second layer. *)

LEMMA ContextInvInit == Init => ContextInv
BY TaskAssumption DEF Init, ContextInit, ContextInv, Control, EventsFollow, InHandler,
   CodeKeepsItsActivity, LogTellsContext, SleepsIdle

(* Posting by a task or a handler leaves the context alone, and no task is *)
(* posted while the CPU sleeps without a handler.                          *)
LEMMA PostContext ==
  ASSUME ContextInv, Running,
         UNCHANGED <<contextVars, program, handler, m_wokeup, pending>>
  PROVE  ContextInv'
BY DEF ContextInv, Control, EventsFollow, InHandler, Running, InCode, CodeKeepsItsActivity,
   LogTellsContext, SleepsIdle, contextVars, program, handler

(* What the pop does to the context, after a wake-up and without one. *)
LEMMA ResumeContext ==
  ASSUME QueueInv, ContextInv, NEW act \in Act, Resume(act), ~InHandler, pending = ACT_INVALID
  PROVE  /\ m_context' = act \/ act = Idle
         /\ logged' \in {m_context', Idle}
BY DEF QueueInv, TypeOK, ContextInv, LogTellsContext, Resume, ExitInterrupt, Set, contextVars

LEMMA PopContext ==
  ASSUME QueueInv, ContextInv, PopTask \/ PopQTask, ~InHandler, pending = ACT_INVALID
  PROVE  /\ m_context' = want' \/ want' = Idle
         /\ logged' \in {m_context', Idle}
         /\ current' # NO_TASK
<1>1. CASE PopTask
  <2>1. m.act[m.head] = posted[m.head] /\ posted[m.head] \in Act /\ m.head # NO_TASK
    BY <1>1, PoppedTask DEF PopTask
  <2>2. Resume(posted[m.head]) /\ want' = posted[m.head] /\ current' = m.head
    BY <1>1, <2>1 DEF PopTask
  <2> QED
    BY <2>1, <2>2, ResumeContext
<1>2. CASE PopQTask
  <2>1. m_q.act[m_q.head] = posted[m_q.head] /\ posted[m_q.head] \in Act /\ m_q.head # NO_TASK
    BY <1>2, PoppedQTask DEF PopQTask
  <2>2. Resume(posted[m_q.head]) /\ want' = posted[m_q.head] /\ current' = m_q.head
    BY <1>2, <2>1 DEF PopQTask
  <2> QED
    BY <2>1, <2>2, ResumeContext
<1> QED
  BY <1>1, <1>2

(* A task starts, from the loop or from the boot sequence. *)
LEMMA StartContext ==
  ASSUME QueueInv, ContextInv, PopTask \/ PopQTask, ~InHandler, pending = ACT_INVALID,
         pc' = "code", m_wokeup' = FALSE, UNCHANGED <<booting, handler, pending>>
  PROVE  ContextInv'
<1>1. /\ m_context' = want' \/ want' = Idle
      /\ logged' \in {m_context', Idle}
      /\ current' # NO_TASK
  BY PopContext
<1> QED
  BY <1>1 DEF ContextInv, Control, EventsFollow, InHandler, CodeKeepsItsActivity,
     LogTellsContext, SleepsIdle, handler

LEMMA ContextInvNext == QueueInv /\ ContextInv /\ [Next]_vars => ContextInv'
<1> SUFFICES ASSUME QueueInv, ContextInv, [Next]_vars PROVE ContextInv'
  OBVIOUS
<1> USE DEF ContextInv, Control, EventsFollow, InHandler, CodeKeepsItsActivity,
        LogTellsContext, SleepsIdle
<1>1. ASSUME NEW t \in Task, PostTask(t) PROVE ContextInv'
  BY <1>1, PostContext DEF PostTask
<1>2. ASSUME NEW t \in QTask, NEW act \in Act, PostQTask(t, act) PROVE ContextInv'
  BY <1>2, PostContext DEF PostQTask
<1>3. ASSUME NEW n \in Act, TaskSwaps(n) PROVE ContextInv'
  BY <1>3, TaskAssumption DEF TaskSwaps, InCode, Swap, handler, tasks
<1>4. ASSUME NEW n \in Act, HandlerBinds(n) PROVE ContextInv'
  BY <1>4 DEF HandlerBinds, Set, program, handler, tasks
<1>5. ASSUME TaskAnnounces PROVE ContextInv'
  BY <1>5 DEF TaskAnnounces, Announce, program, handler
<1>6. ASSUME NEW p \in Proxy, EnterHandler(p) PROVE ContextInv'
  BY <1>6, ActAssumption, TaskAssumption
     DEF EnterHandler, InterruptsOn, EnterInterrupt, program, tasks
<1>7. ASSUME ExitHandler PROVE ContextInv'
  BY <1>7 DEF ExitHandler, ExitInterrupt, contextVars, program, tasks
<1>8. ASSUME RunTask PROVE ContextInv'
  BY <1>8, StartContext DEF RunTask, Dispatch
<1>9. ASSUME RunQTask PROVE ContextInv'
  BY <1>9, StartContext DEF RunQTask, Dispatch
<1>10. ASSUME Sleep PROVE ContextInv'
  <2>1. order = << >> /\ q_order = << >>
    BY <1>10, HeadlessIsEmpty, TaskAssumption
       DEF Sleep, NothingToRun, QueueInv, TypeOK, ListsHoldPosts
  <2>2. m_context' = Idle /\ logged' = Idle
    BY <1>10 DEF Sleep, ExitInterruptIdle, Set
  <2> QED
    BY <1>10, <2>1, <2>2 DEF Sleep, tasks, handler
<1>11. ASSUME Wake PROVE ContextInv'
  BY <1>11 DEF Wake, contextVars, tasks
<1>12. ASSUME BootRunsTask PROVE ContextInv'
  BY <1>12, StartContext DEF BootRunsTask, RunNextTask, InCode
<1>13. ASSUME BootRunsQTask PROVE ContextInv'
  BY <1>13, StartContext DEF BootRunsQTask, RunNextTask, InCode
<1>14. ASSUME EndBoot PROVE ContextInv'
  BY <1>14 DEF EndBoot, InCode, tasks, handler
<1>15. ASSUME Return PROVE ContextInv'
  BY <1>15, TaskAssumption DEF Return, InCode, Set, contextVars, tasks, handler
<1>16. CASE UNCHANGED vars
  BY <1>16 DEF vars, contextVars, tasks, program, handler
<1> QED
  BY <1>1, <1>2, <1>3, <1>4, <1>5, <1>6, <1>7, <1>8, <1>9, <1>10, <1>11, <1>12, <1>13,
     <1>14, <1>15, <1>16 DEF Next

(* Code keeps its activity across the handlers that interrupt it. *)
THEOREM ActivityKept == Spec => []CodeKeepsItsActivity
<1>1. ContextInv => CodeKeepsItsActivity
  BY DEF ContextInv
<1> QED
  BY QueueInvInit, QueueInvNext, ContextInvInit, ContextInvNext, <1>1, PTL DEF Spec

(* The event log tells the CPU's activity, or idle. *)
THEOREM LogCorrect == Spec => []LogTellsContext
<1>1. ContextInv => LogTellsContext
  BY DEF ContextInv
<1> QED
  BY QueueInvInit, QueueInvNext, ContextInvInit, ContextInvNext, <1>1, PTL DEF Spec

(* The CPU goes to sleep as idle with no task waiting. *)
THEOREM SleepCorrect == Spec => []SleepsIdle
<1>1. ContextInv => SleepsIdle
  BY DEF ContextInv
<1> QED
  BY QueueInvInit, QueueInvNext, ContextInvInit, ContextInvNext, <1>1, PTL DEF Spec

------------------------------------------------------------------------------
(* The scheduler implements TaskFifo. *)

(* A post is refused exactly when the abstract queue holds the task. *)
LEMMA PostRefines ==
  ASSUME QueueInv, NEW t \in Task, PostTask(t)
  PROVE  Fifo!Post(t) \/ UNCHANGED <<order, q_order, current>>
<1>1. IsWaiting(m, t) <=> t \in Members(order)
  BY WaitingIsMember, TaskAssumption DEF QueueInv, TypeOK, ListsHoldPosts
<1> QED
  BY <1>1 DEF PostTask, Fifo!Post, Fifo!Waits, Members, program

LEMMA PostQRefines ==
  ASSUME QueueInv, NEW t \in QTask, NEW act \in Act, PostQTask(t, act)
  PROVE  Fifo!PostQ(t) \/ UNCHANGED <<order, q_order, current>>
<1>1. IsWaiting(m_q, t) <=> t \in Members(q_order)
  BY WaitingIsMember, TaskAssumption DEF QueueInv, TypeOK, ListsHoldPosts
<1> QED
  BY <1>1 DEF PostQTask, Fifo!PostQ, Fifo!Waits, Members, program

(* A pop takes the head of the abstract queue while nobody runs. *)
LEMMA PopRefines ==
  ASSUME QueueInv, current \in {Main, NO_TASK}
  PROVE  /\ PopTask => Fifo!Start
         /\ PopQTask => Fifo!StartQ
<1>1. ASSUME PopTask PROVE Fifo!Start
  BY <1>1, PoppedTask DEF PopTask, Fifo!Start
<1>2. ASSUME PopQTask PROVE Fifo!StartQ
  <2>1. order = << >>
    BY <1>2, HeadlessIsEmpty, TaskAssumption DEF PopQTask, QueueInv, TypeOK, ListsHoldPosts
  <2> QED
    BY <1>2, <2>1, PoppedQTask DEF PopQTask, Fifo!StartQ
<1> QED
  BY <1>1, <1>2

LEMMA StepRefines == QueueInv /\ ContextInv /\ [Next]_vars => [Fifo!Next]_(Fifo!fifoVars)
<1> SUFFICES ASSUME QueueInv, ContextInv, [Next]_vars PROVE [Fifo!Next]_(Fifo!fifoVars)
  OBVIOUS
<1> USE DEF Fifo!fifoVars
<1>1. ASSUME UNCHANGED <<order, q_order, current>> PROVE [Fifo!Next]_(Fifo!fifoVars)
  BY <1>1
<1>2. ASSUME NEW t \in Task, PostTask(t) PROVE [Fifo!Next]_(Fifo!fifoVars)
  BY <1>2, PostRefines DEF Fifo!Next
<1>3. ASSUME NEW t \in QTask, NEW act \in Act, PostQTask(t, act) PROVE [Fifo!Next]_(Fifo!fifoVars)
  BY <1>3, PostQRefines DEF Fifo!Next
<1>4. ASSUME NEW n \in Act, TaskSwaps(n) \/ HandlerBinds(n) PROVE [Fifo!Next]_(Fifo!fifoVars)
  BY <1>4, <1>1 DEF TaskSwaps, HandlerBinds, tasks, program
<1>5. CASE TaskAnnounces \/ ExitHandler
  BY <1>5, <1>1 DEF TaskAnnounces, ExitHandler, tasks, program
<1>6. ASSUME NEW p \in Proxy, EnterHandler(p) PROVE [Fifo!Next]_(Fifo!fifoVars)
  BY <1>6, <1>1 DEF EnterHandler, tasks, program
<1>7. CASE RunTask
  BY <1>7, PopRefines DEF RunTask, Dispatch, ContextInv, Control, Fifo!Next
<1>8. CASE RunQTask
  BY <1>8, PopRefines DEF RunQTask, Dispatch, ContextInv, Control, Fifo!Next
<1>9. CASE Sleep \/ Wake \/ EndBoot
  BY <1>9, <1>1 DEF Sleep, Wake, EndBoot, tasks, ContextInv, Control
<1>10. CASE BootRunsTask
  BY <1>10, PopRefines DEF BootRunsTask, RunNextTask, Fifo!Next
<1>11. CASE BootRunsQTask
  BY <1>11, PopRefines DEF BootRunsQTask, RunNextTask, Fifo!Next
<1>12. CASE Return
  BY <1>12 DEF Return, tasks, Fifo!Next, Fifo!Finish
<1>13. CASE UNCHANGED vars
  BY <1>13, <1>1 DEF vars, tasks, program
<1> QED
  BY <1>2, <1>3, <1>4, <1>5, <1>6, <1>7, <1>8, <1>9, <1>10, <1>11, <1>12, <1>13 DEF Next

(* Every behaviour of the scheduler is one of the two queues: at most one  *)
(* entry per task, first in first out, low-priority tasks last.            *)
THEOREM SchedulerImplementsFifo == Spec => ImplementsTaskFifo
<1>1. Init => Fifo!Init
  BY DEF Init, Fifo!Init
<1> QED
  BY QueueInvInit, QueueInvNext, ContextInvInit, ContextInvNext, StepRefines, <1>1, PTL
     DEF Spec, ImplementsTaskFifo, Fifo!Spec

-----------------------------------------------------------------------------
(* The timers: that none is forgotten, for any number of them, if no delay *)
(* is as long as MAXINT (which updateFromTimer skips), and that they       *)
(* implement TimerService.                                                 *)

(* A set of natural numbers that is not empty has a least element.         *)
LEMMA MinOfNats ==
  ASSUME NEW T, T \subseteq Nat, T # {}
  PROVE  Timers!Min(T) \in T /\ \A y \in T : Timers!Min(T) <= y
<1>1. PICK x \in T : \A y \in T : ~ (<<y, x>> \in OpToRel(<, Nat))
  BY NatLessThanWellFounded, WFMin
<1>2. \A y \in T : x <= y
  <2> SUFFICES ASSUME NEW y \in T PROVE x <= y
    OBVIOUS
  <2>1. x \in Nat /\ y \in Nat
    OBVIOUS
  <2>2. ~(y < x)
    BY <1>1, <2>1 DEF OpToRel
  <2> QED
    BY <2>1, <2>2
<1> QED
  BY <1>1, <1>2 DEF Timers!Min

(* The invariant: types, and how late a timer can be.                      *)
TimerInv ==
  /\ m_timers \in [Timers!Timer -> Timers!Timer_t \cup {None}]
  /\ \A n \in Timers!Timer : Timers!Running(n) => m_timers[n].elapsed \in 0 .. m_timers[n].dt + Lag
  /\ Timers!TypeOK

LEMMA TimerInvInit == Timers!TimerAssumption /\ Timers!Init => TimerInv
  BY DEF Timers!TimerAssumption, Timers!Init, TimerInv, Timers!TypeOK, Timers!Running, Timers!Timer

(* What fireTimers does to the timers and to the rest, under its own       *)
(* activity.                                                               *)
LEMMA FireTimersInv ==
  ASSUME Timers!TimerAssumption, TimerInv, NEW p \in {None, TIMER},
         Timers!fireTimers(TIMER, p), fromFired' \in BOOLEAN,
         timerFrom' \in {timerFrom, None}
  PROVE  TimerInv' /\ (firing' # None \/ update' # None)
<1> USE DEF Timers!TimerAssumption
<1>1. ASSUME NEW n \in Timers!Timer, Timers!FirstExpired(n),
             m_timers' = [m_timers EXCEPT ![n] = Timers!Advanced(@)],
             firing' = n, cpu' = Timers!ActOfFired(n), restored' = TIMER, update' = p
      PROVE  TimerInv' /\ firing' # None
  <2>1. m_timers[n] \in Timers!Timer_t /\ Timers!Running(n)
    BY <1>1 DEF Timers!FirstExpired, Timers!Expired, Timers!Running, TimerInv, Timers!TypeOK
  <2>2. m_timers[n].elapsed \in m_timers[n].dt .. m_timers[n].dt + Lag /\ m_timers[n].dt \in 0 .. MAXINT
    <3>1. m_timers[n].elapsed \in 0 .. m_timers[n].dt + Lag
      BY <2>1 DEF TimerInv
    <3>2. m_timers[n].dt \in 0 .. MAXINT
      BY <2>1 DEF Timers!Timer_t
    <3>3. m_timers[n].elapsed >= m_timers[n].dt
      BY <1>1 DEF Timers!FirstExpired, Timers!Expired
    <3> QED
      BY <3>1, <3>2, <3>3
  <2>3. /\ Timers!Advanced(m_timers[n]) \in Timers!Timer_t \cup {None}
        /\ Timers!Advanced(m_timers[n]) # None => Timers!Advanced(m_timers[n]).elapsed \in 0 .. Lag
                                        /\ Timers!Advanced(m_timers[n]).dt \in 0 .. MAXINT
    BY <2>1, <2>2 DEF Timers!Advanced, Timers!Timer_t
  <2>4. n # None
    BY <1>1 DEF Timers!Timer
  <2>5. m_timers' \in [Timers!Timer -> Timers!Timer_t \cup {None}]
    BY <1>1, <2>3 DEF TimerInv
  <2>6. \A k \in Timers!Timer : Timers!Running(k)' => m_timers'[k].elapsed \in 0 .. m_timers'[k].dt + Lag
    <3> SUFFICES ASSUME NEW k \in Timers!Timer, Timers!Running(k)'
                 PROVE  m_timers'[k].elapsed \in 0 .. m_timers'[k].dt + Lag
      OBVIOUS
    <3>1. CASE k = n
      BY <1>1, <2>3, <3>1 DEF Timers!Running, TimerInv
    <3>2. CASE k # n
      BY <1>1, <3>2 DEF Timers!Running, TimerInv
    <3> QED
      BY <3>1, <3>2
  <2>7. \A k \in Timers!Timer : Timers!Running(k)' => m_timers'[k] \in Timers!Timer_t /\ m_timers'[k].elapsed \in 0 .. MAXINT + Lag
    <3> SUFFICES ASSUME NEW k \in Timers!Timer, Timers!Running(k)'
                 PROVE  m_timers'[k] \in Timers!Timer_t /\ m_timers'[k].elapsed \in 0 .. MAXINT + Lag
      OBVIOUS
    <3>1. m_timers'[k] \in Timers!Timer_t
      BY <2>5 DEF Timers!Running
    <3>2. m_timers'[k].dt \in 0 .. MAXINT
      BY <3>1 DEF Timers!Timer_t
    <3>3. m_timers'[k].elapsed \in 0 .. m_timers'[k].dt + Lag
      BY <2>6
    <3> QED
      BY <3>1, <3>2, <3>3
  <2>8. cpu' \in TimerAct \cup {TIMER}
    BY <1>1, <2>1 DEF Timers!ActOfFired, Timers!Timer_t
  <2> QED
    BY <1>1, <2>4, <2>5, <2>6, <2>7, <2>8 DEF TimerInv, Timers!TypeOK
<1>2. ASSUME update' = (IF p = None THEN TIMER ELSE p), cpu' = TIMER, UNCHANGED <<m_timers, firing, restored>>
      PROVE  TimerInv' /\ update' # None
  BY <1>2 DEF TimerInv, Timers!TypeOK, Timers!Running
<1> QED
  BY <1>1, <1>2 DEF Timers!fireTimers

LEMMA TimerInvNext ==
  ASSUME Timers!TimerAssumption, TimerInv, [Timers!Next]_(Timers!vars)
  PROVE  TimerInv'
<1> USE DEF Timers!TimerAssumption
<1>1. ASSUME NEW a \in TimerAct, Timers!UserActivity(a) PROVE TimerInv'
  BY <1>1 DEF Timers!UserActivity, TimerInv, Timers!TypeOK, Timers!Running
<1>2. ASSUME NEW n \in Timers!Timer, NEW since \in Past, NEW dt \in Dt, NEW b \in BOOLEAN,
             Timers!startTimer(n, since, dt, b)
      PROVE  TimerInv'
  <2> DEFINE t == [elapsed |-> since, dt |-> dt, isoneshot |-> b, act |-> cpu]
  <2>1. /\ t \in Timers!Timer_t /\ t.dt \in 0 .. MAXINT
        /\ t.elapsed \in 0 .. t.dt + Lag /\ t.elapsed \in 0 .. MAXINT + Lag
    <3>1. cpu \in TimerAct \cup {TIMER}
      BY DEF TimerInv, Timers!TypeOK
    <3>2. dt \in 0 .. MAXINT
      OBVIOUS
    <3> QED
      BY <3>1, <3>2 DEF Timers!Timer_t
  <2>2. m_timers' = [m_timers EXCEPT ![n] = t]
    BY <1>2 DEF Timers!startTimer
  <2>3. m_timers' \in [Timers!Timer -> Timers!Timer_t \cup {None}]
    BY <2>1, <2>2 DEF TimerInv
  <2>4. \A k \in Timers!Timer : k # n => m_timers'[k] = m_timers[k]
    BY <2>2 DEF TimerInv
  <2>5. m_timers'[n] = t
    BY <2>2 DEF TimerInv
  <2>6. ASSUME NEW k \in Timers!Timer, Timers!Running(k)'
        PROVE  /\ m_timers'[k] \in Timers!Timer_t
               /\ m_timers'[k].elapsed \in 0 .. m_timers'[k].dt + Lag
               /\ m_timers'[k].elapsed \in 0 .. MAXINT + Lag
    <3>1. CASE k = n
      BY <2>1, <2>5, <3>1
    <3>2. CASE k # n
      BY <2>4, <2>6, <3>2 DEF Timers!Running, TimerInv, Timers!TypeOK
    <3> QED
      BY <3>1, <3>2
  <2> QED
    BY <1>2, <2>3, <2>6 DEF Timers!startTimer, Timers!PostUpdate, TimerInv, Timers!TypeOK
<1>3. ASSUME NEW n \in Timers!Timer, Timers!stop(n) PROVE TimerInv'
  BY <1>3 DEF Timers!stop, TimerInv, Timers!TypeOK, Timers!Running
<1>4. ASSUME Timers!FiredReturns PROVE TimerInv'
  BY <1>4 DEF Timers!FiredReturns, Timers!PostUpdate, TimerInv, Timers!TypeOK, Timers!Running
<1>5. ASSUME Timers!updateFromTimer PROVE TimerInv'
  <2>0. update = TIMER
    BY <1>5 DEF Timers!updateFromTimer, TimerInv, Timers!TypeOK
  <2>1. ASSUME Timers!fireTimers(update, None), timerFrom' = None
        PROVE  TimerInv'
    <3>1. fromFired' \in BOOLEAN
      BY <1>5 DEF Timers!updateFromTimer, TimerInv, Timers!TypeOK
    <3> QED
      BY <2>0, <2>1, <3>1, FireTimersInv
  <2>2. ASSUME \A r \in Timers!Remainders : r > 0,
               timerFrom' = IF Timers!Remainders = {} THEN None ELSE Timers!Min(Timers!Remainders),
               update' = None, cpu' = update, UNCHANGED <<m_timers, firing, restored, fromFired>>
        PROVE  TimerInv'
    <3>1. Timers!Remainders \subseteq 0 .. MAXINT
      <4>1. \A n \in Timers!Timer : Timers!Running(n) => Timers!remaining(n) \in Int
        <5> SUFFICES ASSUME NEW n \in Timers!Timer, Timers!Running(n) PROVE Timers!remaining(n) \in Int
          OBVIOUS
        <5>1. m_timers[n] \in Timers!Timer_t
          BY DEF TimerInv, Timers!TypeOK
        <5>2. m_timers[n].elapsed \in Int /\ m_timers[n].dt \in Dt
          BY <5>1 DEF Timers!Timer_t
        <5>3. m_timers[n].dt \in 0 .. MAXINT
          BY <5>2
        <5> QED
          BY <5>2, <5>3 DEF Timers!remaining
      <4>2. \A r \in Timers!Remainders : r \in Int /\ r < MAXINT
        BY <4>1 DEF Timers!Remainders
      <4> QED
        BY <4>2, <2>2
    <3>2. timerFrom' \in 0 .. MAXINT \cup {None}
      <4>1. CASE Timers!Remainders = {}
        BY <2>2, <4>1
      <4>2. CASE Timers!Remainders # {}
        <5>1. Timers!Remainders \subseteq Nat
          BY <3>1
        <5>2. Timers!Min(Timers!Remainders) \in Timers!Remainders
          BY <5>1, <4>2, MinOfNats
        <5> QED
          BY <2>2, <3>1, <4>2, <5>2
      <4> QED
        BY <4>1, <4>2
    <3> QED
      BY <2>0, <2>2, <3>2 DEF TimerInv, Timers!TypeOK, Timers!Running
  <2> QED
    BY <1>5, <2>1, <2>2 DEF Timers!updateFromTimer
<1>6. ASSUME Timers!TimerFromFired PROVE TimerInv'
  <2>1. update \in {None, TIMER} /\ Timers!fireTimers(TIMER, update) /\ UNCHANGED timerFrom /\ fromFired' = FALSE
    BY <1>6 DEF Timers!TimerFromFired, TimerInv, Timers!TypeOK
  <2> QED
    BY <2>1, FireTimersInv
<1>7. ASSUME Timers!TimerFromExpires PROVE TimerInv'
  BY <1>7 DEF Timers!TimerFromExpires, TimerInv, Timers!TypeOK, Timers!Running
<1>8. ASSUME Timers!Tick PROVE TimerInv'
  <2>1. ASSUME NEW n \in Timers!Timer
        PROVE  /\ m_timers'[n] = Timers!Older(m_timers[n])
               /\ Timers!Running(n)' => Timers!Running(n)
               /\ m_timers'[n] \in Timers!Timer_t \cup {None}
               /\ Timers!Running(n)' => /\ m_timers'[n] \in Timers!Timer_t
                                 /\ m_timers'[n].elapsed \in 0 .. m_timers'[n].dt + Lag
                                 /\ m_timers'[n].elapsed \in 0 .. MAXINT + Lag
    <3>1. m_timers'[n] = Timers!Older(m_timers[n])
      BY <1>8 DEF Timers!Tick
    <3>2. CASE m_timers[n] = None
      BY <3>1, <3>2 DEF Timers!Older, Timers!Running
    <3>3. CASE m_timers[n] # None
      <4>1. /\ m_timers[n] \in Timers!Timer_t
            /\ m_timers[n].elapsed \in 0 .. m_timers[n].dt + Lag
            /\ m_timers[n].dt \in 0 .. MAXINT
        BY <3>3 DEF TimerInv, Timers!Running, Timers!TypeOK, Timers!Timer_t
      <4>2. CASE m_timers[n].elapsed < m_timers[n].dt + Lag
        <5>1. m_timers'[n] = [m_timers[n] EXCEPT !.elapsed = m_timers[n].elapsed + 1]
          BY <3>1, <3>3, <4>2 DEF Timers!Older
        <5>2. m_timers'[n] \in Timers!Timer_t /\ m_timers'[n].elapsed = m_timers[n].elapsed + 1
              /\ m_timers'[n].dt = m_timers[n].dt
          BY <4>1, <5>1 DEF Timers!Timer_t
        <5> QED
          BY <3>1, <3>3, <4>1, <4>2, <5>2 DEF Timers!Running
      <4>3. CASE ~(m_timers[n].elapsed < m_timers[n].dt + Lag)
        BY <3>1, <3>3, <4>1, <4>3 DEF Timers!Older, Timers!Running
      <4> QED
        BY <4>2, <4>3
    <3> QED
      BY <3>2, <3>3, <3>1
  <2>2. m_timers' \in [Timers!Timer -> Timers!Timer_t \cup {None}]
    BY <1>8, <2>1 DEF Timers!Tick
  <2>3. timerFrom' \in 0 .. MAXINT \cup {None}
    BY <1>8 DEF Timers!Tick, TimerInv, Timers!TypeOK
  <2> QED
    BY <1>8, <2>1, <2>2, <2>3 DEF Timers!Tick, TimerInv, Timers!TypeOK
<1>9. CASE UNCHANGED Timers!vars
  BY <1>9 DEF Timers!vars, TimerInv, Timers!TypeOK, Timers!Running
<1> QED
  BY <1>1, <1>2, <1>3, <1>4, <1>5, <1>6, <1>7, <1>8, <1>9 DEF Timers!Next

(* Types, for any number of timers and any delays: the service posts and   *)
(* restores its own activity only, and no timer is counted as started in   *)
(* the future.                                                             *)
THEOREM TypesHold == Timers!TimerAssumption => (Timers!Spec => []Timers!TypeOK)
<1> SUFFICES ASSUME Timers!TimerAssumption PROVE Timers!Spec => []Timers!TypeOK
  OBVIOUS
<1>1. Timers!Init => TimerInv
  BY TimerInvInit
<1>2. TimerInv /\ [Timers!Next]_(Timers!vars) => TimerInv'
  BY TimerInvNext
<1>3. TimerInv => Timers!TypeOK
  BY DEF TimerInv
<1> QED
  BY <1>1, <1>2, <1>3, PTL DEF Timers!Spec

-----------------------------------------------------------------------------
(* What updateFromTimer relies on: every running timer has less left than  *)
(* its initial min_remaining.                                              *)
DelaysBelowMaxint == \A dt \in Dt : dt < MAXINT

LEMMA CoveredNext ==
  ASSUME Timers!TimerAssumption, DelaysBelowMaxint, TimerInv, Timers!NextExpiryCovered, [Timers!Next]_(Timers!vars)
  PROVE  Timers!NextExpiryCovered'
<1> USE DEF Timers!TimerAssumption
<1>0. \A n \in Timers!Timer : Timers!Running(n) =>
        /\ m_timers[n].dt \in Int /\ m_timers[n].elapsed \in Int
        /\ 0 <= m_timers[n].elapsed /\ m_timers[n].dt < MAXINT
  <2> SUFFICES ASSUME NEW n \in Timers!Timer, Timers!Running(n)
               PROVE  /\ m_timers[n].dt \in Int /\ m_timers[n].elapsed \in Int
                      /\ 0 <= m_timers[n].elapsed /\ m_timers[n].dt < MAXINT
    OBVIOUS
  <2>1. m_timers[n].dt \in Dt /\ m_timers[n].elapsed \in 0 .. MAXINT + Lag
    BY DEF TimerInv, Timers!TypeOK, Timers!Timer_t
  <2>2. m_timers[n].dt \in 0 .. MAXINT
    BY <2>1
  <2>3. m_timers[n].dt < MAXINT
    BY <2>1 DEF DelaysBelowMaxint
  <2> QED
    BY <2>1, <2>2, <2>3
<1>1. ASSUME NEW a \in TimerAct, Timers!UserActivity(a) PROVE Timers!NextExpiryCovered'
  BY <1>1 DEF Timers!UserActivity, Timers!NextExpiryCovered, Timers!Running, Timers!remaining
<1>2. ASSUME NEW n \in Timers!Timer, NEW since \in Past, NEW dt \in Dt, NEW b \in BOOLEAN,
             Timers!startTimer(n, since, dt, b)
      PROVE  Timers!NextExpiryCovered'
  <2>1. update' # None
    BY <1>2 DEF Timers!startTimer, Timers!PostUpdate
  <2> QED
    BY <2>1 DEF Timers!NextExpiryCovered
<1>3. ASSUME NEW n \in Timers!Timer, Timers!stop(n) PROVE Timers!NextExpiryCovered'
  <2>1. \A k \in Timers!Timer : Timers!Running(k)' => Timers!Running(k) /\ m_timers'[k] = m_timers[k]
    BY <1>3 DEF Timers!stop, Timers!Running, TimerInv
  <2> QED
    BY <1>3, <2>1 DEF Timers!stop, Timers!NextExpiryCovered, Timers!remaining
<1>4. ASSUME Timers!FiredReturns PROVE Timers!NextExpiryCovered'
  <2>1. update' # None
    BY <1>4 DEF Timers!FiredReturns, Timers!PostUpdate, TimerInv, Timers!TypeOK
  <2> QED
    BY <2>1 DEF Timers!NextExpiryCovered
<1>5. ASSUME Timers!updateFromTimer PROVE Timers!NextExpiryCovered'
  <2>0. update = TIMER
    BY <1>5 DEF Timers!updateFromTimer, TimerInv, Timers!TypeOK
  <2>1. ASSUME Timers!fireTimers(update, None), timerFrom' = None
        PROVE  Timers!NextExpiryCovered'
    <3>1. fromFired' \in BOOLEAN
      BY <1>5 DEF Timers!updateFromTimer, TimerInv, Timers!TypeOK
    <3>2. firing' # None \/ update' # None
      BY <2>0, <2>1, <3>1, FireTimersInv
    <3> QED
      BY <3>2 DEF Timers!NextExpiryCovered
  <2>2. ASSUME \A r \in Timers!Remainders : r > 0,
               timerFrom' = IF Timers!Remainders = {} THEN None ELSE Timers!Min(Timers!Remainders),
               UNCHANGED m_timers
        PROVE  Timers!NextExpiryCovered'
    <3> SUFFICES ASSUME NEW n \in Timers!Timer, Timers!Running(n)'
                 PROVE  timerFrom' # None /\ timerFrom' <= Timers!remaining(n)'
      BY DEF Timers!NextExpiryCovered
    <3>1. Timers!Running(n) /\ Timers!remaining(n)' = Timers!remaining(n)
      BY <2>2 DEF Timers!Running, Timers!remaining
    <3>2. Timers!remaining(n) \in Int /\ Timers!remaining(n) < MAXINT
      BY <1>0, <3>1 DEF Timers!remaining
    <3>3. Timers!remaining(n) \in Timers!Remainders
      BY <3>1, <3>2 DEF Timers!Remainders
    <3>4. Timers!Remainders \subseteq Nat
      <4>1. \A k \in Timers!Timer : Timers!Running(k) => Timers!remaining(k) \in Int
        BY <1>0 DEF Timers!remaining
      <4>2. \A r \in Timers!Remainders : r \in Int
        BY <4>1 DEF Timers!Remainders
      <4> QED
        BY <2>2, <4>2
    <3>5. Timers!Min(Timers!Remainders) \in Timers!Remainders /\ Timers!Min(Timers!Remainders) <= Timers!remaining(n)
      BY <3>3, <3>4, MinOfNats
    <3>6. timerFrom' = Timers!Min(Timers!Remainders)
      BY <2>2, <3>3
    <3>7. Timers!Min(Timers!Remainders) # None
      <4>1. Timers!Min(Timers!Remainders) \in Nat
        BY <3>4, <3>5, Zenon
      <4>2. \A x \in Nat : x \in Int
        OBVIOUS
      <4> QED
        BY <4>1, <4>2
    <3> QED
      BY <3>1, <3>5, <3>6, <3>7
  <2> QED
    BY <1>5, <2>1, <2>2 DEF Timers!updateFromTimer
<1>6. ASSUME Timers!TimerFromFired PROVE Timers!NextExpiryCovered'
  <2>1. update \in {None, TIMER} /\ Timers!fireTimers(TIMER, update) /\ UNCHANGED timerFrom /\ fromFired' = FALSE
    BY <1>6 DEF Timers!TimerFromFired, TimerInv, Timers!TypeOK
  <2>2. firing' # None \/ update' # None
    BY <2>1, FireTimersInv
  <2> QED
    BY <2>2 DEF Timers!NextExpiryCovered
<1>7. ASSUME Timers!TimerFromExpires PROVE Timers!NextExpiryCovered'
  BY <1>7 DEF Timers!TimerFromExpires, Timers!NextExpiryCovered
<1>8. ASSUME Timers!Tick PROVE Timers!NextExpiryCovered'
  <2> SUFFICES ASSUME NEW n \in Timers!Timer, Timers!Running(n)',
                      ~(firing' # None \/ update' # None \/ fromFired')
               PROVE  timerFrom' # None /\ (timerFrom' = 0 \/ timerFrom' <= Timers!remaining(n)')
    BY DEF Timers!NextExpiryCovered
  <2>1. m_timers'[n] = Timers!Older(m_timers[n])
    BY <1>8 DEF Timers!Tick
  <2>2. Timers!Running(n)
    BY <2>1 DEF Timers!Running, Timers!Older
  <2>3. timerFrom # None /\ (timerFrom = 0 \/ timerFrom <= Timers!remaining(n))
    BY <1>8, <2>2 DEF Timers!Tick, Timers!NextExpiryCovered
  <2>4. timerFrom \in 0 .. MAXINT
    BY <2>3 DEF TimerInv, Timers!TypeOK
  <2>5. m_timers[n].dt \in Int /\ m_timers[n].elapsed \in Int
    BY <1>0, <2>2
  <2>6. Timers!remaining(n)' \in Int /\ Timers!remaining(n) \in Int /\ Timers!remaining(n)' >= Timers!remaining(n) - 1
    <3>1. CASE m_timers[n].elapsed < m_timers[n].dt + Lag
      <4>1. m_timers'[n] = [m_timers[n] EXCEPT !.elapsed = @ + 1]
        BY <2>1, <2>2, <3>1 DEF Timers!Older, Timers!Running
      <4>2. m_timers[n] \in Timers!Timer_t
        BY <2>2 DEF TimerInv, Timers!TypeOK
      <4>3. m_timers'[n].elapsed = m_timers[n].elapsed + 1 /\ m_timers'[n].dt = m_timers[n].dt
        BY <4>1, <4>2 DEF Timers!Timer_t
      <4> QED
        BY <2>5, <4>3 DEF Timers!remaining
    <3>2. CASE ~(m_timers[n].elapsed < m_timers[n].dt + Lag)
      BY <2>1, <2>5, <3>2 DEF Timers!Older, Timers!remaining
    <3> QED
      BY <3>1, <3>2
  <2>7. timerFrom' = IF timerFrom = 0 THEN timerFrom ELSE timerFrom - 1
    BY <1>8, <2>3 DEF Timers!Tick
  <2> QED
    BY <2>3, <2>4, <2>6, <2>7
<1>9. CASE UNCHANGED Timers!vars
  BY <1>9 DEF Timers!vars, Timers!NextExpiryCovered, Timers!Running, Timers!remaining
<1> QED
  BY <1>1, <1>2, <1>3, <1>4, <1>5, <1>6, <1>7, <1>8, <1>9 DEF Timers!Next

(* No running timer is forgotten, for any number of timers and any delays  *)
(* less than MAXINT: there is always a task, an event or TimerFrom between *)
(* a running timer and silence (updateFromTimer and its posts).            *)
THEOREM TimersAreCovered ==
  Timers!TimerAssumption /\ DelaysBelowMaxint => (Timers!Spec => []Timers!NextExpiryCovered)
<1> SUFFICES ASSUME Timers!TimerAssumption, DelaysBelowMaxint PROVE Timers!Spec => []Timers!NextExpiryCovered
  OBVIOUS
<1>1. Timers!Init => TimerInv /\ Timers!NextExpiryCovered
  <2>1. Timers!Init => TimerInv
    BY TimerInvInit
  <2>2. Timers!Init => Timers!NextExpiryCovered
    BY DEF Timers!Init, Timers!NextExpiryCovered, Timers!Running
  <2> QED
    BY <2>1, <2>2
<1>2. (TimerInv /\ Timers!NextExpiryCovered) /\ [Timers!Next]_(Timers!vars) => (TimerInv /\ Timers!NextExpiryCovered)'
  BY TimerInvNext, CoveredNext
<1> QED
  BY <1>1, <1>2, PTL DEF Timers!Spec

-----------------------------------------------------------------------------
(* The refinement.                                                         *)

(* The value that stands for "no timer" is none of the records.            *)
NoneIsNoRecord ==
  /\ None \notin Timers!Timer_t
  /\ None \notin [left : Int, dt : Dt, isoneshot : BOOLEAN, act : TimerAct \cup {TIMER}]

(* A running timer maps to a record, and its times are integers.           *)
LEMMA RunningTimer ==
  ASSUME Timers!TimerAssumption, NoneIsNoRecord, NEW t \in Timers!Timer_t
  PROVE  /\ t # None /\ Timers!DueOf(t) = Timers!Left(t) /\ Timers!DueOf(t) # None
         /\ t.dt \in Int /\ t.elapsed \in Int
<1>1. t # None
  BY DEF NoneIsNoRecord
<1>2. t.dt \in Dt /\ t.elapsed \in Int /\ t.isoneshot \in BOOLEAN /\ t.act \in TimerAct \cup {TIMER}
  BY DEF Timers!Timer_t
<1>3. t.dt \in 0 .. MAXINT
  BY <1>2 DEF Timers!TimerAssumption
<1>4. t.dt \in Int
  BY <1>3
<1>5. Timers!Left(t) \in [left : Int, dt : Dt, isoneshot : BOOLEAN, act : TimerAct \cup {TIMER}]
  BY <1>2, <1>4 DEF Timers!Left
<1>6. Timers!Left(t) # None
  BY <1>5 DEF NoneIsNoRecord
<1> QED
  BY <1>1, <1>2, <1>4, <1>6 DEF Timers!DueOf

(* What fireTimers does is one firing, or work that its user does not see. *)
LEMMA FireTimersMaps ==
  ASSUME Timers!TimerAssumption, NoneIsNoRecord, TimerInv, NEW p, Timers!fireTimers(TIMER, p), firing = None
  PROVE  \/ \E n \in Timers!Timer :
              /\ Timers!Due[n] # None /\ Timers!Due[n].left <= 0
              /\ Timers!Due' = [Timers!Due EXCEPT ![n] = Timers!Service!AfterFiring(@)]
              /\ firing' = n
              /\ cpu' = Timers!Due[n].act
         \/ cpu' = TIMER /\ UNCHANGED <<Timers!Due, firing>>
<1>1. ASSUME NEW n \in Timers!Timer, Timers!FirstExpired(n),
             m_timers' = [m_timers EXCEPT ![n] = Timers!Advanced(@)],
             firing' = n, cpu' = Timers!ActOfFired(n)
      PROVE  /\ Timers!Due[n] # None /\ Timers!Due[n].left <= 0
             /\ Timers!Due' = [Timers!Due EXCEPT ![n] = Timers!Service!AfterFiring(@)]
             /\ cpu' = Timers!Due[n].act
  <2> DEFINE t == m_timers[n]
  <2>1. t \in Timers!Timer_t
    BY <1>1 DEF Timers!FirstExpired, Timers!Expired, TimerInv, Timers!TypeOK
  <2>2. Timers!Due[n] = Timers!Left(t) /\ Timers!Due[n] # None /\ t.dt \in Int /\ t.elapsed \in Int
    BY <2>1, RunningTimer DEF Timers!Due
  <2>3. Timers!Due[n].left <= 0 /\ cpu' = Timers!Due[n].act
    BY <1>1, <2>2 DEF Timers!FirstExpired, Timers!Expired, Timers!Left, Timers!ActOfFired
  <2>4. m_timers'[n] = Timers!Advanced(t) /\ \A k \in Timers!Timer : k # n => m_timers'[k] = m_timers[k]
    BY <1>1 DEF TimerInv
  <2>5. Timers!DueOf(Timers!Advanced(t)) = Timers!Service!AfterFiring(Timers!Due[n])
    <3>1. CASE t.isoneshot
      BY <2>2, <3>1 DEF Timers!Advanced, Timers!DueOf, Timers!Left, Timers!Service!AfterFiring
    <3>2. CASE ~t.isoneshot
      <4>1. Timers!Advanced(t) = [t EXCEPT !.elapsed = @ - t.dt]
        BY <3>2 DEF Timers!Advanced
      <4>2. Timers!Advanced(t) \in Timers!Timer_t
        BY <2>1, <2>2, <4>1 DEF Timers!Timer_t
      <4>3. Timers!DueOf(Timers!Advanced(t)) = Timers!Left(Timers!Advanced(t))
        BY <4>2, RunningTimer
      <4>4. /\ Timers!Advanced(t).elapsed = t.elapsed - t.dt /\ Timers!Advanced(t).dt = t.dt
            /\ Timers!Advanced(t).isoneshot = t.isoneshot /\ Timers!Advanced(t).act = t.act
        BY <2>1, <4>1 DEF Timers!Timer_t
      <4>5. t.dt - (t.elapsed - t.dt) = (t.dt - t.elapsed) + t.dt
        BY <2>2
      <4>6. Timers!Left(Timers!Advanced(t)) = [Timers!Left(t) EXCEPT !.left = @ + t.dt]
        BY <4>4, <4>5 DEF Timers!Left
      <4> QED
        BY <2>2, <3>2, <4>3, <4>6 DEF Timers!Left, Timers!Service!AfterFiring
    <3> QED
      BY <3>1, <3>2
  <2>6. Timers!Due' = [Timers!Due EXCEPT ![n] = Timers!DueOf(Timers!Advanced(t))]
    BY <2>4 DEF Timers!Due
  <2>7. Timers!Due' = [Timers!Due EXCEPT ![n] = Timers!Service!AfterFiring(Timers!Due[n])]
    BY <2>5, <2>6
  <2> QED
    BY <2>2, <2>3, <2>7
<1>2. ASSUME cpu' = TIMER, UNCHANGED <<m_timers, firing>>
      PROVE  cpu' = TIMER /\ UNCHANGED <<Timers!Due, firing>>
  BY <1>2 DEF Timers!Due
<1> QED
  BY <1>1, <1>2 DEF Timers!fireTimers

LEMMA RefinementInit ==
  ASSUME Timers!TimerAssumption, Timers!Init
  PROVE  Timers!Service!SInit
  BY DEF Timers!Init, Timers!Due, Timers!DueOf, Timers!Service!SInit

LEMMA RefinementNext ==
  ASSUME Timers!TimerAssumption, NoneIsNoRecord, TimerInv, [Timers!Next]_(Timers!vars)
  PROVE  [Timers!Service!SNext]_(Timers!Service!svars)
<1>1. ASSUME NEW a \in TimerAct, Timers!UserActivity(a)
      PROVE  cpu' = a /\ UNCHANGED <<Timers!Due, firing>>
  BY <1>1 DEF Timers!UserActivity, Timers!Due
<1>2. ASSUME NEW n \in Timers!Timer, NEW since \in Past, NEW dt \in Dt, NEW b \in BOOLEAN,
             Timers!startTimer(n, since, dt, b)
      PROVE  /\ Timers!Due' = [Timers!Due EXCEPT ![n] = [left |-> dt - since, dt |-> dt, isoneshot |-> b, act |-> cpu]]
             /\ UNCHANGED <<firing, cpu>>
  <2> DEFINE t == [elapsed |-> since, dt |-> dt, isoneshot |-> b, act |-> cpu]
  <2>1. t \in Timers!Timer_t
    <3>1. since \in Int /\ cpu \in TimerAct \cup {TIMER}
      BY DEF Timers!TimerAssumption, TimerInv, Timers!TypeOK
    <3> QED
      BY <3>1 DEF Timers!Timer_t
  <2>2. Timers!DueOf(t) = Timers!Left(t) /\ t.dt \in Int
    BY <2>1, RunningTimer
  <2>3. Timers!Left(t) = [left |-> dt - since, dt |-> dt, isoneshot |-> b, act |-> cpu]
    BY <2>2 DEF Timers!Left
  <2>4. m_timers'[n] = t /\ \A k \in Timers!Timer : k # n => m_timers'[k] = m_timers[k]
    BY <1>2 DEF Timers!startTimer, TimerInv
  <2>5. Timers!Due' = [Timers!Due EXCEPT ![n] = Timers!DueOf(t)]
    BY <2>4 DEF Timers!Due
  <2> QED
    BY <1>2, <2>2, <2>3, <2>5 DEF Timers!startTimer
<1>3. ASSUME NEW n \in Timers!Timer, Timers!stop(n)
      PROVE  Timers!Due' = [Timers!Due EXCEPT ![n] = None] /\ UNCHANGED <<firing, cpu>>
  <2>1. m_timers'[n] = None /\ \A k \in Timers!Timer : k # n => m_timers'[k] = m_timers[k]
    BY <1>3 DEF Timers!stop, TimerInv
  <2>2. Timers!Due' = [Timers!Due EXCEPT ![n] = Timers!DueOf(None)]
    BY <2>1 DEF Timers!Due
  <2> QED
    BY <1>3, <2>2 DEF Timers!stop, Timers!DueOf
<1>4. ASSUME Timers!FiredReturns
      PROVE  firing # None /\ firing' = None /\ cpu' = TIMER /\ UNCHANGED Timers!Due
  BY <1>4 DEF Timers!FiredReturns, Timers!Due, TimerInv, Timers!TypeOK
<1>5. ASSUME Timers!updateFromTimer
      PROVE  /\ firing = None
             /\ \/ Timers!fireTimers(TIMER, None)
                \/ cpu' = TIMER /\ UNCHANGED <<Timers!Due, firing>>
  BY <1>5 DEF Timers!updateFromTimer, Timers!Due, TimerInv, Timers!TypeOK
<1>6. ASSUME Timers!TimerFromFired
      PROVE  firing = None /\ Timers!fireTimers(TIMER, update)
  BY <1>6 DEF Timers!TimerFromFired
<1>7. ASSUME Timers!TimerFromExpires PROVE UNCHANGED <<Timers!Due, firing, cpu>>
  BY <1>7 DEF Timers!TimerFromExpires, Timers!Due
<1>8. ASSUME Timers!Tick
      PROVE  /\ Timers!Due' = [n \in Timers!Timer |->
                  IF Timers!Due[n] = None THEN None
                  ELSE [Timers!Due[n] EXCEPT !.left = IF @ > -Lag THEN @ - 1 ELSE @]]
             /\ UNCHANGED <<firing, cpu>>
  <2>1. ASSUME NEW n \in Timers!Timer
        PROVE  Timers!DueOf(Timers!Older(m_timers[n])) =
                 IF Timers!Due[n] = None THEN None
                 ELSE [Timers!Due[n] EXCEPT !.left = IF @ > -Lag THEN @ - 1 ELSE @]
    <3> DEFINE t == m_timers[n]
    <3>1. CASE t = None
      BY <3>1 DEF Timers!Due, Timers!DueOf, Timers!Older
    <3>2. CASE t # None
      <4>1. t \in Timers!Timer_t
        BY <3>2 DEF TimerInv
      <4>2. Timers!Due[n] = Timers!Left(t) /\ Timers!Due[n] # None /\ t.dt \in Int /\ t.elapsed \in Int
        BY <4>1, RunningTimer DEF Timers!Due
      <4>3. CASE t.elapsed < t.dt + Lag
        <5>1. Timers!Older(t) = [t EXCEPT !.elapsed = @ + 1]
          BY <3>2, <4>3 DEF Timers!Older
        <5>2. Timers!Older(t) \in Timers!Timer_t
          BY <4>1, <4>2, <5>1 DEF Timers!Timer_t
        <5>3. Timers!DueOf(Timers!Older(t)) = Timers!Left(Timers!Older(t))
          BY <5>2, RunningTimer
        <5>4. /\ Timers!Older(t).elapsed = t.elapsed + 1 /\ Timers!Older(t).dt = t.dt
              /\ Timers!Older(t).isoneshot = t.isoneshot /\ Timers!Older(t).act = t.act
          BY <4>1, <5>1 DEF Timers!Timer_t
        <5>5. t.dt - (t.elapsed + 1) = (t.dt - t.elapsed) - 1 /\ t.dt - t.elapsed > -Lag
          BY <4>2, <4>3 DEF Timers!TimerAssumption
        <5>6. Timers!Left(Timers!Older(t)) = [Timers!Left(t) EXCEPT !.left = IF @ > -Lag THEN @ - 1 ELSE @]
          BY <5>4, <5>5 DEF Timers!Left
        <5> QED
          BY <4>2, <5>3, <5>6
      <4>4. CASE ~(t.elapsed < t.dt + Lag)
        <5>1. Timers!Older(t) = t
          BY <4>4 DEF Timers!Older
        <5>2. ~(t.dt - t.elapsed > -Lag)
          BY <4>2, <4>4 DEF Timers!TimerAssumption
        <5>3. Timers!Left(t) = [Timers!Left(t) EXCEPT !.left = IF @ > -Lag THEN @ - 1 ELSE @]
          BY <5>2 DEF Timers!Left
        <5> QED
          BY <4>2, <5>1, <5>3 DEF Timers!Due
      <4> QED
        BY <4>3, <4>4
    <3> QED
      BY <3>1, <3>2
  <2>2. \A n \in Timers!Timer : m_timers'[n] = Timers!Older(m_timers[n])
    BY <1>8 DEF Timers!Tick
  <2> QED
    BY <1>8, <2>1, <2>2 DEF Timers!Tick, Timers!Due
<1>9. ASSUME UNCHANGED Timers!vars PROVE UNCHANGED <<Timers!Due, firing, cpu>>
  BY <1>9 DEF Timers!vars, Timers!Due
<1>10. ASSUME NEW p, firing = None, Timers!fireTimers(TIMER, p)
       PROVE  Timers!Service!SNext
  <2>1. CASE \E n \in Timers!Timer :
               /\ Timers!Due[n] # None /\ Timers!Due[n].left <= 0
               /\ Timers!Due' = [Timers!Due EXCEPT ![n] = Timers!Service!AfterFiring(@)]
               /\ firing' = n
               /\ cpu' = Timers!Due[n].act
    BY <1>10, <2>1 DEF Timers!Service!SNext, Timers!Service!SFire
  <2>2. CASE cpu' = TIMER /\ UNCHANGED <<Timers!Due, firing>>
    BY <1>10, <2>2 DEF Timers!Service!SNext, Timers!Service!SWork
  <2> QED
    BY <1>10, <2>1, <2>2, FireTimersMaps
<1> HIDE DEF Timers!Due
<1>11. ASSUME NEW a \in TimerAct, Timers!UserActivity(a) PROVE Timers!Service!SNext
  BY <1>1, <1>11 DEF Timers!Service!SNext, Timers!Service!SActivity
<1>12. ASSUME NEW n \in Timers!Timer, NEW since \in Past, NEW dt \in Dt, NEW b \in BOOLEAN,
             Timers!startTimer(n, since, dt, b)
       PROVE  Timers!Service!SNext
  BY <1>2, <1>12 DEF Timers!Service!SNext, Timers!Service!SStart
<1>13. ASSUME NEW n \in Timers!Timer, Timers!stop(n) PROVE Timers!Service!SNext
  BY <1>3, <1>13 DEF Timers!Service!SNext, Timers!Service!SStop
<1>14. ASSUME Timers!FiredReturns PROVE Timers!Service!SNext
  BY <1>4, <1>14 DEF Timers!Service!SNext, Timers!Service!SReturn
<1>15. ASSUME Timers!updateFromTimer PROVE Timers!Service!SNext
  BY <1>5, <1>10, <1>15 DEF Timers!Service!SNext, Timers!Service!SWork
<1>16. ASSUME Timers!TimerFromFired PROVE Timers!Service!SNext
  BY <1>6, <1>10, <1>16
<1>17. ASSUME Timers!TimerFromExpires PROVE UNCHANGED Timers!Service!svars
  BY <1>7, <1>17 DEF Timers!Service!svars
<1>18. ASSUME Timers!Tick PROVE Timers!Service!SNext
  BY <1>8, <1>18 DEF Timers!Service!SNext, Timers!Service!STick
<1>19. CASE UNCHANGED Timers!vars
  BY <1>9, <1>19 DEF Timers!Service!svars
<1> QED
  BY <1>11, <1>12, <1>13, <1>14, <1>15, <1>16, <1>17, <1>18, <1>19 DEF Timers!Next

(* Every behaviour of the timers, with their one alarm, their tasks and    *)
(* their activity, is one of timers that fire when due and as they were    *)
(* started, for any number of timers and any delays.                       *)
THEOREM TimersImplementService ==
  Timers!TimerAssumption /\ NoneIsNoRecord => (Timers!Spec => Timers!ImplementsTimerService)
<1> SUFFICES ASSUME Timers!TimerAssumption, NoneIsNoRecord PROVE Timers!Spec => Timers!ImplementsTimerService
  OBVIOUS
<1>1. Timers!Init => TimerInv /\ Timers!Service!SInit
  BY TimerInvInit, RefinementInit
<1>2. TimerInv /\ [Timers!Next]_(Timers!vars) => TimerInv' /\ [Timers!Service!SNext]_(Timers!Service!svars)
  BY TimerInvNext, RefinementNext
<1> QED
  BY <1>1, <1>2, PTL DEF Timers!Spec, Timers!ImplementsTimerService, Timers!Service!SSpec

-----------------------------------------------------------------------------
(* The two services of the kernel.                                         *)

(* Either service steps as if the other one were not there.                *)
LEMMA ServicesStep == FairKernel => Spec /\ Timers!Spec
<1>1. InitKernel => Init /\ Timers!Init
  BY DEF InitKernel
<1>2. [NextKernel]_<<service, vars, timerVars>> => [Next]_vars /\ [Timers!Next]_(Timers!vars)
  BY DEF NextKernel, timerVars, Timers!vars
<1> QED
  BY <1>1, <1>2, PTL DEF FairKernel, KernelSpec, Spec, Timers!Spec

(* The scheduler keeps its promises in the kernel.                         *)
THEOREM SchedulerInKernel ==
  FairKernel => /\ [](TypeOK /\ ListsHoldPosts)
                /\ [](CodeKeepsItsActivity /\ LogTellsContext /\ SleepsIdle)
                /\ ImplementsTaskFifo
  BY ServicesStep, TypeCorrect, ListsCorrect, ActivityKept, LogCorrect, SleepCorrect,
     SchedulerImplementsFifo, PTL

(* No running timer of the kernel is forgotten, for any number of timers   *)
(* with delays less than MAXINT, which updateFromTimer skips.              *)
THEOREM KernelCoversTimers ==
  DelaysBelowMaxint => (FairKernel => []NextExpiryCovered)
<1> SUFFICES ASSUME DelaysBelowMaxint PROVE FairKernel => []NextExpiryCovered
  OBVIOUS
<1>1. Timers!Spec => []NextExpiryCovered
  BY TimerAssumption, TimersAreCovered DEF NextExpiryCovered
<1> QED
  BY <1>1, ServicesStep, PTL

(* The timers of the kernel fire when due and as they were started.        *)
THEOREM KernelImplementsTimers ==
  NoneIsNoRecord => (FairKernel => ImplementsTimerService)
<1> SUFFICES ASSUME NoneIsNoRecord PROVE FairKernel => ImplementsTimerService
  OBVIOUS
<1>1. Timers!Spec => ImplementsTimerService
  BY TimerAssumption, TimersImplementService DEF ImplementsTimerService
<1> QED
  BY <1>1, ServicesStep, PTL
==============================================================================
