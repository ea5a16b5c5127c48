----------------------------- MODULE TimerService -----------------------------
(***************************************************************************)
(* What the users of virtual timers are promised (tos/lib/timer and        *)
(* README:94-96): a timer fires when it is due and not before, a periodic  *)
(* one once for each of its periods, one timer at a time; it fires under   *)
(* the activity it was started under, and the work of the timers           *)
(* themselves is charged to an activity of their own.                      *)
(***************************************************************************)
EXTENDS Integers

CONSTANTS
  Timer,       \* the timers
  Dt,          \* the delays they are started with
  Past,        \* how long ago they may have begun
  Act,         \* the activities of their users
  TIMER,       \* the activity of the timers' own work
  Lag,         \* how late a timer is said to be at most
  None

VARIABLES
  due,         \* when each running timer is due, or None
  firing,      \* the timer whose user is being told, or None
  cpu          \* the activity of the CPU

svars == <<due, firing, cpu>>

SInit == due = [n \in Timer |-> None] /\ firing = None /\ cpu \in Act

(* A delay counts from now or from an instant in the past.                 *)
SStart(n, since, dt, oneshot) ==
  /\ UNCHANGED <<firing, cpu>>
  /\ due' = [due EXCEPT ![n] = [left |-> dt - since, dt |-> dt, isoneshot |-> oneshot, act |-> cpu]]

SStop(n) == due' = [due EXCEPT ![n] = None] /\ UNCHANGED <<firing, cpu>>

(* The code that uses the timers changes its activity.                     *)
SActivity(a) == cpu' = a /\ UNCHANGED <<due, firing>>

(* A one-shot timer is over, a periodic one is due again after a period.   *)
AfterFiring(d) == IF d.isoneshot THEN None ELSE [d EXCEPT !.left = @ + d.dt]

SFire(n) ==
  /\ firing = None
  /\ due[n] # None /\ due[n].left <= 0
  /\ due' = [due EXCEPT ![n] = AfterFiring(@)]
  /\ firing' = n
  /\ cpu' = due[n].act

SReturn == firing # None /\ firing' = None /\ cpu' = TIMER /\ UNCHANGED due

(* The service looks after its timers.                                     *)
SWork == firing = None /\ cpu' = TIMER /\ UNCHANGED <<due, firing>>

STick ==
  /\ due' = [n \in Timer |->
       IF due[n] = None THEN None
       ELSE [due[n] EXCEPT !.left = IF @ > -Lag THEN @ - 1 ELSE @]]
  /\ UNCHANGED <<firing, cpu>>

SNext ==
  \/ \E a \in Act : SActivity(a)
  \/ SReturn \/ SWork \/ STick
  \/ \E n \in Timer : SStop(n) \/ SFire(n)
  \/ \E n \in Timer, since \in Past, dt \in Dt, oneshot \in BOOLEAN :
       SStart(n, since, dt, oneshot)

SSpec == SInit /\ [][SNext]_svars
===============================================================================
