---------------------------- MODULE VirtualizeTimer ----------------------------
(***************************************************************************)
(* Many timers over one: tos/lib/timer/VirtualizeTimerP.nc.                *)
(*                                                                         *)
(* Its commands are called from tasks, and from the Timer.fired events it  *)
(* signals itself; nothing of it runs in a handler.  A step is therefore   *)
(* what happens between two places where other code runs: a command, the   *)
(* task until it signals fired or ends, and the rest after the event.      *)
(* Time passes between any two steps.                                      *)
(*                                                                         *)
(* The code only uses differences of times, so the model keeps how long    *)
(* ago each timer was started (now - t0) and how long the timer below has  *)
(* left.  A timer that is more than Lag ticks late counts as Lag late.     *)
(* With delays of at most MAXINT the differences fit in 32 bits.  A t0     *)
(* that lies in the future is not modelled.                                *)
(***************************************************************************)
EXTENDS Integers, FiniteSetsExt

CONSTANTS
  NUM_TIMERS,  \* the number of virtual timers
  Dt,          \* the delays they are started with
  Past,        \* how long ago the t0 of a start may be
  MAXINT,      \* the greatest int32_t
  Act,         \* the activities of their users
  TIMER,       \* QUANTO_ACTIVITY(TIMER)
  Lag,         \* how late a timer is said to be at most
  None

Timer == 0 .. NUM_TIMERS - 1

TimerAssumption ==
  /\ NUM_TIMERS \in Nat \ {0} /\ MAXINT \in Nat /\ Lag \in Nat
  /\ Dt \subseteq 0 .. MAXINT /\ Past \subseteq 0 .. Lag
  /\ TIMER \notin Act /\ None \notin Act \cup {TIMER} /\ None \notin Int

VARIABLES
  m_timers,    \* the running timers; None for the others
  update,      \* the activity updateFromTimer is posted under, or None
  timerFrom,   \* what TimerFrom has left, or None when it is stopped
  fromFired,   \* TimerFrom has posted its task that signals fired
  firing,      \* the timer whose fired event is being handled, or None
  c,           \* what fireTimers restores after the event
  cpu          \* the activity of the CPU

vars == <<m_timers, update, timerFrom, fromFired, firing, c, cpu>>

Init ==
  /\ m_timers = [n \in Timer |-> None]
  /\ update = None
  /\ timerFrom = None
  /\ fromFired = FALSE
  /\ firing = None
  /\ c = TIMER
  /\ cpu \in Act

Running(n) == m_timers[n] # None

(* int32_t remaining: what the timer has left.                             *)
remaining(n) == m_timers[n].dt - m_timers[n].elapsed

Expired(n) == Running(n) /\ m_timers[n].elapsed >= m_timers[n].dt

(* Plausible errors of this code. *)
PostUpdate_FirstOnly(a) ==
  update' = IF update = None /\ \A n \in Timer : ~Running(n) THEN a ELSE update
ActOfFired_Current(n) == cpu
Remainders_Future ==
  {r \in {remaining(n) : n \in {k \in Timer : Running(k)}} : 0 < r /\ r < MAXINT}

(* post, which changes nothing when the task is posted already.            *)
PostUpdate(a) == update' = IF update = None THEN a ELSE update

-----------------------------------------------------------------------------
(* The users of the timers: in tasks, or in a fired event.                 *)

UserActivity(a) ==
  /\ cpu' = a
  /\ UNCHANGED <<m_timers, update, timerFrom, fromFired, firing, c>>

(* startTimer, with a t0 that is since ticks ago (startPeriodicAt and       *)
(* startOneShotAt) or now: it posts the task under TIMER and restores the  *)
(* activity.                                                               *)
startTimer(n, since, dt, isoneshot) ==
  /\ m_timers' = [m_timers EXCEPT ![n] =
       [elapsed |-> since, dt |-> dt, isoneshot |-> isoneshot, act |-> cpu]]
  /\ PostUpdate(TIMER)
  /\ UNCHANGED <<timerFrom, fromFired, firing, c, cpu>>

stop(n) ==
  /\ m_timers' = [m_timers EXCEPT ![n] = None]
  /\ UNCHANGED <<update, timerFrom, fromFired, firing, c, cpu>>

-----------------------------------------------------------------------------
(* The service.                                                            *)

(* A one-shot timer that fires stops; a periodic one counts from the time  *)
(* it was due.                                                             *)
Advanced(t) ==
  IF t.isoneshot THEN None ELSE [t EXCEPT !.elapsed = @ - t.dt]

(* fireTimers under activity a, with updateFromTimer posted under p or not *)
(* posted (None): the first expired timer fires, under its own activity,   *)
(* and the task is posted after the event; if none is expired, at once.    *)
FirstExpired(n) == Expired(n) /\ \A k \in 0 .. n - 1 : ~Expired(k)
ActOfFired(n) == m_timers[n].act

fireTimers(a, p) ==
  \/ /\ \E n \in Timer :
          /\ FirstExpired(n)
          /\ m_timers' = [m_timers EXCEPT ![n] = Advanced(@)]
          /\ firing' = n
          /\ cpu' = ActOfFired(n)
     /\ c' = a
     /\ update' = p
  \/ /\ \A n \in Timer : ~Expired(n)
     /\ update' = IF p = None THEN a ELSE p
     /\ cpu' = a
     /\ UNCHANGED <<m_timers, firing, c>>

(* The event is over: the activity is restored and the task posted.        *)
FiredReturns ==
  /\ firing # None
  /\ firing' = None
  /\ cpu' = c
  /\ PostUpdate(c)
  /\ UNCHANGED <<m_timers, timerFrom, fromFired, c>>

(* What the running timers have left, as far as it is less than the        *)
(* initial min_remaining.                                                  *)
Remainders == {r \in {remaining(n) : n \in {k \in Timer : Running(k)}} : r < MAXINT}

(* updateFromTimer: TimerFrom is stopped and started anew for the timer    *)
(* that is next, unless one is due.                                        *)
updateFromTimer ==
  /\ firing = None
  /\ update # None
  /\ \/ /\ \E r \in Remainders : r <= 0
        /\ fireTimers(update, None)
        /\ timerFrom' = None
     \/ /\ \A r \in Remainders : r > 0
        /\ timerFrom' = IF Remainders = {} THEN None ELSE Min(Remainders)
        /\ update' = None
        /\ cpu' = update
        /\ UNCHANGED <<m_timers, firing, c>>
  /\ UNCHANGED fromFired

(* TimerFrom.fired, in a task.                                             *)
TimerFromFired ==
  /\ firing = None
  /\ fromFired
  /\ fromFired' = FALSE
  /\ fireTimers(TIMER, update)
  /\ UNCHANGED timerFrom

-----------------------------------------------------------------------------
(* Time and the timer below.                                               *)

(* The timer below expires: its interrupt posts the task that signals      *)
(* fired, which a later stop does not take back.                           *)
TimerFromExpires ==
  /\ timerFrom = 0
  /\ timerFrom' = None
  /\ fromFired' = TRUE
  /\ UNCHANGED <<m_timers, update, firing, c, cpu>>

Older(t) ==
  IF t # None /\ t.elapsed < t.dt + Lag THEN [t EXCEPT !.elapsed = @ + 1] ELSE t

Tick ==
  /\ m_timers' = [n \in Timer |-> Older(m_timers[n])]
  /\ timerFrom' = IF timerFrom \in {0, None} THEN timerFrom ELSE timerFrom - 1
  /\ UNCHANGED <<update, fromFired, firing, c, cpu>>

Next ==
  \/ \E a \in Act : UserActivity(a)
  \/ \E n \in Timer, since \in Past, dt \in Dt, isoneshot \in BOOLEAN :
       startTimer(n, since, dt, isoneshot)
  \/ \E n \in Timer : stop(n)
  \/ FiredReturns
  \/ updateFromTimer
  \/ TimerFromFired
  \/ TimerFromExpires
  \/ Tick

Spec == Init /\ [][Next]_vars

(* Events return, interrupts come, and posted tasks run although others    *)
(* run before them (PostedTasksRun of QuantoScheduler).                    *)
Fairness ==
  /\ WF_vars(FiredReturns)
  /\ WF_vars(TimerFromExpires)
  /\ SF_vars(updateFromTimer)
  /\ SF_vars(TimerFromFired)

-----------------------------------------------------------------------------
Timer_t == [elapsed : Int, dt : Dt, isoneshot : BOOLEAN, act : Act \cup {TIMER}]

(* Types; the service's own work is posted and restored as TIMER only, and *)
(* a timer is never counted as started in the future.                      *)
TypeOK ==
  /\ \A n \in Timer :
       Running(n) => m_timers[n] \in Timer_t /\ m_timers[n].elapsed \in 0 .. MAXINT + Lag
  /\ update \in {None, TIMER}
  /\ timerFrom \in 0 .. MAXINT \cup {None}
  /\ fromFired \in BOOLEAN
  /\ firing \in Timer \cup {None}
  /\ c = TIMER
  /\ cpu \in Act \cup {TIMER}

(* No running timer is forgotten: somebody is about to look after the      *)
(* timers, or the timer below expires no later than the first of them      *)
(* (VirtualizeTimerP.nc:94, 97-134; the comment at 99 promises it for      *)
(* delays up to MAXINT).                                                   *)
NextExpiryCovered ==
  \A n \in Timer :
    Running(n) =>
      \/ firing # None \/ update # None \/ fromFired
      \/ timerFrom # None /\ (timerFrom = 0 \/ timerFrom <= remaining(n))

(* A timer as its user sees it.                                            *)
Left(t) == [left |-> t.dt - t.elapsed, dt |-> t.dt, isoneshot |-> t.isoneshot, act |-> t.act]
DueOf(t) == IF t = None THEN None ELSE Left(t)
Due == [n \in Timer |-> DueOf(m_timers[n])]

Service == INSTANCE TimerService WITH due <- Due

(* Timers fire when due and not before, one at a time, under the activity  *)
(* they were started under, and the service works under its own activity   *)
(* (README:94-96).                                                         *)
ImplementsTimerService == Service!SSpec

(* An expired timer fires, unless timers of lower numbers expire again and *)
(* again: fireTimers serves the first one only                             *)
(* (VirtualizeTimerP.nc:72-94).                                            *)
ExpiredTimersFire ==
  \A n \in Timer :
    \/ []<>(\E k \in 0 .. n - 1 : Expired(k))
    \/ (Expired(n) ~> (firing = n \/ ~Expired(n)))
===============================================================================
