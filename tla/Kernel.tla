-------------------------------- MODULE Kernel --------------------------------
(***************************************************************************)
(* The two services every Quanto program rests on, each checked by itself: *)
(* the scheduler, whose tasks and handlers may be any code, and the virtual *)
(* timers, whose users may be any code that the scheduler runs as tasks.   *)
(* A behaviour is one of the service that Init chooses.  What the timers   *)
(* assume of the scheduler, that a posted task runs, is what               *)
(* PostedTasksRun shows of it.                                             *)
(***************************************************************************)
EXTENDS QuantoScheduler, Integers

CONSTANTS
  NUM_TIMERS,  \* the number of virtual timers
  Dt,          \* the delays they are started with
  Past,        \* how long ago the t0 of a start may be
  MAXINT,      \* the greatest int32_t
  TimerAct,    \* the activities of their users
  TIMER,       \* QUANTO_ACTIVITY(TIMER)
  Lag,         \* how late a timer is said to be at most
  None

VARIABLES
  service,     \* the service of this behaviour
  m_timers, update, timerFrom, fromFired, firing, restored, cpu

Timers == INSTANCE VirtualizeTimer WITH Act <- TimerAct, c <- restored

ASSUME TimerAssumption == Timers!TimerAssumption

timerVars == <<m_timers, update, timerFrom, fromFired, firing, restored, cpu>>

InitKernel ==
  /\ service \in {"scheduler", "timers"}
  /\ Init
  /\ Timers!Init

NextKernel ==
  /\ UNCHANGED service
  /\ \/ service = "scheduler" /\ Next /\ UNCHANGED timerVars
     \/ service = "timers" /\ Timers!Next /\ UNCHANGED vars

KernelSpec == InitKernel /\ [][NextKernel]_<<service, vars, timerVars>>

(* The scheduler's fairness for the behaviours that run it: the others     *)
(* never leave its initial state, where only EndBoot is enabled.           *)
FairKernel ==
  /\ KernelSpec
  /\ WF_vars(ExitHandler) /\ SF_vars(TaskAnnounces) /\ SF_vars(Return)
  /\ SF_vars(service = "scheduler" /\ SchedulerStep)
  /\ Timers!Fairness

-----------------------------------------------------------------------------
(* VirtualizeTimer's properties, for the run that checks both services.    *)

(* No running timer is forgotten (VirtualizeTimerP.nc:97-134).             *)
NextExpiryCovered == Timers!NextExpiryCovered

(* Timers fire when due, under the activity they were started under        *)
(* (README:94-96).                                                         *)
ImplementsTimerService == Timers!ImplementsTimerService

(* Expired timers fire unless lower ones expire for ever                   *)
(* (VirtualizeTimerP.nc:72-94).                                            *)
ExpiredTimersFire == Timers!ExpiredTimersFire
===============================================================================
