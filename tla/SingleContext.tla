---------------------------- MODULE SingleContext ----------------------------
(***************************************************************************)
(* The activity of a device that works for one activity at a time, here    *)
(* the CPU (SingleContextImplP.nc).  m_context is what the node believes;  *)
(* every change is announced on SingleContextTrack, and the loggers and    *)
(* the offline tools only ever see those events.  logged is the activity   *)
(* that a reader of the events reconstructs: the new activity of the last  *)
(* changed, bound, enteredInterrupt or exitedInterrupt event.              *)
(***************************************************************************)

CONSTANTS
  Act,     \* activity labels, node part and type together
  Idle,    \* mk_act_local(QUANTO_ACTIVITY(IDLE))
  Proxy    \* the activities that stand for the interrupt vectors

ASSUME ActAssumption == Idle \in Act /\ Proxy \subseteq Act /\ Idle \notin Proxy

VARIABLES
  m_context,   \* activity of the device
  logged       \* activity the event stream tells

contextVars == <<m_context, logged>>

(* Init.init: every resource starts idle. *)
ContextInit == m_context = Idle /\ logged = Idle

(* set and bind where no interrupt can come between the swap and the event;
   they announce the change only if there is one. *)
Set(n) ==
  /\ m_context' = n
  /\ logged' = IF n # m_context THEN n ELSE logged

(* set, or bind, by code that interrupts can preempt: the swap is atomic ... *)
Swap(n) == m_context' = n /\ UNCHANGED logged

(* ... and the event follows outside of the atomic section. *)
Announce(n) == logged' = n /\ UNCHANGED m_context

(* enterInterrupt: the event is signalled even without a change. *)
EnterInterrupt(n) == m_context' = n /\ logged' = n

(* Mutant: the activity is restored without an event. *)
ExitInterrupt_Silent(restore) ==
  IF restore = Idle THEN UNCHANGED contextVars
  ELSE m_context' = restore /\ UNCHANGED logged

(* exitInterrupt leaves everything to the task loop when it would restore idle. *)
ExitInterrupt(restore) ==
  IF restore = Idle THEN UNCHANGED contextVars
  ELSE m_context' = restore /\ logged' = restore

(* Mutant: the task loop leaves the interrupt the way a handler does. *)
ExitInterruptIdle_AsHandler == ExitInterrupt(Idle)

(* exitInterruptIdle is the task loop's way to leave the interrupt. *)
ExitInterruptIdle == m_context' = Idle /\ logged' = Idle
==============================================================================
