------------------------------ MODULE RadioSend ------------------------------
(***************************************************************************)
(* What the user of the radio's medium access (CC2420CsmaP.nc) is          *)
(* promised: the radio is started and stopped in split phases, sends one   *)
(* message at a time, answers each once, as cancelled exactly if a cancel  *)
(* was accepted, and stops only when the message under way is answered.    *)
(***************************************************************************)
CONSTANTS Message, None

VARIABLES
  power,      \* "off", "starting", "on" or "stopping"
  sending,    \* the message under way, or None
  cancelled,  \* its cancellation was accepted
  result      \* its answer on the way to the user, or None

radio == <<power, sending, cancelled, result>>

Init == power = "off" /\ sending = None /\ ~cancelled /\ result = None

Switch(from, to) ==
  /\ power = from /\ power' = to
  /\ UNCHANGED <<sending, cancelled, result>>

StopDone == sending = None /\ Switch("stopping", "off")

Send(m) ==
  /\ power = "on" /\ sending = None
  /\ sending' = m
  /\ UNCHANGED <<power, cancelled, result>>

Cancel ==
  /\ sending # None /\ result = None
  /\ cancelled' = TRUE
  /\ UNCHANGED <<power, sending, result>>

Answer ==
  /\ sending # None /\ result = None
  /\ result' \in IF cancelled THEN {"ECANCEL"} ELSE {"SUCCESS", "ERETRY"}
  /\ UNCHANGED <<power, sending, cancelled>>

SendDone ==
  /\ result # None
  /\ sending' = None /\ cancelled' = FALSE /\ result' = None
  /\ UNCHANGED power

Next ==
  \/ Switch("off", "starting") \/ Switch("starting", "on")
  \/ Switch("on", "stopping") \/ StopDone
  \/ \E m \in Message : Send(m)
  \/ Cancel \/ Answer \/ SendDone

(* Whatever was begun ends: at most one of these is enabled at a time.     *)
Ends == Switch("starting", "on") \/ StopDone \/ Answer \/ SendDone

Spec == Init /\ [][Next]_radio /\ WF_radio(Ends)
==============================================================================
