------------------------------ MODULE CC2420Csma ------------------------------
(***************************************************************************)
(* The radio's medium access (CC2420CsmaP.nc) over its transmitter.  Its   *)
(* commands are called by tasks.  startVReg, the request for the bus and   *)
(* the oscillator are steps on the way to startDone_task.                  *)
(***************************************************************************)
EXTENDS CC2420Transmit

VARIABLES
  splitControl,  \* SplitControlState
  startup,       \* what a start waits for: "vreg", "bus", "osc" or "none"
  accepted,      \* the message whose send returned SUCCESS, until its sendDone
  cancelled      \* its cancel returned SUCCESS

csmaVars == <<splitControl, startup, accepted, cancelled>>
radioVars == <<transmitVars, csmaVars>>

Init ==
  /\ TransmitInit
  /\ splitControl = "STOPPED" /\ startup = "none"
  /\ accepted = None /\ cancelled = FALSE

------------------------------------------------------------------------------
(* Commands.                                                               *)

SplitControlStart ==
  /\ InTask /\ splitControl = "STOPPED"
  /\ splitControl' = "STARTING" /\ startup' = "vreg"
  /\ UNCHANGED <<accepted, cancelled, transmitVars>>

(* shutdown, with the chip turned off and the task posted. *)
shutdown(queue) == stop /\ tasks' = Post(Released(queue), "stopDone")

(* stop in the other states changes nothing; while a message is sent the   *)
(* shutdown is left to sendDone_task.                                      *)
SplitControlStop ==
  /\ InTask /\ splitControl \in {"STARTED", "TRANSMITTING"}
  /\ splitControl' = "STOPPING"
  /\ IF splitControl = "STARTED"
     THEN shutdown(tasks) /\ UNCHANGED sendErr
     ELSE UNCHANGED transmitVars
  /\ UNCHANGED <<startup, accepted, cancelled>>

(* The answer of CC2420Transmit.send is not looked at. *)
SendSend(m, cca) ==
  /\ InTask /\ splitControl = "STARTED"
  /\ splitControl' = "TRANSMITTING"
  /\ accepted' = m /\ cancelled' = FALSE
  /\ send(m, cca)
  /\ UNCHANGED startup

SendCancel ==
  /\ InTask /\ cancel
  /\ cancelled' = TRUE
  /\ UNCHANGED <<splitControl, startup, accepted>>

------------------------------------------------------------------------------
(* The way to startDone, and the tasks.                                    *)

StartMoves(from, to) ==
  /\ isr = "none" /\ startup = from /\ startup' = to
  /\ UNCHANGED <<splitControl, accepted, cancelled>>

startVRegDone == StartMoves("vreg", "bus") /\ UNCHANGED transmitVars

ResourceGranted ==
  /\ StartMoves("bus", "osc") /\ main = "none"
  /\ bus = "none" /\ bus' = "csma"
  /\ BusUntouched /\ UNCHANGED <<wish, tasks>>

startOscillatorDone ==
  /\ StartMoves("osc", "none")
  /\ tasks' = Post(tasks, "startDone")
  /\ BusUntouched /\ UNCHANGED <<bus, wish>>

startDone_task ==
  /\ Runs("startDone")
  /\ start /\ BusComesFree(Tail(tasks))
  /\ splitControl' = "STARTED"
  /\ UNCHANGED <<startup, accepted, cancelled>>

stopDone_task ==
  /\ Runs("stopDone") /\ tasks' = Tail(tasks)
  /\ splitControl' = "STOPPED"
  /\ BusUntouched /\ UNCHANGED <<bus, wish, startup, accepted, cancelled>>

(* Mutant: a stop that came while the message was sent is forgotten. *)
StopsAfterSend_Never == FALSE

StopsAfterSend == splitControl = "STOPPING"

sendDone_task ==
  /\ Runs("sendDone") /\ sendErr' = None
  /\ IF StopsAfterSend
     THEN shutdown(Tail(tasks)) /\ UNCHANGED splitControl
     ELSE /\ splitControl' = "STARTED" /\ tasks' = Tail(tasks)
          /\ UNCHANGED <<m_state, message, reception, abortSpiRelease, backoff,
                         isr, main, bus, wish, writing, chip>>
  /\ accepted' = None /\ cancelled' = FALSE
  /\ UNCHANGED startup

Handlers == TXFIFOWriteDone \/ BackoffTimerFired
TransmitTasks == SpiResourceGranted \/ AttemptEnds

Next ==
  \/ SplitControlStart \/ SplitControlStop \/ SendCancel
  \/ \E m \in Message, cca \in BOOLEAN : SendSend(m, cca)
  \/ startVRegDone \/ ResourceGranted \/ startOscillatorDone
  \/ startDone_task \/ stopDone_task \/ sendDone_task
  \/ /\ Handlers \/ TransmitTasks \/ AckReceived \/ Captured
        \/ RxBegins \/ FrameMoves \/ OtherTakesBus \/ OtherReleasesBus
     /\ UNCHANGED csmaVars

Spec == Init /\ [][Next]_radioVars

(* Interrupts come and posted tasks run although receptions interrupt them; *)
(* the chip moves on, other users give the bus back, and the channel is    *)
(* free again and again when the transmitter looks at it.                  *)
TaskRuns ==
  \/ startDone_task \/ stopDone_task \/ sendDone_task
  \/ (TransmitTasks /\ UNCHANGED csmaVars)
FindsBusy ==
  /\ m_state' = "SAMPLE_CCA"
  /\ BackoffTimerFired \/ (TXFIFOWriteDone /\ ~m_cca) \/ SpiResourceGranted
FindsFree == m_state # "SFD" /\ m_state' = "SFD"
Starts == startVRegDone \/ ResourceGranted \/ startOscillatorDone

Fairness ==
  /\ WF_radioVars(Captured /\ UNCHANGED csmaVars)
  /\ WF_radioVars(FrameMoves /\ UNCHANGED csmaVars)
  /\ SF_radioVars(Handlers /\ UNCHANGED csmaVars)
  /\ SF_radioVars(TaskRuns)
  /\ SF_radioVars(Starts)
  /\ SF_radioVars(OtherReleasesBus /\ UNCHANGED csmaVars)
  /\ []<><<FindsBusy>>_radioVars => []<><<FindsFree>>_radioVars

FairSpec == Spec /\ Fairness

------------------------------------------------------------------------------
(* Types, and who has the bus.                                             *)
TypeOK ==
  /\ TransmitTypeOK
  /\ splitControl \in {"STOPPED", "STARTING", "STARTED", "TRANSMITTING", "STOPPING"}
  /\ startup \in {"none", "vreg", "bus", "osc"} /\ cancelled \in BOOLEAN
  /\ accepted \in Message \cup {None}

Power ==
  CASE splitControl = "STOPPED" -> "off"
    [] splitControl = "STARTING" -> "starting"
    [] splitControl \in {"STARTED", "TRANSMITTING"} -> "on"
    [] splitControl = "STOPPING" -> "stopping"

(* The bus is given back: when no message is under way, the transmitter    *)
(* neither has it nor keeps the chip's lock on it, unless a grant that     *)
(* came too late is about to return it; and it strobes and writes only     *)
(* with the bus in its hands.                                              *)
BusIsReturned ==
  /\ (accepted = None \/ sendErr # None) =>
       ~abortSpiRelease /\ (bus = "transmit" => "granted" \in {tasks[i] : i \in DOMAIN tasks})
  /\ (writing \/ (main # "none" /\ m_state = "SFD")) => bus = "transmit"

(* The power state RX, which is set and unset with m_receiving, shows      *)
(* receptions (CC2420Quanto.h:18, CC2420TransmitP.nc:322-355): while they  *)
(* come and go, it does not stay set.                                      *)
ReceptionsEnd == []<>(air = "rx") => []<>(~m_receiving \/ m_state = "STOPPED")

(* Medium access and transmitter keep the promise of RadioSend.            *)
Send == INSTANCE RadioSend
          WITH power <- Power, sending <- accepted,
               result <- IF accepted = None THEN None ELSE sendErr
ImplementsRadioSend == Send!Spec
==============================================================================
