---------------------------- MODULE CC2420Transmit ----------------------------
(***************************************************************************)
(* The radio's transmitter (CC2420TransmitP.nc) with what it uses of the   *)
(* chip, of the bus (CC2420SpiP.nc, see CC2420Spi) and of the alarm.       *)
(*                                                                         *)
(* send, cancel and granted are called by tasks; the alarm, the end of a   *)
(* FIFO write, an acknowledgement and the capture of an edge of the SFD    *)
(* pin come in handlers.  A handler is one step, except captured, which    *)
(* reads the pin to fall through to its next case: the chip may move       *)
(* between its cases.  attemptSend by a task is cut after its atomic       *)
(* section.  What else a task does between two atomic sections is one      *)
(* step, since in the states in between handlers only capture receptions.  *)
(*                                                                         *)
(* Times are left open: the alarm may fire whenever it runs.  Contents of  *)
(* messages, time stamps, contexts and power states are left out.          *)
(***************************************************************************)
EXTENDS Naturals, Sequences

CONSTANTS
  Message,
  AckMessage,   \* those that ask for an acknowledgement
  None

TransmitAssumption ==
  AckMessage \subseteq Message /\ None \notin Message \cup {"SUCCESS", "ERETRY", "ECANCEL"}

VARIABLES
  m_state, m_msg, m_cca, m_receiving, sfdHigh, abortSpiRelease,
  backoff,     \* BackoffTimer runs
  sendErr,     \* of CC2420CsmaP: the answer, until its task runs, or None
  isr,         \* the case that captured falls through to, or "none"
  main,        \* what a task's attemptSend has to do still, or "none"
  \* the bus
  bus,         \* who has it: "transmit", "csma", "other" or "none"
  wish,        \* requests of the transmitter's that wait, see Requests
  tasks,       \* the posted tasks, in order: "granted" and those of CC2420CsmaP
  writing,     \* TXFIFO.write is under way
  \* the chip
  air,         \* "quiet", "rx", "tuned" (the frame is still to come) or "tx"
  sfd,         \* the SFD pin
  edge,        \* the edge that is captured: "rising", "falling" or "off"
  capture      \* an edge was captured, and the interrupt is still to come

spi == <<bus, wish, tasks>>
chip == <<air, sfd, edge, capture>>
message == <<m_msg, m_cca>>
reception == <<m_receiving, sfdHigh>>
transmitVars == <<m_state, message, reception, abortSpiRelease, backoff,
                  sendErr, isr, main, spi, writing, chip>>

TransmitInit ==
  /\ m_state = "STOPPED" /\ m_msg = None /\ m_cca = FALSE
  /\ m_receiving = FALSE /\ sfdHigh = FALSE /\ abortSpiRelease = FALSE
  /\ backoff = FALSE /\ sendErr = None /\ isr = "none" /\ main = "none"
  /\ bus = "none" /\ wish = 0 /\ tasks = << >> /\ writing = FALSE
  /\ air = "quiet" /\ sfd = FALSE /\ edge = "off" /\ capture = FALSE

(* post, which changes nothing when the task is posted already.            *)
Post(queue, t) == IF \E i \in DOMAIN queue : queue[i] = t THEN queue ELSE Append(queue, t)

InTask == isr = "none" /\ main = "none"

------------------------------------------------------------------------------
(* The parts of several steps.                                             *)

(* captureRisingEdge and captureFallingEdge forget an edge captured before. *)
Capture(e) == edge' = e /\ capture' = FALSE /\ UNCHANGED <<air, sfd>>

(* release, after which the tasks in queue are posted: without effect for  *)
(* who does not have the bus; a request that waits is granted in a task.   *)
Released(queue) == IF bus = "transmit" /\ wish > 0 THEN Post(queue, "granted") ELSE queue
GiveBack ==
  IF bus = "transmit" /\ wish > 0
  THEN wish' = wish - 1 /\ UNCHANGED bus
  ELSE bus' = (IF bus = "transmit" THEN "none" ELSE bus) /\ UNCHANGED wish
releaseSpiResource == GiveBack /\ tasks' = Released(tasks)

(* request, when the bus is taken: a bit for the transmitter, whatever the *)
(* bit was; but a first request may have made it m_holder while another    *)
(* user than the radio has the bus, and leaves the bit to the next.        *)
Requests == wish' \in IF wish = 0 THEN {1} ELSE IF bus = "other" THEN {wish, 2} ELSE {wish}

(* send is over, and sendDone_task posted.                                 *)
Over(err, queue) ==
  /\ m_state' = "STARTED" /\ sendErr' = err /\ tasks' = Post(queue, "sendDone")

(* Mutant: the chip's lock on the bus is not given up.                     *)
signalDone_Keeps(err, queue) == Over(err, queue) /\ UNCHANGED abortSpiRelease

signalDone(err, queue) == Over(err, queue) /\ abortSpiRelease' = FALSE

(* The channel may be found busy; if it is not, the transmitter is tuned.  *)
(* STXON does not look at the channel, and ends a reception.               *)
Strobe ==
  /\ m_cca => air = "quiet"
  /\ air' = "tuned" /\ sfd' = FALSE
  /\ capture' = (capture \/ (sfd /\ edge = "falling"))
  /\ UNCHANGED edge

Flush == GiveBack /\ Over("ECANCEL", Released(tasks)) /\ UNCHANGED chip

(* attemptSend by a handler, which has the bus or has just got it.         *)
Succeeds ==
  /\ m_state' = "SFD" /\ Strobe /\ backoff' = TRUE
  /\ bus' = "transmit" /\ UNCHANGED <<wish, tasks, sendErr>>

Congested ==
  /\ m_state' = "SAMPLE_CCA" /\ releaseSpiResource /\ backoff' = TRUE
  /\ UNCHANGED <<sendErr, chip>>

(* Mutant: a cancel is forgotten when the bus comes. *)
attemptSend_Forgets == Succeeds \/ Congested

attemptSend ==
  \/ m_state = "CANCEL" /\ Flush /\ backoff' = FALSE
  \/ m_state # "CANCEL" /\ (Succeeds \/ Congested)

------------------------------------------------------------------------------
(* Commands, called by CC2420CsmaP in tasks.                               *)

start ==
  /\ m_state' = "STARTED" /\ m_receiving' = FALSE /\ abortSpiRelease' = FALSE
  /\ Capture("rising")
  /\ UNCHANGED <<message, sfdHigh, backoff, sendErr, isr, main, writing>>

(* stop, after which CC2420CsmaP turns the chip off. *)
stop ==
  /\ m_state' = "STOPPED" /\ backoff' = FALSE /\ GiveBack
  /\ air' = "quiet" /\ sfd' = FALSE /\ edge' = "off" /\ capture' = FALSE
  /\ UNCHANGED <<message, reception, abortSpiRelease, isr, main, writing>>

(* send: the FIFO is written at once if the bus is free. *)
send(m, cca) ==
  /\ \/ /\ m_state = "STARTED"
        /\ m_state' = "LOAD" /\ m_msg' = m /\ m_cca' = cca
        /\ \/ bus = "none" /\ bus' = "transmit" /\ writing' = TRUE /\ UNCHANGED wish
           \/ bus # "none" /\ Requests /\ UNCHANGED <<bus, writing>>
     \/ m_state # "STARTED" /\ UNCHANGED <<m_state, message, bus, wish, writing>>
  /\ UNCHANGED <<reception, abortSpiRelease, backoff, sendErr, isr, main, tasks, chip>>

Cancellable == m_state \in {"LOAD", "SAMPLE_CCA", "BEGIN_TRANSMIT"}

cancel ==
  /\ Cancellable
  /\ m_state' = "CANCEL"
  /\ UNCHANGED <<message, reception, abortSpiRelease, backoff, sendErr, isr,
                 main, spi, writing, chip>>

------------------------------------------------------------------------------
(* Tasks.                                                                  *)

GrantedLoads ==
  /\ m_state = "LOAD" /\ writing' = TRUE /\ tasks' = Tail(tasks)
  /\ UNCHANGED <<m_state, sendErr, main, bus, wish, chip>>

(* The atomic section of attemptSend. *)
GrantedStrobes ==
  /\ m_state = "BEGIN_TRANSMIT" /\ tasks' = Tail(tasks)
  /\ \/ m_state' = "SFD" /\ main' = "strobed" /\ Strobe
     \/ m_state' = "SAMPLE_CCA" /\ main' = "congested" /\ UNCHANGED chip
  /\ UNCHANGED <<sendErr, bus, wish, writing>>

GrantedReturns ==
  /\ m_state \notin {"LOAD", "BEGIN_TRANSMIT"}
  /\ GiveBack
  /\ IF m_state = "CANCEL"
     THEN Over("ECANCEL", Released(Tail(tasks)))
     ELSE tasks' = Released(Tail(tasks)) /\ UNCHANGED <<m_state, sendErr>>
  /\ UNCHANGED <<main, writing, chip>>

Runs(t) == InTask /\ tasks # << >> /\ Head(tasks) = t

SpiResourceGranted ==
  /\ Runs("granted")
  /\ GrantedLoads \/ GrantedStrobes \/ GrantedReturns
  /\ UNCHANGED <<message, reception, abortSpiRelease, backoff, isr>>

(* The rest of attemptSend. *)
AttemptEnds ==
  /\ isr = "none" /\ main # "none"
  /\ main' = "none" /\ backoff' = TRUE
  /\ IF main = "congested" THEN releaseSpiResource ELSE UNCHANGED spi
  /\ UNCHANGED <<m_state, message, reception, abortSpiRelease, sendErr, isr, writing, chip>>

------------------------------------------------------------------------------
(* Handlers.                                                               *)

TXFIFOWriteDone ==
  /\ isr = "none" /\ writing
  /\ writing' = FALSE
  /\ \/ (m_state = "CANCEL" \/ ~m_cca) /\ attemptSend
     \/ /\ m_state # "CANCEL" /\ m_cca
        /\ m_state' = "SAMPLE_CCA" /\ releaseSpiResource /\ backoff' = TRUE
        /\ UNCHANGED <<sendErr, chip>>
  /\ UNCHANGED <<message, reception, abortSpiRelease, isr, main>>

(* BackoffTimer.fired, by state. *)
FiredSamples ==
  /\ m_state = "SAMPLE_CCA"
  /\ m_state' \in {"SAMPLE_CCA"} \cup (IF air = "quiet" THEN {"BEGIN_TRANSMIT"} ELSE {})
  /\ backoff' = TRUE
  /\ UNCHANGED <<abortSpiRelease, sendErr, spi, chip>>

FiredAttempts ==
  /\ m_state \in {"BEGIN_TRANSMIT", "CANCEL"}
  /\ \/ bus = "none" /\ attemptSend
     \/ /\ bus # "none" /\ Requests /\ backoff' = FALSE
        /\ UNCHANGED <<m_state, sendErr, bus, tasks, chip>>
  /\ UNCHANGED abortSpiRelease

FiredGivesUp ==
  /\ backoff' = FALSE
  /\ \/ m_state = "ACK_WAIT" /\ signalDone("SUCCESS", tasks) /\ UNCHANGED <<bus, wish, chip>>
     \/ /\ m_state = "SFD" /\ GiveBack /\ signalDone("ERETRY", Released(tasks))
        /\ Capture("rising")

FiredIdles ==
  /\ m_state \in {"STOPPED", "STARTED", "LOAD", "EFD"}
  /\ backoff' = FALSE
  /\ UNCHANGED <<m_state, abortSpiRelease, sendErr, spi, chip>>

BackoffTimerFired ==
  /\ isr = "none" /\ backoff
  /\ FiredSamples \/ FiredAttempts \/ FiredGivesUp \/ FiredIdles
  /\ UNCHANGED <<message, reception, isr, main, writing>>

(* CC2420Receive.receive with the acknowledgement of the message. *)
AckReceived ==
  /\ isr = "none" /\ m_state = "ACK_WAIT"
  /\ backoff' = FALSE /\ signalDone("SUCCESS", tasks)
  /\ UNCHANGED <<message, reception, isr, main, bus, wish, writing, chip>>

(* captured begins with the case of its state, and a case whose edge is    *)
(* followed by the next one already falls through.                         *)
Enters == isr = "none" /\ capture
Begins(case) ==
  \/ isr = case
  \/ Enters /\ case = IF m_state \in {"SFD", "EFD"} THEN m_state ELSE "default"

CapturedSFD ==
  /\ Begins("SFD")
  /\ m_state' = "EFD" /\ sfdHigh' = TRUE /\ Capture("falling")
  /\ abortSpiRelease' = (abortSpiRelease \/ m_msg \in AckMessage)
  /\ releaseSpiResource /\ backoff' = FALSE
  /\ isr' = IF sfd THEN "none" ELSE "EFD"
  /\ UNCHANGED <<message, m_receiving, sendErr, main, writing>>

CapturedEFD ==
  /\ Begins("EFD")
  /\ sfdHigh' = FALSE /\ Capture("rising")
  /\ IF m_msg \in AckMessage
     THEN m_state' = "ACK_WAIT" /\ backoff' = TRUE /\ UNCHANGED <<abortSpiRelease, sendErr, tasks>>
     ELSE signalDone("SUCCESS", tasks) /\ UNCHANGED backoff
  /\ isr' = IF sfd THEN "default" ELSE "none"
  /\ UNCHANGED <<message, m_receiving, main, bus, wish, writing>>

(* The beginning or the end of a reception, or both.  An edge while one    *)
(* is said to be received and the pin to be low changes nothing.           *)
CapturedDefault ==
  /\ Begins("default")
  /\ \/ /\ ~sfdHigh /\ ~m_receiving /\ sfd
        /\ sfdHigh' = TRUE /\ m_receiving' = TRUE /\ Capture("falling")
     \/ /\ sfdHigh \/ (~m_receiving /\ ~sfd)
        /\ sfdHigh' = FALSE /\ m_receiving' = FALSE /\ Capture("rising")
     \/ /\ ~sfdHigh /\ m_receiving
        /\ capture' = (capture /\ isr # "none")
        /\ UNCHANGED <<reception, air, sfd, edge>>
  /\ isr' = "none"
  /\ UNCHANGED <<m_state, message, abortSpiRelease, backoff, sendErr, main, spi, writing>>

Captured == CapturedSFD \/ CapturedEFD \/ CapturedDefault

------------------------------------------------------------------------------
(* The chip, and the other users of the bus.                               *)

Pin(level, from, to) ==
  /\ m_state # "STOPPED" /\ air = from /\ air' = to
  /\ sfd' = level
  /\ capture' = (capture \/ (sfd # level /\ edge = IF level THEN "rising" ELSE "falling"))
  /\ UNCHANGED <<m_state, message, reception, abortSpiRelease, backoff,
                 sendErr, isr, main, spi, writing, edge>>

RxBegins == Pin(TRUE, "quiet", "rx")
(* A frame may fail to begin (the comment at 82-85).                       *)
FrameMoves ==
  \/ Pin(FALSE, "rx", "quiet")
  \/ Pin(TRUE, "tuned", "tx")
  \/ Pin(FALSE, "tuned", "quiet") \/ Pin(FALSE, "tx", "quiet")

BusUntouched == UNCHANGED <<m_state, message, reception, abortSpiRelease, backoff,
                            sendErr, isr, main, writing, chip>>

OtherTakesBus ==
  /\ isr = "none" /\ bus = "none" /\ bus' = "other"
  /\ BusUntouched /\ UNCHANGED <<wish, tasks>>

(* After which the tasks in queue are posted. *)
BusComesFree(queue) ==
  /\ bus' = IF wish > 0 THEN "transmit" ELSE "none"
  /\ tasks' = IF wish > 0 THEN Post(queue, "granted") ELSE queue
  /\ wish' = IF wish > 0 THEN wish - 1 ELSE 0

OtherReleasesBus == isr = "none" /\ bus = "other" /\ BusComesFree(tasks) /\ BusUntouched

------------------------------------------------------------------------------
TransmitTypeOK ==
  /\ m_state \in {"STOPPED", "STARTED", "LOAD", "SAMPLE_CCA", "BEGIN_TRANSMIT",
                  "SFD", "EFD", "ACK_WAIT", "CANCEL"}
  /\ m_msg \in Message \cup {None}
  /\ {m_cca, m_receiving, sfdHigh, abortSpiRelease, backoff, writing,
      sfd, capture} \subseteq BOOLEAN
  /\ \A i \in DOMAIN tasks : tasks[i] \in {"granted", "startDone", "sendDone", "stopDone"}
  /\ \A i, j \in DOMAIN tasks : tasks[i] = tasks[j] => i = j
  /\ sendErr \in {"SUCCESS", "ERETRY", "ECANCEL", None}
  /\ isr \in {"none", "EFD", "default"} /\ main \in {"none", "strobed", "congested"}
  /\ wish \in 0..2 /\ bus \in {"transmit", "csma", "other", "none"}
  /\ air \in {"quiet", "rx", "tuned", "tx"} /\ edge \in {"rising", "falling", "off"}
==============================================================================
