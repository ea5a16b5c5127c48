--------------------------------- MODULE Radio ---------------------------------
(***************************************************************************)
(* The two halves of the radio's stack: medium access over the transmitter *)
(* (CC2420Csma), and the receiver (CC2420Receive).  Each models what it    *)
(* sees of the chip, and the other as one of the users of the bus, so that *)
(* a behaviour is one of a single half, and the variables of the other one *)
(* keep their initial values.                                              *)
(***************************************************************************)
EXTENDS CC2420Receive

CONSTANTS Message, AckMessage, None            \* of the transmitter

VARIABLES
  half,     \* the one that runs: "send" or "receive"
  \* of medium access and the transmitter
  txState, m_msg, m_cca, m_receiving, sfdHigh, abortSpiRelease,
  backoff, sendErr, isr, main, bus, wish, tasks, writing,
  air, sfd, edge, capture, splitControl, startup, accepted, cancelled

sendVars ==
  <<txState, m_msg, m_cca, m_receiving, sfdHigh, abortSpiRelease,
    backoff, sendErr, isr, main, bus, wish, tasks, writing,
    air, sfd, edge, capture, splitControl, startup, accepted, cancelled>>
halves == <<half, sendVars, vars>>

Csma == INSTANCE CC2420Csma WITH m_state <- txState

ASSUME RadioAssumption == ReceiveAssumption /\ Csma!TransmitAssumption

InitRadio == half \in {"send", "receive"} /\ Init /\ Csma!Init

NextRadio ==
  /\ UNCHANGED half
  /\ \/ half = "send" /\ Csma!Next /\ UNCHANGED vars
     \/ half = "receive" /\ Next /\ UNCHANGED sendVars

FairRadio ==
  /\ InitRadio /\ [][NextRadio]_halves
  /\ \/ half = "send" /\ Csma!Fairness
     \/ half = "receive" /\ Fairness

------------------------------------------------------------------------------
(* The transmitter gives back the bus and the chip's lock on it, and uses  *)
(* the bus only while it has it (CC2420TransmitP.nc:403-436, 678-736).     *)
BusIsReturned == Csma!BusIsReturned

(* Starts, stops and sends are answered once and truly, in turn            *)
(* (CC2420CsmaP.nc:84-280, CC2420TransmitP.nc): see RadioSend.             *)
ImplementsRadioSend == Csma!ImplementsRadioSend
==============================================================================
