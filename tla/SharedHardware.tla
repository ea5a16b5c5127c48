---------------------------- MODULE SharedHardware ----------------------------
(***************************************************************************)
(* The components that give one piece of hardware to several users: the    *)
(* arbiter of a bus, the radio's drivers above it, and the writer that     *)
(* shares a serial port.  Each relies on the promise of the one below,     *)
(* not on its steps, so that a behaviour is one of a single layer, and the *)
(* variables of the others keep their initial values.                      *)
(***************************************************************************)
EXTENDS Arbiter, FiniteSets

CONSTANTS
  Ids, Transmitter, Radio, Other,              \* of the radio's drivers
  NUM_CLIENTS, BufLen, Byte, SERIAL_MTU        \* of the writer

VARIABLES
  layer,    \* the one that runs: "arbiter", "spi" or "writer"
  \* of the radio's drivers
  line, holder, charged, m_requests, m_holder, m_ctx, working, granting,
  spiContext, told, asked, abortSpiRelease,
  \* of the writer and the framing below
  txState, txPending, dataState, dataByte, run, completes, uart, wire,
  sendState, sendBuffer, sendIndex, sendError, donePosted,
  outstanding, current, nextPosted

arbiterVars == <<arbiter, grantedTask, resource, configured, holds, main>>
spiVars ==
  <<line, holder, charged, m_requests, m_holder, m_ctx, working, granting,
    spiContext, told, asked, abortSpiRelease>>
portVars ==
  <<txState, txPending, dataState, dataByte, run, completes, uart, wire,
    sendState, sendBuffer, sendIndex, sendError, donePosted,
    outstanding, current, nextPosted>>
hardwareVars == <<layer, cpu, arbiterVars, spiVars, portVars>>

Spi == INSTANCE CC2420Spi
Writer == INSTANCE MyVSerialWriter

(* For TLC, buffers of one byte, of two, and so on up to the longest.      *)
Lengths == [c \in 0..NUM_CLIENTS - 1 |-> c + 1]

ASSUME WriterAssumption == Writer!WriterAssumption
ASSUME SpiAssumption == Spi!SpiAssumption

InitHardware ==
  /\ layer \in {"arbiter", "spi", "writer"}
  /\ Init /\ Spi!Init /\ Writer!Init

NextHardware ==
  /\ UNCHANGED layer
  /\ \/ layer = "arbiter" /\ Next /\ UNCHANGED <<spiVars, portVars>>
     \/ layer = "spi" /\ Spi!Next /\ UNCHANGED <<arbiterVars, portVars>>
     \/ layer = "writer" /\ Writer!Next /\ UNCHANGED <<cpu, arbiterVars, spiVars>>

(* Layers that do not run have no fair action enabled. *)
FairHardware ==
  /\ InitHardware /\ [][NextHardware]_hardwareVars
  /\ Fairness /\ Spi!Fairness /\ Writer!Fairness

------------------------------------------------------------------------------
HardwareTypeOK == TypeOK /\ Spi!TypeOK /\ Writer!TypeOK

(* Who was told that it has the bus has it alone, whatever the others ask  *)
(* for, from tasks and handlers, and although the transmitter may keep the *)
(* bus after a release; a driver that waited is charged under the activity *)
(* of its request (CC2420SpiP.nc:112-188, 348-374; README:97-102).         *)
DriverOwnsBus == Spi!OwnsBus

(* A driver that asked for the bus is told that it has it, and a bus that  *)
(* was kept over a release is given back or used (CC2420SpiP.nc:112-188).  *)
DriversAreServed == Spi!Served

(* Frames hold whole buffers, up to the longest one: see MyVSerialWriter.  *)
FrameIsBuffer == Writer!FrameIsBuffer

(* The write that is served is in one pair of hands of three layers.       *)
WriteInOneHand == Writer!WriteInOneHand

(* Clients of the port are served round robin, each write is answered, and *)
(* once, although puts may fail.                                           *)
ImplementsSharedWriter == Writer!ImplementsSharedWriter
==============================================================================
