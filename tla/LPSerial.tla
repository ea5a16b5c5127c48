------------------------------- MODULE LPSerial -------------------------------
(***************************************************************************)
(* The framing layer of the serial port for logs (LPSerialImplP.nc): a     *)
(* state machine driven by the interrupts that end each byte (putDone) and *)
(* by the low-priority task RunTx that starts and ends a frame.            *)
(*                                                                         *)
(* This layer only sends: ack_queue_push is never called, so its queue     *)
(* stays empty and is left out, and no component stops it.  A byte is      *)
(* whatever the layer above puts in; the CRC and the protocol byte are     *)
(* steps without content.  The layer above is called by startSend and      *)
(* calls back in nextByte and sendCompleted.                               *)
(***************************************************************************)
EXTENDS Naturals, Sequences

CONSTANT SERIAL_MTU    \* bytes of a frame at most

VARIABLES
  txState,
  txPending,           \* RunTx is posted
  dataState, dataByte, \* txBuf[TX_DATA_INDEX]: state and buf
  run,                 \* RunTx: "no", "begun" or "starts", see below
  completes,           \* and its outcome of a frame: "none", "SUCCESS", "FAIL"
  uart,                \* the UART sends a byte and will signal putDone
  wire                 \* bytes of the frame so far; its length is txByteCnt

serialVars == <<txState, txPending, dataState, dataByte, run, completes, uart, wire>>

SerialInit ==
  /\ txState = "IDLE" /\ txPending = FALSE
  /\ dataState = "AVAILABLE" /\ dataByte = << >>
  /\ run = "no" /\ completes = "none"
  /\ uart = FALSE /\ wire = << >>

(* SendBytePacket.startSend with the first byte. *)
CanStart == dataState = "AVAILABLE"
startSend(b) ==
  /\ CanStart
  /\ dataState' = "FILLING" /\ dataByte' = b
  /\ txPending' = TRUE
  /\ UNCHANGED <<txState, run, completes, uart, wire>>

(* The steps of putDone that only put a byte of the framing. *)
After == [PROTO |-> "INFO", FCS1 |-> "FCS2", FCS2 |-> "ENDFLAG", ENDFLAG |-> "ENDWAIT"]

(* Mutant: the task is not posted. *)
Refused_Silent == txState' = "ERROR" /\ uart' = FALSE /\ UNCHANGED txPending

(* A put that is refused ends the frame with an error. *)
Refused ==
  /\ txState' = "ERROR" /\ txPending' = TRUE /\ uart' = FALSE

PutFraming ==
  /\ uart /\ txState \in DOMAIN After
  /\ \/ txState' = After[txState] /\ UNCHANGED <<uart, txPending>>
     \/ Refused
  /\ UNCHANGED <<dataState, dataByte, run, completes, wire>>

MtuReached_OffByOne(n) == n > SERIAL_MTU   \* mutant

MtuReached(n) == n >= SERIAL_MTU

(* A byte of the data: the layer above gives the next byte b, or says that *)
(* there is none.                                                          *)
PutInfo(b, last) ==
  /\ uart /\ txState = "INFO"
  /\ wire' = Append(wire, dataByte)
  /\ dataState' = IF last THEN "COMPLETE" ELSE dataState
  /\ LET ends == last \/ MtuReached(Len(wire'))
     IN  /\ dataByte' = IF ends THEN dataByte ELSE b
         /\ \/ txState' = (IF ends THEN "FCS1" ELSE "INFO") /\ UNCHANGED <<uart, txPending>>
            \/ Refused
  /\ UNCHANGED <<run, completes>>

(* The last putDone. *)
PutEnds ==
  /\ uart /\ txState = "ENDWAIT"
  /\ txState' = "FINISH" /\ txPending' = TRUE /\ uart' = FALSE
  /\ UNCHANGED <<dataState, dataByte, run, completes, wire>>

Outcome == CASE txState = "FINISH" -> "SUCCESS" [] txState = "ERROR" -> "FAIL" [] OTHER -> "none"

(* Mutant: the buffer is not made available again. *)
RunTxBegins_KeepsBuffer ==
  /\ run = "no" /\ txPending
  /\ txPending' = FALSE
  /\ run' = IF txState \in {"IDLE", "FINISH", "ERROR"} THEN "begun" ELSE "no"
  /\ completes' = Outcome
  /\ txState' = IF txState \in {"FINISH", "ERROR"} THEN "IDLE" ELSE txState
  /\ UNCHANGED <<dataState, dataByte, uart, wire>>

(* RunTx.runTask, first atomic section: a frame that has ended leaves the  *)
(* buffer available.  In the middle of a frame there is nothing to do.     *)
RunTxBegins ==
  /\ run = "no" /\ txPending
  /\ txPending' = FALSE
  /\ run' = IF txState \in {"IDLE", "FINISH", "ERROR"} THEN "begun" ELSE "no"
  /\ completes' = Outcome
  /\ IF txState \in {"FINISH", "ERROR"}
     THEN txState' = "IDLE" /\ dataState' = "AVAILABLE"
     ELSE UNCHANGED <<txState, dataState>>
  /\ UNCHANGED <<dataByte, uart, wire>>

(* The frame that ended is reported to the layer above; before, RunTx has  *)
(* looked for data that waits: start_it.                                   *)
RunTxCompletes ==
  /\ run = "begun"
  /\ completes' = "none"
  /\ run' = IF dataState = "AVAILABLE" THEN "no" ELSE "starts"
  /\ UNCHANGED <<txState, txPending, dataState, dataByte, uart, wire>>

(* The frame starts with a delimiter. *)
RunTxStarts ==
  /\ run = "starts"
  /\ run' = "no"
  /\ wire' = << >>
  /\ \/ txState' = "PROTO" /\ uart' = TRUE /\ UNCHANGED txPending
     \/ Refused
  /\ UNCHANGED <<dataState, dataByte, completes>>

SerialTypeOK(Byte) ==
  /\ txState \in {"IDLE", "PROTO", "INFO", "FCS1", "FCS2", "ENDFLAG", "ENDWAIT", "FINISH", "ERROR"}
  /\ {txPending, uart} \subseteq BOOLEAN
  /\ dataState \in {"AVAILABLE", "FILLING", "COMPLETE"} /\ dataByte \in Byte \cup {<< >>}
  /\ run \in {"no", "begun", "starts"} /\ completes \in {"none", "SUCCESS", "FAIL"}
  /\ wire \in Seq(Byte) /\ Len(wire) <= SERIAL_MTU
==============================================================================
