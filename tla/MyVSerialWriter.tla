---------------------------- MODULE MyVSerialWriter ----------------------------
(***************************************************************************)
(* The serial writer for logs: MyVSerialWriterP.nc shares MySerialWriterP  *)
(* among clients, which sends each buffer as one frame over LPSerial.      *)
(*                                                                         *)
(* All tasks are low-priority tasks and run to completion; only putDone    *)
(* interrupts them.  Clients write from tasks, as every client does that   *)
(* the repository has.  The byte i of the buffer of client c is <<c, i>>.  *)
(***************************************************************************)
EXTENDS LPSerial, FiniteSets

CONSTANTS
  NUM_CLIENTS,
  BufLen,       \* the length of the buffers of each client
  Byte          \* 2^8: sendLen and sendIndex are uint8_t

WriterAssumption ==
  /\ NUM_CLIENTS \in Nat \ {0} /\ Byte \in Nat \ {0, 1}
  /\ SERIAL_MTU = Byte - 1
  /\ BufLen \in [0..(NUM_CLIENTS - 1) -> 1..SERIAL_MTU]

VARIABLES
  sendState, sendBuffer, sendIndex,   \* of MySerialWriterP
  sendError,
  donePosted,                         \* SignalSendDoneTask is posted
  outstanding,                        \* clients whose buf is not NULL
  current,
  nextPosted                          \* NextSend is posted

writerVars == <<sendState, sendBuffer, sendIndex, sendError, donePosted>>
sharedVars == <<outstanding, current, nextPosted>>
vars == <<serialVars, writerVars, sharedVars>>

Clients == 0..(NUM_CLIENTS - 1)

Init ==
  /\ SerialInit
  /\ sendState = "IDLE" /\ sendBuffer = NUM_CLIENTS /\ sendIndex = 0
  /\ sendError = "SUCCESS" /\ donePosted = FALSE
  /\ outstanding = {} /\ current = NUM_CLIENTS /\ nextPosted = FALSE

(* MySerialWriterP: PortWriter.write of the buffer of client c. *)
LowerWrite(c) ==
  /\ sendState = "IDLE"
  /\ sendState' = "DATA" /\ sendBuffer' = c /\ sendIndex' = 1
  /\ sendError' = "SUCCESS"
  /\ startSend(<<c, 0>>)
  /\ UNCHANGED donePosted

(* Mutant: the next byte is counted after it was compared. *)
NoMoreBytes_Late == sendIndex > BufLen[sendBuffer]

(* SendBytePacket.nextByte: beyond sendLen the byte is not used. *)
NoMoreBytes == (sendIndex + 1) % Byte > BufLen[sendBuffer]

PutByte ==
  /\ PutInfo(<<sendBuffer, sendIndex>>, NoMoreBytes)
  /\ sendIndex' = (sendIndex + 1) % Byte
  /\ UNCHANGED <<sendState, sendBuffer, sendError, donePosted, sharedVars>>

PutDone ==
  \/ PutByte
  \/ (PutFraming \/ PutEnds) /\ UNCHANGED <<writerVars, sharedVars>>

(* A task runs between two steps of no other one. *)
Ready == run = "no"

(* MyVSerialWriterP: PortWriter.write by client c with no write outstanding. *)
Write(c) ==
  /\ Ready /\ c \notin outstanding
  /\ outstanding' = outstanding \cup {c}
  /\ \/ current = NUM_CLIENTS /\ current' = c /\ LowerWrite(c)
     \/ current # NUM_CLIENTS /\ UNCHANGED <<current, serialVars, writerVars>>
  /\ UNCHANGED nextPosted

(* The task RunTx; sendCompleted posts SignalSendDoneTask. *)
RunTx ==
  \/ (RunTxBegins \/ RunTxStarts) /\ UNCHANGED <<writerVars, sharedVars>>
  \/ /\ RunTxCompletes
     /\ IF completes # "none"
        THEN sendError' = completes /\ donePosted' = TRUE
        ELSE UNCHANGED <<sendError, donePosted>>
     /\ UNCHANGED <<sendState, sendBuffer, sendIndex, sharedVars>>

(* Mutant: the search for the next client starts at the first one. *)
nextPacket_First(pos) ==
  IF outstanding' = {} THEN NUM_CLIENTS ELSE CHOOSE c \in outstanding' : \A d \in outstanding' : c <= d

(* nextPacket looks at the clients after pos, once around. *)
nextPacket(pos) ==
  LET at(i) == (pos + i) % NUM_CLIENTS
      found == {i \in 1..(NUM_CLIENTS - 1) : at(i) \in outstanding'}
  IN  IF found = {} THEN NUM_CLIENTS
      ELSE at(CHOOSE i \in found : \A j \in found : i <= j)

(* SignalSendDoneTask signals writeDone to the shared writer, which        *)
(* signals it to the client.                                               *)
SignalSendDone ==
  /\ Ready /\ donePosted
  /\ donePosted' = FALSE /\ sendState' = "IDLE"
  /\ IF current # NUM_CLIENTS /\ sendBuffer = current
     THEN /\ outstanding' = outstanding \ {current}
          /\ current' = nextPacket(current)
          /\ nextPosted' = (nextPosted \/ current' # NUM_CLIENTS)
     ELSE UNCHANGED sharedVars
  /\ UNCHANGED <<serialVars, sendBuffer, sendIndex, sendError>>

(* The task NextSend.  WriteInOneHand shows that its write succeeds.       *)
NextSend ==
  /\ Ready /\ nextPosted
  /\ nextPosted' = FALSE
  /\ LowerWrite(current)
  /\ UNCHANGED <<outstanding, current>>

Next ==
  \/ PutDone
  \/ \E c \in Clients : Write(c)
  \/ RunTx \/ SignalSendDone \/ NextSend

(* The UART ends every byte; posted tasks run, and run to completion,      *)
(* though another task may be in the way at any one moment.                *)
Fairness ==
  /\ WF_vars(PutDone) /\ WF_vars(RunTx)
  /\ SF_vars(SignalSendDone) /\ SF_vars(NextSend)

Spec == Init /\ [][Next]_vars /\ Fairness

------------------------------------------------------------------------------
TypeOK ==
  /\ SerialTypeOK(Clients \X (0..(Byte - 1)))
  /\ sendState \in {"IDLE", "DATA"} /\ sendBuffer \in 0..NUM_CLIENTS
  /\ sendIndex \in 0..(Byte - 1) /\ sendError \in {"SUCCESS", "FAIL"}
  /\ {donePosted, nextPosted} \subseteq BOOLEAN
  /\ outstanding \subseteq Clients /\ current \in 0..NUM_CLIENTS

(* A frame that ends well holds the client's buffer, whole and in order,   *)
(* although each byte is fetched by an interrupt, up to the longest buffer *)
(* the counters allow, where sendIndex wraps and the MTU ends the frame.   *)
FrameIsBuffer ==
  txState = "FINISH" =>
    wire = [i \in 1..BufLen[current] |-> <<current, i - 1>>]

(* The write that is served is in one pair of hands: about to be sent,     *)
(* waiting for RunTx, on the wire, ended, or about to be answered; with    *)
(* none of them there is no outstanding write.  The three layers rely on   *)
(* each other for it: NextSend and write never find the writer busy.       *)
Hands == {h \in {"next", "buffer", "done"} :
            \/ h = "next" /\ nextPosted
            \/ h = "buffer" /\ dataState # "AVAILABLE"
            \/ h = "done" /\ (donePosted \/ completes # "none")}

WriteInOneHand ==
  /\ current \in outstanding <=> Cardinality(Hands) = 1
  /\ current = NUM_CLIENTS <=> outstanding = {}
  /\ Cardinality(Hands) <= 1
  /\ nextPosted => sendState = "IDLE"

(* Clients are served round robin, each write is answered, and once.       *)
Shared == INSTANCE SharedWriter WITH waiting <- outstanding, serving <- current
ImplementsSharedWriter == Shared!Spec
==============================================================================
