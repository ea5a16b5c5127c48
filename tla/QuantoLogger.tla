---------------------------- MODULE QuantoLogger -----------------------------
(***************************************************************************)
(* QuantoLogger: the host program that has a LabJack sample two ports at   *)
(* each edge of a trigger and prints the bytes of one of them, a line for  *)
(* each frame. It talks to the device over a control and a data            *)
(* connection. SIGINT ends it without a StreamStop, so a new session may   *)
(* find the device streaming. The device is external.                      *)
(***************************************************************************)
EXTENDS TcpStream

CONSTANTS
  Pairs,         \* samples, a control and a data byte each, in a packet: 16 in the code
  MaxSessions,   \* bound: times the program is started
  MaxSamples,    \* bound: samples the device takes
  MaxStale       \* bound: packets printed again after recv failed
ASSUME LoggerAssumption == {Pairs, MaxSessions, MaxSamples, MaxStale} \subseteq Nat \ {0}

VARIABLES
  session,          \* how often the program was started
  pc,               \* the call of main that is next or under way, "broken" or "exit"
  waiting,          \* it has sent its command and is at its recv
  fda, fdb,         \* whether the control and the data connection are open
  buf, cnt,         \* the packet being read, and the parts of it that are there
  sync, first,      \* a start of frame was seen; no control byte was seen
  printed,          \* all that this session printed
  stale,            \* packets printed that recv did not fill
  toDevice,         \* commands under way
  control, data,    \* parts of answers and of packets under way to the program
  streaming,        \* the session whose StreamStart the device obeys, or 0
  samples,          \* taken and not sent
  taken,            \* counts samples
  sent              \* the samples sent in this session

programVars == <<session, pc, waiting, fda, fdb, buf, cnt, sync, first, printed, stale>>
deviceVars == <<streaming, samples, taken>>
loggerVars == <<programVars, toDevice, control, data, deviceVars, sent>>

\* A packet is a head of 12 bytes, the samples and a tail of 2.
PacketLen == Pairs + 2
Filler == [session |-> 0, start |-> FALSE, n |-> 0]
Packet(s) == <<Filler>> \o s \o <<Filler>>

\* Parts of 2 bytes of the answers, and of the recv that waits for each.
AnswerLen == [stop |-> 2, flush |-> 1, config |-> 4, start |-> 2]
Wanted == [AnswerLen EXCEPT !.flush = 2]
Answer(cmd, err) == [i \in 1..AnswerLen[cmd] |-> [cmd |-> cmd, i |-> i, err |-> err]]

LoggerInit ==
  /\ session = 1 /\ pc = "open" /\ waiting = FALSE /\ fda = FALSE /\ fdb = FALSE
  /\ buf = [i \in 1..PacketLen |-> Filler] /\ cnt = 0 /\ sync = FALSE /\ first = TRUE
  /\ printed = << >> /\ stale = 0
  /\ toDevice = << >> /\ control = << >> /\ data = << >>
  /\ streaming = 0 /\ samples = << >> /\ taken = 0 /\ sent = << >>
-----------------------------------------------------------------------------
(* main *)

OpenControl ==
  /\ pc = "open"
  /\ \/ pc' = "stop" /\ fda' = TRUE
     \/ pc' = "exit" /\ UNCHANGED fda
  /\ UNCHANGED <<session, waiting, fdb, buf, cnt, sync, first, printed, stale, toDevice, control,
                 data, deviceVars, sent>>

\* StreamClose: what was under way is lost. Closing again does nothing.
StreamClose == fda' = FALSE /\ fdb' = FALSE /\ control' = << >> /\ data' = << >>

\* main goes on after a failure, with the connections closed.
OpenData ==
  /\ pc = "openData" /\ pc' = "config"
  /\ \/ fdb' = TRUE /\ UNCHANGED <<fda, control, data>>
     \/ StreamClose
  /\ UNCHANGED <<session, waiting, buf, cnt, sync, first, printed, stale, toDevice, deviceVars, sent>>

\* Mutant of NextCall: the stream buffer is not flushed.
NextCall_NoFlush == [stop |-> "openData", flush |-> "openData", config |-> "start", start |-> "data"]

\* The calls in the order of main.
NextCall == [stop |-> "flush", flush |-> "openData", config |-> "start", start |-> "data"]

\* The call returns. Only the answers of StreamConfig and StreamStart are looked at.
Return(ok) ==
  /\ pc' = NextCall[pc] /\ waiting' = FALSE
  /\ IF ~ok /\ pc \in {"config", "start"} THEN StreamClose ELSE UNCHANGED <<fda, fdb, data>>

SendCommand ==
  /\ pc \in DOMAIN NextCall /\ ~waiting /\ fda
  /\ waiting' = TRUE
  /\ toDevice' = Append(toDevice, [cmd |-> pc, session |-> session])
  /\ UNCHANGED <<session, pc, fda, fdb, buf, cnt, sync, first, printed, stale, control, data,
                 deviceVars, sent>>

\* What the checks of the call may say of the bytes. StreamConfig does not return after a
\* short recv, so its checks read bytes that were never written and may find anything there.
Verdicts(cmd, got) ==
  IF Len(got) < AnswerLen[cmd]
  THEN {FALSE} \cup {cmd = "config" /\ got[1].cmd = cmd /\ got[1].i = 1 /\ got[1].err = 0}
  ELSE {got[1].cmd = cmd /\ got[1].i = 1 /\ got[1].err = 0}

ReceiveAnswer ==
  /\ waiting
  /\ \E r \in Recv(control, Wanted[pc]) : \E ok \in Verdicts(pc, r.got) :
       /\ Return(ok)
       /\ control' = IF ~ok /\ pc \in {"config", "start"} THEN << >> ELSE r.left
  /\ UNCHANGED <<session, buf, cnt, sync, first, printed, stale, toDevice, deviceVars, sent>>

\* On a closed connection send returns -1: StreamStart fails, but StreamConfig goes on with
\* a buffer that holds nothing of an answer.
CallClosed ==
  /\ pc \in {"config", "start"} /\ ~waiting /\ ~fda
  /\ \E ok \in {FALSE, pc = "config"} : Return(ok)
  /\ UNCHANGED control
  /\ UNCHANGED <<session, buf, cnt, sync, first, printed, stale, toDevice, deviceVars, sent>>
-----------------------------------------------------------------------------
(* StreamData *)

\* What the loop over the bytes of a packet prints: each data byte from the first start of
\* frame on, a newline before it if its control byte starts a frame and is not the first of all.
PrintPair(st, s) ==
  LET synced == st.sync \/ s.start
  IN  [sync |-> synced, first |-> FALSE,
       printed |-> IF synced THEN Append(st.printed, [newline |-> s.start /\ ~st.first, of |-> s])
                   ELSE st.printed]

PrintPacket(packet) ==
  LET st == FoldLeft(PrintPair, [sync |-> sync, first |-> first, printed |-> printed],
                     SubSeq(packet, 2, Pairs + 1))
  IN  sync' = st.sync /\ first' = st.first /\ printed' = st.printed

ReceiveData ==
  /\ pc = "data" /\ fdb
  /\ \E r \in Recv(data, PacketLen - cnt) :
       LET filled == [i \in 1..PacketLen |->
                        IF i \in cnt + 1..cnt + Len(r.got) THEN r.got[i - cnt] ELSE buf[i]]
       IN  /\ data' = r.left /\ buf' = filled
           /\ IF cnt + Len(r.got) < PacketLen
              THEN cnt' = cnt + Len(r.got) /\ UNCHANGED <<sync, first, printed>>
              ELSE cnt' = 0 /\ PrintPacket(filled)
  /\ UNCHANGED <<session, pc, waiting, fda, fdb, stale, toDevice, control, deviceVars, sent>>

\* recv returns -1, which makes cnt 255: the loop takes the packet as read.
ReceiveFails ==
  /\ pc = "data" /\ ~fdb /\ stale < MaxStale
  /\ stale' = stale + 1
  /\ PrintPacket(buf)
  /\ UNCHANGED <<session, pc, waiting, fda, fdb, buf, cnt, toDevice, control, data, deviceVars, sent>>

\* The connection breaks while recv waits on it. recv says so once, with a -1 that makes an
\* empty cnt 255, and 0 from then on: the loop never leaves. With bytes there it only
\* forgets one of them. (A device that just closes makes recv return 0, which does nothing.)
ConnectionBreaks ==
  /\ pc = "data" /\ fdb
  /\ pc' = "broken" /\ fdb' = FALSE /\ data' = << >>
  /\ \/ cnt # 0 /\ UNCHANGED <<sync, first, printed, stale>>
     \/ cnt = 0 /\ stale < MaxStale /\ stale' = stale + 1 /\ PrintPacket(buf)
  /\ UNCHANGED <<session, waiting, fda, buf, cnt, toDevice, control, deviceVars, sent>>

\* SIGINT: cleanup exits, whatever the device does.
cleanup ==
  /\ pc \notin {"exit", "open"} /\ pc' = "exit" /\ waiting' = FALSE /\ StreamClose
  /\ UNCHANGED <<session, buf, cnt, sync, first, printed, stale, toDevice, deviceVars, sent>>

\* The program is started again.
StartAgain ==
  /\ pc = "exit" /\ session < MaxSessions
  /\ session' = session + 1 /\ pc' = "open"
  /\ buf' = [i \in 1..PacketLen |-> Filler] /\ cnt' = 0 /\ sync' = FALSE /\ first' = TRUE
  /\ printed' = << >> /\ stale' = 0 /\ sent' = << >>
  /\ UNCHANGED <<waiting, fda, fdb, toDevice, control, data, deviceVars>>
-----------------------------------------------------------------------------
(* The device *)

\* It obeys commands in the order sent, those of a session that has ended included, and
\* answers on a connection that is still open. It may refuse to start or to be configured.
Obey ==
  /\ toDevice # << >> /\ toDevice' = Tail(toDevice)
  /\ \E err \in 0..1 :
       LET req == Head(toDevice)
       IN  /\ err = 0 \/ req.cmd \in {"config", "start"}
           /\ streaming' = CASE req.cmd = "stop" -> 0
                             [] req.cmd = "start" /\ err = 0 -> req.session
                             [] OTHER -> streaming
           /\ samples' = IF req.cmd = "flush" THEN << >> ELSE samples
           /\ control' = IF fda /\ req.session = session THEN control \o Answer(req.cmd, err) ELSE control
  /\ UNCHANGED <<programVars, data, taken, sent>>

TakeSample ==
  /\ streaming # 0 /\ taken < MaxSamples
  /\ taken' = taken + 1
  /\ \E start \in BOOLEAN : samples' = Append(samples, [session |-> streaming, start |-> start, n |-> taken'])
  /\ UNCHANGED <<programVars, toDevice, control, data, streaming, sent>>

SendPacket ==
  /\ fdb /\ Len(samples) >= Pairs
  /\ data' = data \o Packet(SubSeq(samples, 1, Pairs))
  /\ samples' = SubSeq(samples, Pairs + 1, Len(samples))
  /\ sent' = sent \o SubSeq(samples, 1, Pairs)
  /\ UNCHANGED <<programVars, toDevice, control, streaming, taken>>

LoggerNext ==
  \/ OpenControl \/ OpenData \/ SendCommand \/ ReceiveAnswer \/ CallClosed
  \/ ReceiveData \/ ReceiveFails \/ ConnectionBreaks \/ cleanup \/ StartAgain
  \/ Obey \/ TakeSample \/ SendPacket
-----------------------------------------------------------------------------
LoggerTypeOK ==
  /\ session \in 1..MaxSessions /\ pc \in {"open", "openData", "data", "broken", "exit"} \cup DOMAIN NextCall
  /\ {waiting, fda, fdb, sync, first} \subseteq BOOLEAN /\ cnt \in 0..PacketLen - 1
  /\ waiting => pc \in DOMAIN NextCall /\ fda
  /\ fdb => fda
  /\ streaming \in 0..session /\ taken \in 0..MaxSamples /\ stale \in 0..MaxStale
  /\ ~first => pc \in {"data", "broken", "exit"}

\* The samples from the first start of frame on, each with whether a line begins before it.
Framed(s) ==
  LET starts == {i \in DOMAIN s : s[i].start}
      from   == Min(starts)
  IN  IF starts = {} THEN << >>
      ELSE [i \in 1..Len(s) - from + 1 |-> [newline |-> s[from + i - 1].start /\ from + i # 2,
                                            of |-> s[from + i - 1]]]

\* However the packets are cut on their way, the program prints the samples of its session
\* in order, framed by the start bits, and all of those that have come in whole packets; and
\* it never prints a sample that the device took for an earlier session, although that one
\* left it streaming, with samples in its buffer and commands under way.
PrintsOwnSamples ==
  /\ stale = 0 => /\ IsPrefix(printed, Framed(sent))
                  /\ fdb /\ data = << >> /\ cnt = 0 => printed = Framed(sent)
  /\ \A i \in DOMAIN printed : printed[i].of.session \in {0, session}
==============================================================================
