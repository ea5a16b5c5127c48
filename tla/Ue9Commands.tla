---------------------------- MODULE Ue9Commands ------------------------------
(***************************************************************************)
(* The commands of the LabJack library: each sends one request (reading    *)
(* the calibration five) over one TCP connection and calls recv once for   *)
(* its answer. The device is external; it answers every request in turn.   *)
(***************************************************************************)
EXTENDS TcpStream

CONSTANTS
  Calls,         \* inputs: the calls a program makes
  Parts,         \* the parts an answer to each command may be cut into
  MaxRequests,   \* bound: requests sent
  TempChannels   \* the channels of the temperature sensor: 133 and 141

Commands == {"SingleIO", "Feedback", "TimerCounter", "ReadMem", "I2C"}
Ranges == [UNI5V |-> 0, UNI2P5V |-> 1, UNI1P25V |-> 2, UNIP625V |-> 3, BIP5V |-> 8]
ASSUME CommandsAssumption ==
  /\ Parts \in [Commands -> Nat \ {0}] /\ MaxRequests \in Nat
  /\ \A c \in Calls : c.f \in {"eAIN", "eDAC", "eDI", "eDO", "eTCConfig", "eTCValues",
                              "getCalibrationInfo", "getLJTDACCalibrationInfo"}

VARIABLES
  call,       \* the call under way, or NoCall
  block,      \* the block of memory that getCalibrationInfo is reading
  asked,      \* counts requests: the number of the last
  stream,     \* parts of the answers under way
  up,         \* the device has the connection open
  caliInfo,   \* the block whose content each part of the calibration holds, or Unread
  prodID,     \* caliInfo's: 9 when it is set up
  ljtdacID,   \* the same of the LJTDAC's calibration
  result,     \* what the last call returned
  accepted,   \* every answer accepted: its request, the request it was taken for
  cut         \* a recv has returned a part of an answer

commandVars == <<call, block, asked, stream, up, caliInfo, prodID, ljtdacID, result, accepted, cut>>

NoCall == [f |-> "none"]
Unread == -1
NoBlock == -1
LastBlock == 4
Failed == [ok |-> FALSE, block |-> NoBlock]
Done(b) == [ok |-> TRUE, block |-> b]

\* Both prodIDs begin as in a structure of static storage. The library does not set them, so
\* one on the stack may begin as anything, 9 included; isCalibrationInfoValid then says yes
\* of a calibration that was never read. No program in the repository uses such a one.
CommandsInit ==
  /\ call = NoCall /\ block = 0 /\ asked = 0 /\ stream = << >> /\ up = TRUE
  /\ caliInfo = [b \in 0..LastBlock |-> Unread] /\ prodID = 0 /\ ljtdacID = 0
  /\ result = Failed /\ accepted = << >> /\ cut = FALSE
-----------------------------------------------------------------------------
CommandOf(c) ==
  CASE c.f \in {"eAIN", "eDAC"}           -> "SingleIO"
    [] c.f \in {"eDI", "eDO"}             -> "Feedback"
    [] c.f \in {"eTCConfig", "eTCValues"} -> "TimerCounter"
    [] c.f = "getCalibrationInfo"         -> "ReadMem"
    [] c.f = "getLJTDACCalibrationInfo"   -> "I2C"

isCalibrationInfoValid == prodID = 9

\* The block of the calibration that the conversion of a reading uses.
VoltageBlock(gain, hiRes) ==
  IF hiRes THEN (IF gain = 0 THEN 3 ELSE 4) ELSE (IF gain = 8 THEN 1 ELSE 0)
GainFits(gain, hiRes) == hiRes => gain \in {0, 8}
DACBlock == 2
TemperatureBlock == 2

\* What a call checks before it sends anything.
ArgumentsFit(c) ==
  /\ c.f = "eAIN" => c.range \in DOMAIN Ranges
  /\ c.f = "eDAC" => (isCalibrationInfoValid => c.channel \in {0, 1})
  /\ c.f \in {"eDI", "eDO"} => c.channel <= 22

\* A request, and behind what is under way the answer that will come. Only two commands
\* answer with an error code.
RequestAfter(before, c, b) ==
  /\ asked' = asked + 1
  /\ \E err \in 0..1 :
       /\ err = 0 \/ CommandOf(c) \in {"TimerCounter", "I2C"}
       /\ stream' = before \o [i \in 1..Parts[CommandOf(c)] |->
                       [cmd |-> CommandOf(c), i |-> i, req |-> asked', channel |-> c.channel,
                        block |-> b, err |-> err]]

Call(c) ==
  /\ call = NoCall /\ asked < MaxRequests
  /\ ArgumentsFit(c)
  /\ up /\ RequestAfter(stream, c, 0)
  /\ call' = c /\ block' = 0
  /\ UNCHANGED <<up, caliInfo, prodID, ljtdacID, result, accepted, cut>>

\* Mutant of CallFails: a wrong argument is found after the request was sent.
CallFails_Sent(c) ==
  /\ call = NoCall /\ asked < MaxRequests
  /\ ~ArgumentsFit(c) /\ up
  /\ RequestAfter(stream, c, 0) /\ result' = Failed
  /\ UNCHANGED <<call, block, up, caliInfo, prodID, ljtdacID, accepted, cut>>

\* A wrong argument, or send fails.
CallFails(c) ==
  /\ call = NoCall
  /\ ~ArgumentsFit(c) \/ ~up
  /\ result' = Failed
  /\ UNCHANGED <<call, block, asked, stream, up, caliInfo, prodID, ljtdacID, accepted, cut>>

\* The voltage or temperature of a reading. Without a calibration the code looks for one of
\* the channels in the answer, for the other in the call.
Convert(c, channel) ==
  LET gain  == Ranges[c.range]
      valid == isCalibrationInfoValid
      temp  == IF valid THEN c.channel \in TempChannels
               ELSE channel = Min(TempChannels) \/ c.channel = Max(TempChannels)
  IN  CASE c.binary                 -> Done(NoBlock)
        [] ~c.binary /\ temp        -> Done(IF valid THEN TemperatureBlock ELSE NoBlock)
        [] ~c.binary /\ ~temp /\ ~GainFits(gain, c.hiRes) -> Failed
        [] OTHER                    -> Done(IF valid THEN VoltageBlock(gain, c.hiRes) ELSE NoBlock)

\* What a call returns on an answer that passed its checks.
Outcome(c, ans) ==
  CASE c.f = "eAIN"        -> Convert(c, ans.channel)
    [] c.f = "eDAC"        -> Done(IF isCalibrationInfoValid THEN DACBlock ELSE NoBlock)
    [] OTHER               -> IF ans.err = 0 THEN Done(NoBlock) ELSE Failed

\* Mutant of StoreBlock: the calibration is valid from its first block on.
StoreBlock_ValidFirst(ans) ==
  /\ caliInfo' = [caliInfo EXCEPT ![block] = ans.block]
  /\ prodID' = 9
  /\ UNCHANGED ljtdacID

\* getCalibrationInfo stores a block and asks for the next; the last one makes it valid.
StoreBlock(ans) ==
  /\ caliInfo' = [caliInfo EXCEPT ![block] = ans.block]
  /\ prodID' = IF block = LastBlock THEN 9 ELSE prodID
  /\ UNCHANGED ljtdacID

Passes(cmd, got) == Len(got) = Parts[cmd] /\ got[1].cmd = cmd /\ got[1].i = 1

\* recv returns what has come, and the checks see whether it is an answer to the command:
\* its length, the command bytes and, but for the calibration, the checksums. Bytes out of
\* the middle of an answer are taken not to pass them.
Receive ==
  /\ call # NoCall
  /\ \E r \in Recv(stream, Parts[CommandOf(call)]) :
       LET ans == r.got[1]
       IN  /\ cut' = (cut \/ Last(r.got).i < Parts[Last(r.got).cmd])
           /\ CASE ~Passes(CommandOf(call), r.got) ->
                     /\ result' = Failed /\ call' = NoCall /\ stream' = r.left
                     /\ UNCHANGED <<block, asked, caliInfo, prodID, ljtdacID, accepted>>
                [] Passes(CommandOf(call), r.got) /\ call.f # "getCalibrationInfo" ->
                     /\ result' = Outcome(call, ans) /\ call' = NoCall /\ stream' = r.left
                     /\ accepted' = Append(accepted, [of |-> ans.req, as |-> asked, cut |-> cut])
                     /\ ljtdacID' = IF call.f = "getLJTDACCalibrationInfo" /\ ans.err = 0 THEN 9 ELSE ljtdacID
                     /\ UNCHANGED <<block, asked, caliInfo, prodID>>
                [] OTHER ->
                     /\ StoreBlock(ans)
                     /\ accepted' = Append(accepted, [of |-> ans.req, as |-> asked, cut |-> cut])
                     /\ IF block < LastBlock /\ up
                        THEN /\ RequestAfter(r.left, call, block + 1) /\ block' = block + 1
                             /\ UNCHANGED <<call, result>>
                        ELSE /\ call' = NoCall /\ block' = 0 /\ stream' = r.left
                             /\ result' = IF block = LastBlock THEN Done(NoBlock) ELSE Failed
                             /\ UNCHANGED asked
  /\ UNCHANGED up

\* recv finds the connection closed.
AnswerLost ==
  /\ call # NoCall /\ ~up /\ stream = << >>
  /\ result' = Failed /\ call' = NoCall
  /\ UNCHANGED <<block, asked, stream, up, caliInfo, prodID, ljtdacID, accepted, cut>>

\* The device closes the connection; answers under way may be lost from some part on.
DeviceCloses ==
  /\ up /\ up' = FALSE
  /\ \E n \in 0..Len(stream) : stream' = SubSeq(stream, 1, n)
  /\ UNCHANGED <<call, block, asked, caliInfo, prodID, ljtdacID, result, accepted, cut>>

CommandsNext ==
  \/ \E c \in Calls : Call(c) \/ CallFails(c)
  \/ Receive \/ AnswerLost \/ DeviceCloses
-----------------------------------------------------------------------------
CommandsTypeOK ==
  /\ call \in Calls \cup {NoCall} /\ block \in 0..LastBlock /\ asked \in 0..MaxRequests + LastBlock
  /\ caliInfo \in [0..LastBlock -> {Unread} \cup 0..LastBlock] /\ {prodID, ljtdacID} \subseteq {0, 9}
  /\ {up, cut} \subseteq BOOLEAN /\ result.ok \in BOOLEAN

\* As long as every recv has got its answer whole, each call returns what the device answered
\* to it. A cut answer may put the calls one behind, but never makes one return an answer
\* twice or an older one than the call before.
AnswersMatch ==
  \A i \in DOMAIN accepted :
    /\ ~accepted[i].cut => accepted[i].of = accepted[i].as
    /\ accepted[i].of <= accepted[i].as
    /\ i > 1 => accepted[i - 1].of < accepted[i].of

\* With a calibration that was not valid to begin with (see CommandsInit), a reading is
\* converted with constants only after the block that holds them was read, and
\* with those of another block only after an answer was cut, although reading the
\* calibration may fail at any block and be tried again.
CalibrationIsRead ==
  /\ result.block # NoBlock => caliInfo[result.block] # Unread
  /\ \A b \in 0..LastBlock : ~cut /\ caliInfo[b] # Unread => caliInfo[b] = b

\* ue9.h: a call that returns 0 returns the reading of its own channel.
OwnAnswer == \A i \in DOMAIN accepted : accepted[i].of = accepted[i].as
==============================================================================
