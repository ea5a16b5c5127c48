---------------------------- MODULE MCHostTools -----------------------------
(***************************************************************************)
(* Small instances of what runs on the host: the decoder of the compressed *)
(* log behind a node, the LabJack logger and the LabJack commands. They do *)
(* not interact; Init chooses the one that runs.                           *)
(***************************************************************************)
EXTENDS CompressedStream, QuantoLogger, Ue9Commands

CONSTANT Tools   \* those that may run
VARIABLE tool

HostInit ==
  /\ tool \in Tools
  /\ StreamInit /\ (tool # "decoder" => elias = "gamma")
  /\ LoggerInit /\ CommandsInit

HostNext ==
  /\ UNCHANGED tool
  /\ \/ tool = "decoder" /\ Next /\ UNCHANGED <<loggerVars, commandVars>>
     \/ tool = "QuantoLogger" /\ LoggerNext /\ UNCHANGED <<vars, commandVars>>
     \/ tool = "ue9" /\ CommandsNext /\ UNCHANGED <<vars, loggerVars>>

HostSpec == HostInit /\ [][HostNext]_<<tool, vars, loggerVars, commandVars>>

\* The types of all three.
HostTypeOK == StreamTypeOK /\ LoggerTypeOK /\ CommandsTypeOK
-----------------------------------------------------------------------------
Rec(type, res, dt, dic, lsb) ==
  [type |-> type, res |-> res, dt |-> dt, dic |-> dic, msb |-> 0, lsb |-> lsb]

\* A short block; one whose second entry is stamped before the first; one with long steps of
\* both clocks, of which the code of the second count finds no room in the bit buffer; one
\* that loses as many codes as make a block of one entry less.
MCSupply ==
  {<<Rec(1, 0, 1, 0, 1), Rec(1, 0, 1, 1, 1)>>,
   <<Rec(1, 0, 3, 0, 1), Rec(1, 0, 255, 1, 1)>>,
   <<Rec(0, 0, 40, 0, 0), Rec(1, 0, 40, 200, 0)>>,
   <<Rec(3, 2, 130, 100, 2), Rec(2, 1, 240, 200, 1)>>}

\* Two entries within one tick of the 32 kHz counter.
MCEqualTimes ==
  {<<Rec(1, 0, 1, 0, 1), Rec(1, 0, 1, 1, 1)>>,
   <<Rec(1, 0, 1, 0, 1), Rec(1, 0, 0, 1, 1)>>}

\* test.c: what the library encodes it decodes, in both codes.
ASSUME CodecsRoundTrip ==
  \A codec \in {"gamma", "delta"} : \A a, b \in 1..20 : RoundTrip(codec, <<a, b>>, 4)
-----------------------------------------------------------------------------
(* Calls of the LabJack commands: readings that need each block of the calibration, a high   *)
(* resolution with a gain that fits it and one that does not, the temperature, wrong         *)
(* arguments, and a call of every command.                                                   *)

Reading(ch, range, hiRes, binary) ==
  [f |-> "eAIN", channel |-> ch, range |-> range, hiRes |-> hiRes, binary |-> binary]
On(f, ch) == [f |-> f, channel |-> ch]

MCCalls ==
  {Reading(0, "UNI5V", FALSE, FALSE), Reading(1, "BIP5V", TRUE, FALSE), Reading(2, "UNI2P5V", TRUE, FALSE),
   Reading(133, "BIP5V", FALSE, FALSE), Reading(3, "UNI5V", FALSE, TRUE), Reading(0, "BIP10V", FALSE, TRUE),
   On("eDAC", 2), On("eDI", 0), On("eDO", 23), On("eTCValues", 0),
   On("getCalibrationInfo", 0), On("getLJTDACCalibrationInfo", 0)}

MCParts == [SingleIO |-> 2, Feedback |-> 3, TimerCounter |-> 2, ReadMem |-> 2, I2C |-> 2]
==============================================================================
