---------------------------- MODULE HostToolsProofs ----------------------------
(***************************************************************************)
(* The tools on the host, whichever of them runs: what LabJackProofs says  *)
(* of the commands and the logger of the LabJack, and                      *)
(* CompressedStreamProofs of the decoder, holds of a run of the tools,     *)
(* which does not disturb those that do not run.                           *)
(***************************************************************************)
EXTENDS MCHostTools, LabJackProofs, CompressedStreamProofs

HostVars == <<tool, vars, loggerVars, commandVars>>

\* Whatever tool runs: as long as every recv got its answer whole, a call returns what the
\* device answered to it, and never an answer twice or an older one than the call before.
THEOREM CallsAreAnswered == HostSpec => []AnswersMatch
<1>1. HostInit => CommandInv
  BY CommandsStart DEF HostInit
<1>2. CommandInv /\ [HostNext]_HostVars => CommandInv'
  <2> SUFFICES ASSUME CommandInv, [HostNext]_HostVars PROVE CommandInv'
    OBVIOUS
  <2>1. [CommandsNext]_commandVars
    BY DEF HostNext, HostVars
  <2> QED
    BY <2>1, CommandsStep
<1>3. CommandInv => AnswersMatch
  BY DEF CommandInv
<1> QED
  BY <1>1, <1>2, <1>3, PTL DEF HostSpec, HostVars

\* Whatever tool runs: a reading is converted with constants only after their block was
\* read, and with those of another block only after an answer was cut.
THEOREM ConstantsAreRead == HostSpec => []CalibrationIsRead
<1>1. HostInit => CommandInv
  BY CommandsStart DEF HostInit
<1>2. CommandInv /\ [HostNext]_HostVars => CommandInv'
  <2> SUFFICES ASSUME CommandInv, [HostNext]_HostVars PROVE CommandInv'
    OBVIOUS
  <2>1. [CommandsNext]_commandVars
    BY DEF HostNext, HostVars
  <2> QED
    BY <2>1, CommandsStep
<1>3. CommandInv => CalibrationIsRead
  BY DEF CommandInv
<1> QED
  BY <1>1, <1>2, <1>3, PTL DEF HostSpec, HostVars

\* Whatever tool runs: the logger prints what the device took for this session and nothing of
\* an earlier one, in order, however packets are cut, and all that came in whole packets.
THEOREM SamplesAreOwn == HostSpec => []PrintsOwnSamples
<1>1. HostInit => LoggerInv
  BY LoggerStarts DEF HostInit
<1>2. LoggerInv /\ [HostNext]_HostVars => LoggerInv'
  <2> SUFFICES ASSUME LoggerInv, [HostNext]_HostVars PROVE LoggerInv'
    OBVIOUS
  <2>1. [LoggerNext]_loggerVars
    BY DEF HostNext, HostVars
  <2> QED
    BY <2>1, LoggerKeeps
<1> QED
  BY <1>1, <1>2, PrintsWhatIsSent, PTL DEF HostSpec, HostVars

\* The run of the tools steps as the node and its decoder do, or leaves them alone.
LEMMA HostIsStream == HostSpec => Spec
<1>1. HostInit => StreamInit
  BY DEF HostInit
<1>2. [HostNext]_HostVars => [Next]_vars
  BY DEF HostNext, HostVars
<1> QED
  BY <1>1, <1>2, PTL DEF HostSpec, HostVars, Spec

\* Whatever tool runs: the lists of node and decoder hold every symbol once. If no block needs
\* the integer 0, the decoder prints what was recorded, sync lines also after lines were lost,
\* and exits with an error only for a cause (quanto_decode.c).
THEOREM DecoderIsFaithful ==
  ASSUME AllowZero = FALSE
  PROVE  HostSpec => /\ [](ListsArePermutations /\ PrintedIsRecorded /\ GivesUpForCause)
                     /\ SyncLinePrinted
  BY HostIsStream, ListsPermuted, PrintedFaithfully, GivenUpForCause, SyncLinesPrinted, PTL

\* The types of all three tools: no count of the logger, no block of the calibration and no
\* size of a decoded block leaves its range.
THEOREM ToolsTyped ==
  ASSUME AllowZero = FALSE
  PROVE  HostSpec => []HostTypeOK
<1>1. HostInit => CommandInv /\ LoggerInv
  BY CommandsStart, LoggerStarts DEF HostInit
<1>2. CommandInv /\ LoggerInv /\ [HostNext]_HostVars => CommandInv' /\ LoggerInv'
  <2> SUFFICES ASSUME CommandInv, LoggerInv, [HostNext]_HostVars PROVE CommandInv' /\ LoggerInv'
    OBVIOUS
  <2>1. [CommandsNext]_commandVars /\ [LoggerNext]_loggerVars
    BY DEF HostNext, HostVars
  <2> QED
    BY <2>1, CommandsStep, LoggerKeeps
<1>3. CommandInv /\ LoggerInv => CommandsTypeOK /\ LoggerTypeOK
  BY DEF CommandInv, CommandTypes, LoggerInv
<1>4. CommandsTypeOK /\ LoggerTypeOK /\ StreamTypeOK => HostTypeOK
  BY DEF HostTypeOK
<1> QED
  BY <1>1, <1>2, <1>3, <1>4, HostIsStream, StreamTyped, PTL DEF HostSpec, HostVars
================================================================================
