----------------------------- MODULE LabJackProofs -----------------------------
(***************************************************************************)
(* The LabJack commands, for any calls, any cut of the answers and any     *)
(* number of requests: whose answer a call returns, and which constants it *)
(* converts a reading with.  The LabJack logger, for any cut of its        *)
(* packets: whose samples it prints, and that it prints all of them.       *)
(***************************************************************************)
EXTENDS QuantoLogger, Ue9Commands, WellFoundedInduction, TLAPS

-------------------------------------------------------------------------------

(* What is under way.                                                      *)
Answers ==
  [cmd : Commands, i : Nat, req : Nat, channel : {c.channel : c \in Calls},
   block : 0..LastBlock, err : 0..1]

Accepted == [of : Nat, as : Nat, cut : BOOLEAN]

CommandTypes ==
  /\ CommandsTypeOK
  /\ stream \in Seq(Answers) /\ result \in [ok : BOOLEAN, block : -1..LastBlock]
  /\ accepted \in Seq(Accepted)
  /\ call # NoCall => asked <= MaxRequests + block

(* Answers come in the order of their requests, none is of a request to    *)
(* come, and one that was accepted is not followed by its like.            *)
InOrder ==
  /\ \A j \in DOMAIN stream : stream[j].req <= asked
  /\ \A j, k \in DOMAIN stream :
       j < k => /\ stream[j].req <= stream[k].req
                /\ stream[k].i = 1 => stream[j].req < stream[k].req
NewOnes ==
  accepted # << >> =>
    /\ accepted[Len(accepted)].of <= asked
    /\ \A j \in DOMAIN stream : stream[j].i = 1 => accepted[Len(accepted)].of < stream[j].req

(* As long as no answer was cut, nothing is under way but the answer to    *)
(* the request of the call, or its first parts if the device has closed.   *)
OnlyAnswer ==
  ~cut =>
    /\ stream # << >> => call # NoCall /\ Len(stream) <= Parts[CommandOf(call)]
    /\ \A j \in DOMAIN stream :
         /\ stream[j].cmd = CommandOf(call) /\ stream[j].i = j
         /\ stream[j].req = asked /\ stream[j].block = block

(* The blocks that were read.                                              *)
BlocksRead ==
  /\ call # NoCall /\ call.f = "getCalibrationInfo" =>
       \A b \in 0..LastBlock : b < block => caliInfo[b] # Unread
  /\ isCalibrationInfoValid => \A b \in 0..LastBlock : caliInfo[b] # Unread

CommandInv ==
  CommandTypes /\ InOrder /\ NewOnes /\ OnlyAnswer /\ BlocksRead /\ AnswersMatch /\ CalibrationIsRead

LEMMA CommandKnown ==
  ASSUME NEW c \in Calls
  PROVE  CommandOf(c) \in Commands /\ Parts[CommandOf(c)] \in Nat \ {0} /\ c # NoCall
  BY CommandsAssumption DEF CommandOf, Commands, NoCall

LEMMA AnswerFields ==
  ASSUME NEW s \in Seq(Answers), NEW j \in DOMAIN s
  PROVE  /\ s[j].cmd \in Commands /\ s[j].i \in Nat /\ s[j].req \in Nat /\ s[j].block \in 0..LastBlock
         /\ j \in Nat /\ 1 <= j /\ j <= Len(s)
<1>1. s[j] \in Answers /\ j \in 1..Len(s) /\ Len(s) \in Nat
  OBVIOUS
<1> QED
  BY <1>1 DEF Answers

LEMMA LastOne ==
  ASSUME NEW S, NEW s \in Seq(S), s # << >>
  PROVE  s[Len(s)] \in S /\ Len(s) \in Nat \ {0}
  OBVIOUS

LEMMA MinOfTwo ==
  ASSUME NEW n \in Nat, NEW m \in Nat
  PROVE  Min({n, m}) \in {n, m} /\ Min({n, m}) <= n /\ Min({n, m}) <= m
<1>1. \E x \in {n, m} : \A y \in {n, m} : x <= y
  OBVIOUS
<1> QED
  BY <1>1 DEF Min

(* recv takes some parts from the front.                                   *)
Splits(S, s, k, got, left) ==
  /\ k <= Len(s) /\ got \in Seq(S) /\ left \in Seq(S)
  /\ Len(got) = k /\ \A j \in 1..k : got[j] = s[j]
  /\ Len(left) = Len(s) - k /\ \A j \in 1..(Len(s) - k) : left[j] = s[j + k]

LEMMA Received ==
  ASSUME NEW S, NEW s \in Seq(S), NEW n \in Nat, NEW got, NEW left,
         [got |-> got, left |-> left] \in Recv(s, n)
  PROVE  \E k \in 1..n : Splits(S, s, k, got, left)
<1>1. Len(s) \in Nat
  OBVIOUS
<1>2. PICK k \in 1..Min({n, Len(s)}) :
        [got |-> got, left |-> left] = [got |-> SubSeq(s, 1, k), left |-> SubSeq(s, k + 1, Len(s))]
  BY DEF Recv
<1> DEFINE least == Min({n, Len(s)})
<1>3. k \in Nat /\ 1 <= k /\ k <= n /\ k <= Len(s)
  <2>1. least \in {n, Len(s)} /\ least <= n /\ least <= Len(s)
    BY <1>1, MinOfTwo
  <2>2. k \in 1..least
    BY <1>2
  <2> HIDE DEF least
  <2> QED
    BY <1>1, <2>1, <2>2
<1>4. got = SubSeq(s, 1, k) /\ left = SubSeq(s, k + 1, Len(s))
  BY <1>2
<1>5. /\ SubSeq(s, 1, k) \in Seq(S) /\ Len(SubSeq(s, 1, k)) = k
      /\ \A j \in 1..k : SubSeq(s, 1, k)[j] = s[j]
  BY <1>1, <1>3
<1>6. /\ SubSeq(s, k + 1, Len(s)) \in Seq(S) /\ Len(SubSeq(s, k + 1, Len(s))) = Len(s) - k
      /\ \A j \in 1..(Len(s) - k) : SubSeq(s, k + 1, Len(s))[j] = s[j + k]
  BY <1>1, <1>3
<1>7. Splits(S, s, k, got, left)
  BY <1>3, <1>4, <1>5, <1>6 DEF Splits
<1> QED
  BY <1>3, <1>7

LEMMA CommandsStart == CommandsInit => CommandInv
<1> SUFFICES ASSUME CommandsInit PROVE CommandInv
  OBVIOUS
<1>1. stream = << >> /\ accepted = << >> /\ call = NoCall
  BY DEF CommandsInit
<1>2. CommandTypes
  BY <1>1, CommandsAssumption
     DEF CommandsInit, CommandTypes, CommandsTypeOK, Failed, NoBlock, Unread, LastBlock
<1>3. InOrder /\ NewOnes /\ OnlyAnswer /\ AnswersMatch
  BY <1>1 DEF InOrder, NewOnes, OnlyAnswer, AnswersMatch
<1>4. BlocksRead /\ CalibrationIsRead
  BY <1>1 DEF CommandsInit, BlocksRead, CalibrationIsRead, isCalibrationInfoValid, Failed, NoBlock
<1> QED
  BY <1>2, <1>3, <1>4 DEF CommandInv

(* The answer to a request joins what is under way.                        *)
LEMMA RequestJoins ==
  ASSUME NEW c \in Calls, NEW b \in 0..LastBlock, asked \in Nat,
         NEW before \in Seq(Answers), RequestAfter(before, c, b)
  PROVE  LET n == Parts[CommandOf(c)]
         IN  /\ asked' = asked + 1 /\ stream' \in Seq(Answers) /\ Len(stream') = Len(before) + n
             /\ \A j \in 1..Len(before) : stream'[j] = before[j]
             /\ \A j \in 1..n :
                  LET part == stream'[Len(before) + j]
                  IN  /\ part.cmd = CommandOf(c) /\ part.i = j /\ part.req = asked'
                      /\ part.block = b
<1> DEFINE n == Parts[CommandOf(c)]
           part(j, e) == [cmd |-> CommandOf(c), i |-> j, req |-> asked', channel |-> c.channel,
                          block |-> b, err |-> e]
<1>1. asked' = asked + 1 /\ n \in Nat
  BY CommandKnown DEF RequestAfter
<1>2. PICK e \in 0..1 : stream' = before \o [j \in 1..n |-> part(j, e)]
  BY DEF RequestAfter
<1>3. \A j \in 1..n : part(j, e) \in Answers
  BY <1>1, CommandKnown DEF Answers
<1>4. \A j \in 1..n : part(j, e).cmd = CommandOf(c) /\ part(j, e).i = j /\ part(j, e).req = asked'
                      /\ part(j, e).block = b
  OBVIOUS
<1> DEFINE news == [j \in 1..n |-> part(j, e)]
<1>5. news \in Seq(Answers) /\ Len(news) = n /\ \A j \in 1..n : news[j] = part(j, e)
  <2> HIDE DEF part
  <2>1. news \in [1..n -> Answers]
    BY <1>3
  <2> QED
    BY <1>1, <2>1
<1> HIDE DEF news, part
<1>6. stream' = before \o news
  BY <1>2 DEF news
<1>7. /\ stream' \in Seq(Answers) /\ Len(stream') = Len(before) + n
      /\ \A j \in 1..Len(before) : stream'[j] = before[j]
      /\ \A j \in 1..n : stream'[Len(before) + j] = news[j]
  <2> HIDE DEF n
  <2> QED
    BY <1>1, <1>5, <1>6
<1>8. \A j \in 1..n :
        LET q == stream'[Len(before) + j]
        IN  q.cmd = CommandOf(c) /\ q.i = j /\ q.req = asked' /\ q.block = b
  <2> SUFFICES ASSUME NEW j \in 1..n
               PROVE  LET q == stream'[Len(before) + j]
                      IN  q.cmd = CommandOf(c) /\ q.i = j /\ q.req = asked' /\ q.block = b
    OBVIOUS
  <2>1. stream'[Len(before) + j] = part(j, e)
    BY <1>5, <1>7
  <2> QED
    BY <1>4, <2>1
<1> QED
  BY <1>1, <1>7, <1>8

LEMMA CallKeeps ==
  ASSUME CommandInv, NEW c \in Calls, Call(c)
  PROVE  CommandInv'
<1> DEFINE n == Parts[CommandOf(c)]
<1>1. /\ call = NoCall /\ asked < MaxRequests /\ RequestAfter(stream, c, 0)
      /\ call' = c /\ block' = 0
      /\ UNCHANGED <<up, caliInfo, prodID, ljtdacID, result, accepted, cut>>
  BY DEF Call
<1>2. /\ CommandTypes /\ InOrder /\ NewOnes /\ OnlyAnswer /\ BlocksRead /\ AnswersMatch
      /\ CalibrationIsRead /\ asked \in Nat /\ stream \in Seq(Answers) /\ MaxRequests \in Nat
  BY CommandsAssumption DEF CommandInv, CommandTypes, CommandsTypeOK
<1>3. /\ asked' = asked + 1 /\ stream' \in Seq(Answers) /\ Len(stream') = Len(stream) + n
      /\ \A j \in 1..Len(stream) : stream'[j] = stream[j]
      /\ \A j \in 1..n :
           LET part == stream'[Len(stream) + j]
           IN  part.cmd = CommandOf(c) /\ part.i = j /\ part.req = asked' /\ part.block = 0
  BY <1>1, <1>2, RequestJoins DEF LastBlock
<1>4. n \in Nat /\ c # NoCall /\ Len(stream) \in Nat
  BY <1>2, CommandKnown
<1> HIDE DEF n
<1>5. \A k \in DOMAIN stream' :
        \/ k \in DOMAIN stream /\ stream'[k] = stream[k]
        \/ /\ k - Len(stream) \in 1..n /\ k > Len(stream) /\ stream'[k].i = k - Len(stream)
           /\ stream'[k].cmd = CommandOf(c) /\ stream'[k].req = asked' /\ stream'[k].block = 0
  BY <1>3, <1>4
<1>6. CommandTypes'
  BY <1>1, <1>2, <1>3 DEF CommandTypes, CommandsTypeOK, LastBlock
<1>7. InOrder'
  <2>1. \A j \in DOMAIN stream : stream[j].req \in Nat /\ stream[j].req <= asked /\ j \in Nat /\ j <= Len(stream)
    BY <1>2, AnswerFields DEF InOrder
  <2>2. \A j \in DOMAIN stream' : stream'[j].req \in Nat /\ stream'[j].req <= asked' /\ j \in Nat
    BY <1>2, <1>3, <1>5, <2>1
  <2>3. ASSUME NEW j \in DOMAIN stream', NEW k \in DOMAIN stream', j < k
        PROVE  /\ stream'[j].req <= stream'[k].req
               /\ stream'[k].i = 1 => stream'[j].req < stream'[k].req
    <3>1. CASE k \in DOMAIN stream /\ stream'[k] = stream[k]
      <4>1. j \in DOMAIN stream /\ stream'[j] = stream[j]
        BY <1>5, <2>1, <2>2, <2>3, <3>1
      <4> QED
        BY <1>2, <2>3, <3>1, <4>1 DEF InOrder
    <3>2. CASE k \notin DOMAIN stream
      <4>1. stream'[k].req = asked' /\ stream'[k].i = k - Len(stream) /\ k > Len(stream)
        BY <1>5, <3>2
      <4>2. CASE j \in DOMAIN stream /\ stream'[j] = stream[j]
        BY <1>2, <1>3, <2>1, <4>1, <4>2
      <4>3. CASE j \notin DOMAIN stream
        BY <1>2, <1>3, <1>4, <1>5, <2>2, <2>3, <4>1, <4>3
      <4> QED
        BY <1>5, <4>2, <4>3
    <3> QED
      BY <1>5, <3>1, <3>2
  <2> QED
    BY <2>2, <2>3 DEF InOrder
<1>8. OnlyAnswer'
  <2> SUFFICES ASSUME ~cut PROVE OnlyAnswer'
    BY <1>1 DEF OnlyAnswer
  <2>1. stream = << >> /\ Len(stream) = 0 /\ DOMAIN stream = {}
    BY <1>1, <1>2 DEF OnlyAnswer
  <2> QED
    BY <1>1, <1>3, <1>4, <1>5, <2>1 DEF OnlyAnswer, n
<1>10. NewOnes'
  <2>1. ASSUME accepted # << >>
        PROVE  /\ accepted[Len(accepted)].of \in Nat /\ accepted[Len(accepted)].of <= asked
               /\ \A j \in DOMAIN stream : stream[j].i = 1 => accepted[Len(accepted)].of < stream[j].req
    <3>1. accepted[Len(accepted)] \in Accepted
      BY <1>2, <2>1, LastOne DEF CommandTypes
    <3> QED
      BY <1>2, <2>1, <3>1 DEF NewOnes, Accepted
  <2> DEFINE last == accepted[Len(accepted)].of
  <2>2. ASSUME accepted # << >>, NEW j \in DOMAIN stream', stream'[j].i = 1
        PROVE  last < stream'[j].req
    <3>1. last \in Nat /\ last < asked'
      BY <1>2, <1>3, <2>1, <2>2
    <3>2. CASE j \in DOMAIN stream /\ stream'[j] = stream[j]
      BY <2>1, <2>2, <3>2
    <3>3. CASE stream'[j].req = asked'
      BY <3>1, <3>3
    <3> QED
      BY <1>5, <3>2, <3>3
  <2> QED
    BY <1>1, <1>2, <1>3, <2>1, <2>2 DEF NewOnes
<1>9. BlocksRead' /\ AnswersMatch' /\ CalibrationIsRead'
  BY <1>1, <1>2, LastBlock \in Nat
     DEF BlocksRead, AnswersMatch, CalibrationIsRead, isCalibrationInfoValid, LastBlock
<1> QED
  BY <1>6, <1>7, <1>8, <1>9, <1>10 DEF CommandInv

LEMMA FailKeeps ==
  ASSUME CommandInv, NEW c \in Calls, CallFails(c)
  PROVE  CommandInv'
<1>1. /\ result' = Failed
      /\ UNCHANGED <<call, block, asked, stream, up, caliInfo, prodID, ljtdacID, accepted, cut>>
  BY DEF CallFails
<1>2. Failed \in [ok : BOOLEAN, block : -1..LastBlock] /\ Failed.block = NoBlock
  BY DEF Failed, NoBlock, LastBlock
<1>3. CommandTypes'
  BY <1>1, <1>2 DEF CommandInv, CommandTypes, CommandsTypeOK
<1>4. InOrder' /\ NewOnes' /\ OnlyAnswer' /\ BlocksRead' /\ AnswersMatch'
  BY <1>1 DEF CommandInv, InOrder, NewOnes, OnlyAnswer, BlocksRead, AnswersMatch,
              isCalibrationInfoValid
<1>5. CalibrationIsRead'
  BY <1>1, <1>2 DEF CommandInv, CalibrationIsRead
<1> QED
  BY <1>3, <1>4, <1>5 DEF CommandInv

LEMMA LostKeeps == ASSUME CommandInv, AnswerLost PROVE CommandInv'
<1>1. /\ stream = << >> /\ result' = Failed /\ call' = NoCall
      /\ UNCHANGED <<block, asked, stream, up, caliInfo, prodID, ljtdacID, accepted, cut>>
  BY DEF AnswerLost
<1>2. Failed \in [ok : BOOLEAN, block : -1..LastBlock] /\ Failed.block = NoBlock
  BY DEF Failed, NoBlock, LastBlock
<1>3. CommandTypes'
  BY <1>1, <1>2 DEF CommandInv, CommandTypes, CommandsTypeOK
<1>4. InOrder' /\ NewOnes' /\ OnlyAnswer' /\ BlocksRead' /\ AnswersMatch'
  BY <1>1 DEF CommandInv, InOrder, NewOnes, OnlyAnswer, BlocksRead, AnswersMatch,
              isCalibrationInfoValid
<1>5. CalibrationIsRead'
  BY <1>1, <1>2 DEF CommandInv, CalibrationIsRead
<1> QED
  BY <1>3, <1>4, <1>5 DEF CommandInv

(* The parts that are lost are the last ones.                              *)
LEMMA ClosesKeeps == ASSUME CommandInv, DeviceCloses PROVE CommandInv'
<1>1. PICK n \in 0..Len(stream) : stream' = SubSeq(stream, 1, n)
  BY DEF DeviceCloses
<1>2. /\ up' = FALSE
      /\ UNCHANGED <<call, block, asked, caliInfo, prodID, ljtdacID, result, accepted, cut>>
  BY DEF DeviceCloses
<1>3. stream \in Seq(Answers) /\ Len(stream) \in Nat
  BY DEF CommandInv, CommandTypes
<1>4. /\ stream' \in Seq(Answers) /\ Len(stream') = n /\ n <= Len(stream) /\ n \in Nat
      /\ \A j \in DOMAIN stream' : j \in DOMAIN stream /\ stream'[j] = stream[j]
  BY <1>1, <1>3
<1>5. stream' # << >> => stream # << >>
  BY <1>4
<1>6. CommandTypes'
  BY <1>2, <1>4 DEF CommandInv, CommandTypes, CommandsTypeOK
<1>7. InOrder' /\ NewOnes'
  BY <1>2, <1>4 DEF CommandInv, InOrder, NewOnes
<1>8. OnlyAnswer'
  <2> SUFFICES ASSUME ~cut PROVE OnlyAnswer'
    BY <1>2 DEF OnlyAnswer
  <2>1. stream' # << >> => call # NoCall /\ Len(stream) <= Parts[CommandOf(call)]
    BY <1>5 DEF CommandInv, OnlyAnswer
  <2>2. call # NoCall => Parts[CommandOf(call)] \in Nat
    BY CommandKnown DEF CommandInv, CommandTypes, CommandsTypeOK
  <2>3. stream' # << >> => call # NoCall /\ Len(stream') <= Parts[CommandOf(call)]
    BY <1>3, <1>4, <2>1, <2>2
  <2> QED
    BY <1>2, <1>4, <2>3 DEF CommandInv, OnlyAnswer
<1>9. BlocksRead' /\ AnswersMatch' /\ CalibrationIsRead'
  BY <1>2 DEF CommandInv, BlocksRead, AnswersMatch, CalibrationIsRead, isCalibrationInfoValid
<1> QED
  BY <1>6, <1>7, <1>8, <1>9 DEF CommandInv

(* What a recv leaves: the parts of later requests, and none if what it    *)
(* took was whole.                                                         *)
IsCut(got) == Last(got).i < Parts[Last(got).cmd]

LEMMA LeftBehind ==
  ASSUME CommandInv, call # NoCall, NEW got, NEW left,
         [got |-> got, left |-> left] \in Recv(stream, Parts[CommandOf(call)])
  PROVE  /\ left \in Seq(Answers) /\ got[1] \in Answers /\ got[1].req <= asked
         /\ \A j \in DOMAIN left :
              /\ left[j].req <= asked
              /\ left[j].i = 1 => got[1].req < left[j].req
              /\ accepted # << >> /\ left[j].i = 1 => accepted[Len(accepted)].of < left[j].req
         /\ \A j, k \in DOMAIN left :
              j < k => /\ left[j].req <= left[k].req
                       /\ left[k].i = 1 => left[j].req < left[k].req
         /\ accepted # << >> /\ got[1].i = 1 => accepted[Len(accepted)].of < got[1].req
         /\ ~cut => got[1].req = asked /\ got[1].block = block
         /\ ~cut /\ ~IsCut(got) => left = << >>
<1> DEFINE n == Parts[CommandOf(call)]
<1>1. call \in Calls /\ stream \in Seq(Answers) /\ asked \in Nat
  BY DEF CommandInv, CommandTypes, CommandsTypeOK
<1>2. n \in Nat \ {0}
  BY <1>1, CommandKnown
<1>3. PICK k \in 1..n : Splits(Answers, stream, k, got, left)
  <2>1. [got |-> got, left |-> left] \in Recv(stream, n)
    OBVIOUS
  <2>2. n \in Nat
    BY <1>2
  <2> HIDE DEF n
  <2> QED
    BY <1>1, <2>1, <2>2, Received
<1> HIDE DEF n
<1>15. /\ k <= Len(stream) /\ got \in Seq(Answers) /\ left \in Seq(Answers)
       /\ Len(got) = k /\ \A j \in 1..k : got[j] = stream[j]
       /\ Len(left) = Len(stream) - k /\ \A j \in 1..(Len(stream) - k) : left[j] = stream[j + k]
  BY <1>3 DEF Splits
<1>4. /\ k \in Nat /\ 1 <= k /\ k <= n /\ Len(stream) \in Nat
      /\ DOMAIN left = 1..(Len(stream) - k) /\ DOMAIN stream = 1..Len(stream)
  BY <1>1, <1>2, <1>15
<1>5. got[1] = stream[1] /\ 1 \in DOMAIN stream /\ stream # << >>
  BY <1>1, <1>2, <1>15, <1>4
<1>6. got[1] \in Answers
  BY <1>1, <1>5
<1>7. \A j \in DOMAIN left : left[j] = stream[j + k] /\ j + k \in DOMAIN stream /\ 1 < j + k
  BY <1>1, <1>15, <1>4
<1>8. \A j, l \in DOMAIN left : j < l => j + k < l + k
  BY <1>1, <1>15, <1>4
<1>9. InOrder /\ NewOnes /\ OnlyAnswer
  BY DEF CommandInv
<1>10. /\ got[1].req <= asked
       /\ \A j \in DOMAIN left : /\ left[j].req <= asked
                                 /\ left[j].i = 1 => got[1].req < left[j].req
       /\ \A j, l \in DOMAIN left :
            j < l => /\ left[j].req <= left[l].req
                     /\ left[l].i = 1 => left[j].req < left[l].req
  BY <1>5, <1>7, <1>8, <1>9 DEF InOrder
<1>11. ASSUME accepted # << >>
       PROVE  /\ \A j \in DOMAIN left : left[j].i = 1 => accepted[Len(accepted)].of < left[j].req
              /\ got[1].i = 1 => accepted[Len(accepted)].of < got[1].req
  BY <1>5, <1>7, <1>9, <1>11 DEF NewOnes
<1>12. ~cut => got[1].req = asked /\ got[1].block = block
  BY <1>5, <1>9 DEF OnlyAnswer
<1>13. ASSUME ~cut, ~IsCut(got) PROVE left = << >>
  <2>1. Last(got) = stream[k] /\ k \in DOMAIN stream
    BY <1>1, <1>15, <1>4 DEF Last
  <2>2. stream[k].i = k /\ stream[k].cmd = CommandOf(call) /\ Len(stream) <= n
    BY <1>5, <1>9, <1>13, <2>1 DEF OnlyAnswer, n
  <2>3. ~(k < n)
    BY <1>13, <2>1, <2>2 DEF IsCut, n
  <2>4. Len(left) = 0
    BY <1>1, <1>2, <1>15, <1>4, <2>2, <2>3
  <2> QED
    BY <1>15, <2>4
<1>14. \A j \in DOMAIN left :
         /\ left[j].req <= asked
         /\ left[j].i = 1 => got[1].req < left[j].req
         /\ accepted # << >> /\ left[j].i = 1 => accepted[Len(accepted)].of < left[j].req
  <2> SUFFICES ASSUME NEW j \in DOMAIN left
               PROVE  /\ left[j].req <= asked
                      /\ left[j].i = 1 => got[1].req < left[j].req
                      /\ accepted # << >> /\ left[j].i = 1 => accepted[Len(accepted)].of < left[j].req
    BY Zenon
  <2>1. left[j].req <= asked /\ (left[j].i = 1 => got[1].req < left[j].req)
    BY <1>10
  <2>2. accepted # << >> => (left[j].i = 1 => accepted[Len(accepted)].of < left[j].req)
    BY <1>11
  <2> QED
    BY <2>1, <2>2
<1> QED
  BY <1>15, <1>6, <1>10, <1>11, <1>12, <1>13, <1>14, Zenon

LEMMA AcceptedNext ==
  ASSUME CommandInv, NEW ans \in Answers, ans.req <= asked, ~cut => ans.req = asked,
         accepted # << >> => accepted[Len(accepted)].of < ans.req,
         accepted' = Append(accepted, [of |-> ans.req, as |-> asked, cut |-> cut])
  PROVE  /\ accepted' \in Seq(Accepted) /\ AnswersMatch'
         /\ accepted' # << >> /\ accepted'[Len(accepted')].of = ans.req
<1> DEFINE new == [of |-> ans.req, as |-> asked, cut |-> cut]
<1>1. accepted \in Seq(Accepted) /\ asked \in Nat /\ cut \in BOOLEAN /\ ans.req \in Nat
  BY DEF CommandInv, CommandTypes, CommandsTypeOK, Answers
<1>2. new \in Accepted /\ new.of = ans.req /\ new.as = asked /\ new.cut = cut
  BY <1>1 DEF Accepted
<1> HIDE DEF new
<1>3. accepted' = Append(accepted, new)
  BY DEF new
<1>4. /\ accepted' \in Seq(Accepted) /\ Len(accepted') = Len(accepted) + 1 /\ Len(accepted) \in Nat
      /\ accepted'[Len(accepted) + 1] = new
      /\ DOMAIN accepted' = 1..(Len(accepted) + 1) /\ DOMAIN accepted = 1..Len(accepted)
      /\ \A j \in 1..Len(accepted) : accepted'[j] = accepted[j]
  BY <1>1, <1>2, <1>3
<1>5. AnswersMatch'
  <2> SUFFICES ASSUME NEW i \in DOMAIN accepted'
               PROVE  /\ ~accepted'[i].cut => accepted'[i].of = accepted'[i].as
                      /\ accepted'[i].of <= accepted'[i].as
                      /\ i > 1 => accepted'[i - 1].of < accepted'[i].of
    BY DEF AnswersMatch
  <2>1. CASE i \in DOMAIN accepted
    <3>1. accepted'[i] = accepted[i] /\ (i > 1 => accepted'[i - 1] = accepted[i - 1])
      BY <1>4, <2>1
    <3> QED
      BY <2>1, <3>1 DEF CommandInv, AnswersMatch
  <2>2. CASE i = Len(accepted) + 1
    <3>1. accepted'[i] = new
      BY <1>4, <2>2
    <3>2. i > 1 => accepted'[i - 1] = accepted[Len(accepted)] /\ accepted # << >>
      <4> SUFFICES ASSUME i > 1 PROVE accepted'[i - 1] = accepted[Len(accepted)] /\ accepted # << >>
        OBVIOUS
      <4>1. i - 1 = Len(accepted) /\ i - 1 \in 1..Len(accepted)
        BY <1>4, <2>2
      <4> QED
        BY <1>4, <4>1
    <3> QED
      BY <1>1, <1>2, <3>1, <3>2
  <2> QED
    BY <1>4, <2>1, <2>2
<1> QED
  BY <1>2, <1>4, <1>5

(* What is left behind an accepted answer or one that was not accepted.    *)
LEMMA OrderOfLeft ==
  ASSUME CommandInv, call # NoCall, NEW got, NEW left,
         [got |-> got, left |-> left] \in Recv(stream, Parts[CommandOf(call)]),
         stream' = left, asked' = asked, cut' = (cut \/ IsCut(got))
  PROVE  /\ stream' \in Seq(Answers) /\ InOrder' /\ OnlyAnswer'
         /\ accepted' = accepted => NewOnes'
<1>1. /\ left \in Seq(Answers)
      /\ \A j \in DOMAIN left : 
           /\ left[j].req <= asked
           /\ accepted # << >> /\ left[j].i = 1 => accepted[Len(accepted)].of < left[j].req
      /\ \A j, k \in DOMAIN left :
           j < k => /\ left[j].req <= left[k].req
                    /\ left[k].i = 1 => left[j].req < left[k].req
      /\ ~cut /\ ~IsCut(got) => left = << >>
  BY LeftBehind
<1>2. InOrder'
  BY <1>1 DEF InOrder
<1>3. OnlyAnswer'
  <2> SUFFICES ASSUME ~cut' PROVE OnlyAnswer'
    BY DEF OnlyAnswer
  <2>1. stream' = << >>
    BY <1>1
  <2> QED
    BY <2>1 DEF OnlyAnswer
<1>4. accepted' = accepted => NewOnes'
  BY <1>1 DEF NewOnes, CommandInv
<1> QED
  BY <1>1, <1>2, <1>3, <1>4

(* recv returns nothing that the call takes for its answer.                *)
LEMMA RejectKeeps ==
  ASSUME CommandInv, call # NoCall, NEW got, NEW left,
         [got |-> got, left |-> left] \in Recv(stream, Parts[CommandOf(call)]),
         cut' = (cut \/ IsCut(got)), result' = Failed, call' = NoCall, stream' = left,
         UNCHANGED <<block, asked, caliInfo, prodID, ljtdacID, accepted, up>>
  PROVE  CommandInv'
<1>1. stream' \in Seq(Answers) /\ InOrder' /\ OnlyAnswer' /\ NewOnes'
  BY OrderOfLeft
<1>2. Failed \in [ok : BOOLEAN, block : -1..LastBlock] /\ Failed.block = NoBlock
  BY DEF Failed, NoBlock, LastBlock
<1>3. cut' \in BOOLEAN
  BY DEF IsCut
<1>4. CommandTypes'
  BY <1>1, <1>2, <1>3 DEF CommandInv, CommandTypes, CommandsTypeOK
<1>5. BlocksRead' /\ AnswersMatch' /\ CalibrationIsRead'
  BY <1>2, <1>3 DEF CommandInv, BlocksRead, AnswersMatch, CalibrationIsRead, isCalibrationInfoValid
<1> QED
  BY <1>1, <1>4, <1>5 DEF CommandInv

(* The constants that a reading is converted with are there if they are    *)
(* said to be valid.                                                       *)
LEMMA OutcomeIsRead ==
  ASSUME CommandInv, NEW c, NEW ans
  PROVE  /\ Outcome(c, ans) \in [ok : BOOLEAN, block : -1..LastBlock]
         /\ Outcome(c, ans).block # NoBlock => caliInfo[Outcome(c, ans).block] # Unread
<1> DEFINE Good(r) == /\ r \in [ok : BOOLEAN, block : -1..LastBlock]
                      /\ r.block # NoBlock => isCalibrationInfoValid
<1>1. Good(Failed) /\ Good(Done(NoBlock))
  BY DEF Failed, Done, NoBlock, LastBlock
<1>2. ASSUME NEW b \in 0..LastBlock, isCalibrationInfoValid PROVE Good(Done(b))
  BY <1>2 DEF Done, LastBlock
<1>3. \A g, h : VoltageBlock(g, h) \in 0..LastBlock
  BY DEF VoltageBlock, LastBlock
<1>4. TemperatureBlock \in 0..LastBlock /\ DACBlock \in 0..LastBlock
  BY DEF TemperatureBlock, DACBlock, LastBlock
<1> HIDE DEF Good
<1>5. \A ch : Good(Convert(c, ch))
  BY <1>1, <1>2, <1>3, <1>4 DEF Convert
<1>6. Good(Outcome(c, ans))
  BY <1>1, <1>2, <1>4, <1>5 DEF Outcome
<1>7. isCalibrationInfoValid => \A b \in 0..LastBlock : caliInfo[b] # Unread
  BY DEF CommandInv, BlocksRead
<1> DEFINE r == Outcome(c, ans)
<1>8. Good(r)
  BY <1>6
<1> HIDE DEF r
<1>9. r \in [ok : BOOLEAN, block : -1..LastBlock] /\ (r.block # NoBlock => isCalibrationInfoValid)
  BY <1>8 DEF Good
<1>10. r.block # NoBlock => r.block \in 0..LastBlock
  BY <1>9 DEF NoBlock, LastBlock
<1> QED
  BY <1>7, <1>9, <1>10 DEF r

(* recv returns an answer to a command.                                    *)
LEMMA AcceptKeeps ==
  ASSUME CommandInv, call # NoCall, NEW got, NEW left,
         [got |-> got, left |-> left] \in Recv(stream, Parts[CommandOf(call)]),
         got[1].i = 1, cut' = (cut \/ IsCut(got)),
         result' = Outcome(call, got[1]), call' = NoCall, stream' = left,
         accepted' = Append(accepted, [of |-> got[1].req, as |-> asked, cut |-> cut]),
         ljtdacID' \in {ljtdacID, 9}, UNCHANGED <<block, asked, caliInfo, prodID, up>>
  PROVE  CommandInv'
<1>1. /\ got[1] \in Answers /\ got[1].req <= asked
      /\ accepted # << >> => accepted[Len(accepted)].of < got[1].req
      /\ ~cut => got[1].req = asked
      /\ \A j \in DOMAIN left : left[j].i = 1 => got[1].req < left[j].req
  BY LeftBehind
<1>2. stream' \in Seq(Answers) /\ InOrder' /\ OnlyAnswer'
  BY OrderOfLeft
<1>3. /\ accepted' \in Seq(Accepted) /\ AnswersMatch'
      /\ accepted' # << >> /\ accepted'[Len(accepted')].of = got[1].req
  BY <1>1, AcceptedNext
<1>4. NewOnes'
  BY <1>1, <1>3 DEF NewOnes
<1>5. /\ result' \in [ok : BOOLEAN, block : -1..LastBlock]
      /\ result'.block # NoBlock => caliInfo[result'.block] # Unread
  BY OutcomeIsRead
<1>6. cut' \in BOOLEAN
  BY DEF IsCut
<1>7. CommandTypes'
  BY <1>2, <1>3, <1>5, <1>6 DEF CommandInv, CommandTypes, CommandsTypeOK
<1>8. BlocksRead' /\ CalibrationIsRead'
  BY <1>5, <1>6 DEF CommandInv, BlocksRead, CalibrationIsRead, isCalibrationInfoValid
<1> QED
  BY <1>2, <1>3, <1>4, <1>7, <1>8 DEF CommandInv

(* recv returns a block of the calibration, and the next one is asked for  *)
(* or the call ends.                                                       *)
LEMMA BlockKeeps ==
  ASSUME CommandInv, call # NoCall, NEW got, NEW left,
         [got |-> got, left |-> left] \in Recv(stream, Parts[CommandOf(call)]),
         call.f = "getCalibrationInfo", got[1].i = 1, cut' = (cut \/ IsCut(got)),
         StoreBlock(got[1]),
         accepted' = Append(accepted, [of |-> got[1].req, as |-> asked, cut |-> cut]),
         \/ /\ block < LastBlock /\ RequestAfter(left, call, block + 1) /\ block' = block + 1
            /\ UNCHANGED <<call, result>>
         \/ /\ call' = NoCall /\ block' = 0 /\ stream' = left /\ UNCHANGED asked
            /\ result' \in {Done(NoBlock), Failed},
         up' = up
  PROVE  CommandInv'
<1> DEFINE ans == got[1]
           n == Parts[CommandOf(call)]
<1>1. /\ left \in Seq(Answers) /\ ans \in Answers /\ ans.req <= asked
      /\ accepted # << >> => accepted[Len(accepted)].of < ans.req
      /\ ~cut => ans.req = asked /\ ans.block = block
      /\ ~cut /\ ~IsCut(got) => left = << >>
      /\ \A j \in DOMAIN left : /\ left[j].req <= asked
                                /\ left[j].i = 1 => ans.req < left[j].req
      /\ \A j, k \in DOMAIN left :
           j < k => /\ left[j].req <= left[k].req
                    /\ left[k].i = 1 => left[j].req < left[k].req
  BY LeftBehind
<1>2. /\ accepted' \in Seq(Accepted) /\ AnswersMatch'
      /\ accepted' # << >> /\ accepted'[Len(accepted')].of = ans.req
  BY <1>1, AcceptedNext
<1>3. /\ caliInfo' = [caliInfo EXCEPT ![block] = ans.block] /\ ljtdacID' = ljtdacID
      /\ prodID' = IF block = LastBlock THEN 9 ELSE prodID
  BY DEF StoreBlock
<1>4. /\ asked \in Nat /\ block \in 0..LastBlock /\ call \in Calls /\ MaxRequests \in Nat
      /\ caliInfo \in [0..LastBlock -> {Unread} \cup 0..LastBlock]
      /\ asked <= MaxRequests + block /\ CommandTypes
  BY CommandsAssumption DEF CommandInv, CommandTypes, CommandsTypeOK
<1>5. ans.block \in 0..LastBlock /\ ans.req \in Nat /\ ans.block # Unread
  BY <1>1 DEF Answers, LastBlock, Unread
<1>6. cut' \in BOOLEAN /\ n \in Nat \ {0}
  BY <1>4, CommandKnown DEF IsCut
<1> HIDE DEF ans, n
<1>7. /\ caliInfo' \in [0..LastBlock -> {Unread} \cup 0..LastBlock] /\ caliInfo'[block] = ans.block
      /\ \A b \in 0..LastBlock : b # block => caliInfo'[b] = caliInfo[b]
  BY <1>3, <1>4, <1>5
<1>8. \A b \in 0..LastBlock : b <= block => caliInfo'[b] # Unread
  BY <1>4, <1>5, <1>7 DEF CommandInv, BlocksRead, LastBlock
<1>9. prodID' = 9 => \A b \in 0..LastBlock : caliInfo'[b] # Unread
  BY <1>3, <1>4, <1>5, <1>7, <1>8 DEF CommandInv, BlocksRead, isCalibrationInfoValid, LastBlock
<1>10. \A b \in 0..LastBlock : ~cut' /\ caliInfo'[b] # Unread => caliInfo'[b] = b
  BY <1>1, <1>7 DEF CommandInv, CalibrationIsRead
<1>11. \A b \in 0..LastBlock : caliInfo[b] # Unread => caliInfo'[b] # Unread
  BY <1>5, <1>7
<1>12. {prodID', ljtdacID'} \subseteq {0, 9}
  BY <1>3, <1>4 DEF CommandTypes, CommandsTypeOK
<1>13. CASE /\ call' = NoCall /\ block' = 0 /\ stream' = left /\ asked' = asked
            /\ result' \in {Done(NoBlock), Failed}
  <2>1. stream' \in Seq(Answers) /\ InOrder' /\ OnlyAnswer'
    BY <1>13, OrderOfLeft
  <2>2. NewOnes'
    BY <1>1, <1>2, <1>13 DEF NewOnes
  <2>3. result' \in [ok : BOOLEAN, block : -1..LastBlock] /\ result'.block = NoBlock
    <3>1. /\ Failed \in [ok : BOOLEAN, block : -1..LastBlock] /\ Failed.block = NoBlock
          /\ Done(NoBlock) \in [ok : BOOLEAN, block : -1..LastBlock] /\ Done(NoBlock).block = NoBlock
      BY DEF Done, Failed, NoBlock, LastBlock
    <3> QED
      BY <1>13, <3>1
  <2>4. CommandTypes'
    BY <1>2, <1>4, <1>6, <1>7, <1>12, <1>13, <2>1, <2>3 DEF CommandTypes, CommandsTypeOK, LastBlock
  <2>5. BlocksRead' /\ CalibrationIsRead'
    BY <1>9, <1>10, <1>13, <2>3 DEF BlocksRead, CalibrationIsRead, isCalibrationInfoValid
  <2> QED
    BY <1>2, <2>1, <2>2, <2>4, <2>5 DEF CommandInv
<1>14. CASE /\ block < LastBlock /\ RequestAfter(left, call, block + 1) /\ block' = block + 1
            /\ UNCHANGED <<call, result>>
  <2>1. block + 1 \in 0..LastBlock
    BY <1>4, <1>14 DEF LastBlock
  <2>2. /\ asked' = asked + 1 /\ stream' \in Seq(Answers) /\ Len(stream') = Len(left) + n
        /\ \A j \in 1..Len(left) : stream'[j] = left[j]
        /\ \A j \in 1..n :
             LET part == stream'[Len(left) + j]
             IN  part.cmd = CommandOf(call) /\ part.i = j /\ part.req = asked' /\ part.block = block + 1
    BY <1>1, <1>4, <1>14, <2>1, RequestJoins DEF n
  <2>3. left \in Seq(Answers) /\ Len(left) \in Nat /\ n \in Nat /\ block' = block + 1
    BY <1>1, <1>6, <1>14
  <2>4. \A k \in DOMAIN stream' :
          \/ k \in DOMAIN left /\ stream'[k] = left[k]
          \/ /\ k - Len(left) \in 1..n /\ k > Len(left) /\ stream'[k].i = k - Len(left)
             /\ stream'[k].cmd = CommandOf(call) /\ stream'[k].req = asked' /\ stream'[k].block = block'
    <3> SUFFICES ASSUME NEW k \in DOMAIN stream'
                 PROVE  \/ k \in DOMAIN left /\ stream'[k] = left[k]
                        \/ /\ k - Len(left) \in 1..n /\ k > Len(left) /\ stream'[k].i = k - Len(left)
                           /\ stream'[k].cmd = CommandOf(call) /\ stream'[k].req = asked'
                           /\ stream'[k].block = block'
      OBVIOUS
    <3>1. k \in 1..(Len(left) + n) /\ DOMAIN left = 1..Len(left)
      BY <2>2, <2>3
    <3>2. CASE k <= Len(left)
      BY <2>2, <2>3, <3>1, <3>2
    <3>3. CASE k > Len(left)
      <4>1. k - Len(left) \in 1..n /\ Len(left) + (k - Len(left)) = k
        BY <2>3, <3>1, <3>3
      <4> QED
        BY <2>2, <2>3, <3>3, <4>1
    <3> QED
      BY <2>3, <3>1, <3>2, <3>3
  <2>5. CommandTypes'
    BY <1>2, <1>4, <1>6, <1>7, <1>12, <1>14, <2>1, <2>2 DEF CommandTypes, CommandsTypeOK, LastBlock
  <2>6. InOrder'
    <3>1. \A j \in DOMAIN left : left[j].req \in Nat /\ j \in Nat /\ j <= Len(left)
      BY <1>1, AnswerFields
    <3>2. \A j \in DOMAIN stream' : stream'[j].req \in Nat /\ stream'[j].req <= asked' /\ j \in Nat
      BY <1>1, <1>4, <2>2, <2>4, <3>1
    <3>3. ASSUME NEW j \in DOMAIN stream', NEW k \in DOMAIN stream', j < k
          PROVE  /\ stream'[j].req <= stream'[k].req
                 /\ stream'[k].i = 1 => stream'[j].req < stream'[k].req
      <4>1. CASE k \in DOMAIN left /\ stream'[k] = left[k]
        <5>1. j \in DOMAIN left /\ stream'[j] = left[j]
          BY <2>4, <3>1, <3>2, <3>3, <4>1
        <5> QED
          BY <1>1, <3>3, <4>1, <5>1
      <4>2. CASE k \notin DOMAIN left
        <5>1. stream'[k].req = asked' /\ stream'[k].i = k - Len(left) /\ k > Len(left)
          BY <2>4, <4>2
        <5>2. CASE j \in DOMAIN left /\ stream'[j] = left[j]
          BY <1>1, <1>4, <2>2, <3>1, <5>1, <5>2
        <5>3. CASE j \notin DOMAIN left
          BY <1>4, <2>2, <2>3, <2>4, <3>2, <3>3, <5>1, <5>3
        <5> QED
          BY <2>4, <5>2, <5>3
      <4> QED
        BY <2>4, <4>1, <4>2
    <3> QED
      BY <3>2, <3>3 DEF InOrder
  <2>7. OnlyAnswer'
    <3> SUFFICES ASSUME ~cut' PROVE OnlyAnswer'
      BY DEF OnlyAnswer
    <3>1. left = << >>
      BY <1>1
    <3>3. Len(left) = 0 /\ DOMAIN left = {}
      BY <3>1
    <3>2. call' = call /\ call # NoCall
      BY <1>14
    <3> QED
      BY <1>6, <2>2, <2>3, <2>4, <3>2, <3>3 DEF OnlyAnswer, n
  <2>8. NewOnes'
    <3>1. ans.req <= asked' /\ ans.req < asked'
      BY <1>1, <1>4, <1>5, <2>2
    <3>2. ASSUME NEW k \in DOMAIN stream', stream'[k].i = 1 PROVE ans.req < stream'[k].req
      <4>1. CASE k \in DOMAIN left /\ stream'[k] = left[k]
        BY <1>1, <3>2, <4>1
      <4>2. CASE stream'[k].req = asked'
        BY <3>1, <4>2
      <4> QED
        BY <2>4, <4>1, <4>2
    <3> QED
      BY <1>2, <3>1, <3>2 DEF NewOnes
  <2>9. BlocksRead'
    BY <1>4, <1>8, <1>9, <1>14 DEF BlocksRead, isCalibrationInfoValid, LastBlock
  <2>10. CalibrationIsRead'
    <3>1. result' = result
      BY <1>14
    <3>2. result.block # NoBlock => result.block \in 0..LastBlock
      BY <1>4 DEF CommandTypes, NoBlock, LastBlock
    <3> QED
      BY <1>10, <1>11, <3>1, <3>2 DEF CommandInv, CalibrationIsRead
  <2> QED
    BY <1>2, <2>5, <2>6, <2>7, <2>8, <2>9, <2>10 DEF CommandInv
<1> QED
  BY <1>13, <1>14

LEMMA ReceiveKeeps == ASSUME CommandInv, Receive PROVE CommandInv'
<1>1. call # NoCall /\ up' = up /\ call \in Calls
  BY DEF Receive, CommandInv, CommandTypes, CommandsTypeOK
<1>2. PICK r \in Recv(stream, Parts[CommandOf(call)]) :
        LET ans == r.got[1]
        IN  /\ cut' = (cut \/ IsCut(r.got))
            /\ CASE ~Passes(CommandOf(call), r.got) ->
                      /\ result' = Failed /\ call' = NoCall /\ stream' = r.left
                      /\ UNCHANGED <<block, asked, caliInfo, prodID, ljtdacID, accepted>>
                 [] Passes(CommandOf(call), r.got) /\ call.f # "getCalibrationInfo" ->
                      /\ result' = Outcome(call, ans) /\ call' = NoCall /\ stream' = r.left
                      /\ accepted' = Append(accepted, [of |-> ans.req, as |-> asked, cut |-> cut])
                      /\ ljtdacID' = IF call.f = "getLJTDACCalibrationInfo" /\ ans.err = 0 THEN 9 ELSE ljtdacID
                      /\ UNCHANGED <<block, asked, caliInfo, prodID>>
                 [] OTHER ->
                      /\ StoreBlock(ans)
                      /\ accepted' = Append(accepted, [of |-> ans.req, as |-> asked, cut |-> cut])
                      /\ IF block < LastBlock /\ up
                         THEN /\ RequestAfter(r.left, call, block + 1) /\ block' = block + 1
                              /\ UNCHANGED <<call, result>>
                         ELSE /\ call' = NoCall /\ block' = 0 /\ stream' = r.left
                              /\ result' = IF block = LastBlock THEN Done(NoBlock) ELSE Failed
                              /\ UNCHANGED asked
  BY DEF Receive, IsCut
<1>3. PICK got, left : r = [got |-> got, left |-> left]
  BY DEF Recv
<1>4. r.got = got /\ r.left = left /\ [got |-> got, left |-> left] \in Recv(stream, Parts[CommandOf(call)])
  BY <1>3
<1>5. cut' = (cut \/ IsCut(got))
  BY <1>2, <1>4
<1>6. CASE ~Passes(CommandOf(call), got)
  <2>1. /\ result' = Failed /\ call' = NoCall /\ stream' = left
        /\ UNCHANGED <<block, asked, caliInfo, prodID, ljtdacID, accepted>>
    BY <1>2, <1>4, <1>6
  <2> QED
    BY <1>1, <1>4, <1>5, <2>1, RejectKeeps
<1>7. CASE Passes(CommandOf(call), got) /\ call.f # "getCalibrationInfo"
  <2>1. /\ result' = Outcome(call, got[1]) /\ call' = NoCall /\ stream' = left
        /\ accepted' = Append(accepted, [of |-> got[1].req, as |-> asked, cut |-> cut])
        /\ ljtdacID' \in {ljtdacID, 9}
        /\ UNCHANGED <<block, asked, caliInfo, prodID>>
    BY <1>2, <1>4, <1>7
  <2>2. got[1].i = 1
    BY <1>7 DEF Passes
  <2> QED
    BY <1>1, <1>4, <1>5, <2>1, <2>2, AcceptKeeps
<1>8. CASE Passes(CommandOf(call), got) /\ call.f = "getCalibrationInfo"
  <2>1. /\ StoreBlock(got[1])
        /\ accepted' = Append(accepted, [of |-> got[1].req, as |-> asked, cut |-> cut])
        /\ \/ /\ block < LastBlock /\ RequestAfter(left, call, block + 1) /\ block' = block + 1
              /\ UNCHANGED <<call, result>>
           \/ /\ call' = NoCall /\ block' = 0 /\ stream' = left /\ UNCHANGED asked
              /\ result' \in {Done(NoBlock), Failed}
    BY <1>2, <1>4, <1>8
  <2>2. got[1].i = 1
    BY <1>8 DEF Passes
  <2> QED
    BY <1>1, <1>4, <1>5, <1>8, <2>1, <2>2, BlockKeeps
<1> QED
  BY <1>6, <1>7, <1>8

LEMMA CommandsStep == ASSUME CommandInv, [CommandsNext]_commandVars PROVE CommandInv'
<1>1. CASE UNCHANGED commandVars
  BY <1>1 DEF commandVars, CommandInv, CommandTypes, CommandsTypeOK, InOrder, NewOnes, OnlyAnswer,
              BlocksRead, AnswersMatch, CalibrationIsRead, isCalibrationInfoValid
<1> QED
  BY <1>1, CallKeeps, FailKeeps, ReceiveKeeps, LostKeeps, ClosesKeeps DEF CommandsNext

-------------------------------------------------------------------------------
(* The logger: what the loop over the bytes of a packet prints             *)

\* Induction on numbers: of a set of them one is least.
LEMMA LeastNumber ==
  ASSUME NEW T, T \subseteq Nat, T # {}
  PROVE  \E n \in T : \A k \in T : n <= k
<1>1. PICK n \in T : \A k \in T : ~ (<<k, n>> \in OpToRel(<, Nat))
  BY NatLessThanWellFounded, WFMin
<1>2. n \in Nat /\ \A k \in T : k \in Nat /\ ~(k < n)
  BY <1>1 DEF OpToRel
<1> QED
  BY <1>2

\* The fold over the samples of a packet, one sample at a time. It is defined on all sets
\* of places, of which it takes the greatest first.
FoldStep(g, base, q, s) == IF s = {} THEN base ELSE PrintPair(g[s \ {Max(s)}], q[Max(s)])
Folded(base, q) ==
  CHOOSE g : g = [s \in SUBSET DOMAIN q |-> FoldStep(g, base, q, s)]

PrintAll(base, q) == FoldLeft(PrintPair, base, q)

LEMMA FoldIsFolded ==
  ASSUME NEW base, NEW q PROVE PrintAll(base, q) = Folded(base, q)[DOMAIN q]
BY DEF PrintAll, FoldLeft, MapThenFoldSet, Folded, FoldStep

LEMMA MaxOfPlaces ==
  ASSUME NEW n \in Nat, NEW s \in SUBSET (1..n), s # {}
  PROVE  Max(s) \in s /\ \A x \in s : x <= Max(s)
<1> DEFINE T == {n - x : x \in s}
<1>1. T \subseteq Nat /\ T # {}
  <2>1. \A x \in s : n - x \in Nat
    OBVIOUS
  <2> QED
    BY <2>1
<1> HIDE DEF T
<1>2. PICK t \in T : \A k \in T : t <= k
  BY <1>1, LeastNumber
<1>3. PICK x \in s : t = n - x
  BY DEF T
<1>4. \A y \in s : x >= y
  <2> SUFFICES ASSUME NEW y \in s PROVE x >= y
    OBVIOUS
  <2>1. n - x <= n - y
    BY <1>2, <1>3 DEF T
  <2> QED
    BY <2>1
<1>5. Max(s) \in s /\ \A y \in s : Max(s) >= y
  BY <1>3, <1>4 DEF Max
<1> QED
  BY <1>5

LEMMA FoldExists ==
  ASSUME NEW base, NEW L \in Nat, NEW q, DOMAIN q = 1..L
  PROVE  \E g : g = [s \in SUBSET DOMAIN q |-> FoldStep(g, base, q, s)]
<1> DEFINE UpTo(g, n) ==
             /\ g = [s \in SUBSET (1..L) |-> g[s]]
             /\ \A s \in SUBSET (1..n) : g[s] = FoldStep(g, base, q, s)
           Bad == {n \in 0..L : ~ \E g : UpTo(g, n)}
<1>1. Bad = {}
  <2> SUFFICES ASSUME Bad # {} PROVE FALSE
    OBVIOUS
  <2>1. PICK n \in Bad : \A k \in Bad : n <= k
    <3>1. Bad \subseteq Nat
      OBVIOUS
    <3> HIDE DEF Bad
    <3> QED
      BY <3>1, LeastNumber
  <2>2. n \in 0..L /\ ~ \E g : UpTo(g, n)
    BY <2>1
  <2>3. CASE n = 0
    <3> DEFINE h == [s \in SUBSET (1..L) |-> base]
    <3>1. h = [s \in SUBSET (1..L) |-> h[s]]
      OBVIOUS
    <3>2. \A s \in SUBSET (1..n) : s = {} /\ h[s] = base
      BY <2>3
    <3>3. UpTo(h, n)
      BY <3>1, <3>2 DEF FoldStep
    <3> QED
      BY <2>2, <3>3
  <2>4. CASE n > 0
    <3>1. n - 1 \in 0..L /\ n - 1 \notin Bad
      <4> HIDE DEF Bad
      <4>1. n \in Nat /\ n - 1 \in 0..L /\ ~(n <= n - 1)
        BY <2>2, <2>4
      <4> QED
        BY <2>1, <4>1
    <3>2. PICK h : UpTo(h, n - 1)
      BY <3>1
    <3> DEFINE g == [s \in SUBSET (1..L) |-> IF n \in s THEN PrintPair(h[s \ {n}], q[n]) ELSE h[s]]
    <3>3. g = [s \in SUBSET (1..L) |-> g[s]]
      OBVIOUS
    <3>4. \A s \in SUBSET (1..L) : g[s] = IF n \in s THEN PrintPair(h[s \ {n}], q[n]) ELSE h[s]
      OBVIOUS
    <3>5. \A s \in SUBSET (1..(n - 1)) : h[s] = FoldStep(h, base, q, s)
      BY <3>2
    <3> HIDE DEF g, UpTo, Bad
    <3>6. ASSUME NEW s \in SUBSET (1..n) PROVE g[s] = FoldStep(g, base, q, s)
      <4>1. s \in SUBSET (1..L)
        BY <2>2
      <4>2. CASE n \in s
        <5>1. Max(s) \in s /\ n <= Max(s) /\ s # {} /\ n \in Nat
          <6>1. n \in Nat /\ s # {}
            BY <2>2, <4>2
          <6> QED
            BY <4>2, <6>1, MaxOfPlaces
        <5>2. Max(s) = n
          <6>1. Max(s) \in 1..n
            BY <5>1
          <6> QED
            BY <5>1, <6>1
        <5>3. s \ {n} \in SUBSET (1..L) /\ n \notin s \ {n}
          BY <4>1
        <5>4. g[s \ {n}] = h[s \ {n}]
          BY <3>4, <5>3
        <5> QED
          BY <3>4, <4>1, <4>2, <5>2, <5>4 DEF FoldStep
      <4>3. CASE n \notin s
        <5>1. s \in SUBSET (1..(n - 1))
          BY <2>2, <4>3
        <5>2. g[s] = h[s] /\ h[s] = FoldStep(h, base, q, s)
          BY <3>4, <3>5, <4>1, <4>3, <5>1
        <5>3. s \ {Max(s)} \in SUBSET (1..L) /\ n \notin s \ {Max(s)}
          BY <4>1, <4>3
        <5>4. g[s \ {Max(s)}] = h[s \ {Max(s)}]
          BY <3>4, <5>3
        <5> QED
          BY <5>2, <5>4 DEF FoldStep
      <4> QED
        BY <4>2, <4>3
    <3>7. UpTo(g, n)
      BY <3>3, <3>6 DEF UpTo
    <3> QED
      BY <2>2, <3>7
  <2> QED
    BY <2>2, <2>3, <2>4
<1>2. PICK g : UpTo(g, L)
  <2>1. L \in 0..L
    OBVIOUS
  <2> HIDE DEF UpTo
  <2> QED
    BY <1>1, <2>1
<1> QED
  BY <1>2

\* The states of the loop before its first turn and after each of n turns.
States(st, base, q, n) ==
  st[0] = base /\ \A e \in 1..n : st[e] = PrintPair(st[e - 1], q[e])

LEMMA FoldOfPacket ==
  ASSUME NEW base, NEW L \in Nat, NEW q, DOMAIN q = 1..L
  PROVE  \E st : States(st, base, q, L) /\ PrintAll(base, q) = st[L]
<1> DEFINE g == Folded(base, q)
           st == [e \in 0..L |-> g[1..e]]
<1>1. g = [s \in SUBSET DOMAIN q |-> FoldStep(g, base, q, s)]
  BY FoldExists DEF Folded
<1> HIDE DEF g
<1>2. \A s \in SUBSET (1..L) : g[s] = FoldStep(g, base, q, s)
  BY <1>1
<1>3. st[0] = base
  <2>1. 1..0 = {} /\ {} \in SUBSET (1..L)
    OBVIOUS
  <2>2. g[{}] = base
    BY <1>2, <2>1 DEF FoldStep
  <2> QED
    BY <2>1, <2>2
<1>4. ASSUME NEW e \in 1..L PROVE st[e] = PrintPair(st[e - 1], q[e])
  <2>1. 1..e \in SUBSET (1..L) /\ 1..e # {} /\ e \in 1..e
    <3>1. e \in Nat /\ e <= L /\ e \in 1..e
      OBVIOUS
    <3>2. \A x \in 1..e : x \in 1..L
      BY <3>1
    <3>3. 1..e \subseteq 1..L
      BY <3>2
    <3> QED
      BY <3>1, <3>3
  <2>2. Max(1..e) = e
    <3>1. Max(1..e) \in 1..e /\ e <= Max(1..e)
      BY <2>1, MaxOfPlaces
    <3> QED
      BY <3>1
  <2>3. (1..e) \ {e} = 1..(e - 1)
    <3>1. e \in Nat
      OBVIOUS
    <3>2. ASSUME NEW x PROVE x \in (1..e) \ {e} <=> x \in 1..(e - 1)
      BY <3>1
    <3> QED
      BY <3>2
  <2>4. g[1..e] = PrintPair(g[1..(e - 1)], q[e])
    BY <1>2, <2>1, <2>2, <2>3 DEF FoldStep
  <2> QED
    BY <2>4
<1>5. PrintAll(base, q) = st[L]
  BY FoldIsFolded DEF g
<1>6. States(st, base, q, L)
  BY <1>3, <1>4 DEF States
<1> HIDE DEF st
<1> QED
  BY <1>5, <1>6

Sample == [session : Nat, start : BOOLEAN, n : Nat]

\* What StreamData has printed, and what it remembers, after the first e samples of s.
StateAt(s, e) ==
  [sync |-> \E i \in 1..e : s[i].start, first |-> e = 0, printed |-> Framed(SubSeq(s, 1, e))]

\* The i-th of its output if frame number one starts with sample number from.
Line(s, from, i) == [newline |-> s[from + i - 1].start /\ from + i # 2, of |-> s[from + i - 1]]

LEMMA FramedTo ==
  ASSUME NEW s \in Seq(Sample), NEW e \in 0..Len(s)
  PROVE  /\ (\A i \in 1..e : ~s[i].start) => Framed(SubSeq(s, 1, e)) = << >>
         /\ \A from \in 1..e :
              s[from].start /\ (\A i \in 1..(from - 1) : ~s[i].start) =>
                Framed(SubSeq(s, 1, e)) = [i \in 1..(e - from + 1) |-> Line(s, from, i)]
<1> DEFINE t == SubSeq(s, 1, e)
<1>1. t \in Seq(Sample) /\ Len(t) = e /\ DOMAIN t = 1..e /\ \A i \in 1..e : t[i] = s[i]
  OBVIOUS
<1> HIDE DEF t
<1>2. ASSUME \A i \in 1..e : ~s[i].start PROVE Framed(t) = << >>
  <2>1. {i \in DOMAIN t : t[i].start} = {}
    BY <1>1, <1>2
  <2> QED
    BY <2>1 DEF Framed
<1>3. ASSUME NEW from \in 1..e, s[from].start, \A i \in 1..(from - 1) : ~s[i].start
      PROVE  Framed(t) = [i \in 1..(e - from + 1) |-> Line(s, from, i)]
  <2> DEFINE starts == {i \in DOMAIN t : t[i].start}
  <2>1. from \in starts /\ \A i \in starts : from <= i
    <3>1. from \in starts
      BY <1>1, <1>3
    <3>2. ASSUME NEW i \in starts, ~(from <= i) PROVE FALSE
      <4>1. i \in 1..e /\ i \in 1..(from - 1) /\ s[i].start
        BY <1>1, <3>2
      <4> QED
        BY <1>3, <4>1
    <3> QED
      BY <3>1, <3>2
  <2>2. Min(starts) = from
    <3>1. \A i \in starts : i \in 1..e
      BY <1>1
    <3> HIDE DEF starts
    <3>2. Min(starts) \in starts /\ \A i \in starts : Min(starts) <= i
      BY <2>1 DEF Min
    <3>3. Min(starts) <= from /\ from <= Min(starts) /\ Min(starts) \in 1..e
      BY <2>1, <3>1, <3>2
    <3> QED
      BY <3>3
  <2>3. starts # {}
    BY <2>1
  <2>4. Framed(t) = [i \in 1..(Len(t) - Min(starts) + 1) |->
                       [newline |-> t[Min(starts) + i - 1].start /\ Min(starts) + i # 2,
                        of |-> t[Min(starts) + i - 1]]]
    BY <2>3 DEF Framed
  <2> HIDE DEF starts
  <2>5. Framed(t) = [i \in 1..(e - from + 1) |->
                       [newline |-> t[from + i - 1].start /\ from + i # 2, of |-> t[from + i - 1]]]
    BY <1>1, <2>2, <2>4
  <2>6. \A i \in 1..(e - from + 1) : from + i - 1 \in 1..e
    OBVIOUS
  <2>7. \A i \in 1..(e - from + 1) : t[from + i - 1] = s[from + i - 1]
    BY <1>1, <2>6
  <2> QED
    BY <2>5, <2>7 DEF Line
<1> QED
  BY <1>2, <1>3 DEF t

LEMMA FirstStart ==
  ASSUME NEW s, NEW e \in Nat
  PROVE  \/ \A i \in 1..e : ~s[i].start
         \/ \E from \in 1..e : s[from].start /\ \A i \in 1..(from - 1) : ~s[i].start
<1> DEFINE starts == {i \in 1..e : s[i].start}
<1>1. CASE starts = {}
  BY <1>1
<1>2. CASE starts # {}
  <2>1. starts \subseteq Nat
    OBVIOUS
  <2>2. PICK from \in starts : \A k \in starts : from <= k
    <3> HIDE DEF starts
    <3> QED
      BY <1>2, <2>1, LeastNumber
  <2>3. from \in 1..e /\ s[from].start
    BY <2>2
  <2>4. \A i \in 1..(from - 1) : i \in 1..e /\ ~(from <= i)
    BY <2>3
  <2>5. \A i \in 1..(from - 1) : ~s[i].start
    BY <2>2, <2>4
  <2> QED
    BY <2>3, <2>5
<1> QED
  BY <1>1, <1>2

LEMMA StateGrows ==
  ASSUME NEW s \in Seq(Sample), NEW e \in 0..Len(s), e < Len(s)
  PROVE  StateAt(s, e + 1) = PrintPair(StateAt(s, e), s[e + 1])
<1>1. e + 1 \in 0..Len(s) /\ e \in Nat /\ e + 1 \in 1..Len(s) /\ 1..(e + 1) = 1..e \cup {e + 1}
  OBVIOUS
<1>2. s[e + 1] \in Sample /\ s[e + 1].start \in BOOLEAN
  <2>1. s[e + 1] \in Sample
    BY <1>1
  <2> QED
    BY <2>1 DEF Sample
<1> DEFINE synced == (\E i \in 1..e : s[i].start) \/ s[e + 1].start
           before == Framed(SubSeq(s, 1, e))
           after == Framed(SubSeq(s, 1, e + 1))
           new == [newline |-> s[e + 1].start /\ ~(e = 0), of |-> s[e + 1]]
<1>3. (\E i \in 1..(e + 1) : s[i].start) <=> synced
  BY <1>1
<1>4. e + 1 # 0
  BY <1>1
<1>5. after = IF synced THEN Append(before, new) ELSE before
  <2>1. CASE ~synced
    <3>1. (\A i \in 1..e : ~s[i].start) /\ \A i \in 1..(e + 1) : ~s[i].start
      BY <1>1, <2>1
    <3>2. before = << >> /\ after = << >>
      BY <1>1, <3>1, FramedTo
    <3> QED
      BY <2>1, <3>2
  <2>2. CASE synced /\ \A i \in 1..e : ~s[i].start
    <3>1. s[e + 1].start /\ \A i \in 1..(e + 1 - 1) : ~s[i].start
      BY <1>1, <2>2
    <3>2. before = << >>
      BY <1>1, <2>2, FramedTo
    <3>3. after = [i \in 1..((e + 1) - (e + 1) + 1) |-> Line(s, e + 1, i)]
      <4>1. e + 1 \in 1..(e + 1)
        BY <1>1
      <4>2. \A from \in 1..(e + 1) :
              s[from].start /\ (\A i \in 1..(from - 1) : ~s[i].start) =>
                after = [i \in 1..((e + 1) - from + 1) |-> Line(s, from, i)]
        BY <1>1, FramedTo
      <4> DEFINE from == e + 1
      <4>3. from \in 1..(e + 1) /\ s[from].start /\ \A i \in 1..(from - 1) : ~s[i].start
        BY <3>1, <4>1
      <4> HIDE DEF after, before, synced, new, from
      <4>4. after = [i \in 1..((e + 1) - from + 1) |-> Line(s, from, i)]
        BY <4>2, <4>3
      <4> QED
        BY <4>4 DEF from
    <3>4. 1..((e + 1) - (e + 1) + 1) = {1} /\ Line(s, e + 1, 1) = new
      <4>1. (e + 1) + 1 - 1 = e + 1 /\ ((e + 1) + 1 # 2 <=> ~(e = 0))
        BY <1>1
      <4> QED
        BY <1>1, <4>1 DEF Line
    <3>5. after = << new >>
      BY <3>3, <3>4
    <3>6. synced
      BY <3>1
    <3> HIDE DEF before, new, after, synced
    <3>7. Append(before, new) = << new >>
      BY <3>2
    <3> QED
      BY <3>5, <3>6, <3>7
  <2>3. CASE ~ \A i \in 1..e : ~s[i].start
    <3>1. PICK from \in 1..e : s[from].start /\ \A i \in 1..(from - 1) : ~s[i].start
      BY <1>1, <2>3, FirstStart
    <3>2. from \in 1..(e + 1) /\ synced
      BY <1>1, <3>1
    <3>3. before = [i \in 1..(e - from + 1) |-> Line(s, from, i)]
      BY <1>1, <3>1, FramedTo
    <3>4. after = [i \in 1..((e + 1) - from + 1) |-> Line(s, from, i)]
      BY <1>1, <3>1, <3>2, FramedTo
    <3> DEFINE n == e - from + 1
    <3>5. n \in Nat /\ (e + 1) - from + 1 = n + 1 /\ from + (n + 1) - 1 = e + 1 /\ from + (n + 1) # 2 /\ ~(e = 0)
      BY <1>1, <3>1
    <3>6. Line(s, from, n + 1) = new
      BY <3>5 DEF Line
    <3>7. before \in Seq({Line(s, from, i) : i \in 1..n}) /\ Len(before) = n
          /\ \A i \in 1..n : before[i] = Line(s, from, i)
      BY <3>3, <3>5
    <3>8. after = [i \in 1..(n + 1) |-> Line(s, from, i)]
      BY <3>4, <3>5
    <3>9. Append(before, new) = [i \in 1..(n + 1) |-> IF i = n + 1 THEN new ELSE before[i]]
      <4>1. before \in Seq({Line(s, from, i) : i \in 1..n}) /\ Len(before) = n /\ n \in Nat
        BY <3>5, <3>7
      <4> HIDE DEF before, new, n
      <4> DEFINE all == Append(before, new)
      <4>2. /\ all \in Seq({Line(s, from, i) : i \in 1..n} \cup {new}) /\ Len(all) = n + 1
            /\ \A i \in 1..(n + 1) : all[i] = IF i = n + 1 THEN new ELSE before[i]
        BY <4>1
      <4> HIDE DEF all
      <4>3. all = [i \in 1..(n + 1) |-> all[i]]
        BY <4>1, <4>2
      <4> QED
        BY <4>2, <4>3 DEF all
    <3>10. \A i \in 1..(n + 1) : (IF i = n + 1 THEN new ELSE before[i]) = Line(s, from, i)
      <4> HIDE DEF before, new, n
      <4> QED
        BY <3>5, <3>6, <3>7
    <3> HIDE DEF before, new, n, after, synced
    <3> QED
      BY <3>2, <3>8, <3>9, <3>10
  <2> QED
    BY <2>1, <2>2, <2>3
<1> HIDE DEF before, after
<1>6. StateAt(s, e).sync = (\E i \in 1..e : s[i].start) /\ StateAt(s, e).first = (e = 0)
      /\ StateAt(s, e).printed = before
  BY DEF StateAt, before
<1>7. StateAt(s, e + 1) = [sync |-> synced, first |-> FALSE, printed |-> after]
  BY <1>3, <1>4 DEF StateAt, after
<1>8. (StateAt(s, e).sync \/ s[e + 1].start) = synced
  BY <1>6
<1> HIDE DEF synced
<1> QED
  BY <1>5, <1>6, <1>7, <1>8 DEF PrintPair

(* What reading a packet prints.                                           *)
LEMMA SamplesOfPacket ==
  ASSUME NEW O, NEW packet \in [1..PacketLen -> O]
  PROVE  /\ Pairs \in Nat \ {0} /\ PacketLen = Pairs + 2
         /\ LET q == SubSeq(packet, 2, Pairs + 1)
            IN  DOMAIN q = 1..Pairs /\ \A e \in 1..Pairs : q[e] = packet[e + 1] /\ q[e] \in O
<1>1. Pairs \in Nat \ {0} /\ PacketLen = Pairs + 2
  BY LoggerAssumption DEF PacketLen
<1>2. packet \in Seq(O) /\ Len(packet) = PacketLen
  BY <1>1
<1>3. /\ DOMAIN SubSeq(packet, 2, Pairs + 1) = 1..Pairs
      /\ \A e \in 1..Pairs : SubSeq(packet, 2, Pairs + 1)[e] = packet[e + 1]
  BY <1>1, <1>2
<1>4. \A e \in 1..Pairs : e + 1 \in 1..PacketLen
  BY <1>1
<1> QED
  BY <1>1, <1>3, <1>4

\* The output if all its samples are in O.
Lines(O) == [newline : BOOLEAN, of : O]

LEMMA PacketPrints ==
  ASSUME NEW O, O \subseteq Sample, NEW packet \in [1..PacketLen -> O],
         sync \in BOOLEAN, first \in BOOLEAN, printed \in Seq(Lines(O)), PrintPacket(packet)
  PROVE  sync' \in BOOLEAN /\ first' = FALSE /\ printed' \in Seq(Lines(O))
<1> DEFINE q == SubSeq(packet, 2, Pairs + 1)
           base == [sync |-> sync, first |-> first, printed |-> printed]
           Possible == [sync : BOOLEAN, first : BOOLEAN, printed : Seq(Lines(O))]
<1>1. Pairs \in Nat \ {0} /\ DOMAIN q = 1..Pairs /\ \A e \in 1..Pairs : q[e] \in O
  BY SamplesOfPacket
<1>2. /\ sync' = PrintAll(base, q).sync /\ first' = PrintAll(base, q).first
      /\ printed' = PrintAll(base, q).printed
  BY DEF PrintPacket, PrintAll
<1>3. base \in Possible
  OBVIOUS
<1>4. ASSUME NEW st \in Possible, NEW s \in O
      PROVE  PrintPair(st, s) \in Possible /\ PrintPair(st, s).first = FALSE
  <2>1. s \in Sample /\ s.start \in BOOLEAN
    BY DEF Sample
  <2>2. st.sync \in BOOLEAN /\ st.first \in BOOLEAN /\ st.printed \in Seq(Lines(O))
    OBVIOUS
  <2> DEFINE new == [newline |-> s.start /\ ~st.first, of |-> s]
  <2>3. new \in Lines(O)
    BY <2>1, <2>2 DEF Lines
  <2> HIDE DEF new
  <2>4. Append(st.printed, new) \in Seq(Lines(O))
    BY <2>2, <2>3
  <2> DEFINE synced == st.sync \/ s.start
             state == IF synced THEN Append(st.printed, new) ELSE st.printed
  <2>5. synced \in BOOLEAN /\ state \in Seq(Lines(O))
    BY <2>1, <2>2, <2>4
  <2>6. PrintPair(st, s) = [sync |-> synced, first |-> FALSE, printed |-> state]
    BY DEF PrintPair, new
  <2> HIDE DEF synced, state
  <2> QED
    BY <2>5, <2>6
<1> HIDE DEF q, base, Possible
<1>5. PICK st : /\ st[0] = base
                /\ \A e \in 1..Pairs : st[e] = PrintPair(st[e - 1], q[e])
                /\ PrintAll(base, q) = st[Pairs]
  <2>1. Pairs \in Nat /\ DOMAIN q = 1..Pairs
    BY <1>1
  <2>2. PICK st : States(st, base, q, Pairs) /\ PrintAll(base, q) = st[Pairs]
    BY <2>1, FoldOfPacket
  <2> QED
    BY <2>2 DEF States
<1>6. \A e \in 0..Pairs : st[e] \in Possible
  <2> DEFINE Bad == {e \in 0..Pairs : st[e] \notin Possible}
  <2> SUFFICES ASSUME Bad # {} PROVE FALSE
    OBVIOUS
  <2>1. PICK e \in Bad : \A k \in Bad : e <= k
    <3>1. Bad \subseteq Nat
      OBVIOUS
    <3> HIDE DEF Bad
    <3> QED
      BY <3>1, LeastNumber
  <2>2. e \in 0..Pairs /\ st[e] \notin Possible /\ e # 0
    BY <1>3, <1>5, <2>1
  <2>3. e \in 1..Pairs /\ e - 1 \in 0..Pairs /\ ~(e <= e - 1)
    BY <1>1, <2>2
  <2>4. st[e - 1] \in Possible
    BY <2>1, <2>3
  <2> QED
    BY <1>1, <1>4, <1>5, <2>2, <2>3, <2>4
<1>7. st[Pairs] \in Possible /\ st[Pairs].first = FALSE
  <2>1. Pairs \in 1..Pairs /\ Pairs - 1 \in 0..Pairs /\ Pairs \in 0..Pairs
    BY <1>1
  <2>2. st[Pairs] = PrintPair(st[Pairs - 1], q[Pairs]) /\ q[Pairs] \in O /\ st[Pairs - 1] \in Possible
    BY <1>1, <1>5, <1>6, <2>1
  <2> QED
    BY <1>4, <2>2
<1> QED
  BY <1>2, <1>5, <1>7 DEF Possible

LEMMA PacketContinues ==
  ASSUME NEW packet \in [1..PacketLen -> Sample], NEW s \in Seq(Sample), NEW d \in Nat,
         d + Pairs <= Len(s), \A e \in 1..Pairs : packet[e + 1] = s[d + e],
         [sync |-> sync, first |-> first, printed |-> printed] = StateAt(s, d),
         PrintPacket(packet)
  PROVE  [sync |-> sync', first |-> first', printed |-> printed'] = StateAt(s, d + Pairs)
<1> DEFINE q == SubSeq(packet, 2, Pairs + 1)
           base == [sync |-> sync, first |-> first, printed |-> printed]
<1>1. Pairs \in Nat \ {0} /\ DOMAIN q = 1..Pairs /\ \A e \in 1..Pairs : q[e] = s[d + e]
  <2>1. /\ Pairs \in Nat \ {0}
        /\ DOMAIN q = 1..Pairs /\ \A e \in 1..Pairs : q[e] = packet[e + 1] /\ q[e] \in Sample
    BY SamplesOfPacket
  <2> HIDE DEF q
  <2> QED
    BY <2>1
<1>2. /\ sync' = PrintAll(base, q).sync /\ first' = PrintAll(base, q).first
      /\ printed' = PrintAll(base, q).printed
  BY DEF PrintPacket, PrintAll
<1>3. base = StateAt(s, d)
  OBVIOUS
<1> HIDE DEF q, base
<1>5. PICK st : /\ st[0] = base
                /\ \A e \in 1..Pairs : st[e] = PrintPair(st[e - 1], q[e])
                /\ PrintAll(base, q) = st[Pairs]
  <2>1. Pairs \in Nat /\ DOMAIN q = 1..Pairs
    BY <1>1
  <2>2. PICK st : States(st, base, q, Pairs) /\ PrintAll(base, q) = st[Pairs]
    BY <2>1, FoldOfPacket
  <2> QED
    BY <2>2 DEF States
<1>6. \A e \in 0..Pairs : st[e] = StateAt(s, d + e)
  <2> DEFINE Bad == {e \in 0..Pairs : st[e] # StateAt(s, d + e)}
  <2> SUFFICES ASSUME Bad # {} PROVE FALSE
    OBVIOUS
  <2>1. PICK e \in Bad : \A k \in Bad : e <= k
    <3>1. Bad \subseteq Nat
      OBVIOUS
    <3> HIDE DEF Bad
    <3> QED
      BY <3>1, LeastNumber
  <2>2. e \in 0..Pairs /\ st[e] # StateAt(s, d + e) /\ e # 0
    BY <1>3, <1>5, <2>1
  <2>3. e \in 1..Pairs /\ e - 1 \in 0..Pairs /\ ~(e <= e - 1)
    BY <1>1, <2>2
  <2>4. st[e - 1] = StateAt(s, d + (e - 1))
    BY <2>1, <2>3
  <2>5. Len(s) \in Nat /\ d + (e - 1) \in 0..Len(s) /\ d + (e - 1) < Len(s) /\ d + (e - 1) + 1 = d + e
    BY <1>1, <2>3
  <2>6. StateAt(s, d + e) = PrintPair(StateAt(s, d + (e - 1)), s[d + e])
    BY <2>5, StateGrows
  <2> QED
    BY <1>1, <1>5, <2>2, <2>3, <2>4, <2>6
<1>7. st[Pairs] = StateAt(s, d + Pairs)
  BY <1>1, <1>6
<1> QED
  BY <1>2, <1>5, <1>7 DEF StateAt
LEMMA NothingPrinted ==
  ASSUME NEW s, s = << >>
  PROVE  StateAt(s, 0) = [sync |-> FALSE, first |-> TRUE, printed |-> << >>]
<1>1. s \in Seq(Sample) /\ 0 \in 0..Len(s)
  OBVIOUS
<1>2. \A i \in 1..0 : ~s[i].start
  OBVIOUS
<1>3. Framed(SubSeq(s, 1, 0)) = << >>
  BY <1>1, <1>2, FramedTo
<1>4. (\E i \in 1..0 : s[i].start) = FALSE
  BY <1>2
<1> QED
  BY <1>3, <1>4 DEF StateAt
-------------------------------------------------------------------------------
(* The logger and the device: what is under way                            *)

\* Samples of this session, and what a packet is filled with.
Owned == {s \in Sample : s.session \in {0, session}}

AnswerParts == [cmd : DOMAIN NextCall, i : 1..4, err : 0..1]
Orders == [cmd : DOMAIN NextCall, session : Nat]
Queues ==
  /\ data \in Seq(Sample) /\ samples \in Seq(Sample) /\ sent \in Seq(Sample)
  /\ control \in Seq(AnswerParts) /\ toDevice \in Seq(Orders)

\* What has been read and printed is of this session.
OwnPrinted == buf \in [1..PacketLen -> Owned] /\ printed \in Seq(Lines(Owned))

\* Which connections are open in each call, and that nothing is under way on a closed one.
Connections ==
  /\ pc \in {"open", "exit"} => ~fda
  /\ pc \in {"stop", "flush", "openData"} => fda /\ ~fdb
  /\ pc \in {"config", "start", "data"} => (fda <=> fdb)
  /\ pc = "broken" => ~fdb
  /\ ~fda => control = << >>
  /\ ~fdb => data = << >>

\* Nothing is sent before the data connection is open, or read before StreamData.
NothingRead ==
  /\ pc \in {"open", "stop", "flush", "openData"} => sent = << >>
  /\ pc \notin {"data", "broken", "exit"} => printed = << >> /\ cnt = 0 /\ first /\ ~sync /\ stale = 0

\* Commands of this session and of earlier ones.
Own(cmd) == [cmd |-> cmd, session |-> session]
Earlier ==
  /\ \A i \in DOMAIN toDevice : toDevice[i].session <= session
  /\ pc = "open" => \A i \in DOMAIN toDevice : toDevice[i].session < session

AnswersTo(cmds) == \A i \in DOMAIN control : control[i].cmd \in cmds

\* After a StreamStop was obeyed, until the stream buffer is flushed.
Unflushed(commands) == streaming = 0 /\ toDevice = commands /\ AnswersTo({"stop"})
Flushed(commands) == streaming = 0 /\ samples = << >> /\ toDevice = commands

Stopping ==
  pc = "stop" =>
    \/ /\ ~waiting /\ control = << >> /\ \A i \in DOMAIN toDevice : toDevice[i].session < session
    \/ /\ waiting /\ control = << >> /\ toDevice # << >> /\ toDevice[Len(toDevice)] = Own("stop")
       /\ \A i \in 1..(Len(toDevice) - 1) : toDevice[i].session < session
    \/ waiting /\ Unflushed(<< >>)

Flushing ==
  pc \in {"flush", "openData"} =>
    \/ pc = "flush" /\ ~waiting /\ Unflushed(<< >>)
    \/ (pc = "flush" => waiting) /\ Unflushed(<< Own("flush") >>)
    \/ (pc = "flush" => waiting) /\ Flushed(<< >>) /\ AnswersTo({"stop", "flush"})

\* An answer to an earlier command stands before that of StreamConfig, and makes it fail.
NoneSent == data = << >> /\ sent = << >>
InTheWay == control # << >> /\ control[1].cmd \in {"stop", "flush"}

Configuring ==
  pc = "config" /\ fdb =>
    \/ ~waiting /\ Unflushed(<< Own("flush") >>)
    \/ waiting /\ Unflushed(<< Own("flush"), Own("config") >>)
    \/ /\ Flushed(IF waiting THEN << Own("config") >> ELSE << >>) /\ AnswersTo({"stop", "flush"})
       /\ NoneSent \/ InTheWay
    \/ /\ waiting /\ Flushed(<< >>) /\ AnswersTo({"stop", "flush", "config"})
       /\ NoneSent \/ InTheWay

OwnStream ==
  /\ toDevice = << >> /\ streaming \in {0, session}
  /\ samples \in Seq(Owned) /\ data \in Seq(Owned)

Starting ==
  pc = "start" /\ fdb =>
    \/ /\ Flushed(IF waiting THEN << Own("start") >> ELSE << >>)
       /\ AnswersTo({"stop", "flush", "config"}) /\ NoneSent
    \/ waiting /\ OwnStream

Streaming == pc = "data" /\ fdb => OwnStream

\* The parts of packets that have come and are not printed are m whole packets of those
\* samples that follow the first d.
Before(j) == j * PacketLen
Sampled(j) == j * Pairs
PartAt(p) == IF p <= cnt THEN buf[p] ELSE data[p - cnt]
WholePackets(d, m) ==
  /\ Len(sent) = d + Sampled(m) /\ cnt + Len(data) = Before(m)
  /\ \A j \in 0..(m - 1) : \A e \in 1..Pairs : PartAt(Before(j) + e + 1) = sent[d + Sampled(j) + e]

Delivered ==
  stale = 0 =>
    \E d \in 0..Len(sent) :
      /\ [sync |-> sync, first |-> first, printed |-> printed] = StateAt(sent, d)
      /\ fdb => \E m \in 0..Len(sent) : WholePackets(d, m)

LoggerInv ==
  /\ LoggerTypeOK /\ Queues /\ OwnPrinted /\ Connections /\ NothingRead /\ Earlier
  /\ Stopping /\ Flushing /\ Configuring /\ Starting /\ Streaming
  /\ Delivered
LEMMA LoggerConstants ==
  /\ Pairs \in Nat \ {0} /\ MaxSessions \in Nat \ {0} /\ MaxSamples \in Nat /\ MaxStale \in Nat
  /\ PacketLen \in Nat /\ PacketLen = Pairs + 2 /\ PacketLen - 1 \in Nat
  /\ DOMAIN NextCall = {"stop", "flush", "config", "start"}
  /\ Filler \in Owned
<1>1. /\ Pairs \in Nat \ {0} /\ MaxSessions \in Nat \ {0} /\ MaxSamples \in Nat /\ MaxStale \in Nat
  BY LoggerAssumption
<1>2. DOMAIN NextCall = {"stop", "flush", "config", "start"}
  BY DEF NextCall
<1>3. Filler \in Owned
  BY DEF Filler, Owned, Sample
<1> QED
  BY <1>1, <1>2, <1>3 DEF PacketLen

LEMMA LoggerStarts == LoggerInit => LoggerInv
<1> SUFFICES ASSUME LoggerInit PROVE LoggerInv
  OBVIOUS
<1>1. LoggerTypeOK /\ Queues
  <2>1. LoggerTypeOK
    <3>1. /\ session = 1 /\ pc = "open" /\ waiting = FALSE /\ fda = FALSE /\ fdb = FALSE /\ cnt = 0
          /\ sync = FALSE /\ first = TRUE /\ stale = 0 /\ streaming = 0 /\ taken = 0
      BY DEF LoggerInit
    <3> QED
      <4>1. session \in 1..MaxSessions /\ cnt \in 0..(PacketLen - 1) /\ streaming \in 0..session
        BY <3>1, LoggerConstants
      <4>2. taken \in 0..MaxSamples /\ stale \in 0..MaxStale
        BY <3>1, LoggerConstants
      <4>3. {waiting, fda, fdb, sync, first} \subseteq BOOLEAN
        BY <3>1
      <4> QED
        BY <3>1, <4>1, <4>2, <4>3 DEF LoggerTypeOK
  <2>2. Queues
    BY DEF LoggerInit, Queues
  <2> QED
    BY <2>1, <2>2
<1>2. OwnPrinted
  BY LoggerConstants DEF LoggerInit, OwnPrinted
<1>3. Connections /\ NothingRead /\ Stopping /\ Flushing /\ Configuring /\ Starting /\ Streaming
  BY DEF LoggerInit, Connections, NothingRead, Stopping, Flushing, Configuring, Starting, Streaming
<1>4. Earlier
  BY DEF LoggerInit, Earlier
<1>5. Delivered
  <2>1. sent = << >> /\ printed = << >> /\ ~sync /\ first /\ sync = FALSE /\ first = TRUE /\ ~fdb
    BY DEF LoggerInit
  <2>2. [sync |-> sync, first |-> first, printed |-> printed] = StateAt(sent, 0)
    BY <2>1, NothingPrinted
  <2> QED
    BY <2>1, <2>2 DEF Delivered
<1> QED
  BY <1>1, <1>2, <1>3, <1>4, <1>5 DEF LoggerInv

LEMMA DeliveredStays ==
  ASSUME Delivered, UNCHANGED <<stale, sent, sync, first, printed, buf, cnt>>,
         fdb' => fdb /\ data' = data
  PROVE  Delivered'
<1> SUFFICES ASSUME stale = 0 PROVE Delivered'
  BY DEF Delivered
<1>1. PICK d \in 0..Len(sent) :
         /\ [sync |-> sync, first |-> first, printed |-> printed] = StateAt(sent, d)
         /\ fdb => \E m \in 0..Len(sent) : WholePackets(d, m)
  BY DEF Delivered
<1>2. ASSUME fdb' PROVE \E m \in 0..Len(sent') : WholePackets(d, m)'
  BY <1>1, <1>2 DEF WholePackets, PartAt
<1>3. [sync |-> sync', first |-> first', printed |-> printed'] = StateAt(sent', d)
  BY <1>1
<1> QED
  BY <1>2, <1>3 DEF Delivered

LEMMA OpenControlKeeps == ASSUME LoggerInv, OpenControl PROVE LoggerInv'
<1>1. LoggerTypeOK' /\ Queues'
  BY LoggerConstants DEF LoggerInv, OpenControl, deviceVars, LoggerTypeOK, Queues
<1>2. OwnPrinted'
  BY DEF LoggerInv, OpenControl, OwnPrinted, Owned
<1>3. /\ Connections' /\ NothingRead' /\ Flushing' /\ Configuring' /\ Starting' /\ Streaming'
  BY DEF LoggerInv, OpenControl, deviceVars, LoggerTypeOK, Connections, NothingRead,
         Flushing, Configuring, Starting, Streaming
<1>4. Earlier' /\ Stopping'
  <2>1. ~waiting /\ control = << >>
    BY LoggerConstants DEF LoggerInv, OpenControl, LoggerTypeOK, Connections
  <2>2. \A i \in DOMAIN toDevice : toDevice[i].session < session /\ toDevice[i].session <= session
    BY DEF LoggerInv, OpenControl, Earlier
  <2> QED
    BY <2>1, <2>2 DEF OpenControl, Earlier, Stopping
<1>5. Delivered'
  BY DeliveredStays DEF LoggerInv, OpenControl, Connections
<1> QED
  BY <1>1, <1>2, <1>3, <1>4, <1>5 DEF LoggerInv

LEMMA OpenDataKeeps == ASSUME LoggerInv, OpenData PROVE LoggerInv'
<1>1. /\ pc = "openData" /\ pc' = "config" /\ fda /\ ~fdb /\ data = << >> /\ ~waiting
      /\ sent = << >> /\ printed = << >> /\ cnt = 0 /\ first /\ ~sync /\ stale = 0
  BY LoggerConstants
     DEF LoggerInv, OpenData, LoggerTypeOK, Connections, NothingRead
<1>2. /\ UNCHANGED <<session, waiting, buf, cnt, sync, first, printed, stale, toDevice, streaming,
                     samples, taken, sent>>
      /\ data' = << >>
      /\ \/ fda' /\ fdb' /\ fda' = TRUE /\ fdb' = TRUE /\ control' = control
         \/ ~fda' /\ ~fdb' /\ fda' = FALSE /\ fdb' = FALSE /\ control' = << >>
  <2>1. fda \in BOOLEAN
    BY DEF LoggerInv, LoggerTypeOK
  <2> QED
    BY <1>1, <2>1 DEF OpenData, StreamClose, deviceVars
<1>3. LoggerTypeOK' /\ Queues'
  <2>1. LoggerTypeOK'
    BY <1>1, <1>2, LoggerConstants DEF LoggerInv, LoggerTypeOK
  <2>2. Queues
    BY DEF LoggerInv
  <2>3. control' \in Seq(AnswerParts)
    <3>1. control' = control \/ control' = << >>
      BY <1>2
    <3>2. control \in Seq(AnswerParts)
      BY <2>2 DEF Queues
    <3>3. << >> \in Seq(AnswerParts)
      OBVIOUS
    <3> QED
      BY <3>1, <3>2, <3>3
  <2>4. Queues'
    BY <1>2, <2>2, <2>3 DEF Queues
  <2> QED
    BY <2>1, <2>4
<1>4. OwnPrinted'
  BY <1>2 DEF LoggerInv, OwnPrinted, Owned
<1>5. /\ Connections' /\ NothingRead' /\ Stopping' /\ Flushing' /\ Starting' /\ Streaming'
  BY <1>1, <1>2 DEF Connections, NothingRead, Stopping, Flushing, Starting, Streaming
<1>6. Earlier'
  BY <1>1, <1>2 DEF LoggerInv, Earlier
<1>7. Configuring'
  <2> SUFFICES ASSUME fdb' PROVE Configuring'
    BY DEF Configuring
  <2>1. control' = control
    BY <1>2
  <2>2. CASE Unflushed(<< Own("flush") >>)
    BY <1>1, <1>2, <2>1, <2>2 DEF Configuring, Unflushed, AnswersTo, Own
  <2>3. CASE Flushed(<< >>) /\ AnswersTo({"stop", "flush"})
    BY <1>1, <1>2, <2>1, <2>3 DEF Configuring, Flushed, AnswersTo, NoneSent
  <2> QED
    BY <1>1, <2>2, <2>3 DEF LoggerInv, Flushing
<1>8. Delivered'
  <2>1. sent' = << >> /\ data' = << >> /\ cnt' = 0
    BY <1>1, <1>2
  <2>2. PICK d \in 0..Len(sent) :
          [sync |-> sync, first |-> first, printed |-> printed] = StateAt(sent, d)
    BY <1>1 DEF LoggerInv, Delivered
  <2>3. [sync |-> sync', first |-> first', printed |-> printed'] = StateAt(sent', d) /\ d = 0
    BY <1>1, <1>2, <2>2
  <2>4. WholePackets(0, 0)'
    BY <2>1, LoggerConstants DEF WholePackets, Sampled, Before
  <2> QED
    BY <2>1, <2>3, <2>4 DEF Delivered
<1> QED
  BY <1>3, <1>4, <1>5, <1>6, <1>7, <1>8 DEF LoggerInv
LEMMA Joined ==
  ASSUME NEW S, NEW a \in Seq(S), NEW b \in Seq(S)
  PROVE  /\ a \o b \in Seq(S) /\ Len(a \o b) = Len(a) + Len(b) /\ Len(a) \in Nat /\ Len(b) \in Nat
         /\ \A i \in 1..Len(a) : (a \o b)[i] = a[i]
         /\ \A i \in 1..Len(b) : (a \o b)[Len(a) + i] = b[i]
  OBVIOUS

LEMMA Appended ==
  ASSUME NEW S, NEW q \in Seq(S), NEW e \in S
  PROVE  /\ Append(q, e) \in Seq(S) /\ Len(Append(q, e)) = Len(q) + 1 /\ Len(q) \in Nat
         /\ Append(q, e)[Len(q) + 1] = e /\ \A i \in 1..Len(q) : Append(q, e)[i] = q[i]
  OBVIOUS

LEMMA TwoOf ==
  ASSUME NEW S, NEW a \in S, NEW b \in S, NEW t \in Seq(S), Len(t) = 2, t[1] = a, t[2] = b
  PROVE  t = << a, b >>
<1>1. t = [i \in 1..2 |-> t[i]]
  OBVIOUS
<1>2. << a, b >> = [i \in 1..2 |-> IF i = 1 THEN a ELSE b]
  OBVIOUS
<1>3. \A i \in 1..2 : t[i] = IF i = 1 THEN a ELSE b
  OBVIOUS
<1> QED
  BY <1>1, <1>2, <1>3

LEMMA TwoInLine == ASSUME NEW a, NEW b PROVE Append(<< a >>, b) = << a, b >>
<1> DEFINE S == {a, b}
           q == << a >>
           t == Append(q, b)
<1>1. a \in S /\ b \in S
  OBVIOUS
<1> HIDE DEF S
<1>2. q \in Seq(S)
  BY <1>1
<1>3. Len(q) = 1 /\ q[1] = a
  OBVIOUS
<1> HIDE DEF q
<1>4. t \in Seq(S) /\ Len(t) = Len(q) + 1 /\ t[Len(q) + 1] = b /\ \A i \in 1..Len(q) : t[i] = q[i]
  BY <1>1, <1>2, Appended
<1> HIDE DEF t
<1>5. Len(t) = 2 /\ t[1] = a /\ t[2] = b
  BY <1>3, <1>4
<1>6. t = << a, b >>
  BY <1>1, <1>4, <1>5, TwoOf
<1> QED
  BY <1>6 DEF t, q

LEMMA SendCommandKeeps == ASSUME LoggerInv, SendCommand PROVE LoggerInv'
<1> DEFINE new == Own(pc)
<1>1. /\ pc \in {"stop", "flush", "config", "start"} /\ ~waiting /\ waiting \in BOOLEAN /\ fda /\ waiting' = TRUE
      /\ toDevice' = Append(toDevice, new)
      /\ UNCHANGED <<session, pc, fda, fdb, buf, cnt, sync, first, printed, stale, control, data,
                     streaming, samples, taken, sent>>
  BY LoggerConstants DEF LoggerInv, SendCommand, deviceVars, LoggerTypeOK, Own
<1>2. /\ toDevice \in Seq(Orders) /\ session \in 1..MaxSessions /\ new.session = session
      /\ new \in Orders
  BY <1>1, LoggerConstants DEF LoggerInv, LoggerTypeOK, Queues, Orders, Own
<1> HIDE DEF new
<1>3. LoggerTypeOK' /\ Queues'
  <2>1. LoggerTypeOK'
    BY <1>1, LoggerConstants DEF LoggerInv, LoggerTypeOK
  <2>2. Queues'
    BY <1>1, <1>2 DEF LoggerInv, Queues
  <2> QED
    BY <2>1, <2>2
<1>4. OwnPrinted' /\ Connections' /\ NothingRead'
  BY <1>1 DEF LoggerInv, OwnPrinted, Owned, Connections, NothingRead
<1>5. /\ toDevice' \in Seq(Orders) /\ Len(toDevice') = Len(toDevice) + 1 /\ Len(toDevice) \in Nat
      /\ toDevice'[Len(toDevice')] = new /\ \A i \in 1..Len(toDevice) : toDevice'[i] = toDevice[i]
  BY <1>1, <1>2
<1>6. Earlier'
  <2>1. \A i \in DOMAIN toDevice' : i \in DOMAIN toDevice \/ i = Len(toDevice')
    BY <1>5
  <2> QED
    BY <1>1, <1>2, <1>5, <2>1 DEF LoggerInv, Earlier
<1>7. toDevice = << >> => toDevice' = << new >>
  BY <1>1
<1>8. Stopping'
  <2> SUFFICES ASSUME pc = "stop" PROVE Stopping'
    BY <1>1 DEF Stopping
  <2>1. control = << >> /\ \A i \in DOMAIN toDevice : toDevice[i].session < session
    BY <1>1 DEF LoggerInv, Stopping
  <2>2. toDevice' # << >> /\ toDevice'[Len(toDevice')] = Own("stop")'
    BY <1>1, <1>5 DEF new, Own
  <2>3. \A i \in 1..(Len(toDevice') - 1) : toDevice'[i].session < session'
    <3>1. Len(toDevice') - 1 = Len(toDevice)
      BY <1>5
    <3> QED
      BY <1>1, <1>5, <2>1, <3>1
  <2> QED
    BY <1>1, <2>1, <2>2, <2>3 DEF Stopping
<1>9. Flushing'
  BY <1>1, <1>7 DEF LoggerInv, Flushing, Unflushed, AnswersTo, new, Own
<1>10. Configuring'
  <2> SUFFICES ASSUME pc = "config", fdb PROVE Configuring'
    BY <1>1 DEF Configuring
  <2>1. CASE Unflushed(<< Own("flush") >>)
    <3>1. toDevice' = << Own("flush"), Own("config") >> /\ Own("flush")' = Own("flush") /\ Own("config")' = Own("config")
      <4>1. toDevice = << Own("flush") >> /\ new = Own("config")
        BY <1>1, <2>1 DEF Unflushed, new, Own
      <4>2. Append(<< Own("flush") >>, Own("config")) = << Own("flush"), Own("config") >>
        BY TwoInLine
      <4> QED
        BY <1>1, <4>1, <4>2 DEF Own
    <3> QED
      BY <1>1, <2>1, <3>1 DEF Configuring, Unflushed, AnswersTo
  <2>2. CASE Flushed(<< >>) /\ AnswersTo({"stop", "flush"}) /\ (NoneSent \/ InTheWay)
    <3>1. toDevice' = << Own("config") >> /\ Own("config")' = Own("config")
      BY <1>1, <1>7, <2>2 DEF Flushed, new, Own
    <3> QED
      BY <1>1, <2>2, <3>1 DEF Configuring, Flushed, AnswersTo, NoneSent, InTheWay
  <2> QED
    BY <1>1, <2>1, <2>2 DEF LoggerInv, Configuring
<1>11. Starting'
  <2> SUFFICES ASSUME pc = "start", fdb PROVE Starting'
    BY <1>1 DEF Starting
  <2>1. Flushed(<< >>) /\ AnswersTo({"stop", "flush", "config"}) /\ NoneSent
    BY <1>1 DEF LoggerInv, Starting
  <2>2. toDevice' = << Own("start") >> /\ Own("start")' = Own("start")
    BY <1>1, <1>7, <2>1 DEF Flushed, new, Own
  <2> QED
    BY <1>1, <2>1, <2>2 DEF Starting, Flushed, AnswersTo, NoneSent
<1>12. Streaming'
  BY <1>1 DEF Streaming
<1>13. Delivered'
  BY <1>1, DeliveredStays DEF LoggerInv
<1> QED
  BY <1>3, <1>4, <1>6, <1>8, <1>9, <1>10, <1>11, <1>12, <1>13 DEF LoggerInv
\* Whatever is known of all parts of answers is known of those that recv takes and leaves.
LEMMA AnswersLeft ==
  ASSUME control \in Seq(AnswerParts), NEW n \in Nat, NEW got, NEW left,
         [got |-> got, left |-> left] \in Recv(control, n)
  PROVE  /\ left \in Seq(AnswerParts) /\ control # << >> /\ got[1] = control[1] /\ 1 \in DOMAIN control
         /\ \A C : AnswersTo(C) => \A i \in DOMAIN left : left[i].cmd \in C
<1>1. PICK k \in 1..n : Splits(AnswerParts, control, k, got, left)
  BY Received
<1>2. /\ k \in Nat /\ 1 <= k /\ k <= Len(control) /\ left \in Seq(AnswerParts) /\ Len(control) \in Nat
      /\ got[1] = control[1] /\ Len(left) = Len(control) - k
      /\ \A j \in 1..(Len(control) - k) : left[j] = control[j + k]
  BY <1>1 DEF Splits
<1>3. \A j \in DOMAIN left : j + k \in DOMAIN control /\ left[j] = control[j + k]
  BY <1>2
<1>4. control # << >> /\ 1 \in DOMAIN control
  BY <1>2
<1> QED
  BY <1>2, <1>3, <1>4 DEF AnswersTo

LEMMA WantedParts == \A c \in {"stop", "flush", "config", "start"} : Wanted[c] \in Nat
BY DEF Wanted, AnswerLen

LEMMA ReceiveAnswerKeeps == ASSUME LoggerInv, ReceiveAnswer PROVE LoggerInv'
<1>1. waiting /\ pc \in {"stop", "flush", "config", "start"} /\ fda /\ fda = TRUE /\ fdb \in BOOLEAN
      /\ session \in 1..MaxSessions /\ control \in Seq(AnswerParts) /\ first /\ data \in Seq(Sample)
  BY LoggerConstants DEF LoggerInv, ReceiveAnswer, LoggerTypeOK, Queues, NothingRead
<1>2. PICK r \in Recv(control, Wanted[pc]) : \E ok \in Verdicts(pc, r.got) :
        /\ Return(ok)
        /\ control' = IF ~ok /\ pc \in {"config", "start"} THEN << >> ELSE r.left
  BY DEF ReceiveAnswer
<1>3. PICK ok \in Verdicts(pc, r.got) :
        Return(ok) /\ control' = IF ~ok /\ pc \in {"config", "start"} THEN << >> ELSE r.left
  BY <1>2
<1>4. PICK got, left : r = [got |-> got, left |-> left]
  BY <1>2 DEF Recv
<1>5. /\ left \in Seq(AnswerParts) /\ control # << >> /\ got[1] = control[1] /\ 1 \in DOMAIN control
      /\ \A C : AnswersTo(C) => \A i \in DOMAIN left : left[i].cmd \in C
  BY <1>1, <1>2, <1>4, AnswersLeft, WantedParts
<1>6. r.got = got /\ r.left = left
  BY <1>4
<1>7. UNCHANGED <<session, buf, cnt, sync, first, printed, stale, toDevice, streaming, samples, taken, sent>>
  BY DEF ReceiveAnswer, deviceVars
<1>8. pc' = NextCall[pc] /\ waiting' = FALSE
  BY <1>3 DEF Return
<1>9. \/ /\ ~ok /\ pc \in {"config", "start"}
         /\ fda' = FALSE /\ fdb' = FALSE /\ control' = << >> /\ data' = << >>
      \/ /\ ok \/ pc \in {"stop", "flush"}
         /\ fda' = fda /\ fdb' = fdb /\ data' = data /\ control' = left
  BY <1>1, <1>3, <1>6 DEF Return, StreamClose
<1>10. ok => pc \in {"stop", "flush"} \/ control[1].cmd = pc
  BY <1>1, <1>3, <1>5, <1>6 DEF Verdicts
<1>11. /\ pc = "stop" => pc' = "flush"
       /\ pc = "flush" => pc' = "openData"
       /\ pc = "config" => pc' = "start"
       /\ pc = "start" => pc' = "data"
  BY <1>8 DEF NextCall
<1>12. LoggerTypeOK' /\ Queues'
  <2>1. LoggerTypeOK'
    <3>1. {waiting', fda', fdb'} \subseteq BOOLEAN /\ (fdb' => fda')
      BY <1>1, <1>8, <1>9 DEF LoggerInv, LoggerTypeOK
    <3>2. pc' \in {"flush", "openData", "start", "data"}
      BY <1>1, <1>11
    <3> QED
      BY <1>1, <1>7, <1>8, <3>1, <3>2, LoggerConstants DEF LoggerInv, LoggerTypeOK
  <2>2. << >> \in Seq(AnswerParts) /\ << >> \in Seq(Sample)
    OBVIOUS
  <2>3. control' \in Seq(AnswerParts) /\ data' \in Seq(Sample)
    BY <1>1, <1>5, <1>9, <2>2
  <2>4. Queues'
    BY <1>7, <2>3 DEF LoggerInv, Queues
  <2> QED
    BY <2>1, <2>4
<1>13. OwnPrinted' /\ Earlier'
  BY <1>1, <1>7, <1>11 DEF LoggerInv, OwnPrinted, Owned, Earlier
<1>14. Connections' /\ NothingRead'
  <2>1. NothingRead'
    <3>1. pc \notin {"data", "broken", "exit"}
      BY <1>1
    <3>2. pc' = "openData" \/ pc' = "flush" => pc \in {"open", "stop", "flush", "openData"}
      BY <1>1, <1>11
    <3>3. pc' \in {"open", "stop"} => FALSE
      BY <1>1, <1>11
    <3> QED
      BY <1>7, <3>1, <3>2, <3>3 DEF LoggerInv, NothingRead
  <2>2. Connections
    BY DEF LoggerInv
  <2>3. CASE ~ok /\ pc \in {"config", "start"}
    <3>1. ~fda' /\ ~fdb' /\ control' = << >> /\ data' = << >>
      BY <1>9, <2>3
    <3>2. pc' = "start" \/ pc' = "data"
      BY <1>11, <2>3
    <3> QED
      BY <2>1, <3>1, <3>2 DEF Connections
  <2>4. CASE ok \/ pc \in {"stop", "flush"}
    <3>1. fda' = TRUE /\ fdb' = fdb /\ data' = data
      BY <1>1, <1>9, <2>4
    <3>2. pc \in {"config", "start"} => fdb
      BY <1>1, <2>2 DEF Connections
    <3>3. pc \in {"stop", "flush"} => ~fdb
      BY <2>2 DEF Connections
    <3> QED
      <4>1. \/ (pc' = "start" \/ pc' = "data") /\ fdb
            \/ (pc' = "flush" \/ pc' = "openData") /\ ~fdb
        BY <1>1, <1>11, <3>2, <3>3
      <4>2. ~fdb' => data' = << >>
        BY <2>2, <3>1 DEF Connections
      <4> QED
        BY <2>1, <3>1, <4>1, <4>2 DEF Connections
  <2> QED
    BY <1>9, <2>1, <2>3, <2>4
<1>15. Stopping' /\ Configuring'
  BY <1>1, <1>11 DEF Stopping, Configuring
<1>16. Flushing'
  <2>1. CASE pc = "stop"
    <3>1. Unflushed(<< >>)
      BY <1>1, <1>5, <2>1 DEF LoggerInv, Stopping
    <3> QED
      BY <1>5, <1>7, <1>8, <1>9, <1>11, <2>1, <3>1 DEF Flushing, Unflushed, AnswersTo
  <2>2. CASE pc = "flush"
    <3>1. CASE Unflushed(<< Own("flush") >>)
      BY <1>5, <1>7, <1>9, <1>11, <2>2, <3>1 DEF Flushing, Unflushed, AnswersTo, Own
    <3>2. CASE Flushed(<< >>) /\ AnswersTo({"stop", "flush"})
      BY <1>5, <1>7, <1>9, <1>11, <2>2, <3>2 DEF Flushing, Flushed, AnswersTo
    <3> QED
      BY <1>1, <2>2, <3>1, <3>2 DEF LoggerInv, Flushing
  <2> QED
    BY <1>1, <1>11, <2>1, <2>2 DEF Flushing
<1>17. Starting'
  <2> SUFFICES ASSUME pc = "config", ok, fdb PROVE Starting'
    BY <1>1, <1>9, <1>11 DEF Starting
  <2>1. control[1].cmd = "config"
    BY <1>10
  <2>2. \A C : AnswersTo(C) => "config" \in C
    BY <1>5, <2>1 DEF AnswersTo
  <2>3. ~InTheWay
    BY <2>1 DEF InTheWay
  <2>4. Flushed(<< >>) /\ AnswersTo({"stop", "flush", "config"}) /\ NoneSent
    BY <1>1, <2>2, <2>3 DEF LoggerInv, Configuring, Unflushed
  <2> QED
    BY <1>5, <1>7, <1>8, <1>9, <2>4 DEF Starting, Flushed, AnswersTo, NoneSent
<1>18. Streaming'
  <2> SUFFICES ASSUME pc = "start", ok, fdb PROVE Streaming'
    BY <1>1, <1>9, <1>11 DEF Streaming
  <2>1. control[1].cmd = "start"
    BY <1>10
  <2>2. ~AnswersTo({"stop", "flush", "config"})
    BY <1>5, <2>1 DEF AnswersTo
  <2>3. OwnStream
    BY <2>2 DEF LoggerInv, Starting
  <2> QED
    BY <1>7, <1>9, <2>3 DEF Streaming, OwnStream, Owned
<1>19. Delivered'
  <2>1. fdb' => fdb /\ data' = data
    BY <1>1, <1>9
  <2> QED
    BY <1>7, <2>1, DeliveredStays DEF LoggerInv
<1> QED
  BY <1>12, <1>13, <1>14, <1>15, <1>16, <1>17, <1>18, <1>19 DEF LoggerInv

LEMMA CallClosedKeeps == ASSUME LoggerInv, CallClosed PROVE LoggerInv'
<1>1. pc \in {"config", "start"} /\ ~waiting /\ ~fda /\ ~fdb /\ control = << >> /\ data = << >> /\ first
      /\ waiting \in BOOLEAN /\ fda \in BOOLEAN /\ fdb \in BOOLEAN
  BY DEF LoggerInv, CallClosed, LoggerTypeOK, Connections, NothingRead
<1>2. PICK ok \in {FALSE, pc = "config"} : Return(ok)
  BY DEF CallClosed
<1>3. UNCHANGED <<session, buf, cnt, sync, first, printed, stale, toDevice, control, streaming, samples,
                  taken, sent>>
  BY DEF CallClosed, deviceVars
<1>4. fda' = FALSE /\ fdb' = FALSE /\ data' = << >> /\ waiting' = FALSE
  BY <1>1, <1>2 DEF Return, StreamClose
<1>5. pc' \in {"start", "data"}
  BY <1>1, <1>2 DEF Return, NextCall
<1>6. LoggerTypeOK' /\ Queues'
  <2>1. LoggerTypeOK'
    BY <1>1, <1>3, <1>4, <1>5, LoggerConstants DEF LoggerInv, LoggerTypeOK
  <2>2. data' = data
    BY <1>1, <1>4
  <2>3. Queues'
    BY <1>3, <2>2 DEF LoggerInv, Queues
  <2> QED
    BY <2>1, <2>3
<1>7. OwnPrinted' /\ Earlier'
  BY <1>3, <1>5 DEF LoggerInv, OwnPrinted, Owned, Earlier
<1>8. Connections' /\ NothingRead'
  BY <1>1, <1>3, <1>4, <1>5 DEF LoggerInv, Connections, NothingRead
<1>9. Stopping' /\ Flushing' /\ Configuring' /\ Starting' /\ Streaming'
  BY <1>4, <1>5 DEF Stopping, Flushing, Configuring, Starting, Streaming
<1>10. Delivered'
  BY <1>3, <1>4, DeliveredStays DEF LoggerInv
<1> QED
  BY <1>6, <1>7, <1>8, <1>9, <1>10 DEF LoggerInv
LEMMA OwnedSamples == Owned \subseteq Sample
BY DEF Owned

\* A sequence over a set is one over any larger set.
LEMMA SeqWidens == ASSUME NEW S, NEW T, S \subseteq T, NEW q \in Seq(S) PROVE q \in Seq(T)
<1>1. \A i \in 1..Len(q) : q[i] \in T
  OBVIOUS
<1> QED
  BY <1>1

LEMMA ReceiveFailsKeeps == ASSUME LoggerInv, ReceiveFails PROVE LoggerInv'
<1>1. /\ pc = "data" /\ ~fdb /\ stale < MaxStale /\ stale' = stale + 1 /\ PrintPacket(buf)
      /\ UNCHANGED <<session, pc, waiting, fda, fdb, buf, cnt, toDevice, control, data, streaming,
                     samples, taken, sent>>
  BY DEF ReceiveFails, deviceVars
<1>2. buf \in [1..PacketLen -> Owned] /\ printed \in Seq(Lines(Owned)) /\ sync \in BOOLEAN /\ first \in BOOLEAN
      /\ stale \in Nat
  BY LoggerConstants DEF LoggerInv, OwnPrinted, LoggerTypeOK
<1>3. sync' \in BOOLEAN /\ first' = FALSE /\ printed' \in Seq(Lines(Owned))
  BY <1>1, <1>2, OwnedSamples, PacketPrints
<1>4. LoggerTypeOK' /\ Queues'
  <2>1. stale' \in 0..MaxStale /\ stale' # 0
    BY <1>1, <1>2, LoggerConstants
  <2>2. LoggerTypeOK'
    BY <1>1, <1>3, <2>1 DEF LoggerInv, LoggerTypeOK
  <2>3. Queues'
    BY <1>1 DEF LoggerInv, Queues
  <2> QED
    BY <2>2, <2>3
<1>5. OwnPrinted'
  BY <1>1, <1>2, <1>3 DEF OwnPrinted, Owned
<1>6. Connections' /\ NothingRead' /\ Earlier'
  BY <1>1 DEF LoggerInv, Connections, NothingRead, Earlier
<1>7. Stopping' /\ Flushing' /\ Configuring' /\ Starting' /\ Streaming'
  BY <1>1 DEF Stopping, Flushing, Configuring, Starting, Streaming
<1>8. Delivered'
  <2>1. stale' # 0
    BY <1>1, <1>2
  <2> QED
    BY <2>1 DEF Delivered
<1> QED
  BY <1>4, <1>5, <1>6, <1>7, <1>8 DEF LoggerInv

LEMMA ConnectionBreaksKeeps == ASSUME LoggerInv, ConnectionBreaks PROVE LoggerInv'
<1>1. /\ pc = "data" /\ pc' = "broken" /\ fdb' = FALSE /\ data' = << >>
      /\ UNCHANGED <<session, waiting, fda, buf, cnt, toDevice, control, streaming, samples, taken, sent>>
  BY DEF ConnectionBreaks, deviceVars
<1>2. buf \in [1..PacketLen -> Owned] /\ printed \in Seq(Lines(Owned)) /\ sync \in BOOLEAN /\ first \in BOOLEAN
      /\ stale \in 0..MaxStale /\ waiting = FALSE
  BY <1>1 DEF LoggerInv, OwnPrinted, LoggerTypeOK, NextCall
<1>3. \/ UNCHANGED <<sync, first, printed, stale>>
      \/ stale < MaxStale /\ stale' = stale + 1 /\ PrintPacket(buf)
  BY DEF ConnectionBreaks
<1>4. /\ sync' \in BOOLEAN /\ first' \in BOOLEAN /\ printed' \in Seq(Lines(Owned)) /\ stale' \in 0..MaxStale
      /\ stale' = 0 => UNCHANGED <<sync, first, printed, stale>>
  <2>1. CASE UNCHANGED <<sync, first, printed, stale>>
    BY <1>2, <2>1
  <2>2. CASE stale < MaxStale /\ stale' = stale + 1 /\ PrintPacket(buf)
    <3>1. sync' \in BOOLEAN /\ first' = FALSE /\ printed' \in Seq(Lines(Owned))
      BY <1>2, <2>2, OwnedSamples, PacketPrints
    <3>2. stale' \in 0..MaxStale /\ stale' # 0
      BY <1>2, <2>2, LoggerConstants
    <3> QED
      BY <3>1, <3>2
  <2> QED
    BY <1>3, <2>1, <2>2
<1>5. LoggerTypeOK' /\ Queues'
  <2>1. LoggerTypeOK'
    BY <1>1, <1>2, <1>4 DEF LoggerInv, LoggerTypeOK
  <2>2. << >> \in Seq(Sample)
    OBVIOUS
  <2>3. Queues'
    BY <1>1, <2>2 DEF LoggerInv, Queues
  <2> QED
    BY <2>1, <2>3
<1>6. OwnPrinted'
  BY <1>1, <1>2, <1>4 DEF OwnPrinted, Owned
<1>7. Connections' /\ NothingRead' /\ Earlier'
  BY <1>1 DEF LoggerInv, Connections, NothingRead, Earlier
<1>8. Stopping' /\ Flushing' /\ Configuring' /\ Starting' /\ Streaming'
  BY <1>1 DEF Stopping, Flushing, Configuring, Starting, Streaming
<1>9. Delivered'
  BY <1>1, <1>4 DEF LoggerInv, Delivered
<1> QED
  BY <1>5, <1>6, <1>7, <1>8, <1>9 DEF LoggerInv

LEMMA CleanupKeeps == ASSUME LoggerInv, cleanup PROVE LoggerInv'
<1>1. /\ pc' = "exit" /\ waiting' = FALSE /\ fda' = FALSE /\ fdb' = FALSE /\ control' = << >> /\ data' = << >>
      /\ UNCHANGED <<session, buf, cnt, sync, first, printed, stale, toDevice, streaming, samples, taken, sent>>
  BY DEF cleanup, StreamClose, deviceVars
<1>2. LoggerTypeOK' /\ Queues'
  <2>1. LoggerTypeOK'
    BY <1>1 DEF LoggerInv, LoggerTypeOK
  <2>2. << >> \in Seq(AnswerParts) /\ << >> \in Seq(Sample)
    OBVIOUS
  <2>3. Queues'
    BY <1>1, <2>2 DEF LoggerInv, Queues
  <2> QED
    BY <2>1, <2>3
<1>3. OwnPrinted' /\ Connections' /\ NothingRead' /\ Earlier'
  BY <1>1 DEF LoggerInv, OwnPrinted, Owned, Connections, NothingRead, Earlier
<1>4. Stopping' /\ Flushing' /\ Configuring' /\ Starting' /\ Streaming'
  BY <1>1 DEF Stopping, Flushing, Configuring, Starting, Streaming
<1>5. Delivered'
  BY <1>1, DeliveredStays DEF LoggerInv
<1> QED
  BY <1>2, <1>3, <1>4, <1>5 DEF LoggerInv

LEMMA StartAgainKeeps == ASSUME LoggerInv, StartAgain PROVE LoggerInv'
<1>1. /\ pc = "exit" /\ session < MaxSessions /\ session' = session + 1 /\ pc' = "open"
      /\ buf' = [i \in 1..PacketLen |-> Filler] /\ cnt' = 0 /\ sync' = FALSE /\ first' = TRUE
      /\ printed' = << >> /\ stale' = 0 /\ sent' = << >>
      /\ UNCHANGED <<waiting, fda, fdb, toDevice, control, data, streaming, samples, taken>>
  BY DEF StartAgain, deviceVars
<1>2. /\ session \in 1..MaxSessions /\ streaming \in 0..session /\ toDevice \in Seq(Orders)
      /\ ~fda /\ ~fdb /\ ~waiting /\ control = << >> /\ data = << >> /\ Queues /\ waiting \in BOOLEAN
      /\ \A i \in DOMAIN toDevice : toDevice[i].session <= session
  BY <1>1, LoggerConstants DEF LoggerInv, LoggerTypeOK, Queues, Connections, Earlier
<1>3. LoggerTypeOK' /\ Queues'
  <2>1. session' \in 1..MaxSessions /\ streaming' \in 0..session' /\ cnt' \in 0..(PacketLen - 1) /\ stale' \in 0..MaxStale
    BY <1>1, <1>2, LoggerConstants
  <2>2. LoggerTypeOK'
    BY <1>1, <1>2, <2>1 DEF LoggerInv, LoggerTypeOK
  <2>3. << >> \in Seq(Sample)
    OBVIOUS
  <2>4. Queues'
    BY <1>1, <1>2, <2>3 DEF Queues
  <2> QED
    BY <2>2, <2>4
<1>4. OwnPrinted'
  <2>1. Filler \in Owned'
    BY DEF Owned, Filler, Sample
  <2>2. buf' \in [1..PacketLen -> Owned']
    BY <1>1, <2>1
  <2>3. << >> \in Seq(Lines(Owned'))
    OBVIOUS
  <2> QED
    BY <1>1, <2>2, <2>3 DEF OwnPrinted
<1>5. Connections' /\ NothingRead'
  BY <1>1, <1>2 DEF Connections, NothingRead
<1>6. Earlier'
  <2>1. \A i \in DOMAIN toDevice : toDevice[i].session \in Nat
    <3>1. \A i \in DOMAIN toDevice : toDevice[i] \in Orders
      BY <1>2
    <3>2. \A r \in Orders : r.session \in Nat
      BY DEF Orders
    <3> QED
      BY <3>1, <3>2
  <2>2. \A i \in DOMAIN toDevice : toDevice[i].session < session + 1 /\ toDevice[i].session <= session + 1
    BY <1>2, <2>1
  <2> QED
    BY <1>1, <2>2 DEF Earlier
<1>7. Stopping' /\ Flushing' /\ Configuring' /\ Starting' /\ Streaming'
  BY <1>1 DEF Stopping, Flushing, Configuring, Starting, Streaming
<1>8. Delivered'
  <2>1. [sync |-> sync', first |-> first', printed |-> printed'] = StateAt(sent', 0)
    BY <1>1, NothingPrinted
  <2>2. ~fdb' /\ 0 \in 0..Len(sent')
    BY <1>1, <1>2
  <2> QED
    BY <2>1, <2>2 DEF Delivered
<1> QED
  BY <1>3, <1>4, <1>5, <1>6, <1>7, <1>8 DEF LoggerInv

LEMMA TakeSampleKeeps == ASSUME LoggerInv, TakeSample PROVE LoggerInv'
<1>1. /\ streaming # 0 /\ taken < MaxSamples /\ taken' = taken + 1
      /\ UNCHANGED <<session, pc, waiting, fda, fdb, buf, cnt, sync, first, printed, stale,
                     toDevice, control, data, streaming, sent>>
  BY DEF TakeSample, programVars
<1>2. PICK start \in BOOLEAN :
        samples' = Append(samples, [session |-> streaming, start |-> start, n |-> taken'])
  BY DEF TakeSample
<1> DEFINE new == [session |-> streaming, start |-> start, n |-> taken']
<1>3. streaming \in Nat /\ taken \in Nat /\ session \in Nat /\ samples \in Seq(Sample) /\ taken' \in 0..MaxSamples
  BY <1>1, LoggerConstants DEF LoggerInv, LoggerTypeOK, Queues
<1>4. new \in Sample /\ new.session = streaming
  BY <1>1, <1>3, LoggerConstants DEF Sample
<1> HIDE DEF new
<1>5. samples' = Append(samples, new)
  BY <1>2 DEF new
<1>6. LoggerTypeOK' /\ Queues'
  <2>1. LoggerTypeOK'
    BY <1>1, <1>3 DEF LoggerInv, LoggerTypeOK
  <2>2. samples' \in Seq(Sample)
    BY <1>3, <1>4, <1>5
  <2>3. Queues'
    BY <1>1, <2>2 DEF LoggerInv, Queues
  <2> QED
    BY <2>1, <2>3
<1>7. OwnPrinted' /\ Connections' /\ NothingRead' /\ Earlier'
  BY <1>1 DEF LoggerInv, OwnPrinted, Owned, Connections, NothingRead, Earlier
<1>8. \A q : ~Unflushed(q) /\ ~Flushed(q)
  BY <1>1 DEF Unflushed, Flushed
<1>9. Stopping' /\ Flushing' /\ Configuring'
  BY <1>1, <1>8 DEF LoggerInv, Stopping, Flushing, Configuring, Own
<1>10. OwnStream => OwnStream'
  <2> SUFFICES ASSUME OwnStream PROVE OwnStream'
    OBVIOUS
  <2>1. new \in Owned
    BY <1>1, <1>4 DEF OwnStream, Owned
  <2>2. samples \in Seq(Owned)
    BY DEF OwnStream
  <2>3. samples' \in Seq(Owned)
    BY <1>5, <2>1, <2>2
  <2>4. Owned' = Owned
    BY <1>1 DEF Owned
  <2> QED
    BY <1>1, <2>3, <2>4 DEF OwnStream
<1>11. Starting' /\ Streaming'
  BY <1>1, <1>8, <1>10 DEF LoggerInv, Starting, Streaming
<1>12. Delivered'
  BY <1>1, DeliveredStays DEF LoggerInv
<1> QED
  BY <1>6, <1>7, <1>9, <1>11, <1>12 DEF LoggerInv
LEMMA TailOf ==
  ASSUME NEW S, NEW q \in Seq(S), q # << >>
  PROVE  /\ Tail(q) \in Seq(S) /\ Len(q) \in Nat \ {0} /\ Len(Tail(q)) = Len(q) - 1
         /\ \A i \in 1..(Len(q) - 1) : Tail(q)[i] = q[i + 1]
         /\ Head(q) = q[1] /\ q[1] \in S /\ 1 \in DOMAIN q
  OBVIOUS

LEMMA OneOf ==
  ASSUME NEW S, NEW b \in S, NEW t \in Seq(S), Len(t) = 1, t[1] = b
  PROVE  t = << b >>
<1>1. t = [i \in 1..1 |-> t[i]] /\ 1..1 = {1}
  OBVIOUS
<1>2. << b >> = [i \in 1..1 |-> b]
  OBVIOUS
<1> QED
  BY <1>1, <1>2

LEMMA EmptyOf == ASSUME NEW S, NEW t \in Seq(S), Len(t) = 0 PROVE t = << >>
  OBVIOUS

\* What Obey leaves of one or two commands.
LEMMA TailOfTwo == ASSUME NEW a, NEW b PROVE Tail(<< a >>) = << >> /\ Tail(<< a, b >>) = << b >>
<1> DEFINE S == {a, b}
           one == << a >>
           two == << a, b >>
<1>1. one \in Seq(S) /\ two \in Seq(S) /\ one # << >> /\ two # << >> /\ Len(one) = 1 /\ Len(two) = 2 /\ two[2] = b
  OBVIOUS
<1>2. b \in S
  OBVIOUS
<1> HIDE DEF S, one, two
<1>3. Tail(one) \in Seq(S) /\ Len(Tail(one)) = 0 /\ Tail(two) \in Seq(S) /\ Len(Tail(two)) = 1 /\ Tail(two)[1] = b
  <2>1. Tail(one) \in Seq(S) /\ Len(Tail(one)) = Len(one) - 1
    BY <1>1, TailOf
  <2>2. /\ Tail(two) \in Seq(S) /\ Len(Tail(two)) = Len(two) - 1
        /\ \A i \in 1..(Len(two) - 1) : Tail(two)[i] = two[i + 1]
    BY <1>1, TailOf
  <2> QED
    BY <1>1, <2>1, <2>2
<1>4. Tail(one) = << >>
  BY <1>3, EmptyOf
<1>5. Tail(two) = << b >>
  BY <1>2, <1>3, OneOf
<1> QED
  BY <1>4, <1>5 DEF one, two

\* The answer to a command joins those that the program has not read.
LEMMA AnswerJoins ==
  ASSUME control \in Seq(AnswerParts), NEW cmd \in DOMAIN NextCall, NEW err \in 0..1,
         control' = control \o Answer(cmd, err)
  PROVE  /\ control' \in Seq(AnswerParts) /\ 1 \in DOMAIN control' /\ control' # << >>
         /\ control # << >> => control'[1] = control[1]
         /\ \A C : AnswersTo(C) /\ cmd \in C => AnswersTo(C)'
<1> DEFINE new == Answer(cmd, err)
<1>1. new \in Seq(AnswerParts) /\ Len(new) \in Nat \ {0} /\ \A i \in 1..Len(new) : new[i].cmd = cmd
  <2>1. AnswerLen[cmd] \in 1..4
    BY LoggerConstants DEF AnswerLen
  <2>2. \A i \in 1..AnswerLen[cmd] : i \in 1..4
    BY <2>1
  <2>3. \A i \in 1..AnswerLen[cmd] : [cmd |-> cmd, i |-> i, err |-> err] \in AnswerParts
    BY <2>2 DEF AnswerParts
  <2>4. new = [i \in 1..AnswerLen[cmd] |-> [cmd |-> cmd, i |-> i, err |-> err]]
    BY DEF Answer
  <2> HIDE DEF new
  <2>5. new \in [1..AnswerLen[cmd] -> AnswerParts]
    BY <2>3, <2>4
  <2>6. new \in Seq(AnswerParts) /\ Len(new) = AnswerLen[cmd]
    <3> DEFINE n == AnswerLen[cmd]
    <3>1. n \in Nat /\ new \in [1..n -> AnswerParts]
      BY <2>1, <2>5
    <3> HIDE DEF n
    <3>2. new \in Seq(AnswerParts) /\ Len(new) = n
      BY <3>1
    <3> QED
      BY <3>2 DEF n
  <2> QED
    BY <2>1, <2>4, <2>6
<1> HIDE DEF new
<1>2. control' = control \o new
  BY DEF new
<1>3. /\ control' \in Seq(AnswerParts) /\ Len(control') = Len(control) + Len(new) /\ Len(control) \in Nat
      /\ \A i \in 1..Len(control) : control'[i] = control[i]
      /\ \A i \in 1..Len(new) : control'[Len(control) + i] = new[i]
  BY <1>1, <1>2, Joined
<1>4. 1 \in DOMAIN control' /\ control' # << >>
  BY <1>1, <1>3
<1>5. control # << >> => control'[1] = control[1]
  BY <1>3
<1>6. \A i \in DOMAIN control' :
        \/ i \in DOMAIN control /\ control'[i] = control[i]
        \/ control'[i].cmd = cmd
  <2> TAKE i \in DOMAIN control'
  <2>1. CASE i <= Len(control)
    BY <1>3, <2>1
  <2>2. CASE ~(i <= Len(control))
    <3>1. i - Len(control) \in 1..Len(new) /\ Len(control) + (i - Len(control)) = i
      BY <1>1, <1>3, <2>2
    <3> QED
      BY <1>1, <1>3, <3>1
  <2> QED
    BY <2>1, <2>2
<1> QED
  BY <1>3, <1>4, <1>5, <1>6 DEF AnswersTo

LEMMA ObeyKeeps == ASSUME LoggerInv, Obey PROVE LoggerInv'
<1> DEFINE req == Head(toDevice)
<1>1. /\ toDevice # << >> /\ toDevice' = Tail(toDevice)
      /\ UNCHANGED <<session, pc, waiting, fda, fdb, buf, cnt, sync, first, printed, stale,
                     data, taken, sent>>
  BY DEF Obey, programVars
<1>2. PICK err \in 0..1 :
        /\ streaming' = CASE req.cmd = "stop" -> 0
                          [] req.cmd = "start" /\ err = 0 -> req.session
                          [] OTHER -> streaming
        /\ samples' = IF req.cmd = "flush" THEN << >> ELSE samples
        /\ control' = IF fda /\ req.session = session THEN control \o Answer(req.cmd, err) ELSE control
  BY DEF Obey
<1>3. Queues /\ toDevice \in Seq(Orders)
  BY DEF LoggerInv, Queues
<1>4. /\ toDevice' \in Seq(Orders) /\ Len(toDevice) \in Nat \ {0} /\ Len(toDevice') = Len(toDevice) - 1
      /\ \A i \in 1..(Len(toDevice) - 1) : toDevice'[i] = toDevice[i + 1]
      /\ req = toDevice[1] /\ req \in Orders /\ 1 \in DOMAIN toDevice
  BY <1>1, <1>3, TailOf
<1> HIDE DEF req
<1>5. \A i \in DOMAIN toDevice' : i + 1 \in DOMAIN toDevice /\ toDevice'[i] = toDevice[i + 1]
  BY <1>4
<1>6. /\ session \in 1..MaxSessions /\ streaming \in 0..session /\ control \in Seq(AnswerParts)
      /\ req.cmd \in DOMAIN NextCall /\ req.session \in Nat /\ req.session <= session
  <2>1. \A r \in Orders : r.cmd \in DOMAIN NextCall /\ r.session \in Nat
    BY DEF Orders
  <2> QED
    BY <1>4, <2>1 DEF LoggerInv, LoggerTypeOK, Queues, Earlier
<1>7. /\ streaming' \in 0..session
      /\ req.cmd = "stop" => streaming' = 0
      /\ req.cmd \in {"flush", "config"} => streaming' = streaming
  BY <1>2, <1>6
\* The answer joins the others only if this session sent the command.
<1>8. /\ control' \in Seq(AnswerParts)
      /\ ~(fda /\ req.session = session) => control' = control
      /\ control # << >> => control' # << >> /\ control'[1] = control[1]
      /\ \A C : AnswersTo(C) /\ req.cmd \in C => AnswersTo(C)'
      /\ fda /\ req.session = session /\ control = << >> /\ req.cmd = "flush" =>
           control' # << >> /\ control'[1].cmd = "flush"
  <2>1. CASE ~(fda /\ req.session = session)
    <3>1. control' = control
      BY <1>2, <2>1
    <3> QED
      BY <1>6, <2>1, <3>1 DEF AnswersTo
  <2>2. CASE fda /\ req.session = session
    <3>1. control' = control \o Answer(req.cmd, err)
      BY <1>2, <2>2
    <3>2. /\ control' \in Seq(AnswerParts) /\ 1 \in DOMAIN control' /\ control' # << >>
          /\ control # << >> => control'[1] = control[1]
          /\ \A C : AnswersTo(C) /\ req.cmd \in C => AnswersTo(C)'
      BY <1>6, <3>1, AnswerJoins
    <3>3. PICK c : c = req.cmd
      OBVIOUS
    <3>4. control = << >> => AnswersTo({c})
      BY DEF AnswersTo
    <3>5. control = << >> => AnswersTo({c})'
      BY <3>2, <3>3, <3>4
    <3>6. control = << >> => control'[1].cmd = req.cmd
      BY <3>2, <3>3, <3>5 DEF AnswersTo
    <3> QED
      BY <2>2, <3>2, <3>6
  <2> QED
    BY <2>1, <2>2
<1>9. samples' \in Seq(Sample) /\ (req.cmd = "flush" => samples' = << >>)
      /\ (req.cmd # "flush" => samples' = samples)
  <2>1. << >> \in Seq(Sample) /\ samples \in Seq(Sample)
    BY <1>3 DEF Queues
  <2> QED
    BY <1>2, <2>1
<1>10. LoggerTypeOK' /\ Queues'
  BY <1>1, <1>3, <1>4, <1>7, <1>8, <1>9 DEF LoggerInv, LoggerTypeOK, Queues
<1>11. OwnPrinted' /\ Connections' /\ NothingRead' /\ Delivered'
  <2>1. ~fda => control' = control
    BY <1>8
  <2> QED
    BY <1>1, <2>1, DeliveredStays DEF LoggerInv, OwnPrinted, Owned, Connections, NothingRead
<1>12. Earlier'
  BY <1>1, <1>5 DEF LoggerInv, Earlier
<1>13. Stopping'
  <2> SUFFICES ASSUME pc = "stop" PROVE Stopping'
    BY <1>1 DEF Stopping
  <2>1. fda
    BY DEF LoggerInv, Connections
  <2>2. CASE ~waiting /\ control = << >> /\ \A i \in DOMAIN toDevice : toDevice[i].session < session
    <3>1. req.session < session
      BY <1>4, <2>2
    <3>2. control' = << >>
      BY <1>6, <1>8, <2>2, <3>1
    <3> QED
      BY <1>1, <1>5, <2>2, <3>2 DEF Stopping
  <2>3. CASE /\ waiting /\ control = << >> /\ toDevice # << >> /\ toDevice[Len(toDevice)] = Own("stop")
             /\ \A i \in 1..(Len(toDevice) - 1) : toDevice[i].session < session
    <3>1. CASE Len(toDevice) = 1
      <4>1. req = Own("stop")
        BY <1>4, <2>3, <3>1
      <4>2. req.cmd = "stop"
        BY <4>1 DEF Own
      <4>3. AnswersTo({"stop"})'
        <5>1. AnswersTo({"stop"})
          BY <2>3 DEF AnswersTo
        <5> QED
          BY <1>8, <4>2, <5>1
      <4>4. toDevice' = << >>
        BY <1>4, <3>1, EmptyOf
      <4>5. Unflushed(<< >>)'
        BY <1>7, <4>2, <4>3, <4>4 DEF Unflushed
      <4> QED
        BY <1>1, <2>3, <4>5 DEF Stopping
    <3>2. CASE Len(toDevice) # 1
      <4>1. req.session < session
        BY <1>4, <2>3, <3>2
      <4>2. control' = << >>
        BY <1>6, <1>8, <2>3, <4>1
      <4>3. toDevice' # << >> /\ toDevice'[Len(toDevice')] = toDevice[Len(toDevice)]
        BY <1>4, <3>2
      <4>4. \A i \in 1..(Len(toDevice') - 1) : i + 1 \in 1..(Len(toDevice) - 1) /\ toDevice'[i] = toDevice[i + 1]
        BY <1>4
      <4> QED
        BY <1>1, <2>3, <4>2, <4>3, <4>4 DEF Stopping, Own
    <3> QED
      BY <3>1, <3>2
  <2>4. ~Unflushed(<< >>)
    BY <1>1 DEF Unflushed
  <2> QED
    BY <2>2, <2>3, <2>4 DEF LoggerInv, Stopping
\* Of the later calls only what each has sent itself is under way.
<1>14. ~Unflushed(<< >>) /\ ~Flushed(<< >>) /\ ~OwnStream
  BY <1>1 DEF Unflushed, Flushed, OwnStream
<1>15. ASSUME NEW cmd, toDevice = << Own(cmd) >>
       PROVE  req = Own(cmd) /\ req.cmd = cmd /\ req.session = session /\ toDevice' = << >>
  <2>1. Tail(<< Own(cmd) >>) = << >>
    BY TailOfTwo
  <2>2. toDevice[1] = Own(cmd)
    BY <1>15
  <2> QED
    BY <1>1, <1>4, <1>15, <2>1, <2>2 DEF Own
<1>16. ASSUME Unflushed(<< Own("flush") >>), fda
       PROVE  Flushed(<< >>)' /\ AnswersTo({"stop", "flush"})' /\ InTheWay'
  <2>1. toDevice = << Own("flush") >> /\ streaming = 0 /\ AnswersTo({"stop"})
    BY <1>16 DEF Unflushed
  <2>2. req.cmd = "flush" /\ req.session = session /\ toDevice' = << >>
    BY <1>15, <2>1
  <2>3. Flushed(<< >>)'
    BY <1>7, <1>9, <2>1, <2>2 DEF Flushed
  <2>4. AnswersTo({"stop", "flush"})
    BY <2>1 DEF AnswersTo
  <2>5. control # << >> => control[1].cmd = "stop"
    BY <1>6, <2>1 DEF AnswersTo
  <2> QED
    BY <1>8, <1>16, <2>2, <2>3, <2>4, <2>5 DEF InTheWay
<1>17. Flushing'
  <2> SUFFICES ASSUME pc \in {"flush", "openData"} PROVE Flushing'
    BY <1>1 DEF Flushing
  <2>1. fda
    BY DEF LoggerInv, Connections
  <2>2. (pc = "flush" => waiting) /\ Unflushed(<< Own("flush") >>)
    BY <1>14 DEF LoggerInv, Flushing
  <2> QED
    BY <1>1, <1>16, <2>1, <2>2 DEF Flushing
<1>18. Configuring'
  <2> SUFFICES ASSUME pc = "config", fdb PROVE Configuring'
    BY <1>1 DEF Configuring
  <2>1. fda
    BY DEF LoggerInv, Connections
  <2>2. CASE ~waiting /\ Unflushed(<< Own("flush") >>)
    <3>1. Flushed(<< >>)' /\ AnswersTo({"stop", "flush"})' /\ InTheWay'
      BY <1>16, <2>1, <2>2
    <3> QED
      BY <1>1, <2>2, <3>1 DEF Configuring
  <2>3. CASE waiting /\ Unflushed(<< Own("flush"), Own("config") >>)
    <3>1. toDevice = << Own("flush"), Own("config") >> /\ streaming = 0 /\ AnswersTo({"stop"})
      BY <2>3 DEF Unflushed
    <3>2. toDevice' = << Own("config") >>
      BY <1>1, <3>1, TailOfTwo
    <3>3. req = Own("flush")
      BY <1>4, <3>1
    <3>4. req.cmd = "flush" /\ req.session = session
      BY <3>3 DEF Own
    <3>5. AnswersTo({"stop", "flush"})
      BY <3>1 DEF AnswersTo
    <3>6. control # << >> => control[1].cmd = "stop"
      BY <1>6, <3>1 DEF AnswersTo
    <3>7. AnswersTo({"stop", "flush"})' /\ InTheWay'
      BY <1>8, <2>1, <3>4, <3>5, <3>6 DEF InTheWay
    <3>8. Flushed(<< Own("config") >>)'
      BY <1>1, <1>7, <1>9, <3>1, <3>2, <3>4 DEF Flushed, Own
    <3> QED
      BY <1>1, <2>3, <3>7, <3>8 DEF Configuring, Own
  <2>4. CASE waiting /\ Flushed(<< Own("config") >>) /\ AnswersTo({"stop", "flush"}) /\ (NoneSent \/ InTheWay)
    <3>1. toDevice = << Own("config") >> /\ streaming = 0 /\ samples = << >>
      BY <2>4 DEF Flushed
    <3>2. req.cmd = "config" /\ toDevice' = << >>
      BY <1>15, <3>1
    <3>3. Flushed(<< >>)'
      BY <1>7, <1>9, <3>1, <3>2 DEF Flushed
    <3>4. AnswersTo({"stop", "flush", "config"})
      BY <2>4 DEF AnswersTo
    <3>5. AnswersTo({"stop", "flush", "config"})'
      BY <1>8, <3>2, <3>4
    <3>6. NoneSent' \/ InTheWay'
      BY <1>1, <1>8, <2>4 DEF NoneSent, InTheWay
    <3> QED
      BY <1>1, <2>4, <3>3, <3>5, <3>6 DEF Configuring
  <2> QED
    BY <1>14, <2>2, <2>3, <2>4 DEF LoggerInv, Configuring
<1>19. Starting'
  <2> SUFFICES ASSUME pc = "start", fdb PROVE Starting'
    BY <1>1 DEF Starting
  <2>1. waiting /\ Flushed(<< Own("start") >>) /\ NoneSent
    BY <1>14 DEF LoggerInv, Starting
  <2>2. toDevice = << Own("start") >> /\ streaming = 0 /\ samples = << >> /\ data = << >>
    BY <2>1 DEF Flushed, NoneSent
  <2>3. req.cmd = "start" /\ req.session = session /\ toDevice' = << >>
    BY <1>15, <2>2
  <2>4. streaming' \in {0, session}
    BY <1>2, <2>2, <2>3
  <2>5. samples' = << >> /\ data' = << >>
    BY <1>1, <1>9, <2>2, <2>3
  <2>6. << >> \in Seq(Owned')
    OBVIOUS
  <2>7. OwnStream'
    BY <1>1, <2>3, <2>4, <2>5, <2>6 DEF OwnStream
  <2> QED
    BY <1>1, <2>1, <2>7 DEF Starting
<1>20. Streaming'
  BY <1>1, <1>14 DEF LoggerInv, Streaming
<1> QED
  BY <1>10, <1>11, <1>12, <1>13, <1>17, <1>18, <1>19, <1>20 DEF LoggerInv
LEMMA JoinedIs ==
  ASSUME NEW S, NEW a \in Seq(S), NEW b \in Seq(S), NEW c, c = a \o b
  PROVE  /\ c \in Seq(S) /\ Len(c) = Len(a) + Len(b) /\ Len(a) \in Nat /\ Len(b) \in Nat
         /\ \A i \in 1..Len(a) : c[i] = a[i]
         /\ \A i \in 1..Len(b) : c[Len(a) + i] = b[i]
  BY Joined

\* Packets and their samples one after the other.
LEMMA Multiples ==
  ASSUME NEW L \in Nat, NEW j \in Nat
  PROVE  /\ j * L \in Nat /\ (j + 1) * L = j * L + L /\ 0 * L = 0
         /\ \A m \in Nat : j < m => j * L + L <= m * L
<1>1. j * L \in Nat /\ (j + 1) * L = j * L + L /\ 0 * L = 0
  OBVIOUS
<1>2. ASSUME NEW m \in Nat, j < m PROVE j * L + L <= m * L
  <2>1. PICK n \in Nat : m = j + 1 + n
    <3>1. m - j - 1 \in Nat /\ m = j + 1 + (m - j - 1)
      BY <1>2
    <3> QED
      BY <3>1
  <2>2. n * L \in Nat
    OBVIOUS
  <2>3. m * L = (j + 1) * L + n * L
    BY <2>1
  <2>4. (j + 1) * L = j * L + L
    OBVIOUS
  <2>5. j * L \in Nat
    OBVIOUS
  <2>6. m * L = j * L + L + n * L
    BY <2>3, <2>4
  <2> QED
    BY <2>2, <2>5, <2>6
<1> QED
  BY <1>1, <1>2

LEMMA PacketsInLine ==
  ASSUME NEW j \in Nat
  PROVE  /\ Before(j) \in Nat /\ Before(j + 1) = Before(j) + PacketLen /\ Before(0) = 0
         /\ Sampled(j) \in Nat /\ Sampled(j + 1) = Sampled(j) + Pairs /\ Sampled(0) = 0
         /\ \A m \in Nat : j < m => /\ Before(j) + PacketLen <= Before(m)
                                    /\ Sampled(j) + Pairs <= Sampled(m)
<1>1. PacketLen \in Nat /\ Pairs \in Nat
  BY LoggerConstants
<1> QED
  BY <1>1, Multiples DEF Before, Sampled

LEMMA PacketParts ==
  ASSUME NEW S, Filler \in S, NEW t \in Seq(S)
  PROVE  /\ Packet(t) \in Seq(S) /\ Len(Packet(t)) = Len(t) + 2 /\ Len(t) \in Nat
         /\ \A e \in 1..Len(t) : Packet(t)[e + 1] = t[e]
<1> DEFINE end == << Filler >>
           head == end \o t
           p == Packet(t)
<1>1. end \in Seq(S)
  OBVIOUS
<1>2. Len(end) = 1
  OBVIOUS
<1>3. head = end \o t /\ p = head \o end
  BY DEF Packet
<1> HIDE DEF end, head, p
<1>4. /\ head \in Seq(S) /\ Len(head) = Len(end) + Len(t) /\ Len(t) \in Nat
      /\ \A i \in 1..Len(t) : head[Len(end) + i] = t[i]
  BY <1>1, <1>3, JoinedIs
<1>5. head \in Seq(S)
  BY <1>4
<1>6. /\ p \in Seq(S) /\ Len(p) = Len(head) + Len(end)
      /\ \A i \in 1..Len(head) : p[i] = head[i]
  BY <1>1, <1>3, <1>5, JoinedIs
<1>7. \A e \in 1..Len(t) : e + 1 \in 1..Len(head) /\ 1 + e = e + 1
  BY <1>2, <1>4
<1>8. \A e \in 1..Len(t) : p[e + 1] = t[e]
  BY <1>2, <1>4, <1>6, <1>7
<1>9. Len(p) = Len(t) + 2
  BY <1>2, <1>4, <1>6
<1> QED
  BY <1>4, <1>6, <1>8, <1>9 DEF p

\* The state after the first d samples does not change when others are sent.
LEMMA StateStays ==
  ASSUME NEW s \in Seq(Sample), NEW t \in Seq(Sample), NEW d \in 0..Len(s)
  PROVE  StateAt(s \o t, d) = StateAt(s, d)
<1> DEFINE u == s \o t
<1>1. /\ u \in Seq(Sample) /\ Len(u) = Len(s) + Len(t) /\ Len(s) \in Nat /\ Len(t) \in Nat
      /\ \A i \in 1..Len(s) : u[i] = s[i]
  BY Joined
<1> HIDE DEF u
<1>2. \A i \in 1..d : i \in 1..Len(s) /\ u[i] = s[i]
  BY <1>1
<1>3. SubSeq(u, 1, d) = SubSeq(s, 1, d)
  <2>1. SubSeq(u, 1, d) = [i \in 1..d |-> u[i]] /\ SubSeq(s, 1, d) = [i \in 1..d |-> s[i]]
    BY <1>1
  <2> QED
    BY <1>2, <2>1
<1>4. (\E i \in 1..d : u[i].start) = (\E i \in 1..d : s[i].start)
  BY <1>2
<1>5. StateAt(u, d) = StateAt(s, d)
  BY <1>3, <1>4 DEF StateAt
<1> QED
  BY <1>5 DEF u

LEMMA SendPacketKeeps == ASSUME LoggerInv, SendPacket PROVE LoggerInv'
<1> DEFINE t == SubSeq(samples, 1, Pairs)
           left == SubSeq(samples, Pairs + 1, Len(samples))
           p == Packet(t)
<1>1. /\ fdb /\ Len(samples) >= Pairs /\ data' = data \o p /\ samples' = left /\ sent' = sent \o t
      /\ UNCHANGED <<session, pc, waiting, fda, fdb, buf, cnt, sync, first, printed, stale, toDevice,
                     control, streaming, taken>>
  BY DEF SendPacket, programVars
<1>2. /\ data \in Seq(Sample) /\ samples \in Seq(Sample) /\ sent \in Seq(Sample) /\ Queues
      /\ Pairs \in Nat \ {0} /\ PacketLen \in Nat /\ Filler \in Owned /\ Filler \in Sample
  BY LoggerConstants, OwnedSamples DEF LoggerInv, Queues
<1>3. \A S : samples \in Seq(S) => t \in Seq(S) /\ Len(t) = Pairs /\ left \in Seq(S)
  BY <1>1, <1>2
<1>4. samples # << >>
  BY <1>1, <1>2
<1> HIDE DEF t, left
<1>5. \A S : Filler \in S /\ samples \in Seq(S) =>
        p \in Seq(S) /\ Len(p) = PacketLen /\ \A e \in 1..Pairs : p[e + 1] = t[e]
  <2> SUFFICES ASSUME NEW S, Filler \in S, samples \in Seq(S)
               PROVE  p \in Seq(S) /\ Len(p) = PacketLen /\ \A e \in 1..Pairs : p[e + 1] = t[e]
    OBVIOUS
  <2>1. t \in Seq(S) /\ Len(t) = Pairs
    BY <1>3
  <2>2. t \in Seq(S)
    BY <2>1
  <2>3. /\ Packet(t) \in Seq(S) /\ Len(Packet(t)) = Len(t) + 2
        /\ \A e \in 1..Len(t) : Packet(t)[e + 1] = t[e]
    BY <2>2, PacketParts
  <2> QED
    BY <2>1, <2>3, LoggerConstants
<1> HIDE DEF p
<1>6. /\ sent' \in Seq(Sample) /\ Len(sent') = Len(sent) + Pairs /\ Len(sent) \in Nat
      /\ \A i \in 1..Len(sent) : sent'[i] = sent[i]
      /\ \A i \in 1..Pairs : sent'[Len(sent) + i] = t[i]
  <2>1. t \in Seq(Sample) /\ Len(t) = Pairs
    BY <1>2, <1>3
  <2>2. sent' = sent \o t
    BY <1>1
  <2>3. sent \in Seq(Sample)
    BY <1>2
  <2>5. t \in Seq(Sample)
    BY <2>1
  <2>4. /\ sent' \in Seq(Sample) /\ Len(sent') = Len(sent) + Len(t) /\ Len(sent) \in Nat
        /\ \A i \in 1..Len(sent) : sent'[i] = sent[i]
        /\ \A i \in 1..Len(t) : sent'[Len(sent) + i] = t[i]
    BY <2>2, <2>3, <2>5, JoinedIs
  <2> QED
    BY <2>1, <2>4
<1>7. /\ data' \in Seq(Sample) /\ Len(data') = Len(data) + PacketLen /\ Len(data) \in Nat
      /\ \A i \in 1..Len(data) : data'[i] = data[i]
      /\ \A i \in 1..PacketLen : data'[Len(data) + i] = p[i]
  <2>1. p \in Seq(Sample) /\ Len(p) = PacketLen
    BY <1>2, <1>5
  <2>2. data' = data \o p
    BY <1>1
  <2>3. data \in Seq(Sample)
    BY <1>2
  <2>5. p \in Seq(Sample)
    BY <2>1
  <2>4. /\ data' \in Seq(Sample) /\ Len(data') = Len(data) + Len(p) /\ Len(data) \in Nat
        /\ \A i \in 1..Len(data) : data'[i] = data[i]
        /\ \A i \in 1..Len(p) : data'[Len(data) + i] = p[i]
        /\ \A i \in 1..Len(p) : data'[Len(data) + i] = p[i]
    BY <2>2, <2>3, <2>5, JoinedIs
  <2> QED
    BY <2>1, <2>4
<1>8. LoggerTypeOK' /\ Queues'
  BY <1>1, <1>2, <1>3, <1>6, <1>7 DEF LoggerInv, LoggerTypeOK, Queues
<1>9. OwnPrinted' /\ Earlier'
  BY <1>1 DEF LoggerInv, OwnPrinted, Owned, Earlier
<1>10. pc \in {"config", "start", "data"}
  BY <1>1, LoggerConstants DEF LoggerInv, LoggerTypeOK, Connections
<1>11. Connections' /\ NothingRead' /\ Stopping' /\ Flushing'
  BY <1>1, <1>10 DEF LoggerInv, Connections, NothingRead, Stopping, Flushing
<1>12. \A q : ~Flushed(q)
  BY <1>4 DEF Flushed
<1>13. Configuring'
  BY <1>1, <1>12 DEF LoggerInv, Configuring, Unflushed, AnswersTo, Own
<1>14. OwnStream => OwnStream'
  <2> SUFFICES ASSUME OwnStream PROVE OwnStream'
    OBVIOUS
  <2>1. data \in Seq(Owned) /\ samples \in Seq(Owned)
    BY DEF OwnStream
  <2>2. p \in Seq(Owned) /\ left \in Seq(Owned)
    BY <1>2, <1>3, <1>5, <2>1
  <2>3. data \o p \in Seq(Owned)
    BY <2>1, <2>2, Joined
  <2> QED
    BY <1>1, <2>2, <2>3 DEF OwnStream, Owned
<1>15. Starting' /\ Streaming'
  BY <1>1, <1>12, <1>14 DEF LoggerInv, Starting, Streaming
<1>16. Delivered'
  <2> SUFFICES ASSUME stale = 0 PROVE Delivered'
    BY <1>1 DEF Delivered
  <2>1. PICK d \in 0..Len(sent) :
          /\ [sync |-> sync, first |-> first, printed |-> printed] = StateAt(sent, d)
          /\ fdb => \E m \in 0..Len(sent) : WholePackets(d, m)
    BY DEF LoggerInv, Delivered
  <2>2. PICK m \in 0..Len(sent) : WholePackets(d, m)
    BY <1>1, <2>1
  <2>3. [sync |-> sync', first |-> first', printed |-> printed'] = StateAt(sent', d)
    <3>1. t \in Seq(Sample)
      BY <1>2, <1>3
    <3>2. StateAt(sent \o t, d) = StateAt(sent, d)
      BY <1>2, <3>1, StateStays
    <3> QED
      BY <1>1, <2>1, <3>2
  <2>4. /\ Len(sent) = d + Sampled(m) /\ cnt + Len(data) = Before(m) /\ cnt \in Nat
        /\ d \in Nat /\ m \in Nat /\ m + 1 \in 0..Len(sent') /\ d \in 0..Len(sent')
        /\ \A j \in 0..(m - 1) : \A e \in 1..Pairs : PartAt(Before(j) + e + 1) = sent[d + Sampled(j) + e]
    BY <1>2, <1>6, <2>2 DEF WholePackets, LoggerInv, LoggerTypeOK
  <2>5. /\ Before(m) \in Nat /\ Before(m + 1) = Before(m) + PacketLen
        /\ Sampled(m) \in Nat /\ Sampled(m + 1) = Sampled(m) + Pairs
    BY <2>4, PacketsInLine
  <2>6. Len(sent') = d + Sampled(m + 1) /\ cnt' + Len(data') = Before(m + 1)
    <3>1. Len(sent') = Len(sent) + Pairs /\ Len(data') = Len(data) + PacketLen /\ cnt' = cnt
      BY <1>1, <1>6, <1>7
    <3>2. Len(sent) = d + Sampled(m) /\ cnt + Len(data) = Before(m)
      BY <2>4
    <3>3. Len(sent) \in Nat /\ Len(data) \in Nat /\ Pairs \in Nat /\ PacketLen \in Nat /\ cnt \in Nat /\ d \in Nat
      BY <1>2, <1>6, <1>7, <2>4
    <3>4. Len(sent) + Pairs = d + (Sampled(m) + Pairs) /\ cnt + (Len(data) + PacketLen) = Before(m) + PacketLen
      BY <2>5, <3>2, <3>3
    <3> QED
      BY <2>5, <3>1, <3>4
  <2>7. \A x \in 1..(cnt + Len(data)) : PartAt(x)' = PartAt(x)
    <3> TAKE x \in 1..(cnt + Len(data))
    <3>1. x <= cnt \/ x - cnt \in 1..Len(data)
      BY <1>7, <2>4
    <3> QED
      BY <1>1, <1>7, <3>1 DEF PartAt
  <2>8. ASSUME NEW j \in 0..m, NEW e \in 1..Pairs
        PROVE  PartAt(Before(j) + e + 1)' = sent'[d + Sampled(j) + e]
    <3>1. CASE j < m
      <4>1. /\ Before(j) \in Nat /\ Sampled(j) \in Nat
            /\ Before(j) + PacketLen <= Before(m) /\ Sampled(j) + Pairs <= Sampled(m) /\ j \in 0..(m - 1)
        <5>1. j \in Nat /\ m \in Nat /\ j < m /\ j \in 0..(m - 1)
          BY <2>4, <3>1
        <5> QED
          BY <5>1, PacketsInLine
      <4>2. Before(j) + e + 1 \in 1..(cnt + Len(data)) /\ d + Sampled(j) + e \in 1..Len(sent)
        <5> DEFINE x == Before(j)
                   y == Sampled(j)
                   bound == Before(m)
                   end == Sampled(m)
        <5>1. /\ x \in Nat /\ y \in Nat /\ x + PacketLen <= bound /\ y + Pairs <= end
              /\ bound \in Nat /\ end \in Nat /\ d \in Nat
          BY <2>4, <2>5, <4>1
        <5>2. bound = cnt + Len(data) /\ d + end = Len(sent)
          BY <2>4
        <5> HIDE DEF x, y, bound, end
        <5>3. x + e + 1 \in 1..bound /\ d + y + e \in 1..(d + end)
          BY <5>1, LoggerConstants
        <5> QED
          BY <5>2, <5>3 DEF x, y
      <4>3. PartAt(Before(j) + e + 1)' = PartAt(Before(j) + e + 1)
        BY <2>7, <4>2 DEF Before
      <4>4. sent'[d + Sampled(j) + e] = sent[d + Sampled(j) + e]
        BY <1>6, <4>2
      <4> QED
        BY <2>4, <4>1, <4>3, <4>4
    <3>2. CASE j = m
      <4>1. PICK x : x = Before(m) + e + 1
        OBVIOUS
      <4>2. ~(x <= cnt) /\ x - cnt = Len(data) + (e + 1) /\ e + 1 \in 1..PacketLen
        <5> DEFINE y == Before(m)
        <5>1. y \in Nat /\ y = cnt + Len(data) /\ cnt \in Nat /\ Len(data) \in Nat /\ x = y + e + 1
          BY <1>7, <2>4, <2>5, <4>1
        <5> HIDE DEF y
        <5> QED
          BY <5>1, LoggerConstants
      <4>3. PartAt(Before(m) + e + 1)' = p[e + 1]
        <5>1. cnt' = cnt
          BY <1>1
        <5>2. PartAt(x)' = data'[x - cnt]
          BY <4>2, <5>1 DEF PartAt
        <5>3. data'[Len(data) + (e + 1)] = p[e + 1]
          BY <1>7, <4>2
        <5>4. PartAt(Before(m) + e + 1)' = PartAt(x)'
          BY <4>1 DEF Before
        <5> QED
          BY <4>2, <5>2, <5>3, <5>4
      <4>4. sent'[d + Sampled(m) + e] = t[e] /\ p[e + 1] = t[e]
        BY <1>2, <1>5, <1>6, <2>4
      <4> QED
        BY <3>2, <4>3, <4>4
    <3> QED
      BY <2>4, <3>1, <3>2
  <2>9. WholePackets(d, m + 1)'
    <3>1. (m + 1) - 1 = m
      BY <2>4
    <3> QED
      BY <2>6, <2>8, <3>1 DEF WholePackets, Before, Sampled
  <2> QED
    BY <1>1, <2>3, <2>4, <2>9 DEF Delivered
<1> QED
  BY <1>8, <1>9, <1>11, <1>13, <1>15, <1>16 DEF LoggerInv
\* What ReceiveData has in its hands: k parts more of the packet that it reads.
Filled(k, filled) ==
  /\ k \in 1..(PacketLen - cnt) /\ k <= Len(data) /\ Len(data) \in Nat /\ cnt \in 0..(PacketLen - 1)
  /\ filled \in [1..PacketLen -> Owned]
  /\ \A x \in 1..(cnt + k) : filled[x] = PartAt(x)

LEMMA ReceivedFills ==
  ASSUME LoggerInv, pc = "data", fdb, NEW r \in Recv(data, PacketLen - cnt)
  PROVE  \E k \in Nat :
           /\ Splits(Owned, data, k, r.got, r.left)
           /\ Filled(k, [i \in 1..PacketLen |->
                           IF i \in cnt + 1..cnt + Len(r.got) THEN r.got[i - cnt] ELSE buf[i]])
<1> DEFINE filled == [i \in 1..PacketLen |->
                        IF i \in cnt + 1..cnt + Len(r.got) THEN r.got[i - cnt] ELSE buf[i]]
<1>1. data \in Seq(Owned) /\ buf \in [1..PacketLen -> Owned] /\ cnt \in 0..(PacketLen - 1)
  BY DEF LoggerInv, Streaming, OwnStream, OwnPrinted, LoggerTypeOK
<1>2. PacketLen - cnt \in Nat /\ PacketLen \in Nat /\ cnt \in Nat
  BY <1>1, LoggerConstants
<1>3. PICK got, left : r = [got |-> got, left |-> left]
  BY DEF Recv
<1>4. r.got = got /\ r.left = left
  BY <1>3
<1>5. PICK k \in 1..(PacketLen - cnt) : Splits(Owned, data, k, got, left)
  BY <1>1, <1>2, <1>3, Received
<1>6. /\ k \in Nat /\ k >= 1 /\ k <= PacketLen - cnt /\ k <= Len(data) /\ got \in Seq(Owned)
      /\ \A j \in 1..k : got[j] = data[j]
  BY <1>2, <1>5 DEF Splits
<1>7. Len(got) = k
  BY <1>5 DEF Splits
<1>8. \A j \in 1..k : got[j] \in Owned
  BY <1>6, <1>7
<1>9. filled = [i \in 1..PacketLen |-> IF i \in cnt + 1..cnt + k THEN got[i - cnt] ELSE buf[i]]
  BY <1>4, <1>7
<1> HIDE DEF filled
<1>10. filled \in [1..PacketLen -> Owned]
  <2>1. \A i \in 1..PacketLen : i \in cnt + 1..cnt + k => i - cnt \in 1..k
    BY <1>2, <1>6
  <2>2. \A i \in 1..PacketLen : (IF i \in cnt + 1..cnt + k THEN got[i - cnt] ELSE buf[i]) \in Owned
    BY <1>1, <1>8, <2>1
  <2> QED
    BY <1>9, <2>2
<1>11. ASSUME NEW x \in 1..(cnt + k) PROVE filled[x] = PartAt(x)
  <2>1. x \in 1..PacketLen
    BY <1>2, <1>6
  <2>2. CASE x <= cnt
    <3>1. ~(x \in cnt + 1..cnt + k)
      BY <1>2, <1>6, <2>2
    <3> QED
      BY <1>9, <2>1, <2>2, <3>1 DEF PartAt
  <2>3. CASE ~(x <= cnt)
    <3>1. x \in cnt + 1..cnt + k /\ x - cnt \in 1..k
      BY <1>2, <1>6, <2>3
    <3>2. filled[x] = got[x - cnt]
      BY <1>9, <2>1, <3>1
    <3> QED
      BY <1>6, <2>3, <3>1, <3>2 DEF PartAt
  <2> QED
    BY <2>2, <2>3
<1>12. Len(data) \in Nat
  BY <1>1
<1>13. Filled(k, filled)
  BY <1>1, <1>2, <1>6, <1>10, <1>11, <1>12 DEF Filled
<1> QED
  BY <1>4, <1>5, <1>6, <1>13 DEF filled

\* The packet is not complete: its parts are read, and wait in buf.
LEMMA PartsWait ==
  ASSUME NEW k \in Nat, NEW got, NEW left, NEW filled, NEW d \in Nat, NEW m \in Nat,
         Splits(Owned, data, k, got, left), Filled(k, filled), WholePackets(d, m),
         data' = left, buf' = filled, cnt' = cnt + k, sent' = sent
  PROVE  WholePackets(d, m)'
<1>1. /\ cnt \in Nat /\ Len(data) \in Nat /\ k <= Len(data) /\ \A x \in 1..(cnt + k) : filled[x] = PartAt(x)
  BY LoggerConstants DEF Filled
<1>2. Len(left) = Len(data) - k /\ \A j \in 1..(Len(data) - k) : left[j] = data[j + k]
  BY DEF Splits
<1>3. /\ Len(sent) = d + Sampled(m) /\ cnt + Len(data) = Before(m)
      /\ \A j \in 0..(m - 1) : \A e \in 1..Pairs : PartAt(Before(j) + e + 1) = sent[d + Sampled(j) + e]
  BY DEF WholePackets
<1>4. ASSUME NEW x \in 1..(cnt + Len(data)) PROVE PartAt(x)' = PartAt(x)
  <2>1. CASE x <= cnt + k
    <3>1. x \in 1..(cnt + k)
      BY <1>1, <2>1
    <3> QED
      BY <1>1, <2>1, <3>1 DEF PartAt
  <2>2. CASE ~(x <= cnt + k)
    <3>1. ~(x <= cnt) /\ x - (cnt + k) \in 1..(Len(data) - k) /\ (x - (cnt + k)) + k = x - cnt
      BY <1>1, <2>2
    <3>2. PartAt(x)' = left[x - (cnt + k)]
      BY <2>2 DEF PartAt
    <3>3. PartAt(x) = data[x - cnt]
      BY <3>1 DEF PartAt
    <3> QED
      BY <1>2, <3>1, <3>2, <3>3
  <2> QED
    BY <2>1, <2>2
<1>5. cnt' + Len(data') = Before(m)
  <2>1. (cnt + k) + (Len(data) - k) = cnt + Len(data)
    BY <1>1
  <2> QED
    BY <1>2, <1>3, <2>1
<1>6. ASSUME NEW j \in 0..(m - 1), NEW e \in 1..Pairs
      PROVE  PartAt(Before(j) + e + 1)' = sent'[d + Sampled(j) + e]
  <2>1. PICK x : x = Before(j) + e + 1
    OBVIOUS
  <2>2. x \in 1..(cnt + Len(data))
    <3> DEFINE y == Before(j)
               bound == Before(m)
    <3>1. j \in Nat /\ j < m
      OBVIOUS
    <3>2. y \in Nat /\ y + PacketLen <= bound
      BY <3>1, PacketsInLine
    <3>3. bound \in Nat
      BY PacketsInLine
    <3>4. x = y + e + 1 /\ bound = cnt + Len(data)
      BY <1>3, <2>1
    <3> HIDE DEF y, bound
    <3>5. x \in 1..bound
      BY <3>2, <3>3, <3>4, LoggerConstants
    <3> QED
      BY <3>4, <3>5
  <2>3. PartAt(x)' = PartAt(x)
    BY <1>4, <2>2
  <2>4. PartAt(x) = sent[d + Sampled(j) + e]
    BY <1>3, <2>1
  <2>5. PartAt(Before(j) + e + 1)' = PartAt(x)'
    BY <2>1 DEF Before
  <2> QED
    BY <2>3, <2>4, <2>5
<1> QED
  BY <1>3, <1>5, <1>6 DEF WholePackets, Before, Sampled

\* The packet is complete: it holds the samples that follow the first d, and the packets
\* after it those that follow these.
LEMMA PacketTaken ==
  ASSUME NEW k \in Nat, NEW got, NEW left, NEW filled, NEW d \in Nat, NEW m \in Nat,
         Splits(Owned, data, k, got, left), Filled(k, filled), WholePackets(d, m),
         data' = left, cnt' = 0, sent' = sent, cnt + k >= PacketLen, sent \in Seq(Sample)
  PROVE  /\ m # 0 /\ d + Pairs <= Len(sent) /\ \A e \in 1..Pairs : filled[e + 1] = sent[d + e]
         /\ WholePackets(d + Pairs, m - 1)'
<1>1. /\ cnt \in Nat /\ Len(data) \in Nat /\ k <= Len(data) /\ \A x \in 1..(cnt + k) : filled[x] = PartAt(x)
      /\ cnt + k = PacketLen
  BY LoggerConstants DEF Filled
<1>2. Len(left) = Len(data) - k /\ \A j \in 1..(Len(data) - k) : left[j] = data[j + k]
  BY DEF Splits
<1>3. /\ Len(sent) = d + Sampled(m) /\ cnt + Len(data) = Before(m)
      /\ \A j \in 0..(m - 1) : \A e \in 1..Pairs : PartAt(Before(j) + e + 1) = sent[d + Sampled(j) + e]
  BY DEF WholePackets
<1>4. m # 0
  <2>1. Before(0) = 0
    BY PacketsInLine
  <2>2. cnt + Len(data) # 0
    BY <1>1, LoggerConstants
  <2> QED
    BY <1>3, <2>1, <2>2
<1>5. PICK n \in Nat : m = n + 1
  <2>1. m - 1 \in Nat /\ m = (m - 1) + 1
    BY <1>4
  <2> QED
    BY <2>1
<1>6. /\ Before(n) \in Nat /\ Before(m) = Before(n) + PacketLen /\ Before(0) = 0
      /\ Sampled(n) \in Nat /\ Sampled(m) = Sampled(n) + Pairs /\ Sampled(0) = 0
  BY <1>5, PacketsInLine
<1>7. d + Pairs <= Len(sent) /\ Len(sent) = (d + Pairs) + Sampled(n)
  <2> DEFINE y == Sampled(n)
  <2>1. y \in Nat /\ Len(sent) = d + (y + Pairs)
    BY <1>3, <1>6
  <2> HIDE DEF y
  <2>2. Len(sent) = (d + Pairs) + y /\ d + Pairs <= Len(sent)
    BY <2>1, LoggerConstants
  <2> QED
    BY <2>2 DEF y
<1>8. \A e \in 1..Pairs : filled[e + 1] = sent[d + e]
  <2> TAKE e \in 1..Pairs
  <2>1. e + 1 \in 1..(cnt + k)
    BY <1>1, LoggerConstants
  <2>2. 0 \in 0..(m - 1)
    BY <1>4
  <2>3. PartAt(Before(0) + e + 1) = sent[d + Sampled(0) + e]
    BY <1>3, <2>2
  <2>4. Before(0) + e + 1 = e + 1 /\ d + Sampled(0) + e = d + e
    BY <1>6
  <2> QED
    BY <1>1, <2>1, <2>3, <2>4
<1>9. Len(data') = Before(n)
  <2> DEFINE y == Before(n)
  <2>1. y \in Nat /\ cnt + Len(data) = y + PacketLen
    BY <1>3, <1>6
  <2> HIDE DEF y
  <2>2. Len(data) - k = y
    BY <1>1, <2>1, LoggerConstants
  <2> QED
    BY <1>2, <2>2 DEF y
<1>10. ASSUME NEW j \in 0..(n - 1), NEW e \in 1..Pairs
       PROVE  PartAt(Before(j) + e + 1)' = sent'[(d + Pairs) + Sampled(j) + e]
  <2>1. PICK x : x = Before(j) + e + 1
    OBVIOUS
  <2>2. /\ j \in Nat /\ j < n /\ j + 1 \in 0..(m - 1)
        /\ Before(j) \in Nat /\ Before(j + 1) = Before(j) + PacketLen /\ Before(j) + PacketLen <= Before(n)
        /\ Sampled(j) \in Nat /\ Sampled(j + 1) = Sampled(j) + Pairs
    <3>1. j \in Nat /\ j < n /\ j + 1 \in 0..(m - 1)
      BY <1>5
    <3> QED
      BY <3>1, PacketsInLine
  <2>3. /\ x \in Nat /\ x \in 1..(Len(data) - k) /\ x + PacketLen = Before(j + 1) + e + 1
        /\ ~(x + PacketLen <= cnt) /\ (x + PacketLen) - cnt = x + k
    <3> DEFINE y == Before(j)
               z == Before(j + 1)
               bound == Before(n)
    <3>1. /\ y \in Nat /\ z = y + PacketLen /\ y + PacketLen <= bound /\ bound \in Nat /\ x = y + e + 1
          /\ bound = Len(data) - k
      BY <1>2, <1>6, <1>9, <2>1, <2>2
    <3> HIDE DEF y, z, bound
    <3>2. /\ x \in Nat /\ x \in 1..bound /\ x + PacketLen = z + e + 1
          /\ ~(x + PacketLen <= cnt) /\ (x + PacketLen) - cnt = x + k
      BY <1>1, <3>1, LoggerConstants
    <3> QED
      BY <3>1, <3>2 DEF z
  <2>4. PartAt(x)' = left[x]
    <3>1. ~(x <= 0) /\ x - 0 = x
      BY <2>3
    <3> QED
      BY <3>1 DEF PartAt
  <2>5. left[x] = data[x + k]
    BY <1>2, <2>3
  <2>6. PartAt(x + PacketLen) = data[x + k]
    BY <2>3 DEF PartAt
  <2>7. PartAt(x + PacketLen) = sent[d + Sampled(j + 1) + e]
    BY <1>3, <2>2, <2>3
  <2>8. d + Sampled(j + 1) + e = (d + Pairs) + Sampled(j) + e
    <3> DEFINE y == Sampled(j)
               z == Sampled(j + 1)
    <3>1. y \in Nat /\ z = y + Pairs
      BY <2>2
    <3> HIDE DEF y, z
    <3>2. d + z + e = (d + Pairs) + y + e
      BY <3>1, LoggerConstants
    <3> QED
      BY <3>2 DEF y, z
  <2>9. PartAt(Before(j) + e + 1)' = PartAt(x)'
    BY <2>1 DEF Before
  <2> QED
    BY <2>4, <2>5, <2>6, <2>7, <2>8, <2>9
<1>11. WholePackets(d + Pairs, m - 1)'
  <2>1. m - 1 = n
    BY <1>5
  <2>2. Len(sent') = (d + Pairs) + Sampled(n)
    BY <1>7
  <2>3. cnt' + Len(data') = Before(n)
    BY <1>6, <1>9
  <2>4. \A j \in 0..(n - 1) : \A e \in 1..Pairs :
          PartAt(Before(j) + e + 1)' = sent'[(d + Pairs) + Sampled(j) + e]
    BY <1>10
  <2>5. WholePackets(d + Pairs, n)'
    BY <2>2, <2>3, <2>4 DEF WholePackets, Before, Sampled
  <2> QED
    BY <2>1, <2>5
<1> QED
  BY <1>4, <1>7, <1>8, <1>11
LEMMA ReceiveDataKeeps == ASSUME LoggerInv, ReceiveData PROVE LoggerInv'
<1>1. /\ pc = "data" /\ fdb
      /\ UNCHANGED <<session, pc, waiting, fda, fdb, stale, toDevice, control, streaming, samples,
                     taken, sent>>
  BY DEF ReceiveData, deviceVars
<1>2. PICK r \in Recv(data, PacketLen - cnt) :
        LET filled == [i \in 1..PacketLen |->
                         IF i \in cnt + 1..cnt + Len(r.got) THEN r.got[i - cnt] ELSE buf[i]]
        IN  /\ data' = r.left /\ buf' = filled
            /\ IF cnt + Len(r.got) < PacketLen
               THEN cnt' = cnt + Len(r.got) /\ UNCHANGED <<sync, first, printed>>
               ELSE cnt' = 0 /\ PrintPacket(filled)
  BY DEF ReceiveData
<1>3. PICK k \in Nat :
        /\ Splits(Owned, data, k, r.got, r.left)
        /\ Filled(k, [i \in 1..PacketLen |->
                        IF i \in cnt + 1..cnt + Len(r.got) THEN r.got[i - cnt] ELSE buf[i]])
  BY <1>1, <1>2, ReceivedFills
<1>4. PICK filled : filled = [i \in 1..PacketLen |->
                                IF i \in cnt + 1..cnt + Len(r.got) THEN r.got[i - cnt] ELSE buf[i]]
  OBVIOUS
<1>5. Len(r.got) = k
  BY <1>3 DEF Splits
<1>6. /\ data' = r.left /\ buf' = filled
      /\ \/ cnt + k < PacketLen /\ cnt' = cnt + k /\ UNCHANGED <<sync, first, printed>>
         \/ ~(cnt + k < PacketLen) /\ cnt' = 0 /\ PrintPacket(filled)
  BY <1>2, <1>4, <1>5
<1>7. Splits(Owned, data, k, r.got, r.left) /\ Filled(k, filled)
  BY <1>3, <1>4
<1>8. /\ cnt \in Nat /\ cnt + k <= PacketLen /\ filled \in [1..PacketLen -> Owned] /\ r.left \in Seq(Owned)
      /\ PacketLen \in Nat /\ PacketLen >= 1
  BY <1>7, LoggerConstants DEF Filled, Splits
<1>9. sync \in BOOLEAN /\ first \in BOOLEAN /\ printed \in Seq(Lines(Owned)) /\ sent \in Seq(Sample)
  BY DEF LoggerInv, LoggerTypeOK, OwnPrinted, Queues
<1>10. sync' \in BOOLEAN /\ first' \in BOOLEAN /\ printed' \in Seq(Lines(Owned))
  <2>1. CASE UNCHANGED <<sync, first, printed>>
    BY <1>9, <2>1
  <2>2. CASE PrintPacket(filled)
    BY <1>8, <1>9, <2>2, OwnedSamples, PacketPrints
  <2> QED
    BY <1>6, <2>1, <2>2
<1>11. LoggerTypeOK' /\ Queues'
  <2>1. cnt' \in 0..(PacketLen - 1)
    BY <1>6, <1>8
  <2>2. LoggerTypeOK'
    BY <1>1, <1>10, <2>1 DEF LoggerInv, LoggerTypeOK
  <2>3. r.left \in Seq(Sample)
    BY <1>8, OwnedSamples, SeqWidens
  <2>4. Queues'
    BY <1>1, <1>6, <2>3 DEF LoggerInv, Queues
  <2> QED
    BY <2>2, <2>4
<1>12. OwnPrinted'
  BY <1>1, <1>6, <1>8, <1>10 DEF OwnPrinted, Owned
<1>13. Connections' /\ NothingRead' /\ Earlier' /\ Stopping' /\ Flushing' /\ Configuring' /\ Starting'
  BY <1>1 DEF LoggerInv, Connections, NothingRead, Earlier, Stopping, Flushing, Configuring, Starting
<1>14. Streaming'
  BY <1>1, <1>6, <1>8 DEF LoggerInv, Streaming, OwnStream, Owned
<1>15. Delivered'
  <2> SUFFICES ASSUME stale = 0 PROVE Delivered'
    BY <1>1 DEF Delivered
  <2>1. PICK d \in 0..Len(sent) :
          /\ [sync |-> sync, first |-> first, printed |-> printed] = StateAt(sent, d)
          /\ fdb => \E m \in 0..Len(sent) : WholePackets(d, m)
    BY DEF LoggerInv, Delivered
  <2>2. PICK m \in 0..Len(sent) : WholePackets(d, m)
    BY <1>1, <2>1
  <2>3. d \in Nat /\ m \in Nat /\ Len(sent) \in Nat
    BY <1>9
  <2>4. CASE cnt + k < PacketLen /\ cnt' = cnt + k /\ UNCHANGED <<sync, first, printed>>
    <3>1. WholePackets(d, m)'
      BY <1>1, <1>6, <1>7, <2>2, <2>3, <2>4, PartsWait
    <3>2. [sync |-> sync', first |-> first', printed |-> printed'] = StateAt(sent', d)
      BY <1>1, <2>1, <2>4
    <3> QED
      BY <1>1, <3>1, <3>2 DEF Delivered
  <2>5. CASE ~(cnt + k < PacketLen) /\ cnt' = 0 /\ PrintPacket(filled)
    <3>1. cnt + k >= PacketLen
      BY <1>8, <2>5
    <3>2. /\ m # 0 /\ d + Pairs <= Len(sent) /\ \A e \in 1..Pairs : filled[e + 1] = sent[d + e]
          /\ WholePackets(d + Pairs, m - 1)'
      BY <1>1, <1>6, <1>7, <1>9, <2>2, <2>3, <2>5, <3>1, PacketTaken
    <3>3. filled \in [1..PacketLen -> Sample]
      BY <1>8, OwnedSamples
    <3>4. [sync |-> sync', first |-> first', printed |-> printed'] = StateAt(sent, d + Pairs)
      BY <1>9, <2>1, <2>3, <2>5, <3>2, <3>3, PacketContinues
    <3>5. d + Pairs \in 0..Len(sent) /\ m - 1 \in 0..Len(sent)
      BY <2>3, <3>2, LoggerConstants
    <3>6. [sync |-> sync', first |-> first', printed |-> printed'] = StateAt(sent', d + Pairs)
      BY <1>1, <3>4
    <3>7. d + Pairs \in 0..Len(sent') /\ m - 1 \in 0..Len(sent')
      BY <1>1, <3>5
    <3> QED
      BY <3>2, <3>6, <3>7 DEF Delivered
  <2> QED
    BY <1>6, <2>4, <2>5
<1> QED
  BY <1>11, <1>12, <1>13, <1>14, <1>15 DEF LoggerInv

LEMMA LoggerStands == ASSUME LoggerInv, UNCHANGED loggerVars PROVE LoggerInv'
<1>1. UNCHANGED <<session, pc, waiting, fda, fdb, buf, cnt, sync, first, printed, stale,
                  toDevice, control, data, streaming, samples, taken, sent>>
  BY DEF loggerVars, programVars, deviceVars
<1>2. LoggerTypeOK' /\ Queues' /\ OwnPrinted' /\ Connections' /\ NothingRead' /\ Earlier'
  BY <1>1 DEF LoggerInv, LoggerTypeOK, Queues, OwnPrinted, Owned, Connections, NothingRead, Earlier
<1>3. Stopping' /\ Flushing'
  BY <1>1 DEF LoggerInv, Stopping, Flushing, Unflushed, Flushed, AnswersTo, Own
<1>4. Configuring'
  BY <1>1 DEF LoggerInv, Configuring, Unflushed, Flushed, AnswersTo, Own, NoneSent, InTheWay
<1>5. Starting' /\ Streaming'
  BY <1>1 DEF LoggerInv, Starting, Streaming, Flushed, AnswersTo, Own, NoneSent, OwnStream, Owned
<1>6. Delivered'
  BY <1>1, DeliveredStays DEF LoggerInv
<1> QED
  BY <1>2, <1>3, <1>4, <1>5, <1>6 DEF LoggerInv

LEMMA LoggerKeeps == LoggerInv /\ [LoggerNext]_loggerVars => LoggerInv'
<1> SUFFICES ASSUME LoggerInv, [LoggerNext]_loggerVars PROVE LoggerInv'
  OBVIOUS
<1> QED
  BY OpenControlKeeps, OpenDataKeeps, SendCommandKeeps, ReceiveAnswerKeeps, CallClosedKeeps,
     ReceiveDataKeeps, ReceiveFailsKeeps, ConnectionBreaksKeeps, CleanupKeeps, StartAgainKeeps, ObeyKeeps,
     TakeSampleKeeps, SendPacketKeeps, LoggerStands DEF LoggerNext

\* What is printed of the samples sent is the beginning of what should be.
LEMMA FramedGrows ==
  ASSUME NEW s \in Seq(Sample), NEW d \in 0..Len(s)
  PROVE  IsPrefix(Framed(SubSeq(s, 1, d)), Framed(s))
<1>1. /\ Len(s) \in Nat /\ Len(s) \in 0..Len(s) /\ d \in Nat /\ d <= Len(s)
      /\ SubSeq(s, 1, Len(s)) = s
  OBVIOUS
<1>2. CASE \A i \in 1..d : ~s[i].start
  <2>1. Framed(SubSeq(s, 1, d)) = << >>
    BY <1>2, FramedTo
  <2>2. \A t : IsPrefix(<< >>, t)
    BY DEF IsPrefix
  <2> QED
    BY <2>1, <2>2
<1>3. ASSUME NEW from \in 1..d, s[from].start, \A i \in 1..(from - 1) : ~s[i].start
      PROVE  IsPrefix(Framed(SubSeq(s, 1, d)), Framed(s))
  <2>1. from \in 1..Len(s) /\ d - from + 1 \in Nat /\ d - from + 1 <= Len(s) - from + 1 /\ Len(s) - from + 1 \in Nat
    BY <1>1
  <2>2. Framed(SubSeq(s, 1, d)) = [i \in 1..(d - from + 1) |-> Line(s, from, i)]
    BY <1>3, FramedTo
  <2>3. Framed(s) = [i \in 1..(Len(s) - from + 1) |-> Line(s, from, i)]
    <3>1. Framed(SubSeq(s, 1, Len(s))) = [i \in 1..(Len(s) - from + 1) |-> Line(s, from, i)]
      BY <1>1, <1>3, <2>1, FramedTo
    <3> QED
      BY <1>1, <3>1
  <2> DEFINE a == Framed(SubSeq(s, 1, d))
             b == Framed(s)
  <2> HIDE DEF a, b
  <2>4. Len(a) = d - from + 1 /\ Len(b) = Len(s) - from + 1
    <3> DEFINE n == d - from + 1
               k == Len(s) - from + 1
    <3>1. n \in Nat /\ k \in Nat
      BY <2>1
    <3>2. a = [i \in 1..n |-> Line(s, from, i)] /\ b = [i \in 1..k |-> Line(s, from, i)]
      BY <2>2, <2>3 DEF a, b
    <3> HIDE DEF n, k
    <3>3. Len(a) = n /\ Len(b) = k
      BY <3>1, <3>2
    <3> QED
      BY <3>3 DEF n, k
  <2>5. \A i \in 1..Len(a) : a[i] = b[i]
    <3>1. \A i \in 1..(d - from + 1) : i \in 1..(Len(s) - from + 1)
      BY <2>1
    <3> QED
      BY <2>2, <2>3, <2>4, <3>1 DEF a, b
  <2> QED
    BY <2>1, <2>4, <2>5 DEF IsPrefix, a, b
<1> QED
  BY <1>1, <1>2, <1>3, FirstStart

LEMMA PrintsWhatIsSent == LoggerInv => PrintsOwnSamples
<1> SUFFICES ASSUME LoggerInv PROVE PrintsOwnSamples
  OBVIOUS
<1>1. sent \in Seq(Sample) /\ cnt \in Nat
  BY LoggerConstants DEF LoggerInv, Queues, LoggerTypeOK
<1>2. ASSUME stale = 0
      PROVE  /\ IsPrefix(printed, Framed(sent))
             /\ fdb /\ data = << >> /\ cnt = 0 => printed = Framed(sent)
  <2>1. PICK d \in 0..Len(sent) :
          /\ [sync |-> sync, first |-> first, printed |-> printed] = StateAt(sent, d)
          /\ fdb => \E m \in 0..Len(sent) : WholePackets(d, m)
    BY <1>2 DEF LoggerInv, Delivered
  <2>2. printed = Framed(SubSeq(sent, 1, d))
    BY <2>1 DEF StateAt
  <2>3. ASSUME fdb, data = << >>, cnt = 0 PROVE printed = Framed(sent)
    <3>1. PICK m \in 0..Len(sent) : WholePackets(d, m)
      BY <2>1, <2>3
    <3>2. m \in Nat /\ d \in Nat /\ Len(sent) = d + Sampled(m)
      BY <1>1, <3>1 DEF WholePackets
    <3>3. Before(m) = 0
      <4>1. cnt + Len(data) = Before(m)
        BY <3>1 DEF WholePackets
      <4> QED
        BY <2>3, <4>1
    <3>4. m = 0
      <4>1. 0 < m => Before(0) + PacketLen <= Before(m) /\ Before(0) = 0
        BY <3>2, PacketsInLine
      <4> QED
        BY <3>2, <3>3, <4>1, LoggerConstants
    <3>5. Sampled(0) = 0
      BY PacketsInLine
    <3>6. d = Len(sent)
      BY <3>2, <3>4, <3>5
    <3>7. SubSeq(sent, 1, Len(sent)) = sent
      BY <1>1
    <3> QED
      BY <2>2, <3>6, <3>7
  <2> QED
    BY <1>1, <2>2, <2>3, FramedGrows
<1>3. \A i \in DOMAIN printed : printed[i].of.session \in {0, session}
  <2>1. printed \in Seq(Lines(Owned))
    BY DEF LoggerInv, OwnPrinted
  <2>2. \A l \in Lines(Owned) : l.of.session \in {0, session}
    BY DEF Lines, Owned
  <2> QED
    BY <2>1, <2>2
<1> QED
  BY <1>2, <1>3 DEF PrintsOwnSamples
================================================================================
