-------------------------- MODULE SharedHardwareProofs --------------------------
(***************************************************************************)
(* The arbiter, for any sets of clients and activities: its types, that a  *)
(* client told that it has the resource owns it alone, and that it         *)
(* implements the first-come-first-served line of FcfsGrants, each grant   *)
(* under the activity of its request.                                      *)
(*                                                                         *)
(* Then that the radio's drivers have its bus one at a time; that the      *)
(* three layers of the serial writer hand a write on without losing or     *)
(* doubling it, that a frame that ends well holds the buffer, and that     *)
(* clients are served round robin: for any number of clients, any lengths  *)
(* of their buffers and any width of the counters.                         *)
(*                                                                         *)
(* Last, what this says of the layers together: each keeps its promise,    *)
(* and those that do not run see, at most, the activity of the CPU change. *)
(***************************************************************************)
EXTENDS SharedHardware, FiniteSetTheorems, WellFoundedInduction, TLAPS

------------------------------------------------------------------------------
(* The activity of every queued request is known. *)
QueuedContexts == \A i \in DOMAIN queue : clientContext[queue[i]] \in Act

(* What each state of the arbiter implies for the rest of it. *)
StateInv ==
  /\ state = "RES_CONTROLLED" =>
        /\ resId = DefaultOwner /\ main = Outside
        /\ resource = Idle /\ queue = << >>
  /\ state # "RES_BUSY" => holds = {} /\ configured = None
  /\ state = "RES_BUSY" => resId \in Client
  /\ \A c \in holds : resId = c /\ configured = c
  /\ grantedTask # None => state = "RES_GRANTING" /\ main = Outside
  /\ state # "RES_CONTROLLED" => reqResId \in Client

(* What each place of the main program implies. *)
MainInv ==
  /\ main.step = "request" => state = "RES_GRANTING" /\ reqResId = main.client
  /\ main.step = "immediateRequest" =>
        state = "RES_IMM_GRANTING" /\ reqResId = main.client
  /\ main.step \in {"immediateAnswer", "grantedTask"} =>
        state = "RES_BUSY" /\ holds = {} /\ resId = main.client
  /\ state = "RES_IMM_GRANTING" => main.step = "immediateRequest"

Inv == TypeOK /\ QueuedContexts /\ StateInv /\ MainInv

------------------------------------------------------------------------------
(* A client that joins the queue is its only new member. *)
LEMMA EnqueueKeepsQueue ==
  ASSUME NEW q \in Seq(Client), IsInjective(q), NEW c \in Client, c \notin ToSet(q)
  PROVE  /\ Append(q, c) \in Seq(Client) /\ IsInjective(Append(q, c))
         /\ \A i \in DOMAIN Append(q, c) : Append(q, c)[i] = c \/ \E j \in DOMAIN q : Append(q, c)[i] = q[j]
<1>1. /\ Append(q, c) \in Seq(Client)
      /\ DOMAIN Append(q, c) = 1..(Len(q) + 1) /\ DOMAIN q = 1..Len(q) /\ Len(q) \in Nat
      /\ Append(q, c)[Len(q) + 1] = c
      /\ \A i \in 1..Len(q) : Append(q, c)[i] = q[i] /\ q[i] # c
  BY DEF ToSet
<1> QED
  BY <1>1 DEF IsInjective

(* The first client leaves a queue without repetition. *)
LEMMA DequeueKeepsQueue ==
  ASSUME NEW q \in Seq(Client), IsInjective(q), q # << >>
  PROVE  /\ Head(q) \in Client /\ Head(q) = q[1] /\ 1 \in DOMAIN q
         /\ Tail(q) \in Seq(Client) /\ IsInjective(Tail(q))
         /\ \A i \in DOMAIN Tail(q) : i + 1 \in DOMAIN q /\ Tail(q)[i] = q[i + 1]
<1>1. /\ Tail(q) \in Seq(Client) /\ Head(q) = q[1] /\ Len(q) \in Nat /\ Len(q) > 0
      /\ DOMAIN Tail(q) = 1..(Len(q) - 1) /\ DOMAIN q = 1..Len(q)
      /\ \A i \in 1..(Len(q) - 1) : Tail(q)[i] = q[i + 1]
  OBVIOUS
<1> QED
  BY <1>1 DEF IsInjective

(* A request that waits keeps the invariant, whoever makes it. *)
LEMMA EnqueueInv ==
  ASSUME Inv, NEW c \in Client, NEW a \in Act, Enqueue(c, a),
         UNCHANGED <<grantedTask, resource, configured, holds, cpu, main>>
  PROVE  Inv'
<1>1. /\ queue' \in Seq(Client) /\ IsInjective(queue')
      /\ \A i \in DOMAIN queue' : queue'[i] = c \/ \E j \in DOMAIN queue : queue'[i] = queue[j]
  BY EnqueueKeepsQueue DEF Inv, TypeOK, Enqueue, MayEnqueue
<1>2. TypeOK'
  BY <1>1 DEF Inv, TypeOK, Enqueue
<1>3. QueuedContexts'
  BY <1>1 DEF Inv, TypeOK, QueuedContexts, Enqueue
<1>4. StateInv' /\ MainInv'
  BY DEF Inv, StateInv, MainInv, Enqueue, Controlled
<1> QED
  BY <1>2, <1>3, <1>4 DEF Inv

(* Passing the resource on keeps it, and hands on an activity. *)
LEMMA PassOnInv ==
  ASSUME Inv, NEW c \in holds, PassOn(c), cpu' \in {cpu, NextContext}, main' = main
  PROVE  Inv'
<1>1. /\ Head(queue) \in Client /\ Head(queue) = queue[1] /\ 1 \in DOMAIN queue
      /\ Tail(queue) \in Seq(Client) /\ IsInjective(Tail(queue))
      /\ \A i \in DOMAIN Tail(queue) : i + 1 \in DOMAIN queue /\ Tail(queue)[i] = queue[i + 1]
  BY DequeueKeepsQueue DEF Inv, TypeOK, PassOn
<1>2. NextContext \in Act
  BY <1>1 DEF Inv, QueuedContexts, NextContext
<1>3. main = Outside /\ grantedTask = None /\ holds' = {}
  BY DEF Inv, TypeOK, StateInv, MainInv, PassOn, Outside, In, Steps
<1>4. TypeOK'
  BY <1>1, <1>2, <1>3 DEF Inv, TypeOK, PassOn, Posted
<1>5. QueuedContexts'
  BY <1>1 DEF Inv, QueuedContexts, PassOn
<1>6. StateInv' /\ MainInv'
  BY <1>1, <1>3 DEF Inv, StateInv, MainInv, PassOn, Outside
<1> QED
  BY <1>4, <1>5, <1>6 DEF Inv

(* Handing the resource back leaves it free. *)
LEMMA HandBackInv ==
  ASSUME Inv, NEW c \in holds, HandBack(c), UNCHANGED <<cpu, main>>
  PROVE  Inv'
<1>1. main = Outside /\ grantedTask = None /\ holds' = {}
  BY DEF Inv, TypeOK, StateInv, MainInv, HandBack, Outside, In, Steps
<1>2. TypeOK'
  BY <1>1 DEF Inv, TypeOK, HandBack
<1>3. QueuedContexts'
  BY DEF Inv, QueuedContexts, HandBack
<1>4. StateInv' /\ MainInv'
  BY <1>1 DEF Inv, StateInv, MainInv, HandBack, Outside
<1> QED
  BY <1>2, <1>3, <1>4 DEF Inv

------------------------------------------------------------------------------
LEMMA InitInv == Init => Inv
<1> SUFFICES ASSUME Init PROVE Inv
  OBVIOUS
<1>1. TypeOK
  BY DEF Init, TypeOK, Outside, IsInjective
<1>2. QueuedContexts /\ StateInv /\ MainInv
  BY DEF Init, QueuedContexts, StateInv, MainInv, Outside
<1> QED
  BY <1>1, <1>2 DEF Inv

LEMMA NextInv == Inv /\ [Next]_vars => Inv'
<1> SUFFICES ASSUME Inv, [Next]_vars PROVE Inv'
  OBVIOUS
<1> USE ArbiterAssumption
<1>1. ASSUME NEW a \in Act, OtherTask(a) PROVE Inv'
  BY <1>1 DEF Inv, TypeOK, QueuedContexts, StateInv, MainInv, OtherTask, arbiter
<1>2. ASSUME NEW c \in Client, Request(c) PROVE Inv'
  <2>1. CASE Enqueue(c, cpu) /\ UNCHANGED main
    BY <1>2, <2>1, EnqueueInv DEF Request, Inv, TypeOK
  <2>2. CASE Reserve(c, "RES_GRANTING") /\ main' = In("request", c)
    <3>1. TypeOK'
      BY <1>2, <2>2 DEF Inv, TypeOK, Request, Reserve, Steps
    <3>2. QueuedContexts' /\ StateInv' /\ MainInv'
      BY <1>2, <2>2 DEF Inv, QueuedContexts, StateInv, MainInv, Request, Reserve, Controlled, In, Outside
    <3> QED
      BY <3>1, <3>2 DEF Inv
  <2> QED
    BY <1>2, <2>1, <2>2 DEF Request
<1>3. ASSUME NEW c \in Client, ImmediateRequest(c) PROVE Inv'
  <2>1. TypeOK'
    BY <1>3 DEF Inv, TypeOK, ImmediateRequest, Reserve, Steps
  <2>2. QueuedContexts' /\ StateInv' /\ MainInv'
    BY <1>3 DEF Inv, QueuedContexts, StateInv, MainInv, ImmediateRequest, Reserve, Controlled, In, Outside
  <2> QED
    BY <2>1, <2>2 DEF Inv
<1>4. ASSUME NEW c \in Client, Release(c) PROVE Inv'
  BY <1>4, PassOnInv, HandBackInv DEF Release
<1>5. ASSUME NEW c \in Client, NEW a \in Act, HandlerRequest(c, a) PROVE Inv'
  <2>1. CASE Enqueue(c, a) /\ UNCHANGED grantedTask
    BY <1>5, <2>1, EnqueueInv DEF HandlerRequest
  <2>2. CASE Reserve(c, "RES_GRANTING") /\ grantedTask' = Posted(a)
    <3>1. TypeOK'
      BY <1>5, <2>2 DEF Inv, TypeOK, HandlerRequest, Reserve, Posted
    <3>2. QueuedContexts' /\ StateInv' /\ MainInv'
      BY <1>5, <2>2 DEF Inv, QueuedContexts, StateInv, MainInv, HandlerRequest, Reserve, Controlled, Outside
    <3> QED
      BY <3>1, <3>2 DEF Inv
  <2> QED
    BY <1>5, <2>1, <2>2 DEF HandlerRequest
<1>6. ASSUME NEW c \in Client, NEW a \in Act, HandlerImmediateRequest(c, a) PROVE Inv'
  <2>1. TypeOK'
    BY <1>6 DEF Inv, TypeOK, HandlerImmediateRequest
  <2>2. QueuedContexts' /\ StateInv' /\ MainInv'
    BY <1>6 DEF Inv, QueuedContexts, StateInv, MainInv, HandlerImmediateRequest, Controlled, Outside
  <2> QED
    BY <2>1, <2>2 DEF Inv
<1>7. ASSUME NEW c \in Client, HandlerRelease(c) PROVE Inv'
  BY <1>7, PassOnInv, HandBackInv DEF HandlerRelease
<1>8. ASSUME GrantedTask PROVE Inv'
  <2>1. state = "RES_GRANTING" /\ reqResId \in Client /\ holds = {} /\ main = Outside
    BY <1>8 DEF Inv, StateInv, GrantedTask
  <2>2. TypeOK'
    BY <1>8, <2>1 DEF Inv, TypeOK, GrantedTask, Steps
  <2>3. QueuedContexts' /\ StateInv' /\ MainInv'
    BY <1>8, <2>1 DEF Inv, QueuedContexts, StateInv, MainInv, GrantedTask, In
  <2> QED
    BY <2>2, <2>3 DEF Inv
<1>9. ASSUME OwnerReleases PROVE Inv'
  BY <1>9 DEF Inv, TypeOK, QueuedContexts, StateInv, MainInv, OwnerReleases, arbiter, Posted, Outside
<1>10. ASSUME OwnerReleasesNow PROVE Inv'
  <2>1. reqResId \in Client /\ reqResId = main.client /\ main = In("immediateRequest", reqResId)
        /\ holds = {} /\ configured = None /\ grantedTask = None
    BY <1>10 DEF Inv, TypeOK, StateInv, MainInv, OwnerReleasesNow, In, Outside, Steps
  <2>2. main' = In("immediateAnswer", reqResId)
    BY <1>10, <2>1 DEF OwnerReleasesNow, In
  <2>3. TypeOK'
    BY <1>10, <2>1, <2>2 DEF Inv, TypeOK, OwnerReleasesNow, Steps
  <2>4. QueuedContexts' /\ StateInv' /\ MainInv'
    BY <1>10, <2>1, <2>2 DEF Inv, QueuedContexts, StateInv, MainInv, OwnerReleasesNow, In, Outside
  <2> QED
    BY <2>3, <2>4 DEF Inv
<1>11. ASSUME ImmediateAnswer PROVE Inv'
  <2>1. state = "RES_BUSY" /\ resId = main.client /\ resId \in Client /\ holds = {} /\ grantedTask = None
    BY <1>11 DEF Inv, StateInv, MainInv, ImmediateAnswer, Outside
  <2>2. TypeOK'
    BY <1>11, <2>1 DEF Inv, TypeOK, ImmediateAnswer
  <2>3. QueuedContexts' /\ StateInv' /\ MainInv'
    BY <1>11, <2>1 DEF Inv, QueuedContexts, StateInv, MainInv, ImmediateAnswer, Outside
  <2> QED
    BY <2>2, <2>3 DEF Inv
<1>12. ASSUME SignalGranted PROVE Inv'
  <2>1. state = "RES_BUSY" /\ resId \in Client /\ holds = {} /\ grantedTask = None
    BY <1>12 DEF Inv, StateInv, MainInv, SignalGranted, Outside
  <2>2. TypeOK'
    BY <1>12, <2>1 DEF Inv, TypeOK, SignalGranted, arbiter
  <2>3. QueuedContexts' /\ StateInv' /\ MainInv'
    BY <1>12, <2>1 DEF Inv, QueuedContexts, StateInv, MainInv, SignalGranted, arbiter, Outside
  <2> QED
    BY <2>2, <2>3 DEF Inv
<1>13. ASSUME UNCHANGED vars PROVE Inv'
  BY <1>13 DEF Inv, TypeOK, QueuedContexts, StateInv, MainInv, vars, arbiter
<1> QED
  BY <1>1, <1>2, <1>3, <1>4, <1>5, <1>6, <1>7, <1>8, <1>9, <1>10, <1>11, <1>12, <1>13
  DEF Next, Continue

THEOREM SpecInv == Spec => []Inv
  BY InitInv, NextInv, PTL DEF Spec

(* The variables keep their types, and no client is in the queue twice     *)
(* (ArbiterP.nc:93-97, and the enqueue of its queue).                      *)
THEOREM TypesHold == Spec => []TypeOK
<1>1. Inv => TypeOK
  BY DEF Inv
<1> QED
  BY <1>1, SpecInv, PTL

(* For any clients and activities: a client told that it has the resource  *)
(* owns it alone, and a free resource is nobody's (ArbiterP.nc:101-228).   *)
THEOREM HoldersOwn == Spec => []HolderOwnsResource
<1>1. Inv => HolderOwnsResource
  BY DEF Inv, StateInv, HolderOwnsResource, userId, Controlled, TypeOK
<1> QED
  BY <1>1, SpecInv, PTL

------------------------------------------------------------------------------
(* The steps of the arbiter as steps of the line.                          *)

Requests == [client : Client, act : Act]

LEMMA FrontOfLine ==
  ASSUME NEW S, NEW x \in S, NEW s \in Seq(S)
  PROVE  /\ <<x>> \o s # << >>
         /\ Head(<<x>> \o s) = x
         /\ Tail(<<x>> \o s) = s
         /\ << >> \o s = s
  OBVIOUS

LEMMA LineOfFront ==
  ASSUME NEW S, NEW x \in S, NEW s \in Seq(S), NEW t \in Seq(S),
         Len(t) = Len(s) + 1, t[1] = x, \A i \in 1..Len(s) : s[i] = t[i + 1]
  PROVE  t = <<x>> \o s
<1>1. /\ <<x>> \o s \in Seq(S) /\ Len(<<x>> \o s) = Len(s) + 1 /\ Len(s) \in Nat
      /\ (<<x>> \o s)[1] = x
  OBVIOUS
<1>2. \A i \in 2..Len(t) : (<<x>> \o s)[i] = s[i - 1] /\ i - 1 \in 1..Len(s)
  BY <1>1
<1>3. \A i \in 2..Len(t) : (<<x>> \o s)[i] = t[i]
  BY <1>2
<1>4. \A i \in 1..Len(t) : (<<x>> \o s)[i] = t[i]
  BY <1>1, <1>3
<1> QED
  BY <1>1, <1>4

LEMMA EndOfLine ==
  ASSUME NEW S, NEW t \in Seq(S), NEW s \in Seq(S), NEW x \in S
  PROVE  t \o Append(s, x) = Append(t \o s, x)
  OBVIOUS

(* A queue, with the activities of its clients, is a line of requests. *)
LEMMA QueueIsLine ==
  ASSUME NEW q \in Seq(Client), NEW ctx,
         \A i \in DOMAIN q : ctx[q[i]] \in Act,
         NEW w, w = [i \in DOMAIN q |-> [client |-> q[i], act |-> ctx[q[i]]]]
  PROVE  /\ w \in Seq(Requests)
         /\ Len(w) = Len(q)
         /\ \A i \in 1..Len(q) : w[i] = [client |-> q[i], act |-> ctx[q[i]]]
         /\ q = << >> => w = << >>
<1>1. DOMAIN q = 1..Len(q) /\ Len(q) \in Nat
  OBVIOUS
<1>2. \A i \in 1..Len(q) : [client |-> q[i], act |-> ctx[q[i]]] \in Requests
  BY <1>1 DEF Requests
<1> QED
  BY <1>1, <1>2

LEMMA WaitingType ==
  ASSUME Inv
  PROVE  /\ Waiting \in Seq(Requests)
         /\ Len(Waiting) = Len(queue)
         /\ \A i \in 1..Len(queue) :
               Waiting[i] = [client |-> queue[i], act |-> clientContext[queue[i]]]
         /\ queue = << >> => Waiting = << >>
  BY QueueIsLine DEF Inv, TypeOK, QueuedContexts, Waiting

LEMMA WaitingTypeNext ==
  ASSUME Inv'
  PROVE  /\ Waiting' \in Seq(Requests)
         /\ Len(Waiting') = Len(queue')
         /\ \A i \in 1..Len(queue') :
               Waiting'[i] = [client |-> queue'[i], act |-> clientContext'[queue'[i]]]
  BY QueueIsLine DEF Inv, TypeOK, QueuedContexts, Waiting

LEMMA ServedType == ASSUME Inv PROVE Served \in Seq(Requests)
<1>1. CASE grantedTask # None
  <2>1. [client |-> reqResId, act |-> grantedTask] \in Requests
    BY <1>1 DEF Inv, TypeOK, StateInv, Requests
  <2> QED
    BY <1>1, <2>1 DEF Served
<1>2. CASE grantedTask = None /\ main.step \in {"request", "immediateRequest", "grantedTask"}
  <2>1. [client |-> main.client, act |-> cpu] \in Requests
    BY <1>2 DEF Inv, TypeOK, Requests, Outside, In
  <2> QED
    BY <1>2, <2>1 DEF Served
<1>3. CASE grantedTask = None /\ main.step \notin {"request", "immediateRequest", "grantedTask"}
  BY <1>3 DEF Served
<1> QED
  BY <1>1, <1>2, <1>3

(* A request that must wait is asked for at the end of the line. *)
LEMMA EnqueueAsks ==
  ASSUME Inv, Inv', NEW c \in Client, NEW a \in Act, Enqueue(c, a),
         UNCHANGED <<grantedTask, resource, configured, holds, cpu, main>>
  PROVE  Fcfs!Ask(c, a)
<1> DEFINE r == [client |-> c, act |-> a]
<1>1. r \in Requests
  BY DEF Requests
<1>2. Waiting' = Append(Waiting, r)
  <2>1. Waiting' \in Seq(Requests) /\ Len(Waiting') = Len(queue')
        /\ \A i \in 1..Len(queue') :
              Waiting'[i] = [client |-> queue'[i], act |-> clientContext'[queue'[i]]]
    BY WaitingTypeNext
  <2>2. queue \in Seq(Client) /\ queue' = Append(queue, c) /\ Len(queue) \in Nat
        /\ Len(queue') = Len(queue) + 1
    BY DEF Inv, TypeOK, Enqueue
  <2>3. \A i \in 1..Len(queue) : queue'[i] = queue[i] /\ queue[i] # c
    BY <2>2 DEF Enqueue, MayEnqueue, ToSet
  <2>4. \A d \in Client : clientContext'[d] = IF d = c THEN a ELSE clientContext[d]
    BY DEF Inv, TypeOK, Enqueue
  <2>5. \A i \in 1..Len(queue) : Waiting'[i] = Waiting[i]
    <3> SUFFICES ASSUME NEW i \in 1..Len(queue) PROVE Waiting'[i] = Waiting[i]
      OBVIOUS
    <3>1. i \in 1..Len(queue') /\ queue[i] \in Client /\ queue'[i] = queue[i]
          /\ clientContext'[queue[i]] = clientContext[queue[i]]
      BY <2>2, <2>3, <2>4
    <3> QED
      BY <2>1, <3>1, WaitingType
  <2>6. Waiting'[Len(queue) + 1] = r
    BY <2>1, <2>2, <2>4
  <2> HIDE DEF r
  <2> QED
    BY <1>1, <2>1, <2>2, <2>5, <2>6, WaitingType
<1>3. Served' = Served
  BY DEF Served, Enqueue
<1>4. (Served \o Waiting)' = Append(Served \o Waiting, r)
  <2> HIDE DEF r
  <2> QED
    BY <1>1, <1>2, <1>3, ServedType, WaitingType, EndOfLine
<1> QED
  BY <1>4 DEF Fcfs!Ask, Enqueue, userId

(* A reservation of the free resource is asked for in an empty line. *)
LEMMA ReserveAsks ==
  ASSUME Inv, NEW c \in Client, NEW a \in Act, NEW g, Reserve(c, g),
         g \in {"RES_GRANTING", "RES_IMM_GRANTING"},
         Served' = <<[client |-> c, act |-> a]>>,
         resource' = resource, main'.step # "grantedTask"
  PROVE  Fcfs!Ask(c, a)
<1>1. main = Outside /\ grantedTask = None /\ queue = << >> /\ state = "RES_CONTROLLED"
  BY DEF Inv, StateInv, Reserve, Controlled
<1>2. Served = << >> /\ Waiting = << >> /\ Waiting' = << >>
  <2>1. queue' = << >>
    BY <1>1 DEF Reserve
  <2> QED
    BY <1>1, <2>1 DEF Served, Waiting, Outside
<1>3. (Served \o Waiting)' = Append(Served \o Waiting, [client |-> c, act |-> a])
  BY <1>2
<1> QED
  BY <1>1, <1>3 DEF Fcfs!Ask, Reserve, userId, Outside

(* Releasing gives the resource back; who is served next was and stays the *)
(* first of the line.                                                      *)
LEMMA PassOnGivesBack ==
  ASSUME Inv, Inv', NEW c \in holds, PassOn(c), main' = main
  PROVE  Fcfs!GiveBack
<1>1. main = Outside /\ grantedTask = None /\ state = "RES_BUSY" /\ c \in Client /\ resId = c
  BY DEF Inv, TypeOK, StateInv, MainInv, PassOn, Outside, In, Steps
<1> DEFINE r == [client |-> Head(queue), act |-> NextContext]
<1>2. queue \in Seq(Client) /\ queue # << >> /\ Len(queue) \in Nat /\ Len(queue) > 0
      /\ Head(queue) = queue[1] /\ queue' = Tail(queue) /\ Len(queue') = Len(queue) - 1
      /\ \A i \in 1..Len(queue') : queue'[i] = queue[i + 1]
  BY DEF Inv, TypeOK, PassOn
<1>3. Waiting' \in Seq(Requests) /\ Len(Waiting') = Len(queue')
      /\ \A i \in 1..Len(queue') :
            Waiting'[i] = [client |-> queue'[i], act |-> clientContext'[queue'[i]]]
  BY WaitingTypeNext
<1>4. r \in Requests /\ r = Waiting[1] /\ Waiting # << >>
  BY <1>2, WaitingType DEF NextContext, Requests
<1>5. Served = << >> /\ Served' = <<r>>
  <2>1. NextContext \in Act /\ NextContext # None
    BY <1>4, ArbiterAssumption DEF Requests
  <2> QED
    BY <1>1, <2>1 DEF Served, PassOn, Posted, Outside
<1>6. Waiting = <<r>> \o Waiting'
  <2>1. clientContext' = clientContext
    BY DEF PassOn
  <2>2. \A i \in 1..Len(queue') : Waiting'[i] = Waiting[i + 1]
    <3> SUFFICES ASSUME NEW i \in 1..Len(queue') PROVE Waiting'[i] = Waiting[i + 1]
      OBVIOUS
    <3>1. i + 1 \in 1..Len(queue) /\ queue'[i] = queue[i + 1]
      BY <1>2
    <3> QED
      BY <1>3, <2>1, <3>1, WaitingType
  <2>3. Waiting \in Seq(Requests) /\ Len(Waiting) = Len(Waiting') + 1
    BY <1>2, <1>3, WaitingType
  <2>4. \A i \in 1..Len(Waiting') : Waiting'[i] = Waiting[i + 1]
    BY <1>3, <2>2
  <2>5. r \in Requests /\ Waiting[1] = r /\ Waiting' \in Seq(Requests)
    BY <1>3, <1>4
  <2> HIDE DEF r
  <2> QED
    BY <2>3, <2>4, <2>5, LineOfFront
<1>7. (Served \o Waiting)' = Served \o Waiting /\ Served \o Waiting # << >>
  BY <1>4, <1>5, <1>6, WaitingType
<1> QED
  BY <1>1, <1>7, ArbiterAssumption DEF Fcfs!GiveBack, PassOn, userId, Outside

LEMMA HandBackGivesBack ==
  ASSUME Inv, NEW c \in holds, HandBack(c), UNCHANGED <<cpu, main>>
  PROVE  Fcfs!GiveBack
<1>1. main = Outside /\ grantedTask = None /\ state = "RES_BUSY" /\ c \in Client /\ resId = c
  BY DEF Inv, TypeOK, StateInv, MainInv, HandBack, Outside, In, Steps
<1>2. Served = << >> /\ Waiting = << >> /\ Served' = << >> /\ Waiting' = << >>
  BY <1>1 DEF Served, Waiting, HandBack, Outside
<1> QED
  BY <1>1, <1>2, ArbiterAssumption DEF Fcfs!GiveBack, HandBack, userId, Outside

(* A step that serves the first request grants it under its activity. *)
LEMMA ServingGrants ==
  ASSUME Inv, UNCHANGED <<queue, clientContext>>,
         NEW c \in Client, NEW a \in Act,
         Served = <<[client |-> c, act |-> a]>>, Served' = << >>,
         main.step = "grantedTask" \/ userId = None,
         main'.step # "grantedTask", userId' = c, resource' = a
  PROVE  Fcfs!Grant
<1> DEFINE r == [client |-> c, act |-> a]
<1>1. r \in Requests /\ r.client = c /\ r.act = a
  BY DEF Requests
<1>2. Waiting' = Waiting /\ Waiting \in Seq(Requests)
  BY WaitingType DEF Waiting
<1>3. Served = <<r>>
  OBVIOUS
<1> HIDE DEF r
<1>4. /\ Served \o Waiting # << >>
      /\ Head(Served \o Waiting) = r
      /\ Tail(Served \o Waiting) = (Served \o Waiting)'
  BY <1>1, <1>2, <1>3, FrontOfLine
<1> QED
  BY <1>1, <1>4 DEF Fcfs!Grant

LEMMA StepsImplement == Inv /\ Inv' /\ [Next]_vars => [Fcfs!GNext]_Fcfs!gvars
<1> SUFFICES ASSUME Inv, Inv', [Next]_vars PROVE [Fcfs!GNext]_Fcfs!gvars
  OBVIOUS
<1> USE ArbiterAssumption
<1>1. ASSUME NEW a \in Act, OtherTask(a) PROVE UNCHANGED Fcfs!gvars
  BY <1>1 DEF OtherTask, arbiter, Fcfs!gvars, Served, Waiting, userId, Outside
<1>2. ASSUME NEW c \in Client, Request(c) PROVE \E a \in Act : Fcfs!Ask(c, a)
  <2>1. CASE Enqueue(c, cpu) /\ UNCHANGED main
    BY <1>2, <2>1, EnqueueAsks DEF Request, Inv, TypeOK
  <2>2. CASE Reserve(c, "RES_GRANTING") /\ main' = In("request", c)
    <3>1. Served' = <<[client |-> c, act |-> cpu]>>
      BY <1>2, <2>2 DEF Request, Reserve, Controlled, Served, In, Inv, StateInv
    <3> QED
      BY <1>2, <2>2, <3>1, ReserveAsks DEF Request, In, Inv, TypeOK
  <2> QED
    BY <1>2, <2>1, <2>2 DEF Request
<1>3. ASSUME NEW c \in Client, ImmediateRequest(c) PROVE \E a \in Act : Fcfs!Ask(c, a)
  <2>1. Served' = <<[client |-> c, act |-> cpu]>>
    BY <1>3 DEF ImmediateRequest, Reserve, Controlled, Served, In, Inv, StateInv
  <2> QED
    BY <1>3, <2>1, ReserveAsks DEF ImmediateRequest, In, Inv, TypeOK
<1>4. ASSUME NEW c \in Client, Release(c) PROVE Fcfs!GiveBack
  BY <1>4, PassOnGivesBack, HandBackGivesBack DEF Release
<1>5. ASSUME NEW c \in Client, NEW a \in Act, HandlerRequest(c, a) PROVE Fcfs!Ask(c, a)
  <2>1. CASE Enqueue(c, a) /\ UNCHANGED grantedTask
    BY <1>5, <2>1, EnqueueAsks DEF HandlerRequest
  <2>2. CASE Reserve(c, "RES_GRANTING") /\ grantedTask' = Posted(a)
    <3>1. Served' = <<[client |-> c, act |-> a]>> /\ main' = Outside
      BY <1>5, <2>2 DEF HandlerRequest, Reserve, Controlled, Served, Posted, Inv, StateInv
    <3> QED
      BY <1>5, <2>2, <3>1, ReserveAsks DEF HandlerRequest, Outside
  <2> QED
    BY <1>5, <2>1, <2>2 DEF HandlerRequest
<1>6. ASSUME NEW c \in Client, NEW a \in Act, HandlerImmediateRequest(c, a)
      PROVE  Fcfs!Take(c, a)
  <2>1. main = Outside /\ grantedTask = None /\ queue = << >> /\ state = "RES_CONTROLLED"
    BY <1>6 DEF Inv, StateInv, HandlerImmediateRequest, Controlled
  <2>2. Served = << >> /\ Waiting = << >> /\ Served' = << >> /\ Waiting' = << >>
    BY <1>6, <2>1 DEF Served, Waiting, HandlerImmediateRequest, Outside
  <2> QED
    BY <1>6, <2>1, <2>2 DEF Fcfs!Take, HandlerImmediateRequest, userId, Outside
<1>7. ASSUME NEW c \in Client, HandlerRelease(c) PROVE Fcfs!GiveBack
  BY <1>7, PassOnGivesBack, HandBackGivesBack DEF HandlerRelease
<1>8. ASSUME GrantedTask PROVE UNCHANGED Fcfs!gvars
  <2>1. state = "RES_GRANTING" /\ main = Outside
    BY <1>8 DEF Inv, StateInv, GrantedTask
  <2> QED
    BY <1>8, <2>1 DEF GrantedTask, Fcfs!gvars, Served, Waiting, userId, Outside, In
<1>9. ASSUME OwnerReleases PROVE UNCHANGED Fcfs!gvars
  <2>1. grantedTask = None /\ reqResId = main.client /\ cpu # None
    BY <1>9 DEF Inv, TypeOK, StateInv, MainInv, OwnerReleases, Outside
  <2> QED
    BY <1>9, <2>1 DEF OwnerReleases, arbiter, Posted, Fcfs!gvars, Served, Waiting, userId, Outside
<1>10. ASSUME OwnerReleasesNow PROVE Fcfs!Grant
  <2>1. grantedTask = None /\ reqResId \in Client /\ main = In("immediateRequest", reqResId)
    BY <1>10 DEF Inv, TypeOK, StateInv, MainInv, OwnerReleasesNow, In, Outside, Steps
  <2>2. main' = In("immediateAnswer", reqResId)
    BY <1>10, <2>1 DEF OwnerReleasesNow, In
  <2>3. Served = <<[client |-> reqResId, act |-> cpu]>> /\ Served' = << >>
    BY <1>10, <2>1, <2>2 DEF OwnerReleasesNow, Served, In
  <2>4. userId = None /\ userId' = reqResId /\ resource' = cpu /\ cpu \in Act
        /\ UNCHANGED <<queue, clientContext>> /\ main'.step # "grantedTask"
    BY <1>10, <2>2 DEF OwnerReleasesNow, userId, Inv, TypeOK, In
  <2> QED
    BY <2>1, <2>3, <2>4, ServingGrants
<1>11. ASSUME ImmediateAnswer PROVE UNCHANGED Fcfs!gvars
  <2>1. state = "RES_BUSY" /\ resId = main.client /\ grantedTask = None
    BY <1>11 DEF Inv, StateInv, MainInv, ImmediateAnswer, Outside
  <2> QED
    BY <1>11, <2>1 DEF ImmediateAnswer, Fcfs!gvars, Served, Waiting, userId, Outside
<1>12. ASSUME SignalGranted PROVE Fcfs!Grant
  <2>1. state = "RES_BUSY" /\ resId \in Client /\ resId = main.client /\ grantedTask = None
    BY <1>12 DEF Inv, StateInv, MainInv, SignalGranted, Outside
  <2>2. Served = <<[client |-> resId, act |-> cpu]>> /\ Served' = << >>
    BY <1>12, <2>1 DEF SignalGranted, Served, Outside
  <2>3. userId' = resId /\ resource' = cpu /\ cpu \in Act
        /\ UNCHANGED <<queue, clientContext>> /\ main'.step # "grantedTask"
    BY <1>12, <2>1 DEF SignalGranted, userId, arbiter, Inv, TypeOK, Outside
  <2> QED
    BY <1>12, <2>1, <2>2, <2>3, ServingGrants DEF SignalGranted
<1>13. ASSUME UNCHANGED vars PROVE UNCHANGED Fcfs!gvars
  BY <1>13 DEF vars, arbiter, Fcfs!gvars, Served, Waiting, userId
<1> QED
  BY <1>1, <1>2, <1>3, <1>4, <1>5, <1>6, <1>7, <1>8, <1>9, <1>10, <1>11, <1>12, <1>13
  DEF Next, Continue, Fcfs!GNext

(* The arbiter serves requests in their order, each under the activity it  *)
(* was made with, whoever calls it and whatever interrupts it              *)
(* (README:98-102, ArbiterP.nc:101-228).                                   *)
THEOREM Implements == Spec => ImplementsFcfsGrants
<1>1. Init => Fcfs!GInit
  <2> SUFFICES ASSUME Init PROVE Fcfs!GInit
    OBVIOUS
  <2>1. Served = << >> /\ Waiting = << >>
    BY DEF Init, Served, Waiting, Outside
  <2> QED
    BY <2>1 DEF Init, Fcfs!GInit, userId, Outside
<1> QED
  BY <1>1, SpecInv, StepsImplement, PTL DEF Spec, ImplementsFcfsGrants, Fcfs!GSpec

------------------------------------------------------------------------------
(* The radio's drivers above the arbiter of the bus.                       *)

LineEntries == [client : {Radio, Other}, act : Act]

(* Types, of the bus as well.                                              *)
DriverTypes == Spi!TypeOK /\ line \in Seq(LineEntries)

(* The radio is in line for the bus, and at most once.                     *)
InLine == \E i \in DOMAIN line : line[i].client = Radio
OnceInLine == \A i, j \in DOMAIN line : line[i].client = Radio /\ line[j].client = Radio => i = j

(* Drivers that wait are known by the activity of their request.           *)
WaitersKnown == \A c \in m_requests : m_ctx[c] # None /\ m_ctx[c] = asked[c]

IdleInv ==
  working = "S_IDLE" =>
    m_holder = None /\ told = {} /\ granting = None /\ m_requests = {} /\ ~InLine

(* The holder was told, or the task will tell it, or it waits in line.     *)
HolderTold ==
  /\ told = {m_holder} /\ granting = None /\ holder = Radio /\ ~InLine
  /\ asked[m_holder] # None => spiContext = asked[m_holder]
HolderGranted ==
  /\ told = {} /\ granting # None /\ granting = asked[m_holder] /\ holder = Radio /\ ~InLine
WaitsInLine ==
  /\ told = {} /\ granting = None /\ holder # Radio /\ InLine
  /\ \A i \in DOMAIN line : line[i].client = Radio => line[i].act = asked[m_holder]

BusyInv ==
  working = "S_BUSY" => m_holder \in Ids \ m_requests /\ (HolderTold \/ HolderGranted \/ WaitsInLine)

SpiInv == DriverTypes /\ OnceInLine /\ WaitersKnown /\ IdleInv /\ BusyInv

------------------------------------------------------------------------------
LEMMA OwnsFromInv == ASSUME SpiInv PROVE Spi!OwnsBus
<1> SUFFICES ASSUME NEW c \in told
             PROVE  /\ m_holder = c /\ told = {c} /\ working = "S_BUSY" /\ holder = Radio
                    /\ granting = None
                    /\ asked[c] # None => spiContext = asked[c]
  BY DEF Spi!OwnsBus
<1>1. working = "S_BUSY"
  BY DEF SpiInv, IdleInv, DriverTypes, Spi!TypeOK
<1>2. HolderTold
  BY <1>1 DEF SpiInv, BusyInv, HolderGranted, WaitsInLine
<1> QED
  BY <1>1, <1>2 DEF HolderTold

LEMMA InitSpi == ASSUME Spi!Init PROVE SpiInv
<1>1. line = << >> /\ holder = None
  BY DEF Spi!Init, Spi!Bus!GInit
<1>2. DriverTypes
  <2>1. line \in Seq(LineEntries)
    BY <1>1
  <2>2. Spi!TypeOK
    BY <1>1 DEF Spi!Init, Spi!TypeOK
  <2> QED
    BY <2>1, <2>2 DEF DriverTypes
<1>3. ~InLine /\ OnceInLine
  BY <1>1 DEF InLine, OnceInLine
<1>4. WaitersKnown
  BY DEF Spi!Init, WaitersKnown
<1>5. IdleInv /\ BusyInv
  BY <1>3 DEF Spi!Init, IdleInv, BusyInv
<1> QED
  BY <1>2, <1>3, <1>4, <1>5 DEF SpiInv

(* What a request does to the line.                                        *)
LEMMA AskJoins ==
  ASSUME line \in Seq(LineEntries), NEW c \in {Radio, Other}, NEW a \in Act, Spi!Bus!Ask(c, a)
  PROVE  /\ line' \in Seq(LineEntries) /\ holder' = holder
         /\ DOMAIN line' = DOMAIN line \cup {Len(line) + 1} /\ Len(line) + 1 \notin DOMAIN line
         /\ \A i \in DOMAIN line : line'[i] = line[i]
         /\ line'[Len(line) + 1].client = c /\ line'[Len(line) + 1].act = a
<1> DEFINE e == [client |-> c, act |-> a]
<1>1. e \in LineEntries /\ e.client = c /\ e.act = a
  BY DEF LineEntries
<1>2. line' = Append(line, e) /\ holder' = holder
  BY DEF Spi!Bus!Ask
<1> HIDE DEF e
<1>3. /\ line' \in Seq(LineEntries) /\ line'[Len(line) + 1] = e
      /\ DOMAIN line' = DOMAIN line \cup {Len(line) + 1} /\ Len(line) + 1 \notin DOMAIN line
      /\ \A i \in DOMAIN line : line'[i] = line[i]
  BY <1>1, <1>2
<1> QED
  BY <1>1, <1>2, <1>3

(* What a grant does to it.                                                *)
LEMMA GrantLeaves ==
  ASSUME line \in Seq(LineEntries), Spi!Bus!Grant
  PROVE  /\ line' \in Seq(LineEntries) /\ holder = None
         /\ 1 \in DOMAIN line /\ holder' = line[1].client /\ charged' = line[1].act
         /\ line[1] \in LineEntries
         /\ \A i \in DOMAIN line' : i # 0 /\ i + 1 # 1 /\ i + 1 \in DOMAIN line /\ line'[i] = line[i + 1]
         /\ \A i \in DOMAIN line : i # 1 => i - 1 \in DOMAIN line' /\ line'[i - 1] = line[i]
<1>1. line # << >> /\ holder = None /\ line' = Tail(line)
      /\ holder' = Head(line).client /\ charged' = Head(line).act
  BY DEF Spi!Bus!Grant
<1>2. /\ Tail(line) \in Seq(LineEntries) /\ Head(line) = line[1] /\ Len(line) \in Nat /\ Len(line) > 0
      /\ DOMAIN Tail(line) = 1..(Len(line) - 1) /\ DOMAIN line = 1..Len(line)
      /\ \A i \in 1..(Len(line) - 1) : Tail(line)[i] = line[i + 1]
  BY <1>1
<1>3. line[1] \in LineEntries
  BY <1>2
<1>4. \A i \in DOMAIN line' : i # 0 /\ i + 1 # 1 /\ i + 1 \in DOMAIN line /\ line'[i] = line[i + 1]
  BY <1>1, <1>2
<1>5. \A i \in DOMAIN line : i # 1 => i - 1 \in DOMAIN line' /\ line'[i - 1] = line[i]
  BY <1>1, <1>2
<1> QED
  BY <1>1, <1>2, <1>3, <1>4, <1>5

(* The least driver that waits exists, and is one of them.                 *)
LEMMA NextHolderWaits ==
  ASSUME m_requests \subseteq Ids, m_requests # {}
  PROVE  Spi!NextHolder \in m_requests
<1>1. m_requests \subseteq Nat
  BY SpiAssumption DEF Spi!SpiAssumption
<1>2. PICK x \in m_requests : \A y \in m_requests : ~ (<<y, x>> \in OpToRel(<, Nat))
  BY <1>1, NatLessThanWellFounded, WFMin
<1>3. \A y \in m_requests : x <= y
  <2> SUFFICES ASSUME NEW y \in m_requests PROVE x <= y
    OBVIOUS
  <2>1. x \in Nat /\ y \in Nat
    BY <1>1
  <2>2. ~(y < x)
    BY <1>2, <2>1 DEF OpToRel
  <2> QED
    BY <2>1, <2>2
<1> QED
  BY <1>2, <1>3 DEF Spi!NextHolder, Spi!Min

------------------------------------------------------------------------------
LEMMA RequestKeeps ==
  ASSUME SpiInv, NEW c \in Ids, NEW a \in Act, Spi!Request(c, a)
  PROVE  SpiInv'
<1>1. /\ m_holder # c /\ c \notin m_requests /\ asked' = [asked EXCEPT ![c] = a]
      /\ UNCHANGED <<spiContext, told, abortSpiRelease, cpu>>
  BY DEF Spi!Request
<1>2. Spi!TypeOK /\ line \in Seq(LineEntries) /\ None \notin Act /\ None \notin Ids
  BY SpiAssumption DEF SpiInv, DriverTypes, Spi!SpiAssumption
<1>3. asked' \in [Ids -> Act \cup {None}] /\ asked'[c] = a /\ a # None
      /\ \A d \in Ids : d # c => asked'[d] = asked[d]
  BY <1>1, <1>2 DEF Spi!TypeOK
<1>4. WaitersKnown /\ OnceInLine /\ IdleInv /\ BusyInv
  BY DEF SpiInv
<1>5. CASE working = "S_IDLE"
  <2>1. /\ working' = "S_BUSY" /\ m_holder' = c /\ m_requests' = m_requests /\ m_ctx' = m_ctx
        /\ m_requests = {} /\ told = {} /\ granting = None /\ ~InLine
    BY <1>4, <1>5 DEF Spi!Request, IdleInv
  <2>2. CASE Spi!BusIsOurs /\ granting' = a /\ UNCHANGED Spi!bus
    <3>1. line' = line /\ holder' = holder /\ holder = Radio /\ granting' = a
      BY <2>2 DEF Spi!bus, Spi!BusIsOurs
    <3>2. DriverTypes'
      BY <1>1, <1>2, <1>3, <2>1, <3>1 DEF DriverTypes, Spi!TypeOK
    <3>3. ~InLine' /\ OnceInLine'
      BY <1>4, <2>1, <3>1 DEF InLine, OnceInLine
    <3>4. HolderGranted'
      BY <1>1, <1>3, <2>1, <3>1, <3>3 DEF HolderGranted
    <3> QED
      BY <2>1, <3>2, <3>3, <3>4 DEF SpiInv, WaitersKnown, IdleInv, BusyInv
  <2>3. CASE ~Spi!BusIsOurs /\ Spi!Bus!Ask(Radio, a) /\ UNCHANGED granting
    <3>1. /\ line' \in Seq(LineEntries) /\ holder' = holder /\ holder # Radio /\ granting' = None
          /\ DOMAIN line' = DOMAIN line \cup {Len(line) + 1} /\ Len(line) + 1 \notin DOMAIN line
          /\ \A i \in DOMAIN line : line'[i] = line[i]
          /\ line'[Len(line) + 1].client = Radio /\ line'[Len(line) + 1].act = a
      BY <1>2, <2>1, <2>3, AskJoins DEF Spi!BusIsOurs
    <3>2. DriverTypes'
      BY <1>1, <1>2, <1>3, <2>1, <3>1 DEF DriverTypes, Spi!TypeOK
    <3>3. InLine' /\ OnceInLine' /\ \A i \in DOMAIN line' : line'[i].client = Radio => line'[i].act = a
      BY <2>1, <3>1 DEF InLine, OnceInLine
    <3>4. WaitsInLine'
      BY <1>1, <1>3, <2>1, <3>1, <3>3 DEF WaitsInLine
    <3> QED
      BY <2>1, <3>2, <3>3, <3>4 DEF SpiInv, WaitersKnown, IdleInv, BusyInv
  <2> QED BY <1>5, <2>2, <2>3 DEF Spi!Request
<1>6. CASE working = "S_BUSY"
  <2>1. /\ m_requests' = m_requests \cup {c} /\ m_ctx' = [m_ctx EXCEPT ![c] = a]
        /\ UNCHANGED <<Spi!bus, m_holder, working, granting>>
    BY <1>6 DEF Spi!Request
  <2>2. line' = line /\ holder' = holder
    BY <2>1 DEF Spi!bus
  <2>3. DriverTypes'
    BY <1>1, <1>2, <1>3, <2>1, <2>2 DEF DriverTypes, Spi!TypeOK
  <2>4. m_holder \in Ids /\ m_holder \notin m_requests /\ asked'[m_holder] = asked[m_holder]
    BY <1>1, <1>3, <1>4, <1>6 DEF BusyInv
  <2>5. WaitersKnown'
    BY <1>2, <1>3, <1>4, <2>1 DEF WaitersKnown, Spi!TypeOK
  <2>6. InLine' = InLine /\ OnceInLine'
    BY <1>4, <2>2 DEF InLine, OnceInLine
  <2>7. (HolderTold => HolderTold') /\ (HolderGranted => HolderGranted') /\ (WaitsInLine => WaitsInLine')
    BY <1>1, <2>1, <2>2, <2>4, <2>6 DEF HolderTold, HolderGranted, WaitsInLine
  <2>8. BusyInv'
    BY <1>1, <1>4, <1>6, <2>1, <2>4, <2>7 DEF BusyInv
  <2>9. IdleInv'
    BY <1>6, <2>1 DEF IdleInv
  <2> QED
    BY <2>3, <2>5, <2>6, <2>8, <2>9 DEF SpiInv
<1> QED BY <1>2, <1>5, <1>6 DEF Spi!TypeOK

LEMMA ImmediateKeeps ==
  ASSUME SpiInv, NEW c \in Ids, NEW a \in Act, Spi!ImmediateRequest(c, a)
  PROVE  SpiInv'
<1>1. /\ working = "S_IDLE" /\ working' = "S_BUSY" /\ m_holder' = c
      /\ told' = told \cup {c} /\ asked' = [asked EXCEPT ![c] = None]
      /\ UNCHANGED <<m_requests, m_ctx, granting, spiContext, abortSpiRelease, cpu>>
  BY DEF Spi!ImmediateRequest
<1>2. Spi!TypeOK /\ line \in Seq(LineEntries) /\ OnceInLine
  BY DEF SpiInv, DriverTypes
<1>3. m_holder = None /\ told = {} /\ granting = None /\ m_requests = {} /\ ~InLine
  BY <1>1 DEF SpiInv, IdleInv
<1>4. holder' = Radio /\ line' = line
  BY DEF Spi!ImmediateRequest, Spi!BusIsOurs, Spi!bus, Spi!Bus!Take
<1>5. asked' \in [Ids -> Act \cup {None}] /\ asked'[c] = None
  BY <1>1, <1>2 DEF Spi!TypeOK
<1>6. DriverTypes'
  BY <1>1, <1>2, <1>3, <1>4, <1>5 DEF DriverTypes, Spi!TypeOK
<1>7. ~InLine' /\ OnceInLine'
  BY <1>2, <1>3, <1>4 DEF InLine, OnceInLine
<1>8. HolderTold'
  BY <1>1, <1>3, <1>4, <1>5, <1>7 DEF HolderTold
<1> QED
  BY <1>1, <1>3, <1>6, <1>7, <1>8 DEF SpiInv, WaitersKnown, IdleInv, BusyInv

(* Whether the bus is given back or not, an idle radio stays idle.         *)
LEMMA AttemptKeeps ==
  ASSUME DriverTypes, OnceInLine, ~InLine, NEW h \in BOOLEAN, Spi!AttemptRelease(h)
  PROVE  /\ line' = line /\ ~InLine' /\ OnceInLine' /\ cpu' \in Act
         /\ holder' \in {Radio, Other, None}
<1>1. CASE Spi!ReleaseBus(h)
  <2>1. line' = line /\ holder' = None /\ cpu' = IF h THEN cpu ELSE IF line = << >> THEN cpu ELSE Head(line).act
    BY <1>1 DEF Spi!ReleaseBus, Spi!Bus!GiveBack, Spi!Sets
  <2>2. line # << >> => Head(line) \in LineEntries
    BY DEF DriverTypes
  <2>3. cpu' \in Act
    BY <2>1, <2>2 DEF DriverTypes, Spi!TypeOK, LineEntries
  <2> QED
    BY <2>1, <2>3 DEF InLine, OnceInLine
<1>2. CASE UNCHANGED <<Spi!bus, cpu>>
  BY <1>2 DEF Spi!bus, InLine, OnceInLine, DriverTypes, Spi!TypeOK
<1> QED BY <1>1, <1>2 DEF Spi!AttemptRelease

LEMMA ReleaseKeeps ==
  ASSUME SpiInv, NEW c \in Ids, NEW keep \in BOOLEAN, NEW h \in BOOLEAN,
         Spi!Release(c, keep, h)
  PROVE  SpiInv'
<1>1. /\ c \in told /\ m_holder = c /\ told' = told \ {c}
      /\ abortSpiRelease' = (abortSpiRelease \/ keep) /\ UNCHANGED <<m_ctx, asked>>
  BY DEF Spi!Release
<1>2. Spi!TypeOK /\ line \in Seq(LineEntries) /\ OnceInLine /\ DriverTypes /\ WaitersKnown
  BY DEF SpiInv, DriverTypes
<1>3. working = "S_BUSY"
  BY <1>1 DEF SpiInv, IdleInv, DriverTypes, Spi!TypeOK
<1>4. HolderTold
  BY <1>1, <1>3 DEF SpiInv, BusyInv, HolderGranted, WaitsInLine
<1>5. told' = {} /\ granting = None /\ holder = Radio /\ ~InLine
  BY <1>1, <1>4 DEF HolderTold
<1>6. abortSpiRelease' \in BOOLEAN
  BY <1>1, <1>2 DEF Spi!TypeOK
<1>7. CASE m_requests = {}
  <2>1. /\ m_holder' = None /\ working' = "S_IDLE" /\ spiContext' = Idle
        /\ Spi!AttemptRelease(h) /\ m_requests' = {} /\ granting' = None
    BY <1>5, <1>7 DEF Spi!Release
  <2>2. line' = line /\ ~InLine' /\ OnceInLine' /\ cpu' \in Act /\ holder' \in {Radio, Other, None}
    BY <1>2, <1>5, <2>1, AttemptKeeps
  <2>3. DriverTypes'
    BY <1>1, <1>2, <1>5, <1>6, <2>1, <2>2 DEF DriverTypes, Spi!TypeOK
  <2> QED
    BY <1>5, <2>1, <2>2, <2>3 DEF SpiInv, WaitersKnown, IdleInv, BusyInv
<1>8. CASE m_requests # {}
  <2> DEFINE n == Spi!NextHolder
  <2>1. n \in m_requests /\ n \in Ids
    BY <1>2, <1>8, NextHolderWaits DEF Spi!TypeOK
  <2>2. /\ m_holder' = n /\ m_requests' = m_requests \ {n} /\ granting' = m_ctx[n]
        /\ UNCHANGED <<Spi!bus, working, spiContext>>
        /\ cpu' = IF h THEN cpu ELSE m_ctx[n]
    BY <1>8 DEF Spi!Release, Spi!Sets
  <2> HIDE DEF n
  <2>3. m_ctx[n] # None /\ m_ctx[n] = asked[n] /\ m_ctx[n] \in Act
    BY <1>2, <2>1 DEF WaitersKnown, Spi!TypeOK
  <2>4. line' = line /\ holder' = holder
    BY <2>2 DEF Spi!bus
  <2>5. DriverTypes'
    BY <1>1, <1>2, <1>5, <1>6, <2>1, <2>2, <2>3, <2>4 DEF DriverTypes, Spi!TypeOK
  <2>6. ~InLine' /\ OnceInLine'
    BY <1>2, <1>5, <2>4 DEF InLine, OnceInLine
  <2>7. HolderGranted'
    BY <1>1, <1>5, <2>2, <2>3, <2>4, <2>6 DEF HolderGranted
  <2>8. WaitersKnown'
    BY <1>1, <1>2, <2>2 DEF WaitersKnown
  <2> QED
    BY <1>3, <2>1, <2>2, <2>5, <2>6, <2>7, <2>8 DEF SpiInv, IdleInv, BusyInv
<1> QED BY <1>7, <1>8

LEMMA SendDoneKeeps == ASSUME SpiInv, Spi!SendDone PROVE SpiInv'
<1>1. /\ abortSpiRelease' = FALSE /\ Spi!AttemptRelease(TRUE)
      /\ UNCHANGED <<m_requests, m_holder, working, m_ctx, granting, spiContext, told, asked>>
  BY DEF Spi!SendDone
<1>2. DriverTypes /\ OnceInLine /\ WaitersKnown /\ IdleInv /\ BusyInv
  BY DEF SpiInv
<1>3. WaitersKnown'
  BY <1>1, <1>2 DEF WaitersKnown
<1>4. CASE working = "S_IDLE"
  <2>1. ~InLine /\ m_holder = None /\ told = {} /\ granting = None /\ m_requests = {}
    BY <1>2, <1>4 DEF IdleInv
  <2>2. line' = line /\ ~InLine' /\ OnceInLine' /\ cpu' \in Act /\ holder' \in {Radio, Other, None}
    BY <1>1, <1>2, <2>1, AttemptKeeps
  <2>3. DriverTypes'
    BY <1>1, <1>2, <2>2 DEF DriverTypes, Spi!TypeOK
  <2> QED
    BY <1>1, <1>3, <1>4, <2>1, <2>2, <2>3 DEF SpiInv, IdleInv, BusyInv
<1>5. CASE working = "S_BUSY"
  <2>1. line' = line /\ holder' = holder /\ cpu' = cpu
    BY <1>1, <1>5 DEF Spi!AttemptRelease, Spi!MayRelease, Spi!bus
  <2>2. DriverTypes' /\ OnceInLine' /\ InLine' = InLine
    BY <1>1, <1>2, <2>1 DEF DriverTypes, Spi!TypeOK, OnceInLine, InLine
  <2>3. HolderTold' = HolderTold /\ HolderGranted' = HolderGranted /\ WaitsInLine' = WaitsInLine
    BY <1>1, <2>1, <2>2 DEF HolderTold, HolderGranted, WaitsInLine
  <2> QED
    BY <1>1, <1>2, <1>3, <1>5, <2>2, <2>3 DEF SpiInv, IdleInv, BusyInv
<1> QED BY <1>2, <1>4, <1>5 DEF DriverTypes, Spi!TypeOK

(* The task tells the holder that was granted the bus.                     *)
LEMMA GrantKeeps == ASSUME SpiInv, Spi!Grant PROVE SpiInv'
<1>1. /\ granting # None /\ granting' = None /\ cpu' = granting /\ spiContext' = granting
      /\ told' = told \cup {m_holder} /\ line' = line /\ holder' = holder
      /\ UNCHANGED <<m_requests, m_holder, m_ctx, working, asked, abortSpiRelease>>
  BY DEF Spi!Grant, Spi!bus
<1>2. DriverTypes /\ OnceInLine /\ WaitersKnown /\ IdleInv /\ BusyInv
  BY DEF SpiInv
<1>3. working = "S_BUSY" /\ m_holder \in Ids \ m_requests
  BY <1>1, <1>2 DEF IdleInv, BusyInv, DriverTypes, Spi!TypeOK
<1>4. HolderGranted
  BY <1>1, <1>2, <1>3 DEF BusyInv, HolderTold, WaitsInLine
<1>5. DriverTypes' /\ OnceInLine' /\ WaitersKnown' /\ ~InLine'
  BY <1>1, <1>2, <1>3, <1>4 DEF DriverTypes, Spi!TypeOK, OnceInLine, WaitersKnown, InLine, HolderGranted
<1>6. HolderTold'
  BY <1>1, <1>4, <1>5 DEF HolderTold, HolderGranted
<1> QED
  BY <1>1, <1>3, <1>5, <1>6 DEF SpiInv, IdleInv, BusyInv

(* The first of the line gets the bus: the radio or the other driver.      *)
LEMMA BusGrantedKeeps == ASSUME SpiInv, Spi!BusGranted PROVE SpiInv'
<1>1. /\ Spi!Bus!Grant /\ cpu' = charged'
      /\ granting' = IF holder' = Radio THEN cpu' ELSE granting
      /\ UNCHANGED <<m_requests, m_holder, m_ctx, working, spiContext, told, asked,
                     abortSpiRelease>>
  BY DEF Spi!BusGranted
<1>2. Spi!TypeOK /\ line \in Seq(LineEntries) /\ OnceInLine /\ WaitersKnown /\ IdleInv /\ BusyInv
  BY DEF SpiInv, DriverTypes
<1>3. /\ line' \in Seq(LineEntries) /\ holder = None
      /\ 1 \in DOMAIN line /\ holder' = line[1].client /\ charged' = line[1].act
      /\ line[1] \in LineEntries
      /\ \A i \in DOMAIN line' : i # 0 /\ i + 1 # 1 /\ i + 1 \in DOMAIN line /\ line'[i] = line[i + 1]
      /\ \A i \in DOMAIN line : i # 1 => i - 1 \in DOMAIN line' /\ line'[i - 1] = line[i]
  BY <1>1, <1>2, GrantLeaves
<1>4. holder' \in {Radio, Other} /\ charged' \in Act /\ None \notin Act /\ Radio # None
  BY SpiAssumption, <1>3 DEF LineEntries, Spi!SpiAssumption
<1>5. DriverTypes'
  <2>1. granting' \in Act \cup {None} /\ cpu' \in Act
    BY <1>1, <1>2, <1>4 DEF Spi!TypeOK
  <2> QED
    BY <1>1, <1>2, <1>3, <1>4, <2>1 DEF DriverTypes, Spi!TypeOK
<1>6. OnceInLine'
  <2> SUFFICES ASSUME NEW i \in DOMAIN line', NEW j \in DOMAIN line',
                      line'[i].client = Radio, line'[j].client = Radio
               PROVE  i = j
    BY DEF OnceInLine
  <2>1. i + 1 = j + 1
    BY <1>2, <1>3 DEF OnceInLine
  <2>2. i \in Nat /\ j \in Nat
    BY <1>3
  <2> QED
    BY <2>1, <2>2
<1>7. WaitersKnown'
  BY <1>1, <1>2 DEF WaitersKnown
<1>8. InLine' => InLine
  BY <1>3 DEF InLine
<1>9. CASE working = "S_IDLE"
  <2>1. holder' # Radio
    BY <1>2, <1>3, <1>9 DEF IdleInv, InLine
  <2>2. IdleInv'
    BY <1>1, <1>2, <1>8, <1>9, <2>1 DEF IdleInv
  <2> QED
    BY <1>1, <1>5, <1>6, <1>7, <1>9, <2>2 DEF SpiInv, BusyInv
<1>10. CASE working = "S_BUSY"
  <2>1. WaitsInLine /\ m_holder \in Ids \ m_requests
    BY <1>2, <1>3, <1>4, <1>10 DEF BusyInv, HolderTold, HolderGranted
  <2>2. CASE holder' = Radio
    <3>1. granting' = asked[m_holder] /\ granting' # None
      BY <1>1, <1>3, <1>4, <2>1, <2>2 DEF WaitsInLine
    <3>2. ~InLine'
      <4> SUFFICES ASSUME NEW i \in DOMAIN line', line'[i].client = Radio PROVE FALSE
        BY DEF InLine
      <4>1. i + 1 \in DOMAIN line /\ line[i + 1].client = Radio /\ i + 1 # 1
        BY <1>3
      <4> QED
        BY <1>2, <1>3, <2>2, <4>1 DEF OnceInLine
    <3>3. HolderGranted'
      BY <1>1, <2>1, <2>2, <3>1, <3>2 DEF HolderGranted, WaitsInLine
    <3> QED
      BY <1>1, <1>5, <1>6, <1>7, <1>10, <2>1, <3>3 DEF SpiInv, IdleInv, BusyInv
  <2>3. CASE holder' # Radio
    <3>1. granting' = None /\ told' = {}
      BY <1>1, <2>1, <2>3 DEF WaitsInLine
    <3>2. PICK k \in DOMAIN line : line[k].client = Radio
      BY <2>1 DEF WaitsInLine, InLine
    <3>3. k # 1
      BY <1>3, <2>3, <3>2
    <3>4. InLine'
      BY <1>3, <3>2, <3>3 DEF InLine
    <3>5. \A i \in DOMAIN line' : line'[i].client = Radio => line'[i].act = asked'[m_holder']
      BY <1>1, <1>3, <2>1 DEF WaitsInLine
    <3>6. WaitsInLine'
      BY <2>3, <3>1, <3>4, <3>5 DEF WaitsInLine
    <3> QED
      BY <1>1, <1>5, <1>6, <1>7, <1>10, <2>1, <3>6 DEF SpiInv, IdleInv, BusyInv
  <2> QED BY <2>2, <2>3
<1> QED BY <1>2, <1>9, <1>10 DEF Spi!TypeOK

(* What the other user of the bus does is no concern of the drivers.       *)
LEMMA OtherCallsKeep == ASSUME SpiInv, Spi!OtherCalls PROVE SpiInv'
<1>1. UNCHANGED <<m_requests, m_holder, m_ctx, working, granting, spiContext,
                  told, asked, abortSpiRelease, cpu>>
  BY DEF Spi!OtherCalls
<1>2. Spi!TypeOK /\ line \in Seq(LineEntries) /\ OnceInLine /\ WaitersKnown /\ IdleInv /\ BusyInv
  BY DEF SpiInv, DriverTypes
<1>3. Radio # Other /\ None # Radio
  BY SpiAssumption DEF Spi!SpiAssumption
<1>4. /\ line' \in Seq(LineEntries) /\ OnceInLine' /\ InLine' = InLine
      /\ (\A i \in DOMAIN line : line[i].client = Radio => line[i].act = asked[m_holder])
           => \A i \in DOMAIN line' : line'[i].client = Radio => line'[i].act = asked[m_holder]
      /\ holder' \in {Radio, Other, None}
      /\ (holder = Radio => holder' = Radio)
      /\ (holder # Radio => holder' # Radio)
  <2>1. ASSUME NEW a \in Act, Spi!Bus!Ask(Other, a) PROVE <1>4
    <3>1. /\ line' \in Seq(LineEntries) /\ holder' = holder
          /\ DOMAIN line' = DOMAIN line \cup {Len(line) + 1} /\ Len(line) + 1 \notin DOMAIN line
          /\ \A i \in DOMAIN line : line'[i] = line[i]
          /\ line'[Len(line) + 1].client = Other
      BY <1>2, <2>1, AskJoins
    <3>2. \A i \in DOMAIN line' : line'[i].client = Radio => i \in DOMAIN line
      BY <1>3, <3>1
    <3>3. OnceInLine'
      BY <1>2, <3>1, <3>2 DEF OnceInLine
    <3>4. InLine' = InLine
      BY <3>1, <3>2 DEF InLine
    <3> QED
      BY <1>2, <3>1, <3>2, <3>3, <3>4 DEF Spi!TypeOK
  <2>2. ASSUME NEW a \in Act, Spi!Bus!Take(Other, a) PROVE <1>4
    <3>1. line' = line /\ holder = None /\ holder' = Other
      BY <2>2 DEF Spi!Bus!Take
    <3> QED
      BY <1>2, <1>3, <3>1 DEF OnceInLine, InLine
  <2>3. ASSUME holder = Other, Spi!Bus!GiveBack PROVE <1>4
    <3>1. line' = line /\ holder' = None
      BY <2>3 DEF Spi!Bus!GiveBack
    <3> QED
      BY <1>2, <1>3, <2>3, <3>1 DEF OnceInLine, InLine
  <2> QED BY <2>1, <2>2, <2>3 DEF Spi!OtherCalls
<1>5. DriverTypes' /\ WaitersKnown' /\ IdleInv'
  BY <1>1, <1>2, <1>4 DEF DriverTypes, Spi!TypeOK, WaitersKnown, IdleInv
<1>6. (HolderTold => HolderTold') /\ (HolderGranted => HolderGranted') /\ (WaitsInLine => WaitsInLine')
  BY <1>1, <1>4 DEF HolderTold, HolderGranted, WaitsInLine
<1>7. BusyInv'
  BY <1>1, <1>2, <1>6 DEF BusyInv
<1> QED
  BY <1>4, <1>5, <1>7 DEF SpiInv

(* Nor is a change of the CPU's activity, or a step of something else.     *)
LEMMA OthersKeep ==
  ASSUME SpiInv, Spi!OtherTask \/ UNCHANGED Spi!vars
  PROVE  SpiInv'
<1>1. /\ UNCHANGED <<line, holder, m_requests, m_holder, m_ctx, working, granting, spiContext,
                     told, asked, abortSpiRelease>>
      /\ cpu' \in Act
  BY DEF Spi!OtherTask, Spi!vars, Spi!bus, SpiInv, DriverTypes, Spi!TypeOK
<1>2. DriverTypes' /\ OnceInLine' /\ WaitersKnown' /\ InLine' = InLine
  BY <1>1 DEF SpiInv, DriverTypes, Spi!TypeOK, OnceInLine, WaitersKnown, InLine
<1>3. HolderTold' = HolderTold /\ HolderGranted' = HolderGranted /\ WaitsInLine' = WaitsInLine
  BY <1>1, <1>2 DEF HolderTold, HolderGranted, WaitsInLine
<1> QED
  BY <1>1, <1>2, <1>3 DEF SpiInv, IdleInv, BusyInv

LEMMA DriversKeep == ASSUME SpiInv, [Spi!Next]_Spi!vars PROVE SpiInv'
<1>1. CASE \E c \in Ids, h \in BOOLEAN : \E a \in Spi!Caller(h) :
             Spi!Request(c, a) \/ Spi!ImmediateRequest(c, a)
  <2>1. PICK c \in Ids, h \in BOOLEAN : \E a \in Spi!Caller(h) :
               Spi!Request(c, a) \/ Spi!ImmediateRequest(c, a)
    BY <1>1
  <2>2. PICK a \in Spi!Caller(h) : Spi!Request(c, a) \/ Spi!ImmediateRequest(c, a)
    BY <2>1
  <2>3. a \in Act
    BY DEF Spi!Caller, SpiInv, DriverTypes, Spi!TypeOK
  <2> QED
    BY <2>2, <2>3, RequestKeeps, ImmediateKeeps
<1>2. CASE Spi!SomeRelease
  <2>1. ASSUME NEW c \in Ids, NEW h \in BOOLEAN, Spi!Release(c, FALSE, h) PROVE SpiInv'
    BY <2>1, ReleaseKeeps
  <2>2. ASSUME Spi!Release(Transmitter, TRUE, TRUE) PROVE SpiInv'
    BY SpiAssumption, <2>2, ReleaseKeeps DEF Spi!SpiAssumption
  <2> QED
    BY <1>2, <2>1, <2>2 DEF Spi!SomeRelease
<1>3. CASE Spi!SendDone
  BY <1>3, SendDoneKeeps
<1>4. CASE Spi!Grant
  BY <1>4, GrantKeeps
<1>5. CASE Spi!BusGranted
  BY <1>5, BusGrantedKeeps
<1>6. CASE Spi!OtherCalls
  BY <1>6, OtherCallsKeep
<1>7. CASE Spi!OtherTask \/ UNCHANGED Spi!vars
  BY <1>7, OthersKeep
<1> QED BY <1>1, <1>2, <1>3, <1>4, <1>5, <1>6, <1>7 DEF Spi!Next

(* A driver that was told that the bus is its own is the only one, the     *)
(* radio does have the bus, and the bus is charged to the activity of the  *)
(* driver's request (CC2420SpiP.nc:112-188, 348-374).                      *)
THEOREM DriverOwnsSpi == Spi!Spec => []Spi!OwnsBus
<1>1. Spi!Init => SpiInv
  BY InitSpi
<1>2. SpiInv /\ [Spi!Next]_Spi!vars => SpiInv'
  BY DriversKeep
<1>3. SpiInv => Spi!OwnsBus
  BY OwnsFromInv
<1> QED
  BY <1>1, <1>2, <1>3, PTL DEF Spi!Spec

------------------------------------------------------------------------------
(* The serial writer.                                                      *)

(* The first n bytes of the buffer that is sent.                           *)
Prefix(n) == [i \in 1..n |-> <<current, i - 1>>]
Whole == wire = Prefix(BufLen[current])

(* The byte that waits is the next one of the buffer.                      *)
NextWaits(n) ==
  /\ dataState = "FILLING" /\ dataByte = <<current, n>>
  /\ n < BufLen[current] /\ sendIndex = n + 1

(* What LPSerial does: nothing; it has a buffer and RunTx has not started  *)
(* the frame; it sends the frame; the frame has ended; it reports the end. *)
Resting ==
  /\ dataState = "AVAILABLE" /\ txState = "IDLE" /\ run = "no"
  /\ completes = "none" /\ ~txPending /\ ~uart

Queued ==
  /\ txState = "IDLE" /\ completes = "none" /\ ~uart /\ NextWaits(0)
  /\ txPending <=> run = "no"

Framing ==
  /\ run = "no" /\ completes = "none" /\ ~txPending /\ uart
  /\ dataState # "AVAILABLE"
  /\ txState = "PROTO" => NextWaits(0) /\ wire = << >>
  /\ txState = "INFO" => NextWaits(Len(wire)) /\ wire = Prefix(Len(wire))
  /\ txState \in {"FCS1", "FCS2", "ENDFLAG", "ENDWAIT"} => Whole
  /\ txState \notin {"IDLE", "FINISH", "ERROR"}

Ended ==
  /\ run = "no" /\ completes = "none" /\ txPending /\ ~uart
  /\ dataState # "AVAILABLE"
  /\ txState = "FINISH" => Whole
  /\ txState \in {"FINISH", "ERROR"}

Reports ==
  /\ dataState = "AVAILABLE" /\ txState = "IDLE" /\ run = "begun"
  /\ completes # "none" /\ ~txPending /\ ~uart

(* The write of current: there is none, NextSend is posted for it, the     *)
(* serial layer has it, or it is about to be answered.                     *)
NoWrite ==
  current = NUM_CLIENTS /\ outstanding = {} /\ ~nextPosted /\ sendState = "IDLE" /\ ~donePosted
NextIsPosted ==
  current \in outstanding /\ nextPosted /\ sendState = "IDLE" /\ ~donePosted
Sending ==
  /\ current \in outstanding /\ ~nextPosted /\ sendState = "DATA" /\ ~donePosted
  /\ sendBuffer = current
Answering ==
  /\ current \in outstanding /\ ~nextPosted /\ sendState = "DATA" /\ donePosted
  /\ sendBuffer = current

Phases ==
  \/ (NoWrite \/ NextIsPosted \/ Answering) /\ Resting
  \/ Sending /\ (Queued \/ Framing \/ Ended \/ Reports)

WriterInv == Writer!TypeOK /\ Phases

(* The assumptions on the constants, as the proofs use them.               *)
LEMMA Constants ==
  ASSUME Writer!WriterAssumption
  PROVE  /\ NUM_CLIENTS \in Nat \ {0} /\ Byte \in Nat /\ Byte > 1
         /\ SERIAL_MTU = Byte - 1 /\ NUM_CLIENTS \notin Writer!Clients
         /\ \A c \in Writer!Clients : c \in Nat /\ BufLen[c] \in 1..(Byte - 1)
  BY DEF Writer!WriterAssumption, Writer!Clients

LEMMA CountsAgree == \A S : Writer!Cardinality(S) = Cardinality(S)
  BY DEF Writer!Cardinality, Cardinality

LEMMA HandsFromInv ==
  ASSUME Writer!WriterAssumption, WriterInv
  PROVE  Writer!WriteInOneHand
<1>1. NUM_CLIENTS \notin outstanding /\ {donePosted, nextPosted} \subseteq BOOLEAN
  BY Constants DEF WriterInv, Writer!TypeOK
<1>2. Writer!Cardinality({}) = 0 /\ \A x : Writer!Cardinality({x}) = 1
  BY CountsAgree, FS_EmptySet, FS_Singleton
<1>3. CASE NoWrite /\ Resting
  <2>1. Writer!Hands = {}
    BY <1>3 DEF NoWrite, Resting, Writer!Hands
  <2> QED
    BY <1>1, <1>2, <1>3, <2>1 DEF Writer!WriteInOneHand, NoWrite
<1>4. CASE NextIsPosted /\ Resting
  <2>1. Writer!Hands = {"next"}
    BY <1>4 DEF NextIsPosted, Resting, Writer!Hands
  <2>2. Writer!Cardinality(Writer!Hands) = 1
    BY <1>2, <2>1
  <2>3. current \in outstanding /\ (nextPosted => sendState = "IDLE")
    BY <1>1, <1>4 DEF NextIsPosted
  <2> QED
    BY <1>1, <2>2, <2>3 DEF Writer!WriteInOneHand
<1>5. CASE (Answering /\ Resting) \/ (Sending /\ Reports)
  <2>1. Writer!Hands = {"done"}
    BY <1>5 DEF Answering, Resting, Sending, Reports, Writer!Hands
  <2>2. Writer!Cardinality(Writer!Hands) = 1
    BY <1>2, <2>1
  <2>3. current \in outstanding /\ (nextPosted => sendState = "IDLE")
    BY <1>1, <1>5 DEF Answering, Sending
  <2> QED
    BY <1>1, <2>2, <2>3 DEF Writer!WriteInOneHand
<1>6. CASE Sending /\ (Queued \/ Framing \/ Ended)
  <2>1. Writer!Hands = {"buffer"}
    BY <1>6 DEF Sending, Queued, NextWaits, Framing, Ended, Writer!Hands
  <2>2. Writer!Cardinality(Writer!Hands) = 1
    BY <1>2, <2>1
  <2>3. current \in outstanding /\ (nextPosted => sendState = "IDLE")
    BY <1>1, <1>6 DEF Sending
  <2> QED
    BY <1>1, <2>2, <2>3 DEF Writer!WriteInOneHand
<1>7. \/ NoWrite /\ Resting
      \/ NextIsPosted /\ Resting
      \/ (Answering /\ Resting) \/ (Sending /\ Reports)
      \/ Sending /\ (Queued \/ Framing \/ Ended)
  BY DEF WriterInv, Phases
<1> QED BY <1>3, <1>4, <1>5, <1>6, <1>7

LEMMA FrameFromInv == WriterInv => Writer!FrameIsBuffer
  BY DEF WriterInv, Phases, Resting, Queued, Framing, Ended, Reports, Whole, Prefix, Writer!FrameIsBuffer

LEMMA WriterInit == Writer!WriterAssumption /\ Writer!Init => WriterInv
<1> SUFFICES ASSUME Writer!WriterAssumption, Writer!Init PROVE WriterInv
  OBVIOUS
<1>1. NUM_CLIENTS \in Nat \ {0} /\ Byte \in Nat /\ Byte > 1 /\ SERIAL_MTU = Byte - 1
  BY Constants
<1>2. Writer!TypeOK
  <2>1. wire \in Seq(Writer!Clients \X (0..(Byte - 1))) /\ Len(wire) <= SERIAL_MTU
    BY <1>1 DEF Writer!Init, Writer!SerialInit
  <2> QED
    <3>1. NUM_CLIENTS \in 0..NUM_CLIENTS /\ 0 \in 0..(Byte - 1)
      BY <1>1
    <3>2. Writer!SerialTypeOK(Writer!Clients \X (0..(Byte - 1)))
      BY <2>1 DEF Writer!Init, Writer!SerialInit, Writer!SerialTypeOK
    <3> QED
      BY <3>1, <3>2 DEF Writer!Init, Writer!TypeOK
<1>3. NoWrite /\ Resting
  BY DEF Writer!Init, Writer!SerialInit, NoWrite, Resting
<1> QED
  BY <1>2, <1>3 DEF WriterInv, Phases

------------------------------------------------------------------------------
(* The client's buffer becomes the one that LPSerial has to send.          *)
LEMMA WriteBegins ==
  ASSUME Writer!WriterAssumption, Writer!TypeOK, Resting, ~donePosted, NEW c \in Writer!Clients,
         Writer!LowerWrite(c), current' = c, c \in outstanding', outstanding' \subseteq Writer!Clients,
         nextPosted' = FALSE
  PROVE  WriterInv'
<1>1. /\ NUM_CLIENTS \in Nat \ {0} /\ Byte \in Nat /\ Byte > 1 /\ c \in Nat
      /\ BufLen[c] \in 1..(Byte - 1) /\ c \in 0..NUM_CLIENTS
  BY Constants DEF Writer!Clients
<1>2. /\ sendState' = "DATA" /\ sendBuffer' = c /\ sendIndex' = 1 /\ sendError' = "SUCCESS"
      /\ dataState' = "FILLING" /\ dataByte' = <<c, 0>> /\ txPending' = TRUE
      /\ UNCHANGED <<txState, run, completes, uart, wire, donePosted>>
  BY DEF Writer!LowerWrite, Writer!startSend
<1>3. Writer!TypeOK'
  <2>1. <<c, 0>> \in Writer!Clients \X (0..(Byte - 1)) /\ 1 \in 0..(Byte - 1)
    BY <1>1
  <2> QED
    BY <1>1, <1>2, <2>1 DEF Writer!TypeOK, Writer!SerialTypeOK
<1>4. Queued'
  BY <1>1, <1>2 DEF Queued, NextWaits, Resting
<1>5. Sending'
  BY <1>2 DEF Sending
<1> QED
  BY <1>3, <1>4, <1>5 DEF WriterInv, Phases

LEMMA WriteKeeps ==
  ASSUME Writer!WriterAssumption, WriterInv, NEW c \in Writer!Clients, Writer!Write(c)
  PROVE  WriterInv' /\ Writer!Shared!Accept(c)
<1>1. Writer!TypeOK /\ Phases /\ c \notin outstanding /\ outstanding' = outstanding \cup {c}
      /\ nextPosted' = nextPosted /\ run = "no"
  BY DEF WriterInv, Writer!Write, Writer!Ready
<1>2. outstanding' \subseteq Writer!Clients /\ NUM_CLIENTS \notin Writer!Clients
  BY <1>1, Constants DEF Writer!TypeOK
<1>3. CASE current = NUM_CLIENTS /\ current' = c /\ Writer!LowerWrite(c)
  <2>1. NoWrite /\ Resting
    BY <1>1, <1>2, <1>3 DEF Phases, NextIsPosted, Answering, Sending, Writer!TypeOK
  <2>2. nextPosted' = FALSE
    BY <1>1, <2>1 DEF NoWrite, Writer!TypeOK
  <2>3. WriterInv'
    BY <1>1, <1>2, <1>3, <2>1, <2>2, WriteBegins DEF NoWrite
  <2> QED
    BY <1>1, <1>3, <2>3 DEF Writer!Shared!Accept
<1>4. CASE current # NUM_CLIENTS /\ UNCHANGED <<current, Writer!serialVars, Writer!writerVars>>
  <2>1. /\ current' = current
        /\ UNCHANGED <<txState, txPending, dataState, dataByte, run, completes, uart, wire>>
        /\ UNCHANGED <<sendState, sendBuffer, sendIndex, sendError, donePosted>>
    BY <1>4 DEF Writer!serialVars, Writer!writerVars
  <2>2. Writer!TypeOK'
    BY <1>1, <1>2, <2>1 DEF Writer!TypeOK, Writer!SerialTypeOK
  <2>3. /\ Resting' = Resting /\ Queued' = Queued /\ Framing' = Framing
        /\ Ended' = Ended /\ Reports' = Reports
    BY <2>1 DEF Resting, Queued, Framing, Ended, Reports, NextWaits, Whole, Prefix
  <2>4. /\ ~NoWrite /\ (NextIsPosted => NextIsPosted') /\ (Answering => Answering')
        /\ (Sending => Sending')
    BY <1>1, <1>4, <2>1 DEF NoWrite, NextIsPosted, Answering, Sending
  <2>5. Phases'
    BY <1>1, <2>3, <2>4 DEF Phases
  <2> QED
    BY <1>1, <1>4, <2>1, <2>2, <2>5 DEF WriterInv, Writer!Shared!Accept
<1> QED BY <1>3, <1>4 DEF Writer!Write

LEMMA NextSendKeeps ==
  ASSUME Writer!WriterAssumption, WriterInv, Writer!NextSend
  PROVE  WriterInv' /\ UNCHANGED <<outstanding, current>>
<1>1. Writer!TypeOK /\ NextIsPosted /\ Resting
  BY DEF WriterInv, Phases, Writer!NextSend, NoWrite, Answering, Sending
<1>2. /\ Writer!LowerWrite(current) /\ outstanding' = outstanding /\ current' = current
      /\ nextPosted' = FALSE
  BY DEF Writer!NextSend
<1>3. current \in Writer!Clients
  BY <1>1 DEF NextIsPosted, Writer!TypeOK
<1>4. WriterInv'
  BY <1>1, <1>2, <1>3, WriteBegins DEF NextIsPosted, Writer!TypeOK
<1> QED
  BY <1>2, <1>4

------------------------------------------------------------------------------
(* The bytes of a frame.                                                   *)

LEMMA PrefixGrows ==
  ASSUME NEW n \in Nat
  PROVE  Append(Prefix(n), <<current, n>>) = Prefix(n + 1)
<1> DEFINE S == {<<current, i>> : i \in Nat}
           e == <<current, n>>
           P == Prefix(n)
           Q == Prefix(n + 1)
<1>1. P \in Seq(S) /\ Len(P) = n /\ e \in S
  BY DEF Prefix
<1>2. Q \in Seq(S) /\ Len(Q) = n + 1 /\ Q[n + 1] = e /\ \A i \in 1..n : Q[i] = P[i]
  BY DEF Prefix
<1> HIDE DEF S, e, P, Q
<1>3. Append(P, e) \in Seq(S) /\ Len(Append(P, e)) = n + 1
  BY <1>1
<1>4. \A i \in 1..(n + 1) : Append(P, e)[i] = Q[i]
  BY <1>1, <1>2
<1>5. Append(P, e) = Q
  BY <1>2, <1>3, <1>4
<1> QED
  BY <1>5 DEF P, Q, e

(* The data ends with the last byte of the buffer, and the longest buffer, *)
(* for which sendIndex wraps, is ended by the MTU.                         *)
LEMMA LastByte ==
  ASSUME Writer!WriterAssumption, NEW n \in Nat, NEW len \in 1..(Byte - 1), n < len
  PROVE  /\ (n + 1 + 1) % Byte > len \/ Writer!MtuReached(n + 1) <=> n + 1 = len
         /\ n + 1 # len => (n + 1 + 1) % Byte = n + 2
         /\ (n + 1 + 1) % Byte \in 0..(Byte - 1)
<1>1. Byte \in Nat /\ Byte > 1 /\ SERIAL_MTU = Byte - 1
  BY Constants
<1>2. n + 1 + 1 <= Byte
  BY <1>1
<1>3. CASE n + 1 + 1 < Byte
  <2>1. (n + 1 + 1) % Byte = n + 2
    BY <1>1, <1>3
  <2> QED
    BY <1>1, <1>3, <2>1 DEF Writer!MtuReached
<1>4. CASE n + 1 + 1 = Byte
  <2>1. (n + 1 + 1) % Byte = 0
    BY <1>1, <1>4
  <2>2. n + 1 = len
    BY <1>1, <1>4
  <2> QED
    BY <1>1, <1>4, <2>1, <2>2 DEF Writer!MtuReached
<1>5. n + 1 + 1 < Byte \/ n + 1 + 1 = Byte
  BY <1>1, <1>2
<1> QED BY <1>3, <1>4, <1>5

LEMMA PutByteKeeps ==
  ASSUME Writer!WriterAssumption, WriterInv, Writer!PutByte
  PROVE  WriterInv'
<1> DEFINE n == Len(wire)
           len == BufLen[current]
           last == (n + 1 + 1) % Byte > len
           ends == last \/ Writer!MtuReached(n + 1)
<1>1. Writer!TypeOK /\ Sending /\ Framing /\ txState = "INFO" /\ uart
  BY DEF WriterInv, Phases, Writer!PutByte, Writer!PutInfo, Resting, Queued, Ended, Reports
<1>2. /\ NUM_CLIENTS \in Nat \ {0} /\ Byte \in Nat /\ Byte > 1 /\ SERIAL_MTU = Byte - 1
      /\ current \in Writer!Clients /\ current \in Nat /\ len \in 1..(Byte - 1)
  BY <1>1, Constants DEF Sending, Writer!TypeOK
<1>3. /\ n \in Nat /\ n < len /\ sendIndex = n + 1 /\ dataByte = <<current, n>>
      /\ dataState = "FILLING" /\ wire = Prefix(n) /\ sendBuffer = current
  BY <1>1 DEF Framing, NextWaits, Writer!TypeOK, Writer!SerialTypeOK, Sending
<1>4. wire' = Prefix(n + 1)
  BY <1>3, PrefixGrows DEF Writer!PutByte, Writer!PutInfo
<1>5. /\ Len(wire') = n + 1 /\ wire' \in Seq(Writer!Clients \X (0..(Byte - 1)))
  BY <1>2, <1>3, <1>4 DEF Prefix
<1>6. Writer!NoMoreBytes <=> last
  BY <1>3 DEF Writer!NoMoreBytes
<1>7. /\ dataState' = IF last THEN "COMPLETE" ELSE dataState
      /\ dataByte' = IF ends THEN dataByte ELSE <<current, n + 1>>
      /\ \/ txState' = (IF ends THEN "FCS1" ELSE "INFO") /\ uart' = uart /\ txPending' = txPending
         \/ Writer!Refused
      /\ sendIndex' = (n + 1 + 1) % Byte
      /\ UNCHANGED <<run, completes, sendState, sendBuffer, sendError, donePosted>>
      /\ UNCHANGED <<outstanding, current, nextPosted>>
  BY <1>3, <1>5, <1>6 DEF Writer!PutByte, Writer!PutInfo, Writer!sharedVars
<1>8. /\ ends <=> n + 1 = len
      /\ n + 1 # len => (n + 1 + 1) % Byte = n + 2
      /\ (n + 1 + 1) % Byte \in 0..(Byte - 1)
  BY <1>2, <1>3, LastByte
<1> HIDE DEF n, last, ends
<1>9. Writer!TypeOK'
  <2>1. dataByte' \in (Writer!Clients \X (0..(Byte - 1))) \cup {<< >>}
    BY <1>1, <1>2, <1>3, <1>7, <1>8 DEF Writer!TypeOK, Writer!SerialTypeOK
  <2>2. Len(wire') <= SERIAL_MTU
    BY <1>2, <1>3, <1>5
  <2> QED
    BY <1>1, <1>2, <1>5, <1>7, <1>8, <2>1, <2>2 DEF Writer!TypeOK, Writer!SerialTypeOK, Writer!Refused
<1>10. Sending' /\ dataState' # "AVAILABLE"
  BY <1>1, <1>3, <1>7 DEF Sending
<1>11. CASE Writer!Refused
  BY <1>1, <1>7, <1>9, <1>10, <1>11 DEF Writer!Refused, Ended, WriterInv, Phases, Framing
<1>12. CASE txState' = (IF ends THEN "FCS1" ELSE "INFO") /\ uart' = uart /\ txPending' = txPending
  <2>1. CASE ends
    <3>1. Whole'
      BY <1>4, <1>7, <1>8, <2>1 DEF Whole, Prefix
    <3> QED
      BY <1>1, <1>7, <1>9, <1>10, <1>12, <2>1, <3>1 DEF Framing, WriterInv, Phases
  <2>2. CASE ~ends
    <3>1. ~last
      BY <2>2 DEF ends
    <3>2. NextWaits(Len(wire))' /\ wire' = Prefix(Len(wire))'
      BY <1>2, <1>3, <1>4, <1>5, <1>7, <1>8, <2>2, <3>1 DEF NextWaits, Prefix
    <3> QED
      BY <1>1, <1>7, <1>9, <1>10, <1>12, <2>2, <3>2 DEF Framing, WriterInv, Phases
  <2> QED BY <2>1, <2>2
<1> QED BY <1>7, <1>11, <1>12

LEMMA PutDoneKeeps ==
  ASSUME Writer!WriterAssumption, WriterInv, Writer!PutDone
  PROVE  WriterInv' /\ UNCHANGED <<outstanding, current>>
<1>1. CASE Writer!PutByte
  BY <1>1, PutByteKeeps DEF Writer!PutByte, Writer!sharedVars
<1>2. CASE (Writer!PutFraming \/ Writer!PutEnds) /\ UNCHANGED <<Writer!writerVars, Writer!sharedVars>>
  <2>1. /\ UNCHANGED <<dataState, dataByte, run, completes, wire>>
        /\ UNCHANGED <<sendState, sendBuffer, sendIndex, sendError, donePosted>>
        /\ UNCHANGED <<outstanding, current, nextPosted>>
    BY <1>2 DEF Writer!PutFraming, Writer!PutEnds, Writer!writerVars, Writer!sharedVars
  <2>2. Writer!TypeOK /\ Sending /\ Framing
    BY <1>2 DEF WriterInv, Phases, Writer!PutFraming, Writer!PutEnds, Resting, Queued, Ended, Reports
  <2>3. Sending' /\ Writer!TypeOK'
    <3>1. txState' \in {"INFO", "FCS2", "ENDFLAG", "ENDWAIT", "FINISH", "ERROR"}
          /\ {txPending', uart'} \subseteq BOOLEAN
      <4>1. {txPending, uart} \subseteq BOOLEAN /\ DOMAIN Writer!After = {"PROTO", "FCS1", "FCS2", "ENDFLAG"}
        BY <2>2 DEF Writer!TypeOK, Writer!SerialTypeOK, Writer!After
      <4>2. CASE Writer!PutEnds
        BY <4>1, <4>2 DEF Writer!PutEnds
      <4>3. CASE Writer!PutFraming
        <5>1. txState \in DOMAIN Writer!After => Writer!After[txState] \in {"INFO", "FCS2", "ENDFLAG", "ENDWAIT"}
          BY DEF Writer!After
        <5>2. \/ txState' \in {"INFO", "FCS2", "ENDFLAG", "ENDWAIT"} /\ uart' = uart /\ txPending' = txPending
              \/ txState' = "ERROR" /\ txPending' = TRUE /\ uart' = FALSE
          BY <4>3, <5>1 DEF Writer!PutFraming, Writer!Refused
        <5> QED
          BY <4>1, <5>2
      <4> QED BY <1>2, <4>2, <4>3
    <3> QED
      BY <2>1, <2>2, <3>1 DEF Sending, Writer!TypeOK, Writer!SerialTypeOK
  <2>4. Framing' \/ Ended'
    <3>1. CASE Writer!PutEnds
      BY <2>1, <2>2, <3>1 DEF Writer!PutEnds, Framing, Ended, Whole, Prefix
    <3>2. CASE Writer!PutFraming /\ Writer!Refused
      BY <2>1, <2>2, <3>2 DEF Writer!Refused, Framing, Ended
    <3>3. CASE Writer!PutFraming /\ txState' = Writer!After[txState] /\ UNCHANGED <<uart, txPending>>
      <4>1. \/ txState = "PROTO" /\ txState' = "INFO"
            \/ txState = "FCS1" /\ txState' = "FCS2"
            \/ txState = "FCS2" /\ txState' = "ENDFLAG"
            \/ txState = "ENDFLAG" /\ txState' = "ENDWAIT"
        BY <3>3 DEF Writer!PutFraming, Writer!After
      <4>2. CASE txState = "PROTO" /\ txState' = "INFO"
        <5>1. wire = << >> /\ Len(wire) = 0 /\ NextWaits(0) /\ Prefix(0) = << >>
          BY <2>2, <4>2 DEF Framing, Prefix
        <5>2. NextWaits(Len(wire))' /\ wire' = Prefix(Len(wire))'
          BY <2>1, <5>1 DEF NextWaits, Prefix
        <5> QED
          BY <2>1, <2>2, <3>3, <4>2, <5>2 DEF Framing
      <4>3. CASE txState # "PROTO"
        BY <2>1, <2>2, <3>3, <4>1, <4>3 DEF Framing, Whole, Prefix
      <4> QED BY <4>1, <4>2, <4>3
    <3> QED BY <1>2, <3>1, <3>2, <3>3 DEF Writer!PutFraming
  <2> QED
    BY <2>1, <2>3, <2>4 DEF WriterInv, Phases
<1> QED BY <1>1, <1>2 DEF Writer!PutDone

------------------------------------------------------------------------------
(* The tasks.                                                              *)

LEMMA RunTxKeeps ==
  ASSUME Writer!WriterAssumption, WriterInv, Writer!RunTx
  PROVE  WriterInv' /\ UNCHANGED <<outstanding, current>>
<1>1. UNCHANGED <<outstanding, current, nextPosted, sendState, sendBuffer, sendIndex, dataByte>>
  BY DEF Writer!RunTx, Writer!RunTxBegins, Writer!RunTxStarts, Writer!RunTxCompletes, Writer!writerVars, Writer!sharedVars
<1>2. CASE Writer!RunTxBegins /\ UNCHANGED <<Writer!writerVars, Writer!sharedVars>>
  <2>1. run = "no" /\ txPending /\ txPending' = FALSE /\ UNCHANGED <<dataByte, uart, wire>>
        /\ UNCHANGED <<sendError, donePosted>>
    BY <1>2 DEF Writer!RunTxBegins, Writer!writerVars
  <2>2. Writer!TypeOK /\ Sending /\ (Queued \/ Ended)
    BY <2>1 DEF WriterInv, Phases, Resting, Framing, Reports
  <2>3. Sending'
    BY <1>1, <2>1, <2>2 DEF Sending
  <2>4. CASE Queued
    <3>1. run' = "begun" /\ completes' = "none" /\ txState' = txState /\ dataState' = dataState
      BY <1>2, <2>4 DEF Writer!RunTxBegins, Writer!Outcome, Queued
    <3>2. Writer!TypeOK'
      BY <1>1, <2>1, <2>2, <3>1 DEF Writer!TypeOK, Writer!SerialTypeOK
    <3>3. Queued'
      BY <1>1, <2>1, <2>4, <3>1 DEF Queued, NextWaits
    <3> QED
      BY <1>1, <2>3, <3>2, <3>3 DEF WriterInv, Phases
  <2>5. CASE Ended
    <3>1. run' = "begun" /\ completes' \in {"SUCCESS", "FAIL"} /\ txState' = "IDLE" /\ dataState' = "AVAILABLE"
      BY <1>2, <2>5 DEF Writer!RunTxBegins, Writer!Outcome, Ended
    <3>2. Writer!TypeOK'
      BY <1>1, <2>1, <2>2, <3>1 DEF Writer!TypeOK, Writer!SerialTypeOK
    <3>3. Reports'
      BY <1>1, <2>1, <2>5, <3>1 DEF Ended, Reports
    <3> QED
      BY <1>1, <2>3, <3>2, <3>3 DEF WriterInv, Phases
  <2> QED BY <2>2, <2>4, <2>5
<1>3. CASE Writer!RunTxStarts /\ UNCHANGED <<Writer!writerVars, Writer!sharedVars>>
  <2>1. /\ run = "starts" /\ run' = "no" /\ wire' = << >> /\ UNCHANGED <<dataState, dataByte, completes>>
        /\ UNCHANGED <<sendError, donePosted>>
        /\ \/ txState' = "PROTO" /\ uart' = TRUE /\ txPending' = txPending
           \/ txState' = "ERROR" /\ txPending' = TRUE /\ uart' = FALSE
    BY <1>3 DEF Writer!RunTxStarts, Writer!Refused, Writer!writerVars
  <2>2. Writer!TypeOK /\ Sending /\ Queued /\ ~txPending
    BY <2>1 DEF WriterInv, Phases, Resting, Queued, Framing, Ended, Reports
  <2>3. Writer!TypeOK' /\ Sending'
    <3>1. wire' \in Seq(Writer!Clients \X (0..(Byte - 1))) /\ Len(wire') <= SERIAL_MTU
      BY <2>1, Constants
    <3> QED
      BY <1>1, <2>1, <2>2, <3>1 DEF Writer!TypeOK, Writer!SerialTypeOK, Sending
  <2>4. Framing' \/ Ended'
    BY <1>1, <2>1, <2>2 DEF Queued, Framing, Ended, NextWaits
  <2> QED
    BY <1>1, <2>3, <2>4 DEF WriterInv, Phases
<1>4. CASE /\ Writer!RunTxCompletes
           /\ IF completes # "none"
              THEN sendError' = completes /\ donePosted' = TRUE
              ELSE UNCHANGED <<sendError, donePosted>>
  <2>1. /\ run = "begun" /\ completes' = "none"
        /\ run' = IF dataState = "AVAILABLE" THEN "no" ELSE "starts"
        /\ UNCHANGED <<txState, txPending, dataState, dataByte, uart, wire>>
    BY <1>4 DEF Writer!RunTxCompletes
  <2>2. Writer!TypeOK /\ Sending /\ (Queued \/ Reports)
    BY <2>1 DEF WriterInv, Phases, Resting, Framing, Ended
  <2>3. Writer!TypeOK'
    BY <1>1, <1>4, <2>1, <2>2 DEF Writer!TypeOK, Writer!SerialTypeOK
  <2>4. CASE Queued
    <3>1. Queued' /\ Sending'
      BY <1>1, <1>4, <2>1, <2>2, <2>4 DEF Queued, NextWaits, Sending
    <3> QED
      BY <1>1, <2>3, <3>1 DEF WriterInv, Phases
  <2>5. CASE Reports
    <3>1. Resting' /\ Answering'
      BY <1>1, <1>4, <2>1, <2>2, <2>5 DEF Reports, Resting, Sending, Answering
    <3> QED
      BY <1>1, <2>3, <3>1 DEF WriterInv, Phases
  <2> QED BY <2>2, <2>4, <2>5
<1> QED BY <1>1, <1>2, <1>3, <1>4 DEF Writer!RunTx
(* The client i places after pos, and how many places d is after pos.      *)
At(pos, i) == (pos + i) % NUM_CLIENTS
Places(pos, d) == (d + NUM_CLIENTS - pos) % NUM_CLIENTS

LEMMA AroundOnce ==
  ASSUME Writer!WriterAssumption, NEW a \in 0..(2 * NUM_CLIENTS - 1)
  PROVE  a % NUM_CLIENTS = IF a < NUM_CLIENTS THEN a ELSE a - NUM_CLIENTS
<1>1. NUM_CLIENTS \in Nat \ {0}
  BY Constants
<1> QED
  BY <1>1, SMT

LEMMA CircleOfClients ==
  ASSUME Writer!WriterAssumption, NEW pos \in Writer!Clients
  PROVE  /\ \A i \in 1..(NUM_CLIENTS - 1) : At(pos, i) \in Writer!Clients /\ Places(pos, At(pos, i)) = i
         /\ \A d \in Writer!Clients \ {pos} :
              Places(pos, d) \in 1..(NUM_CLIENTS - 1) /\ At(pos, Places(pos, d)) = d
<1> DEFINE N == NUM_CLIENTS
<1>1. N \in Nat \ {0} /\ pos \in Nat /\ pos < N
  BY Constants DEF Writer!Clients
<1>2. ASSUME NEW i \in 1..(N - 1)
      PROVE  At(pos, i) = IF pos + i < N THEN pos + i ELSE pos + i - N
  <2> DEFINE a == pos + i
  <2>1. a \in 0..(2 * NUM_CLIENTS - 1) /\ At(pos, i) = a % NUM_CLIENTS
    BY <1>1 DEF At
  <2> HIDE DEF a
  <2>2. At(pos, i) = IF a < NUM_CLIENTS THEN a ELSE a - NUM_CLIENTS
    BY <2>1, AroundOnce
  <2> QED
    BY <1>1, <2>2 DEF a
<1>3. ASSUME NEW d \in Writer!Clients
      PROVE  Places(pos, d) = IF d < pos THEN d + N - pos ELSE d - pos
  <2> DEFINE a == d + NUM_CLIENTS - pos
  <2>1. a \in 0..(2 * NUM_CLIENTS - 1) /\ d \in Nat /\ (a < NUM_CLIENTS <=> d < pos)
    BY <1>1 DEF Writer!Clients
  <2>2. a - NUM_CLIENTS = d - pos
    BY <1>1, <2>1
  <2> HIDE DEF a
  <2>3. a % NUM_CLIENTS = IF a < NUM_CLIENTS THEN a ELSE a - NUM_CLIENTS
    BY <2>1, AroundOnce
  <2>4. a % NUM_CLIENTS = IF d < pos THEN a ELSE d - pos
    BY <2>1, <2>2, <2>3
  <2> QED
    BY <2>4 DEF Places, a
<1>4. ASSUME NEW i \in 1..(N - 1)
      PROVE  At(pos, i) \in Writer!Clients /\ Places(pos, At(pos, i)) = i
  <2>1. At(pos, i) \in Writer!Clients
    BY <1>1, <1>2 DEF Writer!Clients
  <2>2. Places(pos, At(pos, i)) = IF At(pos, i) < pos THEN At(pos, i) + N - pos ELSE At(pos, i) - pos
    BY <1>3, <2>1
  <2> QED
    BY <1>1, <1>2, <2>1, <2>2
<1>5. ASSUME NEW d \in Writer!Clients \ {pos}
      PROVE  Places(pos, d) \in 1..(N - 1) /\ At(pos, Places(pos, d)) = d
  <2>1. Places(pos, d) \in 1..(N - 1)
    BY <1>1, <1>3 DEF Writer!Clients
  <2>2. At(pos, Places(pos, d)) = IF pos + Places(pos, d) < N THEN pos + Places(pos, d) ELSE pos + Places(pos, d) - N
    BY <1>2, <2>1
  <2> QED
    BY <1>1, <1>3, <2>1, <2>2 DEF Writer!Clients
<1> QED
  BY <1>4, <1>5

LEMMA LeastExists ==
  ASSUME NEW S, S \subseteq Nat, S # {}
  PROVE  \E x \in S : \A y \in S : x <= y
<1>1. PICK x \in S : \A y \in S : ~ (<<y, x>> \in OpToRel(<, Nat))
  BY NatLessThanWellFounded, WFMin
<1>2. ASSUME NEW y \in S PROVE x <= y
  <2>1. x \in Nat /\ y \in Nat
    OBVIOUS
  <2>2. ~(y < x)
    BY <1>1, <2>1 DEF OpToRel
  <2> QED
    BY <2>1, <2>2
<1> QED
  BY <1>2

(* The search of nextPacket finds the next client in the circle.           *)
LEMMA NextInCircle ==
  ASSUME Writer!WriterAssumption, NEW pos \in Writer!Clients, outstanding' \subseteq Writer!Clients, pos \notin outstanding'
  PROVE  /\ outstanding' = {} => Writer!nextPacket(pos) = NUM_CLIENTS
         /\ outstanding' # {} =>
              Writer!nextPacket(pos) \in outstanding' /\ Writer!nextPacket(pos) = Writer!Shared!NextOf(pos, outstanding')
<1> DEFINE W == outstanding'
           found == {i \in 1..(NUM_CLIENTS - 1) : At(pos, i) \in W}
           m == CHOOSE i \in found : \A j \in found : i <= j
<1>1. NUM_CLIENTS \in Nat \ {0}
  BY Constants
<1>2. Writer!nextPacket(pos) = IF found = {} THEN NUM_CLIENTS ELSE At(pos, m)
  BY DEF Writer!nextPacket, At
<1>3. /\ \A i \in 1..(NUM_CLIENTS - 1) : Places(pos, At(pos, i)) = i
      /\ \A d \in W : Places(pos, d) \in found /\ At(pos, Places(pos, d)) = d
  <2>1. \A d \in W : d \in Writer!Clients \ {pos}
    OBVIOUS
  <2> QED
    BY <2>1, CircleOfClients
<1>4. Writer!Shared!NextOf(pos, W) = CHOOSE d \in W : \A e \in W : Places(pos, d) <= Places(pos, e)
  BY DEF Writer!Shared!NextOf, Places
<1>5. found \subseteq Nat
  BY <1>1
<1>6. \A i \in found : At(pos, i) \in W /\ Places(pos, At(pos, i)) = i
  BY <1>3
<1> HIDE DEF found
<1>7. CASE W = {}
  <2>1. found = {}
    BY <1>6, <1>7
  <2> QED
    BY <1>2, <1>7, <2>1
<1>8. CASE W # {}
  <2>1. found # {}
    BY <1>3, <1>8
  <2>2. m \in found /\ \A j \in found : m <= j
    BY <1>5, <2>1, LeastExists
  <2> HIDE DEF m
  <2>3. At(pos, m) \in W /\ \A e \in W : Places(pos, At(pos, m)) <= Places(pos, e)
    BY <1>3, <1>6, <2>2
  <2>4. ASSUME NEW d \in W, \A e \in W : Places(pos, d) <= Places(pos, e)
        PROVE  d = At(pos, m)
    <3>1. Places(pos, d) <= m /\ m <= Places(pos, d) /\ m \in Nat /\ Places(pos, d) \in Nat
      BY <1>3, <1>5, <1>6, <2>2, <2>3, <2>4
    <3>2. Places(pos, d) = m
      BY <3>1
    <3> QED
      BY <1>3, <3>2
  <2>5. Writer!Shared!NextOf(pos, W) = At(pos, m)
    BY <1>4, <2>3, <2>4
  <2> QED
    BY <1>2, <1>8, <2>1, <2>3, <2>5
<1> QED BY <1>7, <1>8

LEMMA SignalSendDoneKeeps ==
  ASSUME Writer!WriterAssumption, WriterInv, Writer!SignalSendDone
  PROVE  WriterInv' /\ Writer!Shared!Answer
<1>1. Writer!TypeOK /\ Answering /\ Resting
  BY DEF WriterInv, Phases, Writer!SignalSendDone, NoWrite, NextIsPosted, Sending
<1>2. current \in Writer!Clients /\ current # NUM_CLIENTS /\ outstanding \subseteq Writer!Clients
  BY <1>1, Constants DEF Answering, Writer!TypeOK
<1>3. /\ donePosted' = FALSE /\ sendState' = "IDLE" /\ outstanding' = outstanding \ {current}
      /\ current' = Writer!nextPacket(current) /\ nextPosted' = (nextPosted \/ current' # NUM_CLIENTS)
      /\ UNCHANGED <<txState, txPending, dataState, dataByte, run, completes, uart, wire>>
      /\ UNCHANGED <<sendBuffer, sendIndex, sendError>>
  BY <1>1, <1>2 DEF Writer!SignalSendDone, Answering, Writer!serialVars
<1>4. /\ outstanding' = {} => current' = NUM_CLIENTS
      /\ outstanding' # {} =>
           current' \in outstanding' /\ current' = Writer!Shared!NextOf(current, outstanding')
  BY <1>2, <1>3, NextInCircle
<1>5. nextPosted' = (current' # NUM_CLIENTS) /\ ~nextPosted
  BY <1>1, <1>3 DEF Answering
<1>6. outstanding' \subseteq Writer!Clients /\ current' \in 0..NUM_CLIENTS /\ (current' \in outstanding' => current' # NUM_CLIENTS)
  <2>1. outstanding' \subseteq Writer!Clients /\ \A c \in Writer!Clients : c \in 0..NUM_CLIENTS /\ c # NUM_CLIENTS
    BY <1>2, <1>3, Constants DEF Writer!Clients
  <2>2. NUM_CLIENTS \in 0..NUM_CLIENTS
    BY Constants
  <2> QED
    BY <1>4, <2>1, <2>2
<1>7. Writer!TypeOK'
  <2>1. Writer!SerialTypeOK(Writer!Clients \X (0..(Byte - 1)))'
    BY <1>1, <1>3 DEF Writer!TypeOK, Writer!SerialTypeOK
  <2>2. {donePosted', nextPosted'} \subseteq BOOLEAN
    BY <1>3, <1>5
  <2> QED
    BY <1>1, <1>3, <1>6, <2>1, <2>2 DEF Writer!TypeOK
<1>8. Resting'
  BY <1>1, <1>3 DEF Resting
<1>9. NoWrite' \/ NextIsPosted'
  <2>1. CASE outstanding' = {}
    BY <1>3, <1>4, <1>5, <2>1 DEF NoWrite
  <2>2. CASE outstanding' # {}
    BY <1>3, <1>4, <1>5, <1>6, <2>2 DEF NextIsPosted
  <2> QED BY <2>1, <2>2
<1>10. Writer!Shared!Answer
  BY <1>1, <1>3, <1>4 DEF Writer!Shared!Answer, Answering
<1> QED
  BY <1>7, <1>8, <1>9, <1>10 DEF WriterInv, Phases

LEMMA WriterStep ==
  ASSUME Writer!WriterAssumption, WriterInv, [Writer!Next]_(Writer!vars)
  PROVE  WriterInv' /\ [Writer!Shared!Next]_<<outstanding, current>>
<1>1. CASE Writer!PutDone
  BY <1>1, PutDoneKeeps
<1>2. ASSUME NEW c \in Writer!Clients, Writer!Write(c) PROVE WriterInv' /\ [Writer!Shared!Next]_<<outstanding, current>>
  BY <1>2, WriteKeeps DEF Writer!Shared!Next, Writer!Shared!Clients, Writer!Clients
<1>3. CASE Writer!RunTx
  BY <1>3, RunTxKeeps
<1>4. CASE Writer!SignalSendDone
  BY <1>4, SignalSendDoneKeeps DEF Writer!Shared!Next
<1>5. CASE Writer!NextSend
  BY <1>5, NextSendKeeps
<1>6. CASE UNCHANGED Writer!vars
  BY <1>6 DEF Writer!vars, Writer!serialVars, Writer!writerVars, Writer!sharedVars, WriterInv, Writer!TypeOK, Writer!SerialTypeOK, Phases,
     NoWrite, NextIsPosted, Sending, Answering, Resting, Queued, Framing, Ended, Reports, NextWaits, Whole, Prefix
<1> QED BY <1>1, <1>2, <1>3, <1>4, <1>5, <1>6 DEF Writer!Next

(* The behaviours of the writer, whether or not it is treated fairly.      *)
WriterSteps == Writer!Init /\ [][Writer!Next]_(Writer!vars)

LEMMA WriterAlways == WriterSteps => []WriterInv
<1>1. Writer!Init => WriterInv
  BY WriterAssumption, WriterInit
<1>2. WriterInv /\ [Writer!Next]_(Writer!vars) => WriterInv'
  BY WriterAssumption, WriterStep
<1> QED
  BY <1>1, <1>2, PTL DEF WriterSteps

(* The write that is served is in one pair of hands of the three layers,   *)
(* and no layer finds the one below busy.                                  *)
THEOREM WriteIsInOneHand == WriterSteps => []Writer!WriteInOneHand
<1>1. WriterInv => Writer!WriteInOneHand
  BY WriterAssumption, HandsFromInv
<1> QED
  BY <1>1, WriterAlways, PTL

(* A frame that ends well holds the whole buffer of the client, in order.  *)
THEOREM FrameHoldsBuffer == WriterSteps => []Writer!FrameIsBuffer
<1>1. WriterInv => Writer!FrameIsBuffer
  BY WriterAssumption, FrameFromInv
<1> QED
  BY <1>1, WriterAlways, PTL

(* Every step of the three layers is one of the shared writer that clients *)
(* see, or none: a write is accepted, or the write that is served is       *)
(* answered and the next client in the circle is served.                   *)
THEOREM ServesRoundRobin ==
  WriterSteps => Writer!Shared!Init /\ [][Writer!Shared!Next]_<<outstanding, current>>
<1>1. Writer!Init => WriterInv /\ Writer!Shared!Init
  BY WriterAssumption, WriterInit DEF Writer!Init, Writer!Shared!Init
<1>2. WriterInv /\ [Writer!Next]_(Writer!vars) => WriterInv' /\ [Writer!Shared!Next]_<<outstanding, current>>
  BY WriterAssumption, WriterStep
<1> QED
  BY <1>1, <1>2, PTL DEF WriterSteps

------------------------------------------------------------------------------
(* The three layers together.                                              *)
(*                                                                         *)
(* The main program is in the arbiter only when that is the layer that     *)
(* runs.                                                                   *)
HardwareInv ==
  /\ Inv /\ SpiInv /\ WriterInv
  /\ layer # "arbiter" => main = Outside

LEMMA HardwareInit == InitHardware => HardwareInv
<1> SUFFICES ASSUME InitHardware PROVE HardwareInv
  OBVIOUS
<1>1. Init /\ Spi!Init /\ Writer!Init
  BY DEF InitHardware
<1>2. Inv
  BY <1>1, InitInv
<1>3. SpiInv
  BY <1>1, WriterAssumption, InitSpi
<1>4. WriterInv
  BY <1>1, WriterAssumption, WriterInit
<1>5. main = Outside
  BY <1>1 DEF Init
<1> QED
  BY <1>2, <1>3, <1>4, <1>5 DEF HardwareInv

(* A change of the CPU's activity is a step of the layers that have it.    *)
LEMMA CpuChanges ==
  /\ cpu' \in Act /\ main = Outside /\ UNCHANGED arbiterVars => [Next]_vars
  /\ cpu' \in Act /\ UNCHANGED spiVars => [Spi!Next]_Spi!vars
<1>1. ASSUME cpu' \in Act, main = Outside, UNCHANGED arbiterVars PROVE [Next]_vars
  <2>1. OtherTask(cpu')
    BY <1>1 DEF OtherTask, arbiterVars, arbiter
  <2> QED
    BY <1>1, <2>1 DEF Next
<1>2. ASSUME cpu' \in Act, UNCHANGED spiVars PROVE [Spi!Next]_Spi!vars
  <2>1. Spi!OtherTask
    BY <1>2 DEF Spi!OtherTask, Spi!bus, spiVars
  <2> QED
    BY <2>1 DEF Spi!Next
<1> QED
  BY <1>1, <1>2

LEMMA LayersStep ==
  ASSUME HardwareInv, [NextHardware]_hardwareVars
  PROVE  /\ HardwareInv'
         /\ [Next]_vars /\ [Spi!Next]_Spi!vars /\ [Writer!Next]_(Writer!vars)
<1>1. layer' = layer /\ Inv /\ SpiInv /\ WriterInv
  BY DEF NextHardware, hardwareVars, HardwareInv
<1>2. UNCHANGED portVars => UNCHANGED Writer!vars
  BY DEF portVars, Writer!vars, Writer!serialVars, Writer!writerVars, Writer!sharedVars
<1>3. CASE layer = "arbiter" /\ Next /\ UNCHANGED <<spiVars, portVars>>
  <2>1. Inv' /\ cpu' \in Act
    BY <1>1, <1>3, NextInv DEF Inv, TypeOK
  <2> QED
    BY <1>1, <1>2, <1>3, <2>1, CpuChanges, WriterAssumption, DriversKeep, WriterStep DEF HardwareInv
<1>4. CASE layer = "spi" /\ Spi!Next /\ UNCHANGED <<arbiterVars, portVars>>
  <2>1. Spi!Next /\ main' = main /\ main = Outside /\ UNCHANGED arbiterVars /\ UNCHANGED portVars
    BY <1>4 DEF arbiterVars, HardwareInv
  <2>2. SpiInv'
    BY <1>1, <2>1, WriterAssumption, DriversKeep
  <2>3. cpu' \in Act
    BY <2>2 DEF SpiInv, DriverTypes, Spi!TypeOK
  <2>4. [Next]_vars
    BY <2>1, <2>3, CpuChanges
  <2>5. Inv'
    BY <1>1, <2>4, NextInv
  <2>6. WriterInv'
    BY <1>1, <1>2, <2>1, WriterAssumption, WriterStep
  <2> QED
    BY <1>1, <1>2, <2>1, <2>2, <2>4, <2>5, <2>6 DEF HardwareInv
<1>5. CASE layer = "writer" /\ Writer!Next /\ UNCHANGED <<cpu, arbiterVars, spiVars>>
  <2>1. Writer!Next /\ UNCHANGED vars /\ UNCHANGED Spi!vars /\ main' = main
    BY <1>5 DEF arbiterVars, arbiter, vars, spiVars, Spi!vars, Spi!bus
  <2> QED
    BY <1>1, <2>1, NextInv, WriterAssumption, DriversKeep, WriterStep DEF HardwareInv
<1>6. CASE UNCHANGED hardwareVars
  <2>1. UNCHANGED vars /\ UNCHANGED Spi!vars /\ UNCHANGED Writer!vars /\ main' = main
    BY <1>2, <1>6 DEF hardwareVars, arbiterVars, arbiter, vars, spiVars, Spi!vars, Spi!bus
  <2> QED
    BY <1>1, <2>1, NextInv, WriterAssumption, DriversKeep, WriterStep DEF HardwareInv
<1> QED
  BY <1>3, <1>4, <1>5, <1>6 DEF NextHardware

LEMMA HardwareAlways ==
  FairHardware => /\ []HardwareInv
                  /\ Spec /\ Spi!Spec /\ WriterSteps
<1>1. InitHardware => HardwareInv /\ Init /\ Spi!Init /\ Writer!Init
  BY HardwareInit DEF InitHardware
<1>2. HardwareInv /\ [NextHardware]_hardwareVars =>
        /\ HardwareInv'
        /\ [Next]_vars /\ [Spi!Next]_Spi!vars /\ [Writer!Next]_(Writer!vars)
  BY LayersStep
<1> QED
  BY <1>1, <1>2, PTL DEF FairHardware, Spec, Spi!Spec, WriterSteps

(* The variables of the three layers have their types.                     *)
THEOREM HardwareTypes == FairHardware => []HardwareTypeOK
<1>1. HardwareInv => HardwareTypeOK
  BY DEF HardwareInv, HardwareTypeOK, Inv, SpiInv, DriverTypes, WriterInv
<1> QED
  BY <1>1, HardwareAlways, PTL

(* Above the arbiter: whichever of the radio's drivers was told that it    *)
(* has the bus has it alone, charged to the activity of its request.       *)
THEOREM DriverHasBus == FairHardware => []DriverOwnsBus
<1>1. HardwareInv => DriverOwnsBus
  BY WriterAssumption, OwnsFromInv DEF HardwareInv, DriverOwnsBus
<1> QED
  BY <1>1, HardwareAlways, PTL

(* The write that the shared serial writer serves is handed on by its      *)
(* three layers, neither lost nor doubled.                                 *)
THEOREM WriteHandedOn == FairHardware => []WriteInOneHand
<1>1. HardwareInv => WriteInOneHand
  BY WriterAssumption, HandsFromInv DEF HardwareInv, WriteInOneHand
<1> QED
  BY <1>1, HardwareAlways, PTL

(* A frame that ends well on the serial port holds the whole buffer of the *)
(* client that is served, byte for byte in order.                          *)
THEOREM FramesAreWhole == FairHardware => []FrameIsBuffer
<1>1. HardwareInv => FrameIsBuffer
  BY WriterAssumption, FrameFromInv DEF HardwareInv, FrameIsBuffer
<1> QED
  BY <1>1, HardwareAlways, PTL

(* Clients of the port are served in a circle, and each write is answered  *)
(* once: every step of the layers is one of SharedWriter, or none.         *)
THEOREM WritesShared ==
  FairHardware => Writer!Shared!Init /\ [][Writer!Shared!Next]_<<outstanding, current>>
  BY HardwareAlways, ServesRoundRobin, PTL

(* The arbiter keeps its promises beside the other layers: a holder owns   *)
(* the resource, and requests are granted in order under their activities. *)
THEOREM ArbiterKeepsPromise == FairHardware => []HolderOwnsResource /\ ImplementsFcfsGrants
  BY HardwareAlways, HoldersOwn, Implements
===============================================================================
