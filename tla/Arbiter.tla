------------------------------- MODULE Arbiter -------------------------------
(***************************************************************************)
(* The arbiter that carries activities: tos/system/ArbiterP.nc, with the   *)
(* queue of FcfsArbiterC.nc.  Its clients are the drivers of the two       *)
(* USARTs; they call it from the main program and from interrupt handlers. *)
(*                                                                         *)
(* A handler runs with interrupts off, so each call made by a handler is   *)
(* one step, under any activity, and leaves the activity of the code it    *)
(* interrupted alone (SingleContextP.nc:71-95).  A call made by the main   *)
(* program is cut where ArbiterP leaves an atomic section: handlers come   *)
(* in between.                                                             *)
(*                                                                         *)
(* The default owner is the one ArbiterP itself supplies when none is      *)
(* wired (239-247), which releases at once; the power manager of the       *)
(* USARTs (AsyncStdControlPowerManagerC, outside this repository) starts   *)
(* the hardware and releases at once too.                                  *)
(***************************************************************************)
EXTENDS Sequences, SequencesExt

CONSTANTS
  Client,       \* the clients of the resource
  Act,          \* the activities of the code that runs
  Idle,         \* the activity of a resource nobody uses
  DefaultOwner, \* default_owner_id
  None          \* NO_RES, and "nothing"

ASSUME ArbiterAssumption ==
  /\ DefaultOwner \notin Client /\ None \notin Client /\ None # DefaultOwner
  /\ None \notin Act /\ Idle # None

VARIABLES
  state,         \* RES_CONTROLLED .. RES_BUSY
  resId,         \* whose the resource is: a client, DefaultOwner or None
  reqResId,      \* the client that is being served
  queue,         \* the clients that wait
  clientContext, \* the activity each of them was queued under
  grantedTask,   \* the activity the task is posted under, or None
  resource,      \* the activity of ResourceContext
  configured,    \* the client the hardware is configured for, or None
  holds,         \* the clients that were told the resource is theirs
  cpu,           \* the activity of the main program
  main           \* what the main program is doing in the arbiter, for whom

arbiter == <<state, resId, reqResId, queue, clientContext>>
vars == <<arbiter, grantedTask, resource, configured, holds, cpu, main>>

Outside == [step |-> "outside", client |-> None]
In(s, c) == [step |-> s, client |-> c]

Init ==
  /\ state = "RES_CONTROLLED"
  /\ resId = DefaultOwner
  /\ reqResId = None
  /\ queue = << >>
  /\ clientContext = [c \in Client |-> None]
  /\ grantedTask = None
  /\ resource = Idle
  /\ configured = None
  /\ holds = {}
  /\ cpu \in Act
  /\ main = Outside

-----------------------------------------------------------------------------
(* Plausible errors of this code.                                          *)

MayEnqueue_Always(c) == TRUE
Controlled_UntilGranted == resId = DefaultOwner
NextContext_OfReleaser == cpu
HandBack_AnyQueue(c) ==
  /\ state = "RES_BUSY" /\ resId = c
  /\ resId' = DefaultOwner
  /\ state' = "RES_CONTROLLED"
  /\ resource' = Idle
  /\ configured' = None
  /\ holds' = holds \ {c}
  /\ UNCHANGED <<reqResId, queue, clientContext, grantedTask>>

-----------------------------------------------------------------------------
(* What the calls of ArbiterP do, whoever makes them.                      *)

(* ArbiterInfo.userId, which UsartShare sends interrupts to.               *)
userId == IF state = "RES_BUSY" THEN resId ELSE None

(* Nobody has the resource and nobody is being served.                     *)
Controlled == state = "RES_CONTROLLED"

(* FcfsResourceQueueC.enqueue refuses a client that is in the queue.       *)
MayEnqueue(c) == c \notin ToSet(queue)

(* request when the resource is busy: the client waits, with the activity  *)
(* a of its call.                                                          *)
Enqueue(c, a) ==
  /\ ~Controlled
  /\ MayEnqueue(c)
  /\ queue' = Append(queue, c)
  /\ clientContext' = [clientContext EXCEPT ![c] = a]
  /\ UNCHANGED <<state, resId, reqResId>>

(* request and immediateRequest when the resource is free: the default     *)
(* owner is about to be asked.                                             *)
Reserve(c, granting) ==
  /\ Controlled
  /\ state' = granting
  /\ reqResId' = c
  /\ UNCHANGED <<resId, queue, clientContext>>

(* ResourceDefaultOwner.release in RES_GRANTING: grantedTask is posted,    *)
(* under the activity a of the code that posts it.                         *)
Posted(a) == IF grantedTask = None THEN a ELSE grantedTask

(* Resource.release with clients waiting: the first one is next, the CPU   *)
(* takes the activity of its request, and grantedTask is posted under it.  *)
NextContext == clientContext[Head(queue)]

PassOn(c) ==
  /\ state = "RES_BUSY" /\ resId = c
  /\ queue # << >>
  /\ reqResId' = Head(queue)
  /\ queue' = Tail(queue)
  /\ resId' = None
  /\ state' = "RES_GRANTING"
  /\ grantedTask' = Posted(NextContext)
  /\ configured' = None
  /\ holds' = holds \ {c}
  /\ UNCHANGED <<clientContext, resource>>

(* Resource.release with nobody waiting: the default owner gets it back.   *)
HandBack(c) ==
  /\ state = "RES_BUSY" /\ resId = c
  /\ queue = << >>
  /\ resId' = DefaultOwner
  /\ state' = "RES_CONTROLLED"
  /\ resource' = Idle
  /\ configured' = None
  /\ holds' = holds \ {c}
  /\ UNCHANGED <<reqResId, queue, clientContext, grantedTask>>

-----------------------------------------------------------------------------
(* The main program.                                                       *)

(* Other code runs: another task, another activity.                        *)
OtherTask(a) ==
  /\ main = Outside
  /\ cpu' = a
  /\ UNCHANGED <<arbiter, grantedTask, resource, configured, holds, main>>

(* request, until the end of its atomic section.                           *)
Request(c) ==
  /\ main = Outside
  /\ \/ Enqueue(c, cpu) /\ UNCHANGED main
     \/ Reserve(c, "RES_GRANTING") /\ main' = In("request", c)
  /\ UNCHANGED <<grantedTask, resource, configured, holds, cpu>>

(* The default owner is told of the request and releases.                  *)
OwnerReleases ==
  /\ main.step = "request"
  /\ resId = DefaultOwner /\ state = "RES_GRANTING"
  /\ grantedTask' = Posted(cpu)
  /\ main' = Outside
  /\ UNCHANGED <<arbiter, resource, configured, holds, cpu>>

(* immediateRequest, until the end of its atomic section; it fails, and    *)
(* changes nothing, unless the resource is free.                           *)
ImmediateRequest(c) ==
  /\ main = Outside
  /\ Reserve(c, "RES_IMM_GRANTING")
  /\ main' = In("immediateRequest", c)
  /\ UNCHANGED <<grantedTask, resource, configured, holds, cpu>>

(* The default owner is told and releases: the resource is the client's.   *)
OwnerReleasesNow ==
  /\ main.step = "immediateRequest"
  /\ resId = DefaultOwner /\ state = "RES_IMM_GRANTING"
  /\ resId' = reqResId
  /\ state' = "RES_BUSY"
  /\ resource' = cpu
  /\ main' = [main EXCEPT !.step = "immediateAnswer"]
  /\ UNCHANGED <<reqResId, queue, clientContext, grantedTask, configured,
                 holds, cpu>>

(* immediateRequest looks whether it worked; if it did not, it gives up.   *)
ImmediateAnswer ==
  /\ main.step = "immediateAnswer"
  /\ IF resId = main.client
     THEN /\ configured' = resId
          /\ holds' = holds \cup {resId}
          /\ UNCHANGED state
     ELSE /\ state' = "RES_CONTROLLED"
          /\ UNCHANGED <<configured, holds>>
  /\ main' = Outside
  /\ UNCHANGED <<resId, reqResId, queue, clientContext, grantedTask, resource,
                 cpu>>

(* release, all in one atomic section.                                     *)
Release(c) ==
  /\ main = Outside
  /\ c \in holds
  /\ \/ PassOn(c) /\ cpu' = NextContext
     \/ HandBack(c) /\ UNCHANGED cpu
  /\ UNCHANGED main

(* grantedTask starts, under the activity it was posted with, and takes    *)
(* the resource for the client.                                            *)
GrantedTask ==
  /\ main = Outside
  /\ grantedTask # None
  /\ cpu' = grantedTask
  /\ grantedTask' = None
  /\ resId' = reqResId
  /\ state' = "RES_BUSY"
  /\ main' = In("grantedTask", reqResId)
  /\ UNCHANGED <<reqResId, queue, clientContext, resource, configured, holds>>

(* grantedTask goes on after its atomic section: it paints the resource,   *)
(* configures the hardware and tells the client.                           *)
SignalGranted ==
  /\ main.step = "grantedTask"
  /\ resource' = cpu
  /\ configured' = resId
  /\ holds' = holds \cup {resId}
  /\ main' = Outside
  /\ UNCHANGED <<arbiter, grantedTask, cpu>>

-----------------------------------------------------------------------------
(* The handlers: each call, with all its signals, is one step.             *)

HandlerRequest(c, a) ==
  /\ \/ Enqueue(c, a) /\ UNCHANGED grantedTask
     \/ /\ Reserve(c, "RES_GRANTING")
        /\ resId = DefaultOwner
        /\ grantedTask' = Posted(a)
  /\ UNCHANGED <<resource, configured, holds, cpu, main>>

HandlerImmediateRequest(c, a) ==
  /\ Controlled
  /\ resId = DefaultOwner
  /\ reqResId' = c
  /\ resId' = c
  /\ state' = "RES_BUSY"
  /\ resource' = a
  /\ configured' = c
  /\ holds' = holds \cup {c}
  /\ UNCHANGED <<queue, clientContext, grantedTask, cpu, main>>

(* The activity set for the next client ends with the handler.             *)
HandlerRelease(c) ==
  /\ c \in holds
  /\ PassOn(c) \/ HandBack(c)
  /\ UNCHANGED <<cpu, main>>

-----------------------------------------------------------------------------
(* The main program goes on with what it is doing in the arbiter.          *)
Continue ==
  OwnerReleases \/ OwnerReleasesNow \/ ImmediateAnswer \/ SignalGranted

(* A holder gives the resource back.                                       *)
SomeRelease == \E c \in Client : Release(c) \/ HandlerRelease(c)

Next ==
  \/ \E a \in Act : OtherTask(a)
  \/ \E c \in Client : Request(c) \/ ImmediateRequest(c) \/ Release(c)
  \/ \E c \in Client, a \in Act :
        HandlerRequest(c, a) \/ HandlerImmediateRequest(c, a)
  \/ \E c \in Client : HandlerRelease(c)
  \/ GrantedTask
  \/ Continue

Spec == Init /\ [][Next]_vars

(* Code that runs goes on, whoever is given the resource releases it, and  *)
(* a posted task runs although others run before it: the promise of the    *)
(* scheduler (PostedTasksRun of QuantoScheduler).                          *)
Fairness ==
  /\ WF_vars(Continue)
  /\ WF_vars(SomeRelease)
  /\ SF_vars(GrantedTask)

-----------------------------------------------------------------------------
Steps == {"request", "immediateRequest", "immediateAnswer", "grantedTask"}

(* Types, and a queue without repetition: clientContext has one activity   *)
(* for each client (ArbiterP.nc:60-62).                                    *)
TypeOK ==
  /\ state \in {"RES_CONTROLLED", "RES_GRANTING", "RES_IMM_GRANTING", "RES_BUSY"}
  /\ resId \in Client \cup {DefaultOwner, None}
  /\ reqResId \in Client \cup {None}
  /\ queue \in Seq(Client) /\ IsInjective(queue)
  /\ clientContext \in [Client -> Act \cup {None}]
  /\ grantedTask \in Act \cup {None}
  /\ resource \in Act \cup {Idle}
  /\ configured \in Client \cup {None}
  /\ holds \subseteq Client
  /\ cpu \in Act
  /\ main \in {Outside} \cup {In(s, c) : s \in Steps, c \in Client}

(* Whoever was told that it has the resource does have it, alone: the      *)
(* arbiter sends the interrupts to it and the hardware is configured for   *)
(* it.  A free resource is configured for nobody and charged to nobody     *)
(* (ArbiterP.nc:138-160, 220-228).                                         *)
HolderOwnsResource ==
  /\ \A c \in holds : userId = c /\ configured = c
  /\ Controlled => holds = {} /\ configured = None /\ resource = Idle

(* The line of requests: the one being served, with the activity its grant *)
(* will run under, and those of the queue.                                 *)
Served ==
  IF grantedTask # None
  THEN <<[client |-> reqResId, act |-> grantedTask]>>
  ELSE IF main.step \in {"request", "immediateRequest", "grantedTask"}
       THEN <<[client |-> main.client, act |-> cpu]>>
       ELSE << >>

Waiting ==
  [i \in DOMAIN queue |->
     [client |-> queue[i], act |-> clientContext[queue[i]]]]

Fcfs == INSTANCE FcfsGrants
  WITH line <- Served \o Waiting,
       holder <- IF main.step = "grantedTask" THEN None ELSE userId,
       charged <- resource

(* The arbiter serves requests in their order, each under the activity it  *)
(* was made with, and paints the resource with it: README:97-102, "the     *)
(* activity the CPU will have when the resource is granted is the same as  *)
(* when the request was made".                                             *)
ImplementsFcfsGrants == Fcfs!GSpec

Waits(c) == c \in {(Served \o Waiting)[i].client : i \in DOMAIN (Served \o Waiting)}

(* Every accepted request is granted, whatever other clients ask for at    *)
(* once in between (ArbiterP.nc:101-160).                                  *)
RequestsAreGranted == \A c \in Client : Waits(c) ~> c \in holds
===============================================================================
