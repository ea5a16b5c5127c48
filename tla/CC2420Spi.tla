------------------------------ MODULE CC2420Spi ------------------------------
(***************************************************************************)
(* The radio's drivers share one client of the bus arbiter                 *)
(* (CC2420SpiP.nc).  The arbiter below is what it promises, FcfsGrants.    *)
(* Every command is one atomic section, so it is one step, made by the     *)
(* main program or by a handler under the activity a; a handler's changes  *)
(* of the CPU's activity end with it.  The transmitter may keep the bus    *)
(* after a release, until its send is done; that is a handler's call, since *)
(* bytes, captures and alarms come in handlers.  Drivers request when they *)
(* have no request and release what they were given.                       *)
(***************************************************************************)
EXTENDS Naturals, FiniteSetsExt, Sequences

CONSTANTS
  Ids,            \* 0..RESOURCE_COUNT-1
  Transmitter,    \* CC2420TransmitP's
  Radio, Other,   \* the clients of the bus: this one, another driver
  Act, Idle, None

SpiAssumption ==
  /\ Ids \subseteq Nat /\ Transmitter \in Ids /\ Radio # Other
  /\ None \notin Ids \cup Act \cup {Radio, Other} /\ Idle \notin Act

VARIABLES
  line, holder, charged,        \* of the bus: see FcfsGrants
  m_requests, m_holder, m_ctx,
  working,                      \* WorkingState: "S_IDLE" or "S_BUSY"
  granting,                     \* activity the task grant is posted under, or None
  spiContext,                   \* ResourceContext
  told,                         \* drivers that were told the bus is theirs
  asked,                        \* the activities of their requests, or None
  abortSpiRelease,              \* of CC2420TransmitP
  cpu                           \* activity of the main program

bus == <<line, holder, charged>>
vars == <<bus, m_requests, m_holder, m_ctx, working, granting, spiContext,
          told, asked, abortSpiRelease, cpu>>

Bus == INSTANCE FcfsGrants WITH Client <- {Radio, Other}

Init ==
  /\ Bus!GInit
  /\ m_requests = {} /\ m_holder = None /\ m_ctx = [c \in Ids |-> None]
  /\ working = "S_IDLE" /\ granting = None /\ spiContext = Idle
  /\ told = {} /\ asked = [c \in Ids |-> None]
  /\ abortSpiRelease = FALSE
  /\ cpu \in Act

(* The activities a command finds (CPUContext.get), and what CPUContext.set *)
(* leaves of the activity a: a handler gives the interrupted one back.      *)
Caller(byHandler) == IF byHandler THEN Act ELSE {cpu}
Sets(byHandler, a) == cpu' = IF byHandler THEN cpu ELSE a

BusIsOurs_Never == FALSE   \* mutant

BusIsOurs == holder = Radio

(* Resource.request. *)
Request(c, a) ==
  /\ m_holder # c /\ c \notin m_requests
  /\ asked' = [asked EXCEPT ![c] = a]
  /\ IF working = "S_IDLE"
     THEN /\ working' = "S_BUSY" /\ m_holder' = c
          /\ \/ BusIsOurs /\ granting' = a /\ UNCHANGED bus
             \/ ~BusIsOurs /\ Bus!Ask(Radio, a) /\ UNCHANGED granting
          /\ UNCHANGED <<m_requests, m_ctx>>
     ELSE /\ m_requests' = m_requests \cup {c}
          /\ m_ctx' = [m_ctx EXCEPT ![c] = a]
          /\ UNCHANGED <<bus, m_holder, working, granting>>
  /\ UNCHANGED <<spiContext, told, abortSpiRelease, cpu>>

(* Resource.immediateRequest, when it succeeds.  It leaves ResourceContext *)
(* alone.                                                                  *)
ImmediateRequest(c, a) ==
  /\ working = "S_IDLE"
  /\ \/ BusIsOurs /\ UNCHANGED bus
     \/ Bus!Take(Radio, a)
  /\ working' = "S_BUSY" /\ m_holder' = c
  /\ told' = told \cup {c}
  /\ asked' = [asked EXCEPT ![c] = None]
  /\ UNCHANGED <<m_requests, m_ctx, granting, spiContext, abortSpiRelease, cpu>>

(* SpiResource.release: the arbiter puts the activity of the next client   *)
(* of the bus on the CPU.                                                  *)
ReleaseBus(byHandler) ==
  /\ Bus!GiveBack
  /\ Sets(byHandler, IF line = << >> THEN cpu ELSE Head(line).act)

(* Mutant: only the transmitter's wish counts. *)
MayRelease_WishOnly == ~abortSpiRelease'

(* attemptRelease, with the answer of ChipSpiResource.releasing. *)
MayRelease ==
  m_requests = {} /\ m_holder' = None /\ working' = "S_IDLE" /\ ~abortSpiRelease'

AttemptRelease(byHandler) ==
  IF MayRelease /\ holder = Radio THEN ReleaseBus(byHandler) ELSE UNCHANGED <<bus, cpu>>

(* m_holder is NO_HOLDER when the scan for the next one begins after it.   *)
NextHolder == Min(m_requests)

(* Resource.release; keep is what the transmitter sets before it.          *)
Release(c, keep, byHandler) ==
  /\ c \in told /\ m_holder = c
  /\ told' = told \ {c}
  /\ abortSpiRelease' = (abortSpiRelease \/ keep)
  /\ IF m_requests = {}
     THEN /\ m_holder' = None /\ working' = "S_IDLE" /\ spiContext' = Idle
          /\ AttemptRelease(byHandler)
          /\ UNCHANGED <<m_requests, granting>>
     ELSE /\ m_holder' = NextHolder
          /\ m_requests' = m_requests \ {m_holder'}
          /\ granting' = m_ctx[m_holder']
          /\ Sets(byHandler, m_ctx[m_holder'])
          /\ UNCHANGED <<bus, working, spiContext>>
  /\ UNCHANGED <<m_ctx, asked>>

(* CC2420TransmitP.signalDone, by a handler: an acknowledged send is over. *)
SendDone ==
  /\ abortSpiRelease' = FALSE
  /\ UNCHANGED <<m_requests, m_holder, working>>
  /\ AttemptRelease(TRUE)
  /\ UNCHANGED <<m_ctx, granting, spiContext, told, asked>>

(* The task grant. *)
Grant ==
  /\ granting # None
  /\ granting' = None
  /\ cpu' = granting /\ spiContext' = granting
  /\ told' = told \cup {m_holder}
  /\ UNCHANGED <<bus, m_requests, m_holder, m_ctx, working, asked, abortSpiRelease>>

(* The bus: SpiResource.granted is signalled by the arbiter's task under   *)
(* the activity of the request, and posts grant under it.                  *)
BusGranted ==
  /\ Bus!Grant
  /\ cpu' = charged'
  /\ granting' = IF holder' = Radio THEN cpu' ELSE granting
  /\ UNCHANGED <<m_requests, m_holder, m_ctx, working, spiContext, told, asked,
                 abortSpiRelease>>

(* The other driver asks, or takes the bus, or gives it back. *)
OtherCalls ==
  /\ \/ holder # Other /\ Other \notin {line[i].client : i \in DOMAIN line}
        /\ \E a \in Act : Bus!Ask(Other, a) \/ Bus!Take(Other, a)
     \/ holder = Other /\ Bus!GiveBack
  /\ UNCHANGED <<m_requests, m_holder, m_ctx, working, granting, spiContext,
                 told, asked, abortSpiRelease, cpu>>

(* Other code of the main program runs, under another activity. *)
OtherTask ==
  /\ cpu' \in Act
  /\ UNCHANGED <<bus, m_requests, m_holder, m_ctx, working, granting, spiContext,
                 told, asked, abortSpiRelease>>

SomeRelease ==
  \/ \E c \in Ids, h \in BOOLEAN : Release(c, FALSE, h)
  \/ Release(Transmitter, TRUE, TRUE)

Next ==
  \/ \E c \in Ids, h \in BOOLEAN : \E a \in Caller(h) :
        Request(c, a) \/ ImmediateRequest(c, a)
  \/ SomeRelease
  \/ SendDone \/ Grant \/ BusGranted \/ OtherCalls \/ OtherTask

Spec == Init /\ [][Next]_vars

(* Drivers release what they are given, sends are done (by an answer or an *)
(* alarm), and posted tasks run.                                           *)
Fairness ==
  /\ WF_vars(SomeRelease) /\ WF_vars(SendDone)
  /\ WF_vars(Grant) /\ SF_vars(BusGranted)
  /\ WF_vars(OtherCalls /\ holder = Other)

------------------------------------------------------------------------------
TypeOK ==
  /\ m_requests \subseteq Ids /\ m_holder \in Ids \cup {None}
  /\ m_ctx \in [Ids -> Act \cup {None}] /\ asked \in [Ids -> Act \cup {None}]
  /\ working \in {"S_IDLE", "S_BUSY"}
  /\ granting \in Act \cup {None} /\ spiContext \in Act \cup {Idle}
  /\ told \subseteq Ids /\ cpu \in Act /\ abortSpiRelease \in BOOLEAN
  /\ holder \in {Radio, Other, None}

(* A driver that was told the bus is its own is the only one, the radio    *)
(* does have the bus, and the bus is charged to the activity of the        *)
(* driver's request, if it had to wait.                                    *)
OwnsBus ==
  \A c \in told :
    /\ m_holder = c /\ told = {c} /\ working = "S_BUSY" /\ holder = Radio
    /\ granting = None
    /\ asked[c] # None => spiContext = asked[c]

Waits(c) == c \in m_requests \/ (m_holder = c /\ c \notin told)

(* A bus that is kept over a release is kept for a while only.             *)
Kept == holder = Radio /\ working = "S_IDLE"

Served == (\A c \in Ids : Waits(c) ~> c \in told) /\ (Kept ~> ~Kept)
==============================================================================
