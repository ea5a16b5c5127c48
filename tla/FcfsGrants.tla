------------------------------ MODULE FcfsGrants ------------------------------
(***************************************************************************)
(* What the users of a shared resource are promised by the arbiter         *)
(* (tos/system/ArbiterP.nc with the first-come-first-served queue of       *)
(* FcfsArbiterC.nc): requests wait in one line, the resource goes to the   *)
(* first of the line when nobody holds it, and a grant runs under the      *)
(* activity its request was made under, which the resource is charged to   *)
(* until nobody wants it any more.                                         *)
(***************************************************************************)
EXTENDS Sequences

CONSTANTS Client, Act, Idle, None

VARIABLES
  line,        \* the requests that wait: records [client, act]
  holder,      \* the client that has the resource, or None
  charged      \* the activity the resource is charged to

gvars == <<line, holder, charged>>

GInit == line = << >> /\ holder = None /\ charged = Idle

(* A request joins the line.                                               *)
Ask(c, a) ==
  /\ line' = Append(line, [client |-> c, act |-> a])
  /\ UNCHANGED <<holder, charged>>

(* A request for "now or never", served at once when nobody has or wants   *)
(* the resource.                                                           *)
Take(c, a) ==
  /\ holder = None
  /\ line = << >>
  /\ holder' = c
  /\ charged' = a
  /\ UNCHANGED line

(* The first of the line gets the free resource, under its own activity.   *)
Grant ==
  /\ holder = None
  /\ line # << >>
  /\ holder' = Head(line).client
  /\ charged' = Head(line).act
  /\ line' = Tail(line)

(* The holder gives the resource back; it is idle only if nobody waits.    *)
GiveBack ==
  /\ holder # None
  /\ holder' = None
  /\ charged' = IF line = << >> THEN Idle ELSE charged
  /\ UNCHANGED line

GNext ==
  \/ \E c \in Client, a \in Act : Ask(c, a) \/ Take(c, a)
  \/ Grant
  \/ GiveBack

GSpec == GInit /\ [][GNext]_gvars
===============================================================================
