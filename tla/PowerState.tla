------------------------------ MODULE PowerState ------------------------------
(***************************************************************************)
(* The power state of a resource (PowerStateP.nc): a word of bits that its *)
(* driver changes in parts, from the main program and from handlers.  The  *)
(* new word is computed in one atomic section, set in a second one and     *)
(* signalled after it.  A handler makes its whole call at once; a call of  *)
(* the main program may be interrupted between the three.                  *)
(***************************************************************************)
CONSTANTS
  Bit,      \* the bits of powerstate_t
  Masks,    \* the masks the driver uses
  None

VARIABLES
  m_state,    \* the bits that are 1
  call,       \* the main program's call: its mask and new_value, or None
  event,      \* the word the main program is about to signal, or None
  tracked     \* the word of the last PowerStateTrack.changed

vars == <<m_state, call, event, tracked>>

Init == m_state = {} /\ call = None /\ event = None /\ tracked = {}

(* setBits; the others are cases of it: unsetBits with value {}, setBit and *)
(* unsetBit with a mask of one bit, and set with all bits.                  *)
new_value(mask, value) == (m_state \ mask) \cup (value \cap mask)

HandlerSetsBits(mask, value) ==
  /\ m_state' = new_value(mask, value)
  /\ tracked' = IF m_state' # m_state THEN m_state' ELSE tracked
  /\ UNCHANGED <<call, event>>

(* The first atomic section. *)
SetBits(mask, value) ==
  /\ call = None /\ event = None
  /\ call' = [mask |-> mask, new_value |-> new_value(mask, value)]
  /\ UNCHANGED <<m_state, event, tracked>>

(* The second, in set. *)
Set ==
  /\ call # None
  /\ m_state' = call.new_value
  /\ event' = IF m_state' # m_state THEN m_state' ELSE None
  /\ call' = None
  /\ UNCHANGED tracked

Signal ==
  /\ event # None
  /\ tracked' = event /\ event' = None
  /\ UNCHANGED <<m_state, call>>

Next ==
  \/ \E mask \in Masks : \E value \in SUBSET mask :
       HandlerSetsBits(mask, value) \/ SetBits(mask, value)
  \/ Set \/ Signal

Spec == Init /\ [][Next]_vars

(* PowerState.nc:14-15 says of mask that it gives "the bits of powerstate  *)
(* that should be changed".  A call of the main program that is            *)
(* interrupted between its atomic sections changes the others back.        *)
OnlyMaskChanges ==
  [][Set => m_state' \ call.mask = m_state \ call.mask]_vars
==============================================================================
