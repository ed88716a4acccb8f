----------------------------- MODULE RingDrain -----------------------------
(***************************************************************************)
(* What the trace consumer promises for every per-CPU ring, independent of *)
(* threads, locks and polling: the sink receives sub-buffers of a ring one *)
(* at a time, always the oldest one still unread, so that the sequence     *)
(* handed to the sink for a ring is the ring's own order with nothing      *)
(* repeated.  A flight-recorder ring may lose its oldest sub-buffer to the *)
(* producer when it is full; a normal ring never does.                     *)
(*                                                                         *)
(* Sub-buffers of a ring are numbered 0, 1, 2, ... in production order.    *)
(***************************************************************************)
EXTENDS Naturals, Sequences

CONSTANTS Rings,        \* ring files
          FlightRings,  \* rings in overwrite (flight recorder) mode
          NSB,          \* sub-buffers per ring
          MaxSB         \* bound on sub-buffers produced per ring

VARIABLES produced,     \* produced[r]: sub-buffers completed by the producer
          consumed,     \* consumed[r]: sub-buffers no longer readable
          delivered     \* delivered[r]: sub-buffer numbers handed to the sink

vars == <<produced, consumed, delivered>>

Unread(r) == produced[r] - consumed[r]

Init ==
  /\ produced  = [r \in Rings |-> 0]
  /\ consumed  = [r \in Rings |-> 0]
  /\ delivered = [r \in Rings |-> <<>>]

\* The producer completes a sub-buffer when one is free.
Produce(r) ==
  /\ produced[r] < MaxSB
  /\ Unread(r) < NSB
  /\ produced' = [produced EXCEPT ![r] = @ + 1]
  /\ UNCHANGED <<consumed, delivered>>

\* A full flight-recorder ring overwrites its oldest unread sub-buffer.
Overwrite(r) ==
  /\ r \in FlightRings
  /\ produced[r] < MaxSB
  /\ Unread(r) = NSB
  /\ produced' = [produced EXCEPT ![r] = @ + 1]
  /\ consumed' = [consumed EXCEPT ![r] = @ + 1]
  /\ UNCHANGED delivered

\* The oldest unread sub-buffer is handed to the sink and becomes consumed.
Deliver(r) ==
  /\ Unread(r) > 0
  /\ delivered' = [delivered EXCEPT ![r] = Append(@, consumed[r])]
  /\ consumed'  = [consumed EXCEPT ![r] = @ + 1]
  /\ UNCHANGED produced

Next == \E r \in Rings : Produce(r) \/ Overwrite(r) \/ Deliver(r)

Spec == Init /\ [][Next]_vars

=============================================================================
