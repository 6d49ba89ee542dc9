-------------------------- MODULE PayableBookings --------------------------
(***************************************************************************)
(* What the payment of a booking and the requests that end bookings owe to *)
(* each other, with no sessions, locks or limits: a payment that has found *)
(* its booking payable holds it until it is recorded or given up, and      *)
(* nobody ends a booking that is held.                                     *)
(***************************************************************************)
CONSTANT Bookings

VARIABLES
  over,     \* bookings that have been expired, cancelled or sold
  held,     \* bookings a payment has found payable, and is at work on
  recorded  \* bookings that have a payment

vars == <<over, held, recorded>>

Init == over = {} /\ held = {} /\ recorded = {}

Begin(b) ==
  /\ b \notin over \cup held
  /\ held' = held \cup {b}
  /\ UNCHANGED <<over, recorded>>

\* The transaction that records a payment may end other bookings with it.
Record(b, R) ==
  /\ b \in held /\ b \notin recorded /\ R \cap held = {}
  /\ recorded' = recorded \cup {b}
  /\ held' = held \ {b}
  /\ over' = over \cup R

Release(b) ==
  /\ b \in held
  /\ held' = held \ {b}
  /\ UNCHANGED <<over, recorded>>

End(R) ==
  /\ R \cap held = {}
  /\ over' = over \cup R
  /\ UNCHANGED <<held, recorded>>

Next ==
  \/ \E b \in Bookings : Begin(b) \/ Release(b)
  \/ \E R \in SUBSET Bookings : End(R) \/ \E b \in Bookings : Record(b, R)

Spec == Init /\ [][Next]_vars

=============================================================================
