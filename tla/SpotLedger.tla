---------------------------- MODULE SpotLedger -----------------------------
(***************************************************************************)
(* What selling spots promises, without time, locks, payments or requests: *)
(* a spot is free, held by a booking or owned by a person; spots are taken *)
(* one at a time and never beyond the capacity of the moment, a hold turns *)
(* into ownership or is given back, and an ended booking holds nothing     *)
(* again.                                                                  *)
(***************************************************************************)
EXTENDS Naturals, FiniteSets

CONSTANTS Users, Bookings

VARIABLES
  capacity,  \* spots of the event
  held,      \* bookings holding a spot
  ended,     \* bookings that held one and no longer do
  owners     \* people owning a spot

vars == <<capacity, held, ended, owners>>

Init == held = {} /\ ended = {} /\ owners = {} /\ capacity \in Nat \ {0}

Fits(H, O) == Cardinality(O) + Cardinality(H) <= capacity

\* Bookings R are given back in the step that takes a spot.
Hold(b, R) ==
  /\ b \in Bookings \ (held \cup ended) /\ R \subseteq held
  /\ held' = (held \ R) \cup {b} /\ ended' = ended \cup R
  /\ Fits(held', owners)
  /\ UNCHANGED <<capacity, owners>>

Register(u, R) ==
  /\ u \in Users \ owners /\ R \subseteq held
  /\ held' = held \ R /\ ended' = ended \cup R
  /\ owners' = owners \cup {u}
  /\ Fits(held', owners')
  /\ UNCHANGED capacity

Sell(b, u, R) ==
  /\ b \in held \ R /\ u \in Users \ owners /\ R \subseteq held
  /\ held' = held \ (R \cup {b}) /\ ended' = ended \cup R \cup {b}
  /\ owners' = owners \cup {u}
  /\ UNCHANGED capacity

GiveBack(R) ==
  /\ R \subseteq held
  /\ held' = held \ R /\ ended' = ended \cup R
  /\ UNCHANGED <<capacity, owners>>

Resize == capacity' \in Nat \ {0} /\ UNCHANGED <<held, ended, owners>>

Next ==
  \/ \E R \in SUBSET held :
       \/ \E b \in Bookings : Hold(b, R)
       \/ \E u \in Users : Register(u, R)
       \/ \E b \in Bookings, u \in Users : Sell(b, u, R)
       \/ GiveBack(R)
  \/ Resize

Spec == Init /\ [][Next]_vars

=============================================================================
