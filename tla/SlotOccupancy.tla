--------------------------- MODULE SlotOccupancy ---------------------------
(***************************************************************************)
(* What an agenda promises, without payments, deadlines or requests: a     *)
(* slot has at most one use at a time, a use begins on a free slot, and a  *)
(* use that has ended never begins again.                                  *)
(***************************************************************************)
CONSTANTS Slots, Uses

VARIABLES
  using,  \* pairs of a slot and the use it is in
  ended   \* uses that are over

Init == using = {} /\ ended = {}

\* In one step uses may end, and others begin, each on a slot that is free.
Next ==
  LET begun == using' \ using
      over == using \ using'
  IN
  /\ using' \subseteq Slots \X Uses
  /\ ended' = ended \cup {p[2] : p \in over}
  /\ \A p \in begun :
       /\ p[2] \notin ended
       /\ \A q \in using \cup begun : q # p => q[1] # p[1] /\ q[2] # p[2]

Spec == Init /\ [][Next]_<<using, ended>>

=============================================================================
